--------------------------- MODULE UpdateContract ---------------------------
(***************************************************************************)
(* What a firmware update promises, whatever the flash it is stored in and *)
(* wherever power is lost: a package is staged whole or not at all, the    *)
(* image is replaced by the pending package and nothing else, and the      *)
(* package is not given up while the image is incomplete.                  *)
(***************************************************************************)
EXTENDS Sequences

CONSTANT Payload

VARIABLES
    image,       \* the image installed in the slot, <<>> while incomplete
    startable,   \* MCUboot would start what is in the slot (a slot that is
                 \* being rewritten with the image it held may be startable)
    pending,     \* the staged package, <<>> when there is none
    recovering,  \* the slot was last written by a recovery upload
    faulty       \* a flash operation has failed

vars == <<image, startable, pending, recovering, faulty>>

Init ==
    /\ image \in Payload \ {<<>>}
    /\ startable = TRUE
    /\ pending = <<>>
    /\ recovering = TRUE
    /\ faulty = FALSE

\* A flash operation may fail at any step.
MayFail == faulty' \in {faulty, TRUE}

\* The application commits an upload.
Stage ==
    /\ pending = <<>>
    /\ pending' \in Payload \ {<<>>}
    /\ MayFail
    /\ UNCHANGED <<image, startable, recovering>>

\* A staged package is given up: for a new upload, or once it is installed.
\* While the device cannot start, only because the flash failed or because the
\* image is being replaced by a recovery upload.
Discard ==
    /\ pending' = <<>>
    /\ image # <<>> \/ startable \/ recovering \/ faulty
    /\ MayFail
    /\ UNCHANGED <<image, startable, recovering>>

StartInstall ==
    /\ pending # <<>>
    /\ image' = <<>>
    /\ startable' \in BOOLEAN
    /\ recovering' = FALSE
    /\ MayFail
    /\ UNCHANGED pending

Install ==
    /\ ~recovering
    /\ pending # <<>>
    /\ image = <<>>
    /\ image' = pending
    /\ MayFail
    /\ UNCHANGED <<startable, pending, recovering>>

StartRecovery ==
    /\ image' = <<>>
    /\ startable' \in BOOLEAN
    /\ recovering' = TRUE
    /\ MayFail
    /\ UNCHANGED pending

Recover ==
    /\ recovering
    /\ image = <<>>
    /\ image' \in Payload \ {<<>>}
    /\ MayFail
    /\ UNCHANGED <<startable, pending, recovering>>

\* An incomplete image changes under the writer.
Rewrite ==
    /\ image = <<>>
    /\ startable' \in BOOLEAN
    /\ MayFail
    /\ UNCHANGED <<image, pending, recovering>>

Fail ==
    /\ faulty' = TRUE
    /\ UNCHANGED <<image, startable, pending, recovering>>

Next ==
    \/ Stage \/ Discard
    \/ StartInstall \/ Install
    \/ StartRecovery \/ Recover
    \/ Rewrite \/ Fail

Spec == Init /\ [][Next]_vars
=============================================================================
