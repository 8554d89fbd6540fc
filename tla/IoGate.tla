------------------------------- MODULE IoGate -------------------------------
(***************************************************************************)
(* The gate that freezes and resumes the I/O threads                       *)
(* (firmware/src/io/base.h; protocol/base.h has the same code): an atomic  *)
(* flag and a counting semaphore.  System only sees the flag; this module  *)
(* shows what the flag is worth to the threads.                            *)
(*                                                                         *)
(* The workqueue freezes and resumes; the dispatcher, which preempts it,   *)
(* only freezes (start_backup, start_restore).  One step is one operation  *)
(* on the flag or on the semaphore.                                        *)
(***************************************************************************)
EXTENDS Naturals, FiniteSets

CONSTANTS
    Workers,  \* threads that call wait_until_running()
    Count,    \* Io::Count, the tokens given by one resume()
    Limit     \* K_SEM_MAX_LIMIT

ASSUME GateAssumption ==
    /\ IsFiniteSet(Workers)
    /\ Count \in Nat /\ Limit \in Nat
    /\ Cardinality(Workers) <= Count /\ Count <= Limit

VARIABLES
    frozen, \* Base::frozen
    tokens, \* count of resume_semaphore
    gives,  \* tokens that resume() has still to give
    worker  \* what each worker does: an iteration, the check of the flag, or k_sem_take()

vars == <<frozen, tokens, gives, worker>>

Init ==
    /\ frozen = TRUE
    /\ tokens = 0
    /\ gives = 0
    /\ worker = [w \in Workers |-> "check"]

\* freeze(), by the dispatcher or by the workqueue
Freeze ==
    /\ frozen' = TRUE
    /\ UNCHANGED <<tokens, gives, worker>>

\* Mutant: one token less than there are workers.
ResumeShort ==
    /\ gives = 0
    /\ frozen' = FALSE
    /\ gives' = IF frozen THEN Cardinality(Workers) - 1 ELSE 0
    /\ UNCHANGED <<tokens, worker>>
\* resume() of the workqueue: the flag is exchanged, and tokens are given only if it was set.
Resume ==
    /\ gives = 0
    /\ frozen' = FALSE
    /\ gives' = IF frozen THEN Count ELSE 0
    /\ UNCHANGED <<tokens, worker>>

\* k_sem_give(): nothing is added at the limit.
Give ==
    /\ gives > 0
    /\ gives' = gives - 1
    /\ tokens' = IF tokens < Limit THEN tokens + 1 ELSE tokens
    /\ UNCHANGED <<frozen, worker>>

\* An iteration of a worker ends.
Iterate(w) ==
    /\ worker[w] = "work"
    /\ worker' = [worker EXCEPT ![w] = "check"]
    /\ UNCHANGED <<frozen, tokens, gives>>

\* wait_until_running(): the condition of the loop.
Check(w) ==
    /\ worker[w] = "check"
    /\ worker' = [worker EXCEPT ![w] = IF frozen THEN "take" ELSE "work"]
    /\ UNCHANGED <<frozen, tokens, gives>>

\* k_sem_take(): waits for a token.  One that was given earlier and not used is as good.
Take(w) ==
    /\ worker[w] = "take"
    /\ tokens > 0
    /\ tokens' = tokens - 1
    /\ worker' = [worker EXCEPT ![w] = "check"]
    /\ UNCHANGED <<frozen, gives>>

Next == Freeze \/ Resume \/ Give \/ \E w \in Workers : Iterate(w) \/ Check(w) \/ Take(w)

Spec == Init /\ [][Next]_vars

-----------------------------------------------------------------------------
\* Properties.

\* The semaphore stays within its limit, resume() gives at most Count tokens, and a worker is at a step of
\* its loop.
TypeOK ==
    /\ frozen \in BOOLEAN
    /\ tokens \in 0 .. Limit
    /\ gives \in 0 .. Count
    /\ worker \in [Workers -> {"work", "check", "take"}]

Waiting == {w \in Workers : worker[w] = "take"}

\* While the flag is clear there is a token, given or about to be given, for every worker that has seen it
\* set: Count tokens are enough although a freeze may fall between them and workers may use up old ones.
EnoughTokens == ~frozen => Cardinality(Waiting) <= tokens + gives

\* No wake-up is lost: a worker is never blocked while I/O is running and resume() has returned.
NoLostWakeup == ~frozen /\ gives = 0 => \A w \in Waiting : tokens > 0

\* The gate wakes every worker: the semaphore stays in its range and no worker is left behind.
GateSafe == TypeOK /\ EnoughTokens /\ NoLostWakeup

\* A token left over from an earlier resume never starts an iteration in a freeze: a worker goes to work
\* only when it has found the flag clear.
StartsRunning == \A w \in Workers : worker[w] # "work" /\ worker'[w] = "work" => ~frozen
StartsOnlyWhenRunning == [][StartsRunning]_vars

\* No step of the gate leaves a worker behind that should wake, or starts one that should wait.
GateWorks == [][GateSafe' /\ StartsRunning]_vars
=============================================================================
