------------------------------ MODULE Database ------------------------------
(***************************************************************************)
(* The configuration database of the firmware: the administrator of the    *)
(* common region and the presets (database/instance/impl/database.cpp) and *)
(* its flash storage (database/hwa/hw/hwa_hw.h), with power losses and     *)
(* failing writes at every step.                                           *)
(*                                                                         *)
(* Storage is emulated EEPROM (zlibs, external): a write is visible at     *)
(* once and durable, in the order of the writes, at the latest when the    *)
(* journal is flushed; formatting, and copying a page to or from the       *)
(* factory page, either happen or fail.                                    *)
(*                                                                         *)
(* The dispatcher is cooperative: a frame or signal is one step.  Other    *)
(* threads read presets through the same administrator, without a lock,    *)
(* and may be preempted between any two of its stores.                     *)
(***************************************************************************)
EXTENDS Naturals, Sequences

CONSTANTS
    NumPresets,  \* presets that fit the storage
    Readers,     \* threads other than the dispatcher that may read preset values
    MaxInputs,   \* bound: frames and requests
    MaxFaults,   \* bound: failing writes, flushes, formats and copies
    MaxLosses,   \* bound: power losses
    Apart        \* bound: with readers, nothing fails and no power is lost

ASSUME DatabaseAssumption == NumPresets \in Nat \ {0} /\ {MaxInputs, MaxFaults, MaxLosses} \subseteq Nat

Presets == 0 .. NumPresets - 1
CommonRegion == NumPresets  \* the layout of the common block
Values  == {"erased", "default", "user"}

VARIABLES
    flash,   \* what has been stored durably
    journal, \* writes that are visible and not known to be durable, each with what the storage holds after it
    factory, \* the factory snapshot, or NoSnapshot
    admin,   \* _active_context and _active_preset, and the layout LessDb works on
    hw,      \* the four flags of HwaHw
    signals, \* published and not yet handled
    host,    \* the configuration session and the backup or restore, as the coordinator sees them
    stage,   \* step of init() or factory_reset(), "run" between them
    calls,   \* what each reader does, and whether the dispatcher has ever come between two of its stores
    inputs, faults, losses

vars == <<flash, journal, factory, admin, hw, signals, host, stage, calls, inputs, faults, losses>>
bounds == <<inputs, faults, losses>>

\* The settings and data of the device: the signature, the stored active preset, preset preservation,
\* the rest of the common block and one value for each preset.
Erased == [uid |-> FALSE, active |-> 0, preserve |-> 0, common |-> "erased", data |-> [p \in Presets |-> "erased"]]
NoSnapshot == [Erased EXCEPT !.common = "none"]

Apply(cells, w) ==
    IF w.field = "data" THEN [cells EXCEPT !.data[w.preset] = w.value] ELSE [cells EXCEPT ![w.field] = w.value]
Visible == IF journal = <<>> THEN flash ELSE journal[Len(journal)].after
Journaled(w) == Append(journal, [write |-> w, after |-> Apply(Visible, w)])

Set(field, value) == [field |-> field, value |-> value]
SetData(p, value) == [field |-> "data", preset |-> p, value |-> value]

NoCall  == [at |-> "idle", preset |-> 0, overtaken |-> FALSE]
Stopped == [context |-> "Preset", active |-> 0, layout |-> 0]
HwInit  == [session |-> FALSE, backup |-> FALSE, bulk |-> FALSE, toCache |-> FALSE]
NoHost  == [open |-> FALSE, mode |-> "None"]

Init ==
    /\ flash = Erased /\ journal = <<>> /\ factory = NoSnapshot
    /\ admin = Stopped /\ hw = HwInit /\ signals = <<>> /\ host = NoHost
    /\ stage = [op |-> "init", at |-> "signature", next |-> 1]
    /\ calls \in {[r \in R |-> NoCall] : R \in SUBSET Readers}
    /\ inputs = 0 /\ faults = 0 /\ losses = 0

-----------------------------------------------------------------------------
\* The administrator: selecting a region changes the layout only when the region is not selected yet.

SelectCommon(a) ==
    IF a.context = "Common" THEN a ELSE [a EXCEPT !.layout = CommonRegion, !.context = "Common"]
SelectPreset(a, p) ==
    IF a.context = "Preset" /\ a.active = p THEN a ELSE [context |-> "Preset", active |-> p, layout |-> p]

\* A write goes where the layout is, whatever region was meant.
InCommon(a, field, value) == IF a.layout = CommonRegion THEN Set(field, value) ELSE SetData(a.layout, "user")
InPreset(a, value) == IF a.layout = CommonRegion THEN Set("common", value) ELSE SetData(a.layout, value)

Publish(event) == signals' = Append(signals, event)

\* HwaHw::write(): without caching, a write in a configuration session is flushed.
Flush == flash' = Visible /\ journal' = <<>>
Write(w) ==
    IF hw.toCache \/ ~hw.session
        THEN journal' = Journaled(w) /\ UNCHANGED flash
        ELSE flash' = Apply(Visible, w) /\ journal' = <<>>

\* A write that fails: nothing is stored, or the value is visible and the flush fails.
Alone == Apart => DOMAIN calls = {}
Fault == Alone /\ faults < MaxFaults /\ faults' = faults + 1 /\ UNCHANGED <<inputs, losses>>
WriteFails(w) ==
    /\ Fault
    /\ journal' \in {journal, Journaled(w)}
    /\ UNCHANGED flash
NoFault == UNCHANGED <<faults, losses>>

-----------------------------------------------------------------------------
\* init() and factory_reset(), one call of the storage at a time.

Goto(at) == stage' = [stage EXCEPT !.at = at, !.next = 1]
\* init() ends in the running system, factory_reset() in a handler that has the device restarted.
Finish == IF stage.op = "init" THEN stage' = [stage EXCEPT !.op = "run", !.at = "run", !.next = 1] ELSE Goto("done")
At(at) == stage.at = at /\ UNCHANGED <<host, calls, hw>>

\* is_signature_valid() and the choice that follows it in init()
CheckSignature ==
    /\ At("signature")
    /\ admin' = SelectCommon(admin)
    /\ Goto(IF Visible.uid THEN "load" ELSE IF factory # NoSnapshot THEN "restore" ELSE "clear")
    /\ UNCHANGED <<flash, journal, factory, signals, bounds>>

\* restore_factory_snapshot() and is_signature_valid(); whatever fails, the defaults are generated.
RestoreSnapshot ==
    /\ At("restore")
    /\ flash' = factory /\ journal' = <<>>
    /\ admin' = SelectCommon(admin)
    /\ Goto(IF factory.uid THEN "load" ELSE "clear")
    /\ UNCHANGED <<factory, signals, bounds>>

RestoreSnapshotFails ==
    /\ At("restore")
    /\ Fault
    /\ flash' = Erased /\ journal' = <<>>
    /\ Goto("clear")
    /\ UNCHANGED <<admin, factory, signals>>

\* Mutant: the signature is checked again before the defaults are generated.
ClearAndCheck ==
    /\ stage.at \in {"clearForSnapshot", "clear"} /\ UNCHANGED <<host, calls, hw>>
    /\ flash' = Erased /\ journal' = <<>>
    /\ Goto(IF stage.at = "clear" THEN "signature" ELSE "restore")
    /\ UNCHANGED <<admin, factory, signals, bounds>>
\* clear(): before a snapshot is restored by factory_reset(), or before the defaults are generated.
Clear ==
    /\ stage.at \in {"clearForSnapshot", "clear"} /\ UNCHANGED <<host, calls, hw>>
    /\ flash' = Erased /\ journal' = <<>>
    /\ Goto(IF stage.at = "clear" THEN "defaults" ELSE "restore")
    /\ UNCHANGED <<admin, factory, signals, bounds>>

ClearFails ==
    /\ stage.at \in {"clearForSnapshot", "clear"} /\ UNCHANGED <<host, calls, hw>>
    /\ Fault
    /\ Goto("failed")
    /\ UNCHANGED <<flash, journal, admin, factory, signals>>

\* initialize_default_data(): the common block, the presets from the last to the first, then the setting
\* that presets are not preserved and, last, the signature.  Each region is selected and then written.
\* Mutant: the signature is written with the common block.
DefaultsSignatureFirst ==
    <<Set("common", "default"), Set("uid", TRUE)>>
        \o [i \in 1 .. NumPresets |-> SetData(NumPresets - i, "default")] \o <<Set("preserve", 0)>>
Defaults ==
    <<Set("common", "default")>>
        \o [i \in 1 .. NumPresets |-> SetData(NumPresets - i, "default")]
        \o <<Set("preserve", 0), Set("uid", TRUE)>>
Select(w) == IF w.field = "data" THEN SelectPreset(admin, w.preset) ELSE SelectCommon(admin)

WriteDefault ==
    /\ At("defaults")
    /\ admin' = Select(Defaults[stage.next])
    /\ Write(Defaults[stage.next])
    /\ IF stage.next < Len(Defaults) THEN stage' = [stage EXCEPT !.next = @ + 1] ELSE Goto("snapshot")
    /\ UNCHANGED <<factory, signals, bounds>>

WriteDefaultFails ==
    /\ At("defaults")
    /\ admin' = Select(Defaults[stage.next])
    /\ WriteFails(Defaults[stage.next])
    /\ Goto("failed")
    /\ UNCHANGED <<factory, signals>>

\* store_factory_snapshot(): a failure is only logged.
StoreSnapshot ==
    /\ At("snapshot")
    /\ factory' = Visible
    /\ Finish
    /\ UNCHANGED <<flash, journal, admin, signals, bounds>>

StoreSnapshotFails ==
    /\ At("snapshot")
    /\ Fault
    /\ factory' = NoSnapshot
    /\ Finish
    /\ UNCHANGED <<flash, journal, admin, signals>>

\* load_stored_preset_state()
Load ==
    /\ At("load")
    /\ LET a == [SelectCommon(admin) EXCEPT !.active = Visible.active]
       IN  IF Visible.preserve = 1 \/ Visible.active = 0
               THEN admin' = SelectPreset(a, Visible.active) /\ UNCHANGED <<flash, journal>>
               ELSE admin' = SelectCommon(SelectPreset(a, 0)) /\ Write(Set("active", 0))
    /\ Finish
    /\ UNCHANGED <<factory, signals, bounds>>

LoadFails ==
    /\ At("load")
    /\ Visible.preserve = 0 /\ Visible.active # 0
    /\ WriteFails(Set("active", 0))
    /\ admin' = SelectCommon(SelectPreset([SelectCommon(admin) EXCEPT !.active = Visible.active], 0))
    /\ Goto("failed")
    /\ UNCHANGED <<factory, signals>>

\* factory_reset_done(): the signal; the coordinator restarts the device later.
ResetDone ==
    /\ At("done")
    /\ Publish("FactoryResetEnd")
    /\ Goto("restart")
    /\ UNCHANGED <<flash, journal, factory, admin, bounds>>

Storage ==
    \/ CheckSignature \/ RestoreSnapshot \/ RestoreSnapshotFails \/ Clear \/ ClearFails
    \/ WriteDefault \/ WriteDefaultFails \/ StoreSnapshot \/ StoreSnapshotFails
    \/ Load \/ LoadFails \/ ResetDone

-----------------------------------------------------------------------------
\* The dispatcher and the coordinator while the system runs.

\* A host sends nothing between a factory reset and the restart.
Overtaking == calls' = [r \in DOMAIN calls |-> [calls[r] EXCEPT !.overtaken = @ \/ calls[r].at # "idle"]]
Input == stage.op = "run" /\ inputs < MaxInputs /\ inputs' = inputs + 1 /\ Overtaking /\ UNCHANGED <<factory, stage>>
Kept  == UNCHANGED <<flash, journal>>

OpenSession ==
    /\ ~host.open
    /\ Input /\ NoFault
    /\ host' = [host EXCEPT !.open = TRUE]
    /\ Publish("ConfigurationSessionOpened")
    /\ Kept /\ UNCHANGED <<admin, hw>>

CloseSession ==
    /\ host.open /\ host.mode # "Restore"
    /\ Input /\ NoFault
    /\ host' = [host EXCEPT !.open = FALSE]
    /\ Publish("ConfigurationSessionClosed")
    /\ Kept /\ UNCHANGED <<admin, hw>>

\* A read of a common setting.
ReadCommon ==
    /\ Input /\ NoFault
    /\ admin' = SelectCommon(admin)
    /\ Kept /\ UNCHANGED <<host, hw, signals>>

\* update_preset() of the active preset, from a frame of the session.
UpdatePreset ==
    /\ host.open
    /\ Input /\ NoFault
    /\ admin' = SelectPreset(admin, admin.active)
    /\ Write(InPreset(admin', "user"))
    /\ UNCHANGED <<host, hw, signals>>

\* set_preset_preserve_state()
SetPreserve(state) ==
    /\ host.open
    /\ Input /\ NoFault
    /\ admin' = SelectCommon(admin)
    /\ Write(InCommon(admin', "preserve", state))
    /\ UNCHANGED <<host, hw, signals>>

\* set_preset(): from a frame, a Program Change or a preset request, or the backup.
SetPreset(p) ==
    /\ p \in Presets
    /\ Input /\ NoFault
    /\ admin' = SelectCommon(SelectPreset(admin, p))
    /\ Write(InCommon(admin', "active", p))
    /\ Publish("PresetChanged")
    /\ UNCHANGED <<host, hw>>

SetPresetFails(p) ==
    /\ stage.op = "run"
    /\ admin' = SelectCommon(SelectPreset(admin, p))
    /\ WriteFails(InCommon(admin', "active", p))
    /\ Overtaking
    /\ UNCHANGED <<factory, stage, host, hw, signals>>

\* start_backup(), finish_backup(), start_restore() and finish_restore() of the coordinator.  (What a restore
\* started during a backup does is a matter of System.)
StartMode(mode, event) ==
    /\ host.open /\ host.mode = "None"
    /\ Input /\ NoFault
    /\ host' = [host EXCEPT !.mode = mode]
    /\ Publish(event)
    /\ Kept /\ UNCHANGED <<admin, hw>>

FinishBackup ==
    /\ host.mode = "Backup"
    /\ Input /\ NoFault
    /\ host' = [host EXCEPT !.mode = "None"]
    /\ Publish("BackupEnd")
    /\ Kept /\ UNCHANGED <<admin, hw>>

FinishRestore ==
    /\ host.mode = "Restore"
    /\ stage.op = "run"
    /\ inputs < MaxInputs /\ inputs' = inputs + 1 /\ NoFault
    /\ host' = [host EXCEPT !.mode = "None"]
    /\ stage' = [op |-> "reset", at |-> "restart", next |-> 1]
    /\ Publish("RestoreEnd") /\ Overtaking
    /\ Kept /\ UNCHANGED <<admin, hw, factory>>

\* run_factory_reset(), after the teardown: factory_reset() starts.
StartReset ==
    /\ stage.op = "run"
    /\ inputs < MaxInputs /\ inputs' = inputs + 1 /\ NoFault
    /\ stage' = [op |-> "reset", at |-> IF factory # NoSnapshot THEN "clearForSnapshot" ELSE "clear", next |-> 1]
    /\ Publish("FactoryResetStart") /\ Overtaking
    /\ Kept /\ UNCHANGED <<admin, hw, host, factory>>

Dispatcher ==
    \/ OpenSession \/ CloseSession \/ ReadCommon \/ UpdatePreset
    \/ \E state \in {0, 1} : SetPreserve(state)
    \/ \E p \in 0 .. NumPresets : SetPreset(p)  \* PresetChangeIncReq asks for one more than the active one
    \/ \E p \in Presets : SetPresetFails(p)
    \/ StartMode("Backup", "BackupStart") \/ StartMode("Restore", "RestoreStart")
    \/ FinishBackup \/ FinishRestore \/ StartReset

\* The SystemSignal subscriber of HwaHw.  What a signal does to the flags, and whether it flushes.
Flushes(event) ==
    \/ event = "ConfigurationSessionClosed"
    \/ event = "PresetChanged" /\ ~hw.backup /\ ~hw.bulk /\ ~hw.session
    \/ event \in {"RestoreEnd", "FactoryResetEnd"} /\ hw.toCache
Flags(event) ==
    CASE event = "BackupStart" -> [hw EXCEPT !.backup = TRUE]
      [] event = "BackupEnd" -> [hw EXCEPT !.backup = FALSE]
      [] event = "RestoreStart" -> [hw EXCEPT !.backup = TRUE, !.bulk = TRUE, !.toCache = TRUE]
      [] event = "FactoryResetStart" -> [hw EXCEPT !.bulk = TRUE, !.toCache = TRUE]
      [] event = "RestoreEnd" -> [hw EXCEPT !.backup = FALSE, !.bulk = FALSE, !.toCache = FALSE]
      [] event = "FactoryResetEnd" -> [hw EXCEPT !.bulk = FALSE, !.toCache = FALSE]
      [] event = "ConfigurationSessionOpened" -> [hw EXCEPT !.session = TRUE]
      [] event = "ConfigurationSessionClosed" -> [hw EXCEPT !.session = FALSE]
      [] event = "PresetChanged" -> hw

HandleSignal ==
    /\ signals # <<>>
    /\ signals' = Tail(signals)
    /\ hw' = Flags(Head(signals))
    /\ IF Flushes(Head(signals)) THEN Flush ELSE Kept
    /\ UNCHANGED <<admin, factory, host, stage, calls, bounds>>

FlushFails ==
    /\ signals # <<>> /\ Flushes(Head(signals))
    /\ Fault
    /\ signals' = Tail(signals)
    /\ hw' = Flags(Head(signals))
    /\ Kept /\ UNCHANGED <<admin, factory, host, stage, calls>>

-----------------------------------------------------------------------------
\* A reader: read_preset() in the steps between which it can be preempted.

Step(r, from, to) ==
    /\ calls[r].at = from
    /\ calls' = [calls EXCEPT ![r].at = to]
    /\ UNCHANGED <<flash, journal, factory, hw, signals, host, stage, bounds>>

BeginRead(r) ==
    /\ stage.op = "run" /\ calls[r].at = "idle"
    /\ calls' = [calls EXCEPT ![r].at = IF admin.context = "Preset" THEN "idle" ELSE "layout",
                              ![r].preset = admin.active]
    /\ inputs < MaxInputs /\ inputs' = inputs + 1
    /\ UNCHANGED <<flash, journal, factory, admin, hw, signals, host, stage, faults, losses>>
SetLayout(r)    == Step(r, "layout", "preset")  /\ admin' = [admin EXCEPT !.layout = calls[r].preset]
StorePreset(r)  == Step(r, "preset", "context") /\ admin' = [admin EXCEPT !.active = calls[r].preset]
StoreContext(r) == Step(r, "context", "idle")   /\ admin' = [admin EXCEPT !.context = "Preset"]

Reader(r) == BeginRead(r) \/ SetLayout(r) \/ StorePreset(r) \/ StoreContext(r)

-----------------------------------------------------------------------------
\* The device starts again: some of the writes that were not flushed have become durable, in order.

PowerUp ==
    /\ flash' \in {flash} \cup {journal[i].after : i \in DOMAIN journal}
    /\ journal' = <<>>
    /\ admin' = Stopped /\ hw' = HwInit /\ signals' = <<>> /\ host' = NoHost
    /\ stage' = [op |-> "init", at |-> "signature", next |-> 1]
    /\ calls' = [r \in DOMAIN calls |-> NoCall]
    /\ UNCHANGED <<factory, inputs, faults>>

PowerLoss == Alone /\ losses < MaxLosses /\ losses' = losses + 1 /\ PowerUp

\* The reboot is delayed by REBOOT_DELAY_MS, in which the dispatcher handles what has been published.
Restart == stage.at = "restart" /\ signals = <<>> /\ PowerUp /\ UNCHANGED losses

Next == Storage \/ Dispatcher \/ HandleSignal \/ FlushFails \/ (\E r \in DOMAIN calls : Reader(r)) \/ PowerLoss \/ Restart

Spec == Init /\ [][Next]_vars

\* The thread that initializes or resets, and the dispatcher, run.
LiveSpec == Spec /\ WF_vars(Storage) /\ WF_vars(HandleSignal \/ FlushFails) /\ WF_vars(Restart)

-----------------------------------------------------------------------------
\* Properties.

\* Every variable holds what its type in the code admits.
Cells == [uid : BOOLEAN, active : Presets, preserve : {0, 1}, common : Values, data : [Presets -> Values]]
Ats == {"signature", "load", "restore", "clear", "clearForSnapshot", "defaults", "snapshot", "done",
        "restart", "failed", "run"}
TypeOK ==
    /\ flash \in Cells /\ Visible \in Cells /\ factory \in Cells \cup {NoSnapshot}
    /\ admin \in [context : {"Common", "Preset"}, active : Presets, layout : 0 .. NumPresets]
    /\ hw \in [session : BOOLEAN, backup : BOOLEAN, bulk : BOOLEAN, toCache : BOOLEAN]
    /\ host \in [open : BOOLEAN, mode : {"None", "Backup", "Restore"}]
    /\ stage \in [op : {"init", "run", "reset"}, at : Ats, next : 1 .. Len(Defaults)]
    /\ calls \in [DOMAIN calls -> [at : {"idle", "layout", "preset", "context"}, preset : Presets, overtaken : BOOLEAN]]

\* Whatever is lost when the power goes, a signature that is found valid stands for complete data: the
\* common block and every preset have been initialized.
Complete(cells) == cells.common # "erased" /\ \A p \in Presets : cells.data[p] # "erased"
SignatureMeansComplete == flash.uid => Complete(flash)

\* The factory snapshot, when there is one, is the defaults with a valid signature, never what a user wrote:
\* a factory reset that restores it needs nothing else.
SnapshotIsDefault ==
    factory # NoSnapshot =>
        factory = [uid |-> TRUE, active |-> 0, preserve |-> 0, common |-> "default", data |-> [p \in Presets |-> "default"]]

\* Once a session is closed, or a restore has ended, and the signals have been handled, what the host wrote
\* is durable, however the writes, the cached mode and the signals that steer it interleaved.
Unsaved == \E i \in DOMAIN journal : journal[i].write.field = "data" /\ journal[i].write.value = "user"
SavedWhenClosed ==
    signals = <<>> /\ ~host.open /\ host.mode = "None" /\ faults = 0 => ~Unsaved
RestoreSaved ==
    stage.at = "restart" /\ signals = <<>> /\ faults = 0 => ~Unsaved

\* A factory reset ends with the defaults.
ResetGivesDefaults ==
    stage.op = "reset" /\ stage.at = "done" =>
        Visible.uid /\ Visible.active = 0 /\ Visible.preserve = 0 /\ \A p \in Presets : Visible.data[p] = "default"

\* set_preset() selects a preset and stores it: while no write has failed, the selected preset is the stored
\* one and the layout is that of the selected region, whatever is read.  Excepted is a read that the dispatcher
\* has come into the middle of, since the stores of select_preset() are not one.
Undisturbed == \A r \in DOMAIN calls : ~calls[r].overtaken
ActiveIsStored == stage.op = "run" /\ faults = 0 /\ Undisturbed => admin.active = Visible.active
RegionSelected ==
    stage.op = "run" /\ Undisturbed /\ (\A r \in DOMAIN calls : calls[r].at = "idle") =>
        admin.layout = IF admin.context = "Common" THEN CommonRegion ELSE admin.active

\* Refuted.  database.h:177: set_preset() "Selects a new active preset and stores it in the common region."
ActiveStaysStored ==
    stage.op = "run" /\ faults = 0 /\ (\A r \in DOMAIN calls : calls[r].at = "idle") => admin.active = Visible.active

\* What the storage is worth across sessions, restores, resets, failures and power losses: a signature stands
\* for complete data, the snapshot for the defaults, and what a host wrote lasts.
DatabaseSafe ==
    /\ TypeOK
    /\ SignatureMeansComplete
    /\ SnapshotIsDefault
    /\ SavedWhenClosed
    /\ RestoreSaved
    /\ ResetGivesDefaults
    /\ ActiveIsStored
    /\ RegionSelected

\* The device starts, whatever was interrupted or lost, unless a write keeps failing.
Starts == stage.op = "init" ~> (stage.op = "run" \/ stage.at = "failed")
=============================================================================
