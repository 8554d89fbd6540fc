------------------------------- MODULE System -------------------------------
(***************************************************************************)
(* The system coordinator of the firmware                                  *)
(* (firmware/src/system/instance/impl/system.cpp): the configuration       *)
(* session, backup and restore, staged forced refresh, factory reset and   *)
(* reboot, and the freezing of the I/O threads that goes with them.        *)
(*                                                                         *)
(* Two threads share the coordinator's fields without a lock.  The         *)
(* dispatcher runs every subscriber of a signal, one signal at a time; it  *)
(* is cooperative, so a handler is one step here.  The system workqueue    *)
(* runs one work item at a time and the dispatcher may preempt it anywhere:*)
(* an item is split where a check, a store or a publication of it is       *)
(* separated from the next by a point where that matters.                  *)
(*                                                                         *)
(* Delays are not modelled: a work item that has been scheduled may run at *)
(* any later time.  One packet stands for one SysEx frame.                 *)
(***************************************************************************)
EXTENDS Naturals, Sequences, FiniteSets

CONSTANTS
    NumPresets,     \* supported_presets()
    NumSections,    \* sections find_next_backup_section() does not skip
    NumComponents,  \* batches of one forced refresh, over all I/O subsystems
    NumSockets,     \* session ids of WebSockets clients are 1..NumSockets
    TokenWords,     \* CONFIG_UNLOCK_TOKEN_WORDS
    QueueCapacity,  \* RESTORE_QUEUE_PACKET_COUNT
    MaxInputs,      \* bound: signals delivered to the dispatcher from outside
    Kinds,          \* the requests the hosts of a run make
    Causes          \* the refreshes that are requested in a run

Presets  == 0 .. NumPresets - 1
Sections == 0 .. NumSections - 1
Transports == {"Usb", "WebSockets"}

\* ConfigSession: the transport that owns the session and its session id.
Clients == {[transport |-> "Usb", id |-> 0]}
    \cup {[transport |-> "WebSockets", id |-> i] : i \in 1 .. NumSockets}
UsbClient == [transport |-> "Usb", id |-> 0]

\* The frames a host may send: a kind and the value it carries.
RequestKinds == {"Open", "Close", "Get", "WordOk", "WordBad", "RebootApp", "RebootBootloader", "FactoryReset",
                 "Backup", "RestoreStart", "RestoreEnd", "SetPreset", "SetRefreshDisabled", "SetProgramChangeIn"}
Arguments(kind) ==
    CASE kind \in {"WordOk", "WordBad"} -> 0 .. TokenWords - 1
      [] kind = "SetPreset" -> Presets
      [] kind \in {"SetRefreshDisabled", "SetProgramChangeIn"} -> {0, 1}
      [] OTHER -> {0}
Requests == UNION {[kind : {k}, arg : Arguments(k)] : k \in Kinds}

RefreshTypes == {"UsbInit", "NetworkInit", "OscRequest", "PresetChange"}
Phases == {"Idle", "RestoreStart", "PresetSelect", "PresetData", "RestoreCurrentPreset", "RestoreEnd", "FinalAck"}
Works == {"Refresh", "IoResume", "FactoryReset", "Backup", "Restore", "Reboot", "Close"}
Steps == {"idle", "startRefresh", "refreshBatch", "clearRefresh", "resumeIo", "backupEnd", "restore",
          "factoryReset", "reboot", "closeConnection", "announceClosed"}

ASSUME SystemAssumption ==
    /\ NumPresets \in Nat \ {0} /\ TokenWords \in Nat \ {0}
    /\ NumSections \in Nat /\ NumComponents \in Nat /\ NumSockets \in Nat
    /\ QueueCapacity \in Nat /\ MaxInputs \in Nat
    /\ Kinds \subseteq RequestKinds
    /\ Causes \subseteq RefreshTypes

VARIABLES
    sys,      \* the coordinator's fields, the database settings it reads and the scheduled work items
    worker,   \* what the workqueue thread does next
    reported, \* preset whose values the last refresh of each component sent
    inputs    \* signals delivered so far

vars == <<sys, worker, reported, inputs>>

NoRefresh == [active |-> FALSE, next |-> 1, type |-> "UsbInit"]
NoBackup  == [active |-> FALSE, phase |-> "Idle", current |-> 0, preset |-> 0, section |-> 0, exported |-> {}]

\* init(): the fields after start-up.  The two settings live in the database and survive; the preset does
\* not, because the setting that preserves it is off.
Boot(refreshDisabled, programChangeIn) ==
    [enabled |-> FALSE, client |-> UsbClient, told |-> "Closed",
     word |-> 0, unlocked |-> FALSE,
     mode |-> "None", backup |-> NoBackup, queue |-> <<>>,
     frozen |-> TRUE, components |-> TRUE, refresh |-> NoRefresh,
     preset |-> 0, refreshDisabled |-> refreshDisabled, programChangeIn |-> programChangeIn,
     pending |-> {"IoResume"}, rebooting |-> FALSE, target |-> "Application"]

Init ==
    /\ \E r, p \in {0, 1} : sys = Boot(r, p)
    /\ worker = "idle"
    /\ reported = [c \in 1 .. NumComponents |-> 0]
    /\ inputs = 0

-----------------------------------------------------------------------------
\* Operations of the coordinator, each from the fields before to the fields after.

Schedule(s, work) == [s EXCEPT !.pending = @ \cup {work}]
Cancel(s, work)   == [s EXCEPT !.pending = @ \ {work}]

\* publish_configuration_session_state(): subscribers hold what was published last.
Announce(s, event) == [s EXCEPT !.told = event]

ScheduleRefresh(s, type) == Schedule([s EXCEPT !.refresh.type = type], "Refresh")

\* Admin::set_preset() and DatabaseHandlers::preset_change()
SetPreset(s, preset) ==
    LET t == [s EXCEPT !.preset = preset]
    IN  IF t.components /\ t.mode = "None" THEN ScheduleRefresh(t, "PresetChange") ELSE t

FirstStep(s) ==
    [active |-> TRUE, phase |-> "RestoreStart", current |-> s.preset, preset |-> 0, section |-> 0, exported |-> {}]
\* Mutant: the first step of the backup is not scheduled.
StartBackupIdle(s) ==
    [Cancel(s, "Close") EXCEPT
        !.mode   = "Backup",
        !.backup = FirstStep(s),
        !.frozen = TRUE]
StartBackup(s) ==
    Schedule([Cancel(s, "Close") EXCEPT
                 !.mode   = "Backup",
                 !.backup = FirstStep(s),
                 !.frozen = TRUE], "Backup")

StartRestore(s) ==
    [Cancel(s, "Close") EXCEPT !.frozen = TRUE, !.queue = <<>>, !.mode = "Restore"]

ScheduleReboot(s, target) ==
    Schedule([s EXCEPT !.target = target, !.rebooting = TRUE], "Reboot")

FinishRestore(s) == ScheduleReboot([s EXCEPT !.mode = "None"], "Application")

\* process_config_unlock_word(): a wrong index or a wrong value locks again.
ProcessUnlockWord(s, index, correct) ==
    IF index # s.word \/ ~correct
        THEN [s EXCEPT !.word = 0, !.unlocked = FALSE]
        ELSE [s EXCEPT !.word = (index + 1) % TokenWords,
                       !.unlocked = @ \/ index + 1 = TokenWords]

\* What the callbacks of SysExDataHandler do for a frame that is obeyed.
Obey(s, r) ==
    CASE r.kind = "Open" -> [s EXCEPT !.enabled = TRUE]
      [] r.kind = "Close" -> [s EXCEPT !.enabled = FALSE]
      [] r.kind = "Get" -> s
      [] r.kind = "WordOk" -> ProcessUnlockWord(s, r.arg, TRUE)
      [] r.kind = "WordBad" -> ProcessUnlockWord(s, r.arg, FALSE)
      [] r.kind = "RebootApp" -> ScheduleReboot(s, "Application")
      [] r.kind = "RebootBootloader" -> ScheduleReboot(s, "Bootloader")
      [] r.kind = "FactoryReset" -> Schedule(s, "FactoryReset")
      [] r.kind = "Backup" -> IF s.mode = "Backup" \/ s.backup.active THEN s ELSE StartBackup(s)
      [] r.kind = "RestoreStart" -> StartRestore(s)
      [] r.kind = "RestoreEnd" -> FinishRestore(s)
      [] r.kind = "SetPreset" -> SetPreset(s, r.arg)
      [] r.kind = "SetRefreshDisabled" -> [s EXCEPT !.refreshDisabled = r.arg]
      [] r.kind = "SetProgramChangeIn" -> [s EXCEPT !.programChangeIn = r.arg]

\* SysExConf::handle_packet(): only Open is obeyed without a session, and some frames need it unlocked.
Unprivileged == {"Open", "Close", "Get", "WordOk", "WordBad", "RebootApp"}
Handle(s, r) ==
    IF r.kind = "Open" \/ (s.enabled /\ (r.kind \in Unprivileged \/ s.unlocked)) THEN Obey(s, r) ELSE s

\* update_sysex_configuration_session()
UpdateSession(s, wasOpen) ==
    IF s.enabled
        THEN LET t == IF wasOpen THEN s ELSE Announce(s, "Opened")
             IN  IF t.mode = "None" THEN Schedule(t, "Close") ELSE Cancel(t, "Close")
        ELSE LET t == IF wasOpen THEN Announce(s, "Closed") ELSE s
             IN  Cancel(t, "Close")

\* Mutant: a packet is queued and the work item is not scheduled.
QueuedSilently(s, r) == [s EXCEPT !.queue = Append(@, r)]
\* queue_restore_packet(); the second is its result.
Queued(s, r)  == Schedule([s EXCEPT !.queue = Append(@, r)], "Restore")
HasRoom(s)    == Len(s.queue) < QueueCapacity

\* can_accept_config_transport(): an active session is not given to another transport.
SessionActive(s) == s.enabled \/ s.mode # "None"
\* Mutant: a backup or restore whose session has been closed does not count.
CanAcceptUnlessOpen(s, transport) == s.enabled => s.client.transport = transport
CanAccept(s, transport) == SessionActive(s) => s.client.transport = transport

-----------------------------------------------------------------------------
\* The dispatcher: each signal is handled in one step.

Deliver == inputs < MaxInputs /\ inputs' = inputs + 1 /\ UNCHANGED <<worker, reported>>

\* The UmpSignal subscriber on a SysEx packet.
HandleUsbSysEx(r) ==
    /\ Deliver
    /\ ~sys.rebooting
    /\ CanAccept(sys, "Usb")
    /\ LET t == [sys EXCEPT !.client = UsbClient]
       IN  sys' = IF t.mode # "Restore" THEN UpdateSession(Handle(t, r), t.enabled)
                  ELSE IF HasRoom(t) THEN Queued(t, r) ELSE t

\* handle_config_request() for a WebSockets client.
HandleConfigRequest(client, r) ==
    /\ Deliver
    /\ ~sys.rebooting
    /\ CanAccept(sys, client.transport)
    /\ LET t == [sys EXCEPT !.client = client]
       IN  sys' = IF t.mode # "Restore" THEN UpdateSession(Handle(t, r), t.enabled)
                  ELSE IF HasRoom(t) THEN UpdateSession(Queued(t, r), t.enabled) ELSE t

\* handle_config_disconnect()
HandleConfigDisconnect(client) ==
    /\ Deliver
    /\ sys.client = client
    /\ sys.enabled
    /\ sys.mode = "None"
    /\ sys' = Announce([Cancel(sys, "Close") EXCEPT !.enabled = FALSE], "Closed")

\* The UmpSignal subscriber on a Program Change.
ProgramChangeIn(preset) ==
    /\ Deliver
    /\ sys.programChangeIn = 1
    /\ sys' = SetPreset(sys, preset)

\* The SystemSignal subscriber on PresetChangeIncReq, PresetChangeDecReq and PresetChangeDirectReq.
PresetChangeReq(preset) == Deliver /\ sys' = SetPreset(sys, preset)

\* The subscribers of UsbMidiReady, NetworkIdentitySignal and OscRefreshReq.
RefreshReq(type) == Deliver /\ sys' = ScheduleRefresh(sys, type)

BootloaderRebootReq == Deliver /\ sys' = ScheduleReboot(sys, "Bootloader")

Dispatcher ==
    \/ \E r \in Requests : HandleUsbSysEx(r)
    \/ \E client \in Clients \ {UsbClient} :
          HandleConfigDisconnect(client) \/ \E r \in Requests : HandleConfigRequest(client, r)
    \/ \E preset \in Presets : ProgramChangeIn(preset) \/ PresetChangeReq(preset)
    \/ \E type \in Causes : RefreshReq(type)
    \/ BootloaderRebootReq

-----------------------------------------------------------------------------
\* The system workqueue.  Taking an item clears its schedule; the item may be scheduled again while it runs.

Take(work, step) ==
    /\ worker = "idle"
    /\ work \in sys.pending
    /\ worker' = step
    /\ UNCHANGED inputs

At(step, next) == worker = step /\ worker' = next /\ UNCHANGED inputs

\* force_component_refresh(): the checks.
RefreshRefused ==
    \/ sys.mode # "None"
    \/ sys.refresh.type = "PresetChange" /\ sys.refreshDisabled = 1
RunRefresh ==
    /\ Take("Refresh", IF RefreshRefused
                           THEN IF sys.refresh.active THEN "clearRefresh" ELSE "idle"
                           ELSE IF sys.refresh.active THEN "refreshBatch" ELSE "startRefresh")
    /\ sys' = Cancel(sys, "Refresh")
    /\ UNCHANGED reported

\* start_forced_refresh()
StartRefresh ==
    /\ At("startRefresh", "refreshBatch")
    /\ sys' = [sys EXCEPT !.refresh.active = TRUE, !.refresh.next = 1, !.frozen = TRUE]
    /\ UNCHANGED reported

\* The loop body: one batch, then the item is scheduled again.  The last subsystem, Indicators,
\* has no components, so the end of the components is found by a run of its own.
RefreshBatch ==
    /\ sys.refresh.next <= NumComponents
    /\ At("refreshBatch", "idle")
    /\ reported' = [reported EXCEPT ![sys.refresh.next] = sys.preset]
    /\ sys' = Schedule([sys EXCEPT !.refresh.next = @ + 1], "Refresh")

RefreshDone ==
    /\ sys.refresh.next > NumComponents
    /\ At("refreshBatch", "clearRefresh")
    /\ UNCHANGED <<sys, reported>>

\* finish_forced_refresh(): the session is cleared, then I/O resumes.
ClearRefresh ==
    /\ At("clearRefresh", "resumeIo")
    /\ sys' = [sys EXCEPT !.refresh = NoRefresh]
    /\ UNCHANGED reported

ResumeIo ==
    /\ At("resumeIo", "idle")
    /\ sys' = [sys EXCEPT !.frozen = FALSE]
    /\ UNCHANGED reported

\* _io_resume_work
RunIoResume ==
    /\ Take("IoResume", "idle")
    /\ sys' = [Cancel(sys, "IoResume") EXCEPT !.frozen = FALSE]
    /\ UNCHANGED reported

AllPresetsDone(b) == b.preset \notin Presets

\* run_backup_step(): the phase it executes and the one it leaves.
BackupStep(s) ==
    LET b == s.backup
        Then(t, phase) == [t EXCEPT !.backup.phase = phase]
    IN  CASE b.phase = "RestoreStart" -> Then(s, "PresetSelect")
          [] b.phase = "PresetSelect" ->
                IF AllPresetsDone(b) THEN Then(s, "RestoreCurrentPreset")
                ELSE Then([SetPreset(s, b.preset) EXCEPT !.backup.section = 0], "PresetData")
          [] b.phase = "PresetData" ->
                IF b.section \notin Sections
                    THEN Then([s EXCEPT !.backup.preset = @ + 1], "PresetSelect")
                    ELSE [s EXCEPT !.backup.section = @ + 1,
                                   !.backup.exported = @ \cup
                                       {[preset |-> b.preset, section |-> b.section,
                                         from |-> s.preset, open |-> s.enabled]}]
          [] b.phase = "RestoreCurrentPreset" -> Then(SetPreset(s, b.current), "RestoreEnd")
          [] b.phase = "RestoreEnd" -> Then(s, "FinalAck")

RunBackup ==
    /\ sys.backup.phase # "FinalAck"
    /\ Take("Backup", "idle")
    /\ sys' = IF sys.backup.active THEN Schedule(BackupStep(sys), "Backup") ELSE Cancel(sys, "Backup")
    /\ UNCHANGED reported

\* The FinalAck phase and finish_backup() up to the state; then I/O resumes and the session timer starts.
FinishBackup ==
    /\ sys.backup.phase = "FinalAck"
    /\ Take("Backup", "backupEnd")
    /\ sys' = [Cancel(sys, "Backup") EXCEPT !.backup.active = FALSE, !.backup.phase = "Idle", !.mode = "None"]
    /\ UNCHANGED reported

ResumeAfterBackup ==
    /\ At("backupEnd", "idle")
    /\ LET t == [sys EXCEPT !.frozen = FALSE]
       IN  sys' = IF t.enabled THEN Schedule(t, "Close") ELSE t
    /\ UNCHANGED reported

\* run_restore_step(): packets until the queue is empty.
RunRestore ==
    /\ Take("Restore", "restore")
    /\ sys' = Cancel(sys, "Restore")
    /\ UNCHANGED reported

RestorePacket ==
    /\ sys.queue # <<>>
    /\ At("restore", "restore")
    /\ sys' = Handle([sys EXCEPT !.queue = Tail(@)], Head(sys.queue))
    /\ UNCHANGED reported

RestoreDrained ==
    /\ sys.queue = <<>>
    /\ At("restore", "idle")
    /\ UNCHANGED <<sys, reported>>

\* run_factory_reset(): teardown, then the database, which reports its end only when it succeeded.
RunFactoryReset ==
    /\ Take("FactoryReset", "factoryReset")
    /\ LET t == Cancel(sys, "FactoryReset")
       IN  sys' = IF t.components THEN [t EXCEPT !.frozen = TRUE, !.components = FALSE] ELSE t
    /\ UNCHANGED reported

FactoryResetDone ==
    /\ At("factoryReset", "idle")
    /\ sys' = ScheduleReboot([sys EXCEPT !.preset = 0, !.refreshDisabled = 0, !.programChangeIn = 0], "Application")
    /\ UNCHANGED reported

FactoryResetFailed == At("factoryReset", "idle") /\ UNCHANGED <<sys, reported>>

\* _reboot_work: prepare_for_reboot(), then the reboot.  The device starts again in a later step.
RunReboot ==
    /\ Take("Reboot", "reboot")
    /\ LET t == Cancel(sys, "Reboot")
       IN  sys' = IF t.enabled THEN Announce([Cancel(t, "Close") EXCEPT !.enabled = FALSE], "Closed") ELSE t
    /\ UNCHANGED reported

Reboot ==
    /\ At("reboot", "idle")
    /\ sys' = Boot(sys.refreshDisabled, sys.programChangeIn)
    /\ reported' = [c \in DOMAIN reported |-> 0]

\* close_inactive_sysex_configuration_session()
RunClose ==
    /\ Take("Close", IF sys.enabled /\ sys.mode = "None" THEN "closeConnection" ELSE "idle")
    /\ sys' = Cancel(sys, "Close")
    /\ UNCHANGED reported

CloseConnection ==
    /\ At("closeConnection", "announceClosed")
    /\ sys' = [sys EXCEPT !.enabled = FALSE]
    /\ UNCHANGED reported

AnnounceClosed ==
    /\ At("announceClosed", "idle")
    /\ sys' = Announce(sys, "Closed")
    /\ UNCHANGED reported

RunItem ==
    RunRefresh \/ RunIoResume \/ RunBackup \/ FinishBackup \/ RunRestore \/ RunFactoryReset \/ RunReboot \/ RunClose
RunStep ==
    \/ StartRefresh \/ RefreshBatch \/ RefreshDone \/ ClearRefresh \/ ResumeIo
    \/ ResumeAfterBackup \/ RestorePacket \/ RestoreDrained
    \/ FactoryResetDone \/ FactoryResetFailed \/ Reboot \/ CloseConnection \/ AnnounceClosed

Next == Dispatcher \/ RunItem \/ RunStep

Spec == Init /\ [][Next]_vars

\* The workqueue thread runs while there is work.  No more is needed: an item schedules another only so
\* many times, and inputs are bounded, so none is passed over for ever.
LiveSpec == Spec /\ WF_vars(RunItem \/ RunStep)

-----------------------------------------------------------------------------
\* Properties.

\* The fields hold what their types in system.h admit, and the workqueue is at a step of the items above.
BackupType ==
    [active : BOOLEAN, phase : Phases, current : Presets, preset : 0 .. NumPresets, section : 0 .. NumSections,
     exported : SUBSET [preset : Presets, section : Sections, from : Presets, open : BOOLEAN]]
RefreshType == [active : BOOLEAN, next : 1 .. NumComponents + 1, type : RefreshTypes]
SysType ==
    [enabled : BOOLEAN, client : Clients, told : {"Opened", "Closed"},
     word : 0 .. TokenWords - 1, unlocked : BOOLEAN,
     mode : {"None", "Backup", "Restore"}, backup : BackupType, queue : Seq(Requests),
     frozen : BOOLEAN, components : BOOLEAN, refresh : RefreshType,
     preset : Presets, refreshDisabled : {0, 1}, programChangeIn : {0, 1},
     pending : SUBSET Works, rebooting : BOOLEAN, target : {"Application", "Bootloader"}]
TypeOK ==
    /\ sys \in SysType
    /\ Len(sys.queue) <= QueueCapacity
    /\ worker \in Steps
    /\ reported \in [1 .. NumComponents -> Presets]
    /\ inputs \in 0 .. MaxInputs

\* A session of work that has been started has a work item that will continue it: an active refresh or
\* backup, a packet in the restore queue and a requested reboot are never left without one, whatever the
\* dispatcher schedules, cancels or starts between the steps of an item.
NothingStranded ==
    /\ sys.refresh.active =>
          "Refresh" \in sys.pending \/ worker \in {"refreshBatch", "clearRefresh"}
    /\ sys.backup.active => "Backup" \in sys.pending
    /\ sys.queue # <<>> => "Restore" \in sys.pending \/ worker = "restore"
    /\ sys.rebooting => "Reboot" \in sys.pending \/ worker = "reboot"

\* The I/O threads are frozen only while something that will resume them, or restart the device, is under
\* way: start-up, a refresh, a backup or restore, a reboot, or a teardown for a factory reset.
FrozenForAReason ==
    sys.frozen =>
        \/ "IoResume" \in sys.pending
        \/ sys.refresh.active \/ worker = "resumeIo"
        \/ sys.mode # "None" \/ worker = "backupEnd"
        \/ sys.rebooting
        \/ ~sys.components

\* A session that was announced as open and is open, outside backup and restore, has its inactivity timer
\* running, or the workqueue is about to close it or to start the timer, or the device is about to restart.
\* Only a restore packet that is handled after its restore has been cut short leaves it without: it may open
\* a session behind the announcements.
Timed ==
    sys.enabled /\ sys.told = "Opened" /\ sys.mode = "None" =>
        "Close" \in sys.pending \/ worker \in {"closeConnection", "backupEnd"} \/ sys.rebooting
StaysTimed == Timed => Timed' \/ RestorePacket
SessionStaysTimed == [][StaysTimed]_vars

\* A backup that reaches its end marker has run the export of every section of every preset: of what that read and
\* sent, only the preset selected then is recorded, and not that the host has received it.
BackupComplete ==
    sys.backup.phase \in {"RestoreCurrentPreset", "RestoreEnd", "FinalAck"} =>
        {<<e.preset, e.section>> : e \in sys.backup.exported} = Presets \X Sections

\* While a session, a backup or a restore is active, no other transport takes it over: a frame of another
\* transport, a disconnect and the steps of the workqueue all leave the owner's transport in place.
KeepsTransport == SessionActive(sys) /\ worker # "reboot" => sys'.client.transport = sys.client.transport
SessionOwned == [][KeepsTransport]_vars

\* Whatever the dispatcher handles between two steps of the workqueue, started work is continued, I/O is
\* frozen for a reason, and a backup that ends is complete.
SystemSafe == TypeOK /\ NothingStranded /\ FrozenForAReason /\ BackupComplete

\* An active session keeps its transport and its inactivity timer.
SessionKept == [][KeepsTransport /\ StaysTimed]_vars

\* Frozen I/O resumes, or a restore waits for its host, or the teardown of a factory reset has failed.
IoResumes == sys.frozen ~> (~sys.frozen \/ sys.mode = "Restore" \/ ~sys.components)

\* A backup ends, also when its session is closed, its preset is changed or a refresh was under way.
BackupEnds == sys.mode = "Backup" ~> sys.mode # "Backup"

\* A requested reboot takes place.
RebootHappens == sys.rebooting ~> ~sys.rebooting

\* What freezes I/O, takes the backup mode or asks for a reboot comes to its end.
WorkEnds == IoResumes /\ BackupEnds /\ RebootHappens

\* Refuted.  tests/src/hardware/hardware_test.cpp:691 asserts that after a preset change the state of every
\* component is sent again: when nothing is scheduled or running any more and the refresh has not been
\* disabled, every component was last reported with the active preset.
EveryComponentRefreshed ==
    worker = "idle" /\ sys.pending \cap {"Refresh", "Backup", "Restore", "Reboot"} = {}
    /\ sys.mode = "None" /\ sys.components /\ sys.refreshDisabled = 0
    => \A c \in 1 .. NumComponents : reported[c] = sys.preset

\* Refuted.  tests/src/firmware/system/firmware_system_test.cpp:740 has the indicators follow the session
\* (IndicatorsInvertWhileConfigurationSessionIsOpen): when no work item is under way, what was published
\* last is the state of the session.
AnnouncedStateHolds == worker = "idle" => (sys.told = "Opened") = sys.enabled

\* Refuted.  tests/src/hardware/hardware_test.cpp:462 (BackupAndRestore) restores a backup and finds in each
\* preset the values it had: each section is exported from the preset it is announced under.
BackupFaithful == \A e \in sys.backup.exported : e.from = e.preset /\ e.open
=============================================================================
