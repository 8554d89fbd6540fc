---------------------------- MODULE SystemProofs ----------------------------
(***************************************************************************)
(* The coordinator, and the inputs that it freezes, refreshes and resumes. *)
(*                                                                         *)
(* The coordinator: the types of its state and what holds of its work and  *)
(* its owner, for any number of presets, sections, components, clients and *)
(* signals: no session of work is stranded, I/O is frozen only for a reason*)
(* that will end, a backup that ends is complete, and an active session    *)
(* keeps its transport.  The first three are inductive together: the       *)
(* invariant says at every moment which item continues the work and what a *)
(* backup has exported.  The operations are functions of the fields, so    *)
(* most of the argument is one lemma for each of them.                     *)
(*                                                                         *)
(* The inputs: for any switches, encoders, settings and presets the host   *)
(* has the state of every switch and of every force sensor, and a switch   *)
(* that of its analog input or component, unless a freeze, a reset or      *)
(* other settings came in between.                                         *)
(***************************************************************************)
EXTENDS System, Digital, Analog, SequenceTheorems, TLAPS

\* The invariant, as a predicate of the fields and of the step the workqueue is at.
Continued(s, w) ==
    /\ s.refresh.active => "Refresh" \in s.pending \/ w \in {"refreshBatch", "clearRefresh"}
    /\ s.backup.active => "Backup" \in s.pending
    /\ s.queue # <<>> => "Restore" \in s.pending \/ w = "restore"
    /\ s.rebooting => "Reboot" \in s.pending \/ w = "reboot"
Reason(s, w) ==
    s.frozen =>
        \/ "IoResume" \in s.pending
        \/ s.refresh.active \/ w = "resumeIo"
        \/ s.mode # "None" \/ w = "backupEnd"
        \/ s.rebooting
        \/ ~s.components
\* What a backup has exported so far: every section of the presets before the current one, and the sections
\* of the current one before the next.
Exported(b) == {<<e.preset, e.section>> : e \in b.exported}
Exporting(b) ==
    /\ b.active => b.phase # "Idle"
    /\ b.phase = "RestoreStart" => b.preset = 0 /\ Exported(b) = {}
    /\ b.phase = "PresetSelect" => Exported(b) = (0 .. b.preset - 1) \X Sections
    /\ b.phase = "PresetData" =>
          /\ b.preset \in Presets
          /\ Exported(b) = ((0 .. b.preset - 1) \X Sections) \cup ({b.preset} \X (0 .. b.section - 1))
    /\ b.phase \in {"RestoreCurrentPreset", "RestoreEnd", "FinalAck"} => Exported(b) = Presets \X Sections
Typed(s) == s \in SysType /\ Len(s.queue) <= QueueCapacity /\ Exporting(s.backup)
Good(s, w) == Typed(s) /\ Continued(s, w) /\ Reason(s, w)

\* A step that leaves alone what the invariant relates.
LEMMA Steady ==
    ASSUME NEW s, NEW w, Good(s, w), NEW t \in SysType,
           t.backup = s.backup, t.refresh = s.refresh, t.queue = s.queue, t.pending = s.pending,
           t.frozen = s.frozen, t.mode = s.mode, t.rebooting = s.rebooting, t.components = s.components
    PROVE  Good(t, w)
BY DEF Good, Typed, Continued, Reason

\* Scheduling a work item.
LEMMA ScheduleGood == ASSUME NEW s, NEW w, Good(s, w), NEW work \in Works PROVE Good(Schedule(s, work), w)
  BY DEF Good, Typed, Exporting, Continued, Reason, Schedule, SysType

\* Cancelling the inactivity timer.
LEMMA CancelGood == ASSUME NEW s, NEW w, Good(s, w) PROVE Good(Cancel(s, "Close"), w)
  BY DEF Good, Typed, Exporting, Continued, Reason, Cancel, SysType

\* A refresh that is asked for: its type is stored and the work item scheduled.
LEMMA ScheduleRefreshGood ==
    ASSUME NEW s, NEW w, Good(s, w), NEW type \in RefreshTypes
    PROVE  Good(ScheduleRefresh(s, type), w)
<1> DEFINE r == [s.refresh EXCEPT !.type = type]
           t == [s EXCEPT !.refresh = r]
<1>1. r \in RefreshType /\ r.active = s.refresh.active
  BY DEF Good, Typed, Exporting, SysType, RefreshType
<1>2. s \in SysType /\ Len(s.queue) <= QueueCapacity
  BY DEF Good, Typed
<1> HIDE DEF r
<1>3. t \in SysType /\ t.refresh = r /\ \A f \in DOMAIN s : f # "refresh" => t[f] = s[f]
  BY <1>1, <1>2 DEF SysType
<1>4. Good(t, w)
  BY <1>1, <1>2, <1>3 DEF Good, Typed, Exporting, Continued, Reason, SysType
<1>5. ScheduleRefresh(s, type) = Schedule(t, "Refresh")
  BY DEF ScheduleRefresh, r
<1> QED BY <1>4, <1>5, ScheduleGood DEF Works

\* A preset change.
LEMMA SetPresetGood == ASSUME NEW s, NEW w, Good(s, w), NEW p \in Presets PROVE Good(SetPreset(s, p), w)
<1> DEFINE t == [s EXCEPT !.preset = p]
<1>1. Good(t, w)
  BY DEF Good, Typed, Exporting, Continued, Reason, SysType
<1>2. Good(ScheduleRefresh(t, "PresetChange"), w)
  BY <1>1, ScheduleRefreshGood DEF RefreshTypes
<1> QED BY <1>1, <1>2 DEF SetPreset

\* The start of a backup: its first step is scheduled.
LEMMA StartBackupGood == ASSUME NEW s, NEW w, Good(s, w) PROVE Good(StartBackup(s), w)
<1> DEFINE b == FirstStep(s)
           c == Cancel(s, "Close")
           t == [c EXCEPT !.mode = "Backup", !.backup = b, !.frozen = TRUE]
<1>1. c \in SysType /\ Len(c.queue) <= QueueCapacity /\ Continued(c, w)
  BY CancelGood DEF Good, Typed
<1>2. b \in BackupType
  <2>1. 0 \in 0 .. NumPresets /\ 0 \in 0 .. NumSections /\ 0 \in Presets
    BY SystemAssumption DEF Presets
  <2>2. s.preset \in Presets
    BY DEF Good, Typed, Exporting, SysType
  <2> QED BY <2>1, <2>2 DEF FirstStep, BackupType, Phases
<1> HIDE DEF b, c
<1>3. Schedule(t, "Backup") \in SysType
  BY <1>1, <1>2 DEF Schedule, SysType, Works
<1>7. Exporting(Schedule(t, "Backup").backup)
  <2>1. Schedule(t, "Backup").backup = b
    BY <1>1 DEF Schedule, SysType
  <2>2. Exported(b) = {} /\ b.phase = "RestoreStart" /\ b.preset = 0
    BY DEF b, FirstStep, Exported
  <2>3. Exporting(b)
    BY <2>2 DEF Exporting
  <2> QED BY <2>1, <2>3
<1>4. Len(Schedule(t, "Backup").queue) <= QueueCapacity
  BY <1>1 DEF Schedule, SysType
<1>5. Continued(Schedule(t, "Backup"), w) /\ Reason(Schedule(t, "Backup"), w)
  BY <1>1 DEF Schedule, SysType, Continued, Reason
<1>6. StartBackup(s) = Schedule(t, "Backup")
  BY DEF StartBackup, b, c
<1> QED BY <1>3, <1>4, <1>5, <1>6, <1>7 DEF Good, Typed

\* The start of a restore: nothing is queued yet.
LEMMA StartRestoreGood == ASSUME NEW s, NEW w, Good(s, w) PROVE Good(StartRestore(s), w)
<1> DEFINE c == Cancel(s, "Close")
<1>1. Good(c, w)
  BY CancelGood
<1> HIDE DEF c
<1>e. <<>> \in Seq(Requests) /\ Len(<<>>) <= QueueCapacity
  BY SystemAssumption
<1> DEFINE t == [c EXCEPT !.frozen = TRUE, !.queue = <<>>, !.mode = "Restore"]
<1>2. t \in SysType
  BY <1>1, <1>e DEF Good, Typed, SysType
<1>3. /\ t.backup = c.backup /\ t.refresh = c.refresh /\ t.pending = c.pending /\ t.rebooting = c.rebooting
      /\ t.queue = <<>> /\ t.mode = "Restore"
  BY <1>1 DEF Good, Typed, SysType
<1>4. Typed(t)
  BY <1>1, <1>e, <1>2, <1>3 DEF Good, Typed
<1>5. Continued(t, w) /\ Reason(t, w)
  BY <1>1, <1>3 DEF Good, Continued, Reason
<1> QED BY <1>4, <1>5 DEF StartRestore, Good, c

\* A reboot that is asked for.
LEMMA ScheduleRebootGood ==
    ASSUME NEW s, NEW w, Good(s, w), NEW target \in {"Application", "Bootloader"}
    PROVE  Good(ScheduleReboot(s, target), w)
<1> DEFINE q == s.pending \cup {"Reboot"}
           t == [s EXCEPT !.target = target, !.rebooting = TRUE, !.pending = q]
<1>1. s \in SysType /\ q \in SUBSET Works
  BY DEF Good, Typed, SysType, Works
<1>2. ScheduleReboot(s, target) = t
  BY <1>1 DEF ScheduleReboot, Schedule, SysType
<1>3. "Reboot" \in q /\ \A work \in s.pending : work \in q
  OBVIOUS
<1> HIDE DEF q
<1>4. t \in SysType
  BY <1>1 DEF SysType
<1>5. /\ t.backup = s.backup /\ t.refresh = s.refresh /\ t.queue = s.queue /\ t.pending = q
      /\ t.frozen = s.frozen /\ t.mode = s.mode /\ t.rebooting /\ t.components = s.components
  BY <1>1 DEF SysType
<1> HIDE DEF t
<1>6. Good(t, w)
  BY <1>3, <1>4, <1>5 DEF Good, Typed, Continued, Reason
<1> QED BY <1>2, <1>6

\* The end of a restore: I/O stays frozen for the reboot.
LEMMA FinishRestoreGood == ASSUME NEW s, NEW w, Good(s, w) PROVE Good(FinishRestore(s), w)
<1> DEFINE q == s.pending \cup {"Reboot"}
           t == [s EXCEPT !.mode = "None", !.target = "Application", !.rebooting = TRUE, !.pending = q]
<1>1. s \in SysType /\ q \in SUBSET Works
  BY DEF Good, Typed, SysType, Works
<1>2. FinishRestore(s) = t
  BY <1>1 DEF FinishRestore, ScheduleReboot, Schedule, SysType
<1>3. "Reboot" \in q /\ \A work \in s.pending : work \in q
  OBVIOUS
<1> HIDE DEF q
<1>4. t \in SysType
  BY <1>1 DEF SysType
<1>5. /\ t.backup = s.backup /\ t.refresh = s.refresh /\ t.queue = s.queue /\ t.pending = q
      /\ t.frozen = s.frozen /\ t.rebooting /\ t.components = s.components
  BY <1>1 DEF SysType
<1> HIDE DEF t
<1>6. Good(t, w)
  BY <1>3, <1>4, <1>5 DEF Good, Typed, Continued, Reason
<1> QED BY <1>2, <1>6

\* A word of the unlock token.
LEMMA UnlockGood ==
    ASSUME NEW s, NEW w, Good(s, w), NEW index \in 0 .. TokenWords - 1, NEW correct \in BOOLEAN
    PROVE  Good(ProcessUnlockWord(s, index, correct), w)
<1>0. 0 \in 0 .. TokenWords - 1
  BY SystemAssumption
<1>1. Good([s EXCEPT !.word = 0, !.unlocked = FALSE], w)
  <2> DEFINE t == [s EXCEPT !.word = 0, !.unlocked = FALSE]
  <2>1. t \in SysType
    BY <1>0 DEF Good, Typed, SysType
  <2>2. /\ t.backup = s.backup /\ t.refresh = s.refresh /\ t.queue = s.queue /\ t.pending = s.pending
        /\ t.frozen = s.frozen /\ t.mode = s.mode /\ t.rebooting = s.rebooting /\ t.components = s.components
    BY DEF Good, Typed, SysType
  <2> HIDE DEF t
  <2>3. Good(t, w)
    BY <2>1, <2>2, Steady
  <2> QED BY <2>3 DEF t
<1>2. (index + 1) % TokenWords \in 0 .. TokenWords - 1
  BY SystemAssumption
<1>3. (s.unlocked \/ index + 1 = TokenWords) \in BOOLEAN
  OBVIOUS
<1>4. Good([s EXCEPT !.word = (index + 1) % TokenWords, !.unlocked = @ \/ index + 1 = TokenWords], w)
  <2> DEFINE t == [s EXCEPT !.word = (index + 1) % TokenWords, !.unlocked = @ \/ index + 1 = TokenWords]
  <2>1. t \in SysType
    BY <1>2, <1>3 DEF Good, Typed, SysType
  <2>2. /\ t.backup = s.backup /\ t.refresh = s.refresh /\ t.queue = s.queue /\ t.pending = s.pending
        /\ t.frozen = s.frozen /\ t.mode = s.mode /\ t.rebooting = s.rebooting /\ t.components = s.components
    BY DEF Good, Typed, SysType
  <2> HIDE DEF t
  <2>3. Good(t, w)
    BY <2>1, <2>2, Steady
  <2> QED BY <2>3 DEF t
<1> QED BY <1>1, <1>4 DEF ProcessUnlockWord

\* A publication changes what the subscribers hold.
LEMMA AnnounceGood ==
    ASSUME NEW s, NEW w, Good(s, w), NEW event \in {"Opened", "Closed"}
    PROVE  Good(Announce(s, event), w)
BY DEF Announce, Good, Typed, Exporting, SysType, Continued, Reason

\* What the dispatcher does about the session after a frame.
LEMMA UpdateSessionGood ==
    ASSUME NEW s, NEW w, Good(s, w), NEW wasOpen \in BOOLEAN
    PROVE  Good(UpdateSession(s, wasOpen), w)
<1>1. Good(Announce(s, "Opened"), w) /\ Good(Announce(s, "Closed"), w)
  BY AnnounceGood
<1>2. \A t : Good(t, w) => Good(Schedule(t, "Close"), w) /\ Good(Cancel(t, "Close"), w)
  BY ScheduleGood, CancelGood DEF Works
<1> QED BY <1>1, <1>2 DEF UpdateSession


\* The frames: what a request may carry.
LEMMA RequestArguments ==
    ASSUME NEW r \in Requests
    PROVE  /\ r.kind \in RequestKinds
           /\ r.kind \in {"WordOk", "WordBad"} => r.arg \in 0 .. TokenWords - 1
           /\ r.kind = "SetPreset" => r.arg \in Presets
           /\ r.kind \in {"SetRefreshDisabled", "SetProgramChangeIn"} => r.arg \in {0, 1}
<1>1. PICK k \in Kinds : r \in [kind : {k}, arg : Arguments(k)]
  BY DEF Requests
<1>2. r.kind = k /\ r.arg \in Arguments(r.kind) /\ r.kind \in RequestKinds
  BY <1>1, SystemAssumption
<1>3. ASSUME r.kind \in {"WordOk", "WordBad"} PROVE r.arg \in 0 .. TokenWords - 1
  BY <1>2, <1>3 DEF Arguments
<1>4. ASSUME r.kind = "SetPreset" PROVE r.arg \in Presets
  BY <1>2, <1>4 DEF Arguments
<1>5. ASSUME r.kind \in {"SetRefreshDisabled", "SetProgramChangeIn"} PROVE r.arg \in {0, 1}
  BY <1>2, <1>5 DEF Arguments
<1> QED BY <1>2, <1>3, <1>4, <1>5

\* One frame, whoever handles it, leaves the invariant in place.
LEMMA HandleGood ==
    ASSUME NEW s, NEW w, Good(s, w), NEW r \in Requests
    PROVE  Good(Handle(s, r), w)
<1> SUFFICES Good(Obey(s, r), w)
  BY DEF Handle
<1>0. r.kind \in RequestKinds
  BY RequestArguments
<1>1. CASE r.kind = "Open"
  <2> DEFINE t == [s EXCEPT !.enabled = TRUE]
  <2>1. t \in SysType
    BY DEF Good, Typed, SysType
  <2>2. Good(t, w)
    BY <2>1, Steady DEF Good, Typed, SysType
  <2> QED BY <1>1, <2>2 DEF Obey
<1>2. CASE r.kind = "Close"
  <2> DEFINE t == [s EXCEPT !.enabled = FALSE]
  <2>1. t \in SysType
    BY DEF Good, Typed, Exporting, SysType
  <2>2. Good(t, w)
    BY <2>1, Steady DEF Good, Typed, SysType
  <2> QED BY <1>2, <2>2 DEF Obey
<1>3. CASE r.kind = "Get"
  BY <1>3 DEF Obey
<1>4. CASE r.kind = "WordOk"
  BY <1>4, RequestArguments, UnlockGood DEF Obey
<1>5. CASE r.kind = "WordBad"
  BY <1>5, RequestArguments, UnlockGood DEF Obey
<1>6. CASE r.kind = "RebootApp"
  BY <1>6, ScheduleRebootGood DEF Obey
<1>7. CASE r.kind = "RebootBootloader"
  BY <1>7, ScheduleRebootGood DEF Obey
<1>8. CASE r.kind = "FactoryReset"
  BY <1>8, ScheduleGood DEF Obey, Works
<1>9. CASE r.kind = "Backup"
  BY <1>9, StartBackupGood DEF Obey
<1>10. CASE r.kind = "RestoreStart"
  BY <1>10, StartRestoreGood DEF Obey
<1>11. CASE r.kind = "RestoreEnd"
  BY <1>11, FinishRestoreGood DEF Obey
<1>12. CASE r.kind = "SetPreset"
  BY <1>12, RequestArguments, SetPresetGood DEF Obey
<1>13. CASE r.kind = "SetRefreshDisabled"
  <2>1. Good([s EXCEPT !.refreshDisabled = r.arg], w)
    BY <1>13, RequestArguments DEF Good, Typed, Exporting, SysType, Continued, Reason
  <2> QED BY <1>13, <2>1 DEF Obey
<1>14. CASE r.kind = "SetProgramChangeIn"
  <2>1. Good([s EXCEPT !.programChangeIn = r.arg], w)
    BY <1>14, RequestArguments DEF Good, Typed, Exporting, SysType, Continued, Reason
  <2> QED BY <1>14, <2>1 DEF Obey
<1> QED
  BY <1>0, <1>1, <1>2, <1>3, <1>4, <1>5, <1>6, <1>7, <1>8, <1>9, <1>10, <1>11, <1>12, <1>13, <1>14 DEF RequestKinds

\* A frame that is put into the restore queue schedules the item that will take it out.
LEMMA QueuedGood ==
    ASSUME NEW s, NEW w, Good(s, w), NEW r \in Requests, HasRoom(s)
    PROVE  Good(Queued(s, r), w)
<1> DEFINE q == Append(s.queue, r)
           t == [s EXCEPT !.queue = q, !.pending = @ \cup {"Restore"}]
<1>1. s \in SysType /\ s.queue \in Seq(Requests) /\ Len(s.queue) < QueueCapacity /\ QueueCapacity \in Nat
  BY SystemAssumption DEF Good, Typed, SysType, HasRoom
<1>2. q \in Seq(Requests) /\ Len(q) <= QueueCapacity
  BY <1>1
<1> HIDE DEF q
<1>3. t \in SysType
  BY <1>1, <1>2 DEF SysType, Works
<1>4. /\ t.backup = s.backup /\ t.refresh = s.refresh /\ t.queue = q /\ t.pending = s.pending \cup {"Restore"}
      /\ t.frozen = s.frozen /\ t.mode = s.mode /\ t.rebooting = s.rebooting /\ t.components = s.components
  BY <1>1 DEF SysType
<1>5. Queued(s, r) = t
  BY <1>1 DEF Queued, Schedule, SysType, q
<1> HIDE DEF t
<1>6. Good(t, w)
  BY <1>2, <1>3, <1>4 DEF Good, Typed, Continued, Reason
<1> QED BY <1>5, <1>6

\* The owner of the session changes.
LEMMA ClientGood == ASSUME NEW s, NEW w, Good(s, w), NEW c \in Clients PROVE Good([s EXCEPT !.client = c], w)
<1> DEFINE t == [s EXCEPT !.client = c]
<1>1. t \in SysType
  BY DEF Good, Typed, SysType
<1>2. /\ t.backup = s.backup /\ t.refresh = s.refresh /\ t.queue = s.queue /\ t.pending = s.pending
      /\ t.frozen = s.frozen /\ t.mode = s.mode /\ t.rebooting = s.rebooting /\ t.components = s.components
  BY DEF Good, Typed, SysType
<1> HIDE DEF t
<1>3. Good(t, w)
  BY <1>1, <1>2, Steady
<1> QED BY <1>3 DEF t

\* The session is closed.
LEMMA DisabledGood == ASSUME NEW s, NEW w, Good(s, w) PROVE Good([s EXCEPT !.enabled = FALSE], w)
<1> DEFINE t == [s EXCEPT !.enabled = FALSE]
<1>1. t \in SysType
  BY DEF Good, Typed, SysType
<1>2. /\ t.backup = s.backup /\ t.refresh = s.refresh /\ t.queue = s.queue /\ t.pending = s.pending
      /\ t.frozen = s.frozen /\ t.mode = s.mode /\ t.rebooting = s.rebooting /\ t.components = s.components
  BY DEF Good, Typed, SysType
<1> HIDE DEF t
<1>3. Good(t, w)
  BY <1>1, <1>2, Steady
<1> QED BY <1>3 DEF t

\* The device after a start: I/O is frozen until the item that is scheduled resumes it.
LEMMA BootGood == ASSUME NEW w, NEW r \in {0, 1}, NEW p \in {0, 1} PROVE Good(Boot(r, p), w)
<1> DEFINE b == Boot(r, p)
<1>1. /\ 0 \in Presets /\ 0 \in 0 .. NumPresets /\ 0 \in 0 .. NumSections /\ 1 \in 1 .. NumComponents + 1
      /\ 0 \in 0 .. TokenWords - 1
  BY SystemAssumption DEF Presets
<1>2. NoRefresh \in RefreshType /\ NoBackup \in BackupType /\ UsbClient \in Clients
  BY <1>1 DEF NoRefresh, NoBackup, RefreshType, RefreshTypes, BackupType, Phases, UsbClient, Clients
<1>3. <<>> \in Seq(Requests) /\ Len(<<>>) <= QueueCapacity
  BY SystemAssumption
<1>4. b \in SysType
  BY <1>1, <1>2, <1>3 DEF Boot, SysType, Works
<1>5. Len(b.queue) <= QueueCapacity /\ b.queue = <<>>
  BY <1>3 DEF Boot
<1>6. Exporting(b.backup) /\ ~b.backup.active /\ ~b.refresh.active
  BY DEF Boot, Exporting, NoBackup, NoRefresh
<1>7. ~b.rebooting /\ "IoResume" \in b.pending
  BY DEF Boot
<1> HIDE DEF b
<1>8. Good(b, w)
  BY <1>4, <1>5, <1>6, <1>7 DEF Good, Typed, Continued, Reason
<1> QED BY <1>8 DEF b

-----------------------------------------------------------------------------
\* The invariant of the specification.
IInv ==
    /\ Good(sys, worker)
    /\ worker \in Steps
    /\ reported \in [1 .. NumComponents -> Presets]
    /\ inputs \in 0 .. MaxInputs

LEMMA InitGood == Init => IInv
<1> SUFFICES ASSUME Init PROVE IInv
  OBVIOUS
<1>1. PICK r \in {0, 1}, p \in {0, 1} : sys = Boot(r, p)
  BY DEF Init
<1>2. Good(sys, worker)
  BY <1>1, BootGood
<1>3. 0 \in Presets /\ 0 \in 0 .. MaxInputs
  BY SystemAssumption DEF Presets
<1>4. reported \in [1 .. NumComponents -> Presets] /\ inputs \in 0 .. MaxInputs /\ worker \in Steps
  BY <1>3 DEF Init, Steps
<1> QED BY <1>2, <1>4 DEF IInv

\* The dispatcher, one step per signal.
LEMMA DispatcherGood == ASSUME IInv, Dispatcher PROVE IInv'
<1>0. Good(sys, worker)
  BY DEF IInv
<1>1. Deliver => (worker' \in Steps /\ reported' \in [1 .. NumComponents -> Presets] /\ inputs' \in 0 .. MaxInputs)
  BY SystemAssumption DEF IInv, Deliver
<1>2. Deliver => worker' = worker
  BY DEF Deliver
<1> SUFFICES Deliver /\ Good(sys', worker)
  BY <1>1, <1>2 DEF IInv
<1>3. ASSUME NEW r \in Requests, HandleUsbSysEx(r) PROVE Deliver /\ Good(sys', worker)
  <2> DEFINE t == [sys EXCEPT !.client = UsbClient]
  <2>1. Good(t, worker)
    BY <1>0, ClientGood DEF Clients, UsbClient
  <2>2. t.enabled \in BOOLEAN
    BY <2>1 DEF Good, Typed, SysType
  <2> HIDE DEF t
  <2>3. Good(UpdateSession(Handle(t, r), t.enabled), worker)
    BY <2>1, <2>2, HandleGood, UpdateSessionGood
  <2>4. HasRoom(t) => Good(Queued(t, r), worker)
    BY <2>1, QueuedGood
  <2>5. Deliver /\ sys' = IF t.mode # "Restore" THEN UpdateSession(Handle(t, r), t.enabled)
                          ELSE IF HasRoom(t) THEN Queued(t, r) ELSE t
    BY <1>3 DEF HandleUsbSysEx, t
  <2> QED BY <2>1, <2>3, <2>4, <2>5
<1>4. ASSUME NEW c \in Clients, NEW r \in Requests, HandleConfigRequest(c, r) PROVE Deliver /\ Good(sys', worker)
  <2> DEFINE t == [sys EXCEPT !.client = c]
  <2>1. Good(t, worker)
    BY <1>0, ClientGood
  <2>2. t.enabled \in BOOLEAN
    BY <2>1 DEF Good, Typed, SysType
  <2> HIDE DEF t
  <2>3. Good(UpdateSession(Handle(t, r), t.enabled), worker)
    BY <2>1, <2>2, HandleGood, UpdateSessionGood
  <2>4. HasRoom(t) => Good(UpdateSession(Queued(t, r), t.enabled), worker)
    BY <2>1, <2>2, QueuedGood, UpdateSessionGood
  <2>5. Deliver /\ sys' = IF t.mode # "Restore" THEN UpdateSession(Handle(t, r), t.enabled)
                          ELSE IF HasRoom(t) THEN UpdateSession(Queued(t, r), t.enabled) ELSE t
    BY <1>4 DEF HandleConfigRequest, t
  <2> QED BY <2>1, <2>3, <2>4, <2>5
<1>5. ASSUME NEW c \in Clients, HandleConfigDisconnect(c) PROVE Deliver /\ Good(sys', worker)
  <2> DEFINE t == [Cancel(sys, "Close") EXCEPT !.enabled = FALSE]
  <2>1. Good(t, worker)
    BY <1>0, CancelGood, DisabledGood
  <2> QED BY <1>5, <2>1, AnnounceGood DEF HandleConfigDisconnect
<1>6. ASSUME NEW chosen \in Presets, ProgramChangeIn(chosen) \/ PresetChangeReq(chosen)
      PROVE Deliver /\ Good(sys', worker)
  BY <1>0, <1>6, SetPresetGood DEF ProgramChangeIn, PresetChangeReq
<1>7. ASSUME NEW type \in Causes, RefreshReq(type) PROVE Deliver /\ Good(sys', worker)
  BY <1>0, <1>7, SystemAssumption, ScheduleRefreshGood DEF RefreshReq
<1>8. ASSUME BootloaderRebootReq PROVE Deliver /\ Good(sys', worker)
  BY <1>0, <1>8, ScheduleRebootGood DEF BootloaderRebootReq
<1> QED BY <1>3, <1>4, <1>5, <1>6, <1>7, <1>8 DEF Dispatcher

-----------------------------------------------------------------------------
\* The workqueue, one lemma for each item.

\* What is left of the invariant after a step of the workqueue: the fields, the step and the reports.
LEMMA WorkqueueStep ==
    ASSUME IInv, UNCHANGED inputs, worker' \in Steps, reported' \in [1 .. NumComponents -> Presets],
           Good(sys', worker')
    PROVE  IInv'
BY DEF IInv

\* Taking an item that leaves the fields alone otherwise.
LEMMA TakenGood ==
    ASSUME NEW s, NEW w, Good(s, "idle"), NEW work \in Works, w \in Steps,
           work = "Refresh" => (s.refresh.active => w \in {"refreshBatch", "clearRefresh"}),
           work = "Backup" => ~s.backup.active,
           work = "Restore" => w = "restore",
           work = "Reboot" => w = "reboot",
           work = "IoResume" => ~s.frozen
    PROVE  Good(Cancel(s, work), w)
<1> DEFINE t == Cancel(s, work)
<1>1. s \in SysType
  BY DEF Good, Typed
<1>2. t \in SysType
  BY <1>1 DEF Cancel, SysType
<1>3. /\ t.backup = s.backup /\ t.refresh = s.refresh /\ t.queue = s.queue /\ t.pending = s.pending \ {work}
      /\ t.frozen = s.frozen /\ t.mode = s.mode /\ t.rebooting = s.rebooting /\ t.components = s.components
  BY <1>1 DEF Cancel, SysType
<1> HIDE DEF t
<1>4. Typed(t)
  BY <1>2, <1>3 DEF Good, Typed
<1>5. Continued(t, w)
  BY <1>3 DEF Good, Continued
<1>6. Reason(t, w)
  BY <1>3 DEF Good, Reason
<1>7. Good(t, w)
  BY <1>4, <1>5, <1>6 DEF Good
<1> QED BY <1>7 DEF t

\* The workqueue moves on and the fields stay as they are.
LEMMA MovedGood ==
    ASSUME NEW s, NEW v, NEW w, Good(s, v),
           s.refresh.active /\ v \in {"refreshBatch", "clearRefresh"} => w \in {"refreshBatch", "clearRefresh"},
           s.queue # <<>> /\ v = "restore" => w = "restore",
           v # "reboot",
           v \in {"resumeIo", "backupEnd"} => ~s.frozen \/ w = v
    PROVE  Good(s, w)
BY DEF Good, Continued, Reason

\* I/O resumes.
LEMMA ThawedGood == ASSUME NEW s, NEW w, Good(s, w) PROVE Good([s EXCEPT !.frozen = FALSE], w)
<1> DEFINE t == [s EXCEPT !.frozen = FALSE]
<1>1. t \in SysType
  BY DEF Good, Typed, SysType
<1>2. /\ t.backup = s.backup /\ t.refresh = s.refresh /\ t.queue = s.queue /\ t.pending = s.pending
      /\ ~t.frozen /\ t.rebooting = s.rebooting
  BY DEF Good, Typed, SysType
<1> HIDE DEF t
<1>3. Good(t, w)
  BY <1>1, <1>2 DEF Good, Typed, Continued, Reason
<1> QED BY <1>3 DEF t

\* The fields of a refresh change and nothing else does.
LEMMA RefreshGood ==
    ASSUME NEW s, NEW v, NEW w, Good(s, v), NEW r \in RefreshType, NEW t \in SysType,
           t.refresh = r, t.backup = s.backup, t.queue = s.queue, s.pending \subseteq t.pending,
           t.frozen => s.frozen \/ r.active,
           t.mode = s.mode, t.rebooting = s.rebooting, t.components = s.components,
           r.active => "Refresh" \in t.pending \/ w \in {"refreshBatch", "clearRefresh"},
           s.refresh.active => r.active \/ w = "resumeIo",
           v \notin {"restore", "reboot", "resumeIo", "backupEnd"}
    PROVE  Good(t, w)
<1>1. Typed(t)
  BY DEF Good, Typed
<1>2. Continued(t, w)
  BY DEF Good, Continued
<1>3. Reason(t, w)
  BY DEF Good, Reason
<1> QED BY <1>1, <1>2, <1>3 DEF Good

\* The forced refresh.
LEMMA RefreshSteps ==
    ASSUME IInv, RunRefresh \/ StartRefresh \/ RefreshBatch \/ RefreshDone \/ ClearRefresh \/ ResumeIo
    PROVE  IInv'
<1>0. Good(sys, worker) /\ sys \in SysType /\ sys.refresh \in RefreshType
  BY DEF IInv, Good, Typed, SysType
<1>n. NumComponents \in Nat
  BY SystemAssumption
<1>1. CASE RunRefresh
  <2>1. /\ worker' \in {"startRefresh", "refreshBatch", "clearRefresh", "idle"}
        /\ sys.refresh.active => worker' \in {"refreshBatch", "clearRefresh"}
        /\ worker = "idle"
    BY <1>1 DEF RunRefresh, Take
  <2>2. Good(Cancel(sys, "Refresh"), worker')
    BY <1>0, <2>1, TakenGood DEF Works, Steps
  <2>3. sys' = Cancel(sys, "Refresh") /\ UNCHANGED <<reported, inputs>>
    BY <1>1 DEF RunRefresh, Take
  <2> QED BY <2>1, <2>2, <2>3 DEF IInv, Steps
<1>2. CASE StartRefresh
  <2> DEFINE r == [sys.refresh EXCEPT !.active = TRUE, !.next = 1]
             t == [sys EXCEPT !.refresh = r, !.frozen = TRUE]
  <2>0. 1 \in 1 .. NumComponents + 1
    BY <1>n
  <2>1. r \in RefreshType /\ r.active
    BY <1>0, <2>0 DEF RefreshType
  <2> HIDE DEF r
  <2>2. t \in SysType
    BY <1>0, <2>1 DEF SysType
  <2>3. /\ t.refresh = r /\ t.backup = sys.backup /\ t.queue = sys.queue /\ t.pending = sys.pending
        /\ t.mode = sys.mode /\ t.rebooting = sys.rebooting /\ t.components = sys.components
    BY <1>0 DEF SysType
  <2>4. sys' = t
    BY <1>2, <1>0 DEF StartRefresh, r, SysType, RefreshType
  <2> HIDE DEF t
  <2>5. worker = "startRefresh" /\ worker' = "refreshBatch" /\ UNCHANGED <<reported, inputs>>
    BY <1>2 DEF StartRefresh, At
  <2>6. Good(t, worker')
    BY <1>0, <2>1, <2>2, <2>3, <2>5, RefreshGood
  <2> QED BY <2>4, <2>5, <2>6 DEF IInv, Steps
<1>3. CASE RefreshBatch
  <2> DEFINE r == [sys.refresh EXCEPT !.next = @ + 1]
             t == [sys EXCEPT !.refresh = r, !.pending = @ \cup {"Refresh"}]
  <2>1. r \in RefreshType /\ r.active = sys.refresh.active
    BY <1>0, <1>n, <1>3 DEF RefreshType, RefreshBatch
  <2>4. sys' = t
    BY <1>3, <1>0 DEF RefreshBatch, Schedule, SysType, RefreshType
  <2> HIDE DEF r
  <2>2. t \in SysType
    BY <1>0, <2>1 DEF SysType, Works
  <2>3. /\ t.refresh = r /\ t.backup = sys.backup /\ t.queue = sys.queue /\ t.pending = sys.pending \cup {"Refresh"}
        /\ t.mode = sys.mode /\ t.rebooting = sys.rebooting /\ t.components = sys.components
        /\ t.frozen = sys.frozen
    BY <1>0 DEF SysType
  <2> HIDE DEF t
  <2>5. worker = "refreshBatch" /\ worker' = "idle" /\ UNCHANGED inputs
    BY <1>3 DEF RefreshBatch, At
  <2>6. Good(t, worker')
    BY <1>0, <2>1, <2>2, <2>3, <2>5, RefreshGood
  <2>7. reported' \in [1 .. NumComponents -> Presets]
    BY <1>3, <1>0 DEF IInv, RefreshBatch, SysType
  <2> QED BY <2>4, <2>5, <2>6, <2>7 DEF IInv, Steps
<1>4. CASE RefreshDone
  <2>1. worker = "refreshBatch" /\ worker' = "clearRefresh" /\ UNCHANGED <<sys, reported, inputs>>
    BY <1>4 DEF RefreshDone, At
  <2>2. Good(sys, worker')
    BY <1>0, <2>1, MovedGood
  <2> QED BY <2>1, <2>2 DEF IInv, Steps
<1>5. CASE ClearRefresh
  <2> DEFINE t == [sys EXCEPT !.refresh = NoRefresh]
  <2>1. NoRefresh \in RefreshType /\ ~NoRefresh.active
    BY <1>n DEF NoRefresh, RefreshType, RefreshTypes
  <2>2. t \in SysType
    BY <1>0, <2>1 DEF SysType
  <2>3. /\ t.refresh = NoRefresh /\ t.backup = sys.backup /\ t.queue = sys.queue /\ t.pending = sys.pending
        /\ t.mode = sys.mode /\ t.rebooting = sys.rebooting /\ t.components = sys.components
        /\ t.frozen = sys.frozen
    BY <1>0 DEF SysType
  <2>4. worker = "clearRefresh" /\ worker' = "resumeIo" /\ UNCHANGED <<reported, inputs>> /\ sys' = t
    BY <1>5 DEF ClearRefresh, At
  <2> HIDE DEF t
  <2>6. Good(t, worker')
    BY <1>0, <2>1, <2>2, <2>3, <2>4, RefreshGood
  <2> QED BY <2>4, <2>6 DEF IInv, Steps
<1>6. CASE ResumeIo
  <2> DEFINE t == [sys EXCEPT !.frozen = FALSE]
  <2>1. worker = "resumeIo" /\ worker' = "idle" /\ UNCHANGED <<reported, inputs>> /\ sys' = t
    BY <1>6 DEF ResumeIo, At
  <2>2. Good(t, worker)
    BY <1>0, ThawedGood
  <2>3. ~t.frozen
    BY <1>0 DEF SysType
  <2> HIDE DEF t
  <2>4. Good(t, worker')
    BY <2>1, <2>2, <2>3, MovedGood
  <2> QED BY <2>1, <2>4 DEF IInv, Steps
<1> QED BY <1>1, <1>2, <1>3, <1>4, <1>5, <1>6

\* The start-up item that resumes I/O.
LEMMA IoResumeStep == ASSUME IInv, RunIoResume PROVE IInv'
<1> DEFINE t == [sys EXCEPT !.frozen = FALSE]
<1>1. Good(t, "idle") /\ t \in SysType /\ ~t.frozen
  BY ThawedGood DEF IInv, RunIoResume, Take, Good, Typed, SysType
<1>2. Good(Cancel(t, "IoResume"), "idle")
  BY <1>1, TakenGood DEF Works, Steps
<1>3. Cancel(t, "IoResume") = [Cancel(sys, "IoResume") EXCEPT !.frozen = FALSE]
  BY DEF IInv, Good, Typed, SysType, Cancel
<1> QED BY <1>2, <1>3 DEF IInv, RunIoResume, Take, Steps

\* The backup: what a step of it stores.
LEMMA BackupGood ==
    ASSUME NEW s, NEW w, Good(s, w), NEW b \in BackupType, Exporting(b), NEW t \in SysType,
           t.backup = b, t.refresh = s.refresh, t.queue = s.queue, t.pending = s.pending,
           t.frozen = s.frozen, t.mode = s.mode, t.rebooting = s.rebooting, t.components = s.components,
           b.active => s.backup.active
    PROVE  Good(t, w)
<1>1. Typed(t)
  BY DEF Good, Typed
<1>2. Continued(t, w)
  BY DEF Good, Continued
<1>3. Reason(t, w)
  BY DEF Good, Reason
<1> QED BY <1>1, <1>2, <1>3 DEF Good

\* One part of the backup is replaced by another of its type.
LEMMA PhaseGood ==
    ASSUME NEW s, NEW w, Good(s, w), NEW b \in BackupType, Exporting(b), b.active => s.backup.active
    PROVE  Good([s EXCEPT !.backup = b], w)
<1> DEFINE t == [s EXCEPT !.backup = b]
<1>1. t \in SysType
  BY DEF Good, Typed, SysType
<1>2. /\ t.backup = b /\ t.refresh = s.refresh /\ t.queue = s.queue /\ t.pending = s.pending
      /\ t.frozen = s.frozen /\ t.mode = s.mode /\ t.rebooting = s.rebooting /\ t.components = s.components
  BY DEF Good, Typed, SysType
<1> HIDE DEF t
<1>3. Good(t, w)
  BY <1>1, <1>2, BackupGood
<1> QED BY <1>3 DEF t

\* A preset change leaves the backup alone.
LEMMA SetPresetBackup ==
    ASSUME NEW s, NEW w, Good(s, w), NEW p \in Presets
    PROVE  SetPreset(s, p).backup = s.backup
BY DEF SetPreset, ScheduleRefresh, Schedule, Good, Typed, SysType

\* A phase of the backup.
LEMMA BackupStepGood ==
    ASSUME NEW s, NEW w, Good(s, w), s.backup.active, s.backup.phase # "FinalAck"
    PROVE  Good(BackupStep(s), w)
<1> DEFINE b == s.backup
<1>0. b \in BackupType /\ s \in SysType /\ Exporting(b) /\ s.preset \in Presets /\ s.enabled \in BOOLEAN
  BY DEF Good, Typed, SysType
<1>n. NumSections \in Nat /\ NumPresets \in Nat
  BY SystemAssumption
<1>p. b.phase \in {"RestoreStart", "PresetSelect", "PresetData", "RestoreCurrentPreset", "RestoreEnd"}
  BY <1>0 DEF BackupType, Phases, Exporting
<1>1. CASE b.phase = "RestoreStart"
  <2> DEFINE c == [b EXCEPT !.phase = "PresetSelect"]
  <2>a. /\ c \in BackupType /\ c.active = b.active /\ c.exported = b.exported
        /\ c.phase = "PresetSelect" /\ c.preset = b.preset
    BY <1>0 DEF BackupType, Phases
  <2>b. Exported(c) = (0 .. c.preset - 1) \X Sections
    BY <1>0, <2>a, <1>1 DEF Exported, Exporting
  <2>1. c \in BackupType /\ Exporting(c) /\ (c.active => b.active)
    BY <1>0, <2>a, <2>b DEF Exporting
  <2>2. BackupStep(s) = [s EXCEPT !.backup = c]
    BY <1>0, <1>1 DEF BackupStep, SysType
  <2> HIDE DEF c
  <2> QED BY <2>1, <2>2, PhaseGood
<1>2. CASE b.phase = "PresetSelect" /\ AllPresetsDone(b)
  <2> DEFINE c == [b EXCEPT !.phase = "RestoreCurrentPreset"]
  <2>a. /\ c \in BackupType /\ c.active = b.active /\ c.exported = b.exported
        /\ c.phase = "RestoreCurrentPreset" /\ c.preset = b.preset
    BY <1>0 DEF BackupType, Phases
  <2>b. Exported(c) = Presets \X Sections
    BY <1>0, <2>a, <1>2, <1>n DEF Exported, Exporting, AllPresetsDone, Presets, BackupType
  <2>1. c \in BackupType /\ Exporting(c) /\ (c.active => b.active)
    BY <1>0, <2>a, <2>b DEF Exporting
  <2>2. BackupStep(s) = [s EXCEPT !.backup = c]
    BY <1>0, <1>2 DEF BackupStep, SysType
  <2> HIDE DEF c
  <2> QED BY <2>1, <2>2, PhaseGood
<1>3. CASE b.phase = "PresetSelect" /\ ~AllPresetsDone(b)
  <2> DEFINE c == [b EXCEPT !.section = 0, !.phase = "PresetData"]
             t == SetPreset(s, b.preset)
  <2>1. b.preset \in Presets /\ 0 \in 0 .. NumSections
    BY <1>3, <1>n DEF AllPresetsDone
  <2>a. /\ c \in BackupType /\ c.active = b.active /\ c.exported = b.exported
        /\ c.phase = "PresetData" /\ c.preset = b.preset /\ c.section = 0 /\ b.preset \in Presets
    BY <1>0, <2>1 DEF BackupType, Phases
  <2>b. Exported(c) = ((0 .. c.preset - 1) \X Sections) \cup ({c.preset} \X (0 .. c.section - 1))
    BY <1>0, <2>a, <1>3 DEF Exported, Exporting
  <2>2. c \in BackupType /\ Exporting(c) /\ (c.active => b.active)
    BY <1>0, <2>a, <2>b DEF Exporting
  <2>3. Good(t, w) /\ t.backup = b /\ t \in SysType
    BY <2>1, SetPresetGood, SetPresetBackup DEF Good, Typed
  <2>4. BackupStep(s) = [[t EXCEPT !.backup.section = 0] EXCEPT !.backup.phase = "PresetData"]
    BY <1>3 DEF BackupStep
  <2> HIDE DEF t
  <2>5. BackupStep(s) = [t EXCEPT !.backup = c]
    BY <2>3, <2>4, <1>0 DEF SysType, BackupType
  <2> HIDE DEF c
  <2> QED BY <2>2, <2>3, <2>5, PhaseGood
<1>4. CASE b.phase = "PresetData" /\ b.section \notin Sections
  <2> DEFINE c == [b EXCEPT !.preset = @ + 1, !.phase = "PresetSelect"]
  <2>1. b.preset + 1 \in 0 .. NumPresets
    BY <1>0, <1>4, <1>n DEF Exporting, Presets
  <2>a. /\ c \in BackupType /\ c.active = b.active /\ c.exported = b.exported
        /\ c.phase = "PresetSelect" /\ c.preset = b.preset + 1
    BY <1>0, <2>1 DEF BackupType, Phases
  <2>b. Exported(c) = (0 .. c.preset - 1) \X Sections
    BY <1>0, <2>a, <1>4, <1>n DEF Exported, Exporting, Sections, Presets, BackupType
  <2>2. c \in BackupType /\ Exporting(c) /\ (c.active => b.active)
    BY <1>0, <2>a, <2>b DEF Exporting
  <2>3. BackupStep(s) = [[s EXCEPT !.backup.preset = @ + 1] EXCEPT !.backup.phase = "PresetSelect"]
    BY <1>4 DEF BackupStep
  <2>4. BackupStep(s) = [s EXCEPT !.backup = c]
    BY <2>3, <1>0 DEF SysType, BackupType
  <2> HIDE DEF c
  <2> QED BY <2>2, <2>4, PhaseGood
<1>5. CASE b.phase = "PresetData" /\ b.section \in Sections
  <2> DEFINE e == b.exported \cup {[preset |-> b.preset, section |-> b.section,
                                    from |-> s.preset, open |-> s.enabled]}
             c == [b EXCEPT !.section = @ + 1, !.exported = e]
  <2>1. b.section + 1 \in 0 .. NumSections /\ b.preset \in Presets
    BY <1>0, <1>5, <1>n DEF Exporting, Sections
  <2>2. e \in SUBSET [preset : Presets, section : Sections, from : Presets, open : BOOLEAN]
    BY <1>0, <1>5, <2>1 DEF BackupType
  <2>3. BackupStep(s) = [s EXCEPT !.backup.section = @ + 1, !.backup.exported = e]
    BY <1>0, <1>5 DEF BackupStep, SysType, BackupType
  <2> HIDE DEF e
  <2>a. /\ c \in BackupType /\ c.active = b.active /\ c.exported = e
        /\ c.phase = b.phase /\ c.preset = b.preset /\ c.section = b.section + 1
    BY <1>0, <2>1, <2>2 DEF BackupType, Phases
  <2>b. Exported(c) = Exported(b) \cup {<<b.preset, b.section>>}
    <3> DEFINE new == [preset |-> b.preset, section |-> b.section, from |-> s.preset, open |-> s.enabled]
    <3>1. c.exported = b.exported \cup {new} /\ new.preset = b.preset /\ new.section = b.section
      BY <2>a DEF e
    <3> HIDE DEF new, c
    <3> QED BY <3>1 DEF Exported
  <2>c. Exported(b) = ((0 .. b.preset - 1) \X Sections) \cup ({b.preset} \X (0 .. b.section - 1))
    BY <1>0, <1>5 DEF Exporting
  <2>d. b.section \in Nat /\ 0 .. b.section = (0 .. b.section - 1) \cup {b.section}
    BY <1>5, <1>n DEF Sections
  <2>e. Exported(c) = ((0 .. b.preset - 1) \X Sections) \cup ({b.preset} \X (0 .. b.section))
    BY <2>b, <2>c, <2>d
  <2>4. c \in BackupType /\ Exporting(c) /\ (c.active => b.active)
    <3>1. c.phase = "PresetData" /\ c.preset = b.preset /\ c.section - 1 = b.section
      BY <2>a, <2>d, <1>5
    <3>2. c.active = b.active
      BY <2>a
    <3> HIDE DEF c
    <3>3. Exporting(c)
      BY <2>1, <2>e, <3>1, <3>2 DEF Exporting
    <3> QED BY <2>a, <3>2, <3>3 DEF c
  <2>5. BackupStep(s) = [s EXCEPT !.backup = c]
    BY <2>3, <1>0 DEF SysType, BackupType
  <2> HIDE DEF c
  <2> QED BY <2>4, <2>5, PhaseGood
<1>6. CASE b.phase = "RestoreCurrentPreset"
  <2> DEFINE c == [b EXCEPT !.phase = "RestoreEnd"]
             t == SetPreset(s, b.current)
  <2>1. b.current \in Presets
    BY <1>0 DEF BackupType
  <2>a. /\ c \in BackupType /\ c.active = b.active /\ c.exported = b.exported
        /\ c.phase = "RestoreEnd"
    BY <1>0 DEF BackupType, Phases
  <2>b. Exported(c) = Presets \X Sections
    BY <1>0, <2>a, <1>6 DEF Exported, Exporting
  <2>2. c \in BackupType /\ Exporting(c) /\ (c.active => b.active)
    BY <1>0, <2>a, <2>b DEF Exporting
  <2>3. Good(t, w) /\ t.backup = b /\ t \in SysType
    BY <2>1, SetPresetGood, SetPresetBackup DEF Good, Typed
  <2>4. BackupStep(s) = [t EXCEPT !.backup.phase = "RestoreEnd"]
    BY <1>6 DEF BackupStep
  <2> HIDE DEF t
  <2>5. BackupStep(s) = [t EXCEPT !.backup = c]
    BY <2>3, <2>4 DEF SysType
  <2> HIDE DEF c
  <2> QED BY <2>2, <2>3, <2>5, PhaseGood
<1>7. CASE b.phase = "RestoreEnd"
  <2> DEFINE c == [b EXCEPT !.phase = "FinalAck"]
  <2>a. /\ c \in BackupType /\ c.active = b.active /\ c.exported = b.exported
        /\ c.phase = "FinalAck"
    BY <1>0 DEF BackupType, Phases
  <2>b. Exported(c) = Presets \X Sections
    BY <1>0, <2>a, <1>7 DEF Exported, Exporting
  <2>1. c \in BackupType /\ Exporting(c) /\ (c.active => b.active)
    BY <1>0, <2>a, <2>b DEF Exporting
  <2>2. BackupStep(s) = [s EXCEPT !.backup = c]
    BY <1>0, <1>7 DEF BackupStep, SysType
  <2> HIDE DEF c
  <2> QED BY <2>1, <2>2, PhaseGood
<1> QED BY <1>p, <1>1, <1>2, <1>3, <1>4, <1>5, <1>6, <1>7

\* The end of the backup: what freezes I/O is from here on the step the workqueue is at.
LEMMA FinishBackupGood == ASSUME IInv, FinishBackup PROVE IInv'
<1> DEFINE b == [sys.backup EXCEPT !.active = FALSE, !.phase = "Idle"]
           q == sys.pending \ {"Backup"}
           t == [sys EXCEPT !.pending = q, !.backup = b, !.mode = "None"]
<1>0. Good(sys, "idle") /\ sys \in SysType /\ sys.backup \in BackupType
  BY DEF IInv, Good, Typed, SysType, FinishBackup, Take
<1>1. b \in BackupType /\ Exporting(b) /\ ~b.active
  BY <1>0 DEF BackupType, Phases, Exporting
<1>2. q \in SUBSET Works
  BY <1>0 DEF SysType
<1>3. sys' = t
  BY <1>0 DEF FinishBackup, Cancel, SysType, BackupType
<1>4. \A work \in Works : work \in sys.pending /\ work # "Backup" => work \in q
  OBVIOUS
<1> HIDE DEF b, q
<1>5. t \in SysType
  BY <1>0, <1>1, <1>2 DEF SysType
<1>6. /\ t.backup = b /\ t.refresh = sys.refresh /\ t.queue = sys.queue /\ t.pending = q
      /\ t.frozen = sys.frozen /\ t.rebooting = sys.rebooting /\ t.components = sys.components
  BY <1>0 DEF SysType
<1> HIDE DEF t
<1>7. Typed(t)
  BY <1>0, <1>1, <1>5, <1>6 DEF Good, Typed
<1>8. Continued(t, "backupEnd")
  BY <1>0, <1>1, <1>4, <1>6 DEF Good, Continued, Works
<1>9. Good(t, "backupEnd")
  BY <1>7, <1>8 DEF Good, Reason
<1> QED BY <1>3, <1>9 DEF IInv, FinishBackup, Take, Steps

\* The backup item.
LEMMA BackupSteps == ASSUME IInv, RunBackup \/ FinishBackup \/ ResumeAfterBackup PROVE IInv'
<1>0. Good(sys, worker)
  BY DEF IInv
<1>1. CASE RunBackup
  <2>1. worker = "idle" /\ worker' = "idle" /\ UNCHANGED <<reported, inputs>>
    BY <1>1 DEF RunBackup, Take
  <2>2. CASE sys.backup.active
    <3>1. sys' = Schedule(BackupStep(sys), "Backup")
      BY <1>1, <2>2 DEF RunBackup
    <3>2. Good(BackupStep(sys), "idle")
      BY <1>0, <1>1, <2>1, <2>2, BackupStepGood DEF RunBackup
    <3>3. Good(sys', worker')
      BY <2>1, <3>1, <3>2, ScheduleGood DEF Works
    <3> QED BY <2>1, <3>3 DEF IInv
  <2>3. CASE ~sys.backup.active
    <3>1. sys' = Cancel(sys, "Backup")
      BY <1>1, <2>3 DEF RunBackup
    <3>2. Good(sys', worker')
      BY <1>0, <2>1, <2>3, <3>1, TakenGood DEF Works, Steps
    <3> QED BY <2>1, <3>2 DEF IInv
  <2> QED BY <2>2, <2>3
<1>2. CASE FinishBackup
  BY <1>2, FinishBackupGood
<1>3. CASE ResumeAfterBackup
  <2> DEFINE t == [sys EXCEPT !.frozen = FALSE]
  <2>1. worker = "backupEnd" /\ worker' = "idle" /\ UNCHANGED <<reported, inputs>>
        /\ sys' = IF t.enabled THEN Schedule(t, "Close") ELSE t
    BY <1>3 DEF ResumeAfterBackup, At
  <2>2. Good(t, worker)
    BY <1>0, ThawedGood
  <2>3. ~t.frozen
    BY <1>0 DEF Good, Typed, SysType
  <2> HIDE DEF t
  <2>4. Good(t, "idle")
    BY <2>1, <2>2, <2>3, MovedGood
  <2>5. Good(sys', worker')
    BY <2>1, <2>4, ScheduleGood DEF Works
  <2> QED BY <2>1, <2>5 DEF IInv, Steps
<1> QED BY <1>1, <1>2, <1>3

\* The restore item.
LEMMA RestoreSteps == ASSUME IInv, RunRestore \/ RestorePacket \/ RestoreDrained PROVE IInv'
<1>0. Good(sys, worker) /\ sys \in SysType
  BY DEF IInv, Good, Typed
<1>1. CASE RunRestore
  <2>1. worker = "idle" /\ worker' = "restore" /\ sys' = Cancel(sys, "Restore") /\ UNCHANGED <<reported, inputs>>
    BY <1>1 DEF RunRestore, Take
  <2>2. Good(sys', worker')
    BY <1>0, <2>1, TakenGood DEF Works, Steps
  <2> QED BY <2>1, <2>2 DEF IInv, Steps
<1>2. CASE RestorePacket
  <2> DEFINE q == Tail(sys.queue)
             t == [sys EXCEPT !.queue = q]
  <2>1. sys.queue \in Seq(Requests) /\ sys.queue # <<>> /\ Len(sys.queue) <= QueueCapacity /\ QueueCapacity \in Nat
    BY <1>0, <1>2, SystemAssumption DEF SysType, RestorePacket, Good, Typed
  <2>2. Head(sys.queue) \in Requests /\ q \in Seq(Requests) /\ Len(q) <= QueueCapacity
    BY <2>1
  <2>3. worker = "restore" /\ worker' = "restore" /\ UNCHANGED <<reported, inputs>>
        /\ sys' = Handle(t, Head(sys.queue))
    BY <1>2 DEF RestorePacket, At
  <2> HIDE DEF q
  <2>4. t \in SysType
    BY <1>0, <2>2 DEF SysType
  <2>5. /\ t.backup = sys.backup /\ t.refresh = sys.refresh /\ t.queue = q /\ t.pending = sys.pending
        /\ t.frozen = sys.frozen /\ t.mode = sys.mode /\ t.rebooting = sys.rebooting
        /\ t.components = sys.components
    BY <1>0 DEF SysType
  <2> HIDE DEF t
  <2>6. Good(t, worker)
    BY <1>0, <2>2, <2>3, <2>4, <2>5 DEF Good, Typed, Continued, Reason
  <2>7. Good(sys', worker')
    BY <2>2, <2>3, <2>6, HandleGood
  <2> QED BY <2>3, <2>7 DEF IInv, Steps
<1>3. CASE RestoreDrained
  <2>1. worker = "restore" /\ worker' = "idle" /\ sys.queue = <<>> /\ UNCHANGED <<sys, reported, inputs>>
    BY <1>3 DEF RestoreDrained, At
  <2>2. Good(sys, worker')
    BY <1>0, <2>1, MovedGood
  <2> QED BY <2>1, <2>2 DEF IInv, Steps
<1> QED BY <1>1, <1>2, <1>3

\* The factory reset: from the teardown on, I/O stays frozen until the device has started again.
LEMMA FactoryResetSteps == ASSUME IInv, RunFactoryReset \/ FactoryResetDone \/ FactoryResetFailed PROVE IInv'
<1>0. Good(sys, worker) /\ sys \in SysType
  BY DEF IInv, Good, Typed
<1>1. CASE RunFactoryReset
  <2> DEFINE s == Cancel(sys, "FactoryReset")
             t == [s EXCEPT !.frozen = TRUE, !.components = FALSE]
  <2>1. worker = "idle" /\ worker' = "factoryReset" /\ UNCHANGED <<reported, inputs>>
        /\ sys' = IF s.components THEN t ELSE s
    BY <1>1 DEF RunFactoryReset, Take
  <2>2. Good(s, worker')
    BY <1>0, <2>1, TakenGood DEF Works, Steps
  <2> HIDE DEF s
  <2>3. t \in SysType
    BY <2>2 DEF Good, Typed, SysType
  <2>4. /\ t.backup = s.backup /\ t.refresh = s.refresh /\ t.queue = s.queue /\ t.pending = s.pending
        /\ t.mode = s.mode /\ t.rebooting = s.rebooting /\ ~t.components
    BY <2>2 DEF Good, Typed, SysType
  <2> HIDE DEF t
  <2>5. Good(t, worker')
    BY <2>2, <2>3, <2>4 DEF Good, Typed, Continued, Reason
  <2> QED BY <2>1, <2>2, <2>5 DEF IInv, Steps
<1>2. CASE FactoryResetDone
  <2> DEFINE t == [sys EXCEPT !.preset = 0, !.refreshDisabled = 0, !.programChangeIn = 0]
  <2>1. worker = "factoryReset" /\ worker' = "idle" /\ UNCHANGED <<reported, inputs>>
        /\ sys' = ScheduleReboot(t, "Application")
    BY <1>2 DEF FactoryResetDone, At
  <2>2. 0 \in Presets
    BY SystemAssumption DEF Presets
  <2>3. t \in SysType
    BY <1>0, <2>2 DEF SysType
  <2>4. /\ t.backup = sys.backup /\ t.refresh = sys.refresh /\ t.queue = sys.queue /\ t.pending = sys.pending
        /\ t.frozen = sys.frozen /\ t.mode = sys.mode /\ t.rebooting = sys.rebooting
        /\ t.components = sys.components
    BY <1>0 DEF SysType
  <2> HIDE DEF t
  <2>5. Good(t, worker)
    BY <1>0, <2>3, <2>4, Steady
  <2>6. Good(t, worker')
    BY <2>1, <2>5, MovedGood
  <2>7. Good(sys', worker')
    BY <2>1, <2>6, ScheduleRebootGood
  <2> QED BY <2>1, <2>7 DEF IInv, Steps
<1>3. CASE FactoryResetFailed
  <2>1. worker = "factoryReset" /\ worker' = "idle" /\ UNCHANGED <<sys, reported, inputs>>
    BY <1>3 DEF FactoryResetFailed, At
  <2>2. Good(sys, worker')
    BY <1>0, <2>1, MovedGood
  <2> QED BY <2>1, <2>2 DEF IInv, Steps
<1> QED BY <1>1, <1>2, <1>3

\* The reboot item, up to the start that follows it.
LEMMA RebootSteps == ASSUME IInv, RunReboot \/ Reboot PROVE IInv'
<1>0. Good(sys, worker) /\ sys \in SysType
  BY DEF IInv, Good, Typed
<1>1. CASE RunReboot
  <2> DEFINE t == Cancel(sys, "Reboot")
  <2>1. worker = "idle" /\ worker' = "reboot" /\ UNCHANGED <<reported, inputs>>
        /\ sys' = IF t.enabled THEN Announce([Cancel(t, "Close") EXCEPT !.enabled = FALSE], "Closed") ELSE t
    BY <1>1 DEF RunReboot, Take
  <2>2. Good(t, "reboot")
    BY <1>0, <2>1, TakenGood DEF Works, Steps
  <2> HIDE DEF t
  <2>3. Good([Cancel(t, "Close") EXCEPT !.enabled = FALSE], "reboot")
    BY <2>2, CancelGood, DisabledGood
  <2>4. Good(Announce([Cancel(t, "Close") EXCEPT !.enabled = FALSE], "Closed"), "reboot")
    BY <2>3, AnnounceGood
  <2> QED BY <2>1, <2>2, <2>4 DEF IInv, Steps
<1>2. CASE Reboot
  <2>1. worker' = "idle" /\ UNCHANGED inputs /\ sys' = Boot(sys.refreshDisabled, sys.programChangeIn)
        /\ reported' = [c \in DOMAIN reported |-> 0]
    BY <1>2 DEF Reboot, At
  <2>2. sys.refreshDisabled \in {0, 1} /\ sys.programChangeIn \in {0, 1}
    BY <1>0 DEF SysType
  <2>3. Good(sys', worker')
    BY <2>1, <2>2, BootGood
  <2>4. 0 \in Presets
    BY SystemAssumption DEF Presets
  <2>5. reported' \in [1 .. NumComponents -> Presets]
    BY <2>1, <2>4 DEF IInv
  <2> QED BY <2>1, <2>3, <2>5 DEF IInv, Steps
<1> QED BY <1>1, <1>2

\* The inactivity timer.
LEMMA CloseSteps == ASSUME IInv, RunClose \/ CloseConnection \/ AnnounceClosed PROVE IInv'
<1>0. Good(sys, worker)
  BY DEF IInv
<1>1. CASE RunClose
  <2>1. worker = "idle" /\ worker' \in {"closeConnection", "idle"} /\ UNCHANGED <<reported, inputs>>
        /\ sys' = Cancel(sys, "Close")
    BY <1>1 DEF RunClose, Take
  <2>2. Good(sys', worker')
    BY <1>0, <2>1, TakenGood DEF Works, Steps
  <2> QED BY <2>1, <2>2 DEF IInv, Steps
<1>2. CASE CloseConnection
  <2>1. worker = "closeConnection" /\ worker' = "announceClosed" /\ UNCHANGED <<reported, inputs>>
        /\ sys' = [sys EXCEPT !.enabled = FALSE]
    BY <1>2 DEF CloseConnection, At
  <2>2. Good(sys, worker')
    BY <1>0, <2>1, MovedGood
  <2>3. Good(sys', worker')
    BY <2>1, <2>2, DisabledGood
  <2> QED BY <2>1, <2>3 DEF IInv, Steps
<1>3. CASE AnnounceClosed
  <2>1. worker = "announceClosed" /\ worker' = "idle" /\ UNCHANGED <<reported, inputs>>
        /\ sys' = Announce(sys, "Closed")
    BY <1>3 DEF AnnounceClosed, At
  <2>2. Good(sys, worker')
    BY <1>0, <2>1, MovedGood
  <2>3. Good(sys', worker')
    BY <2>1, <2>2, AnnounceGood
  <2> QED BY <2>1, <2>3 DEF IInv, Steps
<1> QED BY <1>1, <1>2, <1>3

-----------------------------------------------------------------------------
\* The invariant holds.
LEMMA Invariance == Spec => []IInv
<1>1. IInv /\ [Next]_vars => IInv'
  <2> SUFFICES ASSUME IInv, [Next]_vars PROVE IInv'
    OBVIOUS
  <2>1. CASE Dispatcher
    BY <2>1, DispatcherGood
  <2>2. CASE RunItem
    BY <2>2, RefreshSteps, IoResumeStep, BackupSteps, RestoreSteps, FactoryResetSteps, RebootSteps, CloseSteps
    DEF RunItem
  <2>3. CASE RunStep
    BY <2>3, RefreshSteps, BackupSteps, RestoreSteps, FactoryResetSteps, RebootSteps, CloseSteps DEF RunStep
  <2>4. CASE UNCHANGED vars
    BY <2>4 DEF vars, IInv
  <2> QED BY <2>1, <2>2, <2>3, <2>4 DEF Next
<1> QED BY InitGood, <1>1, PTL DEF Spec

\* The fields of the coordinator hold what their types admit, and the restore queue stays within its capacity.
THEOREM SystemTyped == Spec => []TypeOK
<1>1. IInv => TypeOK
  BY DEF IInv, Good, Typed, TypeOK
<1> QED BY Invariance, <1>1, PTL

\* Whatever the dispatcher schedules, cancels or starts between the steps of a work item, a refresh, a backup,
\* a queued restore packet and a requested reboot keep an item that will continue them.
THEOREM SystemNothingStranded == Spec => []NothingStranded
<1>1. IInv => NothingStranded
  BY DEF IInv, Good, Continued, NothingStranded
<1> QED BY Invariance, <1>1, PTL

\* I/O is frozen only while something that will resume it, or restart the device, is under way.
THEOREM SystemFrozenForAReason == Spec => []FrozenForAReason
<1>1. IInv => FrozenForAReason
  BY DEF IInv, Good, Reason, FrozenForAReason
<1> QED BY Invariance, <1>1, PTL

\* A backup that reaches its end marker has run the export of every section of every preset, although other presets
\* are selected and refreshes, restores and closed sessions come in between.
THEOREM SystemBackupComplete == Spec => []BackupComplete
<1>1. IInv => BackupComplete
  BY DEF IInv, Good, Typed, Exporting, Exported, BackupComplete
<1> QED BY Invariance, <1>1, PTL

-----------------------------------------------------------------------------
\* Who owns the session.

\* No operation on the fields changes the owner.
LEMMA SetPresetClient ==
    ASSUME NEW s \in SysType, NEW chosen \in Presets
    PROVE  SetPreset(s, chosen).client = s.client
BY DEF SetPreset, ScheduleRefresh, Schedule, SysType

LEMMA HandleClient ==
    ASSUME NEW s \in SysType, NEW r \in Requests
    PROVE  Handle(s, r).client = s.client
<1> SUFFICES Obey(s, r).client = s.client
  BY DEF Handle
<1>0. r.kind \in RequestKinds
  BY RequestArguments
<1>1. CASE r.kind \in {"Open", "Close", "Get", "SetRefreshDisabled", "SetProgramChangeIn"}
  BY <1>1 DEF Obey, SysType
<1>2. CASE r.kind \in {"WordOk", "WordBad"}
  BY <1>2 DEF Obey, SysType, ProcessUnlockWord
<1>3. CASE r.kind \in {"RebootApp", "RebootBootloader", "FactoryReset"}
  BY <1>3 DEF Obey, SysType, ScheduleReboot, Schedule
<1>4. CASE r.kind = "Backup"
  BY <1>4 DEF Obey, SysType, StartBackup, Schedule, Cancel
<1>5. CASE r.kind = "RestoreStart"
  BY <1>5 DEF Obey, SysType, StartRestore, Cancel
<1>6. CASE r.kind = "RestoreEnd"
  BY <1>6 DEF Obey, SysType, FinishRestore, ScheduleReboot, Schedule
<1>7. CASE r.kind = "SetPreset"
  BY <1>7, RequestArguments, SetPresetClient DEF Obey
<1> QED BY <1>0, <1>1, <1>2, <1>3, <1>4, <1>5, <1>6, <1>7 DEF RequestKinds

LEMMA UpdateSessionClient ==
    ASSUME NEW s \in SysType, NEW wasOpen
    PROVE  UpdateSession(s, wasOpen).client = s.client
BY DEF UpdateSession, Announce, Schedule, Cancel, SysType

LEMMA QueuedClient ==
    ASSUME NEW s \in SysType, NEW r
    PROVE  Queued(s, r).client = s.client
BY DEF Queued, Schedule, SysType

LEMMA BackupStepClient ==
    ASSUME NEW s, NEW w, Good(s, w), s.backup.active, s.backup.phase # "FinalAck"
    PROVE  BackupStep(s).client = s.client
<1> DEFINE b == s.backup
<1>1. s \in SysType /\ b \in BackupType /\ Exporting(b)
  BY DEF Good, Typed, SysType
<1>2. \A chosen \in Presets : SetPreset(s, chosen) \in SysType /\ SetPreset(s, chosen).client = s.client
  BY <1>1, SetPresetGood, SetPresetClient DEF Good, Typed
<1>3. CASE b.phase = "PresetSelect" /\ ~AllPresetsDone(b)
  <2> DEFINE t == SetPreset(s, b.preset)
  <2>1. t \in SysType /\ t.client = s.client
    BY <1>2, <1>3 DEF AllPresetsDone
  <2>2. BackupStep(s) = [[t EXCEPT !.backup.section = 0] EXCEPT !.backup.phase = "PresetData"]
    BY <1>3 DEF BackupStep
  <2> HIDE DEF t
  <2> QED BY <2>1, <2>2 DEF SysType
<1>4. CASE b.phase = "RestoreCurrentPreset"
  <2> DEFINE t == SetPreset(s, b.current)
  <2>1. t \in SysType /\ t.client = s.client
    BY <1>1, <1>2 DEF BackupType
  <2>2. BackupStep(s) = [t EXCEPT !.backup.phase = "RestoreEnd"]
    BY <1>4 DEF BackupStep
  <2> HIDE DEF t
  <2> QED BY <2>1, <2>2 DEF SysType
<1>5. CASE b.phase = "PresetData"
  BY <1>1, <1>5 DEF BackupStep, SysType
<1>9. CASE b.phase = "PresetSelect" /\ AllPresetsDone(b)
  BY <1>1, <1>9 DEF BackupStep, SysType
<1>6. CASE b.phase = "RestoreStart"
  <2>1. BackupStep(s) = [s EXCEPT !.backup.phase = "PresetSelect"]
    BY <1>6 DEF BackupStep
  <2> QED BY <1>1, <2>1 DEF SysType
<1>8. CASE b.phase = "RestoreEnd"
  <2>1. BackupStep(s) = [s EXCEPT !.backup.phase = "FinalAck"]
    BY <1>8 DEF BackupStep
  <2> QED BY <1>1, <2>1 DEF SysType
<1>7. b.phase \in {"RestoreStart", "PresetSelect", "PresetData", "RestoreCurrentPreset", "RestoreEnd"}
  BY <1>1 DEF BackupType, Phases, Exporting
<1> QED BY <1>3, <1>4, <1>5, <1>6, <1>7, <1>8, <1>9

\* A signal: the checks that come first keep another transport out.
LEMMA DispatcherOwned ==
    ASSUME IInv, Dispatcher, SessionActive(sys)
    PROVE  sys'.client.transport = sys.client.transport
<1>0. sys \in SysType
  BY DEF IInv, Good, Typed
<1>1. ASSUME NEW c \in Clients, NEW r \in Requests, CanAccept(sys, c.transport)
      PROVE  LET t == [sys EXCEPT !.client = c]
             IN  /\ t.client.transport = sys.client.transport
                 /\ UpdateSession(Handle(t, r), t.enabled).client = t.client
                 /\ Queued(t, r).client = t.client
                 /\ HasRoom(t) => UpdateSession(Queued(t, r), t.enabled).client = t.client
  <2> DEFINE t == [sys EXCEPT !.client = c]
  <2>1. Good(t, worker) /\ t \in SysType
    BY ClientGood DEF IInv, Good, Typed
  <2>2. t.client = c /\ sys.client.transport = c.transport
    BY <1>0, <1>1 DEF SysType, CanAccept
  <2> HIDE DEF t
  <2>3. Handle(t, r) \in SysType /\ Handle(t, r).client = t.client
    BY <2>1, HandleGood, HandleClient DEF Good, Typed
  <2>4. UpdateSession(Handle(t, r), t.enabled).client = t.client
    BY <2>3, UpdateSessionClient
  <2>5. Queued(t, r).client = t.client
    BY <2>1, QueuedClient
  <2>6. HasRoom(t) => UpdateSession(Queued(t, r), t.enabled).client = t.client
    BY <2>1, <2>5, QueuedGood, UpdateSessionClient DEF Good, Typed
  <2> QED BY <2>2, <2>4, <2>5, <2>6 DEF t
<1>2. ASSUME NEW r \in Requests, HandleUsbSysEx(r) PROVE sys'.client.transport = sys.client.transport
  <2>1. UsbClient \in Clients /\ UsbClient.transport = "Usb"
    BY DEF UsbClient, Clients
  <2> QED BY <1>1, <1>2, <2>1 DEF HandleUsbSysEx
<1>3. ASSUME NEW c \in Clients, NEW r \in Requests, HandleConfigRequest(c, r)
      PROVE  sys'.client.transport = sys.client.transport
  BY <1>1, <1>3 DEF HandleConfigRequest
<1>4. ASSUME NEW c \in Clients, HandleConfigDisconnect(c) PROVE sys'.client = sys.client
  BY <1>0, <1>4 DEF HandleConfigDisconnect, Announce, Cancel, SysType
<1>5. ASSUME NEW chosen \in Presets, ProgramChangeIn(chosen) \/ PresetChangeReq(chosen)
      PROVE  sys'.client = sys.client
  BY <1>0, <1>5, SetPresetClient DEF ProgramChangeIn, PresetChangeReq
<1>6. ASSUME NEW type \in Causes, RefreshReq(type) PROVE sys'.client = sys.client
  BY <1>0, <1>6 DEF RefreshReq, ScheduleRefresh, Schedule, SysType
<1>7. ASSUME BootloaderRebootReq PROVE sys'.client = sys.client
  BY <1>0, <1>7 DEF BootloaderRebootReq, ScheduleReboot, Schedule, SysType
<1> QED BY <1>2, <1>3, <1>4, <1>5, <1>6, <1>7 DEF Dispatcher

\* A step of the workqueue: only the start of the device resets the owner.
LEMMA WorkqueueOwned ==
    ASSUME IInv, RunItem \/ RunStep, worker # "reboot"
    PROVE  sys'.client = sys.client
<1>0. Good(sys, worker) /\ sys \in SysType
  BY DEF IInv, Good, Typed
<1>1. CASE RunRefresh \/ RunIoResume \/ RunRestore \/ RunClose \/ FinishBackup
  BY <1>0, <1>1 DEF RunRefresh, RunIoResume, RunRestore, RunClose, FinishBackup, Cancel, SysType
<1>2. CASE RunBackup
  <2>1. CASE sys.backup.active
    <3>1. BackupStep(sys).client = sys.client /\ BackupStep(sys) \in SysType
      BY <1>0, <1>2, <2>1, BackupStepClient, BackupStepGood DEF RunBackup, Good, Typed
    <3> QED BY <1>2, <2>1, <3>1 DEF RunBackup, Schedule, SysType
  <2>2. CASE ~sys.backup.active
    BY <1>0, <1>2, <2>2 DEF RunBackup, Cancel, SysType
  <2> QED BY <2>1, <2>2
<1>3. CASE RunFactoryReset
  BY <1>0, <1>3 DEF RunFactoryReset, Cancel, SysType
<1>4. CASE RunReboot
  BY <1>0, <1>4 DEF RunReboot, Announce, Cancel, SysType
<1>5. CASE StartRefresh \/ RefreshBatch \/ RefreshDone \/ ClearRefresh \/ ResumeIo \/ ResumeAfterBackup
  BY <1>0, <1>5 DEF StartRefresh, RefreshBatch, RefreshDone, ClearRefresh, ResumeIo, ResumeAfterBackup, Schedule, SysType
<1>6. CASE RestorePacket
  <2> DEFINE t == [sys EXCEPT !.queue = Tail(@)]
  <2>1. Head(sys.queue) \in Requests /\ Tail(sys.queue) \in Seq(Requests)
    BY <1>0, <1>6 DEF RestorePacket, SysType
  <2>2. t \in SysType /\ t.client = sys.client
    BY <1>0, <2>1 DEF SysType
  <2>3. sys' = Handle(t, Head(sys.queue))
    BY <1>6 DEF RestorePacket
  <2> HIDE DEF t
  <2> QED BY <2>1, <2>2, <2>3, HandleClient
<1>7. CASE RestoreDrained \/ FactoryResetFailed
  BY <1>7 DEF RestoreDrained, FactoryResetFailed
<1>8. CASE FactoryResetDone
  BY <1>0, <1>8 DEF FactoryResetDone, ScheduleReboot, Schedule, SysType
<1>9. CASE Reboot
  BY <1>9 DEF Reboot, At
<1>10. CASE CloseConnection \/ AnnounceClosed
  BY <1>0, <1>10 DEF CloseConnection, AnnounceClosed, Announce, SysType
<1> QED BY <1>1, <1>2, <1>3, <1>4, <1>5, <1>6, <1>7, <1>8, <1>9, <1>10 DEF RunItem, RunStep

\* While a session, a backup or a restore is active, its transport stays the owner.
THEOREM SystemSessionOwned == Spec => SessionOwned
<1>1. IInv /\ [Next]_vars => [KeepsTransport]_vars
  BY DispatcherOwned, WorkqueueOwned DEF Next, KeepsTransport
<1> QED BY Invariance, <1>1, PTL DEF Spec, SessionOwned

-----------------------------------------------------------------------------
\* The inactivity timer.

\* What keeps an open session timed from one record of fields to the next.
KeepsTimer(s, t) ==
    /\ t.enabled = s.enabled /\ t.told = s.told /\ t.mode = s.mode
    /\ "Close" \in s.pending => "Close" \in t.pending
    /\ s.rebooting => t.rebooting

LEMMA SetPresetTimer ==
    ASSUME NEW s \in SysType, NEW chosen \in Presets
    PROVE  KeepsTimer(s, SetPreset(s, chosen))
BY DEF KeepsTimer, SetPreset, ScheduleRefresh, Schedule, SysType

\* After every frame outside a restore the timer runs or has no reason to.
LEMMA UpdateSessionTimer ==
    ASSUME NEW s \in SysType, NEW wasOpen
    PROVE  LET t == UpdateSession(s, wasOpen)
           IN  t.enabled /\ t.mode = "None" => "Close" \in t.pending
BY DEF UpdateSession, Announce, Schedule, Cancel, SysType

\* In a restore no frame ends it: packets are queued.
LEMMA QueuedMode ==
    ASSUME NEW s \in SysType, NEW r \in Requests, Queued(s, r) \in SysType
    PROVE  /\ Queued(s, r).mode = s.mode
           /\ \A wasOpen : UpdateSession(Queued(s, r), wasOpen).mode = s.mode
<1>1. Queued(s, r).mode = s.mode
  BY DEF Queued, Schedule, SysType
<1>2. ASSUME NEW q \in SysType, NEW wasOpen PROVE UpdateSession(q, wasOpen).mode = q.mode
  BY DEF UpdateSession, Announce, Schedule, Cancel, SysType
<1> QED BY <1>1, <1>2

LEMMA DispatcherTimed == ASSUME IInv, Dispatcher, Timed PROVE Timed'
<1>0. sys \in SysType /\ Good(sys, worker)
  BY DEF IInv, Good, Typed
<1>1. worker' = worker
  BY DEF Dispatcher, HandleUsbSysEx, HandleConfigRequest, HandleConfigDisconnect, ProgramChangeIn, PresetChangeReq,
         RefreshReq, BootloaderRebootReq, Deliver
<1>2. ASSUME NEW c \in Clients, NEW r \in Requests
      PROVE  LET t == [sys EXCEPT !.client = c]
             IN  /\ t.mode # "Restore" =>
                      LET u == UpdateSession(Handle(t, r), t.enabled)
                      IN  u.enabled /\ u.mode = "None" => "Close" \in u.pending
                 /\ t.mode = "Restore" =>
                      /\ HasRoom(t) => Queued(t, r).mode = "Restore"
                      /\ HasRoom(t) => UpdateSession(Queued(t, r), t.enabled).mode = "Restore"
  <2> DEFINE t == [sys EXCEPT !.client = c]
  <2>1. Good(t, worker) /\ t \in SysType
    BY <1>0, ClientGood DEF Good, Typed
  <2> HIDE DEF t
  <2>2. Handle(t, r) \in SysType
    BY <2>1, HandleGood DEF Good, Typed
  <2>3. HasRoom(t) => Queued(t, r) \in SysType
    BY <2>1, QueuedGood DEF Good, Typed
  <2>4. LET u == UpdateSession(Handle(t, r), t.enabled)
        IN  u.enabled /\ u.mode = "None" => "Close" \in u.pending
    BY <2>2, UpdateSessionTimer
  <2>5. t.mode = "Restore" =>
           /\ HasRoom(t) => Queued(t, r).mode = "Restore"
           /\ HasRoom(t) => UpdateSession(Queued(t, r), t.enabled).mode = "Restore"
    BY <2>1, <2>3, QueuedMode
  <2> QED BY <2>4, <2>5 DEF t
<1>3. ASSUME NEW r \in Requests, HandleUsbSysEx(r) PROVE Timed'
  <2>1. UsbClient \in Clients
    BY DEF UsbClient, Clients
  <2> QED BY <1>2, <1>3, <2>1 DEF HandleUsbSysEx, Timed
<1>4. ASSUME NEW c \in Clients, NEW r \in Requests, HandleConfigRequest(c, r) PROVE Timed'
  BY <1>2, <1>4 DEF HandleConfigRequest, Timed
<1>5. ASSUME NEW c \in Clients, HandleConfigDisconnect(c) PROVE Timed'
  <2>1. sys'.enabled = FALSE
    BY <1>0, <1>5 DEF HandleConfigDisconnect, Announce, Cancel, SysType
  <2> QED BY <2>1 DEF Timed
<1>6. ASSUME NEW chosen \in Presets, ProgramChangeIn(chosen) \/ PresetChangeReq(chosen) PROVE Timed'
  <2>1. KeepsTimer(sys, sys')
    BY <1>0, <1>6, SetPresetTimer DEF ProgramChangeIn, PresetChangeReq
  <2> QED BY <1>1, <2>1 DEF Timed, KeepsTimer
<1>7. ASSUME NEW type \in Causes, RefreshReq(type) PROVE Timed'
  <2>1. KeepsTimer(sys, sys')
    BY <1>0, <1>7 DEF RefreshReq, ScheduleRefresh, Schedule, KeepsTimer, SysType
  <2> QED BY <1>1, <2>1 DEF Timed, KeepsTimer
<1>8. ASSUME BootloaderRebootReq PROVE Timed'
  <2>1. sys'.rebooting
    BY <1>0, <1>8 DEF BootloaderRebootReq, ScheduleReboot, Schedule, SysType
  <2> QED BY <2>1 DEF Timed
<1> QED BY <1>3, <1>4, <1>5, <1>6, <1>7, <1>8 DEF Dispatcher

\* A step of the export leaves the session as it is.
LEMMA BackupStepTimer ==
    ASSUME NEW s, NEW w, Good(s, w), s.backup.active, s.backup.phase # "FinalAck"
    PROVE  KeepsTimer(s, BackupStep(s))
<1> DEFINE b == s.backup
<1>1. s \in SysType /\ b \in BackupType /\ Exporting(b)
  BY DEF Good, Typed, SysType
<1>2. \A chosen \in Presets : SetPreset(s, chosen) \in SysType /\ KeepsTimer(s, SetPreset(s, chosen))
  BY <1>1, SetPresetGood, SetPresetTimer DEF Good, Typed
<1>3. CASE b.phase = "PresetSelect" /\ ~AllPresetsDone(b)
  <2> DEFINE t == SetPreset(s, b.preset)
  <2>1. t \in SysType /\ KeepsTimer(s, t)
    BY <1>2, <1>3 DEF AllPresetsDone
  <2>2. BackupStep(s) = [[t EXCEPT !.backup.section = 0] EXCEPT !.backup.phase = "PresetData"]
    BY <1>3 DEF BackupStep
  <2> HIDE DEF t
  <2> QED BY <2>1, <2>2 DEF SysType, KeepsTimer
<1>4. CASE b.phase = "RestoreCurrentPreset"
  <2> DEFINE t == SetPreset(s, b.current)
  <2>1. t \in SysType /\ KeepsTimer(s, t)
    BY <1>1, <1>2 DEF BackupType
  <2>2. BackupStep(s) = [t EXCEPT !.backup.phase = "RestoreEnd"]
    BY <1>4 DEF BackupStep
  <2> HIDE DEF t
  <2> QED BY <2>1, <2>2 DEF SysType, KeepsTimer
<1>5. CASE b.phase = "PresetData"
  BY <1>1, <1>5 DEF BackupStep, SysType, KeepsTimer
<1>6. CASE b.phase = "PresetSelect" /\ AllPresetsDone(b)
  BY <1>1, <1>6 DEF BackupStep, SysType, KeepsTimer
<1>7. CASE b.phase \in {"RestoreStart", "RestoreEnd"}
  <2>1. \E phase \in Phases : BackupStep(s) = [s EXCEPT !.backup.phase = phase]
    BY <1>7 DEF BackupStep, Phases
  <2> QED BY <1>1, <2>1 DEF SysType, KeepsTimer
<1>8. b.phase \in {"RestoreStart", "PresetSelect", "PresetData", "RestoreCurrentPreset", "RestoreEnd"}
  BY <1>1 DEF BackupType, Phases, Exporting
<1> QED BY <1>3, <1>4, <1>5, <1>6, <1>7, <1>8

\* A step of the workqueue: whoever takes the timer goes on to close the session, and the end of a backup
\* goes on to start the timer.
LEMMA WorkqueueTimed == ASSUME IInv, RunItem \/ RunStep, Timed PROVE Timed' \/ RestorePacket
<1>0. Good(sys, worker) /\ sys \in SysType
  BY DEF IInv, Good, Typed
<1>1. CASE RunRefresh \/ RunIoResume \/ RunRestore
  <2>1. worker = "idle"
    BY <1>1 DEF RunRefresh, RunIoResume, RunRestore, Take
  <2>2. ASSUME RunRefresh \/ RunRestore PROVE KeepsTimer(sys, sys')
    BY <1>0, <2>2 DEF RunRefresh, RunRestore, Cancel, KeepsTimer, SysType
  <2>3. ASSUME RunIoResume PROVE KeepsTimer(sys, sys')
    BY <1>0, <2>3 DEF RunIoResume, Cancel, KeepsTimer, SysType
  <2>4. KeepsTimer(sys, sys')
    BY <1>1, <2>2, <2>3
  <2> QED BY <2>1, <2>4 DEF Timed, KeepsTimer
<1>2. CASE RunBackup
  <2>1. CASE sys.backup.active
    <3>1. BackupStep(sys) \in SysType /\ KeepsTimer(sys, BackupStep(sys))
      BY <1>0, <1>2, <2>1, BackupStepTimer, BackupStepGood DEF RunBackup, Good, Typed
    <3>2. KeepsTimer(sys, sys') /\ worker = "idle"
      BY <1>2, <2>1, <3>1 DEF RunBackup, Take, Schedule, KeepsTimer, SysType
    <3> QED BY <3>2 DEF Timed, KeepsTimer
  <2>2. CASE ~sys.backup.active
    <3>1. KeepsTimer(sys, sys') /\ worker = "idle"
      BY <1>0, <1>2, <2>2 DEF RunBackup, Take, Cancel, KeepsTimer, SysType
    <3> QED BY <3>1 DEF Timed, KeepsTimer
  <2> QED BY <2>1, <2>2
<1>3. CASE FinishBackup
  BY <1>3 DEF FinishBackup, Take, Timed
<1>4. CASE ResumeAfterBackup
  <2>1. sys'.enabled => "Close" \in sys'.pending
    BY <1>0, <1>4 DEF ResumeAfterBackup, Schedule, SysType
  <2> QED BY <2>1 DEF Timed
<1>5. CASE RunFactoryReset
  <2>1. KeepsTimer(sys, sys') /\ worker = "idle"
    BY <1>0, <1>5 DEF RunFactoryReset, Take, Cancel, KeepsTimer, SysType
  <2> QED BY <2>1 DEF Timed, KeepsTimer
<1>6. CASE FactoryResetDone
  <2>1. sys'.rebooting
    BY <1>0, <1>6 DEF FactoryResetDone, ScheduleReboot, Schedule, SysType
  <2> QED BY <2>1 DEF Timed
<1>7. CASE RunReboot
  <2>1. sys'.enabled = FALSE
    BY <1>0, <1>7 DEF RunReboot, Announce, Cancel, SysType
  <2> QED BY <2>1 DEF Timed
<1>8. CASE Reboot
  BY <1>8 DEF Reboot, Boot, Timed
<1>9. CASE RunClose
  <2>1. CASE sys.enabled /\ sys.mode = "None"
    BY <1>9, <2>1 DEF RunClose, Take, Timed
  <2>2. CASE ~(sys.enabled /\ sys.mode = "None")
    BY <1>0, <1>9, <2>2 DEF RunClose, Cancel, Timed, SysType
  <2> QED BY <2>1, <2>2
<1>10. CASE CloseConnection
  BY <1>0, <1>10 DEF CloseConnection, Timed, SysType
<1>11. CASE AnnounceClosed
  BY <1>0, <1>11 DEF AnnounceClosed, Announce, Timed, SysType
<1>12. CASE StartRefresh \/ RefreshBatch \/ RefreshDone \/ ClearRefresh \/ ResumeIo
  <2>1. worker \notin {"closeConnection", "backupEnd"}
    BY <1>12 DEF StartRefresh, RefreshBatch, RefreshDone, ClearRefresh, ResumeIo, At
  <2>2. ASSUME StartRefresh PROVE KeepsTimer(sys, sys')
    BY <1>0, <2>2 DEF StartRefresh, KeepsTimer, SysType
  <2>3. ASSUME RefreshBatch PROVE KeepsTimer(sys, sys')
    BY <1>0, <2>3 DEF RefreshBatch, Schedule, KeepsTimer, SysType
  <2>4. ASSUME RefreshDone \/ ClearRefresh \/ ResumeIo PROVE KeepsTimer(sys, sys')
    BY <1>0, <2>4 DEF RefreshDone, ClearRefresh, ResumeIo, KeepsTimer, SysType
  <2>5. KeepsTimer(sys, sys')
    BY <1>12, <2>2, <2>3, <2>4
  <2> QED BY <2>1, <2>5 DEF Timed, KeepsTimer
<1>13. CASE RestoreDrained \/ FactoryResetFailed
  <2>1. sys' = sys /\ worker \notin {"closeConnection", "backupEnd"}
    BY <1>13 DEF RestoreDrained, FactoryResetFailed, At
  <2> QED BY <2>1 DEF Timed
<1> QED BY <1>1, <1>2, <1>3, <1>4, <1>5, <1>6, <1>7, <1>8, <1>9, <1>10, <1>11, <1>12, <1>13 DEF RunItem, RunStep

\* An active session keeps its transport and, with the one exception that StaysTimed names, its timer.
THEOREM SystemSessionKept == Spec => SessionKept
<1>1. IInv /\ [Next]_vars => [KeepsTransport /\ StaysTimed]_vars
  BY DispatcherOwned, WorkqueueOwned, DispatcherTimed, WorkqueueTimed DEF Next, KeepsTransport, StaysTimed
<1> QED BY Invariance, <1>1, PTL DEF Spec, SessionKept

\* What the coordinator promises of its state, in one.
THEOREM SystemIsSafe == Spec => []SystemSafe
<1>1. TypeOK /\ NothingStranded /\ FrozenForAReason /\ BackupComplete => SystemSafe
  BY DEF SystemSafe
<1> QED BY <1>1, SystemTyped, SystemNothingStranded, SystemFrozenForAReason, SystemBackupComplete, PTL

-----------------------------------------------------------------------------
(* The switches: what the mapper makes of a reading.  The values of the    *)
(* counters play no part in what follows.                                  *)

SwitchStates == [pressed : BOOLEAN, value : 0 .. Max7, oscLatch : BOOLEAN, midiLatch : BOOLEAN]
GlobalStates == [program : 0 .. Max7, offset : 0 .. Max7, bpm : 0 .. BpmMax]
SwitchSetting == [type : {"Momentary", "Latching"}, message : STRING, id : Nat, value : Nat]

\* The counters stay within their limits.
LEMMA IncrementBounded ==
    ASSUME NEW max \in Nat \ {0}, NEW value \in 0 .. max, NEW steps \in Nat, NEW wraps \in BOOLEAN
    PROVE  Increment(value, steps, max, wraps) \in 0 .. max
<1>1. CASE max - value >= steps
  BY <1>1 DEF Increment
<1>2. CASE ~(max - value >= steps) /\ wraps
  <2> DEFINE q == value + (steps % max)
  <2>1. q \in Nat
    BY SMT
  <2> HIDE DEF q
  <2>2. q % (max + 1) \in 0 .. max
    BY <2>1, SMT
  <2> QED BY <1>2, <2>2 DEF Increment, q
<1>3. CASE ~(max - value >= steps) /\ ~wraps
  BY <1>3 DEF Increment
<1> QED BY <1>1, <1>2, <1>3

LEMMA GlobalsMove ==
    ASSUME NEW g \in GlobalStates, NEW steps \in Nat
    PROVE  /\ ProgramUp(g) \in GlobalStates /\ ProgramDown(g) \in GlobalStates
           /\ OffsetUp(g, steps) \in GlobalStates /\ OffsetDown(g, steps) \in GlobalStates
           /\ BpmUp(g) \in GlobalStates /\ BpmDown(g) \in GlobalStates
<1> USE GlobalsAssumption
<1>1. g.program \in 0 .. Max7 /\ g.offset \in 0 .. Max7 /\ g.bpm \in 0 .. BpmMax
  BY DEF GlobalStates
<1>2. Increment(g.program, 1 + g.offset, Max7, FALSE) \in 0 .. Max7
  <2>1. 1 + g.offset \in Nat
    BY <1>1
  <2> QED BY <1>1, <2>1, IncrementBounded
<1>3. Increment(g.offset, steps, Max7, FALSE) \in 0 .. Max7
  BY <1>1, IncrementBounded
<1>4. Increment(g.bpm, 1, BpmMax, FALSE) \in 0 .. BpmMax
  BY <1>1 DEF Increment
<1>5. /\ Decrement(g.program, 1 + g.offset, 0) \in 0 .. Max7 /\ Decrement(g.offset, steps, 0) \in 0 .. Max7
      /\ Decrement(g.bpm, 1, BpmMin) \in 0 .. BpmMax
  BY <1>1 DEF Decrement
<1>6. ProgramUp(g) \in GlobalStates /\ ProgramDown(g) \in GlobalStates
  BY <1>2, <1>5 DEF GlobalStates, ProgramUp, ProgramDown
<1>7. OffsetUp(g, steps) \in GlobalStates /\ OffsetDown(g, steps) \in GlobalStates
  BY <1>3, <1>5 DEF GlobalStates, OffsetUp, OffsetDown
<1>8. BpmUp(g) \in GlobalStates /\ BpmDown(g) \in GlobalStates
  BY <1>4, <1>5 DEF GlobalStates, BpmUp, BpmDown
<1> QED BY <1>6, <1>7, <1>8

\* What a prepared signal leaves behind.
Leaves(p, counter, g) == p.counter = counter /\ p.globals = g

LEMMA MovedLeaves ==
    ASSUME NEW s, NEW g, NEW c, NEW next, NEW mutate \in BOOLEAN
    PROVE  Leaves(Moved(Prepared(s, g, c), g, next, mutate), s.value, IF mutate THEN next ELSE g)
BY DEF Leaves, Moved, Prepared

LEMMA CountedLeaves ==
    ASSUME NEW s \in SwitchStates, NEW g, NEW c \in SwitchSetting, NEW mutate \in BOOLEAN
    PROVE  LET p == Counted(Prepared(s, g, c), s, c, mutate)
           IN  p.counter \in 0 .. Max7 /\ p.globals = g /\ (~mutate => p.counter = s.value)
<1> DEFINE q == Prepared(s, g, c)
           wraps == c.message \in {"MultiValIncResetNote", "MultiValIncResetCc"}
           up == Increment(s.value, c.value, Max7, wraps)
           next == IF mutate THEN up ELSE s.value
           p == Counted(q, s, c, mutate)
<1>1. up \in 0 .. Max7 /\ s.value \in 0 .. Max7
  <2>1. s.value \in 0 .. Max7 /\ c.value \in Nat /\ wraps \in BOOLEAN
    BY DEF SwitchStates, SwitchSetting
  <2> HIDE DEF wraps
  <2> QED BY <2>1, IncrementBounded, GlobalsAssumption
<1> HIDE DEF up
<1>2. CASE mutate /\ next = s.value
  <2>1. p = [q EXCEPT !.sent = FALSE]
    BY <1>2 DEF Counted, up
  <2> QED BY <1>1, <2>1 DEF Prepared
<1>3. CASE ~(mutate /\ next = s.value)
  <2> DEFINE note == c.message \in {"MultiValIncResetNote", "MultiValIncDecNote"}
             m == IF ~note THEN q.message ELSE IF next = 0 THEN "NoteOff" ELSE "NoteOn"
  <2>1. p = [q EXCEPT !.message = m, !.value = next, !.counter = next]
    BY <1>3 DEF Counted, up, Prepared
  <2> HIDE DEF m, note
  <2>2. p.counter = next /\ p.globals = g
    BY <2>1 DEF Prepared
  <2> QED BY <1>1, <2>2
<1> QED BY <1>2, <1>3

LEMMA PressedState ==
    ASSUME NEW s \in SwitchStates, NEW g \in GlobalStates, NEW c \in SwitchSetting, NEW mutate \in BOOLEAN
    PROVE  LET p == Pressed(s, g, c, mutate)
           IN  /\ p.counter \in 0 .. Max7 /\ p.globals \in GlobalStates
               /\ ~mutate => p.counter = s.value /\ p.globals = g
               /\ c.message = "Note" => p.sent = TRUE /\ p.message = "NoteOn"
<1> DEFINE q == Prepared(s, g, c)
           p == Pressed(s, g, c, mutate)
<1>1. s.value \in 0 .. Max7 /\ Leaves(q, s.value, g)
  BY DEF SwitchStates, SwitchSetting, Prepared, Leaves
<1>2. CASE c.message \in {"Note", "ControlChange", "ControlChangeReset", "RealTime", "Mmc", "MmcRecord", "MmcPlayStop"}
  <2>1. p = q
    BY <1>2 DEF Pressed
  <2>2. c.message = "Note" => q.sent = TRUE /\ q.message = "NoteOn"
    BY DEF Prepared, MidiType
  <2> QED BY <1>1, <2>1, <2>2 DEF Leaves
<1>3. CASE c.message \in {"ProgramChange", "NoteOffOnly", "ControlChange0Only"}
  <2>1. \/ p = [q EXCEPT !.value = 0, !.index = (@ + g.offset) % (Max7 + 1)]
        \/ p = [q EXCEPT !.value = 0, !.message = "NoteOff"]
        \/ p = [q EXCEPT !.value = 0]
    <3>1. CASE c.message = "ProgramChange"
      BY <3>1 DEF Pressed
    <3>2. CASE c.message = "NoteOffOnly"
      BY <3>2 DEF Pressed
    <3>3. CASE c.message = "ControlChange0Only"
      BY <3>3 DEF Pressed
    <3> QED BY <1>3, <3>1, <3>2, <3>3
  <2> QED BY <1>1, <1>3, <2>1 DEF Prepared, Leaves
<1>4. CASE c.message \in {"ProgramChangeInc", "ProgramChangeDec"}
  <2> DEFINE next == IF c.message = "ProgramChangeInc" THEN ProgramUp(g) ELSE ProgramDown(g)
             moved == Moved(q, g, next, mutate)
  <2>1. next \in GlobalStates
    BY GlobalsMove
  <2>2. p = [moved EXCEPT !.index = IF mutate THEN next.program ELSE g.program]
    BY <1>4 DEF Pressed
  <2> HIDE DEF next
  <2>3. Leaves(moved, s.value, IF mutate THEN next ELSE g)
    BY MovedLeaves
  <2> HIDE DEF moved
  <2>4. Leaves(p, s.value, IF mutate THEN next ELSE g)
    BY <2>2, <2>3 DEF Leaves
  <2> QED BY <1>1, <1>4, <2>1, <2>4 DEF Leaves
<1>5. CASE c.message \in {"MultiValIncResetNote", "MultiValIncDecNote", "MultiValIncResetCc", "MultiValIncDecCc"}
  <2>1. p = Counted(q, s, c, mutate)
    BY <1>5 DEF Pressed
  <2> QED BY <1>5, <2>1, CountedLeaves
<1>6. CASE c.message \in {"ProgramChangeOffsetInc", "ProgramChangeOffsetDec"}
  <2> DEFINE next == IF c.message = "ProgramChangeOffsetInc" THEN OffsetUp(g, c.value) ELSE OffsetDown(g, c.value)
  <2>1. next \in GlobalStates
    BY GlobalsMove DEF SwitchSetting
  <2>2. p = [q EXCEPT !.globals = IF mutate THEN next ELSE g]
    BY <1>6 DEF Pressed
  <2> HIDE DEF next
  <2> QED BY <1>1, <1>6, <2>1, <2>2 DEF Prepared
<1>7. CASE c.message \in {"BpmInc", "BpmDec"}
  <2> DEFINE next == IF c.message = "BpmInc" THEN BpmUp(g) ELSE BpmDown(g)
  <2>1. next \in GlobalStates
    BY GlobalsMove
  <2>2. p = Moved(q, g, next, mutate)
    BY <1>7 DEF Pressed
  <2> HIDE DEF next
  <2>3. Leaves(p, s.value, IF mutate THEN next ELSE g)
    BY <2>2, MovedLeaves
  <2> QED BY <1>1, <1>7, <2>1, <2>3 DEF Leaves
<1>8. CASE c.message = "PresetChange"
  <2>1. p = [q EXCEPT !.sent = FALSE, !.preset = mutate]
    BY <1>8 DEF Pressed
  <2> QED BY <1>1, <1>8, <2>1 DEF Prepared
<1>9. CASE c.message \notin {"Note", "ControlChange", "ControlChangeReset", "RealTime", "Mmc", "MmcRecord",
                             "MmcPlayStop", "ProgramChange", "NoteOffOnly", "ControlChange0Only", "ProgramChangeInc",
                             "ProgramChangeDec", "MultiValIncResetNote", "MultiValIncDecNote", "MultiValIncResetCc",
                             "MultiValIncDecCc", "ProgramChangeOffsetInc", "ProgramChangeOffsetDec", "BpmInc",
                             "BpmDec", "PresetChange"}
  <2>1. p = [q EXCEPT !.sent = FALSE]
    BY <1>9 DEF Pressed
  <2> QED BY <1>1, <1>9, <2>1 DEF Prepared
<1> QED BY <1>2, <1>3, <1>4, <1>5, <1>6, <1>7, <1>8, <1>9

LEMMA NotPressedState ==
    ASSUME NEW s \in SwitchStates, NEW g \in GlobalStates, NEW c \in SwitchSetting
    PROVE  LET p == NotPressed(s, g, c)
           IN  /\ p.counter = s.value /\ p.globals = g
               /\ c.message = "Note" => p.sent = TRUE /\ p.message = "NoteOff"
<1> DEFINE q == Prepared(s, g, c)
           p == NotPressed(s, g, c)
<1>1. CASE c.message = "Note"
  <2>1. p = [q EXCEPT !.value = 0, !.message = "NoteOff"]
    BY <1>1 DEF NotPressed
  <2> QED BY <1>1, <2>1 DEF Prepared
<1>2. CASE c.message # "Note"
  <2>1. \/ p = [q EXCEPT !.value = 0] \/ p = [q EXCEPT !.message = "MmcRecordStop"]
        \/ p = [q EXCEPT !.message = "MmcStop"] \/ p = [q EXCEPT !.sent = FALSE]
    BY <1>2 DEF NotPressed
  <2> QED BY <1>2, <2>1 DEF Prepared
<1> QED BY <1>1, <1>2

-----------------------------------------------------------------------------
(* A result.  One that is sent carries the state it leaves behind, as its  *)
(* note does; one that is not sent leaves the latches of a latching switch *)
(* alone, and sends no note.                                               *)

\* What the state of a switch stands for, to the host.
OscOf(s, c) == IF c.type = "Latching" THEN s.oscLatch ELSE s.pressed
NoteOf(s, c) == IF c.type = "Latching" THEN s.midiLatch ELSE s.pressed

Truthful(r) ==
    /\ r.osc.sent => r.osc.state = OscOf(r.switch, r.config)
    /\ r.config.message = "Note" =>
          /\ r.midi.sent <=> r.osc.sent
          /\ r.midi.sent => r.midi.message = IF NoteOf(r.switch, r.config) THEN "NoteOn" ELSE "NoteOff"
\* The switch s is, to the host, what the result leaves behind.
Unmoved(s, r) ==
    /\ r.config.type = "Latching"
    /\ r.switch.oscLatch = s.oscLatch
    /\ r.config.message = "Note" => r.switch.midiLatch = s.midiLatch

\* What a latch makes of a reading, as a table.
LatchResults == [sent : BOOLEAN, state : BOOLEAN, latch : BOOLEAN]
LatchTable(l, latch, latches, reading, refresh) ==
    /\ l \in LatchResults
    /\ l.sent => l.state = (IF latches THEN l.latch ELSE reading)
    /\ l.sent <=> ~(latches /\ ~refresh /\ ~reading)
    /\ ~l.sent => l.latch = latch
    /\ refresh => l.sent /\ l.latch = latch

LEMMA LatchRecord ==
    \A a, b, c \in BOOLEAN : \A l :
        l = [sent |-> a, state |-> b, latch |-> c] =>
            l \in LatchResults /\ l.sent = a /\ l.state = b /\ l.latch = c
BY DEF LatchResults

LEMMA LatchingFacts ==
    ASSUME NEW latch \in BOOLEAN, NEW latches \in BOOLEAN, NEW reading \in BOOLEAN, NEW refresh \in BOOLEAN
    PROVE  LatchTable(Latching(latch, latches, reading, refresh), latch, latches, reading, refresh)
<1> DEFINE l == Latching(latch, latches, reading, refresh)
           flip == ~latch
<1>t. TRUE \in BOOLEAN /\ FALSE \in BOOLEAN /\ flip \in BOOLEAN /\ latch \in BOOLEAN /\ reading \in BOOLEAN
  OBVIOUS
<1>1. /\ ~latches => l = [sent |-> TRUE, state |-> reading, latch |-> latch]
      /\ latches /\ refresh => l = [sent |-> TRUE, state |-> latch, latch |-> latch]
      /\ latches /\ ~refresh /\ reading => l = [sent |-> TRUE, state |-> flip, latch |-> flip]
      /\ latches /\ ~refresh /\ ~reading => l = [sent |-> FALSE, state |-> FALSE, latch |-> latch]
  BY DEF Latching
<1> SUFFICES LatchTable(l, latch, latches, reading, refresh)
  OBVIOUS
<1> HIDE DEF l, flip
<1>2. CASE ~latches
  <2>1. l \in LatchResults /\ l.sent = TRUE /\ l.state = reading /\ l.latch = latch
    <3>1. l = [sent |-> TRUE, state |-> reading, latch |-> latch]
      BY <1>1, <1>2
    <3> QED BY <1>t, <3>1, LatchRecord, Zenon
  <2> QED BY <1>2, <2>1, Zenon DEF LatchTable
<1>3. CASE latches /\ refresh
  <2>1. l \in LatchResults /\ l.sent = TRUE /\ l.state = latch /\ l.latch = latch
    <3>1. l = [sent |-> TRUE, state |-> latch, latch |-> latch]
      BY <1>1, <1>3
    <3> QED BY <1>t, <3>1, LatchRecord, Zenon
  <2> QED BY <1>3, <2>1, Zenon DEF LatchTable
<1>4. CASE latches /\ ~refresh /\ reading
  <2>1. l \in LatchResults /\ l.sent = TRUE /\ l.state = flip /\ l.latch = flip
    <3>1. l = [sent |-> TRUE, state |-> flip, latch |-> flip]
      BY <1>1, <1>4
    <3> QED BY <1>t, <3>1, LatchRecord, Zenon
  <2> QED BY <1>4, <2>1, Zenon DEF LatchTable
<1>5. CASE latches /\ ~refresh /\ ~reading
  <2>1. l \in LatchResults /\ l.sent = FALSE /\ l.state = FALSE /\ l.latch = latch
    BY <1>1, <1>5, <1>t, LatchRecord, Zenon
  <2> QED BY <1>5, <2>1, Zenon DEF LatchTable
<1> QED BY <1>2, <1>3, <1>4, <1>5, Zenon

LEMMA MidiLatchOfNote ==
    ASSUME NEW c, c.message = "Note"
    PROVE  LatchesMidi(c) = (c.type = "Latching") /\ MidiType(c.message) = "NoteOn"
BY DEF LatchesMidi, MidiType

\* What the mapper makes of a reading.
Made(r, s, g, c, reading, refresh) ==
    /\ r.switch \in SwitchStates /\ r.switch.pressed = reading
    /\ r.globals \in GlobalStates
    /\ r.config = c
    /\ Truthful(r)
    /\ ~r.osc.sent => Unmoved(s, r)
    /\ refresh => r.osc.sent
    /\ refresh /\ reading = s.pressed => r.switch = s /\ r.globals = g

LEMMA BuildFacts ==
    ASSUME NEW s \in SwitchStates, NEW g \in GlobalStates, NEW c \in SwitchSetting,
           NEW reading \in BOOLEAN, NEW refresh \in BOOLEAN
    PROVE  Made(Build(s, g, c, reading, refresh), s, g, c, reading, refresh)
<1> DEFINE r == Build(s, g, c, reading, refresh)
           osc == Latching(s.oscLatch, c.type = "Latching", reading, refresh)
           latch == Latching(s.midiLatch, LatchesMidi(c), reading, refresh)
           midi == IF latch.state THEN Pressed(s, g, c, ~refresh) ELSE NotPressed(s, g, c)
           sw == [pressed |-> reading, oscLatch |-> osc.latch, midiLatch |-> latch.latch,
                  value |-> IF latch.sent THEN midi.counter ELSE s.value]
           gl == IF latch.sent THEN midi.globals ELSE g
           sent == midi.sent /\ latch.sent
<1>0. s.oscLatch \in BOOLEAN /\ s.midiLatch \in BOOLEAN /\ s.pressed \in BOOLEAN /\ s.value \in 0 .. Max7
  BY DEF SwitchStates
<1>1. LatchTable(osc, s.oscLatch, c.type = "Latching", reading, refresh)
  BY <1>0, LatchingFacts, Zenon
<1>2. LatchTable(latch, s.midiLatch, LatchesMidi(c), reading, refresh)
  BY <1>0, LatchingFacts, Zenon DEF LatchesMidi
<1>3. /\ midi.counter \in 0 .. Max7 /\ midi.globals \in GlobalStates
      /\ refresh => midi.counter = s.value /\ midi.globals = g
  <2>1. (~refresh) \in BOOLEAN
    OBVIOUS
  <2>2. /\ Pressed(s, g, c, ~refresh).counter \in 0 .. Max7 /\ Pressed(s, g, c, ~refresh).globals \in GlobalStates
        /\ refresh => Pressed(s, g, c, ~refresh).counter = s.value /\ Pressed(s, g, c, ~refresh).globals = g
    BY <2>1, PressedState
  <2>3. NotPressed(s, g, c).counter = s.value /\ NotPressed(s, g, c).globals = g
    BY NotPressedState
  <2> QED BY <1>0, <2>2, <2>3
<1>4. /\ r.switch = sw /\ r.globals = gl /\ r.config = c /\ r.osc = osc /\ r.midi = [midi EXCEPT !.sent = sent]
  BY DEF Build
<1>5. osc \in LatchResults /\ latch \in LatchResults
  BY <1>1, <1>2 DEF LatchTable
<1>6. /\ osc.sent \in BOOLEAN /\ osc.state \in BOOLEAN /\ osc.latch \in BOOLEAN
      /\ latch.sent \in BOOLEAN /\ latch.state \in BOOLEAN /\ latch.latch \in BOOLEAN
  BY <1>5 DEF LatchResults
<1> DEFINE value == IF latch.sent THEN midi.counter ELSE s.value
<1>7. value \in 0 .. Max7 /\ gl \in GlobalStates /\ (refresh => value = s.value /\ gl = g)
  BY <1>0, <1>3
<1>8. /\ c.message = "Note" /\ latch.state => midi = Prepared(s, g, c)
      /\ c.message = "Note" /\ ~latch.state => midi = [Prepared(s, g, c) EXCEPT !.value = 0, !.message = "NoteOff"]
  BY DEF Pressed, NotPressed
<1> SUFFICES Made(r, s, g, c, reading, refresh)
  OBVIOUS
<1> HIDE DEF osc, latch, midi, value, gl, r
<1>9. sw = [pressed |-> reading, oscLatch |-> osc.latch, midiLatch |-> latch.latch, value |-> value]
  BY DEF value
<1> HIDE DEF sw
<1>10. sw \in SwitchStates
  BY <1>6, <1>7, <1>9 DEF SwitchStates
<1>11. sw.pressed = reading /\ sw.oscLatch = osc.latch /\ sw.midiLatch = latch.latch
  BY <1>9
<1>12. r.osc.sent => r.osc.state = OscOf(r.switch, r.config)
  BY <1>1, <1>4, <1>11, Zenon DEF LatchTable, OscOf
<1>13. ASSUME c.message = "Note" PROVE (r.midi.sent <=> r.osc.sent) /\ r.midi.message = IF latch.state THEN "NoteOn" ELSE "NoteOff"
  <2>1. LatchesMidi(c) = (c.type = "Latching") /\ MidiType(c.message) = "NoteOn"
    BY <1>13, MidiLatchOfNote
  <2>2. midi.sent = TRUE /\ midi.message = IF latch.state THEN "NoteOn" ELSE "NoteOff"
    <3>1. CASE latch.state
      BY <1>8, <1>13, <2>1, <3>1 DEF Prepared
    <3>2. CASE ~latch.state
      BY <1>8, <1>13, <2>1, <3>2 DEF Prepared
    <3> QED BY <3>1, <3>2
  <2>3. sent <=> osc.sent
    BY <1>1, <1>2, <2>1, <2>2, Zenon DEF LatchTable
  <2> HIDE DEF sent
  <2>4. [midi EXCEPT !.sent = sent].sent = sent /\ [midi EXCEPT !.sent = sent].message = midi.message
    BY <1>8, <1>13 DEF Prepared
  <2> QED BY <1>4, <2>2, <2>3, <2>4, Zenon
<1>14. ASSUME c.message = "Note", r.midi.sent PROVE latch.state = NoteOf(r.switch, c)
  <2>1. LatchesMidi(c) = (c.type = "Latching")
    BY <1>14, MidiLatchOfNote
  <2>2. latch.sent
    BY <1>1, <1>2, <1>4, <1>13, <1>14, <2>1, Zenon DEF LatchTable
  <2> QED BY <1>2, <1>4, <1>11, <2>1, <2>2, Zenon DEF LatchTable, NoteOf
<1>15. Truthful(r)
  BY <1>4, <1>12, <1>13, <1>14, Zenon DEF Truthful
<1>16. ~r.osc.sent => Unmoved(s, r)
  <2>1. ASSUME ~osc.sent PROVE c.type = "Latching" /\ osc.latch = s.oscLatch /\ ~refresh /\ ~reading
    BY <1>1, <2>1, Zenon DEF LatchTable
  <2>2. ASSUME ~osc.sent, c.message = "Note" PROVE latch.latch = s.midiLatch
    <3>1. LatchesMidi(c) = (c.type = "Latching")
      BY <2>2, MidiLatchOfNote
    <3> QED BY <1>2, <2>1, <2>2, <3>1, Zenon DEF LatchTable
  <2> QED BY <1>4, <1>11, <2>1, <2>2, Zenon DEF Unmoved
<1>17. refresh => r.osc.sent
  BY <1>1, <1>4, Zenon DEF LatchTable
<1>18. ASSUME refresh, reading = s.pressed PROVE r.switch = s /\ r.globals = g
  <2>1. osc.latch = s.oscLatch /\ latch.latch = s.midiLatch
    BY <1>1, <1>2, <1>18, Zenon DEF LatchTable
  <2>2. sw = [pressed |-> s.pressed, oscLatch |-> s.oscLatch, midiLatch |-> s.midiLatch, value |-> s.value]
    BY <1>7, <1>9, <1>18, <2>1
  <2>3. s = [pressed |-> s.pressed, oscLatch |-> s.oscLatch, midiLatch |-> s.midiLatch, value |-> s.value]
    BY DEF SwitchStates
  <2> QED BY <1>4, <1>7, <1>18, <2>2, <2>3
<1> QED BY <1>4, <1>7, <1>10, <1>11, <1>15, <1>16, <1>17, <1>18, Zenon DEF Made

-----------------------------------------------------------------------------
(* What the host knows of a switch that is in state s with the settings c. *)

Known(s, c, state, note) ==
    /\ state = OscOf(s, c)
    /\ c.message = "Note" => (note = "NoteOn") = NoteOf(s, c)

LEMMA ReportedIsKnown ==
    ASSUME NEW i
    PROVE  Reported(i) <=> Known(switch[i], switchConfig[i], hostSwitch[i], hostNote[i])
BY DEF Reported, Known, OscOf, NoteOf

\* A result that reaches the host.
LEMMA ToldKnown ==
    ASSUME NEW r, Truthful(r), r.osc.sent, r.switch \in SwitchStates, NEW note
    PROVE  Known(r.switch, r.config, r.osc.state,
                 IF r.midi.sent /\ r.midi.message \in {"NoteOn", "NoteOff"} THEN r.midi.message ELSE note)
<1> DEFINE new == IF r.midi.sent /\ r.midi.message \in {"NoteOn", "NoteOff"} THEN r.midi.message ELSE note
<1>1. r.osc.state = OscOf(r.switch, r.config)
  BY DEF Truthful
<1>2. NoteOf(r.switch, r.config) \in BOOLEAN
  BY DEF NoteOf, SwitchStates
<1>3. ASSUME r.config.message = "Note" PROVE (new = "NoteOn") = NoteOf(r.switch, r.config)
  <2>1. r.midi.sent /\ r.midi.message = IF NoteOf(r.switch, r.config) THEN "NoteOn" ELSE "NoteOff"
    BY <1>3 DEF Truthful
  <2>2. new = IF NoteOf(r.switch, r.config) THEN "NoteOn" ELSE "NoteOff"
    BY <2>1
  <2> HIDE DEF new
  <2>3. "NoteOn" # "NoteOff"
    OBVIOUS
  <2> QED BY <1>2, <2>2, <2>3, Zenon
<1> QED BY <1>1, <1>3 DEF Known

\* A result that is not sent changes nothing for the host.
LEMMA UnmovedKnown ==
    ASSUME NEW s, NEW r, Unmoved(s, r), NEW state, NEW note, Known(s, r.config, state, note)
    PROVE  Known(r.switch, r.config, state, note)
BY DEF Known, Unmoved, OscOf, NoteOf

LEMMA UnsentKnown ==
    ASSUME NEW r, Truthful(r), ~r.osc.sent, NEW state, NEW note, Known(r.switch, r.config, state, note)
    PROVE  Known(r.switch, r.config, state,
                 IF r.midi.sent /\ r.midi.message \in {"NoteOn", "NoteOff"} THEN r.midi.message ELSE note)
BY DEF Truthful, Known

-----------------------------------------------------------------------------
(* The invariant.  While a result waits to be published, it is known what  *)
(* the host will have if it gets it, and what it has if it is not sent.    *)

Contents == [switches : SwitchConfigs, encoders : [EncoderIndices -> EncoderSettings]]
Stored ==
    /\ database \in Seq(Contents) /\ preset \in DOMAIN database
    /\ encoderConfig \in [EncoderIndices -> EncoderSettings]
ThreadAt ==
    /\ job \in [at : {"idle", "switches", "publish", "encoders"}, next : Nat]
    /\ job.at \in {"switches", "publish"} => job.next \in DigitalInputs
    /\ frame \in Frames
Waiting ==
    job.at = "publish" =>
        /\ held.switch \in SwitchStates /\ held.config \in SwitchSetting /\ Truthful(held)
        /\ held.osc.sent \/ job.next \in unreported \/ Reported(job.next)
SwitchesTyped ==
    /\ globals \in GlobalStates
    /\ switch \in [SwitchIndices -> SwitchStates]
    /\ debounce \in [DigitalInputs -> [1 .. DebounceBits -> BOOLEAN]]
    /\ switchConfig \in SwitchConfigs
    /\ hostSwitch \in [SwitchIndices -> BOOLEAN]
    /\ hostNote \in [SwitchIndices -> {"NoteOn", "NoteOff"}]
    /\ unreported \subseteq SwitchIndices
SwitchesInv == SwitchesTyped /\ Stored /\ ThreadAt /\ Waiting /\ SwitchReported

LEMMA SettingsTyped ==
    ASSUME NEW c \in SwitchConfigs
    PROVE  /\ c = [i \in SwitchIndices |-> c[i]]
           /\ \A i \in SwitchIndices : c[i] \in SwitchSettings[i] /\ c[i] \in SwitchSetting
<1>1. c \in [SwitchIndices -> UNION {SwitchSettings[i] : i \in SwitchIndices}]
      /\ \A i \in SwitchIndices : c[i] \in SwitchSettings[i]
  BY DEF SwitchConfigs
<1>2. \A i \in SwitchIndices : SwitchSettings[i] \subseteq SwitchSetting
  BY SwitchAssumption DEF SwitchSetting, SwitchIndices
<1> QED BY <1>1, <1>2

LEMMA SettingsWritten ==
    ASSUME NEW c \in SwitchConfigs, NEW i \in SwitchIndices, NEW d \in SwitchSettings[i]
    PROVE  [c EXCEPT ![i] = d] \in SwitchConfigs
<1>1. c \in [SwitchIndices -> UNION {SwitchSettings[j] : j \in SwitchIndices}]
      /\ \A j \in SwitchIndices : c[j] \in SwitchSettings[j]
  BY DEF SwitchConfigs
<1>2. d \in UNION {SwitchSettings[j] : j \in SwitchIndices}
  OBVIOUS
<1>3. [c EXCEPT ![i] = d] \in [SwitchIndices -> UNION {SwitchSettings[j] : j \in SwitchIndices}]
  BY <1>1, <1>2
<1>4. \A j \in SwitchIndices : [c EXCEPT ![i] = d][j] \in SwitchSettings[j]
  BY <1>1
<1> QED BY <1>3, <1>4 DEF SwitchConfigs

\* A sample goes through the register of a switch.
LEMMA ShiftedTyped ==
    ASSUME debounce \in [DigitalInputs -> [1 .. DebounceBits -> BOOLEAN]], NEW i \in DigitalInputs, NEW level0 \in BOOLEAN
    PROVE  Shifted(i, level0) \in [1 .. DebounceBits -> BOOLEAN]
<1> DEFINE f == debounce[i]
           t == Tail(f)
<1>1. f \in Seq(BOOLEAN) /\ Len(f) = DebounceBits /\ DebounceBits \in Nat \ {0}
  BY SwitchAssumption
<1>2. t \in Seq(BOOLEAN) /\ Len(t) = DebounceBits - 1
  BY <1>1
<1> HIDE DEF t
<1>3. Append(t, level0) \in Seq(BOOLEAN) /\ Len(Append(t, level0)) = DebounceBits
  BY <1>1, <1>2
<1> HIDE DEF f
<1>4. Append(t, level0) \in [1 .. DebounceBits -> BOOLEAN]
  BY <1>3, LenProperties
<1> QED BY <1>4 DEF Shifted, t, f

\* Once it is told, a switch that was told the state it is in is known, and no other switch changes.
LEMMA ToldFacts ==
    ASSUME hostSwitch \in [SwitchIndices -> BOOLEAN], hostNote \in [SwitchIndices -> {"NoteOn", "NoteOff"}],
           NEW i \in SwitchIndices, NEW r, Truthful(r), r.switch \in SwitchStates, Told(i, r)
    PROVE  /\ hostSwitch' \in [SwitchIndices -> BOOLEAN]
           /\ hostNote' \in [SwitchIndices -> {"NoteOn", "NoteOff"}]
           /\ \A j \in SwitchIndices \ {i} : hostSwitch'[j] = hostSwitch[j] /\ hostNote'[j] = hostNote[j]
           /\ r.osc.sent => Known(r.switch, r.config, hostSwitch'[i], hostNote'[i])
           /\ ~r.osc.sent /\ Known(r.switch, r.config, hostSwitch[i], hostNote[i])
                  => Known(r.switch, r.config, hostSwitch'[i], hostNote'[i])
<1> DEFINE told == r.midi.sent /\ r.midi.message \in {"NoteOn", "NoteOff"}
           note == IF told THEN r.midi.message ELSE hostNote[i]
<1>1. r.osc.sent => r.osc.state \in BOOLEAN
  BY DEF Truthful, OscOf, SwitchStates
<1>2. hostSwitch' = IF r.osc.sent THEN [hostSwitch EXCEPT ![i] = r.osc.state] ELSE hostSwitch
  BY DEF Told
<1>3. hostNote' = IF told THEN [hostNote EXCEPT ![i] = r.midi.message] ELSE hostNote
  BY DEF Told
<1>4. /\ hostSwitch' \in [SwitchIndices -> BOOLEAN]
      /\ \A j \in SwitchIndices \ {i} : hostSwitch'[j] = hostSwitch[j]
      /\ hostSwitch'[i] = IF r.osc.sent THEN r.osc.state ELSE hostSwitch[i]
  BY <1>1, <1>2
<1>5. /\ hostNote' \in [SwitchIndices -> {"NoteOn", "NoteOff"}]
      /\ \A j \in SwitchIndices \ {i} : hostNote'[j] = hostNote[j]
      /\ hostNote'[i] = note
  BY <1>3
<1>6. r.osc.sent => Known(r.switch, r.config, r.osc.state, note)
  BY ToldKnown
<1>7. ~r.osc.sent /\ Known(r.switch, r.config, hostSwitch[i], hostNote[i])
          => Known(r.switch, r.config, hostSwitch[i], note)
  BY UnsentKnown
<1> HIDE DEF note
<1> QED BY <1>4, <1>5, <1>6, <1>7, Zenon

-----------------------------------------------------------------------------
(* The start, and the steps, with one lemma for each thread.               *)

LEMMA SwitchesStart == DigitalInit => SwitchesInv
<1> SUFFICES ASSUME DigitalInit PROVE SwitchesInv
  OBVIOUS
<1> USE DEF DigitalInit
<1>1. /\ globals = GlobalsAtBoot /\ switch = [i \in SwitchIndices |-> Released]
      /\ debounce = [i \in DigitalInputs |-> [n \in 1 .. DebounceBits |-> FALSE]]
      /\ switchConfig \in SwitchConfigs /\ hostSwitch = [i \in SwitchIndices |-> FALSE]
      /\ hostNote = [i \in SwitchIndices |-> "NoteOff"] /\ unreported = {}
  BY DEF SwitchInit
<1>2. GlobalsAtBoot \in GlobalStates /\ Released \in SwitchStates
  BY GlobalsAssumption DEF GlobalsAtBoot, GlobalStates, Released, SwitchStates
<1>3. SwitchesTyped
  BY <1>1, <1>2 DEF SwitchesTyped, GlobalStates, SwitchStates
<1>4. Stored
  <2>1. database \in Seq(Contents) /\ database # <<>>
    BY DigitalAssumption DEF Contents
  <2>2. DOMAIN database = 1 .. Len(database) /\ Len(database) \in Nat /\ Len(database) # 0
    BY <2>1, LenProperties, EmptySeq
  <2> QED BY <2>1, <2>2 DEF Stored, EncoderInit
<1>5. ThreadAt /\ Waiting
  BY DEF ThreadAt, Waiting, Idle, NoFrame, Frames
<1>6. SwitchReported
  BY <1>1 DEF SwitchReported, Reported, Released
<1> QED BY <1>3, <1>4, <1>5, <1>6 DEF SwitchesInv

\* The facts about a switch that the steps use.
LEMMA SwitchFacts ==
    ASSUME SwitchesTyped, NEW i \in SwitchIndices
    PROVE  /\ switch[i] \in SwitchStates /\ switchConfig[i] \in SwitchSetting /\ globals \in GlobalStates
           /\ switch \in [SwitchIndices -> SwitchStates] /\ switchConfig \in SwitchConfigs
BY SettingsTyped DEF SwitchesTyped, SwitchStates, GlobalStates

\* A step that leaves the switches alone, and keeps the thread away from them.
LEMMA SwitchesStill ==
    ASSUME SwitchesInv, UNCHANGED <<switch, switchConfig, hostSwitch, hostNote, unreported, held>>,
           debounce' \in [DigitalInputs -> [1 .. DebounceBits -> BOOLEAN]], globals' \in GlobalStates, Stored', ThreadAt',
           job.at # "publish" \/ job' = job, job'.at # "publish" \/ job' = job
    PROVE  SwitchesInv'
<1>1. SwitchesTyped'
  BY DEF SwitchesInv, SwitchesTyped, GlobalStates
<1>2. \A i : Reported(i)' = Reported(i)
  BY DEF Reported
<1>3. Waiting'
  BY <1>2 DEF SwitchesInv, Waiting
<1>4. SwitchReported'
  <2>1. \A i \in SwitchIndices : i \in unreported \/ job = Job("publish", i) \/ Reported(i)
    BY DEF SwitchesInv, SwitchReported
  <2>2. \A i : job = Job("publish", i) => job' = job
    BY DEF Job
  <2> QED BY <1>2, <2>1, <2>2 DEF SwitchReported
<1> QED BY <1>1, <1>3, <1>4 DEF SwitchesInv

\* What does not change when the variables of the switches do not.
LEMMA SwitchesUnchanged ==
    ASSUME SwitchesInv, UNCHANGED switchVars
    PROVE  /\ UNCHANGED <<switch, switchConfig, hostSwitch, hostNote, unreported>>
           /\ debounce' \in [DigitalInputs -> [1 .. DebounceBits -> BOOLEAN]]
BY DEF switchVars, SwitchesInv, SwitchesTyped

LEMMA ScanKeepsSwitches == ASSUME SwitchesInv, Scan PROVE SwitchesInv'
<1>1. Stored'
  BY DEF SwitchesInv, Stored, Scan, environmentVars, encoderVars
<1>2. ThreadAt'
  BY DigitalAssumption DEF SwitchesInv, ThreadAt, Scan, Job
<1>3. UNCHANGED <<switchVars, held>> /\ globals' \in GlobalStates /\ job.at # "publish" /\ job'.at # "publish"
  BY DEF Scan, Idle, Job, SwitchesInv, SwitchesTyped, GlobalStates
<1> QED BY <1>1, <1>2, <1>3, SwitchesUnchanged, SwitchesStill

\* A step of an encoder moves the program or the tempo within their limits.
LEMMA MapStepGlobals ==
    ASSUME NEW g \in GlobalStates, NEW value, NEW c, NEW direction, NEW steps
    PROVE  MapStep(value, g, c, direction, steps).globals \in GlobalStates
<1> DEFINE position == IF c.inverted THEN Opposite(direction) ELSE direction
           same == [value |-> value, globals |-> g, sent |-> NoValue]
           program == IF position = "Ccw" THEN ProgramUp(g) ELSE ProgramDown(g)
           tempo == IF position = "Ccw" THEN BpmUp(g) ELSE BpmDown(g)
           next == Stepped(value, c, position, steps)
           m == MapStep(value, g, c, direction, steps)
           relative == [same EXCEPT !.sent = RelativeValue(c.mode, position)]
           programmed == IF program = g THEN same
                         ELSE [value |-> program.program, globals |-> program, sent |-> program.program]
           stepped == [same EXCEPT !.value = next,
                                   !.sent = IF c.mode = "ControlChange14Bit" /\ c.id1 >= Cc14MaxIndex
                                            THEN NoValue ELSE next]
           noted == [same EXCEPT !.sent = IF c.mode = "SingleNoteFixedValOneDir0OtherDir" /\ position = "Ccw"
                                          THEN 0 ELSE c.repeated]
           timed == [same EXCEPT !.globals = tempo]
<1>1. program \in GlobalStates /\ tempo \in GlobalStates
  BY GlobalsMove
<1>2. m = CASE c.mode \in RelativeModes -> relative
            [] c.mode = "ProgramChange" -> programmed
            [] c.mode \in Value7Modes \cup Value14Modes -> stepped
            [] c.mode \in NoteModes -> noted
            [] c.mode = "BpmChange" -> timed
            [] OTHER -> same
  BY DEF MapStep
<1> HIDE DEF position, program, tempo, next, m
<1>3. relative.globals = g /\ stepped.globals = g /\ noted.globals = g /\ same.globals = g
  OBVIOUS
<1>4. programmed.globals \in GlobalStates /\ timed.globals \in GlobalStates
  BY <1>1
<1> HIDE DEF relative, programmed, stepped, noted, timed, same
<1>5. m \in {relative, programmed, stepped, noted, timed, same}
  BY <1>2 DEF RelativeModes, Value7Modes, Value14Modes, NoteModes
<1>6. m.globals \in GlobalStates
  BY <1>3, <1>4, <1>5
<1> QED BY <1>6 DEF m

LEMMA ReadingGlobals ==
    ASSUME NEW e, NEW g \in GlobalStates, NEW pair, NEW elapsed
    PROVE  ProcessReading(e, g, pair, elapsed).globals \in GlobalStates
<1> DEFINE f == Filtered(encoder[e], pair, elapsed)
           speed == NextSpeed(encoder[e], encoderConfig[e], elapsed)
           r == MapStep(encoder[e].value, g, encoderConfig[e],
                        FilteredDirection(f, RawDirection(encoder[e], pair)), IF speed > 0 THEN speed ELSE 1)
<1>1. r.globals \in GlobalStates
  BY MapStepGlobals
<1>2. ProcessReading(e, g, pair, elapsed).globals = IF ~Complete(encoder[e], pair) THEN g ELSE r.globals
  BY DEF ProcessReading
<1> QED BY <1>1, <1>2

LEMMA EncoderTurnKeepsSwitches == ASSUME SwitchesInv, EncoderTurn PROVE SwitchesInv'
<1>1. Stored'
  BY DEF SwitchesInv, Stored, EncoderTurn, environmentVars, encoderVars, ReadEncoder
<1>2. globals \in GlobalStates
  BY DEF SwitchesInv, SwitchesTyped, GlobalStates
<1>3. UNCHANGED <<switchVars, held>> /\ job.at # "publish"
  BY DEF EncoderTurn
<1>4. globals' \in GlobalStates
  BY <1>2, ReadingGlobals DEF EncoderTurn
<1>5. job' \in {Idle, AfterEncoder(job.next)} /\ frame' \in {NoFrame, frame}
  BY DEF EncoderTurn
<1>6. job.next + 1 \in Nat /\ frame \in Frames
  BY DEF SwitchesInv, ThreadAt
<1>7. job' = [at |-> "idle", next |-> 0] \/ job' = [at |-> "encoders", next |-> job.next + 1]
  BY <1>5 DEF Idle, AfterEncoder, Job
<1>8. frame' \in Frames
  BY <1>5, <1>6 DEF NoFrame, Frames
<1>9. ThreadAt' /\ job'.at # "publish"
  BY <1>6, <1>7, <1>8 DEF ThreadAt
<1> QED BY <1>1, <1>3, <1>4, <1>9, SwitchesUnchanged, SwitchesStill

\* After a switch the thread is at the next one, or at the encoders.
LEMMA AfterSwitchAt ==
    ASSUME ThreadAt, NEW i \in DigitalInputs
    PROVE  /\ AfterSwitch(i) \in [at : {"idle", "switches", "publish", "encoders"}, next : Nat]
           /\ AfterSwitch(i).at \in {"switches", "encoders"}
           /\ AfterSwitch(i).at = "switches" => AfterSwitch(i).next \in DigitalInputs
<1>1. CASE i + 1 \in DigitalInputs
  <2>1. i + 1 \in Nat /\ AfterSwitch(i) = [at |-> "switches", next |-> i + 1]
    BY <1>1, SwitchAssumption DEF AfterSwitch, Job
  <2> QED BY <1>1, <2>1
<1>2. CASE i + 1 \notin DigitalInputs
  <2>1. AfterSwitch(i) = [at |-> "encoders", next |-> 0]
    BY <1>2 DEF AfterSwitch, Job
  <2> QED BY <2>1
<1> QED BY <1>1, <1>2

\* A reading changes the state of a switch: the result waits.
LEMMA AppliedKeepsSwitches ==
    ASSUME SwitchesInv, NEW i \in DigitalInputs, job.at # "publish", NEW reading \in BOOLEAN,
           switch[i].pressed # reading, ApplyReading(i, reading),
           held' = Build(switch[i], globals, switchConfig[i], reading, FALSE),
           job' = Job("publish", i), unreported' = Pending(i, reading),
           debounce' \in [DigitalInputs -> [1 .. DebounceBits -> BOOLEAN]],
           UNCHANGED <<switchConfig, hostSwitch, hostNote, frame, database, preset, encoderConfig>>
    PROVE  SwitchesInv'
<1> DEFINE r == Build(switch[i], globals, switchConfig[i], reading, FALSE)
<1>0. i \in SwitchIndices /\ i \in Nat
  BY SwitchAssumption DEF SwitchIndices
<1>1. /\ switch[i] \in SwitchStates /\ switchConfig[i] \in SwitchSetting /\ globals \in GlobalStates
      /\ switch \in [SwitchIndices -> SwitchStates]
  BY <1>0, SwitchFacts DEF SwitchesInv
<1>2. FALSE \in BOOLEAN
  OBVIOUS
<1>a. Made(r, switch[i], globals, switchConfig[i], reading, FALSE)
  BY <1>1, <1>2, BuildFacts
<1>4. switch' = [switch EXCEPT ![i] = r.switch] /\ globals' = r.globals /\ held' = r
  BY DEF ApplyReading
<1>5. unreported' = IF r.osc.sent THEN unreported \ {i} ELSE unreported
  BY DEF Pending
<1> HIDE DEF r
<1>3. /\ r.switch \in SwitchStates /\ r.globals \in GlobalStates /\ r.config = switchConfig[i]
      /\ Truthful(r) /\ (~r.osc.sent => Unmoved(switch[i], r))
  BY <1>a DEF Made
<1>6. switch'[i] = r.switch /\ \A j \in SwitchIndices \ {i} : switch'[j] = switch[j]
  BY <1>0, <1>1, <1>4
<1>7. SwitchesTyped'
  BY <1>1, <1>3, <1>4, <1>5 DEF SwitchesInv, SwitchesTyped, SwitchStates, GlobalStates
<1>8. Stored'
  BY DEF SwitchesInv, Stored
<1>9. ThreadAt'
  BY <1>0 DEF SwitchesInv, ThreadAt, Job
<1>10. \A j \in SwitchIndices : j \in unreported \/ Reported(j)
  BY DEF SwitchesInv, SwitchReported, Job
<1>11. r.osc.sent \/ i \in unreported' \/ Reported(i)'
  <2> SUFFICES ASSUME ~r.osc.sent, i \notin unreported PROVE Reported(i)'
    BY <1>5
  <2>1. Known(switch[i], r.config, hostSwitch[i], hostNote[i])
    BY <1>0, <1>3, <1>10, ReportedIsKnown
  <2>2. Known(r.switch, r.config, hostSwitch[i], hostNote[i])
    BY <1>3, <2>1, UnmovedKnown
  <2> QED BY <1>3, <1>6, <2>2 DEF Reported, Known, OscOf, NoteOf
<1>12. Waiting'
  BY <1>3, <1>1, <1>4, <1>11 DEF Waiting, Job
<1>13. SwitchReported'
  BY <1>5, <1>6, <1>10 DEF SwitchReported, Reported
<1> QED BY <1>7, <1>8, <1>9, <1>12, <1>13 DEF SwitchesInv

\* One switch of the frame.
LEMMA SwitchTurnKeepsSwitches == ASSUME SwitchesInv, SwitchTurn PROVE SwitchesInv'
<1> DEFINE i == job.next
           samples == Shifted(i, frame[i])
<1>1. i \in DigitalInputs /\ frame[i] \in BOOLEAN /\ job.at = "switches"
  BY DEF SwitchesInv, ThreadAt, SwitchTurn, Frames
<1>2. samples \in [1 .. DebounceBits -> BOOLEAN]
  BY <1>1, ShiftedTyped DEF SwitchesInv, SwitchesTyped
<1> HIDE DEF samples
<1>3. [debounce EXCEPT ![i] = samples] \in [DigitalInputs -> [1 .. DebounceBits -> BOOLEAN]]
  BY <1>2 DEF SwitchesInv, SwitchesTyped
<1>4. globals \in GlobalStates
  BY DEF SwitchesInv, SwitchesTyped, GlobalStates
<1>5. Stored'
  BY DEF SwitchesInv, Stored, SwitchTurn, environmentVars, encoderVars
<1>6. UNCHANGED <<frame, database, preset, encoderConfig>>
  BY DEF SwitchTurn, environmentVars, encoderVars
<1>7. ASSUME job' = AfterSwitch(i) PROVE ThreadAt' /\ job'.at # "publish"
  BY <1>1, <1>6, <1>7, AfterSwitchAt DEF SwitchesInv, ThreadAt
<1>8. CASE Claimed(i)
  <2>1. job' = AfterSwitch(i) /\ UNCHANGED <<switchVars, globals, held>>
    BY <1>8 DEF SwitchTurn
  <2> QED BY <1>1, <1>4, <1>5, <1>7, <2>1, SwitchesUnchanged, SwitchesStill
<1>9. CASE ~Claimed(i) /\ Stable(samples, frame[i]) /\ switch[i].pressed # frame[i]
  <2>1. /\ debounce' = [debounce EXCEPT ![i] = samples]
        /\ unreported' = Pending(i, frame[i])
        /\ ApplyReading(i, frame[i])
        /\ held' = Build(switch[i], globals, switchConfig[i], frame[i], FALSE)
        /\ job' = Job("publish", i)
        /\ UNCHANGED <<switchConfig, hostSwitch, hostNote>>
    BY <1>9 DEF SwitchTurn, samples
  <2> QED BY <1>1, <1>3, <1>6, <1>9, <2>1, AppliedKeepsSwitches
<1>10. CASE ~Claimed(i) /\ ~(Stable(samples, frame[i]) /\ switch[i].pressed # frame[i])
  <2>1. /\ debounce' = [debounce EXCEPT ![i] = samples]
        /\ unreported' = IF Stable(samples, frame[i]) THEN Pending(i, frame[i]) ELSE unreported
        /\ job' = AfterSwitch(i) /\ UNCHANGED <<switch, globals, held, switchConfig, hostSwitch, hostNote>>
    BY <1>10 DEF SwitchTurn, samples
  <2>2. unreported' = unreported
    BY <1>10, <2>1 DEF Pending
  <2> QED BY <1>1, <1>3, <1>4, <1>5, <1>7, <2>1, <2>2, SwitchesStill
<1> QED BY <1>8, <1>9, <1>10

\* The result is published, or dropped in a freeze.
LEMMA PublishKeepsSwitches == ASSUME SwitchesInv, PublishTurn PROVE SwitchesInv'
<1>0. PICK i : i = job.next
  OBVIOUS
<1>1. i \in DigitalInputs /\ i \in SwitchIndices /\ job.at = "publish" /\ job = Job("publish", i)
  BY <1>0 DEF SwitchesInv, ThreadAt, PublishTurn, SwitchIndices, Job
<1>2. /\ held.switch \in SwitchStates /\ held.config \in SwitchSetting /\ Truthful(held)
      /\ held.osc.sent \/ i \in unreported \/ Reported(i)
  BY <1>0, <1>1 DEF SwitchesInv, Waiting
<1>3. /\ PublishReading(i, held, ioFrozen) /\ job' = AfterSwitch(i)
      /\ UNCHANGED <<switch, globals, debounce, switchConfig, frame, database, preset, encoderConfig>>
  BY <1>0 DEF PublishTurn, environmentVars, encoderVars
<1>4. ThreadAt' /\ job'.at # "publish"
  BY <1>1, <1>3, AfterSwitchAt DEF SwitchesInv, ThreadAt
<1>5. /\ hostSwitch \in [SwitchIndices -> BOOLEAN] /\ hostNote \in [SwitchIndices -> {"NoteOn", "NoteOff"}]
      /\ unreported \subseteq SwitchIndices
  BY DEF SwitchesInv, SwitchesTyped
<1>6. \A j \in SwitchIndices \ {i} : j \in unreported \/ Reported(j)
  BY <1>1 DEF SwitchesInv, SwitchReported, Job
<1>7. unreported \subseteq unreported' /\ unreported' \subseteq SwitchIndices
  BY <1>1, <1>3, <1>5 DEF PublishReading
<1>8. /\ hostSwitch' \in [SwitchIndices -> BOOLEAN] /\ hostNote' \in [SwitchIndices -> {"NoteOn", "NoteOff"}]
      /\ \A j \in SwitchIndices \ {i} : hostSwitch'[j] = hostSwitch[j] /\ hostNote'[j] = hostNote[j]
      /\ i \in unreported' \/ Reported(i)'
  <2>1. CASE ioFrozen
    BY <1>3, <1>5, <2>1 DEF PublishReading
  <2>2. CASE ~ioFrozen
    <3>1. Told(i, held)
      BY <1>3, <2>2 DEF PublishReading
    <3>2. /\ hostSwitch' \in [SwitchIndices -> BOOLEAN] /\ hostNote' \in [SwitchIndices -> {"NoteOn", "NoteOff"}]
          /\ \A j \in SwitchIndices \ {i} : hostSwitch'[j] = hostSwitch[j] /\ hostNote'[j] = hostNote[j]
          /\ held.osc.sent => Known(held.switch, held.config, hostSwitch'[i], hostNote'[i])
          /\ ~held.osc.sent /\ Known(held.switch, held.config, hostSwitch[i], hostNote[i])
                 => Known(held.switch, held.config, hostSwitch'[i], hostNote'[i])
      BY <1>1, <1>2, <1>5, <3>1, ToldFacts
    <3>3. ASSUME i \notin unreported' PROVE Reported(i)'
      <4>1. held.switch = switch[i] /\ held.config = switchConfig[i] /\ i \notin unreported
        BY <1>3, <1>7, <3>3 DEF PublishReading
      <4>2. Known(held.switch, held.config, hostSwitch'[i], hostNote'[i])
        BY <1>2, <3>2, <4>1, ReportedIsKnown
      <4> QED BY <1>3, <4>1, <4>2 DEF Reported, Known, OscOf, NoteOf
    <3> QED BY <3>2, <3>3
  <2> QED BY <2>1, <2>2
<1>9. SwitchesTyped'
  BY <1>3, <1>7, <1>8 DEF SwitchesInv, SwitchesTyped
<1>10. Stored' /\ Waiting'
  BY <1>3, <1>4 DEF SwitchesInv, Stored, Waiting
<1>11. SwitchReported'
  BY <1>3, <1>6, <1>7, <1>8 DEF SwitchReported, Reported
<1> QED BY <1>4, <1>9, <1>10, <1>11 DEF SwitchesInv

\* A refresh of one switch: the host hears what it is.
LEMMA RefreshSwitchFacts ==
    ASSUME SwitchesTyped, NEW i \in DigitalInputs, RefreshSwitch(i)
    PROVE  /\ UNCHANGED <<switch, globals>>
           /\ hostSwitch' \in [SwitchIndices -> BOOLEAN] /\ hostNote' \in [SwitchIndices -> {"NoteOn", "NoteOff"}]
           /\ \A j \in SwitchIndices \ {i} : hostSwitch'[j] = hostSwitch[j] /\ hostNote'[j] = hostNote[j]
           /\ Reported(i)'
<1> DEFINE r == Build(switch[i], globals, switchConfig[i], switch[i].pressed, TRUE)
<1>1. i \in SwitchIndices
  BY DEF SwitchIndices
<1>2. /\ switch[i] \in SwitchStates /\ switchConfig[i] \in SwitchSetting /\ globals \in GlobalStates
      /\ switch \in [SwitchIndices -> SwitchStates]
  BY <1>1, SwitchFacts
<1>3. switch[i].pressed \in BOOLEAN /\ TRUE \in BOOLEAN
  BY <1>2 DEF SwitchStates
<1>4. Made(r, switch[i], globals, switchConfig[i], switch[i].pressed, TRUE)
  BY <1>2, <1>3, BuildFacts
<1>5. switch' = [switch EXCEPT ![i] = r.switch] /\ globals' = r.globals /\ Told(i, r) /\ switchConfig' = switchConfig
  BY DEF RefreshSwitch
<1> HIDE DEF r
<1>6. r.switch = switch[i] /\ r.globals = globals /\ r.osc.sent /\ Truthful(r) /\ r.config = switchConfig[i]
  BY <1>4 DEF Made
<1>7. UNCHANGED <<switch, globals>>
  BY <1>2, <1>5, <1>6
<1>8. /\ hostSwitch' \in [SwitchIndices -> BOOLEAN] /\ hostNote' \in [SwitchIndices -> {"NoteOn", "NoteOff"}]
      /\ \A j \in SwitchIndices \ {i} : hostSwitch'[j] = hostSwitch[j] /\ hostNote'[j] = hostNote[j]
      /\ Known(r.switch, r.config, hostSwitch'[i], hostNote'[i])
  BY <1>1, <1>2, <1>5, <1>6, ToldFacts DEF SwitchesTyped
<1>9. Reported(i)'
  BY <1>5, <1>6, <1>7, <1>8 DEF Reported, Known, OscOf, NoteOf
<1> QED BY <1>7, <1>8, <1>9

\* A step that leaves the thread and the states of the switches alone: it is enough that every switch it
\* takes out of the unreported is reported, and that it puts those in whose settings change.
LEMMA SwitchesKept ==
    ASSUME SwitchesInv, SwitchesTyped', Stored', UNCHANGED <<job, held, frame>>,
           \A i \in SwitchIndices :
              i \in unreported' \/ Reported(i)' \/ (i \notin unreported /\ (Reported(i) => Reported(i)'))
    PROVE  SwitchesInv'
<1>1. ThreadAt'
  BY DEF SwitchesInv, ThreadAt
<1>2. SwitchReported'
  BY DEF SwitchesInv, SwitchReported, Job
<1>3. Waiting'
  <2> SUFFICES ASSUME job.at = "publish" PROVE held.osc.sent \/ job.next \in unreported' \/ Reported(job.next)'
    BY DEF SwitchesInv, Waiting
  <2>1. PICK i : i = job.next
    OBVIOUS
  <2>2. i \in SwitchIndices
    BY <2>1 DEF SwitchesInv, ThreadAt, SwitchIndices
  <2>3. held.osc.sent \/ i \in unreported \/ Reported(i)
    BY <2>1 DEF SwitchesInv, Waiting
  <2>4. held.osc.sent \/ i \in unreported' \/ Reported(i)'
    BY <2>2, <2>3
  <2> QED BY <2>1, <2>4 DEF Reported
<1> QED BY <1>1, <1>2, <1>3 DEF SwitchesInv

LEMMA RefreshKeepsSwitches == ASSUME SwitchesInv, RefreshDigital PROVE SwitchesInv'
<1>0. UNCHANGED <<frame, job, held, preset, database, encoderConfig>>
  BY DEF RefreshDigital, threadVars, environmentVars, encoderVars, RefreshEncoder
<1>1. Stored'
  BY <1>0 DEF SwitchesInv, Stored
<1>2. CASE \E i \in DigitalInputs : RefreshSwitch(i)
  <2>1. PICK i \in DigitalInputs : RefreshSwitch(i)
    BY <1>2
  <2>2. /\ UNCHANGED <<switch, globals>>
        /\ hostSwitch' \in [SwitchIndices -> BOOLEAN] /\ hostNote' \in [SwitchIndices -> {"NoteOn", "NoteOff"}]
        /\ \A j \in SwitchIndices \ {i} : hostSwitch'[j] = hostSwitch[j] /\ hostNote'[j] = hostNote[j]
        /\ Reported(i)'
    BY <2>1, RefreshSwitchFacts DEF SwitchesInv
  <2>3. unreported' = unreported \ {i} /\ UNCHANGED <<debounce, switchConfig>>
    BY <2>1 DEF RefreshSwitch
  <2>4. SwitchesTyped'
    BY <2>2, <2>3 DEF SwitchesInv, SwitchesTyped
  <2>5. \A j \in SwitchIndices \ {i} : Reported(j) => Reported(j)'
    BY <2>2, <2>3 DEF Reported
  <2>6. \A j \in SwitchIndices :
            j \in unreported' \/ Reported(j)' \/ (j \notin unreported /\ (Reported(j) => Reported(j)'))
    <3> SUFFICES ASSUME NEW j \in SwitchIndices, j # i
                 PROVE  j \in unreported' \/ Reported(j)' \/ (j \notin unreported /\ (Reported(j) => Reported(j)'))
      BY <2>2
    <3> QED BY <2>3, <2>5
  <2> QED BY <1>0, <1>1, <2>4, <2>6, SwitchesKept
<1>3. CASE UNCHANGED <<switchVars, globals>>
  <2>1. globals' \in GlobalStates
    BY <1>3 DEF SwitchesInv, SwitchesTyped, GlobalStates
  <2>2. ThreadAt'
    BY <1>0 DEF SwitchesInv, ThreadAt
  <2> QED BY <1>0, <1>1, <1>3, <2>1, <2>2, SwitchesUnchanged, SwitchesStill
<1> QED BY <1>2, <1>3 DEF RefreshDigital

LEMMA WriteSwitchKeepsSwitches == ASSUME SwitchesInv, WriteSwitch PROVE SwitchesInv'
<1>0. UNCHANGED <<frame, job, held, preset, database, encoderConfig>>
  BY DEF WriteSwitch, threadVars, environmentVars, encoderVars
<1>1. Stored'
  BY <1>0 DEF SwitchesInv, Stored
<1>2. PICK i \in SwitchIndices, section \in {"type", "message", "value"} : SwitchWrite(i, section)
  BY DEF WriteSwitch
<1>3. PICK c \in SwitchSettings[i] :
          /\ \A other \in DOMAIN c \ {section} : c[other] = switchConfig[i][other]
          /\ switchConfig' = [switchConfig EXCEPT ![i] = c]
  BY <1>2 DEF SwitchWrite
<1>4. UNCHANGED <<globals, debounce, hostSwitch, hostNote>>
  BY <1>2 DEF SwitchWrite
<1>5. switch \in [SwitchIndices -> SwitchStates] /\ switchConfig \in SwitchConfigs /\ Released \in SwitchStates
  BY SwitchFacts, <1>2, GlobalsAssumption DEF SwitchesInv, Released, SwitchStates
<1>6. switchConfig' \in SwitchConfigs
  BY <1>3, <1>5, SettingsWritten
<1>7. \A j \in SwitchIndices \ {i} : switchConfig'[j] = switchConfig[j]
  BY <1>3, <1>5, SettingsTyped
<1>8. switchConfig'[i] = c
  BY <1>3, <1>5, SettingsTyped
<1>9. CASE section \in {"type", "message"}
  <2>1. switch' = [switch EXCEPT ![i] = Released] /\ unreported' = unreported \cup {i}
    BY <1>2, <1>9 DEF SwitchWrite, ResetSwitch
  <2>2. \A j \in SwitchIndices \ {i} : switch'[j] = switch[j]
    BY <1>5, <2>1
  <2>3. switch' \in [SwitchIndices -> SwitchStates]
    BY <1>5, <2>1
  <2>4. SwitchesTyped'
    BY <1>4, <1>6, <2>1, <2>3 DEF SwitchesInv, SwitchesTyped, SwitchStates
  <2>5. \A j \in SwitchIndices : j \in unreported' \/ (j \notin unreported /\ (Reported(j) => Reported(j)'))
    BY <1>4, <1>7, <2>1, <2>2 DEF Reported
  <2> QED BY <1>0, <1>1, <2>4, <2>5, SwitchesKept
<1>10. CASE section = "value"
  <2>1. UNCHANGED <<switch, unreported>>
    BY <1>2, <1>10 DEF SwitchWrite
  <2>2. c \in SwitchSetting /\ switchConfig[i] \in SwitchSetting
    BY <1>6, <1>8, SettingsTyped, <1>5
  <2>3. c.type = switchConfig[i].type /\ c.message = switchConfig[i].message
    BY <1>3, <1>10, <2>2 DEF SwitchSetting
  <2>4. SwitchesTyped'
    BY <1>4, <1>6, <2>1 DEF SwitchesInv, SwitchesTyped
  <2>5. \A j \in SwitchIndices : Reported(j) => Reported(j)'
    BY <1>4, <1>7, <1>8, <2>1, <2>3 DEF Reported
  <2>6. \A j \in SwitchIndices :
            j \in unreported' \/ Reported(j)' \/ (j \notin unreported /\ (Reported(j) => Reported(j)'))
    BY <2>1, <2>5
  <2> QED BY <1>0, <1>1, <2>4, <2>6, SwitchesKept
<1> QED BY <1>9, <1>10

LEMMA PresetKeepsSwitches == ASSUME SwitchesInv, ChangePreset PROVE SwitchesInv'
<1>0. UNCHANGED <<frame, job, held, switch, debounce, hostSwitch, hostNote, globals>>
  BY DEF ChangePreset, threadVars
<1>1. PICK p \in DOMAIN database \ {preset} : preset' = p /\ switchConfig' = database[p].switches
  BY DEF ChangePreset
<1>2. database' = [database EXCEPT ![preset] = [switches |-> switchConfig, encoders |-> encoderConfig]]
  BY DEF ChangePreset
<1>3. /\ unreported' = unreported \cup {i \in SwitchIndices : switchConfig'[i] # switchConfig[i]}
      /\ encoderConfig' = database[p].encoders
  BY <1>1 DEF ChangePreset
<1>4. database[p] \in Contents /\ switchConfig \in SwitchConfigs
  BY <1>1, ElementOfSeq, LenProperties DEF SwitchesInv, Stored, SwitchesTyped
<1>5. [switches |-> switchConfig, encoders |-> encoderConfig] \in Contents
  BY <1>4 DEF SwitchesInv, Stored, Contents
<1>6. Stored'
  <2>1. database \in Seq(Contents) /\ preset \in 1 .. Len(database)
    BY LenProperties DEF SwitchesInv, Stored
  <2>2. database' \in Seq(Contents) /\ Len(database') = Len(database)
    BY <1>2, <1>5, <2>1, ExceptSeq
  <2>3. DOMAIN database' = DOMAIN database
    BY <1>2
  <2>4. encoderConfig' \in [EncoderIndices -> EncoderSettings]
    BY <1>3, <1>4 DEF Contents
  <2> QED BY <1>1, <2>2, <2>3, <2>4 DEF Stored
<1>7. SwitchesTyped'
  <2>1. switchConfig' \in SwitchConfigs
    BY <1>1, <1>4 DEF Contents
  <2> QED BY <1>0, <1>3, <2>1 DEF SwitchesInv, SwitchesTyped
<1>8. \A j \in SwitchIndices : j \in unreported' \/ (j \notin unreported /\ (Reported(j) => Reported(j)'))
  BY <1>0, <1>3 DEF Reported
<1> QED BY <1>0, <1>6, <1>7, <1>8, SwitchesKept

\* The other steps of the environment do not concern the switches.
LEMMA OthersKeepSwitches ==
    ASSUME SwitchesInv, FreezeIo \/ ResumeInputs \/ WriteEncoder \/ SyncEncoder \/ UNCHANGED digitalVars
    PROVE  SwitchesInv'
<1>1. /\ UNCHANGED <<switch, debounce, switchConfig, hostSwitch, hostNote, unreported, globals, job, held, frame,
                    preset, database>>
  BY DEF FreezeIo, ResumeInputs, WriteEncoder, SyncEncoder, digitalVars, switchVars, threadVars, environmentVars
<1>2. encoderConfig' \in [EncoderIndices -> EncoderSettings]
  <2>0. encoderConfig \in [EncoderIndices -> EncoderSettings]
    BY DEF SwitchesInv, Stored
  <2>1. CASE WriteEncoder
    <3>1. PICK e \in EncoderIndices, section \in EncoderSections : EncoderWrite(e, section)
      BY <2>1 DEF WriteEncoder
    <3>2. PICK c \in EncoderSettings : encoderConfig' = [encoderConfig EXCEPT ![e] = c]
      BY <3>1 DEF EncoderWrite
    <3> QED BY <2>0, <3>2
  <2>2. CASE FreezeIo \/ ResumeInputs \/ SyncEncoder \/ UNCHANGED digitalVars
    BY <2>0, <2>2 DEF FreezeIo, ResumeInputs, SyncEncoder, SyncEncoders, digitalVars, encoderVars
  <2> QED BY <2>1, <2>2
<1>3. Stored' /\ ThreadAt'
  BY <1>1, <1>2 DEF SwitchesInv, Stored, ThreadAt
<1>4. debounce' \in [DigitalInputs -> [1 .. DebounceBits -> BOOLEAN]] /\ globals' \in GlobalStates
  BY <1>1 DEF SwitchesInv, SwitchesTyped, GlobalStates
<1> QED BY <1>1, <1>3, <1>4, SwitchesStill

LEMMA SwitchesStep == SwitchesInv /\ [DigitalNext]_digitalVars => SwitchesInv'
BY ScanKeepsSwitches, SwitchTurnKeepsSwitches, PublishKeepsSwitches, EncoderTurnKeepsSwitches, RefreshKeepsSwitches,
   WriteSwitchKeepsSwitches, PresetKeepsSwitches, OthersKeepSwitches DEF DigitalNext, DigitalThread

LEMMA SwitchesInvariant == DigitalSpec => []SwitchesInv
BY SwitchesStart, SwitchesStep, PTL DEF DigitalSpec

\* Switches::publish_result(): whatever is frozen, refreshed, written or selected meanwhile, the host knows
\* the state of every switch, but those whose change was cut off since the last refresh.
THEOREM DigitalSwitchReported == DigitalSpec => []SwitchReported
<1>1. SwitchesInv => SwitchReported
  BY DEF SwitchesInv
<1> QED BY <1>1, SwitchesInvariant, PTL

\* Switches::force_refresh() runs the code of a press with mutate off: nothing moves.
THEOREM DigitalRefreshChangesNothing == DigitalSpec => RefreshChangesNothing
<1>1. ASSUME SwitchesInv, RefreshDigital PROVE UNCHANGED <<switch, globals>>
  <2>1. CASE \E i \in DigitalInputs : RefreshSwitch(i)
    <3>1. PICK i \in DigitalInputs : RefreshSwitch(i)
      BY <2>1
    <3> QED BY <1>1, <3>1, RefreshSwitchFacts DEF SwitchesInv
  <2>2. CASE UNCHANGED <<switchVars, globals>>
    BY <2>2 DEF switchVars
  <2> QED BY <1>1, <2>1, <2>2 DEF RefreshDigital
<1>2. SwitchesInv => [RefreshDigital => UNCHANGED <<switch, globals>>]_digitalVars
  BY <1>1
<1> QED BY <1>2, SwitchesInvariant, PTL DEF RefreshChangesNothing

\* What the mapper and the filter keep of a switch, the program and its offset stay within their types.
THEOREM DigitalSwitchTypes == DigitalSpec => []SwitchTypeOK
<1>1. SwitchesInv => SwitchTypeOK
  BY DEF SwitchesInv, SwitchesTyped, SwitchTypeOK, GlobalStates, SwitchStates
<1> QED BY <1>1, SwitchesInvariant, PTL

-----------------------------------------------------------------------------
(* The encoders: the direction that is held, the steps counted since, and  *)
(* the steps the shaft made, go together.                                  *)

CountsSteps(f, run) ==
    /\ f.count \in 0 .. DirectionCount - 1
    /\ run.length \in 0 .. DirectionCount
    /\ f.last = run.direction
    /\ f.count <= run.length
EncoderFields == {"value", "pair", "pulses", "last", "held", "count", "speed", "moved"}
EncodersInv ==
    /\ DOMAIN encoder = EncoderIndices
    /\ rawRun \in [EncoderIndices -> [direction : Positions, length : 0 .. DirectionCount]]
    /\ \A e \in EncoderIndices : DOMAIN encoder[e] = EncoderFields /\ CountsSteps(encoder[e], rawRun[e])

\* A step of the shaft, as the filter counts it.
LEMMA HoldFacts ==
    ASSUME NEW f, DOMAIN f = EncoderFields, NEW position, NEW elapsed
    PROVE  LET idle == elapsed # "close"
               count == (IF idle \/ position # f.last THEN 0 ELSE f.count) + 1
               full == count = DirectionCount
               h == Hold(f, position, elapsed)
           IN  /\ DOMAIN h = EncoderFields
               /\ h.last = position
               /\ h.count = IF full THEN 0 ELSE count
               /\ h.held = IF full THEN position ELSE IF idle THEN "Stopped" ELSE f.held
BY DEF Hold, EncoderFields

\* A held direction turns over only at the end of a whole run.
Turnover(f, h, run) ==
    {f.held, h.held} = {"Cw", "Ccw"} => run = [direction |-> h.held, length |-> DirectionCount]

LEMMA StepCounted ==
    ASSUME NEW f, DOMAIN f = EncoderFields, NEW run \in [direction : Positions, length : 0 .. DirectionCount],
           CountsSteps(f, run), NEW raw \in {"Ccw", "Cw"}, NEW elapsed, NEW h, DOMAIN h = EncoderFields,
           h.last = Hold(f, raw, elapsed).last, h.count = Hold(f, raw, elapsed).count,
           h.held = Hold(f, raw, elapsed).held
    PROVE  /\ NextRun(run, raw) \in [direction : Positions, length : 0 .. DirectionCount]
           /\ CountsSteps(h, NextRun(run, raw)) /\ Turnover(f, h, NextRun(run, raw))
<1> DEFINE idle == elapsed # "close"
           count == (IF idle \/ raw # f.last THEN 0 ELSE f.count) + 1
           full == count = DirectionCount
           length == IF raw = run.direction THEN IF run.length < DirectionCount THEN run.length + 1 ELSE run.length ELSE 1
<1>1. DirectionCount \in Nat \ {0} /\ run.length \in 0 .. DirectionCount /\ f.count \in 0 .. DirectionCount - 1
      /\ f.last = run.direction /\ f.count <= run.length
  BY EncoderAssumption DEF CountsSteps
<1>2. count \in 1 .. DirectionCount /\ length \in 1 .. DirectionCount /\ count <= length
  BY <1>1
<1>3. NextRun(run, raw) = [direction |-> raw, length |-> length]
  BY DEF NextRun
<1>4. h.last = raw /\ h.count = (IF full THEN 0 ELSE count)
      /\ h.held = IF full THEN raw ELSE IF idle THEN "Stopped" ELSE f.held
  BY HoldFacts
<1> HIDE DEF count, length, idle
<1>5. NextRun(run, raw) \in [direction : Positions, length : 0 .. DirectionCount]
  BY <1>1, <1>2, <1>3 DEF Positions
<1>6. CountsSteps(h, NextRun(run, raw))
  BY <1>1, <1>2, <1>3, <1>4 DEF CountsSteps
<1>7. ASSUME {f.held, h.held} = {"Cw", "Ccw"} PROVE full /\ h.held = raw
  <2>1. h.held # f.held /\ h.held # "Stopped"
    BY <1>7
  <2> QED BY <1>4, <2>1
<1>8. full => length = DirectionCount
  BY <1>1, <1>2
<1>9. Turnover(f, h, NextRun(run, raw))
  BY <1>3, <1>7, <1>8 DEF Turnover
<1> QED BY <1>5, <1>6, <1>9

\* A sample of one encoder.
LEMMA SampleCounted ==
    ASSUME EncodersInv, NEW e \in EncoderIndices, NEW g, NEW pair, NEW elapsed, ReadEncoder(e, g, pair, elapsed)
    PROVE  /\ EncodersInv'
           /\ \A i \in EncoderIndices : Turnover(encoder[i], encoder'[i], rawRun'[i])
<1> DEFINE f == encoder[e]
           run == rawRun[e]
           raw == RawDirection(f, pair)
           h == ProcessReading(e, g, pair, elapsed).encoder
<1>1. DOMAIN f = EncoderFields /\ CountsSteps(f, run) /\ run \in [direction : Positions, length : 0 .. DirectionCount]
  BY DEF EncodersInv
<1>2. encoder' = [encoder EXCEPT ![e] = h]
  BY DEF ReadEncoder
<1>3. CASE ~Complete(f, pair)
  <2>1. rawRun' = rawRun
    BY <1>3 DEF ReadEncoder
  <2>2. h = Filtered(f, pair, elapsed)
    BY <1>3 DEF ProcessReading
  <2>3. h = [f EXCEPT !.pair = pair] \/ h = [f EXCEPT !.pair = pair, !.pulses = Pulses(f, pair)]
    BY <1>3, <2>2 DEF Filtered
  <2> HIDE DEF h, f
  <2>4. DOMAIN h = EncoderFields /\ h.last = f.last /\ h.held = f.held /\ h.count = f.count
    BY <1>1, <2>3 DEF EncoderFields
  <2>5. CountsSteps(h, run)
    BY <1>1, <2>4 DEF CountsSteps
  <2>6. \A i \in EncoderIndices : encoder'[i] = IF i = e THEN h ELSE encoder[i]
    BY <1>2 DEF EncodersInv
  <2>7. EncodersInv'
    BY <1>2, <2>1, <2>4, <2>5, <2>6 DEF EncodersInv
  <2>8. \A i \in EncoderIndices : encoder'[i].held = encoder[i].held
    BY <2>4, <2>6 DEF f
  <2>9. \A i \in EncoderIndices : Turnover(encoder[i], encoder'[i], rawRun'[i])
    <3>1. \A x : {x, x} # {"Cw", "Ccw"}
      BY SMT
    <3> QED BY <2>8, <3>1 DEF Turnover
  <2> QED BY <2>7, <2>9
<1>4. CASE Complete(f, pair)
  <2> DEFINE t == Hold(f, raw, elapsed)
             speed == NextSpeed(encoder[e], encoderConfig[e], elapsed)
             r == MapStep(encoder[e].value, g, encoderConfig[e],
                          FilteredDirection(Filtered(f, pair, elapsed), raw), IF speed > 0 THEN speed ELSE 1)
             filtered == [t EXCEPT !.pair = pair, !.pulses = 0]
  <2>1. f.pair # NoValue /\ Filtered(f, pair, elapsed) = filtered
    BY <1>4 DEF Filtered, Complete
  <2>2. h = [Filtered(f, pair, elapsed) EXCEPT !.value = r.value, !.speed = speed, !.moved = TRUE]
    BY <1>4 DEF ProcessReading
  <2>3. DOMAIN t = EncoderFields
    BY <1>1, HoldFacts
  <2> HIDE DEF t, r, speed
  <2>4. DOMAIN filtered = EncoderFields /\ filtered.last = t.last /\ filtered.count = t.count /\ filtered.held = t.held
    BY <2>3 DEF EncoderFields
  <2> HIDE DEF filtered
  <2>5. DOMAIN h = EncoderFields /\ h.last = t.last /\ h.count = t.count /\ h.held = t.held
    BY <2>1, <2>2, <2>4 DEF EncoderFields
  <2> HIDE DEF h
  <2>6. raw \in {"Ccw", "Cw"}
    BY DEF RawDirection
  <2>7. /\ NextRun(run, raw) \in [direction : Positions, length : 0 .. DirectionCount]
        /\ CountsSteps(h, NextRun(run, raw)) /\ Turnover(f, h, NextRun(run, raw))
    BY <1>1, <2>5, <2>6, StepCounted DEF t
  <2>8. rawRun' = [rawRun EXCEPT ![e] = NextRun(run, raw)]
    BY <1>1, <1>4 DEF ReadEncoder, NextRun
  <2>9. \A i \in EncoderIndices :
            /\ encoder'[i] = IF i = e THEN h ELSE encoder[i]
            /\ rawRun'[i] = IF i = e THEN NextRun(run, raw) ELSE rawRun[i]
    BY <1>2, <2>8 DEF EncodersInv
  <2>10. EncodersInv'
    BY <1>2, <2>5, <2>7, <2>8, <2>9 DEF EncodersInv
  <2>11. \A i \in EncoderIndices : Turnover(encoder[i], encoder'[i], rawRun'[i])
    <3> SUFFICES ASSUME NEW i \in EncoderIndices PROVE Turnover(encoder[i], encoder'[i], rawRun'[i])
      OBVIOUS
    <3>1. CASE i = e
      BY <2>7, <2>9, <3>1 DEF f
    <3>2. CASE i # e
      BY <2>9, <3>2 DEF Turnover
    <3> QED BY <3>1, <3>2
  <2> QED BY <2>10, <2>11
<1> QED BY <1>3, <1>4

\* A step that leaves the filters alone.
LEMMA EncodersStill ==
    ASSUME EncodersInv, UNCHANGED rawRun, DOMAIN encoder' = EncoderIndices,
           \A e \in EncoderIndices :
              /\ DOMAIN encoder'[e] = EncoderFields
              /\ encoder'[e].last = encoder[e].last /\ encoder'[e].held = encoder[e].held
              /\ encoder'[e].count = encoder[e].count
    PROVE  EncodersInv' /\ \A e \in EncoderIndices : Turnover(encoder[e], encoder'[e], rawRun'[e])
<1>1. EncodersInv'
  BY DEF EncodersInv, CountsSteps
<1>2. \A x : {x, x} # {"Cw", "Ccw"}
  BY SMT
<1> QED BY <1>1, <1>2 DEF Turnover

LEMMA EncodersStart == DigitalInit => EncodersInv
<1> SUFFICES ASSUME DigitalInit PROVE EncodersInv
  OBVIOUS
<1>1. /\ encoder = [e \in EncoderIndices |-> StillEncoder(encoderConfig[e])]
      /\ rawRun = [e \in EncoderIndices |-> [direction |-> "Stopped", length |-> 0]]
  BY DEF DigitalInit, EncoderInit
<1>2. rawRun \in [EncoderIndices -> [direction : Positions, length : 0 .. DirectionCount]]
  BY <1>1, EncoderAssumption DEF Positions
<1>3. \A c : /\ DOMAIN StillEncoder(c) = EncoderFields
              /\ StillEncoder(c).last = "Stopped" /\ StillEncoder(c).count = 0
  BY DEF StillEncoder, EncoderFields
<1>4. \A e \in EncoderIndices : DOMAIN encoder[e] = EncoderFields /\ CountsSteps(encoder[e], rawRun[e])
  BY <1>1, <1>3, EncoderAssumption DEF CountsSteps
<1> QED BY <1>1, <1>2, <1>4 DEF EncodersInv

LEMMA EncodersStep ==
    ASSUME EncodersInv, [DigitalNext]_digitalVars
    PROVE  EncodersInv' /\ \A e \in EncoderIndices : Turnover(encoder[e], encoder'[e], rawRun'[e])
<1>0. DOMAIN encoder = EncoderIndices /\ \A e \in EncoderIndices : DOMAIN encoder[e] = EncoderFields
  BY DEF EncodersInv
<1>1. ASSUME UNCHANGED <<encoder, rawRun>>
      PROVE  EncodersInv' /\ \A e \in EncoderIndices : Turnover(encoder[e], encoder'[e], rawRun'[e])
  BY <1>0, <1>1, EncodersStill
<1>2. CASE EncoderTurn
  <2>1. PICK e : e = job.next
    OBVIOUS
  <2>2. CASE UNCHANGED encoderVars
    BY <1>1, <2>2 DEF encoderVars
  <2>3. CASE ~UNCHANGED encoderVars
    <3>1. PICK elapsed : ReadEncoder(e, globals, PairOf(e), elapsed)
      BY <1>2, <2>1, <2>3 DEF EncoderTurn
    <3>2. CASE e \in EncoderIndices
      BY <3>1, <3>2, SampleCounted
    <3>3. CASE e \notin EncoderIndices
      <4>1. rawRun \in [EncoderIndices -> [direction : Positions, length : 0 .. DirectionCount]]
        BY DEF EncodersInv
      <4>2. rawRun' = rawRun
        BY <3>1, <3>3, <4>1 DEF ReadEncoder
      <4>3. DOMAIN encoder' = EncoderIndices /\ \A i \in EncoderIndices : encoder'[i] = encoder[i]
        BY <1>0, <3>1, <3>3 DEF ReadEncoder
      <4> QED BY <1>0, <4>2, <4>3, EncodersStill
    <3> QED BY <3>2, <3>3
  <2> QED BY <2>2, <2>3
<1>3. CASE SyncEncoder
  <2>1. PICK mode, matches, value : SyncEncoders(mode, matches, 0, value, ioFrozen)
    BY <1>3 DEF SyncEncoder
  <2>2. /\ rawRun' = rawRun /\ DOMAIN encoder' = EncoderIndices
        /\ \A e \in EncoderIndices : encoder'[e] = encoder[e] \/ encoder'[e] = [encoder[e] EXCEPT !.value = value]
    BY <2>1 DEF SyncEncoders
  <2>3. \A e \in EncoderIndices :
            /\ DOMAIN encoder'[e] = EncoderFields
            /\ encoder'[e].last = encoder[e].last /\ encoder'[e].held = encoder[e].held
            /\ encoder'[e].count = encoder[e].count
    BY <1>0, <2>2 DEF EncoderFields
  <2> QED BY <2>2, <2>3, EncodersStill
<1>4. CASE WriteEncoder
  <2>1. PICK e \in EncoderIndices, section \in EncoderSections : EncoderWrite(e, section)
    BY <1>4 DEF WriteEncoder
  <2>2. PICK c : encoder' = [encoder EXCEPT ![e] = StillEncoder(c)]
    BY <2>1 DEF EncoderWrite
  <2>3. rawRun' = [rawRun EXCEPT ![e] = [direction |-> "Stopped", length |-> 0]]
    BY <2>1 DEF EncoderWrite
  <2>4. /\ DOMAIN StillEncoder(c) = EncoderFields /\ StillEncoder(c).last = "Stopped"
        /\ StillEncoder(c).count = 0 /\ StillEncoder(c).held = "Stopped"
    BY DEF StillEncoder, EncoderFields
  <2>5. CountsSteps(StillEncoder(c), [direction |-> "Stopped", length |-> 0])
    BY <2>4, EncoderAssumption DEF CountsSteps
  <2>6. [direction |-> "Stopped", length |-> 0] \in [direction : Positions, length : 0 .. DirectionCount]
    BY EncoderAssumption DEF Positions
  <2>7. \A i \in EncoderIndices :
            /\ encoder'[i] = IF i = e THEN StillEncoder(c) ELSE encoder[i]
            /\ rawRun'[i] = IF i = e THEN [direction |-> "Stopped", length |-> 0] ELSE rawRun[i]
    BY <2>2, <2>3 DEF EncodersInv
  <2>8. EncodersInv'
    BY <2>2, <2>3, <2>4, <2>5, <2>6, <2>7 DEF EncodersInv
  <2>9. \A i \in EncoderIndices : Turnover(encoder[i], encoder'[i], rawRun'[i])
    <3>1. \A x : {x, x} # {"Cw", "Ccw"} /\ {x, "Stopped"} # {"Cw", "Ccw"}
      BY SMT
    <3> QED BY <2>4, <2>7, <3>1 DEF Turnover
  <2> QED BY <2>8, <2>9
<1>5. CASE RefreshDigital
  <2>1. UNCHANGED <<encoder, rawRun>>
    BY <1>5 DEF RefreshDigital, encoderVars, RefreshEncoder
  <2> QED BY <1>1, <2>1
<1>6. CASE Scan \/ SwitchTurn \/ PublishTurn \/ FreezeIo \/ ResumeInputs \/ WriteSwitch \/ ChangePreset
  <2>1. UNCHANGED <<encoder, rawRun>>
    BY <1>6 DEF Scan, SwitchTurn, PublishTurn, FreezeIo, ResumeInputs, WriteSwitch, ChangePreset, encoderVars
  <2> QED BY <1>1, <2>1
<1>7. CASE UNCHANGED digitalVars
  BY <1>1, <1>7 DEF digitalVars, encoderVars
<1> QED BY <1>2, <1>3, <1>4, <1>5, <1>6, <1>7 DEF DigitalNext, DigitalThread

LEMMA EncodersInvariant == DigitalSpec => []EncodersInv
<1>1. EncodersInv /\ [DigitalNext]_digitalVars => EncodersInv'
  BY EncodersStep
<1> QED BY <1>1, EncodersStart, PTL DEF DigitalSpec

\* FilterHw of the encoders: whatever samples come, are missed or are paused, a held direction turns over
\* only when the shaft made DirectionCount steps in a row the other way.
THEOREM DigitalDirectionHeld == DigitalSpec => DirectionHeld
<1>1. EncodersInv /\ [DigitalNext]_digitalVars =>
          [\A e \in EncoderIndices :
              {encoder[e].held, encoder'[e].held} = {"Cw", "Ccw"} =>
                  rawRun'[e] = [direction |-> encoder'[e].held, length |-> DirectionCount]]_digitalVars
  BY EncodersStep DEF Turnover
<1> QED BY <1>1, EncodersInvariant, PTL DEF DigitalSpec, DirectionHeld

-----------------------------------------------------------------------------
(* The queue of the dispatcher.  A switch is heading for a value when the  *)
(* last signal on the way to it has that value, or, if there is none, when *)
(* it is in that state already.                                            *)

SwitchSignals == [switch : OtherInputs, value : BOOLEAN]
Heading(sigs, state, k, v) ==
    /\ \A n \in 1 .. Len(sigs) :
          sigs[n].switch = k /\ (\A m \in 1 .. Len(sigs) : m > n => sigs[m].switch # k) => sigs[n].value = v
    /\ (\A n \in 1 .. Len(sigs) : sigs[n].switch # k) => state = v

LEMMA HeadingConcat ==
    ASSUME NEW s \in Seq(SwitchSignals), NEW t \in Seq(SwitchSignals), NEW state, NEW i,
           \A n \in 1 .. Len(t) : t[n].switch = i
    PROVE  /\ t # <<>> => Heading(s \o t, state, i, t[Len(t)].value)
           /\ \A k, v : k # i /\ Heading(s, state, k, v) => Heading(s \o t, state, k, v)
<1> DEFINE c == s \o t
           a == Len(s)
           b == Len(t)
<1>1. a \in Nat /\ b \in Nat
  BY LenProperties
<1>2. /\ Len(c) = a + b
      /\ \A n \in 1 .. a : c[n] = s[n]
      /\ \A n \in (a + 1) .. (a + b) : c[n] = t[n - a] /\ n - a \in 1 .. b
  <2>1. /\ Len(c) = a + b
        /\ \A n \in 1 .. a + b : c[n] = IF n <= a THEN s[n] ELSE t[n - a]
    BY ConcatProperties
  <2> HIDE DEF a, b, c
  <2> QED BY <1>1, <2>1
<1>3. t # <<>> => b > 0
  BY EmptySeq
<1>4. \A n \in 1 .. b : t[n].switch = i
  OBVIOUS
<1> SUFFICES /\ b > 0 => Heading(c, state, i, t[b].value)
             /\ \A k, v : k # i /\ Heading(s, state, k, v) => Heading(c, state, k, v)
  BY <1>3
<1>5. \A k, v : Heading(s, state, k, v) <=>
          /\ \A n \in 1 .. a : s[n].switch = k /\ (\A m \in 1 .. a : m > n => s[m].switch # k) => s[n].value = v
          /\ (\A n \in 1 .. a : s[n].switch # k) => state = v
  BY DEF Heading
<1>6. \A k, v : Heading(c, state, k, v) <=>
          /\ \A n \in 1 .. a + b :
                c[n].switch = k /\ (\A m \in 1 .. a + b : m > n => c[m].switch # k) => c[n].value = v
          /\ (\A n \in 1 .. a + b : c[n].switch # k) => state = v
  BY <1>2 DEF Heading
<1> HIDE DEF a, b, c
<1>7. ASSUME b > 0 PROVE Heading(c, state, i, t[b].value)
  <2>1. a + b \in 1 .. a + b /\ a + b \in (a + 1) .. (a + b) /\ c[a + b] = t[b] /\ t[b].switch = i
    BY <1>1, <1>2, <1>4, <1>7
  <2>2. \A n \in 1 .. a + b : n # a + b => a + b > n
    BY <1>1
  <2> QED BY <1>6, <2>1, <2>2
<1>8. ASSUME NEW k, NEW v, k # i, Heading(s, state, k, v) PROVE Heading(c, state, k, v)
  <2>1. \A n \in 1 .. a + b : c[n].switch = k => n \in 1 .. a /\ c[n] = s[n]
    BY <1>1, <1>2, <1>4, <1>8
  <2>2. \A n \in 1 .. a : n \in 1 .. a + b
    BY <1>1
  <2>3. \A n \in 1 .. a + b :
            c[n].switch = k /\ (\A m \in 1 .. a + b : m > n => c[m].switch # k) => c[n].value = v
    BY <1>2, <1>5, <1>8, <2>1, <2>2
  <2>4. (\A n \in 1 .. a + b : c[n].switch # k) => state = v
    BY <1>2, <1>5, <1>8, <2>2
  <2> QED BY <1>6, <2>3, <2>4
<1> QED BY <1>7, <1>8

LEMMA HeadingAppend ==
    ASSUME NEW s \in Seq(SwitchSignals), NEW x \in SwitchSignals, NEW state
    PROVE  /\ Append(s, x) \in Seq(SwitchSignals)
           /\ Heading(Append(s, x), state, x.switch, x.value)
           /\ \A k, v : k # x.switch /\ Heading(s, state, k, v) => Heading(Append(s, x), state, k, v)
<1>1. Append(s, x) = s \o <<x>> /\ Append(s, x) \in Seq(SwitchSignals)
  BY AppendIsConcat, AppendProperties
<1> DEFINE t == <<x>>
<1>2. t \in Seq(SwitchSignals) /\ Len(t) = 1 /\ t[1] = x /\ t # <<>>
  OBVIOUS
<1> HIDE DEF t
<1>3. \A n \in 1 .. Len(t) : t[n].switch = x.switch
  BY <1>2
<1>4. /\ t # <<>> => Heading(s \o t, state, x.switch, t[Len(t)].value)
      /\ \A k, v : k # x.switch /\ Heading(s, state, k, v) => Heading(s \o t, state, k, v)
  BY <1>2, <1>3, HeadingConcat
<1>5. Append(s, x) = s \o t
  BY <1>1 DEF t
<1> QED BY <1>1, <1>2, <1>4, <1>5

\* The first signal is handled: its switch takes its value.
LEMMA HeadingTail ==
    ASSUME NEW s \in Seq(SwitchSignals), s # <<>>, NEW state, NEW k, NEW v, Heading(s, state, k, v), NEW new,
           IF Head(s).switch = k THEN new = Head(s).value ELSE new = state
    PROVE  Heading(Tail(s), new, k, v)
<1> DEFINE t == Tail(s)
           b == Len(t)
<1>1. Head(s) = s[1] /\ Len(s) = b + 1 /\ b \in Nat /\ \A n \in 1 .. b : t[n] = s[n + 1]
  BY HeadTailProperties, LenProperties
<1>2. /\ \A n \in 1 .. b + 1 :
            s[n].switch = k /\ (\A m \in 1 .. b + 1 : m > n => s[m].switch # k) => s[n].value = v
      /\ (\A n \in 1 .. b + 1 : s[n].switch # k) => state = v
  BY <1>1 DEF Heading
<1> SUFFICES /\ \A n \in 1 .. b : t[n].switch = k /\ (\A m \in 1 .. b : m > n => t[m].switch # k) => t[n].value = v
             /\ (\A n \in 1 .. b : t[n].switch # k) => new = v
  BY DEF Heading
<1> HIDE DEF b, t
<1>3. \A m \in 1 .. b + 1 : m # 1 => m - 1 \in 1 .. b /\ t[m - 1] = s[m]
  BY <1>1
<1>4. ASSUME NEW n \in 1 .. b, t[n].switch = k, \A m \in 1 .. b : m > n => t[m].switch # k PROVE t[n].value = v
  <2>1. n + 1 \in 1 .. b + 1 /\ t[n] = s[n + 1]
    BY <1>1
  <2>2. \A m \in 1 .. b + 1 : m > n + 1 => s[m].switch # k
    <3> SUFFICES ASSUME NEW m \in 1 .. b + 1, m > n + 1 PROVE s[m].switch # k
      OBVIOUS
    <3>1. m - 1 \in 1 .. b /\ m - 1 > n
      BY <1>1
    <3> QED BY <1>3, <1>4, <3>1
  <2> QED BY <1>2, <1>4, <2>1, <2>2
<1>5. ASSUME \A n \in 1 .. b : t[n].switch # k PROVE new = v
  <2>1. \A m \in 1 .. b + 1 : m # 1 => s[m].switch # k
    BY <1>3, <1>5
  <2>2. 1 \in 1 .. b + 1 /\ \A m \in 1 .. b + 1 : m > 1 => m # 1
    BY <1>1
  <2>3. CASE s[1].switch = k
    BY <1>1, <1>2, <2>1, <2>2, <2>3
  <2>4. CASE s[1].switch # k
    <3>1. \A m \in 1 .. b + 1 : s[m].switch # k
      BY <2>1, <2>4
    <3> QED BY <1>1, <1>2, <2>4, <3>1
  <2> QED BY <2>3, <2>4
<1> QED BY <1>4, <1>5

-----------------------------------------------------------------------------
(* The analog inputs.  What the thread has of an input, and has not        *)
(* published yet, is what the host is to have of it; and every switch that *)
(* missed no signal is heading for the state of its input.                 *)

AnalogConfigs == [AnalogIndices -> UNION {AnalogSettings[i] : i \in AnalogIndices}]
NoteFor(pressed) == IF pressed THEN "NoteOn" ELSE "NoteOff"
WriterAt ==
    writer.step = "update" =>
        \E i \in AnalogIndices : \E c \in AnalogSettings[i] : writer = [step |-> "update", index |-> i, config |-> c]
AnalogTyped ==
    /\ analogConfig \in AnalogConfigs /\ otherPresets \in Seq(AnalogConfigs)
    /\ WriterAt
    /\ DOMAIN last = AnalogIndices /\ \A i \in AnalogIndices : last[i].pressed \in BOOLEAN
    /\ hostForce \in [AnalogIndices -> {"NoteOn", "NoteOff"}]
    /\ DOMAIN switch = SwitchIndices
    /\ signals \in Seq(SwitchSignals)
\* A result of input i that waits, r: it is as the settings are, and the host has what it does not send.
Awaits(i, r) ==
    /\ r.config = analogConfig[i] \/ (i \in unheard /\ SwitchIndexOf[i] \in cutOff)
    /\ r.last.pressed \in BOOLEAN
    /\ r.config.type = "Fsr" =>
          \/ r.sent # Unsent /\ r.sent.message = NoteFor(r.last.pressed)
          \/ r.sent = Unsent /\ (i \in unheard \/ (hostForce[i] = "NoteOn") = r.last.pressed)
ResultAt ==
    result # NoResult =>
        /\ analogJob \in AnalogIndices /\ result.index = analogJob
        /\ Awaits(analogJob, result)
ForceAt(i) ==
    \/ ~analogConfig[i].enabled \/ analogConfig[i].type # "Fsr" \/ i \in unheard \/ result.index = i
    \/ (hostForce[i] = "NoteOn") = last[i].pressed
SwitchAt(i) ==
    \/ ~analogConfig[i].enabled \/ analogConfig[i].type # "Switch" \/ SwitchIndexOf[i] \in cutOff \/ result.index = i
    \/ Heading(signals, switch[SwitchIndexOf[i]].pressed, SwitchIndexOf[i], last[i].value = 1)
TouchAt(i) == i \in cutOff \/ Heading(signals, switch[i].pressed, i, i \in touched)
AnalogInv ==
    /\ AnalogTyped /\ ResultAt
    /\ \A i \in AnalogIndices : ForceAt(i) /\ SwitchAt(i)
    /\ \A i \in TouchSwitches : TouchAt(i)

LEMMA AnalogStart == AnalogInit => AnalogInv
<1> SUFFICES ASSUME AnalogInit PROVE AnalogInv
  OBVIOUS
<1>1. /\ switch = [i \in SwitchIndices |-> Released] /\ last = [i \in AnalogIndices |-> NothingLast]
      /\ hostForce = [i \in AnalogIndices |-> "NoteOff"] /\ result = NoResult /\ writer = NoWriter /\ signals = <<>>
      /\ touched = {}
  BY DEF AnalogInit, SwitchInit
<1>2. PICK p \in AnalogPresets : analogConfig = p[1] /\ otherPresets = Tail(p)
  BY DEF AnalogInit
<1>3. p \in Seq(AnalogConfigs) /\ p # <<>>
  BY AnalogAssumption DEF AnalogConfigs
<1>4. analogConfig \in AnalogConfigs /\ otherPresets \in Seq(AnalogConfigs)
  BY <1>2, <1>3, HeadTailProperties
<1>5. NothingLast.pressed = FALSE /\ NothingLast.value = 0 /\ Released.pressed = FALSE /\ NoWriter.step = "none"
  BY DEF NothingLast, Released, NoWriter
<1>6. signals \in Seq(SwitchSignals) /\ Len(signals) = 0
  BY <1>1, EmptySeq
<1>7. AnalogTyped
  BY <1>1, <1>4, <1>5, <1>6 DEF AnalogTyped, WriterAt
<1>8. \A k \in SwitchIndices : Heading(signals, switch[k].pressed, k, FALSE)
  BY <1>1, <1>5, <1>6 DEF Heading
<1>9. \A i \in AnalogIndices : SwitchIndexOf[i] \in SwitchIndices
  BY SwitchIndexAssumption DEF SwitchIndices
<1>10. \A i \in AnalogIndices : ForceAt(i) /\ SwitchAt(i)
  <2> SUFFICES ASSUME NEW i \in AnalogIndices PROVE ForceAt(i) /\ SwitchAt(i)
    OBVIOUS
  <2>1. last[i].pressed = FALSE /\ hostForce[i] = "NoteOff" /\ (last[i].value = 1) = FALSE
    BY <1>1, <1>5
  <2>2. SwitchAt(i)
    BY <1>8, <1>9, <2>1 DEF SwitchAt
  <2> QED BY <2>1, <2>2 DEF ForceAt
<1>11. \A i \in TouchSwitches : TouchAt(i)
  <2>1. \A i \in TouchSwitches : i \in SwitchIndices /\ (i \in touched) = FALSE
    BY <1>1, SwitchIndexAssumption DEF SwitchIndices
  <2> QED BY <1>8, <2>1 DEF TouchAt
<1> QED BY <1>1, <1>7, <1>10, <1>11 DEF AnalogInv, ResultAt

\* A step that leaves what the host and the switches have alone, and adds to what they missed.
LEMMA AnalogStill ==
    ASSUME AnalogInv, UNCHANGED <<signals, switch, hostForce, result, analogJob, touched>>,
           \A i \in AnalogIndices : i \in unheard => i \in unheard', cutOff \subseteq cutOff', AnalogTyped',
           \A i \in AnalogIndices :
              \/ i \in unheard' /\ SwitchIndexOf[i] \in cutOff'
              \/ last'[i] = last[i] /\ analogConfig'[i] = analogConfig[i]
    PROVE  AnalogInv'
<1>1. ASSUME NEW i \in AnalogIndices, NEW r, Awaits(i, r) PROVE Awaits(i, r)'
  BY <1>1 DEF Awaits
<1>2. ResultAt'
  BY <1>1 DEF AnalogInv, ResultAt
<1>3. \A i \in AnalogIndices : ForceAt(i)'
  BY DEF AnalogInv, ForceAt
<1>4. \A i \in AnalogIndices : SwitchAt(i)'
  BY DEF AnalogInv, SwitchAt
<1>5. \A i \in TouchSwitches : TouchAt(i)'
  BY DEF AnalogInv, TouchAt
<1> QED BY <1>2, <1>3, <1>4, <1>5 DEF AnalogInv

LEMMA ScanKeepsAnalog == ASSUME AnalogInv, ScanAnalog PROVE AnalogInv'
<1>1. UNCHANGED <<signals, switch, hostForce, result, last, analogConfig, otherPresets, writer, unheard, cutOff, touched>>
  BY DEF ScanAnalog, settingsState, hostState, worldState, ghosts, switchVars
<1>2. AnalogTyped'
  BY <1>1 DEF AnalogInv, AnalogTyped, WriterAt
<1>3. ResultAt'
  BY <1>1, AnalogAssumption DEF AnalogInv, ResultAt, ScanAnalog
<1>4. \A i \in AnalogIndices : ForceAt(i)' /\ SwitchAt(i)'
  BY <1>1 DEF AnalogInv, ForceAt, SwitchAt
<1>5. \A i \in TouchSwitches : TouchAt(i)'
  BY <1>1 DEF AnalogInv, TouchAt
<1> QED BY <1>2, <1>3, <1>4, <1>5 DEF AnalogInv

\* What the mapper makes of a position of a force sensor.
LEMMA MapFacts ==
    ASSUME NEW old, old.pressed \in BOOLEAN, NEW config, NEW position
    PROVE  LET r == MapPosition(old, config, position)
           IN  /\ r.last.pressed \in BOOLEAN
               /\ config.type = "Fsr" =>
                     \/ r.sent # Unsent /\ r.sent.message = NoteFor(r.last.pressed)
                     \/ r.sent = Unsent /\ r.last.pressed = old.pressed
<1> DEFINE r == MapPosition(old, config, position)
           value == IF config.type = "Switch" THEN position ELSE Computed(position, config)
           pressed == config.type = "Fsr" /\ value > 0
<1>1. pressed \in BOOLEAN
  OBVIOUS
<1>2. /\ r.last.pressed = pressed
      /\ r.sent = IF config.type = "Fsr" /\ old.pressed = pressed THEN Unsent ELSE SentAs(config, pressed, value)
  BY DEF MapPosition
<1> HIDE DEF pressed, value, r
<1>3. ASSUME config.type = "Fsr", old.pressed # pressed PROVE r.sent # Unsent /\ r.sent.message = NoteFor(pressed)
  <2>1. r.sent = SentAs(config, pressed, value)
    BY <1>2, <1>3
  <2>2. CASE pressed
    <3>1. r.sent = [message |-> "NoteOn", value |-> value]
      BY <1>3, <2>1, <2>2 DEF SentAs, MessageOf
    <3> QED BY <2>2, <3>1 DEF NoteFor, Unsent
  <2>3. CASE ~pressed
    <3>1. r.sent = [message |-> "NoteOff", value |-> 0]
      BY <1>3, <2>1, <2>3 DEF SentAs, MessageOf
    <3> QED BY <2>3, <3>1 DEF NoteFor, Unsent
  <2> QED BY <2>2, <2>3
<1> QED BY <1>1, <1>2, <1>3 DEF r

LEMMA TurnKeepsAnalog == ASSUME AnalogInv, AnalogTurn PROVE AnalogInv'
<1>0. PICK i \in AnalogIndices : i = analogJob
  BY DEF AnalogTurn
<1> DEFINE config == analogConfig[i]
           skip == frozen \/ ~config.enabled
<1>1. result = NoResult /\ NoResult.index = 0 /\ 0 \notin AnalogIndices
  BY AnalogAssumption DEF AnalogTurn, NoResult
<1>2. UNCHANGED <<signals, switch, hostForce, analogConfig, otherPresets, writer, unheard, cutOff, touched>>
  BY DEF AnalogTurn, settingsState, hostState, worldState, switchVars
<1>3. PICK elapsed :
        LET f == Filter(filter[i], config, analogFrame[i], elapsed)
            r == MapPosition(last[i], config, f.position)
            publishes == f.position # None /\ r.changed
        IN  /\ last' = IF skip \/ ~publishes THEN last ELSE [last EXCEPT ![i] = r.last]
            /\ IF skip \/ ~publishes THEN result' = NoResult /\ analogJob' = AfterInput
               ELSE result' = [index |-> i, config |-> config, sent |-> r.sent, last |-> r.last] /\ UNCHANGED analogJob
  BY <1>0 DEF AnalogTurn
<1> DEFINE f == Filter(filter[i], config, analogFrame[i], elapsed)
           r == MapPosition(last[i], config, f.position)
           publishes == f.position # None /\ r.changed
<1>4. DOMAIN last = AnalogIndices /\ last[i].pressed \in BOOLEAN /\ \A j \in AnalogIndices : last[j].pressed \in BOOLEAN
  BY DEF AnalogInv, AnalogTyped
<1>5. /\ r.last.pressed \in BOOLEAN
      /\ config.type = "Fsr" =>
            \/ r.sent # Unsent /\ r.sent.message = NoteFor(r.last.pressed)
            \/ r.sent = Unsent /\ r.last.pressed = last[i].pressed
  BY <1>4, MapFacts
<1>6. /\ last' = IF skip \/ ~publishes THEN last ELSE [last EXCEPT ![i] = r.last]
      /\ IF skip \/ ~publishes THEN result' = NoResult
         ELSE result' = [index |-> i, config |-> config, sent |-> r.sent, last |-> r.last] /\ UNCHANGED analogJob
  BY <1>3
<1> HIDE DEF r, publishes
<1>7. \A k \in TouchSwitches : TouchAt(k)'
  BY <1>2 DEF AnalogInv, TouchAt
<1>8. CASE skip \/ ~publishes
  <2>1. last' = last /\ result' = result /\ result' = NoResult
    BY <1>1, <1>6, <1>8
  <2>2. AnalogTyped'
    BY <1>2, <2>1 DEF AnalogInv, AnalogTyped, WriterAt
  <2>3. \A j \in AnalogIndices : ForceAt(j)' /\ SwitchAt(j)'
    BY <1>2, <2>1 DEF AnalogInv, ForceAt, SwitchAt
  <2> QED BY <1>7, <2>1, <2>2, <2>3 DEF AnalogInv, ResultAt
<1>9. CASE ~(skip \/ ~publishes)
  <2>1. last' = [last EXCEPT ![i] = r.last] /\ analogJob' = i
    BY <1>0, <1>6, <1>9
  <2>2. result' = [index |-> i, config |-> config, sent |-> r.sent, last |-> r.last]
    BY <1>6, <1>9
  <2>3. AnalogTyped'
    BY <1>2, <1>4, <1>5, <2>1 DEF AnalogInv, AnalogTyped, WriterAt
  <2>4. result'.index = i /\ result'.config = config /\ result'.sent = r.sent /\ result'.last = r.last
    BY <2>2
  <2>5. \A j \in AnalogIndices : ForceAt(j)' /\ SwitchAt(j)'
    <3> SUFFICES ASSUME NEW j \in AnalogIndices, j # i PROVE ForceAt(j)' /\ SwitchAt(j)'
      BY <2>4 DEF ForceAt, SwitchAt
    <3>1. last'[j] = last[j] /\ result.index # j
      BY <1>1, <1>4, <2>1
    <3>2. ForceAt(j) /\ SwitchAt(j)
      BY DEF AnalogInv
    <3> QED BY <1>2, <3>1, <3>2 DEF ForceAt, SwitchAt
  <2>6. config.type = "Fsr" => i \in unheard \/ (hostForce[i] = "NoteOn") = last[i].pressed
    <3>1. ForceAt(i) /\ config.enabled /\ result.index # i
      BY <1>1, <1>9 DEF AnalogInv
    <3> QED BY <3>1 DEF ForceAt
  <2>7. Awaits(analogJob, result)'
    BY <1>2, <1>5, <2>1, <2>4, <2>6 DEF Awaits
  <2> QED BY <1>0, <1>7, <2>1, <2>3, <2>4, <2>5, <2>7 DEF AnalogInv, ResultAt
<1> QED BY <1>8, <1>9

\* The value of an analog input goes to its switch: that one is heading for it, the others for what they were.
LEMMA SignalQueued ==
    ASSUME AnalogInv, NEW i \in AnalogIndices, NEW x, x = [switch |-> SwitchIndexOf[i], value |-> last[i].value = 1],
           NEW y, y = [switch |-> SwitchIndexOf[i], value |-> y.value], y.value \in BOOLEAN,
           signals' = Append(signals, y), UNCHANGED <<switch, touched, last, analogConfig>>,
           \A k : k \in cutOff /\ k # SwitchIndexOf[i] => k \in cutOff',
           SwitchIndexOf[i] \in cutOff' \/ y = x,
           result' = NoResult, result = NoResult \/ result.index = i
    PROVE  /\ signals' \in Seq(SwitchSignals)
           /\ \A j \in AnalogIndices : SwitchAt(j)'
           /\ \A k \in TouchSwitches : TouchAt(k)'
<1>0. PICK s : s = SwitchIndexOf[i]
  OBVIOUS
<1>1. s \in OtherInputs /\ \A k \in TouchSwitches : k # s
  BY <1>0, SwitchIndexAssumption
<1>2. \A j \in AnalogIndices : j # i => SwitchIndexOf[j] # s
  BY <1>0, SwitchIndexAssumption
<1>3. y \in SwitchSignals /\ y.switch = s /\ (y = x => y.value = (last[i].value = 1))
  BY <1>0, <1>1 DEF SwitchSignals
<1>4. signals \in Seq(SwitchSignals)
  BY DEF AnalogInv, AnalogTyped
<1>5. /\ signals' \in Seq(SwitchSignals)
      /\ \A state : Heading(signals', state, s, y.value)
      /\ \A state, k, v : k # s /\ Heading(signals, state, k, v) => Heading(signals', state, k, v)
  BY <1>3, <1>4, HeadingAppend
<1>6. NoResult.index = 0 /\ 0 \notin AnalogIndices
  BY AnalogAssumption DEF NoResult
<1>7. ASSUME NEW j \in AnalogIndices PROVE SwitchAt(j)'
  <2>1. CASE j = i
    BY <1>0, <1>3, <1>5, <2>1 DEF SwitchAt
  <2>2. CASE j # i
    <3>1. SwitchAt(j) /\ result.index # j /\ SwitchIndexOf[j] # s
      BY <1>2, <1>6, <2>2 DEF AnalogInv
    <3> QED BY <1>0, <1>5, <3>1 DEF SwitchAt
  <2> QED BY <2>1, <2>2
<1>8. ASSUME NEW k \in TouchSwitches PROVE TouchAt(k)'
  <2>1. TouchAt(k) /\ k # s
    BY <1>1 DEF AnalogInv
  <2> QED BY <1>0, <1>5, <2>1 DEF TouchAt
<1> QED BY <1>5, <1>7, <1>8

LEMMA PublishKeepsAnalog == ASSUME AnalogInv, PublishAnalog PROVE AnalogInv'
<1>0. PICK i : i = analogJob
  OBVIOUS
<1>1. result # NoResult /\ i \in AnalogIndices /\ result.index = i /\ Awaits(i, result)
  BY <1>0 DEF AnalogInv, ResultAt, PublishAnalog
<1>2. UNCHANGED <<switch, analogConfig, otherPresets, writer, last, touched>> /\ result' = NoResult
  BY DEF PublishAnalog, settingsState, worldState, switchVars
<1> DEFINE fresh == result.config = analogConfig[i] /\ result.last = last[i]
           x == [switch |-> SwitchIndexOf[i], value |-> last[i].value = 1]
           y == [switch |-> SwitchIndexOf[i], value |-> result.last.value = 1]
<1>3. hostForce \in [AnalogIndices -> {"NoteOn", "NoteOff"}] /\ last[i].pressed \in BOOLEAN
  BY <1>1 DEF AnalogInv, AnalogTyped
<1>4. ResultAt'
  BY <1>2 DEF ResultAt
<1>5. NoResult.index = 0 /\ \A j \in AnalogIndices : j # 0
  BY AnalogAssumption DEF NoResult
<1>6. CASE result.config.type = "Switch"
  <2>1. UNCHANGED <<hostForce, unheard>>
    BY <1>1, <1>6 DEF PublishAnalog, hostState
  <2>2. cutOff' = IF frozen \/ ~fresh THEN cutOff \cup {SwitchIndexOf[i]} ELSE cutOff \ {SwitchIndexOf[i]}
    BY <1>1, <1>6 DEF PublishAnalog
  <2>3. signals' = IF frozen THEN signals ELSE Append(signals, y)
    BY <1>1, <1>6 DEF PublishAnalog
  <2>4. \A j \in AnalogIndices : ForceAt(j)'
    <3> SUFFICES ASSUME NEW j \in AnalogIndices PROVE ForceAt(j)'
      OBVIOUS
    <3>1. CASE j = i
      BY <1>1, <1>2, <1>6, <2>1, <3>1 DEF Awaits, ForceAt
    <3>2. CASE j # i
      BY <1>1, <1>2, <2>1, <3>2 DEF AnalogInv, ForceAt
    <3> QED BY <3>1, <3>2
  <2>5. /\ signals' \in Seq(SwitchSignals)
        /\ \A j \in AnalogIndices : SwitchAt(j)'
        /\ \A k \in TouchSwitches : TouchAt(k)'
    <3>1. CASE frozen
      <4>1. signals' = signals /\ cutOff' = cutOff \cup {SwitchIndexOf[i]}
        BY <2>2, <2>3, <3>1
      <4>2. \A j \in AnalogIndices : SwitchAt(j)'
        BY <1>1, <1>2, <4>1 DEF AnalogInv, SwitchAt
      <4>3. \A k \in TouchSwitches : TouchAt(k)'
        BY <1>2, <4>1 DEF AnalogInv, TouchAt
      <4> QED BY <4>1, <4>2, <4>3 DEF AnalogInv, AnalogTyped
    <3>2. CASE ~frozen
      <4>1. signals' = Append(signals, y)
        BY <2>3, <3>2
      <4>2. \A k : k \in cutOff /\ k # SwitchIndexOf[i] => k \in cutOff'
        BY <2>2
      <4>3. SwitchIndexOf[i] \in cutOff' \/ y = x
        BY <2>2, <3>2
      <4>4. y = [switch |-> SwitchIndexOf[i], value |-> y.value] /\ y.value \in BOOLEAN
        BY Zenon
      <4> HIDE DEF y, fresh
      <4> QED BY <1>1, <1>2, <4>1, <4>2, <4>3, <4>4, SignalQueued
    <3> QED BY <3>1, <3>2
  <2>6. AnalogTyped'
    BY <1>2, <2>1, <2>5 DEF AnalogInv, AnalogTyped, WriterAt
  <2> QED BY <1>4, <2>4, <2>5, <2>6 DEF AnalogInv
<1>7. CASE result.config.type # "Switch"
  <2>1. UNCHANGED <<signals, cutOff>>
    BY <1>1, <1>7 DEF PublishAnalog
  <2>2. /\ IF frozen THEN UNCHANGED hostForce ELSE ForceTold(i, result.sent)
        /\ unheard' = IF frozen \/ ~fresh THEN unheard \cup {i}
                      ELSE IF result.sent = Unsent THEN unheard ELSE unheard \ {i}
    BY <1>1, <1>7 DEF PublishAnalog
  <2>3. hostForce' = IF ~frozen /\ result.sent.message \in {"NoteOn", "NoteOff"}
                     THEN [hostForce EXCEPT ![i] = result.sent.message] ELSE hostForce
    BY <2>2 DEF ForceTold
  <2>4. /\ hostForce' \in [AnalogIndices -> {"NoteOn", "NoteOff"}]
        /\ \A j \in AnalogIndices : j # i => hostForce'[j] = hostForce[j]
        /\ hostForce'[i] = IF ~frozen /\ result.sent.message \in {"NoteOn", "NoteOff"}
                           THEN result.sent.message ELSE hostForce[i]
    BY <1>1, <1>3, <2>3
  <2>5. AnalogTyped'
    BY <1>2, <2>1, <2>4 DEF AnalogInv, AnalogTyped, WriterAt
  <2>6. \A j \in AnalogIndices : SwitchAt(j)'
    <3> SUFFICES ASSUME NEW j \in AnalogIndices PROVE SwitchAt(j)'
      OBVIOUS
    <3>1. CASE j = i
      BY <1>1, <1>2, <1>7, <2>1, <3>1 DEF Awaits, SwitchAt
    <3>2. CASE j # i
      BY <1>1, <1>2, <2>1, <3>2 DEF AnalogInv, SwitchAt
    <3> QED BY <3>1, <3>2
  <2>7. \A k \in TouchSwitches : TouchAt(k)'
    BY <1>2, <2>1 DEF AnalogInv, TouchAt
  <2>8. \A j \in AnalogIndices : ForceAt(j)'
    <3> SUFFICES ASSUME NEW j \in AnalogIndices PROVE ForceAt(j)'
      OBVIOUS
    <3>1. CASE j # i
      <4>1. j \in unheard => j \in unheard'
        BY <2>2, <3>1
      <4> QED BY <1>1, <1>2, <2>4, <3>1, <4>1 DEF AnalogInv, ForceAt
    <3>2. CASE j = i /\ (analogConfig[i].type # "Fsr" \/ frozen \/ ~fresh)
      BY <1>2, <2>2, <3>2 DEF ForceAt
    <3>3. CASE j = i /\ analogConfig[i].type = "Fsr" /\ ~frozen /\ fresh
      <4>1. result.config.type = "Fsr" /\ result.last.pressed = last[i].pressed
        BY <3>3
      <4>2. CASE result.sent # Unsent
        <5>1. result.sent.message = NoteFor(last[i].pressed)
          BY <1>1, <4>1, <4>2 DEF Awaits
        <5>2. hostForce'[i] = NoteFor(last[i].pressed)
          BY <2>4, <3>3, <5>1 DEF NoteFor
        <5>3. (hostForce'[i] = "NoteOn") = last[i].pressed
          BY <1>3, <5>2 DEF NoteFor
        <5> QED BY <1>2, <3>3, <5>3 DEF ForceAt
      <4>3. CASE result.sent = Unsent
        <5>1. i \in unheard \/ (hostForce[i] = "NoteOn") = last[i].pressed
          BY <1>1, <4>1, <4>3 DEF Awaits
        <5>2. hostForce'[i] = hostForce[i]
          BY <2>4, <4>3 DEF Unsent
        <5>3. unheard' = unheard
          BY <2>2, <3>3, <4>3
        <5> QED BY <1>2, <3>3, <5>1, <5>2, <5>3 DEF ForceAt
      <4> QED BY <4>2, <4>3
    <3> QED BY <3>1, <3>2, <3>3
  <2> QED BY <1>4, <2>5, <2>6, <2>7, <2>8 DEF AnalogInv
<1> QED BY <1>6, <1>7

LEMMA RefreshKeepsAnalog == ASSUME AnalogInv, RefreshAnalog PROVE AnalogInv'
<1>1. result = NoResult /\ NoResult.index = 0 /\ \A j \in AnalogIndices : j # 0
  BY AnalogAssumption DEF RefreshAnalog, AnalogInv, ResultAt, NoResult
<1>2. UNCHANGED <<switch, analogConfig, otherPresets, writer, last, touched, result, cutOff>>
  BY DEF RefreshAnalog, analogState, settingsState, worldState, ghosts, switchVars
<1>3. PICK i \in EnabledInputs(analogConfig) :
        IF analogConfig[i].type = "Switch"
        THEN /\ signals' = Append(signals, [switch |-> SwitchIndexOf[i], value |-> last[i].value = 1])
             /\ UNCHANGED hostState
        ELSE /\ ForceTold(i, SentAs(analogConfig[i], last[i].pressed, last[i].value))
             /\ unheard' = unheard \ {i}
             /\ UNCHANGED signals
  BY DEF RefreshAnalog
<1>4. i \in AnalogIndices
  BY DEF EnabledInputs
<1>5. hostForce \in [AnalogIndices -> {"NoteOn", "NoteOff"}] /\ last[i].pressed \in BOOLEAN
  BY <1>4 DEF AnalogInv, AnalogTyped
<1>6. ResultAt'
  BY <1>1, <1>2 DEF ResultAt
<1>7. CASE analogConfig[i].type = "Switch"
  <2> DEFINE x == [switch |-> SwitchIndexOf[i], value |-> last[i].value = 1]
  <2>1. signals' = Append(signals, x) /\ UNCHANGED <<hostForce, unheard>>
    BY <1>3, <1>7 DEF hostState
  <2>2. x = [switch |-> SwitchIndexOf[i], value |-> x.value] /\ x.value \in BOOLEAN
    BY Zenon
  <2>3. x = [switch |-> SwitchIndexOf[i], value |-> last[i].value = 1]
    OBVIOUS
  <2> HIDE DEF x
  <2>4. /\ signals' \in Seq(SwitchSignals)
        /\ \A j \in AnalogIndices : SwitchAt(j)'
        /\ \A k \in TouchSwitches : TouchAt(k)'
    BY <1>1, <1>2, <1>4, <2>1, <2>2, <2>3, SignalQueued
  <2>5. AnalogTyped'
    BY <1>2, <2>1, <2>4 DEF AnalogInv, AnalogTyped, WriterAt
  <2>6. \A j \in AnalogIndices : ForceAt(j)'
    BY <1>2, <2>1 DEF AnalogInv, ForceAt
  <2> QED BY <1>6, <2>4, <2>5, <2>6 DEF AnalogInv
<1>8. CASE analogConfig[i].type # "Switch"
  <2> DEFINE sent == SentAs(analogConfig[i], last[i].pressed, last[i].value)
  <2>1. ForceTold(i, sent) /\ unheard' = unheard \ {i} /\ signals' = signals
    BY <1>3, <1>8
  <2>2. analogConfig[i].type = "Fsr" => sent.message = NoteFor(last[i].pressed)
    <3> SUFFICES ASSUME analogConfig[i].type = "Fsr" PROVE sent.message = NoteFor(last[i].pressed)
      OBVIOUS
    <3>1. CASE last[i].pressed
      BY <3>1 DEF SentAs, MessageOf, NoteFor
    <3>2. CASE ~last[i].pressed
      BY <3>2 DEF SentAs, MessageOf, NoteFor
    <3> QED BY <3>1, <3>2
  <2> HIDE DEF sent
  <2>3. /\ hostForce' \in [AnalogIndices -> {"NoteOn", "NoteOff"}]
        /\ \A j \in AnalogIndices : j # i => hostForce'[j] = hostForce[j]
        /\ sent.message \in {"NoteOn", "NoteOff"} => hostForce'[i] = sent.message
    BY <1>4, <1>5, <2>1 DEF ForceTold
  <2>4. AnalogTyped'
    BY <1>2, <2>1, <2>3 DEF AnalogInv, AnalogTyped, WriterAt
  <2>5. \A j \in AnalogIndices : ForceAt(j)'
    <3> SUFFICES ASSUME NEW j \in AnalogIndices PROVE ForceAt(j)'
      OBVIOUS
    <3>1. CASE j # i
      BY <1>2, <2>1, <2>3, <3>1 DEF AnalogInv, ForceAt
    <3>2. CASE j = i /\ analogConfig[i].type # "Fsr"
      BY <1>2, <3>2 DEF ForceAt
    <3>3. CASE j = i /\ analogConfig[i].type = "Fsr"
      <4>1. hostForce'[i] = NoteFor(last[i].pressed)
        BY <2>2, <2>3, <3>3 DEF NoteFor
      <4>2. (hostForce'[i] = "NoteOn") = last[i].pressed
        BY <1>5, <4>1 DEF NoteFor
      <4> QED BY <1>2, <3>3, <4>2 DEF ForceAt
    <3> QED BY <3>1, <3>2, <3>3
  <2>6. \A j \in AnalogIndices : SwitchAt(j)'
    BY <1>2, <2>1 DEF AnalogInv, SwitchAt
  <2>7. \A k \in TouchSwitches : TouchAt(k)'
    BY <1>2, <2>1 DEF AnalogInv, TouchAt
  <2> QED BY <1>6, <2>4, <2>5, <2>6, <2>7 DEF AnalogInv
<1> QED BY <1>7, <1>8

LEMMA WritesKeepAnalog == ASSUME AnalogInv, WriteSettings PROVE AnalogInv'
<1>1. UNCHANGED <<signals, switch, hostForce, result, analogJob, touched>>
  BY DEF WriteSettings, BeginWrite, UpdateWrite, MaskWrite, SelectPreset, analogState, worldState, hostState, switchVars
<1>2. /\ analogConfig \in AnalogConfigs /\ otherPresets \in Seq(AnalogConfigs) /\ WriterAt
      /\ DOMAIN last = AnalogIndices /\ \A i \in AnalogIndices : last[i].pressed \in BOOLEAN
  BY DEF AnalogInv, AnalogTyped
<1>3. \A c \in AnalogConfigs : DOMAIN c = AnalogIndices
  BY DEF AnalogConfigs
<1>t. ASSUME analogConfig' \in AnalogConfigs, otherPresets' \in Seq(AnalogConfigs), WriterAt',
             DOMAIN last' = AnalogIndices, \A i \in AnalogIndices : last'[i].pressed \in BOOLEAN
      PROVE  AnalogTyped'
  BY <1>1, <1>t DEF AnalogInv, AnalogTyped
<1>4. CASE BeginWrite
  <2>0. PICK i \in AnalogIndices : \E c \in AnalogSettings[i] :
            /\ writer' = [step |-> "update", index |-> i, config |-> c]
            /\ \/ /\ last' = [last EXCEPT ![i] = NothingLast]
                  /\ unheard' = unheard \cup {i}
                  /\ cutOff' = cutOff \cup {SwitchIndexOf[i]}
               \/ UNCHANGED <<last, unheard, cutOff>>
    BY <1>4 DEF BeginWrite, ghosts
  <2>1. PICK c \in AnalogSettings[i] :
            /\ writer' = [step |-> "update", index |-> i, config |-> c]
            /\ \/ /\ last' = [last EXCEPT ![i] = NothingLast]
                  /\ unheard' = unheard \cup {i}
                  /\ cutOff' = cutOff \cup {SwitchIndexOf[i]}
               \/ UNCHANGED <<last, unheard, cutOff>>
    BY <2>0
  <2>2. UNCHANGED <<analogConfig, otherPresets>>
    BY <1>4 DEF BeginWrite
  <2>3. \A j \in AnalogIndices :
            \/ j \in unheard' /\ SwitchIndexOf[j] \in cutOff'
            \/ last'[j] = last[j]
    BY <1>2, <2>1
  <2>4. DOMAIN last' = AnalogIndices /\ \A j \in AnalogIndices : last'[j].pressed \in BOOLEAN
    <3>1. DOMAIN last' = AnalogIndices /\ \A j \in AnalogIndices : last'[j] = last[j] \/ last'[j] = NothingLast
      BY <1>2, <2>1
    <3>2. NothingLast.pressed = FALSE /\ FALSE \in BOOLEAN
      BY DEF NothingLast
    <3>3. \A j \in AnalogIndices : last'[j].pressed = last[j].pressed \/ last'[j].pressed = FALSE
      BY <3>1, <3>2
    <3> QED BY <1>2, <3>1, <3>2, <3>3
  <2>5. (\A j \in AnalogIndices : j \in unheard => j \in unheard') /\ cutOff \subseteq cutOff'
    BY <2>1
  <2>6. WriterAt'
    BY <2>1 DEF WriterAt
  <2>7. AnalogTyped'
    BY <1>2, <1>t, <2>2, <2>4, <2>6
  <2> QED BY <1>1, <2>2, <2>3, <2>5, <2>7, AnalogStill
<1>5. CASE UpdateWrite
  <2>1. writer.step = "update"
    BY <1>5 DEF UpdateWrite
  <2>a. PICK i \in AnalogIndices : \E c \in AnalogSettings[i] : writer = [step |-> "update", index |-> i, config |-> c]
    BY <1>2, <2>1 DEF WriterAt
  <2>2. PICK c \in AnalogSettings[i] : writer = [step |-> "update", index |-> i, config |-> c]
    BY <2>a
  <2>3. writer.index = i /\ writer.config = c
    BY <2>2
  <2>4. /\ analogConfig' = [analogConfig EXCEPT ![i] = c]
        /\ writer' \in {[writer EXCEPT !.step = "mask"], NoWriter}
        /\ unheard' = unheard \cup {i} /\ cutOff' = cutOff \cup {SwitchIndexOf[i]}
    BY <1>5, <2>3 DEF UpdateWrite
  <2>5. UNCHANGED <<last, otherPresets>>
    BY <1>5 DEF UpdateWrite, analogState
  <2>6. writer'.step # "update"
    BY <2>2, <2>4 DEF NoWriter
  <2>7. analogConfig' \in AnalogConfigs /\ \A j \in AnalogIndices : j # i => analogConfig'[j] = analogConfig[j]
    BY <1>2, <2>4 DEF AnalogConfigs
  <2>8. AnalogTyped'
    BY <1>2, <1>t, <2>5, <2>6, <2>7 DEF WriterAt
  <2>9. \A j \in AnalogIndices :
            \/ j \in unheard' /\ SwitchIndexOf[j] \in cutOff'
            \/ last'[j] = last[j] /\ analogConfig'[j] = analogConfig[j]
    BY <2>4, <2>5, <2>7
  <2>10. (\A j \in AnalogIndices : j \in unheard => j \in unheard') /\ cutOff \subseteq cutOff'
    BY <2>4
  <2> QED BY <1>1, <2>8, <2>9, <2>10, AnalogStill
<1>6. CASE MaskWrite
  <2>1. UNCHANGED <<last, analogConfig, otherPresets, unheard, cutOff>> /\ writer'.step # "update"
    BY <1>6 DEF MaskWrite, analogState, hostState, ghosts, NoWriter
  <2>2. AnalogTyped'
    BY <1>2, <1>t, <2>1 DEF WriterAt
  <2> QED BY <1>1, <2>1, <2>2, AnalogStill
<1>7. CASE SelectPreset
  <2>1. /\ otherPresets # <<>> /\ analogConfig' = Head(otherPresets)
        /\ otherPresets' = Append(Tail(otherPresets), analogConfig) /\ writer' = [step |-> "mask"]
        /\ unheard' = AnalogIndices /\ cutOff' = cutOff \cup {SwitchIndexOf[j] : j \in AnalogIndices}
    BY <1>7 DEF SelectPreset
  <2>2. last' = last
    BY <1>7 DEF SelectPreset, analogState
  <2>3. Head(otherPresets) \in AnalogConfigs /\ Tail(otherPresets) \in Seq(AnalogConfigs)
    BY <1>2, <2>1, HeadTailProperties
  <2>4. Append(Tail(otherPresets), analogConfig) \in Seq(AnalogConfigs)
    BY <1>2, <2>3, AppendProperties
  <2>5. writer'.step # "update"
    BY <2>1
  <2>6. AnalogTyped'
    BY <1>2, <1>t, <2>1, <2>2, <2>3, <2>4, <2>5 DEF WriterAt
  <2>7. cutOff \subseteq cutOff' /\ \A j \in AnalogIndices : j \in unheard' /\ SwitchIndexOf[j] \in cutOff'
    BY <2>1
  <2> QED BY <1>1, <2>6, <2>7, AnalogStill
<1> QED BY <1>4, <1>5, <1>6, <1>7 DEF WriteSettings

\* The dispatcher hands over the first signal.
LEMMA DeliverKeepsAnalog == ASSUME AnalogInv, DeliverSwitch PROVE AnalogInv'
<1>0. PICK s : s = Head(signals)
  OBVIOUS
<1>1. /\ UNCHANGED <<hostForce, unheard, result, analogJob, last, analogConfig, otherPresets, writer, touched>>
      /\ signals # <<>> /\ signals' = Tail(signals)
  BY DEF DeliverSwitch, analogState, settingsState, hostState, worldState
<1>2. cutOff' = IF frozen THEN cutOff \cup {s.switch} ELSE cutOff
  BY <1>0 DEF DeliverSwitch
<1>3. signals \in Seq(SwitchSignals) /\ DOMAIN switch = SwitchIndices
  BY DEF AnalogInv, AnalogTyped
<1>4. s \in SwitchSignals /\ signals' \in Seq(SwitchSignals)
  BY <1>0, <1>1, <1>3, HeadTailProperties
<1>5. s.switch \in SwitchIndices
  BY <1>4 DEF SwitchSignals, SwitchIndices
<1>6. /\ DOMAIN switch' = SwitchIndices
      /\ \A k \in SwitchIndices : k # s.switch => switch'[k] = switch[k]
      /\ frozen \/ switch'[s.switch].pressed = s.value
  <2>1. CASE frozen \/ switch[s.switch].pressed = s.value
    <3>1. switch' = switch
      BY <1>0, <2>1 DEF DeliverSwitch, switchVars
    <3> QED BY <1>3, <2>1, <3>1
  <2>2. CASE ~(frozen \/ switch[s.switch].pressed = s.value)
    <3> DEFINE r == Build(switch[s.switch], globals, switchConfig[s.switch], s.value, FALSE)
    <3>1. switch' = [switch EXCEPT ![s.switch] = r.switch]
      BY <1>0, <2>2 DEF DeliverSwitch, OtherReading, ApplyReading
    <3>2. r.switch.pressed = s.value
      BY DEF Build
    <3> HIDE DEF r
    <3> QED BY <1>3, <1>5, <3>1, <3>2
  <2> QED BY <2>1, <2>2
<1>7. ASSUME NEW k \in SwitchIndices, NEW v, k \in cutOff \/ Heading(signals, switch[k].pressed, k, v)
      PROVE  k \in cutOff' \/ Heading(signals', switch'[k].pressed, k, v)
  <2> SUFFICES ASSUME k \notin cutOff' PROVE Heading(signals', switch'[k].pressed, k, v)
    OBVIOUS
  <2>1. k \notin cutOff /\ (k = s.switch => ~frozen)
    BY <1>2
  <2>2. IF s.switch = k THEN switch'[k].pressed = s.value ELSE switch'[k].pressed = switch[k].pressed
    BY <1>6, <2>1
  <2> QED BY <1>0, <1>1, <1>3, <1>7, <2>1, <2>2, HeadingTail
<1>8. AnalogTyped'
  BY <1>1, <1>4, <1>6 DEF AnalogInv, AnalogTyped, WriterAt
<1>9. ResultAt'
  BY <1>1, <1>2 DEF AnalogInv, ResultAt, Awaits
<1>10. ASSUME NEW i \in AnalogIndices PROVE ForceAt(i)' /\ SwitchAt(i)'
  <2>1. ForceAt(i) /\ SwitchAt(i)
    BY DEF AnalogInv
  <2>2. ForceAt(i)'
    BY <1>1, <2>1 DEF ForceAt
  <2>3. PICK k : k = SwitchIndexOf[i]
    OBVIOUS
  <2>4. k \in SwitchIndices
    BY <2>3, SwitchIndexAssumption DEF SwitchIndices
  <2>5. k \in cutOff \/ Heading(signals, switch[k].pressed, k, last[i].value = 1)
            => k \in cutOff' \/ Heading(signals', switch'[k].pressed, k, last[i].value = 1)
    BY <1>7, <2>4
  <2>6. SwitchAt(i)'
    BY <1>1, <2>1, <2>3, <2>5 DEF SwitchAt
  <2> QED BY <2>2, <2>6
<1>11. ASSUME NEW k \in TouchSwitches PROVE TouchAt(k)'
  <2>1. TouchAt(k) /\ k \in SwitchIndices
    BY SwitchIndexAssumption DEF AnalogInv, SwitchIndices
  <2>2. k \in cutOff \/ Heading(signals, switch[k].pressed, k, k \in touched)
            => k \in cutOff' \/ Heading(signals', switch'[k].pressed, k, k \in touched)
    BY <1>7, <2>1
  <2> QED BY <1>1, <2>1, <2>2 DEF TouchAt
<1> QED BY <1>8, <1>9, <1>10, <1>11 DEF AnalogInv

\* A component is pressed or released; a press that changes the screen is released at once.
LEMMA TouchKeepsAnalog == ASSUME AnalogInv, Touch PROVE AnalogInv'
<1>1. UNCHANGED <<hostForce, unheard, result, analogJob, last, analogConfig, otherPresets, writer, switch>>
  BY DEF Touch, analogState, settingsState, hostState, switchVars
<1>2. PICK i \in TouchSwitches :
        LET press == i \notin touched
            events == TouchEvents(i, press)
        IN  /\ touched' = IF press /\ i \notin PageSwitches THEN touched \cup {i} ELSE touched \ {i}
            /\ signals' = signals \o [n \in DOMAIN events |-> [switch |-> i, value |-> events[n]]]
            /\ cutOff' = cutOff \ {i}
  BY DEF Touch
<1> DEFINE press == i \notin touched
           events == TouchEvents(i, press)
           t == [n \in DOMAIN events |-> [switch |-> i, value |-> events[n]]]
           kept == i \in touched'
<1>3. i \in OtherInputs /\ i \in SwitchIndices /\ \A j \in AnalogIndices : SwitchIndexOf[j] # i
  BY SwitchIndexAssumption DEF SwitchIndices
<1>4. signals \in Seq(SwitchSignals)
  BY DEF AnalogInv, AnalogTyped
<1>5. /\ signals' = signals \o t /\ cutOff' = cutOff \ {i}
      /\ \A k : k # i => (k \in touched') = (k \in touched)
      /\ kept = (press /\ i \notin PageSwitches)
  BY <1>2
<1>6. \/ press /\ i \in PageSwitches /\ events = <<TRUE, FALSE>>
      \/ ~(press /\ i \in PageSwitches) /\ events = <<press>>
  BY DEF TouchEvents
<1>p. press \in BOOLEAN
  OBVIOUS
<1> HIDE DEF events, press, kept
<1>7. events \in Seq(BOOLEAN) /\ events # <<>> /\ events[Len(events)] = kept
  <2>1. CASE press /\ i \in PageSwitches /\ events = <<TRUE, FALSE>>
    <3>1. \A a, b \in BOOLEAN :
              <<a, b>> \in Seq(BOOLEAN) /\ <<a, b>> # <<>> /\ Len(<<a, b>>) = 2 /\ <<a, b>>[2] = b
      OBVIOUS
    <3>2. events \in Seq(BOOLEAN) /\ events # <<>> /\ Len(events) = 2 /\ events[2] = FALSE
      BY <2>1, <3>1, Zenon
    <3>3. kept = FALSE
      BY <1>5, <2>1, Zenon
    <3> QED BY <3>2, <3>3, Zenon
  <2>2. CASE ~(press /\ i \in PageSwitches) /\ events = <<press>>
    <3>1. \A a \in BOOLEAN : <<a>> \in Seq(BOOLEAN) /\ <<a>> # <<>> /\ Len(<<a>>) = 1 /\ <<a>>[1] = a
      OBVIOUS
    <3>2. events \in Seq(BOOLEAN) /\ events # <<>> /\ Len(events) = 1 /\ events[1] = press
      BY <1>p, <2>2, <3>1, Zenon
    <3>3. kept = press
      BY <1>p, <1>5, <2>2
    <3> QED BY <3>2, <3>3, Zenon
  <2> QED BY <1>6, <2>1, <2>2
<1>8. Len(events) \in Nat \ {0} /\ DOMAIN events = 1 .. Len(events) /\ \A n \in 1 .. Len(events) : events[n] \in BOOLEAN
  BY <1>7, LenProperties, EmptySeq, ElementOfSeq
<1>9. /\ t \in Seq(SwitchSignals) /\ t # <<>> /\ \A n \in 1 .. Len(t) : t[n].switch = i
      /\ t[Len(t)].value = kept
  <2>1. t \in [1 .. Len(events) -> SwitchSignals]
    BY <1>3, <1>8 DEF SwitchSignals
  <2>2. t \in Seq(SwitchSignals) /\ Len(t) = Len(events)
    BY <1>8, <2>1
  <2>3. \A n \in 1 .. Len(events) : t[n].switch = i /\ t[n].value = events[n]
    BY <1>8
  <2> HIDE DEF t
  <2> QED BY <1>7, <1>8, <2>2, <2>3, EmptySeq
<1> HIDE DEF t
<1>10. /\ \A state : Heading(signals', state, i, kept)
       /\ \A state, k, v : k # i /\ Heading(signals, state, k, v) => Heading(signals', state, k, v)
  BY <1>4, <1>5, <1>9, HeadingConcat
<1>11. signals' \in Seq(SwitchSignals)
  BY <1>4, <1>5, <1>9, ConcatProperties
<1>12. AnalogTyped'
  BY <1>1, <1>11 DEF AnalogInv, AnalogTyped, WriterAt
<1>13. ResultAt'
  BY <1>1, <1>3, <1>5 DEF AnalogInv, ResultAt, Awaits
<1>14. \A j \in AnalogIndices : ForceAt(j)' /\ SwitchAt(j)'
  BY <1>1, <1>3, <1>5, <1>10 DEF AnalogInv, ForceAt, SwitchAt
<1>15. ASSUME NEW k \in TouchSwitches PROVE TouchAt(k)'
  <2>1. CASE k = i
    BY <1>10, <2>1 DEF TouchAt, kept
  <2>2. CASE k # i
    <3>1. TouchAt(k) /\ (k \in touched') = (k \in touched)
      BY <1>5, <2>2 DEF AnalogInv
    <3> QED BY <1>1, <1>5, <1>10, <2>2, <3>1 DEF TouchAt
  <2> QED BY <2>1, <2>2
<1> QED BY <1>12, <1>13, <1>14, <1>15 DEF AnalogInv

LEMMA AnalogStep == AnalogInv /\ [AnalogNext]_analogVars => AnalogInv'
<1> SUFFICES ASSUME AnalogInv, [AnalogNext]_analogVars PROVE AnalogInv'
  OBVIOUS
<1>1. CASE MoveControl \/ FreezeAnalog \/ ResumeAnalog \/ UNCHANGED analogVars
  <2>1. UNCHANGED <<signals, switch, hostForce, result, analogJob, touched, last, analogConfig, otherPresets, writer,
                    unheard, cutOff>>
    BY <1>1 DEF MoveControl, FreezeAnalog, ResumeAnalog, analogVars, analogState, settingsState, hostState, worldState,
                ghosts, switchVars
  <2>2. AnalogTyped'
    BY <2>1 DEF AnalogInv, AnalogTyped, WriterAt
  <2> QED BY <2>1, <2>2, AnalogStill
<1> QED BY <1>1, ScanKeepsAnalog, TurnKeepsAnalog, PublishKeepsAnalog, RefreshKeepsAnalog, WritesKeepAnalog,
           DeliverKeepsAnalog, TouchKeepsAnalog DEF AnalogNext, AnalogThread, World

LEMMA AnalogInvariant == AnalogSpec => []AnalogInv
BY AnalogStart, AnalogStep, PTL DEF AnalogSpec

\* Analog::publish_result(), publish_switch(), Touchscreen::process_switch() and the subscriber of
\* MidiIoSignal: in every order of turns, freezes, refreshes, writes and presets the host has the state of
\* every force sensor, and every switch that of its input or component, but those that missed a signal.
THEOREM AnalogHostFollows == AnalogSpec => []HostFollows
<1>1. ASSUME AnalogInv PROVE ForceReported
  BY <1>1 DEF AnalogInv, ForceAt, ForceReported, EnabledInputs
<1>2. ASSUME AnalogInv PROVE SwitchFollows
  <2> SUFFICES ASSUME signals = <<>>, result = NoResult
               PROVE  /\ \A i \in EnabledInputs(analogConfig) :
                            \/ analogConfig[i].type # "Switch" \/ SwitchIndexOf[i] \in cutOff
                            \/ switch[SwitchIndexOf[i]].pressed = (last[i].value = 1)
                      /\ \A i \in TouchSwitches : i \in cutOff \/ switch[i].pressed = (i \in touched)
    BY DEF SwitchFollows
  <2>1. \A state, k, v : Heading(signals, state, k, v) => state = v
    BY EmptySeq DEF Heading
  <2>2. NoResult.index = 0 /\ \A i \in AnalogIndices : i # 0
    BY AnalogAssumption DEF NoResult
  <2>3. ASSUME NEW i \in EnabledInputs(analogConfig)
        PROVE  \/ analogConfig[i].type # "Switch" \/ SwitchIndexOf[i] \in cutOff
               \/ switch[SwitchIndexOf[i]].pressed = (last[i].value = 1)
    <3>1. i \in AnalogIndices /\ analogConfig[i].enabled
      BY DEF EnabledInputs
    <3>2. SwitchAt(i) /\ result.index # i
      BY <1>2, <2>2, <3>1 DEF AnalogInv
    <3> QED BY <2>1, <3>1, <3>2 DEF SwitchAt
  <2>4. ASSUME NEW i \in TouchSwitches PROVE i \in cutOff \/ switch[i].pressed = (i \in touched)
    BY <1>2, <2>1 DEF AnalogInv, TouchAt
  <2> QED BY <2>3, <2>4
<1>3. AnalogInv => HostFollows
  BY <1>1, <1>2 DEF HostFollows
<1> QED BY <1>3, AnalogInvariant, PTL
=============================================================================
