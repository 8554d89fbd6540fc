-------------------------------- MODULE I2c --------------------------------
(***************************************************************************)
(* The I2C thread, its peripherals and the dispatcher's handlers           *)
(* (firmware/src/io/i2c).  The thread waits at the gate, and walks through *)
(* the registered peripherals: it probes for those that are not            *)
(* initialized and updates the others.  init() and update() of a driver    *)
(* are two steps each, with a transaction between them in which the        *)
(* dispatcher can run: it stores a setting and, for some, calls init() of  *)
(* the same driver, which is two steps as well.                            *)
(*                                                                         *)
(* Devices come and go, and a transaction may fail.  A device that is      *)
(* plugged in again has lost its registers; it is out for longer than one  *)
(* call of a driver lasts.                                                 *)
(***************************************************************************)
EXTENDS IoGate, Apds9960, Cap1188, Bno085, TimeOfFlight, Display

CONSTANTS
    ProbeInterval, \* DEVICE_PROBE_INTERVAL_MS
    Interval,      \* update_interval_ms() of each peripheral
    AddressCount,  \* size of i2c_addresses() of each peripheral
    Inputs,        \* what the devices may have to report
    Writes,        \* settings that a host may write: peripheral, setting and value
    Messages,      \* what the signals show on the display
    Presets,       \* texts of the numbers of presets, from 0
    MaxCalm        \* bound of calm

I2cThread == "i2c"
Never == 9
Drivers == {"apds9960", "cap1188", "bno085", "vl53l4cx", "vl53l5cx", "display"}

\* The display and the motion sensor hold back for a few milliseconds, a probe is due every second.  The APDS9960 has
\* one address; at a wrong one it would forgive its reads for longer than Settled allows.  No zone is held for as many
\* frames as are counted.
ASSUME I2cAssumption ==
    /\ I2cThread \in Workers
    /\ ProbeInterval \in Nat \ {0} /\ MaxCalm \in Nat
    /\ RefreshTime \in 0 .. ProbeInterval /\ OutputInterval \in 0 .. ProbeInterval
    /\ \A p \in Drivers : Interval[p] \in Nat \ {0} /\ AddressCount[p] \in Nat \ {0}
    /\ AddressCount["apds9960"] = 1
    /\ \A s \in DOMAIN HoldFrames : HoldFrames[s] < Never
    /\ Inputs["vl53l5cx"] \subseteq [AllZones -> Int]

VARIABLES
    order,     \* the registered peripherals, in this order
    now,       \* k_uptime_get(), in ticks that are longer than an iteration
    ran,       \* the thread has run in this tick
    turn,      \* the peripheral that is served; 0 outside of an iteration
    pc,        \* the call of the driver the thread is in: "idle", "init" or "read"
    work,      \* what this call has read so far
    sched,     \* PeripheralState of each peripheral
    driver,    \* the state of each driver
    settings,  \* the section of each peripheral in the database
    preset,    \* Database::current_preset()
    handler,   \* the peripheral whose init() the dispatcher is in, or "none"
    device,    \* each device: whether and where it is, its registers, its input, another chip at one of its addresses
    screen,    \* what the display shows
    told,      \* what the OSC host was told last, by peripheral and topic
    calm,      \* ticks that each device has been there, undisturbed, with I/O running
    mixed,     \* peripherals whose init() on both threads overlapped, with different settings
    unnoticed, \* peripherals whose device was away without the driver finding out
    forgotten, \* pads that the host believes touched and the driver, after an init(), does not
    owed,      \* elements that were drawn and are not on the screen any more, or changed while they were drawn
    silent,    \* frames since each source zone was measured well
    left       \* what is left of the budgets

threadVars == <<ran, turn, pc, work>>
ghosts == <<calm, mixed, unnoticed, forgotten, owed, silent>>
gateVars == <<frozen, tokens, gives, worker>>
i2cVars == <<gateVars, order, now, threadVars, sched, driver, settings, preset, handler, device, screen, told, ghosts, left>>

Peripherals == {order[i] : i \in DOMAIN order}
Spend(what) == left[what] > 0 /\ left' = [left EXCEPT ![what] = @ - 1]
NoRegisters == [off |-> TRUE]

-----------------------------------------------------------------------------
\* The drivers, by peripheral.

FreshDriver(p) ==
    CASE p = "apds9960" -> ApdsFresh [] p = "cap1188" -> CapFresh [] p = "bno085" -> BnoFresh
      [] p = "vl53l4cx" -> L4Fresh [] p = "vl53l5cx" -> L5Fresh [] p = "display" -> DisplayFresh
Fields(p) ==
    CASE p = "apds9960" -> DOMAIN ApdsDefaults [] p = "cap1188" -> DOMAIN CapDefaults [] p = "bno085" -> DOMAIN BnoDefaults
      [] p = "vl53l4cx" -> DOMAIN L4Defaults [] p = "vl53l5cx" -> DOMAIN L5Defaults [] p = "display" -> DOMAIN DisplayDefaults
Start(p, v, s) ==
    CASE p = "apds9960" -> ApdsStart(v) [] p = "cap1188" -> CapStart(v) [] p = "bno085" -> BnoStart(v)
      [] p = "vl53l4cx" -> L4Start(v) [] p = "vl53l5cx" -> L5Start(v) [] p = "display" -> DisplayStart(v, s)
Registers(p, s) ==
    CASE p = "apds9960" -> ApdsRegisters(s) [] p = "cap1188" -> CapRegisters(s) [] p = "bno085" -> BnoRegisters(s)
      [] p = "vl53l4cx" -> L4Registers(s) [] p = "vl53l5cx" -> L5Registers(s) [] p = "display" -> DisplayRegisters(s)
Ready(p, v, s) ==
    CASE p = "apds9960" -> ApdsReady(v) [] p = "cap1188" -> CapReady(v) [] p = "bno085" -> BnoReady(v)
      [] p = "vl53l4cx" -> L4Ready(v) [] p = "vl53l5cx" -> L5Ready(v)
      [] p = "display" -> DisplayReady(v, s, Presets[preset + 1], now)
Deinit(p, v) ==
    CASE p = "apds9960" -> ApdsDeinit(v) [] p = "cap1188" -> CapDeinit(v) [] p = "bno085" -> BnoDeinit(v)
      [] p = "vl53l4cx" -> L4Deinit(v) [] p = "vl53l5cx" -> L5Deinit(v) [] p = "display" -> DisplayDeinit(v)
Accepts(p, k, value) ==
    CASE p = "apds9960" -> ApdsAccepts(k, value) [] p = "cap1188" -> CapAccepts(k, value)
      [] p = "bno085" -> BnoAccepts(k, value) [] p = "vl53l4cx" -> L4Accepts(k, value)
      [] p = "vl53l5cx" -> L5Accepts(k, value) [] OTHER -> TRUE
Handling(p, k) ==
    CASE p = "apds9960" -> ApdsHandling(k) [] p = "cap1188" -> CapHandling(k) [] p = "bno085" -> BnoHandling(k)
      [] p = "vl53l4cx" -> L4Handling(k) [] p = "vl53l5cx" -> L5Handling(k) [] p = "display" -> DisplayHandling(k)
Refreshed(p) ==
    CASE p = "apds9960" -> ApdsRefresh(driver[p], settings[p]) [] p = "cap1188" -> CapRefresh(driver[p])
      [] p = "vl53l4cx" -> L4Refresh(driver[p], settings[p]) [] OTHER -> <<>>

\* deinit() of these drivers writes to the device: it stops.
Stops == {"apds9960", "vl53l4cx", "vl53l5cx"}

\* What update() makes of a first transaction that failed, as its result says.
Unread(p, v, s) ==
    CASE p = "apds9960" -> (LET lost == ApdsFail(v, 1) IN [v |-> lost, ok |-> lost.up])
      [] p = "vl53l4cx" -> [v |-> [v EXCEPT !.up = FALSE], ok |-> FALSE]
      [] p \in {"cap1188", "vl53l5cx"} -> [v |-> v, ok |-> FALSE]
      [] OTHER -> [v |-> v, ok |-> TRUE]

Answering(done, ok) == [v |-> done.v, out |-> done.out, ok |-> ok]
\* The rest of update() after the first transaction, whose last one was answered or not.
Process(p, v, s, answered) ==
    CASE p = "apds9960" -> ApdsProcess(v, work.was, s, work.sample, answered, now)
      [] p = "cap1188" -> Answering(CapProcess(v, work.sample), answered)
      [] p = "bno085" -> Answering(BnoProcess(v, s, work.sample.report, work.sample.value, now), TRUE)
      [] p = "vl53l4cx" -> (LET done == L4Process(v, s, work.sample)
                            IN [v |-> [done.v EXCEPT !.up = @ /\ answered], out |-> done.out, ok |-> v.up /\ answered])
      [] p = "vl53l5cx" -> Answering(L5Process(v, s, work.sample, now), v.up)
      [] p = "display" -> [v |-> DisplayProcess(v, work.sample, now), out |-> <<>>, ok |-> TRUE]

-----------------------------------------------------------------------------
\* The bus.

\* A device that is spoken to at its address answers, unless the transaction fails.
Answers(p) == device[p].present /\ device[p].at = driver[p].address
Outcome(p, answered) ==
    \/ answered = Answers(p) /\ UNCHANGED <<left, calm>>
    \/ ~answered /\ Answers(p) /\ Spend("glitches") /\ calm' = [calm EXCEPT ![p] = 0]

\* find_address(): the first address that is acknowledged, by whatever chip.
Acknowledged(p) == {a \in 1 .. AddressCount[p] : (device[p].present /\ device[p].at = a) \/ device[p].stranger = a}
Found(p) == CHOOSE a \in Acknowledged(p) : \A b \in Acknowledged(p) : a <= b

\* What the device holds ready; measurements only come when it was set up.
Configured(p) == device[p].regs # NoRegisters
Samples(p) ==
    CASE p = "apds9960" -> {[valid |-> IF Configured(p) THEN device[p].regs.engines ELSE {}, values |-> device[p].input.values,
                             fifo |-> IF Configured(p) /\ "gesture" \in device[p].regs.engines THEN device[p].input.fifo ELSE <<>>]}
      [] p = "cap1188" -> {device[p].input}
      [] p = "bno085" -> {[report |-> r, value |-> device[p].input[r]] : r \in IF Configured(p) THEN device[p].regs.reports ELSE {}}
      [] OTHER -> IF Configured(p) THEN {device[p].input} ELSE {}

-----------------------------------------------------------------------------
\* Ghosts of an init() that ended well, of what was told, and of the screen.

\* Elements that count as drawn, and those whose text changes before their drawing is over.
DrawnOf(v) == {e \in Elements : ~v.elements[e].change \/ e \in work.drawn}
Overtaken(v) == {e \in work.drawn : v.elements[e].text # driver["display"].elements[e].text}
Wiped(v) == {e \in DrawnOf(v) : v.elements[e].text # Blank}

\* The screen is cleared if it is there; if it is not, what was drawn in another layout stays.
ScreenReady(v, cfg, answered) ==
    /\ screen' = IF answered THEN ClearScreen ELSE screen
    /\ owed' = owed \cup Overtaken(Ready("display", v, cfg))
                    \cup (IF answered THEN Wiped(v)
                          ELSE IF v.greeted /\ v.resolution # cfg.resolution THEN DrawnOf(v) ELSE {})

\* A driver is ready: the device has the registers made of cfg.
Initialized(p, cfg, answered, overlapped) ==
    /\ driver' = [driver EXCEPT ![p] = Ready(p, @, cfg)]
    /\ device' = [device EXCEPT ![p].regs = IF answered THEN Registers(p, cfg) ELSE @]
    /\ IF p = "display" THEN ScreenReady(driver[p], cfg, answered) ELSE UNCHANGED <<screen, owed>>
    /\ mixed' = IF overlapped THEN mixed ELSE mixed \ {p}
    /\ unnoticed' = IF answered THEN unnoticed \ {p} ELSE unnoticed \cup {p}
    /\ forgotten' = IF p = "cap1188" THEN {topic \in DOMAIN told[p] : told[p][topic]} ELSE forgotten
    /\ silent' = IF p = "vl53l5cx" THEN [z \in AllZones |-> Never] ELSE silent

Learned(known, out) == [topic \in DOMAIN known \cup DOMAIN out |-> IF topic \in DOMAIN out THEN out[topic] ELSE known[topic]]
Tell(p, out) ==
    /\ told' = [told EXCEPT ![p] = Learned(@, out)]
    /\ forgotten' = IF p = "cap1188" THEN forgotten \ DOMAIN out ELSE forgotten

\* The devices after deinit() of a driver
Stopped(p, v) == [device EXCEPT ![p].regs = IF p \in Stops /\ v.up /\ Answers(p) THEN NoRegisters ELSE @]

\* Mutant: the thread does not learn that the driver is down.
DroppedUnknown(p, v) ==
    /\ driver' = [driver EXCEPT ![p] = Deinit(p, v)]
    /\ sched' = [sched EXCEPT ![p] = [initialized |-> TRUE, probe |-> now + ProbeInterval, update |-> 0]]
    /\ device' = Stopped(p, v)
\* After a failed update(): deinit(), and the next probe in a while.
Dropped(p, v) ==
    /\ driver' = [driver EXCEPT ![p] = Deinit(p, v)]
    /\ sched' = [sched EXCEPT ![p] = [initialized |-> FALSE, probe |-> now + ProbeInterval, update |-> 0]]
    /\ device' = Stopped(p, v)

-----------------------------------------------------------------------------
\* The gate.  The freezes and the other threads are bounded.

FreezeIo == Freeze /\ ~frozen /\ Spend("freezes") /\ calm' = [p \in Peripherals |-> 0]
OtherThread(w) == w # I2cThread /\ Spend("iterations") /\ (Iterate(w) \/ Check(w) \/ Take(w)) /\ UNCHANGED calm
WaitUntilRunning == turn = 0 /\ ~ran /\ (Check(I2cThread) \/ Take(I2cThread)) /\ UNCHANGED <<left, calm>>
GateStep ==
    /\ \/ FreezeIo
       \/ ((frozen /\ Resume) \/ Give) /\ UNCHANGED <<left, calm>>
       \/ \E w \in Workers : OtherThread(w)
       \/ WaitUntilRunning
    /\ UNCHANGED <<order, now, threadVars, sched, driver, settings, preset, handler, device, screen, told, mixed, unnoticed,
                   forgotten, owed, silent>>

-----------------------------------------------------------------------------
\* The I2C thread.

NoWork == [drawn |-> {}]
Serving(p) == turn \in DOMAIN order /\ order[turn] = p
NextTurn == turn' = turn + 1 /\ pc' = "idle" /\ work' = NoWork
Unheard(p) == IF p = "vl53l5cx" THEN [z \in AllZones |-> Never] ELSE silent

\* update_peripherals(): the flag is checked once more.
BeginIteration ==
    /\ worker[I2cThread] = "work" /\ turn = 0
    /\ turn' = IF frozen THEN Len(order) + 1 ELSE 1
    /\ UNCHANGED <<pc, work, sched, driver, device, left, told, screen, ghosts>>

\* init() up to its first transaction.  These sensors are reset first.
Resets == {"bno085", "vl53l4cx", "vl53l5cx"}
Begun(p, address, cfg) ==
    /\ driver' = [driver EXCEPT ![p] = [Start(p, @, cfg) EXCEPT !.address = address]]
    /\ device' = [device EXCEPT ![p].regs = IF p \in Resets /\ device[p].present /\ device[p].at = address THEN NoRegisters ELSE @]

Probe(p) ==
    /\ ~sched[p].initialized /\ now >= sched[p].probe
    /\ sched' = [sched EXCEPT ![p].probe = now + ProbeInterval]
    /\ IF Acknowledged(p) = {}
       THEN NextTurn /\ UNCHANGED <<driver, device>>
       ELSE /\ pc' = "init" /\ work' = [drawn |-> {}, cfg |-> settings[p]]
            /\ Begun(p, Found(p), settings[p])
            /\ UNCHANGED turn
    /\ UNCHANGED <<left, told, screen, ghosts>>

FinishInit(p) ==
    \E answered \in BOOLEAN :
        /\ Outcome(p, answered)
        /\ IF (IF p = "display" THEN Supported(work.cfg) ELSE answered)
           THEN /\ Initialized(p, work.cfg, answered, handler = p \/ work.cfg # settings[p])
                /\ sched' = [sched EXCEPT ![p].initialized = TRUE, ![p].update = now]
           ELSE /\ driver' = [driver EXCEPT ![p] = Deinit(p, @)]
                /\ device' = Stopped(p, driver[p])
                /\ sched' = [sched EXCEPT ![p].update = now]
                /\ silent' = Unheard(p)
                /\ UNCHANGED <<screen, owed, mixed, unnoticed, forgotten>>
        /\ NextTurn
        /\ UNCHANGED told

\* Nothing is due.
Pass(p) ==
    /\ now < IF sched[p].initialized THEN sched[p].update ELSE sched[p].probe
    /\ sched' = [sched EXCEPT ![p].probe = IF now >= @ THEN now + ProbeInterval ELSE @]
    /\ NextTurn
    /\ UNCHANGED <<driver, device, left, told, screen, ghosts>>

\* An update is due; its time and that of the next probe are set before the call.
UpdateDue(p) == sched[p].initialized /\ now >= sched[p].update
Rescheduled(p) == [sched EXCEPT ![p].probe = IF now >= @ THEN now + ProbeInterval ELSE @, ![p].update = now + Interval[p]]

\* update() of a driver that is not initialized
UpdateDown(p) ==
    /\ UpdateDue(p) /\ ~driver[p].up
    /\ Dropped(p, driver[p])
    /\ silent' = Unheard(p)
    /\ NextTurn
    /\ UNCHANGED <<left, calm, told, screen, mixed, unnoticed, forgotten, owed>>

\* The first transaction, if there is one before the data.
ReadsFirst(p) == IF p = "apds9960" THEN ApdsNeedsStatus(settings[p]) ELSE p # "display"
FirstRead(p, answered) == IF ReadsFirst(p) THEN Outcome(p, answered) ELSE answered /\ UNCHANGED <<left, calm>>

UpdateUnread(p) ==
    /\ UpdateDue(p) /\ driver[p].up /\ p # "display"
    /\ FirstRead(p, FALSE)
    /\ LET result == Unread(p, driver[p], settings[p])
       IN IF result.ok
          THEN /\ driver' = [driver EXCEPT ![p] = result.v] /\ sched' = Rescheduled(p)
               /\ UNCHANGED <<device, silent>>
          ELSE Dropped(p, result.v) /\ silent' = Unheard(p)
    /\ NextTurn
    /\ UNCHANGED <<told, screen, mixed, unnoticed, forgotten, owed>>

\* What was read is processed after a later transaction, unless there is nothing.
UpdateRead(p) ==
    /\ UpdateDue(p) /\ driver[p].up /\ p # "display"
    /\ FirstRead(p, TRUE)
    /\ sched' = Rescheduled(p)
    /\ IF Samples(p) = {}
       THEN NextTurn /\ UNCHANGED device
       ELSE /\ pc' = "read"
            /\ \E sample \in Samples(p) : work' = [drawn |-> {}, sample |-> sample, was |-> settings[p]]
            /\ device' = IF p = "apds9960" THEN [device EXCEPT ![p].input.fifo = <<>>] ELSE device
            /\ UNCHANGED turn
    /\ UNCHANGED <<driver, told, screen, mixed, unnoticed, forgotten, owed, silent>>

\* update() of the display up to the last drawing; without one there is no transaction.
UpdateDisplay(p) ==
    /\ p = "display" /\ UpdateDue(p) /\ driver[p].up
    /\ sched' = Rescheduled(p)
    /\ IF RefreshDue(driver[p], now)
       THEN LET expired == Expire(driver[p], now)
                drawn == Pending(expired)
            IN \E answered \in BOOLEAN :
                 /\ IF drawn = {} THEN answered = FALSE /\ UNCHANGED <<left, calm>> ELSE Outcome(p, answered)
                 /\ driver' = [driver EXCEPT ![p] = expired]
                 /\ screen' = IF answered THEN Draw(expired, screen) ELSE screen
                 /\ owed' = IF answered THEN owed \ drawn ELSE owed \cup drawn
                 /\ pc' = "read" /\ work' = [drawn |-> drawn, sample |-> drawn]
                 /\ UNCHANGED turn
       ELSE NextTurn /\ UNCHANGED <<driver, screen, owed, left, calm>>
    /\ UNCHANGED <<device, told, mixed, unnoticed, forgotten, silent>>

\* The last transaction and what follows from it.
ReadsLast(p) == p \in {"apds9960", "cap1188", "vl53l4cx"}
Heard(p) ==
    LET width == GridWidth[settings[p].resolution]
    IN [z \in AllZones |-> IF z \notin Zones(width) THEN Never
                           ELSE IF L5Usable(work.sample[z], settings[p]) THEN 0
                           ELSE IF silent[z] < Never THEN silent[z] + 1 ELSE Never]
FinishUpdate(p) ==
    \E answered \in BOOLEAN :
        LET done == Process(p, driver[p], settings[p], answered)
        IN /\ IF ReadsLast(p) THEN Outcome(p, answered) ELSE answered /\ UNCHANGED <<left, calm>>
           /\ Tell(p, done.out)
           /\ IF done.ok
              THEN /\ driver' = [driver EXCEPT ![p] = done.v]
                   /\ silent' = IF p = "vl53l5cx" THEN Heard(p) ELSE silent
                   /\ UNCHANGED <<sched, device>>
              ELSE Dropped(p, done.v) /\ silent' = Unheard(p)
           /\ NextTurn
           /\ UNCHANGED <<screen, mixed, unnoticed, owed>>

\* The call that the thread is in, or the next one.
ServeStep ==
    \E p \in Peripherals :
        /\ Serving(p)
        /\ CASE pc = "init" -> FinishInit(p)
             [] pc = "read" -> FinishUpdate(p)
             [] OTHER -> Probe(p) \/ Pass(p) \/ UpdateDown(p) \/ UpdateUnread(p) \/ UpdateRead(p) \/ UpdateDisplay(p)

\* All peripherals were served; before the thread is started, by I2c::init().
EndIteration ==
    /\ turn = Len(order) + 1
    /\ turn' = 0 /\ ran' = TRUE
    /\ IF worker[I2cThread] = "work" THEN Iterate(I2cThread) ELSE UNCHANGED gateVars
    /\ UNCHANGED <<pc, work, sched, driver, device, left, told, screen, ghosts>>

ThreadStep ==
    /\ \/ EndIteration
       \/ (BeginIteration \/ ServeStep) /\ UNCHANGED <<ran, gateVars>>
    /\ UNCHANGED <<order, now, settings, preset, handler>>

-----------------------------------------------------------------------------
\* The dispatcher.  While it is in an init() it does nothing else.

\* The texts of the display change; those that are being drawn are not drawn again.
Displayed(v) ==
    /\ driver' = [driver EXCEPT !["display"] = v]
    /\ owed' = owed \cup Overtaken(v)

\* sys_config_set() of a driver
WriteSetting(write) ==
    LET p == write.peripheral
        stored == [settings EXCEPT ![p][write.setting] = write.value]
    IN /\ handler = "none" /\ p \in Peripherals /\ Accepts(p, write.setting, write.value)
       /\ Spend("writes") /\ calm' = [calm EXCEPT ![p] = 0]
       /\ settings' = stored
       /\ IF Handling(p, write.setting) = "init"
          THEN /\ handler' = p
               /\ Begun(p, driver[p].address, stored[p])
               /\ mixed' = IF Serving(p) /\ pc = "init" THEN mixed \cup {p} ELSE mixed
               /\ UNCHANGED <<silent, owed>>
          ELSE /\ CASE p = "display" -> Displayed(DisplayWritten(driver[p], write.setting, write.value, now))
                    [] Handling(p, write.setting) = "reset" ->
                        /\ driver' = [driver EXCEPT ![p] = IF p = "bno085" THEN BnoForget(@) ELSE L5Reset(@)]
                        /\ UNCHANGED owed
                    [] OTHER -> UNCHANGED <<driver, owed>>
               /\ silent' = Unheard(p)
               /\ UNCHANGED <<handler, device, mixed>>
       /\ UNCHANGED <<preset, screen, told, unnoticed, forgotten>>

\* The init() that sys_config_set() calls is over.  Nobody calls deinit() when it failed.
FinishHandlerInit ==
    /\ handler # "none"
    /\ \E answered \in BOOLEAN :
        /\ Outcome(handler, answered)
        /\ IF (IF handler = "display" THEN Supported(settings[handler]) ELSE answered)
           THEN Initialized(handler, settings[handler], answered, Serving(handler) /\ pc = "init")
           ELSE UNCHANGED <<driver, device, screen, owed, mixed, unnoticed, forgotten, silent>>
    /\ handler' = "none"
    /\ UNCHANGED <<settings, preset, told>>

\* A forced refresh
RefreshHost(p) ==
    /\ handler = "none" /\ Spend("refreshes")
    /\ Tell(p, Refreshed(p))
    /\ UNCHANGED <<driver, settings, preset, handler, device, screen, calm, mixed, unnoticed, owed, silent>>

\* UmpSignal and MidiIoSignal on the display
ShowOnDisplay(message) ==
    /\ handler = "none" /\ "display" \in Peripherals /\ Spend("messages")
    /\ calm' = [calm EXCEPT !["display"] = 0]
    /\ Displayed(ShowMessage(driver["display"], message.typeElement, message.valueElement, message, now))
    /\ UNCHANGED <<settings, preset, handler, device, screen, told, mixed, unnoticed, forgotten, silent>>

\* SystemEvent::PresetChanged on the display, where presets count from 1
ChangePreset(value) ==
    /\ handler = "none" /\ "display" \in Peripherals /\ Spend("messages")
    /\ calm' = [calm EXCEPT !["display"] = 0]
    /\ preset' = value
    /\ Displayed(SetText(driver["display"], "preset", Presets[value + 2], now))
    /\ UNCHANGED <<settings, handler, device, screen, told, mixed, unnoticed, forgotten, silent>>

DispatcherStep ==
    /\ \/ \E write \in Writes : WriteSetting(write)
       \/ FinishHandlerInit
       \/ \E p \in Peripherals : RefreshHost(p)
       \/ \E message \in Messages : ShowOnDisplay(message)
       \/ \E value \in 0 .. Len(Presets) - 2 : ChangePreset(value)
    /\ UNCHANGED <<gateVars, order, now, threadVars, sched>>

-----------------------------------------------------------------------------
\* The outside.

InCall(p) == handler = p \/ (Serving(p) /\ pc # "idle")

Unplug(p) ==
    /\ device[p].present /\ Spend("plugs")
    /\ device' = [device EXCEPT ![p].present = FALSE]
    /\ calm' = [calm EXCEPT ![p] = 0]
    /\ UNCHANGED <<now, ran, screen, mixed, unnoticed, owed>>

\* The device comes back at one of its addresses; the screen of a display is dark.
Plug(p, address) ==
    /\ ~device[p].present /\ ~InCall(p) /\ Spend("plugs")
    /\ device' = [device EXCEPT ![p].present = TRUE, ![p].at = address, ![p].regs = NoRegisters]
    /\ IF p = "display" THEN screen' = ClearScreen /\ owed' = owed \cup Wiped(driver[p]) ELSE UNCHANGED <<screen, owed>>
    /\ unnoticed' = IF driver[p].up THEN unnoticed \cup {p} ELSE unnoticed
    /\ calm' = [calm EXCEPT ![p] = 0]
    /\ UNCHANGED <<now, ran, mixed>>

Stimulate(p, input) ==
    /\ device[p].input # input /\ Spend("stimuli")
    /\ device' = [device EXCEPT ![p].input = input]
    /\ calm' = [calm EXCEPT ![p] = 0]
    /\ UNCHANGED <<now, ran, screen, mixed, unnoticed, owed>>

\* A tick is longer than an iteration of the thread and all it needs to go on.
Tick ==
    /\ turn = 0 /\ gives = 0 /\ Spend("ticks")
    /\ ran \/ (worker[I2cThread] = "take" /\ tokens = 0)
    /\ now' = now + 1 /\ ran' = FALSE
    /\ calm' = [p \in Peripherals |-> IF device[p].present /\ handler # p /\ ~frozen THEN Min({MaxCalm, calm[p] + 1}) ELSE 0]
    /\ UNCHANGED <<device, screen, mixed, unnoticed, owed>>

OutsideStep ==
    /\ \/ \E p \in Peripherals :
            \/ Unplug(p)
            \/ \E address \in 1 .. AddressCount[p] : Plug(p, address)
            \/ \E input \in Inputs[p] : Stimulate(p, input)
       \/ Tick
    /\ UNCHANGED <<gateVars, order, turn, pc, work, sched, driver, settings, preset, handler, told, forgotten, silent>>

I2cNext == GateStep \/ ThreadStep \/ DispatcherStep \/ OutsideStep

\* An instance says which peripherals, settings and devices there are, and how often things may happen.
Installed ==
    /\ order \in Seq(Drivers)
    /\ settings = [p \in Peripherals |-> settings[p]] /\ \A p \in Peripherals : DOMAIN settings[p] = Fields(p)
    /\ \A p \in Peripherals : (\A k \in Fields(p) : Accepts(p, k, settings[p][k])) /\ device[p].input \in Inputs[p]
    /\ device = [p \in Peripherals |->
                    [present |-> device[p].present, at |-> device[p].at, regs |-> NoRegisters, input |-> device[p].input,
                     stranger |-> device[p].stranger]]
    /\ \A p \in Peripherals : device[p].present \in BOOLEAN /\ device[p].at \in 1 .. AddressCount[p] /\ device[p].stranger \in Nat

\* I2c::init() serves all peripherals before the thread is started.
I2cInit ==
    /\ Init /\ Installed
    /\ now = 0 /\ ran = FALSE /\ turn = 1 /\ pc = "idle" /\ work = NoWork
    /\ sched = [p \in Peripherals |-> [initialized |-> FALSE, probe |-> 0, update |-> 0]]
    /\ driver = [p \in Peripherals |-> FreshDriver(p)]
    /\ preset = 0 /\ handler = "none"
    /\ screen = ClearScreen
    /\ told = [p \in Peripherals |-> <<>>]
    /\ calm = [p \in Peripherals |-> 0]
    /\ mixed = {} /\ unnoticed = {} /\ forgotten = {} /\ owed = {}
    /\ silent = [z \in AllZones |-> Never]

I2cSpec == I2cInit /\ [][I2cNext]_i2cVars

-----------------------------------------------------------------------------
\* Properties.

\* Long enough after the last disturbance for a driver to be found down, and its device to be probed for.
Settled(p) == calm[p] > ProbeInterval + Interval[p] + 1

\* A device that was away, that failed a transaction or that was set up while it was away is initialized again and
\* its driver up: not one behind another chip, which is the only one that is asked, and no display that there is no
\* driver for.  What its registers hold is SettingsReachDevice, which excepts a device whose absence went unnoticed.
SensorsHeal ==
    \A p \in Peripherals :
        Settled(p) => \/ sched[p].initialized /\ driver[p].up
                      \/ p # "display" /\ \E a \in Acknowledged(p) : a < device[p].at
                      \/ p = "display" /\ ~Supported(settings[p])

\* The registers of a device follow from the settings of now, whatever failed on the way.  Excepted are two
\* init() that overlapped, and a device that was away without being missed.
SettingsReachDevice ==
    \A p \in Peripherals \ (mixed \cup unnoticed) :
        Settled(p) /\ driver[p].up => device[p].regs = Registers(p, settings[p])

\* The host knows what the sensor measures: each pad, but for those that were forgotten by an init(), and the
\* outputs of the only report that is sent when nothing smooths it.
HostUpToDate ==
    /\ "cap1188" \in Peripherals /\ Settled("cap1188") /\ driver["cap1188"].up =>
        \A pad \in Pads :
            LET topic == <<"touch", pad>>
                known == topic \in DOMAIN told["cap1188"] /\ told["cap1188"][topic]
            IN topic \notin forgotten => (known <=> pad \in device["cap1188"].input)
    /\ "bno085" \in Peripherals \ (mixed \cup unnoticed) /\ Settled("bno085") /\ driver["bno085"].up =>
        LET reports == BnoRegisters(settings["bno085"]).reports
        IN Cardinality(reports) = 1 /\ settings["bno085"].smoothing = "off" =>
            \A report \in reports : \A output \in BnoOutputs(report) :
                settings["bno085"][output] => /\ output \in DOMAIN told["bno085"]
                                              /\ told["bno085"][output] = device["bno085"].input[report]

\* Each zone of the sensor that was measured well not too many frames ago has a place of its own in the grid,
\* whatever the orientation, and no other zone has.
ZonesAccounted ==
    "vl53l5cx" \in Peripherals =>
        Cardinality({z \in AllZones : driver["vl53l5cx"].frames.grid[z] > 0})
            = Cardinality({z \in AllZones : silent[z] <= HoldFrames[settings["vl53l5cx"].smoothing]})

\* What was drawn stays on the screen, where each element has a place of its own, and what changed is drawn, but for
\* the elements that changed while they were drawn or were wiped by init().
ScreenShows ==
    "display" \in Peripherals =>
        LET v == driver["display"]
        IN /\ v.resolution = "128x64" =>
                \A e \in Elements \ owed : ~v.elements[e].change => screen[e] = v.elements[e].text
           /\ v.up /\ Settled("display") /\ pc = "idle" => Pending(v) = {}
=============================================================================
