-------------------------------- MODULE Midi --------------------------------
(***************************************************************************)
(* The MIDI protocol: the transports (protocol/midi/hwa/hw, deps.h) and    *)
(* Midi (midi.cpp), which sends what the inputs and System publish, reads  *)
(* what the transports receive and routes one transport to another.        *)
(*                                                                         *)
(* The dispatcher is a cooperative thread: a handler is one action, and    *)
(* the other threads go on when the bus is empty.  Interrupts and          *)
(* Bluetooth callbacks run at any moment.  A packet is a record with a     *)
(* number; packets are counted where only their presence matters.          *)
(***************************************************************************)
EXTENDS Naturals, SequencesExt

CONSTANTS
    Presets,       \* the settings of every preset, a set of sequences
    RouteOrder,    \* the routes <<source, destination>> in the order of setup_thru()
    Supported,     \* the transports of the target
    Writes,        \* what a SysEx request writes: [setting, value], [thru, value], a preset, or nothing
    Channels, OmniChannel, \* MIDI_CHANNEL_COUNT, OMNI_CHANNEL
    MessageChannels, \* the channels the inputs send on
    Fragments,     \* packets of a SysEx response
    BurstCount, BurstSize, \* USB_UMP_BURST_PACKET_COUNT, USB_BURST_MAX_SIZE
    RxCapacity,    \* RX_PACKET_COUNT and the buffers of the other transports
    Tempos,        \* tempos, larger than 0
    Budgets        \* how often the environment acts, by kind

Transports == {"usb", "din", "ble"}
Routes == ToSet(RouteOrder)
MidiSettings == [DinEnabled : BOOLEAN, SendMidiClockDin : BOOLEAN, thru : SUBSET Routes, BleEnabled : BOOLEAN,
                 UseGlobalChannel : BOOLEAN, GlobalChannel : 1 .. OmniChannel]

ASSUME MidiAssumption ==
    /\ RouteOrder \in Seq(Transports \X Transports)
    /\ Presets \subseteq Seq(MidiSettings) \ {<<>>}
    /\ \A w \in Writes :
          CASE w.setting \in {"DinEnabled", "SendMidiClockDin", "BleEnabled", "UseGlobalChannel"} -> w.value \in BOOLEAN
            [] w.setting = "thru" -> w.route \in Routes /\ w.value \in BOOLEAN
            [] w.setting = "preset" -> \A p \in Presets : w.value \in DOMAIN p
            [] OTHER -> w.setting \in {"GlobalChannel", "none"}
    /\ {Channels, Fragments, BurstCount} \subseteq Nat \ {0}
    /\ BurstSize >= 2 /\ Tempos # {} /\ 0 \notin Tempos

VARIABLES
    preset, stored,   \* the selected preset, the settings of each
    bpm, timer,       \* the tempo; the tempo of _clock_timer, 0 when it is stopped
    din,              \* [on, loopback, hardware]: SerialMidi and HwaSerialHw
    routes,           \* the routes that are registered
    ble,              \* [on, ready] of HwaBleHw
    central,          \* ble_service: [known, connected, notify, last]
    burst,            \* [active, packets] of Midi
    bus,              \* signals the dispatcher has not handled
    usbReady, wire, lost, \* USB: ready, the packets that were written, and those that were not
    published,        \* ghost: the number of packets made for USB
    rx, raised,       \* by transport: packets that wait, and the poll signal
    reader,           \* the MIDI thread: [at, from]
    refresh,          \* the forced refresh of System: "idle", "burst"
    frozen, budget,
    stale             \* ghost: BLE was switched on while a central was subscribed, which has not changed since

settingState == <<preset, stored>>
clockState == <<bpm, timer>>
routeState == <<din, routes>>
bleState == <<ble, central, stale>>
txState == <<burst, bus, wire, lost, published>>
rxState == <<rx, raised>>
otherState == <<usbReady, reader, refresh, frozen>>
vars == <<settingState, clockState, routeState, bleState, txState, rxState, otherState, budget>>

Spend(what) == budget[what] > 0 /\ budget' = [budget EXCEPT ![what] = @ - 1]
Settings == stored[preset]
Quiet == bus = <<>>
Pending(kind) == \E i \in DOMAIN bus : bus[i].kind = kind

\* UsbMidi is initialised once and for all; the others follow their settings.
Initialized(t) == CASE t = "usb" -> TRUE [] t = "din" -> din.on [] t = "ble" -> ble.on

----------------------------------------------------------------------------
(* Sending *)

Voice == [size |-> 1, last |-> TRUE]
Numbered(packets) ==
    [i \in DOMAIN packets |-> [n |-> published + i, size |-> packets[i].size, last |-> packets[i].last]]
\* A SysEx response in as many packets as it takes.
Response == [i \in 1 .. Fragments |-> [size |-> 2, last |-> i = Fragments]]
\* send_channel_voice(): one packet, or one for every channel.
Packets(channel) == [c \in 1 .. (IF channel = OmniChannel THEN Channels ELSE 1) |-> Voice]
SendChannel(channel) == IF Settings.UseGlobalChannel THEN Settings.GlobalChannel ELSE channel

UsbSize(packets) == FoldSeq(LAMBDA p, total : p.size + total, 0, packets)
\* The bus, as HwaUsbHw::write() leaves the wire: nothing is written to a host that is not ready.
Tx == [buffer |-> burst.packets, wire |-> wire, lost |-> lost]
Write(tx, packets) ==
    IF usbReady THEN [tx EXCEPT !.wire = @ \o packets] ELSE [tx EXCEPT !.lost = @ \cup ToSet(packets)]
\* flush_usb_burst(): the buffer is empty afterwards, whatever became of the packets.
Flush(tx) == [Write(tx, tx.buffer) EXCEPT !.buffer = <<>>]
\* append_usb_burst_packet(): makes room first; a flush that fails drops the packet.
Append1(tx, packet) ==
    LET full == \/ Len(tx.buffer) = BurstCount
                \/ UsbSize(tx.buffer) + packet.size > BurstSize
        room == IF full THEN Flush(tx) ELSE tx
    IN IF full /\ tx.buffer # <<>> /\ ~usbReady
       THEN [room EXCEPT !.lost = @ \cup {packet}]
       ELSE [room EXCEPT !.buffer = Append(@, packet)]
SetTx(tx) == wire' = tx.wire /\ lost' = tx.lost

\* UsbUmpBurstSignal
HandleBurstPacket(signal) ==
    LET appended == Append1(Tx, signal.packet)
        sent == IF ~burst.active /\ signal.packet.last THEN Flush(appended) ELSE appended
    IN /\ signal.kind = "packet"
       /\ SetTx(sent)
       /\ burst' = [burst EXCEPT !.packets = sent.buffer]
       /\ bus' = Tail(bus)
       /\ UNCHANGED published

\* MidiIoSignal: to USB at once, or through the bus while a burst is on.  DIN and BLE are sent at once.
HandleMessage(signal) ==
    LET packets == Numbered(Packets(SendChannel(signal.channel)))
    IN /\ signal.kind = "message"
       /\ IF frozen THEN bus' = Tail(bus) /\ UNCHANGED <<wire, lost, published>>
          ELSE /\ published' = published + Len(packets)
               /\ IF burst.active
                  THEN /\ bus' = Tail(bus) \o [i \in DOMAIN packets |-> [kind |-> "packet", packet |-> packets[i]]]
                       /\ UNCHANGED <<wire, lost>>
                  ELSE bus' = Tail(bus) /\ SetTx(Write(Tx, packets))
       /\ UNCHANGED burst

HandleBurstStart(signal) ==
    /\ signal.kind = "start"
    /\ burst' = [active |-> TRUE, packets |-> <<>>]
    /\ bus' = Tail(bus)
    /\ UNCHANGED <<wire, lost, published>>

\* Mutant: what is in the buffer stays there.
StopWithoutFlush(signal) ==
    /\ signal.kind = "stop"
    /\ burst' = [burst EXCEPT !.active = FALSE]
    /\ bus' = Tail(bus)
    /\ UNCHANGED <<wire, lost, published>>
HandleBurstStop(signal) ==
    /\ signal.kind = "stop"
    /\ SetTx(Flush(Tx))
    /\ burst' = [active |-> FALSE, packets |-> <<>>]
    /\ bus' = Tail(bus)
    /\ UNCHANGED published

Send ==
    /\ ~Quiet
    /\ \E signal \in {Head(bus)} :
          \/ HandleBurstPacket(signal) \/ HandleMessage(signal)
          \/ HandleBurstStart(signal) \/ HandleBurstStop(signal)
    /\ UNCHANGED <<settingState, clockState, routeState, bleState, rxState, otherState, budget>>

----------------------------------------------------------------------------
(* The transports, on a record of what a setting can change *)

Config == [din |-> din, routes |-> routes, timer |-> timer, ble |-> ble, central |-> central,
           stale |-> stale, rx |-> rx, raised |-> raised]
SetConfig(c) ==
    /\ din' = c.din /\ routes' = c.routes /\ timer' = c.timer /\ ble' = c.ble
    /\ central' = c.central /\ stale' = c.stale /\ rx' = c.rx /\ raised' = c.raised

\* The poll signal is reset, and the queue where it is emptied.
Quieted(c, t, emptied) ==
    [c EXCEPT !.raised[t] = FALSE, !.rx[t] = IF emptied THEN 0 ELSE @]
DinInit(c) == Quieted([c EXCEPT !.din.on = TRUE], "din", TRUE)
DinDeinit(c) == Quieted([c EXCEPT !.din.on = FALSE], "din", FALSE)

ReadyNow(s) == s.connected /\ s.notify
\* Mutant: the last state is not kept.
PublishForgetful(c) ==
    IF ReadyNow(c.central) = c.central.last THEN c ELSE [c EXCEPT !.ble.ready = ReadyNow(c.central), !.stale = FALSE]
\* publish_ready_state() of ble_service: the handler is called when the state differs from the last one.
PublishReady(c) ==
    IF ReadyNow(c.central) = c.central.last THEN c
    ELSE [c EXCEPT !.central.last = ReadyNow(c.central), !.ble.ready = ReadyNow(c.central), !.stale = FALSE]
BleInit(c) ==
    IF c.ble.on THEN c
    ELSE LET reset == Quieted([c EXCEPT !.ble = [on |-> TRUE, ready |-> FALSE], !.stale = c.central.last], "ble", TRUE)
         IN IF c.central.known THEN PublishReady(reset)
            ELSE [reset EXCEPT !.central = [known |-> TRUE, connected |-> FALSE, notify |-> FALSE, last |-> FALSE]]
\* Advertising stops; a central that is connected stays connected.
BleDeinit(c) ==
    Quieted([c EXCEPT !.ble = [on |-> FALSE, ready |-> FALSE]], "ble", TRUE)

----------------------------------------------------------------------------
(* Routes *)

Destinations(c, source) == {d \in Transports : <<source, d>> \in c.routes}
\* apply_loopback_state() and set_loopback(): the UART is restarted with the new setting.
ApplyLoopback(c) ==
    LET wanted == Destinations(c, "din") = {"din"}
    IN IF wanted = c.din.loopback THEN c
       ELSE [c EXCEPT !.din.loopback = wanted, !.din.hardware = wanted,
                      !.rx["din"] = IF c.din.on /\ c.din.hardware # wanted THEN 0 ELSE @]
\* Mutant: loopback is looked at when a destination is added only.
UnregisterOnly(c, route) == [c EXCEPT !.routes = @ \ {route}]
Unregister(c, route) ==
    LET removed == [c EXCEPT !.routes = @ \ {route}]
    IN IF route[1] = "din" /\ route \in c.routes THEN ApplyLoopback(removed) ELSE removed
Register(c, route) ==
    LET added == [c EXCEPT !.routes = @ \cup {route}]
    IN IF route[1] = "din" THEN ApplyLoopback(added) ELSE added

\* setup_thru(): every route is removed, and added again when it is enabled, one after the other.
SetupRoute(c, settings, route) ==
    IF route \in settings.thru THEN Register(Unregister(c, route), route) ELSE Unregister(c, route)
SetupThru(c, settings) ==
    LET after[n \in 0 .. Len(RouteOrder)] == IF n = 0 THEN c ELSE SetupRoute(after[n - 1], settings, RouteOrder[n])
    IN after[Len(RouteOrder)]

SetupSerial(c, settings) ==
    LET switched == IF settings.DinEnabled THEN (IF c.din.on THEN c ELSE DinInit(c))
                    ELSE (IF c.din.on THEN DinDeinit(c) ELSE c)
    IN [switched EXCEPT !.timer = IF settings.SendMidiClockDin THEN bpm ELSE 0]
SetupBle(c, settings) ==
    IF settings.BleEnabled THEN BleInit(c) ELSE IF c.ble.on THEN BleDeinit(c) ELSE c
\* init(), at the start and for PresetChanged.
Init0(c, settings) == SetupThru(SetupBle(SetupSerial(c, settings), settings), settings)

----------------------------------------------------------------------------
(* Settings *)

\* din_available: a UART that is in use although DIN is disabled belongs to someone else.
DinAvailable == "din" \in Supported /\ (Settings.DinEnabled \/ ~din.on)
Accepted(w) ==
    CASE w.setting = "thru" -> {w.route[1], w.route[2]} \subseteq Supported
                               /\ ("din" \in {w.route[1], w.route[2]} => DinAvailable)
      [] w.setting = "DinEnabled" -> DinAvailable
      [] w.setting = "BleEnabled" -> "ble" \in Supported
      [] w.setting = "GlobalChannel" -> w.value \in 1 .. OmniChannel
      [] OTHER -> TRUE
Updated(w) ==
    CASE w.setting = "thru" -> [Settings EXCEPT !.thru = IF w.value THEN @ \cup {w.route} ELSE @ \ {w.route}]
      [] w.setting = "none" -> Settings
      [] OTHER -> [Settings EXCEPT ![w.setting] = w.value]

SwitchDin(c, settings) ==
    LET clock == IF settings.DinEnabled THEN bpm ELSE 0
        switched == IF settings.DinEnabled THEN DinInit(c) ELSE DinDeinit(c)
    IN IF settings.SendMidiClockDin THEN [switched EXCEPT !.timer = clock] ELSE switched
SwitchBle(c, settings) == IF settings.BleEnabled THEN BleInit(c) ELSE BleDeinit(c)

\* sys_config_set(), for a write that is accepted.
Applied(w, settings) ==
    CASE w.setting = "SendMidiClockDin" -> [Config EXCEPT !.timer = IF w.value THEN bpm ELSE 0]
      [] w.setting = "DinEnabled" -> SetupThru(SwitchDin(Config, settings), settings)
      [] w.setting = "BleEnabled" -> SetupThru(SwitchBle(Config, settings), settings)
      [] w.setting = "thru" -> SetupThru(Config, settings)
      [] OTHER -> Config

\* A SysEx request: System writes the setting or selects the preset, and answers over the bus.
HandleRequest ==
    /\ ~Quiet /\ Head(bus).kind = "request"
    /\ \E w \in Writes :
          LET answer == [i \in 1 .. Fragments |-> [kind |-> "packet", packet |-> Numbered(Response)[i]]]
          IN IF w.setting = "preset"
             THEN /\ preset' = w.value
                  /\ bus' = Tail(bus) \o <<[kind |-> "preset"]>> \o answer
                  /\ UNCHANGED <<stored, din, routes, timer, ble, central, stale, rx, raised>>
             ELSE /\ bus' = Tail(bus) \o answer
                  /\ IF Accepted(w)
                     THEN stored' = [stored EXCEPT ![preset] = Updated(w)] /\ SetConfig(Applied(w, Updated(w)))
                     ELSE UNCHANGED <<stored, din, routes, timer, ble, central, stale, rx, raised>>
                  /\ UNCHANGED preset
    /\ published' = published + Fragments
    /\ UNCHANGED <<bpm, burst, wire, lost, otherState, budget>>

ChangePreset ==
    /\ ~Quiet /\ Head(bus).kind = "preset"
    /\ bus' = Tail(bus)
    /\ SetConfig(Init0(Config, Settings))
    /\ UNCHANGED <<settingState, bpm, burst, wire, lost, published, otherState, budget>>

\* MidiBpmChange
RestartClock ==
    /\ ~Quiet /\ Head(bus).kind = "bpm"
    /\ bus' = Tail(bus)
    /\ timer' = IF Settings.DinEnabled /\ Settings.SendMidiClockDin THEN bpm ELSE timer
    /\ UNCHANGED <<settingState, bpm, routeState, bleState, burst, wire, lost, published, rxState, otherState, budget>>

----------------------------------------------------------------------------
(* Reading *)

\* What an interrupt or a callback of a transport receives; a full queue drops it, USB without a signal.
Receive(t) ==
    /\ Spend("received")
    /\ CASE t = "usb" -> TRUE [] t = "din" -> din.on /\ ~din.hardware [] t = "ble" -> central.connected
    /\ IF rx[t] < RxCapacity
       THEN rx' = [rx EXCEPT ![t] = @ + 1] /\ raised' = [raised EXCEPT ![t] = TRUE]
       ELSE UNCHANGED rxState
    /\ UNCHANGED <<settingState, clockState, routeState, bleState, txState, otherState>>

\* wait_until_running() and wait_for_data(): the signal of the first transport that raised one is reset.
First == CHOOSE t \in Transports :
            /\ raised[t]
            /\ \A u \in Transports : raised[u] => u = t \/ t = "usb" \/ (t = "din" /\ u = "ble")
WaitForData ==
    /\ Quiet /\ reader.at = "wait" /\ ~frozen
    /\ \E t \in Transports : raised[t]
    /\ reader' = [at |-> "woken", from |-> First]
    /\ UNCHANGED <<settingState, clockState, routeState, bleState, txState, rxState, usbReady, refresh, frozen, budget>>
ResetSignal ==
    /\ Quiet /\ reader.at = "woken"
    /\ raised' = [raised EXCEPT ![reader.from] = FALSE]
    /\ reader' = [reader EXCEPT !.at = IF frozen \/ ~Initialized(reader.from) THEN "wait" ELSE "read"]
    /\ UNCHANGED <<settingState, clockState, routeState, bleState, txState, rx, usbReady, refresh, frozen, budget>>

\* Mutant: one packet is read for a signal.
ReadOnce ==
    /\ Quiet /\ reader.at = "read"
    /\ reader' = [reader EXCEPT !.at = "wait"]
    /\ rx' = IF rx[reader.from] > 0 THEN [rx EXCEPT ![reader.from] = @ - 1] ELSE rx
    /\ UNCHANGED <<settingState, clockState, routeState, bleState, txState, raised, usbReady, refresh, frozen, budget>>
\* read_interface(): packets are read until there is none.  SysEx counts from USB only.
ReadPacket ==
    /\ Quiet /\ reader.at = "read"
    /\ IF rx[reader.from] = 0
       THEN reader' = [reader EXCEPT !.at = "wait"] /\ UNCHANGED <<rx, bus>>
       ELSE /\ rx' = [rx EXCEPT ![reader.from] = @ - 1]
            /\ bus' \in {bus} \cup (IF reader.from = "usb" THEN {<<[kind |-> "request"]>>} ELSE {})
            /\ UNCHANGED reader
    /\ UNCHANGED <<settingState, clockState, routeState, bleState, burst, wire, lost, published, raised,
                   usbReady, refresh, frozen, budget>>

----------------------------------------------------------------------------
(* The environment *)

\* The inputs, which are silent during a forced refresh, and the components System refreshes.
Publish ==
    /\ Quiet /\ Spend("messages")
    /\ \E channel \in MessageChannels : bus' = <<[kind |-> "message", channel |-> channel]>>
    /\ UNCHANGED <<settingState, clockState, routeState, bleState, burst, wire, lost, published, rxState, otherState>>
\* System starts and finishes the forced refresh; the last components may be refreshed together with its end.
Refresh ==
    /\ Quiet
    /\ \/ refresh = "idle" /\ Spend("refreshes") /\ refresh' = "burst" /\ bus' = <<[kind |-> "start"]>>
       \/ /\ refresh = "burst" /\ refresh' = "idle" /\ UNCHANGED budget
          /\ \E channels \in {<<>>} \cup {<<c>> : c \in MessageChannels} :
                bus' = [i \in DOMAIN channels |-> [kind |-> "message", channel |-> channels[i]]]
                       \o <<[kind |-> "stop"]>>
    /\ UNCHANGED <<settingState, clockState, routeState, bleState, burst, wire, lost, published, rxState,
                   usbReady, reader, frozen>>
\* global/bpm.h: the tempo is set, then announced.
ChangeBpm ==
    /\ Quiet /\ Spend("tempos")
    /\ bpm' \in Tempos \ {bpm}
    /\ bus' = <<[kind |-> "bpm"]>>
    /\ UNCHANGED <<settingState, timer, routeState, bleState, burst, wire, lost, published, rxState, otherState>>

\* Callbacks of the Bluetooth host: on_connected(), midi_ccc_cfg_changed(), on_disconnected().
Central ==
    /\ Spend("centrals")
    /\ \E c \in {d \in {[central EXCEPT !.connected = TRUE], [central EXCEPT !.notify = ~@],
                        [central EXCEPT !.connected = FALSE, !.notify = FALSE]} : d # central} :
          /\ c.notify => c.connected
          /\ c.connected /\ ~central.connected => ble.on
          /\ LET told == PublishReady([Config EXCEPT !.central = c])
             IN central' = told.central /\ ble' = told.ble /\ stale' = told.stale
    /\ UNCHANGED <<settingState, clockState, routeState, txState, rxState, otherState>>
Host ==
    /\ Spend("hosts")
    /\ usbReady' = ~usbReady
    /\ UNCHANGED <<settingState, clockState, routeState, bleState, txState, rxState, reader, refresh, frozen>>
\* System freezes the protocols before it reboots.
Freeze ==
    /\ Quiet /\ ~frozen /\ Spend("freezes")
    /\ frozen' = TRUE
    /\ UNCHANGED <<settingState, clockState, routeState, bleState, txState, rxState, usbReady, reader, refresh>>

MidiInit ==
    /\ stored \in Presets /\ preset = 1
    /\ bpm = CHOOSE b \in Tempos : TRUE
    /\ LET off == [din |-> [on |-> FALSE, loopback |-> FALSE, hardware |-> FALSE], routes |-> {}, timer |-> 0,
                   ble |-> [on |-> FALSE, ready |-> FALSE],
                   central |-> [known |-> FALSE, connected |-> FALSE, notify |-> FALSE, last |-> FALSE],
                   stale |-> FALSE, rx |-> [t \in Transports |-> 0], raised |-> [t \in Transports |-> FALSE]]
           c == Init0(off, stored[1])
       IN /\ din = c.din /\ routes = c.routes /\ timer = c.timer /\ ble = c.ble
          /\ central = c.central /\ stale = c.stale /\ rx = c.rx /\ raised = c.raised
    /\ burst = [active |-> FALSE, packets |-> <<>>]
    /\ bus = <<>> /\ usbReady \in BOOLEAN /\ wire = <<>> /\ lost = {} /\ published = 0
    /\ reader = [at |-> "wait", from |-> "usb"]
    /\ refresh = "idle" /\ frozen = FALSE
    /\ budget \in Budgets

Next ==
    \/ Send \/ HandleRequest \/ ChangePreset \/ RestartClock
    \/ \E t \in Transports : Receive(t)
    \/ WaitForData \/ ResetSignal \/ ReadPacket
    \/ Publish \/ Refresh \/ ChangeBpm \/ Central \/ Host \/ Freeze

MidiSpec == MidiInit /\ [][Next]_vars

----------------------------------------------------------------------------
(* Properties *)

\* What is made for USB reaches the host in the order it was made, once, and nothing stays in the buffer:
\* between bursts every packet has been written, or was lost to a host that was not ready.
BurstDelivered ==
    /\ \A i \in 1 .. Len(wire) - 1 : wire[i].n < wire[i + 1].n
    /\ Quiet /\ ~burst.active => {p.n : p \in ToSet(wire) \cup lost} = 1 .. published

\* A packet that was queued does not wait for the next one: when the thread waits, and the protocol
\* is not frozen, the transports that are on have a signal or an empty queue.
PacketsRead ==
    reader.at = "wait" /\ ~frozen =>
        \A t \in Transports : Initialized(t) /\ rx[t] > 0 => raised[t]

\* The DIN clock runs with the current tempo whenever DIN and its clock are enabled, and only when its
\* clock is enabled, whatever order settings, presets and tempos came in.
ClockRuns ==
    ~Pending("preset") /\ ~Pending("bpm") =>
        /\ Settings.DinEnabled /\ Settings.SendMidiClockDin => timer = bpm
        /\ timer # 0 => Settings.SendMidiClockDin

\* The routes are those of the settings, and the UART loops back exactly when DIN is the only
\* destination of DIN: with another one, the copy is made by software.
RoutesApplied ==
    ~Pending("preset") =>
        /\ routes = Settings.thru
        /\ din.hardware = (Destinations(Config, "din") = {"din"})

\* Clock and routes are those of the selected preset and its settings once no change is under way.
SettingsApplied == ClockRuns /\ RoutesApplied

\* BLE sends to a central that has subscribed only, and does send to it, unless BLE was switched on
\* while the central was subscribed already.
BleReadiness ==
    /\ ble.ready => ReadyNow(central)
    /\ ble.on /\ ReadyNow(central) /\ ~stale => ble.ready
=============================================================================
