------------------------------ MODULE Switches ------------------------------
(***************************************************************************)
(* Switches: debouncing filter, mapper and controller                      *)
(* (firmware/src/io/digital/switches).                                     *)
(*                                                                         *)
(* The mapper is a pair of operators: what a new reading does to the state *)
(* of a switch and to the shared program and tempo, and which signals it   *)
(* has the controller publish.  A refresh evaluates the same code with     *)
(* mutate off.  Of the signals the module keeps what the host was last     *)
(* told of every switch.                                                   *)
(***************************************************************************)
EXTENDS MidiGlobals, Sequences, FiniteSets

CONSTANTS
    DigitalInputs,  \* GroupDigitalInputs
    OtherInputs,    \* GroupAnalogInputs and GroupTouchscreenComponents
    SwitchSettings, \* of every switch, the settings it may have: [type, message, id, value]
    DebounceBits,   \* samples of the debouncing register (8)
    MaxChanges      \* bound on the writes and the preset changes of a run

ASSUME SwitchAssumption ==
    /\ DigitalInputs \subseteq Nat
    /\ DebounceBits \in Nat \ {0}
    /\ \A i \in DigitalInputs \cup OtherInputs :
          SwitchSettings[i] \subseteq [type : {"Momentary", "Latching"}, message : STRING, id : Nat, value : Nat]

SwitchIndices == DigitalInputs \cup OtherInputs
SwitchConfigs ==
    {c \in [SwitchIndices -> UNION {SwitchSettings[i] : i \in SwitchIndices}] :
        \A i \in SwitchIndices : c[i] \in SwitchSettings[i]}

VARIABLES
    globals,      \* MidiProgram and Bpm
    switch,       \* the mapper's state of every switch
    debounce,     \* FilterHw::_debounce_state, latest sample last
    switchConfig, \* Section::Switch of the database
    hostSwitch,   \* the state of every switch that was last published over OSC
    hostNote,     \* MIDI: the last note message sent for every switch
    unreported,   \* ghost: switches whose last change was not published
    changes       \* configuration writes and preset changes so far, at most MaxChanges

switchVars == <<switch, debounce, switchConfig, hostSwitch, hostNote, unreported, changes>>

Released == [pressed |-> FALSE, value |-> 0, oscLatch |-> FALSE, midiLatch |-> FALSE]

\* Switches::init() resets every switch; the host knows nothing but released switches.
SwitchInit ==
    /\ globals = GlobalsAtBoot
    /\ switch = [i \in SwitchIndices |-> Released]
    /\ debounce = [i \in DigitalInputs |-> [n \in 1 .. DebounceBits |-> FALSE]]
    /\ switchConfig \in SwitchConfigs
    /\ hostSwitch = [i \in SwitchIndices |-> FALSE]
    /\ hostNote = [i \in SwitchIndices |-> "NoteOff"]
    /\ unreported = {}
    /\ changes = 0

---------------------------------------------------------------------------
(* The filter *)

Shifted(i, level) == Append(Tail(debounce[i]), level)
\* is_filtered(): the reading counts when every sample of the register agrees with it.
Stable(samples, level) == \A n \in 1 .. DebounceBits : samples[n] = level

---------------------------------------------------------------------------
(* The mapper *)

\* INTERNAL_MSG_TO_MIDI_TYPE.  "RealTime" stands for the six real-time messages and "Mmc" for
\* play, stop and pause, which the mapper treats alike.
MidiType(message) ==
    CASE message \in {"Note", "MultiValIncResetNote", "MultiValIncDecNote", "NoteOffOnly"} -> "NoteOn"
      [] message \in {"ControlChange", "ControlChangeReset", "MultiValIncResetCc", "MultiValIncDecCc",
                      "ControlChange0Only"} -> "ControlChange"
      [] message \in {"ProgramChange", "ProgramChangeInc", "ProgramChangeDec"} -> "ProgramChange"
      [] message = "MmcRecord" -> "MmcRecordStart"
      [] message = "MmcPlayStop" -> "MmcPlay"
      [] message \in {"RealTime", "Mmc"} -> message
      [] OTHER -> "Invalid"

\* message_to_type(): only a note, a control change with reset and no message follow the setting.
LatchesMidi(config) ==
    \/ config.message \in {"MmcRecord", "MmcPlayStop"}
    \/ config.message \in {"Note", "ControlChangeReset", "None"} /\ config.type = "Latching"

\* What a latch makes of a reading: [sent, state, latch].
\* Mutant: a release of a latching switch is sent as well.
LatchingBoth(latch, latches, reading, refresh) ==
    IF ~latches THEN [sent |-> TRUE, state |-> reading, latch |-> latch]
    ELSE IF refresh THEN [sent |-> TRUE, state |-> latch, latch |-> latch]
    ELSE IF reading THEN [sent |-> TRUE, state |-> ~latch, latch |-> ~latch]
    ELSE [sent |-> TRUE, state |-> FALSE, latch |-> latch]
Latching(latch, latches, reading, refresh) ==
    IF ~latches THEN [sent |-> TRUE, state |-> reading, latch |-> latch]
    ELSE IF refresh THEN [sent |-> TRUE, state |-> latch, latch |-> latch]
    ELSE IF reading THEN [sent |-> TRUE, state |-> ~latch, latch |-> ~latch]
    ELSE [sent |-> FALSE, state |-> FALSE, latch |-> latch]

\* The signal that fill_midi_signal() prepares, the counter of the switch and the globals.
Prepared(s, g, config) ==
    [sent |-> TRUE, message |-> MidiType(config.message), index |-> config.id, value |-> config.value,
     counter |-> s.value, globals |-> g, preset |-> FALSE]

\* MultiVal messages: the counter goes up, to the edge or round; unchanged means nothing is sent.
Counted(p, s, config, mutate) ==
    LET note == config.message \in {"MultiValIncResetNote", "MultiValIncDecNote"}
        wraps == config.message \in {"MultiValIncResetNote", "MultiValIncResetCc"}
        next == IF mutate THEN Increment(s.value, config.value, Max7, wraps) ELSE s.value
    IN  IF mutate /\ next = s.value
            THEN [p EXCEPT !.sent = FALSE]
            ELSE [p EXCEPT !.message = IF ~note THEN @ ELSE IF next = 0 THEN "NoteOff" ELSE "NoteOn",
                           !.value = next, !.counter = next]

\* A shared counter that moves: nothing is sent when it is at its end.
Moved(p, g, next, mutate) ==
    [p EXCEPT !.globals = IF mutate THEN next ELSE g, !.sent = mutate => next # g, !.value = 0]

\* build_result() for a pressed switch.
Pressed(s, g, config, mutate) ==
    LET p == Prepared(s, g, config)
        up == ProgramUp(g)
        down == ProgramDown(g)
    IN  CASE config.message \in {"Note", "ControlChange", "ControlChangeReset", "RealTime", "Mmc",
                                 "MmcRecord", "MmcPlayStop"} -> p
          [] config.message = "ProgramChange" ->
                [p EXCEPT !.value = 0, !.index = (@ + g.offset) % (Max7 + 1)]
          [] config.message = "ProgramChangeInc" ->
                [Moved(p, g, up, mutate) EXCEPT !.index = IF mutate THEN up.program ELSE g.program]
          [] config.message = "ProgramChangeDec" ->
                [Moved(p, g, down, mutate) EXCEPT !.index = IF mutate THEN down.program ELSE g.program]
          [] config.message \in {"MultiValIncResetNote", "MultiValIncDecNote", "MultiValIncResetCc",
                                 "MultiValIncDecCc"} -> Counted(p, s, config, mutate)
          [] config.message = "NoteOffOnly" -> [p EXCEPT !.value = 0, !.message = "NoteOff"]
          [] config.message = "ControlChange0Only" -> [p EXCEPT !.value = 0]
          [] config.message = "ProgramChangeOffsetInc" ->
                [p EXCEPT !.globals = IF mutate THEN OffsetUp(g, config.value) ELSE g]
          [] config.message = "ProgramChangeOffsetDec" ->
                [p EXCEPT !.globals = IF mutate THEN OffsetDown(g, config.value) ELSE g]
          [] config.message = "PresetChange" -> [p EXCEPT !.sent = FALSE, !.preset = mutate]
          [] config.message = "BpmInc" -> Moved(p, g, BpmUp(g), mutate)
          [] config.message = "BpmDec" -> Moved(p, g, BpmDown(g), mutate)
          [] OTHER -> [p EXCEPT !.sent = FALSE]

\* build_result() for a released switch.
NotPressed(s, g, config) ==
    LET p == Prepared(s, g, config)
    IN  CASE config.message = "Note" -> [p EXCEPT !.value = 0, !.message = "NoteOff"]
          [] config.message = "ControlChangeReset" -> [p EXCEPT !.value = 0]
          [] config.message = "MmcRecord" -> [p EXCEPT !.message = "MmcRecordStop"]
          [] config.message = "MmcPlayStop" -> [p EXCEPT !.message = "MmcStop"]
          [] OTHER -> [p EXCEPT !.sent = FALSE]

\* build_result(): the next state of the switch and of the globals, and the signals.
\* Mutant: a refresh moves the shared counters.
BuildMoving(s, g, config, reading, refresh) ==
    LET osc == Latching(s.oscLatch, config.type = "Latching", reading, refresh)
        latch == Latching(s.midiLatch, LatchesMidi(config), reading, refresh)
        midi == IF latch.state THEN Pressed(s, g, config, TRUE) ELSE NotPressed(s, g, config)
    IN  [switch |-> [pressed |-> reading, oscLatch |-> osc.latch, midiLatch |-> latch.latch,
                     value |-> IF latch.sent THEN midi.counter ELSE s.value],
         globals |-> IF latch.sent THEN midi.globals ELSE g,
         config |-> config, osc |-> osc, midi |-> [midi EXCEPT !.sent = @ /\ latch.sent]]
Build(s, g, config, reading, refresh) ==
    LET osc == Latching(s.oscLatch, config.type = "Latching", reading, refresh)
        latch == Latching(s.midiLatch, LatchesMidi(config), reading, refresh)
        midi == IF latch.state THEN Pressed(s, g, config, ~refresh) ELSE NotPressed(s, g, config)
    IN  [switch |-> [pressed |-> reading, oscLatch |-> osc.latch, midiLatch |-> latch.latch,
                     value |-> IF latch.sent THEN midi.counter ELSE s.value],
         globals |-> IF latch.sent THEN midi.globals ELSE g,
         config |-> config, osc |-> osc, midi |-> [midi EXCEPT !.sent = @ /\ latch.sent]]

---------------------------------------------------------------------------
(* The controller *)

\* The signals of a result reach the host: publish_result() when I/O is running or for a refresh.
Told(i, r) ==
    /\ hostSwitch' = IF r.osc.sent THEN [hostSwitch EXCEPT ![i] = r.osc.state] ELSE hostSwitch
    /\ hostNote' = IF r.midi.sent /\ r.midi.message \in {"NoteOn", "NoteOff"}
                       THEN [hostNote EXCEPT ![i] = r.midi.message] ELSE hostNote

\* Mapper::result() for a reading that differs from the last one: the state has changed.
ApplyReading(i, reading) ==
    LET r == Build(switch[i], globals, switchConfig[i], reading, FALSE)
    IN  /\ switch' = [switch EXCEPT ![i] = r.switch]
        /\ globals' = r.globals

\* A reading that is to be published brings the host up to date.
Pending(i, reading) ==
    IF switch[i].pressed # reading /\ Build(switch[i], globals, switchConfig[i], reading, FALSE).osc.sent
        THEN unreported \ {i} ELSE unreported

\* publish_result(): a freeze that came after the reading was applied drops its signals; after a
\* reset or a change of the settings they are out of date.
PublishReading(i, r, frozen) ==
    /\ IF frozen THEN UNCHANGED <<hostSwitch, hostNote>> ELSE Told(i, r)
    /\ unreported' = IF frozen \/ r.switch # switch[i] \/ r.config # switchConfig[i]
                      THEN unreported \cup {i} ELSE unreported

\* The subscriber of MidiIoSignal: an analog input or a touchscreen component that acts as a switch.
OtherReading(i, reading, frozen) ==
    /\ ~frozen
    /\ i \in OtherInputs /\ switch[i].pressed # reading
    /\ ApplyReading(i, reading)
    /\ Told(i, Build(switch[i], globals, switchConfig[i], reading, FALSE))
    /\ unreported' = Pending(i, reading)
    /\ UNCHANGED <<debounce, switchConfig, changes>>

\* Mapper::reset()
ResetSwitch(i) == switch' = [switch EXCEPT ![i] = Released]

\* sys_config_set(): the type and the message clear the state, the other sections do not.
SwitchWrite(i, section) ==
    /\ changes < MaxChanges
    /\ \E c \in SwitchSettings[i] :
        /\ c[section] # switchConfig[i][section]
        /\ \A other \in DOMAIN c \ {section} : c[other] = switchConfig[i][other]
        /\ switchConfig' = [switchConfig EXCEPT ![i] = c]
    /\ IF section \in {"type", "message"}
           THEN ResetSwitch(i) /\ unreported' = unreported \cup {i}
           ELSE UNCHANGED <<switch, unreported>>
    /\ changes' = changes + 1
    /\ UNCHANGED <<globals, debounce, hostSwitch, hostNote>>

\* force_refresh() of one digital switch, in a freeze: the host hears the state again.
RefreshSwitch(i) ==
    LET r == Build(switch[i], globals, switchConfig[i], switch[i].pressed, TRUE)
    IN  /\ i \in DigitalInputs
        /\ switch' = [switch EXCEPT ![i] = r.switch]
        /\ globals' = r.globals
        /\ Told(i, r)
        /\ unreported' = unreported \ {i}
        /\ UNCHANGED <<debounce, switchConfig, changes>>

---------------------------------------------------------------------------

SwitchTypeOK ==
    /\ globals \in [program : 0 .. Max7, offset : 0 .. Max7, bpm : 0 .. BpmMax]
    /\ switch \in [SwitchIndices -> [pressed : BOOLEAN, value : 0 .. Max7, oscLatch : BOOLEAN, midiLatch : BOOLEAN]]
    /\ debounce \in [DigitalInputs -> [1 .. DebounceBits -> BOOLEAN]]
    /\ switchConfig \in SwitchConfigs
    /\ hostSwitch \in [SwitchIndices -> BOOLEAN]
    /\ hostNote \in [SwitchIndices -> {"NoteOn", "NoteOff"}]
    /\ unreported \subseteq SwitchIndices

\* What a host that heard everything knows of switch i.
Reported(i) ==
    LET s == switch[i]
        c == switchConfig[i]
    IN  /\ hostSwitch[i] = IF c.type = "Latching" THEN s.oscLatch ELSE s.pressed
        /\ c.message = "Note" =>
               (hostNote[i] = "NoteOn") = (IF c.type = "Latching" THEN s.midiLatch ELSE s.pressed)
=============================================================================
