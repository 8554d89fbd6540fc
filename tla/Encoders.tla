------------------------------ MODULE Encoders ------------------------------
(***************************************************************************)
(* Encoders: quadrature filter, mapper and controller                      *)
(* (firmware/src/io/digital/encoders).                                     *)
(*                                                                         *)
(* The time since the last movement is one of the intervals the code tells *)
(* apart: "none" (no movement yet), "close" (up to 50 ms, the direction is *)
(* still debounced), "near" (below 140 ms, the encoder accelerates) and    *)
(* "far".                                                                  *)
(***************************************************************************)
EXTENDS MidiGlobals, FiniteSets

CONSTANTS
    EncoderIndices,
    EncoderSettings, \* [enabled, mode, inverted, lower, upper, repeated, id1, id2, acceleration, sync]
    Center,          \* MIDI_PITCH_BEND_CENTER
    PulsesPerStep,   \* Filter::PULSES_PER_STEP (4)
    DirectionCount,  \* ENCODERS_DEBOUNCE_COUNT (4)
    SpeedChange,     \* ENCODER_SPEED_CHANGE and ENCODER_ACCELERATION_STEP_INC,
    SpeedLimit       \* functions of the acceleration setting

ASSUME EncoderAssumption == DirectionCount \in Nat \ {0}

VARIABLES
    encoder,       \* filter, mapper and controller state of every encoder
    encoderConfig, \* Section::Encoder of the database
    hostEncoder,   \* the value last sent for every encoder, NoValue after a change of its settings
    rawRun         \* ghost: steps in the same direction, as the shaft made them, up to DirectionCount

encoderVars == <<encoder, encoderConfig, hostEncoder, rawRun>>

Value7Modes == {"ControlChange", "Nrpn7Bit", "SingleNoteVariableVal"}
Value14Modes == {"PitchBend", "Nrpn14Bit", "ControlChange14Bit"}
RelativeModes == {"ControlChange7fh01h", "ControlChange3fh41h", "ControlChange41h01h"}
NoteModes == {"SingleNoteFixedValBothDir", "SingleNoteFixedValOneDir0OtherDir", "TwoNoteFixedValBothDir"}
Pairs == 0 .. 3
Byte == 2 * (Max7 + 1)
NoValue == -1

\* Mapper::reset(): pitch bend rests in the middle.
RestingValue(config) == IF config.mode = "PitchBend" THEN Center ELSE 0

\* Encoders::reset(): mapper, filter, speed and the time of the last movement.
StillEncoder(config) ==
    [value |-> RestingValue(config), pair |-> NoValue, pulses |-> 0, last |-> "Stopped", held |-> "Stopped",
     count |-> 0, speed |-> 0, moved |-> FALSE]

EncoderInit ==
    /\ encoderConfig \in [EncoderIndices -> EncoderSettings]
    /\ encoder = [e \in EncoderIndices |-> StillEncoder(encoderConfig[e])]
    /\ hostEncoder = [e \in EncoderIndices |-> NoValue]
    /\ rawRun = [e \in EncoderIndices |-> [direction |-> "Stopped", length |-> 0]]

---------------------------------------------------------------------------
(* The filter *)

\* ENCODER_LOOK_UP_TABLE: the change of the Gray code from one pair to the next, 0 if a sample was missed.
Pulse(from, to) ==
    CASE <<from, to>> \in {<<0, 1>>, <<1, 3>>, <<3, 2>>, <<2, 0>>} -> 1
      [] <<from, to>> \in {<<0, 2>>, <<2, 3>>, <<3, 1>>, <<1, 0>>} -> -1
      [] OTHER -> 0

\* Mutant: a step in another direction does not start the count again.
HoldAny(f, position, elapsed) ==
    LET idle == elapsed # "close"
        count == (IF idle THEN 0 ELSE f.count) + 1
        full == count = DirectionCount
        held == IF full THEN position ELSE IF idle THEN "Stopped" ELSE f.held
    IN  [f EXCEPT !.last = position, !.count = IF full THEN 0 ELSE count, !.held = held]
\* A step of the shaft: the direction is held until DirectionCount steps the other way, or a pause.
Hold(f, position, elapsed) ==
    LET idle == elapsed # "close"
        count == (IF idle \/ position # f.last THEN 0 ELSE f.count) + 1
        full == count = DirectionCount
        held == IF full THEN position ELSE IF idle THEN "Stopped" ELSE f.held
    IN  [f EXCEPT !.last = position, !.count = IF full THEN 0 ELSE count, !.held = held]

Pulses(f, pair) == f.pulses + Pulse(f.pair, pair)
\* A step is complete: the direction the shaft turned in.
Complete(f, pair) == f.pair # NoValue /\ (Pulses(f, pair) >= PulsesPerStep \/ Pulses(f, pair) <= -PulsesPerStep)
RawDirection(f, pair) == IF Pulses(f, pair) > 0 THEN "Ccw" ELSE "Cw"

\* is_filtered(): the first sample only sets the pair.
Filtered(f, pair, elapsed) ==
    IF f.pair = NoValue THEN [f EXCEPT !.pair = pair]
    ELSE IF ~Complete(f, pair) THEN [f EXCEPT !.pair = pair, !.pulses = Pulses(f, pair)]
    ELSE [Hold(f, RawDirection(f, pair), elapsed) EXCEPT !.pair = pair, !.pulses = 0]

\* The direction that is_filtered() returns for a complete step.
FilteredDirection(f, raw) == IF f.held = "Stopped" THEN raw ELSE f.held

---------------------------------------------------------------------------
(* The mapper *)

Opposite(position) == IF position = "Ccw" THEN "Cw" ELSE "Ccw"
Clamp(value, lower, upper) == IF value < lower THEN lower ELSE IF value > upper THEN upper ELSE value

\* The value modes: a step down or up at the edge of the range, then the limits of the encoder.
Stepped(value, config, position, steps) ==
    LET wide == config.mode \in Value14Modes
        by == IF wide /\ steps > 1 THEN 4 * steps ELSE steps
        from == IF wide THEN value ELSE value % Byte
        to == IF position = "Ccw" THEN Decrement(from, by, 0)
              ELSE Increment(from, by, IF wide THEN Max14 ELSE Max7, FALSE)
    IN  Clamp(to, config.lower, config.upper)

\* VAL_CONTROL_CHANGE_*: two's complement, offset and signed bit, all in seven bits.
RelativeValue(mode, position) ==
    CASE mode = "ControlChange7fh01h" -> IF position = "Ccw" THEN Max7 ELSE 1
      [] mode = "ControlChange3fh41h" -> (Max7 + 1) \div 2 + (IF position = "Ccw" THEN -1 ELSE 1)
      [] mode = "ControlChange41h01h" -> IF position = "Ccw" THEN (Max7 + 1) \div 2 + 1 ELSE 1

\* result(): the value kept, the globals, and the value sent (NoValue: nothing is sent).
MapStep(value, g, config, direction, steps) ==
    LET position == IF config.inverted THEN Opposite(direction) ELSE direction
        same == [value |-> value, globals |-> g, sent |-> NoValue]
        program == IF position = "Ccw" THEN ProgramUp(g) ELSE ProgramDown(g)
        next == Stepped(value, config, position, steps)
    IN  CASE config.mode \in RelativeModes -> [same EXCEPT !.sent = RelativeValue(config.mode, position)]
          [] config.mode = "ProgramChange" ->
                IF program = g THEN same
                ELSE [value |-> program.program, globals |-> program, sent |-> program.program]
          [] config.mode \in Value7Modes \cup Value14Modes ->
                [same EXCEPT !.value = next,
                             !.sent = IF config.mode = "ControlChange14Bit" /\ config.id1 >= Cc14MaxIndex
                                      THEN NoValue ELSE next]
          [] config.mode \in NoteModes ->
                [same EXCEPT !.sent = IF config.mode = "SingleNoteFixedValOneDir0OtherDir" /\ position = "Ccw"
                                      THEN 0 ELSE config.repeated]
          [] config.mode = "BpmChange" ->
                [same EXCEPT !.globals = IF position = "Ccw" THEN BpmUp(g) ELSE BpmDown(g)]
          [] OTHER -> same

\* last_result(): what a refresh repeats, of the modes that keep a value.
Repeated(value, g, config) ==
    CASE config.mode = "ProgramChange" -> g.program
      [] config.mode = "ControlChange14Bit" /\ config.id1 >= Cc14MaxIndex -> NoValue
      [] config.mode \in Value7Modes \cup Value14Modes -> value
      [] OTHER -> NoValue

---------------------------------------------------------------------------
(* The controller *)

\* The acceleration: the speed grows with every step that follows the last one soon enough.
NextSpeed(f, config, elapsed) ==
    IF config.acceleration = 0 \/ elapsed \notin {"close", "near"} THEN 0
    ELSE Clamp(f.speed + SpeedChange[config.acceleration], 0, SpeedLimit[config.acceleration])

\* process_reading() of a sample, and the globals after it.
ProcessReading(e, g, pair, elapsed) ==
    LET f == Filtered(encoder[e], pair, elapsed)
        speed == NextSpeed(encoder[e], encoderConfig[e], elapsed)
        r == MapStep(encoder[e].value, g, encoderConfig[e],
                     FilteredDirection(f, RawDirection(encoder[e], pair)), IF speed > 0 THEN speed ELSE 1)
    IN  IF ~Complete(encoder[e], pair) THEN [encoder |-> f, globals |-> g, sent |-> NoValue]
        ELSE [encoder |-> [f EXCEPT !.value = r.value, !.speed = speed, !.moved = TRUE],
              globals |-> r.globals, sent |-> r.sent]

\* The time since the last movement that a sample may find.
Elapsed(e) == IF encoder[e].moved THEN {"close", "near", "far"} ELSE {"none"}

EncoderTold(e, value) ==
    hostEncoder' = IF value = NoValue THEN hostEncoder ELSE [hostEncoder EXCEPT ![e] = value]

\* Ghost: the steps in one direction, with the next one.
NextRun(run, raw) ==
    IF run.direction # raw THEN [direction |-> raw, length |-> 1]
    ELSE [run EXCEPT !.length = IF @ < DirectionCount THEN @ + 1 ELSE @]

\* process_state_changes() for one encoder.
ReadEncoder(e, g, pair, elapsed) ==
    LET raw == RawDirection(encoder[e], pair)
    IN  /\ encoder' = [encoder EXCEPT ![e] = ProcessReading(e, g, pair, elapsed).encoder]
        /\ EncoderTold(e, ProcessReading(e, g, pair, elapsed).sent)
        /\ rawRun' = IF ~Complete(encoder[e], pair) THEN rawRun
                     ELSE [rawRun EXCEPT ![e] = NextRun(rawRun[e], raw)]
        /\ UNCHANGED encoderConfig

\* The subscriber of UmpSignal: a control change or a pitch bend that came in sets the value.
SyncEncoders(mode, channelMatches, id, value, frozen) ==
    /\ ~frozen
    /\ mode \in {"ControlChange", "PitchBend"}
    /\ encoder' = [e \in EncoderIndices |->
          IF /\ encoderConfig[e].sync /\ encoderConfig[e].mode = mode /\ channelMatches
             /\ mode = "ControlChange" => encoderConfig[e].id1 = id
          THEN [encoder[e] EXCEPT !.value = value] ELSE encoder[e]]
    /\ UNCHANGED <<encoderConfig, hostEncoder, rawRun>>

\* force_refresh() of one encoder.
RefreshEncoder(e, g) ==
    /\ encoderConfig[e].enabled
    /\ EncoderTold(e, Repeated(encoder[e].value, g, encoderConfig[e]))
    /\ UNCHANGED <<encoder, encoderConfig, rawRun>>

\* sys_config_set(): every section that is written resets the encoder.
\* Mutant: the value of the old mode stays.
EncoderWriteUnreset(e, section) ==
    \E c \in EncoderSettings :
        /\ c[section] # encoderConfig[e][section]
        /\ \A other \in DOMAIN c \ {section} : c[other] = encoderConfig[e][other]
        /\ encoderConfig' = [encoderConfig EXCEPT ![e] = c]
        /\ hostEncoder' = [hostEncoder EXCEPT ![e] = NoValue]
        /\ UNCHANGED <<encoder, rawRun>>
EncoderWrite(e, section) ==
    \E c \in EncoderSettings :
        /\ c[section] # encoderConfig[e][section]
        /\ \A other \in DOMAIN c \ {section} : c[other] = encoderConfig[e][other]
        /\ encoderConfig' = [encoderConfig EXCEPT ![e] = c]
        /\ encoder' = [encoder EXCEPT ![e] = StillEncoder(c)]
        /\ hostEncoder' = [hostEncoder EXCEPT ![e] = NoValue]
        /\ rawRun' = [rawRun EXCEPT ![e] = [direction |-> "Stopped", length |-> 0]]

---------------------------------------------------------------------------

Positions == {"Stopped", "Ccw", "Cw"}
Largest(S) == CHOOSE n \in S : \A k \in S : k <= n

EncoderTypeOK ==
    /\ encoderConfig \in [EncoderIndices -> EncoderSettings]
    /\ hostEncoder \in [EncoderIndices -> {NoValue} \cup 0 .. Max14]
    /\ encoder \in [EncoderIndices ->
          [value : 0 .. Max14, pair : Pairs \cup {NoValue}, pulses : (1 - PulsesPerStep) .. (PulsesPerStep - 1),
           last : Positions, held : Positions, count : 0 .. DirectionCount - 1,
           speed : 0 .. Largest({SpeedLimit[a] : a \in DOMAIN SpeedLimit}), moved : BOOLEAN]]
=============================================================================
