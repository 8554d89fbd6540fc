---------------------------- MODULE AnalogFilter ----------------------------
(***************************************************************************)
(* FilterHw of the analog inputs (firmware/src/io/analog/filter/hw): what  *)
(* a sample does to the state of the filter of one input, and the position *)
(* it gives, if any.                                                       *)
(*                                                                         *)
(* Time only matters as whether the last accepted movement is more than    *)
(* MOTION_CONTEXT_TIMEOUT_MS ago: "recent" or "expired".                   *)
(***************************************************************************)
EXTENDS Integers

CONSTANTS
    AdcMax,         \* AdcConfig::ADC_MAX_VALUE; the smallest value is 0
    PositionMax,    \* POSITION_MAX_VALUE; there are PositionMax + 1 steps
    GateMax,        \* MOVEMENT_GATE_MAX_VALUE
    TurnGates,      \* GATE_DIRECTION_CHANGE_THRESHOLD
    WakeGates,      \* IDLE_WAKE_GATE_THRESHOLD
    HoldGates,      \* the range of endpoint_hold_active()
    CounterWrap,    \* the counters are bytes
    ThresholdOff, ThresholdOn, \* hysteresis of a switch
    FsrMin, FsrMax  \* range of a force sensor

ASSUME FilterAssumption ==
    /\ AdcMax \in Nat \ {0} /\ PositionMax \in Nat \ {0} /\ GateMax \in Nat \ {0}
    /\ TurnGates \in Nat /\ WakeGates \in Nat /\ HoldGates \in Nat
    /\ CounterWrap \in Nat \ {0}
    /\ FsrMin \in Nat /\ FsrMax \in Nat /\ FsrMin < FsrMax

None == -1   \* NO_VALUE
Difference(a, b) == IF a >= b THEN a - b ELSE b - a
Limited(value, low, high) == IF value < low THEN low ELSE IF value > high THEN high ELSE value
\* map_range(): linear, from end to end.
MapRange(value, inMin, inMax, outMin, outMax) ==
    ((value - inMin) * (outMax - outMin)) \div (inMax - inMin) + outMin

LowerRaw(config) == (AdcMax * config.lowerOffset) \div 100
UpperRaw(config) == AdcMax - (AdcMax * config.upperOffset) \div 100
PositionOf(value, config) == MapRange(value, LowerRaw(config), UpperRaw(config), 0, PositionMax)
GateOf(value, config) == MapRange(value, LowerRaw(config), UpperRaw(config), 0, GateMax)
ForceOf(value) == MapRange(Limited(value, FsrMin, FsrMax), FsrMin, FsrMax, 0, PositionMax)
\* step_diff(): the ADC values of one position, at least one.
StepOf(config) ==
    LET steps == (UpperRaw(config) - LowerRaw(config)) \div (PositionMax + 1) IN IF steps = 0 THEN 1 ELSE steps

\* FilterHw(): nothing known of the input.
NewFilter ==
    [sample |-> None, value |-> None, position |-> None, gate |-> None, pending |-> None,
     turns |-> 0, idles |-> 0, entries |-> 0, fast |-> FALSE, up |-> FALSE, moved |-> FALSE]
ForgetGate(f) == [f EXCEPT !.idles = 0, !.pending = None]
\* clear_motion_context()
ForgetMotion(f) == [ForgetGate(f) EXCEPT !.turns = 0, !.entries = 0, !.fast = FALSE]
\* reset(): the last direction stays.
ResetFilter(f) ==
    [ForgetMotion(f) EXCEPT !.moved = FALSE, !.sample = None, !.value = None, !.position = None, !.gate = None]

\* prepare_motion_context()
IdleContext(f, elapsed) == ~f.moved \/ elapsed = "expired"
Prepare(f, elapsed) == IF f.moved /\ elapsed = "expired" THEN [ForgetMotion(f) EXCEPT !.moved = FALSE] ELSE f

\* endpoint_assist_state(): the raw sample is at an end and the last position one step from it.
Assist(f, rawPosition) ==
    IF f.position = PositionMax - 1 /\ rawPosition = PositionMax THEN "upper"
    ELSE IF f.position = 1 /\ rawPosition = 0 THEN "lower"
    ELSE "none"

\* update_fast_filter_state()
TrackSpeed(f, delta, step) ==
    IF f.sample = None THEN f
    ELSE IF f.fast THEN IF delta >= step THEN f ELSE [f EXCEPT !.fast = FALSE, !.entries = 0]
    ELSE IF delta < 2 * step THEN [f EXCEPT !.entries = 0]
    ELSE IF f.entries + 1 >= 2 THEN [f EXCEPT !.fast = TRUE, !.entries = 0]
    ELSE [f EXCEPT !.entries = @ + 1]

\* min_step_diff(): a reversal away from the ends has to be twice as large.
MinStep(f, up, rawPosition, step) ==
    IF up # f.up /\ f.position \notin {None, 0, PositionMax} /\ rawPosition \notin {0, PositionMax}
        THEN 2 * step ELSE step

InDeadband(f, value, assist, minStep) ==
    f.value # None /\ assist = "none" /\ Difference(value, f.value) < minStep

\* apply_adc_filter(): a reversal needs two samples.
\* Mutant: the first sample of a reversal is taken.
TurnOnce(f, assist, up) == IF assist # "none" \/ up = f.up THEN [f EXCEPT !.turns = 0] ELSE [f EXCEPT !.turns = 2]
Turn(f, assist, up) ==
    IF assist # "none" \/ up = f.up THEN [f EXCEPT !.turns = 0]
    ELSE [f EXCEPT !.turns = (@ + 1) % CounterWrap]
Confirmed(f, assist, up) == assist # "none" \/ up = f.up \/ f.turns >= 2

\* apply_ema(), half and half.
Smoothed(f, value) == IF f.value = None THEN value ELSE (value + f.value) \div 2

\* endpoint_hold_active()
Held(f, gate) ==
    \/ f.gate = 0 /\ gate <= HoldGates
    \/ f.gate = GateMax /\ gate >= GateMax - HoldGates

\* The idle part of apply_position_publish_policy(): tiny changes are ignored, others must repeat.
TooSmall(f, rawGate, config) == config.type # "Fsr" /\ Difference(rawGate, f.gate) < WakeGates
Repeats(f, gate) == f.pending = gate /\ f.idles + 1 >= 2
\* Mutant: every sample starts the count afresh.
AwaitAfresh(f, gate) == [f EXCEPT !.pending = gate, !.idles = 0]
Await(f, gate) == IF f.pending # gate THEN [f EXCEPT !.pending = gate, !.idles = 1] ELSE [f EXCEPT !.idles = @ + 1]

\* commit_filtered_state()
Commit(f, up, value, position, gate) ==
    [ForgetGate(f) EXCEPT !.up = up, !.turns = 0, !.value = value, !.position = position, !.gate = gate, !.moved = TRUE]

\* apply_position_stage(): the new state, and the position, None if the sample is suppressed.
PublishPosition(f, config, idle, assist, direction, rawGate, smoothed) ==
    LET up == IF assist = "none" THEN direction ELSE assist = "upper"
        gate == CASE assist = "upper" -> GateMax [] assist = "lower" -> 0 [] OTHER -> GateOf(smoothed, config)
        position == CASE assist = "upper" -> PositionMax [] assist = "lower" -> 0 [] OTHER -> PositionOf(smoothed, config)
        waits == assist = "none" /\ idle /\ f.gate # None
        waited == IF waits THEN Await(f, gate) ELSE f
    IN  IF \/ assist = "none" /\ Held(f, gate)
           \/ position = f.position
           \/ waits /\ TooSmall(f, rawGate, config)
        THEN [filter |-> ForgetGate(f), position |-> None]
        ELSE IF waits /\ ~Repeats(f, gate)
        THEN [filter |-> waited, position |-> None]
        ELSE IF assist = "none" /\ f.gate # None /\ up # f.up /\ Difference(gate, f.gate) < TurnGates
        THEN [filter |-> ForgetGate(waited), position |-> None]
        ELSE [filter |-> Commit(waited, up, smoothed, position, gate),
              position |-> IF config.type = "Fsr" THEN ForceOf(smoothed) ELSE position]

\* is_filtered() of a continuous input.
FilterSample(old, config, raw, elapsed) ==
    LET value == Limited(raw, LowerRaw(config), UpperRaw(config))
        idle == IdleContext(old, elapsed)
        rawPosition == PositionOf(value, config)
        step == StepOf(config)
        tracked == TrackSpeed(Prepare(old, elapsed), Difference(value, old.sample), step)
        up == value >= (IF old.value = None THEN value ELSE old.value)
        assist == Assist(old, rawPosition)
        sampled == [tracked EXCEPT !.sample = value]
        turned == Turn(sampled, assist, up)
    IN  IF InDeadband(old, value, assist, MinStep(old, up, rawPosition, step))
        THEN [filter |-> ForgetMotion(sampled), position |-> None]
        ELSE IF ~Confirmed(turned, assist, up)
        THEN [filter |-> turned, position |-> None]
        ELSE PublishPosition(turned, config, idle, assist, up, GateOf(value, config), Smoothed(turned, value))

\* is_switch_filtered(): the last level is kept in the place of the last value.
FilterSwitch(f, config, raw) ==
    LET value == Limited(raw, LowerRaw(config), UpperRaw(config))
        level == IF value < ThresholdOff THEN 0 ELSE IF value > ThresholdOn THEN 1 ELSE None
    IN  IF level = None \/ level = f.value THEN [filter |-> f, position |-> None]
        ELSE [filter |-> [f EXCEPT !.value = level],
              position |-> IF f.value = None /\ level = 0 THEN None ELSE level]

\* is_filtered()
Filter(f, config, raw, elapsed) ==
    IF config.type = "Switch" THEN FilterSwitch(f, config, raw) ELSE FilterSample(f, config, raw, elapsed)
=============================================================================
