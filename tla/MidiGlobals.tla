---------------------------- MODULE MidiGlobals -----------------------------
(***************************************************************************)
(* What the inputs share: the bounded counter of util/incdec, and the two  *)
(* singletons built on it, the MIDI program with its offset                *)
(* (global/midi_program.h) and the tempo (global/bpm.h).                   *)
(*                                                                         *)
(* The singletons are a record, so that a mapper can be an operator from   *)
(* the state before an event to the state after it.  One MIDI channel.     *)
(***************************************************************************)
EXTENDS Integers

CONSTANTS
    Max7,      \* MAX_VALUE_7BIT, also MIDI_PROGRAM_MAX_VALUE
    Max14,     \* largest 14-bit value
    Cc14MaxIndex, \* CONTROL_CHANGE_14BIT_MAX_INDEX
    BpmMin,    \* BPM_MIN_VALUE
    BpmMax,    \* BPM_MAX_VALUE
    BpmDefault

ASSUME GlobalsAssumption ==
    /\ Max7 \in Nat \ {0}
    /\ BpmMin \in Nat /\ BpmMax \in Nat /\ BpmDefault \in BpmMin .. BpmMax

\* IncDec::increment(): the edge is the largest value; the overflow drops a full turn of steps.
Increment(value, steps, max, wraps) ==
    IF max - value >= steps THEN value + steps
    ELSE IF wraps THEN (value + (steps % max)) % (max + 1) ELSE max

\* IncDec::decrement() with Type::Edge: only a value below the steps is taken to the smallest value.
Decrement(value, steps, min) ==
    IF value < steps THEN min ELSE value - steps

Globals == [program : Nat, offset : Nat, bpm : Nat]
GlobalsAtBoot == [program |-> 0, offset |-> 0, bpm |-> BpmDefault]

\* MidiProgram: a program change moves by one step and the offset.
ProgramUp(g) == [g EXCEPT !.program = Increment(@, 1 + g.offset, Max7, FALSE)]
ProgramDown(g) == [g EXCEPT !.program = Decrement(@, 1 + g.offset, 0)]
OffsetUp(g, steps) == [g EXCEPT !.offset = Increment(@, steps, Max7, FALSE)]
OffsetDown(g, steps) == [g EXCEPT !.offset = Decrement(@, steps, 0)]

\* set_program(), for a program change that was received: refused above the largest program.
SetProgram(g, program) ==
    IF program + g.offset > Max7 THEN g ELSE [g EXCEPT !.program = program + g.offset]

BpmUp(g) == [g EXCEPT !.bpm = Increment(@, 1, BpmMax, FALSE)]
BpmDown(g) == [g EXCEPT !.bpm = Decrement(@, 1, BpmMin)]
=============================================================================
