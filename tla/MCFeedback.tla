----------------------------- MODULE MCFeedback -----------------------------
(* Instances of the outputs with the touchscreen for TLC: 0 is an output, 1 and 2 are icons.  With *)
(* groups of 6 values and 3 speeds the values 12 and 14 give the two speeds.                       *)
EXTENDS Touchscreen, TLC

MCOut(type, id) == [type |-> type, id |-> id, value |-> 12, channel |-> 1]
MCPreset(a, b, c, clock, offset) ==
    [outputs |-> (0 :> a) @@ (1 :> b) @@ (2 :> c), midiClock |-> clock, useOffset |-> offset]
MCPulsing(clock) ==
    MCPreset(MCOut("MidiInNoteMultiVal", 0), MCOut("MidiInNoteMultiVal", 0),
             [MCOut("LocalNoteSingleVal", 0) EXCEPT !.channel = OmniChannel], clock, FALSE)
MCPrograms == MCPreset(MCOut("Preset", 0), MCOut("PcSingleVal", 1), MCOut("Static", 1), FALSE, TRUE)
MCPresets == {<<MCPulsing(TRUE), MCPrograms>>, <<MCPulsing(FALSE), MCPrograms>>, <<MCPrograms, MCPulsing(TRUE)>>}

MCMessage(kind, direction, data1, data2) ==
    [kind |-> kind, direction |-> direction, data1 |-> data1, data2 |-> data2, channel |-> 1]
MCMessages ==
    {MCMessage("NoteOn", "In", 0, 12), MCMessage("NoteOn", "In", 0, 14), MCMessage("NoteOff", "Out", 0, 12),
     MCMessage("ProgramChange", "In", 2, 0)}

MCTimerReset == [s \in 0 .. 2 |-> IF s = 0 THEN 2 ELSE IF s = 1 THEN 1 ELSE 0]
MCClockReset == [s \in 0 .. 2 |-> IF s = 0 THEN 2 ELSE IF s = 1 THEN 1 ELSE 3]
MCIconScreens == (1 :> [on |-> 1, off |-> 0]) @@ (2 :> [on |-> 3, off |-> 2])
MCOscValues == {-1, 50}
MCTouchEnabled == <<TRUE, FALSE>>
MCBudget(m, c, w, f, t) == [messages |-> m, clocks |-> c, writes |-> w, freezes |-> f, touches |-> t]
MCBudgets ==
    {MCBudget(2, 2, 0, 0, 0), MCBudget(1, 2, 1, 0, 0), MCBudget(1, 0, 1, 0, 1), MCBudget(1, 0, 0, 1, 1),
     MCBudget(1, 1, 0, 1, 0), MCBudget(0, 0, 1, 1, 1),
     MCBudget(0, 0, 2, 0, 1)}

\* One message, with the timer.
MCTimerPresets == {<<MCPulsing(FALSE)>>}
MCTimerBudgets == {MCBudget(1, 0, 0, 0, 0)}
=============================================================================
