------------------------------ MODULE Outputs -------------------------------
(***************************************************************************)
(* The outputs (firmware/src/io/outputs): the mapper from messages to      *)
(* levels and pulse speeds, the state of every output, the subscribers,    *)
(* the configuration writes and the thread that lets outputs pulse.        *)
(*                                                                         *)
(* The subscribers run on the dispatcher and take the mutex that the       *)
(* thread holds while it works.  A configuration write takes no mutex.     *)
(* The dispatcher is cooperative: it gets between any two steps of a       *)
(* thread, and a thread goes on when the dispatcher has no signal left or  *)
(* waits for the mutex.  The touchscreen components are outputs as well:   *)
(* what is written to them travels as a signal.                            *)
(***************************************************************************)
EXTENDS Integers, Sequences, FiniteSets, SequencesExt

CONSTANTS
    DigitalOutputs, TouchOutputs, \* indices, the touchscreen components behind the digital outputs
    LevelMax, Max7,
    OmniChannel,
    GroupSize,       \* MIDI_VALUE_GROUP_SIZE
    Speeds,          \* pulse speeds are 0 .. Speeds - 1, the last one is NoPulse
    TimerReset, ClockReset, \* updates between two toggles, by speed
    Dimmable,        \* the driver can set a level between off and on
    Presets,         \* sequences of [outputs, midiClock, useOffset]
    Offset,          \* MidiProgram.offset()
    Messages,        \* [kind, direction, data1, data2, channel] the outputs may be told of
    OscValues,
    Budgets,         \* bounds: how many messages, clocks, writes, freezes and touches a run may have
    MaxUpdates       \* bound on the updates that are requested ahead

ASSUME OutputsAssumption ==
    /\ DigitalOutputs \subseteq Nat /\ TouchOutputs \subseteq Nat /\ IsFiniteSet(TouchOutputs)
    /\ LevelMax \in Nat \ {0} /\ Max7 \in Nat \ {0}
    /\ Speeds \in Nat \ {0} /\ GroupSize \in Nat \ {0} /\ GroupSize % Speeds = 0
    /\ \A m \in Messages : m.data2 \in 0 .. Max7
    /\ OscValues \subseteq Int

VARIABLES
    output,   \* by index: [active, pulseOn, state : BOOLEAN, level, timer]
    shown,    \* the level that was written last, to the driver and over OSC
    pulse,    \* [mode, counter, state], the latter two by speed
    updates,  \* _update_semaphore
    forced,   \* _force_refresh_pending
    task,     \* where the thread is: [at, force, speed, next, read]
    preset, config, \* the selected preset and its settings
    bus,      \* signals between Outputs and Touchscreen that the dispatcher has not handled
    ioFrozen, budget,
    joined,   \* ghost: outputs that toggled since their speed or level was set
    raced     \* ghost: outputs whose level was set while the thread was writing them

pulseState == <<pulse, updates, forced, task>>
levelState == <<output, shown, bus, joined>>
settingState == <<preset, config>>
outputVars == <<levelState, pulseState, settingState, ioFrozen, budget, raced>>

OutputIndices == DigitalOutputs \cup TouchOutputs
NoPulse == Speeds - 1
SpeedSet == 0 .. Speeds - 1
Spend(what) == budget[what] > 0 /\ budget' = [budget EXCEPT ![what] = @ - 1]
Off == [active |-> FALSE, pulseOn |-> FALSE, state |-> FALSE, level |-> 0, timer |-> 0]

---------------------------------------------------------------------------
(* The mapper *)

MultiVal == {"MidiInNoteMultiVal", "LocalNoteMultiVal", "MidiInCcMultiVal", "LocalCcMultiVal"}
MatchingTypes(kind) ==
    CASE kind = "NoteOn" -> {"MidiInNoteSingleVal", "LocalNoteSingleVal", "MidiInNoteMultiVal", "LocalNoteMultiVal"}
      [] kind = "ControlChange" -> {"MidiInCcSingleVal", "LocalCcSingleVal", "MidiInCcMultiVal", "LocalCcMultiVal"}
      [] kind = "ProgramChange" -> {"PcSingleVal", "Preset"}
\* The types whose state a message of the direction sets.
SettingTypes(direction) ==
    {"PcSingleVal"} \cup
    (IF direction = "In"
     THEN {"MidiInNoteSingleVal", "MidiInCcSingleVal", "MidiInNoteMultiVal", "MidiInCcMultiVal"}
     ELSE {"LocalNoteSingleVal", "LocalCcSingleVal", "LocalNoteMultiVal", "LocalCcMultiVal"})

\* A note off is looked up, and its value used, like a note on.
Looked(kind) == IF kind = "NoteOff" THEN "NoteOn" ELSE kind

ActivationId(c, kind) ==
    IF kind = "ProgramChange" /\ config.useOffset THEN (c.id + Offset) % (Max7 + 1) ELSE c.id

SpeedOf(value) == IF value < GroupSize THEN NoPulse ELSE (value % GroupSize) \div (GroupSize \div Speeds)
LevelOf(value) == (value * LevelMax) \div Max7

\* Mapper::Action: the sentinel Keep leaves the speed or the level as it is.
Keep == -1
Action(speed, level) == [speed |-> speed, level |-> level]
NoAction == Action(Keep, Keep)

\* midi_result(), of one output.
MidiAction(o, m) ==
    LET c == config.outputs[o]
        kind == Looked(m.kind)
        hit == ActivationId(c, kind) = m.data1
    IN  IF \/ c.type \notin MatchingTypes(kind) \cap SettingTypes(m.direction)
           \/ c.channel \notin {OmniChannel, m.channel}
           \/ ~hit /\ kind # "ProgramChange"
        THEN NoAction
        ELSE IF kind = "ProgramChange" THEN Action(Keep, IF hit THEN LevelMax ELSE 0)
        ELSE IF c.type \in MultiVal THEN Action(SpeedOf(m.data2), LevelOf(m.data2))
        ELSE Action(Keep, IF c.value = m.data2 THEN LevelMax ELSE 0)

\* preset_result(), with the settings of the preset.
PresetAction(settings, o, number) ==
    LET c == settings.outputs[o]
        id == IF settings.useOffset THEN (c.id + Offset) % (Max7 + 1) ELSE c.id
    IN  IF c.type = "Preset" THEN Action(Keep, IF id = number THEN LevelMax ELSE 0) ELSE NoAction

\* osc_result()
OscAction(value) ==
    Action(Keep, IF value <= 0 THEN 0 ELSE IF value >= LevelMax THEN LevelMax ELSE value)

---------------------------------------------------------------------------
(* The state of an output *)

\* set_pulse_speed()
WithSpeed(out, speed) ==
    [out EXCEPT !.pulseOn = speed # NoPulse, !.state = speed # NoPulse \/ out.active, !.timer = speed]

\* set_level(): no level is reset_state(), which drops the pulsing.
WithLevel(out, level) ==
    IF level = 0 THEN [Off EXCEPT !.timer = out.timer]
    ELSE [out EXCEPT !.active = TRUE, !.state = TRUE, !.level = level]

\* apply_mapper_action()
Applied(out, action) ==
    LET faster == IF action.speed = Keep THEN out ELSE WithSpeed(out, action.speed)
    IN  IF action.level = Keep THEN faster ELSE WithLevel(faster, action.level)

\* HwaHw and the drivers: all but one can only be on or off.
Driven(o, level) == IF o \in DigitalOutputs /\ ~Dimmable /\ level > 0 THEN LevelMax ELSE level

Written(outputs, levels) ==
    [o \in OutputIndices |-> IF o \in outputs THEN Driven(o, levels[o]) ELSE shown[o]]
\* The n-th index of a set, in the order of a loop over all.
Nth(indices, n) == CHOOSE o \in indices : Cardinality({p \in indices : p < o}) = n - 1
LevelSignals(outputs, levels) ==
    LET told == outputs \cap TouchOutputs
    IN  [n \in 1 .. Cardinality(told) |->
            [kind |-> "level", index |-> Nth(told, n), on |-> levels[Nth(told, n)] # 0]]
\* write_level() of a set of outputs, in the order of their indices.
WriteLevels(outputs, levels) ==
    /\ shown' = Written(outputs, levels)
    /\ bus' = bus \o LevelSignals(outputs, levels)

LevelsOf(out) == [o \in OutputIndices |-> out[o].level]
\* Mutant: only a level is written, a reset is not.
ApplyActionsLit(actions) ==
    /\ output' = [o \in OutputIndices |-> Applied(output[o], actions[o])]
    /\ WriteLevels({o \in OutputIndices : actions[o].level \notin {Keep, 0}}, LevelsOf(output'))
    /\ joined' = joined \ {o \in OutputIndices : actions[o] # NoAction}
\* apply_mapper_result()
ApplyActions(actions) ==
    /\ output' = [o \in OutputIndices |-> Applied(output[o], actions[o])]
    /\ WriteLevels({o \in OutputIndices : actions[o].level # Keep}, LevelsOf(output'))
    /\ joined' = joined \ {o \in OutputIndices : actions[o] # NoAction}
ApplyAction(index, action) ==
    ApplyActions([o \in OutputIndices |-> IF o = index THEN action ELSE NoAction])

---------------------------------------------------------------------------
(* The thread *)

Task(at, force) == [at |-> at, force |-> force, speed |-> 0, next |-> 0, read |-> Off]
AtGate == Task("gate", FALSE)
\* The mutex is held from the check of the mode to the end of process_update().
Locked == task.at \in {"count", "read", "store", "write"}

RequestUpdate(force) ==
    /\ updates' = IF updates < MaxUpdates THEN updates + 1 ELSE updates
    /\ forced' = (forced \/ force)

\* init(): the outputs off, the static ones on, the ones of the preset by its number.
InitialOutput(settings, number, o) ==
    LET base == IF settings.outputs[o].type = "Static" THEN WithLevel(Off, LevelMax) ELSE Off
    IN  Applied(base, PresetAction(settings, o, number))
PulseMode(settings) == IF settings.midiClock THEN "MidiClock" ELSE "Timer"

OutputsInit ==
    /\ \E p \in Presets : config = p[1] /\ preset = p
    /\ output = [o \in OutputIndices |-> InitialOutput(config, 0, o)]
    /\ shown = [o \in OutputIndices |-> Driven(o, output[o].level)]
    /\ pulse = [mode |-> PulseMode(config), counter |-> [s \in SpeedSet |-> 0], state |-> [s \in SpeedSet |-> TRUE]]
    /\ updates = 1 /\ forced = FALSE /\ task = AtGate
    /\ ioFrozen = FALSE /\ budget \in Budgets
    /\ joined = {} /\ raced = {}

PassGate ==
    /\ task.at = "gate" /\ ~ioFrozen
    /\ task' = Task("wait", FALSE)
    /\ UNCHANGED <<levelState, pulse, updates, forced, settingState, ioFrozen, budget, raced>>

\* wait_for_update() and the exchange of the flag.
TakeUpdate ==
    /\ task.at = "wait" /\ updates > 0
    /\ updates' = updates - 1
    /\ forced' = FALSE
    /\ task' = Task("process", forced)
    /\ UNCHANGED <<levelState, pulse, settingState, ioFrozen, budget, raced>>

\* process_update() up to the counters: in timer mode the time since the last update decides.
CheckMode ==
    /\ task.at = "process"
    /\ \E elapsed \in BOOLEAN :
        LET due == ~ioFrozen /\ IF pulse.mode = "Timer" THEN elapsed ELSE task.force
        IN  task' = IF due THEN [task EXCEPT !.at = "count"] ELSE AtGate
    /\ UNCHANGED <<levelState, pulse, updates, forced, settingState, ioFrozen, budget, raced>>

Reset(speed) == IF pulse.mode = "Timer" THEN TimerReset[speed] ELSE ClockReset[speed]
Toggles(speed) == pulse.counter[speed] + 1 >= Reset(speed)
NextSpeed(t) == IF t.speed + 1 \in SpeedSet THEN [t EXCEPT !.at = "count", !.speed = @ + 1] ELSE AtGate
\* The first output from o on that pulses with the speed, as the loop will find it.
Pulsing(speed, o) == output[o].pulseOn /\ output[o].timer = speed
Following(o) == {p \in OutputIndices : p >= o}
NextOutput(t, o) ==
    LET ahead == {p \in Following(o) : Pulsing(t.speed, p)}
    IN  IF ahead = {} THEN NextSpeed(t)
        ELSE [t EXCEPT !.at = "read", !.next = CHOOSE p \in ahead : \A q \in ahead : p <= q]

\* The counter of one speed, and whether its outputs toggle.
Count ==
    /\ task.at = "count"
    /\ LET s == task.speed
       IN  IF Toggles(s)
           THEN /\ pulse' = [pulse EXCEPT !.counter[s] = 0, !.state[s] = ~@]
                /\ task' = NextOutput(task, 0)
           ELSE /\ pulse' = [pulse EXCEPT !.counter[s] = @ + 1]
                /\ task' = NextSpeed(task)
    /\ UNCHANGED <<levelState, updates, forced, settingState, ioFrozen, budget, raced>>

\* update_bit() reads the bits of an output that pulses ...
ReadBits ==
    /\ task.at = "read"
    /\ task' = IF Pulsing(task.speed, task.next)
               THEN [task EXCEPT !.at = "store", !.read = output[task.next]]
               ELSE NextOutput(task, task.next + 1)
    /\ UNCHANGED <<levelState, pulse, updates, forced, settingState, ioFrozen, budget, raced>>

\* Mutant: an output toggles from the state it has.
ToggledState(read, speed) == ~read.state
\* The pulse state of the speed is the state of all of its outputs.
Toggled(read, speed) == pulse.state[speed]

\* ... and stores them; the level to write is computed next.
StoreBits ==
    /\ task.at = "store"
    /\ LET o == task.next
           state == Toggled(task.read, task.speed)
       IN  /\ output' = [output EXCEPT ![o] = [task.read EXCEPT !.state = state, !.level = output[o].level,
                                                                 !.timer = output[o].timer]]
           /\ task' = [task EXCEPT !.at = "write", !.read = [@ EXCEPT !.level = IF state THEN output[o].level ELSE 0]]
           /\ joined' = joined \cup {o}
    /\ UNCHANGED <<shown, bus, pulse, updates, forced, settingState, ioFrozen, budget, raced>>

WriteToggled ==
    /\ task.at = "write"
    /\ WriteLevels({task.next}, [o \in OutputIndices |-> task.read.level])
    /\ task' = NextOutput(task, task.next + 1)
    /\ UNCHANGED <<output, joined, pulse, updates, forced, settingState, ioFrozen, budget, raced>>

OutputsThread ==
    /\ bus = <<>> \/ Locked
    /\ PassGate \/ TakeUpdate \/ CheckMode \/ Count \/ ReadBits \/ StoreBits \/ WriteToggled

---------------------------------------------------------------------------
(* The subscribers; all of them return at once while I/O is frozen. *)

\* UmpSignal, MidiIoSignal and InternalProgram: a channel message.
HandleMessage(m) ==
    /\ Spend("messages")
    /\ ~ioFrozen /\ ~Locked
    /\ ApplyActions([o \in OutputIndices |-> MidiAction(o, m)])
    /\ RequestUpdate(FALSE)
    /\ UNCHANGED <<pulse, task, settingState, ioFrozen, raced>>

HandleOsc(o, value) ==
    /\ Spend("messages")
    /\ ~ioFrozen /\ ~Locked
    /\ ApplyAction(o, OscAction(value))
    /\ RequestUpdate(FALSE)
    /\ UNCHANGED <<pulse, task, settingState, ioFrozen, raced>>

\* SysRealTimeClock takes no mutex.
HandleClock ==
    /\ Spend("clocks")
    /\ ~ioFrozen
    /\ RequestUpdate(TRUE)
    /\ UNCHANGED <<levelState, pulse, task, settingState, ioFrozen, raced>>

\* SysRealTimeStart: reset_pulsing()
HandleStart ==
    /\ Spend("clocks")
    /\ ~ioFrozen /\ ~Locked
    /\ pulse' = [pulse EXCEPT !.counter = [s \in SpeedSet |-> 0], !.state = [s \in SpeedSet |-> TRUE]]
    /\ RequestUpdate(TRUE)
    /\ UNCHANGED <<levelState, task, settingState, ioFrozen, raced>>

\* PresetChanged: all outputs off, then the ones of the preset by its number; the static ones stay off.
\* Other subscribers of the signal may add to the bus.
PresetOutputs(number, others) ==
    LET actions == [o \in OutputIndices |-> PresetAction(config', o, number)]
        written == {o \in OutputIndices : actions[o].level # Keep}
    IN  /\ output' = [o \in OutputIndices |-> Applied(WithLevel(output[o], 0), actions[o])]
        /\ shown' = Written(OutputIndices, LevelsOf(output'))
        /\ bus' = bus \o LevelSignals(OutputIndices, [o \in OutputIndices |-> 0])
                      \o LevelSignals(written, LevelsOf(output')) \o others
        /\ joined' = {}
ChangePreset(number, others) ==
    /\ Spend("writes")
    /\ config' = preset[number + 1]
    /\ IF ioFrozen
       THEN bus' = bus \o others /\ UNCHANGED <<output, shown, joined, updates, forced>>
       ELSE ~Locked /\ PresetOutputs(number, others) /\ RequestUpdate(FALSE)
    /\ UNCHANGED <<pulse, task, preset, ioFrozen, raced>>

\* Mutant: an update is requested and nothing is written.
ScreenChangedQuietly ==
    /\ bus # <<>> /\ Head(bus).kind = "screen"
    /\ IF ioFrozen THEN UNCHANGED <<updates, forced>> ELSE ~Locked /\ RequestUpdate(FALSE)
    /\ bus' = Tail(bus)
    /\ UNCHANGED <<output, shown, joined, pulse, task, settingState, ioFrozen, budget, raced>>
\* TouchscreenScreenChangedSignal, at the head of the bus: the levels are written again.
ScreenChanged ==
    /\ bus # <<>> /\ Head(bus).kind = "screen"
    /\ IF ioFrozen
       THEN bus' = Tail(bus) /\ UNCHANGED <<shown, updates, forced>>
       ELSE /\ ~Locked
            /\ RequestUpdate(FALSE)
            /\ shown' = Written(TouchOutputs, LevelsOf(output))
            /\ bus' = Tail(bus) \o LevelSignals(TouchOutputs, LevelsOf(output))
    /\ UNCHANGED <<output, joined, pulse, task, settingState, ioFrozen, budget, raced>>

---------------------------------------------------------------------------
(* sys_config_set(), which takes no mutex, and what System does *)

SetLevelUnlocked(o, level) ==
    /\ output' = [output EXCEPT ![o] = WithLevel(@, level)]
    /\ WriteLevels({o}, LevelsOf(output'))
    /\ joined' = joined \ {o}
    /\ raced' = IF task.at \in {"store", "write"} /\ task.next = o THEN raced \cup {o} ELSE raced \ {o}

WriteState(o) ==
    /\ Spend("writes")
    /\ \E level \in {0, LevelMax} : SetLevelUnlocked(o, level)
    /\ UNCHANGED <<pulseState, settingState, ioFrozen>>

\* The control type: the output is reset before the database has the type.
WriteType(o) ==
    /\ Spend("writes")
    /\ \E p \in DOMAIN preset :
        LET c == preset[p].outputs[o]
        IN  /\ config' = [config EXCEPT !.outputs[o].type = c.type]
            /\ SetLevelUnlocked(o, IF c.type = "Static" THEN LevelMax ELSE 0)
    /\ UNCHANGED <<pulseState, preset, ioFrozen>>

\* set_pulse_mode(): the counters go on as they are.
WritePulseMode ==
    /\ Spend("writes")
    /\ config' = [config EXCEPT !.midiClock = ~@]
    /\ pulse' = [pulse EXCEPT !.mode = PulseMode(config')]
    /\ UNCHANGED <<levelState, updates, forced, task, preset, ioFrozen, raced>>

\* force_refresh() of one output, by System, which has frozen I/O.
RefreshOutput(o) ==
    /\ Spend("messages")
    /\ ioFrozen /\ ~Locked
    /\ WriteLevels({o}, LevelsOf(output))
    /\ UNCHANGED <<output, joined, pulseState, settingState, ioFrozen, raced>>

FreezeOutputs ==
    /\ Spend("freezes")
    /\ ~ioFrozen
    /\ ioFrozen' = TRUE
    /\ UNCHANGED <<levelState, pulseState, settingState, raced>>
ResumeOutputs ==
    /\ ioFrozen
    /\ ioFrozen' = FALSE
    /\ UNCHANGED <<levelState, pulseState, settingState, budget, raced>>

OutputsNext ==
    \/ OutputsThread
    \/ \E m \in Messages : HandleMessage(m)
    \/ \E o \in OutputIndices :
          (\E value \in OscValues : HandleOsc(o, value)) \/ WriteState(o) \/ WriteType(o) \/ RefreshOutput(o)
    \/ HandleClock \/ HandleStart
    \/ WritePulseMode \/ FreezeOutputs \/ ResumeOutputs

---------------------------------------------------------------------------
(* Properties *)

\* write_level(): what an output shows is its level; one that pulses may also be dark.  A write that the
\* thread overtakes is exempt, until the output is set again.
ShownIsHeld ==
    \A o \in OutputIndices \ raced :
        \/ task.at \in {"store", "write"} /\ task.next = o
        \/ shown[o] = Driven(o, output[o].level)
        \/ output[o].pulseOn /\ shown[o] = 0

\* process_update(): outputs of one speed toggle together, so once they have toggled they are lit and dark
\* at the same time, whatever was set, refreshed, restarted or changed from the clock to the timer.
PulsesTogether ==
    \A o, p \in joined :
        ~Locked /\ output[o].pulseOn /\ output[p].pulseOn /\ output[o].timer = output[p].timer =>
            output[o].state = output[p].state
=============================================================================
