------------------------------ MODULE Digital -------------------------------
(***************************************************************************)
(* The digital inputs: the driver and its numbering, the frame store, and  *)
(* the thread that hands every frame to the switches and then to the       *)
(* encoders (firmware/src/io/digital), with what the other threads do to   *)
(* them: freezes, refreshes, configuration writes, presets and the values  *)
(* that the host sends to the encoders.                                    *)
(***************************************************************************)
EXTENDS Switches, Encoders

CONSTANTS
    Columns,      \* columns of a matrix driver; 0 for the native and the shift register drivers
    EncoderSections, \* sections of an encoder that are written
    SyncValues,   \* values the host sends to the encoders
    Databases,    \* contents the database may have: a sequence of presets, [switches, encoders]
    MaxFreezes    \* bound on the freezes of a run

\* There is a digital input, and a preset, and every preset has a setting for every switch and encoder.
ASSUME DigitalAssumption ==
    /\ 0 \in DigitalInputs
    /\ Databases \subseteq Seq([switches : SwitchConfigs, encoders : [EncoderIndices -> EncoderSettings]]) \ {<<>>}

VARIABLES
    frame,    \* FrameStore: the frame that is being processed
    job,      \* where the digital thread is: [at, next]
    held,     \* a result that process_switch() has not published yet
    ioFrozen, \* io::Base::frozen
    preset,   \* the selected preset
    database, \* the settings of the other presets
    freezes   \* freezes so far

digitalVars == <<switchVars, encoderVars, globals, frame, job, held, ioFrozen, preset, database, freezes>>
threadVars == <<frame, job, held>>
environmentVars == <<ioFrozen, preset, database, freezes>>

Idle == [at |-> "idle", next |-> 0]
NoFrame == [i \in DigitalInputs |-> FALSE]
\* scan() of a driver: the level of every input, in one frame.
Frames == [DigitalInputs -> BOOLEAN]

DigitalInit ==
    /\ SwitchInit
    /\ EncoderInit
    /\ frame = NoFrame
    /\ job = Idle
    /\ held = "none"
    /\ ioFrozen = FALSE
    /\ preset = 1
    /\ database \in Databases
    /\ switchConfig = database[1].switches
    /\ encoderConfig = database[1].encoders
    /\ freezes = 0

---------------------------------------------------------------------------
(* The numbering of the drivers *)

\* switch_to_encoder_index(): neighbours share an encoder, in a matrix the rows of a pair.
SwitchToEncoder(i) ==
    IF Columns = 0 THEN i \div 2
    ELSE LET row == i \div Columns
         IN  (((row - (row % 2)) * Columns) \div 2) + (i % Columns)

\* encoder_component_from_encoder(): the inputs of phase A and phase B.
EncoderInput(e, component) ==
    IF Columns = 0 THEN 2 * e + (IF component = "A" THEN 0 ELSE 1)
    ELSE LET base == (e \div Columns) * 2 * Columns + (e % Columns)
         IN  IF component = "A" THEN base ELSE base + Columns

\* FrameStore::encoder_state()
PairOf(e) ==
    (IF frame[EncoderInput(e, "A")] THEN 2 ELSE 0) + (IF frame[EncoderInput(e, "B")] THEN 1 ELSE 0)

\* Switches::state(): an input of an enabled encoder is no switch.
Claimed(i) ==
    LET e == SwitchToEncoder(i)
    IN  e \in EncoderIndices /\ encoderConfig[e].enabled

---------------------------------------------------------------------------
(* The digital thread *)

Job(at, next) == [at |-> at, next |-> next]
AfterSwitch(i) == IF i + 1 \in DigitalInputs THEN Job("switches", i + 1) ELSE Job("encoders", 0)
AfterEncoder(e) == IF e + 1 \in EncoderIndices THEN Job("encoders", e + 1) ELSE Idle

\* A new frame, while I/O runs, and the check of the flag by Switches::process_state_changes().
Scan ==
    /\ job = Idle /\ ~ioFrozen
    /\ frame' \in Frames
    /\ job' = Job("switches", 0)
    /\ UNCHANGED <<switchVars, encoderVars, globals, held, environmentVars>>

\* One switch of the frame: the filter, then the mapper; the result is still to be published.
SwitchTurn ==
    /\ job.at = "switches"
    /\ LET i == job.next
           samples == Shifted(i, frame[i])
       IN  IF Claimed(i)
           THEN job' = AfterSwitch(i) /\ UNCHANGED <<switchVars, globals, held>>
           ELSE /\ debounce' = [debounce EXCEPT ![i] = samples]
                /\ unreported' = IF Stable(samples, frame[i]) THEN Pending(i, frame[i]) ELSE unreported
                /\ IF Stable(samples, frame[i]) /\ switch[i].pressed # frame[i]
                   THEN /\ ApplyReading(i, frame[i])
                        /\ held' = Build(switch[i], globals, switchConfig[i], frame[i], FALSE)
                        /\ job' = Job("publish", i)
                   ELSE job' = AfterSwitch(i) /\ UNCHANGED <<switch, globals, held>>
                /\ UNCHANGED <<switchConfig, hostSwitch, hostNote, changes>>
    /\ UNCHANGED <<encoderVars, frame, environmentVars>>

\* publish_result(), which reads the flag again.
PublishTurn ==
    /\ job.at = "publish"
    /\ PublishReading(job.next, held, ioFrozen)
    /\ held' = "none"
    /\ job' = AfterSwitch(job.next)
    /\ UNCHANGED <<switch, globals, debounce, switchConfig, changes, encoderVars, frame, environmentVars>>

\* One encoder of the frame; the flag is checked before the first one only.
EncoderTurn ==
    /\ job.at = "encoders"
    /\ LET e == job.next
           skip == e = 0 /\ ioFrozen
       IN  /\ job' = IF skip THEN Idle ELSE AfterEncoder(e)
           /\ frame' = IF job' = Idle THEN NoFrame ELSE frame
           /\ IF skip \/ ~encoderConfig[e].enabled
              THEN UNCHANGED <<encoderVars, globals>>
              ELSE \E elapsed \in Elapsed(e) :
                    /\ ReadEncoder(e, globals, PairOf(e), elapsed)
                    /\ globals' = ProcessReading(e, globals, PairOf(e), elapsed).globals
    /\ UNCHANGED <<switchVars, held, environmentVars>>

DigitalThread == Scan \/ SwitchTurn \/ PublishTurn \/ EncoderTurn

---------------------------------------------------------------------------
(* The other threads *)

\* System freezes I/O, and resumes it at the end of a backup or of a refresh.
FreezeIo ==
    /\ ~ioFrozen /\ freezes < MaxFreezes
    /\ ioFrozen' = TRUE
    /\ freezes' = freezes + 1
    /\ UNCHANGED <<switchVars, encoderVars, globals, threadVars, preset, database>>
ResumeInputs ==
    /\ ioFrozen
    /\ ioFrozen' = FALSE
    /\ UNCHANGED <<switchVars, encoderVars, globals, threadVars, preset, database, freezes>>

\* Digital::force_refresh(): the switches are numbered before the encoders.
RefreshDigital ==
    /\ ioFrozen
    /\ \/ \E i \in DigitalInputs : RefreshSwitch(i) /\ UNCHANGED encoderVars
       \/ \E e \in EncoderIndices : RefreshEncoder(e, globals) /\ UNCHANGED <<switchVars, globals>>
    /\ UNCHANGED <<threadVars, environmentVars>>

WriteSwitch ==
    /\ \E i \in SwitchIndices, section \in {"type", "message", "value"} : SwitchWrite(i, section)
    /\ UNCHANGED <<encoderVars, threadVars, environmentVars>>

WriteEncoder ==
    /\ changes < MaxChanges
    /\ \E e \in EncoderIndices, section \in EncoderSections : EncoderWrite(e, section)
    /\ changes' = changes + 1
    /\ UNCHANGED <<switch, debounce, switchConfig, hostSwitch, hostNote, unreported, globals, threadVars,
                   environmentVars>>

SyncEncoder ==
    /\ \E mode \in {"ControlChange", "PitchBend"}, matches \in BOOLEAN, value \in SyncValues :
          /\ mode = "ControlChange" => value <= Max7
          /\ SyncEncoders(mode, matches, 0, value, ioFrozen)
    /\ UNCHANGED <<switchVars, globals, threadVars, environmentVars>>

\* A preset change replaces every setting and resets nothing.
ChangePreset ==
    /\ changes < MaxChanges
    /\ \E p \in DOMAIN database \ {preset} :
        /\ preset' = p
        /\ switchConfig' = database[p].switches
        /\ encoderConfig' = database[p].encoders
    /\ database' = [database EXCEPT ![preset] = [switches |-> switchConfig, encoders |-> encoderConfig]]
    /\ changes' = changes + 1
    /\ unreported' = unreported \cup {i \in SwitchIndices : switchConfig'[i] # switchConfig[i]}
    /\ hostEncoder' = [e \in EncoderIndices |-> NoValue]
    /\ UNCHANGED <<switch, debounce, hostSwitch, hostNote, encoder, rawRun, globals, threadVars, ioFrozen, freezes>>

DigitalNext ==
    \/ DigitalThread \/ FreezeIo \/ ResumeInputs \/ RefreshDigital \/ WriteSwitch \/ WriteEncoder \/ SyncEncoder
    \/ ChangePreset
DigitalSpec == DigitalInit /\ [][DigitalNext]_digitalVars

---------------------------------------------------------------------------
(* Properties *)

\* Types of the digital inputs.
DigitalTypeOK ==
    /\ SwitchTypeOK
    /\ EncoderTypeOK
    /\ frame \in Frames
    /\ job.at \in {"idle", "switches", "publish", "encoders"}
    /\ ioFrozen \in BOOLEAN

\* Switches::publish_result(): the host knows the state of every switch, over OSC and as a note,
\* unless the change was cut off by a freeze, a reset or a preset since the last refresh, or the
\* thread is about to publish it.
SwitchReported ==
    \A i \in SwitchIndices :
        i \in unreported \/ job = Job("publish", i) \/ Reported(i)

\* Switches::force_refresh(), build_result() with mutate off: a refresh moves no latch, no counter,
\* no program and no tempo.
RefreshChangesNothing == [][RefreshDigital => UNCHANGED <<switch, globals>>]_digitalVars

\* FilterHw of the encoders: a held direction turns over only after DirectionCount steps in a row
\* that the shaft made the other way.
DirectionHeld ==
    [][\A e \in EncoderIndices :
          {encoder[e].held, encoder'[e].held} = {"Cw", "Ccw"} =>
              rawRun'[e] = [direction |-> encoder'[e].held, length |-> DirectionCount]]_digitalVars

\* Mapper::result(), Mapper::last_result(): while no preset has been selected, what is sent or repeated
\* for an encoder whose lower limit has 7 bits fits into the message of its mode, whatever was written and
\* received before.  (A lower limit of 14 bits is clamped to after the mode, in any mode.)
SentValueFits ==
    preset = 1 =>
        \A e \in EncoderIndices :
            encoderConfig[e].mode \in Value7Modes => hostEncoder[e] \in NoValue .. Max7

\* Every variable of the inputs, and every value that goes out for an encoder, stays in its range.
InputsInRange == DigitalTypeOK /\ SentValueFits

\* global/bpm.h: the tempo stays within its limits.
BpmInRange == globals.bpm \in BpmMin .. BpmMax
=============================================================================
