------------------------------- MODULE Analog -------------------------------
(***************************************************************************)
(* The analog inputs (firmware/src/io/analog): the scanning driver, the    *)
(* mapper, the controller and its thread, with the signals that an input   *)
(* or a touchscreen component used as a switch sends to the switches.      *)
(*                                                                         *)
(* A signal waits in the queue of the dispatcher until the switches handle *)
(* it.  Writing the enable flag or the type of an input takes the writer   *)
(* three steps, which the analog thread can get between.                   *)
(***************************************************************************)
EXTENDS AnalogFilter, Switches, SequencesExt

CONSTANTS
    AnalogIndices,
    AnalogSettings, \* of every input: [enabled, type, inverted, lower, upper, id, lowerOffset, upperOffset]
    AnalogPresets,  \* sequences of [AnalogIndices -> setting]
    Levels,         \* what the ADC may see
    SwitchIndexOf,  \* function: the switch of an analog input
    TouchSwitches,  \* switches of touchscreen components; PageSwitches of them change the screen
    PageSwitches,
    Budgets,        \* bounds: how many moves, freezes, touches and writes a run may have
    MaxSignals,     \* bound on the queued signals
    SettleSamples   \* samples in which the filter of a resting control settles

\* The groups of inputs follow each other in the numbering of the switches.
ASSUME SwitchIndexAssumption ==
    /\ TouchSwitches \cup {SwitchIndexOf[i] : i \in AnalogIndices} \subseteq OtherInputs
    /\ \A i, j \in AnalogIndices : i # j => SwitchIndexOf[i] # SwitchIndexOf[j]
    /\ \A i \in AnalogIndices : SwitchIndexOf[i] \notin TouchSwitches
\* There is a preset, and every preset has a setting for every input.
ASSUME AnalogAssumption ==
    /\ AnalogIndices \subseteq Nat \ {0}
    /\ AnalogPresets \subseteq Seq([AnalogIndices -> UNION {AnalogSettings[i] : i \in AnalogIndices}]) \ {<<>>}

VARIABLES
    filter,       \* FilterHw, by input
    last,         \* Mapper::_last_value
    analogConfig, \* Section::Analog of the database
    analogPreset, otherPresets,
    scanMask,     \* the inputs the driver samples
    analogFrame,  \* the frame being processed, all zero at first
    analogJob,    \* the input that is processed next, 0 when the thread is idle
    result,       \* of the mapper, to be published: [index, config, sent, last] or NoResult
    writer,       \* sys_config_set() between its steps: [step, index, config], or NoWriter
    signals,      \* MidiIoSignal of switches, on the way to the subscriber
    hostForce,    \* last note message of a force sensor
    resting,      \* ghost: samples of an input since its level or its settings changed, up to SettleSamples
    unheard,      \* ghost: inputs whose last change was not published or whose settings changed since
    cutOff,       \* ghost: switches that missed a signal
    level, frozen, budget, \* the voltages; io::Base::frozen; what is left of the bounds
    touched       \* components that are pressed on the screen

analogState == <<filter, last, result, analogFrame, analogJob>>
settingsState == <<analogConfig, analogPreset, otherPresets, scanMask, writer>>
hostState == <<hostForce, unheard>>
ghosts == <<resting, cutOff>>
worldState == <<level, frozen, budget, touched>>
analogVars == <<analogState, settingsState, hostState, worldState, signals, ghosts, switchVars, globals>>

NothingLast == [pressed |-> FALSE, value |-> 0, max |-> 0, valid |-> FALSE]
NoResult == [index |-> 0]
NoWriter == [step |-> "none"]
Unsent == [message |-> "none", value |-> None]
Spend(what) == budget[what] > 0 /\ budget' = [budget EXCEPT ![what] = @ - 1]
Stirred(inputs) == [i \in AnalogIndices |-> IF i \in inputs THEN 0 ELSE resting[i]]
EnabledInputs(config) == {i \in AnalogIndices : config[i].enabled}

\* init(): the mask of the preset, and every input reset.
AnalogInit ==
    /\ SwitchInit
    /\ \E p \in AnalogPresets : analogConfig = p[1] /\ otherPresets = Tail(p)
    /\ analogPreset = 1
    /\ scanMask = EnabledInputs(analogConfig)
    /\ filter = [i \in AnalogIndices |-> NewFilter]
    /\ last = [i \in AnalogIndices |-> NothingLast]
    /\ analogFrame = [i \in AnalogIndices |-> 0] /\ analogJob = 0 /\ result = NoResult /\ writer = NoWriter
    /\ signals = <<>> /\ cutOff = {}
    /\ hostForce = [i \in AnalogIndices |-> "NoteOff"]
    /\ unheard = {} /\ resting = [i \in AnalogIndices |-> 0]
    /\ level \in [AnalogIndices -> Levels]
    /\ frozen = FALSE /\ touched = {}
    /\ budget \in Budgets

---------------------------------------------------------------------------
(* The mapper *)

Wide(config) == config.type \in {"Nrpn14Bit", "PitchBend", "ControlChange14Bit"}
OutputMax(config) == IF config.type = "Switch" THEN 1 ELSE IF Wide(config) THEN Max14 ELSE Max7
Limit(value, config) == IF Wide(config) THEN value ELSE value % (Max7 + 1)

\* compute_value(): the travel is laid between the limits, in either order.
Computed(position, config) ==
    LET low == Limit(config.lower, config)
        high == Limit(config.upper, config)
        swapped == low > high
        mapped == IF swapped THEN MapRange(position, 0, PositionMax, high, low)
                  ELSE MapRange(position, 0, PositionMax, low, high)
    IN  Limited(IF swapped # config.inverted THEN high + low - mapped ELSE mapped, 0, OutputMax(config))

MessageOf(config) ==
    CASE config.type \in {"Note", "Fsr"} -> "NoteOn" [] config.type = "Switch" -> "Invalid" [] OTHER -> config.type
SentAs(config, pressed, value) ==
    IF config.type = "ControlChange14Bit" /\ config.id >= Cc14MaxIndex THEN Unsent
    ELSE IF config.type = "Fsr" /\ ~pressed THEN [message |-> "NoteOff", value |-> 0]
    ELSE [message |-> MessageOf(config), value |-> value]

\* Mapper::result(): the next state, and what is sent, for a position that changes the value.
MapPosition(old, config, position) ==
    LET value == IF config.type = "Switch" THEN position ELSE Computed(position, config)
        pressed == config.type = "Fsr" /\ value > 0
        next == [pressed |-> pressed, value |-> value, max |-> OutputMax(config), valid |-> TRUE]
    IN  [last |-> next, changed |-> config.type = "Switch" \/ [next EXCEPT !.pressed = old.pressed] # old,
         sent |-> IF config.type = "Fsr" /\ old.pressed = pressed THEN Unsent ELSE SentAs(config, pressed, value)]

---------------------------------------------------------------------------
(* The controller *)

\* publish_result(): the last note message of the input is what the host goes by.
ForceTold(i, sent) ==
    hostForce' = IF sent.message \in {"NoteOn", "NoteOff"} THEN [hostForce EXCEPT ![i] = sent.message] ELSE hostForce

\* ScanDriverBase::read(): the inputs of the mask, the others read as zero.
Sampled == [i \in AnalogIndices |-> IF i \in scanMask THEN level[i] ELSE 0]

\* The thread takes a frame.
ScanAnalog ==
    /\ analogJob = 0 /\ ~frozen
    /\ analogFrame' = Sampled
    /\ analogJob' = 1
    /\ UNCHANGED <<filter, last, result, settingsState, hostState, worldState, signals, ghosts, switchVars, globals>>

AfterInput == IF analogJob + 1 \in AnalogIndices THEN analogJob + 1 ELSE 0
\* process_reading(): the filter and the mapper; what they give is still to be published.
AnalogTurn ==
    /\ analogJob \in AnalogIndices /\ result = NoResult
    /\ LET i == analogJob
           config == analogConfig[i]
           skip == frozen \/ ~config.enabled
       IN  \E elapsed \in (IF filter[i].moved THEN {"recent", "expired"} ELSE {"recent"}) :
            LET f == Filter(filter[i], config, analogFrame[i], elapsed)
                r == MapPosition(last[i], config, f.position)
                publishes == f.position # None /\ r.changed
            IN  /\ filter' = IF skip THEN filter ELSE [filter EXCEPT ![i] = f.filter]
                /\ last' = IF skip \/ ~publishes THEN last ELSE [last EXCEPT ![i] = r.last]
                /\ IF skip \/ ~publishes THEN result' = NoResult /\ analogJob' = AfterInput
                   ELSE result' = [index |-> i, config |-> config, sent |-> r.sent, last |-> r.last]
                        /\ UNCHANGED analogJob
                /\ resting' = IF skip THEN resting
                              ELSE IF analogFrame[i] = level[i]
                              THEN [resting EXCEPT ![i] = Limited(@ + 1, 0, SettleSamples)] ELSE Stirred({i})
    /\ UNCHANGED <<analogFrame, settingsState, hostState, worldState, signals, cutOff, switchVars, globals>>

\* publish_result() and publish_switch(): dropped in a freeze.  A switch goes to the queue.
PublishAnalog ==
    /\ result # NoResult
    /\ LET i == result.index
           fresh == result.config = analogConfig[i] /\ result.last = last[i]
       IN  IF result.config.type = "Switch"
           THEN /\ frozen \/ Len(signals) < MaxSignals
                /\ signals' = IF frozen THEN signals
                              ELSE Append(signals, [switch |-> SwitchIndexOf[i], value |-> result.last.value = 1])
                /\ cutOff' = IF frozen \/ ~fresh THEN cutOff \cup {SwitchIndexOf[i]} ELSE cutOff \ {SwitchIndexOf[i]}
                /\ UNCHANGED hostState
           ELSE /\ IF frozen THEN UNCHANGED hostForce ELSE ForceTold(i, result.sent)
                /\ unheard' = IF frozen \/ ~fresh THEN unheard \cup {i}
                              ELSE IF result.sent = Unsent THEN unheard ELSE unheard \ {i}
                /\ UNCHANGED <<signals, cutOff>>
    /\ result' = NoResult
    /\ analogJob' = AfterInput
    /\ UNCHANGED <<filter, last, analogFrame, settingsState, worldState, resting, switchVars, globals>>

AnalogThread == ScanAnalog \/ AnalogTurn \/ PublishAnalog

\* force_refresh(), under the state mutex: the last value again, whatever settings it was made with.
RefreshAnalog ==
    /\ frozen /\ analogJob = 0
    /\ \E i \in EnabledInputs(analogConfig) :
        /\ last[i].valid
        /\ IF analogConfig[i].type = "Switch"
           THEN /\ Len(signals) < MaxSignals
                /\ signals' = Append(signals, [switch |-> SwitchIndexOf[i], value |-> last[i].value = 1])
                /\ UNCHANGED hostState
           ELSE /\ ForceTold(i, SentAs(analogConfig[i], last[i].pressed, last[i].value))
                /\ unheard' = unheard \ {i}
                /\ UNCHANGED signals
    /\ UNCHANGED <<analogState, settingsState, worldState, ghosts, switchVars, globals>>

---------------------------------------------------------------------------
(* The settings *)

Section(c, d) == {s \in DOMAIN c : c[s] # d[s]}

\* sys_config_set(): the enable flag and the type reset the input first.
BeginWrite ==
    /\ writer = NoWriter /\ Spend("writes")
    /\ \E i \in AnalogIndices : \E c \in AnalogSettings[i] :
        /\ Cardinality(Section(c, analogConfig[i])) = 1
        /\ writer' = [step |-> "update", index |-> i, config |-> c]
        /\ IF Section(c, analogConfig[i]) \subseteq {"enabled", "type"}
           THEN /\ filter' = [filter EXCEPT ![i] = ResetFilter(@)]
                /\ last' = [last EXCEPT ![i] = NothingLast]
                /\ unheard' = unheard \cup {i}
                /\ cutOff' = cutOff \cup {SwitchIndexOf[i]}
                /\ resting' = Stirred({i})
           ELSE UNCHANGED <<filter, last, unheard, ghosts>>
    /\ UNCHANGED <<result, analogFrame, analogJob, analogConfig, analogPreset, otherPresets, scanMask, hostForce,
                   level, frozen, touched, signals, switchVars, globals>>

\* ... then the database,
UpdateWrite ==
    /\ writer.step = "update"
    /\ LET i == writer.index
           enabling == Section(writer.config, analogConfig[i]) = {"enabled"}
       IN  /\ analogConfig' = [analogConfig EXCEPT ![i] = writer.config]
           /\ writer' = IF enabling THEN [writer EXCEPT !.step = "mask"] ELSE NoWriter
           /\ unheard' = unheard \cup {i}
           /\ cutOff' = cutOff \cup {SwitchIndexOf[i]}
           /\ resting' = Stirred({i})
    /\ UNCHANGED <<analogState, analogPreset, otherPresets, scanMask, hostForce, worldState, signals,
                   switchVars, globals>>

\* ... and the mask, under the mutex of the driver.
MaskWrite ==
    /\ writer.step = "mask"
    /\ scanMask' = EnabledInputs(analogConfig)
    /\ writer' = NoWriter
    /\ UNCHANGED <<analogState, analogConfig, analogPreset, otherPresets, hostState, worldState, signals, ghosts,
                   switchVars, globals>>

\* A preset: the settings change at once, the mask when the subscriber of PresetChanged runs.
SelectPreset ==
    /\ writer = NoWriter /\ Spend("writes") /\ otherPresets # <<>>
    /\ analogConfig' = Head(otherPresets)
    /\ otherPresets' = Append(Tail(otherPresets), analogConfig)
    /\ analogPreset' = (analogPreset % (Len(otherPresets) + 1)) + 1
    /\ writer' = [step |-> "mask"]
    /\ unheard' = AnalogIndices
    /\ cutOff' = cutOff \cup {SwitchIndexOf[i] : i \in AnalogIndices}
    /\ resting' = Stirred(AnalogIndices)
    /\ UNCHANGED <<analogState, scanMask, hostForce, level, frozen, touched, signals, switchVars, globals>>

---------------------------------------------------------------------------
(* The switches, and the world *)

\* The dispatcher hands a signal to the switches, which drop it in a freeze.
DeliverSwitch ==
    /\ signals # <<>>
    /\ LET s == Head(signals)
       IN  /\ IF frozen \/ switch[s.switch].pressed = s.value
              THEN UNCHANGED <<switchVars, globals>>
              ELSE OtherReading(s.switch, s.value, frozen)
           /\ cutOff' = IF frozen THEN cutOff \cup {s.switch} ELSE cutOff
    /\ signals' = Tail(signals)
    /\ UNCHANGED <<analogState, settingsState, hostState, worldState, resting>>

\* Touchscreen::process_switch(): a press that changes the screen is followed by its release, as
\* the display will not send it.
\* Mutant: every release is left to the display.
TouchEventsAsIs(i, press) == <<press>>
TouchEvents(i, press) == IF press /\ i \in PageSwitches THEN <<TRUE, FALSE>> ELSE <<press>>
Touch ==
    /\ ~frozen /\ Spend("touches")
    /\ \E i \in TouchSwitches :
        LET press == i \notin touched
            events == TouchEvents(i, press)
        IN  /\ Len(signals) + Len(events) <= MaxSignals
            /\ touched' = IF press /\ i \notin PageSwitches THEN touched \cup {i} ELSE touched \ {i}
            /\ signals' = signals \o [n \in DOMAIN events |-> [switch |-> i, value |-> events[n]]]
            /\ cutOff' = cutOff \ {i}
    /\ UNCHANGED <<analogState, settingsState, hostState, level, frozen, resting, switchVars, globals>>

MoveControl ==
    /\ Spend("moves")
    /\ \E i \in AnalogIndices : \E l \in Levels \ {level[i]} :
        level' = [level EXCEPT ![i] = l] /\ resting' = Stirred({i})
    /\ UNCHANGED <<analogState, settingsState, hostState, frozen, touched, signals, cutOff, switchVars, globals>>

FreezeAnalog ==
    /\ ~frozen /\ Spend("freezes")
    /\ frozen' = TRUE
    /\ UNCHANGED <<analogState, settingsState, hostState, level, touched, signals, ghosts, switchVars, globals>>
ResumeAnalog ==
    /\ frozen
    /\ frozen' = FALSE
    /\ UNCHANGED <<analogState, settingsState, hostState, level, budget, touched, signals, ghosts, switchVars, globals>>

WriteSettings == BeginWrite \/ UpdateWrite \/ MaskWrite \/ SelectPreset
World == Touch \/ MoveControl \/ FreezeAnalog

AnalogNext == AnalogThread \/ RefreshAnalog \/ WriteSettings \/ DeliverSwitch \/ ResumeAnalog \/ World

\* The threads run, and System ends every freeze.
AnalogSpec ==
    /\ AnalogInit /\ [][AnalogNext]_analogVars
    /\ WF_analogVars(AnalogThread) /\ WF_analogVars(UpdateWrite \/ MaskWrite)
    /\ WF_analogVars(DeliverSwitch) /\ WF_analogVars(ResumeAnalog)

---------------------------------------------------------------------------
(* Properties *)

\* Mapper::result(), Analog::publish_result(): the host has a note of a force sensor on exactly while
\* the sensor is pressed, unless a freeze or a change of settings came since.
ForceReported ==
    \A i \in EnabledInputs(analogConfig) :
        \/ analogConfig[i].type # "Fsr" \/ i \in unheard \/ result.index = i
        \/ (hostForce[i] = "NoteOn") = last[i].pressed

\* FilterHw::apply_adc_filter(): the direction of an input turns over only when the sample before was
\* on the other side too, or when the sample reached the end it was next to.  Said of the preset the
\* device starts in, before another one is selected: that resets no filter, and a switch leaves its level in the
\* place of the value that an ADC input of the other preset then compares its first sample with.
OutlierNeverReverses ==
    [][\A i \in AnalogIndices :
          (filter'[i].up # filter[i].up /\ filter[i].value # None /\ analogPreset = 1) =>
              \/ (filter[i].sample >= filter[i].value) = filter'[i].up
              \/ Assist(filter[i], PositionOf(filter'[i].sample, analogConfig[i])) # "none"]_analogVars

\* FilterHw as a whole: once a control rests for SettleSamples samples, the position that was published
\* last is less than two reversals of the movement gate from where the control is.
NearLevel(i) ==
    LET config == analogConfig[i]
    IN  Difference(filter[i].gate, GateOf(Limited(level[i], LowerRaw(config), UpperRaw(config)), config)) < 2 * TurnGates
RestsNear ==
    \A i \in AnalogIndices : resting[i] = SettleSamples /\ analogConfig[i].type # "Switch" => NearLevel(i)

\* publish_switch(), Touchscreen::process_switch() and the subscriber of MidiIoSignal: when no signal
\* is under way, a switch is as its analog input or its component is, unless a freeze, a reset or
\* other settings got in between.
SwitchFollows ==
    signals = <<>> /\ result = NoResult =>
        /\ \A i \in EnabledInputs(analogConfig) :
              \/ analogConfig[i].type # "Switch" \/ SwitchIndexOf[i] \in cutOff
              \/ switch[SwitchIndexOf[i]].pressed = (last[i].value = 1)
        /\ \A i \in TouchSwitches : i \in cutOff \/ switch[i].pressed = (i \in touched)

\* The host has the state of the force sensors, and the switches that of their inputs.
HostFollows == ForceReported /\ SwitchFollows
=============================================================================
