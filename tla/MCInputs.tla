------------------------------ MODULE MCInputs ------------------------------
(* Instances of the inputs for TLC. *)
EXTENDS Digital, TLC

Setting(type, message) == [type |-> type, message |-> message, id |-> 0, value |-> 2]

MCSwitchSettings ==
    (0 :> {Setting("Momentary", "Note"), Setting("Latching", "Note"), Setting("Latching", "MmcRecord"),
           Setting("Momentary", "MultiValIncDecNote"), Setting("Momentary", "ProgramChangeInc"),
           Setting("Latching", "BpmInc")})
    @@ (1 :> {Setting("Momentary", "ControlChange")})

MCEncoderSettings ==
    {[enabled |-> en, mode |-> m, inverted |-> FALSE, lower |-> 0, upper |-> 5, repeated |-> 1, id1 |-> 0, id2 |-> 1,
      acceleration |-> 1, sync |-> TRUE] :
         en \in BOOLEAN, m \in {"ControlChange", "PitchBend"}}

\* Two presets each: the settings of the switches are only varied where the inputs are switches.
MCPreset(s, e) == [switches |-> (0 :> s) @@ (1 :> Setting("Momentary", "ControlChange")), encoders |-> (0 :> e)]
MCDatabases ==
    {<<MCPreset(s, e), MCPreset(Setting("Latching", "Note"), e)>> :
        s \in MCSwitchSettings[0], e \in {c \in MCEncoderSettings : c.mode = "PitchBend" /\ ~c.enabled}}
    \cup
    {<<MCPreset(Setting("Momentary", "Note"), e), MCPreset(Setting("Momentary", "Note"), f)>> :
        e \in {c \in MCEncoderSettings : c.enabled},
        f \in {c \in MCEncoderSettings : c.enabled /\ c.mode = "ControlChange"}}

MCSpeedChange == <<1>>
MCSpeedLimit == <<2>>
=============================================================================
