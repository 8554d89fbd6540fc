------------------------------ MODULE MCAnalog ------------------------------
(* Instances of the analog inputs for TLC. *)
EXTENDS Analog, TLC

\* The switches take no part but in following their inputs: 10 belongs to input 1, 20 and 21 are
\* components of the touchscreen, 21 one that changes the screen.
MCSwitchSettings == [i \in {10, 20, 21} |-> {[type |-> "Momentary", message |-> "ControlChange", id |-> 0, value |-> 2]}]
MCSwitchIndexOf == (1 :> 10)

MCSetting(enabled, type) ==
    [enabled |-> enabled, type |-> type, inverted |-> FALSE, lower |-> 0, upper |-> Max14, id |-> 0,
     lowerOffset |-> 0, upperOffset |-> 0]
MCTypes == {"ControlChange", "Fsr", "Switch"}
MCAnalogSettings == (1 :> {MCSetting(e, t) : e \in BOOLEAN, t \in MCTypes})
MCPresets ==
    {<<(1 :> MCSetting(TRUE, "ControlChange"))>>,
     <<(1 :> MCSetting(TRUE, "Switch")), (1 :> MCSetting(TRUE, "Fsr"))>>,
     <<(1 :> MCSetting(FALSE, "Fsr"))>>}
MCBudget(m, f, t, w) == [moves |-> m, freezes |-> f, touches |-> t, writes |-> w]
MCBudgets == {MCBudget(3, 0, 0, 0), MCBudget(1, 1, 1, 0), MCBudget(1, 1, 0, 1), MCBudget(0, 1, 2, 1)}
=============================================================================
