------------------------------- MODULE Cap1188 -------------------------------
(***************************************************************************)
(* Driver of the CAP1188 touch sensor (peripherals/sensor_cap1188): what   *)
(* its operations make of the driver's state and of what the device        *)
(* answered.  I2c says when they run and on which thread.                  *)
(***************************************************************************)
EXTENDS Naturals, FiniteSets

CONSTANT Pads  \* the inputs, CAP1188_SENSOR_INPUT_COUNT of them

CapDefaults == [sensitivity |-> "medium"]
CapFresh == [up |-> FALSE, address |-> 1, last |-> {}]

\* configure_sensitivity(): the other bits of the register stay; the LED links are the same for all settings.
CapRegisters(s) == [sensitivity |-> s.sensitivity, leds |-> Pads]

\* init() before its first transaction and after the last one.  No pad counts as touched then.
CapStart(v) == [v EXCEPT !.up = FALSE]
CapReady(v) == [v EXCEPT !.up = TRUE, !.last = {}]
CapDeinit(v) == [v EXCEPT !.up = FALSE]

\* handle_input_status(): every pad that changed is told; the status is the base of the next comparison.
CapProcess(v, status) ==
    LET changed == (status \ v.last) \cup (v.last \ status)
    IN [v |-> [v EXCEPT !.last = status],
        out |-> [topic \in {<<"touch", pad>> : pad \in changed} |-> topic[2] \in status]]

\* publish_cached_states(), at the start of a forced refresh.
CapRefresh(v) == [topic \in {<<"touch", pad>> : pad \in IF v.up THEN Pads ELSE {}} |-> topic[2] \in v.last]

\* sys_config_set()
CapAccepts(setting, value) == setting = "sensitivity" /\ value \in {"low", "medium", "high"}
CapHandling(setting) == "init"
=============================================================================
