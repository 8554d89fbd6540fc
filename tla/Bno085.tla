------------------------------- MODULE Bno085 -------------------------------
(***************************************************************************)
(* Driver of the BNO085 motion sensor (peripherals/sensor_bno085): what    *)
(* its operations make of the driver's state, of the settings and of a     *)
(* report of the device.  I2c says when they run and on which thread.      *)
(***************************************************************************)
EXTENDS Naturals, FiniteSets

CONSTANT OutputInterval  \* OUTPUT_INTERVAL_MS

BnoReports == {"rotation", "gyroscope", "acceleration", "gravity"}

\* The outputs made of a report.
BnoOutputs(report) == IF report = "rotation" THEN {"quaternion", "euler"} ELSE {report}

BnoDefaults == [quaternion |-> FALSE, euler |-> FALSE, gyroscope |-> FALSE, acceleration |-> FALSE, gravity |-> FALSE,
                smoothing |-> "off"]
BnoNothing == [report \in BnoReports |-> <<>>]
BnoFresh == [up |-> FALSE, address |-> 1, smoothed |-> BnoNothing, told |-> BnoNothing,
             at |-> [report \in BnoReports |-> 0]]

\* enable_reports(): the device sends the reports that an enabled output is made of.
BnoRegisters(s) == [reports |-> {report \in BnoReports : \E output \in BnoOutputs(report) : s[output]}]

\* init() before its first transaction and after the last one.
BnoStart(v) == [v EXCEPT !.up = FALSE]
BnoReady(v) == [BnoFresh EXCEPT !.up = TRUE, !.address = v.address]
BnoDeinit(v) == [v EXCEPT !.up = FALSE]

\* sys_config_set() of the smoothing.
BnoForget(v) == [v EXCEPT !.smoothed = BnoNothing, !.told = BnoNothing]

\* smooth_values(): rotation is never smoothed, and the first value is taken as it is.
BnoSmoothed(v, s, report, value) ==
    IF report = "rotation" \/ s.smoothing = "off" \/ v.smoothed[report] = <<>> THEN value
    ELSE (v.smoothed[report][1] + value) \div 2

\* output_due(): the first time, and once in an interval.
BnoDue(v, report, now) == v.at[report] = 0 \/ now - v.at[report] >= OutputInterval

\* Mutant: a value counts as told before it is known to be due.
BnoToldTooEarly(v, s, report, value, now) ==
    LET smooth == BnoSmoothed(v, s, report, value)
        changed == v.told[report] # <<smooth>>
        due == BnoDue(v, report, now)
        kept == [v EXCEPT !.smoothed[report] = <<smooth>>]
    IN [v |-> [kept EXCEPT !.told[report] = <<smooth>>,
                           !.at[report] = IF changed /\ due THEN (IF now = 0 THEN 1 ELSE now) ELSE @],
        out |-> [output \in {o \in BnoOutputs(report) : s[o] /\ changed /\ due} |-> smooth]]
\* publish_report() and the mapper: a value that changed is told when the report is due, as the enabled outputs.
BnoProcess(v, s, report, value, now) ==
    LET smooth == BnoSmoothed(v, s, report, value)
        changed == v.told[report] # <<smooth>>
        due == BnoDue(v, report, now)
        kept == [v EXCEPT !.smoothed[report] = <<smooth>>]
    IN [v |-> IF changed /\ due
              THEN [kept EXCEPT !.told[report] = <<smooth>>, !.at[report] = IF now = 0 THEN 1 ELSE now]
              ELSE kept,
        out |-> [output \in {o \in BnoOutputs(report) : s[o] /\ changed /\ due} |-> smooth]]

\* sys_config_set(): what a setting accepts, and what is done when it is stored.
BnoAccepts(setting, value) ==
    IF setting = "smoothing" THEN value \in {"off", "light", "medium", "heavy"} ELSE value \in BOOLEAN
BnoHandling(setting) == IF setting = "smoothing" THEN "reset" ELSE "init"
=============================================================================
