------------------------------ MODULE Apds9960 ------------------------------
(***************************************************************************)
(* Driver of the APDS9960 proximity, gesture and light sensor              *)
(* (peripherals/sensor_apds9960): what its operations make of the driver's *)
(* state, of the settings and of what the device answered.  I2c says when  *)
(* they run and on which thread.  A value is a sequence of its channels,   *)
(* empty before the first reading.                                         *)
(***************************************************************************)
EXTENDS Integers, FiniteSets, SequencesExt

CONSTANTS
    FailureLimit,    \* READ_FAILURE_LIMIT
    EdgeTimeout,     \* GESTURE_EDGE_TIMEOUT_MS
    GestureCooldown, \* GESTURE_SEND_COOLDOWN_MS
    ProximityMax,    \* APDS9960_PROXIMITY_RAW_MAX
    LightMax         \* APDS9960_RGBC_MAX_COUNT

ApdsOutputs == {"proximity", "ambient", "rgb"}

ApdsDefaults == [mode |-> "disabled", ambient |-> FALSE, rgb |-> FALSE, invertX |-> FALSE, invertY |-> FALSE,
                 proximityGain |-> 2, alsGain |-> 1, lower |-> 0, upper |-> ProximityMax]

NoEdges == [started |-> {}, at |-> 0]
NoValues == [topic \in ApdsOutputs |-> <<>>]
ApdsFresh == [up |-> FALSE, address |-> 1, failures |-> 0, values |-> NoValues, edges |-> NoEdges, sent |-> 0]

-----------------------------------------------------------------------------
\* Setting the sensor up.

\* configure_sensor(): the engines that the enable register starts.
ApdsEngines(s) ==
    {"power"} \cup {e \in {"light"} : s.ambient \/ s.rgb}
              \cup {e \in {"proximity"} : s.mode \in {"proximity", "gesture"}}
              \cup {e \in {"gesture"} : s.mode = "gesture"}

\* control_register_value(): a gain that the register has no code for is the default.
ApdsControl(s) == [proximity |-> IF s.proximityGain > 3 THEN 2 ELSE s.proximityGain,
                   als |-> IF s.alsGain > 3 THEN 1 ELSE s.alsGain]

ApdsRegisters(s) == [engines |-> ApdsEngines(s), control |-> ApdsControl(s)]

\* init() before its first transaction and after the last one; configure_sensor() has forgotten all values.
ApdsStart(v) == [v EXCEPT !.up = FALSE]
ApdsReady(v) == [v EXCEPT !.up = TRUE, !.failures = 0, !.values = NoValues, !.edges = NoEdges]

\* deinit(); the time of the last gesture stays.
ApdsDeinit(v) == [ApdsFresh EXCEPT !.sent = v.sent]

\* mark_disconnected()
ApdsLost(v) == [ApdsFresh EXCEPT !.address = v.address]

\* record_i2c_failure() for n reads.
ApdsFail(v, n) ==
    IF ~v.up THEN v
    ELSE IF v.failures + n >= FailureLimit THEN ApdsLost(v) ELSE [v EXCEPT !.failures = @ + n]

-----------------------------------------------------------------------------
\* Proximity and light.

\* compute_value(): the range of the settings, which may be upside down, onto the whole range.
ApdsScaled(value, s) ==
    LET low == IF s.lower < s.upper THEN s.lower ELSE s.upper
        high == IF s.lower < s.upper THEN s.upper ELSE s.lower
        kept == IF value < low THEN low ELSE IF value > high THEN high ELSE value
        mapped == ((kept - low) * ProximityMax) \div (high - low)
    IN IF low = high THEN (IF value >= high THEN ProximityMax ELSE 0)
       ELSE IF s.lower > s.upper THEN ProximityMax - mapped ELSE mapped

\* proximity_result(), ambient_light_result() and rgb_result(): a colour is a share of the clear channel.
ApdsResult(topic, value, s) ==
    CASE topic = "proximity" -> <<ApdsScaled(value[1], s)>>
      [] topic = "ambient" -> <<IF value[1] > LightMax THEN LightMax ELSE value[1]>>
      [] topic = "rgb" -> [c \in 1 .. 3 |-> IF value[1] = 0 THEN <<0, 1>>
                                            ELSE <<IF value[c + 1] > value[1] THEN value[1] ELSE value[c + 1], value[1]>>]

\* The filters weigh a reading against those before it; the first reading is taken as it is.
ApdsSmoothed(last, value) ==
    IF last = <<>> THEN value ELSE [c \in DOMAIN value |-> (last[c] + value[c]) \div 2]

\* The outputs that are enabled and whose data the status register calls valid.
ApdsDue(s, sample) ==
    {topic \in {"proximity"} : s.mode = "proximity" /\ "proximity" \in sample.valid}
    \cup {topic \in {"ambient"} : s.ambient /\ "light" \in sample.valid}
    \cup {topic \in {"rgb"} : s.rgb /\ "light" \in sample.valid}

\* read_proximity() and read_ambient_light_and_rgb(): each due output is smoothed, and published when it changed.
ApdsValues(v, s, sample) == [topic \in ApdsOutputs |-> IF topic \in ApdsDue(s, sample)
                                                       THEN ApdsSmoothed(v.values[topic], sample.values[topic])
                                                       ELSE v.values[topic]]

\* publish_value_states(), at the start of a forced refresh.
ApdsEnabled(s) == {topic \in ApdsOutputs : (topic = "proximity" /\ s.mode = "proximity")
                                           \/ (topic = "ambient" /\ s.ambient) \/ (topic = "rgb" /\ s.rgb)}
ApdsRefresh(v, s) ==
    LET known == IF v.up THEN {topic \in ApdsEnabled(s) : v.values[topic] # <<>>} ELSE {}
    IN [topic \in known |-> ApdsResult(topic, v.values[topic], s)]

-----------------------------------------------------------------------------
\* Gestures.

\* One axis of process_gesture_sample(): an edge starts a gesture unless the opposite edge has.
ApdsAxis(edges, delta, positive, negative, now) ==
    LET this == IF delta > 0 THEN positive ELSE negative
        opposite == IF delta > 0 THEN negative ELSE positive
    IN IF delta = 0 THEN [edges |-> edges, gesture |-> "none"]
       ELSE IF opposite \in edges.started
            THEN [edges |-> [edges EXCEPT !.started = @ \ {this, opposite}], gesture |-> opposite]
            ELSE [edges |-> [started |-> edges.started \cup {this}, at |-> now], gesture |-> "none"]

\* process_gesture_sample(): up and down first, left and right only when these made no gesture.
ApdsSample(edges, sample, now) ==
    LET vertical == ApdsAxis(edges, sample.vertical, "up", "down", now)
    IN IF vertical.gesture # "none" THEN vertical ELSE ApdsAxis(vertical.edges, sample.horizontal, "left", "right", now)

\* decode_gesture_fifo(): old edges are forgotten, and the first gesture ends the walk.
ApdsGesture(edges, fifo, now) ==
    LET kept == IF edges.at # 0 /\ now - edges.at > EdgeTimeout THEN NoEdges ELSE edges
    IN FoldLeft(LAMBDA done, sample : IF done.gesture # "none" THEN done ELSE ApdsSample(done.edges, sample, now),
                [edges |-> kept, gesture |-> "none"], fifo)

\* output_gesture()
ApdsOriented(gesture, s) ==
    CASE s.invertX /\ gesture = "left" -> "right" [] s.invertX /\ gesture = "right" -> "left"
      [] s.invertY /\ gesture = "up" -> "down" [] s.invertY /\ gesture = "down" -> "up" [] OTHER -> gesture

\* read_gesture() when the FIFO could be read.
ApdsReadGesture(v, s, fifo, now) ==
    LET found == ApdsGesture(v.edges, fifo, now)
        sent == found.gesture # "none" /\ (v.sent = 0 \/ now - v.sent >= GestureCooldown)
    IN [ok |-> found.gesture = "none" => v.up,
        v |-> [v EXCEPT !.edges = IF fifo = <<>> THEN v.edges ELSE found.edges, !.sent = IF sent THEN now ELSE @],
        out |-> [topic \in {t \in {"gesture"} : sent} |-> ApdsOriented(found.gesture, s)]]

-----------------------------------------------------------------------------
\* update()

\* The first transaction reads the status when an output needs it, and finds the device gone or not.
ApdsNeedsStatus(s) == s.mode = "proximity" \/ s.ambient \/ s.rgb

\* The reads that follow a status that was read, if it was due; answered says whether they worked, was are the
\* settings at the start.  A read that works starts the count of failures anew (record_i2c_success()).  The result
\* is what update() returns.
ApdsProcess(v, was, s, sample, answered, now) ==
    LET due == ApdsDue(was, sample)
        reads == Cardinality(due \cap {"proximity"}) + Cardinality({e \in {"gesture"} : was.mode = "gesture"})
                 + (IF due \cap {"ambient", "rgb"} # {} THEN 1 ELSE 0)
        values == ApdsValues(v, was, sample)
        heard == [v EXCEPT !.failures = IF ApdsNeedsStatus(was) THEN 0 ELSE @]
        read == [heard EXCEPT !.values = values, !.failures = IF reads > 0 THEN 0 ELSE @]
        gesture == IF was.mode = "gesture" THEN ApdsReadGesture(read, s, sample.fifo, now) ELSE [ok |-> TRUE, v |-> read, out |-> <<>>]
        changed == {topic \in due : values[topic] # v.values[topic]}
        lost == ApdsFail(heard, reads)
    IN IF answered
       THEN [v |-> gesture.v, ok |-> gesture.ok,
             out |-> [topic \in changed |-> ApdsResult(topic, values[topic], s)] @@ gesture.out]
       ELSE [v |-> lost, ok |-> reads > 0 => lost.up, out |-> <<>>]

\* sys_config_set(): what a setting accepts, and what is done when it is stored.
ApdsAccepts(setting, value) ==
    CASE setting = "mode" -> value \in {"disabled", "proximity", "gesture"}
      [] setting \in {"ambient", "rgb", "invertX", "invertY"} -> value \in BOOLEAN
      [] setting \in {"proximityGain", "alsGain"} -> value <= 3
      [] setting \in {"lower", "upper"} -> TRUE
ApdsHandling(setting) ==
    IF setting \in {"mode", "ambient", "rgb", "proximityGain", "alsGain"} THEN "init" ELSE "store"
=============================================================================
