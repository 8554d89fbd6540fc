---------------------------- MODULE TimeOfFlight ----------------------------
(***************************************************************************)
(* Drivers of the two time-of-flight sensors: what their operations make   *)
(* of the driver's state, of the settings and of what the device measured. *)
(* I2c says when they run and on which thread.                             *)
(***************************************************************************)
EXTENDS Integers, FiniteSets, FiniteSetsExt

CONSTANTS
    DistanceMax, \* DISTANCE_MAX_MM of the VL53L4CX
    GridWidth,   \* grid_width() of each resolution
    HoldFrames,  \* invalid_hold_frames() of each smoothing
    OutputEvery, \* output_interval_ms() of each output rate
    RangeMax     \* DISTANCE_MAX_MM

\* One of the resolutions is the widest.
ASSUME ZoneAssumption ==
    /\ \A r \in DOMAIN GridWidth : GridWidth[r] \in Nat \ {0}
    /\ \E r \in DOMAIN GridWidth : \A other \in DOMAIN GridWidth : GridWidth[other] <= GridWidth[r]
    /\ \A s \in DOMAIN HoldFrames : HoldFrames[s] \in Nat

-----------------------------------------------------------------------------
(* The VL53L4CX, a distance sensor (peripherals/sensor_vl53l4cx).          *)

L4Defaults == [mm |-> FALSE, norm |-> FALSE, smoothing |-> "heavy", area |-> "narrow", distance |-> "medium",
               lower |-> 0, upper |-> DistanceMax]

L4NothingSent == [mm |-> <<>>, norm |-> <<>>]
\* measuring follows found; the filter keeps its value when init() forgets the distance.
L4Fresh == [up |-> FALSE, address |-> 1, last |-> <<>>, filter |-> <<>>, sent |-> L4NothingSent]

\* configure_sensor()
L4Registers(s) == [distance |-> s.distance, area |-> s.area]

\* init() before its first transaction and after the last one.
L4Start(v) == [v EXCEPT !.up = FALSE]
L4Ready(v) == [v EXCEPT !.up = TRUE, !.last = <<>>, !.sent = L4NothingSent]
L4Deinit(v) == L4Fresh

\* process_measurement_frame(): the closest of the objects that were measured well.
L4Closest(objects) ==
    LET usable == {o.mm : o \in {x \in objects : x.valid /\ x.mm >= 0}}
    IN IF usable = {} THEN <<>> ELSE <<CHOOSE mm \in usable : \A other \in usable : mm <= other>>

\* smooth_distance(), and the filter after it; it is not asked about the first distance.
L4Filter(v, s, mm) == IF s.smoothing = "off" \/ v.filter = <<>> THEN mm ELSE (v.filter[1] + mm) \div 2

\* compute_value()
L4Scaled(mm, s) ==
    LET low == IF s.lower < s.upper THEN s.lower ELSE s.upper
        high == IF s.lower < s.upper THEN s.upper ELSE s.lower
        kept == IF mm < low THEN low ELSE IF mm > high THEN high ELSE mm
        mapped == ((kept - low) * DistanceMax) \div (high - low)
    IN IF low = high THEN (IF mm >= high THEN DistanceMax ELSE 0)
       ELSE IF s.lower > s.upper THEN DistanceMax - mapped ELSE mapped

\* Mapper::result(): an enabled output whose value is not the one it sent last.
L4Result(sent, s, mm) ==
    LET value == [mm |-> mm, norm |-> L4Scaled(mm, s)]
    IN [output \in {o \in {"mm", "norm"} : s[o] /\ sent[o] # <<value[o]>>} |-> value[output]]

\* process_measurement_frame(): a distance that did not change is not mapped, whatever the settings are by now.
L4Process(v, s, objects) ==
    LET closest == L4Closest(objects)
        first == v.last = <<>>
        mm == IF first THEN closest[1] ELSE L4Filter(v, s, closest[1])
        result == L4Result(v.sent, s, mm)
    IN IF ~(s.mm \/ s.norm) \/ closest = <<>> THEN [v |-> v, out |-> <<>>]
       ELSE IF ~first /\ <<mm>> = v.last THEN [v |-> [v EXCEPT !.filter = <<mm>>], out |-> <<>>]
       ELSE [v |-> [v EXCEPT !.last = <<mm>>, !.filter = IF first THEN @ ELSE <<mm>>,
                             !.sent = [o \in {"mm", "norm"} |-> IF o \in DOMAIN result THEN <<result[o]>> ELSE @[o]]],
             out |-> result]

\* publish_value_state(), at the start of a forced refresh: what was sent, of the outputs that are enabled.
L4Refresh(v, s) ==
    LET known == IF v.last = <<>> THEN {} ELSE {o \in {"mm", "norm"} : s[o] /\ v.sent[o] # <<>>}
    IN [output \in known |-> v.sent[output][1]]

\* sys_config_set(): what a setting accepts.
L4Accepts(setting, value) ==
    CASE setting \in {"mm", "norm"} -> value \in BOOLEAN
      [] setting = "smoothing" -> value \in {"off", "light", "medium", "heavy"}
      [] setting = "area" -> value \in {"narrow", "medium", "wide", "full"}
      [] setting = "distance" -> value \in {"medium", "long"}
      [] setting \in {"lower", "upper"} -> TRUE

\* Mutant: the distance mode is taken over with the next init() only.
L4HandlingArea(setting) == IF setting = "area" THEN "init" ELSE "store"
\* sys_config_set(): what is done when a setting is stored.
L4Handling(setting) == IF setting \in {"area", "distance"} THEN "init" ELSE "store"

-----------------------------------------------------------------------------
(* The VL53L5CX, a zone sensor (peripherals/sensor_vl53l5cx).  Zones are   *)
(* numbered row by row in the width of the resolution; a distance of 0 is  *)
(* no target.                                                              *)

Zones(width) == 0 .. width * width - 1
AllZones == Zones(Max({GridWidth[r] : r \in DOMAIN GridWidth}))
Point(zone, width) == <<zone % width, zone \div width>>
Zone(point, width) == point[1] + point[2] * width

L5Defaults == [resolution |-> "8x8", smoothing |-> "off", output |-> "disabled", lower |-> 0, upper |-> 0,
               invertX |-> FALSE, invertY |-> FALSE, rotation |-> 0, rate |-> "normal"]

\* reset_processing_state(): filter and invalid are by source zone, grid by target zone.
NoFrames == [grid |-> [z \in AllZones |-> 0], invalid |-> [z \in AllZones |-> 0], filter |-> [z \in AllZones |-> 0],
             published |-> 0]
L5Fresh == [up |-> FALSE, address |-> 1, frames |-> NoFrames]

\* The part of init() that configures the device: the resolution, the frequency that goes with it, ranging.
L5Registers(s) == [resolution |-> s.resolution, ranging |-> TRUE]

\* init() before its first transaction, which stops the ranging, and after the last one.
L5Start(v) == [v EXCEPT !.up = FALSE]
L5Ready(v) == [v EXCEPT !.up = TRUE, !.frames = NoFrames]
L5Deinit(v) == [v EXCEPT !.up = FALSE, !.frames = NoFrames]
L5Reset(v) == [v EXCEPT !.frames = NoFrames]

-----------------------------------------------------------------------------
\* process_results()

\* distance_upper_value(): 0 stands for the whole range.
L5Upper(s) == IF s.upper = 0 \/ s.upper > RangeMax THEN RangeMax ELSE s.upper

\* Mutant: two rotations turn the same axis.
L5OrientedTwice(z, s, width) ==
    LET far(n) == width - 1 - n
        turned == CASE s.rotation = 90 -> <<far(z[2]), far(z[2])>>
                    [] s.rotation = 180 -> <<far(z[1]), far(z[2])>>
                    [] s.rotation = 270 -> <<z[2], far(z[1])>>
                    [] OTHER -> z
    IN <<IF s.invertX THEN far(turned[1]) ELSE turned[1], IF s.invertY THEN far(turned[2]) ELSE turned[2]>>
\* oriented_point(): where a zone of the sensor is shown.
L5Oriented(z, s, width) ==
    LET far(n) == width - 1 - n
        turned == CASE s.rotation = 90 -> <<far(z[2]), z[1]>>
                    [] s.rotation = 180 -> <<far(z[1]), far(z[2])>>
                    [] s.rotation = 270 -> <<z[2], far(z[1])>>
                    [] OTHER -> z
    IN <<IF s.invertX THEN far(turned[1]) ELSE turned[1], IF s.invertY THEN far(turned[2]) ELSE turned[2]>>

L5Usable(mm, s) == mm > 0 /\ mm >= s.lower /\ mm <= L5Upper(s)

\* smooth_distance(), of a zone that was measured well.
L5Smoothed(filter, s, mm) == IF filter = 0 \/ s.smoothing = "off" THEN mm ELSE (filter + mm) \div 2

\* A zone that is not measured well is held for some frames, and then forgotten.
L5Held(f, s, z) == f.filter[z] > 0 /\ f.invalid[z] < HoldFrames[s.smoothing]

\* Where a source zone comes to lie in the grid.
L5Target(zone, s, width) == Zone(L5Oriented(Point(zone, width), s, width), width)

\* process_results(), with the settings of now: zones outside of the width keep what they had, off the grid.
\* One step here, while the code can be preempted by the dispatcher between two zones, which reads their orientation
\* one by one.
L5Frame(f, s, frame) ==
    LET width == GridWidth[s.resolution]
        zones == Zones(width)
        usable == {z \in zones : L5Usable(frame[z], s)}
        held == {z \in zones \ usable : L5Held(f, s, z)}
        filter == [z \in AllZones |-> IF z \in usable THEN L5Smoothed(f.filter[z], s, frame[z])
                                      ELSE IF z \in zones \ held THEN 0 ELSE f.filter[z]]
        target(z) == L5Target(z, s, width)
        source(t) == CHOOSE z \in usable \cup held : target(z) = t
    IN [f EXCEPT !.filter = filter,
                 !.invalid = [z \in AllZones |-> IF z \in held THEN f.invalid[z] + 1 ELSE IF z \in zones THEN 0 ELSE @[z]],
                 !.grid = [z \in AllZones |-> IF \E z0 \in usable \cup held : target(z0) = z THEN filter[source(z)] ELSE 0]]

-----------------------------------------------------------------------------
\* publish_results()

\* publish_nearest(): the first of the nearest zones, row by row.
L5Nearest(shown, grid) ==
    LET mm == Min({grid[z] : z \in shown})
    IN IF shown = {} THEN [mm |-> 0, zone |-> -1] ELSE [mm |-> mm, zone |-> Min({z \in shown : grid[z] = mm})]

\* publish_centroid(): sums, of which the output is the mean.
L5Centroid(shown, grid, width) == [x |-> MapThenSumSet(LAMBDA z : z % width, shown),
                                   y |-> MapThenSumSet(LAMBDA z : z \div width, shown),
                                   mm |-> MapThenSumSet(LAMBDA z : grid[z], shown), active |-> Cardinality(shown)]

\* publish_presence(): the energy is half of the share of zones and half of the nearness, in percent.
L5Presence(shown, grid, s, width) ==
    LET nearest == L5Nearest(shown, grid).mm
        upper == Max({L5Upper(s), s.lower + 1})
        away == Max({0, nearest - s.lower})
        near == IF nearest = 0 THEN 0 ELSE 100 - (100 * Min({away, upper - s.lower})) \div (upper - s.lower)
    IN [present |-> shown # {}, active |-> Cardinality(shown), mm |-> nearest,
        energy |-> ((100 * Cardinality(shown)) \div (width * width) + near) \div 2]

\* The shape of the output, with the width of now.
L5Output(f, s) ==
    LET width == GridWidth[s.resolution]
        shown == {z \in Zones(width) : f.grid[z] > 0}
    IN CASE s.output = "disabled" -> <<>>
         [] s.output = "nearest" -> [topic \in {<<"nearest">>} |-> L5Nearest(shown, f.grid)]
         [] s.output = "centroid" -> [topic \in {<<"centroid">>} |-> L5Centroid(shown, f.grid, width)]
         [] s.output = "presence" -> [topic \in {<<"presence">>} |-> L5Presence(shown, f.grid, s, width)]
         [] OTHER -> [topic \in {<<"row", y>> : y \in 0 .. width - 1} |-> [x \in 0 .. width - 1 |-> f.grid[x + topic[2] * width]]]

\* The second half of update(): the frame is processed, and published once in an interval.
L5Process(v, s, frame, now) ==
    LET f == L5Frame(v.frames, s, frame)
        due == now - f.published >= OutputEvery[s.rate]
    IN [v |-> [v EXCEPT !.frames = [f EXCEPT !.published = IF due THEN now ELSE @]],
        out |-> IF due THEN L5Output(f, s) ELSE <<>>]

\* sys_config_set(): what a setting accepts, and what is done when it is stored.
L5Accepts(setting, value) ==
    CASE setting = "resolution" -> value \in DOMAIN GridWidth
      [] setting = "smoothing" -> value \in DOMAIN HoldFrames
      [] setting = "output" -> value \in {"disabled", "grid", "nearest", "centroid", "presence"}
      [] setting \in {"lower", "upper"} -> value <= RangeMax
      [] setting \in {"invertX", "invertY"} -> value \in BOOLEAN
      [] setting = "rotation" -> value \in {0, 90, 180, 270}
      [] setting = "rate" -> value \in DOMAIN OutputEvery
L5Handling(setting) == IF setting = "resolution" THEN "init" ELSE "reset"
=============================================================================
