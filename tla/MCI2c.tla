------------------------------- MODULE MCI2c -------------------------------
(* Instances of the I2C thread for TLC: a scenario has one peripheral, or none and all threads at the gate. *)
EXTENDS I2c

MCWorkers == {"i2c", "digital", "analog"}
MCInterval == [p \in {"apds9960", "cap1188", "bno085", "vl53l4cx", "vl53l5cx", "display"} |-> 1]
MCAddressCount == [p \in DOMAIN MCInterval |-> IF p \in {"cap1188", "bno085", "display"} THEN 2 ELSE 1]
MCGridWidth == [r \in {"8x8", "4x4"} |-> IF r = "8x8" THEN 3 ELSE 2]
MCHoldFrames == [s \in {"off", "heavy"} |-> IF s = "off" THEN 0 ELSE 2]
MCOutputEvery == [r \in {"normal", "slow"} |-> IF r = "normal" THEN 1 ELSE 2]
MCPresets == <<"P0", "P1", "P2">>

MCSamples(vertical, horizontal) == [vertical |-> vertical, horizontal |-> horizontal]
MCLight(proximity, clear) == [proximity |-> <<proximity>>, ambient |-> <<clear>>, rgb |-> <<clear, 1, 2, 9>>]
MCApdsInput(values, fifo) == [values |-> values, fifo |-> fifo]
MCFrame(measured) == [z \in AllZones |-> IF z \in DOMAIN measured THEN measured[z] ELSE 0]
MCObject(valid, mm) == [valid |-> valid, mm |-> mm]
MCMotion(r, g) == [report \in BnoReports |-> IF report = "rotation" THEN r ELSE g]

MCInputs ==
    [apds9960 |-> {MCApdsInput(MCLight(0, 4), <<>>), MCApdsInput(MCLight(3, 0), <<MCSamples(1, 0), MCSamples(-1, 1)>>),
                   MCApdsInput(MCLight(3, 4), <<MCSamples(0, 1)>>)},
     cap1188 |-> {{}, {1}, {1, 2}},
     bno085 |-> {MCMotion(1, 4), MCMotion(2, 7)},
     vl53l4cx |-> {{}, {MCObject(TRUE, 2), MCObject(FALSE, 1)}, {MCObject(TRUE, 4), MCObject(TRUE, 3)}},
     vl53l5cx |-> {MCFrame(<<>>), MCFrame([z \in {1, 2, 3} |-> z]), MCFrame([z \in {0, 3, 5} |-> 4 - (z % 3)])},
     display |-> {{}}]

MCWrite(p, setting, value) == [peripheral |-> p, setting |-> setting, value |-> value]
MCWrites ==
    {MCWrite("apds9960", "mode", "gesture"), MCWrite("apds9960", "mode", "disabled"), MCWrite("apds9960", "proximityGain", 3),
     MCWrite("apds9960", "rgb", TRUE), MCWrite("apds9960", "invertY", TRUE), MCWrite("apds9960", "lower", 3),
     MCWrite("cap1188", "sensitivity", "high"), MCWrite("cap1188", "sensitivity", "low"),
     MCWrite("bno085", "gyroscope", TRUE), MCWrite("bno085", "euler", TRUE), MCWrite("bno085", "quaternion", FALSE),
     MCWrite("bno085", "smoothing", "light"),
     MCWrite("vl53l4cx", "distance", "long"), MCWrite("vl53l4cx", "norm", TRUE), MCWrite("vl53l4cx", "smoothing", "off"),
     MCWrite("vl53l4cx", "upper", 3),
     MCWrite("vl53l5cx", "resolution", "4x4"), MCWrite("vl53l5cx", "smoothing", "off"), MCWrite("vl53l5cx", "invertX", TRUE),
     MCWrite("vl53l5cx", "output", "presence"), MCWrite("vl53l5cx", "output", "grid"), MCWrite("vl53l5cx", "output", "centroid"),
     MCWrite("vl53l5cx", "rotation", 90), MCWrite("vl53l5cx", "rotation", 270), MCWrite("vl53l5cx", "rate", "slow"),
     MCWrite("display", "resolution", "128x32"), MCWrite("display", "resolution", "128x64"),
     MCWrite("display", "controller", "count"), MCWrite("display", "controller", "ssd1306"),
     MCWrite("display", "eventTime", 2), MCWrite("display", "alternate", TRUE)}

MCMessages ==
    {[typeElement |-> "typeIn", valueElement |-> "valueIn", valued |-> TRUE, note |-> TRUE, type |-> "on", value |-> "60", name |-> "C4"],
     [typeElement |-> "typeIn", valueElement |-> "valueIn", valued |-> FALSE, note |-> FALSE, type |-> "clock", value |-> "", name |-> ""],
     [typeElement |-> "typeOut", valueElement |-> "valueOut", valued |-> TRUE, note |-> FALSE, type |-> "cc", value |-> "7", name |-> ""]}

MCNone == [freezes |-> 0, iterations |-> 0, glitches |-> 0, plugs |-> 0, stimuli |-> 0, writes |-> 0, refreshes |-> 0, messages |-> 0,
           ticks |-> 7]
MCScenario(p, section, stranger, budget) == [order |-> <<p>>, settings |-> section, stranger |-> stranger, budget |-> budget]
MCScenarios ==
    {[order |-> <<>>, settings |-> <<>>, stranger |-> 0, budget |-> [MCNone EXCEPT !.freezes = 3, !.iterations = 10, !.ticks = 2]],
     MCScenario("apds9960", [ApdsDefaults EXCEPT !.mode = "proximity"], 0, [MCNone EXCEPT !.glitches = 3, !.refreshes = 1, !.ticks = 10]),
     MCScenario("apds9960", [ApdsDefaults EXCEPT !.mode = "gesture", !.ambient = TRUE], 0,
                [MCNone EXCEPT !.stimuli = 1, !.writes = 1, !.ticks = 5]),
     MCScenario("apds9960", [ApdsDefaults EXCEPT !.rgb = TRUE], 0, [MCNone EXCEPT !.plugs = 2, !.writes = 1]),
     MCScenario("cap1188", CapDefaults, 0, [MCNone EXCEPT !.plugs = 2, !.writes = 1]),
     MCScenario("cap1188", CapDefaults, 1, [MCNone EXCEPT !.plugs = 2, !.stimuli = 1]),
     MCScenario("cap1188", CapDefaults, 0, [MCNone EXCEPT !.freezes = 1, !.stimuli = 1, !.glitches = 1, !.refreshes = 1, !.ticks = 6]),
     MCScenario("bno085", [BnoDefaults EXCEPT !.quaternion = TRUE], 0, [MCNone EXCEPT !.writes = 2, !.ticks = 6]),
     MCScenario("bno085", [BnoDefaults EXCEPT !.gyroscope = TRUE], 0, [MCNone EXCEPT !.stimuli = 2, !.plugs = 2]),
     MCScenario("vl53l4cx", [L4Defaults EXCEPT !.mm = TRUE], 0,
                [MCNone EXCEPT !.stimuli = 1, !.writes = 1, !.glitches = 1, !.refreshes = 1, !.ticks = 6]),
     MCScenario("vl53l5cx", [L5Defaults EXCEPT !.smoothing = "heavy", !.output = "nearest"], 0,
                [MCNone EXCEPT !.stimuli = 2, !.writes = 1, !.ticks = 5]),
     MCScenario("vl53l5cx", [L5Defaults EXCEPT !.smoothing = "heavy", !.output = "grid"], 0, [MCNone EXCEPT !.writes = 2, !.ticks = 5]),
     MCScenario("display", DisplayDefaults, 0, [MCNone EXCEPT !.messages = 1, !.writes = 1, !.ticks = 5]),
     MCScenario("display", DisplayDefaults, 0, [MCNone EXCEPT !.messages = 1, !.writes = 1, !.glitches = 1, !.ticks = 4]),
     MCScenario("display", [DisplayDefaults EXCEPT !.resolution = "128x32"], 1, [MCNone EXCEPT !.writes = 1, !.plugs = 1, !.ticks = 6]),
     MCScenario("display", DisplayDefaults, 0, [MCNone EXCEPT !.plugs = 1, !.writes = 1, !.ticks = 7]),
     MCScenario("display", [DisplayDefaults EXCEPT !.eventTime = 2], 0, [MCNone EXCEPT !.messages = 2, !.ticks = 5])}

\* What the device has to report at first.
MCFirst == [apds9960 |-> MCApdsInput(MCLight(0, 4), <<>>), cap1188 |-> {}, bno085 |-> MCMotion(1, 4), vl53l4cx |-> {},
            vl53l5cx |-> MCFrame([z \in {1, 2, 3} |-> z]), display |-> {}]

MCInit ==
    /\ \E s \in MCScenarios :
        /\ order = s.order /\ left = s.budget
        /\ settings = [p \in {s.order[i] : i \in DOMAIN s.order} |-> s.settings]
        /\ \E present \in {TRUE} \cup {x \in {FALSE} : s.budget.plugs > 0} :
            device = [p \in {s.order[i] : i \in DOMAIN s.order} |->
                        [present |-> present, at |-> AddressCount[p], regs |-> NoRegisters, input |-> MCFirst[p],
                         stranger |-> s.stranger]]
    /\ I2cInit
MCSpec == MCInit /\ [][I2cNext]_i2cVars
=============================================================================
