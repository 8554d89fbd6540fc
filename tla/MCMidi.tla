-------------------------------- MODULE MCMidi --------------------------------
(* Instances of the MIDI protocol for TLC: three transports, two presets, *)
(* three of the nine routes.                                               *)
EXTENDS Midi

MCRoutes == <<<<"din", "din">>, <<"din", "usb">>, <<"usb", "ble">>>>
MCSettings(dinOn, clock, thru, bleOn, channel) ==
    [DinEnabled |-> dinOn, SendMidiClockDin |-> clock, thru |-> thru, BleEnabled |-> bleOn,
     UseGlobalChannel |-> channel # 1, GlobalChannel |-> channel]
MCPresets == {<<MCSettings(TRUE, TRUE, {<<"din", "din">>}, TRUE, 1),
                MCSettings(FALSE, TRUE, {<<"din", "din">>, <<"din", "usb">>}, FALSE, 17)>>,
              <<MCSettings(FALSE, FALSE, {}, FALSE, 1), MCSettings(TRUE, TRUE, {<<"usb", "ble">>}, TRUE, 1)>>}

MCWrite(setting, value) == [setting |-> setting, value |-> value]
MCThru(route, value) == [setting |-> "thru", route |-> route, value |-> value]
MCWrites ==
    {[setting |-> "none"]}
    \cup {MCWrite(s, v) : s \in {"DinEnabled", "SendMidiClockDin", "BleEnabled"}, v \in BOOLEAN}
    \cup {MCWrite("preset", p) : p \in 1 .. 2} \cup {MCWrite("GlobalChannel", c) : c \in {17, 18}}
    \cup {MCThru(MCRoutes[i], v) : i \in 1 .. 3, v \in BOOLEAN}

MCBudget(received, messages, refreshes, tempos, centrals, hosts, freezes) ==
    [received |-> received, messages |-> messages, refreshes |-> refreshes, tempos |-> tempos,
     centrals |-> centrals, hosts |-> hosts, freezes |-> freezes]
MCBudgets ==
    {MCBudget(3, 0, 0, 0, 0, 0, 0), MCBudget(2, 0, 0, 1, 0, 0, 0), MCBudget(2, 0, 0, 0, 3, 0, 0),
     MCBudget(1, 2, 1, 0, 0, 1, 0), MCBudget(2, 1, 1, 0, 0, 0, 1)}
=============================================================================
