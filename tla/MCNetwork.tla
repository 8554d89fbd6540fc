------------------------------ MODULE MCNetwork ------------------------------
(* Instances of the network components for TLC.  Paths keep their prefixes and are short otherwise: *)
(* /o is /opendeck/output, /os a path that starts with it.                                           *)
EXTENDS Network

MCPaths == [output |-> <<47, 111>>, switch |-> <<47, 111, 115>>, encoder |-> <<47, 101>>, analog |-> <<47, 97>>,
            cap1188_touch |-> <<47, 116>>, vl53l5cx_row |-> <<47, 114, 111>>, apds9960_gesture |-> <<47, 103, 101, 115>>,
            vl53l4cx_distance |-> <<47, 100>>, discover |-> <<47, 100, 105, 115, 99>>, refresh |-> <<47, 114, 101, 102>>]

MCOscDestination(host, port) == [host |-> host, port |-> port]
MCOscDatabase(restrict, a, b) == [listen |-> 1, restrict |-> restrict, destinations |-> <<a, b>>]
MCOscDatabases == {MCOscDatabase(FALSE, MCOscDestination(1, 1), MCOscDestination(0, 1)),
                   MCOscDatabase(TRUE, MCOscDestination(1, 1), MCOscDestination(2, 2))}
MCOscWrite(setting, at, value) == [setting |-> setting, slot |-> at, value |-> value]
MCOscWrites == {MCOscWrite("listen", 1, 2), MCOscWrite("listen", 1, 1), MCOscWrite("listen", 1, 0),
                MCOscWrite("host", 1, 2), MCOscWrite("host", 2, 0), MCOscWrite("port", 1, 2), MCOscWrite("restrict", 1, TRUE)}

MCIo(source, index, value, float) == [source |-> source, index |-> index, value |-> value, float |-> float]
MCSignals == {MCIo("switch", 12, 5, FALSE), MCIo("analog", 3, -1, TRUE), MCIo("output", 1, 1, FALSE),
              [source |-> "apds9960_gesture", fields |-> <<[tag |-> 115, value |-> <<117, 112>>]>>],
              [source |-> "vl53l5cx_row", index |-> 0, width |-> 4,
               fields |-> [i \in 1 .. 8 |-> [tag |-> 105, value |-> 100 * i]]]}

MCMessage(path, args) == MakePacket([address |-> path, args |-> args]).bytes
MCOutput == MCMessage(Indexed("output", 10), <<[tag |-> 105, value |-> -2]>>)
MCFromHost(host, bytes) == [host |-> host, bytes |-> bytes]
MCDatagrams ==
    {MCFromHost(h, MCOutput) : h \in {1, 3}}
    \cup {MCFromHost(1, b) :
            b \in {MCOutput \o <<0, 0, 0, 0>>, SubSeq(MCOutput, 1, Len(MCOutput) - 1),
                   MCMessage(MCPaths["output"], <<[tag |-> 105, value |-> 1]>>),
                   MCMessage(Indexed("switch", 1), <<[tag |-> 105, value |-> 1]>>),
                   MCMessage(Indexed("output", 1), <<[tag |-> 102, value |-> 1]>>),
                   MCMessage(MCPaths["discover"], <<>>), MCMessage(MCPaths["refresh"], <<>>),
                   MCMessage(MCPaths["refresh"], <<[tag |-> 105, value |-> 1]>>)}}

MCHostnames == {<<97, 65, 0, 98>>, <<45, 97, 0, 0>>, <<97, 45, 0, 0>>, <<0, 0, 0, 0>>, <<97, 98, 99, 100>>, <<97, 95, 0, 0>>}
MCHostnameWrites == {[index |-> 1, value |-> 45]}
MCPrefix == <<111>>
MCTarget == <<84, 95, 50>>
MCSerialNumbers == {<<>>, <<171>>, <<1, 44, 255>>}
MCTargetUid == <<9, 160>>

MCNone == [osc |-> 0, mdns |-> 0, signals |-> 0, datagrams |-> 0, faults |-> 0, oscWrites |-> 0, ticks |-> 0, hosts |-> 0,
           addresses |-> 0, hostnameWrites |-> 0, clients |-> 0, frames |-> 0, leaves |-> 0, timeouts |-> 0, inits |-> 0,
           traffic |-> 0, freezes |-> 0]
MCOsc == [MCNone EXCEPT !.osc = 1, !.mdns = 1]
MCBudgets ==
    {[MCOsc EXCEPT !.signals = 2, !.hosts = 1],
     [MCOsc EXCEPT !.signals = 1, !.oscWrites = 1, !.ticks = 2, !.hosts = 1],
     [MCNone EXCEPT !.osc = 1, !.oscWrites = 2, !.datagrams = 1, !.faults = 1],
     [MCOsc EXCEPT !.datagrams = 1],
     [MCOsc EXCEPT !.freezes = 1, !.signals = 1],
     [MCOsc EXCEPT !.addresses = 3, !.hostnameWrites = 1, !.inits = 1],
     [MCNone EXCEPT !.clients = 3, !.frames = 3, !.leaves = 1],
     [MCOsc EXCEPT !.clients = 1, !.frames = 1, !.timeouts = 1, !.traffic = 1, !.inits = 1]}

\* Names and addresses differ where mDNS is looked at, settings and hosts where OSC is.
MCInit ==
    /\ NetworkInit
    /\ IF budget.addresses > 0 THEN address = 0 ELSE address = 1 /\ hostname = <<0, 0, 0, 0>>
    /\ hostname # <<0, 0, 0, 0>> \/ budget.addresses = 0 => serial = <<1, 44, 255>>
    /\ budget.datagrams = 0 =>
          /\ oscSettings.restrict = (budget.signals = 2)
          /\ 1 \in reachable
MCSpec == MCInit /\ [][NetworkNext]_networkVars
=============================================================================
