--------------------------------- MODULE Osc ---------------------------------
(***************************************************************************)
(* The OSC protocol (protocol/osc): the queue and the thread that sends    *)
(* it, the thread that listens, the announcements and the settings.        *)
(*                                                                         *)
(* Handlers of the dispatcher, a cooperative thread, are single actions.   *)
(* The threads are preemptible: each of their actions ends where they read *)
(* state that another thread writes.  Sockets are small numbers that are   *)
(* used again, as in the network stack.                                    *)
(***************************************************************************)
EXTENDS NetworkBus, OscPacket, FiniteSetsExt

CONSTANTS
    OscDatabases,  \* settings at the start: [listen, restrict, destinations], host 0 is none
    OscWrites,     \* what a SysEx request writes: [setting, slot, value]
    Signals,       \* OscIoSignal and OscSensorSignal
    Datagrams,     \* what the network brings: [host, bytes]
    MaxPort, MaxHost, \* UDP_PORT_MAX, the largest address
    HighWatermark, \* TX_QUEUE_HIGH_WATERMARK
    SocketCount,   \* CONFIG_ZVFS_OPEN_MAX
    RetryDelay,    \* DESTINATION_SEND_RETRY_DELAY_MS
    TimeModulus    \* uptimes are counted modulo 2^32

OscSettings == [listen : 1 .. MaxPort, restrict : BOOLEAN,
                destinations : Seq([host : 0 .. MaxHost, port : 1 .. MaxPort])]

ASSUME OscAssumption ==
    /\ OscDatabases \subseteq OscSettings
    /\ \A w \in OscWrites : w.setting \in {"restrict", "host", "port", "listen"}
    /\ {MaxPort, MaxHost, HighWatermark, SocketCount, RetryDelay} \subseteq Nat
    /\ TimeModulus \in Nat \ {0}

VARIABLES
    oscSettings,  \* the OscSettings section of the database
    oscOn,        \* _initialized
    destinations, \* _destinations: [host, port, retryAt] by slot
    queue, wake,  \* _queue and _send_wakeup
    sender,       \* the send thread: [at, slot, packet, endpoint, started, socket]
    reader,       \* the read thread: [at, socket, port]
    listening,    \* _listen_sock, 0 when there is none
    sockets,      \* open sockets: the port they are bound to, 0 when they are not
    identity,     \* _network_identity: [received, name, address], address 0 is none
    reachable,    \* hosts that a packet reaches
    uptime,
    refused,      \* ghost: slots whose endpoint, as it is configured now, did not get a packet
    crossed,      \* ghost: slots that were configured while a packet was being sent to them
    late,         \* ghost: the port was written while the reader was between two sockets
    heard,        \* ghost: the last datagram that was acted on, [bytes, message]
    encoded       \* ghost: the last packet that was queued, [bytes, message]

oscConfig == <<oscSettings, oscOn>>
sendState == <<destinations, queue, wake, sender, refused, crossed, encoded>>
readState == <<reader, listening, late, heard>>
oscEnvironment == <<reachable, uptime>>
oscVars == <<oscConfig, sendState, readState, sockets, identity, oscEnvironment>>

Slots == DOMAIN destinations
NoMessage == [bytes |-> <<>>, message |-> [address |-> <<>>, args |-> <<>>]]
IdleSender == [at |-> "wait", slot |-> 0, packet |-> <<>>, endpoint |-> [host |-> 0, port |-> 0], started |-> 0, socket |-> 0]

\* refresh_destinations(): nobody is in backoff afterwards.
Refreshed(settings) ==
    [s \in DOMAIN settings.destinations |->
        [host |-> settings.destinations[s].host, port |-> settings.destinations[s].port, retryAt |-> 0]]
\* Mutant: the retry time of a slot survives.
RefreshedInPlace(settings) ==
    [s \in DOMAIN settings.destinations |->
        [destinations[s] EXCEPT !.host = settings.destinations[s].host, !.port = settings.destinations[s].port]]
\* refresh_destinations(), while OSC runs
RefreshDestinations(settings) == Refreshed(settings)

OscInit ==
    /\ oscSettings \in OscDatabases
    /\ oscOn = FALSE
    /\ destinations = [s \in DOMAIN oscSettings.destinations |-> [host |-> 0, port |-> 0, retryAt |-> 0]]
    /\ queue = <<>> /\ wake = FALSE
    /\ sender = IdleSender
    /\ reader = [at |-> "check", socket |-> 0, port |-> 0]
    /\ listening = 0 /\ sockets = <<>>
    /\ identity = [received |-> FALSE, name |-> <<>>, address |-> 0]
    /\ reachable \in SUBSET ({oscSettings.destinations[s].host : s \in DOMAIN oscSettings.destinations} \ {0})
    /\ uptime = 0
    /\ refused = {} /\ crossed = {} /\ late = FALSE
    /\ heard = NoMessage /\ encoded = NoMessage

----------------------------------------------------------------------------
(* Sockets and destinations *)

Open == DOMAIN sockets
FreeSocket == CHOOSE s \in 1 .. SocketCount : s \notin Open /\ \A t \in 1 .. SocketCount : t \notin Open => s <= t
CanOpen == Cardinality(Open) < SocketCount
Opened(socket, port) == [s \in Open \cup {socket} |-> IF s = socket THEN port ELSE sockets[s]]
Closed(socket) == [s \in Open \ {socket} |-> sockets[s]]
\* A thread that waits for a packet of a socket fails when the socket is closed.
Woken(socket) == IF reader.at = "receive" /\ reader.socket = socket THEN [reader EXCEPT !.at = "failed"] ELSE reader

\* retry_active(): the difference as a signed number of the width of the uptime.
RetryActive(retryAt) == (retryAt - uptime) % TimeModulus \in 1 .. (TimeModulus \div 2) - 1
Configured(s) == destinations[s].host # 0
Sendable == \E s \in Slots : Configured(s) /\ ~RetryActive(destinations[s].retryAt)
HasIdentity == identity.received /\ identity.address # 0

RetryTime(sent, started) == IF sent THEN 0 ELSE (started + RetryDelay) % TimeModulus
\* send_discovery_announcement() to the destinations d: send_packet(), in one action, over a socket of its own.
Announce(d) ==
    LET tried == IF CanOpen THEN {s \in DOMAIN d : d[s].host # 0 /\ ~RetryActive(d[s].retryAt)} ELSE {}
        reached == {s \in tried : d[s].host \in reachable}
    IN /\ destinations' = [s \in DOMAIN d |->
                            IF s \in tried THEN [d[s] EXCEPT !.retryAt = RetryTime(s \in reached, uptime)] ELSE d[s]]
       /\ refused' = (refused \cup tried) \ reached
       /\ crossed' = crossed \ tried
       /\ bus' = (IF Signalled("identity") THEN Tail(bus) ELSE bus)
                 \o [i \in 1 .. Cardinality(reached) |-> Traffic("NetworkOut")]

----------------------------------------------------------------------------
(* Starting, signals, identity *)

\* init()
StartOsc ==
    /\ ~oscOn /\ bus = <<>> /\ Spend("osc")
    /\ oscOn' = TRUE
    /\ IF HasIdentity THEN Announce(Refreshed(oscSettings))
       ELSE destinations' = Refreshed(oscSettings) /\ UNCHANGED <<refused, crossed, bus>>
    /\ UNCHANGED <<oscSettings, queue, wake, sender, encoded, readState, sockets, identity, oscEnvironment, frozen>>

\* An input or a sensor publishes.
PublishSignal ==
    /\ Spend("signals")
    /\ \E signal \in Signals : bus' = Append(bus, [kind |-> "osc", signal |-> signal])
    /\ UNCHANGED <<oscVars, frozen>>

\* enqueue() and enqueue_packet(): silent when nobody can get the packet, when it does not fit or the sender is busy.
Enqueue(signal) ==
    LET message == SignalMessage(signal)
        packet == IF "ok" \in DOMAIN message THEN Malformed ELSE MakePacket(message)
    IN IF ~oscOn \/ frozen \/ ~Sendable \/ ~packet.ok \/ Len(queue) >= HighWatermark
       THEN UNCHANGED <<queue, wake, encoded>>
       ELSE /\ queue' = Append(queue, packet.bytes)
            /\ wake' = TRUE
            /\ encoded' = [bytes |-> packet.bytes, message |-> message]
HandleSignal(signal) ==
    /\ Enqueue(signal)
    /\ bus' = Tail(bus)
    /\ UNCHANGED <<oscConfig, destinations, sender, refused, crossed, readState, sockets, identity, oscEnvironment>>

\* NetworkIdentitySignal: kept, and announced.
HandleIdentity(announced) ==
    /\ identity' = [received |-> TRUE, name |-> announced.name, address |-> announced.address]
    /\ IF oscOn /\ announced.address # 0 THEN Announce(destinations)
       ELSE bus' = Tail(bus) /\ UNCHANGED <<destinations, refused, crossed>>
    /\ UNCHANGED <<oscConfig, queue, wake, sender, encoded, readState, sockets, oscEnvironment>>

----------------------------------------------------------------------------
(* The send thread *)

TakeWake ==
    /\ oscOn /\ sender.at = "wait" /\ wake
    /\ wake' = FALSE
    /\ sender' = [sender EXCEPT !.at = "drain"]
    /\ UNCHANGED <<oscConfig, destinations, queue, refused, crossed, encoded, readState, sockets, identity, oscEnvironment,
                   sharedVars>>

\* The queue is empty.
Drained ==
    /\ sender.at = "drain" /\ queue = <<>>
    /\ sender' = [sender EXCEPT !.at = "wait"]
    /\ UNCHANGED <<queue, sockets>>
\* The oldest packet: dropped without an identity, or when there is no socket to send it over.
RemovePacket ==
    /\ sender.at = "drain" /\ queue # <<>>
    /\ queue' = Tail(queue)
    /\ IF ~HasIdentity \/ (sender.socket = 0 /\ ~CanOpen)
       THEN UNCHANGED <<sender, sockets>>
       ELSE LET socket == IF sender.socket = 0 THEN FreeSocket ELSE sender.socket
            IN /\ sender' = [sender EXCEPT !.at = "slot", !.slot = 1, !.packet = Head(queue), !.started = uptime,
                                           !.socket = socket]
               /\ sockets' = IF sender.socket = 0 THEN Opened(socket, 0) ELSE sockets
\* send_packet(), the next slot: the endpoint is copied under the lock.
NextSlot ==
    /\ sender.at = "slot"
    /\ IF sender.slot > Cardinality(Slots) THEN sender' = [sender EXCEPT !.at = "drain"]
       ELSE IF ~Configured(sender.slot)
               \/ (destinations[sender.slot].retryAt - sender.started) % TimeModulus \in 1 .. (TimeModulus \div 2) - 1
            THEN sender' = [sender EXCEPT !.slot = @ + 1]
            ELSE sender' = [sender EXCEPT !.at = "send",
                                          !.endpoint = [host |-> destinations[sender.slot].host,
                                                        port |-> destinations[sender.slot].port]]
    /\ UNCHANGED <<queue, sockets>>
SendThread ==
    /\ Drained \/ RemovePacket \/ NextSlot
    /\ UNCHANGED <<oscConfig, destinations, wake, refused, crossed, encoded, readState, identity, oscEnvironment, sharedVars>>

\* send_packet_to(); the result is then kept under the lock, for whatever endpoint the slot has by now.
SendTo ==
    LET s == sender.slot
        sent == sender.endpoint.host \in reachable
        same == sender.endpoint = [host |-> destinations[s].host, port |-> destinations[s].port]
    IN /\ sender.at = "send"
       /\ sender' = [sender EXCEPT !.at = "slot", !.slot = @ + 1]
       /\ bus' = IF sent THEN Append(bus, Traffic("NetworkOut")) ELSE bus
       /\ destinations' = IF Configured(s) THEN [destinations EXCEPT ![s].retryAt = RetryTime(sent, sender.started)]
                          ELSE destinations
       /\ refused' = IF ~same THEN refused ELSE IF sent THEN refused \ {s} ELSE refused \cup {s}
       /\ crossed' = IF same THEN crossed \ {s} ELSE crossed \cup {s}
       /\ UNCHANGED <<oscConfig, queue, wake, encoded, readState, sockets, identity, oscEnvironment, frozen, budget>>

----------------------------------------------------------------------------
(* The read thread *)

\* read_loop(): the socket, or the port to open one with.
CheckSocket ==
    /\ oscOn /\ reader.at = "check"
    /\ reader' = IF listening = 0 THEN [reader EXCEPT !.at = "open", !.port = oscSettings.listen]
                 ELSE [reader EXCEPT !.at = "call", !.socket = listening]
    /\ late' = (late /\ listening # 0)
    /\ UNCHANGED <<listening, sockets>>
\* open_listen_socket(), and its result in _listen_sock; it is tried again when there is no socket.
OpenListen ==
    /\ reader.at = "open"
    /\ IF CanOpen
       THEN /\ sockets' = Opened(FreeSocket, reader.port)
            /\ listening' = FreeSocket
            /\ reader' = [reader EXCEPT !.at = "call", !.socket = FreeSocket]
       ELSE reader' = [reader EXCEPT !.at = "check"] /\ UNCHANGED <<sockets, listening>>
    /\ UNCHANGED late
\* zsock_recvfrom() of a number: whoever has this socket by now.
CallReceive ==
    /\ reader.at = "call"
    /\ reader' = [reader EXCEPT !.at = IF reader.socket \in Open THEN "receive" ELSE "failed"]
    /\ UNCHANGED <<listening, late, sockets>>
\* A receive that failed: close_listen_socket().
ReceiveFailed ==
    /\ reader.at = "failed"
    /\ sockets' = IF listening # 0 THEN Closed(listening) ELSE sockets
    /\ listening' = 0
    /\ reader' = [reader EXCEPT !.at = "check"]
    /\ UNCHANGED late
ReadThread ==
    /\ CheckSocket \/ OpenListen \/ CallReceive \/ ReceiveFailed
    /\ UNCHANGED <<oscConfig, sendState, heard, identity, oscEnvironment, sharedVars>>

SenderAllowed(host) == ~oscSettings.restrict \/ \E s \in Slots : Configured(s) /\ destinations[s].host = host
\* send_discovery_response(): to the sender, once for every destination, up to the first that fails.
Responses(host) ==
    IF HasIdentity /\ host \in reachable
    THEN [s \in 1 .. Cardinality({t \in Slots : Configured(t)}) |-> Traffic("NetworkOut")] ELSE <<>>
\* receive_packet(): requests have no arguments, other messages start with a number.
Heard(datagram) ==
    LET message == ParseMessage(datagram.bytes)
        output == ParseIndexed(message.address, "output")
    IN CASE ~SenderAllowed(datagram.host) \/ ~message.ok -> <<>>
         [] message.address = Paths["discover"] ->
                IF message.args = <<>> THEN <<Traffic("NetworkIn")>> \o Responses(datagram.host) ELSE <<>>
         [] message.address = Paths["refresh"] ->
                IF message.args = <<>> THEN <<[kind |-> "refresh"], Traffic("NetworkIn")>> ELSE <<>>
         [] message.args = <<>> \/ message.args[1].tag # IntTag \/ output = -1 -> <<>>
         [] OTHER -> <<[kind |-> "output", index |-> output, value |-> message.args[1].value], Traffic("NetworkIn")>>
Receive ==
    /\ Spend("datagrams")
    /\ reader.at = "receive" /\ reader.socket \in Open /\ sockets[reader.socket] # 0
    /\ \E datagram \in Datagrams :
          LET acted == Heard(datagram)
              message == ParseMessage(datagram.bytes)
          IN /\ bus' = bus \o acted
             /\ heard' = IF acted = <<>> THEN heard
                         ELSE [bytes |-> datagram.bytes, message |-> [address |-> message.address, args |-> message.args]]
    /\ reader' = [reader EXCEPT !.at = "check"]
    /\ UNCHANGED <<oscConfig, sendState, listening, late, sockets, identity, oscEnvironment, frozen>>
ReceiveFault ==
    /\ reader.at = "receive" /\ Spend("faults")
    /\ reader' = [reader EXCEPT !.at = "failed"]
    /\ UNCHANGED <<oscConfig, sendState, listening, late, heard, sockets, identity, oscEnvironment, bus, frozen>>

----------------------------------------------------------------------------
(* Settings *)

Valid(w) ==
    CASE w.setting = "restrict" -> w.value \in BOOLEAN
      [] w.setting = "host" -> w.value \in 0 .. MaxHost
      [] w.setting \in {"port", "listen"} -> w.value \in 1 .. MaxPort
Written(w) ==
    CASE w.setting \in {"restrict", "listen"} -> [oscSettings EXCEPT ![w.setting] = w.value]
      [] OTHER -> [oscSettings EXCEPT !.destinations[w.slot][w.setting] = w.value]

\* Mutant: the port is used the next time a socket is opened.
ListenLater == UNCHANGED <<listening, sockets, reader, late>>
\* close_listen_socket(): the reader opens a socket with the new port.
CloseListen ==
    /\ listening' = 0
    /\ sockets' = IF listening # 0 THEN Closed(listening) ELSE sockets
    /\ reader' = IF listening # 0 THEN Woken(listening) ELSE reader
    /\ late' = CASE reader.at \in {"open", "call"} -> TRUE
                 [] reader.at = "receive" -> reader.socket # listening
                 [] OTHER -> FALSE
\* sys_config_set(): a request that writes a setting.
WriteOsc ==
    /\ Spend("oscWrites")
    /\ \E w \in OscWrites :
          IF ~Valid(w)
          THEN UNCHANGED <<oscSettings, listening, sockets, reader, late, destinations, queue, refused, crossed>>
          ELSE /\ oscSettings' = Written(w)
               /\ IF w.setting = "listen" /\ oscOn THEN CloseListen ELSE UNCHANGED <<listening, sockets, reader, late>>
               /\ IF w.setting \in {"host", "port"}
                  THEN destinations' = RefreshDestinations(Written(w)) /\ queue' = <<>> /\ refused' = {} /\ crossed' = {}
                  ELSE UNCHANGED <<destinations, queue, refused, crossed>>
    /\ UNCHANGED <<oscOn, wake, sender, encoded, heard, identity, oscEnvironment, bus, frozen>>

----------------------------------------------------------------------------
(* The environment *)

\* A moment, or half of the time that the uptime can count.
TimePasses ==
    /\ Spend("ticks")
    /\ \E time \in {1, TimeModulus \div 2} : uptime' = (uptime + time) % TimeModulus
    /\ UNCHANGED <<oscConfig, sendState, readState, sockets, identity, reachable, bus, frozen>>
HostChanges ==
    /\ Spend("hosts")
    /\ \E s \in Slots : Configured(s) /\ reachable' = SymDiff(reachable, {destinations[s].host})
    /\ UNCHANGED <<oscConfig, sendState, readState, sockets, identity, uptime, bus, frozen>>

----------------------------------------------------------------------------
(* Properties *)

\* Refuted.  RetryTime() keeps 0 for a destination that was reached (osc.cpp:586), a time like any other for
\* retry_active(): half of the range of the uptime later, no packet is sent to a destination that never failed.
BackoffHasReason == \A s \in Slots : Configured(s) /\ RetryActive(destinations[s].retryAt) => s \in refused \cup crossed

\* What BackoffHasReason fails for.
ZeroLooksLater(s) == destinations[s].retryAt = 0 /\ uptime > TimeModulus \div 2

\* No packet waits in the queue for the next signal: when the send thread waits and nobody has woken it, the queue
\* is empty.  A destination is in backoff only when a packet has failed to reach it, since it was configured, unless
\* it was configured while a packet was on its way to the endpoint before it, or the uptime is past its half.
SenderSound ==
    /\ sender.at = "wait" /\ ~wake => queue = <<>>
    /\ \A s \in Slots :
          Configured(s) /\ RetryActive(destinations[s].retryAt) => s \in refused \cup crossed \/ ZeroLooksLater(s)

\* The thread that waits for packets does so on the port of the settings, unless the port was written
\* while the thread was about to open a socket or to wait for its packets.
ListensOnPort ==
    reader.at = "receive" /\ ~late =>
        /\ reader.socket \in Open
        /\ sockets[reader.socket] = oscSettings.listen

\* A datagram that is acted on is a message that the writer would have written, and a packet that is
\* queued is read as the message that the signal became.
MessagesKept ==
    /\ heard.bytes # <<>> => WellFormed(heard.bytes, heard.message)
    /\ encoded.bytes # <<>> =>
        LET read == ParseMessage(encoded.bytes)
        IN read.ok /\ read.address = encoded.message.address /\ read.args = encoded.message.args
=============================================================================
