----------------------------- MODULE WebSockets ------------------------------
(***************************************************************************)
(* The WebSockets transport (common/src/protocols/websockets) with the     *)
(* handlers of the firmware for configuration and updates, and what System *)
(* does with the configuration session of a client.                        *)
(*                                                                         *)
(* The HTTP server accepts, the client thread receives, the other thread   *)
(* sends; the dispatcher brings the answers of System.  One client is      *)
(* active.  A client is identified by the number of its socket and a       *)
(* generation; the number is used again when the socket is closed.         *)
(***************************************************************************)
EXTENDS NetworkBus, FiniteSetsExt

CONSTANTS
    Clients,       \* connections, each is made once
    ClientSockets, \* numbers of their sockets
    Fragments,     \* packets of an answer
    TxCapacity     \* frames in the send queue

\* 0 stands for no client and for no socket.
ASSUME WebAssumption ==
    /\ Clients \subseteq Nat \ {0} /\ ClientSockets \subseteq Nat \ {0}
    /\ Fragments \in Nat \ {0} /\ TxCapacity \in Nat

VARIABLES
    peers,     \* by socket: the client it is connected to, 0 when it is not open
    arrived,   \* frames that a client has sent and nobody has received, by client
    gone,      \* clients that have disconnected
    delivered, \* ghost: clients that got the answer to a frame of somebody else
    client,    \* _client_socket (0 is none) and _client_generation
    accepting, \* the HTTP server in accept_client(): [at, socket, old, session]
    clientLoop, clientWake, \* the client thread: [at, socket, generation, frame], and _client_wakeup
    txQueue, txLoop, txWake, \* the queue, the send thread [at, frame] and _tx_wakeup
    session,   \* the handler: _session_active, _active_session_id
    answer,    \* _response_buffer: who asked for the packets in it
    config,    \* System: the configuration session over WebSockets [on, session]
    overtaken  \* ghost: sessions that a request was made for after they were closed

webVars == <<peers, arrived, gone, delivered, client, accepting, clientLoop, clientWake, txQueue, txLoop, txWake,
             session, answer, config, overtaken>>
webPeers == <<peers, arrived, gone, delivered>>
webThreads == <<accepting, clientLoop, clientWake>>
webSending == <<txQueue, txLoop, txWake>>
webConfig == <<session, answer, config, overtaken>>

\* process_tx_queue() sends with both locks of the client held.
Locked == txLoop.at = "send"
NoFrame == [asker |-> 0, kind |-> "none"]

WebInit ==
    /\ peers = [s \in ClientSockets |-> 0]
    /\ arrived = [c \in Clients |-> <<>>]
    /\ gone = {} /\ delivered = {}
    /\ client = [socket |-> 0, generation |-> 0]
    /\ accepting = [at |-> "idle", socket |-> 0, old |-> [socket |-> 0, generation |-> 0]]
    /\ clientLoop = [at |-> "wait", socket |-> 0, generation |-> 0, frame |-> NoFrame]
    /\ clientWake = FALSE
    /\ txQueue = <<>> /\ txLoop = [at |-> "wait", frame |-> NoFrame] /\ txWake = FALSE
    /\ session = [active |-> FALSE, id |-> 0]
    /\ answer = <<>>
    /\ config = [on |-> FALSE, session |-> 0]
    /\ overtaken = {}

----------------------------------------------------------------------------
(* Closing *)

\* close_client(): only the client that has this socket and this generation.  Its receive fails, now or when it is called.
CloseMatching(target) ==
    /\ ~Locked
    /\ client = target
    /\ client' = [socket |-> 0, generation |-> client.generation + 1]
    /\ peers' = [peers EXCEPT ![target.socket] = 0]
    /\ txQueue' = <<>>
\* on_close_session() of the handlers
CloseSession(id) ==
    IF session.active /\ session.id = id
    THEN /\ session' = [session EXCEPT !.active = FALSE]
         /\ answer' = <<>>
         /\ bus' = Append(bus, [kind |-> "disconnect", session |-> id])
    ELSE UNCHANGED <<session, answer, bus>>

----------------------------------------------------------------------------
(* The HTTP server: accept_client() *)

FreeSockets == {s \in ClientSockets : peers[s] = 0}
Connected == {peers[s] : s \in ClientSockets} \ {0}
Accept ==
    /\ accepting.at = "idle" /\ ~Locked /\ FreeSockets # {}
    /\ \E c \in Clients :
          /\ c \notin Connected \cup gone /\ \A d \in Clients : d < c => d \in Connected \cup gone
          /\ peers' = [peers EXCEPT ![Min(FreeSockets)] = c]
          /\ arrived' = arrived
    /\ Spend("clients")
    /\ accepting' = [at |-> IF client.socket # 0 THEN "replace" ELSE "adopt", socket |-> Min(FreeSockets), old |-> client]
    /\ UNCHANGED <<gone, delivered, client, clientLoop, clientWake, webSending, webConfig, bus, frozen>>
Replace ==
    /\ accepting.at = "replace"
    /\ \/ /\ CloseMatching(accepting.old)
          /\ accepting' = [accepting EXCEPT !.at = "notify"]
          /\ clientLoop' \in {clientLoop} \cup (IF clientLoop.at = "receive" /\ clientLoop.socket = accepting.old.socket
                                                THEN {[clientLoop EXCEPT !.at = "close"]} ELSE {})
       \/ /\ client # accepting.old
          /\ accepting' = [accepting EXCEPT !.at = "adopt"]
          /\ UNCHANGED <<client, peers, txQueue, clientLoop>>
    /\ UNCHANGED <<arrived, gone, delivered, clientWake, txLoop, txWake, webConfig, sharedVars>>
NotifyReplaced ==
    /\ accepting.at = "notify"
    /\ CloseSession(accepting.old.generation)
    /\ accepting' = [accepting EXCEPT !.at = "adopt"]
    /\ UNCHANGED <<webPeers, client, clientLoop, clientWake, webSending, config, overtaken, frozen, budget>>
Adopt ==
    /\ accepting.at = "adopt" /\ ~Locked
    /\ client' = [socket |-> accepting.socket, generation |-> client.generation + 1]
    /\ clientWake' = TRUE
    /\ accepting' = [accepting EXCEPT !.at = "idle"]
    /\ UNCHANGED <<webPeers, clientLoop, webSending, webConfig, sharedVars>>

----------------------------------------------------------------------------
(* The client thread *)

TakeClient ==
    /\ clientLoop.at = "wait" /\ clientWake /\ ~Locked
    /\ clientWake' = FALSE
    /\ clientLoop' = IF client.socket = 0 THEN clientLoop
                     ELSE [at |-> "receive", socket |-> client.socket, generation |-> client.generation, frame |-> NoFrame]
    /\ UNCHANGED <<webPeers, client, accepting, webSending, webConfig, sharedVars>>

\* A frame of whoever the socket belongs to now; an error when it is closed, -ENOTCONN when the client is gone.
ReceiveFrame ==
    /\ clientLoop.at = "receive"
    /\ LET c == peers[clientLoop.socket]
       IN IF c = 0 \/ (c \in gone /\ arrived[c] = <<>>)
          THEN clientLoop' = [clientLoop EXCEPT !.at = "close"] /\ UNCHANGED arrived
          ELSE /\ arrived[c] # <<>>
               /\ arrived' = [arrived EXCEPT ![c] = Tail(@)]
               /\ clientLoop' = [clientLoop EXCEPT !.at = IF Head(arrived[c]) = "close" THEN "close" ELSE "handle",
                                                   !.frame = [asker |-> c, kind |-> Head(arrived[c])]]
    /\ UNCHANGED <<peers, gone, delivered, client, accepting, clientWake, webSending, webConfig, sharedVars>>

\* Mutant: the session of the frame is not looked at.
QueueAnyFrame(frame, id) ==
    IF client.socket = 0 \/ Len(txQueue) >= TxCapacity
    THEN UNCHANGED <<txQueue, txWake>> ELSE txQueue' = Append(txQueue, frame) /\ txWake' = TRUE
\* queue_frame(): for the client that is active, and while there is room.
QueueFrame(frame, id) ==
    IF client.generation # id \/ client.socket = 0 \/ Len(txQueue) >= TxCapacity
    THEN UNCHANGED <<txQueue, txWake>> ELSE txQueue' = Append(txQueue, frame) /\ txWake' = TRUE

\* handle_command_frame(): a SysEx frame becomes a request of the session.
HandleSysEx ==
    /\ clientLoop.at = "handle" /\ clientLoop.frame.kind = "sysex"
    /\ session' = [active |-> TRUE, id |-> clientLoop.generation]
    /\ bus' = bus \o <<[kind |-> "request", session |-> clientLoop.generation, asker |-> clientLoop.frame.asker],
                       Traffic("NetworkIn")>>
    /\ overtaken' = IF client = [socket |-> clientLoop.socket, generation |-> clientLoop.generation]
                    THEN overtaken ELSE overtaken \cup {clientLoop.generation}
    /\ clientLoop' = [clientLoop EXCEPT !.at = "receive"]
    /\ UNCHANGED <<webPeers, client, accepting, clientWake, webSending, answer, config, frozen, budget>>
\* The first frame of an update ends the configuration session; it is acknowledged at once.
HandleBegin ==
    /\ clientLoop.at = "handle" /\ clientLoop.frame.kind = "begin" /\ ~Locked
    /\ bus' = bus \o <<[kind |-> "disconnect", session |-> clientLoop.generation], Traffic("NetworkIn"), Traffic("NetworkOut")>>
    /\ QueueFrame(clientLoop.frame, clientLoop.generation)
    /\ clientLoop' = [clientLoop EXCEPT !.at = "receive"]
    /\ UNCHANGED <<webPeers, client, accepting, clientWake, txLoop, webConfig, frozen, budget>>

\* close_client() at the end of client_loop(); nothing when somebody else has closed this client.
CloseClient ==
    /\ clientLoop.at = "close"
    /\ IF client = [socket |-> clientLoop.socket, generation |-> clientLoop.generation]
       THEN CloseMatching(client) /\ clientLoop' = [clientLoop EXCEPT !.at = "notify"]
       ELSE clientLoop' = [clientLoop EXCEPT !.at = "wait"] /\ UNCHANGED <<client, peers, txQueue>>
    /\ UNCHANGED <<arrived, gone, delivered, accepting, clientWake, txLoop, txWake, webConfig, sharedVars>>
NotifyClosed ==
    /\ clientLoop.at = "notify"
    /\ CloseSession(clientLoop.generation)
    /\ clientLoop' = [clientLoop EXCEPT !.at = "wait"]
    /\ UNCHANGED <<webPeers, client, accepting, clientWake, webSending, config, overtaken, frozen, budget>>

----------------------------------------------------------------------------
(* The send thread *)

TakeTx ==
    /\ txLoop.at = "wait" /\ txWake
    /\ txWake' = FALSE
    /\ txLoop' = [txLoop EXCEPT !.at = "drain"]
    /\ UNCHANGED <<webPeers, client, webThreads, txQueue, webConfig, sharedVars>>
\* process_tx_queue()
NextFrame ==
    /\ txLoop.at = "drain"
    /\ IF client.socket = 0 \/ txQueue = <<>>
       THEN txLoop' = [txLoop EXCEPT !.at = "wait"] /\ UNCHANGED txQueue
       ELSE txLoop' = [at |-> "send", frame |-> Head(txQueue)] /\ txQueue' = Tail(txQueue)
    /\ UNCHANGED <<webPeers, client, webThreads, txWake, webConfig, sharedVars>>
\* websocket_send_msg() returns when the client has read the frame, or is gone.
SendFrame ==
    /\ txLoop.at = "send"
    /\ txLoop' = [at |-> "drain", frame |-> NoFrame]
    /\ LET c == peers[client.socket]
       IN delivered' = IF c \notin gone /\ txLoop.frame.asker # c THEN delivered \cup {c} ELSE delivered
    /\ UNCHANGED <<peers, arrived, gone, client, webThreads, txQueue, txWake, webConfig, sharedVars>>

----------------------------------------------------------------------------
(* System and the answers, on the dispatcher *)

Response(id, asker) == [i \in 1 .. Fragments |-> [kind |-> "response", session |-> id, asker |-> asker, part |-> i]]
\* handle_config_request(): a session is opened with the first request, whoever asks next takes it over.
HandleRequest(request) ==
    /\ config' = [on |-> TRUE, session |-> request.session]
    /\ bus' = Tail(bus) \o Response(request.session, request.asker)
              \o (IF config.on THEN <<>> ELSE <<[kind |-> "opened"]>>)
    /\ UNCHANGED <<webPeers, client, webThreads, webSending, session, answer, overtaken>>
\* handle_config_disconnect(): the session that System has.
HandleDisconnect(disconnect) ==
    /\ IF config.on /\ config.session = disconnect.session
       THEN config' = [config EXCEPT !.on = FALSE] /\ bus' = Append(Tail(bus), [kind |-> "closed"])
       ELSE bus' = Tail(bus) /\ UNCHANGED config
    /\ UNCHANGED <<webPeers, client, webThreads, webSending, session, answer, overtaken>>
\* send_response_packet(): the packets of an answer are gathered into a frame.
HandleResponse(response) ==
    /\ ~Locked
    /\ IF client.socket = 0 \/ client.generation # response.session
       THEN bus' = Tail(bus) /\ UNCHANGED <<answer, txQueue, txWake>>
       ELSE IF response.part < Fragments
       THEN answer' = Append(answer, response.asker) /\ bus' = Tail(bus) /\ UNCHANGED <<txQueue, txWake>>
       ELSE /\ answer' = <<>>
            /\ QueueFrame([asker |-> IF {response.asker} = ToSet(Append(answer, response.asker)) /\ Len(answer) = Fragments - 1
                                     THEN response.asker ELSE 0,
                           kind |-> "answer"], response.session)
            /\ bus' = Append(Tail(bus), Traffic("NetworkOut"))
    /\ UNCHANGED <<webPeers, client, webThreads, txLoop, session, config, overtaken>>

\* The session is closed when nothing was asked for a while.
ConfigTimeout ==
    /\ config.on /\ Spend("timeouts")
    /\ config' = [config EXCEPT !.on = FALSE]
    /\ bus' = Append(bus, [kind |-> "closed"])
    /\ UNCHANGED <<webPeers, client, webThreads, webSending, session, answer, overtaken, frozen>>

----------------------------------------------------------------------------
(* The clients *)

ClientSends ==
    /\ Spend("frames")
    /\ \E c \in Connected \ gone, kind \in {"sysex", "begin", "close"} : arrived' = [arrived EXCEPT ![c] = Append(@, kind)]
    /\ UNCHANGED <<peers, gone, delivered, client, webThreads, webSending, webConfig, bus, frozen>>
ClientLeaves ==
    /\ Spend("leaves")
    /\ \E c \in Connected \ gone : gone' = gone \cup {c}
    /\ UNCHANGED <<peers, arrived, delivered, client, webThreads, webSending, webConfig, bus, frozen>>

----------------------------------------------------------------------------
(* Properties *)

\* A client gets the whole answers to its own frames and nothing else, although sockets are used again, answers are
\* gathered packet by packet on another thread and clients replace each other in the middle of it.
AnswersToAsker == delivered = {}

\* When everything that has happened to the clients has been handled, System has no configuration session of a client
\* that is not connected any more, unless a request of it was made after its end had been announced.
SessionsEnd ==
    bus = <<>> /\ accepting.at = "idle" /\ clientLoop.at \notin {"close", "notify"} /\ config.on =>
        \/ client.socket # 0 /\ client.generation = config.session
        \/ config.session \in overtaken

\* Clients that replace each other share neither answers nor sessions.
ClientsKeptApart == AnswersToAsker /\ SessionsEnd
=============================================================================
