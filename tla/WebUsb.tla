------------------------------- MODULE WebUsb -------------------------------
(***************************************************************************)
(* The WebUSB transport of the bootloader (bootloader/src/protocols/webusb *)
(* and its USB class, hwa/hw/webusb_hw.cpp): the USB device stack's thread *)
(* takes OUT buffers and connection changes, one message queue hands them  *)
(* to the RX thread, which owns the upload.  Both threads write the two    *)
(* atomic flags, one store at a time.                                      *)
(***************************************************************************)
EXTENDS Integers, Sequences, FiniteSets

CONSTANTS
    Depth,        \* RX_QUEUE_DEPTH
    Reserve,      \* RX_CONTROL_QUEUE_RESERVE
    Buffers,      \* RX_BUFFER_COUNT
    MaxSessions   \* bound: how often the host configures the device

ASSUME WebUsbAssumption ==
    /\ {Depth, Reserve, Buffers, MaxSessions} \subseteq Nat \ {0}
    /\ Reserve < Depth

VARIABLES
    enabled,     \* the class is configured: the `enabled` bit
    session,     \* history: how often it has been
    armed,       \* OUT buffers waiting in the USB controller for a packet
    free,        \* OUT buffers in the pool
    queue,       \* _rx_msgq
    connected,   \* _connected
    accepting,   \* _accepting_rx
    usb,         \* what the USB thread is doing: [pc, value, msg]
    rx,          \* what the RX thread is doing: [pc, value, msg, kept]
    stream       \* history: the sessions whose bytes the upload has taken
                 \* since it was last aborted

buffers == <<armed, free>>
flags == <<connected, accepting>>
transportVars == <<enabled, session, buffers, queue, flags, usb, rx, stream>>

Controls == {"Connect", "Disconnect", "Reset"}

\* A queued message; a Data message owns a buffer, that of the session it came
\* in.
Control(type) == [type |-> type, session |-> 0]
Data(s) == [type |-> "Data", session |-> s]
Message == [type : Controls, session : {0}] \cup [type : {"Data"}, session : 1 .. MaxSessions]

UsbIdle == [pc |-> "idle", value |-> FALSE, msg |-> Control("Reset")]
RxWaits == [pc |-> "wait", value |-> FALSE, msg |-> Control("Reset"), kept |-> <<>>]

TransportInit ==
    /\ enabled = FALSE
    /\ session = 0
    /\ armed = 0
    /\ free = Buffers
    /\ queue = <<>>
    /\ connected = FALSE
    /\ accepting = FALSE
    /\ usb = UsbIdle
    /\ rx = RxWaits
    /\ stream = {}

-----------------------------------------------------------------------------
(* The USB thread.                                                         *)

\* k_msgq_put(K_FOREVER): the caller waits for room.
Put(msg) == Len(queue) < Depth /\ queue' = Append(queue, msg)

\* handle_connection_state(c), up to its first store.
Notify(c) ==
    /\ connected' = c
    /\ usb' = [pc |-> "setAccepting", value |-> c,
               msg |-> Control(IF c THEN "Connect" ELSE "Disconnect")]
    /\ UNCHANGED accepting

\* enable(): every buffer the pool still has is armed; with none, the
\* connection is not announced.  (By then the controller has given back the
\* buffers it had.)
Enable ==
    /\ usb.pc = "idle" /\ ~enabled /\ armed = 0
    /\ session < MaxSessions
    /\ enabled' = TRUE
    /\ session' = session + 1
    /\ armed' = free
    /\ free' = 0
    /\ IF free > 0 THEN Notify(TRUE) ELSE UNCHANGED <<flags, usb>>
    /\ UNCHANGED <<queue, rx, stream>>

\* disable(): a bus reset or an unplugged cable.
Disable ==
    /\ usb.pc = "idle" /\ enabled
    /\ enabled' = FALSE
    /\ Notify(FALSE)
    /\ UNCHANGED <<session, buffers, queue, rx, stream>>

\* The second store of handle_connection_state(), and that of receive().
UsbSetAccepting ==
    /\ usb.pc = "setAccepting"
    /\ accepting' = usb.value
    /\ usb' = IF usb.msg.type = "Reset" THEN UsbIdle ELSE [usb EXCEPT !.pc = "put"]
    /\ UNCHANGED <<enabled, session, buffers, queue, connected, rx, stream>>

\* queue_control()
UsbPut ==
    /\ usb.pc \in {"put", "putEmpty"}
    /\ Put(usb.msg)
    /\ usb' = IF usb.pc = "putEmpty" THEN [usb EXCEPT !.pc = "load"] ELSE UsbIdle
    /\ UNCHANGED <<enabled, session, buffers, flags, rx, stream>>

UsbLoad ==
    /\ usb.pc = "load"
    /\ usb' = [usb EXCEPT !.pc = "setAccepting", !.value = connected]
    /\ UNCHANGED <<enabled, session, buffers, queue, flags, rx, stream>>

\* request_handler() for a full OUT buffer; one that is refused goes back to
\* the pool, not to the controller.
Refuse == armed' = armed - 1 /\ free' = free + 1

Receive ==
    /\ usb.pc = "idle" /\ enabled /\ armed > 0
    /\ \/ /\ ~accepting
          /\ Refuse
          /\ UNCHANGED <<queue, usb>>
       \/ /\ accepting /\ Depth - Len(queue) <= Reserve
          /\ Refuse
          /\ usb' = [UsbIdle EXCEPT !.pc = "put"]
          /\ UNCHANGED queue
       \/ /\ accepting /\ Depth - Len(queue) > Reserve
          /\ armed' = armed - 1
          /\ queue' = Append(queue, Data(session))
          /\ UNCHANGED <<free, usb>>
    /\ UNCHANGED <<enabled, session, flags, rx, stream>>

\* receive() for a packet without data.
ReceiveEmpty ==
    /\ usb.pc = "idle" /\ enabled /\ armed > 0
    /\ Refuse
    /\ usb' = [UsbIdle EXCEPT !.pc = "putEmpty"]
    /\ UNCHANGED <<enabled, session, queue, flags, rx, stream>>

\* request_handler() for a buffer the controller gives back when the class is
\* disabled.
Cancelled ==
    /\ usb.pc = "idle" /\ ~enabled /\ armed > 0
    /\ Refuse
    /\ UNCHANGED <<enabled, session, queue, flags, usb, rx, stream>>

-----------------------------------------------------------------------------
(* The RX thread: process_rx().                                            *)

\* release_rx_buffer(): armed again, or back to the pool.
Release(n) ==
    IF enabled THEN armed' = armed + n /\ UNCHANGED free
               ELSE free' = free + n /\ UNCHANGED armed

\* k_msgq_get(); the upload is aborted by every control message.
RxGet ==
    /\ rx.pc = "wait" /\ queue # <<>>
    /\ queue' = Tail(queue)
    /\ LET msg == Head(queue)
       IN /\ rx' = [RxWaits EXCEPT !.msg = msg,
                      !.value = msg.type = "Connect",
                      !.pc = CASE msg.type = "Data"       -> "data"
                               [] msg.type = "Connect"    -> "setConnected"
                               [] msg.type = "Disconnect" -> "drain"
                               [] msg.type = "Reset"      -> "load"]
          /\ stream' = IF msg.type = "Data" THEN stream ELSE {}
    /\ UNCHANGED <<enabled, session, buffers, flags, usb>>

\* Mutant: a failed message keeps its buffer.
RxDataFailsHolding ==
    /\ rx.pc = "data"
    /\ stream' = {}
    /\ rx' = [rx EXCEPT !.pc = "drain"]
    /\ UNCHANGED <<enabled, session, buffers, queue, flags, usb>>

\* A Data message whose bytes complete no frame, or only frames that are
\* answered Ok.
RxData ==
    /\ rx.pc = "data"
    /\ Release(1)
    /\ stream' = stream \cup {rx.msg.session}
    /\ rx' = RxWaits
    /\ UNCHANGED <<enabled, session, queue, flags, usb>>

\* One that does not fit, is no frame or is not answered Ok: the buffer is
\* released and reset(true) begins by aborting the upload.
RxDataFails ==
    /\ rx.pc = "data"
    /\ Release(1)
    /\ stream' = {}
    /\ rx' = [rx EXCEPT !.pc = "drain"]
    /\ UNCHANGED <<enabled, session, queue, flags, usb>>

\* What follows reset(true).
AfterReset(r) ==
    [r EXCEPT !.pc = IF r.msg.type = "Data" THEN "load" ELSE "setConnected"]

\* Mutant: data messages are put back with the control messages.
RxDrainKeepsData ==
    /\ rx.pc = "drain" /\ queue # <<>>
    /\ queue' = Tail(queue)
    /\ rx' = [rx EXCEPT !.kept = Append(@, Head(queue))]
    /\ UNCHANGED <<enabled, session, buffers, flags, usb, stream>>

\* reset(true): the queue is emptied, releasing data and keeping control
\* messages ...
RxDrain ==
    /\ rx.pc = "drain" /\ queue # <<>>
    /\ queue' = Tail(queue)
    /\ IF Head(queue).type = "Data"
       THEN Release(1) /\ UNCHANGED rx
       ELSE /\ rx' = IF Len(rx.kept) < Depth
                     THEN [rx EXCEPT !.kept = Append(@, Head(queue))] ELSE rx
            /\ UNCHANGED buffers
    /\ UNCHANGED <<enabled, session, flags, usb, stream>>

RxDrained ==
    /\ rx.pc = "drain" /\ queue = <<>>
    /\ rx' = IF rx.kept = <<>> THEN AfterReset(rx) ELSE [rx EXCEPT !.pc = "requeue"]
    /\ UNCHANGED <<enabled, session, buffers, queue, flags, usb, stream>>

\* ... which are then put back, waiting for room.
RxRequeue ==
    /\ rx.pc = "requeue"
    /\ Put(Head(rx.kept))
    /\ rx' = IF Len(rx.kept) = 1 THEN AfterReset([rx EXCEPT !.kept = <<>>])
             ELSE [rx EXCEPT !.kept = Tail(@)]
    /\ UNCHANGED <<enabled, session, buffers, flags, usb, stream>>

\* The stores that end a message: _connected and _accepting_rx after Connect
\* and Disconnect, _accepting_rx from _connected otherwise.
RxSetConnected ==
    /\ rx.pc = "setConnected"
    /\ connected' = rx.value
    /\ rx' = [rx EXCEPT !.pc = "setAccepting"]
    /\ UNCHANGED <<enabled, session, buffers, queue, accepting, usb, stream>>

RxLoad ==
    /\ rx.pc = "load"
    /\ rx' = [rx EXCEPT !.pc = "setAccepting", !.value = connected]
    /\ UNCHANGED <<enabled, session, buffers, queue, flags, usb, stream>>

RxSetAccepting ==
    /\ rx.pc = "setAccepting"
    /\ accepting' = rx.value
    /\ rx' = RxWaits
    /\ UNCHANGED <<enabled, session, buffers, queue, connected, usb, stream>>

-----------------------------------------------------------------------------
UsbEvent == Enable \/ Disable \/ Receive \/ ReceiveEmpty

UsbStep == UsbSetAccepting \/ UsbPut \/ UsbLoad

RxStep ==
    \/ RxGet \/ RxData \/ RxDataFails \/ RxDrain \/ RxDrained \/ RxRequeue
    \/ RxSetConnected \/ RxLoad \/ RxSetAccepting

TransportNext == UsbEvent \/ UsbStep \/ Cancelled \/ RxStep

\* Both threads go on while they can; the host owes nothing.
TransportSpec ==
    /\ TransportInit
    /\ [][TransportNext]_transportVars
    /\ WF_transportVars(UsbStep)
    /\ WF_transportVars(Cancelled)
    /\ WF_transportVars(RxStep)

-----------------------------------------------------------------------------
(* Properties.                                                             *)

TransportTypeOK ==
    /\ {enabled, connected, accepting} \subseteq BOOLEAN
    /\ session \in 0 .. MaxSessions
    /\ armed \in 0 .. Buffers
    /\ free \in 0 .. Buffers
    /\ queue \in Seq(Message) /\ Len(queue) <= Depth
    /\ usb \in [pc : {"idle", "setAccepting", "put", "putEmpty", "load"},
                value : BOOLEAN, msg : [type : Controls, session : {0}]]
    /\ rx.pc \in {"wait", "data", "drain", "requeue", "setConnected", "load",
                  "setAccepting"}
    /\ rx.value \in BOOLEAN
    /\ rx.msg \in Message
    /\ rx.kept \in Seq([type : Controls, session : {0}]) /\ Len(rx.kept) <= Depth

\* Every OUT buffer is in exactly one place: the controller, the pool, a queued
\* message, or the message the RX thread is handling.  Each of the six ways out
\* of process_rx() releases it once.
BuffersAccounted ==
    armed + free + Cardinality({i \in DOMAIN queue : queue[i].type = "Data"})
        + (IF rx.pc = "data" THEN 1 ELSE 0) = Buffers

\* An upload is never continued with the bytes of another connection, although
\* Disconnect and Connect may be drained from the queue and put back behind data
\* that came after them.
OneConnectionPerUpload == Cardinality(stream) <= 1

\* Over two connections no buffer is lost or released twice, and no upload mixes the two.
TransportSafe == TransportTypeOK /\ BuffersAccounted /\ OneConnectionPerUpload

\* "the RX thread took ownership and will release the buffer": after the cable
\* is pulled every buffer returns to the pool, from the queue too, unless the
\* host comes back before.
BuffersReturned == ~enabled ~> (free = Buffers \/ enabled)

\* The RX thread waits for room in the queue that it alone empties.
SelfBlocked == rx.pc = "requeue" /\ Len(queue) = Depth

\* Nothing else can keep it from releasing them.
BuffersReturnedUnlessBlocked == ~enabled ~> (free = Buffers \/ enabled \/ SelfBlocked)
=============================================================================
