-------------------------- MODULE BootloaderProofs --------------------------
(***************************************************************************)
(* The theorems about the bootloader beyond its upload protocol: first the *)
(* WebUSB transport, which brings packages to the recovery bootloader,     *)
(* then the update from end to end.                                        *)
(***************************************************************************)
EXTENDS StagedUpdate, WebUsb, FiniteSetTheorems, SequenceTheorems, TLAPS

-----------------------------------------------------------------------------
(***************************************************************************)
(* What holds of the WebUSB transport whatever the sizes of its queue and  *)
(* of its pool, and however often the host comes and goes.                 *)
(***************************************************************************)

ControlMessage == [type : Controls, session : {0}]
DataMessage == [type : {"Data"}, session : 1 .. MaxSessions]

RxState ==
    [pc : {"wait", "data", "drain", "requeue", "setConnected", "load", "setAccepting"},
     value : BOOLEAN, msg : Message, kept : Seq(ControlMessage)]

UsbState ==
    [pc : {"idle", "setAccepting", "put", "putEmpty", "load"},
     value : BOOLEAN, msg : ControlMessage]

\* The data messages of a queue, and how many there are.
DataIn(q) == {i \in DOMAIN q : q[i].type = "Data"}
Count(q) == Cardinality(DataIn(q))

-----------------------------------------------------------------------------
(* The invariant of the transport.                                         *)

ThreadInv ==
    /\ rx \in RxState
    /\ rx.pc = "data" => rx.msg.type = "Data"
    /\ rx.pc = "drain" => stream = {}
    /\ rx.pc = "requeue" => rx.kept # <<>>
    /\ usb.pc = "idle" => usb = UsbIdle
    /\ enabled => session > 0

\* The sessions whose bytes the upload has, or is about to be given.
Held == stream \cup (IF rx.pc = "data" THEN {rx.msg.session} ELSE {})

ControlBefore(j) == \E k \in DOMAIN queue : k < j /\ queue[k].type # "Data"
ControlAfter(i)  == \E k \in DOMAIN queue : i < k /\ queue[k].type # "Data"

\* Data of two sessions is always kept apart by a control message, which
\* aborts the upload when its turn comes: reset(true) may put one back behind
\* data that came after it, but never takes one out from between.
SeparationInv ==
    /\ \A s, t \in Held : s = t
    /\ \A s \in Held, j \in DataIn(queue) : s # queue[j].session => ControlBefore(j)
    /\ \A i, j \in DataIn(queue) : i < j /\ queue[i].session # queue[j].session =>
          \E k \in DOMAIN queue : i < k /\ k < j /\ queue[k].type # "Data"

\* Data of a session that is over, while the next one may already deliver some.
Stale(s) == enabled => s # session

\* Once the end of a session has been queued, so that data of the next one may
\* follow, a control message comes after all that is left of it.
ClosingInv ==
    enabled \/ usb.msg.type # "Disconnect" =>
       /\ \A s \in Held : Stale(s) => ControlAfter(0)
       /\ \A i \in DataIn(queue) : Stale(queue[i].session) => ControlAfter(i)

TransportInv == TransportTypeOK /\ ThreadInv /\ BuffersAccounted /\ SeparationInv /\ ClosingInv

-----------------------------------------------------------------------------
(* Queues.                                                                 *)

LEMMA MessageFacts ==
    /\ \A m \in Message : IF m.type = "Data" THEN m \in DataMessage ELSE m \in ControlMessage
    /\ ControlMessage \subseteq Message /\ DataMessage \subseteq Message
    /\ \A m \in ControlMessage : m.type # "Data"
    /\ \A c \in Controls : Control(c) \in ControlMessage /\ Control(c).type = c
    /\ \A s \in 1 .. MaxSessions : /\ Data(s) \in DataMessage
                                   /\ Data(s).type = "Data" /\ Data(s).session = s
BY DEF Message, ControlMessage, DataMessage, Controls, Control, Data

LEMMA CountFacts ==
    ASSUME NEW q \in Seq(Message)
    PROVE  /\ IsFiniteSet(DataIn(q)) /\ Count(q) \in Nat
           /\ q = <<>> => Count(q) = 0
<1>1. Len(q) \in Nat /\ DOMAIN q = 1 .. Len(q)
  BY LenProperties
<1>2. IsFiniteSet(1 .. Len(q))
  BY <1>1, FS_Interval
<1>3. IsFiniteSet(DataIn(q))
  BY <1>1, <1>2, FS_Subset DEF DataIn
<1>4. q = <<>> => DataIn(q) = {}
  BY <1>1, EmptySeq DEF DataIn
<1> QED BY <1>3, <1>4, FS_CardinalityType, FS_EmptySet DEF Count

LEMMA CountAppend ==
    ASSUME NEW q \in Seq(Message), NEW m \in Message
    PROVE  Count(Append(q, m)) = Count(q) + (IF m.type = "Data" THEN 1 ELSE 0)
<1> DEFINE n == Len(q) + 1
<1>1. /\ Len(q) \in Nat /\ DOMAIN q = 1 .. Len(q) /\ Append(q, m) \in Seq(Message)
      /\ DOMAIN Append(q, m) = 1 .. n
      /\ \A i \in 1 .. Len(q) : Append(q, m)[i] = q[i]
      /\ Append(q, m)[n] = m
  BY LenProperties, AppendProperties
<1>2. DataIn(Append(q, m)) = IF m.type = "Data" THEN DataIn(q) \cup {n} ELSE DataIn(q)
  BY <1>1 DEF DataIn
<1>3. n \notin DataIn(q)
  BY <1>1 DEF DataIn
<1>4. IsFiniteSet(DataIn(q)) /\ Count(q) \in Nat
  BY CountFacts
<1>5. Cardinality(DataIn(q) \cup {n}) = Count(q) + 1
  BY <1>3, <1>4, FS_AddElement DEF Count
<1> QED BY <1>2, <1>4, <1>5 DEF Count

LEMMA TailFacts ==
    ASSUME NEW q \in Seq(Message), q # <<>>
    PROVE  /\ Len(q) \in Nat \ {0} /\ DOMAIN q = 1 .. Len(q)
           /\ Head(q) = q[1] /\ Head(q) \in Message
           /\ Tail(q) \in Seq(Message) /\ Len(Tail(q)) = Len(q) - 1
           /\ DOMAIN Tail(q) = 1 .. Len(q) - 1
           /\ \A i \in 1 .. Len(q) - 1 : Tail(q)[i] = q[i + 1]
BY LenProperties, EmptySeq, HeadTailProperties

LEMMA CountTail ==
    ASSUME NEW q \in Seq(Message), q # <<>>
    PROVE  Count(Tail(q)) = Count(q) - (IF Head(q).type = "Data" THEN 1 ELSE 0)
<1> DEFINE S == DataIn(Tail(q))
           T == DataIn(q) \ {1}
           f == [i \in S |-> i + 1]
<1>1. f \in Bijection(S, T)
  <2>1. \A i \in S : i \in Nat /\ i + 1 \in T
    BY TailFacts DEF DataIn
  <2>2. \A j \in T : j - 1 \in S /\ (j - 1) + 1 = j
    BY TailFacts DEF DataIn
  <2>3. f \in Injection(S, T)
    BY <2>1 DEF Injection, IsInjective
  <2>4. f \in Surjection(S, T)
    BY <2>1, <2>2 DEF Surjection
  <2> QED BY <2>3, <2>4 DEF Bijection
<1>2. Cardinality(S) = Cardinality(T)
  <2>1. IsFiniteSet(S)
    BY TailFacts, CountFacts
  <2>2. ExistsBijection(S, T)
    BY <1>1 DEF ExistsBijection
  <2> QED BY <2>1, <2>2, FS_Bijection
<1>3. Cardinality(T) = IF 1 \in DataIn(q) THEN Count(q) - 1 ELSE Count(q)
  BY CountFacts, FS_RemoveElement DEF Count
<1>4. 1 \in DataIn(q) <=> Head(q).type = "Data"
  BY TailFacts DEF DataIn
<1>5. Count(q) \in Nat
  BY CountFacts
<1> QED BY <1>2, <1>3, <1>4, <1>5 DEF Count

-----------------------------------------------------------------------------
(* What the queue does to the two sessions.                                *)

LEMMA SameQueue ==
    ASSUME SeparationInv, ClosingInv, UNCHANGED <<queue, enabled, session>>,
           Held' \subseteq Held, usb'.msg.type = usb.msg.type \/ enabled
    PROVE  SeparationInv' /\ ClosingInv'
<1>1. SeparationInv'
  BY DEF SeparationInv, ControlBefore, DataIn
<1>2. ClosingInv'
  BY DEF ClosingInv, ControlAfter, Stale, DataIn
<1> QED BY <1>1, <1>2

LEMMA QueueAppend ==
    ASSUME queue \in Seq(Message), NEW m \in Message, queue' = Append(queue, m)
    PROVE  /\ Len(queue) \in Nat /\ DOMAIN queue = 1 .. Len(queue)
           /\ queue' \in Seq(Message) /\ Len(queue') = Len(queue) + 1
           /\ DOMAIN queue' = 1 .. Len(queue) + 1
           /\ queue'[Len(queue) + 1] = m
           /\ \A i \in 1 .. Len(queue) : queue'[i] = queue[i]
BY LenProperties, AppendProperties

\* A control message closes everything in front of it.
LEMMA AppendControl ==
    ASSUME queue \in Seq(Message), SeparationInv, NEW m \in ControlMessage,
           queue' = Append(queue, m), Held' \subseteq Held
    PROVE  SeparationInv' /\ ClosingInv'
<1> DEFINE n == Len(queue) + 1
<1>1. /\ Len(queue) \in Nat /\ DOMAIN queue = 1 .. Len(queue) /\ DOMAIN queue' = 1 .. n
      /\ queue'[n].type # "Data" /\ \A i \in 1 .. Len(queue) : queue'[i] = queue[i]
  BY QueueAppend, MessageFacts
<1>2. DataIn(queue') = DataIn(queue) /\ DataIn(queue) \subseteq 1 .. Len(queue)
  BY <1>1 DEF DataIn
<1>3. (DataIn(queue))' = DataIn(queue')
  BY DEF DataIn
<1>4. n \in DOMAIN queue' /\ 0 < n /\ \A i \in 1 .. Len(queue) : i < n
  BY <1>1
<1>5. SeparationInv'
  <2>1. ASSUME NEW s \in Held', NEW j \in DataIn(queue'), s # queue'[j].session
        PROVE  \E k \in DOMAIN queue' : k < j /\ queue'[k].type # "Data"
    <3>1. ControlBefore(j)
      BY <1>1, <1>2, <2>1 DEF SeparationInv
    <3> QED BY <1>1, <1>2, <3>1 DEF ControlBefore
  <2>2. ASSUME NEW i \in DataIn(queue'), NEW j \in DataIn(queue'), i < j,
               queue'[i].session # queue'[j].session
        PROVE  \E k \in DOMAIN queue' : i < k /\ k < j /\ queue'[k].type # "Data"
    <3>1. \E k \in DOMAIN queue : i < k /\ k < j /\ queue[k].type # "Data"
      BY <1>1, <1>2, <2>2 DEF SeparationInv
    <3> QED BY <1>1, <3>1
  <2>3. \A s, t \in Held' : s = t
    BY DEF SeparationInv
  <2> QED BY <1>3, <2>1, <2>2, <2>3 DEF SeparationInv, ControlBefore
<1>6. ClosingInv'
  BY <1>1, <1>2, <1>3, <1>4 DEF ClosingInv, ControlAfter
<1> QED BY <1>5, <1>6

\* Data only arrives once the end of the session before has been queued.
LEMMA AppendData ==
    ASSUME queue \in Seq(Message), SeparationInv, ClosingInv, enabled,
           session \in 1 .. MaxSessions, queue' = Append(queue, Data(session)),
           UNCHANGED <<enabled, session>>, Held' = Held
    PROVE  SeparationInv' /\ ClosingInv'
<1> DEFINE n == Len(queue) + 1
<1>1. /\ Len(queue) \in Nat /\ DOMAIN queue = 1 .. Len(queue) /\ DOMAIN queue' = 1 .. n
      /\ queue'[n].type = "Data" /\ queue'[n].session = session
      /\ \A i \in 1 .. Len(queue) : queue'[i] = queue[i]
  BY QueueAppend, MessageFacts
<1>2. DataIn(queue') = DataIn(queue) \cup {n} /\ DataIn(queue) \subseteq 1 .. Len(queue)
  BY <1>1 DEF DataIn
<1>3. (DataIn(queue))' = DataIn(queue) \cup {n}
  BY <1>2 DEF DataIn
<1>4. /\ \A s \in Held : s # session => ControlAfter(0)
      /\ \A i \in DataIn(queue) : queue[i].session # session => ControlAfter(i)
  BY DEF ClosingInv, Stale
<1>5. SeparationInv'
  <2>1. ASSUME NEW s \in Held', NEW j \in DataIn(queue) \cup {n}, s # queue'[j].session
        PROVE  \E k \in DOMAIN queue' : k < j /\ queue'[k].type # "Data"
    <3>1. CASE j = n
      <4>1. ControlAfter(0)
        BY <1>1, <1>4, <2>1, <3>1
      <4> QED BY <1>1, <3>1, <4>1 DEF ControlAfter
    <3>2. CASE j \in DataIn(queue)
      <4>1. ControlBefore(j)
        BY <1>1, <1>2, <2>1, <3>2 DEF SeparationInv
      <4> QED BY <1>1, <1>2, <3>2, <4>1 DEF ControlBefore
    <3> QED BY <3>1, <3>2
  <2>2. ASSUME NEW i \in DataIn(queue) \cup {n}, NEW j \in DataIn(queue) \cup {n}, i < j,
               queue'[i].session # queue'[j].session
        PROVE  \E k \in DOMAIN queue' : i < k /\ k < j /\ queue'[k].type # "Data"
    <3>1. i \in DataIn(queue)
      BY <1>1, <1>2, <2>2
    <3>2. CASE j = n
      <4>1. ControlAfter(i)
        BY <1>1, <1>2, <1>4, <2>2, <3>1, <3>2
      <4> QED BY <1>1, <3>2, <4>1 DEF ControlAfter
    <3>3. CASE j \in DataIn(queue)
      <4>1. \E k \in DOMAIN queue : i < k /\ k < j /\ queue[k].type # "Data"
        BY <1>1, <1>2, <2>2, <3>1, <3>3 DEF SeparationInv
      <4> QED BY <1>1, <4>1
    <3> QED BY <3>2, <3>3
  <2>3. \A s, t \in Held' : s = t
    BY DEF SeparationInv
  <2> QED BY <1>3, <2>1, <2>2, <2>3 DEF SeparationInv, ControlBefore
<1>6. ClosingInv'
  <2>1. ASSUME NEW i, ControlAfter(i)
        PROVE  \E k \in DOMAIN queue' : i < k /\ queue'[k].type # "Data"
    BY <1>1, <2>1 DEF ControlAfter
  <2>2. ASSUME NEW s \in Held', Stale(s)'
        PROVE  \E k \in DOMAIN queue' : 0 < k /\ queue'[k].type # "Data"
    BY <1>4, <2>1, <2>2 DEF Stale
  <2>3. ASSUME NEW i \in DataIn(queue) \cup {n}, enabled' => queue'[i].session # session'
        PROVE  \E k \in DOMAIN queue' : i < k /\ queue'[k].type # "Data"
    BY <1>1, <1>2, <1>4, <2>1, <2>3
  <2> QED BY <1>3, <2>2, <2>3 DEF ClosingInv, ControlAfter, Stale
<1> QED BY <1>5, <1>6

\* A message leaves the queue: a control message aborts the upload, data may
\* be what the upload is given next.
LEMMA TakeHead ==
    ASSUME queue \in Seq(Message), SeparationInv, ClosingInv, queue # <<>>,
           queue' = Tail(queue), UNCHANGED <<enabled, session, usb>>,
           IF Head(queue).type = "Data" THEN Held' \subseteq Held \cup {Head(queue).session}
                                        ELSE Held' = {}
    PROVE  SeparationInv' /\ ClosingInv'
<1> DEFINE n == Len(queue)
<1>1. /\ n \in Nat \ {0} /\ DOMAIN queue = 1 .. n /\ DOMAIN queue' = 1 .. n - 1
      /\ Head(queue) = queue[1] /\ \A i \in 1 .. n - 1 : queue'[i] = queue[i + 1]
  BY TailFacts
<1>2. \A i \in DataIn(queue') : i \in 1 .. n - 1 /\ i + 1 \in DataIn(queue)
  BY <1>1 DEF DataIn
<1>3. (DataIn(queue))' = DataIn(queue')
  BY DEF DataIn
<1>4. ASSUME NEW i \in Nat, NEW k \in DOMAIN queue, i + 1 < k, queue[k].type # "Data"
      PROVE  k - 1 \in DOMAIN queue' /\ i < k - 1 /\ queue'[k - 1].type # "Data"
  <2>1. k - 1 \in 1 .. n - 1 /\ (k - 1) + 1 = k
    BY <1>1, <1>4
  <2> QED BY <1>1, <1>4, <2>1
<1>5. ASSUME Head(queue).type = "Data"
      PROVE  /\ 1 \in DataIn(queue)
             /\ \A s \in Held : s = Head(queue).session
             /\ Held' \subseteq {Head(queue).session}
  <2>1. 1 \in DataIn(queue)
    BY <1>1, <1>5 DEF DataIn
  <2>2. ~ControlBefore(1)
    BY <1>1 DEF ControlBefore
  <2>3. \A s \in Held : s = queue[1].session
    BY <2>1, <2>2 DEF SeparationInv
  <2> QED BY <1>1, <1>5, <2>1, <2>3
<1>6. SeparationInv'
  <2>1. \A s, t \in Held' : s = t
    BY <1>5
  <2>2. ASSUME NEW s \in Held', NEW j \in DataIn(queue'), s # queue'[j].session
        PROVE  \E k \in DOMAIN queue' : k < j /\ queue'[k].type # "Data"
    <3>1. Head(queue).type = "Data" /\ 1 \in DataIn(queue) /\ s = queue[1].session
      BY <1>1, <1>5, <2>2
    <3>2. j + 1 \in DataIn(queue) /\ j \in 1 .. n - 1 /\ queue'[j] = queue[j + 1] /\ 1 < j + 1
      BY <1>1, <1>2
    <3>3. PICK k \in DOMAIN queue : 1 < k /\ k < j + 1 /\ queue[k].type # "Data"
      BY <2>2, <3>1, <3>2 DEF SeparationInv
    <3>4. k - 1 \in DOMAIN queue' /\ queue'[k - 1].type # "Data"
      BY <1>4, <3>3
    <3>5. k - 1 < j
      BY <1>1, <3>2, <3>3
    <3> QED BY <3>4, <3>5
  <2>3. ASSUME NEW i \in DataIn(queue'), NEW j \in DataIn(queue'), i < j,
               queue'[i].session # queue'[j].session
        PROVE  \E k \in DOMAIN queue' : i < k /\ k < j /\ queue'[k].type # "Data"
    <3>1. /\ i + 1 \in DataIn(queue) /\ j + 1 \in DataIn(queue) /\ i \in Nat /\ j \in Nat
          /\ queue'[i] = queue[i + 1] /\ queue'[j] = queue[j + 1]
      BY <1>1, <1>2
    <3>2. i + 1 < j + 1
      BY <2>3, <3>1
    <3>3. PICK k \in DOMAIN queue : i + 1 < k /\ k < j + 1 /\ queue[k].type # "Data"
      BY <2>3, <3>1, <3>2 DEF SeparationInv
    <3>4. k - 1 \in DOMAIN queue' /\ i < k - 1 /\ queue'[k - 1].type # "Data"
      BY <1>4, <3>1, <3>3
    <3>5. k - 1 < j
      BY <1>1, <3>1, <3>3
    <3> QED BY <3>4, <3>5
  <2> QED BY <1>3, <2>1, <2>2, <2>3 DEF SeparationInv, ControlBefore
<1>7. ClosingInv'
  <2> SUFFICES ASSUME enabled \/ usb.msg.type # "Disconnect"
               PROVE  /\ \A s \in Held' : (enabled => s # session) =>
                            \E k \in DOMAIN queue' : 0 < k /\ queue'[k].type # "Data"
                      /\ \A i \in DataIn(queue') : (enabled => queue'[i].session # session) =>
                            \E k \in DOMAIN queue' : i < k /\ queue'[k].type # "Data"
    BY <1>3 DEF ClosingInv, ControlAfter, Stale
  <2>1. \A i \in DataIn(queue) : (enabled => queue[i].session # session) => ControlAfter(i)
    BY DEF ClosingInv, Stale
  <2>2. ASSUME NEW s \in Held', enabled => s # session
        PROVE  \E k \in DOMAIN queue' : 0 < k /\ queue'[k].type # "Data"
    <3>1. 1 \in DataIn(queue) /\ s = queue[1].session
      BY <1>1, <1>5, <2>2
    <3>2. ControlAfter(1)
      BY <2>1, <2>2, <3>1
    <3>3. PICK k \in DOMAIN queue : 0 + 1 < k /\ queue[k].type # "Data"
      BY <3>2 DEF ControlAfter
    <3> QED BY <1>4, <3>3
  <2>3. ASSUME NEW i \in DataIn(queue'), enabled => queue'[i].session # session
        PROVE  \E k \in DOMAIN queue' : i < k /\ queue'[k].type # "Data"
    <3>1. i + 1 \in DataIn(queue) /\ i \in Nat /\ queue'[i] = queue[i + 1]
      BY <1>1, <1>2
    <3>2. PICK k \in DOMAIN queue : i + 1 < k /\ queue[k].type # "Data"
      BY <2>1, <2>3, <3>1 DEF ControlAfter
    <3> QED BY <1>4, <3>1, <3>2
  <2> QED BY <2>2, <2>3
<1> QED BY <1>6, <1>7

-----------------------------------------------------------------------------
(* Where the buffers are.                                                  *)

InHand == IF rx.pc = "data" THEN 1 ELSE 0

LEMMA Bounded ==
    ASSUME BuffersAccounted, armed' \in Nat, free' \in Nat, Buffers \in Nat,
           queue \in Seq(Message), queue' \in Seq(Message),
           armed' + free' + Count(queue') + InHand' = armed + free + Count(queue) + InHand
    PROVE  BuffersAccounted' /\ armed' \in 0 .. Buffers /\ free' \in 0 .. Buffers
<1>1. Count(queue') \in Nat /\ InHand' \in Nat
  BY CountFacts DEF InHand
<1>2. armed + free + Count(queue) + InHand = Buffers
  BY DEF BuffersAccounted, Count, DataIn, InHand
<1>3. armed' + free' + Count(queue') + InHand' = Buffers
  BY <1>2
<1>4. BuffersAccounted'
  BY <1>3 DEF BuffersAccounted, Count, DataIn, InHand
<1>5. \A a, b, c, d, e \in Nat : a + b + c + d = e => a \in 0 .. e /\ b \in 0 .. e
  OBVIOUS
<1> QED BY <1>1, <1>3, <1>4, <1>5

\* What every action finds.
LEMMA Types ==
    ASSUME TransportInv
    PROVE  /\ Buffers \in Nat \ {0} /\ Depth \in Nat \ {0} /\ MaxSessions \in Nat
           /\ armed \in Nat /\ free \in Nat /\ session \in Nat /\ session <= MaxSessions
           /\ queue \in Seq(Message) /\ Len(queue) \in Nat
           /\ enabled \in BOOLEAN /\ connected \in BOOLEAN /\ accepting \in BOOLEAN
           /\ rx \in RxState /\ Len(rx.kept) \in Nat
           /\ TransportTypeOK /\ ThreadInv /\ BuffersAccounted /\ SeparationInv /\ ClosingInv
BY WebUsbAssumption, LenProperties DEF TransportInv, TransportTypeOK, ThreadInv, RxState

-----------------------------------------------------------------------------
(* The USB thread.                                                         *)

LEMMA EnableKeeps == ASSUME TransportInv, Enable PROVE TransportInv'
<1>1. /\ usb = UsbIdle /\ ~enabled /\ armed = 0 /\ enabled' /\ session' = session + 1
      /\ session < MaxSessions /\ armed' = free /\ free' = 0
      /\ UNCHANGED <<queue, rx, stream>>
  BY Types DEF Enable, ThreadInv
<1>2. BuffersAccounted' /\ armed' \in 0 .. Buffers /\ free' \in 0 .. Buffers
  BY <1>1, Types, Bounded DEF InHand
<1>3. /\ connected' \in BOOLEAN /\ accepting' \in BOOLEAN
      /\ \/ usb' = usb
         \/ usb' = [pc |-> "setAccepting", value |-> TRUE, msg |-> Control("Connect")]
  BY Types DEF Enable, Notify, flags
<1>4. TransportTypeOK'
  <2>1. Control("Connect") \in ControlMessage /\ usb \in UsbState
    BY Types DEF TransportTypeOK, UsbState, ControlMessage, Control, Controls
  <2>2. usb' \in UsbState
    <3>1. CASE usb' = usb
      BY <2>1, <3>1
    <3>2. CASE usb' = [pc |-> "setAccepting", value |-> TRUE, msg |-> Control("Connect")]
      BY <2>1, <3>2 DEF UsbState
    <3> QED BY <1>3, <3>1, <3>2
  <2>3. session' \in 0 .. MaxSessions
    <3>1. session \in Nat /\ MaxSessions \in Nat
      BY Types
    <3>2. session < MaxSessions /\ session' = session + 1
      BY DEF Enable
    <3> QED BY <3>1, <3>2
  <2> QED BY <1>1, <1>2, <1>3, <2>2, <2>3, Types DEF TransportTypeOK, UsbState, ControlMessage
<1>5. ThreadInv'
  BY <1>1, <1>3, Types DEF ThreadInv, UsbIdle
<1>6. Held' = Held
  BY <1>1 DEF Held
<1>7. usb.msg.type # "Disconnect"
  BY <1>1 DEF UsbIdle, Control
<1>8. SeparationInv'
  BY <1>1, <1>6, Types DEF SeparationInv, ControlBefore, DataIn
<1>9. ClosingInv'
  BY <1>1, <1>6, <1>7, Types DEF ClosingInv, ControlAfter, Stale, DataIn
<1> QED BY <1>2, <1>4, <1>5, <1>8, <1>9 DEF TransportInv

LEMMA DisableKeeps == ASSUME TransportInv, Disable PROVE TransportInv'
<1>1. /\ enabled /\ enabled' = FALSE /\ connected' = FALSE /\ UNCHANGED accepting
      /\ usb' = [pc |-> "setAccepting", value |-> FALSE, msg |-> Control("Disconnect")]
      /\ UNCHANGED <<session, armed, free, queue, rx, stream>>
  BY DEF Disable, Notify, buffers
<1>2. BuffersAccounted'
  BY <1>1, Types DEF BuffersAccounted
<1>3. TransportTypeOK'
  BY <1>1, Types, MessageFacts DEF TransportTypeOK, ControlMessage, Controls
<1>4. ThreadInv'
  BY <1>1, Types DEF ThreadInv
<1>5. Held' = Held
  BY <1>1 DEF Held
<1>6. SeparationInv'
  BY <1>1, <1>5, Types DEF SeparationInv, ControlBefore, DataIn
<1>7. ClosingInv'
  BY <1>1 DEF ClosingInv, Control
<1> QED BY <1>2, <1>3, <1>4, <1>6, <1>7 DEF TransportInv

LEMMA UsbSetAcceptingKeeps == ASSUME TransportInv, UsbSetAccepting PROVE TransportInv'
<1>1. /\ accepting' = usb.value
      /\ UNCHANGED <<enabled, session, armed, free, queue, connected, rx, stream>>
      /\ \/ usb.msg.type = "Reset" /\ usb' = UsbIdle
         \/ usb.msg.type # "Reset" /\ usb' = [usb EXCEPT !.pc = "put"]
  BY DEF UsbSetAccepting, buffers
<1>2. BuffersAccounted'
  BY <1>1, Types DEF BuffersAccounted
<1>3. usb.value \in BOOLEAN
  BY Types DEF TransportTypeOK
<1>4. TransportTypeOK'
  <2>1. UsbIdle \in UsbState /\ usb \in UsbState
    BY Types DEF TransportTypeOK, UsbIdle, UsbState, ControlMessage, Control, Controls
  <2>2. usb' \in UsbState
    BY <1>1, <2>1 DEF UsbState
  <2> QED BY <1>1, <1>3, <2>2, Types DEF TransportTypeOK, UsbState, ControlMessage
<1>5. usb' = UsbIdle \/ usb'.pc = "put"
  BY <1>1, Types DEF TransportTypeOK
<1>6. ThreadInv'
  BY <1>1, <1>5, Types DEF ThreadInv, UsbIdle
<1>7. Held' = Held /\ usb'.msg.type = usb.msg.type
  BY <1>1, Types DEF Held, UsbIdle, Control, TransportTypeOK
<1>8. SeparationInv' /\ ClosingInv'
  BY <1>1, <1>7, Types, SameQueue
<1> QED BY <1>2, <1>4, <1>6, <1>8 DEF TransportInv

LEMMA UsbPutKeeps == ASSUME TransportInv, UsbPut PROVE TransportInv'
<1>1. /\ Len(queue) < Depth /\ queue' = Append(queue, usb.msg)
      /\ UNCHANGED <<enabled, session, armed, free, connected, accepting, rx, stream>>
      /\ usb' = IF usb.pc = "putEmpty" THEN [usb EXCEPT !.pc = "load"] ELSE UsbIdle
  BY DEF UsbPut, Put, buffers, flags
<1>2. usb.msg \in ControlMessage /\ usb.msg \in Message /\ usb.msg.type # "Data"
  BY Types, MessageFacts DEF TransportTypeOK, ControlMessage
<1>3. queue' \in Seq(Message) /\ Len(queue') = Len(queue) + 1
  BY <1>1, <1>2, Types, QueueAppend
<1>4. Count(queue') = Count(queue)
  <2>1. Count(queue) \in Nat
    BY Types, CountFacts
  <2> QED BY <1>1, <1>2, <2>1, Types, CountAppend
<1>5. BuffersAccounted'
  BY <1>1, <1>3, <1>4, Types, Bounded DEF InHand
<1>6. TransportTypeOK'
  BY <1>1, <1>3, Types DEF TransportTypeOK, UsbIdle, Control, Controls
<1>7. usb' = UsbIdle \/ usb'.pc = "load"
  BY <1>1, Types DEF TransportTypeOK
<1>8. ThreadInv'
  BY <1>1, <1>7, Types DEF ThreadInv, UsbIdle
<1>9. Held' \subseteq Held
  BY <1>1 DEF Held
<1>10. SeparationInv' /\ ClosingInv'
  BY <1>1, <1>2, <1>9, Types, AppendControl
<1> QED BY <1>5, <1>6, <1>8, <1>10 DEF TransportInv

LEMMA UsbLoadKeeps == ASSUME TransportInv, UsbLoad PROVE TransportInv'
<1>1. /\ UNCHANGED <<enabled, session, armed, free, queue, connected, accepting, rx, stream>>
      /\ usb' = [usb EXCEPT !.pc = "setAccepting", !.value = connected]
  BY DEF UsbLoad, buffers, flags
<1>2. BuffersAccounted'
  BY <1>1, Types DEF BuffersAccounted
<1>3. TransportTypeOK'
  BY <1>1, Types DEF TransportTypeOK
<1>4. usb'.pc = "setAccepting" /\ usb'.msg = usb.msg
  BY <1>1, Types DEF TransportTypeOK
<1>5. ThreadInv'
  BY <1>1, <1>4, Types DEF ThreadInv
<1>6. Held' = Held
  BY <1>1 DEF Held
<1>7. SeparationInv' /\ ClosingInv'
  BY <1>1, <1>4, <1>6, Types, SameQueue
<1> QED BY <1>2, <1>3, <1>5, <1>7 DEF TransportInv

\* A buffer that was armed goes back to the pool.
LEMMA RefuseKeeps ==
    ASSUME TransportInv, Refuse, armed > 0, UNCHANGED <<queue, rx>>
    PROVE  BuffersAccounted' /\ armed' \in 0 .. Buffers /\ free' \in 0 .. Buffers
<1>1. armed \in Nat /\ free \in Nat /\ Count(queue) \in Nat /\ InHand \in Nat
  BY Types, CountFacts DEF InHand
<1>2. armed' = armed - 1 /\ free' = free + 1
  BY DEF Refuse
<1>3. armed' \in Nat /\ free' \in Nat
  BY <1>1, <1>2
<1>4. InHand' = InHand /\ Count(queue') = Count(queue)
  BY DEF InHand
<1>5. armed' + free' + Count(queue') + InHand' = armed + free + Count(queue) + InHand
  BY <1>1, <1>2, <1>4
<1> QED BY <1>3, <1>5, Types, Bounded

LEMMA ReceiveKeeps == ASSUME TransportInv, Receive PROVE TransportInv'
<1>1. /\ usb = UsbIdle /\ usb.pc = "idle" /\ enabled /\ armed > 0 /\ session \in 1 .. MaxSessions
      /\ UNCHANGED <<enabled, session, connected, accepting, rx, stream>>
  BY Types DEF Receive, ThreadInv, flags
<1>2. Held' = Held
  BY <1>1 DEF Held
<1>3. CASE Refuse /\ UNCHANGED <<queue, usb>>
  <2>1. BuffersAccounted' /\ armed' \in 0 .. Buffers /\ free' \in 0 .. Buffers
    BY <1>1, <1>3, RefuseKeeps
  <2>2. TransportTypeOK'
    BY <1>1, <1>3, <2>1, Types DEF TransportTypeOK
  <2>3. ThreadInv'
    BY <1>1, <1>3, Types DEF ThreadInv
  <2>4. SeparationInv' /\ ClosingInv'
    BY <1>1, <1>2, <1>3, Types, SameQueue
  <2> QED BY <2>1, <2>2, <2>3, <2>4 DEF TransportInv
<1>4. CASE Refuse /\ usb' = [UsbIdle EXCEPT !.pc = "put"] /\ UNCHANGED queue
  <2>1. BuffersAccounted' /\ armed' \in 0 .. Buffers /\ free' \in 0 .. Buffers
    BY <1>1, <1>4, RefuseKeeps
  <2>2. usb' \in UsbState /\ usb'.pc = "put"
    BY <1>4 DEF UsbIdle, UsbState, Control, Controls, ControlMessage
  <2>3. TransportTypeOK'
    BY <1>1, <1>4, <2>1, <2>2, Types DEF TransportTypeOK, UsbState, ControlMessage
  <2>4. ThreadInv'
    BY <1>1, <1>4, <2>2, Types DEF ThreadInv
  <2>5. SeparationInv' /\ ClosingInv'
    BY <1>1, <1>2, <1>4, Types, SameQueue
  <2> QED BY <2>1, <2>3, <2>4, <2>5 DEF TransportInv
<1>5. CASE /\ Depth - Len(queue) > Reserve /\ armed' = armed - 1
           /\ queue' = Append(queue, Data(session)) /\ UNCHANGED <<free, usb>>
  <2>1. Data(session) \in Message /\ Data(session).type = "Data"
    BY <1>1, MessageFacts
  <2>2. queue' \in Seq(Message) /\ Len(queue') = Len(queue) + 1
    BY <1>5, <2>1, Types, QueueAppend
  <2>3. Count(queue') = Count(queue) + 1
    BY <1>5, <2>1, Types, CountAppend
  <2>4. Count(queue) \in Nat /\ InHand \in Nat /\ InHand' = InHand
    BY <1>1, Types, CountFacts DEF InHand
  <2>5. /\ armed' \in Nat /\ free' \in Nat
        /\ armed' + free' + Count(queue') + InHand' = armed + free + Count(queue) + InHand
    <3>1. armed \in Nat /\ free \in Nat /\ armed > 0
      BY <1>1, Types
    <3>2. armed' = armed - 1 /\ free' = free
      BY <1>5
    <3> QED BY <2>3, <2>4, <3>1, <3>2
  <2>6. BuffersAccounted' /\ armed' \in 0 .. Buffers /\ free' \in 0 .. Buffers
    BY <2>2, <2>5, Types, Bounded
  <2>7. Len(queue') <= Depth
    <3>1. Depth \in Nat /\ Reserve \in Nat /\ Len(queue) \in Nat
      BY Types, WebUsbAssumption
    <3>2. Depth - Len(queue) > Reserve /\ Len(queue') = Len(queue) + 1
      BY <1>5, <2>2
    <3> QED BY <3>1, <3>2
  <2>8. TransportTypeOK'
    BY <1>1, <1>5, <2>2, <2>6, <2>7, Types DEF TransportTypeOK
  <2>9. ThreadInv'
    BY <1>1, <1>5, Types DEF ThreadInv
  <2>10. SeparationInv' /\ ClosingInv'
    BY <1>1, <1>2, <1>5, Types, AppendData
  <2> QED BY <2>6, <2>8, <2>9, <2>10 DEF TransportInv
<1> QED BY <1>3, <1>4, <1>5 DEF Receive

LEMMA ReceiveEmptyKeeps == ASSUME TransportInv, ReceiveEmpty PROVE TransportInv'
<1>1. /\ enabled /\ armed > 0 /\ usb' = [UsbIdle EXCEPT !.pc = "putEmpty"]
      /\ Refuse
      /\ UNCHANGED <<enabled, session, queue, connected, accepting, rx, stream>>
  BY DEF ReceiveEmpty, flags
<1>2. BuffersAccounted' /\ armed' \in 0 .. Buffers /\ free' \in 0 .. Buffers
  BY <1>1, RefuseKeeps
<1>3. usb' \in UsbState /\ usb'.pc = "putEmpty"
  BY <1>1 DEF UsbIdle, UsbState, Control, Controls, ControlMessage
<1>4. TransportTypeOK'
  BY <1>1, <1>2, <1>3, Types DEF TransportTypeOK, UsbState, ControlMessage
<1>5. ThreadInv'
  BY <1>1, <1>3, Types DEF ThreadInv
<1>6. Held' = Held
  BY <1>1 DEF Held
<1>7. SeparationInv' /\ ClosingInv'
  BY <1>1, <1>6, Types, SameQueue
<1> QED BY <1>2, <1>4, <1>5, <1>7 DEF TransportInv

LEMMA CancelledKeeps == ASSUME TransportInv, Cancelled PROVE TransportInv'
<1>1. /\ armed > 0 /\ Refuse
      /\ UNCHANGED <<enabled, session, queue, connected, accepting, usb, rx, stream>>
  BY DEF Cancelled, flags
<1>2. BuffersAccounted' /\ armed' \in 0 .. Buffers /\ free' \in 0 .. Buffers
  BY <1>1, RefuseKeeps
<1>3. TransportTypeOK'
  BY <1>1, <1>2, Types DEF TransportTypeOK
<1>4. ThreadInv'
  BY <1>1, Types DEF ThreadInv
<1>5. Held' = Held
  BY <1>1 DEF Held
<1>6. SeparationInv' /\ ClosingInv'
  BY <1>1, <1>5, Types, SameQueue
<1> QED BY <1>2, <1>3, <1>4, <1>6 DEF TransportInv

-----------------------------------------------------------------------------
(* The RX thread.                                                          *)

\* A buffer that a message owned is armed again or goes back to the pool.
LEMMA ReleaseKeeps ==
    ASSUME TransportInv, Release(1), queue' \in Seq(Message),
           Count(queue') + InHand' + 1 = Count(queue) + InHand
    PROVE  BuffersAccounted' /\ armed' \in 0 .. Buffers /\ free' \in 0 .. Buffers
<1>1. /\ armed \in Nat /\ free \in Nat /\ Count(queue) \in Nat /\ InHand \in Nat
      /\ Count(queue') \in Nat /\ InHand' \in Nat
  BY Types, CountFacts DEF InHand
<1>2. (armed' = armed + 1 /\ free' = free) \/ (armed' = armed /\ free' = free + 1)
  BY DEF Release
<1>3. CASE armed' = armed + 1 /\ free' = free
  <2>1. /\ armed' \in Nat /\ free' \in Nat
        /\ armed' + free' + Count(queue') + InHand' = armed + free + Count(queue) + InHand
    <3>1. \A a, f, c, h, k, g \in Nat : k + g + 1 = c + h => (a + 1) + f + k + g = a + f + c + h
      OBVIOUS
    <3>2. armed' \in Nat /\ free' \in Nat
      BY ONLY <1>1, <1>3
    <3> QED BY ONLY <1>1, <1>3, <3>1, <3>2, Count(queue') + InHand' + 1 = Count(queue) + InHand
  <2> QED BY <2>1, Types, Bounded
<1>4. CASE armed' = armed /\ free' = free + 1
  <2>1. /\ armed' \in Nat /\ free' \in Nat
        /\ armed' + free' + Count(queue') + InHand' = armed + free + Count(queue) + InHand
    <3>1. \A a, f, c, h, k, g \in Nat : k + g + 1 = c + h => a + (f + 1) + k + g = a + f + c + h
      OBVIOUS
    <3>2. armed' \in Nat /\ free' \in Nat
      BY ONLY <1>1, <1>4
    <3> QED BY ONLY <1>1, <1>4, <3>1, <3>2, Count(queue') + InHand' + 1 = Count(queue) + InHand
  <2> QED BY <2>1, Types, Bounded
<1> QED BY <1>2, <1>3, <1>4

\* A step that leaves queue, pool and the USB thread alone.
LEMMA RxKeeps ==
    ASSUME TransportInv, UNCHANGED <<enabled, session, buffers, queue, usb>>,
           connected' \in BOOLEAN, accepting' \in BOOLEAN,
           rx' \in RxState, Len(rx'.kept) <= Depth, rx.pc # "data", rx'.pc # "data",
           stream' = stream, rx'.pc = "drain" => rx.pc = "drain",
           rx'.pc = "requeue" => rx'.kept # <<>>
    PROVE  TransportInv'
<1>1. BuffersAccounted'
  BY Types DEF BuffersAccounted, buffers
<1>2. TransportTypeOK'
  BY Types DEF TransportTypeOK, buffers, RxState, ControlMessage
<1>3. ThreadInv'
  BY Types DEF ThreadInv
<1>4. Held' = Held
  BY DEF Held
<1>5. SeparationInv' /\ ClosingInv'
  BY <1>4, Types, SameQueue
<1> QED BY <1>1, <1>2, <1>3, <1>5 DEF TransportInv

LEMMA RxShape ==
    ASSUME TransportInv
    PROVE  /\ RxWaits \in RxState /\ RxWaits.pc = "wait" /\ RxWaits.kept = <<>>
           /\ rx.kept \in Seq(ControlMessage) /\ Len(rx.kept) \in Nat /\ Len(rx.kept) <= Depth
           /\ rx.value \in BOOLEAN /\ rx.msg \in Message
<1>1. Control("Reset") \in Message
  BY DEF Control, Message, Controls
<1>2. <<>> \in Seq(ControlMessage)
  OBVIOUS
<1>3. RxWaits \in RxState /\ RxWaits.pc = "wait" /\ RxWaits.kept = <<>>
  BY <1>1, <1>2 DEF RxWaits, RxState
<1>4. Len(rx.kept) <= Depth
  BY Types DEF TransportTypeOK
<1> QED BY <1>3, <1>4, Types DEF RxState

LEMMA RxGetKeeps == ASSUME TransportInv, RxGet PROVE TransportInv'
<1> DEFINE msg == Head(queue)
<1>1. /\ rx.pc = "wait" /\ queue # <<>> /\ queue' = Tail(queue)
      /\ UNCHANGED <<enabled, session, armed, free, connected, accepting, usb>>
      /\ stream' = IF msg.type = "Data" THEN stream ELSE {}
  BY DEF RxGet, buffers, flags
<1>2. /\ msg \in Message /\ queue' \in Seq(Message) /\ Len(queue') = Len(queue) - 1
      /\ Len(queue) \in Nat /\ Count(queue) \in Nat
  BY <1>1, Types, TailFacts, CountFacts
<1>3. msg.type \in {"Data", "Connect", "Disconnect", "Reset"}
  BY <1>2 DEF Message, Controls
<1>4. /\ rx' \in RxState /\ rx'.msg = msg /\ rx'.kept = <<>>
      /\ rx'.pc = "data" <=> msg.type = "Data"
      /\ rx'.pc = "drain" => msg.type = "Disconnect"
      /\ rx'.pc # "requeue"
  <2> DEFINE value == msg.type = "Connect"
             pc == CASE msg.type = "Data"       -> "data"
                     [] msg.type = "Connect"    -> "setConnected"
                     [] msg.type = "Disconnect" -> "drain"
                     [] msg.type = "Reset"      -> "load"
  <2>1. rx' = [RxWaits EXCEPT !.msg = msg, !.value = value, !.pc = pc]
    BY DEF RxGet
  <2>2. /\ pc \in {"data", "setConnected", "drain", "load"}
        /\ pc = "data" <=> msg.type = "Data"
        /\ pc = "drain" => msg.type = "Disconnect"
    BY <1>3
  <2>3. value \in BOOLEAN
    OBVIOUS
  <2>4. RxWaits \in RxState /\ RxWaits.kept = <<>>
    BY RxShape
  <2> HIDE DEF msg, value, pc
  <2>5. rx' \in RxState /\ rx'.msg = msg /\ rx'.kept = <<>> /\ rx'.pc = pc
    BY <1>2, <2>1, <2>2, <2>3, <2>4 DEF RxState
  <2> QED BY <2>2, <2>5
<1>5. Count(queue') = Count(queue) - (IF msg.type = "Data" THEN 1 ELSE 0)
  BY <1>1, Types, CountTail
<1>6. Count(queue') + InHand' = Count(queue) + InHand
  BY <1>1, <1>2, <1>4, <1>5 DEF InHand
<1>7. armed' + free' + Count(queue') + InHand' = armed + free + Count(queue) + InHand
  <2>1. Count(queue') \in Nat /\ InHand' \in Nat /\ InHand \in Nat
    BY <1>2, CountFacts DEF InHand
  <2>2. armed \in Nat /\ free \in Nat /\ armed' = armed /\ free' = free
    BY <1>1, Types
  <2>3. \A a, f, c, h, k, g \in Nat : k + g = c + h => a + f + k + g = a + f + c + h
    OBVIOUS
  <2> QED BY ONLY <1>2, <1>6, <2>1, <2>2, <2>3
<1>8. BuffersAccounted' /\ armed' \in 0 .. Buffers /\ free' \in 0 .. Buffers
  BY <1>1, <1>2, <1>7, Types, Bounded
<1>9. TransportTypeOK'
  <2>1. Len(queue') <= Depth
    BY <1>2, Types DEF TransportTypeOK
  <2>2. Len(rx'.kept) <= Depth
    BY <1>4, Types
  <2> QED BY <1>1, <1>2, <1>4, <1>8, <2>1, <2>2, Types DEF TransportTypeOK, RxState, ControlMessage
<1>10. ThreadInv'
  BY <1>1, <1>4, Types DEF ThreadInv
<1>11. IF msg.type = "Data" THEN Held' \subseteq Held \cup {msg.session} ELSE Held' = {}
  BY <1>1, <1>4 DEF Held
<1>12. SeparationInv' /\ ClosingInv'
  BY <1>1, <1>11, Types, TakeHead
<1> QED BY <1>8, <1>9, <1>10, <1>12 DEF TransportInv

LEMMA RxDataKeeps == ASSUME TransportInv, RxData PROVE TransportInv'
<1>1. /\ rx.pc = "data" /\ Release(1) /\ stream' = stream \cup {rx.msg.session}
      /\ rx' = RxWaits
      /\ UNCHANGED <<enabled, session, queue, connected, accepting, usb>>
  BY DEF RxData, flags
<1>2. /\ rx' \in RxState /\ rx'.pc = "wait" /\ Len(rx'.kept) <= Depth
  BY <1>1, RxShape, Types
<1>3. Count(queue') + InHand' + 1 = Count(queue) + InHand
  BY <1>1, <1>2, Types, CountFacts DEF InHand
<1>4. BuffersAccounted' /\ armed' \in 0 .. Buffers /\ free' \in 0 .. Buffers
  BY <1>1, <1>3, Types, ReleaseKeeps
<1>5. TransportTypeOK'
  BY <1>1, <1>2, <1>4, Types DEF TransportTypeOK, RxState, ControlMessage
<1>6. ThreadInv'
  BY <1>1, <1>2, Types DEF ThreadInv
<1>7. Held' = Held
  BY <1>1, <1>2 DEF Held
<1>8. SeparationInv' /\ ClosingInv'
  BY <1>1, <1>7, Types, SameQueue
<1> QED BY <1>4, <1>5, <1>6, <1>8 DEF TransportInv

LEMMA RxDataFailsKeeps == ASSUME TransportInv, RxDataFails PROVE TransportInv'
<1>1. /\ rx.pc = "data" /\ Release(1) /\ stream' = {}
      /\ rx' = [rx EXCEPT !.pc = "drain"]
      /\ UNCHANGED <<enabled, session, queue, connected, accepting, usb>>
  BY DEF RxDataFails, flags
<1>2. rx' \in RxState /\ rx'.pc = "drain" /\ rx'.kept = rx.kept
  BY <1>1, Types DEF RxState
<1>3. Count(queue') + InHand' + 1 = Count(queue) + InHand
  BY <1>1, <1>2, Types, CountFacts DEF InHand
<1>4. BuffersAccounted' /\ armed' \in 0 .. Buffers /\ free' \in 0 .. Buffers
  BY <1>1, <1>3, Types, ReleaseKeeps
<1>5. TransportTypeOK'
  BY <1>1, <1>2, <1>4, Types DEF TransportTypeOK, RxState, ControlMessage
<1>6. ThreadInv'
  BY <1>1, <1>2, Types DEF ThreadInv
<1>7. Held' \subseteq Held
  BY <1>1, <1>2 DEF Held
<1>8. SeparationInv' /\ ClosingInv'
  BY <1>1, <1>7, Types, SameQueue
<1> QED BY <1>4, <1>5, <1>6, <1>8 DEF TransportInv

LEMMA RxDrainKeeps == ASSUME TransportInv, RxDrain PROVE TransportInv'
<1> DEFINE msg == Head(queue)
<1>1. /\ rx.pc = "drain" /\ queue # <<>> /\ queue' = Tail(queue)
      /\ IF msg.type = "Data"
         THEN Release(1) /\ UNCHANGED rx
         ELSE /\ rx' = IF Len(rx.kept) < Depth
                       THEN [rx EXCEPT !.kept = Append(@, msg)] ELSE rx
              /\ UNCHANGED <<armed, free>>
      /\ UNCHANGED <<enabled, session, connected, accepting, usb, stream>>
  BY DEF RxDrain, buffers, flags
<1>2. /\ msg \in Message /\ queue' \in Seq(Message) /\ Len(queue') = Len(queue) - 1
      /\ Len(queue) \in Nat /\ Count(queue) \in Nat /\ Count(queue') \in Nat
  BY <1>1, Types, TailFacts, CountFacts
<1>3. Count(queue') = Count(queue) - (IF msg.type = "Data" THEN 1 ELSE 0)
  BY <1>1, Types, CountTail
<1>4. /\ rx' \in RxState /\ rx'.pc = "drain" /\ rx'.msg = rx.msg /\ Len(rx'.kept) <= Depth
  <2>1. CASE rx' = rx
    BY <1>1, <2>1, Types, RxShape
  <2>2. CASE msg.type # "Data" /\ Len(rx.kept) < Depth /\ rx' = [rx EXCEPT !.kept = Append(@, msg)]
    <3>1. msg \in ControlMessage
      BY <1>2, <2>2, MessageFacts
    <3>2. Append(rx.kept, msg) \in Seq(ControlMessage) /\ Len(Append(rx.kept, msg)) = Len(rx.kept) + 1
      BY <3>1, RxShape, AppendProperties
    <3>3. rx' \in RxState /\ rx'.kept = Append(rx.kept, msg) /\ rx'.pc = rx.pc /\ rx'.msg = rx.msg
      BY <2>2, <3>2, Types DEF RxState
    <3>4. Len(rx'.kept) <= Depth
      <4>1. Len(rx.kept) \in Nat /\ Depth \in Nat /\ Len(rx.kept) < Depth
        BY <2>2, RxShape, Types
      <4> QED BY <3>2, <3>3, <4>1
    <3> QED BY <1>1, <3>3, <3>4
  <2> QED BY <1>1, <2>1, <2>2
<1>5. InHand = 0 /\ InHand' = 0
  BY <1>1, <1>4 DEF InHand
<1>6. BuffersAccounted' /\ armed' \in 0 .. Buffers /\ free' \in 0 .. Buffers
  <2>1. CASE msg.type = "Data"
    <3>1. Count(queue') + InHand' + 1 = Count(queue) + InHand
      BY <1>2, <1>3, <1>5, <2>1
    <3> QED BY <1>1, <1>2, <2>1, <3>1, ReleaseKeeps
  <2>2. CASE msg.type # "Data"
    <3>1. armed' + free' + Count(queue') + InHand' = armed + free + Count(queue) + InHand
      <4>1. armed' = armed /\ free' = free /\ Count(queue') = Count(queue)
        BY <1>1, <1>2, <1>3, <2>2
      <4> QED BY <1>5, <4>1
    <3> QED BY <1>1, <1>2, <2>2, <3>1, Types, Bounded
  <2> QED BY <2>1, <2>2
<1>7. TransportTypeOK'
  <2>1. Len(queue') <= Depth
    BY <1>2, Types DEF TransportTypeOK
  <2> QED BY <1>1, <1>2, <1>4, <1>6, <2>1, Types DEF TransportTypeOK, RxState, ControlMessage
<1>8. ThreadInv'
  BY <1>1, <1>4, Types DEF ThreadInv
<1>9. Held' = {}
  BY <1>1, <1>4, Types DEF Held, ThreadInv
<1>10. SeparationInv' /\ ClosingInv'
  BY <1>1, <1>9, Types, TakeHead
<1> QED BY <1>6, <1>7, <1>8, <1>10 DEF TransportInv

LEMMA RxDrainedKeeps == ASSUME TransportInv, RxDrained PROVE TransportInv'
<1>1. /\ rx.pc = "drain"
      /\ rx' = IF rx.kept = <<>> THEN AfterReset(rx) ELSE [rx EXCEPT !.pc = "requeue"]
      /\ UNCHANGED <<enabled, session, buffers, queue, connected, accepting, usb, stream>>
  BY DEF RxDrained, flags
<1>2. \E c \in {"load", "setConnected", "requeue"} : rx' = [rx EXCEPT !.pc = c]
  BY <1>1 DEF AfterReset
<1>3. /\ rx' \in RxState /\ rx'.pc \in {"load", "setConnected", "requeue"} /\ rx'.kept = rx.kept
      /\ rx'.pc = "requeue" => rx.kept # <<>>
  <2>1. rx' \in RxState /\ rx'.pc \in {"load", "setConnected", "requeue"} /\ rx'.kept = rx.kept
    BY <1>2, Types DEF RxState
  <2>2. rx.kept = <<>> => \E c \in {"load", "setConnected"} : rx' = [rx EXCEPT !.pc = c]
    BY <1>1 DEF AfterReset
  <2>3. rx.kept = <<>> => rx'.pc # "requeue"
    BY <2>2, Types DEF RxState
  <2> QED BY <2>1, <2>3
<1> QED BY <1>1, <1>3, Types, RxShape, RxKeeps

LEMMA RxRequeueKeeps == ASSUME TransportInv, RxRequeue PROVE TransportInv'
<1>1. /\ rx.pc = "requeue" /\ Len(queue) < Depth /\ queue' = Append(queue, Head(rx.kept))
      /\ rx' = IF Len(rx.kept) = 1 THEN AfterReset([rx EXCEPT !.kept = <<>>])
               ELSE [rx EXCEPT !.kept = Tail(@)]
      /\ UNCHANGED <<enabled, session, armed, free, connected, accepting, usb, stream>>
  BY DEF RxRequeue, Put, buffers, flags
<1>2. /\ Head(rx.kept) \in ControlMessage /\ Tail(rx.kept) \in Seq(ControlMessage)
      /\ Len(Tail(rx.kept)) = Len(rx.kept) - 1
      /\ Len(rx.kept) \in Nat /\ Len(rx.kept) <= Depth /\ Depth \in Nat
  <2>1. rx.kept # <<>>
    BY <1>1, Types DEF ThreadInv
  <2> QED BY <2>1, RxShape, Types, HeadTailProperties
<1>3. Head(rx.kept) \in Message /\ Head(rx.kept).type # "Data"
  BY <1>2, MessageFacts
<1>4. queue' \in Seq(Message) /\ Len(queue') = Len(queue) + 1
  BY <1>1, <1>3, Types, QueueAppend
<1>5. /\ rx' \in RxState /\ rx'.pc # "data" /\ rx'.pc # "drain" /\ Len(rx'.kept) <= Depth
      /\ rx'.pc = "requeue" => rx'.kept # <<>>
  <2>1. CASE Len(rx.kept) # 1 /\ rx' = [rx EXCEPT !.kept = Tail(@)]
    <3>1. rx' \in RxState /\ rx'.pc = rx.pc /\ rx'.kept = Tail(rx.kept)
      BY <1>2, <2>1, Types DEF RxState
    <3>2. Len(Tail(rx.kept)) <= Depth
      BY <1>2
    <3>3. Tail(rx.kept) # <<>>
      <4>1. Len(Tail(rx.kept)) # 0
        BY <1>2, <2>1
      <4>2. Len(<<>>) = 0
        OBVIOUS
      <4> QED BY <4>1, <4>2
    <3> QED BY <1>1, <3>1, <3>2, <3>3
  <2>2. CASE rx' = AfterReset([rx EXCEPT !.kept = <<>>])
    <3>1. \E c \in {"load", "setConnected"} : rx' = [[rx EXCEPT !.kept = <<>>] EXCEPT !.pc = c]
      <4> DEFINE r == [rx EXCEPT !.kept = <<>>]
      <4>1. rx' = [r EXCEPT !.pc = IF r.msg.type = "Data" THEN "load" ELSE "setConnected"]
        BY <2>2 DEF AfterReset
      <4> HIDE DEF r
      <4>2. \E c \in {"load", "setConnected"} : rx' = [r EXCEPT !.pc = c]
        BY <4>1
      <4> QED BY <4>2 DEF r
    <3>2. rx' \in RxState /\ rx'.pc \in {"load", "setConnected"} /\ rx'.kept = <<>>
      <4>1. <<>> \in Seq(ControlMessage)
        OBVIOUS
      <4> QED BY <3>1, <4>1, Types DEF RxState
    <3> QED BY <3>2, Types
  <2> QED BY <1>1, <2>1, <2>2
<1>6. Count(queue') = Count(queue)
  <2>1. Count(queue) \in Nat
    BY Types, CountFacts
  <2> QED BY <1>1, <1>3, <2>1, Types, CountAppend
<1>7. BuffersAccounted'
  <2>1. InHand' = InHand
    BY <1>1, <1>5 DEF InHand
  <2> QED BY <1>1, <1>4, <1>6, <2>1, Types, Bounded
<1>8. TransportTypeOK'
  <2>1. Len(queue') <= Depth
    BY <1>1, <1>4, Types
  <2> QED BY <1>1, <1>4, <1>5, <2>1, Types DEF TransportTypeOK, RxState, ControlMessage
<1>9. ThreadInv'
  BY <1>1, <1>5, Types DEF ThreadInv
<1>10. Held' \subseteq Held
  BY <1>1, <1>5 DEF Held
<1>11. SeparationInv' /\ ClosingInv'
  BY <1>1, <1>2, <1>10, Types, AppendControl
<1> QED BY <1>7, <1>8, <1>9, <1>11 DEF TransportInv

LEMMA RxSetConnectedKeeps == ASSUME TransportInv, RxSetConnected PROVE TransportInv'
<1>1. /\ rx.pc = "setConnected" /\ connected' = rx.value
      /\ rx' = [rx EXCEPT !.pc = "setAccepting"]
      /\ UNCHANGED <<enabled, session, buffers, queue, accepting, usb, stream>>
  BY DEF RxSetConnected
<1>2. rx' \in RxState /\ rx'.pc = "setAccepting" /\ rx'.kept = rx.kept
  BY <1>1, Types DEF RxState
<1> QED BY <1>1, <1>2, Types, RxShape, RxKeeps

LEMMA RxLoadKeeps == ASSUME TransportInv, RxLoad PROVE TransportInv'
<1>1. /\ rx.pc = "load" /\ rx' = [rx EXCEPT !.pc = "setAccepting", !.value = connected]
      /\ UNCHANGED <<enabled, session, buffers, queue, connected, accepting, usb, stream>>
  BY DEF RxLoad, flags
<1>2. rx' \in RxState /\ rx'.pc = "setAccepting" /\ rx'.kept = rx.kept
  BY <1>1, Types DEF RxState
<1> QED BY <1>1, <1>2, Types, RxShape, RxKeeps

LEMMA RxSetAcceptingKeeps == ASSUME TransportInv, RxSetAccepting PROVE TransportInv'
<1>1. /\ rx.pc = "setAccepting" /\ accepting' = rx.value /\ rx' = RxWaits
      /\ UNCHANGED <<enabled, session, buffers, queue, connected, usb, stream>>
  BY DEF RxSetAccepting
<1>2. rx' \in RxState /\ rx'.pc = "wait" /\ Len(rx'.kept) <= Depth
  BY <1>1, Types, RxShape
<1> QED BY <1>1, <1>2, Types, RxShape, RxKeeps

-----------------------------------------------------------------------------
(* The theorem.                                                            *)

LEMMA TransportStarts == TransportInit => TransportInv
<1> SUFFICES ASSUME TransportInit PROVE TransportInv
  OBVIOUS
<1>1. queue = <<>> /\ queue \in Seq(Message) /\ Len(queue) = 0 /\ DOMAIN queue = {}
  BY DEF TransportInit
<1>2. /\ RxWaits \in RxState /\ RxWaits.pc = "wait" /\ RxWaits.kept = <<>>
  <2>1. Control("Reset") \in Message
    BY DEF Control, Message, Controls
  <2>2. <<>> \in Seq(ControlMessage)
    OBVIOUS
  <2> QED BY <2>1, <2>2 DEF RxWaits, RxState
<1>3. UsbIdle \in UsbState /\ UsbIdle.pc = "idle"
  BY DEF UsbIdle, UsbState, Control, Controls, ControlMessage
<1>4. Depth \in Nat /\ Buffers \in Nat /\ MaxSessions \in Nat
  BY WebUsbAssumption
<1>5. TransportTypeOK
  <2>1. /\ rx.pc = "wait" /\ rx.value \in BOOLEAN /\ rx.msg \in Message /\ rx.kept = <<>>
    BY <1>2 DEF TransportInit, RxState
  <2>2. rx.kept \in Seq(ControlMessage) /\ Len(rx.kept) = 0
    BY <2>1
  <2>3. /\ session \in 0 .. MaxSessions /\ armed \in 0 .. Buffers /\ free \in 0 .. Buffers
    BY <1>4 DEF TransportInit
  <2>4. usb \in UsbState /\ {enabled, connected, accepting} \subseteq BOOLEAN
    BY <1>3 DEF TransportInit
  <2> QED BY <1>1, <1>4, <2>1, <2>2, <2>3, <2>4 DEF TransportTypeOK, UsbState, ControlMessage
<1>6. ThreadInv
  BY <1>2, <1>3 DEF TransportInit, ThreadInv
<1>7. BuffersAccounted
  <2>1. {i \in DOMAIN queue : queue[i].type = "Data"} = {}
    BY <1>1
  <2>2. Cardinality({}) = 0
    BY FS_EmptySet
  <2> QED BY <1>2, <1>4, <2>1, <2>2 DEF TransportInit, BuffersAccounted
<1>8. Held = {} /\ DataIn(queue) = {}
  BY <1>1, <1>2 DEF TransportInit, Held, DataIn
<1>9. SeparationInv /\ ClosingInv
  BY <1>8 DEF SeparationInv, ClosingInv
<1> QED BY <1>5, <1>6, <1>7, <1>9 DEF TransportInv

LEMMA TransportSteps == TransportInv /\ [TransportNext]_transportVars => TransportInv'
<1> SUFFICES ASSUME TransportInv, [TransportNext]_transportVars PROVE TransportInv'
  OBVIOUS
<1>1. CASE UsbEvent
  BY <1>1, EnableKeeps, DisableKeeps, ReceiveKeeps, ReceiveEmptyKeeps DEF UsbEvent
<1>2. CASE UsbStep
  BY <1>2, UsbSetAcceptingKeeps, UsbPutKeeps, UsbLoadKeeps DEF UsbStep
<1>3. CASE Cancelled
  BY <1>3, CancelledKeeps
<1>4. CASE RxStep
  BY <1>4, RxGetKeeps, RxDataKeeps, RxDataFailsKeeps, RxDrainKeeps, RxDrainedKeeps,
     RxRequeueKeeps, RxSetConnectedKeeps, RxLoadKeeps, RxSetAcceptingKeeps DEF RxStep
<1>5. CASE UNCHANGED transportVars
  <2>1. UNCHANGED <<enabled, session, armed, free, queue, connected, accepting, usb, rx, stream>>
    BY <1>5 DEF transportVars, buffers, flags
  <2>2. TransportTypeOK' /\ ThreadInv' /\ BuffersAccounted'
    BY <2>1, Types DEF TransportTypeOK, ThreadInv, BuffersAccounted
  <2>3. Held' = Held
    BY <2>1 DEF Held
  <2>4. SeparationInv' /\ ClosingInv'
    BY <2>1, <2>3, Types, SameQueue
  <2> QED BY <2>2, <2>4 DEF TransportInv
<1> QED BY <1>1, <1>2, <1>3, <1>4, <1>5 DEF TransportNext

LEMMA TransportInvIsSafe == TransportInv => TransportSafe
<1> SUFFICES ASSUME TransportInv PROVE TransportSafe
  OBVIOUS
<1>1. \A s, t \in stream : s = t
  BY Types DEF SeparationInv, Held
<1>2. OneConnectionPerUpload
  <2>1. CASE stream = {}
    BY <2>1, FS_EmptySet DEF OneConnectionPerUpload
  <2>2. CASE stream # {}
    <3>1. PICK s \in stream : TRUE
      BY <2>2
    <3>2. stream = {s}
      BY <1>1, <3>1
    <3>3. Cardinality(stream) = 1
      BY <3>2, FS_Singleton
    <3> QED BY <3>3 DEF OneConnectionPerUpload
  <2> QED BY <2>1, <2>2
<1> QED BY <1>2 DEF TransportInv, TransportSafe

\* Whatever the depth of the queue, the reserve for control messages, the size
\* of the pool and the number of connections, every OUT buffer has one owner
\* (release_rx_buffer() is called once for each), and no upload is continued
\* with the bytes of another connection.
THEOREM TransportIsSafe == TransportSpec => []TransportSafe
<1>1. TransportInv /\ [][TransportNext]_transportVars => []TransportInv
  BY TransportSteps, PTL
<1> QED BY <1>1, TransportStarts, TransportInvIsSafe, PTL DEF TransportSpec

-----------------------------------------------------------------------------
(***************************************************************************)
(* What holds of the update from end to end, for every pair of flash       *)
(* areas, every image, any number of power losses and of failing flash     *)
(* operations.  The upload handler of each image is covered by             *)
(* DfuProofs; what is left is what one image relies on when another        *)
(* one has run, and how far the staged-update reader is.                   *)
(***************************************************************************)

\* The upload handler of the application and that of the bootloader.
AppP == INSTANCE DfuProofs WITH
    flash <- staged, package <- stagedPkg, Staged <- TRUE, Sectors <- StagedSectors

LdrP == INSTANCE DfuProofs WITH
    flash <- slot, package <- slotPkg, Staged <- FALSE, Sectors <- SlotSectors

-----------------------------------------------------------------------------
(* The inductive invariant.                                                *)

\* The two flash areas, whichever image runs.
FlashInv ==
    /\ staged \in [AppP!Offsets -> AppP!Cell] /\ stagedPkg \in Seq(Byte)
    /\ slot \in [LdrP!Offsets -> LdrP!Cell] /\ slotPkg \in Seq(Byte)
    /\ AppP!PackageComplete
    /\ AppP!NeverOverprogrammed /\ LdrP!NeverOverprogrammed
    /\ slotPkg # <<>> => LdrP!PayloadAt(slot, 0, slotPkg)

\* The running image: the application runs from a slot that holds an image,
\* and its upload handler or that of the bootloader is where it may be.
ImageInv ==
    /\ mode \in {"app", "loader", "halt"}
    /\ reboot \in {"none", "app", "loader"}
    /\ losses \in 0 .. MaxLosses
    /\ faults \in 0 .. MaxFaults
    /\ mode = "app" => AppP!UploadInv /\ SlotValid
    /\ mode # "app" => LdrP!IInv /\ LdrP!AlignedInv
    /\ mode # "app" /\ reader.pc = "off" => LdrP!UploadInv
    /\ reader.pc # "off" =>
          mode = "loader" /\ p = LdrP!Fresh("Incomplete") /\ call = "none"

ReaderTypeOK ==
    reader \in [pc : {"off", "header", "begin", "copy", "write", "finish", "clear",
                      "clearAfterRead", "done"},
                offset : Nat, size : Nat, buf : Seq(Byte), result : BOOLEAN]

\* The staged package is whole, and the reader knows its size.
Whole == StagedWhole(stagedPkg) /\ reader.size = Len(stagedPkg)

\* The transfer into the slot is under way: what was accepted, and then what
\* is in the reader's buffer, is what the staged package starts with.
Copying ==
    /\ Whole
    /\ w.active /\ w.expected = reader.size
    /\ reader.offset <= reader.size
    /\ Len(accepted) + Len(reader.buf) = reader.offset
    /\ \A k \in 1 .. Len(accepted) : accepted[k] = stagedPkg[k]
    /\ \A k \in 1 .. Len(reader.buf) : reader.buf[k] = stagedPkg[Len(accepted) + k]

\* The transfer has failed, which only a failing flash operation does to it.
Failed == Whole /\ w.pc = "idle" /\ ~w.active /\ w.ret = "fail" /\ faults > 0

\* The transfer has been committed.
Installed == slotPkg # <<>> /\ slotPkg = source

\* A package that does not fit the slot.
Refused == App!HeaderValid(staged) /\ ~LdrP!Accepts(StoredSize)

\* How far the reader is and what it leaves behind.
ReaderInv ==
    /\ reader.pc \notin {"off", "write", "finish"} => w.pc = "idle"
    /\ reader.pc = "header" => ~w.active /\ reader = ReaderFor("loader")
    /\ reader.pc = "begin" =>
          /\ ~reader.result
          /\ \/ w.ret = "ok" /\ Copying /\ reader.buf = <<>>
             \/ w.ret # "ok" /\ ~w.active /\ (faults = 0 => Refused)
    /\ reader.pc = "copy" => ~reader.result /\ Copying
    /\ reader.pc = "write" =>
          /\ ~reader.result
          /\ \/ Copying /\ (w.pc = "idle" => w.ret = "ok") /\ w.pc \in {"idle", "flush"}
             \/ Failed
    /\ reader.pc = "finish" =>
          \/ Copying /\ reader.offset = reader.size /\ reader.buf = <<>>
             /\ w.pc \in {"lastFlush", "commit"}
          \/ Whole /\ w.pc = "idle" /\ ~w.active /\ w.ret = "ok" /\ Installed
          \/ Failed
    /\ reader.pc = "clear" =>
          ~w.active /\ (IF reader.result THEN Installed ELSE faults = 0 => Refused)
    /\ reader.pc = "clearAfterRead" => reader.result /\ faults > 0
    /\ reader.pc = "done" => reader.result \/ ~w.active

\* Where the content of the slot comes from.
SourceInv ==
    /\ source \in Seq(Byte)
    /\ source # <<>> => LdrP!Accepts(Len(source))
    /\ source # <<>> /\ slotPkg # <<>> => slotPkg = source
    /\ source # <<>> /\ slotPkg = <<>> /\ ~SlotValid /\ faults = 0 =>
          StagedWhole(source) /\ stagedPkg = source
    /\ mode # "app" /\ w.active /\ w.erased # 0 =>
          /\ slotPkg = <<>>
          /\ reader.pc = "off" => source = <<>>
          /\ reader.pc \in {"begin", "copy", "write", "finish"} =>
                source = stagedPkg

UpdateInv == FlashInv /\ ImageInv /\ ReaderTypeOK /\ ReaderInv /\ SourceInv

-----------------------------------------------------------------------------
(* The two instances of the upload handler.                                *)

\* What DfuProofs assumes of its constants.
LEMMA AppAssumptions ==
    /\ AppP!GeometryAssumption /\ AppP!HeaderAssumption
    /\ AppP!CellAssumption /\ AppP!SizesAssumption
<1>1. AppP!GeometryAssumption
  BY FlashAssumption DEF Contiguous, AppP!SectorIndex, AppP!SectorEnd
<1>2. AppP!HeaderAssumption /\ AppP!CellAssumption /\ AppP!SizesAssumption
  BY FlashAssumption, WordAssumption
<1> QED BY <1>1, <1>2

LEMMA LdrAssumptions ==
    /\ LdrP!GeometryAssumption /\ LdrP!HeaderAssumption
    /\ LdrP!CellAssumption /\ LdrP!SizesAssumption
<1>1. LdrP!GeometryAssumption
  BY FlashAssumption DEF Contiguous, LdrP!SectorIndex, LdrP!SectorEnd
<1>2. LdrP!HeaderAssumption /\ LdrP!CellAssumption /\ LdrP!SizesAssumption
  BY FlashAssumption, WordAssumption
<1> QED BY <1>1, <1>2

\* The operators of DfuUpload the application uses are those the proofs are about, ...
LEMMA AppOperators ==
    /\ App!Offsets = AppP!Offsets /\ App!Cell = AppP!Cell /\ App!AreaSize = AppP!AreaSize
    /\ \A f : App!HeaderValid(f) = AppP!HeaderValid(f)
    /\ \A f, o, d : App!PayloadAt(f, o, d) = AppP!PayloadAt(f, o, d)
    /\ \A f, i : App!EraseSector(f, i) = AppP!EraseSector(f, i)
    /\ App!UploadTypeOK = AppP!UploadTypeOK
    /\ App!NeverOverprogrammed = AppP!NeverOverprogrammed
BY DEF App!Offsets, AppP!Offsets, App!Cell, AppP!Cell, App!AreaSize, AppP!AreaSize, App!SectorEnd,
       AppP!SectorEnd, App!HeaderValid, AppP!HeaderValid, App!PayloadAt, AppP!PayloadAt,
       App!EraseSector, AppP!EraseSector, App!UploadTypeOK, AppP!UploadTypeOK, App!WriterTypeOK,
       AppP!WriterTypeOK, App!WriterState, AppP!WriterState, App!PCs, AppP!PCs, App!Symbol,
       AppP!Symbol, App!NeverOverprogrammed, AppP!NeverOverprogrammed

\* ... and so are its steps.
LEMMA AppSteps ==
    /\ App!WriterStep = AppP!WriterStep
    /\ App!UploadCommand = AppP!UploadCommand
    /\ App!UploadStep = AppP!UploadStep
    /\ App!UploadPowerLoss = AppP!UploadPowerLoss
    /\ App!UploadInit = AppP!UploadInit
BY DEF App!UploadInit, AppP!UploadInit, App!WriterInit, AppP!WriterInit,
       App!SectorIndex, AppP!SectorIndex, App!SectorEnd, AppP!SectorEnd, App!AreaSize,
       AppP!AreaSize, App!Offsets, AppP!Offsets, App!PayloadOffset, AppP!PayloadOffset,
       App!Capacity, AppP!Capacity, App!BlockCandidates, AppP!BlockCandidates, App!Prepared,
       AppP!Prepared, App!BlockSize, AppP!BlockSize, App!Touched, AppP!Touched, App!EraseSector,
       AppP!EraseSector, App!Program, AppP!Program, App!Torn, AppP!Torn, App!HeaderOf,
       AppP!HeaderOf, App!Idle, AppP!Idle, App!Aborted, AppP!Aborted, App!MayFail, AppP!MayFail,
       App!BlockOffset, AppP!BlockOffset, App!BlockInRange, AppP!BlockInRange, App!ToErase,
       AppP!ToErase, App!EraseHeaderSector, AppP!EraseHeaderSector, App!EraseHeaderFails,
       AppP!EraseHeaderFails, App!EraseBlockSector, AppP!EraseBlockSector, App!ProgramBlock,
       AppP!ProgramBlock, App!FlushFails, AppP!FlushFails, App!Commit, AppP!Commit,
       App!CommitFails, AppP!CommitFails, App!WriterStep, AppP!WriterStep, App!Accepts,
       AppP!Accepts, App!Begin, AppP!Begin, App!BeginUnopened, AppP!BeginUnopened, App!Write,
       AppP!Write, App!Finish, AppP!Finish, App!Abort, AppP!Abort, App!WriterPowerLoss,
       AppP!WriterPowerLoss, App!writerVars, AppP!writerVars, App!uploadVars, AppP!uploadVars,
       App!Symbol, AppP!Symbol, App!Fresh, AppP!Fresh, App!Ready, AppP!Ready, App!NextStage,
       AppP!NextStage, App!Advance, AppP!Advance, App!Kept, AppP!Kept, App!MetaValid,
       AppP!MetaValid, App!Reject, AppP!Reject, App!Wait, AppP!Wait, App!Consumed, AppP!Consumed,
       App!FeedStart, AppP!FeedStart, App!FeedMetadata, AppP!FeedMetadata, App!FeedPayload,
       AppP!FeedPayload, App!FeedEnd, AppP!FeedEnd, App!FeedDone, AppP!FeedDone, App!Chunk,
       AppP!Chunk, App!ChunkReturns, AppP!ChunkReturns, App!AbortCommand, AppP!AbortCommand,
       App!AbortReturns, AppP!AbortReturns, App!FinishAccepted, AppP!FinishAccepted,
       App!FinishRefused, AppP!FinishRefused, App!UploadCommand, AppP!UploadCommand,
       App!UploadStep, AppP!UploadStep, App!UploadPowerLoss, AppP!UploadPowerLoss

\* The operators of DfuUpload the bootloader uses are those the proofs are about, ...
LEMMA LdrOperators ==
    /\ Ldr!Offsets = LdrP!Offsets /\ Ldr!Cell = LdrP!Cell /\ Ldr!AreaSize = LdrP!AreaSize
    /\ \A f : Ldr!HeaderValid(f) = LdrP!HeaderValid(f)
    /\ \A f, o, d : Ldr!PayloadAt(f, o, d) = LdrP!PayloadAt(f, o, d)
    /\ \A f, i : Ldr!EraseSector(f, i) = LdrP!EraseSector(f, i)
    /\ Ldr!UploadTypeOK = LdrP!UploadTypeOK
    /\ Ldr!NeverOverprogrammed = LdrP!NeverOverprogrammed
BY DEF Ldr!Offsets, LdrP!Offsets, Ldr!Cell, LdrP!Cell, Ldr!AreaSize, LdrP!AreaSize, Ldr!SectorEnd,
       LdrP!SectorEnd, Ldr!HeaderValid, LdrP!HeaderValid, Ldr!PayloadAt, LdrP!PayloadAt,
       Ldr!EraseSector, LdrP!EraseSector, Ldr!UploadTypeOK, LdrP!UploadTypeOK, Ldr!WriterTypeOK,
       LdrP!WriterTypeOK, Ldr!WriterState, LdrP!WriterState, Ldr!PCs, LdrP!PCs, Ldr!Symbol,
       LdrP!Symbol, Ldr!NeverOverprogrammed, LdrP!NeverOverprogrammed

\* ... and so are its steps.
LEMMA LdrSteps ==
    /\ Ldr!WriterStep = LdrP!WriterStep
    /\ Ldr!UploadCommand = LdrP!UploadCommand
    /\ Ldr!UploadStep = LdrP!UploadStep
    /\ Ldr!UploadPowerLoss = LdrP!UploadPowerLoss
    /\ \A n : Ldr!Begin(n) = LdrP!Begin(n)
    /\ Ldr!BeginUnopened = LdrP!BeginUnopened
    /\ \A b : Ldr!Write(b) = LdrP!Write(b)
    /\ Ldr!Finish = LdrP!Finish
BY DEF Ldr!SectorIndex, LdrP!SectorIndex, Ldr!SectorEnd, LdrP!SectorEnd, Ldr!AreaSize,
       LdrP!AreaSize, Ldr!Offsets, LdrP!Offsets, Ldr!PayloadOffset, LdrP!PayloadOffset,
       Ldr!Capacity, LdrP!Capacity, Ldr!BlockCandidates, LdrP!BlockCandidates, Ldr!Prepared,
       LdrP!Prepared, Ldr!BlockSize, LdrP!BlockSize, Ldr!Touched, LdrP!Touched, Ldr!EraseSector,
       LdrP!EraseSector, Ldr!Program, LdrP!Program, Ldr!Torn, LdrP!Torn, Ldr!HeaderOf,
       LdrP!HeaderOf, Ldr!Idle, LdrP!Idle, Ldr!Aborted, LdrP!Aborted, Ldr!MayFail, LdrP!MayFail,
       Ldr!BlockOffset, LdrP!BlockOffset, Ldr!BlockInRange, LdrP!BlockInRange, Ldr!ToErase,
       LdrP!ToErase, Ldr!EraseHeaderSector, LdrP!EraseHeaderSector, Ldr!EraseHeaderFails,
       LdrP!EraseHeaderFails, Ldr!EraseBlockSector, LdrP!EraseBlockSector, Ldr!ProgramBlock,
       LdrP!ProgramBlock, Ldr!FlushFails, LdrP!FlushFails, Ldr!Commit, LdrP!Commit,
       Ldr!CommitFails, LdrP!CommitFails, Ldr!WriterStep, LdrP!WriterStep, Ldr!Accepts,
       LdrP!Accepts, Ldr!Begin, LdrP!Begin, Ldr!BeginUnopened, LdrP!BeginUnopened, Ldr!Write,
       LdrP!Write, Ldr!Finish, LdrP!Finish, Ldr!Abort, LdrP!Abort, Ldr!WriterPowerLoss,
       LdrP!WriterPowerLoss, Ldr!writerVars, LdrP!writerVars, Ldr!uploadVars, LdrP!uploadVars,
       Ldr!Symbol, LdrP!Symbol, Ldr!Fresh, LdrP!Fresh, Ldr!Ready, LdrP!Ready, Ldr!NextStage,
       LdrP!NextStage, Ldr!Advance, LdrP!Advance, Ldr!Kept, LdrP!Kept, Ldr!MetaValid,
       LdrP!MetaValid, Ldr!Reject, LdrP!Reject, Ldr!Wait, LdrP!Wait, Ldr!Consumed, LdrP!Consumed,
       Ldr!FeedStart, LdrP!FeedStart, Ldr!FeedMetadata, LdrP!FeedMetadata, Ldr!FeedPayload,
       LdrP!FeedPayload, Ldr!FeedEnd, LdrP!FeedEnd, Ldr!FeedDone, LdrP!FeedDone, Ldr!Chunk,
       LdrP!Chunk, Ldr!ChunkReturns, LdrP!ChunkReturns, Ldr!AbortCommand, LdrP!AbortCommand,
       Ldr!AbortReturns, LdrP!AbortReturns, Ldr!FinishAccepted, LdrP!FinishAccepted,
       Ldr!FinishRefused, LdrP!FinishRefused, Ldr!UploadCommand, LdrP!UploadCommand,
       Ldr!UploadStep, LdrP!UploadStep, Ldr!UploadPowerLoss, LdrP!UploadPowerLoss

-----------------------------------------------------------------------------
(* What does not change.                                                   *)

LEMMA SlotKept ==
    ASSUME slot' = slot, slotPkg' = slotPkg, FlashInv
    PROVE  /\ SlotValid' = SlotValid
           /\ slot' \in [LdrP!Offsets -> LdrP!Cell] /\ slotPkg' \in Seq(Byte)
           /\ LdrP!NeverOverprogrammed'
           /\ slotPkg' # <<>> => LdrP!PayloadAt(slot', 0, slotPkg')
<1>1. SlotValid' = SlotValid
  BY DEF SlotValid, Ldr!PayloadAt
<1> QED BY <1>1 DEF FlashInv, LdrP!NeverOverprogrammed

LEMMA StagedKept ==
    ASSUME staged' = staged, stagedPkg' = stagedPkg, FlashInv
    PROVE  /\ staged' \in [AppP!Offsets -> AppP!Cell] /\ stagedPkg' \in Seq(Byte)
           /\ AppP!PackageComplete' /\ AppP!NeverOverprogrammed'
BY DEF FlashInv, AppP!NeverOverprogrammed, AppP!PackageComplete, AppP!HeaderValid, AppP!PayloadAt

\* What is said of the flash and of the operations that failed carries over
\* to the image that starts next, with nothing under way in its handler.
LEMMA Restarted ==
    ASSUME FlashInv', faults' \in 0 .. MaxFaults, accepted' = <<>>,
           w' = AppP!Idle("none"), p' = AppP!Fresh("Incomplete"), call' = "none"
    PROVE  /\ AppP!UploadInv' /\ LdrP!UploadInv' /\ LdrP!IInv' /\ LdrP!AlignedInv'
           /\ w'.pc = "idle" /\ ~w'.active
           /\ p' = LdrP!Fresh("Incomplete")
<1>1. p' = LdrP!Fresh("Incomplete") /\ w' = LdrP!Idle("none")
  BY DEF AppP!Fresh, LdrP!Fresh, AppP!Idle, LdrP!Idle
<1>2. /\ AppP!Idle("none") \in AppP!WriterState
      /\ AppP!Idle("none").pc = "idle" /\ ~AppP!Idle("none").active
  BY AppAssumptions, AppP!IdleFacts
<1>3. /\ LdrP!Idle("none") \in LdrP!WriterState
      /\ LdrP!Idle("none").pc = "idle" /\ ~LdrP!Idle("none").active
  BY LdrAssumptions, LdrP!IdleFacts
<1>4. w'.pc = "idle" /\ ~w'.active
  BY <1>2
<1>5. AppP!WriterTypeOK' /\ LdrP!WriterTypeOK'
  BY <1>1, <1>2, <1>3, EmptySeq DEF FlashInv, AppP!WriterTypeOK, LdrP!WriterTypeOK
<1>6. AppP!IInv'
  BY <1>4, <1>5, AppAssumptions, AppP!StoppedInv DEF FlashInv
<1>7. LdrP!IInv'
  <2>1. LdrP!PackageComplete'
    BY DEF LdrP!PackageComplete
  <2> QED BY <1>4, <1>5, <2>1, LdrAssumptions, LdrP!StoppedInv DEF FlashInv
<1>8. AppP!UploadInv'
  BY <1>4, <1>6, AppAssumptions, AppP!StartedOver
<1>9. LdrP!UploadInv'
  BY <1>1, <1>4, <1>7, LdrAssumptions, LdrP!StartedOver
<1>10. LdrP!AlignedInv'
  BY <1>4, LdrAssumptions, LdrP!AlignedStops
<1> QED BY <1>1, <1>4, <1>7, <1>8, <1>9, <1>10

-----------------------------------------------------------------------------
(* The initial state.                                                      *)

LEMMA InitInv == ASSUME Init PROVE UpdateInv
<1>1. /\ mode = "app" /\ reboot = "none" /\ losses = 0 /\ source = <<>> /\ reader = NoReader
      /\ slotPkg \in Factory /\ AppP!UploadInit
      /\ slot = [o \in LdrP!Offsets |-> IF o < Len(slotPkg) THEN slotPkg[o + 1] ELSE Erased]
  BY AppSteps, LdrOperators DEF Init
<1>2. /\ slotPkg \in Seq(Byte) \ {<<>>} /\ slotPkg \in Signed
      /\ Len(slotPkg) <= LdrP!AreaSize /\ Len(slotPkg) \in Nat /\ LdrP!AreaSize \in Nat
  BY <1>1, FactoryAssumption, LdrOperators, LdrAssumptions, LdrP!SectorFacts, LenProperties
<1>3. \A o \in LdrP!Offsets : slot[o] \in Byte \cup {Erased}
  <2> SUFFICES ASSUME NEW o \in LdrP!Offsets, o < Len(slotPkg) PROVE slotPkg[o + 1] \in Byte
    BY <1>1
  <2>1. o + 1 \in 1 .. Len(slotPkg)
    BY <1>2 DEF LdrP!Offsets
  <2> QED BY <1>2, <2>1, ElementOfSeq
<1>4. slot \in [LdrP!Offsets -> LdrP!Cell] /\ LdrP!NeverOverprogrammed
  BY <1>1, <1>3, WordAssumption DEF LdrP!Cell, LdrP!NeverOverprogrammed
<1>5. LdrP!PayloadAt(slot, 0, slotPkg)
  <2> SUFFICES ASSUME NEW k \in 1 .. Len(slotPkg) PROVE slot[0 + k - 1] = slotPkg[k]
    BY DEF LdrP!PayloadAt
  <2>1. /\ 0 + k - 1 \in LdrP!Offsets /\ 0 + k - 1 < Len(slotPkg) /\ (0 + k - 1) + 1 = k
    BY <1>2 DEF LdrP!Offsets
  <2> QED BY <1>1, <2>1
<1>6. SlotValid
  BY <1>2, <1>5, LdrOperators DEF SlotValid
<1>7. AppP!UploadInv /\ faults = 0
  BY <1>1, AppAssumptions, AppP!UploadInvInit DEF AppP!UploadInit, AppP!WriterInit
<1>8. FlashInv
  BY <1>2, <1>4, <1>5, <1>7
     DEF FlashInv, AppP!UploadInv, AppP!IInv, AppP!WriterTypeOK
<1>9. reader.pc = "off" /\ ReaderTypeOK
  BY <1>1, EmptySeq DEF NoReader, ReaderTypeOK
<1>10. ImageInv /\ ReaderInv /\ SourceInv
  BY <1>1, <1>6, <1>7, <1>9, EmptySeq, FlashAssumption DEF ImageInv, ReaderInv, SourceInv
<1> QED BY <1>8, <1>9, <1>10 DEF UpdateInv

-----------------------------------------------------------------------------
(* The application.                                                        *)

LEMMA AppInv ==
    ASSUME UpdateInv, mode = "app", AppCommand \/ AppFinish \/ AppStep
    PROVE  UpdateInv'
<1>1. /\ FlashInv /\ AppP!UploadInv /\ SlotValid /\ reader.pc = "off"
  BY DEF UpdateInv, ImageInv
<1>2. AppP!UploadNext
  <2>1. AppCommand \/ AppStep => App!UploadCommand \/ App!UploadStep
    BY DEF AppCommand, AppStep
  <2>2. AppFinish => App!UploadCommand
    BY DEF AppFinish, App!UploadCommand
  <2> QED BY <2>1, <2>2, AppSteps DEF AppP!UploadNext
<1>3. AppP!UploadInv'
  BY <1>1, <1>2, AppAssumptions, AppP!UploadInvNext
<1>4. /\ mode' = mode /\ losses' = losses /\ reader' = reader /\ source' = source
      /\ slot' = slot /\ slotPkg' = slotPkg /\ reboot' \in {reboot, "loader"}
  BY DEF AppCommand, AppFinish, AppStep, slotVars
<1>5. FlashInv'
  BY <1>1, <1>3, <1>4, SlotKept
     DEF FlashInv, AppP!UploadInv, AppP!IInv, AppP!WriterTypeOK
<1>6. SlotValid'
  BY <1>1, <1>4, SlotKept
<1>7. ImageInv'
  BY <1>1, <1>3, <1>4, <1>6
     DEF UpdateInv, ImageInv, AppP!UploadInv, AppP!IInv, AppP!WriterTypeOK
<1>8. ReaderTypeOK' /\ ReaderInv' /\ SourceInv'
  BY <1>1, <1>4, <1>6 DEF UpdateInv, ReaderTypeOK, ReaderInv, SourceInv
<1> QED BY <1>5, <1>7, <1>8 DEF UpdateInv

-----------------------------------------------------------------------------
(* The direct writer, in the bootloader.                                   *)

\* A package that was copied in full.
LEMMA CopiedAll ==
    ASSUME UpdateInv, mode # "app", w.pc = "commit", reader.pc # "off"
    PROVE  reader.pc = "finish" /\ Whole /\ accepted = stagedPkg
<1>1. reader.pc = "finish" /\ Copying /\ reader.offset = reader.size /\ reader.buf = <<>>
  BY DEF UpdateInv, ReaderInv, ReaderTypeOK, Failed
<1>2. /\ accepted \in Seq(Byte) /\ stagedPkg \in Seq(Byte)
      /\ Len(accepted) \in Nat /\ Len(stagedPkg) \in Nat
  BY LenProperties DEF UpdateInv, ImageInv, FlashInv, LdrP!IInv, LdrP!WriterTypeOK
<1>3. Len(accepted) = Len(stagedPkg) /\ \A k \in 1 .. Len(accepted) : accepted[k] = stagedPkg[k]
  BY <1>1, <1>2, EmptySeq DEF Copying, Whole
<1>4. accepted = stagedPkg
  BY <1>2, <1>3
<1> QED BY <1>1, <1>4 DEF Copying

\* While the reader has a transfer under way, the staged package is whole and
\* is one the slot has room for.
LEMMA ReaderCopies ==
    ASSUME UpdateInv, mode # "app", reader.pc # "off", w.pc # "idle"
    PROVE  /\ reader.pc \in {"write", "finish"} /\ Copying /\ Whole /\ w.active
           /\ stagedPkg # <<>> /\ LdrP!Accepts(Len(stagedPkg))
<1>1. reader.pc \in {"write", "finish"} /\ Copying /\ Whole /\ w.active
  BY DEF UpdateInv, ReaderInv, ReaderTypeOK, Failed, Copying
<1>2. LdrP!Prepared /\ w.expected \in 1 .. LdrP!Capacity /\ LdrP!Capacity \in Nat
  BY <1>1, LdrAssumptions, LdrP!OffsetFacts DEF UpdateInv, ImageInv, LdrP!IInv, LdrP!ControlInv
<1>3. w.expected = Len(stagedPkg)
  BY <1>1 DEF Copying, Whole
<1> QED BY <1>1, <1>2, <1>3, EmptySeq DEF LdrP!Accepts

\* Where the content of the slot comes from, once a transfer has erased a part
\* of it.
LEMMA SlotSource ==
    ASSUME UpdateInv, mode # "app", w.active, w.erased # 0, w.pc # "idle"
    PROVE  /\ slotPkg = <<>>
           /\ reader.pc = "off" => source = <<>>
           /\ reader.pc # "off" => Whole /\ source = stagedPkg /\ source # <<>>
<1>1. /\ slotPkg = <<>>
      /\ reader.pc = "off" => source = <<>>
      /\ reader.pc \in {"write", "finish"} => source = stagedPkg
  BY DEF UpdateInv, SourceInv
<1> QED BY <1>1, ReaderCopies

\* A step that completes a transfer into the slot, or one that leaves the slot
\* as it is unless it is being rewritten, keeps what is known of the source.
LEMMA SourceKept ==
    ASSUME UpdateInv, mode # "app", source' = source, UNCHANGED <<staged, stagedPkg>>,
           faults' \in {faults, faults + 1},
           \/ LdrP!Completes
           \/ /\ slotPkg' = slotPkg
              /\ slot' = slot \/ (w.active /\ w.erased # 0 /\ w.pc # "idle")
    PROVE  /\ source' \in Seq(Byte)
           /\ source' # <<>> => LdrP!Accepts(Len(source'))
           /\ source' # <<>> /\ slotPkg' # <<>> => slotPkg' = source'
           /\ source' # <<>> /\ slotPkg' = <<>> /\ ~SlotValid' /\ faults' = 0 =>
                 (StagedWhole(source))' /\ stagedPkg' = source'
           /\ slotPkg' # <<>> => LdrP!PayloadAt(slot', 0, slotPkg')
<1>1. /\ source' \in Seq(Byte)
      /\ source' # <<>> => LdrP!Accepts(Len(source'))
  BY DEF UpdateInv, SourceInv
<1>2. faults \in Nat /\ (faults' = 0 => faults = 0)
  BY FlashAssumption DEF UpdateInv, ImageInv
<1>3. (StagedWhole(source))' <=> StagedWhole(source)
  BY DEF StagedWhole, App!HeaderValid, App!PayloadAt
<1>4. CASE LdrP!Completes
  <2>1. /\ w.pc = "commit" /\ w.active /\ w.erased # 0 /\ slotPkg' = accepted /\ slot' = slot
        /\ accepted # <<>> /\ LdrP!PayloadAt(slot, 0, accepted)
    BY <1>4 DEF LdrP!Completes
  <2>2. source = <<>> \/ source = accepted
    BY <2>1, CopiedAll, SlotSource
  <2> QED BY <1>1, <2>1, <2>2
<1>5. CASE slotPkg' = slotPkg /\ slot' = slot
  <2>1. SlotValid' = SlotValid
    BY <1>5, SlotKept DEF UpdateInv
  <2> QED BY <1>1, <1>2, <1>3, <1>5, <2>1 DEF UpdateInv, SourceInv, FlashInv
<1>6. CASE slotPkg' = slotPkg /\ w.active /\ w.erased # 0 /\ w.pc # "idle"
  <2>1. slotPkg' = <<>> /\ (source # <<>> => StagedWhole(source) /\ stagedPkg = source)
    BY <1>6, SlotSource DEF Whole
  <2> QED BY <1>1, <1>3, <2>1
<1> QED BY <1>4, <1>5, <1>6

-----------------------------------------------------------------------------
(* The running image is cut short.                                         *)

LEMMA RestartInv ==
    ASSUME UpdateInv, NEW request \in BOOLEAN, Restart(request), losses' \in 0 .. MaxLosses
    PROVE  UpdateInv'
<1>1. /\ mode' = IF request THEN "loader" ELSE IF SlotValid' THEN "app" ELSE "halt"
      /\ reboot' = "none" /\ source' = source /\ reader' = ReaderFor(mode')
  BY DEF Restart
<1>2. /\ FlashInv' /\ faults' \in 0 .. MaxFaults /\ accepted' = <<>>
      /\ w' = AppP!Idle("none") /\ p' = AppP!Fresh("Incomplete") /\ call' = "none"
      /\ source' \in Seq(Byte)
      /\ source' # <<>> => LdrP!Accepts(Len(source'))
      /\ source' # <<>> /\ slotPkg' # <<>> => slotPkg' = source'
      /\ source' # <<>> /\ slotPkg' = <<>> /\ ~SlotValid' /\ faults' = 0 =>
            (StagedWhole(source))' /\ stagedPkg' = source'
  <2>1. CASE mode = "app"
    <3>1. AppP!UploadPowerLoss /\ slot' = slot /\ slotPkg' = slotPkg
      BY <2>1, AppSteps DEF Restart, slotVars
    <3>2. AppP!IInv' /\ faults' = faults /\ accepted' = <<>> /\ w' = AppP!Idle("none")
          /\ p' = AppP!Fresh("Incomplete") /\ call' = "none"
      BY <2>1, <3>1, AppAssumptions, AppP!WriterPowerLossStep
         DEF UpdateInv, ImageInv, AppP!UploadInv, AppP!UploadPowerLoss, AppP!WriterPowerLoss
    <3>3. FlashInv' /\ faults' \in 0 .. MaxFaults
      BY <3>1, <3>2, SlotKept DEF UpdateInv, FlashInv, AppP!IInv, AppP!WriterTypeOK
    <3>4. SlotValid'
      BY <2>1, <3>1, SlotKept DEF UpdateInv, ImageInv
    <3> QED BY <1>1, <3>1, <3>2, <3>3, <3>4 DEF UpdateInv, SourceInv
  <2>2. CASE mode # "app"
    <3>1. LdrP!UploadPowerLoss /\ staged' = staged /\ stagedPkg' = stagedPkg
      BY <2>2, LdrSteps DEF Restart, appVars
    <3>2. LdrP!IInv' /\ faults' = faults /\ accepted' = <<>> /\ w' = LdrP!Idle("none")
          /\ p' = LdrP!Fresh("Incomplete") /\ call' = "none"
      BY <2>2, <3>1, LdrAssumptions, LdrP!WriterPowerLossStep
         DEF UpdateInv, ImageInv, LdrP!UploadPowerLoss, LdrP!WriterPowerLoss
    <3>3. w' = AppP!Idle("none") /\ p' = AppP!Fresh("Incomplete")
      BY <3>2 DEF AppP!Fresh, LdrP!Fresh, AppP!Idle, LdrP!Idle
    <3>4. \/ LdrP!Completes
          \/ /\ slotPkg' = slotPkg
             /\ slot' = slot \/ (w.active /\ w.erased # 0 /\ w.pc # "idle")
      BY <2>2, <3>1, LdrAssumptions, LdrP!DirectPowerLoss
         DEF UpdateInv, ImageInv, LdrP!UploadPowerLoss, LdrP!Flushing
    <3>5. FlashInv' /\ faults' \in 0 .. MaxFaults
      BY <1>1, <2>2, <3>1, <3>2, <3>4, StagedKept, SourceKept
         DEF UpdateInv, FlashInv, LdrP!IInv, LdrP!WriterTypeOK
    <3> QED BY <1>1, <2>2, <3>1, <3>2, <3>3, <3>4, <3>5, SourceKept
  <2> QED BY <2>1, <2>2
<1>3. /\ AppP!UploadInv' /\ LdrP!UploadInv' /\ LdrP!IInv' /\ LdrP!AlignedInv'
      /\ w'.pc = "idle" /\ ~w'.active /\ p' = LdrP!Fresh("Incomplete")
  BY <1>2, Restarted
<1>4. /\ ReaderTypeOK' /\ reader'.pc \in {"off", "header"}
      /\ reader'.pc = "header" => mode' = "loader" /\ reader' = ReaderFor("loader")
      /\ (ReaderFor("loader"))' = ReaderFor("loader")
  BY <1>1, EmptySeq DEF ReaderFor, NoReader, ReaderTypeOK
<1>5. ImageInv'
  <2>1. mode' \in {"app", "loader", "halt"} /\ (mode' = "app" => SlotValid')
    BY <1>1
  <2> QED BY <1>1, <1>2, <1>3, <1>4, <2>1 DEF ImageInv
<1>6. ReaderInv'
  BY <1>3, <1>4 DEF ReaderInv
<1>7. SourceInv'
  BY <1>2, <1>3 DEF SourceInv
<1> QED BY <1>2, <1>4, <1>5, <1>6, <1>7 DEF UpdateInv

-----------------------------------------------------------------------------
(* The bootloader outside the staged-update reader.                        *)

\* What the upload handler of the bootloader does before and after the
\* operations of the writer.
LEMMA LdrQuiet ==
    ASSUME LdrP!IInv, LdrP!UploadCommand \/ LdrP!ChunkReturns \/ LdrP!AbortReturns
    PROVE  LdrP!Quiet
<1>1. CASE UNCHANGED LdrP!writerVars
  <2>1. w' = w /\ slot' = slot /\ slotPkg' = slotPkg /\ faults' = faults
    BY <1>1 DEF LdrP!writerVars
  <2>2. faults' \in {faults, faults + 1}
    BY <2>1
  <2> QED BY <2>1, <2>2 DEF LdrP!Quiet
<1>2. CASE ~UNCHANGED LdrP!writerVars
  <2>1. \/ \E n : LdrP!Begin(n)
        \/ LdrP!BeginUnopened
        \/ \E b : LdrP!Write(b)
        \/ LdrP!Finish \/ LdrP!Abort
    BY <1>2, LdrAssumptions, LdrP!HandlerCalls
  <2> QED BY <2>1, LdrAssumptions, LdrP!CallsQuiet
<1> QED BY <1>1, <1>2

\* A step that leaves both areas alone while no reader runs.
LEMMA QuietInv ==
    ASSUME UpdateInv, mode # "app", reader.pc = "off", LdrP!Quiet,
           LdrP!UploadInv', LdrP!AlignedInv',
           UNCHANGED <<mode, losses, staged, stagedPkg, reader, source>>,
           reboot' \in {reboot, "app"}
    PROVE  UpdateInv'
<1>1. /\ slot' = slot /\ slotPkg' = slotPkg /\ faults' \in {faults, faults + 1}
      /\ w'.active /\ w'.erased # 0 => w.active /\ w.erased # 0
  BY DEF LdrP!Quiet
<1>2. FlashInv'
  BY <1>1, SlotKept, StagedKept DEF UpdateInv, FlashInv
<1>3. ImageInv'
  BY DEF UpdateInv, ImageInv, LdrP!UploadInv, LdrP!IInv, LdrP!WriterTypeOK
<1>4. ReaderTypeOK' /\ ReaderInv'
  BY DEF UpdateInv, ReaderTypeOK, ReaderInv
<1>5. SourceInv'
  <2>1. (StagedWhole(source))' <=> StagedWhole(source')
    BY DEF StagedWhole, App!HeaderValid, App!PayloadAt
  <2>2. /\ source' \in Seq(Byte)
        /\ source' # <<>> => LdrP!Accepts(Len(source'))
        /\ source' # <<>> /\ slotPkg' # <<>> => slotPkg' = source'
        /\ source' # <<>> /\ slotPkg' = <<>> /\ ~SlotValid' /\ faults' = 0 =>
              (StagedWhole(source))' /\ stagedPkg' = source'
    BY <1>1, SourceKept
  <2>3. w'.active /\ w'.erased # 0 => slotPkg' = <<>> /\ source' = <<>>
    BY <1>1 DEF UpdateInv, SourceInv
  <2> QED BY <2>2, <2>3 DEF SourceInv
<1> QED BY <1>2, <1>3, <1>4, <1>5 DEF UpdateInv

\* A step of the direct writer, of a recovery upload or of the reader.
LEMMA DirectInv ==
    ASSUME UpdateInv, mode = "loader", LdrP!WriterStep, UNCHANGED <<p, call>>,
           UNCHANGED <<mode, losses, staged, stagedPkg, reader>>,
           reboot' \in {reboot, "app"},
           source' = IF w'.erased \in {w.erased, 0} THEN source
                     ELSE IF reader.pc = "off" THEN <<>> ELSE stagedPkg
    PROVE  UpdateInv'
<1>1. LdrP!IInv /\ LdrP!AlignedInv /\ FlashInv
  BY DEF UpdateInv, ImageInv
<1>2. LdrP!IInv' /\ LdrP!AlignedInv'
  BY <1>1, LdrAssumptions, LdrP!InvNext, LdrP!AlignedNext DEF LdrP!WriterNext
<1>3. \/ LdrP!Erases \/ LdrP!Programs \/ LdrP!Breaks
      \/ LdrP!Completes /\ w' = LdrP!Idle("ok") /\ accepted' = <<>> /\ UNCHANGED faults
  BY <1>1, LdrAssumptions, LdrP!DirectSteps
<1>4. reader.pc = "off" => LdrP!UploadInv'
  BY LdrAssumptions, LdrP!WriterStepKeeps DEF UpdateInv, ImageInv
<1>5. ImageInv'
  <2>1. (LdrP!Fresh("Incomplete"))' = LdrP!Fresh("Incomplete")
    BY DEF LdrP!Fresh
  <2> QED BY <1>2, <1>4, <2>1 DEF UpdateInv, ImageInv, LdrP!IInv, LdrP!WriterTypeOK
<1>6. w.pc # "idle" /\ w.active
  BY <1>3 DEF LdrP!Erases, LdrP!Programs, LdrP!Breaks, LdrP!Completes, LdrP!Flushing
<1>7. reader.pc # "off" =>
         /\ reader.pc \in {"write", "finish"} /\ Copying /\ Whole
         /\ stagedPkg # <<>> /\ LdrP!Accepts(Len(stagedPkg))
  BY <1>6, ReaderCopies
<1>8. ReaderTypeOK'
  BY DEF UpdateInv, ReaderTypeOK
<1>9. Whole' <=> Whole
  BY DEF Whole, StagedWhole, App!HeaderValid, App!PayloadAt
<1>10. \A n : LdrP!Idle(n).erased = 0 /\ ~LdrP!Idle(n).active /\ LdrP!Idle(n).pc = "idle"
              /\ LdrP!Idle(n).ret = n
  BY DEF LdrP!Idle
<1>11. CASE LdrP!Erases
  <2>1. /\ slotPkg' = <<>> /\ faults' = faults /\ accepted' = accepted /\ w'.active
        /\ w'.pc = w.pc /\ w'.expected = w.expected
        /\ source' = IF reader.pc = "off" THEN <<>> ELSE stagedPkg
    BY <1>11 DEF LdrP!Erases
  <2>2. FlashInv'
    BY <1>1, <1>2, <2>1, StagedKept DEF FlashInv, LdrP!IInv, LdrP!WriterTypeOK
  <2>3. ReaderInv'
    BY <1>6, <1>7, <1>9, <2>1 DEF UpdateInv, ReaderInv, Copying, Failed
  <2>4. (StagedWhole(source))' <=> StagedWhole(source')
    BY DEF StagedWhole, App!HeaderValid, App!PayloadAt
  <2>5. SourceInv'
    BY <1>1, <1>7, <2>1, <2>4, EmptySeq DEF SourceInv, FlashInv, Whole
  <2> QED BY <1>5, <1>8, <2>2, <2>3, <2>5 DEF UpdateInv
<1>12. CASE ~LdrP!Erases
  <2>1. /\ faults' \in {faults, faults + 1} /\ source' = source
        /\ \/ LdrP!Completes
           \/ /\ slotPkg' = slotPkg
              /\ slot' = slot \/ (w.active /\ w.erased # 0 /\ w.pc # "idle")
    BY <1>3, <1>6, <1>10, <1>12 DEF LdrP!Programs, LdrP!Breaks
  <2>2. /\ source' \in Seq(Byte)
        /\ source' # <<>> => LdrP!Accepts(Len(source'))
        /\ source' # <<>> /\ slotPkg' # <<>> => slotPkg' = source'
        /\ source' # <<>> /\ slotPkg' = <<>> /\ ~SlotValid' /\ faults' = 0 =>
              (StagedWhole(source))' /\ stagedPkg' = source'
        /\ slotPkg' # <<>> => LdrP!PayloadAt(slot', 0, slotPkg')
    BY <2>1, SourceKept
  <2>3. FlashInv'
    BY <1>1, <1>2, <2>2, StagedKept DEF FlashInv, LdrP!IInv, LdrP!WriterTypeOK
  <2>4. CASE LdrP!Programs
    <3>1. /\ w'.active /\ w'.expected = w.expected /\ w'.erased = w.erased /\ w.erased # 0
          /\ w.pc = "flush" => w'.pc = "idle" /\ w'.ret = "ok"
          /\ w.pc = "lastFlush" => w'.pc = "commit"
          /\ w.pc \in {"flush", "lastFlush"}
          /\ faults' = faults /\ accepted' = accepted /\ slotPkg' = slotPkg
      BY <2>4 DEF LdrP!Programs, LdrP!Flushing
    <3>2. ReaderInv'
      <4>1. Copying => Copying'
        BY <1>9, <3>1 DEF Copying
      <4>2. CASE w.pc = "flush"
        BY <1>6, <1>7, <3>1, <4>1, <4>2 DEF UpdateInv, ReaderInv, Failed
      <4>3. CASE w.pc = "lastFlush"
        BY <1>6, <1>7, <3>1, <4>1, <4>3 DEF UpdateInv, ReaderInv, Failed
      <4> QED BY <3>1, <4>2, <4>3
    <3>3. SourceInv'
      BY <1>6, <2>1, <2>2, <3>1 DEF UpdateInv, SourceInv
    <3> QED BY <1>5, <1>8, <2>3, <3>2, <3>3 DEF UpdateInv
  <2>5. CASE LdrP!Breaks
    <3>1. w'.pc = "idle" /\ ~w'.active /\ w'.ret = "fail" /\ faults' = faults + 1
      BY <1>10, <2>5 DEF LdrP!Breaks
    <3>2. faults' > 0
      BY <3>1, FlashAssumption DEF UpdateInv, ImageInv
    <3>3. ReaderInv'
      BY <1>7, <1>9, <3>1, <3>2 DEF UpdateInv, ReaderInv, Failed
    <3>4. SourceInv'
      BY <2>2, <3>1 DEF SourceInv
    <3> QED BY <1>5, <1>8, <2>3, <3>3, <3>4 DEF UpdateInv
  <2>6. CASE LdrP!Completes /\ w' = LdrP!Idle("ok")
    <3>1. w'.pc = "idle" /\ ~w'.active /\ w'.ret = "ok"
      BY <1>10, <2>6
    <3>2. reader.pc # "off" =>
             reader.pc = "finish" /\ slotPkg' = stagedPkg /\ source' = stagedPkg
      BY <2>1, <2>6, CopiedAll, SlotSource DEF LdrP!Completes
    <3>3. ReaderInv'
      BY <1>7, <1>9, <3>1, <3>2 DEF UpdateInv, ReaderInv, Installed
    <3>4. SourceInv'
      BY <2>2, <3>1 DEF SourceInv
    <3> QED BY <1>5, <1>8, <2>3, <3>3, <3>4 DEF UpdateInv
  <2> QED BY <1>3, <1>12, <2>4, <2>5, <2>6
<1> QED BY <1>11, <1>12

LEMMA LoaderInv == ASSUME UpdateInv, LoaderStep \/ LoaderCommand PROVE UpdateInv'
<1>1. LoaderCommand => LdrP!UploadCommand
  BY LdrSteps DEF LoaderCommand
<1>2. LoaderStep /\ reader.pc = "off" => LdrP!UploadStep
  BY LdrSteps DEF LoaderStep
<1>3. CASE LoaderStep /\ (reader.pc = "off" => LdrP!WriterStep /\ UNCHANGED <<p, call>>)
  <2>1. LdrP!WriterStep /\ UNCHANGED <<p, call>>
    BY <1>3, LdrSteps DEF LoaderStep
  <2> QED BY <1>3, <2>1, DirectInv DEF LoaderStep, appVars
<1>4. CASE LoaderCommand \/ (LoaderStep /\ reader.pc = "off"
                              /\ (LdrP!ChunkReturns \/ LdrP!AbortReturns))
  <2>1. mode = "loader" /\ reader.pc = "off" /\ LdrP!UploadInv /\ LdrP!AlignedInv /\ LdrP!IInv
    BY <1>4 DEF LoaderCommand, LoaderStep, UpdateInv, ImageInv
  <2>2. LdrP!UploadCommand \/ LdrP!ChunkReturns \/ LdrP!AbortReturns
    BY <1>1, <1>4
  <2>3. LdrP!Quiet
    BY <2>1, <2>2, LdrQuiet
  <2>4. LdrP!UploadNext
    BY <2>2 DEF LdrP!UploadNext, LdrP!UploadStep
  <2>5. LdrP!UploadInv' /\ LdrP!AlignedInv'
    BY <2>1, <2>4, LdrAssumptions, LdrP!UploadInvNext, LdrP!UploadAligned
  <2>6. w'.erased \in {w.erased, 0}
    BY <2>3 DEF LdrP!Quiet
  <2>7. /\ UNCHANGED <<mode, losses, staged, stagedPkg, reader, source>>
        /\ reboot' \in {reboot, "app"}
    BY <1>4, <2>6 DEF LoaderCommand, LoaderStep, appVars
  <2> QED BY <2>1, <2>3, <2>5, <2>7, QuietInv
<1> QED BY <1>2, <1>3, <1>4 DEF LdrP!UploadStep

-----------------------------------------------------------------------------
(* The staged-update reader.                                               *)

\* A step of the reader that leaves both areas as they are.
LEMMA ReaderKeeps ==
    ASSUME UpdateInv, Consuming,
           UNCHANGED <<mode, reboot, losses, staged, stagedPkg, slot, slotPkg, p, call, source>>,
           faults' \in {faults, faults + 1}, LdrP!IInv', LdrP!AlignedInv',
           w'.active /\ w'.erased # 0 => w.active /\ w.erased # 0,
           ReaderTypeOK', ReaderInv',
           reader'.pc = "off" => w'.pc = "idle" /\ ~w'.active,
           reader'.pc \in {"begin", "copy", "write", "finish"} =>
              reader.pc \in {"begin", "copy", "write", "finish"} \/ w'.erased = 0
    PROVE  UpdateInv'
<1>1. mode = "loader" /\ p = LdrP!Fresh("Incomplete") /\ call = "none"
  BY DEF UpdateInv, ImageInv, Consuming
<1>2. FlashInv'
  BY SlotKept, StagedKept DEF UpdateInv, FlashInv
<1>3. (LdrP!Fresh("Incomplete"))' = LdrP!Fresh("Incomplete")
  BY DEF LdrP!Fresh
<1>4. reader'.pc = "off" => LdrP!UploadInv'
  BY <1>1, LdrAssumptions, LdrP!StartedOver
<1>5. ImageInv'
  BY <1>1, <1>3, <1>4 DEF UpdateInv, ImageInv, LdrP!IInv, LdrP!WriterTypeOK
<1>6. SourceInv'
  <2>1. /\ source' \in Seq(Byte)
        /\ source' # <<>> => LdrP!Accepts(Len(source'))
        /\ source' # <<>> /\ slotPkg' # <<>> => slotPkg' = source'
        /\ source' # <<>> /\ slotPkg' = <<>> /\ ~SlotValid' /\ faults' = 0 =>
              (StagedWhole(source))' /\ stagedPkg' = source'
    BY <1>1, SourceKept
  <2>2. (StagedWhole(source))' <=> StagedWhole(source')
    BY DEF StagedWhole, App!HeaderValid, App!PayloadAt
  <2> QED BY <1>1, <2>1, <2>2 DEF UpdateInv, SourceInv
<1> QED BY <1>2, <1>5, <1>6 DEF UpdateInv

\* The size the bootloader reads is a number, and one the slot has room for
\* is that of the staged package, which is whole.
LEMMA StoredFacts ==
    ASSUME FlashInv, App!HeaderValid(staged)
    PROVE  /\ StoredSize \in Nat
           /\ LdrP!Accepts(StoredSize) =>
                 StagedWhole(stagedPkg) /\ StoredSize = Len(stagedPkg)
<1>1. AppP!HeaderValid(staged) /\ AppP!PackageComplete
  BY AppOperators DEF FlashInv
<1>2. LdrP!AreaSize \in Nat /\ Len(stagedPkg) \in Nat
  BY LdrAssumptions, LdrP!SectorFacts DEF FlashInv
<1>3. CASE staged[3] = Erased
  <2>1. StoredSize = LdrP!AreaSize + 1
    BY <1>3, LdrOperators DEF StoredSize
  <2>2. LdrP!Capacity <= LdrP!AreaSize
    BY <1>2, LdrAssumptions, LdrP!OffsetFacts
  <2>3. ~LdrP!Accepts(StoredSize)
    BY <1>2, <2>1, <2>2, LdrAssumptions, LdrP!OffsetFacts DEF LdrP!Accepts
  <2> QED BY <1>2, <2>1, <2>3
<1>4. CASE staged[3] # Erased
  <2>1. staged[3] = Len(stagedPkg) /\ AppP!PayloadAt(staged, HeaderSize, stagedPkg)
    BY <1>1, <1>4 DEF AppP!PackageComplete
  <2>2. StoredSize = Len(stagedPkg) /\ StagedWhole(stagedPkg)
    BY <1>4, <2>1, AppOperators DEF StoredSize, StagedWhole
  <2> QED BY <1>2, <2>2
<1> QED BY <1>3, <1>4

LEMMA ReaderHeaderInv == ASSUME UpdateInv, ReaderHeader PROVE UpdateInv'
<1>1. /\ Consuming /\ mode = "loader" /\ reader = ReaderFor("loader") /\ reader.pc = "header"
      /\ ~w.active /\ w.pc = "idle" /\ LdrP!IInv /\ LdrP!AlignedInv /\ faults \in 0 .. MaxFaults
      /\ FlashInv /\ ReaderTypeOK
  BY DEF ReaderHeader, Consuming, UpdateInv, ImageInv, ReaderInv
<1>2. /\ reader.offset = 0 /\ reader.buf = <<>> /\ ~reader.result
  BY <1>1 DEF ReaderFor, NoReader
<1>3. UNCHANGED <<mode, reboot, losses, staged, stagedPkg, p, call, source>>
  BY DEF ReaderHeader, appVars
<1>4. /\ reader' = [reader EXCEPT !.pc = "begin", !.size = StoredSize] /\ StoredSize \in Nat =>
            /\ ReaderTypeOK' /\ reader'.pc = "begin" /\ reader'.size = StoredSize
            /\ reader'.offset = 0 /\ reader'.buf = <<>> /\ ~reader'.result
      /\ reader' = NoReader => ReaderTypeOK' /\ reader'.pc = "off"
  <2>1. reader' = NoReader => ReaderTypeOK' /\ reader'.pc = "off"
    BY EmptySeq DEF ReaderTypeOK, NoReader
  <2>2. SUFFICES ASSUME reader' = [reader EXCEPT !.pc = "begin", !.size = StoredSize],
                        StoredSize \in Nat
                 PROVE  /\ ReaderTypeOK' /\ reader'.pc = "begin" /\ reader'.size = StoredSize
                        /\ reader'.offset = 0 /\ reader'.buf = <<>> /\ ~reader'.result
    BY <2>1
  <2>3. /\ reader'.pc = "begin" /\ reader'.size = StoredSize
        /\ reader'.offset = 0 /\ reader'.buf = <<>> /\ reader'.result = reader.result
    BY <1>1, <1>2, <2>2 DEF ReaderTypeOK
  <2>4. ReaderTypeOK'
    BY <1>1, <2>2 DEF ReaderTypeOK
  <2>5. ~reader'.result
    BY <1>2, <2>3, Zenon
  <2> QED BY <2>3, <2>4, <2>5
<1>5. CASE /\ App!HeaderValid(staged)
           /\ Ldr!Begin(StoredSize) \/ Ldr!BeginUnopened
           /\ reader' = [reader EXCEPT !.pc = "begin", !.size = StoredSize]
  <2>1. /\ StoredSize \in Nat
        /\ LdrP!Accepts(StoredSize) => StagedWhole(stagedPkg) /\ StoredSize = Len(stagedPkg)
    BY <1>1, <1>5, StoredFacts
  <2>2. LdrP!Begin(StoredSize) \/ LdrP!BeginUnopened
    BY <1>5, LdrSteps
  <2>3. LdrP!Quiet
    BY <1>1, <2>2, LdrAssumptions, LdrP!CallsQuiet
  <2>4. /\ LdrP!IInv' /\ LdrP!AlignedInv' /\ accepted' = <<>> /\ w'.erased = 0
        /\ w'.pc = "idle"
        /\ \/ /\ LdrP!Accepts(StoredSize) /\ w'.active /\ w'.expected = StoredSize
              /\ w'.ret = "ok"
           \/ /\ ~w'.active /\ w'.ret = "fail"
              /\ ~LdrP!Accepts(StoredSize) \/ faults' = faults + 1
    <3>1. \A n : /\ LdrP!Idle(n).erased = 0 /\ ~LdrP!Idle(n).active
                 /\ LdrP!Idle(n).pc = "idle" /\ LdrP!Idle(n).ret = n
      BY DEF LdrP!Idle
    <3>2. CASE LdrP!BeginUnopened
      BY <1>1, <3>1, <3>2, LdrAssumptions, LdrP!BeginUnopenedStep, LdrP!AlignedStops
         DEF LdrP!BeginUnopened
    <3>3. CASE LdrP!Begin(StoredSize)
      <4>1. LdrP!IInv' /\ LdrP!AlignedInv'
        BY <1>1, <2>1, <3>3, LdrAssumptions, LdrP!BeginStep, LdrP!AlignedBegin
      <4>2. CASE LdrP!Accepts(StoredSize)
        BY <3>3, <4>1, <4>2 DEF LdrP!Begin, LdrP!Idle
      <4>3. CASE ~LdrP!Accepts(StoredSize)
        BY <3>1, <3>3, <4>1, <4>3 DEF LdrP!Begin
      <4> QED BY <4>2, <4>3
    <3> QED BY <2>2, <3>2, <3>3
  <2>5. slot' = slot /\ slotPkg' = slotPkg /\ faults' \in {faults, faults + 1}
    BY <2>3 DEF LdrP!Quiet
  <2>6. ReaderInv'
    <3>2. StagedWhole(stagedPkg) <=> StagedWhole(stagedPkg)'
      BY <1>3 DEF StagedWhole, App!HeaderValid, App!PayloadAt
    <3>3. CASE w'.active
      <4>1. Copying'
        BY <1>3, <1>4, <1>5, <2>1, <2>4, <3>2, <3>3, EmptySeq DEF Copying, Whole
      <4> QED BY <1>4, <1>5, <2>1, <2>4, <3>3, <4>1 DEF ReaderInv
    <3>4. CASE ~w'.active
      <4>1. StoredSize' = StoredSize /\ (App!HeaderValid(staged))' 
        BY <1>3, <1>5 DEF StoredSize, App!HeaderValid, Ldr!AreaSize, Ldr!SectorEnd
      <4>2. (LdrP!Accepts(StoredSize))' <=> LdrP!Accepts(StoredSize)
        BY <4>1 DEF LdrP!Accepts
      <4>3. faults' = 0 => Refused'
        BY <1>1, <2>4, <3>4, <4>1, <4>2, FlashAssumption DEF Refused
      <4> QED BY <1>4, <1>5, <2>1, <2>4, <3>4, <4>3 DEF ReaderInv
    <3> QED BY <3>3, <3>4
  <2> QED BY <1>1, <1>3, <1>4, <1>5, <2>1, <2>4, <2>5, <2>6, ReaderKeeps
<1>6. CASE /\ reader' = NoReader /\ UNCHANGED <<slotVars, w, accepted>>
           /\ \/ faults' = faults
              \/ App!MayFail /\ faults' = faults + 1
  <2>1. slot' = slot /\ slotPkg' = slotPkg /\ w' = w /\ accepted' = accepted
    BY <1>6 DEF slotVars
  <2>2. LdrP!IInv' /\ LdrP!AlignedInv'
    <3>1. faults' \in 0 .. MaxFaults
      BY <1>1, <1>6, FlashAssumption DEF App!MayFail
    <3>2. LdrP!WriterTypeOK' /\ LdrP!PackageComplete' /\ LdrP!NeverOverprogrammed'
      BY <1>1, <2>1, <3>1
         DEF LdrP!IInv, LdrP!WriterTypeOK, LdrP!PackageComplete, LdrP!NeverOverprogrammed
    <3> QED BY <1>1, <2>1, <3>2, LdrAssumptions, LdrP!StoppedInv, LdrP!AlignedStops
  <2>3. ReaderInv'
    BY <1>4, <1>6 DEF ReaderInv
  <2> QED BY <1>1, <1>3, <1>4, <1>6, <2>1, <2>2, <2>3, ReaderKeeps
<1> QED BY <1>5, <1>6 DEF ReaderHeader

\* What the reader relies on while it copies.
LEMMA CopyingFacts ==
    ASSUME UpdateInv, Consuming, Copying
    PROVE  /\ accepted \in Seq(Byte) /\ stagedPkg \in Seq(Byte)
           /\ Len(accepted) \in Nat /\ Len(stagedPkg) \in Nat /\ Len(reader.buf) \in Nat
           /\ reader.offset \in Nat /\ reader.size \in Nat
           /\ reader.buf \in Seq(Byte) /\ reader.size = Len(stagedPkg)
           /\ w.pc = "idle" => w.written = Len(accepted)
<1>1. LdrP!IInv /\ ReaderTypeOK /\ FlashInv
  BY DEF UpdateInv, ImageInv, Consuming
<1> QED BY <1>1, LenProperties
     DEF LdrP!IInv, LdrP!WriterTypeOK, LdrP!CountInv, FlashInv, ReaderTypeOK, Copying, Whole

\* Steps of the reader that leave the direct writer alone.
LEMMA ReaderOnly ==
    ASSUME UpdateInv, Consuming,
           UNCHANGED <<mode, reboot, losses, appVars, slotVars, w, p, call, accepted, source>>,
           faults' = faults \/ (App!MayFail /\ faults' = faults + 1),
           ReaderTypeOK', ReaderInv',
           reader'.pc = "off" => w.pc = "idle" /\ ~w.active,
           reader'.pc \in {"begin", "copy", "write", "finish"} =>
              reader.pc \in {"begin", "copy", "write", "finish"}
    PROVE  UpdateInv'
<1>1. /\ UNCHANGED <<mode, reboot, losses, staged, stagedPkg, slot, slotPkg, p, call, source>>
      /\ w' = w /\ accepted' = accepted
  BY DEF appVars, slotVars
<1>2. LdrP!IInv /\ LdrP!AlignedInv /\ faults \in 0 .. MaxFaults
  BY DEF UpdateInv, ImageInv, Consuming
<1>3. faults' \in 0 .. MaxFaults /\ faults' \in {faults, faults + 1}
  BY <1>2, FlashAssumption DEF App!MayFail
<1>4. LdrP!IInv' /\ LdrP!AlignedInv'
  BY <1>1, <1>2, <1>3
     DEF LdrP!IInv, LdrP!WriterTypeOK, LdrP!ControlInv, LdrP!CountInv, LdrP!DataInv,
         LdrP!ErasedInv, LdrP!HeaderInv, LdrP!PackageComplete, LdrP!HeaderValid, LdrP!PayloadAt,
         LdrP!NeverOverprogrammed, LdrP!BlockOffset, LdrP!Flushing, LdrP!AlignedInv
<1> QED BY <1>1, <1>3, <1>4, ReaderKeeps

LEMMA ReaderReturnsInv == ASSUME UpdateInv, ReaderReturns PROVE UpdateInv'
<1>1. /\ Consuming /\ reader.pc \in {"begin", "write", "finish"} /\ w.pc = "idle"
      /\ ReaderTypeOK /\ ReaderInv /\ LdrP!IInv
  BY DEF ReaderReturns, UpdateInv, ImageInv, Consuming
<1>2. /\ UNCHANGED <<mode, reboot, losses, appVars, slotVars, w, p, call, accepted, source>>
      /\ faults' = faults /\ staged' = staged /\ stagedPkg' = stagedPkg /\ slotPkg' = slotPkg
      /\ w' = w /\ accepted' = accepted /\ source' = source
  BY DEF ReaderReturns, handlerVars, appVars, slotVars
<1>3. /\ ReaderTypeOK' /\ reader'.pc \in {"clear", "copy"}
      /\ reader'.offset = reader.offset /\ reader'.size = reader.size
      /\ reader'.buf = reader.buf
  BY <1>1 DEF ReaderReturns, ReaderTypeOK
<1>4. (Whole' <=> Whole) /\ (Copying => Copying') /\ (Installed' <=> Installed)
      /\ (Refused => Refused')
  BY <1>2, <1>3 DEF Whole, Copying, Installed, Refused, StagedWhole, App!HeaderValid,
                    App!PayloadAt, StoredSize, LdrP!Accepts
<1>5. CASE w.ret # "ok"
  <2>1. reader' = [reader EXCEPT !.pc = "clear", !.result = FALSE]
    BY <1>5 DEF ReaderReturns
  <2>2. reader'.pc = "clear" /\ reader'.result = FALSE
    BY <1>1, <2>1 DEF ReaderTypeOK
  <2>3. ~w.active /\ (faults = 0 => Refused)
    BY <1>1, <1>5 DEF ReaderInv, Failed
  <2>4. ReaderInv'
    BY <1>1, <1>2, <1>4, <2>2, <2>3 DEF ReaderInv
  <2> QED BY <1>1, <1>2, <1>3, <2>2, <2>4, ReaderOnly
<1>6. CASE w.ret = "ok" /\ reader.pc = "finish"
  <2>1. reader' = [reader EXCEPT !.pc = "clear", !.result = TRUE]
    BY <1>6 DEF ReaderReturns
  <2>2. reader'.pc = "clear" /\ reader'.result = TRUE
    BY <1>1, <2>1 DEF ReaderTypeOK
  <2>3. ~w.active /\ Installed
    BY <1>1, <1>6 DEF ReaderInv, Failed
  <2>4. ReaderInv'
    BY <1>1, <1>2, <1>4, <2>2, <2>3 DEF ReaderInv
  <2> QED BY <1>1, <1>2, <1>3, <2>2, <2>4, ReaderOnly
<1>7. CASE w.ret = "ok" /\ reader.pc # "finish"
  <2>1. reader' = [reader EXCEPT !.pc = "copy"]
    BY <1>1, <1>7 DEF ReaderReturns
  <2>2. reader'.pc = "copy" /\ reader'.result = reader.result
    BY <1>1, <2>1 DEF ReaderTypeOK
  <2>3. Copying /\ ~reader.result
    BY <1>1, <1>7 DEF ReaderInv, Failed
  <2>4. ~reader'.result
    BY <2>2, <2>3, Zenon
  <2>5. ReaderInv'
    BY <1>1, <1>2, <1>4, <2>2, <2>3, <2>4 DEF ReaderInv
  <2> QED BY <1>1, <1>2, <1>3, <2>2, <2>5, ReaderOnly
<1> QED BY <1>5, <1>6, <1>7

LEMMA ReaderReadInv == ASSUME UpdateInv, ReaderRead PROVE UpdateInv'
<1>1. /\ Consuming /\ reader.pc = "copy" /\ reader.buf = <<>> /\ reader.offset < reader.size
      /\ ReaderTypeOK /\ ReaderInv /\ Copying /\ ~reader.result /\ w.pc = "idle"
  BY DEF ReaderRead, UpdateInv, ReaderInv, Consuming
<1>2. /\ UNCHANGED <<mode, reboot, losses, appVars, slotVars, w, p, call, accepted, source>>
      /\ faults' = faults /\ staged' = staged /\ stagedPkg' = stagedPkg
      /\ w' = w /\ accepted' = accepted
  BY DEF ReaderRead, handlerVars, appVars
<1> DEFINE left  == reader.size - reader.offset
           chunk == IF left < BufferSize THEN left ELSE BufferSize
           buf   == [k \in 1 .. chunk |-> staged[HeaderSize + reader.offset + k - 1]]
<1>3. reader' = [reader EXCEPT !.buf = buf, !.offset = @ + chunk]
  BY DEF ReaderRead
<1>4. /\ reader.offset \in Nat /\ reader.size \in Nat /\ stagedPkg \in Seq(Byte)
      /\ reader.size = Len(stagedPkg) /\ Len(accepted) = reader.offset
      /\ Len(stagedPkg) \in Nat
  BY <1>1, CopyingFacts, EmptySeq DEF Copying
<1>5. chunk \in Nat /\ reader.offset + chunk \in Nat /\ reader.offset + chunk <= reader.size
  BY <1>1, <1>4, FlashAssumption
<1> HIDE DEF chunk
<1>6. \A k \in 1 .. chunk : buf[k] = stagedPkg[reader.offset + k] /\ buf[k] \in Byte
  <2> SUFFICES ASSUME NEW k \in 1 .. chunk
               PROVE  buf[k] = stagedPkg[reader.offset + k] /\ buf[k] \in Byte
    OBVIOUS
  <2> DEFINE n == reader.offset + k
  <2>1. n \in 1 .. Len(stagedPkg) /\ HeaderSize + reader.offset + k - 1 = HeaderSize + n - 1
    <3>1. k \in Nat /\ k >= 1 /\ k <= chunk /\ HeaderSize \in Nat
      BY <1>5, FlashAssumption
    <3>2. n \in Nat /\ n >= 1 /\ n <= reader.size
      BY <1>4, <1>5, <3>1
    <3> QED BY <1>4, <3>1, <3>2
  <2>2. App!PayloadAt(staged, HeaderSize, stagedPkg)
    BY <1>1 DEF Copying, Whole, StagedWhole
  <2>3. staged[HeaderSize + n - 1] = stagedPkg[n]
    BY <2>1, <2>2 DEF App!PayloadAt
  <2>4. stagedPkg[n] \in Byte
    BY <1>4, <2>1, ElementOfSeq
  <2> QED BY <2>1, <2>3, <2>4
<1>7. buf \in Seq(Byte) /\ Len(buf) = chunk
  BY <1>5, <1>6
<1> HIDE DEF buf
<1>8. /\ ReaderTypeOK' /\ reader'.pc = "copy" /\ reader'.buf = buf
      /\ reader'.offset = reader.offset + chunk /\ reader'.size = reader.size
      /\ reader'.result = reader.result
  <2>1. /\ reader'.pc = "copy" /\ reader'.buf = buf
        /\ reader'.offset = reader.offset + chunk /\ reader'.size = reader.size
        /\ reader'.result = reader.result
    BY <1>1, <1>3 DEF ReaderTypeOK
  <2>2. ReaderTypeOK'
    BY <1>1, <1>3, <1>5, <1>7 DEF ReaderTypeOK
  <2> QED BY <2>1, <2>2
<1>9. Copying'
  <2>1. Whole'
    BY <1>1, <1>2, <1>8 DEF Copying, Whole, StagedWhole, App!HeaderValid, App!PayloadAt
  <2> QED BY <1>1, <1>2, <1>4, <1>5, <1>6, <1>7, <1>8, <2>1 DEF Copying
<1>10. ~reader'.result
  BY <1>1, <1>8, Zenon
<1>11. ReaderInv'
  BY <1>1, <1>2, <1>8, <1>9, <1>10 DEF ReaderInv
<1> QED BY <1>1, <1>2, <1>8, <1>11, ReaderOnly

LEMMA ReaderReadFailsInv == ASSUME UpdateInv, ReaderReadFails PROVE UpdateInv'
<1>1. /\ Consuming /\ reader.pc = "copy" /\ ReaderTypeOK /\ ReaderInv /\ w.pc = "idle"
      /\ faults \in Nat
  BY FlashAssumption DEF ReaderReadFails, UpdateInv, ReaderInv, ImageInv, Consuming
<1>2. /\ UNCHANGED <<mode, reboot, losses, appVars, slotVars, w, p, call, accepted, source>>
      /\ faults' = faults + 1 /\ App!MayFail /\ faults' > 0 /\ w' = w
  BY <1>1 DEF ReaderReadFails
<1>3. reader' = [reader EXCEPT !.pc = "clearAfterRead", !.result = TRUE]
  BY DEF ReaderReadFails
<1>4. ReaderTypeOK' /\ reader'.pc = "clearAfterRead" /\ reader'.result = TRUE
  BY <1>1, <1>3 DEF ReaderTypeOK
<1>5. ReaderInv'
  BY <1>1, <1>2, <1>4 DEF ReaderInv
<1> QED BY <1>1, <1>2, <1>4, <1>5, ReaderOnly

LEMMA ReaderWriteInv == ASSUME UpdateInv, ReaderWrite PROVE UpdateInv'
<1> DEFINE byte == Head(reader.buf)
<1>1. /\ Consuming /\ reader.pc = "copy" /\ reader.buf # <<>> /\ w.pc = "idle"
      /\ ReaderTypeOK /\ ReaderInv /\ Copying /\ ~reader.result /\ LdrP!IInv /\ LdrP!AlignedInv
      /\ w.active /\ mode = "loader"
  BY DEF ReaderWrite, UpdateInv, ReaderInv, ImageInv, Consuming, Copying
<1>2. /\ accepted \in Seq(Byte) /\ Len(accepted) \in Nat /\ Len(stagedPkg) \in Nat
      /\ reader.buf \in Seq(Byte) /\ Len(reader.buf) \in Nat /\ reader.offset \in Nat
      /\ reader.size = Len(stagedPkg) /\ reader.size \in Nat /\ w.written = Len(accepted)
  BY <1>1, CopyingFacts
<1>3. /\ byte \in Byte /\ byte = reader.buf[1] /\ Len(reader.buf) > 0
      /\ Tail(reader.buf) \in Seq(Byte) /\ Len(Tail(reader.buf)) = Len(reader.buf) - 1
      /\ \A k \in 1 .. Len(reader.buf) - 1 : Tail(reader.buf)[k] = reader.buf[k + 1]
  BY <1>1, <1>2, HeadTailProperties, EmptySeq
<1>4. LdrP!Write(byte) /\ UNCHANGED <<mode, reboot, losses, staged, stagedPkg, p, call, source>>
  BY LdrSteps DEF ReaderWrite, appVars
<1>5. reader' = [reader EXCEPT !.buf = Tail(@), !.pc = "write"]
  BY DEF ReaderWrite
<1>6. w.written # w.expected
  BY <1>1, <1>2, <1>3 DEF Copying
<1>7. /\ accepted' = Append(accepted, byte) /\ slot' = slot /\ slotPkg' = slotPkg
      /\ faults' = faults
      /\ w'.active = w.active /\ w'.expected = w.expected /\ w'.erased = w.erased
      /\ w'.pc \in {"flush", "idle"} /\ (w'.pc = "idle" => w'.ret = "ok")
  <2>1. w \in LdrP!WriterState
    BY <1>1 DEF LdrP!IInv, LdrP!WriterTypeOK
  <2> DEFINE full == Len(w.blk) + 1 = LdrP!BlockSize
  <2>2. w' = [w EXCEPT !.blk = Append(@, byte), !.next = @ + 1,
                       !.written = IF full THEN @ ELSE @ + 1,
                       !.pc = IF full THEN "flush" ELSE "idle",
                       !.scan = 1,
                       !.ret = IF full THEN "none" ELSE "ok"]
    BY <1>1, <1>4, <1>6, Zenon DEF LdrP!Write
  <2> HIDE DEF full
  <2>3. /\ w'.active = w.active /\ w'.expected = w.expected /\ w'.erased = w.erased
        /\ w'.pc \in {"flush", "idle"} /\ (w'.pc = "idle" => w'.ret = "ok")
    BY <2>1, <2>2 DEF LdrP!WriterState
  <2> QED BY <1>1, <1>4, <1>6, <2>3 DEF LdrP!Write
<1>8. LdrP!IInv' /\ LdrP!AlignedInv'
  <2>1. LdrP!IInv'
    BY <1>1, <1>3, <1>4, LdrAssumptions, LdrP!WriteStep
  <2>2. LdrP!WriterNext
    BY <1>3, <1>4 DEF LdrP!WriterNext, LdrP!WriterCall
  <2> QED BY <1>1, <2>1, <2>2, LdrAssumptions, LdrP!AlignedNext
<1>9. /\ ReaderTypeOK' /\ reader'.pc = "write" /\ reader'.buf = Tail(reader.buf)
      /\ reader'.offset = reader.offset /\ reader'.size = reader.size
      /\ reader'.result = reader.result
  <2>1. /\ reader'.pc = "write" /\ reader'.buf = Tail(reader.buf)
        /\ reader'.offset = reader.offset /\ reader'.size = reader.size
        /\ reader'.result = reader.result
    BY <1>1, <1>5 DEF ReaderTypeOK
  <2>2. ReaderTypeOK'
    BY <1>1, <1>3, <1>5 DEF ReaderTypeOK
  <2> QED BY <2>1, <2>2
<1>10. Copying'
  <2>1. Whole'
    BY <1>1, <1>4, <1>9 DEF Copying, Whole, StagedWhole, App!HeaderValid, App!PayloadAt
  <2>2. /\ Len(accepted') = Len(accepted) + 1 /\ accepted'[Len(accepted) + 1] = byte
        /\ \A k \in 1 .. Len(accepted) : accepted'[k] = accepted[k]
    BY <1>2, <1>3, <1>7, AppendProperties
  <2>3. \A k \in 1 .. Len(accepted') : accepted'[k] = stagedPkg[k]
    <3>1. stagedPkg[Len(accepted) + 1] = reader.buf[1]
      BY <1>1, <1>2, <1>3 DEF Copying
    <3> QED BY <1>1, <1>2, <1>3, <2>2, <3>1 DEF Copying
  <2>4. \A k \in 1 .. Len(Tail(reader.buf)) :
           Tail(reader.buf)[k] = stagedPkg[Len(accepted') + k]
    <3> SUFFICES ASSUME NEW k \in 1 .. Len(Tail(reader.buf))
                 PROVE  Tail(reader.buf)[k] = stagedPkg[Len(accepted') + k]
      OBVIOUS
    <3>1. k + 1 \in 1 .. Len(reader.buf) /\ Tail(reader.buf)[k] = reader.buf[k + 1]
      BY <1>2, <1>3
    <3>2. reader.buf[k + 1] = stagedPkg[Len(accepted) + (k + 1)]
      BY <1>1, <3>1 DEF Copying
    <3>3. Len(accepted) + (k + 1) = Len(accepted') + k
      BY <1>2, <2>2
    <3> QED BY <3>1, <3>2, <3>3
  <2>5. Len(accepted') + Len(Tail(reader.buf)) = reader.offset
    <3>1. Len(accepted) + Len(reader.buf) = reader.offset
      BY <1>1 DEF Copying
    <3>2. /\ Len(accepted') = Len(accepted) + 1
          /\ Len(Tail(reader.buf)) = Len(reader.buf) - 1
          /\ Len(accepted) \in Nat /\ Len(reader.buf) \in Nat
      BY <1>2, <1>3, <2>2
    <3>3. \A a, b \in Nat : (a + 1) + (b - 1) = a + b
      OBVIOUS
    <3> QED BY <3>1, <3>2, <3>3, Zenon
  <2> QED BY <1>1, <1>4, <1>7, <1>9, <2>1, <2>3, <2>4, <2>5 DEF Copying
<1>11. ~reader'.result
  BY <1>1, <1>9, Zenon
<1>12. ReaderInv'
  BY <1>7, <1>9, <1>10, <1>11 DEF ReaderInv
<1> QED BY <1>1, <1>4, <1>7, <1>8, <1>9, <1>12, ReaderKeeps

LEMMA ReaderFinishInv == ASSUME UpdateInv, ReaderFinish PROVE UpdateInv'
<1>1. /\ Consuming /\ reader.pc = "copy" /\ reader.buf = <<>> /\ reader.offset = reader.size
      /\ ReaderTypeOK /\ ReaderInv /\ Copying /\ LdrP!IInv /\ LdrP!AlignedInv
      /\ w.active /\ w.pc = "idle" /\ mode = "loader"
  BY DEF ReaderFinish, UpdateInv, ReaderInv, ImageInv, Consuming, Copying
<1>2. /\ w.written = Len(accepted) /\ Len(accepted) \in Nat /\ reader.offset \in Nat
      /\ w.expected = reader.size
  BY <1>1, CopyingFacts DEF Copying
<1>3. w.written = w.expected
  BY <1>1, <1>2, EmptySeq DEF Copying
<1>4. LdrP!Finish /\ UNCHANGED <<mode, reboot, losses, staged, stagedPkg, p, call, source>>
  BY LdrSteps DEF ReaderFinish, appVars
<1>5. /\ accepted' = accepted /\ slot' = slot /\ slotPkg' = slotPkg /\ faults' = faults
      /\ w'.active = w.active /\ w'.expected = w.expected /\ w'.erased = w.erased
      /\ w'.pc \in {"lastFlush", "commit"}
  <2>1. w \in LdrP!WriterState
    BY <1>1 DEF LdrP!IInv, LdrP!WriterTypeOK
  <2> DEFINE padded == [k \in 1 .. LdrP!BlockSize |->
                           IF k <= Len(w.blk) THEN w.blk[k] ELSE Erased]
             full   == [w EXCEPT !.pc = "lastFlush", !.scan = 1, !.ret = "none",
                                 !.next = @ + LdrP!BlockSize - Len(w.blk), !.blk = padded]
             none   == [w EXCEPT !.pc = "commit", !.ret = "none"]
  <2>2. /\ w' = full \/ w' = none
        /\ accepted' = accepted /\ slot' = slot /\ slotPkg' = slotPkg /\ faults' = faults
    BY <1>1, <1>3, <1>4, Zenon DEF LdrP!Finish
  <2> HIDE DEF padded
  <2>3. CASE w' = full
    BY <2>1, <2>2, <2>3 DEF LdrP!WriterState
  <2>4. CASE w' = none
    BY <2>1, <2>2, <2>4 DEF LdrP!WriterState
  <2> QED BY <2>2, <2>3, <2>4
<1>6. LdrP!IInv' /\ LdrP!AlignedInv'
  <2>1. LdrP!WriterNext
    BY <1>4 DEF LdrP!WriterNext, LdrP!WriterCall
  <2> QED BY <1>1, <1>4, <2>1, LdrAssumptions, LdrP!FinishStep, LdrP!AlignedNext
<1>7. /\ ReaderTypeOK' /\ reader'.pc = "finish" /\ reader'.buf = reader.buf
      /\ reader'.offset = reader.offset /\ reader'.size = reader.size
  BY <1>1 DEF ReaderFinish, ReaderTypeOK
<1>8. Copying'
  <2>1. Whole'
    BY <1>1, <1>4, <1>7 DEF Copying, Whole, StagedWhole, App!HeaderValid, App!PayloadAt
  <2> QED BY <1>1, <1>4, <1>5, <1>7, <2>1 DEF Copying
<1>9. ReaderInv'
  BY <1>1, <1>5, <1>7, <1>8 DEF ReaderInv
<1> QED BY <1>1, <1>4, <1>5, <1>6, <1>7, <1>9, ReaderKeeps

\* What erasing the first sector of the staged area leaves.
LEMMA ClearFacts ==
    ASSUME FlashInv, staged' = App!EraseSector(staged, 1)
    PROVE  /\ staged' \in [AppP!Offsets -> AppP!Cell]
           /\ AppP!PackageComplete' /\ AppP!NeverOverprogrammed'
<1>1. staged' = AppP!EraseSector(staged, 1) /\ staged \in [AppP!Offsets -> AppP!Cell]
      /\ AppP!NeverOverprogrammed
  BY AppOperators DEF FlashInv
<1>2. staged' \in [AppP!Offsets -> AppP!Cell] /\ AppP!NeverOverprogrammed'
      /\ (0 \in AppP!Offsets => staged'[0] = Erased)
  <2>1. CASE 1 \in AppP!SectorIndex
    <3>1. /\ AppP!EraseSector(staged, 1) \in [AppP!Offsets -> AppP!Cell]
          /\ \A o \in AppP!Offsets :
                AppP!EraseSector(staged, 1)[o] =
                   IF StagedSectors[1].offset <= o /\ o < AppP!SectorEnd(1) THEN Erased
                   ELSE staged[o]
      BY <1>1, <2>1, AppAssumptions, AppP!EraseFacts
    <3>2. StagedSectors[1].offset = 0 /\ 0 < AppP!SectorEnd(1)
      BY <2>1, AppAssumptions, AppP!SectorFacts DEF AppP!GeometryAssumption
    <3> QED BY <1>1, <3>1, <3>2, WordAssumption DEF AppP!NeverOverprogrammed
  <2>2. CASE 1 \notin AppP!SectorIndex
    <3>1. AppP!Offsets = {}
      <4>1. Len(StagedSectors) \in Nat /\ (StagedSectors # <<>> <=> Len(StagedSectors) > 0)
        BY AppAssumptions, AppP!SectorFacts
      <4> QED BY <2>2, <4>1 DEF AppP!SectorIndex, AppP!Offsets, AppP!AreaSize
    <3> QED BY <1>1, <3>1 DEF AppP!EraseSector, AppP!NeverOverprogrammed
  <2> QED BY <2>1, <2>2
<1> QED BY <1>2, AppAssumptions, AppP!HeaderErased

\* clear_pending() takes a staged package away only when nothing depends on it.
LEMMA NotNeeded ==
    ASSUME UpdateInv, Consuming, reader.pc \in {"clear", "clearAfterRead"},
           source # <<>>, slotPkg = <<>>, faults = 0
    PROVE  SlotValid
<1> SUFFICES ASSUME ~SlotValid PROVE FALSE
  OBVIOUS
<1>1. /\ StagedWhole(source) /\ LdrP!Accepts(Len(source)) /\ source \in Seq(Byte)
  BY DEF UpdateInv, SourceInv
<1>2. reader.pc = "clear" /\ ~reader.result
  BY DEF UpdateInv, ReaderInv, Installed
<1>3. ~LdrP!Accepts(StoredSize)
  BY <1>2 DEF UpdateInv, ReaderInv, Refused
<1>4. staged[3] = Len(source) /\ staged[3] # Erased
  BY <1>1, WordAssumption, LenProperties DEF StagedWhole
<1> QED BY <1>1, <1>3, <1>4 DEF StoredSize

LEMMA ReaderClearInv == ASSUME UpdateInv, ReaderClear PROVE UpdateInv'
<1>1. /\ Consuming /\ reader.pc \in {"clear", "clearAfterRead"} /\ w.pc = "idle"
      /\ ReaderTypeOK /\ ReaderInv /\ FlashInv /\ LdrP!IInv /\ LdrP!AlignedInv
      /\ faults \in 0 .. MaxFaults /\ mode = "loader"
      /\ p = LdrP!Fresh("Incomplete") /\ call = "none"
  BY DEF ReaderClear, UpdateInv, ReaderInv, ImageInv, Consuming
<1>2. /\ UNCHANGED <<mode, reboot, losses, slotVars, w, p, call, accepted, source>>
      /\ UNCHANGED <<slot, slotPkg>>
  BY DEF ReaderClear, slotVars
<1>3. \A r \in BOOLEAN :
         /\ [reader EXCEPT !.pc = "done"].pc = "done"
         /\ [reader EXCEPT !.pc = "done"].result = reader.result
         /\ [reader EXCEPT !.pc = "done", !.result = r].pc = "done"
         /\ [reader EXCEPT !.pc = "done", !.result = r].result = r
  BY <1>1 DEF ReaderTypeOK
<1>4. CASE /\ staged' = App!EraseSector(staged, 1) /\ stagedPkg' = <<>>
           /\ reader' = [reader EXCEPT !.pc = "done"] /\ faults' = faults
  <2>1. ReaderTypeOK'
    BY <1>1, <1>4 DEF ReaderTypeOK
  <2>2. FlashInv'
    BY <1>1, <1>2, <1>4, ClearFacts, SlotKept, EmptySeq DEF FlashInv
  <2>3. LdrP!IInv' /\ LdrP!AlignedInv'
    BY <1>1, <1>2, <1>4
       DEF LdrP!IInv, LdrP!WriterTypeOK, LdrP!ControlInv, LdrP!CountInv, LdrP!DataInv,
           LdrP!ErasedInv, LdrP!HeaderInv, LdrP!PackageComplete, LdrP!HeaderValid,
           LdrP!PayloadAt, LdrP!NeverOverprogrammed, LdrP!BlockOffset, LdrP!Flushing,
           LdrP!AlignedInv
  <2>4. (LdrP!Fresh("Incomplete"))' = LdrP!Fresh("Incomplete")
    BY DEF LdrP!Fresh
  <2>5. ImageInv'
    BY <1>1, <1>2, <1>3, <1>4, <2>3, <2>4 DEF UpdateInv, ImageInv
  <2>6. reader'.pc = "done" /\ reader'.result = reader.result
    BY <1>3, <1>4
  <2>7. reader.result \/ ~w.active
    BY <1>1 DEF ReaderInv
  <2>8. reader'.result \/ ~w'.active
    BY <1>2, <2>6, <2>7, Zenon
  <2>9. ReaderInv'
    BY <1>1, <1>2, <2>6, <2>8 DEF ReaderInv
  <2>10. SlotValid' = SlotValid
    BY <1>1, <1>2, SlotKept
  <2>11. SourceInv'
    BY <1>1, <1>2, <1>4, <2>6, <2>10, NotNeeded DEF UpdateInv, SourceInv
  <2> QED BY <2>1, <2>2, <2>5, <2>9, <2>11 DEF UpdateInv
<1>5. CASE /\ App!MayFail /\ faults' = faults + 1 /\ UNCHANGED appVars
           /\ reader' = [reader EXCEPT !.pc = "done",
                                       !.result = @ /\ reader.pc = "clearAfterRead"]
  <2> DEFINE result == reader.result /\ reader.pc = "clearAfterRead"
  <2>1. result \in BOOLEAN
    OBVIOUS
  <2>2. reader' = [reader EXCEPT !.pc = "done", !.result = result]
    BY <1>5, Zenon
  <2>3. (reader.result /\ reader.pc = "clearAfterRead") \/ ~w.active
    BY <1>1 DEF ReaderInv
  <2> HIDE DEF result
  <2>4. ReaderTypeOK' /\ reader'.pc = "done"
    BY <1>1, <2>1, <2>2 DEF ReaderTypeOK
  <2>5. reader'.result = result
    BY <1>3, <2>1, <2>2, Zenon
  <2>6. reader'.result \/ ~w'.active
    BY <1>2, <2>3, <2>5, Zenon DEF result
  <2>7. ReaderInv'
    BY <1>1, <1>2, <2>4, <2>6 DEF ReaderInv
  <2> QED BY <1>1, <1>2, <1>5, <2>4, <2>7, ReaderOnly
<1> QED BY <1>4, <1>5 DEF ReaderClear

LEMMA ReaderDoneInv == ASSUME UpdateInv, ReaderDone PROVE UpdateInv'
<1>1. /\ Consuming /\ reader.pc = "done" /\ w.pc = "idle" /\ ReaderTypeOK /\ ReaderInv
      /\ losses \in 0 .. MaxLosses
  BY DEF ReaderDone, UpdateInv, ReaderInv, ImageInv, Consuming
<1>2. CASE reader.result
  BY <1>1, <1>2, RestartInv DEF ReaderDone
<1>3. CASE ~reader.result
  <2>1. /\ UNCHANGED <<mode, reboot, losses, appVars, slotVars, w, p, call, accepted, source>>
        /\ faults' = faults /\ reader' = NoReader
    BY <1>3 DEF ReaderDone, handlerVars
  <2>2. reader'.pc = "off" /\ ReaderTypeOK'
    BY <2>1, EmptySeq DEF NoReader, ReaderTypeOK
  <2>3. ReaderInv'
    BY <2>2 DEF ReaderInv
  <2> QED BY <1>1, <1>3, <2>1, <2>2, <2>3, ReaderOnly DEF ReaderInv
<1> QED BY <1>2, <1>3

-----------------------------------------------------------------------------
(* The theorems.                                                           *)

LEMMA UpdateInvNext == ASSUME UpdateInv, [Next]_vars PROVE UpdateInv'
<1>1. mode \in {"app", "loader", "halt"} /\ losses \in 0 .. MaxLosses
  BY DEF UpdateInv, ImageInv
<1>2. CASE AppCommand \/ AppFinish \/ AppStep
  BY <1>2, AppInv DEF AppCommand, AppFinish, AppStep
<1>3. CASE ReaderStep
  BY <1>3, ReaderHeaderInv, ReaderReturnsInv, ReaderReadInv, ReaderReadFailsInv,
     ReaderWriteInv, ReaderFinishInv, ReaderClearInv, ReaderDoneInv DEF ReaderStep
<1>4. CASE LoaderStep \/ LoaderCommand
  BY <1>4, LoaderInv
<1>5. CASE Reboot \/ RebootRequest \/ ButtonEntry
  BY <1>1, <1>5, RestartInv DEF Reboot, RebootRequest, ButtonEntry
<1>6. CASE PowerLoss
  <2>1. losses' \in 0 .. MaxLosses
    BY <1>1, <1>6, FlashAssumption DEF PowerLoss
  <2> QED BY <1>6, <2>1, RestartInv DEF PowerLoss
<1>7. CASE UNCHANGED vars
  <2> USE <1>7 DEF vars, handlerVars
  <2>1. FlashInv'
    BY SlotKept, StagedKept DEF UpdateInv, FlashInv
  <2>2. /\ AppP!UploadInv => AppP!UploadInv'
        /\ LdrP!UploadInv => LdrP!UploadInv'
        /\ LdrP!IInv => LdrP!IInv'
        /\ LdrP!AlignedInv => LdrP!AlignedInv'
    <3>1. /\ [AppP!UploadNext]_(AppP!uploadVars) /\ [LdrP!UploadNext]_(LdrP!uploadVars)
          /\ [LdrP!WriterNext]_(LdrP!writerVars)
      BY DEF AppP!uploadVars, LdrP!uploadVars, AppP!writerVars, LdrP!writerVars
    <3>2. AppP!UploadInv => AppP!UploadInv'
      BY <3>1, AppAssumptions, AppP!UploadInvNext
    <3>3. LdrP!UploadInv => LdrP!UploadInv'
      BY <3>1, LdrAssumptions, LdrP!UploadInvNext
    <3>4. LdrP!IInv => LdrP!IInv'
      BY <3>1, LdrAssumptions, LdrP!InvNext
    <3>5. LdrP!AlignedInv => LdrP!AlignedInv'
      BY <3>1, LdrAssumptions, LdrP!AlignedNext DEF LdrP!AlignedInv, LdrP!BlockOffset,
         LdrP!Flushing
    <3> QED BY <3>2, <3>3, <3>4, <3>5
  <2>3. (LdrP!Fresh("Incomplete"))' = LdrP!Fresh("Incomplete")
    BY DEF LdrP!Fresh
  <2>4. SlotValid' = SlotValid
    BY SlotKept DEF UpdateInv
  <2>5. ImageInv'
    BY <2>2, <2>3, <2>4 DEF UpdateInv, ImageInv
  <2>6. ReaderTypeOK' /\ ReaderInv'
    BY DEF UpdateInv, ReaderTypeOK, ReaderInv, Copying, Whole, Failed, Installed, Refused,
           StagedWhole, App!HeaderValid, App!PayloadAt, StoredSize, LdrP!Accepts
  <2>7. SourceInv'
    BY <2>4 DEF UpdateInv, SourceInv, StagedWhole, App!HeaderValid, App!PayloadAt
  <2> QED BY <2>1, <2>5, <2>6, <2>7 DEF UpdateInv
<1> QED BY <1>2, <1>3, <1>4, <1>5, <1>6, <1>7 DEF Next

\* The update as a whole keeps the invariant of both images, ...
THEOREM UpdateCorrect == Spec => []UpdateInv
<1>1. Init => UpdateInv
  BY InitInv
<1>2. UpdateInv /\ [Next]_vars => UpdateInv'
  BY UpdateInvNext
<1> QED BY <1>1, <1>2, PTL DEF Spec

\* ... and so never overwrites an application but with a whole package, keeps
\* that package until the slot holds it, and ends with the whole package in
\* the slot, wherever power is lost and whatever flash operation fails.
THEOREM UpdateIsSafe == Spec => []InstallSafe
<1>1. UpdateInv => InstallSafe
  <2> SUFFICES ASSUME UpdateInv PROVE InstallSafe
    OBVIOUS
  <2>1. FlashInv /\ ImageInv /\ ReaderTypeOK /\ ReaderInv /\ SourceInv
    BY DEF UpdateInv
  <2>2. TypeOK
    <3>1. mode = "app" => App!UploadTypeOK
      BY <2>1, AppOperators
         DEF ImageInv, AppP!UploadInv, AppP!IInv, AppP!ParserInv, AppP!UploadTypeOK,
             AppP!ParserTypeOK, AppP!Parser
    <3>2. mode # "app" => Ldr!UploadTypeOK
      <4>1. CASE reader.pc = "off"
        BY <2>1, <4>1, LdrOperators
           DEF ImageInv, LdrP!UploadInv, LdrP!IInv, LdrP!ParserInv, LdrP!UploadTypeOK,
               LdrP!ParserTypeOK, LdrP!Parser
      <4>2. CASE reader.pc # "off"
        <5>1. LdrP!Fresh("Incomplete") \in LdrP!Parser
          BY LdrAssumptions, LdrP!FreshFacts
        <5> QED BY <2>1, <4>2, <5>1, LdrOperators
             DEF ImageInv, LdrP!IInv, LdrP!UploadTypeOK, LdrP!Parser
      <4> QED BY <4>1, <4>2
    <3> QED BY <2>1, <3>1, <3>2, AppOperators, LdrOperators
         DEF TypeOK, ImageInv, FlashInv, ReaderTypeOK, SourceInv
  <2>3. OnlyWholePackagesInstalled
    BY <2>1 DEF ReaderInv, Copying, Whole, Failed, OnlyWholePackagesInstalled
  <2>4. InterruptedInstallCanResume
    <3>1. <<>> \in Signed => SlotValid
      BY DEF SlotValid, Ldr!PayloadAt
    <3>2. CASE slotPkg # <<>>
      <4>1. source \in Signed /\ source # <<>> => SlotValid
        BY <2>1, <3>2, LdrOperators DEF SlotValid, FlashInv, SourceInv
      <4> QED BY <3>1, <4>1 DEF InterruptedInstallCanResume
    <3>3. CASE slotPkg = <<>>
      BY <2>1, <3>1, <3>3 DEF SourceInv, InterruptedInstallCanResume
    <3> QED BY <3>2, <3>3
  <2>5. InstalledInFull
    BY <2>1, AppOperators, LdrOperators
       DEF ReaderInv, Installed, FlashInv, InstalledInFull, App!PayloadAt, LdrP!PayloadAt
  <2>6. NeverOverprogrammed
    BY <2>1, AppOperators, LdrOperators DEF NeverOverprogrammed, FlashInv
  <2> QED BY <2>2, <2>3, <2>4, <2>5, <2>6 DEF InstallSafe
<1> QED BY <1>1, UpdateCorrect, PTL

-----------------------------------------------------------------------------
(* The update implements its contract.                                     *)

\* The package the staged area announces.
Pending == AppP!Published

ContractNext == [Contract!Next]_(Contract!vars)

LEMMA PendingIs ==
    Pending = IF App!HeaderValid(staged) /\ staged[3] # Erased THEN stagedPkg ELSE <<>>
BY AppOperators DEF Pending, AppP!Published

LEMMA PendingKept ==
    ASSUME UNCHANGED <<staged, stagedPkg>> PROVE Pending' = Pending
BY DEF Pending, AppP!Published, AppP!HeaderValid

\* A package that is whole is announced.
LEMMA WholePending ==
    ASSUME Whole, stagedPkg \in Seq(Byte) PROVE Pending = stagedPkg
<1>1. App!HeaderValid(staged) /\ staged[3] = Len(stagedPkg)
  BY DEF Whole, StagedWhole
<1>2. staged[3] # Erased
  BY <1>1, WordAssumption, LenProperties
<1> QED BY <1>1, <1>2, PendingIs

\* A flash operation that failed is not forgotten.
LEMMA FaultyKept ==
    ASSUME UpdateInv, faults' \in {faults, faults + 1}
    PROVE  /\ ((faults > 0)' <=> faults > 0) \/ (faults > 0)'
           /\ (faults > 0)' \in {faults > 0, TRUE}
<1>1. faults \in Nat /\ (faults > 0 => faults' > 0)
  BY FlashAssumption DEF UpdateInv, ImageInv
<1>2. \A a, b \in BOOLEAN : (b => a) => (a \in {b, TRUE})
  OBVIOUS
<1>3. (faults > 0 => (faults > 0)') /\ (faults > 0) \in BOOLEAN /\ (faults > 0)' \in BOOLEAN
  BY <1>1
<1>4. (faults > 0)' \in {faults > 0, TRUE}
  BY <1>2, <1>3, Zenon
<1> QED BY <1>1, <1>4

\* A step that leaves the slot as it is.
LEMMA StagedContract ==
    ASSUME UpdateInv, UpdateInv', UNCHANGED <<slot, slotPkg, source>>,
           faults' \in {faults, faults + 1},
           \/ Pending' = Pending
           \/ Pending = <<>>
           \/ Pending' = <<>> /\ (slotPkg # <<>> \/ SlotValid \/ source = <<>> \/ faults > 0)
    PROVE  ContractNext
<1>1. SlotValid' = SlotValid
  BY SlotKept DEF UpdateInv
<1>3. Pending' \in Seq(Byte)
  <2>1. stagedPkg' \in Seq(Byte)
    BY DEF UpdateInv, FlashInv
  <2> QED BY <2>1, EmptySeq DEF Pending, AppP!Published
<1>4. /\ ((faults > 0)' <=> faults > 0) \/ (faults > 0)'
      /\ (faults > 0)' \in {faults > 0, TRUE}
  BY FaultyKept
<1>5. Pending = (IF App!HeaderValid(staged) /\ staged[3] # Erased THEN stagedPkg ELSE <<>>)
      /\ Pending' = (IF App!HeaderValid(staged) /\ staged[3] # Erased THEN stagedPkg ELSE <<>>)'
  BY DEF Pending, AppP!Published, App!HeaderValid, AppP!HeaderValid
<1>6. CASE Pending' = Pending
  <2>1. CASE (faults > 0)' <=> faults > 0
    BY <1>1, <1>5, <1>6, <2>1 DEF ContractNext, Contract!vars
  <2>2. CASE (faults > 0)'
    BY <1>1, <1>5, <1>6, <2>2 DEF ContractNext, Contract!Next, Contract!Fail
  <2> QED BY <1>4, <2>1, <2>2
<1>7. CASE Pending = <<>> /\ Pending' # <<>>
  BY <1>1, <1>3, <1>4, <1>5, <1>7
     DEF ContractNext, Contract!Next, Contract!Stage, Contract!MayFail
<1>8. CASE Pending' = <<>> /\ (slotPkg # <<>> \/ SlotValid \/ source = <<>> \/ faults > 0)
  BY <1>1, <1>4, <1>5, <1>8
     DEF ContractNext, Contract!Next, Contract!Discard, Contract!MayFail
<1> QED BY <1>6, <1>7, <1>8

\* A step of the direct writer, or one that interrupts it.
LEMMA DirectContract ==
    ASSUME UpdateInv, UpdateInv', mode # "app", UNCHANGED <<staged, stagedPkg>>,
           faults' \in {faults, faults + 1},
           \/ /\ LdrP!Erases
              /\ source' = IF reader.pc = "off" THEN <<>> ELSE stagedPkg
           \/ /\ source' = source
              /\ \/ LdrP!Completes
                 \/ /\ slotPkg' = slotPkg
                    /\ slot' = slot \/ (w.active /\ w.erased # 0 /\ w.pc # "idle")
    PROVE  ContractNext
<1>1. Pending' = Pending /\ stagedPkg \in Seq(Byte) /\ slotPkg' \in Seq(Byte)
  BY PendingKept DEF UpdateInv, FlashInv
<1>2. /\ Pending = (IF App!HeaderValid(staged) /\ staged[3] # Erased THEN stagedPkg ELSE <<>>)
      /\ Pending' = (IF App!HeaderValid(staged) /\ staged[3] # Erased THEN stagedPkg ELSE <<>>)'
  BY DEF Pending, AppP!Published, App!HeaderValid, AppP!HeaderValid
<1>3. (faults > 0)' \in {faults > 0, TRUE}
  BY FaultyKept
<1>4. SlotValid' \in BOOLEAN
  BY DEF SlotValid
<1>5. CASE LdrP!Erases /\ source' = (IF reader.pc = "off" THEN <<>> ELSE stagedPkg)
  <2>1. slotPkg' = <<>> /\ w.pc # "idle"
    BY <1>5 DEF LdrP!Erases, LdrP!Flushing
  <2>2. CASE reader.pc = "off"
    BY <1>1, <1>2, <1>3, <1>4, <1>5, <2>1, <2>2
       DEF ContractNext, Contract!Next, Contract!StartRecovery, Contract!MayFail
  <2>3. CASE reader.pc # "off"
    <3>1. Whole /\ stagedPkg # <<>>
      BY <2>1, <2>3, ReaderCopies
    <3>2. Pending # <<>> /\ source' # <<>>
      BY <1>1, <1>5, <2>3, <3>1, WholePending
    <3>3. (source = <<>>)' = FALSE
      BY <3>2
    <3> QED BY <1>1, <1>2, <1>3, <1>4, <2>1, <3>2, <3>3
         DEF ContractNext, Contract!Next, Contract!StartInstall, Contract!MayFail
  <2> QED BY <2>2, <2>3
<1>6. CASE LdrP!Completes /\ source' = source
  <2>1. /\ w.pc = "commit" /\ w.active /\ w.erased # 0
        /\ slotPkg' = accepted /\ slotPkg' # <<>> /\ slot' = slot
    BY <1>6 DEF LdrP!Completes
  <2>2. slotPkg = <<>> /\ SlotValid' = SlotValid
    BY <2>1, SlotSource DEF SlotValid, Ldr!PayloadAt
  <2>3. CASE reader.pc = "off"
    <3>1. source = <<>>
      BY <2>1, <2>3, SlotSource
    <3> QED BY <1>1, <1>2, <1>3, <1>6, <2>1, <2>2, <3>1
         DEF ContractNext, Contract!Next, Contract!Recover, Contract!MayFail
  <2>4. CASE reader.pc # "off"
    <3>1. Whole /\ accepted = stagedPkg /\ source # <<>>
      BY <2>1, <2>4, CopiedAll, SlotSource
    <3>2. Pending = stagedPkg
      BY <1>1, <3>1, WholePending
    <3> QED BY <1>1, <1>2, <1>3, <1>6, <2>1, <2>2, <3>1, <3>2
         DEF ContractNext, Contract!Next, Contract!Install, Contract!MayFail
  <2> QED BY <2>3, <2>4
<1>7. CASE slotPkg' = slotPkg /\ source' = source /\ w.active /\ w.erased # 0 /\ w.pc # "idle"
  <2>1. slotPkg = <<>>
    BY <1>7, SlotSource
  <2> QED BY <1>1, <1>2, <1>3, <1>4, <1>7, <2>1
       DEF ContractNext, Contract!Next, Contract!Rewrite, Contract!MayFail
<1>8. CASE slotPkg' = slotPkg /\ source' = source /\ slot' = slot
  BY <1>1, <1>8, StagedContract
<1> QED BY <1>5, <1>6, <1>7, <1>8

\* What the upload handler of the application does before and after the
\* operations of the writer.
LEMMA AppQuiet ==
    ASSUME AppP!IInv, AppP!UploadCommand \/ AppP!ChunkReturns \/ AppP!AbortReturns
    PROVE  AppP!Quiet
<1>1. CASE UNCHANGED AppP!writerVars
  <2>1. w' = w /\ staged' = staged /\ stagedPkg' = stagedPkg /\ faults' = faults
    BY <1>1 DEF AppP!writerVars
  <2>2. faults' \in {faults, faults + 1}
    BY <2>1
  <2> QED BY <2>1, <2>2 DEF AppP!Quiet
<1>2. CASE ~UNCHANGED AppP!writerVars
  <2>1. \/ \E n : AppP!Begin(n)
        \/ AppP!BeginUnopened
        \/ \E b : AppP!Write(b)
        \/ AppP!Finish \/ AppP!Abort
    BY <1>2, AppAssumptions, AppP!HandlerCalls
  <2> QED BY <2>1, AppAssumptions, AppP!CallsQuiet
<1> QED BY <1>1, <1>2

LEMMA AppContract ==
    ASSUME UpdateInv, UpdateInv', AppCommand \/ AppFinish \/ AppStep
    PROVE  ContractNext
<1>1. /\ AppP!IInv /\ SlotValid /\ UNCHANGED <<slot, slotPkg, source>>
  BY DEF AppCommand, AppFinish, AppStep, slotVars, UpdateInv, ImageInv, AppP!UploadInv
<1>2. AppP!WriterStep \/ AppP!UploadCommand \/ AppP!ChunkReturns \/ AppP!AbortReturns
  <2>1. AppFinish => App!UploadCommand
    BY DEF AppFinish, App!UploadCommand
  <2> QED BY <2>1, AppSteps DEF AppCommand, AppStep, AppP!UploadStep
<1>3. CASE AppP!WriterStep
  <2>1. /\ Pending' = Pending \/ Pending' = <<>> \/ Pending = <<>>
        /\ faults' \in {faults, faults + 1}
    BY <1>1, <1>3, AppAssumptions, AppP!PublishedSteps DEF Pending
  <2> QED BY <1>1, <2>1, StagedContract
<1>4. CASE ~AppP!WriterStep
  <2>1. AppP!Quiet
    BY <1>1, <1>2, <1>4, AppQuiet
  <2>2. UNCHANGED <<staged, stagedPkg>> /\ faults' \in {faults, faults + 1}
    BY <2>1 DEF AppP!Quiet
  <2> QED BY <1>1, <2>2, PendingKept, StagedContract
<1> QED BY <1>3, <1>4

LEMMA LoaderContract ==
    ASSUME UpdateInv, UpdateInv', LoaderStep \/ LoaderCommand
    PROVE  ContractNext
<1>1. /\ LdrP!IInv /\ LdrP!AlignedInv /\ mode # "app" /\ UNCHANGED <<staged, stagedPkg>>
  BY DEF LoaderStep, LoaderCommand, UpdateInv, ImageInv, appVars
<1>2. \/ LdrP!WriterStep /\ LoaderStep
      \/ LdrP!UploadCommand /\ LoaderCommand
      \/ (LdrP!ChunkReturns \/ LdrP!AbortReturns) /\ LoaderStep
  BY LdrSteps DEF LoaderStep, LoaderCommand, LdrP!UploadStep
<1>3. CASE LdrP!WriterStep /\ LoaderStep
  <2>1. source' = IF w'.erased \in {w.erased, 0} THEN source
                  ELSE IF reader.pc = "off" THEN <<>> ELSE stagedPkg
    BY <1>3 DEF LoaderStep
  <2>2. \/ LdrP!Erases \/ LdrP!Programs \/ LdrP!Breaks
        \/ LdrP!Completes /\ w' = LdrP!Idle("ok") /\ faults' = faults
    BY <1>1, <1>3, LdrAssumptions, LdrP!DirectSteps
  <2>3. \A n : LdrP!Idle(n).erased = 0
    BY DEF LdrP!Idle
  <2> QED BY <1>1, <2>1, <2>2, <2>3, DirectContract
       DEF LdrP!Erases, LdrP!Programs, LdrP!Breaks, LdrP!Flushing
<1>4. CASE LdrP!UploadCommand \/ LdrP!ChunkReturns \/ LdrP!AbortReturns
  <2>1. LdrP!Quiet
    BY <1>1, <1>4, LdrQuiet
  <2>2. /\ UNCHANGED <<slot, slotPkg>> /\ faults' \in {faults, faults + 1}
        /\ w'.erased \in {w.erased, 0}
    BY <2>1 DEF LdrP!Quiet
  <2>3. source' = source
    BY <2>2 DEF LoaderStep, LoaderCommand
  <2> QED BY <1>1, <2>2, <2>3, PendingKept, StagedContract
<1> QED BY <1>2, <1>3, <1>4

LEMMA RestartContract ==
    ASSUME UpdateInv, UpdateInv', NEW request \in BOOLEAN, Restart(request)
    PROVE  ContractNext
<1>1. source' = source
  BY DEF Restart
<1>2. CASE mode = "app"
  <2>1. AppP!WriterPowerLoss /\ UNCHANGED <<slot, slotPkg>> /\ SlotValid /\ AppP!IInv
    BY <1>2, AppSteps
       DEF Restart, AppP!UploadPowerLoss, slotVars, UpdateInv, ImageInv, AppP!UploadInv
  <2>2. /\ Pending' = Pending \/ Pending' = <<>> \/ Pending = <<>>
        /\ faults' \in {faults, faults + 1}
    BY <2>1, AppAssumptions, AppP!PublishedSteps DEF Pending
  <2> QED BY <1>1, <2>1, <2>2, StagedContract
<1>3. CASE mode # "app"
  <2>1. LdrP!WriterPowerLoss /\ UNCHANGED <<staged, stagedPkg>> /\ LdrP!IInv
    BY <1>3, LdrSteps DEF Restart, LdrP!UploadPowerLoss, appVars, UpdateInv, ImageInv
  <2>2. \/ LdrP!Completes
        \/ /\ slotPkg' = slotPkg
           /\ slot' = slot \/ (w.active /\ w.erased # 0 /\ w.pc # "idle")
    BY <2>1, LdrAssumptions, LdrP!DirectPowerLoss DEF LdrP!Flushing
  <2>3. faults' \in {faults, faults + 1}
    BY <2>1 DEF LdrP!WriterPowerLoss
  <2> QED BY <1>1, <1>3, <2>1, <2>2, <2>3, DirectContract
<1> QED BY <1>2, <1>3

LEMMA ReaderContract ==
    ASSUME UpdateInv, UpdateInv', ReaderStep
    PROVE  ContractNext
<1>1. CASE ReaderDone /\ reader.result
  BY <1>1, RestartContract DEF ReaderDone
<1>2. CASE ReaderClear
  <2>1. /\ Consuming /\ reader.pc \in {"clear", "clearAfterRead"}
        /\ UNCHANGED <<slot, slotPkg, source>>
        /\ \/ stagedPkg' = <<>> /\ faults' = faults
           \/ UNCHANGED <<staged, stagedPkg>> /\ faults' = faults + 1
    BY <1>2 DEF ReaderClear, slotVars, appVars
  <2>2. CASE stagedPkg' = <<>> /\ faults' = faults
    <3>1. Pending' = <<>>
      BY <2>2 DEF Pending, AppP!Published
    <3>2. slotPkg # <<>> \/ SlotValid \/ source = <<>> \/ faults > 0
      BY <2>1, NotNeeded, FlashAssumption DEF UpdateInv, ImageInv
    <3> QED BY <2>1, <2>2, <3>1, <3>2, StagedContract
  <2>3. CASE UNCHANGED <<staged, stagedPkg>> /\ faults' = faults + 1
    BY <2>1, <2>3, PendingKept, StagedContract
  <2> QED BY <2>1, <2>2, <2>3
<1>3. CASE /\ ~ReaderClear
           /\ ReaderDone => ~reader.result
  <2>1. UNCHANGED <<staged, stagedPkg, source>>
    BY <1>3 DEF ReaderStep, ReaderHeader, ReaderReturns, ReaderRead, ReaderReadFails,
       ReaderWrite, ReaderFinish, ReaderDone, appVars
  <2>2. UNCHANGED <<slot, slotPkg>> /\ faults' \in {faults, faults + 1}
    <3>1. CASE ReaderHeader \/ ReaderWrite \/ ReaderFinish
      <4>1. \/ \E n : LdrP!Begin(n)
            \/ LdrP!BeginUnopened
            \/ \E b : LdrP!Write(b)
            \/ LdrP!Finish
            \/ UNCHANGED slotVars /\ faults' \in {faults, faults + 1}
        BY <3>1, LdrSteps DEF ReaderHeader, ReaderWrite, ReaderFinish
      <4>2. LdrP!IInv
        BY <3>1 DEF ReaderHeader, ReaderWrite, ReaderFinish, Consuming, UpdateInv, ImageInv
      <4>3. LdrP!Quiet \/ (UNCHANGED slotVars /\ faults' \in {faults, faults + 1})
        BY <4>1, <4>2, LdrAssumptions, LdrP!CallsQuiet
      <4> QED BY <4>3 DEF LdrP!Quiet, slotVars
    <3>2. CASE ReaderReturns \/ ReaderRead \/ ReaderReadFails \/ (ReaderDone /\ ~reader.result)
      BY <3>2 DEF ReaderReturns, ReaderRead, ReaderReadFails, ReaderDone, slotVars, handlerVars
    <3> QED BY <1>3, <3>1, <3>2 DEF ReaderStep
  <2> QED BY <2>1, <2>2, PendingKept, StagedContract
<1> QED BY <1>1, <1>2, <1>3

LEMMA NextContract ==
    ASSUME UpdateInv, UpdateInv', [Next]_vars
    PROVE  ContractNext
<1>1. CASE AppCommand \/ AppFinish \/ AppStep
  BY <1>1, AppContract
<1>2. CASE ReaderStep
  BY <1>2, ReaderContract
<1>3. CASE LoaderStep \/ LoaderCommand
  BY <1>3, LoaderContract
<1>4. CASE Reboot \/ RebootRequest \/ PowerLoss \/ ButtonEntry
  BY <1>4, RestartContract DEF Reboot, RebootRequest, PowerLoss, ButtonEntry
<1>5. CASE UNCHANGED vars
  <2>1. UNCHANGED <<staged, stagedPkg, slot, slotPkg, source>> /\ faults' = faults
    BY <1>5 DEF vars, handlerVars
  <2>2. faults' \in {faults, faults + 1}
    BY <2>1
  <2> QED BY <2>1, <2>2, PendingKept, StagedContract
<1> QED BY <1>1, <1>2, <1>3, <1>4, <1>5 DEF Next

LEMMA InitContract == ASSUME Init PROVE Contract!Init
<1>1. UpdateInv
  BY InitInv
<1>2. slotPkg \in Seq(Byte) \ {<<>>}
  BY FactoryAssumption DEF Init
<1>3. SlotValid /\ source = <<>>
  BY <1>1 DEF Init, UpdateInv, ImageInv
<1>4. faults = 0 /\ stagedPkg = <<>>
  BY AppSteps DEF Init, AppP!UploadInit, AppP!WriterInit
<1>5. /\ (IF App!HeaderValid(staged) /\ staged[3] # Erased THEN stagedPkg ELSE <<>>) = <<>>
      /\ (faults > 0) = FALSE /\ SlotValid = TRUE /\ (source = <<>>) = TRUE
  BY <1>3, <1>4
<1> QED BY <1>2, <1>5 DEF Contract!Init

\* Seen from outside, the update does what UpdateContract promises: a package
\* is staged whole or not at all, the slot is rewritten with the pending
\* package or by a recovery upload and nothing else, and the package is not
\* given up while the device has no image to start, unless the flash failed.
THEOREM UpdateImplementsContract == Spec => ImplementsContract
<1>1. Init => Contract!Init
  BY InitContract
<1>2. UpdateInv /\ UpdateInv' /\ [Next]_vars => [Contract!Next]_(Contract!vars)
  BY NextContract DEF ContractNext
<1> QED BY <1>1, <1>2, UpdateCorrect, PTL DEF Spec, ImplementsContract, Contract!Spec
=============================================================================
