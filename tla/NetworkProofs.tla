---------------------------- MODULE NetworkProofs ----------------------------
(***************************************************************************)
(* What holds of the network components for any number of destinations,    *)
(* ports, sockets, addresses, indicators and clients, whatever the network *)
(* and the settings do.                                                    *)
(***************************************************************************)
EXTENDS Network, FiniteSetTheorems, SequenceTheorems, WellFoundedInduction, TLAPS

-----------------------------------------------------------------------------
(* The inductive invariant.  A part belongs to each component; what they   *)
(* share is the bus.                                                       *)

\* A sequence of anything.
IsSeq(q) == q \in Seq({q[i] : i \in DOMAIN q})

BusInv ==
    /\ IsSeq(bus)
    /\ \A i \in DOMAIN bus : bus[i].kind = "traffic" => bus[i].type # "NetworkUp"

\* OSC: the destinations and the thread that sends to them.  A retry time other than 0 has a reason.
DestinationForm(d) == [host |-> d.host, port |-> d.port, retryAt |-> d.retryAt]
SenderInv ==
    /\ IsFiniteSet(Slots) /\ \A s \in Slots : destinations[s] = DestinationForm(destinations[s])
    /\ uptime \in 0 .. TimeModulus - 1
    /\ sender = [at |-> sender.at, slot |-> sender.slot, packet |-> sender.packet, endpoint |-> sender.endpoint,
                 started |-> sender.started, socket |-> sender.socket]
    /\ sender.at = "wait" /\ ~wake => queue = <<>>
    /\ \A s \in Slots : Configured(s) /\ destinations[s].retryAt # 0 => s \in refused \cup crossed

\* OSC: the thread that listens.  What it does next is up to date, unless the port was written late.
SettingsForm(d) == [listen |-> d.listen, restrict |-> d.restrict, destinations |-> d.destinations]
ListenerInv ==
    /\ oscSettings = SettingsForm(oscSettings) /\ IsFiniteSet(DOMAIN oscSettings.destinations)
    /\ reader = [at |-> reader.at, socket |-> reader.socket, port |-> reader.port]
    /\ reader.at \in {"check", "open", "call", "receive", "failed"}
    /\ Open \subseteq 1 .. SocketCount
    /\ ~oscOn => reader.at = "check" /\ listening = 0 /\ ~late
    /\ listening # 0 => listening \in Open /\ (~late => sockets[listening] = oscSettings.listen)
    /\ reader.at \in {"call", "receive"} => reader.socket # 0
    /\ reader.at = "open" => listening = 0 /\ (~late => reader.port = oscSettings.listen)
    /\ reader.at \in {"call", "receive"} /\ ~late => listening # 0 /\ reader.socket = listening

\* mDNS: the name, and the last identity that was published or received.
LabelCharacters == Digits \cup Small \cup {Dash}
IsLabel(name) ==
    /\ name \in Seq(LabelCharacters) /\ name # <<>>
    /\ name[1] # Dash /\ name[Len(name)] # Dash
Text == Seq(0 .. 255)
LastIdentity(i) == bus[i].kind = "identity" /\ \A j \in DOMAIN bus : i < j => bus[j].kind # "identity"
NameInv ==
    /\ serial \in SerialNumbers /\ hostname \in Text
    /\ customName.characters \in Text /\ customName = [loaded |-> customName.loaded, characters |-> customName.characters]
    /\ networkName # <<>> => IsLabel(networkName)
    /\ networkUp = (identity.address # 0)
IdentityInv ==
    /\ networkName = <<>> => ~addressEvent /\ ~identityWork /\ ~Signalled("identity")
    /\ \A i \in DOMAIN bus : bus[i].kind = "identity" => bus[i].name = networkName
    /\ networkName # <<>> /\ ~addressEvent /\ ~identityWork =>
          /\ \A i \in DOMAIN bus : LastIdentity(i) => bus[i].address = address
          /\ ~Signalled("identity") => identity = [received |-> TRUE, name |-> networkName, address |-> address]

\* The indicators.
LightsInv ==
    /\ flashing \in Nat /\ invert \in BOOLEAN /\ networkUp \in BOOLEAN
    /\ flashing > 0 => bus # <<>> /\ bus[1].kind = "init"
    /\ "NetworkUp" \notin idleWork
    /\ ("NetworkUp" \in lit) = networkUp
    /\ flashing = 0 => \A type \in Indicated \ (idleWork \cup cleared) : (type \in lit) = invert

\* What the indicators know of the configuration session.
SessionKinds == {"opened", "closed"}
LastSession(i) == bus[i].kind \in SessionKinds /\ \A j \in DOMAIN bus : i < j => bus[j].kind \notin SessionKinds
SessionInv ==
    /\ config.on \in BOOLEAN
    /\ \A i \in DOMAIN bus : LastSession(i) => config.on = (bus[i].kind = "opened")
    /\ (\A i \in DOMAIN bus : bus[i].kind \notin SessionKinds) => invert = config.on

\* WebSockets: the client that is active, and the one that is accepted.
Active == client.socket # 0
Current(id) == Active /\ client.generation = id
Client == [socket : ClientSockets \cup {0}, generation : Nat]
ClientInv ==
    /\ peers \in [ClientSockets -> Clients \cup {0}]
    /\ client \in Client
    /\ Active => peers[client.socket] # 0
    /\ accepting \in [at : {"idle", "replace", "notify", "adopt"}, socket : ClientSockets \cup {0}, old : Client]
    /\ accepting.at # "idle" =>
          accepting.socket # 0 /\ peers[accepting.socket] # 0 /\ client.socket # accepting.socket
    /\ accepting.at = "replace" /\ Active => client = accepting.old
    /\ accepting.at = "replace" => accepting.old.socket # 0
    /\ accepting.at \in {"notify", "adopt"} => ~Active
    /\ accepting.at = "notify" => client.generation = accepting.old.generation + 1

\* The client thread: the client it knows is the active one or an earlier one.
ThreadInv ==
    /\ clientLoop = [at |-> clientLoop.at, socket |-> clientLoop.socket, generation |-> clientLoop.generation,
                     frame |-> clientLoop.frame]
    /\ clientLoop.socket \in ClientSockets \cup {0} /\ clientLoop.generation \in Nat
    /\ clientLoop.generation <= client.generation
    /\ clientLoop.at # "wait" => clientLoop.socket # 0
    /\ ~Active /\ clientLoop.at # "wait" => clientLoop.generation < client.generation
    /\ ~Active /\ session.active => clientLoop.generation < client.generation
    /\ clientLoop.at = "notify" => clientLoop.generation < client.generation
    /\ clientLoop.at # "wait" /\ Current(clientLoop.generation) => clientLoop.socket = client.socket
    /\ clientLoop.at = "handle" /\ Current(clientLoop.generation) => clientLoop.frame.asker = peers[client.socket]

\* The send thread: what is queued is for the client that is active.
SendingInv ==
    /\ txLoop = [at |-> txLoop.at, frame |-> txLoop.frame]
    /\ IsSeq(txQueue)
    /\ ~Active => txQueue = <<>>
    /\ \A i \in DOMAIN txQueue : txQueue[i].asker = peers[client.socket]
    /\ txLoop.at = "send" => Active /\ txLoop.frame.asker = peers[client.socket]
    /\ delivered = {}

\* The session of the handler, which is that of the active client when this has asked for something.
Established(id) == session.active /\ session.id = id
RequestInv ==
    /\ session = [active |-> session.active, id |-> session.id] /\ config = [on |-> config.on, session |-> config.session]
    /\ session.id \in Nat /\ session.active \in BOOLEAN
    /\ session.active => session.id <= clientLoop.generation
    /\ config.on => config.session \in Nat /\ config.session <= clientLoop.generation
    /\ config.on /\ Current(config.session) => Established(config.session)
    /\ \A i \in DOMAIN bus : bus[i].kind \in {"request", "response"} =>
          /\ bus[i].session \in Nat /\ bus[i].session <= clientLoop.generation
          /\ Current(bus[i].session) => Established(bus[i].session) /\ bus[i].asker = peers[client.socket]

\* The end of a session has been announced to the client's handler, and will be to System.
Closing(id) ==
    /\ Established(id)
    /\ \/ accepting.at = "notify" /\ accepting.old.generation = id
       \/ clientLoop.at = "notify" /\ clientLoop.generation = id
\* What becomes of a session of which System learns by the signal at n.
Followed(id, n) ==
    \/ Current(id) \/ id \in overtaken \/ Closing(id)
    \/ \E i \in DOMAIN bus : n < i /\ bus[i].kind = "disconnect" /\ bus[i].session = id
EndInv ==
    /\ config.on => Followed(config.session, 0)
    /\ \A i \in DOMAIN bus : bus[i].kind = "request" => Followed(bus[i].session, i)

\* Answers: the packets of one follow each other, and so many have been gathered as have been taken from the bus.
IsPart(m) == m.kind = "response"
Continues(l, m) == IsPart(l) /\ m = [l EXCEPT !.part = @ + 1]
PartsInv ==
    \A i \in DOMAIN bus : IsPart(bus[i]) =>
        /\ bus[i] = [kind |-> "response", session |-> bus[i].session, asker |-> bus[i].asker, part |-> bus[i].part]
        /\ bus[i].part \in 1 .. Fragments
        /\ bus[i].part < Fragments => i + 1 \in DOMAIN bus /\ Continues(bus[i], bus[i + 1])
        /\ bus[i].part > 1 /\ i > 1 => Continues(bus[i - 1], bus[i])
Gathered(m) == [k \in 1 .. m.part - 1 |-> m.asker]
HeadIsCurrent == bus # <<>> /\ IsPart(bus[1]) /\ Current(bus[1].session)
AnswerInv ==
    /\ HeadIsCurrent => answer = Gathered(bus[1])
    /\ answer # <<>> => HeadIsCurrent \/ Closing(session.id)

\* The device's own components, and the clients.
OscInv == SenderInv /\ ListenerInv
DeviceInv == BusInv /\ OscInv /\ NameInv /\ IdentityInv /\ LightsInv /\ SessionInv
WebInv == ClientInv /\ ThreadInv /\ SendingInv /\ RequestInv /\ EndInv /\ PartsInv /\ AnswerInv

-----------------------------------------------------------------------------
(* The bus.                                                                *)

LEMMA SeqFacts ==
    ASSUME NEW q, IsSeq(q)
    PROVE  /\ Len(q) \in Nat /\ DOMAIN q = 1 .. Len(q)
           /\ q # <<>> <=> Len(q) > 0
           /\ q # <<>> => Head(q) = q[1]
<1> DEFINE S == {q[i] : i \in DOMAIN q}
<1>1. q \in Seq(S)
  BY DEF IsSeq
<1> HIDE DEF S
<1>2. Len(q) \in Nat /\ DOMAIN q = 1 .. Len(q)
  BY <1>1, LenProperties
<1>3. q # <<>> <=> Len(q) > 0
  BY <1>1, <1>2, EmptySeq
<1>4. q # <<>> => Head(q) = q[1]
  BY <1>1, <1>2
<1> QED BY <1>2, <1>3, <1>4

LEMMA IsASeqOfAnything ==
    ASSUME NEW S, NEW q \in Seq(S)
    PROVE  IsSeq(q)
<1>1. Len(q) \in Nat /\ q \in [1 .. Len(q) -> S] /\ DOMAIN q = 1 .. Len(q)
  BY LenProperties
<1>2. q \in [1 .. Len(q) -> {q[i] : i \in DOMAIN q}]
  BY <1>1
<1> QED BY <1>1, <1>2 DEF IsSeq

LEMMA FunctionIsSeq == \A n \in Nat : \A S : \A f \in [1 .. n -> S] : f \in Seq(S)
OBVIOUS

\* How the bus changes: d signals are taken, those of r are added.
Shift(q, d, r) == IF d = 1 THEN Tail(q) \o r ELSE q \o r

LEMMA ShiftFacts ==
    ASSUME NEW q, NEW r, NEW d \in {0, 1}, IsSeq(q), IsSeq(r), d = 1 => q # <<>>
    PROVE  /\ IsSeq(Shift(q, d, r)) /\ Len(Shift(q, d, r)) = Len(q) - d + Len(r)
           /\ \A i \in 1 .. Len(q) - d : Shift(q, d, r)[i] = q[i + d]
           /\ \A j \in DOMAIN Shift(q, d, r) : j > Len(q) - d => Shift(q, d, r)[j] = r[j - (Len(q) - d)]
<1> DEFINE S == {q[i] : i \in DOMAIN q} \cup {r[i] : i \in DOMAIN r}
           t == IF d = 1 THEN Tail(q) ELSE q
           p == Shift(q, d, r)
<1>1. q \in Seq(S) /\ r \in Seq(S)
  BY SeqMonotonic DEF IsSeq
<1> HIDE DEF S
<1>2. Len(q) \in Nat /\ Len(r) \in Nat /\ (q # <<>> <=> Len(q) > 0)
  BY SeqFacts
<1>3. t \in Seq(S) /\ Len(t) = Len(q) - d /\ Len(q) - d \in Nat /\ \A i \in 1 .. Len(q) - d : t[i] = q[i + d]
  BY <1>1, <1>2, HeadTailProperties
<1>4. p = t \o r
  BY DEF Shift
<1> HIDE DEF t, p
<1> DEFINE m == Len(q) - d
<1> HIDE DEF m
<1>5. m \in Nat /\ Len(t) = m /\ \A i \in 1 .. m : t[i] = q[i + d]
  BY <1>3 DEF m
<1>6. /\ p \in Seq(S) /\ Len(p) = Len(t) + Len(r)
      /\ \A i \in 1 .. Len(t) + Len(r) : p[i] = IF i <= Len(t) THEN t[i] ELSE r[i - Len(t)]
  <2>1. t \in Seq(S) /\ r \in Seq(S)
    BY <1>1, <1>3
  <2>2. /\ t \o r \in Seq(S) /\ Len(t \o r) = Len(t) + Len(r)
        /\ \A i \in 1 .. Len(t) + Len(r) : (t \o r)[i] = IF i <= Len(t) THEN t[i] ELSE r[i - Len(t)]
    BY ONLY <2>1, ConcatProperties
  <2> QED BY ONLY <2>2, <1>4
<1>7. \A i \in 1 .. m : p[i] = q[i + d]
  BY <1>2, <1>5, <1>6
<1>8. IsSeq(p) /\ Len(p) = m + Len(r) /\ DOMAIN p = 1 .. Len(p)
  BY <1>5, <1>6, IsASeqOfAnything, SeqFacts
<1>9. \A j \in DOMAIN p : j > m => p[j] = r[j - m]
  BY <1>2, <1>5, <1>6, <1>8
<1> QED BY <1>7, <1>8, <1>9 DEF m, p

\* Sequences that are written out, and functions on an initial segment.
LEMMA SmallSeqs ==
    /\ IsSeq(<<>>) /\ Len(<<>>) = 0
    /\ \A a : IsSeq(<<a>>) /\ Len(<<a>>) = 1 /\ <<a>>[1] = a
    /\ \A a, b : IsSeq(<<a, b>>) /\ Len(<<a, b>>) = 2 /\ <<a, b>>[1] = a /\ <<a, b>>[2] = b
    /\ \A a, b, c : /\ IsSeq(<<a, b, c>>) /\ Len(<<a, b, c>>) = 3
                    /\ <<a, b, c>>[1] = a /\ <<a, b, c>>[2] = b /\ <<a, b, c>>[3] = c
<1>1. IsSeq(<<>>)
  BY EmptySeq DEF IsSeq
<1>2. \A a : <<a>> \in Seq({a})
  OBVIOUS
<1>3. \A a, b : <<a, b>> \in Seq({a, b})
  OBVIOUS
<1>4. \A a, b, c : <<a, b, c>> \in Seq({a, b, c})
  OBVIOUS
<1> QED BY <1>1, <1>2, <1>3, <1>4, IsASeqOfAnything

LEMMA SegmentIsSeq ==
    ASSUME NEW n \in Nat, NEW q, q = [i \in 1 .. n |-> q[i]]
    PROVE  IsSeq(q) /\ Len(q) = n
<1>1. q \in [1 .. n -> {q[i] : i \in DOMAIN q}]
  OBVIOUS
<1>2. q \in Seq({q[i] : i \in DOMAIN q})
  BY <1>1
<1>3. Len(q) \in Nat /\ DOMAIN q = 1 .. Len(q) /\ DOMAIN q = 1 .. n
  BY <1>1, <1>2, LenProperties
<1> QED BY <1>2, <1>3 DEF IsSeq

LEMMA AppendingIsConcat ==
    ASSUME NEW q, IsSeq(q), NEW e
    PROVE  Append(q, e) = q \o <<e>>
<1> DEFINE S == {q[i] : i \in DOMAIN q} \cup {e}
<1>1. q \in Seq(S) /\ e \in S
  BY SeqMonotonic DEF IsSeq
<1> HIDE DEF S
<1> QED BY <1>1, AppendProperties, ConcatProperties, SeqEqual

LEMMA ConcatNothing == ASSUME NEW q, IsSeq(q) PROVE q \o <<>> = q
BY ConcatEmptySeq DEF IsSeq

LEMMA ConcatIsSeq ==
    ASSUME NEW q, NEW r, IsSeq(q), IsSeq(r)
    PROVE  /\ IsSeq(q \o r) /\ Len(q \o r) = Len(q) + Len(r)
           /\ \A i \in 1 .. Len(q) + Len(r) : (q \o r)[i] = IF i <= Len(q) THEN q[i] ELSE r[i - Len(q)]
<1> DEFINE S == {q[i] : i \in DOMAIN q} \cup {r[i] : i \in DOMAIN r}
<1>1. q \in Seq(S) /\ r \in Seq(S)
  BY SeqMonotonic DEF IsSeq
<1> HIDE DEF S
<1> QED BY <1>1, ConcatProperties, IsASeqOfAnything

LEMMA ConcatJoins ==
    ASSUME NEW q, NEW r, NEW s, IsSeq(q), IsSeq(r), IsSeq(s)
    PROVE  (q \o r) \o s = q \o (r \o s)
<1> DEFINE S == {q[i] : i \in DOMAIN q} \cup {r[i] : i \in DOMAIN r} \cup {s[i] : i \in DOMAIN s}
<1>1. q \in Seq(S) /\ r \in Seq(S) /\ s \in Seq(S)
  BY SeqMonotonic DEF IsSeq
<1> HIDE DEF S
<1> QED BY <1>1, ConcatAssociative

BusStep(d, r) ==
    /\ d \in {0, 1} /\ IsSeq(r) /\ (d = 1 => bus # <<>>)
    /\ bus' = Shift(bus, d, r)

LEMMA BusFacts ==
    ASSUME BusInv, NEW d, NEW r, BusStep(d, r)
    PROVE  /\ IsSeq(bus') /\ Len(bus) \in Nat /\ Len(r) \in Nat /\ d <= Len(bus)
           /\ DOMAIN bus = 1 .. Len(bus) /\ DOMAIN r = 1 .. Len(r)
           /\ DOMAIN bus' = 1 .. Len(bus) - d + Len(r)
           /\ \A j \in DOMAIN bus' :
                 \/ j + d \in DOMAIN bus /\ bus'[j] = bus[j + d]
                 \/ /\ j > Len(bus) - d /\ j - (Len(bus) - d) \in DOMAIN r
                    /\ bus'[j] = r[j - (Len(bus) - d)]
           /\ \A i \in DOMAIN bus : i > d => i - d \in DOMAIN bus' /\ bus'[i - d] = bus[i]
           /\ \A i \in DOMAIN r : Len(bus) - d + i \in DOMAIN bus' /\ bus'[Len(bus) - d + i] = r[i]
<1>1. IsSeq(bus) /\ IsSeq(r) /\ d \in {0, 1}
  BY DEF BusInv, BusStep
<1>2. /\ Len(bus) \in Nat /\ Len(r) \in Nat /\ DOMAIN bus = 1 .. Len(bus) /\ DOMAIN r = 1 .. Len(r)
      /\ (bus # <<>> <=> Len(bus) > 0)
  BY <1>1, SeqFacts
<1>3. d <= Len(bus)
  BY <1>1, <1>2 DEF BusStep, Shift
<1> DEFINE m == Len(bus) - d
<1>4. /\ IsSeq(bus') /\ Len(bus') = m + Len(r)
      /\ \A i \in 1 .. m : bus'[i] = bus[i + d]
      /\ \A j \in DOMAIN bus' : j > m => bus'[j] = r[j - m]
  BY <1>1, ShiftFacts DEF BusStep
<1>5. DOMAIN bus' = 1 .. m + Len(r)
  BY <1>4, SeqFacts
<1>6. m \in Nat /\ Len(bus) = m + d
  BY <1>1, <1>2, <1>3
<1> HIDE DEF m
<1>7. \A j \in DOMAIN bus' : \/ j + d \in DOMAIN bus /\ bus'[j] = bus[j + d]
                             \/ j > m /\ j - m \in DOMAIN r /\ bus'[j] = r[j - m]
  <2> TAKE j \in DOMAIN bus'
  <2>1. CASE j <= m
    <3>1. j \in 1 .. m /\ j + d \in 1 .. Len(bus)
      BY <2>1, <1>1, <1>2, <1>5, <1>6
    <3> QED BY <3>1, <1>2, <1>4
  <2>2. CASE j > m
    <3>1. j - m \in 1 .. Len(r)
      BY <2>2, <1>2, <1>5, <1>6
    <3> QED BY <2>2, <3>1, <1>2, <1>4
  <2> QED BY <2>1, <2>2, <1>2, <1>5, <1>6
<1>8. \A i \in DOMAIN bus : i > d => i - d \in DOMAIN bus' /\ bus'[i - d] = bus[i]
  <2> SUFFICES ASSUME NEW i \in DOMAIN bus, i > d PROVE i - d \in DOMAIN bus' /\ bus'[i - d] = bus[i]
    OBVIOUS
  <2>1. i - d \in 1 .. m /\ (i - d) + d = i
    BY <1>1, <1>2, <1>6
  <2> QED BY <2>1, <1>2, <1>4, <1>5, <1>6
<1>9. \A i \in DOMAIN r : m + i \in DOMAIN bus' /\ bus'[m + i] = r[i]
  <2> TAKE i \in DOMAIN r
  <2>1. m + i \in DOMAIN bus' /\ m + i > m /\ (m + i) - m = i
    BY <1>2, <1>5, <1>6
  <2> QED BY <2>1, <1>4
<1> QED BY <1>2, <1>3, <1>4, <1>5, <1>6, <1>7, <1>8, <1>9 DEF m

\* The signals that are added are of these kinds.
Adds(d, kinds) ==
    \E r : /\ BusStep(d, r)
           /\ \A i \in DOMAIN r : r[i].kind \in kinds /\ (r[i].kind = "traffic" => r[i].type # "NetworkUp")

LEMMA BusKept ==
    ASSUME BusInv, NEW d, NEW kinds, Adds(d, kinds)
    PROVE  BusInv'
<1>1. PICK r : /\ BusStep(d, r)
               /\ \A i \in DOMAIN r : r[i].kind \in kinds /\ (r[i].kind = "traffic" => r[i].type # "NetworkUp")
  BY DEF Adds
<1> QED BY <1>1, BusFacts DEF BusInv

Disjoint(k, l) == k \cap l = {}

\* Signals of other kinds than those that are added stay, one place nearer to their turn when one is taken.
LEMMA SignalsShifted ==
    ASSUME BusInv, NEW d, NEW kinds, NEW K, Adds(d, kinds), Disjoint(kinds, K)
    PROVE  /\ d \in {0, 1} /\ DOMAIN bus \subseteq Nat /\ DOMAIN bus' \subseteq Nat
           /\ \A j \in DOMAIN bus' : bus'[j].kind \in K => j + d \in DOMAIN bus /\ bus'[j] = bus[j + d]
           /\ \A i \in DOMAIN bus : i > d => i - d \in DOMAIN bus' /\ bus'[i - d] = bus[i]
           /\ \A i \in DOMAIN bus : i >= 1
<1>1. PICK r : BusStep(d, r) /\ \A i \in DOMAIN r : r[i].kind \in kinds
  BY DEF Adds
<1>2. d \in {0, 1} /\ d <= Len(bus)
  BY <1>1, BusFacts DEF BusStep
<1>3. DOMAIN bus \subseteq Nat /\ DOMAIN bus' \subseteq Nat /\ \A i \in DOMAIN bus : i >= 1
  <2>1. Len(bus) \in Nat /\ Len(r) \in Nat /\ DOMAIN bus = 1 .. Len(bus) /\ DOMAIN bus' = 1 .. Len(bus) - d + Len(r)
    BY <1>1, BusFacts
  <2> QED BY <2>1, <1>2
<1>4. \A j \in DOMAIN bus' : bus'[j].kind \in K => j + d \in DOMAIN bus /\ bus'[j] = bus[j + d]
  BY <1>1, BusFacts DEF Disjoint
<1>5. \A i \in DOMAIN bus : i > d => i - d \in DOMAIN bus' /\ bus'[i - d] = bus[i]
  BY <1>1, BusFacts
<1> QED BY <1>2, <1>3, <1>4, <1>5

LEMMA SignalsKept ==
    ASSUME BusInv, NEW d, NEW kinds, NEW K, Adds(d, kinds), Disjoint(kinds, K), d = 1 => bus[1].kind \notin K
    PROVE  /\ d \in {0, 1} /\ DOMAIN bus \subseteq Nat /\ DOMAIN bus' \subseteq Nat
           /\ \A j \in DOMAIN bus' : bus'[j].kind \in K => j + d \in DOMAIN bus /\ bus'[j] = bus[j + d]
           /\ \A i \in DOMAIN bus : bus[i].kind \in K => i - d \in DOMAIN bus' /\ bus'[i - d] = bus[i]
<1>1. /\ d \in {0, 1} /\ DOMAIN bus \subseteq Nat /\ DOMAIN bus' \subseteq Nat
      /\ \A j \in DOMAIN bus' : bus'[j].kind \in K => j + d \in DOMAIN bus /\ bus'[j] = bus[j + d]
      /\ \A i \in DOMAIN bus : i > d => i - d \in DOMAIN bus' /\ bus'[i - d] = bus[i]
      /\ \A i \in DOMAIN bus : i >= 1
  BY SignalsShifted
<1>2. \A i \in DOMAIN bus : bus[i].kind \in K => i > d
  BY <1>1
<1> QED BY <1>1, <1>2

\* Nothing happens on the bus.
LEMMA BusUnchanged == ASSUME BusInv, UNCHANGED bus PROVE Adds(0, {})
<1>1. IsSeq(<<>>) /\ DOMAIN <<>> = {}
  BY SmallSeqs
<1>2. bus' = bus \o <<>>
  BY ConcatNothing DEF BusInv
<1>3. BusStep(0, <<>>)
  BY <1>1, <1>2 DEF BusStep, Shift
<1> QED BY <1>1, <1>3 DEF Adds

LEMMA AddsMore ==
    ASSUME NEW d, NEW k, NEW l, Adds(d, k), k \subseteq l
    PROVE  Adds(d, l)
BY DEF Adds

\* One signal.
LEMMA AddsOne ==
    ASSUME BusInv, NEW m, bus' = Append(bus, m), m.kind = "traffic" => m.type # "NetworkUp"
    PROVE  BusStep(0, <<m>>) /\ Adds(0, {m.kind})
<1>1. IsSeq(<<m>>) /\ DOMAIN <<m>> = {1} /\ <<m>>[1] = m
  <2>1. IsSeq(<<m>>) /\ Len(<<m>>) = 1 /\ <<m>>[1] = m
    BY SmallSeqs
  <2> QED BY <2>1, SeqFacts
<1>2. bus' = bus \o <<m>>
  BY AppendingIsConcat DEF BusInv
<1>3. BusStep(0, <<m>>)
  BY <1>1, <1>2 DEF BusStep, Shift
<1> QED BY <1>1, <1>3 DEF Adds

LEMMA TakesOne ==
    ASSUME BusInv, bus # <<>>, bus' = Tail(bus)
    PROVE  BusStep(1, <<>>) /\ Adds(1, {})
<1>1. IsSeq(<<>>) /\ DOMAIN <<>> = {}
  BY SmallSeqs
<1>2. IsSeq(Tail(bus))
  <2>1. bus \in Seq({bus[i] : i \in DOMAIN bus})
    BY DEF BusInv, IsSeq
  <2>2. Tail(bus) \in Seq({bus[i] : i \in DOMAIN bus})
    BY <2>1, HeadTailProperties
  <2> QED BY <2>2, IsASeqOfAnything
<1>3. bus' = Tail(bus) \o <<>>
  BY <1>2, ConcatNothing
<1>4. BusStep(1, <<>>)
  BY <1>1, <1>3 DEF BusStep, Shift
<1> QED BY <1>1, <1>4 DEF Adds

-----------------------------------------------------------------------------
(* The name.                                                               *)

LEMMA Characters ==
    /\ Digits \subseteq LabelCharacters /\ Small \subseteq LabelCharacters /\ Dash \in LabelCharacters
    /\ \A c \in 0 .. 255 : SafeCharacter(c) \in LabelCharacters
    /\ \A c \in Digits \cup Small \cup Capitals : Lower(c) \in LabelCharacters \ {Dash}
    /\ Lower(Dash) = Dash
BY DEF LabelCharacters, Digits, Small, Capitals, Dash, SafeCharacter, Lower

LEMMA HexFacts ==
    ASSUME NEW b \in Text, b # <<>>
    PROVE  Hex(b) \in Seq(LabelCharacters \ {Dash}) /\ Hex(b) # <<>>
<1> DEFINE n == Len(b)
           Digit(k) == IF k < 10 THEN 48 + k ELSE 87 + k
           byte(i) == b[(i + 1) \div 2]
           nibble(i) == IF i % 2 = 1 THEN byte(i) \div 16 ELSE byte(i) % 16
<1>1. n \in Nat \ {0} /\ \A i \in 1 .. n : b[i] \in 0 .. 255
  BY EmptySeq, ElementOfSeq DEF Text
<1> HIDE DEF n
<1>2. \A i \in 1 .. 2 * n : (i + 1) \div 2 \in 1 .. n
  BY <1>1
<1>3. \A i \in 1 .. 2 * n : byte(i) \in 0 .. 255
  BY <1>1, <1>2
<1> HIDE DEF byte
<1>4. \A k \in 0 .. 255 : k \div 16 \in 0 .. 15 /\ k % 16 \in 0 .. 15
  OBVIOUS
<1>5. \A i \in 1 .. 2 * n : nibble(i) \in 0 .. 15
  BY <1>3, <1>4
<1> HIDE DEF nibble
<1>6. \A k \in 0 .. 15 : Digit(k) \in LabelCharacters \ {Dash}
  BY DEF LabelCharacters, Digits, Small, Dash
<1>7. \A i \in 1 .. 2 * n : Digit(nibble(i)) \in LabelCharacters \ {Dash}
  BY <1>5, <1>6
<1> HIDE DEF Digit
<1>8. Hex(b) = [i \in 1 .. 2 * n |-> Digit(nibble(i))]
  BY DEF Hex, n, Digit, nibble, byte
<1>9. Hex(b) \in [1 .. 2 * n -> LabelCharacters \ {Dash}] /\ 2 * n \in Nat /\ 1 \in 1 .. 2 * n
  BY <1>1, <1>7, <1>8
<1>10. Hex(b) \in Seq(LabelCharacters \ {Dash})
  BY <1>9
<1>11. 1 \in DOMAIN Hex(b)
  BY <1>9
<1> QED BY <1>10, <1>11

LEMMA SerialFacts ==
    ASSUME serial \in SerialNumbers
    PROVE  Serial \in Seq(LabelCharacters \ {Dash}) /\ Serial # <<>>
<1> DEFINE first == IF Len(serial) > SuffixBytes THEN Len(serial) - SuffixBytes + 1 ELSE 1
           b == IF serial = <<>> THEN TargetUid ELSE SubSeq(serial, first, Len(serial))
<1>1. /\ serial \in Text /\ TargetUid \in Text /\ TargetUid # <<>>
      /\ SuffixBytes \in Nat \ {0}
  BY MdnsAssumption DEF Text
<1>2. ASSUME serial # <<>> PROVE SubSeq(serial, first, Len(serial)) \in Text \ {<<>>}
  <2>1. Len(serial) \in Nat \ {0} /\ \A i \in 1 .. Len(serial) : serial[i] \in 0 .. 255
    BY <1>1, <1>2, EmptySeq, ElementOfSeq DEF Text
  <2>2. first \in 1 .. Len(serial)
    BY <1>1, <2>1
  <2> HIDE DEF first
  <2>3. /\ SubSeq(serial, first, Len(serial)) \in Seq(0 .. 255)
        /\ Len(SubSeq(serial, first, Len(serial))) = Len(serial) - first + 1
    BY <2>1, <2>2, SubSeqProperties
  <2>4. Len(SubSeq(serial, first, Len(serial))) # 0
    BY <2>1, <2>2, <2>3
  <2> QED BY <2>3, <2>4, EmptySeq DEF Text
<1>3. b \in Text /\ b # <<>>
  BY <1>1, <1>2
<1>4. Serial = Hex(b)
  BY DEF Serial
<1> QED BY <1>3, <1>4, HexFacts

\* A nonempty set of naturals has a least element.
LEMMA LeastNatural ==
    ASSUME NEW T, T \subseteq Nat, T # {}
    PROVE  \E x \in T : \A y \in T : x <= y
<1> DEFINE R == {ss \in Nat \X Nat : ss[1] < ss[2]}
<1>1. OpToRel(<, Nat) = R
  BY Zenon DEF OpToRel
<1>2. IsWellFoundedOn(R, Nat)
  BY <1>1, NatLessThanWellFounded, Zenon
<1> HIDE DEF R
<1>3. PICK x \in T : \A y \in T : ~ (<<y, x>> \in R)
  BY <1>2, WFMin
<1>4. \A y, z \in Nat : y < z => <<y, z>> \in R
  BY DEF R
<1>5. ASSUME NEW y \in T PROVE x <= y
  <2>1. x \in Nat /\ y \in Nat
    OBVIOUS
  <2>2. ~(y < x)
    BY <2>1, <1>3, <1>4
  <2> QED BY <2>1, <2>2
<1> QED BY <1>5

LEMMA ConcatKeepsFirst ==
    ASSUME NEW S, NEW s \in Seq(S), NEW t \in Seq(S), Len(s) # 0
    PROVE  s \o t \in Seq(S) /\ Len(s \o t) = Len(s) + Len(t) /\ Len(s \o t) \in Nat \ {0} /\ (s \o t)[1] = s[1]
<1>1. Len(s) \in Nat \ {0} /\ Len(t) \in Nat
  BY LenProperties
<1>2. 1 \in 1 .. Len(s) + Len(t) /\ 1 <= Len(s)
  BY <1>1
<1> QED BY <1>1, <1>2, ConcatProperties

LEMMA DefaultIsLabel ==
    ASSUME serial \in SerialNumbers
    PROVE  IsLabel(DefaultHostname)
<1> DEFINE L == LabelCharacters
           t == [i \in DOMAIN Target |-> SafeCharacter(Target[i])]
           a == Prefix \o <<Dash>>
           e == a \o t
           f == e \o <<Dash>>
           g == f \o Serial
<1>1. Prefix \in Seq(L) /\ Len(Prefix) \in Nat \ {0} /\ Prefix[1] # Dash
  <2>1. Prefix \in Seq(L) /\ Prefix # <<>> /\ Head(Prefix) # Dash
    BY MdnsAssumption DEF LabelCharacters
  <2> QED BY <2>1, EmptySeq
<1>2. <<Dash>> \in Seq(L) /\ Len(<<Dash>>) = 1
  BY Characters
<1>3. t \in Seq(L) /\ Len(t) \in Nat
  <2>1. Target \in Seq(0 .. 255)
    BY MdnsAssumption
  <2>2. Len(Target) \in Nat /\ DOMAIN Target = 1 .. Len(Target) /\ \A i \in 1 .. Len(Target) : Target[i] \in 0 .. 255
    BY <2>1, LenProperties, ElementOfSeq
  <2>3. t \in [1 .. Len(Target) -> L]
    BY <2>2, Characters
  <2>4. t \in Seq(L)
    BY <2>2, <2>3
  <2> QED BY <2>4, LenProperties
<1> HIDE DEF t
<1>4. /\ Serial \in Seq(L) /\ Len(Serial) \in Nat \ {0}
      /\ Serial[Len(Serial)] # Dash
  <2>1. Serial \in Seq(L \ {Dash}) /\ Serial # <<>>
    BY SerialFacts
  <2>2. Len(Serial) \in Nat \ {0}
    BY <2>1, EmptySeq
  <2>3. Serial[Len(Serial)] \in L \ {Dash}
    BY <2>1, <2>2, ElementOfSeq
  <2> QED BY <2>1, <2>2, <2>3, SeqMonotonic
<1> HIDE DEF L
<1>5. a \in Seq(L) /\ Len(a) = Len(Prefix) + 1 /\ Len(a) \in Nat \ {0} /\ a[1] = Prefix[1]
  BY <1>1, <1>2, ConcatKeepsFirst
<1> HIDE DEF a
<1>6. e \in Seq(L) /\ Len(e) \in Nat \ {0} /\ e[1] = a[1]
  BY <1>3, <1>5, ConcatKeepsFirst
<1> HIDE DEF e
<1>7. f \in Seq(L) /\ Len(f) \in Nat \ {0} /\ f[1] = e[1]
  BY <1>2, <1>6, ConcatKeepsFirst
<1> HIDE DEF f
<1>8. Len(f) \in Nat \ {0}
  BY <1>7
<1>9. g \in Seq(L) /\ Len(g) = Len(f) + Len(Serial) /\ g[1] = f[1] /\ g[Len(g)] = Serial[Len(Serial)]
  <2>1. /\ g \in Seq(L) /\ Len(g) = Len(f) + Len(Serial)
        /\ \A i \in 1 .. Len(f) + Len(Serial) : g[i] = IF i <= Len(f) THEN f[i] ELSE Serial[i - Len(f)]
    BY <1>4, <1>7, ConcatProperties
  <2>2. /\ 1 \in 1 .. Len(f) + Len(Serial) /\ 1 <= Len(f)
        /\ Len(g) \in 1 .. Len(f) + Len(Serial) /\ ~(Len(g) <= Len(f)) /\ Len(g) - Len(f) = Len(Serial)
    BY <1>4, <1>8, <2>1
  <2> QED BY <2>1, <2>2
<1>10. g = DefaultHostname
  BY DEF DefaultHostname, f, e, a, t
<1> HIDE DEF g
<1>11. g # <<>>
  BY <1>4, <1>8, <1>9, EmptySeq
<1> QED BY <1>1, <1>4, <1>5, <1>6, <1>7, <1>9, <1>10, <1>11 DEF IsLabel, L

LEMMA CustomIsLabel ==
    ASSUME serial \in SerialNumbers, NEW name \in Text
    PROVE  IsLabel(CustomHostname(name))
<1> DEFINE ends == {i \in DOMAIN name : name[i] = Nul}
           end == CHOOSE i \in ends : \A j \in ends : i <= j
           length == end - 1
           Good == Digits \cup Small \cup Capitals
           label == [i \in 1 .. length |-> Lower(name[i])]
<1>1. Len(name) \in Nat /\ DOMAIN name = 1 .. Len(name) /\ \A i \in 1 .. Len(name) : name[i] \in 0 .. 255
  BY LenProperties, ElementOfSeq DEF Text
<1>2. ends # {} => end \in 1 .. Len(name)
  <2>1. ends \subseteq Nat
    BY <1>1
  <2>2. ends # {} => \E i \in ends : \A j \in ends : i <= j
    BY <2>1, LeastNatural
  <2>3. ends # {} => end \in ends
    BY <2>2
  <2> QED BY <1>1, <2>3
<1> HIDE DEF end
<1>3. CASE ends = {} \/ length = 0
  BY <1>3, DefaultIsLabel DEF CustomHostname, end
<1>4. CASE ~(ends = {} \/ length = 0) /\ \E i \in 1 .. length : name[i] \notin Good \cup {Dash}
  BY <1>4, DefaultIsLabel DEF CustomHostname, end
<1>5. CASE /\ ~(ends = {} \/ length = 0) /\ ~\E i \in 1 .. length : name[i] \notin Good \cup {Dash}
           /\ Dash \in {name[1], name[length]}
  BY <1>5, DefaultIsLabel DEF CustomHostname, end
<1>6. CASE /\ ~(ends = {} \/ length = 0) /\ ~\E i \in 1 .. length : name[i] \notin Good \cup {Dash}
           /\ Dash \notin {name[1], name[length]}
  <2>1. CustomHostname(name) = label
    BY <1>6 DEF CustomHostname, end
  <2>2. length \in Nat \ {0}
    BY <1>1, <1>2, <1>6
  <2> HIDE DEF length
  <2>3. \A i \in 1 .. length : name[i] \in Good \cup {Dash}
    BY <1>6
  <2>4. \A i \in 1 .. length : Lower(name[i]) \in LabelCharacters
    BY <2>3, Characters
  <2>5. label \in [1 .. length -> LabelCharacters]
    BY <2>4
  <2>6. label \in Seq(LabelCharacters)
    BY <2>2, <2>5
  <2>7. Len(label) = length
    <3>1. Len(label) \in Nat /\ DOMAIN label = 1 .. Len(label)
      BY <2>6, LenProperties
    <3> QED BY <2>2, <3>1
  <2>8. 1 \in 1 .. length /\ length \in 1 .. length
    BY <2>2
  <2>9. name[1] \in Good /\ name[length] \in Good
    BY <1>6, <2>3, <2>8
  <2>10. label[1] # Dash /\ label[length] # Dash
    BY <2>8, <2>9, Characters
  <2>11. label # <<>>
    BY <2>6, <2>7, <2>2, EmptySeq
  <2> QED BY <2>1, <2>6, <2>7, <2>10, <2>11 DEF IsLabel
<1> QED BY <1>3, <1>4, <1>5, <1>6

-----------------------------------------------------------------------------
(* mDNS and the identity.                                                  *)

LEMMA IdentityFrame ==
    ASSUME BusInv, IdentityInv, NEW d, NEW kinds, Adds(d, kinds), "identity" \notin kinds,
           d = 1 => bus[1].kind # "identity", UNCHANGED <<mdnsVars, identity, networkUp>>
    PROVE  IdentityInv'
<1>1. /\ d \in {0, 1} /\ DOMAIN bus \subseteq Nat /\ DOMAIN bus' \subseteq Nat
      /\ \A j \in DOMAIN bus' : bus'[j].kind = "identity" => j + d \in DOMAIN bus /\ bus'[j] = bus[j + d]
      /\ \A i \in DOMAIN bus : bus[i].kind = "identity" => i - d \in DOMAIN bus' /\ bus'[i - d] = bus[i]
  <2> DEFINE K == {"identity"}
  <2>1. Disjoint(kinds, K) /\ (d = 1 => bus[1].kind \notin K)
    BY DEF Disjoint
  <2> HIDE DEF K
  <2>2. /\ d \in {0, 1} /\ DOMAIN bus \subseteq Nat /\ DOMAIN bus' \subseteq Nat
        /\ \A j \in DOMAIN bus' : bus'[j].kind \in K => j + d \in DOMAIN bus /\ bus'[j] = bus[j + d]
        /\ \A i \in DOMAIN bus : bus[i].kind \in K => i - d \in DOMAIN bus' /\ bus'[i - d] = bus[i]
    BY <2>1, SignalsKept
  <2> QED BY <2>2 DEF K
<1>2. Signalled("identity")' <=> Signalled("identity")
  BY <1>1 DEF Signalled
<1>3. \A j \in DOMAIN bus' : LastIdentity(j)' => j + d \in DOMAIN bus /\ LastIdentity(j + d) /\ bus'[j] = bus[j + d]
  <2> SUFFICES ASSUME NEW j \in DOMAIN bus', LastIdentity(j)'
               PROVE  j + d \in DOMAIN bus /\ LastIdentity(j + d) /\ bus'[j] = bus[j + d]
    OBVIOUS
  <2>1. bus'[j].kind = "identity" /\ \A i \in DOMAIN bus' : j < i => bus'[i].kind # "identity"
    BY DEF LastIdentity
  <2>2. j + d \in DOMAIN bus /\ bus'[j] = bus[j + d] /\ j \in Nat
    BY <1>1, <2>1
  <2>3. ASSUME NEW i \in DOMAIN bus, j + d < i, bus[i].kind = "identity" PROVE FALSE
    <3>1. i - d \in DOMAIN bus' /\ bus'[i - d] = bus[i] /\ j < i - d
      BY <1>1, <2>2, <2>3
    <3> QED BY <2>1, <2>3, <3>1
  <2> QED BY <2>1, <2>2, <2>3 DEF LastIdentity
<1>4. \A i \in DOMAIN bus' : bus'[i].kind = "identity" => bus'[i].name = networkName
  BY <1>1 DEF IdentityInv
<1>5. UNCHANGED <<networkName, address, addressEvent, identityWork, identity>>
  BY DEF mdnsVars
<1>6. networkName' # <<>> /\ ~addressEvent' /\ ~identityWork' =>
          /\ \A i \in DOMAIN bus' : LastIdentity(i)' => bus'[i].address = address'
          /\ ~Signalled("identity")' => identity' = [received |-> TRUE, name |-> networkName', address |-> address']
  BY <1>2, <1>3, <1>5 DEF IdentityInv
<1>7. networkName' = <<>> => ~addressEvent' /\ ~identityWork' /\ ~Signalled("identity")'
  BY <1>2, <1>5 DEF IdentityInv
<1> QED BY <1>4, <1>5, <1>6, <1>7 DEF IdentityInv, Signalled, LastIdentity

LEMMA NameFrame ==
    ASSUME NameInv, UNCHANGED <<mdnsVars, identity, networkUp>>
    PROVE  NameInv'
BY DEF NameInv, mdnsVars

\* What the database holds is text, and so is what is kept of it.
LEMMA LoadedIsText == ASSUME NameInv PROVE Loaded \in Text
<1> DEFINE loaded == [i \in DOMAIN hostname |-> IF \E j \in {k \in DOMAIN hostname : hostname[k] = Nul} : j <= i
                                                THEN Nul ELSE hostname[i]]
<1>1. Len(hostname) \in Nat /\ DOMAIN hostname = 1 .. Len(hostname) /\ \A i \in 1 .. Len(hostname) : hostname[i] \in 0 .. 255
  BY LenProperties, ElementOfSeq DEF NameInv, Text
<1>2. loaded \in [1 .. Len(hostname) -> 0 .. 255]
  BY <1>1 DEF Nul
<1> HIDE DEF loaded
<1>3. loaded \in Seq(0 .. 255)
  <2>1. Len(hostname) \in Nat
    BY <1>1
  <2> QED BY ONLY <1>2, <2>1, FunctionIsSeq, Zenon
<1>4. Loaded = IF customName.loaded THEN customName.characters ELSE loaded
  BY DEF Loaded, loaded
<1> QED BY <1>3, <1>4 DEF NameInv, Text

LEMMA TextWritten == \A t \in Text, c \in 0 .. 255 : \A i : [t EXCEPT ![i] = c] \in Text
<1> TAKE t \in Text, c \in 0 .. 255
<1> TAKE i
<1>1. Len(t) \in Nat /\ t \in [1 .. Len(t) -> 0 .. 255]
  BY LenProperties DEF Text
<1>2. [t EXCEPT ![i] = c] \in [1 .. Len(t) -> 0 .. 255]
  BY <1>1
<1> QED BY <1>1, <1>2 DEF Text

LEMMA MdnsKeepsIdentity ==
    ASSUME BusInv, NameInv, IdentityInv, UNCHANGED <<identity, networkUp>>,
           StartMdns \/ ChangeAddress \/ HandleAddressEvent \/ PublishIdentity \/ WriteHostname
    PROVE  NameInv' /\ IdentityInv' /\ Adds(0, {"identity"})
<1>1. UNCHANGED bus => Adds(0, {"identity"})
  BY BusUnchanged, AddsMore
<1>2. CASE StartMdns
  <2>1. /\ networkName = <<>> /\ networkName' = CustomHostname(Loaded)
        /\ customName' = [loaded |-> TRUE, characters |-> Loaded] /\ identityWork' = TRUE
        /\ UNCHANGED <<serial, hostname, address, bus>>
    BY <1>2 DEF StartMdns
  <2>2. IsLabel(networkName') /\ networkName' # <<>>
    BY <2>1, LoadedIsText, CustomIsLabel DEF NameInv, IsLabel
  <2>3. \A i \in DOMAIN bus : bus[i].kind # "identity"
    BY <2>1 DEF IdentityInv, Signalled
  <2>4. NameInv'
    BY <2>1, <2>2, LoadedIsText DEF NameInv
  <2>5. IdentityInv'
    BY <2>1, <2>2, <2>3 DEF IdentityInv
  <2> QED BY <1>1, <2>1, <2>4, <2>5
<1>3. CASE ChangeAddress
  <2>1. /\ addressEvent' = (networkName # <<>>)
        /\ UNCHANGED <<serial, hostname, customName, networkName, identityWork, bus>>
    BY <1>3 DEF ChangeAddress
  <2>2. NameInv'
    BY <2>1 DEF NameInv
  <2>3. IdentityInv'
    BY <2>1 DEF IdentityInv, Signalled
  <2> QED BY <1>1, <2>1, <2>2, <2>3
<1>4. CASE HandleAddressEvent
  <2>1. /\ addressEvent /\ identityWork' = TRUE
        /\ UNCHANGED <<serial, hostname, customName, networkName, address, bus>>
    BY <1>4 DEF HandleAddressEvent, sharedVars
  <2>2. NameInv'
    BY <2>1 DEF NameInv
  <2>3. IdentityInv'
    BY <2>1 DEF IdentityInv
  <2> QED BY <1>1, <2>1, <2>2, <2>3
<1>5. CASE PublishIdentity
  <2> DEFINE m == [kind |-> "identity", name |-> networkName, address |-> address]
  <2>1. /\ identityWork /\ bus' = Append(bus, m)
        /\ UNCHANGED <<serial, hostname, customName, networkName, address, addressEvent>>
    BY <1>5 DEF PublishIdentity
  <2>2. networkName # <<>>
    BY <2>1 DEF IdentityInv
  <2>3. m.kind = "identity" /\ m.name = networkName /\ m.address = address
    OBVIOUS
  <2> HIDE DEF m
  <2>4. BusStep(0, <<m>>) /\ Adds(0, {"identity"})
    BY <2>1, <2>3, AddsOne
  <2>5. /\ Len(bus) \in Nat /\ DOMAIN bus = 1 .. Len(bus) /\ DOMAIN bus' = 1 .. Len(bus) + 1
        /\ \A i \in DOMAIN bus : bus'[i] = bus[i]
        /\ bus'[Len(bus) + 1] = m
    <3>1. bus \in Seq({bus[i] : i \in DOMAIN bus} \cup {m})
      BY SeqMonotonic DEF BusInv, IsSeq
    <3> QED BY <2>1, <3>1, AppendProperties, LenProperties
  <2>6. \A i \in DOMAIN bus' : bus'[i].kind = "identity" => bus'[i].name = networkName'
    BY <2>1, <2>3, <2>5 DEF IdentityInv
  <2>7. \E i \in DOMAIN bus' : bus'[i].kind = "identity"
    BY <2>3, <2>5
  <2>8. \A i \in DOMAIN bus' : LastIdentity(i)' => bus'[i].address = address
    BY <2>3, <2>5 DEF LastIdentity
  <2>9. NameInv'
    BY <2>1 DEF NameInv
  <2>10. IdentityInv'
    BY <2>1, <2>2, <2>6, <2>7, <2>8 DEF IdentityInv, Signalled, LastIdentity
  <2> QED BY <2>4, <2>9, <2>10
<1>6. CASE WriteHostname
  <2>1. PICK w \in HostnameWrites :
            /\ hostname' = [hostname EXCEPT ![w.index] = w.value]
            /\ customName' = [loaded |-> TRUE, characters |-> [customName.characters EXCEPT ![w.index] = w.value]]
    BY <1>6, Zenon DEF WriteHostname
  <2>2. w.value \in 0 .. 255
    BY MdnsAssumption
  <2>3. hostname' \in Text /\ customName'.characters \in Text
    <3>1. hostname \in Text /\ customName.characters \in Text
      BY DEF NameInv
    <3>2. [hostname EXCEPT ![w.index] = w.value] \in Text
      BY ONLY <2>2, <3>1, TextWritten, Zenon
    <3>3. [customName.characters EXCEPT ![w.index] = w.value] \in Text
      BY ONLY <2>2, <3>1, TextWritten, Zenon
    <3> QED BY <2>1, <3>2, <3>3
  <2>4. UNCHANGED <<serial, networkName, address, addressEvent, identityWork, bus>>
    BY <1>6 DEF WriteHostname
  <2>5. NameInv'
    BY <2>1, <2>3, <2>4 DEF NameInv
  <2>6. IdentityInv'
    BY <2>4 DEF IdentityInv, Signalled, LastIdentity
  <2> QED BY <1>1, <2>4, <2>5, <2>6
<1> QED BY <1>2, <1>3, <1>4, <1>5, <1>6

-----------------------------------------------------------------------------
(* OSC: the destinations and the thread that sends to them.                *)

LEMMA TrafficIsSeq ==
    ASSUME NEW T, IsFiniteSet(T), NEW type, type # "NetworkUp", NEW r, r = [i \in 1 .. Cardinality(T) |-> Traffic(type)]
    PROVE  IsSeq(r) /\ \A i \in DOMAIN r : r[i].kind = "traffic" /\ r[i].type # "NetworkUp"
<1>1. Cardinality(T) \in Nat
  BY FS_CardinalityType
<1> DEFINE n == Cardinality(T)
<1> HIDE DEF n
<1>2. n \in Nat /\ r = [i \in 1 .. n |-> Traffic(type)]
  BY <1>1 DEF n
<1>3. r = [i \in 1 .. n |-> r[i]]
  BY <1>2
<1>4. IsSeq(r)
  BY <1>2, <1>3, SegmentIsSeq
<1>5. \A i \in DOMAIN r : r[i] = Traffic(type)
  BY <1>2
<1> QED BY <1>4, <1>5 DEF Traffic

\* Announcements: the signals of the packets that were sent, after the signal that was handled.
LEMMA AnnounceAdds ==
    ASSUME BusInv, NEW d, IsFiniteSet(DOMAIN d), Announce(d)
    PROVE  Adds(IF Signalled("identity") THEN 1 ELSE 0, {"traffic"})
<1> DEFINE tried == IF CanOpen THEN {s \in DOMAIN d : d[s].host # 0 /\ ~RetryActive(d[s].retryAt)} ELSE {}
           reached == {s \in tried : d[s].host \in reachable}
           r == [i \in 1 .. Cardinality(reached) |-> Traffic("NetworkOut")]
           D == IF Signalled("identity") THEN 1 ELSE 0
<1>1. bus' = (IF Signalled("identity") THEN Tail(bus) ELSE bus) \o r
  BY DEF Announce
<1>2. reached \subseteq DOMAIN d
  OBVIOUS
<1> HIDE DEF reached
<1>3. IsFiniteSet(reached)
  BY <1>2, FS_Subset
<1>4. r = [i \in 1 .. Cardinality(reached) |-> Traffic("NetworkOut")]
  OBVIOUS
<1> HIDE DEF r
<1>5. IsSeq(r) /\ \A i \in DOMAIN r : r[i].kind = "traffic" /\ r[i].type # "NetworkUp"
  <2>1. "NetworkOut" # "NetworkUp"
    OBVIOUS
  <2> QED BY <1>3, <1>4, <2>1, TrafficIsSeq
<1>6. Signalled("identity") => bus # <<>>
  BY DEF Signalled
<1>7. D \in {0, 1} /\ (D = 1 <=> Signalled("identity"))
  OBVIOUS
<1> HIDE DEF D
<1>8. BusStep(D, r)
  BY <1>1, <1>5, <1>6, <1>7 DEF BusStep, Shift
<1>9. Adds(D, {"traffic"})
  BY <1>5, <1>8 DEF Adds
<1> QED BY <1>9 DEF D

\* After announcements to d, a retry time of a destination has a reason when it had one in d.
LEMMA AnnounceHasReason ==
    ASSUME NEW d, Announce(d), \A s \in DOMAIN d : d[s] = DestinationForm(d[s]),
           \A s \in DOMAIN d : d[s].host # 0 /\ d[s].retryAt # 0 => s \in refused \cup crossed
    PROVE  /\ DOMAIN destinations' = DOMAIN d
           /\ \A s \in DOMAIN d : destinations'[s] = DestinationForm(destinations'[s])
           /\ \A s \in DOMAIN d : destinations'[s].host # 0 /\ destinations'[s].retryAt # 0 => s \in refused' \cup crossed'
<1> DEFINE tried == IF CanOpen THEN {s \in DOMAIN d : d[s].host # 0 /\ ~RetryActive(d[s].retryAt)} ELSE {}
           reached == {s \in tried : d[s].host \in reachable}
<1>1. /\ destinations' = [s \in DOMAIN d |->
                             IF s \in tried THEN [d[s] EXCEPT !.retryAt = RetryTime(s \in reached, uptime)] ELSE d[s]]
      /\ refused' = (refused \cup tried) \ reached /\ crossed' = crossed \ tried
  BY DEF Announce
<1>2. reached \subseteq tried
  OBVIOUS
<1> HIDE DEF tried, reached
<1>3. DOMAIN destinations' = DOMAIN d
  BY <1>1
<1>4. ASSUME NEW s \in DOMAIN d
      PROVE  /\ destinations'[s] = DestinationForm(destinations'[s])
             /\ destinations'[s].host # 0 /\ destinations'[s].retryAt # 0 => s \in refused' \cup crossed'
  <2>1. CASE s \in tried
    <3>1. destinations'[s] = [d[s] EXCEPT !.retryAt = RetryTime(s \in reached, uptime)]
      BY <1>1, <2>1
    <3>2. d[s] = [host |-> d[s].host, port |-> d[s].port, retryAt |-> d[s].retryAt]
      BY DEF DestinationForm
    <3>3. destinations'[s] = [host |-> d[s].host, port |-> d[s].port, retryAt |-> RetryTime(s \in reached, uptime)]
      BY <3>1, <3>2
    <3>4. s \in reached => destinations'[s].retryAt = 0
      BY <3>3 DEF RetryTime
    <3> QED BY <1>1, <2>1, <3>3, <3>4 DEF DestinationForm
  <2>2. CASE s \notin tried
    BY <1>1, <1>2, <2>2
  <2> QED BY <2>1, <2>2
<1> QED BY <1>3, <1>4

\* Nobody is in backoff in refreshed destinations.
LEMMA RefreshedFacts ==
    ASSUME NEW settings
    PROVE  /\ DOMAIN Refreshed(settings) = DOMAIN settings.destinations
           /\ \A s \in DOMAIN Refreshed(settings) : /\ Refreshed(settings)[s] = DestinationForm(Refreshed(settings)[s])
                                                    /\ Refreshed(settings)[s].retryAt = 0
BY DEF Refreshed, DestinationForm

\* What the destinations and the send thread are made of.
senderState == <<destinations, uptime, sender, wake, queue, refused, crossed>>

LEMMA SenderFrame == ASSUME SenderInv, UNCHANGED senderState PROVE SenderInv'
BY DEF SenderInv, senderState, Slots, Configured, DestinationForm

\* A setting that is written.
LEMMA WrittenFacts ==
    ASSUME oscSettings = SettingsForm(oscSettings), IsFiniteSet(DOMAIN oscSettings.destinations), NEW w \in OscWrites
    PROVE  /\ Written(w) = SettingsForm(Written(w))
           /\ DOMAIN Written(w).destinations = DOMAIN oscSettings.destinations
           /\ w.setting # "listen" => Written(w).listen = oscSettings.listen
<1>1. oscSettings = [listen |-> oscSettings.listen, restrict |-> oscSettings.restrict,
                     destinations |-> oscSettings.destinations]
  BY DEF SettingsForm
<1>2. CASE w.setting = "restrict"
  <2>1. Written(w) = [listen |-> oscSettings.listen, restrict |-> w.value, destinations |-> oscSettings.destinations]
    BY <1>1, <1>2 DEF Written
  <2> QED BY <1>2, <2>1 DEF SettingsForm
<1>3. CASE w.setting = "listen"
  <2>1. Written(w) = [listen |-> w.value, restrict |-> oscSettings.restrict, destinations |-> oscSettings.destinations]
    BY <1>1, <1>3 DEF Written
  <2> QED BY <1>3, <2>1 DEF SettingsForm
<1>4. CASE w.setting \notin {"restrict", "listen"}
  <2> DEFINE d == [oscSettings.destinations EXCEPT ![w.slot][w.setting] = w.value]
  <2>1. Written(w) = [oscSettings EXCEPT !.destinations = d]
    BY <1>4 DEF Written
  <2>2. DOMAIN d = DOMAIN oscSettings.destinations
    OBVIOUS
  <2> HIDE DEF d
  <2>3. Written(w) = [listen |-> oscSettings.listen, restrict |-> oscSettings.restrict, destinations |-> d]
    BY <1>1, <2>1
  <2> QED BY <2>2, <2>3 DEF SettingsForm
<1> QED BY <1>2, <1>3, <1>4

LEMMA SenderKept ==
    ASSUME SenderInv, IsFiniteSet(DOMAIN oscSettings.destinations), oscSettings = SettingsForm(oscSettings),
           TakeWake \/ SendThread \/ SendTo \/ WriteOsc
    PROVE  SenderInv'
<1>1. /\ IsFiniteSet(Slots) /\ \A s \in Slots : destinations[s] = DestinationForm(destinations[s])
      /\ sender = [at |-> sender.at, slot |-> sender.slot, packet |-> sender.packet, endpoint |-> sender.endpoint,
                   started |-> sender.started, socket |-> sender.socket]
      /\ \A s \in Slots : Configured(s) /\ destinations[s].retryAt # 0 => s \in refused \cup crossed
  BY DEF SenderInv
<1>2. CASE TakeWake
  <2>1. /\ sender' = [sender EXCEPT !.at = "drain"] /\ UNCHANGED <<destinations, uptime, refused, crossed, queue>>
    BY <1>2 DEF TakeWake, oscEnvironment
  <2>2. sender' = [at |-> "drain", slot |-> sender.slot, packet |-> sender.packet, endpoint |-> sender.endpoint,
                   started |-> sender.started, socket |-> sender.socket]
    BY <1>1, <2>1
  <2>3. sender'.at = "drain" /\ sender' = [at |-> sender'.at, slot |-> sender'.slot, packet |-> sender'.packet,
                                           endpoint |-> sender'.endpoint, started |-> sender'.started, socket |-> sender'.socket]
    BY <2>2
  <2> QED BY <2>1, <2>3 DEF SenderInv, Slots, Configured
<1>3. CASE SendThread
  <2>1. UNCHANGED <<destinations, uptime, wake, refused, crossed>>
    BY <1>3 DEF SendThread, oscEnvironment
  <2>2. /\ sender' = [at |-> sender'.at, slot |-> sender'.slot, packet |-> sender'.packet, endpoint |-> sender'.endpoint,
                      started |-> sender'.started, socket |-> sender'.socket]
        /\ sender'.at = "wait" => queue' = <<>>
    <3>1. CASE Drained
      BY <1>1, <3>1 DEF Drained
    <3>2. CASE RemovePacket
      <4> DEFINE socket == IF sender.socket = 0 THEN FreeSocket ELSE sender.socket
                 first == Head(queue)
      <4>1. /\ sender.at = "drain"
            /\ \/ UNCHANGED sender
               \/ sender' = [sender EXCEPT !.at = "slot", !.slot = 1, !.packet = first, !.started = uptime, !.socket = socket]
        BY <3>2 DEF RemovePacket
      <4> HIDE DEF socket, first
      <4>2. CASE UNCHANGED sender
        BY <1>1, <4>1, <4>2
      <4>3. CASE sender' = [sender EXCEPT !.at = "slot", !.slot = 1, !.packet = first, !.started = uptime, !.socket = socket]
        <5>1. sender' = [at |-> "slot", slot |-> 1, packet |-> first, endpoint |-> sender.endpoint,
                         started |-> uptime, socket |-> socket]
          BY <1>1, <4>3
        <5> QED BY <5>1
      <4> QED BY <4>1, <4>2, <4>3
    <3>3. CASE NextSlot
      <4>1. /\ sender.at = "slot"
            /\ \/ sender' = [sender EXCEPT !.at = "drain"]
               \/ sender' = [sender EXCEPT !.slot = @ + 1]
               \/ sender' = [sender EXCEPT !.at = "send",
                                           !.endpoint = [host |-> destinations[sender.slot].host,
                                                         port |-> destinations[sender.slot].port]]
        BY <3>3 DEF NextSlot
      <4> QED BY <1>1, <4>1
    <3> QED BY <1>3, <3>1, <3>2, <3>3 DEF SendThread
  <2> QED BY <2>1, <2>2 DEF SenderInv, Slots, Configured
<1>4. CASE SendTo
  <2> DEFINE s == sender.slot
             sent == sender.endpoint.host \in reachable
             same == sender.endpoint = [host |-> destinations[s].host, port |-> destinations[s].port]
  <2>1. /\ sender' = [sender EXCEPT !.at = "slot", !.slot = @ + 1]
        /\ destinations' = IF Configured(s) THEN [destinations EXCEPT ![s].retryAt = RetryTime(sent, sender.started)]
                           ELSE destinations
        /\ refused' = IF ~same THEN refused ELSE IF sent THEN refused \ {s} ELSE refused \cup {s}
        /\ crossed' = IF same THEN crossed \ {s} ELSE crossed \cup {s}
        /\ UNCHANGED <<queue, wake, uptime>>
    BY <1>4 DEF SendTo, oscEnvironment
  <2>2. sent => RetryTime(sent, sender.started) = 0
    BY DEF RetryTime
  <2> DEFINE time == RetryTime(sent, sender.started)
  <2> HIDE DEF sent, same, time, s
  <2>3. DOMAIN destinations' = Slots
    BY <2>1 DEF Slots
  <2>4. ASSUME NEW t \in Slots
        PROVE  /\ destinations'[t] = DestinationForm(destinations'[t])
               /\ destinations'[t].host # 0 /\ destinations'[t].retryAt # 0 => t \in refused' \cup crossed'
    <3>1. CASE t = s /\ Configured(s)
      <4>1. destinations'[t] = [destinations[t] EXCEPT !.retryAt = time]
        BY <2>1, <3>1 DEF time, Slots
      <4>2. destinations'[t] = [host |-> destinations[t].host, port |-> destinations[t].port, retryAt |-> time]
        <5>1. destinations[t] = [host |-> destinations[t].host, port |-> destinations[t].port,
                                 retryAt |-> destinations[t].retryAt]
          BY <1>1 DEF DestinationForm
        <5> QED BY <4>1, <5>1
      <4>3. sent => time = 0
        BY <2>2 DEF time
      <4>4. ~sent => t \in refused' \cup crossed'
        BY <2>1, <3>1
      <4> QED BY <4>2, <4>3, <4>4 DEF DestinationForm
    <3>2. CASE t = s /\ ~Configured(s)
      BY <1>1, <2>1, <3>2 DEF Configured
    <3>3. CASE t # s
      <4>1. destinations'[t] = destinations[t]
        BY <2>1, <3>3 DEF Slots
      <4> QED BY <1>1, <2>1, <3>3, <4>1 DEF Configured
    <3> QED BY <3>1, <3>2, <3>3
  <2>5. sender' = [at |-> "slot", slot |-> sender.slot + 1, packet |-> sender.packet, endpoint |-> sender.endpoint,
                   started |-> sender.started, socket |-> sender.socket]
    BY <1>1, <2>1
  <2>6. sender'.at = "slot" /\ sender' = [at |-> sender'.at, slot |-> sender'.slot, packet |-> sender'.packet,
                                           endpoint |-> sender'.endpoint, started |-> sender'.started, socket |-> sender'.socket]
    BY <2>5
  <2> QED BY <1>1, <2>1, <2>3, <2>4, <2>6 DEF SenderInv, Slots, Configured
<1>5. CASE WriteOsc
  <2>1. PICK w \in OscWrites :
            IF ~Valid(w)
            THEN UNCHANGED <<oscSettings, listening, sockets, reader, late, destinations, queue, refused, crossed>>
            ELSE /\ oscSettings' = Written(w)
                 /\ IF w.setting = "listen" /\ oscOn THEN CloseListen ELSE UNCHANGED <<listening, sockets, reader, late>>
                 /\ IF w.setting \in {"host", "port"}
                    THEN destinations' = RefreshDestinations(Written(w)) /\ queue' = <<>> /\ refused' = {} /\ crossed' = {}
                    ELSE UNCHANGED <<destinations, queue, refused, crossed>>
    BY <1>5 DEF WriteOsc
  <2>2. UNCHANGED <<uptime, sender, wake>>
    BY <1>5 DEF WriteOsc, oscEnvironment
  <2>3. CASE UNCHANGED <<destinations, queue, refused, crossed>>
    BY <2>2, <2>3, SenderFrame DEF senderState
  <2>4. CASE destinations' = Refreshed(Written(w)) /\ queue' = <<>>
    <3>1. DOMAIN destinations' = DOMAIN oscSettings.destinations
      BY <2>4, RefreshedFacts, WrittenFacts
    <3>2. \A s \in DOMAIN destinations' : destinations'[s] = DestinationForm(destinations'[s]) /\ destinations'[s].retryAt = 0
      BY <2>4, RefreshedFacts
    <3> QED BY <2>2, <2>4, <3>1, <3>2 DEF SenderInv, Slots, Configured
  <2> QED BY <2>1, <2>3, <2>4 DEF RefreshDestinations
<1> QED BY <1>2, <1>3, <1>4, <1>5

-----------------------------------------------------------------------------
(* OSC: sockets, and the thread that listens.                              *)

LEMMA FreeSocketIsFree ==
    ASSUME Open \subseteq 1 .. SocketCount, CanOpen
    PROVE  FreeSocket \in 1 .. SocketCount \ Open
<1> DEFINE T == 1 .. SocketCount \ Open
<1>1. SocketCount \in Nat
  BY OscAssumption
<1>2. T # {}
  <2>1. Cardinality(1 .. SocketCount) = SocketCount
    BY <1>1, FS_Interval
  <2>2. T = {} => Open = 1 .. SocketCount
    OBVIOUS
  <2> QED BY <1>1, <2>1, <2>2 DEF CanOpen
<1>3. T \subseteq Nat
  BY <1>1
<1>4. \E s \in T : \A t \in T : s <= t
  BY <1>2, <1>3, LeastNatural
<1>5. \E s \in 1 .. SocketCount : s \notin Open /\ \A t \in 1 .. SocketCount : t \notin Open => s <= t
  BY <1>4
<1> QED BY <1>5 DEF FreeSocket

listenerState == <<oscSettings, oscOn, reader, listening, sockets, late>>

LEMMA ListenerFrame == ASSUME ListenerInv, UNCHANGED listenerState PROVE ListenerInv'
BY DEF ListenerInv, listenerState, Open, SettingsForm

\* Another socket is opened.
LEMMA OtherSocketOpened ==
    ASSUME ListenerInv, CanOpen, sockets' = Opened(FreeSocket, 0),
           UNCHANGED <<oscSettings, oscOn, reader, listening, late>>
    PROVE  ListenerInv'
<1>1. FreeSocket \in 1 .. SocketCount \ Open
  BY FreeSocketIsFree DEF ListenerInv
<1>2. DOMAIN sockets' = Open \cup {FreeSocket} /\ \A s \in Open : sockets'[s] = sockets[s]
  BY <1>1 DEF Opened
<1> HIDE DEF FreeSocket
<1> QED BY <1>1, <1>2 DEF ListenerInv, Open, SettingsForm

ReaderForm == reader = [at |-> reader.at, socket |-> reader.socket, port |-> reader.port]

LEMMA ReadThreadKept == ASSUME ListenerInv, ReadThread PROVE ListenerInv'
<1>1. ReaderForm /\ UNCHANGED <<oscSettings, oscOn>>
  BY DEF ListenerInv, ReaderForm, ReadThread, oscConfig
<1>2. CASE CheckSocket
  <2>1. CASE listening = 0
    <3>1. reader' = [at |-> "open", socket |-> reader.socket, port |-> oscSettings.listen]
      BY <1>1, <1>2, <2>1 DEF CheckSocket, ReaderForm
    <3> QED BY <1>1, <1>2, <2>1, <3>1 DEF CheckSocket, ListenerInv, Open, SettingsForm
  <2>2. CASE listening # 0
    <3>1. reader' = [at |-> "call", socket |-> listening, port |-> reader.port]
      BY <1>1, <1>2, <2>2 DEF CheckSocket, ReaderForm
    <3> QED BY <1>1, <1>2, <2>2, <3>1 DEF CheckSocket, ListenerInv, Open, SettingsForm
  <2> QED BY <2>1, <2>2
<1>3. CASE OpenListen
  <2>1. CASE CanOpen
    <3>1. FreeSocket \in 1 .. SocketCount \ Open
      BY <2>1, FreeSocketIsFree DEF ListenerInv
    <3>2. /\ reader.at = "open" /\ sockets' = Opened(FreeSocket, reader.port) /\ listening' = FreeSocket
          /\ reader' = [reader EXCEPT !.at = "call", !.socket = FreeSocket] /\ UNCHANGED late
      BY <1>3, <2>1 DEF OpenListen
    <3> HIDE DEF FreeSocket
    <3>3. reader' = [at |-> "call", socket |-> FreeSocket, port |-> reader.port]
      BY <1>1, <3>2 DEF ReaderForm
    <3>4. DOMAIN sockets' = Open \cup {FreeSocket} /\ sockets'[FreeSocket] = reader.port
      BY <3>2 DEF Opened
    <3>5. FreeSocket # 0
      BY <3>1, OscAssumption
    <3> QED BY <1>1, <3>1, <3>2, <3>3, <3>4, <3>5 DEF ListenerInv, Open, SettingsForm
  <2>2. CASE ~CanOpen
    <3>1. reader' = [at |-> "check", socket |-> reader.socket, port |-> reader.port] /\ UNCHANGED <<sockets, listening, late>>
      BY <1>1, <1>3, <2>2 DEF OpenListen, ReaderForm
    <3> QED BY <1>1, <3>1 DEF ListenerInv, Open, SettingsForm
  <2> QED BY <2>1, <2>2
<1>4. CASE CallReceive
  <2>1. /\ reader.at = "call" /\ UNCHANGED <<listening, late, sockets>>
        /\ \/ reader' = [at |-> "receive", socket |-> reader.socket, port |-> reader.port]
           \/ reader' = [at |-> "failed", socket |-> reader.socket, port |-> reader.port]
    BY <1>1, <1>4 DEF CallReceive, ReaderForm
  <2> QED BY <1>1, <2>1 DEF ListenerInv, Open, SettingsForm
<1>5. CASE ReceiveFailed
  <2>1. /\ reader.at = "failed" /\ listening' = 0 /\ UNCHANGED late
        /\ reader' = [at |-> "check", socket |-> reader.socket, port |-> reader.port]
        /\ DOMAIN sockets' \subseteq Open
    BY <1>1, <1>5 DEF ReceiveFailed, ReaderForm, Closed, Open
  <2> QED BY <1>1, <2>1 DEF ListenerInv, Open, SettingsForm
<1> QED BY <1>2, <1>3, <1>4, <1>5 DEF ReadThread

\* A packet or a failure takes the thread back to the settings.
LEMMA ReceiveKept == ASSUME ListenerInv, Receive \/ ReceiveFault PROVE ListenerInv'
<1>1. UNCHANGED <<oscSettings, oscOn, listening, late, sockets>>
  BY DEF Receive, ReceiveFault, oscConfig
<1>2. /\ reader.at = "receive"
      /\ \/ reader' = [at |-> "check", socket |-> reader.socket, port |-> reader.port]
         \/ reader' = [at |-> "failed", socket |-> reader.socket, port |-> reader.port]
  <2>1. ReaderForm
    BY DEF ListenerInv, ReaderForm
  <2>2. reader.at = "receive" /\ (reader' = [reader EXCEPT !.at = "check"] \/ reader' = [reader EXCEPT !.at = "failed"])
    BY DEF Receive, ReceiveFault
  <2> QED BY <2>1, <2>2 DEF ReaderForm
<1> QED BY <1>1, <1>2 DEF ListenerInv, Open, SettingsForm

LEMMA CloseListenKept ==
    ASSUME ListenerInv, oscOn, CloseListen, UNCHANGED oscOn,
           oscSettings' = SettingsForm(oscSettings'), IsFiniteSet(DOMAIN oscSettings'.destinations)
    PROVE  ListenerInv'
<1>1. listening' = 0 /\ DOMAIN sockets' \subseteq Open
  BY DEF CloseListen, Closed, Open
<1>2. /\ reader' = [at |-> reader'.at, socket |-> reader'.socket, port |-> reader'.port]
      /\ reader'.socket = reader.socket
      /\ \/ reader'.at = reader.at /\ ~(reader.at = "receive" /\ reader.socket = listening /\ listening # 0)
         \/ reader'.at = "failed" /\ reader.at = "receive"
  <2>1. ReaderForm
    BY DEF ListenerInv, ReaderForm
  <2>2. CASE reader.at = "receive" /\ reader.socket = listening /\ listening # 0
    <3>1. reader' = [at |-> "failed", socket |-> reader.socket, port |-> reader.port]
      BY <2>1, <2>2 DEF CloseListen, Woken, ReaderForm
    <3> QED BY <2>2, <3>1
  <2>3. CASE ~(reader.at = "receive" /\ reader.socket = listening /\ listening # 0)
    <3>1. reader' = reader
      BY <2>3 DEF CloseListen, Woken
    <3> QED BY <2>1, <2>3, <3>1 DEF ReaderForm
  <2> QED BY <2>2, <2>3
<1>3. /\ reader.at \in {"open", "call"} => late'
      /\ reader.at = "receive" => late' = (reader.socket # listening)
  BY DEF CloseListen
<1>4. reader'.at \in {"check", "open", "call", "receive", "failed"}
  BY <1>2 DEF ListenerInv
<1>5. reader.at = "receive" => reader.socket # 0
  BY DEF ListenerInv
<1>6. reader'.at \in {"open", "call", "receive"} => late'
  BY <1>2, <1>3, <1>5
<1>7. reader'.at = "call" \/ reader'.at = "receive" => reader'.socket # 0
  BY <1>2 DEF ListenerInv
<1> QED BY <1>1, <1>2, <1>4, <1>6, <1>7 DEF ListenerInv, Open

LEMMA WriteKeepsListener == ASSUME ListenerInv, WriteOsc PROVE ListenerInv'
<1>1. oscSettings = SettingsForm(oscSettings) /\ IsFiniteSet(DOMAIN oscSettings.destinations) /\ UNCHANGED oscOn
  BY DEF ListenerInv, WriteOsc
<1>2. PICK w \in OscWrites :
          IF ~Valid(w)
          THEN UNCHANGED <<oscSettings, listening, sockets, reader, late, destinations, queue, refused, crossed>>
          ELSE /\ oscSettings' = Written(w)
               /\ IF w.setting = "listen" /\ oscOn THEN CloseListen ELSE UNCHANGED <<listening, sockets, reader, late>>
               /\ IF w.setting \in {"host", "port"}
                  THEN destinations' = RefreshDestinations(Written(w)) /\ queue' = <<>> /\ refused' = {} /\ crossed' = {}
                  ELSE UNCHANGED <<destinations, queue, refused, crossed>>
  BY DEF WriteOsc
<1>3. CASE ~Valid(w)
  BY <1>1, <1>2, <1>3, ListenerFrame DEF listenerState
<1>4. CASE Valid(w)
  <2>1. /\ oscSettings' = SettingsForm(oscSettings') /\ IsFiniteSet(DOMAIN oscSettings'.destinations)
        /\ w.setting # "listen" => oscSettings'.listen = oscSettings.listen
    <3>1. oscSettings' = Written(w)
      BY <1>2, <1>4
    <3> QED BY <1>1, <3>1, WrittenFacts
  <2>2. CASE w.setting = "listen" /\ oscOn
    BY <1>1, <1>2, <1>4, <2>1, <2>2, CloseListenKept
  <2>3. CASE w.setting # "listen"
    BY <1>1, <1>2, <1>4, <2>1, <2>3 DEF ListenerInv, Open
  <2>4. CASE ~oscOn
    BY <1>1, <1>2, <1>4, <2>1, <2>4 DEF ListenerInv, Open
  <2> QED BY <2>2, <2>3, <2>4
<1> QED BY <1>3, <1>4

-----------------------------------------------------------------------------
(* OSC and the indicators get to know the identity.                        *)

HeadIs(kind) == bus # <<>> /\ bus[1].kind = kind

LEMMA IdentityHandled ==
    ASSUME BusInv, NameInv, IdentityInv, SenderInv, HeadIs("identity"), UNCHANGED mdnsVars,
           HandleIdentity(bus[1]), ShowIdentity(bus[1].address)
    PROVE  NameInv' /\ IdentityInv' /\ SenderInv' /\ Adds(1, {"traffic"})
<1>1. /\ identity' = [received |-> TRUE, name |-> bus[1].name, address |-> bus[1].address]
      /\ networkUp' = (bus[1].address # 0)
      /\ UNCHANGED <<serial, hostname, customName, networkName, address, addressEvent, identityWork>>
      /\ UNCHANGED <<queue, wake, sender, uptime>>
  BY DEF HandleIdentity, ShowIdentity, mdnsVars, oscEnvironment
<1>2. Announce(destinations) \/ (bus' = Tail(bus) /\ UNCHANGED <<destinations, refused, crossed>>)
  BY DEF HandleIdentity
<1>3. 1 \in DOMAIN bus
  BY SeqFacts DEF BusInv, HeadIs
<1>4. Signalled("identity")
  BY <1>3 DEF Signalled, HeadIs
<1>5. Adds(1, {"traffic"})
  <2>1. CASE Announce(destinations)
    BY <1>4, <2>1, AnnounceAdds DEF SenderInv, Slots
  <2>2. CASE bus' = Tail(bus)
    BY <2>2, TakesOne, AddsMore DEF HeadIs
  <2> QED BY <1>2, <2>1, <2>2
<1>6. SenderInv'
  <2>1. CASE Announce(destinations)
    <3>1. /\ DOMAIN destinations' = Slots
          /\ \A s \in Slots : destinations'[s] = DestinationForm(destinations'[s])
          /\ \A s \in Slots : destinations'[s].host # 0 /\ destinations'[s].retryAt # 0 => s \in refused' \cup crossed'
      BY <2>1, AnnounceHasReason DEF SenderInv, Slots, Configured
    <3> QED BY <1>1, <3>1 DEF SenderInv, Slots, Configured
  <2>2. CASE UNCHANGED <<destinations, refused, crossed>>
    BY <1>1, <2>2, SenderFrame DEF senderState
  <2> QED BY <1>2, <2>1, <2>2
<1>7. NameInv'
  BY <1>1 DEF NameInv
<1> DEFINE K == {"identity"}
<1>8. Disjoint({"traffic"}, K)
  BY DEF Disjoint
<1> HIDE DEF K
<1>9. /\ DOMAIN bus \subseteq Nat /\ DOMAIN bus' \subseteq Nat
      /\ \A j \in DOMAIN bus' : bus'[j].kind \in K => j + 1 \in DOMAIN bus /\ bus'[j] = bus[j + 1]
      /\ \A i \in DOMAIN bus : i > 1 => i - 1 \in DOMAIN bus' /\ bus'[i - 1] = bus[i]
      /\ \A i \in DOMAIN bus : i >= 1
  BY <1>5, <1>8, SignalsShifted
<1>10. /\ \A j \in DOMAIN bus' : bus'[j].kind = "identity" => j + 1 \in DOMAIN bus /\ bus'[j] = bus[j + 1]
       /\ \A i \in DOMAIN bus : i > 1 => i - 1 \in DOMAIN bus' /\ bus'[i - 1] = bus[i]
  BY <1>9 DEF K
<1>11. \A j \in DOMAIN bus' : bus'[j].kind = "identity" => bus'[j].name = networkName
  BY <1>10 DEF IdentityInv
<1>12. networkName # <<>>
  BY <1>4 DEF IdentityInv
<1>13. ASSUME ~addressEvent, ~identityWork, NEW j \in DOMAIN bus', LastIdentity(j)'
       PROVE  bus'[j].address = address
  <2>1. bus'[j].kind = "identity" /\ \A i \in DOMAIN bus' : j < i => bus'[i].kind # "identity"
    BY <1>13 DEF LastIdentity
  <2>2. j + 1 \in DOMAIN bus /\ bus'[j] = bus[j + 1] /\ j \in Nat
    BY <1>9, <1>10, <2>1
  <2>3. ASSUME NEW i \in DOMAIN bus, j + 1 < i, bus[i].kind = "identity" PROVE FALSE
    <3>1. i - 1 \in DOMAIN bus' /\ bus'[i - 1] = bus[i] /\ j < i - 1
      BY <1>9, <1>10, <2>2, <2>3
    <3> QED BY <2>1, <2>3, <3>1
  <2>4. LastIdentity(j + 1)
    BY <2>1, <2>2, <2>3 DEF LastIdentity
  <2> QED BY <1>12, <1>13, <2>2, <2>4 DEF IdentityInv
<1>14. ASSUME ~addressEvent, ~identityWork, ~Signalled("identity")'
       PROVE  identity' = [received |-> TRUE, name |-> networkName, address |-> address]
  <2>1. ASSUME NEW i \in DOMAIN bus, 1 < i, bus[i].kind = "identity" PROVE FALSE
    <3>1. i - 1 \in DOMAIN bus' /\ bus'[i - 1].kind = "identity"
      BY <1>10, <2>1
    <3> QED BY <1>14, <3>1 DEF Signalled
  <2>2. LastIdentity(1)
    BY <1>3, <2>1 DEF LastIdentity, HeadIs
  <2> QED BY <1>1, <1>3, <1>12, <1>14, <2>2 DEF IdentityInv, HeadIs
<1> QED BY <1>1, <1>5, <1>6, <1>7, <1>11, <1>12, <1>13, <1>14 DEF IdentityInv, Signalled, LastIdentity

-----------------------------------------------------------------------------
(* The indicators.                                                         *)

LEMMA LightsFrame ==
    ASSUME BusInv, LightsInv, NEW d, NEW kinds, Adds(d, kinds), d = 1 => flashing = 0, UNCHANGED indicatorVars
    PROVE  LightsInv'
<1>1. PICK r : BusStep(d, r)
  BY DEF Adds
<1>2. UNCHANGED <<lit, idleWork, invert, networkUp, flashing, cleared>>
  BY DEF indicatorVars
<1>3. ASSUME flashing > 0 PROVE bus' # <<>> /\ bus'[1].kind = "init"
  <2>1. flashing # 0
    BY <1>3 DEF LightsInv
  <2>2. d = 0 /\ bus # <<>> /\ bus[1].kind = "init"
    BY <1>1, <1>3, <2>1 DEF BusStep, LightsInv
  <2>3. 1 \in DOMAIN bus
    BY <2>2, SeqFacts DEF BusInv
  <2>4. 1 \in DOMAIN bus' /\ bus'[1] = bus[1]
    <3>1. \A i \in DOMAIN bus : i > 0 => i - 0 \in DOMAIN bus' /\ bus'[i - 0] = bus[i]
      BY <1>1, <2>2, BusFacts
    <3> QED BY <2>3, <3>1
  <2>5. bus' # <<>>
    BY <2>4
  <2> QED BY <2>2, <2>4, <2>5
<1> QED BY <1>2, <1>3 DEF LightsInv

LEMMA SetFacts ==
    ASSUME NEW types, types \subseteq Indicated \cup {"NetworkUp"}, NEW on \in BOOLEAN, Set(types, on)
    PROVE  \A type : type \in lit' <=> IF type \in types THEN on ELSE type \in lit
BY DEF Set, On, Off

\* Other indicators than the ones of the board are never lit by it.
LEMMA SetOthers ==
    ASSUME NEW types, NEW on \in BOOLEAN, Set(types, on)
    PROVE  /\ \A type : type \notin types => (type \in lit' <=> type \in lit)
           /\ \A type \in types : type \in Indicated => (type \in lit' <=> on)
BY DEF Set, On, Off

LEMMA TrafficShown ==
    ASSUME LightsInv, flashing = 0, NEW type, type # "NetworkUp", HandleTraffic(type)
    PROVE  LightsInv'
<1>1. /\ idleWork' = idleWork \cup {type} /\ cleared' = cleared \ {type} /\ UNCHANGED <<invert, networkUp, flashing>>
      /\ Set({type}, ~invert)
  BY DEF HandleTraffic
<1>2. \A t : t # type => (t \in lit' <=> t \in lit)
  BY <1>1 DEF Set, On, Off
<1>3. ("NetworkUp" \in lit') = networkUp
  BY <1>2 DEF LightsInv
<1>4. ASSUME NEW t \in Indicated \ (idleWork' \cup cleared') PROVE (t \in lit') = invert
  BY <1>1, <1>2 DEF LightsInv
<1> QED BY <1>1, <1>3, <1>4 DEF LightsInv

LEMMA FlashEnded == ASSUME LightsInv, EndFlash PROVE LightsInv'
<1>1. PICK type \in idleWork : Set({type}, invert) /\ idleWork' = idleWork \ {type} /\ cleared' = cleared \ {type}
  BY DEF EndFlash
<1>2. UNCHANGED <<invert, networkUp, flashing, bus>> /\ invert \in BOOLEAN /\ type # "NetworkUp"
  BY DEF EndFlash, LightsInv, sharedVars
<1>3. /\ \A t : t # type => (t \in lit' <=> t \in lit)
      /\ type \in Indicated => (type \in lit' <=> invert)
  BY <1>1, <1>2, SetOthers
<1>4. ("NetworkUp" \in lit') = networkUp
  BY <1>2, <1>3 DEF LightsInv
<1>5. ASSUME flashing = 0, NEW t \in Indicated \ (idleWork' \cup cleared') PROVE (t \in lit') = invert
  BY <1>1, <1>2, <1>3, <1>5 DEF LightsInv
<1> QED BY <1>1, <1>2, <1>4, <1>5 DEF LightsInv

LEMMA IdentityShown ==
    ASSUME LightsInv, flashing = 0, NEW announced, ShowIdentity(announced)
    PROVE  LightsInv'
<1>1. /\ networkUp' = (announced # 0) /\ UNCHANGED <<idleWork, invert, flashing, cleared>>
      /\ Set({"NetworkUp"}, announced # 0)
  BY DEF ShowIdentity
<1>2. \A t : t \in lit' <=> IF t = "NetworkUp" THEN announced # 0 ELSE t \in lit
  BY <1>1, SetFacts
<1>3. \A t \in Indicated : t # "NetworkUp"
  BY IndicatorAssumption
<1> QED BY <1>1, <1>2, <1>3 DEF LightsInv

LEMMA SessionShown ==
    ASSUME LightsInv, flashing = 0, NEW open \in BOOLEAN, ShowSession(open)
    PROVE  LightsInv'
<1>1. /\ invert' = open /\ idleWork' = {} /\ UNCHANGED <<networkUp, flashing>>
      /\ lit' = (IF open THEN lit \cup Indicated ELSE lit \ Indicated)
                \cup (IF ~open /\ networkUp THEN {"NetworkUp"} ELSE {})
  BY DEF ShowSession
<1>2. \A t \in Indicated : t # "NetworkUp"
  BY IndicatorAssumption
<1>3. ("NetworkUp" \in lit') = networkUp
  BY <1>1, <1>2 DEF LightsInv
<1>4. \A t \in Indicated : (t \in lit') = open
  BY <1>1, <1>2
<1> QED BY <1>1, <1>3, <1>4 DEF LightsInv

LEMMA FlashesStarted ==
    ASSUME LightsInv, flashing = 0, HeadIs("init"), StartFlashes
    PROVE  LightsInv'
<1>1. flashing' = 2 * Flashes /\ 2 * Flashes \in Nat \ {0}
  BY IndicatorAssumption DEF StartFlashes
<1>2. UNCHANGED <<lit, idleWork, invert, networkUp, cleared, bus>>
  BY DEF StartFlashes
<1> QED BY <1>1, <1>2 DEF LightsInv, HeadIs

LEMMA FlashShown == ASSUME BusInv, LightsInv, FlashStep PROVE LightsInv'
<1>1. /\ flashing > 0 /\ flashing' = flashing - 1 /\ Set(Indicated, flashing % 2 = 0)
      /\ cleared' = IF flashing = 1 /\ invert THEN Indicated ELSE {}
      /\ bus' = IF flashing = 1 THEN Tail(bus) ELSE bus
      /\ UNCHANGED <<idleWork, invert, networkUp>>
  BY DEF FlashStep
<1>2. flashing \in Nat
  BY DEF LightsInv
<1>3. \A t : t \in lit' <=> IF t \in Indicated THEN flashing % 2 = 0 ELSE t \in lit
  BY <1>1, SetFacts
<1>4. ("NetworkUp" \in lit') = networkUp
  BY <1>3, IndicatorAssumption DEF LightsInv
<1>5. ASSUME flashing' = 0, NEW t \in Indicated \ (idleWork' \cup cleared') PROVE (t \in lit') = invert
  <2>1. flashing = 1 /\ ~invert
    BY <1>1, <1>2, <1>5
  <2>2. t \notin lit'
    BY <1>3, <2>1
  <2> QED BY <2>1, <2>2 DEF LightsInv
<1>6. flashing' > 0 => bus' = bus
  BY <1>1, <1>2
<1>7. flashing' \in Nat
  BY <1>1, <1>2
<1> QED BY <1>1, <1>4, <1>5, <1>6, <1>7 DEF LightsInv

LEMMA SessionFrame ==
    ASSUME BusInv, SessionInv, NEW d, NEW kinds, Adds(d, kinds), Disjoint(kinds, SessionKinds),
           d = 1 => bus[1].kind \notin SessionKinds, UNCHANGED invert, config'.on = config.on
    PROVE  SessionInv'
<1>1. /\ DOMAIN bus \subseteq Nat /\ DOMAIN bus' \subseteq Nat /\ d \in {0, 1}
      /\ \A j \in DOMAIN bus' : bus'[j].kind \in SessionKinds => j + d \in DOMAIN bus /\ bus'[j] = bus[j + d]
      /\ \A i \in DOMAIN bus : bus[i].kind \in SessionKinds => i - d \in DOMAIN bus' /\ bus'[i - d] = bus[i]
  BY SignalsKept
<1>2. ASSUME NEW j \in DOMAIN bus', LastSession(j)'
      PROVE  config.on = (bus'[j].kind = "opened")
  <2>1. bus'[j].kind \in SessionKinds /\ \A i \in DOMAIN bus' : j < i => bus'[i].kind \notin SessionKinds
    BY <1>2 DEF LastSession
  <2>2. j + d \in DOMAIN bus /\ bus'[j] = bus[j + d] /\ j \in Nat
    BY <1>1, <2>1
  <2>3. ASSUME NEW i \in DOMAIN bus, j + d < i, bus[i].kind \in SessionKinds PROVE FALSE
    <3>1. i - d \in DOMAIN bus' /\ bus'[i - d] = bus[i] /\ j < i - d
      BY <1>1, <2>2, <2>3
    <3> QED BY <2>1, <2>3, <3>1
  <2>4. LastSession(j + d)
    BY <2>1, <2>2, <2>3 DEF LastSession
  <2> QED BY <2>2, <2>4 DEF SessionInv
<1>3. ASSUME \A i \in DOMAIN bus' : bus'[i].kind \notin SessionKinds
      PROVE  invert = config.on
  <2>1. \A i \in DOMAIN bus : bus[i].kind \notin SessionKinds
    BY <1>1, <1>3
  <2> QED BY <2>1 DEF SessionInv
<1> QED BY <1>2, <1>3 DEF SessionInv, LastSession

\* The last signal says how it is.
LEMMA SessionAnnounced ==
    ASSUME IsSeq(bus'), bus' # <<>>, bus'[Len(bus')].kind \in SessionKinds,
           config.on' = (bus'[Len(bus')].kind = "opened")
    PROVE  SessionInv'
<1>1. Len(bus') \in Nat \ {0} /\ DOMAIN bus' = 1 .. Len(bus')
  BY SeqFacts
<1>2. Len(bus') \in DOMAIN bus'
  BY <1>1
<1>3. ASSUME NEW i \in DOMAIN bus', LastSession(i)' PROVE i = Len(bus')
  <2>1. ~(i < Len(bus'))
    BY <1>2, <1>3 DEF LastSession
  <2> QED BY <1>1, <2>1
<1> QED BY <1>2, <1>3 DEF SessionInv, LastSession

LEMMA SessionTold ==
    ASSUME BusInv, SessionInv, NEW open \in BOOLEAN, HeadIs(IF open THEN "opened" ELSE "closed"), ShowSession(open),
           UNCHANGED config
    PROVE  SessionInv' /\ Adds(1, {})
<1>1. bus' = Tail(bus) /\ invert' = open
  BY DEF ShowSession
<1>2. Adds(1, {})
  BY <1>1, TakesOne DEF HeadIs
<1>3. Disjoint({}, SessionKinds)
  BY DEF Disjoint
<1>4. /\ DOMAIN bus \subseteq Nat /\ DOMAIN bus' \subseteq Nat
      /\ \A j \in DOMAIN bus' : bus'[j].kind \in SessionKinds => j + 1 \in DOMAIN bus /\ bus'[j] = bus[j + 1]
      /\ \A i \in DOMAIN bus : i > 1 => i - 1 \in DOMAIN bus' /\ bus'[i - 1] = bus[i]
      /\ \A i \in DOMAIN bus : i >= 1
  BY <1>2, <1>3, SignalsShifted
<1>5. ASSUME NEW j \in DOMAIN bus', LastSession(j)'
      PROVE  config.on = (bus'[j].kind = "opened")
  <2>1. bus'[j].kind \in SessionKinds /\ \A i \in DOMAIN bus' : j < i => bus'[i].kind \notin SessionKinds
    BY <1>5 DEF LastSession
  <2>2. j + 1 \in DOMAIN bus /\ bus'[j] = bus[j + 1] /\ j \in Nat
    BY <1>4, <2>1
  <2>3. ASSUME NEW i \in DOMAIN bus, j + 1 < i, bus[i].kind \in SessionKinds PROVE FALSE
    <3>1. i - 1 \in DOMAIN bus' /\ bus'[i - 1] = bus[i] /\ j < i - 1
      BY <1>4, <2>2, <2>3
    <3> QED BY <2>1, <2>3, <3>1
  <2>4. LastSession(j + 1)
    BY <2>1, <2>2, <2>3 DEF LastSession
  <2> QED BY <2>2, <2>4 DEF SessionInv
<1>6. ASSUME \A i \in DOMAIN bus' : bus'[i].kind \notin SessionKinds
      PROVE  open = config.on
  <2>1. 1 \in DOMAIN bus
    BY SeqFacts DEF BusInv, HeadIs
  <2>2. bus[1].kind = IF open THEN "opened" ELSE "closed"
    BY DEF HeadIs
  <2>3. ASSUME NEW i \in DOMAIN bus, 1 < i, bus[i].kind \in SessionKinds PROVE FALSE
    <3>1. i - 1 \in DOMAIN bus' /\ bus'[i - 1] = bus[i]
      BY <1>4, <2>3
    <3> QED BY <1>6, <2>3, <3>1
  <2>4. LastSession(1)
    BY <2>2, <2>3 DEF LastSession, SessionKinds
  <2>5. config.on = (bus[1].kind = "opened")
    BY <2>1, <2>4 DEF SessionInv
  <2> QED BY <2>2, <2>5
<1> QED BY <1>1, <1>2, <1>5, <1>6 DEF SessionInv, LastSession

-----------------------------------------------------------------------------
(* What the components add to the bus.                                     *)

OscKinds == {"traffic", "refresh", "output", "osc"}
ClientKinds == {"disconnect", "request", "traffic"}

LEMMA ResponsesAreTraffic ==
    ASSUME IsFiniteSet(Slots), NEW host
    PROVE  IsSeq(Responses(host)) /\ \A i \in DOMAIN Responses(host) : /\ Responses(host)[i].kind = "traffic"
                                                                       /\ Responses(host)[i].type # "NetworkUp"
<1> DEFINE T == {t \in Slots : Configured(t)}
           r == [s \in 1 .. Cardinality(T) |-> Traffic("NetworkOut")]
<1>1. IsFiniteSet(T)
  BY FS_Subset
<1>2. Responses(host) = r \/ Responses(host) = <<>>
  BY DEF Responses
<1>3. r = [s \in 1 .. Cardinality(T) |-> Traffic("NetworkOut")]
  OBVIOUS
<1> HIDE DEF T, r
<1>4. IsSeq(r) /\ \A i \in DOMAIN r : r[i].kind = "traffic" /\ r[i].type # "NetworkUp"
  <2>1. "NetworkOut" # "NetworkUp"
    OBVIOUS
  <2> QED BY <1>1, <1>3, <2>1, TrafficIsSeq
<1>5. IsSeq(<<>>) /\ DOMAIN <<>> = {}
  BY SmallSeqs
<1> QED BY <1>2, <1>4, <1>5

\* What a datagram that is acted on becomes.
LEMMA HeardFacts ==
    ASSUME IsFiniteSet(Slots), NEW datagram
    PROVE  /\ IsSeq(Heard(datagram))
           /\ \A i \in DOMAIN Heard(datagram) :
                 /\ Heard(datagram)[i].kind \in OscKinds
                 /\ Heard(datagram)[i].kind = "traffic" => Heard(datagram)[i].type # "NetworkUp"
<1> DEFINE first == <<Traffic("NetworkIn")>>
           h == Heard(datagram)
           Good(r) == IsSeq(r) /\ \A i \in DOMAIN r : r[i].kind \in OscKinds /\ (r[i].kind = "traffic" => r[i].type # "NetworkUp")
<1>1. \/ h = <<>>
      \/ h = first \o Responses(datagram.host)
      \/ h = <<[kind |-> "refresh"], Traffic("NetworkIn")>>
      \/ \E i, v : h = <<[kind |-> "output", index |-> i, value |-> v], Traffic("NetworkIn")>>
  <2> DEFINE message == ParseMessage(datagram.bytes)
             output == ParseIndexed(message.address, "output")
             value == message.args[1].value
             wrong == ~SenderAllowed(datagram.host) \/ ~message.ok
             discover == message.address = Paths["discover"]
             refresh == message.address = Paths["refresh"]
             bare == message.args = <<>>
             other == bare \/ message.args[1].tag # IntTag \/ output = -1
             answers == <<Traffic("NetworkIn")>> \o Responses(datagram.host)
             refreshed == <<[kind |-> "refresh"], Traffic("NetworkIn")>>
             shown == <<[kind |-> "output", index |-> output, value |-> value], Traffic("NetworkIn")>>
  <2>1. h = CASE wrong -> <<>>
              [] discover -> IF bare THEN answers ELSE <<>>
              [] refresh -> IF bare THEN refreshed ELSE <<>>
              [] other -> <<>>
              [] OTHER -> shown
    BY DEF Heard
  <2> HIDE DEF wrong, discover, refresh, bare, other, answers, refreshed, shown, h
  <2>2. h = <<>> \/ h = answers \/ h = refreshed \/ h = shown
    BY <2>1
  <2>3. \E i, v : shown = <<[kind |-> "output", index |-> i, value |-> v], Traffic("NetworkIn")>>
    BY DEF shown
  <2> QED BY <2>2, <2>3 DEF answers, refreshed
<1>2. Traffic("NetworkIn").kind = "traffic" /\ Traffic("NetworkIn").type = "NetworkIn"
  BY DEF Traffic
<1>3. Good(<<>>)
  BY SmallSeqs
<1>4. \A a : a.kind \in OscKinds \ {"traffic"} => Good(<<a, Traffic("NetworkIn")>>)
  <2> TAKE a
  <2> HAVE a.kind \in OscKinds \ {"traffic"}
  <2> DEFINE r == <<a, Traffic("NetworkIn")>>
  <2>1. IsSeq(r) /\ Len(r) = 2 /\ r[1] = a /\ r[2] = Traffic("NetworkIn")
    BY SmallSeqs
  <2> HIDE DEF r
  <2>2. DOMAIN r = {1, 2}
    BY <2>1, SeqFacts
  <2>3. Good(r)
    BY <1>2, <2>1, <2>2 DEF OscKinds
  <2> QED BY <2>3 DEF r
<1>5. Good(first \o Responses(datagram.host))
  <2> DEFINE q == Responses(datagram.host)
             r == first \o q
  <2>1. IsSeq(q) /\ \A i \in DOMAIN q : q[i].kind = "traffic" /\ q[i].type # "NetworkUp"
    BY ResponsesAreTraffic
  <2>2. IsSeq(first) /\ Len(first) = 1 /\ first[1] = Traffic("NetworkIn")
    BY SmallSeqs
  <2> HIDE DEF q, first
  <2>3. /\ IsSeq(r) /\ Len(r) = 1 + Len(q)
        /\ \A i \in 1 .. 1 + Len(q) : r[i] = IF i <= 1 THEN first[i] ELSE q[i - 1]
    <3>1. IsSeq(first) /\ IsSeq(q)
      BY <2>1, <2>2
    <3>2. /\ IsSeq(r) /\ Len(r) = Len(first) + Len(q)
          /\ \A i \in 1 .. Len(first) + Len(q) : r[i] = IF i <= Len(first) THEN first[i] ELSE q[i - Len(first)]
      BY ONLY <3>1, ConcatIsSeq
    <3> QED BY <2>2, <3>2
  <2> HIDE DEF r
  <2>4. DOMAIN r = 1 .. 1 + Len(q) /\ DOMAIN q = 1 .. Len(q) /\ Len(q) \in Nat
    BY <2>1, <2>3, SeqFacts
  <2>5. ASSUME NEW i \in DOMAIN r PROVE r[i].kind = "traffic" /\ r[i].type # "NetworkUp"
    <3>1. CASE i <= 1
      <4>1. i = 1
        BY <2>4, <3>1
      <4> QED BY <1>2, <2>2, <2>3, <2>4, <4>1
    <3>2. CASE ~(i <= 1)
      <4>1. i - 1 \in DOMAIN q
        BY <2>4, <3>2
      <4> QED BY <2>1, <2>3, <2>4, <3>2, <4>1
    <3> QED BY <3>1, <3>2
  <2>6. Good(r)
    BY <2>3, <2>5 DEF OscKinds
  <2> QED BY <2>6 DEF r, q
<1>6. [kind |-> "refresh"].kind = "refresh" /\ \A i, v : [kind |-> "output", index |-> i, value |-> v].kind = "output"
  OBVIOUS
<1>7. Good(<<[kind |-> "refresh"], Traffic("NetworkIn")>>)
  BY <1>4, <1>6 DEF OscKinds
<1>8. \A i, v : Good(<<[kind |-> "output", index |-> i, value |-> v], Traffic("NetworkIn")>>)
  BY <1>4, <1>6 DEF OscKinds
<1> HIDE DEF Good
<1>9. Good(h)
  BY <1>1, <1>3, <1>5, <1>7, <1>8
<1> QED BY <1>9 DEF Good

LEMMA AddsSome ==
    ASSUME NEW r, NEW kinds, IsSeq(r), bus' = bus \o r,
           \A i \in DOMAIN r : r[i].kind \in kinds /\ (r[i].kind = "traffic" => r[i].type # "NetworkUp")
    PROVE  Adds(0, kinds)
<1>1. BusStep(0, r)
  BY DEF BusStep, Shift
<1> QED BY <1>1 DEF Adds

LEMMA OscAdds ==
    ASSUME BusInv, IsFiniteSet(Slots), IsFiniteSet(DOMAIN oscSettings.destinations),
           \/ TakeWake \/ SendThread \/ SendTo \/ ReadThread \/ Receive \/ ReceiveFault \/ StartOsc
           \/ PublishSignal \/ WriteOsc \/ TimePasses \/ HostChanges
    PROVE  Adds(0, OscKinds)
<1>1. CASE UNCHANGED bus
  BY <1>1, BusUnchanged, AddsMore
<1>2. CASE TakeWake \/ SendThread \/ ReadThread \/ ReceiveFault \/ WriteOsc \/ TimePasses \/ HostChanges
  BY <1>1, <1>2 DEF TakeWake, SendThread, ReadThread, ReceiveFault, WriteOsc, TimePasses, HostChanges, sharedVars
<1>3. CASE SendTo
  <2>1. bus' = Append(bus, Traffic("NetworkOut")) \/ UNCHANGED bus
    BY <1>3 DEF SendTo
  <2>2. Traffic("NetworkOut").kind = "traffic" /\ Traffic("NetworkOut").type # "NetworkUp"
    BY DEF Traffic
  <2>3. CASE bus' = Append(bus, Traffic("NetworkOut"))
    <3>1. Adds(0, {Traffic("NetworkOut").kind})
      BY <2>2, <2>3, AddsOne
    <3> QED BY <2>2, <3>1, AddsMore DEF OscKinds
  <2> QED BY <1>1, <2>1, <2>3
<1>4. CASE Receive
  <2>1. PICK datagram : bus' = bus \o Heard(datagram)
    BY <1>4 DEF Receive
  <2>2. /\ IsSeq(Heard(datagram))
        /\ \A i \in DOMAIN Heard(datagram) :
              /\ Heard(datagram)[i].kind \in OscKinds
              /\ Heard(datagram)[i].kind = "traffic" => Heard(datagram)[i].type # "NetworkUp"
    BY HeardFacts
  <2> QED BY <2>1, <2>2, AddsSome
<1>5. CASE StartOsc
  <2>1. bus = <<>> /\ (Announce(Refreshed(oscSettings)) \/ UNCHANGED bus)
    BY <1>5 DEF StartOsc
  <2>2. CASE Announce(Refreshed(oscSettings))
    <3>1. IsFiniteSet(DOMAIN Refreshed(oscSettings))
      BY RefreshedFacts
    <3>2. Adds(IF Signalled("identity") THEN 1 ELSE 0, {"traffic"})
      BY <2>2, <3>1, AnnounceAdds
    <3>3. ~Signalled("identity")
      <4>1. DOMAIN <<>> = {}
        OBVIOUS
      <4> QED BY <2>1, <4>1 DEF Signalled
    <3> QED BY <3>2, <3>3, AddsMore DEF OscKinds
  <2> QED BY <1>1, <2>1, <2>2
<1>6. CASE PublishSignal
  <2>1. PICK signal : bus' = Append(bus, [kind |-> "osc", signal |-> signal])
    BY <1>6 DEF PublishSignal
  <2> DEFINE m == [kind |-> "osc", signal |-> signal]
  <2>2. m.kind = "osc" /\ bus' = Append(bus, m)
    BY <2>1
  <2> HIDE DEF m
  <2>3. Adds(0, {m.kind})
    BY <2>2, AddsOne
  <2> QED BY <2>2, <2>3, AddsMore DEF OscKinds
<1> QED BY <1>2, <1>3, <1>4, <1>5, <1>6

\* The client's handler announces the end of a session.
LEMMA CloseSessionAdds ==
    ASSUME BusInv, NEW id, CloseSession(id)
    PROVE  Adds(0, ClientKinds)
<1>1. CASE bus' = Append(bus, [kind |-> "disconnect", session |-> id])
  <2> DEFINE m == [kind |-> "disconnect", session |-> id]
  <2>1. m.kind = "disconnect" /\ bus' = Append(bus, m)
    BY <1>1
  <2> HIDE DEF m
  <2>2. Adds(0, {m.kind})
    BY <2>1, AddsOne
  <2> QED BY <2>1, <2>2, AddsMore DEF ClientKinds
<1>2. CASE UNCHANGED bus
  BY <1>2, BusUnchanged, AddsMore
<1> QED BY <1>1, <1>2 DEF CloseSession

\* A frame of the client becomes a request or the end of the session, with the traffic that it is.
LEMMA FrameAdds ==
    ASSUME BusInv, HandleSysEx \/ HandleBegin
    PROVE  Adds(0, ClientKinds)
<1>1. /\ Traffic("NetworkIn").kind = "traffic" /\ Traffic("NetworkIn").type # "NetworkUp"
      /\ Traffic("NetworkOut").kind = "traffic" /\ Traffic("NetworkOut").type # "NetworkUp"
  BY DEF Traffic
<1>2. CASE HandleSysEx
  <2> DEFINE a == [kind |-> "request", session |-> clientLoop.generation, asker |-> clientLoop.frame.asker]
             r == <<a, Traffic("NetworkIn")>>
  <2>1. bus' = bus \o r /\ a.kind = "request"
    BY <1>2 DEF HandleSysEx
  <2> HIDE DEF a
  <2>2. IsSeq(r) /\ Len(r) = 2 /\ r[1] = a /\ r[2] = Traffic("NetworkIn")
    BY SmallSeqs
  <2> HIDE DEF r
  <2>3. DOMAIN r = {1, 2}
    BY <2>2, SeqFacts
  <2>4. \A i \in DOMAIN r : r[i].kind \in ClientKinds /\ (r[i].kind = "traffic" => r[i].type # "NetworkUp")
    BY <1>1, <2>1, <2>2, <2>3 DEF ClientKinds
  <2> QED BY <2>1, <2>2, <2>4, AddsSome
<1>3. CASE HandleBegin
  <2> DEFINE a == [kind |-> "disconnect", session |-> clientLoop.generation]
             r == <<a, Traffic("NetworkIn"), Traffic("NetworkOut")>>
  <2>1. bus' = bus \o r /\ a.kind = "disconnect"
    BY <1>3 DEF HandleBegin
  <2> HIDE DEF a
  <2>2. IsSeq(r) /\ Len(r) = 3 /\ r[1] = a /\ r[2] = Traffic("NetworkIn") /\ r[3] = Traffic("NetworkOut")
    BY SmallSeqs
  <2> HIDE DEF r
  <2>3. DOMAIN r = {1, 2, 3}
    BY <2>2, SeqFacts
  <2>4. \A i \in DOMAIN r : r[i].kind \in ClientKinds /\ (r[i].kind = "traffic" => r[i].type # "NetworkUp")
    BY <1>1, <2>1, <2>2, <2>3 DEF ClientKinds
  <2> QED BY <2>1, <2>2, <2>4, AddsSome
<1> QED BY <1>2, <1>3

QuietClientStep ==
    \/ Accept \/ Replace \/ Adopt \/ TakeClient \/ ReceiveFrame \/ CloseClient
    \/ TakeTx \/ NextFrame \/ SendFrame \/ ClientSends \/ ClientLeaves

LEMMA ClientAdds ==
    ASSUME BusInv, QuietClientStep \/ NotifyReplaced \/ NotifyClosed \/ HandleSysEx \/ HandleBegin
    PROVE  Adds(0, ClientKinds) /\ UNCHANGED config
<1>1. CASE QuietClientStep
  <2>1. UNCHANGED <<bus, config>>
    BY <1>1 DEF QuietClientStep, Accept, Replace, Adopt, TakeClient, ReceiveFrame, CloseClient, TakeTx, NextFrame,
                SendFrame, ClientSends, ClientLeaves, sharedVars, webConfig
  <2> QED BY <2>1, BusUnchanged, AddsMore
<1>2. CASE NotifyReplaced
  <2>1. CloseSession(accepting.old.generation) /\ UNCHANGED config
    BY <1>2 DEF NotifyReplaced
  <2> QED BY <2>1, CloseSessionAdds
<1>3. CASE NotifyClosed
  <2>1. CloseSession(clientLoop.generation) /\ UNCHANGED config
    BY <1>3 DEF NotifyClosed
  <2> QED BY <2>1, CloseSessionAdds
<1>4. CASE HandleSysEx \/ HandleBegin
  <2>1. UNCHANGED config
    BY <1>4 DEF HandleSysEx, HandleBegin, webConfig
  <2> QED BY <1>4, <2>1, FrameAdds
<1> QED BY <1>1, <1>2, <1>3, <1>4

\* The session ends by itself: System tells the indicators.
LEMMA TimeoutAdds ==
    ASSUME BusInv, ConfigTimeout
    PROVE  Adds(0, {"closed"}) /\ SessionInv'
<1> DEFINE m == [kind |-> "closed"]
<1>1. m.kind = "closed" /\ bus' = Append(bus, m)
  BY DEF ConfigTimeout
<1>2. config'.on = FALSE
  <2>1. config' = [config EXCEPT !.on = FALSE] /\ config.on
    BY DEF ConfigTimeout
  <2> QED BY <2>1
<1> HIDE DEF m
<1>3. Adds(0, {"closed"})
  BY <1>1, AddsOne
<1>4. IsSeq(bus') /\ bus' # <<>> /\ bus'[Len(bus')] = m
  <2>1. bus \in Seq({bus[i] : i \in DOMAIN bus} \cup {m})
    BY SeqMonotonic DEF BusInv, IsSeq
  <2>2. /\ Append(bus, m) \in Seq({bus[i] : i \in DOMAIN bus} \cup {m}) /\ Append(bus, m) # <<>>
        /\ Append(bus, m)[Len(Append(bus, m))] = m
    BY <2>1, AppendProperties
  <2> QED BY <1>1, <2>2, IsASeqOfAnything
<1>5. SessionInv'
  BY <1>1, <1>2, <1>4, SessionAnnounced DEF SessionKinds
<1> QED BY <1>3, <1>5

-----------------------------------------------------------------------------
(* What System does on the dispatcher.                                     *)

LEMMA TailIsSeq == ASSUME BusInv, bus # <<>> PROVE IsSeq(Tail(bus))
<1>1. bus \in Seq({bus[i] : i \in DOMAIN bus})
  BY DEF BusInv, IsSeq
<1>2. Tail(bus) \in Seq({bus[i] : i \in DOMAIN bus})
  BY <1>1, HeadTailProperties
<1> QED BY <1>2, IsASeqOfAnything

LEMMA TakesSome ==
    ASSUME BusInv, bus # <<>>, NEW r, NEW kinds, IsSeq(r), bus' = Tail(bus) \o r,
           \A i \in DOMAIN r : r[i].kind \in kinds /\ (r[i].kind = "traffic" => r[i].type # "NetworkUp")
    PROVE  BusStep(1, r) /\ Adds(1, kinds)
<1>1. BusStep(1, r)
  BY DEF BusStep, Shift
<1> QED BY <1>1 DEF Adds

\* One signal is taken and one is added.
LEMMA TakesAndAddsOne ==
    ASSUME BusInv, bus # <<>>, NEW m, bus' = Append(Tail(bus), m), m.kind = "traffic" => m.type # "NetworkUp"
    PROVE  BusStep(1, <<m>>) /\ Adds(1, {m.kind}) /\ bus' # <<>> /\ bus'[Len(bus')] = m
<1>1. IsSeq(<<m>>) /\ DOMAIN <<m>> = {1} /\ <<m>>[1] = m
  <2>1. IsSeq(<<m>>) /\ Len(<<m>>) = 1 /\ <<m>>[1] = m
    BY SmallSeqs
  <2> QED BY <2>1, SeqFacts
<1>2. IsSeq(Tail(bus))
  BY TailIsSeq
<1>3. bus' = Tail(bus) \o <<m>>
  BY <1>2, AppendingIsConcat
<1>4. \A i \in DOMAIN <<m>> : <<m>>[i].kind \in {m.kind} /\ (<<m>>[i].kind = "traffic" => <<m>>[i].type # "NetworkUp")
  BY <1>1
<1>5. BusStep(1, <<m>>) /\ Adds(1, {m.kind})
  BY <1>1, <1>3, <1>4, TakesSome
<1>6. bus' # <<>> /\ bus'[Len(bus')] = m
  <2>1. Tail(bus) \in Seq({Tail(bus)[i] : i \in DOMAIN Tail(bus)} \cup {m})
    BY <1>2, SeqMonotonic DEF IsSeq
  <2> QED BY <2>1, AppendProperties
<1> QED BY <1>5, <1>6

\* The packets of an answer, and what follows them.
PacketsThen(r, id, asker, x) ==
    /\ IsSeq(r) /\ Len(r) = Fragments + Len(x)
    /\ \A i \in 1 .. Fragments : r[i] = [kind |-> "response", session |-> id, asker |-> asker, part |-> i]
    /\ \A i \in DOMAIN r : i > Fragments => i - Fragments \in DOMAIN x /\ r[i] = x[i - Fragments]

LEMMA ResponseFacts ==
    ASSUME NEW id, NEW asker, NEW x, IsSeq(x)
    PROVE  PacketsThen(Response(id, asker) \o x, id, asker, x)
<1> DEFINE q == Response(id, asker)
           r == q \o x
<1>1. Fragments \in Nat /\ Len(x) \in Nat /\ DOMAIN x = 1 .. Len(x)
  BY WebAssumption, SeqFacts
<1>2. q = [i \in 1 .. Fragments |-> [kind |-> "response", session |-> id, asker |-> asker, part |-> i]]
  BY DEF Response
<1> HIDE DEF q
<1>3. q = [i \in 1 .. Fragments |-> q[i]]
  BY <1>2
<1>4. IsSeq(q) /\ Len(q) = Fragments
  BY <1>1, <1>3, SegmentIsSeq
<1>5. /\ IsSeq(r) /\ Len(r) = Len(q) + Len(x)
      /\ \A i \in 1 .. Len(q) + Len(x) : r[i] = IF i <= Len(q) THEN q[i] ELSE x[i - Len(q)]
  BY <1>4, ConcatIsSeq
<1> HIDE DEF r
<1>6. DOMAIN r = 1 .. Fragments + Len(x)
  BY <1>4, <1>5, SeqFacts
<1>7. \A i \in 1 .. Fragments : r[i] = [kind |-> "response", session |-> id, asker |-> asker, part |-> i]
  BY <1>1, <1>2, <1>4, <1>5
<1>8. \A i \in DOMAIN r : i > Fragments => i - Fragments \in DOMAIN x /\ r[i] = x[i - Fragments]
  BY <1>1, <1>4, <1>5, <1>6
<1> QED BY <1>4, <1>5, <1>7, <1>8 DEF r, q, PacketsThen

\* The signals that a request becomes: an answer, and the start of the session.
Answered(request) == Response(request.session, request.asker) \o (IF config.on THEN <<>> ELSE <<[kind |-> "opened"]>>)

LEMMA AnsweredFacts ==
    ASSUME NEW request
    PROVE  LET r == Answered(request)
           IN /\ IsSeq(r) /\ Len(r) \in Nat /\ DOMAIN r = 1 .. Len(r)
              /\ Len(r) = IF config.on THEN Fragments ELSE Fragments + 1
              /\ \A i \in 1 .. Fragments :
                    r[i] = [kind |-> "response", session |-> request.session, asker |-> request.asker, part |-> i]
              /\ \A i \in DOMAIN r : i > Fragments => i = Fragments + 1 /\ ~config.on /\ r[i] = [kind |-> "opened"]
<1> DEFINE x == IF config.on THEN <<>> ELSE <<[kind |-> "opened"]>>
           r == Response(request.session, request.asker) \o x
<1>1. /\ IsSeq(x) /\ Len(x) = (IF config.on THEN 0 ELSE 1)
      /\ ~config.on => x[1] = [kind |-> "opened"]
  BY SmallSeqs
<1> HIDE DEF x
<1>2. Fragments \in Nat
  BY WebAssumption
<1>3. DOMAIN x = 1 .. Len(x)
  BY <1>1, SeqFacts
<1>4. /\ IsSeq(r) /\ Len(r) = Fragments + Len(x)
      /\ \A i \in 1 .. Fragments :
            r[i] = [kind |-> "response", session |-> request.session, asker |-> request.asker, part |-> i]
      /\ \A i \in DOMAIN r : i > Fragments => i - Fragments \in DOMAIN x /\ r[i] = x[i - Fragments]
  <2>1. IsSeq(x)
    BY <1>1
  <2>2. PacketsThen(Response(request.session, request.asker) \o x, request.session, request.asker, x)
    BY <2>1, ResponseFacts
  <2> QED BY <2>2 DEF PacketsThen
<1>5. r = Answered(request)
  BY DEF Answered, x
<1> HIDE DEF r
<1>6. Len(r) \in Nat /\ DOMAIN r = 1 .. Len(r)
  BY <1>4, SeqFacts
<1>7. Len(r) = IF config.on THEN Fragments ELSE Fragments + 1
  BY <1>1, <1>2, <1>4
<1>8. ASSUME NEW i \in DOMAIN r, i > Fragments PROVE i = Fragments + 1 /\ ~config.on /\ r[i] = [kind |-> "opened"]
  <2>1. i - Fragments \in 1 .. Len(x) /\ r[i] = x[i - Fragments]
    BY <1>3, <1>4, <1>8
  <2>2. ~config.on /\ Len(x) = 1
    BY <1>1, <2>1
  <2>3. i - Fragments = 1 /\ i = Fragments + 1
    BY <1>2, <1>6, <2>1, <2>2
  <2> QED BY <1>1, <2>1, <2>2, <2>3
<1> QED BY <1>4, <1>5, <1>6, <1>7, <1>8

LEMMA RequestAdds ==
    ASSUME BusInv, SessionInv, bus # <<>>, bus[1].kind \notin SessionKinds, HandleRequest(bus[1])
    PROVE  /\ BusStep(1, Answered(bus[1])) /\ Adds(1, {"response", "opened"})
           /\ config' = [on |-> TRUE, session |-> bus[1].session]
           /\ config.on => Adds(1, {"response"})
           /\ ~config.on => bus' # <<>> /\ bus'[Len(bus')].kind = "opened"
<1> DEFINE r == Answered(bus[1])
<1>1. bus' = Tail(bus) \o r
  <2> DEFINE q == Response(bus[1].session, bus[1].asker)
             x == IF config.on THEN <<>> ELSE <<[kind |-> "opened"]>>
  <2>1. bus' = (Tail(bus) \o q) \o x
    BY DEF HandleRequest
  <2>2. IsSeq(x)
    BY SmallSeqs
  <2>3. IsSeq(q)
    <3>1. IsSeq(q \o <<>>) /\ q = q \o <<>>
      <4>1. Fragments \in Nat /\ q = [i \in 1 .. Fragments |-> q[i]]
        BY WebAssumption DEF Response
      <4> HIDE DEF q
      <4>2. IsSeq(q)
        BY <4>1, SegmentIsSeq
      <4> QED BY <4>2, ConcatNothing
    <3> QED BY <3>1
  <2>4. IsSeq(Tail(bus))
    BY TailIsSeq
  <2>5. r = q \o x
    BY DEF Answered
  <2> HIDE DEF q, x, r
  <2> QED BY <2>1, <2>2, <2>3, <2>4, <2>5, ConcatJoins
<1>2. /\ IsSeq(r) /\ Len(r) \in Nat /\ DOMAIN r = 1 .. Len(r)
      /\ Len(r) = IF config.on THEN Fragments ELSE Fragments + 1
      /\ \A i \in 1 .. Fragments :
            r[i] = [kind |-> "response", session |-> bus[1].session, asker |-> bus[1].asker, part |-> i]
      /\ \A i \in DOMAIN r : i > Fragments => i = Fragments + 1 /\ ~config.on /\ r[i] = [kind |-> "opened"]
  BY AnsweredFacts
<1> HIDE DEF r
<1>3. Fragments \in Nat
  BY WebAssumption
<1>4. \A i \in DOMAIN r : /\ r[i].kind \in {"response", "opened"}
                          /\ config.on => r[i].kind = "response"
  <2> TAKE i \in DOMAIN r
  <2>1. CASE i > Fragments
    BY <1>2, <2>1
  <2>2. CASE ~(i > Fragments)
    <3>1. i \in 1 .. Fragments
      BY <1>2, <1>3, <2>2
    <3>2. r[i] = [kind |-> "response", session |-> bus[1].session, asker |-> bus[1].asker, part |-> i]
      BY <1>2, <3>1
    <3>3. r[i].kind = "response"
      BY <3>2
    <3> QED BY <3>3
  <2> QED BY <2>1, <2>2
<1>5. BusStep(1, r) /\ Adds(1, {"response", "opened"})
  BY <1>1, <1>2, <1>4, TakesSome
<1>6. config.on => Adds(1, {"response"})
  BY <1>1, <1>2, <1>4, TakesSome
<1>7. ASSUME ~config.on PROVE bus' # <<>> /\ bus'[Len(bus')].kind = "opened"
  <2>1. Fragments + 1 \in DOMAIN r /\ Fragments + 1 > Fragments
    BY <1>2, <1>3, <1>7
  <2>2. /\ DOMAIN bus' = 1 .. Len(bus) - 1 + Len(r) /\ Len(bus) \in Nat /\ 1 <= Len(bus)
        /\ \A i \in DOMAIN r : Len(bus) - 1 + i \in DOMAIN bus' /\ bus'[Len(bus) - 1 + i] = r[i]
    BY <1>5, BusFacts
  <2>3. Len(bus') = Len(bus) - 1 + Len(r)
    <3>1. IsSeq(bus')
      BY <1>5, BusFacts
    <3>2. Len(bus') \in Nat /\ DOMAIN bus' = 1 .. Len(bus')
      BY <3>1, SeqFacts
    <3> QED BY <1>2, <2>2, <3>2
  <2>4. bus'[Len(bus')] = r[Fragments + 1]
    BY <1>2, <1>7, <2>1, <2>2, <2>3
  <2>5. r[Fragments + 1] = [kind |-> "opened"]
    BY <1>2, <2>1
  <2>6. bus' # <<>>
    BY <2>1, <2>2
  <2> QED BY <2>4, <2>5, <2>6
<1>8. config' = [on |-> TRUE, session |-> bus[1].session]
  BY DEF HandleRequest
<1> QED BY <1>5, <1>6, <1>7, <1>8 DEF r

LEMMA DisconnectAdds ==
    ASSUME BusInv, SessionInv, HeadIs("disconnect"), HandleDisconnect(bus[1]), UNCHANGED invert
    PROVE  Adds(1, {"closed"}) /\ SessionInv'
<1>1. CASE config' = [config EXCEPT !.on = FALSE] /\ config.on /\ bus' = Append(Tail(bus), [kind |-> "closed"])
  <2> DEFINE m == [kind |-> "closed"]
  <2>1. m.kind = "closed" /\ bus' = Append(Tail(bus), m) /\ config'.on = FALSE
    BY <1>1
  <2> HIDE DEF m
  <2>2. Adds(1, {m.kind}) /\ bus' # <<>> /\ bus'[Len(bus')] = m
    BY <2>1, TakesAndAddsOne DEF HeadIs
  <2>3. BusInv'
    BY <2>2, BusKept
  <2>4. SessionInv'
    BY <2>1, <2>2, <2>3, SessionAnnounced DEF SessionKinds, BusInv
  <2> QED BY <2>1, <2>2, <2>4
<1>2. CASE bus' = Tail(bus) /\ UNCHANGED config
  <2>1. Adds(1, {})
    BY <1>2, TakesOne DEF HeadIs
  <2>2. Disjoint({}, SessionKinds) /\ bus[1].kind \notin SessionKinds
    BY DEF Disjoint, HeadIs, SessionKinds
  <2>3. SessionInv'
    BY <1>2, <2>1, <2>2, SessionFrame
  <2> QED BY <2>1, <2>3, AddsMore
<1> QED BY <1>1, <1>2 DEF HandleDisconnect

LEMMA RequestTold ==
    ASSUME BusInv, SessionInv, HeadIs("request"), HandleRequest(bus[1]), UNCHANGED invert
    PROVE  Adds(1, {"response", "opened"}) /\ SessionInv'
<1>1. bus # <<>> /\ bus[1].kind \notin SessionKinds
  BY DEF HeadIs, SessionKinds
<1>2. /\ Adds(1, {"response", "opened"}) /\ config' = [on |-> TRUE, session |-> bus[1].session]
      /\ config.on => Adds(1, {"response"})
      /\ ~config.on => bus' # <<>> /\ bus'[Len(bus')].kind = "opened"
  BY <1>1, RequestAdds
<1>3. BusInv'
  BY <1>2, BusKept
<1>4. CASE ~config.on
  <2>1. config'.on = TRUE
    BY <1>2
  <2> QED BY <1>2, <1>3, <1>4, <2>1, SessionAnnounced DEF SessionKinds, BusInv
<1>5. CASE config.on
  <2>1. Disjoint({"response"}, SessionKinds)
    BY DEF Disjoint, SessionKinds
  <2>2. config'.on = config.on
    BY <1>2, <1>5 DEF SessionInv
  <2>3. SessionInv'
    BY <1>1, <1>2, <1>5, <2>1, <2>2, SessionFrame
  <2> QED BY <1>2, <2>3
<1> QED BY <1>2, <1>4, <1>5

LEMMA ResponseTold ==
    ASSUME BusInv, HeadIs("response"), HandleResponse(bus[1])
    PROVE  Adds(1, {"traffic"}) /\ UNCHANGED config
<1>1. UNCHANGED config
  BY DEF HandleResponse
<1>2. CASE bus' = Tail(bus)
  BY <1>1, <1>2, TakesOne, AddsMore DEF HeadIs
<1>3. CASE bus' = Append(Tail(bus), Traffic("NetworkOut"))
  <2> DEFINE m == Traffic("NetworkOut")
  <2>1. m.kind = "traffic" /\ m.type # "NetworkUp" /\ bus' = Append(Tail(bus), m)
    BY <1>3 DEF Traffic
  <2> HIDE DEF m
  <2>2. Adds(1, {m.kind})
    BY <2>1, TakesAndAddsOne DEF HeadIs
  <2> QED BY <1>1, <2>1, <2>2
<1> QED BY <1>2, <1>3 DEF HandleResponse

-----------------------------------------------------------------------------
(* Every step keeps what OSC, mDNS and the indicators rest on.             *)


LEMMA OscStarts == ASSUME OscInv, StartOsc PROVE OscInv'
<1>1. /\ IsFiniteSet(DOMAIN oscSettings.destinations) /\ oscOn' = TRUE
      /\ UNCHANGED <<oscSettings, queue, wake, sender, reader, listening, late, sockets, uptime>>
  BY DEF StartOsc, OscInv, ListenerInv, readState, oscEnvironment
<1>2. ListenerInv'
  BY <1>1 DEF OscInv, ListenerInv, Open, SettingsForm
<1> DEFINE d == Refreshed(oscSettings)
<1>3. /\ DOMAIN d = DOMAIN oscSettings.destinations
      /\ \A s \in DOMAIN d : d[s] = DestinationForm(d[s]) /\ d[s].retryAt = 0
  BY RefreshedFacts
<1>4. Announce(d) \/ (destinations' = d /\ UNCHANGED <<refused, crossed>>)
  BY DEF StartOsc
<1> HIDE DEF d
<1>5. /\ DOMAIN destinations' = DOMAIN d
      /\ \A s \in DOMAIN d : destinations'[s] = DestinationForm(destinations'[s])
      /\ \A s \in DOMAIN d : destinations'[s].host # 0 /\ destinations'[s].retryAt # 0 => s \in refused' \cup crossed'
  <2>1. CASE Announce(d)
    BY <1>3, <2>1, AnnounceHasReason
  <2>2. CASE destinations' = d
    BY <1>3, <2>2
  <2> QED BY <1>4, <2>1, <2>2
<1>6. SenderInv'
  BY <1>1, <1>3, <1>5 DEF OscInv, SenderInv, Slots, Configured
<1> QED BY <1>2, <1>6 DEF OscInv

LEMMA OscKept ==
    ASSUME OscInv,
           \/ TakeWake \/ SendThread \/ SendTo \/ ReadThread \/ Receive \/ ReceiveFault \/ StartOsc
           \/ PublishSignal \/ WriteOsc \/ TimePasses \/ HostChanges
    PROVE  OscInv' /\ UNCHANGED identity
<1> USE DEF OscInv
<1>1. oscSettings = SettingsForm(oscSettings) /\ IsFiniteSet(DOMAIN oscSettings.destinations)
  BY DEF ListenerInv
<1>2. CASE TakeWake \/ SendTo
  <2>1. UNCHANGED listenerState /\ UNCHANGED identity
    BY <1>2 DEF TakeWake, SendTo, listenerState, readState, oscConfig
  <2> QED BY <1>1, <1>2, <2>1, SenderKept, ListenerFrame
<1>3. CASE SendThread
  <2>1. UNCHANGED <<oscSettings, oscOn, reader, listening, late, identity>>
    BY <1>3 DEF SendThread, readState, oscConfig
  <2>2. UNCHANGED sockets \/ (CanOpen /\ sockets' = Opened(FreeSocket, 0))
    BY <1>3 DEF SendThread, Drained, RemovePacket, NextSlot
  <2>3. ListenerInv'
    <3>1. CASE UNCHANGED sockets
      BY <2>1, <3>1, ListenerFrame DEF listenerState
    <3>2. CASE CanOpen /\ sockets' = Opened(FreeSocket, 0)
      BY <2>1, <3>2, OtherSocketOpened
    <3> QED BY <2>2, <3>1, <3>2
  <2> QED BY <1>1, <1>3, <2>1, <2>3, SenderKept
<1>4. CASE ReadThread \/ Receive \/ ReceiveFault
  <2>1. UNCHANGED senderState /\ UNCHANGED identity
    BY <1>4 DEF ReadThread, Receive, ReceiveFault, senderState, sendState, oscEnvironment
  <2> QED BY <1>4, <2>1, SenderFrame, ReadThreadKept, ReceiveKept
<1>5. CASE StartOsc
  <2>1. UNCHANGED identity
    BY <1>5 DEF StartOsc
  <2> QED BY <1>5, <2>1, OscStarts
<1>6. CASE PublishSignal \/ HostChanges
  <2>1. UNCHANGED <<senderState, listenerState, identity>>
    BY <1>6 DEF PublishSignal, HostChanges, oscVars, oscConfig, sendState, readState, oscEnvironment, senderState, listenerState
  <2> QED BY <2>1, SenderFrame, ListenerFrame
<1>7. CASE TimePasses
  <2>1. UNCHANGED <<listenerState, identity, destinations, sender, wake, queue, refused, crossed>>
    BY <1>7 DEF TimePasses, oscConfig, sendState, readState, oscEnvironment, listenerState
  <2>2. uptime' \in 0 .. TimeModulus - 1
    <3>1. PICK time \in {1, TimeModulus \div 2} : uptime' = (uptime + time) % TimeModulus
      BY <1>7 DEF TimePasses
    <3>2. TimeModulus \in Nat \ {0} /\ uptime \in Nat /\ TimeModulus \div 2 \in Nat
      BY OscAssumption DEF SenderInv
    <3>3. uptime + time \in Nat
      BY <3>1, <3>2
    <3>4. \A n \in Nat : n % TimeModulus \in 0 .. TimeModulus - 1
      BY <3>2
    <3> QED BY <3>1, <3>3, <3>4
  <2>3. SenderInv'
    BY <2>1, <2>2 DEF SenderInv, Slots, Configured, DestinationForm
  <2> QED BY <2>1, <2>3, ListenerFrame
<1>8. CASE WriteOsc
  <2>1. UNCHANGED identity
    BY <1>8 DEF WriteOsc
  <2> QED BY <1>1, <1>8, <2>1, SenderKept, WriteKeepsListener
<1> QED BY <1>2, <1>3, <1>4, <1>5, <1>6, <1>7, <1>8

\* OSC is left alone.
LEMMA OscFrame == ASSUME OscInv, UNCHANGED <<senderState, listenerState>> PROVE OscInv'
BY SenderFrame, ListenerFrame DEF OscInv

\* A signal goes from an input or a sensor to the queue.
LEMMA SignalKept ==
    ASSUME BusInv, OscInv, NEW signal, bus # <<>>, HandleSignal(signal)
    PROVE  OscInv' /\ Adds(1, {}) /\ UNCHANGED identity
<1>1. /\ bus' = Tail(bus) /\ UNCHANGED listenerState /\ UNCHANGED <<identity, destinations, sender, refused, crossed, uptime>>
  BY DEF HandleSignal, oscConfig, readState, oscEnvironment, listenerState
<1>2. Adds(1, {})
  BY <1>1, TakesOne
<1>3. wake' \/ UNCHANGED <<queue, wake>>
  BY DEF HandleSignal, Enqueue
<1>4. SenderInv'
  BY <1>1, <1>3 DEF OscInv, SenderInv, Slots, Configured, DestinationForm
<1> QED BY <1>1, <1>2, <1>4, ListenerFrame DEF OscInv

\* What the device's components have in common with a step that leaves them alone but for the bus.
deviceState == <<senderState, listenerState, identity, mdnsVars, indicatorVars>>

LEMMA DeviceFrame ==
    ASSUME DeviceInv, NEW d, NEW kinds, Adds(d, kinds), Disjoint(kinds, {"identity"} \cup SessionKinds),
           d = 1 => flashing = 0 /\ bus[1].kind \notin {"identity"} \cup SessionKinds,
           UNCHANGED deviceState, config'.on = config.on
    PROVE  DeviceInv'
<1>1. UNCHANGED <<identity, networkUp, invert>> /\ UNCHANGED mdnsVars /\ UNCHANGED indicatorVars
  BY DEF deviceState, indicatorVars
<1>2. "identity" \notin kinds /\ Disjoint(kinds, SessionKinds)
  BY DEF Disjoint
<1>3. BusInv' /\ LightsInv'
  BY <1>1, BusKept, LightsFrame DEF DeviceInv
<1>4. NameInv' /\ IdentityInv'
  BY <1>1, <1>2, IdentityFrame, NameFrame DEF DeviceInv
<1>5. SessionInv'
  BY <1>1, <1>2, SessionFrame DEF DeviceInv
<1>6. OscInv'
  BY OscFrame DEF DeviceInv, deviceState
<1> QED BY <1>3, <1>4, <1>5, <1>6 DEF DeviceInv

LEMMA DispatchCases ==
    ASSUME BusInv, Dispatch
    PROVE  /\ flashing = 0 /\ bus # <<>> /\ UNCHANGED mdnsVars
           /\ \/ HeadIs("osc") /\ HandleSignal(bus[1].signal) /\ UNCHANGED <<indicatorVars, webVars>>
              \/ /\ HeadIs("identity") /\ HandleIdentity(bus[1]) /\ ShowIdentity(bus[1].address)
                 /\ UNCHANGED webVars
              \/ HeadIs("traffic") /\ HandleTraffic(bus[1].type) /\ UNCHANGED <<oscVars, webVars>>
              \/ HeadIs("opened") /\ ShowSession(TRUE) /\ UNCHANGED <<oscVars, webVars>>
              \/ HeadIs("closed") /\ ShowSession(FALSE) /\ UNCHANGED <<oscVars, webVars>>
              \/ HeadIs("init") /\ StartFlashes /\ UNCHANGED <<oscVars, webVars>>
              \/ HeadIs("request") /\ HandleRequest(bus[1]) /\ UNCHANGED <<oscVars, indicatorVars>>
              \/ HeadIs("disconnect") /\ HandleDisconnect(bus[1]) /\ UNCHANGED <<oscVars, indicatorVars>>
              \/ HeadIs("response") /\ HandleResponse(bus[1]) /\ UNCHANGED <<oscVars, indicatorVars>>
              \/ /\ bus[1].kind \notin {"identity", "opened", "closed", "request", "disconnect", "response"}
                 /\ Skip
<1> DEFINE kind == bus[1].kind
           a1 == HandleSignal(bus[1].signal) /\ UNCHANGED <<indicatorVars, webVars>>
           a2 == HandleIdentity(bus[1]) /\ ShowIdentity(bus[1].address) /\ UNCHANGED webVars
           a3 == HandleTraffic(bus[1].type) /\ UNCHANGED <<oscVars, webVars>>
           a4 == ShowSession(TRUE) /\ UNCHANGED <<oscVars, webVars>>
           a5 == ShowSession(FALSE) /\ UNCHANGED <<oscVars, webVars>>
           a6 == StartFlashes /\ UNCHANGED <<oscVars, webVars>>
           a7 == HandleRequest(bus[1]) /\ UNCHANGED <<oscVars, indicatorVars>>
           a8 == HandleDisconnect(bus[1]) /\ UNCHANGED <<oscVars, indicatorVars>>
           a9 == HandleResponse(bus[1]) /\ UNCHANGED <<oscVars, indicatorVars>>
<1>1. flashing = 0 /\ bus # <<>> /\ UNCHANGED mdnsVars
  BY DEF Dispatch
<1>2. Head(bus) = bus[1]
  BY <1>1, SeqFacts DEF BusInv
<1>3. (CASE kind = "osc" -> a1
        [] kind = "identity" -> a2
        [] kind = "traffic" -> a3
        [] kind = "opened" -> a4
        [] kind = "closed" -> a5
        [] kind = "init" -> a6
        [] kind = "request" -> a7
        [] kind = "disconnect" -> a8
        [] kind = "response" -> a9
        [] OTHER -> Skip)
  BY <1>2 DEF Dispatch
<1> HIDE DEF a1, a2, a3, a4, a5, a6, a7, a8, a9, kind
<1>4. \/ (kind = "osc" /\ a1) \/ (kind = "identity" /\ a2) \/ (kind = "traffic" /\ a3) \/ (kind = "opened" /\ a4)
      \/ (kind = "closed" /\ a5) \/ (kind = "init" /\ a6) \/ (kind = "request" /\ a7) \/ (kind = "disconnect" /\ a8)
      \/ kind = "response" /\ a9
      \/ kind \notin {"identity", "opened", "closed", "request", "disconnect", "response"} /\ Skip
  BY <1>3
<1> QED BY <1>1, <1>4 DEF a1, a2, a3, a4, a5, a6, a7, a8, a9, kind, HeadIs

\* The steps that leave the WebSockets transport and System's session alone, by what they do to the bus.
ForeignKinds == OscKinds \cup {"identity", "init"}
WebKinds == {"request", "response", "disconnect"}
ForeignStep(d) ==
    /\ Adds(d, ForeignKinds)
    /\ d = 1 => bus[1].kind \notin WebKinds
    /\ UNCHANGED webVars

LEMMA DispatchOfDevice ==
    ASSUME DeviceInv, Dispatch, ~HeadIs("request"), ~HeadIs("disconnect"), ~HeadIs("response")
    PROVE  DeviceInv' /\ \E d \in {0, 1} : ForeignStep(d)
<1> USE DEF DeviceInv
<1>1. flashing = 0 /\ bus # <<>> /\ UNCHANGED mdnsVars
  BY DispatchCases
<1>2. bus[1].kind \notin WebKinds
  BY <1>1 DEF HeadIs, WebKinds
<1>3. ASSUME NEW d \in {0, 1}, Adds(d, {}) \/ Adds(d, {"traffic"}), UNCHANGED webVars PROVE \E e \in {0, 1} : ForeignStep(e)
  <2>1. Adds(d, ForeignKinds)
    BY <1>3, AddsMore DEF ForeignKinds, OscKinds
  <2> QED BY <1>2, <1>3, <2>1 DEF ForeignStep
<1>4. Disjoint({}, {"identity"} \cup SessionKinds) /\ Disjoint({}, SessionKinds) /\ Disjoint({"traffic"}, SessionKinds)
  BY DEF Disjoint, SessionKinds
<1>5. UNCHANGED webVars => config'.on = config.on
  BY DEF webVars
<1>6. CASE HeadIs("osc") /\ HandleSignal(bus[1].signal) /\ UNCHANGED <<indicatorVars, webVars>>
  <2>1. OscInv' /\ Adds(1, {}) /\ UNCHANGED identity
    BY <1>1, <1>6, SignalKept
  <2>2. bus[1].kind \notin SessionKinds /\ bus[1].kind # "identity" /\ UNCHANGED <<networkUp, invert>>
    BY <1>6 DEF HeadIs, SessionKinds, indicatorVars
  <2>3. BusInv' /\ LightsInv'
    BY <1>1, <1>6, <2>1, BusKept, LightsFrame
  <2>4. NameInv' /\ IdentityInv'
    BY <1>1, <2>1, <2>2, IdentityFrame, NameFrame
  <2>5. SessionInv'
    BY <1>4, <1>5, <1>6, <2>1, <2>2, SessionFrame
  <2> QED BY <1>3, <1>6, <2>1, <2>3, <2>4, <2>5
<1>7. CASE HeadIs("identity") /\ HandleIdentity(bus[1]) /\ ShowIdentity(bus[1].address) /\ UNCHANGED webVars
  <2>1. NameInv' /\ IdentityInv' /\ SenderInv' /\ Adds(1, {"traffic"})
    BY <1>1, <1>7, IdentityHandled DEF OscInv
  <2>2. ListenerInv'
    <3>1. UNCHANGED listenerState
      BY <1>7 DEF HandleIdentity, oscConfig, readState, listenerState
    <3> QED BY <3>1, ListenerFrame DEF OscInv
  <2>3. BusInv' /\ LightsInv'
    BY <1>1, <1>7, <2>1, BusKept, IdentityShown
  <2>4. SessionInv'
    <3>1. bus[1].kind \notin SessionKinds /\ UNCHANGED invert
      BY <1>7 DEF HeadIs, SessionKinds, ShowIdentity
    <3> QED BY <1>4, <1>5, <1>7, <2>1, <3>1, SessionFrame
  <2> QED BY <1>3, <1>7, <2>1, <2>2, <2>3, <2>4 DEF OscInv
<1>8. CASE HeadIs("traffic") /\ HandleTraffic(bus[1].type) /\ UNCHANGED <<oscVars, webVars>>
  <2>1. bus' = Tail(bus) /\ UNCHANGED <<invert, networkUp>>
    BY <1>8 DEF HandleTraffic
  <2>2. Adds(1, {})
    BY <1>1, <2>1, TakesOne
  <2>3. bus[1].type # "NetworkUp"
    <3>1. 1 \in DOMAIN bus
      BY <1>1, SeqFacts DEF BusInv
    <3> QED BY <1>8, <3>1 DEF BusInv, HeadIs
  <2>4. BusInv' /\ LightsInv'
    BY <1>1, <1>8, <2>2, <2>3, BusKept, TrafficShown
  <2>5. UNCHANGED <<senderState, listenerState, identity>>
    BY <1>8 DEF oscVars, oscConfig, sendState, readState, oscEnvironment, senderState, listenerState
  <2>6. bus[1].kind \notin SessionKinds /\ bus[1].kind # "identity"
    BY <1>8 DEF HeadIs, SessionKinds
  <2>7. NameInv' /\ IdentityInv'
    BY <1>1, <2>1, <2>2, <2>5, <2>6, IdentityFrame, NameFrame
  <2>8. SessionInv'
    BY <1>4, <1>5, <1>8, <2>1, <2>2, <2>6, SessionFrame
  <2>9. OscInv'
    BY <2>5, OscFrame
  <2> QED BY <1>3, <1>8, <2>2, <2>4, <2>7, <2>8, <2>9
<1>9. ASSUME NEW open \in BOOLEAN, HeadIs(IF open THEN "opened" ELSE "closed"), ShowSession(open), UNCHANGED <<oscVars, webVars>>
      PROVE  DeviceInv' /\ \E d \in {0, 1} : ForeignStep(d)
  <2>1. UNCHANGED config /\ UNCHANGED networkUp
    BY <1>9 DEF webVars, ShowSession
  <2>2. SessionInv' /\ Adds(1, {})
    BY <1>9, <2>1, SessionTold
  <2>3. BusInv' /\ LightsInv'
    BY <1>1, <1>9, <2>2, BusKept, SessionShown
  <2>4. UNCHANGED <<senderState, listenerState, identity>>
    BY <1>9 DEF oscVars, oscConfig, sendState, readState, oscEnvironment, senderState, listenerState
  <2>5. bus[1].kind # "identity"
    BY <1>9 DEF HeadIs
  <2>6. NameInv' /\ IdentityInv'
    BY <1>1, <2>1, <2>2, <2>4, <2>5, IdentityFrame, NameFrame
  <2>7. OscInv'
    BY <2>4, OscFrame
  <2> QED BY <1>3, <1>9, <2>2, <2>3, <2>6, <2>7
<1>10. CASE HeadIs("opened") /\ ShowSession(TRUE) /\ UNCHANGED <<oscVars, webVars>>
  <2>1. HeadIs(IF TRUE THEN "opened" ELSE "closed")
    BY <1>10
  <2> QED BY <1>9, <1>10, <2>1
<1>11. CASE HeadIs("closed") /\ ShowSession(FALSE) /\ UNCHANGED <<oscVars, webVars>>
  <2>1. HeadIs(IF FALSE THEN "opened" ELSE "closed")
    BY <1>11
  <2> QED BY <1>9, <1>11, <2>1
<1>12. CASE HeadIs("init") /\ StartFlashes /\ UNCHANGED <<oscVars, webVars>>
  <2>1. UNCHANGED <<bus, networkUp, invert>>
    BY <1>12 DEF StartFlashes
  <2>2. Adds(0, {})
    BY <2>1, BusUnchanged
  <2>3. BusInv' /\ LightsInv'
    BY <1>1, <1>12, <2>2, BusKept, FlashesStarted
  <2>4. UNCHANGED <<senderState, listenerState, identity>>
    BY <1>12 DEF oscVars, oscConfig, sendState, readState, oscEnvironment, senderState, listenerState
  <2>5. NameInv' /\ IdentityInv'
    BY <1>1, <2>1, <2>2, <2>4, IdentityFrame, NameFrame
  <2>6. SessionInv'
    BY <1>4, <1>5, <1>12, <2>1, <2>2, SessionFrame
  <2>7. OscInv'
    BY <2>4, OscFrame
  <2> QED BY <1>3, <1>12, <2>2, <2>3, <2>5, <2>6, <2>7
<1>13. CASE bus[1].kind \notin {"identity", "opened", "closed", "request", "disconnect", "response"} /\ Skip
  <2>1. bus' = Tail(bus) /\ UNCHANGED <<oscVars, indicatorVars, webVars>>
    BY <1>13 DEF Skip
  <2>2. Adds(1, {})
    BY <1>1, <2>1, TakesOne
  <2>3. UNCHANGED deviceState
    BY <1>1, <2>1 DEF oscVars, oscConfig, sendState, readState, oscEnvironment, senderState, listenerState, deviceState
  <2>4. bus[1].kind \notin {"identity"} \cup SessionKinds
    BY <1>13 DEF SessionKinds
  <2>5. DeviceInv'
    BY <1>1, <1>4, <1>5, <2>1, <2>2, <2>3, <2>4, DeviceFrame
  <2> QED BY <1>3, <2>1, <2>2, <2>5
<1> QED BY <1>6, <1>7, <1>8, <1>10, <1>11, <1>12, <1>13, DispatchCases

\* System handles what the WebSockets transport tells it.
LEMMA DispatchOfWeb ==
    ASSUME DeviceInv, Dispatch, HeadIs("request") \/ HeadIs("disconnect") \/ HeadIs("response")
    PROVE  /\ DeviceInv'
           /\ \/ HeadIs("request") /\ HandleRequest(bus[1])
              \/ HeadIs("disconnect") /\ HandleDisconnect(bus[1])
              \/ HeadIs("response") /\ HandleResponse(bus[1])
<1> USE DEF DeviceInv
<1>1. /\ flashing = 0 /\ bus # <<>> /\ UNCHANGED mdnsVars
      /\ \/ HeadIs("request") /\ HandleRequest(bus[1]) /\ UNCHANGED <<oscVars, indicatorVars>>
         \/ HeadIs("disconnect") /\ HandleDisconnect(bus[1]) /\ UNCHANGED <<oscVars, indicatorVars>>
         \/ HeadIs("response") /\ HandleResponse(bus[1]) /\ UNCHANGED <<oscVars, indicatorVars>>
  BY DispatchCases DEF HeadIs
<1>2. UNCHANGED <<senderState, listenerState, identity, networkUp, invert>> /\ UNCHANGED indicatorVars
  BY <1>1 DEF oscVars, oscConfig, sendState, readState, oscEnvironment, senderState, listenerState, indicatorVars
<1>3. bus[1].kind \notin SessionKinds /\ bus[1].kind # "identity"
  BY <1>1 DEF HeadIs, SessionKinds
<1>4. PICK kinds \in {{"response", "opened"}, {"closed"}, {"traffic"}} : Adds(1, kinds) /\ SessionInv'
  <2>1. CASE HeadIs("request") /\ HandleRequest(bus[1])
    <3>1. Adds(1, {"response", "opened"}) /\ SessionInv'
      BY <1>2, <2>1, RequestTold
    <3> QED BY <3>1
  <2>2. CASE HeadIs("disconnect") /\ HandleDisconnect(bus[1])
    <3>1. Adds(1, {"closed"}) /\ SessionInv'
      BY <1>2, <2>2, DisconnectAdds
    <3> QED BY <3>1
  <2>3. CASE HeadIs("response") /\ HandleResponse(bus[1])
    <3>1. Adds(1, {"traffic"}) /\ UNCHANGED config
      BY <2>3, ResponseTold
    <3>2. Disjoint({"traffic"}, SessionKinds)
      BY DEF Disjoint, SessionKinds
    <3>3. SessionInv'
      BY <1>2, <1>3, <3>1, <3>2, SessionFrame
    <3> QED BY <3>1, <3>3
  <2> QED BY <1>1, <2>1, <2>2, <2>3
<1>5. BusInv' /\ LightsInv'
  BY <1>1, <1>2, <1>4, BusKept, LightsFrame
<1>6. "identity" \notin kinds
  BY <1>4
<1>7. NameInv' /\ IdentityInv'
  BY <1>1, <1>2, <1>3, <1>4, <1>6, IdentityFrame, NameFrame
<1>8. OscInv'
  BY <1>2, OscFrame
<1> QED BY <1>1, <1>4, <1>5, <1>7, <1>8

LEMMA OscStep ==
    ASSUME DeviceInv, OscThreads \/ OscOutside
    PROVE  DeviceInv' /\ ForeignStep(0)
<1> USE DEF DeviceInv
<1>1. /\ \/ TakeWake \/ SendThread \/ SendTo \/ ReadThread \/ Receive \/ ReceiveFault \/ StartOsc
         \/ PublishSignal \/ WriteOsc \/ TimePasses \/ HostChanges
      /\ UNCHANGED mdnsVars /\ UNCHANGED indicatorVars /\ UNCHANGED webVars
  BY DEF OscThreads, OscOutside
<1>2. OscInv' /\ UNCHANGED identity
  BY <1>1, OscKept
<1>3. Adds(0, OscKinds)
  <2>1. IsFiniteSet(Slots) /\ IsFiniteSet(DOMAIN oscSettings.destinations)
    BY DEF OscInv, SenderInv, ListenerInv
  <2> QED BY <1>1, <2>1, OscAdds
<1>4. BusInv' /\ LightsInv'
  BY <1>1, <1>3, BusKept, LightsFrame
<1>5. UNCHANGED <<networkUp, invert, config>> /\ config'.on = config.on
  BY <1>1 DEF indicatorVars, webVars
<1>6. NameInv' /\ IdentityInv'
  <2>1. "identity" \notin OscKinds
    BY DEF OscKinds
  <2> QED BY <1>1, <1>2, <1>3, <1>5, <2>1, IdentityFrame, NameFrame
<1>7. SessionInv'
  <2>1. Disjoint(OscKinds, SessionKinds)
    BY DEF Disjoint, OscKinds, SessionKinds
  <2> QED BY <1>3, <1>5, <2>1, SessionFrame
<1>8. ForeignStep(0)
  <2>1. Adds(0, ForeignKinds)
    BY <1>3, AddsMore DEF ForeignKinds
  <2> QED BY <1>1, <2>1 DEF ForeignStep
<1> QED BY <1>2, <1>4, <1>6, <1>7, <1>8

LEMMA MdnsStep ==
    ASSUME DeviceInv, MdnsThreads
    PROVE  DeviceInv' /\ ForeignStep(0)
<1> USE DEF DeviceInv
<1>1. /\ StartMdns \/ ChangeAddress \/ HandleAddressEvent \/ PublishIdentity \/ WriteHostname
      /\ UNCHANGED oscVars /\ UNCHANGED indicatorVars /\ UNCHANGED webVars
  BY DEF MdnsThreads
<1>2. UNCHANGED <<senderState, listenerState, identity, networkUp, invert, config>> /\ config'.on = config.on
  BY <1>1 DEF oscVars, oscConfig, sendState, readState, oscEnvironment, senderState, listenerState, indicatorVars, webVars
<1>3. NameInv' /\ IdentityInv' /\ Adds(0, {"identity"})
  BY <1>1, <1>2, MdnsKeepsIdentity
<1>4. BusInv' /\ LightsInv'
  BY <1>1, <1>3, BusKept, LightsFrame
<1>5. SessionInv'
  <2>1. Disjoint({"identity"}, SessionKinds)
    BY DEF Disjoint, SessionKinds
  <2> QED BY <1>2, <1>3, <2>1, SessionFrame
<1>6. OscInv'
  BY <1>2, OscFrame
<1>7. ForeignStep(0)
  <2>1. Adds(0, ForeignKinds)
    BY <1>3, AddsMore DEF ForeignKinds
  <2> QED BY <1>1, <2>1 DEF ForeignStep
<1> QED BY <1>3, <1>4, <1>5, <1>6, <1>7

LEMMA SystemStep ==
    ASSUME DeviceInv, System
    PROVE  DeviceInv' /\ ForeignStep(0)
<1>1. /\ \/ bus' = Append(bus, [kind |-> "init"])
         \/ \E type \in Indicated : bus' = Append(bus, Traffic(type))
         \/ UNCHANGED bus
      /\ UNCHANGED oscVars /\ UNCHANGED mdnsVars /\ UNCHANGED indicatorVars /\ UNCHANGED webVars
  BY DEF System
<1>2. BusInv
  BY DEF DeviceInv
<1>3. Adds(0, {"init", "traffic"})
  <2>1. CASE bus' = Append(bus, [kind |-> "init"])
    <3> DEFINE m == [kind |-> "init"]
    <3>1. m.kind = "init" /\ bus' = Append(bus, m)
      BY <2>1
    <3> HIDE DEF m
    <3>2. Adds(0, {m.kind})
      BY <1>2, <3>1, AddsOne
    <3> QED BY <3>1, <3>2, AddsMore
  <2>2. ASSUME NEW type \in Indicated, bus' = Append(bus, Traffic(type)) PROVE Adds(0, {"init", "traffic"})
    <3> DEFINE m == Traffic(type)
    <3>1. m.kind = "traffic" /\ m.type # "NetworkUp" /\ bus' = Append(bus, m)
      BY <2>2, IndicatorAssumption DEF Traffic
    <3> HIDE DEF m
    <3>2. Adds(0, {m.kind})
      BY <1>2, <3>1, AddsOne
    <3> QED BY <3>1, <3>2, AddsMore
  <2>3. CASE UNCHANGED bus
    BY <1>2, <2>3, BusUnchanged, AddsMore
  <2> QED BY <1>1, <2>1, <2>2, <2>3
<1>4. UNCHANGED deviceState /\ config'.on = config.on
  BY <1>1 DEF oscVars, oscConfig, sendState, readState, oscEnvironment, senderState, listenerState, deviceState, webVars
<1>5. Disjoint({"init", "traffic"}, {"identity"} \cup SessionKinds)
  BY DEF Disjoint, SessionKinds
<1>6. DeviceInv'
  BY <1>3, <1>4, <1>5, DeviceFrame
<1>7. ForeignStep(0)
  <2>1. Adds(0, ForeignKinds)
    BY <1>3, AddsMore DEF ForeignKinds, OscKinds
  <2> QED BY <1>1, <2>1 DEF ForeignStep
<1> QED BY <1>6, <1>7

LEMMA LightsStep ==
    ASSUME DeviceInv, IndicatorWork \/ Flash
    PROVE  DeviceInv' /\ \E d \in {0, 1} : ForeignStep(d)
<1> USE DEF DeviceInv
<1>1. /\ EndFlash \/ FlashStep
      /\ UNCHANGED oscVars /\ UNCHANGED mdnsVars /\ UNCHANGED webVars
  BY DEF IndicatorWork, Flash
<1>2. UNCHANGED <<senderState, listenerState, identity, networkUp, invert, config>> /\ config'.on = config.on
  BY <1>1 DEF EndFlash, FlashStep, oscVars, oscConfig, sendState, readState, oscEnvironment, senderState, listenerState,
              webVars
<1>3. LightsInv'
  BY <1>1, FlashEnded, FlashShown
<1>4. PICK d \in {0, 1} : Adds(d, {}) /\ (d = 1 => HeadIs("init"))
  <2>1. CASE UNCHANGED bus
    BY <2>1, BusUnchanged
  <2>2. CASE FlashStep /\ bus' = Tail(bus)
    <3>1. HeadIs("init")
      BY <2>2 DEF LightsInv, FlashStep, HeadIs
    <3> QED BY <2>2, <3>1, TakesOne DEF HeadIs
  <2> QED BY <1>1, <2>1, <2>2 DEF EndFlash, FlashStep, sharedVars
<1>5. Disjoint({}, SessionKinds) /\ (d = 1 => bus[1].kind \notin SessionKinds /\ bus[1].kind # "identity")
  BY <1>4 DEF Disjoint, SessionKinds, HeadIs
<1>6. BusInv' /\ SessionInv'
  BY <1>2, <1>4, <1>5, BusKept, SessionFrame
<1>7. NameInv' /\ IdentityInv'
  BY <1>1, <1>2, <1>4, <1>5, IdentityFrame, NameFrame
<1>8. OscInv'
  BY <1>2, OscFrame
<1>9. ForeignStep(d)
  <2>1. Adds(d, ForeignKinds)
    BY <1>4, AddsMore
  <2> QED BY <1>1, <1>4, <2>1 DEF ForeignStep, HeadIs, WebKinds
<1> QED BY <1>3, <1>6, <1>7, <1>8, <1>9

LEMMA WebStepOfDevice ==
    ASSUME DeviceInv, WebThreads
    PROVE  DeviceInv'
<1>1. /\ \/ QuietClientStep \/ NotifyReplaced \/ NotifyClosed \/ HandleSysEx \/ HandleBegin
         \/ ConfigTimeout
      /\ UNCHANGED oscVars /\ UNCHANGED mdnsVars /\ UNCHANGED indicatorVars
  BY DEF WebThreads, QuietClientStep
<1>2. UNCHANGED deviceState
  BY <1>1 DEF oscVars, oscConfig, sendState, readState, oscEnvironment, senderState, listenerState, deviceState
<1>3. CASE ConfigTimeout
  <2>1. Adds(0, {"closed"}) /\ SessionInv'
    BY <1>3, TimeoutAdds DEF DeviceInv
  <2>2. BusInv' /\ LightsInv'
    BY <1>1, <2>1, BusKept, LightsFrame DEF DeviceInv
  <2>3. NameInv' /\ IdentityInv'
    <3>1. UNCHANGED <<identity, networkUp>>
      BY <1>2 DEF deviceState, indicatorVars
    <3> QED BY <1>1, <2>1, <3>1, IdentityFrame, NameFrame DEF DeviceInv
  <2>4. OscInv'
    BY <1>2, OscFrame DEF DeviceInv, deviceState
  <2> QED BY <2>1, <2>2, <2>3, <2>4 DEF DeviceInv
<1>4. CASE QuietClientStep \/ NotifyReplaced \/ NotifyClosed \/ HandleSysEx \/ HandleBegin
  <2>1. Adds(0, ClientKinds) /\ UNCHANGED config
    BY <1>4, ClientAdds DEF DeviceInv
  <2>2. Disjoint(ClientKinds, {"identity"} \cup SessionKinds)
    BY DEF Disjoint, ClientKinds, SessionKinds
  <2>3. config'.on = config.on
    BY <2>1
  <2> QED BY <1>2, <2>1, <2>2, <2>3, DeviceFrame
<1> QED BY <1>1, <1>3, <1>4

LEMMA DeviceInit == ASSUME NetworkInit PROVE DeviceInv
<1>1. bus = <<>> /\ IsSeq(bus) /\ DOMAIN bus = {}
  BY SmallSeqs DEF NetworkInit
<1>2. BusInv
  BY <1>1 DEF BusInv
<1>3. PICK d \in OscDatabases : oscSettings = d
  BY DEF NetworkInit, OscInit
<1>4. oscSettings \in OscSettings
  BY <1>3, OscAssumption
<1>5. /\ oscSettings = [listen |-> oscSettings.listen, restrict |-> oscSettings.restrict,
                        destinations |-> oscSettings.destinations]
      /\ IsFiniteSet(DOMAIN oscSettings.destinations)
  <2> DEFINE D == [host : 0 .. MaxHost, port : 1 .. MaxPort]
  <2>1. oscSettings \in [listen : 1 .. MaxPort, restrict : BOOLEAN, destinations : Seq(D)]
    BY <1>4 DEF OscSettings
  <2> HIDE DEF D
  <2>2. oscSettings.destinations \in Seq(D)
    BY <2>1
  <2>3. Len(oscSettings.destinations) \in Nat /\ DOMAIN oscSettings.destinations = 1 .. Len(oscSettings.destinations)
    BY <2>2, LenProperties
  <2>4. IsFiniteSet(1 .. Len(oscSettings.destinations))
    BY <2>3, FS_Interval
  <2> QED BY <2>1, <2>3, <2>4
<1>6. SenderInv
  <2>1. /\ destinations = [s \in DOMAIN oscSettings.destinations |-> [host |-> 0, port |-> 0, retryAt |-> 0]]
        /\ queue = <<>> /\ sender = IdleSender /\ uptime = 0
    BY DEF NetworkInit, OscInit
  <2>2. Slots = DOMAIN oscSettings.destinations
    BY <2>1 DEF Slots
  <2>3. \A s \in Slots : destinations[s] = DestinationForm(destinations[s]) /\ destinations[s].retryAt = 0
    BY <2>1, <2>2 DEF DestinationForm
  <2>4. 0 \in 0 .. TimeModulus - 1
    BY OscAssumption
  <2> QED BY <1>5, <2>1, <2>2, <2>3, <2>4 DEF SenderInv, IdleSender
<1>7. ListenerInv
  <2>1. /\ reader = [at |-> "check", socket |-> 0, port |-> 0] /\ listening = 0 /\ Open = {} /\ late = FALSE /\ oscOn = FALSE
    BY DEF NetworkInit, OscInit, Open
  <2> QED BY <1>5, <2>1 DEF ListenerInv, SettingsForm
<1>8. NameInv
  <2>1. /\ serial \in SerialNumbers /\ hostname \in Hostnames /\ networkName = <<>>
        /\ customName = [loaded |-> FALSE, characters |-> [i \in DOMAIN hostname |-> Nul]]
        /\ identity.address = 0 /\ networkUp = FALSE
    BY DEF NetworkInit, MdnsInit, OscInit, IndicatorInit
  <2>2. hostname \in Text
    BY <2>1, MdnsAssumption DEF Text
  <2> DEFINE blank == [i \in DOMAIN hostname |-> Nul]
  <2>3. blank \in Text
    <3>1. Len(hostname) \in Nat /\ DOMAIN hostname = 1 .. Len(hostname)
      BY <2>2, LenProperties DEF Text
    <3>2. blank \in [1 .. Len(hostname) -> 0 .. 255]
      BY <3>1 DEF Nul
    <3> HIDE DEF blank
    <3>3. Len(hostname) \in Nat
      BY <3>1
    <3>4. blank \in Seq(0 .. 255)
      BY ONLY <3>2, <3>3, FunctionIsSeq, Zenon
    <3> QED BY <3>4 DEF Text
  <2> HIDE DEF blank
  <2>4. customName = [loaded |-> FALSE, characters |-> blank]
    BY <2>1 DEF blank
  <2>5. customName.characters = blank /\ customName = [loaded |-> customName.loaded, characters |-> customName.characters]
    BY <2>4
  <2>6. networkUp = (identity.address # 0)
    BY <2>1
  <2> QED BY <2>1, <2>2, <2>3, <2>5, <2>6 DEF NameInv
<1>9. IdentityInv
  BY <1>1 DEF NetworkInit, MdnsInit, IdentityInv, Signalled
<1>10. LightsInv
  <2>1. lit = {} /\ idleWork = {} /\ invert = FALSE /\ networkUp = FALSE /\ flashing = 0
    BY DEF NetworkInit, IndicatorInit
  <2>2. \A type : (type \in lit) = FALSE
    <3>1. \A type : ~(type \in lit)
      BY <2>1
    <3> QED BY <3>1
  <2>3. ("NetworkUp" \in lit) = networkUp /\ \A type \in Indicated : (type \in lit) = invert
    BY <2>1, <2>2, Zenon
  <2>4. flashing \in Nat /\ ~(flashing > 0) /\ "NetworkUp" \notin idleWork
    BY <2>1
  <2>5. invert \in BOOLEAN /\ networkUp \in BOOLEAN
    BY <2>1, Zenon
  <2> QED BY <2>3, <2>4, <2>5 DEF LightsInv
<1>11. SessionInv
  BY <1>1 DEF NetworkInit, IndicatorInit, WebInit, SessionInv
<1> QED BY <1>2, <1>6, <1>7, <1>8, <1>9, <1>10, <1>11 DEF DeviceInv, OscInv

LEMMA DeviceStep == ASSUME DeviceInv, [NetworkNext]_networkVars PROVE DeviceInv'
<1>1. CASE Dispatch
  BY <1>1, DispatchOfDevice, DispatchOfWeb
<1>2. CASE UNCHANGED networkVars
  <2>1. Adds(0, {})
    BY <1>2, BusUnchanged DEF networkVars, sharedVars, DeviceInv
  <2>2. UNCHANGED deviceState /\ config'.on = config.on
    BY <1>2 DEF networkVars, oscVars, oscConfig, sendState, readState, oscEnvironment, senderState, listenerState,
                deviceState, webVars
  <2>3. Disjoint({}, {"identity"} \cup SessionKinds)
    BY DEF Disjoint
  <2> QED BY <2>1, <2>2, <2>3, DeviceFrame
<1> QED BY <1>1, <1>2, OscStep, MdnsStep, SystemStep, LightsStep, WebStepOfDevice DEF NetworkNext

LEMMA NegativeModulo == \A m \in Nat \ {0} : \A u \in 1 .. m - 1 : (0 - u) % m = m - u
OBVIOUS

LEMMA SenderIsSound == ASSUME SenderInv PROVE SenderSound
<1>1. ASSUME NEW s \in Slots, destinations[s].retryAt = 0, RetryActive(destinations[s].retryAt)
      PROVE  ZeroLooksLater(s)
  <2> DEFINE m == TimeModulus
             h == m \div 2
  <2>1. m \in Nat \ {0} /\ uptime \in 0 .. m - 1
    BY OscAssumption DEF SenderInv
  <2>2. (0 - uptime) % m \in 1 .. h - 1
    BY <1>1 DEF RetryActive
  <2>3. h \in Nat /\ 2 * h <= m
    BY <2>1
  <2>4. uptime # 0
    <3>1. (0 - 0) % m = 0
      BY <2>1
    <3> QED BY <2>2, <2>3, <3>1
  <2> HIDE DEF m, h
  <2>5. (0 - uptime) % m = m - uptime
    <3>1. m \in Nat \ {0} /\ uptime \in 1 .. m - 1
      BY <2>1, <2>4
    <3> QED BY ONLY <3>1, NegativeModulo, Zenon
  <2>6. uptime > h
    BY <2>1, <2>2, <2>3, <2>5
  <2> QED BY <1>1, <2>6 DEF ZeroLooksLater, m, h
<1> QED BY <1>1 DEF SenderInv, SenderSound

LEMMA ListenerListens == ASSUME ListenerInv PROVE ListensOnPort
BY DEF ListenerInv, ListensOnPort

LEMMA IdentityIsFollowed == ASSUME BusInv, NameInv, IdentityInv, LightsInv PROVE IdentityFollowed
<1> SUFFICES ASSUME networkName # <<>> PROVE IdentityFollowed
  BY DEF IdentityFollowed
<1>1. IsLabel(networkName)
  BY DEF NameInv
<1>2. /\ Len(networkName) \in Nat /\ DOMAIN networkName = 1 .. Len(networkName)
      /\ \A i \in 1 .. Len(networkName) : networkName[i] \in LabelCharacters
  BY <1>1, LenProperties, ElementOfSeq DEF IsLabel
<1>3. /\ \A i \in DOMAIN networkName : networkName[i] \in Digits \cup Small \cup {Dash}
      /\ Dash \notin {networkName[1], networkName[Len(networkName)]}
  BY <1>1, <1>2 DEF IsLabel, LabelCharacters
<1>4. ASSUME ~addressEvent, ~identityWork, ~Signalled("identity")
      PROVE  /\ identity = [received |-> TRUE, name |-> networkName, address |-> address]
             /\ ("NetworkUp" \in lit) = (address # 0)
  BY <1>4 DEF IdentityInv, NameInv, LightsInv
<1> QED BY <1>3, <1>4 DEF IdentityFollowed

LEMMA IndicatorsAreSettled == ASSUME LightsInv, SessionInv PROVE IndicatorsSettle
BY DEF LightsInv, SessionInv, IndicatorsSettle, Signalled, SessionKinds

\* No packet waits in the queue of OSC without a wake-up, and a destination is in backoff only for a reason, the
\* overflow of the uptime apart (protocol/osc), for any number of destinations, hosts and sockets, whatever is written
\* to the settings while its threads run: SenderSound.
THEOREM SenderIsAlwaysSound == NetworkSpec => []SenderSound
<1>1. NetworkInit => DeviceInv
  BY DeviceInit
<1>2. DeviceInv /\ [NetworkNext]_networkVars => DeviceInv'
  BY DeviceStep
<1>3. DeviceInv => SenderSound
  BY SenderIsSound DEF DeviceInv, OscInv
<1> QED BY <1>1, <1>2, <1>3, PTL DEF NetworkSpec

\* OSC listens on the port of the settings, unless that was written late (protocol/osc), for any number of sockets that
\* are used again: ListensOnPort.
THEOREM ListenerFollowsPort == NetworkSpec => []ListensOnPort
<1>1. NetworkInit => DeviceInv
  BY DeviceInit
<1>2. DeviceInv /\ [NetworkNext]_networkVars => DeviceInv'
  BY DeviceStep
<1>3. DeviceInv => ListensOnPort
  BY ListenerListens DEF DeviceInv, OscInv
<1> QED BY <1>1, <1>2, <1>3, PTL DEF NetworkSpec

\* The name that the device announces is a label for every content of the database, and OSC and the indicator follow
\* every change of the address (protocol/mdns, io/indicators): IdentityFollowed.
THEOREM IdentityIsAlwaysFollowed == NetworkSpec => []IdentityFollowed
<1>1. NetworkInit => DeviceInv
  BY DeviceInit
<1>2. DeviceInv /\ [NetworkNext]_networkVars => DeviceInv'
  BY DeviceStep
<1>3. DeviceInv => IdentityFollowed
  BY IdentityIsFollowed DEF DeviceInv
<1> QED BY <1>1, <1>2, <1>3, PTL DEF NetworkSpec

\* The traffic indicators show the session however traffic, the works and the flashes of the start overlap
\* (io/indicators): IndicatorsSettle.
THEOREM IndicatorsAlwaysSettle == NetworkSpec => []IndicatorsSettle
<1>1. NetworkInit => DeviceInv
  BY DeviceInit
<1>2. DeviceInv /\ [NetworkNext]_networkVars => DeviceInv'
  BY DeviceStep
<1>3. DeviceInv => IndicatorsSettle
  BY IndicatorsAreSettled DEF DeviceInv
<1> QED BY <1>1, <1>2, <1>3, PTL DEF NetworkSpec

-----------------------------------------------------------------------------
(* WebSockets: the clients.                                                *)

LEMMA FreeSocketFacts ==
    ASSUME FreeSockets # {}
    PROVE  Min(FreeSockets) \in ClientSockets /\ Min(FreeSockets) # 0 /\ peers[Min(FreeSockets)] = 0
<1>1. FreeSockets \subseteq Nat /\ \A s \in FreeSockets : s \in ClientSockets /\ s # 0 /\ peers[s] = 0
  BY WebAssumption DEF FreeSockets
<1>2. \E x \in FreeSockets : \A y \in FreeSockets : x <= y
  BY <1>1, LeastNatural
<1>3. Min(FreeSockets) \in FreeSockets
  BY <1>2 DEF Min
<1> QED BY <1>1, <1>3

\* The active client is closed.
LEMMA CloseFacts ==
    ASSUME ClientInv, NEW target, target.socket # 0, CloseMatching(target)
    PROVE  /\ Active /\ client = target /\ txQueue' = <<>> /\ txLoop.at # "send"
           /\ client' = [socket |-> 0, generation |-> client.generation + 1]
           /\ client'.socket = 0 /\ client'.generation = client.generation + 1 /\ client.generation \in Nat
           /\ client' \in Client /\ ~(client'.socket # 0)
           /\ peers' \in [ClientSockets -> Clients \cup {0}]
           /\ \A s \in ClientSockets : s # client.socket => peers'[s] = peers[s]
<1>1. /\ client = target /\ peers' = [peers EXCEPT ![target.socket] = 0] /\ txQueue' = <<>> /\ txLoop.at # "send"
      /\ client' = [socket |-> 0, generation |-> client.generation + 1]
  BY DEF CloseMatching, Locked
<1>2. peers \in [ClientSockets -> Clients \cup {0}] /\ client.generation \in Nat
  BY DEF ClientInv, Client
<1>3. client'.socket = 0 /\ client'.generation = client.generation + 1
  BY <1>1
<1>4. client' \in Client
  BY <1>1, <1>2 DEF Client
<1> QED BY <1>1, <1>2, <1>3, <1>4 DEF Active

LEMMA ClientFrame == ASSUME ClientInv, UNCHANGED <<peers, client, accepting>> PROVE ClientInv'
BY DEF ClientInv, Active

Accepting == [at : {"idle", "replace", "notify", "adopt"}, socket : ClientSockets \cup {0}, old : Client]

LEMMA ClientKept == ASSUME ClientInv, ThreadInv, WebThreads PROVE ClientInv'
<1>1. /\ peers \in [ClientSockets -> Clients \cup {0}] /\ client \in Client /\ accepting \in Accepting
      /\ client.socket \in ClientSockets \cup {0} /\ client.generation \in Nat
      /\ accepting.socket \in ClientSockets \cup {0} /\ accepting.old \in Client
  BY DEF ClientInv, Client, Accepting
<1>2. CASE Accept
  <2>1. /\ accepting.at = "idle" /\ FreeSockets # {} /\ UNCHANGED client
        /\ accepting' = [at |-> IF client.socket # 0 THEN "replace" ELSE "adopt", socket |-> Min(FreeSockets), old |-> client]
    BY <1>2 DEF Accept
  <2>2. PICK c \in Clients : peers' = [peers EXCEPT ![Min(FreeSockets)] = c]
    BY <1>2 DEF Accept
  <2>3. Min(FreeSockets) \in ClientSockets /\ Min(FreeSockets) # 0 /\ peers[Min(FreeSockets)] = 0
    BY <2>1, FreeSocketFacts
  <2> DEFINE s == Min(FreeSockets)
  <2> HIDE DEF s
  <2>4. c # 0
    BY WebAssumption
  <2>5. /\ peers' \in [ClientSockets -> Clients \cup {0}] /\ peers'[s] = c
        /\ \A t \in ClientSockets : t # s => peers'[t] = peers[t]
    BY <1>1, <2>2, <2>3 DEF s
  <2>6. accepting' \in Accepting /\ accepting'.socket = s /\ accepting'.old = client
        /\ accepting'.at = IF client.socket # 0 THEN "replace" ELSE "adopt"
    BY <1>1, <2>1, <2>3 DEF s, Accepting
  <2>7. client.socket # s /\ s # 0 /\ (Active => peers'[client.socket] # 0)
    BY <1>1, <2>3, <2>5 DEF ClientInv, Active, s
  <2> QED BY <1>1, <2>1, <2>4, <2>5, <2>6, <2>7 DEF ClientInv, Active, Accepting
<1>3. CASE Replace
  <2>1. CASE CloseMatching(accepting.old) /\ accepting' = [accepting EXCEPT !.at = "notify"]
    <3>1. accepting.at = "replace"
      BY <1>3 DEF Replace
    <3>2. /\ Active /\ client = accepting.old
          /\ client'.socket = 0 /\ client'.generation = client.generation + 1 /\ client' \in Client
          /\ peers' \in [ClientSockets -> Clients \cup {0}]
          /\ \A s \in ClientSockets : s # client.socket => peers'[s] = peers[s]
      <4>1. accepting.old.socket # 0
        BY <3>1 DEF ClientInv
      <4> QED BY <2>1, <4>1, CloseFacts
    <3>3. accepting' \in Accepting /\ accepting'.at = "notify" /\ accepting'.socket = accepting.socket /\ accepting'.old = accepting.old
      BY <1>1, <2>1 DEF Accepting
    <3>4. accepting.socket # 0 /\ accepting.socket \in ClientSockets /\ peers[accepting.socket] # 0 /\ client.socket # accepting.socket
      BY <1>1, <3>1 DEF ClientInv
    <3> QED BY <3>2, <3>3, <3>4 DEF ClientInv, Active, Accepting
  <2>2. CASE client # accepting.old /\ accepting' = [accepting EXCEPT !.at = "adopt"] /\ UNCHANGED <<client, peers>>
    <3>1. accepting.at = "replace"
      BY <1>3 DEF Replace
    <3>2. ~Active
      BY <2>2, <3>1 DEF ClientInv
    <3>3. accepting' \in Accepting /\ accepting'.at = "adopt" /\ accepting'.socket = accepting.socket /\ accepting'.old = accepting.old
      BY <1>1, <2>2 DEF Accepting
    <3> QED BY <2>2, <3>1, <3>2, <3>3 DEF ClientInv, Active, Accepting
  <2> QED BY <1>3, <2>1, <2>2 DEF Replace
<1>4. CASE NotifyReplaced
  <2>1. accepting.at = "notify" /\ accepting' = [accepting EXCEPT !.at = "adopt"] /\ UNCHANGED <<client, peers>>
    BY <1>4 DEF NotifyReplaced, webPeers
  <2>2. accepting' \in Accepting /\ accepting'.at = "adopt" /\ accepting'.socket = accepting.socket /\ accepting'.old = accepting.old
    BY <1>1, <2>1 DEF Accepting
  <2> QED BY <2>1, <2>2 DEF ClientInv, Active, Accepting
<1>5. CASE Adopt
  <2>1. /\ accepting.at = "adopt" /\ client' = [socket |-> accepting.socket, generation |-> client.generation + 1]
        /\ accepting' = [accepting EXCEPT !.at = "idle"] /\ UNCHANGED peers
    BY <1>5 DEF Adopt, webPeers
  <2>2. accepting' \in Accepting /\ accepting'.at = "idle"
    BY <1>1, <2>1 DEF Accepting
  <2>3. client' \in Client /\ client'.socket = accepting.socket
    BY <1>1, <2>1 DEF Client
  <2> QED BY <1>1, <2>1, <2>2, <2>3 DEF ClientInv, Active, Accepting
<1>6. CASE CloseClient
  <2>1. CASE CloseMatching(client) /\ client = [socket |-> clientLoop.socket, generation |-> clientLoop.generation]
    <3>1. client.socket # 0 /\ UNCHANGED accepting
      <4>1. client.socket = clientLoop.socket /\ clientLoop.socket # 0
        BY <1>6, <2>1 DEF CloseClient, ThreadInv
      <4> QED BY <1>6, <4>1 DEF CloseClient
    <3>2. /\ Active
          /\ client'.socket = 0 /\ client' \in Client
          /\ peers' \in [ClientSockets -> Clients \cup {0}]
          /\ \A s \in ClientSockets : s # client.socket => peers'[s] = peers[s]
      BY <2>1, <3>1, CloseFacts
    <3>3. accepting.at # "idle" => accepting.socket \in ClientSockets /\ peers'[accepting.socket] # 0
      BY <1>1, <3>2 DEF ClientInv
    <3> QED BY <3>1, <3>2, <3>3 DEF ClientInv, Active
  <2>2. CASE UNCHANGED <<client, peers>>
    BY <1>6, <2>2, ClientFrame DEF CloseClient
  <2> QED BY <1>6, <2>1, <2>2 DEF CloseClient
<1>7. CASE \/ TakeClient \/ ReceiveFrame \/ HandleSysEx \/ HandleBegin \/ NotifyClosed
           \/ TakeTx \/ NextFrame \/ SendFrame \/ ConfigTimeout \/ ClientSends \/ ClientLeaves
  <2>1. UNCHANGED <<peers, client, accepting>>
    BY <1>7 DEF TakeClient, ReceiveFrame, HandleSysEx, HandleBegin, NotifyClosed, TakeTx, NextFrame, SendFrame,
                ConfigTimeout, ClientSends, ClientLeaves, webPeers, webThreads
  <2> QED BY <2>1, ClientFrame
<1> QED BY <1>2, <1>3, <1>4, <1>5, <1>6, <1>7 DEF WebThreads

-----------------------------------------------------------------------------
(* WebSockets: the client thread.                                          *)

LEMMA ThreadFrame ==
    ASSUME ThreadInv, UNCHANGED <<client, clientLoop>>, Active => peers'[client.socket] = peers[client.socket],
           session'.active => session.active
    PROVE  ThreadInv'
BY DEF ThreadInv, Active, Current

\* The thread goes on to something else.
LEMMA LoopMoves ==
    ASSUME ThreadInv, NEW at, clientLoop' = [clientLoop EXCEPT !.at = at]
    PROVE  /\ clientLoop' = [at |-> at, socket |-> clientLoop.socket, generation |-> clientLoop.generation,
                             frame |-> clientLoop.frame]
           /\ clientLoop'.at = at /\ clientLoop'.socket = clientLoop.socket
           /\ clientLoop'.generation = clientLoop.generation /\ clientLoop'.frame = clientLoop.frame
<1>1. clientLoop = [at |-> clientLoop.at, socket |-> clientLoop.socket, generation |-> clientLoop.generation,
                    frame |-> clientLoop.frame]
  BY DEF ThreadInv
<1>2. clientLoop' = [at |-> at, socket |-> clientLoop.socket, generation |-> clientLoop.generation,
                     frame |-> clientLoop.frame]
  BY <1>1
<1> QED BY <1>2

\* The active client is closed: the thread knows an earlier one now.
LEMMA ThreadLosesClient ==
    ASSUME ClientInv, ThreadInv, client'.socket = 0, client'.generation = client.generation + 1,
           UNCHANGED session, NEW at, clientLoop.at # "wait" \/ at = "wait",
           clientLoop' = clientLoop \/ clientLoop' = [clientLoop EXCEPT !.at = at]
    PROVE  ThreadInv'
<1>1. /\ clientLoop' = [at |-> clientLoop'.at, socket |-> clientLoop.socket, generation |-> clientLoop.generation,
                        frame |-> clientLoop.frame]
      /\ clientLoop'.socket = clientLoop.socket /\ clientLoop'.generation = clientLoop.generation
      /\ clientLoop'.frame = clientLoop.frame /\ (clientLoop'.at # "wait" => clientLoop.at # "wait")
  <2>1. CASE clientLoop' = clientLoop
    BY <2>1 DEF ThreadInv
  <2>2. CASE clientLoop' = [clientLoop EXCEPT !.at = at]
    BY <2>2, LoopMoves
  <2> QED BY <2>1, <2>2
<1>2. client.generation \in Nat /\ clientLoop.generation \in Nat /\ clientLoop.generation <= client.generation
  BY DEF ClientInv, Client, ThreadInv
<1>3. clientLoop'.generation < client'.generation /\ ~(client'.socket # 0)
  BY <1>1, <1>2
<1> QED BY <1>1, <1>2, <1>3 DEF ThreadInv, Active, Current

LEMMA ThreadKept == ASSUME ClientInv, ThreadInv, SendingInv, RequestInv, WebThreads PROVE ThreadInv'
<1>1. /\ peers \in [ClientSockets -> Clients \cup {0}] /\ client \in Client
      /\ client.socket \in ClientSockets \cup {0} /\ client.generation \in Nat /\ (Active => client.socket \in ClientSockets)
      /\ clientLoop.generation \in Nat /\ clientLoop.generation <= client.generation
  BY DEF ClientInv, Client, ThreadInv, Active
<1>2. CASE Accept
  <2>1. FreeSockets # {} /\ UNCHANGED <<client, clientLoop, session>>
    BY <1>2 DEF Accept, webConfig
  <2>2. PICK c \in Clients : peers' = [peers EXCEPT ![Min(FreeSockets)] = c]
    BY <1>2 DEF Accept
  <2>3. peers[Min(FreeSockets)] = 0
    BY <2>1, FreeSocketFacts
  <2>4. Active => peers'[client.socket] = peers[client.socket]
    BY <1>1, <2>2, <2>3 DEF ClientInv
  <2> QED BY <2>1, <2>4, ThreadFrame
<1>3. CASE Replace
  <2>1. accepting.at = "replace" /\ UNCHANGED session
    BY <1>3 DEF Replace, webConfig
  <2>2. CASE CloseMatching(accepting.old)
    <3>1. accepting.old.socket # 0
      BY <2>1 DEF ClientInv
    <3>2. client'.socket = 0 /\ client'.generation = client.generation + 1
      BY <2>2, <3>1, CloseFacts
    <3>3. clientLoop' = clientLoop \/ (clientLoop.at = "receive" /\ clientLoop' = [clientLoop EXCEPT !.at = "close"])
      <4>1. \/ clientLoop' \in {clientLoop} \cup (IF clientLoop.at = "receive" /\ clientLoop.socket = accepting.old.socket
                                                   THEN {[clientLoop EXCEPT !.at = "close"]} ELSE {})
            \/ clientLoop' = clientLoop
        BY <1>3 DEF Replace
      <4> QED BY <4>1
    <3>4. CASE clientLoop' = clientLoop
      BY <2>1, <3>2, <3>4, ThreadLosesClient
    <3>5. CASE clientLoop.at = "receive" /\ clientLoop' = [clientLoop EXCEPT !.at = "close"]
      BY <2>1, <3>2, <3>5, ThreadLosesClient
    <3> QED BY <3>3, <3>4, <3>5
  <2>3. CASE UNCHANGED <<client, peers, clientLoop>>
    BY <2>1, <2>3, ThreadFrame
  <2> QED BY <1>3, <2>2, <2>3 DEF Replace
<1>4. CASE NotifyReplaced
  <2>1. UNCHANGED <<client, peers, clientLoop>> /\ CloseSession(accepting.old.generation)
    BY <1>4 DEF NotifyReplaced, webPeers
  <2>2. session'.active => session.active
    BY <2>1 DEF CloseSession
  <2> QED BY <2>1, <2>2, ThreadFrame
<1>5. CASE Adopt
  <2>1. /\ accepting.at = "adopt" /\ client' = [socket |-> accepting.socket, generation |-> client.generation + 1]
        /\ UNCHANGED <<peers, clientLoop, session>>
    BY <1>5 DEF Adopt, webPeers, webConfig
  <2>2. client'.socket = accepting.socket /\ client'.generation = client.generation + 1 /\ client'.socket # 0
    BY <2>1 DEF ClientInv
  <2>3. clientLoop'.generation < client'.generation /\ clientLoop'.generation # client'.generation
    BY <1>1, <2>1, <2>2
  <2> QED BY <1>1, <2>1, <2>2, <2>3 DEF ThreadInv, Active, Current
<1>6. CASE TakeClient
  <2>1. CASE clientLoop' = clientLoop
    <3>1. UNCHANGED <<client, peers, session>>
      BY <1>6 DEF TakeClient, webPeers, webConfig
    <3> QED BY <2>1, <3>1, ThreadFrame
  <2>2. CASE /\ client.socket # 0
             /\ clientLoop' = [at |-> "receive", socket |-> client.socket, generation |-> client.generation, frame |-> NoFrame]
    <3>1. UNCHANGED <<client, peers, session>>
      BY <1>6 DEF TakeClient, webPeers, webConfig
    <3>2. /\ clientLoop' = [at |-> clientLoop'.at, socket |-> clientLoop'.socket, generation |-> clientLoop'.generation,
                            frame |-> clientLoop'.frame]
          /\ clientLoop'.at = "receive" /\ clientLoop'.socket = client.socket /\ clientLoop'.generation = client.generation
      BY <2>2
    <3> QED BY <1>1, <2>2, <3>1, <3>2 DEF ThreadInv, Active, Current
  <2> QED BY <1>6, <2>1, <2>2 DEF TakeClient
<1>7. CASE ReceiveFrame
  <2> DEFINE c == peers[clientLoop.socket]
             at == IF Head(arrived[c]) = "close" THEN "close" ELSE "handle"
             frame == [asker |-> c, kind |-> Head(arrived[c])]
  <2>1. clientLoop.at = "receive" /\ UNCHANGED <<client, peers, session>>
    BY <1>7 DEF ReceiveFrame, webConfig
  <2>2. CASE clientLoop' = [clientLoop EXCEPT !.at = "close"]
    <3>1. /\ clientLoop' = [at |-> clientLoop'.at, socket |-> clientLoop.socket, generation |-> clientLoop.generation,
                            frame |-> clientLoop.frame]
          /\ clientLoop'.at = "close" /\ clientLoop'.socket = clientLoop.socket
          /\ clientLoop'.generation = clientLoop.generation /\ clientLoop'.frame = clientLoop.frame
      BY <2>2, LoopMoves
    <3> QED BY <2>1, <3>1 DEF ThreadInv, Active, Current
  <2>3. CASE clientLoop' = [clientLoop EXCEPT !.at = at, !.frame = frame]
    <3>1. /\ clientLoop' = [at |-> at, socket |-> clientLoop.socket, generation |-> clientLoop.generation, frame |-> frame]
      <4> HIDE DEF at, frame
      <4>1. clientLoop = [at |-> clientLoop.at, socket |-> clientLoop.socket, generation |-> clientLoop.generation,
                          frame |-> clientLoop.frame]
        BY DEF ThreadInv
      <4> QED BY <2>3, <4>1
    <3>2. /\ clientLoop'.at \in {"close", "handle"} /\ clientLoop'.socket = clientLoop.socket
          /\ clientLoop'.generation = clientLoop.generation
          /\ clientLoop'.frame.asker = peers[clientLoop.socket]
      BY <3>1
    <3>3. clientLoop' = [at |-> clientLoop'.at, socket |-> clientLoop'.socket, generation |-> clientLoop'.generation,
                         frame |-> clientLoop'.frame]
      <4> HIDE DEF at, frame
      <4> QED BY <3>1
    <3> QED BY <2>1, <3>2, <3>3 DEF ThreadInv, Active, Current
  <2> QED BY <1>7, <2>2, <2>3 DEF ReceiveFrame
<1>8. CASE HandleSysEx
  <2>1. clientLoop.at = "handle" /\ clientLoop' = [clientLoop EXCEPT !.at = "receive"] /\ UNCHANGED <<client, peers>>
    BY <1>8 DEF HandleSysEx, webPeers
  <2>2. /\ clientLoop' = [at |-> clientLoop'.at, socket |-> clientLoop.socket, generation |-> clientLoop.generation,
                          frame |-> clientLoop.frame]
        /\ clientLoop'.at = "receive" /\ clientLoop'.socket = clientLoop.socket
        /\ clientLoop'.generation = clientLoop.generation /\ clientLoop'.frame = clientLoop.frame
    BY <2>1, LoopMoves
  <2> QED BY <2>1, <2>2 DEF ThreadInv, Active, Current
<1>9. CASE HandleBegin
  <2>1. /\ clientLoop.at = "handle" /\ clientLoop' = [clientLoop EXCEPT !.at = "receive"]
        /\ UNCHANGED <<client, peers, session>>
    BY <1>9 DEF HandleBegin, webPeers, webConfig
  <2>2. /\ clientLoop' = [at |-> clientLoop'.at, socket |-> clientLoop.socket, generation |-> clientLoop.generation,
                          frame |-> clientLoop.frame]
        /\ clientLoop'.at = "receive" /\ clientLoop'.socket = clientLoop.socket
        /\ clientLoop'.generation = clientLoop.generation /\ clientLoop'.frame = clientLoop.frame
    BY <2>1, LoopMoves
  <2> QED BY <2>1, <2>2 DEF ThreadInv, Active, Current
<1>10. CASE CloseClient
  <2>1. clientLoop.at = "close" /\ UNCHANGED session
    BY <1>10 DEF CloseClient, webConfig
  <2>2. CASE /\ client = [socket |-> clientLoop.socket, generation |-> clientLoop.generation]
             /\ CloseMatching(client) /\ clientLoop' = [clientLoop EXCEPT !.at = "notify"]
    <3>1. client.socket # 0
      <4>1. client.socket = clientLoop.socket
        BY <2>2
      <4> QED BY <2>1, <4>1 DEF ThreadInv
    <3>2. client'.socket = 0 /\ client'.generation = client.generation + 1
      BY <2>2, <3>1, CloseFacts
    <3> QED BY <2>1, <2>2, <3>2, ThreadLosesClient
  <2>3. CASE clientLoop' = [clientLoop EXCEPT !.at = "wait"] /\ UNCHANGED <<client, peers>>
    <3>1. /\ clientLoop' = [at |-> clientLoop'.at, socket |-> clientLoop.socket, generation |-> clientLoop.generation,
                            frame |-> clientLoop.frame]
          /\ clientLoop'.at = "wait" /\ clientLoop'.socket = clientLoop.socket
          /\ clientLoop'.generation = clientLoop.generation
      BY <2>3, LoopMoves
    <3> QED BY <2>1, <2>3, <3>1 DEF ThreadInv, Active, Current
  <2> QED BY <1>10, <2>2, <2>3 DEF CloseClient
<1>11. CASE NotifyClosed
  <2>1. /\ clientLoop' = [clientLoop EXCEPT !.at = "wait"] /\ UNCHANGED <<client, peers>>
        /\ CloseSession(clientLoop.generation)
    BY <1>11 DEF NotifyClosed, webPeers
  <2>2. session'.active => session.active
    BY <2>1 DEF CloseSession
  <2>3. /\ clientLoop' = [at |-> clientLoop'.at, socket |-> clientLoop.socket, generation |-> clientLoop.generation,
                          frame |-> clientLoop.frame]
        /\ clientLoop'.at = "wait" /\ clientLoop'.socket = clientLoop.socket
        /\ clientLoop'.generation = clientLoop.generation
    BY <2>1, LoopMoves
  <2> QED BY <2>1, <2>2, <2>3 DEF ThreadInv, Active, Current
<1>12. CASE TakeTx \/ NextFrame \/ SendFrame \/ ConfigTimeout \/ ClientSends \/ ClientLeaves
  <2>1. UNCHANGED <<peers, client, clientLoop, session>>
    BY <1>12 DEF TakeTx, NextFrame, SendFrame, ConfigTimeout, ClientSends, ClientLeaves, webPeers, webThreads, webConfig
  <2> QED BY <2>1, ThreadFrame
<1> QED BY <1>2, <1>3, <1>4, <1>5, <1>6, <1>7, <1>8, <1>9, <1>10, <1>11, <1>12 DEF WebThreads

-----------------------------------------------------------------------------
(* WebSockets: the send thread.                                            *)

LEMMA AppendFacts ==
    ASSUME NEW q, IsSeq(q), NEW e
    PROVE  /\ IsSeq(Append(q, e)) /\ Len(Append(q, e)) = Len(q) + 1
           /\ \A i \in DOMAIN Append(q, e) : Append(q, e)[i] = e \/ (i \in DOMAIN q /\ Append(q, e)[i] = q[i])
           /\ \A i \in DOMAIN q : i \in DOMAIN Append(q, e) /\ Append(q, e)[i] = q[i]
           /\ Len(q) + 1 \in DOMAIN Append(q, e) /\ Append(q, e)[Len(q) + 1] = e
<1> DEFINE S == {q[i] : i \in DOMAIN q} \cup {e}
<1>1. q \in Seq(S) /\ e \in S
  BY SeqMonotonic DEF IsSeq
<1> HIDE DEF S
<1>2. /\ Append(q, e) \in Seq(S) /\ Len(Append(q, e)) = Len(q) + 1
      /\ \A i \in 1 .. Len(q) : Append(q, e)[i] = q[i]
      /\ Append(q, e)[Len(q) + 1] = e
  BY <1>1, AppendProperties
<1>3. /\ Len(q) \in Nat /\ DOMAIN q = 1 .. Len(q) /\ IsSeq(Append(q, e))
      /\ DOMAIN Append(q, e) = 1 .. Len(q) + 1
  BY <1>2, IsASeqOfAnything, SeqFacts
<1> QED BY <1>2, <1>3

LEMMA TailFacts ==
    ASSUME NEW q, IsSeq(q), q # <<>>
    PROVE  /\ IsSeq(Tail(q)) /\ Head(q) = q[1] /\ 1 \in DOMAIN q
           /\ \A i \in DOMAIN Tail(q) : i + 1 \in DOMAIN q /\ Tail(q)[i] = q[i + 1]
<1>1. q \in Seq({q[i] : i \in DOMAIN q})
  BY DEF IsSeq
<1>2. /\ Tail(q) \in Seq({q[i] : i \in DOMAIN q}) /\ Len(Tail(q)) = Len(q) - 1
      /\ \A i \in 1 .. Len(Tail(q)) : Tail(q)[i] = q[i + 1]
  BY <1>1, HeadTailProperties
<1>3. /\ IsSeq(Tail(q)) /\ DOMAIN Tail(q) = 1 .. Len(q) - 1 /\ Head(q) = q[1]
      /\ Len(q) \in Nat /\ DOMAIN q = 1 .. Len(q) /\ Len(q) > 0
  <2>1. IsSeq(Tail(q))
    BY <1>2, IsASeqOfAnything
  <2> QED BY <1>2, <2>1, SeqFacts
<1> QED BY <1>2, <1>3

\* A whole answer has one asker.
LEMMA WholeAnswer ==
    ASSUME NEW n \in Nat, NEW a
    PROVE  LET q == [k \in 1 .. n |-> a] IN Len(q) = n /\ ToSet(Append(q, a)) = {a}
<1> DEFINE q == [k \in 1 .. n |-> a]
<1>1. q = [k \in 1 .. n |-> q[k]] /\ \A k \in DOMAIN q : q[k] = a
  OBVIOUS
<1> HIDE DEF q
<1>2. IsSeq(q) /\ Len(q) = n
  BY <1>1, SegmentIsSeq
<1>3. /\ \A i \in DOMAIN Append(q, a) : Append(q, a)[i] = a
      /\ Len(q) + 1 \in DOMAIN Append(q, a) /\ Append(q, a)[Len(q) + 1] = a
  BY <1>1, <1>2, AppendFacts
<1>4. ToSet(Append(q, a)) = {a}
  BY <1>3 DEF ToSet
<1> QED BY <1>2, <1>4 DEF q

LEMMA SendingFrame ==
    ASSUME SendingInv, UNCHANGED <<client, txQueue, txLoop, delivered>>, Active => peers'[client.socket] = peers[client.socket]
    PROVE  SendingInv'
<1>1. CASE Active
  BY <1>1 DEF SendingInv, Active
<1>2. CASE ~Active
  <2>1. txQueue = <<>> /\ DOMAIN txQueue = {}
    BY <1>2, SmallSeqs, SeqFacts DEF SendingInv
  <2> QED BY <1>2, <2>1 DEF SendingInv, Active
<1> QED BY <1>1, <1>2

LEMMA SendingQueued ==
    ASSUME SendingInv, NEW frame, NEW id, QueueFrame(frame, id), UNCHANGED <<client, peers, txLoop, delivered>>,
           Current(id) => frame.asker = peers[client.socket]
    PROVE  SendingInv'
<1>1. CASE UNCHANGED txQueue
  BY <1>1, SendingFrame
<1>2. CASE Current(id) /\ txQueue' = Append(txQueue, frame)
  <2>1. /\ IsSeq(txQueue')
        /\ \A i \in DOMAIN txQueue' : txQueue'[i] = frame \/ (i \in DOMAIN txQueue /\ txQueue'[i] = txQueue[i])
    BY <1>2, AppendFacts DEF SendingInv
  <2> QED BY <1>2, <2>1 DEF SendingInv, Active, Current
<1> QED BY <1>1, <1>2 DEF QueueFrame, Current, Active

\* A client is closed, or one is adopted when none is active: there is nothing to send.
LEMMA NothingToSend ==
    ASSUME SendingInv, txLoop.at # "send", txQueue' = <<>>, UNCHANGED <<txLoop, delivered>>
    PROVE  SendingInv'
<1>1. IsSeq(<<>>) /\ DOMAIN <<>> = {}
  BY SmallSeqs, SeqFacts
<1> QED BY <1>1 DEF SendingInv, Active

LEMMA SendingKept == ASSUME ClientInv, ThreadInv, SendingInv, WebThreads PROVE SendingInv'
<1>1. /\ peers \in [ClientSockets -> Clients \cup {0}] /\ client \in Client
      /\ client.socket \in ClientSockets \cup {0} /\ client.generation \in Nat /\ (Active => client.socket \in ClientSockets)
  BY DEF ClientInv, Client, Active
<1>2. CASE Accept
  <2>1. FreeSockets # {} /\ UNCHANGED <<client, txQueue, txLoop, delivered>>
    BY <1>2 DEF Accept, webSending
  <2>2. PICK c \in Clients : peers' = [peers EXCEPT ![Min(FreeSockets)] = c]
    BY <1>2 DEF Accept
  <2>3. peers[Min(FreeSockets)] = 0
    BY <2>1, FreeSocketFacts
  <2>4. Active => peers'[client.socket] = peers[client.socket]
    BY <1>1, <2>2, <2>3 DEF ClientInv
  <2> QED BY <2>1, <2>4, SendingFrame
<1>3. CASE Replace
  <2>1. accepting.at = "replace" /\ UNCHANGED <<txLoop, delivered>>
    BY <1>3 DEF Replace
  <2>2. CASE CloseMatching(accepting.old)
    <3>1. accepting.old.socket # 0
      BY <2>1 DEF ClientInv
    <3>2. txLoop.at # "send" /\ txQueue' = <<>>
      BY <2>2, <3>1, CloseFacts
    <3> QED BY <2>1, <3>2, NothingToSend
  <2>3. CASE UNCHANGED <<client, peers, txQueue>>
    BY <2>1, <2>3, SendingFrame
  <2> QED BY <1>3, <2>2, <2>3 DEF Replace
<1>4. CASE Adopt
  <2>1. accepting.at = "adopt" /\ txLoop.at # "send" /\ UNCHANGED <<txQueue, txLoop, delivered>>
    BY <1>4 DEF Adopt, Locked, webSending, webPeers
  <2>2. txQueue' = <<>>
    BY <2>1 DEF SendingInv, ClientInv
  <2> QED BY <2>1, <2>2, NothingToSend
<1>5. CASE HandleBegin
  <2>1. /\ clientLoop.at = "handle" /\ QueueFrame(clientLoop.frame, clientLoop.generation)
        /\ UNCHANGED <<client, peers, txLoop, delivered>>
    BY <1>5 DEF HandleBegin, webPeers
  <2>2. Current(clientLoop.generation) => clientLoop.frame.asker = peers[client.socket]
    BY <2>1 DEF ThreadInv
  <2> QED BY <2>1, <2>2, SendingQueued
<1>6. CASE CloseClient
  <2>1. clientLoop.at = "close" /\ UNCHANGED <<txLoop, delivered>>
    BY <1>6 DEF CloseClient
  <2>2. CASE client = [socket |-> clientLoop.socket, generation |-> clientLoop.generation] /\ CloseMatching(client)
    <3>1. client.socket # 0
      <4>1. client.socket = clientLoop.socket
        BY <2>2
      <4> QED BY <2>1, <4>1 DEF ThreadInv
    <3>2. txLoop.at # "send" /\ txQueue' = <<>>
      BY <2>2, <3>1, CloseFacts
    <3> QED BY <2>1, <3>2, NothingToSend
  <2>3. CASE UNCHANGED <<client, peers, txQueue>>
    BY <2>1, <2>3, SendingFrame
  <2> QED BY <1>6, <2>2, <2>3 DEF CloseClient
<1>7. CASE TakeTx
  <2>1. txLoop' = [txLoop EXCEPT !.at = "drain"] /\ UNCHANGED <<client, peers, txQueue, delivered>>
    BY <1>7 DEF TakeTx, webPeers
  <2>2. txLoop = [at |-> txLoop.at, frame |-> txLoop.frame]
    BY DEF SendingInv
  <2>3. txLoop' = [at |-> "drain", frame |-> txLoop.frame]
    BY <2>1, <2>2
  <2>4. txLoop' = [at |-> txLoop'.at, frame |-> txLoop'.frame] /\ txLoop'.at = "drain"
    BY <2>3
  <2> QED BY <2>1, <2>4 DEF SendingInv, Active
<1>8. CASE NextFrame
  <2>1. UNCHANGED <<client, peers, delivered>>
    BY <1>8 DEF NextFrame, webPeers
  <2>2. CASE txLoop' = [txLoop EXCEPT !.at = "wait"] /\ UNCHANGED txQueue
    <3>1. txLoop = [at |-> txLoop.at, frame |-> txLoop.frame]
      BY DEF SendingInv
    <3>2. txLoop' = [at |-> "wait", frame |-> txLoop.frame]
      BY <2>2, <3>1
    <3>3. txLoop' = [at |-> txLoop'.at, frame |-> txLoop'.frame] /\ txLoop'.at = "wait"
      BY <3>2
    <3> QED BY <2>1, <2>2, <3>3 DEF SendingInv, Active
  <2>3. CASE /\ client.socket # 0 /\ txQueue # <<>>
             /\ txLoop' = [at |-> "send", frame |-> Head(txQueue)] /\ txQueue' = Tail(txQueue)
    <3>1. /\ IsSeq(txQueue') /\ Head(txQueue) = txQueue[1] /\ 1 \in DOMAIN txQueue
          /\ \A i \in DOMAIN txQueue' : i + 1 \in DOMAIN txQueue /\ txQueue'[i] = txQueue[i + 1]
      BY <2>3, TailFacts DEF SendingInv
    <3>2. /\ txLoop' = [at |-> txLoop'.at, frame |-> txLoop'.frame] /\ txLoop'.frame = txQueue[1]
      BY <2>3, <3>1
    <3> QED BY <2>1, <2>3, <3>1, <3>2 DEF SendingInv, Active
  <2> QED BY <1>8, <2>2, <2>3 DEF NextFrame
<1>9. CASE SendFrame
  <2>1. /\ txLoop.at = "send" /\ txLoop' = [at |-> "drain", frame |-> NoFrame] /\ UNCHANGED <<client, peers, txQueue>>
        /\ delivered' = IF peers[client.socket] \notin gone /\ txLoop.frame.asker # peers[client.socket]
                        THEN delivered \cup {peers[client.socket]} ELSE delivered
    BY <1>9 DEF SendFrame
  <2>2. delivered' = {}
    BY <2>1 DEF SendingInv
  <2>3. txLoop' = [at |-> txLoop'.at, frame |-> txLoop'.frame] /\ txLoop'.at = "drain"
    BY <2>1
  <2> QED BY <2>1, <2>2, <2>3 DEF SendingInv, Active
<1>10. CASE \/ NotifyReplaced \/ TakeClient \/ ReceiveFrame \/ HandleSysEx \/ NotifyClosed \/ ConfigTimeout
            \/ ClientSends \/ ClientLeaves
  <2>1. UNCHANGED <<peers, client, txQueue, txLoop, delivered>>
    BY <1>10 DEF NotifyReplaced, TakeClient, ReceiveFrame, HandleSysEx, NotifyClosed, ConfigTimeout, ClientSends,
                 ClientLeaves, webPeers, webSending
  <2> QED BY <2>1, SendingFrame
<1> QED BY <1>2, <1>3, <1>4, <1>5, <1>6, <1>7, <1>8, <1>9, <1>10 DEF WebThreads

\* The answer that System gives becomes a frame of the client that asked for it.
LEMMA AnswerSent ==
    ASSUME BusInv, ClientInv, SendingInv, RequestInv, PartsInv, AnswerInv, HeadIs("response"), HandleResponse(bus[1])
    PROVE  SendingInv'
<1> DEFINE m == bus[1]
           whole == {m.asker} = ToSet(Append(answer, m.asker)) /\ Len(answer) = Fragments - 1
           frame == [asker |-> IF whole THEN m.asker ELSE 0, kind |-> "answer"]
<1>1. UNCHANGED <<client, peers, txLoop, delivered>>
  BY DEF HandleResponse, webPeers
<1>2. CASE UNCHANGED txQueue
  BY <1>1, <1>2, SendingFrame
<1>3. CASE Current(m.session) /\ ~(m.part < Fragments) /\ QueueFrame(frame, m.session)
  <2>1. 1 \in DOMAIN bus /\ m.kind = "response"
    BY SeqFacts DEF BusInv, HeadIs
  <2>2. m.asker = peers[client.socket]
    BY <1>3, <2>1 DEF RequestInv
  <2>3. m.part = Fragments /\ Fragments \in Nat \ {0}
    BY <1>3, <2>1, WebAssumption DEF PartsInv, IsPart
  <2>4. answer = [k \in 1 .. Fragments - 1 |-> m.asker]
    BY <1>3, <2>1, <2>3 DEF AnswerInv, HeadIsCurrent, IsPart, HeadIs, Gathered
  <2>5. whole
    <3>1. Fragments - 1 \in Nat
      BY <2>3
    <3> HIDE DEF m
    <3>2. Len(answer) = Fragments - 1 /\ ToSet(Append(answer, m.asker)) = {m.asker}
      BY <2>4, <3>1, WholeAnswer
    <3> QED BY <3>2
  <2>6. frame.asker = peers[client.socket]
    BY <2>2, <2>5
  <2> HIDE DEF frame
  <2> QED BY <1>1, <1>3, <2>6, SendingQueued
<1>4. \/ UNCHANGED txQueue
      \/ Current(m.session) /\ ~(m.part < Fragments) /\ QueueFrame(frame, m.session)
  BY DEF HandleResponse, Current, Active
<1> QED BY <1>2, <1>3, <1>4

-----------------------------------------------------------------------------
(* WebSockets: what is asked in a session.                                 *)

LEMMA CloseSessionFacts ==
    ASSUME BusInv, NEW id, CloseSession(id)
    PROVE  /\ Adds(0, {"disconnect"})
           /\ ~Established(id) => UNCHANGED <<session, answer, bus>>
           /\ Established(id) =>
                 /\ session' = [session EXCEPT !.active = FALSE] /\ answer' = <<>>
                 /\ \E n \in DOMAIN bus' : /\ n \notin DOMAIN bus
                                           /\ bus'[n] = [kind |-> "disconnect", session |-> id]
<1> DEFINE m == [kind |-> "disconnect", session |-> id]
<1>1. CASE ~Established(id)
  <2>1. UNCHANGED <<session, answer, bus>>
    BY <1>1 DEF CloseSession, Established
  <2> QED BY <1>1, <2>1, BusUnchanged, AddsMore
<1>2. CASE Established(id)
  <2>1. session' = [session EXCEPT !.active = FALSE] /\ answer' = <<>> /\ bus' = Append(bus, m) /\ m.kind = "disconnect"
    BY <1>2 DEF CloseSession, Established
  <2> HIDE DEF m
  <2>2. Adds(0, {"disconnect"})
    BY <2>1, AddsOne
  <2>3. Len(bus) + 1 \in DOMAIN bus' /\ bus'[Len(bus) + 1] = m /\ Len(bus) + 1 \notin DOMAIN bus
    <3>1. IsSeq(bus)
      BY DEF BusInv
    <3>2. Len(bus) \in Nat /\ DOMAIN bus = 1 .. Len(bus)
      BY <3>1, SeqFacts
    <3>3. Len(bus) + 1 \in DOMAIN Append(bus, m) /\ Append(bus, m)[Len(bus) + 1] = m
      BY <3>1, AppendFacts
    <3> QED BY <2>1, <3>2, <3>3
  <2> QED BY <1>2, <2>1, <2>2, <2>3 DEF m
<1> QED BY <1>1, <1>2

\* What is asked in the session of the active client stays so when no other becomes active and nothing more is asked.
NoNewClient ==
    client'.socket # 0 =>
        \/ UNCHANGED <<client, session>> /\ peers'[client.socket] = peers[client.socket]
        \/ client'.generation > clientLoop.generation
SessionGoesOn ==
    /\ session' = session \/ session' = [session EXCEPT !.active = FALSE]
    /\ config' = config \/ config' = [config EXCEPT !.on = FALSE]
    /\ clientLoop'.generation \in Nat /\ clientLoop.generation <= clientLoop'.generation

LEMMA RequestStays ==
    ASSUME BusInv, ClientInv, ThreadInv, RequestInv, NoNewClient, SessionGoesOn,
           NEW d, NEW kinds, Adds(d, kinds), Disjoint(kinds, {"request", "response"})
    PROVE  RequestInv'
<1>1. \A j \in DOMAIN bus' : bus'[j].kind \in {"request", "response"} => \E i \in DOMAIN bus : bus'[j] = bus[i]
  <2>1. \A j \in DOMAIN bus' : bus'[j].kind \in {"request", "response"} => j + d \in DOMAIN bus /\ bus'[j] = bus[j + d]
    BY SignalsShifted
  <2> QED BY <2>1
<1>2. /\ session' = [active |-> session'.active, id |-> session'.id] /\ session'.id = session.id
      /\ session'.active \in BOOLEAN /\ (session'.active => session.active)
  <2>1. session = [active |-> session.active, id |-> session.id] /\ session.active \in BOOLEAN
    BY DEF RequestInv
  <2>2. CASE session' = session
    BY <2>1, <2>2
  <2>3. CASE session' = [session EXCEPT !.active = FALSE]
    <3>1. session' = [active |-> FALSE, id |-> session.id]
      BY <2>1, <2>3
    <3> QED BY <3>1
  <2> QED BY <2>2, <2>3 DEF SessionGoesOn
<1>3. /\ config' = [on |-> config'.on, session |-> config'.session] /\ config'.session = config.session
      /\ (config'.on => config.on)
  <2>1. config = [on |-> config.on, session |-> config.session]
    BY DEF RequestInv
  <2>2. CASE config' = config
    BY <2>1, <2>2
  <2>3. CASE config' = [config EXCEPT !.on = FALSE]
    <3>1. config' = [on |-> FALSE, session |-> config.session]
      BY <2>1, <2>3
    <3> QED BY <3>1
  <2> QED BY <2>2, <2>3 DEF SessionGoesOn
<1>4. clientLoop.generation \in Nat /\ clientLoop'.generation \in Nat /\ clientLoop.generation <= clientLoop'.generation
  BY DEF SessionGoesOn, ThreadInv
<1>5. ASSUME NEW id \in Nat, id <= clientLoop.generation, client'.socket # 0, client'.generation = id
      PROVE  Current(id) /\ peers'[client'.socket] = peers[client.socket] /\ session' = session
  BY <1>4, <1>5 DEF NoNewClient, Current, Active
<1>6. ASSUME NEW id \in Nat, id <= clientLoop.generation PROVE id <= clientLoop'.generation
  BY <1>4, <1>6
<1>7. session'.id \in Nat /\ (session'.active => session'.id <= clientLoop'.generation)
  BY <1>2, <1>6 DEF RequestInv
<1>8. /\ config'.on => config'.session \in Nat /\ config'.session <= clientLoop'.generation
      /\ config'.on /\ client'.socket # 0 /\ client'.generation = config'.session =>
            session'.active /\ session'.id = config'.session
  BY <1>3, <1>5, <1>6 DEF RequestInv, Established
<1>9. ASSUME NEW j \in DOMAIN bus', bus'[j].kind \in {"request", "response"}
      PROVE  /\ bus'[j].session \in Nat /\ bus'[j].session <= clientLoop'.generation
             /\ client'.socket # 0 /\ client'.generation = bus'[j].session =>
                   session'.active /\ session'.id = bus'[j].session /\ bus'[j].asker = peers'[client'.socket]
  <2>1. PICK i \in DOMAIN bus : bus'[j] = bus[i]
    BY <1>1, <1>9
  <2>2. /\ bus[i].session \in Nat /\ bus[i].session <= clientLoop.generation
        /\ Current(bus[i].session) => Established(bus[i].session) /\ bus[i].asker = peers[client.socket]
    BY <1>9, <2>1 DEF RequestInv
  <2> QED BY <1>5, <1>6, <2>1, <2>2 DEF Established
<1> QED BY <1>2, <1>3, <1>7, <1>8, <1>9 DEF RequestInv, Current, Active, Established

LEMMA LoopGenerations ==
    ASSUME ClientInv, ThreadInv, WebThreads
    PROVE  /\ clientLoop'.generation \in Nat /\ clientLoop.generation <= clientLoop'.generation
           /\ clientLoop'.generation = clientLoop.generation \/ (TakeClient /\ clientLoop.at = "wait")
<1>1. /\ clientLoop.generation \in Nat /\ client.generation \in Nat /\ clientLoop.generation <= client.generation
  BY DEF ClientInv, Client, ThreadInv
<1>2. CASE TakeClient
  <2>1. clientLoop.at = "wait" /\ (clientLoop'.generation = clientLoop.generation \/ clientLoop'.generation = client.generation)
    BY <1>2 DEF TakeClient
  <2> QED BY <1>1, <1>2, <2>1
<1>3. CASE Replace
  <2>1. clientLoop' = clientLoop \/ clientLoop' = [clientLoop EXCEPT !.at = "close"]
    BY <1>3 DEF Replace
  <2>2. clientLoop'.generation = clientLoop.generation
    BY <2>1, LoopMoves
  <2> QED BY <1>1, <2>2
<1>4. CASE ReceiveFrame
  <2>1. clientLoop'.generation = clientLoop.generation
    BY <1>4 DEF ReceiveFrame, ThreadInv
  <2> QED BY <1>1, <2>1
<1>5. CASE HandleSysEx \/ HandleBegin \/ CloseClient \/ NotifyClosed
  <2>1. PICK at : clientLoop' = [clientLoop EXCEPT !.at = at]
    BY <1>5 DEF HandleSysEx, HandleBegin, CloseClient, NotifyClosed
  <2>2. clientLoop'.generation = clientLoop.generation
    BY <2>1, LoopMoves
  <2> QED BY <1>1, <2>2
<1>6. CASE \/ Accept \/ NotifyReplaced \/ Adopt \/ TakeTx \/ NextFrame \/ SendFrame \/ ConfigTimeout \/ ClientSends \/ ClientLeaves
  <2>1. UNCHANGED clientLoop
    BY <1>6 DEF Accept, NotifyReplaced, Adopt, TakeTx, NextFrame, SendFrame, ConfigTimeout, ClientSends, ClientLeaves,
                webThreads
  <2> QED BY <1>1, <2>1
<1> QED BY <1>2, <1>3, <1>4, <1>5, <1>6 DEF WebThreads

LEMMA QuietFacts ==
    ASSUME QuietClientStep
    PROVE  UNCHANGED <<bus, session, answer, config, overtaken>>
BY DEF QuietClientStep, Accept, Replace, Adopt, TakeClient, ReceiveFrame, CloseClient, TakeTx, NextFrame, SendFrame,
       ClientSends, ClientLeaves, sharedVars, webConfig

LEMMA NoNewClientHere ==
    ASSUME ClientInv, ThreadInv, WebThreads, ~HandleSysEx
    PROVE  NoNewClient /\ SessionGoesOn
<1>1. /\ peers \in [ClientSockets -> Clients \cup {0}] /\ client \in Client /\ client.socket \in ClientSockets \cup {0}
      /\ client.generation \in Nat /\ clientLoop.generation \in Nat /\ clientLoop.generation <= client.generation
  BY DEF ClientInv, Client, ThreadInv
<1>2. clientLoop'.generation \in Nat /\ clientLoop.generation <= clientLoop'.generation
  BY LoopGenerations
<1>3. CASE NotifyReplaced \/ NotifyClosed
  <2>1. PICK id : CloseSession(id)
    BY <1>3 DEF NotifyReplaced, NotifyClosed
  <2>2. session' = session \/ session' = [session EXCEPT !.active = FALSE]
    BY <2>1 DEF CloseSession
  <2>3. UNCHANGED <<client, config>>
    BY <1>3 DEF NotifyReplaced, NotifyClosed
  <2>4. client.socket # 0 => client.generation > clientLoop.generation
    <3>1. CASE NotifyReplaced
      BY <3>1 DEF NotifyReplaced, ClientInv, Active
    <3>2. CASE NotifyClosed
      BY <1>1, <3>2 DEF NotifyClosed, ThreadInv
    <3> QED BY <1>3, <3>1, <3>2
  <2> QED BY <1>2, <2>2, <2>3, <2>4 DEF NoNewClient, SessionGoesOn
<1>4. CASE HandleBegin
  <2>1. UNCHANGED <<client, peers, session, config>>
    BY <1>4 DEF HandleBegin, webPeers, webConfig
  <2> QED BY <1>2, <2>1 DEF NoNewClient, SessionGoesOn
<1>5. CASE ConfigTimeout
  <2>1. UNCHANGED <<client, peers, session>> /\ config' = [config EXCEPT !.on = FALSE]
    BY <1>5 DEF ConfigTimeout, webPeers
  <2> QED BY <1>2, <2>1 DEF NoNewClient, SessionGoesOn
<1>6. ASSUME QuietClientStep PROVE SessionGoesOn /\ UNCHANGED session
  BY <1>2, <1>6, QuietFacts DEF SessionGoesOn
<1>7. CASE Accept
  <2>1. FreeSockets # {} /\ UNCHANGED client
    BY <1>7 DEF Accept
  <2>2. PICK c \in Clients : peers' = [peers EXCEPT ![Min(FreeSockets)] = c]
    BY <1>7 DEF Accept
  <2>3. peers[Min(FreeSockets)] = 0
    BY <2>1, FreeSocketFacts
  <2>4. Active => peers'[client.socket] = peers[client.socket]
    BY <1>1, <2>2, <2>3 DEF ClientInv, Active
  <2> QED BY <1>6, <1>7, <2>1, <2>4 DEF QuietClientStep, NoNewClient, Active
<1>8. CASE Replace
  <2>1. accepting.at = "replace"
    BY <1>8 DEF Replace
  <2>2. CASE CloseMatching(accepting.old)
    <3>1. accepting.old.socket # 0
      BY <2>1 DEF ClientInv
    <3>2. client'.socket = 0
      BY <2>2, <3>1, CloseFacts
    <3> QED BY <1>6, <1>8, <3>2 DEF QuietClientStep, NoNewClient
  <2>3. CASE UNCHANGED <<client, peers>>
    BY <1>6, <1>8, <2>3 DEF QuietClientStep, NoNewClient
  <2> QED BY <1>8, <2>2, <2>3 DEF Replace
<1>9. CASE Adopt
  <2>1. client' = [socket |-> accepting.socket, generation |-> client.generation + 1]
    BY <1>9 DEF Adopt
  <2>2. client'.generation > clientLoop.generation
    BY <1>1, <2>1
  <2> QED BY <1>6, <1>9, <2>2 DEF QuietClientStep, NoNewClient
<1>10. CASE CloseClient
  <2>1. clientLoop.at = "close"
    BY <1>10 DEF CloseClient
  <2>2. CASE client = [socket |-> clientLoop.socket, generation |-> clientLoop.generation] /\ CloseMatching(client)
    <3>1. client.socket # 0
      <4>1. client.socket = clientLoop.socket
        BY <2>2
      <4> QED BY <2>1, <4>1 DEF ThreadInv
    <3>2. client'.socket = 0
      BY <2>2, <3>1, CloseFacts
    <3> QED BY <1>6, <1>10, <3>2 DEF QuietClientStep, NoNewClient
  <2>3. CASE UNCHANGED <<client, peers>>
    BY <1>6, <1>10, <2>3 DEF QuietClientStep, NoNewClient
  <2> QED BY <1>10, <2>2, <2>3 DEF CloseClient
<1>11. CASE \/ TakeClient \/ ReceiveFrame \/ TakeTx \/ NextFrame \/ SendFrame \/ ClientSends \/ ClientLeaves
  <2>1. UNCHANGED <<client, peers>>
    BY <1>11 DEF TakeClient, ReceiveFrame, TakeTx, NextFrame, SendFrame, ClientSends, ClientLeaves, webPeers
  <2> QED BY <1>6, <1>11, <2>1 DEF QuietClientStep, NoNewClient
<1> QED BY <1>3, <1>4, <1>5, <1>7, <1>8, <1>9, <1>10, <1>11 DEF WebThreads

\* A frame of the client becomes a request.
Asked == [kind |-> "request", session |-> clientLoop.generation, asker |-> clientLoop.frame.asker]

LEMMA SysExFacts ==
    ASSUME BusInv, ThreadInv, HandleSysEx
    PROVE  /\ clientLoop.at = "handle" /\ clientLoop'.at = "receive" /\ clientLoop'.generation = clientLoop.generation
           /\ UNCHANGED <<client, peers, accepting, answer, config>>
           /\ session' = [active |-> TRUE, id |-> clientLoop.generation]
           /\ Adds(0, {"request", "traffic"})
           /\ \A i \in DOMAIN bus : i \in DOMAIN bus' /\ bus'[i] = bus[i]
           /\ \A j \in DOMAIN bus' : bus'[j].kind \notin {"request", "traffic"} => j \in DOMAIN bus
           /\ \A j \in DOMAIN bus' : bus'[j].kind \in WebKinds => (j \in DOMAIN bus /\ bus'[j] = bus[j]) \/ bus'[j] = Asked
<1> DEFINE r == <<Asked, Traffic("NetworkIn")>>
<1>1. clientLoop.at = "handle" /\ clientLoop' = [clientLoop EXCEPT !.at = "receive"] /\ bus' = bus \o r
      /\ UNCHANGED <<client, peers, accepting, answer, config>> /\ session' = [active |-> TRUE, id |-> clientLoop.generation]
  BY DEF HandleSysEx, Asked, webPeers
<1>2. clientLoop'.at = "receive" /\ clientLoop'.generation = clientLoop.generation
  BY <1>1, LoopMoves
<1>3. Traffic("NetworkIn").kind = "traffic" /\ Traffic("NetworkIn").type # "NetworkUp" /\ Asked.kind = "request"
  BY DEF Traffic, Asked
<1>4. IsSeq(r) /\ Len(r) = 2 /\ r[1] = Asked /\ r[2] = Traffic("NetworkIn")
  BY SmallSeqs
<1> HIDE DEF r
<1>5. DOMAIN r = {1, 2}
  BY <1>4, SeqFacts
<1>6. Adds(0, {"request", "traffic"}) /\ BusStep(0, r)
  <2>1. \A i \in DOMAIN r : r[i].kind \in {"request", "traffic"} /\ (r[i].kind = "traffic" => r[i].type # "NetworkUp")
    BY <1>3, <1>4, <1>5
  <2>2. BusStep(0, r)
    BY <1>1, <1>4 DEF BusStep, Shift
  <2>3. Adds(0, {"request", "traffic"})
    BY <1>1, <1>4, <2>1, AddsSome
  <2> QED BY <2>2, <2>3
<1>7. /\ DOMAIN bus \subseteq Nat /\ DOMAIN bus' \subseteq Nat
      /\ \A j \in DOMAIN bus' : \/ j + 0 \in DOMAIN bus /\ bus'[j] = bus[j + 0]
                                \/ \E k \in DOMAIN r : bus'[j] = r[k]
      /\ \A i \in DOMAIN bus : i > 0 => i - 0 \in DOMAIN bus' /\ bus'[i - 0] = bus[i]
      /\ \A i \in DOMAIN bus : i > 0
  <2>1. /\ Len(bus) \in Nat /\ Len(r) \in Nat /\ DOMAIN bus = 1 .. Len(bus) /\ DOMAIN bus' = 1 .. Len(bus) - 0 + Len(r)
        /\ \A j \in DOMAIN bus' :
                 \/ j + 0 \in DOMAIN bus /\ bus'[j] = bus[j + 0]
                 \/ /\ j > Len(bus) - 0 /\ j - (Len(bus) - 0) \in DOMAIN r
                    /\ bus'[j] = r[j - (Len(bus) - 0)]
        /\ \A i \in DOMAIN bus : i > 0 => i - 0 \in DOMAIN bus' /\ bus'[i - 0] = bus[i]
    BY <1>6, BusFacts
  <2> QED BY <2>1
<1>8. \A j \in DOMAIN bus' : (j \in DOMAIN bus /\ bus'[j] = bus[j]) \/ bus'[j] = Asked \/ bus'[j].kind = "traffic"
  BY <1>3, <1>4, <1>5, <1>7
<1>9. \A i \in DOMAIN bus : i \in DOMAIN bus' /\ bus'[i] = bus[i]
  BY <1>7
<1> QED BY <1>1, <1>2, <1>3, <1>6, <1>8, <1>9 DEF WebKinds

LEMMA RequestAsked == ASSUME BusInv, ClientInv, ThreadInv, RequestInv, HandleSysEx PROVE RequestInv'
<1>1. /\ clientLoop.at = "handle" /\ clientLoop'.generation = clientLoop.generation
      /\ UNCHANGED <<client, peers, config>> /\ session' = [active |-> TRUE, id |-> clientLoop.generation]
      /\ \A j \in DOMAIN bus' : bus'[j].kind \in WebKinds => (j \in DOMAIN bus /\ bus'[j] = bus[j]) \/ bus'[j] = Asked
  BY SysExFacts
<1>2. /\ session' = [active |-> session'.active, id |-> session'.id] /\ session'.active = TRUE
      /\ session'.id = clientLoop.generation
  BY <1>1
<1>3. clientLoop.generation \in Nat /\ client.generation \in Nat /\ clientLoop.generation <= client.generation
  BY DEF ClientInv, Client, ThreadInv
<1>4. \A id \in Nat : id <= clientLoop.generation /\ Current(id) => id = clientLoop.generation
  BY <1>3 DEF Current
<1>5. config.on /\ Current(config.session) => config.session = clientLoop.generation
  BY <1>4 DEF RequestInv
<1>6. ASSUME NEW j \in DOMAIN bus', bus'[j].kind \in {"request", "response"}
      PROVE  /\ bus'[j].session \in Nat /\ bus'[j].session <= clientLoop.generation
             /\ Current(bus'[j].session) => bus'[j].session = clientLoop.generation /\ bus'[j].asker = peers[client.socket]
  <2>1. CASE j \in DOMAIN bus /\ bus'[j] = bus[j]
    <3>1. /\ bus[j].session \in Nat /\ bus[j].session <= clientLoop.generation
          /\ Current(bus[j].session) => bus[j].asker = peers[client.socket]
      BY <1>6, <2>1 DEF RequestInv
    <3> QED BY <1>4, <2>1, <3>1
  <2>2. CASE bus'[j] = Asked
    <3>1. bus'[j].session = clientLoop.generation /\ bus'[j].asker = clientLoop.frame.asker
      BY <2>2 DEF Asked
    <3>2. Current(clientLoop.generation) => clientLoop.frame.asker = peers[client.socket]
      BY <1>1 DEF ThreadInv
    <3> QED BY <1>3, <3>1, <3>2
  <2> QED BY <1>1, <1>6, <2>1, <2>2 DEF WebKinds
<1> QED BY <1>1, <1>2, <1>3, <1>5, <1>6 DEF RequestInv, Current, Active, Established

\* What the other steps of the clients and their threads add to the bus.
LEMMA ThreadsAdd ==
    ASSUME BusInv, WebThreads, ~HandleSysEx
    PROVE  Adds(0, {"disconnect", "traffic", "closed"})
<1>1. CASE QuietClientStep
  <2>1. UNCHANGED bus
    BY <1>1, QuietFacts
  <2> QED BY <2>1, BusUnchanged, AddsMore
<1>2. CASE NotifyReplaced \/ NotifyClosed
  <2>1. PICK id : CloseSession(id)
    BY <1>2 DEF NotifyReplaced, NotifyClosed
  <2>2. Adds(0, {"disconnect"})
    BY <2>1, CloseSessionFacts
  <2> QED BY <2>2, AddsMore
<1>3. CASE HandleBegin
  <2> DEFINE a == [kind |-> "disconnect", session |-> clientLoop.generation]
             r == <<a, Traffic("NetworkIn"), Traffic("NetworkOut")>>
  <2>1. bus' = bus \o r /\ a.kind = "disconnect"
    BY <1>3 DEF HandleBegin
  <2> HIDE DEF a
  <2>2. IsSeq(r) /\ Len(r) = 3 /\ r[1] = a /\ r[2] = Traffic("NetworkIn") /\ r[3] = Traffic("NetworkOut")
    BY SmallSeqs
  <2> HIDE DEF r
  <2>3. DOMAIN r = {1, 2, 3}
    BY <2>2, SeqFacts
  <2>4. /\ Traffic("NetworkIn").kind = "traffic" /\ Traffic("NetworkIn").type # "NetworkUp"
        /\ Traffic("NetworkOut").kind = "traffic" /\ Traffic("NetworkOut").type # "NetworkUp"
    BY DEF Traffic
  <2>5. \A i \in DOMAIN r : r[i].kind \in {"disconnect", "traffic", "closed"} /\ (r[i].kind = "traffic" => r[i].type # "NetworkUp")
    BY <2>1, <2>2, <2>3, <2>4
  <2> QED BY <2>1, <2>2, <2>5, AddsSome
<1>4. CASE ConfigTimeout
  <2>1. Adds(0, {[kind |-> "closed"].kind})
    <3> DEFINE m == [kind |-> "closed"]
    <3>1. m.kind = "closed" /\ bus' = Append(bus, m)
      BY <1>4 DEF ConfigTimeout
    <3> HIDE DEF m
    <3>2. Adds(0, {m.kind})
      BY <3>1, AddsOne
    <3> QED BY <3>2 DEF m
  <2> QED BY <2>1, AddsMore
<1> QED BY <1>1, <1>2, <1>3, <1>4 DEF WebThreads, QuietClientStep

LEMMA RequestKept == ASSUME BusInv, ClientInv, ThreadInv, RequestInv, WebThreads PROVE RequestInv'
<1>1. CASE HandleSysEx
  BY <1>1, RequestAsked
<1>2. CASE ~HandleSysEx
  <2>1. Adds(0, {"disconnect", "traffic", "closed"}) /\ NoNewClient /\ SessionGoesOn
    BY <1>2, ThreadsAdd, NoNewClientHere
  <2>2. Disjoint({"disconnect", "traffic", "closed"}, {"request", "response"})
    BY DEF Disjoint
  <2> QED BY <2>1, <2>2, RequestStays
<1> QED BY <1>1, <1>2

-----------------------------------------------------------------------------
(* WebSockets: what System does in a session.                              *)

LEMMA AnsweredSignals ==
    ASSUME BusInv, BusStep(1, Answered(bus[1]))
    PROVE  /\ DOMAIN bus \subseteq Nat /\ 1 \in DOMAIN bus
           /\ \A j \in DOMAIN bus' : \/ j + 1 \in DOMAIN bus /\ bus'[j] = bus[j + 1]
                                     \/ /\ bus'[j].kind = "response"
                                        /\ bus'[j].session = bus[1].session /\ bus'[j].asker = bus[1].asker
                                     \/ bus'[j].kind = "opened"
           /\ \A i \in DOMAIN bus : i > 1 => i - 1 \in DOMAIN bus' /\ bus'[i - 1] = bus[i]
<1> DEFINE r == Answered(bus[1])
<1>1. /\ \A i \in 1 .. Fragments :
            r[i] = [kind |-> "response", session |-> bus[1].session, asker |-> bus[1].asker, part |-> i]
      /\ \A i \in DOMAIN r : i > Fragments => r[i] = [kind |-> "opened"]
      /\ DOMAIN r = 1 .. Len(r) /\ Len(r) \in Nat /\ Fragments \in Nat
  BY AnsweredFacts, WebAssumption
<1>2. BusStep(1, r)
  OBVIOUS
<1> HIDE DEF r
<1>3. \A i \in DOMAIN r : \/ /\ r[i].kind = "response"
                             /\ r[i].session = bus[1].session /\ r[i].asker = bus[1].asker
                          \/ r[i].kind = "opened"
  <2> TAKE i \in DOMAIN r
  <2>1. CASE i \in 1 .. Fragments
    <3>1. r[i] = [kind |-> "response", session |-> bus[1].session, asker |-> bus[1].asker, part |-> i]
      BY <1>1, <2>1
    <3> QED BY <3>1
  <2>2. CASE i > Fragments
    <3>1. r[i] = [kind |-> "opened"]
      BY <1>1, <2>2
    <3> QED BY <3>1
  <2> QED BY <1>1, <2>1, <2>2
<1>4. /\ DOMAIN bus = 1 .. Len(bus) /\ Len(bus) \in Nat /\ 1 <= Len(bus)
      /\ \A j \in DOMAIN bus' :
            \/ j + 1 \in DOMAIN bus /\ bus'[j] = bus[j + 1]
            \/ /\ j > Len(bus) - 1 /\ j - (Len(bus) - 1) \in DOMAIN r
               /\ bus'[j] = r[j - (Len(bus) - 1)]
      /\ \A i \in DOMAIN bus : i > 1 => i - 1 \in DOMAIN bus' /\ bus'[i - 1] = bus[i]
  BY <1>2, BusFacts
<1> QED BY <1>3, <1>4

LEMMA RequestAnswered ==
    ASSUME BusInv, RequestInv, SessionInv, HeadIs("request"), HandleRequest(bus[1])
    PROVE  RequestInv'
<1>1. bus # <<>> /\ bus[1].kind \notin SessionKinds /\ bus[1].kind = "request"
  BY DEF HeadIs, SessionKinds
<1>2. BusStep(1, Answered(bus[1])) /\ config' = [on |-> TRUE, session |-> bus[1].session]
  BY <1>1, RequestAdds
<1>3. UNCHANGED <<client, peers, clientLoop, session>>
  BY DEF HandleRequest, webPeers, webThreads
<1>4. /\ 1 \in DOMAIN bus
      /\ \A j \in DOMAIN bus' : \/ j + 1 \in DOMAIN bus /\ bus'[j] = bus[j + 1]
                                \/ /\ bus'[j].kind = "response"
                                   /\ bus'[j].session = bus[1].session /\ bus'[j].asker = bus[1].asker
                                \/ bus'[j].kind = "opened"
  BY <1>2, AnsweredSignals
<1>5. /\ bus[1].session \in Nat /\ bus[1].session <= clientLoop.generation
      /\ Current(bus[1].session) => Established(bus[1].session) /\ bus[1].asker = peers[client.socket]
  BY <1>1, <1>4 DEF RequestInv
<1>6. config' = [on |-> config'.on, session |-> config'.session] /\ config'.on /\ config'.session = bus[1].session
  BY <1>2
<1>7. ASSUME NEW j \in DOMAIN bus', bus'[j].kind \in {"request", "response"}
      PROVE  /\ bus'[j].session \in Nat /\ bus'[j].session <= clientLoop.generation
             /\ Current(bus'[j].session) => Established(bus'[j].session) /\ bus'[j].asker = peers[client.socket]
  <2>1. CASE j + 1 \in DOMAIN bus /\ bus'[j] = bus[j + 1]
    BY <1>7, <2>1 DEF RequestInv
  <2>2. CASE bus'[j].session = bus[1].session /\ bus'[j].asker = bus[1].asker
    BY <1>5, <2>2
  <2> QED BY <1>4, <1>7, <2>1, <2>2
<1> QED BY <1>3, <1>5, <1>6, <1>7 DEF RequestInv, Current, Active, Established

\* The other steps of the dispatcher and of the device, which leave the clients alone.
ClientsStay == UNCHANGED <<client, peers, accepting, clientLoop, session, overtaken>>

LEMMA RequestUntouched ==
    ASSUME BusInv, ClientInv, ThreadInv, RequestInv, ClientsStay, config' = config \/ config' = [config EXCEPT !.on = FALSE],
           NEW d, NEW kinds, Adds(d, kinds), Disjoint(kinds, {"request", "response"})
    PROVE  RequestInv'
<1>1. clientLoop.generation \in Nat
  BY DEF ThreadInv
<1>2. NoNewClient /\ SessionGoesOn
  BY <1>1 DEF ClientsStay, NoNewClient, SessionGoesOn
<1> QED BY <1>2, RequestStays

-----------------------------------------------------------------------------
(* WebSockets: the end of a session.                                       *)

Held(id) == Current(id) \/ id \in overtaken \/ Closing(id)
StillCurrent(id) == client'.socket # 0 /\ client'.generation = id
StillClosing(id) ==
    /\ session'.active /\ session'.id = id
    /\ \/ accepting'.at = "notify" /\ accepting'.old.generation = id
       \/ clientLoop'.at = "notify" /\ clientLoop'.generation = id
StillHeld(id) == StillCurrent(id) \/ id \in overtaken' \/ StillClosing(id)
\* A session that somebody depends on stays held, or its end is announced behind everything that is on the bus.
HeldOrAnnounced ==
    \A id \in Nat : id <= clientLoop.generation /\ (Current(id) => Established(id)) /\ Held(id) =>
        \/ StillHeld(id)
        \/ \E n \in DOMAIN bus' : n \notin DOMAIN bus /\ bus'[n].kind = "disconnect" /\ bus'[n].session = id

LEMMA BusGrows ==
    ASSUME BusInv, NEW kinds, Adds(0, kinds)
    PROVE  /\ DOMAIN bus \subseteq Nat /\ DOMAIN bus' \subseteq Nat
           /\ \A i \in DOMAIN bus : i > 0 /\ i \in DOMAIN bus' /\ bus'[i] = bus[i]
           /\ \A j \in DOMAIN bus' : j > 0 /\ (j \notin DOMAIN bus => bus'[j].kind \in kinds /\ \A i \in DOMAIN bus : i < j)
<1>1. PICK r : BusStep(0, r) /\ \A i \in DOMAIN r : r[i].kind \in kinds
  BY DEF Adds
<1>2. /\ Len(bus) \in Nat /\ Len(r) \in Nat /\ DOMAIN bus = 1 .. Len(bus)
      /\ DOMAIN bus' = 1 .. Len(bus) - 0 + Len(r)
      /\ \A j \in DOMAIN bus' :
            \/ j + 0 \in DOMAIN bus /\ bus'[j] = bus[j + 0]
            \/ j > Len(bus) - 0 /\ j - (Len(bus) - 0) \in DOMAIN r /\ bus'[j] = r[j - (Len(bus) - 0)]
      /\ \A i \in DOMAIN bus : i > 0 => i - 0 \in DOMAIN bus' /\ bus'[i - 0] = bus[i]
  BY <1>1, BusFacts
<1>3. ASSUME NEW j \in DOMAIN bus', j \notin DOMAIN bus PROVE bus'[j].kind \in kinds /\ \A i \in DOMAIN bus : i < j
  <2>1. j - (Len(bus) - 0) \in DOMAIN r /\ bus'[j] = r[j - (Len(bus) - 0)]
    BY <1>2, <1>3
  <2> QED BY <1>1, <1>2, <1>3, <2>1
<1>4. /\ DOMAIN bus \subseteq Nat /\ DOMAIN bus' \subseteq Nat
      /\ \A i \in DOMAIN bus : i > 0 /\ i \in DOMAIN bus' /\ bus'[i] = bus[i]
      /\ \A j \in DOMAIN bus' : j > 0
  BY <1>2
<1> QED BY <1>3, <1>4

LEMMA SessionsFollowed ==
    ASSUME BusInv, RequestInv, EndInv, NEW kinds, Adds(0, kinds), HeldOrAnnounced,
           \A j \in DOMAIN bus' : bus'[j].kind = "request" => j \in DOMAIN bus \/ StillHeld(bus'[j].session),
           config'.on => config.on /\ config'.session = config.session
    PROVE  EndInv'
<1>1. /\ DOMAIN bus \subseteq Nat /\ DOMAIN bus' \subseteq Nat
      /\ \A i \in DOMAIN bus : i > 0 /\ i \in DOMAIN bus' /\ bus'[i] = bus[i]
      /\ \A j \in DOMAIN bus' : j > 0 /\ (j \notin DOMAIN bus => \A i \in DOMAIN bus : i < j)
  BY BusGrows
<1>2. ASSUME NEW id \in Nat, id <= clientLoop.generation, Current(id) => Established(id),
             NEW n \in {0} \cup DOMAIN bus, Followed(id, n)
      PROVE  StillHeld(id) \/ \E i \in DOMAIN bus' : n < i /\ bus'[i].kind = "disconnect" /\ bus'[i].session = id
  <2>1. CASE Held(id)
    <3>1. CASE StillHeld(id)
      BY <3>1
    <3>2. CASE \E k \in DOMAIN bus' : k \notin DOMAIN bus /\ bus'[k].kind = "disconnect" /\ bus'[k].session = id
      <4>1. PICK k \in DOMAIN bus' : k \notin DOMAIN bus /\ bus'[k].kind = "disconnect" /\ bus'[k].session = id
        BY <3>2
      <4>2. n < k
        BY <1>1, <4>1
      <4> QED BY <4>1, <4>2
    <3> QED BY <1>2, <2>1, <3>1, <3>2 DEF HeldOrAnnounced
  <2>2. CASE \E i \in DOMAIN bus : n < i /\ bus[i].kind = "disconnect" /\ bus[i].session = id
    <3>1. PICK i \in DOMAIN bus : n < i /\ bus[i].kind = "disconnect" /\ bus[i].session = id
      BY <2>2
    <3>2. i \in DOMAIN bus' /\ bus'[i] = bus[i]
      BY <1>1
    <3> QED BY <3>1, <3>2
  <2> QED BY <1>2, <2>1, <2>2 DEF Followed, Held
<1>3. ASSUME config'.on
      PROVE  \/ StillHeld(config'.session)
             \/ \E i \in DOMAIN bus' : 0 < i /\ bus'[i].kind = "disconnect" /\ bus'[i].session = config'.session
  <2>1. config.on /\ config'.session = config.session /\ config.session \in Nat /\ config.session <= clientLoop.generation
    BY <1>3 DEF RequestInv
  <2>2. Followed(config.session, 0) /\ (Current(config.session) => Established(config.session))
    BY <2>1 DEF EndInv, RequestInv
  <2>3. StillHeld(config.session) \/ \E i \in DOMAIN bus' : 0 < i /\ bus'[i].kind = "disconnect" /\ bus'[i].session = config.session
    BY <1>2, <2>1, <2>2
  <2> QED BY <2>1, <2>3
<1>4. ASSUME NEW j \in DOMAIN bus', bus'[j].kind = "request"
      PROVE  \/ StillHeld(bus'[j].session)
             \/ \E i \in DOMAIN bus' : j < i /\ bus'[i].kind = "disconnect" /\ bus'[i].session = bus'[j].session
  <2>1. CASE j \in DOMAIN bus
    <3>1. bus'[j] = bus[j] /\ bus[j].kind = "request"
      BY <1>1, <1>4, <2>1
    <3>2. /\ Followed(bus[j].session, j) /\ (Current(bus[j].session) => Established(bus[j].session))
          /\ bus[j].session \in Nat /\ bus[j].session <= clientLoop.generation
      BY <2>1, <3>1 DEF EndInv, RequestInv
    <3>3. StillHeld(bus[j].session) \/ \E i \in DOMAIN bus' : j < i /\ bus'[i].kind = "disconnect" /\ bus'[i].session = bus[j].session
      BY <1>2, <2>1, <3>2
    <3> QED BY <3>1, <3>3
  <2> QED BY <1>4, <2>1
<1> QED BY <1>3, <1>4 DEF EndInv, Followed, StillHeld, StillCurrent, StillClosing, Current, Active, Closing, Established

\* A client that has a session and is closed has its session closed by its handler, and nothing of its answer is kept.
EndsAreAnnounced ==
    /\ overtaken \subseteq overtaken'
    /\ \A id \in Nat : id <= clientLoop.generation =>
          /\ Current(id) /\ Established(id) => StillCurrent(id) \/ StillClosing(id)
          /\ Closing(id) =>
                \/ StillClosing(id)
                \/ /\ answer' = <<>>
                   /\ \E n \in DOMAIN bus' : n \notin DOMAIN bus /\ bus'[n].kind = "disconnect" /\ bus'[n].session = id

LEMMA EndsAreHeld == ASSUME EndsAreAnnounced PROVE HeldOrAnnounced
BY DEF EndsAreAnnounced, HeldOrAnnounced, Held, StillHeld

LEMMA EndsFrame ==
    ASSUME Active => UNCHANGED client, UNCHANGED <<session, overtaken>>,
           accepting.at = "notify" => UNCHANGED accepting, clientLoop.at = "notify" => UNCHANGED clientLoop
    PROVE  EndsAreAnnounced
BY DEF EndsAreAnnounced, Current, Active, Established, Closing, StillCurrent, StillClosing

\* The active client is closed and its handler will be told.
LEMMA EndsOfClosed ==
    ASSUME UNCHANGED <<session, overtaken>>,
           accepting.at = "notify" => UNCHANGED accepting, clientLoop.at = "notify" => UNCHANGED clientLoop,
           \/ accepting'.at = "notify" /\ accepting'.old.generation = client.generation
           \/ clientLoop'.at = "notify" /\ clientLoop'.generation = client.generation
    PROVE  EndsAreAnnounced
BY DEF EndsAreAnnounced, Current, Active, Established, Closing, StillCurrent, StillClosing

\* The handler is told, and announces the end of a session that is its own.
LEMMA EndsOfNotified ==
    ASSUME BusInv, RequestInv, UNCHANGED <<client, overtaken>>, NEW own \in Nat, CloseSession(own),
           \/ /\ accepting.at = "notify" /\ accepting.old.generation = own
              /\ UNCHANGED clientLoop
           \/ /\ clientLoop.at = "notify" /\ clientLoop.generation = own
              /\ UNCHANGED accepting
    PROVE  EndsAreAnnounced
<1>1. /\ ~Established(own) => UNCHANGED <<session, answer, bus>>
      /\ Established(own) => /\ answer' = <<>>
                             /\ \E n \in DOMAIN bus' : /\ n \notin DOMAIN bus
                                                       /\ bus'[n] = [kind |-> "disconnect", session |-> own]
  BY CloseSessionFacts
<1>2. ASSUME NEW id \in Nat, Closing(id)
      PROVE  \/ StillClosing(id)
             \/ /\ answer' = <<>>
                /\ \E n \in DOMAIN bus' : n \notin DOMAIN bus /\ bus'[n].kind = "disconnect" /\ bus'[n].session = id
  <2>1. CASE id = own
    <3>1. Established(own)
      BY <1>2, <2>1 DEF Closing
    <3>2. PICK n \in DOMAIN bus' : n \notin DOMAIN bus /\ bus'[n] = [kind |-> "disconnect", session |-> own]
      BY <1>1, <3>1
    <3>3. bus'[n].kind = "disconnect" /\ bus'[n].session = id
      BY <2>1, <3>2
    <3> QED BY <1>1, <3>1, <3>2, <3>3
  <2>2. CASE id # own
    <3>1. ~Established(own) /\ Established(id)
      BY <1>2, <2>2 DEF Closing, Established
    <3>2. UNCHANGED session
      BY <1>1, <3>1
    <3> QED BY <1>2, <2>2, <3>1, <3>2 DEF Closing, StillClosing, Established
  <2> QED BY <2>1, <2>2
<1>3. \A id \in Nat : Current(id) => StillCurrent(id)
  BY DEF Current, Active, StillCurrent
<1> QED BY <1>2, <1>3 DEF EndsAreAnnounced

\* In a request the session that is closed can only be that of the client which asks.
LEMMA EndsOfAsked ==
    ASSUME BusInv, ClientInv, ThreadInv, RequestInv, HandleSysEx
    PROVE  EndsAreAnnounced /\ (Closing(session.id) => StillClosing(session'.id)) /\ StillHeld(clientLoop.generation)
<1>1. /\ clientLoop.at = "handle" /\ UNCHANGED <<client, accepting>>
      /\ session' = [active |-> TRUE, id |-> clientLoop.generation]
  BY SysExFacts
<1>2. session'.active = TRUE /\ session'.id = clientLoop.generation
  BY <1>1
<1>3. clientLoop.generation \in Nat /\ client.generation \in Nat /\ clientLoop.generation <= client.generation
  BY DEF ClientInv, Client, ThreadInv
<1>4. ASSUME NEW id, Closing(id) PROVE id = clientLoop.generation /\ StillClosing(id)
  <2>1. accepting.at = "notify" /\ accepting.old.generation = id /\ Established(id)
    BY <1>1, <1>4 DEF Closing
  <2>2. session.id = id /\ id \in Nat /\ id <= clientLoop.generation
    BY <2>1 DEF Established, RequestInv
  <2>3. clientLoop.generation < client.generation /\ client.generation = id + 1
    BY <1>1, <2>1 DEF ClientInv, ThreadInv
  <2>4. id = clientLoop.generation
    BY <1>3, <2>2, <2>3
  <2> QED BY <1>1, <1>2, <2>1, <2>4 DEF StillClosing
<1>5. overtaken' = IF client = [socket |-> clientLoop.socket, generation |-> clientLoop.generation]
                   THEN overtaken ELSE overtaken \cup {clientLoop.generation}
  BY DEF HandleSysEx
<1>6. StillHeld(clientLoop.generation)
  <2>1. CASE client = [socket |-> clientLoop.socket, generation |-> clientLoop.generation]
    <3>1. client.socket = clientLoop.socket /\ client.generation = clientLoop.generation
      BY <2>1
    <3>2. client.socket # 0
      BY <1>1, <3>1 DEF ThreadInv
    <3> QED BY <1>1, <3>1, <3>2 DEF StillHeld, StillCurrent
  <2> QED BY <1>5, <2>1 DEF StillHeld
<1>7. \A id : Current(id) => StillCurrent(id)
  BY <1>1 DEF Current, Active, StillCurrent
<1>8. EndsAreAnnounced
  BY <1>4, <1>5, <1>7 DEF EndsAreAnnounced
<1> QED BY <1>2, <1>4, <1>6, <1>8

LEMMA ThreadsAnnounceEnds ==
    ASSUME BusInv, ClientInv, ThreadInv, RequestInv, WebThreads
    PROVE  EndsAreAnnounced
<1>1. CASE HandleSysEx
  BY <1>1, EndsOfAsked
<1>2. ASSUME QuietClientStep PROVE UNCHANGED <<session, overtaken>>
  BY <1>2, QuietFacts
<1>3. CASE NotifyReplaced
  <2>1. /\ accepting.at = "notify" /\ CloseSession(accepting.old.generation)
        /\ UNCHANGED <<client, clientLoop, overtaken>>
    BY <1>3 DEF NotifyReplaced
  <2>2. accepting.old.generation \in Nat
    BY DEF ClientInv, Client
  <2> QED BY <2>1, <2>2, EndsOfNotified
<1>4. CASE NotifyClosed
  <2>1. /\ clientLoop.at = "notify" /\ CloseSession(clientLoop.generation)
        /\ UNCHANGED <<client, accepting, overtaken>>
    BY <1>4 DEF NotifyClosed
  <2>2. clientLoop.generation \in Nat
    BY DEF ThreadInv
  <2> QED BY <2>1, <2>2, EndsOfNotified
<1>5. CASE HandleBegin
  <2>1. clientLoop.at # "notify" /\ UNCHANGED <<client, accepting, session, overtaken>>
    BY <1>5 DEF HandleBegin, webConfig
  <2> QED BY <2>1, EndsFrame
<1>6. CASE ConfigTimeout
  <2>1. UNCHANGED <<client, accepting, clientLoop, session, overtaken>>
    BY <1>6 DEF ConfigTimeout, webThreads
  <2> QED BY <2>1, EndsFrame
<1>7. CASE Accept
  <2>1. accepting.at # "notify" /\ UNCHANGED <<client, clientLoop, session, overtaken>>
    BY <1>2, <1>7 DEF Accept, QuietClientStep
  <2> QED BY <2>1, EndsFrame
<1>8. CASE Replace
  <2>1. accepting.at = "replace" /\ UNCHANGED <<session, overtaken>>
    BY <1>2, <1>8 DEF Replace, QuietClientStep
  <2>2. CASE CloseMatching(accepting.old) /\ accepting' = [accepting EXCEPT !.at = "notify"]
    <3>1. client = accepting.old
      BY <2>2 DEF CloseMatching
    <3>2. accepting'.at = "notify" /\ accepting'.old = accepting.old
      BY <2>2 DEF ClientInv
    <3>3. clientLoop' = clientLoop \/ clientLoop.at = "receive"
      BY <1>8 DEF Replace
    <3> QED BY <2>1, <3>1, <3>2, <3>3, EndsOfClosed
  <2>3. CASE UNCHANGED <<client, clientLoop>>
    BY <2>1, <2>3, EndsFrame
  <2> QED BY <1>8, <2>2, <2>3 DEF Replace
<1>9. CASE Adopt
  <2>1. accepting.at = "adopt" /\ ~Active /\ UNCHANGED <<clientLoop, session, overtaken>>
    BY <1>2, <1>9 DEF Adopt, QuietClientStep, ClientInv
  <2> QED BY <2>1, EndsFrame
<1>10. CASE CloseClient
  <2>1. clientLoop.at = "close" /\ UNCHANGED <<session, overtaken, accepting>>
    BY <1>2, <1>10 DEF CloseClient, QuietClientStep
  <2>2. CASE /\ client = [socket |-> clientLoop.socket, generation |-> clientLoop.generation]
             /\ clientLoop' = [clientLoop EXCEPT !.at = "notify"]
    <3>1. client.generation = clientLoop.generation
      BY <2>2
    <3>2. clientLoop'.at = "notify" /\ clientLoop'.generation = clientLoop.generation
      BY <2>2, LoopMoves
    <3> QED BY <2>1, <3>1, <3>2, EndsOfClosed
  <2>3. CASE UNCHANGED client
    BY <2>1, <2>3, EndsFrame
  <2> QED BY <1>10, <2>2, <2>3 DEF CloseClient
<1>11. CASE \/ TakeClient \/ ReceiveFrame \/ TakeTx \/ NextFrame \/ SendFrame \/ ClientSends \/ ClientLeaves
  <2>1. UNCHANGED <<client, accepting>> /\ (clientLoop.at = "notify" => UNCHANGED clientLoop)
    BY <1>11 DEF TakeClient, ReceiveFrame, TakeTx, NextFrame, SendFrame, ClientSends, ClientLeaves, webThreads
  <2> QED BY <1>2, <1>11, <2>1, EndsFrame DEF QuietClientStep
<1> QED BY <1>1, <1>3, <1>4, <1>5, <1>6, <1>7, <1>8, <1>9, <1>10, <1>11 DEF WebThreads

LEMMA EndKept == ASSUME BusInv, ClientInv, ThreadInv, RequestInv, EndInv, WebThreads PROVE EndInv'
<1>1. HeldOrAnnounced
  BY ThreadsAnnounceEnds, EndsAreHeld
<1>2. CASE HandleSysEx
  <2>1. /\ Adds(0, {"request", "traffic"}) /\ UNCHANGED config
        /\ \A j \in DOMAIN bus' : bus'[j].kind \in WebKinds => (j \in DOMAIN bus /\ bus'[j] = bus[j]) \/ bus'[j] = Asked
    BY <1>2, SysExFacts
  <2>2. \A j \in DOMAIN bus' : bus'[j].kind = "request" => j \in DOMAIN bus \/ StillHeld(bus'[j].session)
    <3>1. Asked.session = clientLoop.generation
      BY DEF Asked
    <3>2. StillHeld(clientLoop.generation)
      BY <1>2, EndsOfAsked
    <3> QED BY <2>1, <3>1, <3>2 DEF WebKinds
  <2> QED BY <1>1, <2>1, <2>2, SessionsFollowed
<1>3. CASE ~HandleSysEx
  <2>1. Adds(0, {"disconnect", "traffic", "closed"}) /\ SessionGoesOn
    BY <1>3, ThreadsAdd, NoNewClientHere
  <2>2. \A j \in DOMAIN bus' : bus'[j].kind = "request" => j \in DOMAIN bus
    BY <2>1, BusGrows
  <2>3. config'.on => config.on /\ config'.session = config.session
    BY <2>1 DEF SessionGoesOn, RequestInv
  <2> QED BY <1>1, <2>1, <2>2, <2>3, SessionsFollowed
<1> QED BY <1>2, <1>3

\* The dispatcher: what is followed stays so.  A signal that ends the session of System has done so.
LEMMA FollowedStays ==
    ASSUME BusInv, NEW d \in {0, 1}, \A i \in DOMAIN bus : i > d => i - d \in DOMAIN bus' /\ bus'[i - d] = bus[i],
           DOMAIN bus \subseteq Nat, ClientsStay, NEW id, NEW n \in Nat, n >= d, Followed(id, n)
    PROVE  StillHeld(id) \/ \E i \in DOMAIN bus' : n - d < i /\ bus'[i].kind = "disconnect" /\ bus'[i].session = id
<1>1. CASE Held(id)
  BY <1>1 DEF ClientsStay, Held, Current, Active, Closing, Established, StillHeld, StillCurrent, StillClosing
<1>2. CASE \E i \in DOMAIN bus : n < i /\ bus[i].kind = "disconnect" /\ bus[i].session = id
  <2>1. PICK i \in DOMAIN bus : n < i /\ bus[i].kind = "disconnect" /\ bus[i].session = id
    BY <1>2
  <2>2. i \in Nat /\ i > d /\ n - d < i - d
    BY <2>1
  <2>3. i - d \in DOMAIN bus' /\ bus'[i - d] = bus[i]
    BY <2>2
  <2> QED BY <2>1, <2>2, <2>3
<1> QED BY <1>1, <1>2 DEF Followed, Held

LEMMA EndUntouched ==
    ASSUME BusInv, EndInv, ClientsStay, NEW d, NEW kinds, Adds(d, kinds), Disjoint(kinds, {"request", "response"}),
           config'.on => /\ config.on /\ config'.session = config.session
                         /\ d = 1 => ~(bus[1].kind = "disconnect" /\ bus[1].session = config.session)
    PROVE  EndInv'
<1>1. /\ d \in {0, 1} /\ DOMAIN bus \subseteq Nat /\ DOMAIN bus' \subseteq Nat
      /\ \A j \in DOMAIN bus' : bus'[j].kind \in {"request", "response"} => j + d \in DOMAIN bus /\ bus'[j] = bus[j + d]
      /\ \A i \in DOMAIN bus : i > d => i - d \in DOMAIN bus' /\ bus'[i - d] = bus[i]
      /\ \A i \in DOMAIN bus : i >= 1
  BY SignalsShifted
<1>2. ASSUME config'.on
      PROVE  \/ StillHeld(config'.session)
             \/ \E i \in DOMAIN bus' : 0 < i /\ bus'[i].kind = "disconnect" /\ bus'[i].session = config'.session
  <2>1. Followed(config.session, 0) /\ config'.session = config.session
    BY <1>2 DEF EndInv
  <2>2. Followed(config.session, d)
    BY <1>1, <1>2, <2>1 DEF Followed
  <2>3. d \in Nat /\ d >= d /\ d - d = 0
    BY <1>1
  <2> QED BY <1>1, <2>1, <2>2, <2>3, FollowedStays
<1>3. ASSUME NEW j \in DOMAIN bus', bus'[j].kind = "request"
      PROVE  \/ StillHeld(bus'[j].session)
             \/ \E i \in DOMAIN bus' : j < i /\ bus'[i].kind = "disconnect" /\ bus'[i].session = bus'[j].session
  <2>1. j + d \in DOMAIN bus /\ bus'[j] = bus[j + d] /\ j \in Nat /\ j + d \in Nat /\ j + d >= d /\ (j + d) - d = j
    BY <1>1, <1>3
  <2>2. Followed(bus'[j].session, j + d)
    BY <1>3, <2>1 DEF EndInv
  <2> QED BY <1>1, <2>1, <2>2, FollowedStays
<1> QED BY <1>2, <1>3 DEF EndInv, Followed, StillHeld, StillCurrent, StillClosing, Current, Active, Closing, Established

\* System's session is that of the request now.
LEMMA EndOfAnswered ==
    ASSUME BusInv, EndInv, ClientsStay, BusStep(1, Answered(bus[1])), bus[1].kind = "request",
           config'.session = bus[1].session
    PROVE  EndInv'
<1>1. /\ DOMAIN bus \subseteq Nat /\ 1 \in DOMAIN bus
      /\ \A j \in DOMAIN bus' : bus'[j].kind = "request" => j + 1 \in DOMAIN bus /\ bus'[j] = bus[j + 1]
      /\ \A i \in DOMAIN bus : i > 1 => i - 1 \in DOMAIN bus' /\ bus'[i - 1] = bus[i]
  BY AnsweredSignals
<1>2. DOMAIN bus' \subseteq Nat
  <2>1. IsSeq(bus')
    BY BusFacts
  <2>2. Len(bus') \in Nat /\ DOMAIN bus' = 1 .. Len(bus')
    BY <2>1, SeqFacts
  <2> QED BY <2>2
<1>3. \/ StillHeld(config'.session)
      \/ \E i \in DOMAIN bus' : 0 < i /\ bus'[i].kind = "disconnect" /\ bus'[i].session = config'.session
  <2>1. Followed(bus[1].session, 1)
    BY <1>1 DEF EndInv
  <2>2. StillHeld(bus[1].session) \/ \E i \in DOMAIN bus' : 1 - 1 < i /\ bus'[i].kind = "disconnect" /\ bus'[i].session = bus[1].session
    BY <1>1, <2>1, FollowedStays
  <2> QED BY <2>2
<1>4. ASSUME NEW j \in DOMAIN bus', bus'[j].kind = "request"
      PROVE  \/ StillHeld(bus'[j].session)
             \/ \E i \in DOMAIN bus' : j < i /\ bus'[i].kind = "disconnect" /\ bus'[i].session = bus'[j].session
  <2>1. j + 1 \in DOMAIN bus /\ bus'[j] = bus[j + 1] /\ j \in Nat /\ j + 1 \in Nat /\ j + 1 >= 1 /\ (j + 1) - 1 = j
    BY <1>1, <1>2, <1>4
  <2>2. Followed(bus'[j].session, j + 1)
    BY <1>4, <2>1 DEF EndInv
  <2> QED BY <1>1, <2>1, <2>2, FollowedStays
<1> QED BY <1>3, <1>4 DEF EndInv, Followed, StillHeld, StillCurrent, StillClosing, Current, Active, Closing, Established

-----------------------------------------------------------------------------
(* WebSockets: the packets of an answer.                                   *)

LEMMA PartsStay ==
    ASSUME BusInv, PartsInv, NEW d, NEW kinds, Adds(d, kinds), Disjoint(kinds, {"response"})
    PROVE  PartsInv'
<1>1. /\ d \in {0, 1} /\ DOMAIN bus \subseteq Nat /\ DOMAIN bus' \subseteq Nat
      /\ \A j \in DOMAIN bus' : bus'[j].kind \in {"response"} => j + d \in DOMAIN bus /\ bus'[j] = bus[j + d]
      /\ \A i \in DOMAIN bus : i > d => i - d \in DOMAIN bus' /\ bus'[i - d] = bus[i]
      /\ \A i \in DOMAIN bus : i >= 1
  BY SignalsShifted
<1>2. \A j \in DOMAIN bus' : j >= 1
  <2>1. IsSeq(bus')
    BY BusKept DEF BusInv
  <2>2. Len(bus') \in Nat /\ DOMAIN bus' = 1 .. Len(bus')
    BY <2>1, SeqFacts
  <2> QED BY <2>2
<1>3. ASSUME NEW j \in DOMAIN bus', IsPart(bus'[j])
      PROVE  /\ bus'[j] = [kind |-> "response", session |-> bus'[j].session, asker |-> bus'[j].asker, part |-> bus'[j].part]
             /\ bus'[j].part \in 1 .. Fragments
             /\ bus'[j].part < Fragments => j + 1 \in DOMAIN bus' /\ Continues(bus'[j], bus'[j + 1])
             /\ bus'[j].part > 1 /\ j > 1 => Continues(bus'[j - 1], bus'[j])
  <2> DEFINE k == j + d
  <2>1. j \in Nat /\ j >= 1 /\ k \in DOMAIN bus /\ k \in Nat /\ k - d = j /\ bus'[j] = bus[k] /\ IsPart(bus[k])
    BY <1>1, <1>2, <1>3 DEF IsPart
  <2>2. ASSUME bus'[j].part < Fragments PROVE j + 1 \in DOMAIN bus' /\ Continues(bus'[j], bus'[j + 1])
    <3>1. k + 1 \in DOMAIN bus /\ Continues(bus[k], bus[k + 1])
      BY <2>1, <2>2 DEF PartsInv
    <3>2. k + 1 > d /\ (k + 1) - d = j + 1
      BY <1>1, <2>1
    <3>3. j + 1 \in DOMAIN bus' /\ bus'[j + 1] = bus[k + 1]
      BY <1>1, <3>1, <3>2
    <3> QED BY <2>1, <3>1, <3>3
  <2>3. ASSUME bus'[j].part > 1, j > 1 PROVE Continues(bus'[j - 1], bus'[j])
    <3>1. k > 1
      BY <1>1, <2>1, <2>3
    <3>2. Continues(bus[k - 1], bus[k])
      BY <2>1, <2>3, <3>1 DEF PartsInv
    <3>3. bus'[j - 1] = bus[k - 1]
      <4>1. k - 1 \in DOMAIN bus /\ k - 1 > d /\ (k - 1) - d = j - 1
        <5>1. IsSeq(bus)
          BY DEF BusInv
        <5>2. Len(bus) \in Nat /\ DOMAIN bus = 1 .. Len(bus)
          BY <5>1, SeqFacts
        <5> QED BY <1>1, <2>1, <2>3, <5>2
      <4> QED BY <1>1, <4>1
    <3> QED BY <2>1, <3>2, <3>3
  <2> HIDE DEF k
  <2>4. /\ bus[k] = [kind |-> "response", session |-> bus[k].session, asker |-> bus[k].asker, part |-> bus[k].part]
        /\ bus[k].part \in 1 .. Fragments
    BY <2>1 DEF PartsInv
  <2> QED BY <2>1, <2>2, <2>3, <2>4
<1> QED BY <1>3 DEF PartsInv, IsPart, Continues

LEMMA PartsAnswered ==
    ASSUME BusInv, PartsInv, BusStep(1, Answered(bus[1]))
    PROVE  PartsInv'
<1> DEFINE r == Answered(bus[1])
           l == Len(bus) - 1
           packet(i) == [kind |-> "response", session |-> bus[1].session, asker |-> bus[1].asker, part |-> i]
<1>1. /\ IsSeq(r) /\ Len(r) \in Nat /\ DOMAIN r = 1 .. Len(r) /\ Len(r) >= Fragments
      /\ \A i \in 1 .. Fragments : r[i] = packet(i)
      /\ \A i \in DOMAIN r : i > Fragments => r[i] = [kind |-> "opened"]
      /\ Fragments \in Nat \ {0}
  <2>1. /\ IsSeq(r) /\ Len(r) \in Nat /\ DOMAIN r = 1 .. Len(r)
        /\ Len(r) = IF config.on THEN Fragments ELSE Fragments + 1
        /\ \A i \in 1 .. Fragments :
              r[i] = [kind |-> "response", session |-> bus[1].session, asker |-> bus[1].asker, part |-> i]
        /\ \A i \in DOMAIN r : i > Fragments => i = Fragments + 1 /\ ~config.on /\ r[i] = [kind |-> "opened"]
    BY AnsweredFacts
  <2> HIDE DEF r
  <2>2. Fragments \in Nat \ {0}
    BY WebAssumption
  <2>3. Len(r) >= Fragments
    BY <2>1, <2>2
  <2> QED BY <2>1, <2>2, <2>3
<1>2. BusStep(1, r)
  OBVIOUS
<1> HIDE DEF r
<1>3. /\ DOMAIN bus = 1 .. l + 1 /\ l \in Nat /\ DOMAIN bus' = 1 .. l + Len(r)
      /\ \A j \in DOMAIN bus' : \/ j + 1 \in DOMAIN bus /\ bus'[j] = bus[j + 1]
                                \/ j > l /\ j - l \in DOMAIN r /\ bus'[j] = r[j - l]
      /\ \A i \in DOMAIN bus : i > 1 => i - 1 \in DOMAIN bus' /\ bus'[i - 1] = bus[i]
      /\ \A i \in DOMAIN r : l + i \in DOMAIN bus' /\ bus'[l + i] = r[i]
  <2>1. Len(bus) \in Nat /\ 1 <= Len(bus)
    BY <1>2, BusFacts
  <2> QED BY <1>2, <2>1, BusFacts
<1> HIDE DEF l
<1>4. ASSUME NEW j \in DOMAIN bus', IsPart(bus'[j])
      PROVE  /\ bus'[j] = [kind |-> "response", session |-> bus'[j].session, asker |-> bus'[j].asker, part |-> bus'[j].part]
             /\ bus'[j].part \in 1 .. Fragments
             /\ bus'[j].part < Fragments => j + 1 \in DOMAIN bus' /\ Continues(bus'[j], bus'[j + 1])
             /\ bus'[j].part > 1 /\ j > 1 => Continues(bus'[j - 1], bus'[j])
  <2>1. CASE j + 1 \in DOMAIN bus /\ bus'[j] = bus[j + 1]
    <3> DEFINE k == j + 1
    <3>1. j \in Nat /\ j >= 1 /\ k \in DOMAIN bus /\ k \in Nat /\ k - 1 = j /\ bus'[j] = bus[k] /\ IsPart(bus[k]) /\ k > 1
      BY <1>3, <1>4, <2>1
    <3>2. ASSUME bus'[j].part < Fragments PROVE j + 1 \in DOMAIN bus' /\ Continues(bus'[j], bus'[j + 1])
      <4>1. k + 1 \in DOMAIN bus /\ Continues(bus[k], bus[k + 1])
        BY <3>1, <3>2 DEF PartsInv
      <4>2. k + 1 > 1 /\ (k + 1) - 1 = j + 1
        BY <3>1
      <4>3. j + 1 \in DOMAIN bus' /\ bus'[j + 1] = bus[k + 1]
        BY <1>3, <4>1, <4>2
      <4> QED BY <3>1, <4>1, <4>3
    <3>3. ASSUME bus'[j].part > 1, j > 1 PROVE Continues(bus'[j - 1], bus'[j])
      <4>1. Continues(bus[k - 1], bus[k])
        BY <3>1, <3>3 DEF PartsInv
      <4>2. bus'[j - 1] = bus[k - 1]
        <5>1. k - 1 \in DOMAIN bus /\ k - 1 > 1 /\ (k - 1) - 1 = j - 1
          BY <1>3, <3>1, <3>3
        <5> QED BY <1>3, <5>1
      <4> QED BY <3>1, <4>1, <4>2
    <3> HIDE DEF k
    <3>4. /\ bus[k] = [kind |-> "response", session |-> bus[k].session, asker |-> bus[k].asker, part |-> bus[k].part]
          /\ bus[k].part \in 1 .. Fragments
      BY <3>1 DEF PartsInv
    <3> QED BY <3>1, <3>2, <3>3, <3>4
  <2>2. CASE j > l /\ j - l \in DOMAIN r /\ bus'[j] = r[j - l]
    <3> DEFINE k == j - l
    <3>1. k \in DOMAIN r /\ k \in Nat /\ k >= 1 /\ j = l + k /\ bus'[j] = r[k] /\ j \in Nat
      BY <1>1, <1>3, <2>2
    <3> HIDE DEF k
    <3>2. k \in 1 .. Fragments
      <4>1. CASE k > Fragments
        <5>1. bus'[j].kind = "opened"
          BY <1>1, <3>1, <4>1
        <5> QED BY <1>4, <5>1 DEF IsPart
      <4> QED BY <1>1, <3>1, <4>1
    <3>3. bus'[j] = packet(k)
      BY <1>1, <3>1, <3>2
    <3>4. /\ bus'[j].kind = "response" /\ bus'[j].session = bus[1].session /\ bus'[j].asker = bus[1].asker
          /\ bus'[j].part = k
      BY <3>3
    <3>5. ASSUME k < Fragments PROVE j + 1 \in DOMAIN bus' /\ Continues(bus'[j], bus'[j + 1])
      <4>1. k + 1 \in 1 .. Fragments /\ k + 1 \in DOMAIN r /\ l + (k + 1) = j + 1
        BY <1>1, <1>3, <3>1, <3>5
      <4>2. j + 1 \in DOMAIN bus' /\ bus'[j + 1] = packet(k + 1)
        BY <1>1, <1>3, <4>1
      <4> QED BY <3>3, <4>2 DEF Continues, IsPart
    <3>6. ASSUME k > 1 PROVE Continues(bus'[j - 1], bus'[j])
      <4>1. k - 1 \in 1 .. Fragments /\ k - 1 \in DOMAIN r /\ l + (k - 1) = j - 1 /\ (k - 1) + 1 = k
        BY <1>1, <1>3, <3>1, <3>2, <3>6
      <4>2. bus'[j - 1] = packet(k - 1)
        BY <1>1, <1>3, <4>1
      <4> QED BY <3>3, <4>1, <4>2 DEF Continues, IsPart
    <3> QED BY <3>2, <3>3, <3>4, <3>5, <3>6
  <2> QED BY <1>3, <2>1, <2>2
<1> QED BY <1>4 DEF PartsInv, IsPart, Continues

LEMMA CurrentIsNotClosing ==
    ASSUME ClientInv, ThreadInv, NEW id, Current(id)
    PROVE  ~Closing(id)
<1>1. clientLoop.generation \in Nat /\ client.generation \in Nat
  BY DEF ClientInv, Client, ThreadInv
<1> QED BY <1>1 DEF Current, Closing, ClientInv, ThreadInv

LEMMA FirstSignal == ASSUME BusInv PROVE bus # <<>> <=> 1 \in DOMAIN bus
<1>1. Len(bus) \in Nat /\ DOMAIN bus = 1 .. Len(bus) /\ (bus # <<>> <=> Len(bus) > 0)
  BY SeqFacts DEF BusInv
<1> QED BY <1>1

\* The packet that is next is asked for in the session of the handler.
LEMMA HeadFacts ==
    ASSUME BusInv, RequestInv, HeadIsCurrent
    PROVE  /\ 1 \in DOMAIN bus /\ bus[1].session \in Nat /\ bus[1].session <= clientLoop.generation
           /\ Established(bus[1].session) /\ session.id = bus[1].session
BY FirstSignal DEF HeadIsCurrent, RequestInv, IsPart, Established

\* The handler forgets what it has gathered when its session ends.
LEMMA AnswerForgotten ==
    ASSUME BusInv, ClientInv, ThreadInv, WebThreads, ~HandleSysEx
    PROVE  \/ UNCHANGED answer
           \/ answer' = <<>> /\ (client'.socket # 0 => client'.generation > clientLoop.generation)
<1>1. CASE NotifyReplaced
  <2>1. ~Active /\ UNCHANGED client /\ (UNCHANGED answer \/ answer' = <<>>)
    BY <1>1 DEF NotifyReplaced, CloseSession, ClientInv
  <2> QED BY <2>1 DEF Active
<1>2. CASE NotifyClosed
  <2>1. clientLoop.generation < client.generation /\ UNCHANGED client /\ (UNCHANGED answer \/ answer' = <<>>)
    BY <1>2 DEF NotifyClosed, CloseSession, ThreadInv
  <2>2. clientLoop.generation \in Nat /\ client.generation \in Nat
    BY DEF ClientInv, Client, ThreadInv
  <2> QED BY <2>1, <2>2
<1>3. CASE QuietClientStep \/ HandleBegin \/ ConfigTimeout
  BY <1>3, QuietFacts DEF HandleBegin, ConfigTimeout, webConfig
<1> QED BY <1>1, <1>2, <1>3 DEF WebThreads, QuietClientStep

LEMMA AnswerKept == ASSUME BusInv, ClientInv, ThreadInv, RequestInv, AnswerInv, WebThreads PROVE AnswerInv'
<1>1. EndsAreAnnounced
  BY ThreadsAnnounceEnds
<1>2. session.active => session.id \in Nat /\ session.id <= clientLoop.generation
  BY DEF RequestInv
<1>3. IsSeq(bus')
  <2>1. \E kinds : Adds(0, kinds)
    BY SysExFacts, ThreadsAdd
  <2>2. BusInv'
    BY <2>1, BusKept
  <2> QED BY <2>2 DEF BusInv
<1>4. bus' # <<>> <=> 1 \in DOMAIN bus'
  <2>1. Len(bus') \in Nat /\ DOMAIN bus' = 1 .. Len(bus') /\ (bus' # <<>> <=> Len(bus') > 0)
    BY <1>3, SeqFacts
  <2> QED BY <2>1
<1>5. CASE HandleSysEx
  <2>1. /\ UNCHANGED <<client, answer>>
        /\ \A i \in DOMAIN bus : i \in DOMAIN bus' /\ bus'[i] = bus[i]
        /\ \A j \in DOMAIN bus' : bus'[j].kind \in WebKinds => (j \in DOMAIN bus /\ bus'[j] = bus[j]) \/ bus'[j] = Asked
        /\ (Closing(session.id) => StillClosing(session'.id))
    BY <1>5, SysExFacts, EndsOfAsked
  <2>2. Asked.kind # "response"
    BY DEF Asked
  <2>3. ASSUME bus' # <<>>, bus'[1].kind = "response", client'.socket # 0, client'.generation = bus'[1].session
        PROVE  HeadIsCurrent /\ bus'[1] = bus[1]
    <3>1. 1 \in DOMAIN bus /\ bus'[1] = bus[1]
      BY <1>4, <2>1, <2>2, <2>3 DEF WebKinds
    <3> QED BY <2>1, <2>3, <3>1, FirstSignal DEF HeadIsCurrent, IsPart, Current, Active
  <2>4. ASSUME HeadIsCurrent
        PROVE  bus' # <<>> /\ bus'[1].kind = "response" /\ client'.socket # 0 /\ client'.generation = bus'[1].session
    <3>1. 1 \in DOMAIN bus
      BY <2>4, FirstSignal DEF HeadIsCurrent
    <3> QED BY <1>4, <2>1, <2>4, <3>1 DEF HeadIsCurrent, IsPart, Current, Active
  <2> QED BY <2>1, <2>3, <2>4 DEF AnswerInv, HeadIsCurrent, IsPart, Current, Active, Closing, StillClosing, Established, Gathered
<1>6. CASE ~HandleSysEx
  <2>1. Adds(0, {"disconnect", "traffic", "closed"}) /\ NoNewClient /\ SessionGoesOn
    BY <1>6, ThreadsAdd, NoNewClientHere
  <2>2. /\ \A i \in DOMAIN bus : i \in DOMAIN bus' /\ bus'[i] = bus[i]
        /\ \A j \in DOMAIN bus' : j \notin DOMAIN bus => bus'[j].kind \in {"disconnect", "traffic", "closed"}
    BY <2>1, BusGrows
  <2>3. \/ UNCHANGED answer
        \/ answer' = <<>> /\ (client'.socket # 0 => client'.generation > clientLoop.generation)
    BY <1>6, AnswerForgotten
  <2>4. session'.id = session.id
    BY <2>1 DEF SessionGoesOn, RequestInv
  <2>5. ASSUME bus' # <<>>, bus'[1].kind = "response", client'.socket # 0, client'.generation = bus'[1].session
        PROVE  HeadIsCurrent /\ bus'[1] = bus[1] /\ UNCHANGED answer
    <3>1. 1 \in DOMAIN bus /\ bus'[1] = bus[1]
      BY <1>4, <2>2, <2>5
    <3>2. bus[1].session \in Nat /\ bus[1].session <= clientLoop.generation
      BY <2>5, <3>1 DEF RequestInv
    <3>3. clientLoop.generation \in Nat
      BY DEF ThreadInv
    <3>4. ~(client'.generation > clientLoop.generation)
      BY <2>5, <3>1, <3>2, <3>3
    <3>5. UNCHANGED client /\ UNCHANGED answer
      BY <2>1, <2>3, <2>5, <3>4 DEF NoNewClient
    <3> QED BY <2>5, <3>1, <3>5, FirstSignal DEF HeadIsCurrent, IsPart, Current, Active
  <2>6. ASSUME HeadIsCurrent
        PROVE  \/ bus' # <<>> /\ bus'[1].kind = "response" /\ client'.socket # 0 /\ client'.generation = bus'[1].session
               \/ StillClosing(session'.id)
    <3>1. /\ 1 \in DOMAIN bus /\ bus[1].session \in Nat /\ bus[1].session <= clientLoop.generation
          /\ Established(bus[1].session) /\ session.id = bus[1].session
      BY <2>6, HeadFacts
    <3>2. StillCurrent(bus[1].session) \/ StillClosing(bus[1].session)
      BY <1>1, <2>6, <3>1 DEF EndsAreAnnounced, HeadIsCurrent
    <3>3. 1 \in DOMAIN bus' /\ bus'[1] = bus[1]
      BY <2>2, <3>1
    <3> QED BY <1>4, <2>4, <2>6, <3>1, <3>2, <3>3 DEF HeadIsCurrent, IsPart, StillCurrent
  <2>7. Closing(session.id) => StillClosing(session'.id) \/ answer' = <<>>
    BY <1>1, <1>2, <2>4 DEF EndsAreAnnounced, Closing, Established
  <2>8. answer' # <<>> => HeadIsCurrent \/ Closing(session.id)
    BY <2>3 DEF AnswerInv
  <2> QED BY <2>3, <2>5, <2>6, <2>7, <2>8
          DEF AnswerInv, HeadIsCurrent, IsPart, Current, Active, Closing, StillClosing, Established, Gathered
<1> QED BY <1>5, <1>6

\* What is gathered, packet by packet.
LEMMA GatheredNothing == ASSUME NEW a PROVE [k \in 1 .. 1 - 1 |-> a] = <<>>
<1> DEFINE q == [k \in 1 .. 0 |-> a]
<1>1. q = [k \in 1 .. 0 |-> q[k]] /\ q = [k \in 1 .. 1 - 1 |-> a]
  OBVIOUS
<1> HIDE DEF q
<1>2. IsSeq(q) /\ Len(q) = 0
  BY <1>1, SegmentIsSeq
<1>3. q = <<>>
  BY <1>2, SeqFacts
<1> QED BY <1>1, <1>3

LEMMA GatheredMore ==
    ASSUME NEW n \in Nat, NEW a
    PROVE  Append([k \in 1 .. n |-> a], a) = [k \in 1 .. n + 1 |-> a]
<1> DEFINE q == [k \in 1 .. n |-> a]
           p == [k \in 1 .. n + 1 |-> a]
<1>1. q \in Seq({a}) /\ p \in Seq({a}) /\ Len(q) = n /\ Len(p) = n + 1
  <2>1. q = [k \in 1 .. n |-> q[k]] /\ p = [k \in 1 .. n + 1 |-> p[k]]
    OBVIOUS
  <2>2. q \in [1 .. n -> {a}] /\ p \in [1 .. n + 1 -> {a}] /\ n + 1 \in Nat
    OBVIOUS
  <2> HIDE DEF q, p
  <2>3. Len(q) = n /\ Len(p) = n + 1
    BY <2>1, <2>2, SegmentIsSeq
  <2> QED BY <2>2, <2>3
<1>2. (\A k \in 1 .. n : q[k] = a) /\ (\A k \in 1 .. n + 1 : p[k] = a)
  OBVIOUS
<1> HIDE DEF q, p
<1>3. /\ Append(q, a) \in Seq({a}) /\ Len(Append(q, a)) = n + 1
      /\ \A i \in 1 .. n : Append(q, a)[i] = q[i]
      /\ Append(q, a)[n + 1] = a
  BY <1>1, AppendProperties
<1>4. \A i \in 1 .. n + 1 : Append(q, a)[i] = p[i]
  BY <1>2, <1>3
<1>5. Append(q, a) = p
  BY <1>1, <1>3, <1>4, SeqEqual
<1> QED BY <1>5 DEF q, p

LEMMA GatheredStart == ASSUME NEW m, m.part = 1 PROVE Gathered(m) = <<>>
BY GatheredNothing DEF Gathered

\* The signal behind the head: a packet starts an answer, or goes on with that of the head.
LEMMA SecondSignal ==
    ASSUME BusInv, PartsInv, NEW kinds, Adds(1, kinds), Disjoint(kinds, {"response"}), bus' # <<>>, bus'[1].kind = "response"
    PROVE  /\ 2 \in DOMAIN bus /\ bus'[1] = bus[2]
           /\ bus[2].part = 1 \/ (IsPart(bus[1]) /\ Continues(bus[1], bus[2]))
           /\ bus[2].part \in 1 .. Fragments
<1>1. IsSeq(bus')
  BY BusKept DEF BusInv
<1>2. 1 \in DOMAIN bus'
  <2>1. Len(bus') \in Nat /\ DOMAIN bus' = 1 .. Len(bus') /\ (bus' # <<>> <=> Len(bus') > 0)
    BY <1>1, SeqFacts
  <2> QED BY <2>1
<1>3. \A j \in DOMAIN bus' : bus'[j].kind \in {"response"} => j + 1 \in DOMAIN bus /\ bus'[j] = bus[j + 1]
  BY SignalsShifted
<1>4. 2 \in DOMAIN bus /\ bus'[1] = bus[2]
  <2>1. 1 + 1 \in DOMAIN bus /\ bus'[1] = bus[1 + 1]
    BY <1>2, <1>3
  <2> QED BY <2>1
<1>5. bus[2].part \in 1 .. Fragments /\ (bus[2].part > 1 => Continues(bus[2 - 1], bus[2]))
  BY <1>4 DEF PartsInv, IsPart
<1>6. bus[2].part = 1 \/ bus[2].part > 1
  BY <1>5, WebAssumption
<1> QED BY <1>4, <1>5, <1>6 DEF Continues, IsPart

LEMMA AnswerUntouched ==
    ASSUME BusInv, ClientInv, ThreadInv, RequestInv, PartsInv, AnswerInv, ClientsStay, UNCHANGED answer,
           NEW d, NEW kinds, Adds(d, kinds), Disjoint(kinds, {"response"}), d = 1 => ~HeadIsCurrent
    PROVE  AnswerInv'
<1>1. /\ d \in {0, 1} /\ DOMAIN bus \subseteq Nat
      /\ \A j \in DOMAIN bus' : bus'[j].kind \in {"response"} => j + d \in DOMAIN bus /\ bus'[j] = bus[j + d]
      /\ \A i \in DOMAIN bus : i > d => i - d \in DOMAIN bus' /\ bus'[i - d] = bus[i]
  BY SignalsShifted
<1>2. bus' # <<>> <=> 1 \in DOMAIN bus'
  <2>1. IsSeq(bus')
    BY BusKept DEF BusInv
  <2>2. Len(bus') \in Nat /\ DOMAIN bus' = 1 .. Len(bus') /\ (bus' # <<>> <=> Len(bus') > 0)
    BY <2>1, SeqFacts
  <2> QED BY <2>2
<1>3. ASSUME bus' # <<>>, bus'[1].kind = "response", Current(bus'[1].session) PROVE answer = Gathered(bus'[1])
  <2>1. CASE d = 0
    <3>1. 1 \in DOMAIN bus /\ bus'[1] = bus[1]
      <4>1. 1 + 0 \in DOMAIN bus /\ bus'[1] = bus[1 + 0]
        BY <1>1, <1>2, <1>3, <2>1
      <4> QED BY <4>1
    <3>2. HeadIsCurrent
      BY <1>3, <3>1, FirstSignal DEF HeadIsCurrent, IsPart
    <3> QED BY <3>1, <3>2 DEF AnswerInv
  <2>2. CASE d = 1
    <3>1. /\ 2 \in DOMAIN bus /\ bus'[1] = bus[2]
          /\ bus[2].part = 1 \/ (IsPart(bus[1]) /\ Continues(bus[1], bus[2]))
      BY <1>3, <2>2, SecondSignal
    <3>2. ~(IsPart(bus[1]) /\ Continues(bus[1], bus[2]))
      <4>1. SUFFICES ASSUME IsPart(bus[1]), Continues(bus[1], bus[2]) PROVE FALSE
        OBVIOUS
      <4>2. 1 \in DOMAIN bus
        <5>1. Len(bus) \in Nat /\ DOMAIN bus = 1 .. Len(bus)
          BY SeqFacts DEF BusInv
        <5> QED BY <3>1, <5>1
      <4>3. bus[1] = [kind |-> "response", session |-> bus[1].session, asker |-> bus[1].asker, part |-> bus[1].part]
        BY <4>1, <4>2 DEF PartsInv
      <4>4. bus[2].session = bus[1].session
        BY <4>1, <4>3 DEF Continues
      <4> QED BY <1>3, <2>2, <3>1, <4>1, <4>2, <4>4, FirstSignal DEF HeadIsCurrent
    <3>3. Established(bus[2].session)
      BY <1>3, <3>1 DEF RequestInv
    <3>4. session.id = bus[2].session /\ ~Closing(session.id)
      BY <1>3, <3>1, <3>3, CurrentIsNotClosing DEF Established
    <3>5. answer = <<>>
      BY <2>2, <3>4 DEF AnswerInv
    <3> QED BY <3>1, <3>2, <3>5, GatheredStart
  <2> QED BY <1>1, <2>1, <2>2
<1>4. ASSUME HeadIsCurrent PROVE bus' # <<>> /\ bus'[1] = bus[1]
  <2>1. d = 0 /\ 1 \in DOMAIN bus
    BY <1>1, <1>4, FirstSignal DEF HeadIsCurrent
  <2>2. 1 - 0 \in DOMAIN bus' /\ bus'[1 - 0] = bus[1]
    BY <1>1, <2>1
  <2> QED BY <1>2, <2>2
<1>5. answer # <<>> => HeadIsCurrent \/ Closing(session.id)
  BY DEF AnswerInv
<1>6. UNCHANGED <<client, accepting, clientLoop, session, answer>>
  BY DEF ClientsStay
<1>7. HeadIsCurrent => IsPart(bus[1]) /\ Current(bus[1].session)
  BY DEF HeadIsCurrent
<1> QED BY <1>3, <1>4, <1>5, <1>6, <1>7
        DEF AnswerInv, HeadIsCurrent, IsPart, Current, Active, Closing, Established, Gathered

LEMMA AnswerOfRequest ==
    ASSUME BusInv, ClientInv, ThreadInv, RequestInv, RequestInv', PartsInv, AnswerInv, ClientsStay, UNCHANGED answer,
           HeadIs("request"), BusStep(1, Answered(bus[1]))
    PROVE  AnswerInv'
<1> DEFINE r == Answered(bus[1])
<1>1. /\ \A i \in 1 .. Fragments :
            r[i] = [kind |-> "response", session |-> bus[1].session, asker |-> bus[1].asker, part |-> i]
      /\ Fragments \in Nat \ {0}
  BY AnsweredFacts, WebAssumption
<1>2. BusStep(1, r)
  OBVIOUS
<1> HIDE DEF r
<1>3. /\ IsSeq(bus') /\ DOMAIN bus = 1 .. Len(bus) /\ Len(bus) \in Nat /\ 1 <= Len(bus)
      /\ \A j \in DOMAIN bus' :
            \/ j + 1 \in DOMAIN bus /\ bus'[j] = bus[j + 1]
            \/ j > Len(bus) - 1 /\ j - (Len(bus) - 1) \in DOMAIN r /\ bus'[j] = r[j - (Len(bus) - 1)]
  BY <1>2, BusFacts
<1>4. bus' # <<>> <=> 1 \in DOMAIN bus'
  <2>1. Len(bus') \in Nat /\ DOMAIN bus' = 1 .. Len(bus') /\ (bus' # <<>> <=> Len(bus') > 0)
    BY <1>3, SeqFacts
  <2> QED BY <2>1
<1>5. ~HeadIsCurrent /\ ~IsPart(bus[1])
  BY DEF HeadIs, HeadIsCurrent, IsPart
<1>6. ASSUME bus' # <<>>, bus'[1].kind = "response" PROVE bus'[1].part = 1
  <2>1. CASE 1 + 1 \in DOMAIN bus /\ bus'[1] = bus[1 + 1]
    <3>1. 2 \in DOMAIN bus /\ bus'[1] = bus[2]
      BY <2>1
    <3>2. bus[2].part \in 1 .. Fragments /\ (bus[2].part > 1 => Continues(bus[2 - 1], bus[2]))
      BY <1>6, <3>1 DEF PartsInv, IsPart
    <3> QED BY <1>1, <1>5, <3>1, <3>2 DEF Continues, IsPart
  <2>2. CASE 1 > Len(bus) - 1 /\ bus'[1] = r[1 - (Len(bus) - 1)]
    <3>1. Len(bus) = 1 /\ bus'[1] = r[1] /\ 1 \in 1 .. Fragments
      BY <1>1, <1>3, <2>2
    <3>2. r[1] = [kind |-> "response", session |-> bus[1].session, asker |-> bus[1].asker, part |-> 1]
      BY <1>1, <3>1
    <3> QED BY <3>1, <3>2
  <2> QED BY <1>3, <1>4, <1>6, <2>1, <2>2
<1>7. ASSUME bus' # <<>>, bus'[1].kind = "response", Current(bus'[1].session) PROVE answer = Gathered(bus'[1])
  <2>1. Established(bus'[1].session)
    BY <1>4, <1>7 DEF RequestInv, ClientsStay, Current, Active, Established
  <2>2. session.id = bus'[1].session /\ ~Closing(session.id)
    BY <1>7, <2>1, CurrentIsNotClosing DEF Established
  <2>3. answer = <<>>
    BY <1>5, <2>2 DEF AnswerInv
  <2> QED BY <1>6, <1>7, <2>3, GatheredStart
<1>8. answer # <<>> => Closing(session.id)
  BY <1>5 DEF AnswerInv
<1>9. UNCHANGED <<client, accepting, clientLoop, session, answer>>
  BY DEF ClientsStay
<1> QED BY <1>7, <1>8, <1>9 DEF AnswerInv, HeadIsCurrent, IsPart, Current, Active, Closing, Established, Gathered

LEMMA AnswerGathered ==
    ASSUME BusInv, ClientInv, ThreadInv, RequestInv, PartsInv, AnswerInv, HeadIs("response"), HandleResponse(bus[1])
    PROVE  AnswerInv'
<1> DEFINE m == bus[1]
<1>1. UNCHANGED <<client, peers, accepting, clientLoop, session, overtaken>> /\ Adds(1, {"traffic"})
  BY ResponseTold DEF HandleResponse, webPeers, webThreads
<1>2. Disjoint({"traffic"}, {"response"})
  BY DEF Disjoint
<1>3. m.kind = "response" /\ 1 \in DOMAIN bus /\ bus # <<>>
  BY FirstSignal DEF HeadIs
<1>4. CASE ~Current(m.session) /\ UNCHANGED answer
  <2>1. ~HeadIsCurrent
    BY <1>4 DEF HeadIsCurrent
  <2> QED BY <1>1, <1>2, <1>4, <2>1, AnswerUntouched DEF ClientsStay
<1>5. /\ m = [kind |-> "response", session |-> m.session, asker |-> m.asker, part |-> m.part]
      /\ m.part \in 1 .. Fragments
      /\ m.part < Fragments => 1 + 1 \in DOMAIN bus /\ Continues(bus[1], bus[1 + 1])
      /\ Fragments \in Nat
  BY <1>3, WebAssumption DEF PartsInv, IsPart
<1>6. bus' # <<>> <=> 1 \in DOMAIN bus'
  <2>1. IsSeq(bus')
    BY <1>1, BusKept DEF BusInv
  <2>2. Len(bus') \in Nat /\ DOMAIN bus' = 1 .. Len(bus') /\ (bus' # <<>> <=> Len(bus') > 0)
    BY <2>1, SeqFacts
  <2> QED BY <2>2
<1>7. Continues(bus[1], bus[2]) => /\ bus[2].kind = "response" /\ bus[2].session = m.session
                                   /\ bus[2].asker = m.asker /\ bus[2].part = m.part + 1
  BY <1>5 DEF Continues
<1>8. CASE Current(m.session) /\ m.part < Fragments /\ answer' = Append(answer, m.asker)
  <2>1. answer = [k \in 1 .. m.part - 1 |-> m.asker]
    BY <1>3, <1>8 DEF AnswerInv, HeadIsCurrent, IsPart, Gathered
  <2>2. 2 \in DOMAIN bus /\ Continues(bus[1], bus[2])
    <3>1. 1 + 1 \in DOMAIN bus /\ Continues(bus[1], bus[1 + 1])
      BY <1>5, <1>8
    <3> QED BY <3>1
  <2>3. bus' # <<>> /\ bus'[1] = bus[2]
    <3>1. \A i \in DOMAIN bus : i > 1 => i - 1 \in DOMAIN bus' /\ bus'[i - 1] = bus[i]
      BY <1>1, <1>2, SignalsShifted
    <3>2. 2 - 1 \in DOMAIN bus' /\ bus'[2 - 1] = bus[2]
      BY <2>2, <3>1
    <3> QED BY <1>6, <3>2
  <2>4. answer' = [k \in 1 .. (m.part - 1) + 1 |-> m.asker]
    <3>1. m.part - 1 \in Nat
      BY <1>5
    <3> HIDE DEF m
    <3> QED BY <1>8, <2>1, <3>1, GatheredMore
  <2>5. answer' = [k \in 1 .. bus[2].part - 1 |-> bus[2].asker]
    <3>1. (m.part - 1) + 1 = bus[2].part - 1 /\ bus[2].asker = m.asker
      BY <1>5, <1>7, <2>2
    <3> QED BY <2>4, <3>1
  <2>6. bus'[1].kind = "response" /\ Current(bus'[1].session)
    BY <1>7, <1>8, <2>2, <2>3
  <2> QED BY <1>1, <2>3, <2>5, <2>6 DEF AnswerInv, HeadIsCurrent, IsPart, Current, Active, Gathered
<1>9. CASE Current(m.session) /\ ~(m.part < Fragments) /\ answer' = <<>>
  <2>1. m.part = Fragments
    BY <1>5, <1>9
  <2>2. ASSUME bus' # <<>>, bus'[1].kind = "response" PROVE bus'[1].part = 1
    <3>1. /\ bus'[1] = bus[2]
          /\ bus[2].part = 1 \/ (IsPart(bus[1]) /\ Continues(bus[1], bus[2]))
      BY <1>1, <1>2, <2>2, SecondSignal
    <3>2. /\ bus'[1] = bus[2] /\ bus[2].part \in 1 .. Fragments
      BY <1>1, <1>2, <2>2, SecondSignal
    <3>3. ~Continues(bus[1], bus[2])
      BY <1>5, <1>7, <2>1, <3>2
    <3> QED BY <3>1, <3>2, <3>3
  <2>3. bus' # <<>> /\ bus'[1].kind = "response" => Gathered(bus'[1]) = <<>>
    BY <2>2, GatheredStart
  <2> QED BY <1>1, <1>9, <2>3 DEF AnswerInv, HeadIsCurrent, IsPart, Current, Active, Gathered
<1>10. \/ ~Current(m.session) /\ UNCHANGED answer
       \/ Current(m.session) /\ m.part < Fragments /\ answer' = Append(answer, m.asker)
       \/ Current(m.session) /\ ~(m.part < Fragments) /\ answer' = <<>>
  BY DEF HandleResponse, Current, Active
<1> QED BY <1>4, <1>8, <1>9, <1>10

-----------------------------------------------------------------------------
(* Every step keeps the clients apart.                                     *)

LEMMA WebForeign == ASSUME BusInv, WebInv, NEW d \in {0, 1}, ForeignStep(d) PROVE WebInv'
<1> USE DEF WebInv
<1>1. Adds(d, ForeignKinds) /\ (d = 1 => bus[1].kind \notin WebKinds)
  BY DEF ForeignStep
<1>2. UNCHANGED <<client, peers, accepting, clientLoop, txQueue, txLoop, delivered, session, answer, config, overtaken>>
  BY DEF ForeignStep, webVars
<1>3. Disjoint(ForeignKinds, {"request", "response"}) /\ Disjoint(ForeignKinds, {"response"})
  BY DEF Disjoint, ForeignKinds, OscKinds
<1>4. ClientsStay
  BY <1>2 DEF ClientsStay
<1>5. d = 1 => bus[1].kind # "disconnect" /\ ~HeadIsCurrent
  BY <1>1 DEF WebKinds, HeadIsCurrent, IsPart
<1>6. ClientInv'
  BY <1>2, ClientFrame
<1>7. ThreadInv'
  BY <1>2, ThreadFrame
<1>8. SendingInv'
  BY <1>2, SendingFrame
<1>9. RequestInv'
  BY <1>1, <1>2, <1>3, <1>4, RequestUntouched
<1>10. EndInv'
  BY <1>1, <1>2, <1>3, <1>4, <1>5, EndUntouched
<1>11. PartsInv'
  BY <1>1, <1>3, PartsStay
<1>12. AnswerInv'
  BY <1>1, <1>2, <1>3, <1>4, <1>5, AnswerUntouched
<1> QED BY <1>6, <1>7, <1>8, <1>9, <1>10, <1>11, <1>12

LEMMA WebThreadsStep == ASSUME BusInv, WebInv, WebThreads PROVE WebInv'
<1> USE DEF WebInv
<1>1. ClientInv' /\ ThreadInv' /\ SendingInv'
  BY ClientKept, ThreadKept, SendingKept
<1>2. RequestInv' /\ EndInv' /\ AnswerInv'
  BY RequestKept, EndKept, AnswerKept
<1>3. PartsInv'
  <2>1. PICK kinds \in {{"request", "traffic"}, {"disconnect", "traffic", "closed"}} : Adds(0, kinds)
    BY SysExFacts, ThreadsAdd
  <2>2. Disjoint(kinds, {"response"})
    BY DEF Disjoint
  <2> QED BY <2>1, <2>2, PartsStay
<1> QED BY <1>1, <1>2, <1>3

LEMMA WebRequest ==
    ASSUME BusInv, SessionInv, WebInv, HeadIs("request"), HandleRequest(bus[1])
    PROVE  WebInv'
<1> USE DEF WebInv
<1>1. UNCHANGED <<client, peers, accepting, clientLoop, txQueue, txLoop, delivered, session, answer, overtaken>>
  BY DEF HandleRequest, webPeers, webThreads, webSending
<1>2. bus # <<>> /\ bus[1].kind = "request" /\ bus[1].kind \notin SessionKinds
  BY DEF HeadIs, SessionKinds
<1>3. BusStep(1, Answered(bus[1])) /\ config' = [on |-> TRUE, session |-> bus[1].session]
  BY <1>2, RequestAdds
<1>4. ClientsStay /\ config'.session = bus[1].session
  BY <1>1, <1>3 DEF ClientsStay
<1>5. ClientInv'
  BY <1>1, ClientFrame
<1>6. ThreadInv'
  BY <1>1, ThreadFrame
<1>7. SendingInv'
  BY <1>1, SendingFrame
<1>8. RequestInv'
  BY RequestAnswered
<1>9. EndInv'
  BY <1>2, <1>3, <1>4, EndOfAnswered
<1>10. PartsInv'
  BY <1>3, PartsAnswered
<1>11. AnswerInv'
  BY <1>1, <1>3, <1>4, <1>8, AnswerOfRequest
<1> QED BY <1>5, <1>6, <1>7, <1>8, <1>9, <1>10, <1>11

LEMMA WebDisconnect ==
    ASSUME BusInv, SessionInv, WebInv, HeadIs("disconnect"), HandleDisconnect(bus[1])
    PROVE  WebInv'
<1> USE DEF WebInv
<1>1. UNCHANGED <<client, peers, accepting, clientLoop, txQueue, txLoop, delivered, session, answer, overtaken>>
  BY DEF HandleDisconnect, webPeers, webThreads, webSending
<1>2. /\ config' = config \/ config' = [config EXCEPT !.on = FALSE]
      /\ config'.on => UNCHANGED config /\ ~(config.session = bus[1].session)
  <2>1. CASE config' = [config EXCEPT !.on = FALSE]
    BY <2>1 DEF RequestInv
  <2>2. CASE UNCHANGED config /\ ~(config.on /\ config.session = bus[1].session)
    BY <2>2
  <2> QED BY <2>1, <2>2 DEF HandleDisconnect
<1>3. Adds(1, {"closed"})
  <2>1. CASE bus' = Append(Tail(bus), [kind |-> "closed"])
    <3> DEFINE m == [kind |-> "closed"]
    <3>1. m.kind = "closed" /\ bus' = Append(Tail(bus), m)
      BY <2>1
    <3> HIDE DEF m
    <3>2. Adds(1, {m.kind})
      BY <3>1, TakesAndAddsOne DEF HeadIs
    <3> QED BY <3>1, <3>2
  <2>2. CASE bus' = Tail(bus)
    BY <2>2, TakesOne, AddsMore DEF HeadIs
  <2> QED BY <2>1, <2>2 DEF HandleDisconnect
<1>4. Disjoint({"closed"}, {"request", "response"}) /\ Disjoint({"closed"}, {"response"})
  BY DEF Disjoint
<1>5. ClientsStay /\ ~HeadIsCurrent
  BY <1>1 DEF ClientsStay, HeadIs, HeadIsCurrent, IsPart
<1>6. ClientInv'
  BY <1>1, ClientFrame
<1>7. ThreadInv'
  BY <1>1, ThreadFrame
<1>8. SendingInv'
  BY <1>1, SendingFrame
<1>9. RequestInv'
  BY <1>2, <1>3, <1>4, <1>5, RequestUntouched
<1>10. EndInv'
  BY <1>2, <1>3, <1>4, <1>5, EndUntouched
<1>11. PartsInv'
  BY <1>3, <1>4, PartsStay
<1>12. AnswerInv'
  BY <1>1, <1>3, <1>4, <1>5, AnswerUntouched
<1> QED BY <1>6, <1>7, <1>8, <1>9, <1>10, <1>11, <1>12

LEMMA WebResponse ==
    ASSUME BusInv, WebInv, HeadIs("response"), HandleResponse(bus[1])
    PROVE  WebInv'
<1> USE DEF WebInv
<1>1. UNCHANGED <<client, peers, accepting, clientLoop, session, config, overtaken>>
  BY DEF HandleResponse, webPeers, webThreads
<1>2. Adds(1, {"traffic"})
  BY ResponseTold
<1>3. Disjoint({"traffic"}, {"request", "response"}) /\ Disjoint({"traffic"}, {"response"})
  BY DEF Disjoint
<1>4. ClientsStay /\ bus[1].kind # "disconnect"
  BY <1>1 DEF ClientsStay, HeadIs
<1>5. ClientInv'
  BY <1>1, ClientFrame
<1>6. ThreadInv'
  BY <1>1, ThreadFrame
<1>7. SendingInv'
  BY AnswerSent
<1>8. RequestInv'
  BY <1>1, <1>2, <1>3, <1>4, RequestUntouched
<1>9. EndInv'
  BY <1>1, <1>2, <1>3, <1>4, EndUntouched
<1>10. PartsInv'
  BY <1>2, <1>3, PartsStay
<1>11. AnswerInv'
  BY AnswerGathered
<1> QED BY <1>5, <1>6, <1>7, <1>8, <1>9, <1>10, <1>11

LEMMA WebStep == ASSUME DeviceInv, WebInv, [NetworkNext]_networkVars PROVE WebInv'
<1>1. BusInv /\ SessionInv
  BY DEF DeviceInv
<1>2. CASE Dispatch
  <2>1. CASE HeadIs("request") \/ HeadIs("disconnect") \/ HeadIs("response")
    <3>1. \/ HeadIs("request") /\ HandleRequest(bus[1])
          \/ HeadIs("disconnect") /\ HandleDisconnect(bus[1])
          \/ HeadIs("response") /\ HandleResponse(bus[1])
      BY <1>2, <2>1, DispatchOfWeb
    <3> QED BY <1>1, <3>1, WebRequest, WebDisconnect, WebResponse
  <2>2. CASE ~HeadIs("request") /\ ~HeadIs("disconnect") /\ ~HeadIs("response")
    <3>1. \E d \in {0, 1} : ForeignStep(d)
      BY <1>2, <2>2, DispatchOfDevice
    <3> QED BY <1>1, <3>1, WebForeign
  <2> QED BY <2>1, <2>2
<1>3. CASE OscThreads \/ OscOutside \/ MdnsThreads \/ System
  <2>1. ForeignStep(0)
    BY <1>3, OscStep, MdnsStep, SystemStep
  <2> QED BY <1>1, <2>1, WebForeign
<1>4. CASE IndicatorWork \/ Flash
  <2>1. \E d \in {0, 1} : ForeignStep(d)
    BY <1>4, LightsStep
  <2> QED BY <1>1, <2>1, WebForeign
<1>5. CASE WebThreads
  BY <1>1, <1>5, WebThreadsStep
<1>6. CASE UNCHANGED networkVars
  <2>1. Adds(0, {}) /\ UNCHANGED webVars
    BY <1>1, <1>6, BusUnchanged DEF networkVars, sharedVars
  <2>2. Adds(0, ForeignKinds)
    BY <2>1, AddsMore
  <2>3. ForeignStep(0)
    BY <2>1, <2>2 DEF ForeignStep
  <2> QED BY <1>1, <2>3, WebForeign
<1> QED BY <1>2, <1>3, <1>4, <1>5, <1>6 DEF NetworkNext

LEMMA WebStarts == ASSUME NetworkInit PROVE WebInv
<1>1. bus = <<>> /\ DOMAIN bus = {}
  BY SmallSeqs, SeqFacts DEF NetworkInit
<1>2. WebInit
  BY DEF NetworkInit
<1>3. /\ client.socket = 0 /\ client.generation = 0 /\ client \in Client /\ peers \in [ClientSockets -> Clients \cup {0}]
      /\ accepting.at = "idle" /\ accepting \in Accepting
  BY <1>2 DEF WebInit, Client, Accepting
<1>4. ClientInv
  BY <1>3 DEF ClientInv, Active, Accepting
<1>5. ThreadInv
  BY <1>2, <1>3 DEF WebInit, ThreadInv, Active, Current
<1>6. SendingInv
  <2>1. IsSeq(<<>>) /\ DOMAIN <<>> = {}
    BY SmallSeqs, SeqFacts
  <2> QED BY <1>2, <1>3, <2>1 DEF WebInit, SendingInv, Active
<1>7. RequestInv
  BY <1>1, <1>2 DEF WebInit, RequestInv
<1>8. EndInv /\ PartsInv
  BY <1>1, <1>2 DEF WebInit, EndInv, PartsInv
<1>9. AnswerInv
  BY <1>1, <1>2 DEF WebInit, AnswerInv, HeadIsCurrent
<1> QED BY <1>4, <1>5, <1>6, <1>7, <1>8, <1>9 DEF WebInv

LEMMA ClientsAreApart == ASSUME WebInv PROVE ClientsKeptApart
<1>1. AnswersToAsker
  BY DEF WebInv, SendingInv, AnswersToAsker
<1>2. SessionsEnd
  <2>1. SUFFICES ASSUME bus = <<>>, accepting.at = "idle", clientLoop.at \notin {"close", "notify"}, config.on
                 PROVE  (client.socket # 0 /\ client.generation = config.session) \/ config.session \in overtaken
    BY DEF SessionsEnd
  <2>2. DOMAIN bus = {}
    BY <2>1, SmallSeqs, SeqFacts
  <2>3. Followed(config.session, 0) /\ ~Closing(config.session)
    BY <2>1 DEF WebInv, EndInv, Closing
  <2> QED BY <2>2, <2>3 DEF Followed, Current, Active
<1> QED BY <1>1, <1>2 DEF ClientsKeptApart

\* A client gets the whole answers to its own frames and nothing else, and no session outlives its client unless a
\* request overtook its end, for any number of connections that take each other's place and sockets that are used again
\* (common/src/protocols/websockets, the firmware's handlers and System's session): ClientsKeptApart.
THEOREM ClientsAreKeptApart == NetworkSpec => []ClientsKeptApart
<1>1. NetworkInit => DeviceInv /\ WebInv
  BY DeviceInit, WebStarts
<1>2. DeviceInv /\ WebInv /\ [NetworkNext]_networkVars => DeviceInv' /\ WebInv'
  BY DeviceStep, WebStep
<1>3. WebInv => ClientsKeptApart
  BY ClientsAreApart
<1> QED BY <1>1, <1>2, <1>3, PTL DEF NetworkSpec
=============================================================================
