----------------------------- MODULE MidiProofs -----------------------------
(***************************************************************************)
(* What holds of MIDI for every number of packets, every size of the       *)
(* buffers, any settings and any order of what the inputs, the host, the   *)
(* interrupts and Bluetooth do.  What a setting can change is a record     *)
(* that passes through many operations; ConfigInv is what each of them     *)
(* keeps.  StreamInv follows the packets for USB from the bus through the  *)
(* buffer to the wire.                                                     *)
(***************************************************************************)
EXTENDS Midi, SequenceTheorems, WellFoundedInduction, TLAPS

-----------------------------------------------------------------------------
(* The inductive invariant.                                                *)

\* A sequence of anything.
IsSeq(q) == q \in Seq({q[i] : i \in DOMAIN q})

\* There are settings for every preset.
SettingsInv ==
    /\ stored \in Seq(MidiSettings) /\ preset \in DOMAIN stored
    /\ \E p \in Presets : DOMAIN stored = DOMAIN p
    /\ bpm \in Tempos

Packet == [n : Nat, size : Nat, last : BOOLEAN]
IsPacket(m) == m.kind = "packet"
Kinds == {"packet", "message", "start", "stop", "request", "preset", "bpm"}
\* One group of signals is on the bus: a signal that is alone, a message with the end of the refresh behind it, or
\* packets behind the preset, the end of the refresh or the packet that came first.
BusInv ==
    /\ IsSeq(bus)
    /\ \A i \in DOMAIN bus :
          /\ bus[i].kind \in Kinds
          /\ IsPacket(bus[i]) => bus[i].packet \in Packet
          /\ i > 1 => IsPacket(bus[i]) \/ (bus[1].kind = "message" /\ bus[i].kind = "stop" /\ Len(bus) = 2)
    /\ bus # <<>> /\ bus[1].kind \in {"start", "request", "bpm"} => Len(bus) = 1
    /\ bus # <<>> /\ bus[1].kind = "message" /\ Len(bus) > 1 => bus[2].kind = "stop"

\* A burst is on from its start to its stop, which System orders in turns.
BurstInv ==
    /\ burst = [active |-> burst.active, packets |-> burst.packets] /\ burst.active \in BOOLEAN
    /\ Pending("start") => refresh = "burst"
    /\ Pending("stop") => refresh = "idle"
    /\ refresh \in {"idle", "burst"}
    /\ burst.active <=> IF refresh = "burst" THEN ~Pending("start") ELSE Pending("stop")
    /\ ~burst.active /\ burst.packets # <<>> => bus # <<>> /\ IsPacket(bus[1])
    /\ \A i \in DOMAIN bus : IsPacket(bus[i]) /\ ~bus[i].packet.last => i + 1 \in DOMAIN bus /\ IsPacket(bus[i + 1])

\* The packets on the wire, in the buffer and on the bus are in order, and no number is missing.
Rising(q) == \A i, j \in DOMAIN q : i < j => q[i].n < q[j].n
Numbers(q) == {q[i].n : i \in DOMAIN q}
Before(M, N) == \A m \in M, n \in N : m < n
TxInv(tx) ==
    /\ tx.wire \in Seq(Packet) /\ tx.buffer \in Seq(Packet) /\ tx.lost \subseteq Packet
    /\ Rising(tx.wire) /\ Rising(tx.buffer) /\ Before(Numbers(tx.wire), Numbers(tx.buffer))
Taken(tx) == Numbers(tx.wire) \cup Numbers(tx.buffer) \cup {p.n : p \in tx.lost}
Waiting == {i \in DOMAIN bus : IsPacket(bus[i])}
OnBus == {bus[i].packet.n : i \in Waiting}
InTurn == \A i, j \in Waiting : i < j => bus[i].packet.n < bus[j].packet.n
StreamInv ==
    /\ published \in Nat /\ usbReady \in BOOLEAN
    /\ TxInv(Tx)
    /\ InTurn
    /\ Before(Numbers(wire) \cup Numbers(burst.packets), OnBus)
    /\ Taken(Tx) \cup OnBus = 1 .. published

\* What a setting can change, one operation after the other.
ConfigType ==
    [din : [on : BOOLEAN, loopback : BOOLEAN, hardware : BOOLEAN], routes : SUBSET Routes, timer : Tempos \cup {0},
     ble : [on : BOOLEAN, ready : BOOLEAN],
     central : [known : BOOLEAN, connected : BOOLEAN, notify : BOOLEAN, last : BOOLEAN], stale : BOOLEAN,
     rx : [Transports -> Nat], raised : [Transports -> BOOLEAN]]
IsOn(c, t) == CASE t = "usb" -> TRUE [] t = "din" -> c.din.on [] t = "ble" -> c.ble.on
\* The transports that have packets and no signal.
Unread(c) == {t \in Transports : IsOn(c, t) /\ c.rx[t] > 0 /\ ~c.raised[t]}
BleInv(c) ==
    /\ c.central.last = ReadyNow(c.central)
    /\ c.ble.ready => ReadyNow(c.central)
    /\ c.ble.on /\ ReadyNow(c.central) /\ ~c.stale => c.ble.ready
LoopInv(c) ==
    /\ c.din.loopback = (Destinations(c, "din") = {"din"})
    /\ c.din.hardware = c.din.loopback
ReaderInv ==
    /\ reader = [at |-> reader.at, from |-> reader.from]
    /\ reader.at \in {"wait", "woken", "read"} /\ reader.from \in Transports
    /\ ~frozen => Unread(Config) \subseteq IF reader.at = "read" THEN {reader.from} ELSE {}
ConfigInv ==
    /\ Config \in ConfigType
    /\ BleInv(Config) /\ LoopInv(Config)
    /\ ReaderInv

\* Clock and routes are those of the settings, unless a signal is on the bus that will see to it.
AppliedInv ==
    /\ ~Pending("preset") =>
          /\ timer # 0 => Settings.SendMidiClockDin
          /\ routes = Settings.thru
    /\ ~Pending("preset") /\ ~Pending("bpm") /\ Settings.DinEnabled /\ Settings.SendMidiClockDin => timer = bpm

MidiInv == SettingsInv /\ BusInv /\ BurstInv /\ StreamInv /\ ConfigInv /\ AppliedInv

-----------------------------------------------------------------------------
(* Sequences.                                                              *)

LEMMA SeqFacts ==
    ASSUME NEW q, IsSeq(q)
    PROVE  /\ Len(q) \in Nat /\ DOMAIN q = 1 .. Len(q)
           /\ q # <<>> <=> Len(q) > 0
           /\ q # <<>> => Head(q) = q[1]
<1> DEFINE S == {q[i] : i \in DOMAIN q}
<1>1. q \in Seq(S)
  BY DEF IsSeq
<1> HIDE DEF S
<1>2. Len(q) \in Nat /\ DOMAIN q = 1 .. Len(q)
  BY <1>1, LenProperties
<1>3. q # <<>> <=> Len(q) > 0
  BY <1>1, <1>2, EmptySeq
<1>4. q # <<>> => Head(q) = q[1]
  BY <1>1, <1>2
<1> QED BY <1>2, <1>3, <1>4

LEMMA IsASeqOfAnything ==
    ASSUME NEW S, NEW q \in Seq(S)
    PROVE  IsSeq(q)
<1>1. Len(q) \in Nat /\ q \in [1 .. Len(q) -> S] /\ DOMAIN q = 1 .. Len(q)
  BY LenProperties
<1>2. q \in [1 .. Len(q) -> {q[i] : i \in DOMAIN q}]
  BY <1>1
<1> QED BY <1>1, <1>2 DEF IsSeq

\* Sequences that are written out, and functions on an initial segment.
LEMMA SmallSeqs ==
    /\ IsSeq(<<>>) /\ Len(<<>>) = 0
    /\ \A a : IsSeq(<<a>>) /\ Len(<<a>>) = 1 /\ <<a>>[1] = a
    /\ \A a, b : IsSeq(<<a, b>>) /\ Len(<<a, b>>) = 2 /\ <<a, b>>[1] = a /\ <<a, b>>[2] = b
    /\ \A a, b, c : /\ IsSeq(<<a, b, c>>) /\ Len(<<a, b, c>>) = 3
                    /\ <<a, b, c>>[1] = a /\ <<a, b, c>>[2] = b /\ <<a, b, c>>[3] = c
<1>1. IsSeq(<<>>)
  BY EmptySeq DEF IsSeq
<1>2. \A a : <<a>> \in Seq({a})
  OBVIOUS
<1>3. \A a, b : <<a, b>> \in Seq({a, b})
  OBVIOUS
<1>4. \A a, b, c : <<a, b, c>> \in Seq({a, b, c})
  OBVIOUS
<1> QED BY <1>1, <1>2, <1>3, <1>4, IsASeqOfAnything

LEMMA SegmentIsSeq ==
    ASSUME NEW n \in Nat, NEW q, q = [i \in 1 .. n |-> q[i]]
    PROVE  IsSeq(q) /\ Len(q) = n
<1>1. q \in [1 .. n -> {q[i] : i \in DOMAIN q}]
  OBVIOUS
<1>2. q \in Seq({q[i] : i \in DOMAIN q})
  BY <1>1
<1>3. Len(q) \in Nat /\ DOMAIN q = 1 .. Len(q) /\ DOMAIN q = 1 .. n
  BY <1>1, <1>2, LenProperties
<1> QED BY <1>2, <1>3 DEF IsSeq

LEMMA ConcatIsSeq ==
    ASSUME NEW q, NEW r, IsSeq(q), IsSeq(r)
    PROVE  /\ IsSeq(q \o r) /\ Len(q \o r) = Len(q) + Len(r)
           /\ \A i \in 1 .. Len(q) + Len(r) : (q \o r)[i] = IF i <= Len(q) THEN q[i] ELSE r[i - Len(q)]
<1> DEFINE S == {q[i] : i \in DOMAIN q} \cup {r[i] : i \in DOMAIN r}
<1>1. q \in Seq(S) /\ r \in Seq(S)
  BY SeqMonotonic DEF IsSeq
<1> HIDE DEF S
<1> QED BY <1>1, ConcatProperties, IsASeqOfAnything

LEMMA TailIsSeq ==
    ASSUME NEW q, IsSeq(q), q # <<>>
    PROVE  IsSeq(Tail(q)) /\ Len(Tail(q)) = Len(q) - 1 /\ \A i \in 1 .. Len(q) - 1 : Tail(q)[i] = q[i + 1]
<1> DEFINE S == {q[i] : i \in DOMAIN q}
<1>1. q \in Seq(S)
  BY DEF IsSeq
<1> HIDE DEF S
<1>2. Tail(q) \in Seq(S) /\ Len(Tail(q)) = Len(q) - 1 /\ \A i \in 1 .. Len(q) - 1 : Tail(q)[i] = q[i + 1]
  BY <1>1, HeadTailProperties
<1> QED BY <1>2, IsASeqOfAnything

-----------------------------------------------------------------------------
(* Packets on their way to USB.                                            *)

LEMMA JoinedPackets ==
    ASSUME NEW q \in Seq(Packet), NEW r \in Seq(Packet)
    PROVE  /\ q \o r \in Seq(Packet) /\ Numbers(q \o r) = Numbers(q) \cup Numbers(r)
           /\ Rising(q) /\ Rising(r) /\ Before(Numbers(q), Numbers(r)) => Rising(q \o r)
<1> DEFINE s == q \o r
<1>1. /\ Len(q) \in Nat /\ Len(r) \in Nat /\ DOMAIN q = 1 .. Len(q) /\ DOMAIN r = 1 .. Len(r)
      /\ s \in Seq(Packet) /\ Len(s) = Len(q) + Len(r) /\ DOMAIN s = 1 .. Len(s)
      /\ \A i \in 1 .. Len(q) + Len(r) : s[i] = IF i <= Len(q) THEN q[i] ELSE r[i - Len(q)]
  BY ConcatProperties, LenProperties
<1> HIDE DEF s
<1>2. \A i \in DOMAIN q : i \in DOMAIN s /\ s[i] = q[i]
  BY <1>1
<1>3. \A j \in DOMAIN r : j + Len(q) \in DOMAIN s /\ s[j + Len(q)] = r[j]
  BY <1>1
<1>4. \A i \in DOMAIN s : (i \in DOMAIN q /\ s[i] = q[i]) \/ (i - Len(q) \in DOMAIN r /\ s[i] = r[i - Len(q)])
  BY <1>1
<1>5. Numbers(s) = Numbers(q) \cup Numbers(r)
  <2>1. Numbers(s) \subseteq Numbers(q) \cup Numbers(r)
    BY <1>4 DEF Numbers
  <2>2. Numbers(q) \subseteq Numbers(s)
    BY <1>2 DEF Numbers
  <2>3. Numbers(r) \subseteq Numbers(s)
    BY <1>3 DEF Numbers
  <2> QED BY <2>1, <2>2, <2>3
<1>6. ASSUME Rising(q), Rising(r), Before(Numbers(q), Numbers(r)), NEW i \in DOMAIN s, NEW j \in DOMAIN s, i < j
      PROVE  s[i].n < s[j].n
  <2>1. CASE j <= Len(q)
    BY <1>1, <1>6, <2>1 DEF Rising
  <2>2. CASE i > Len(q)
    <3>1. i - Len(q) \in DOMAIN r /\ j - Len(q) \in DOMAIN r /\ i - Len(q) < j - Len(q)
      BY <1>1, <1>6, <2>2
    <3>2. i \in 1 .. Len(q) + Len(r) /\ j \in 1 .. Len(q) + Len(r) /\ ~(i <= Len(q)) /\ ~(j <= Len(q))
      BY <1>1, <1>6, <2>2
    <3>4. s[i] = r[i - Len(q)] /\ s[j] = r[j - Len(q)]
      BY <1>1, <3>2
    <3>3. r[i - Len(q)].n < r[j - Len(q)].n
      BY <1>6, <3>1 DEF Rising
    <3> QED BY <3>3, <3>4
  <2>3. CASE i <= Len(q) /\ j > Len(q)
    <3>1. i \in DOMAIN q /\ s[i] = q[i] /\ j - Len(q) \in DOMAIN r /\ s[j] = r[j - Len(q)]
      BY <1>1, <1>6, <2>3
    <3> QED BY <1>6, <3>1 DEF Before, Numbers
  <2> QED BY <1>1, <1>6, <2>1, <2>2, <2>3
<1>7. Rising(q) /\ Rising(r) /\ Before(Numbers(q), Numbers(r)) => Rising(s)
  BY <1>6 DEF Rising
<1> QED BY <1>1, <1>5, <1>7 DEF s

LEMMA OnePacket ==
    ASSUME NEW p \in Packet
    PROVE  /\ <<p>> \in Seq(Packet) /\ Numbers(<<p>>) = {p.n} /\ Rising(<<p>>)
           /\ \A q \in Seq(Packet) : Append(q, p) = q \o <<p>>
<1>1. <<p>> \in Seq(Packet) /\ Len(<<p>>) = 1 /\ DOMAIN <<p>> = {1} /\ <<p>>[1] = p
  OBVIOUS
<1>2. ASSUME NEW q \in Seq(Packet) PROVE Append(q, p) = q \o <<p>>
  BY <1>1, AppendProperties, ConcatProperties, SeqEqual
<1> QED BY <1>1, <1>2 DEF Numbers, Rising

LEMMA NoPackets == <<>> \in Seq(Packet) /\ Numbers(<<>>) = {} /\ Rising(<<>>)
<1>1. <<>> \in Seq(Packet) /\ DOMAIN <<>> = {}
  BY EmptySeq
<1> QED BY <1>1 DEF Numbers, Rising

TxForm(tx) == tx = [buffer |-> tx.buffer, wire |-> tx.wire, lost |-> tx.lost]

\* What is written arrives behind what is on the wire, or is lost; the buffer is as it was.
LEMMA WriteKeeps ==
    ASSUME NEW tx, TxForm(tx), usbReady \in BOOLEAN, tx.wire \in Seq(Packet), tx.lost \subseteq Packet,
           NEW packets \in Seq(Packet), Rising(tx.wire), Rising(packets), Before(Numbers(tx.wire), Numbers(packets))
    PROVE  LET w == Write(tx, packets)
           IN  /\ TxForm(w) /\ w.buffer = tx.buffer
               /\ w.wire \in Seq(Packet) /\ w.lost \subseteq Packet /\ Rising(w.wire)
               /\ Numbers(w.wire) \subseteq Numbers(tx.wire) \cup Numbers(packets)
               /\ Numbers(w.wire) \cup {p.n : p \in w.lost} =
                      Numbers(tx.wire) \cup {p.n : p \in tx.lost} \cup Numbers(packets)
<1> DEFINE w == Write(tx, packets)
<1>1. CASE usbReady
  <2>1. w = [buffer |-> tx.buffer, wire |-> tx.wire \o packets, lost |-> tx.lost]
    BY <1>1 DEF Write, TxForm
  <2>2. /\ tx.wire \o packets \in Seq(Packet) /\ Numbers(tx.wire \o packets) = Numbers(tx.wire) \cup Numbers(packets)
        /\ Rising(tx.wire \o packets)
    BY JoinedPackets
  <2> HIDE DEF w
  <2>3. w.buffer = tx.buffer /\ w.wire = tx.wire \o packets /\ w.lost = tx.lost
    BY <2>1
  <2> QED BY <2>1, <2>2, <2>3 DEF TxForm, w
<1>2. CASE ~usbReady
  <2>1. w = [buffer |-> tx.buffer, wire |-> tx.wire, lost |-> tx.lost \cup ToSet(packets)]
    BY <1>2 DEF Write, TxForm
  <2>2. ToSet(packets) \subseteq Packet /\ {p.n : p \in ToSet(packets)} = Numbers(packets)
    BY LenProperties DEF ToSet, Numbers
  <2> HIDE DEF w
  <2>3. w.buffer = tx.buffer /\ w.wire = tx.wire /\ w.lost = tx.lost \cup ToSet(packets)
    BY <2>1
  <2> QED BY <2>1, <2>2, <2>3 DEF TxForm, w
<1> QED BY <1>1, <1>2

LEMMA FlushKeeps ==
    ASSUME NEW tx, TxForm(tx), TxInv(tx), usbReady \in BOOLEAN
    PROVE  LET f == Flush(tx)
           IN  /\ TxForm(f) /\ TxInv(f) /\ f.buffer = <<>> /\ Taken(f) = Taken(tx)
               /\ Numbers(f.wire) \subseteq Numbers(tx.wire) \cup Numbers(tx.buffer)
<1> DEFINE w == Write(tx, tx.buffer)
           f == Flush(tx)
<1>1. /\ TxForm(w) /\ w.buffer = tx.buffer
      /\ w.wire \in Seq(Packet) /\ w.lost \subseteq Packet /\ Rising(w.wire)
      /\ Numbers(w.wire) \subseteq Numbers(tx.wire) \cup Numbers(tx.buffer)
      /\ Numbers(w.wire) \cup {p.n : p \in w.lost} =
                      Numbers(tx.wire) \cup {p.n : p \in tx.lost} \cup Numbers(tx.buffer)
  BY WriteKeeps DEF TxInv
<1>2. f = [w EXCEPT !.buffer = <<>>]
  BY DEF Flush
<1> HIDE DEF w, f
<1>3. f = [buffer |-> <<>>, wire |-> w.wire, lost |-> w.lost]
  BY <1>1, <1>2 DEF TxForm
<1>4. f.buffer = <<>> /\ f.wire = w.wire /\ f.lost = w.lost
  BY <1>3
<1>5. TxForm(f) /\ TxInv(f)
  BY <1>1, <1>3, <1>4, NoPackets DEF TxForm, TxInv, Before
<1>6. Taken(f) = Taken(tx)
  BY <1>1, <1>4, NoPackets DEF Taken
<1> QED BY <1>1, <1>4, <1>5, <1>6 DEF f

\* A packet behind all of the others is the last one afterwards, in the buffer or on the wire, or it is lost.
LEMMA AppendKeeps ==
    ASSUME NEW tx, TxForm(tx), TxInv(tx), usbReady \in BOOLEAN,
           NEW p \in Packet, Before(Numbers(tx.wire) \cup Numbers(tx.buffer), {p.n})
    PROVE  LET a == Append1(tx, p)
           IN  /\ TxForm(a) /\ TxInv(a) /\ Taken(a) = Taken(tx) \cup {p.n}
               /\ Numbers(a.wire) \cup Numbers(a.buffer) \subseteq Numbers(tx.wire) \cup Numbers(tx.buffer) \cup {p.n}
<1> DEFINE full == Len(tx.buffer) = BurstCount \/ UsbSize(tx.buffer) + p.size > BurstSize
           room == IF full THEN Flush(tx) ELSE tx
           a == Append1(tx, p)
<1>1. /\ TxForm(room) /\ TxInv(room) /\ Taken(room) = Taken(tx)
      /\ Numbers(room.wire) \cup Numbers(room.buffer) \subseteq Numbers(tx.wire) \cup Numbers(tx.buffer)
  <2>1. CASE full
    BY <2>1, FlushKeeps, NoPackets
  <2>2. CASE ~full
    BY <2>2
  <2> QED BY <2>1, <2>2
<1>2. a = [room EXCEPT !.lost = @ \cup {p}] \/ a = [room EXCEPT !.buffer = Append(@, p)]
  BY DEF Append1
<1> HIDE DEF full, room, a
<1>3. CASE a = [room EXCEPT !.lost = @ \cup {p}]
  <2>1. a = [buffer |-> room.buffer, wire |-> room.wire, lost |-> room.lost \cup {p}]
    BY <1>1, <1>3 DEF TxForm
  <2>2. a.buffer = room.buffer /\ a.wire = room.wire /\ a.lost = room.lost \cup {p}
    BY <2>1
  <2>3. TxForm(a) /\ TxInv(a)
    BY <1>1, <2>1, <2>2 DEF TxForm, TxInv
  <2>4. Taken(a) = Taken(tx) \cup {p.n}
    BY <1>1, <2>2 DEF Taken
  <2> QED BY <1>1, <2>2, <2>3, <2>4 DEF a
<1>4. CASE a = [room EXCEPT !.buffer = Append(@, p)]
  <2>1. a = [buffer |-> Append(room.buffer, p), wire |-> room.wire, lost |-> room.lost]
    BY <1>1, <1>4 DEF TxForm
  <2>2. a.buffer = Append(room.buffer, p) /\ a.wire = room.wire /\ a.lost = room.lost
    BY <2>1
  <2>3. room.buffer \in Seq(Packet) /\ Append(room.buffer, p) = room.buffer \o <<p>>
    BY <1>1, OnePacket DEF TxInv
  <2>4. Before(Numbers(room.buffer), {p.n}) /\ Before(Numbers(room.wire), {p.n})
    BY <1>1 DEF Before
  <2>5. /\ a.buffer \in Seq(Packet) /\ Numbers(a.buffer) = Numbers(room.buffer) \cup {p.n}
        /\ Rising(a.buffer)
    <3>1. <<p>> \in Seq(Packet) /\ Numbers(<<p>>) = {p.n} /\ Rising(<<p>>)
      BY OnePacket
    <3>2. /\ room.buffer \o <<p>> \in Seq(Packet)
          /\ Numbers(room.buffer \o <<p>>) = Numbers(room.buffer) \cup Numbers(<<p>>)
          /\ Rising(room.buffer \o <<p>>)
      BY <1>1, <2>3, <2>4, <3>1, JoinedPackets DEF TxInv
    <3> QED BY <2>2, <2>3, <3>1, <3>2
  <2>6. TxForm(a) /\ TxInv(a)
    <3>1. Before(Numbers(a.wire), Numbers(a.buffer))
      BY <1>1, <2>2, <2>4, <2>5 DEF TxInv, Before
    <3> QED BY <1>1, <2>1, <2>2, <2>5, <3>1 DEF TxForm, TxInv
  <2>7. Taken(a) = Taken(tx) \cup {p.n}
    BY <1>1, <2>2, <2>5 DEF Taken
  <2> QED BY <1>1, <2>2, <2>5, <2>6, <2>7 DEF a
<1> QED BY <1>2, <1>3, <1>4

\* What is numbered now.
LEMMA NumberedPackets ==
    ASSUME published \in Nat, NEW k \in Nat, NEW q, DOMAIN q = 1 .. k,
           \A i \in 1 .. k : q[i].size \in Nat /\ q[i].last \in BOOLEAN
    PROVE  /\ Numbered(q) \in Seq(Packet) /\ Len(Numbered(q)) = k /\ Rising(Numbered(q))
           /\ Numbers(Numbered(q)) = published + 1 .. published + k
           /\ \A i \in 1 .. k : Numbered(q)[i].n = published + i /\ Numbered(q)[i].last = q[i].last
<1> DEFINE s == Numbered(q)
<1>1. s = [i \in 1 .. k |-> [n |-> published + i, size |-> q[i].size, last |-> q[i].last]]
  BY DEF Numbered
<1> HIDE DEF s
<1>2. \A i \in 1 .. k : s[i] \in Packet /\ s[i].n = published + i /\ s[i].last = q[i].last
  BY <1>1 DEF Packet
<1>3. s \in [1 .. k -> Packet]
  BY <1>1, <1>2
<1>4. s \in Seq(Packet) /\ Len(s) = k /\ DOMAIN s = 1 .. k
  BY <1>3, LenProperties
<1>5. Rising(s)
  BY <1>2, <1>4 DEF Rising
<1>6. Numbers(s) = published + 1 .. published + k
  <2>1. ASSUME NEW n \in published + 1 .. published + k PROVE n \in Numbers(s)
    <3>1. n - published \in DOMAIN s /\ s[n - published].n = n
      BY <1>2, <1>4
    <3> QED BY <3>1 DEF Numbers
  <2>2. ASSUME NEW n \in Numbers(s) PROVE n \in published + 1 .. published + k
    <3>1. PICK i \in DOMAIN s : n = s[i].n
      BY DEF Numbers
    <3>2. i \in 1 .. k /\ n = published + i
      BY <1>2, <1>4, <3>1
    <3> QED BY <3>2
  <2> QED BY <2>1, <2>2
<1> QED BY <1>2, <1>4, <1>5, <1>6 DEF s

-----------------------------------------------------------------------------
(* The bus.                                                                *)

LEMMA TailOfBus ==
    ASSUME BusInv, bus # <<>>, bus' = Tail(bus)
    PROVE  /\ BusInv' /\ DOMAIN bus = 1 .. Len(bus) /\ Len(bus) \in Nat /\ Head(bus) = bus[1] /\ 1 \in DOMAIN bus
           /\ \A i \in DOMAIN bus' : i + 1 \in DOMAIN bus /\ bus'[i] = bus[i + 1]
           /\ \A i \in DOMAIN bus : i > 1 => i - 1 \in DOMAIN bus' /\ bus'[i - 1] = bus[i]
           /\ bus' # <<>> => 1 \in DOMAIN bus' /\ 2 \in DOMAIN bus /\ bus'[1] = bus[2]
<1>1. /\ Len(bus) \in Nat /\ DOMAIN bus = 1 .. Len(bus) /\ Len(bus) > 0 /\ Head(bus) = bus[1]
      /\ IsSeq(bus') /\ Len(bus') = Len(bus) - 1 /\ \A i \in 1 .. Len(bus) - 1 : bus'[i] = bus[i + 1]
  BY SeqFacts, TailIsSeq DEF BusInv
<1>2. DOMAIN bus' = 1 .. Len(bus) - 1 /\ (bus' # <<>> <=> Len(bus') > 0)
  BY <1>1, SeqFacts
<1>3. /\ \A i \in DOMAIN bus' : i + 1 \in DOMAIN bus /\ bus'[i] = bus[i + 1]
      /\ \A i \in DOMAIN bus : i > 1 => i - 1 \in DOMAIN bus' /\ bus'[i - 1] = bus[i]
      /\ bus' # <<>> => 1 \in DOMAIN bus' /\ 2 \in DOMAIN bus /\ bus'[1] = bus[2]
  BY <1>1, <1>2
<1>4. ASSUME NEW i \in DOMAIN bus'
      PROVE  /\ bus'[i].kind \in {"packet", "stop"}
             /\ IsPacket(bus'[i]) => bus'[i].packet \in Packet
             /\ i > 1 => IsPacket(bus'[i])
  <2>1. i + 1 \in DOMAIN bus /\ bus'[i] = bus[i + 1] /\ i + 1 > 1 /\ (i > 1 => Len(bus) # 2)
    BY <1>1, <1>2
  <2> QED BY <2>1 DEF BusInv, IsPacket
<1>5. BusInv'
  BY <1>1, <1>2, <1>3, <1>4 DEF BusInv, IsPacket, Kinds
<1> QED BY <1>1, <1>3, <1>5

\* What is said of the packets on the bus when its first signal is taken.
LEMMA TailPackets ==
    ASSUME BusInv, bus # <<>>, bus' = Tail(bus)
    PROVE  /\ OnBus' \subseteq OnBus
           /\ OnBus = OnBus' \cup (IF IsPacket(bus[1]) THEN {bus[1].packet.n} ELSE {})
           /\ InTurn => InTurn' /\ (IsPacket(bus[1]) => Before({bus[1].packet.n}, OnBus'))
<1>1. /\ \A i \in DOMAIN bus' : i + 1 \in DOMAIN bus /\ bus'[i] = bus[i + 1]
      /\ \A i \in DOMAIN bus : i > 1 => i - 1 \in DOMAIN bus' /\ bus'[i - 1] = bus[i]
      /\ DOMAIN bus = 1 .. Len(bus) /\ Len(bus) \in Nat /\ 1 \in DOMAIN bus
      /\ DOMAIN bus' \subseteq Nat /\ \A i \in DOMAIN bus' : i > 0
  <2>1. IsSeq(bus')
    BY TailOfBus DEF BusInv
  <2> QED BY TailOfBus, <2>1, SeqFacts
<1>2. \A i \in Waiting' : i + 1 \in Waiting /\ bus'[i] = bus[i + 1] /\ i \in Nat /\ i > 0
  BY <1>1 DEF Waiting
<1>3. \A i \in Waiting : i > 1 => i - 1 \in Waiting' /\ bus'[i - 1] = bus[i]
  BY <1>1 DEF Waiting
<1>4. \A i \in Waiting : i = 1 \/ i > 1
  BY <1>1 DEF Waiting
<1>5. IsPacket(bus[1]) <=> 1 \in Waiting
  BY <1>1 DEF Waiting
<1>6. OnBus' \subseteq OnBus
  BY <1>2 DEF OnBus
<1>7. OnBus = OnBus' \cup (IF IsPacket(bus[1]) THEN {bus[1].packet.n} ELSE {})
  <2>1. ASSUME NEW i \in Waiting
        PROVE  bus[i].packet.n \in OnBus' \cup (IF IsPacket(bus[1]) THEN {bus[1].packet.n} ELSE {})
    BY <1>3, <1>4, <1>5, <2>1 DEF OnBus
  <2> QED BY <1>5, <1>6, <2>1 DEF OnBus
<1>8. ASSUME InTurn
      PROVE  /\ InTurn'
             /\ IsPacket(bus[1]) => Before({bus[1].packet.n}, OnBus')
  <2>1. ASSUME NEW i \in Waiting', NEW j \in Waiting', i < j PROVE bus'[i].packet.n < bus'[j].packet.n
    <3>1. i + 1 \in Waiting /\ bus'[i] = bus[i + 1] /\ i \in Nat
      BY <1>2
    <3>2. j + 1 \in Waiting /\ bus'[j] = bus[j + 1] /\ j \in Nat
      BY <1>2
    <3>3. i + 1 < j + 1
      BY <2>1, <3>1, <3>2
    <3> QED BY <1>8, <3>1, <3>2, <3>3 DEF InTurn
  <2>2. ASSUME IsPacket(bus[1]), NEW j \in Waiting' PROVE bus[1].packet.n < bus'[j].packet.n
    <3>1. j + 1 \in Waiting /\ bus'[j] = bus[j + 1] /\ j \in Nat /\ j > 0
      BY <1>2
    <3>2. 1 \in Waiting /\ 1 < j + 1
      BY <1>5, <2>2, <3>1
    <3> QED BY <1>8, <3>1, <3>2 DEF InTurn
  <2> QED BY <2>1, <2>2 DEF Before, OnBus, InTurn
<1> QED BY <1>6, <1>7, <1>8

LEMMA TailPending ==
    ASSUME BusInv, bus # <<>>, bus' = Tail(bus), NEW k \in Kinds \ {"packet"}
    PROVE  Pending(k)' <=> Pending(k) /\ bus[1].kind # k
<1>1. ASSUME NEW i \in DOMAIN bus', bus'[i].kind = k PROVE Pending(k) /\ bus[1].kind # k
  <2>1. i + 1 \in DOMAIN bus /\ bus[i + 1].kind = k /\ i + 1 > 1 /\ Len(bus) \in Nat
    <3>1. IsSeq(bus')
      BY TailOfBus DEF BusInv
    <3> QED BY <1>1, <3>1, TailOfBus, SeqFacts
  <2>2. bus[1].kind = "message" /\ k = "stop"
    BY <2>1 DEF BusInv, IsPacket
  <2> QED BY <2>1, <2>2 DEF Pending
<1>2. ASSUME NEW i \in DOMAIN bus, bus[i].kind = k, bus[1].kind # k PROVE Pending(k)'
  <2>1. i > 1
    BY <1>2, TailOfBus
  <2> QED BY <1>2, <2>1, TailOfBus DEF Pending
<1> QED BY <1>1, <1>2 DEF Pending

\* Signals that are no packets, in the orders in which they come.
Group(q) ==
    \/ q = <<>>
    \/ \E a : q = <<a>> /\ a.kind \in Kinds \ {"packet"}
    \/ \E a, b : q = <<a, b>> /\ a.kind = "message" /\ b.kind = "stop"

LEMMA GroupOnBus ==
    ASSUME Group(bus')
    PROVE  /\ BusInv' /\ OnBus' = {} /\ Waiting' = {}
           /\ \A k : Pending(k)' <=> \E i \in DOMAIN bus' : bus'[i].kind = k
<1>1. CASE bus' = <<>>
  <2>1. DOMAIN bus' = {}
    BY <1>1, SmallSeqs, SeqFacts
  <2> QED BY <1>1, <2>1, SmallSeqs DEF BusInv, OnBus, Waiting, Pending
<1>2. ASSUME NEW a, bus' = <<a>>, a.kind \in Kinds \ {"packet"}
      PROVE  BusInv' /\ OnBus' = {} /\ Waiting' = {}
  <2>1. IsSeq(bus') /\ Len(bus') = 1 /\ DOMAIN bus' = {1} /\ bus'[1] = a
    BY <1>2, SmallSeqs, SeqFacts
  <2>2. Waiting' = {}
    BY <1>2, <2>1 DEF Waiting, IsPacket
  <2> QED BY <1>2, <2>1, <2>2 DEF BusInv, OnBus, IsPacket
<1>3. ASSUME NEW a, NEW b, bus' = <<a, b>>, a.kind = "message", b.kind = "stop"
      PROVE  BusInv' /\ OnBus' = {} /\ Waiting' = {}
  <2>1. IsSeq(bus') /\ Len(bus') = 2 /\ DOMAIN bus' = {1, 2} /\ bus'[1] = a /\ bus'[2] = b
    BY <1>3, SmallSeqs, SeqFacts
  <2>2. Waiting' = {}
    BY <1>3, <2>1 DEF Waiting, IsPacket
  <2> QED BY <1>3, <2>1, <2>2 DEF BusInv, OnBus, IsPacket, Kinds
<1> QED BY <1>1, <1>2, <1>3 DEF Group, Pending

\* Packets, alone or behind the signal that follows what made them.
Behind(pre, q) == bus' = pre \o [i \in DOMAIN q |-> [kind |-> "packet", packet |-> q[i]]]

LEMMA PacketsOnBus ==
    ASSUME NEW pre, IsSeq(pre), NEW q \in Seq(Packet), Rising(q), Behind(pre, q),
           pre = <<>> \/ (Len(pre) = 1 /\ pre[1].kind \in {"preset", "stop"})
    PROVE  /\ BusInv' /\ InTurn' /\ OnBus' = Numbers(q)
           /\ \A k \in Kinds \ {"packet"} : Pending(k)' <=> pre # <<>> /\ pre[1].kind = k
           /\ (\A i \in DOMAIN q : ~q[i].last => i + 1 \in DOMAIN q) =>
                 \A i \in DOMAIN bus' : IsPacket(bus'[i]) /\ ~bus'[i].packet.last =>
                     i + 1 \in DOMAIN bus' /\ IsPacket(bus'[i + 1])
<1> DEFINE r == [i \in DOMAIN q |-> [kind |-> "packet", packet |-> q[i]]]
           m == Len(pre)
<1>1. /\ Len(q) \in Nat /\ DOMAIN q = 1 .. Len(q) /\ \A i \in DOMAIN q : q[i] \in Packet
      /\ r = [i \in 1 .. Len(q) |-> r[i]]
  BY LenProperties
<1>2. IsSeq(r) /\ Len(r) = Len(q)
  BY <1>1, SegmentIsSeq
<1>3. \A i \in DOMAIN q : r[i].kind = "packet" /\ r[i].packet = q[i]
  OBVIOUS
<1>4. m \in {0, 1} /\ (m = 0 <=> pre = <<>>) /\ (m = 1 => pre[1].kind \in {"preset", "stop"})
  BY SeqFacts, SmallSeqs
<1>5. /\ IsSeq(bus') /\ Len(bus') = m + Len(q) /\ DOMAIN bus' = 1 .. Len(bus')
      /\ \A i \in 1 .. m + Len(q) : bus'[i] = IF i <= m THEN pre[i] ELSE r[i - m]
  BY <1>2, SeqFacts, ConcatIsSeq DEF Behind
<1> HIDE DEF r, m
<1>6. ASSUME NEW i \in DOMAIN bus'
      PROVE  \/ i = 1 /\ m = 1 /\ bus'[i] = pre[1] /\ bus'[i].kind \in {"preset", "stop"}
             \/ i > m /\ i - m \in DOMAIN q /\ bus'[i].kind = "packet" /\ bus'[i].packet = q[i - m]
  <2>1. i \in 1 .. m + Len(q) /\ bus'[i] = IF i <= m THEN pre[i] ELSE r[i - m]
    BY <1>5
  <2>2. CASE i <= m
    BY <1>4, <2>1, <2>2
  <2>3. CASE i > m
    <3>1. i - m \in DOMAIN q
      BY <1>1, <1>4, <2>1, <2>3
    <3>2. bus'[i] = r[i - m]
      BY <1>4, <2>1, <2>3
    <3> QED BY <1>3, <2>3, <3>1, <3>2
  <2> QED BY <1>4, <2>1, <2>2, <2>3
<1>7. \A j \in DOMAIN q : j + m \in DOMAIN bus' /\ bus'[j + m].kind = "packet" /\ bus'[j + m].packet = q[j]
  <2> SUFFICES ASSUME NEW j \in DOMAIN q
               PROVE  j + m \in DOMAIN bus' /\ bus'[j + m].kind = "packet" /\ bus'[j + m].packet = q[j]
    OBVIOUS
  <2>1. j + m \in 1 .. m + Len(q) /\ ~(j + m <= m) /\ (j + m) - m = j
    BY <1>1, <1>4
  <2>2. bus'[j + m] = r[j]
    BY <1>5, <2>1
  <2> QED BY <1>3, <1>5, <2>1, <2>2
<1>8. BusInv'
  <2>1. \A i \in DOMAIN bus' :
            /\ bus'[i].kind \in Kinds /\ bus'[i].kind \notin {"start", "request", "bpm", "message"}
            /\ IsPacket(bus'[i]) => bus'[i].packet \in Packet
            /\ i > 1 => IsPacket(bus'[i])
    BY <1>1, <1>6 DEF IsPacket, Kinds
  <2>2. bus' # <<>> => 1 \in DOMAIN bus'
    BY <1>5, SeqFacts
  <2> QED BY <1>5, <2>1, <2>2 DEF BusInv
<1>9. \A i \in Waiting' : i > m /\ i - m \in DOMAIN q /\ bus'[i].packet = q[i - m] /\ i \in Nat
  BY <1>5, <1>6 DEF Waiting, IsPacket
<1>10. InTurn'
  <2>1. ASSUME NEW i \in Waiting', NEW j \in Waiting', i < j PROVE bus'[i].packet.n < bus'[j].packet.n
    <3>1. i - m \in DOMAIN q /\ bus'[i].packet = q[i - m] /\ i \in Nat
      BY <1>9
    <3>2. j - m \in DOMAIN q /\ bus'[j].packet = q[j - m] /\ j \in Nat
      BY <1>9
    <3>3. i - m < j - m
      BY <1>4, <2>1, <3>1, <3>2
    <3> QED BY <3>1, <3>2, <3>3 DEF Rising
  <2> QED BY <2>1 DEF InTurn
<1>11. OnBus' = Numbers(q)
  <2>1. ASSUME NEW j \in DOMAIN q PROVE q[j].n \in OnBus'
    BY <1>7 DEF OnBus, Waiting, IsPacket
  <2>2. ASSUME NEW i \in Waiting' PROVE bus'[i].packet.n \in Numbers(q)
    BY <1>9 DEF Numbers
  <2> QED BY <2>1, <2>2 DEF OnBus, Numbers
<1>12. ASSUME NEW k \in Kinds \ {"packet"} PROVE Pending(k)' <=> pre # <<>> /\ pre[1].kind = k
  <2>1. ASSUME Pending(k)' PROVE pre # <<>> /\ pre[1].kind = k
    BY <1>4, <1>6, <2>1 DEF Pending
  <2>2. ASSUME pre # <<>>, pre[1].kind = k PROVE Pending(k)'
    <3>1. m = 1
      BY <1>4, <2>2
    <3>2. 1 \in 1 .. m + Len(q) /\ 1 <= m
      BY <1>1, <3>1
    <3>3. 1 \in DOMAIN bus' /\ bus'[1] = pre[1]
      BY <1>5, <3>2
    <3> QED BY <2>2, <3>3 DEF Pending
  <2> QED BY <2>1, <2>2
<1>13. ASSUME \A i \in DOMAIN q : ~q[i].last => i + 1 \in DOMAIN q,
              NEW i \in DOMAIN bus', IsPacket(bus'[i]), ~bus'[i].packet.last
       PROVE  i + 1 \in DOMAIN bus' /\ IsPacket(bus'[i + 1])
  <2>1. i \in Nat /\ i > m /\ i - m \in DOMAIN q /\ bus'[i].packet = q[i - m]
    <3>1. i \in Waiting'
      BY <1>13 DEF Waiting
    <3> QED BY <1>9, <3>1
  <2>2. i - m + 1 \in DOMAIN q
    BY <1>13, <2>1
  <2>3. (i - m + 1) + m = i + 1
    BY <1>4, <2>1
  <2> QED BY <1>7, <2>2, <2>3 DEF IsPacket
<1> QED BY <1>8, <1>10, <1>11, <1>12, <1>13

-----------------------------------------------------------------------------
(* The handlers that send.                                                 *)

\* The stream goes on with what an operation on the bus has made of it.
Follows(tx) ==
    /\ TxForm(tx) /\ TxInv(tx) /\ wire' = tx.wire /\ lost' = tx.lost /\ burst'.packets = tx.buffer
    /\ published' \in Nat /\ usbReady' \in BOOLEAN /\ InTurn'
    /\ Before(Numbers(tx.wire) \cup Numbers(tx.buffer), OnBus')
    /\ Taken(tx) \cup OnBus' = 1 .. published'

LEMMA StreamGoesOn == ASSUME NEW tx, Follows(tx) PROVE StreamInv'
<1>1. tx = [buffer |-> burst'.packets, wire |-> wire', lost |-> lost']
  BY DEF Follows, TxForm
<1>2. tx = Tx'
  BY <1>1 DEF Tx
<1>3. /\ tx.wire \in Seq(Packet) /\ tx.buffer \in Seq(Packet) /\ tx.lost \subseteq Packet
      /\ Rising(tx.wire) /\ Rising(tx.buffer) /\ Before(Numbers(tx.wire), Numbers(tx.buffer))
  BY DEF Follows, TxInv
<1>4. TxInv(Tx)'
  BY <1>2, <1>3 DEF TxInv, Rising, Before, Numbers
<1>5. (Taken(Tx) \cup OnBus)' = 1 .. published'
  BY <1>2 DEF Follows, Taken, Numbers
<1>6. Before(Numbers(wire) \cup Numbers(burst.packets), OnBus)'
  BY DEF Follows, Before, Numbers
<1> QED BY <1>4, <1>5, <1>6 DEF StreamInv, Follows

LEMMA TxOfNow ==
    ASSUME StreamInv
    PROVE  /\ TxForm(Tx) /\ TxInv(Tx) /\ Tx.wire = wire /\ Tx.buffer = burst.packets /\ Tx.lost = lost
           /\ published \in Nat /\ usbReady \in BOOLEAN /\ InTurn
           /\ Before(Numbers(Tx.wire) \cup Numbers(Tx.buffer), OnBus)
           /\ Taken(Tx) \cup OnBus = 1 .. published
BY DEF StreamInv, Tx, TxForm

\* Without packets on the bus, what is next is behind all of the others.
LEMMA FirstOfAll ==
    ASSUME StreamInv, OnBus = {}, NEW k \in Nat
    PROVE  /\ Before(Numbers(Tx.wire) \cup Numbers(Tx.buffer), published + 1 .. published + k)
           /\ Taken(Tx) \cup (published + 1 .. published + k) = 1 .. published + k
<1>1. Taken(Tx) = 1 .. published /\ published \in Nat
  BY TxOfNow
<1>2. Numbers(Tx.wire) \cup Numbers(Tx.buffer) \subseteq 1 .. published
  BY <1>1 DEF Taken
<1> QED BY <1>1, <1>2 DEF Before

\* Behind a packet that is not the last of its message there is still another one.
LEMMA ChainGoesOn ==
    ASSUME BusInv, BurstInv, bus # <<>>, bus' = Tail(bus)
    PROVE  \A i \in DOMAIN bus' : IsPacket(bus'[i]) /\ ~bus'[i].packet.last => i + 1 \in DOMAIN bus' /\ IsPacket(bus'[i + 1])
<1> SUFFICES ASSUME NEW i \in DOMAIN bus', IsPacket(bus'[i]), ~bus'[i].packet.last
             PROVE  i + 1 \in DOMAIN bus' /\ IsPacket(bus'[i + 1])
  OBVIOUS
<1>1. BusInv'
  BY TailOfBus
<1>2. i + 1 \in DOMAIN bus /\ bus'[i] = bus[i + 1] /\ i \in Nat /\ i > 0
  BY <1>1, TailOfBus, SeqFacts DEF BusInv
<1>3. i + 1 + 1 \in DOMAIN bus /\ IsPacket(bus[i + 1 + 1])
  BY <1>2 DEF BurstInv
<1>4. i + 1 + 1 > 1 /\ (i + 1 + 1) - 1 = i + 1
  BY <1>2
<1> QED BY <1>3, <1>4, TailOfBus

LEMMA BurstPacketKeeps ==
    ASSUME BusInv, BurstInv, StreamInv, bus # <<>>, HandleBurstPacket(Head(bus)),
           UNCHANGED <<usbReady, refresh>>
    PROVE  BusInv' /\ BurstInv' /\ StreamInv'
<1> DEFINE p == bus[1].packet
           a == Append1(Tx, p)
           sent == IF ~burst.active /\ p.last THEN Flush(a) ELSE a
<1>1. /\ IsPacket(bus[1]) /\ bus' = Tail(bus) /\ Head(bus) = bus[1] /\ 1 \in DOMAIN bus
      /\ wire' = sent.wire /\ lost' = sent.lost /\ burst' = [burst EXCEPT !.packets = sent.buffer]
      /\ published' = published
  <2>1. Head(bus) = bus[1] /\ 1 \in DOMAIN bus
    BY SeqFacts DEF BusInv
  <2> QED BY <2>1 DEF HandleBurstPacket, IsPacket, SetTx
<1>2. burst' = [active |-> burst.active, packets |-> sent.buffer]
  BY <1>1 DEF BurstInv
<1>3. burst'.active = burst.active /\ burst'.packets = sent.buffer
  BY <1>2
<1>4. p \in Packet /\ p.n \in OnBus
  BY <1>1 DEF BusInv, OnBus, Waiting
<1>5. Before(Numbers(Tx.wire) \cup Numbers(Tx.buffer), {p.n})
  BY <1>4, TxOfNow DEF Before
<1>6. /\ TxForm(a) /\ TxInv(a) /\ Taken(a) = Taken(Tx) \cup {p.n}
      /\ Numbers(a.wire) \cup Numbers(a.buffer) \subseteq Numbers(Tx.wire) \cup Numbers(Tx.buffer) \cup {p.n}
  BY <1>4, <1>5, TxOfNow, AppendKeeps
<1> HIDE DEF a
<1>7. /\ TxForm(sent) /\ TxInv(sent) /\ Taken(sent) = Taken(Tx) \cup {p.n}
      /\ Numbers(sent.wire) \cup Numbers(sent.buffer) \subseteq Numbers(Tx.wire) \cup Numbers(Tx.buffer) \cup {p.n}
      /\ ~burst.active /\ p.last => sent.buffer = <<>>
  <2>1. CASE ~burst.active /\ p.last
    BY <1>6, <2>1, TxOfNow, FlushKeeps, NoPackets
  <2>2. CASE ~(~burst.active /\ p.last)
    BY <1>6, <2>2
  <2> QED BY <2>1, <2>2
<1> HIDE DEF sent, p
<1>8. /\ OnBus' \subseteq OnBus /\ OnBus = OnBus' \cup {p.n} /\ InTurn' /\ Before({p.n}, OnBus')
  BY <1>1, TailPackets, TxOfNow DEF p
<1>9. Before(Numbers(sent.wire) \cup Numbers(sent.buffer), OnBus')
  BY <1>7, <1>8, TxOfNow DEF Before
<1>10. Taken(sent) \cup OnBus' = 1 .. published'
  BY <1>1, <1>7, <1>8, TxOfNow
<1>11. StreamInv'
  <2>1. Follows(sent)
    BY <1>1, <1>3, <1>7, <1>8, <1>9, <1>10, TxOfNow DEF Follows
  <2> QED BY <2>1, StreamGoesOn
<1>12. BusInv'
  BY <1>1, TailOfBus
<1>13. BurstInv'
  <2>1. \A k \in {"start", "stop"} : Pending(k)' <=> Pending(k)
    BY <1>1, TailPending DEF Kinds, IsPacket
  <2>2. \A i \in DOMAIN bus' : IsPacket(bus'[i]) /\ ~bus'[i].packet.last => i + 1 \in DOMAIN bus' /\ IsPacket(bus'[i + 1])
    BY <1>1, ChainGoesOn
  <2>3. ASSUME ~burst.active, sent.buffer # <<>> PROVE bus' # <<>> /\ IsPacket(bus'[1])
    <3>1. ~p.last
      BY <1>7, <2>3
    <3>2. 2 \in DOMAIN bus /\ IsPacket(bus[2])
      <4>1. 1 + 1 \in DOMAIN bus /\ IsPacket(bus[1 + 1])
        BY <1>1, <3>1 DEF BurstInv, p
      <4> QED BY <4>1
    <3>3. 2 - 1 \in DOMAIN bus' /\ bus'[2 - 1] = bus[2]
      BY <1>1, <3>2, TailOfBus
    <3>4. bus' # <<>>
      BY <1>12, <3>3, SeqFacts DEF BusInv
    <3> QED BY <3>2, <3>3, <3>4
  <2>4. burst' = [active |-> burst'.active, packets |-> burst'.packets] /\ burst'.active \in BOOLEAN
    BY <1>2, <1>3 DEF BurstInv
  <2>5. /\ (Pending("start")' <=> Pending("start")) /\ (Pending("stop")' <=> Pending("stop"))
        /\ refresh' = refresh /\ burst'.active = burst.active
    BY <1>3, <2>1
  <2>6. /\ Pending("start")' => refresh' = "burst"
        /\ Pending("stop")' => refresh' = "idle"
        /\ refresh' \in {"idle", "burst"}
        /\ burst'.active <=> IF refresh' = "burst" THEN ~Pending("start")' ELSE Pending("stop")'
    BY <2>5 DEF BurstInv
  <2> QED BY <1>3, <2>2, <2>3, <2>4, <2>6 DEF BurstInv
<1> QED BY <1>11, <1>12, <1>13

\* Between two groups of packets the buffer is empty, unless a burst is on.
LEMMA BufferEmpty ==
    ASSUME BurstInv, ~burst.active, bus = <<>> \/ ~IsPacket(bus[1])
    PROVE  burst.packets = <<>>
BY DEF BurstInv

\* The packets of a message.
LEMMA MessagePackets ==
    ASSUME StreamInv, NEW channel
    PROVE  LET q == Packets(channel)
           IN  \E k \in Nat :
                 /\ DOMAIN q = 1 .. k /\ Len(Numbered(q)) = k /\ Numbered(q) \in Seq(Packet) /\ Rising(Numbered(q))
                 /\ Numbers(Numbered(q)) = published + 1 .. published + k
                 /\ \A i \in DOMAIN Numbered(q) : Numbered(q)[i].last
<1> DEFINE k == IF channel = OmniChannel THEN Channels ELSE 1
           q == Packets(channel)
<1>1. k \in Nat
  BY MidiAssumption
<1>2. DOMAIN q = 1 .. k /\ \A i \in 1 .. k : q[i].size \in Nat /\ q[i].last \in BOOLEAN /\ q[i].last
  BY DEF Packets, Voice
<1> HIDE DEF k, q
<1>3. /\ Numbered(q) \in Seq(Packet) /\ Len(Numbered(q)) = k /\ Rising(Numbered(q))
      /\ Numbers(Numbered(q)) = published + 1 .. published + k
      /\ \A i \in 1 .. k : Numbered(q)[i].last = q[i].last
  BY <1>1, <1>2, TxOfNow, NumberedPackets
<1>4. DOMAIN Numbered(q) = 1 .. k
  BY <1>1, <1>3, LenProperties
<1> QED BY <1>1, <1>2, <1>3, <1>4 DEF q

\* A message is alone on the bus, or the end of the refresh is behind it.
LEMMA BehindMessage ==
    ASSUME BusInv, bus # <<>>, bus[1].kind = "message"
    PROVE  LET t == Tail(bus)
           IN  /\ OnBus = {} /\ IsSeq(t)
               /\ t = <<>> \/ (Len(t) = 1 /\ t[1].kind = "stop")
               /\ \A k \in Kinds \ {"packet", "message"} : Pending(k) <=> t # <<>> /\ t[1].kind = k
<1> DEFINE t == Tail(bus)
<1>1. /\ Len(bus) \in Nat /\ DOMAIN bus = 1 .. Len(bus) /\ Len(bus) > 0
      /\ IsSeq(t) /\ Len(t) = Len(bus) - 1 /\ \A i \in 1 .. Len(bus) - 1 : t[i] = bus[i + 1]
  BY SeqFacts, TailIsSeq DEF BusInv
<1>2. t # <<>> <=> Len(t) > 0
  BY <1>1, SeqFacts
<1> HIDE DEF t
<1>3. Len(bus) = 1 \/ (Len(bus) = 2 /\ bus[2].kind = "stop")
  <2>1. CASE Len(bus) > 1
    <3>1. bus[2].kind = "stop" /\ 2 \in DOMAIN bus
      BY <1>1, <2>1 DEF BusInv
    <3>2. IsPacket(bus[2]) \/ Len(bus) = 2
      BY <3>1, 2 > 1 DEF BusInv
    <3> QED BY <3>1, <3>2 DEF IsPacket
  <2> QED BY <1>1, <2>1
<1>4. \A i \in DOMAIN bus : i = 1 \/ (i = 2 /\ Len(bus) = 2)
  BY <1>1, <1>3
<1>5. OnBus = {}
  BY <1>3, <1>4 DEF Waiting, OnBus, IsPacket
<1>6. CASE Len(bus) = 1
  <2>1. t = <<>>
    BY <1>1, <1>2, <1>6
  <2>2. \A k \in Kinds \ {"packet", "message"} : ~Pending(k)
    BY <1>4, <1>6 DEF Pending
  <2> QED BY <1>1, <1>5, <2>1, <2>2 DEF t
<1>7. CASE Len(bus) = 2 /\ bus[2].kind = "stop"
  <2>1. Len(t) = 1 /\ t[1] = bus[1 + 1] /\ t # <<>>
    BY <1>1, <1>2, <1>7
  <2>2. t[1].kind = "stop" /\ 2 \in DOMAIN bus
    BY <1>1, <1>7, <2>1
  <2>3. \A k \in Kinds \ {"packet", "message"} : Pending(k) <=> k = "stop"
    BY <1>4, <1>7, <2>2 DEF Pending
  <2> QED BY <1>1, <1>5, <2>1, <2>2, <2>3 DEF t
<1> QED BY <1>3, <1>6, <1>7

\* A message is handled: its packets, if any, are behind what was behind it.
LEMMA AfterMessage ==
    ASSUME BusInv, BurstInv, bus # <<>>, bus[1].kind = "message", NEW q \in Seq(Packet), Rising(q),
           \A i \in DOMAIN q : q[i].last, Behind(Tail(bus), q), UNCHANGED <<burst, refresh>>
    PROVE  BusInv' /\ InTurn' /\ BurstInv' /\ OnBus = {} /\ OnBus' = Numbers(q)
<1> DEFINE t == Tail(bus)
<1>1. /\ OnBus = {} /\ IsSeq(t) /\ (t = <<>> \/ (Len(t) = 1 /\ t[1].kind = "stop"))
      /\ \A k \in Kinds \ {"packet", "message"} : Pending(k) <=> t # <<>> /\ t[1].kind = k
  BY BehindMessage
<1> HIDE DEF t
<1>2. /\ BusInv' /\ InTurn' /\ OnBus' = Numbers(q)
      /\ \A k \in Kinds \ {"packet"} : Pending(k)' <=> t # <<>> /\ t[1].kind = k
      /\ \A i \in DOMAIN bus' : IsPacket(bus'[i]) /\ ~bus'[i].packet.last =>
                     i + 1 \in DOMAIN bus' /\ IsPacket(bus'[i + 1])
  <2>1. Behind(t, q) /\ (t = <<>> \/ (Len(t) = 1 /\ t[1].kind \in {"preset", "stop"}))
    BY <1>1 DEF t
  <2> QED BY <1>1, <2>1, PacketsOnBus
<1>3. (Pending("start")' <=> Pending("start")) /\ (Pending("stop")' <=> Pending("stop"))
  BY <1>1, <1>2 DEF Kinds
<1>4. /\ Pending("start")' => refresh' = "burst"
      /\ Pending("stop")' => refresh' = "idle"
      /\ refresh' \in {"idle", "burst"}
      /\ burst'.active <=> IF refresh' = "burst" THEN ~Pending("start")' ELSE Pending("stop")'
  BY <1>3 DEF BurstInv
<1>5. ~burst'.active => burst'.packets = <<>>
  BY BufferEmpty DEF IsPacket
<1>6. BurstInv'
  BY <1>2, <1>4, <1>5 DEF BurstInv
<1> QED BY <1>1, <1>2, <1>6

LEMMA NothingBehind == ASSUME NEW t, IsSeq(t), bus' = t PROVE Behind(t, <<>>)
<1> DEFINE r == [i \in DOMAIN <<>> |-> [kind |-> "packet", packet |-> <<>>[i]]]
<1>1. r = <<>>
  OBVIOUS
<1>2. t \o <<>> = t
  BY ConcatEmptySeq DEF IsSeq
<1> QED BY <1>1, <1>2 DEF Behind

LEMMA MessageKeeps ==
    ASSUME BusInv, BurstInv, StreamInv, bus # <<>>, HandleMessage(Head(bus)),
           UNCHANGED <<usbReady, refresh>>
    PROVE  BusInv' /\ BurstInv' /\ StreamInv'
<1> DEFINE q == Numbered(Packets(SendChannel(bus[1].channel)))
           t == Tail(bus)
<1>1. Head(bus) = bus[1] /\ bus[1].kind = "message" /\ burst' = burst /\ UNCHANGED refresh
  <2>1. Head(bus) = bus[1]
    BY SeqFacts DEF BusInv
  <2> QED BY <2>1 DEF HandleMessage
<1>2. PICK k \in Nat : /\ Len(q) = k /\ q \in Seq(Packet) /\ Rising(q) /\ \A i \in DOMAIN q : q[i].last
                       /\ Numbers(q) = published + 1 .. published + k
  BY MessagePackets
<1>3. \/ bus' = t /\ UNCHANGED <<wire, lost, published>>
      \/ burst.active /\ Behind(t, q) /\ published' = published + Len(q) /\ UNCHANGED <<wire, lost>>
      \/ ~burst.active /\ bus' = t /\ published' = published + Len(q) /\ SetTx(Write(Tx, q))
  BY <1>1 DEF HandleMessage, Behind
<1> HIDE DEF q
<1>4. OnBus = {} /\ IsSeq(t)
  BY <1>1, BehindMessage
<1>5. ASSUME bus' = t PROVE BusInv' /\ InTurn' /\ BurstInv' /\ OnBus' = {}
  <2>1. Behind(t, <<>>)
    BY <1>4, <1>5, NothingBehind
  <2>2. <<>> \in Seq(Packet) /\ Rising(<<>>) /\ Numbers(<<>>) = {} /\ DOMAIN <<>> = {}
    BY NoPackets, SmallSeqs, SeqFacts
  <2>3. \A i \in DOMAIN <<>> : <<>>[i].last
    BY <2>2
  <2>4. BusInv' /\ InTurn' /\ BurstInv' /\ OnBus' = Numbers(<<>>)
    BY <1>1, <2>1, <2>2, <2>3, AfterMessage
  <2> QED BY <2>2, <2>4
<1>6. CASE bus' = t /\ UNCHANGED <<wire, lost, published>>
  <2>1. Follows(Tx)
    BY <1>1, <1>4, <1>5, <1>6, TxOfNow DEF Follows
  <2> QED BY <1>5, <1>6, <2>1, StreamGoesOn
<1>7. CASE burst.active /\ Behind(t, q) /\ published' = published + Len(q) /\ UNCHANGED <<wire, lost>>
  <2>1. BusInv' /\ InTurn' /\ BurstInv' /\ OnBus' = Numbers(q)
    BY <1>1, <1>2, <1>7, AfterMessage
  <2>2. Follows(Tx)
    <3>1. /\ Before(Numbers(Tx.wire) \cup Numbers(Tx.buffer), Numbers(q))
          /\ Taken(Tx) \cup Numbers(q) = 1 .. published + k
      BY <1>2, <1>4, FirstOfAll
    <3>2. published' = published + k /\ published' \in Nat
      BY <1>2, <1>7, TxOfNow
    <3> QED BY <1>1, <1>7, <2>1, <3>1, <3>2, TxOfNow DEF Follows
  <2> QED BY <2>1, <2>2, StreamGoesOn
<1>8. CASE ~burst.active /\ bus' = t /\ published' = published + Len(q) /\ SetTx(Write(Tx, q))
  <2> DEFINE w == Write(Tx, q)
  <2>1. burst.packets = <<>>
    BY <1>1, <1>8, BufferEmpty DEF IsPacket
  <2>2. Before(Numbers(Tx.wire), Numbers(q)) /\ Taken(Tx) \cup Numbers(q) = 1 .. published + k
    BY <1>2, <1>4, FirstOfAll DEF Before
  <2>3. /\ TxForm(w) /\ w.buffer = Tx.buffer
        /\ w.wire \in Seq(Packet) /\ w.lost \subseteq Packet /\ Rising(w.wire)
        /\ Numbers(w.wire) \cup {p.n : p \in w.lost} = Numbers(Tx.wire) \cup {p.n : p \in Tx.lost} \cup Numbers(q)
    BY <1>2, <2>2, TxOfNow, WriteKeeps DEF TxInv
  <2>4. wire' = w.wire /\ lost' = w.lost
    BY <1>8 DEF SetTx
  <2> HIDE DEF w
  <2>5. w.buffer = <<>> /\ Numbers(w.buffer) = {}
    BY <2>1, <2>3, TxOfNow, NoPackets
  <2>6. TxInv(w)
    BY <2>3, <2>5, NoPackets DEF TxInv, Before
  <2>7. Taken(w) = 1 .. published + k
    BY <2>1, <2>2, <2>3, <2>5, TxOfNow, NoPackets DEF Taken
  <2>8. Follows(w)
    <3>1. Before(Numbers(w.wire) \cup Numbers(w.buffer), OnBus')
      BY <1>5, <1>8 DEF Before
    <3>2. burst'.packets = w.buffer
      BY <1>1, <2>1, <2>5
    <3>3. Taken(w) \cup OnBus' = 1 .. published' /\ published' \in Nat
      BY <1>2, <1>5, <1>8, <2>7, TxOfNow
    <3> QED BY <1>5, <1>8, <2>3, <2>4, <2>6, <3>1, <3>2, <3>3, TxOfNow DEF Follows
  <2> QED BY <1>5, <1>8, <2>8, StreamGoesOn
<1> QED BY <1>3, <1>6, <1>7, <1>8

LEMMA BurstStartKeeps ==
    ASSUME BusInv, BurstInv, StreamInv, bus # <<>>, HandleBurstStart(Head(bus)),
           UNCHANGED <<usbReady, refresh>>
    PROVE  BusInv' /\ BurstInv' /\ StreamInv'
<1>1. /\ bus[1].kind = "start" /\ 1 \in DOMAIN bus /\ bus' = Tail(bus) /\ burst' = [active |-> TRUE, packets |-> <<>>]
      /\ UNCHANGED <<wire, lost, published>>
  <2>1. Head(bus) = bus[1] /\ 1 \in DOMAIN bus
    BY SeqFacts DEF BusInv
  <2> QED BY <2>1 DEF HandleBurstStart
<1>2. Pending("start") /\ refresh = "burst" /\ ~burst.active
  BY <1>1 DEF Pending, BurstInv
<1>3. burst.packets = <<>>
  BY <1>1, <1>2, BufferEmpty DEF IsPacket
<1>4. ~Pending("start")' /\ (Pending("stop")' => Pending("stop"))
  BY <1>1, TailPending DEF Kinds
<1>5. BurstInv'
  <2>1. burst'.active = TRUE /\ burst'.packets = <<>> /\ burst' = [active |-> burst'.active, packets |-> burst'.packets]
    BY <1>1
  <2>2. refresh' = refresh
    OBVIOUS
  <2> QED BY <1>1, <1>2, <1>4, <2>1, <2>2, ChainGoesOn DEF BurstInv
<1>6. OnBus' = OnBus /\ InTurn'
  BY <1>1, TailPackets, TxOfNow DEF IsPacket
<1>7. Follows(Tx)
  BY <1>1, <1>3, <1>6, TxOfNow DEF Follows
<1> QED BY <1>1, <1>5, <1>7, TailOfBus, StreamGoesOn

LEMMA BurstStopKeeps ==
    ASSUME BusInv, BurstInv, StreamInv, bus # <<>>, HandleBurstStop(Head(bus)),
           UNCHANGED <<usbReady, refresh>>
    PROVE  BusInv' /\ BurstInv' /\ StreamInv'
<1> DEFINE f == Flush(Tx)
<1>1. /\ bus[1].kind = "stop" /\ 1 \in DOMAIN bus /\ bus' = Tail(bus) /\ burst' = [active |-> FALSE, packets |-> <<>>]
      /\ wire' = f.wire /\ lost' = f.lost /\ published' = published
  <2>1. Head(bus) = bus[1] /\ 1 \in DOMAIN bus
    BY SeqFacts DEF BusInv
  <2> QED BY <2>1 DEF HandleBurstStop, SetTx
<1>2. Pending("stop") /\ refresh = "idle"
  BY <1>1 DEF Pending, BurstInv
<1>3. ~Pending("stop")' /\ (Pending("start")' => Pending("start"))
  BY <1>1, TailPending DEF Kinds
<1>4. BurstInv'
  <2>1. burst'.active = FALSE /\ burst'.packets = <<>> /\ burst' = [active |-> burst'.active, packets |-> burst'.packets]
    BY <1>1
  <2>2. refresh' = refresh
    OBVIOUS
  <2> QED BY <1>1, <1>2, <1>3, <2>1, <2>2, ChainGoesOn DEF BurstInv
<1>5. OnBus' = OnBus /\ InTurn'
  BY <1>1, TailPackets, TxOfNow DEF IsPacket
<1>6. /\ TxForm(f) /\ TxInv(f) /\ f.buffer = <<>> /\ Taken(f) = Taken(Tx)
      /\ Numbers(f.wire) \subseteq Numbers(Tx.wire) \cup Numbers(Tx.buffer)
  BY TxOfNow, FlushKeeps
<1> HIDE DEF f
<1>7. Before(Numbers(f.wire) \cup Numbers(f.buffer), OnBus')
  BY <1>5, <1>6, TxOfNow, NoPackets DEF Before
<1>8. Follows(f)
  BY <1>1, <1>5, <1>6, <1>7, TxOfNow DEF Follows
<1> QED BY <1>1, <1>4, <1>8, TailOfBus, StreamGoesOn

-----------------------------------------------------------------------------
(* The other signals.                                                      *)

\* Start, request and tempo are alone on the bus.
LEMMA OnlySignal ==
    ASSUME BusInv, bus # <<>>, bus[1].kind \in {"start", "request", "bpm"}
    PROVE  Tail(bus) = <<>> /\ OnBus = {} /\ \A k \in Kinds : Pending(k) <=> k = bus[1].kind
<1> DEFINE t == Tail(bus)
<1>1. /\ Len(bus) = 1 /\ DOMAIN bus = {1} /\ IsSeq(t) /\ Len(t) = 0
  BY SeqFacts, TailIsSeq DEF BusInv
<1>2. t = <<>>
  <2> HIDE DEF t
  <2>1. t # <<>> <=> Len(t) > 0
    BY <1>1, SeqFacts
  <2> QED BY <1>1, <2>1
<1>3. Waiting = {}
  BY <1>1 DEF Waiting, IsPacket
<1> QED BY <1>1, <1>2, <1>3 DEF OnBus, Pending

LEMMA NothingPending == ASSUME BusInv, Quiet PROVE OnBus = {} /\ \A k : ~Pending(k)
<1>1. DOMAIN bus = {}
  BY SeqFacts, SmallSeqs DEF Quiet
<1> QED BY <1>1 DEF OnBus, Waiting, Pending

\* A preset or a tempo is taken from the bus.
LEMMA SignalTaken ==
    ASSUME BusInv, BurstInv, StreamInv, bus # <<>>, bus[1].kind \in {"preset", "bpm"}, bus' = Tail(bus),
           UNCHANGED <<burst, wire, lost, published, usbReady, refresh>>
    PROVE  /\ BusInv' /\ BurstInv' /\ StreamInv'
           /\ \A k \in Kinds \ {"packet"} : Pending(k)' <=> Pending(k) /\ bus[1].kind # k
<1>1. \A k \in Kinds \ {"packet"} : Pending(k)' <=> Pending(k) /\ bus[1].kind # k
  BY TailPending
<1>2. (Pending("start")' <=> Pending("start")) /\ (Pending("stop")' <=> Pending("stop"))
  BY <1>1 DEF Kinds
<1>3. ~burst.active => burst.packets = <<>>
  BY BufferEmpty DEF IsPacket
<1>4. BurstInv'
  <2>1. burst' = burst /\ refresh' = refresh
    OBVIOUS
  <2> QED BY <1>2, <1>3, <2>1, ChainGoesOn DEF BurstInv
<1>5. OnBus' = OnBus /\ InTurn'
  BY TailPackets, TxOfNow DEF IsPacket
<1>6. Follows(Tx)
  BY <1>5, TxOfNow DEF Follows
<1> QED BY <1>1, <1>4, <1>6, TailOfBus, StreamGoesOn

\* The bus was empty, and something is published.
LEMMA QuietThen ==
    ASSUME BusInv, BurstInv, StreamInv, Quiet, Group(bus'), UNCHANGED <<burst, wire, lost, published, usbReady>>,
           refresh' \in {"idle", "burst"},
           Pending("start")' <=> refresh = "idle" /\ refresh' = "burst",
           Pending("stop")' <=> refresh = "burst" /\ refresh' = "idle"
    PROVE  BusInv' /\ BurstInv' /\ StreamInv'
<1>1. BusInv' /\ OnBus' = {} /\ Waiting' = {}
  BY GroupOnBus
<1>2. OnBus = {} /\ ~Pending("start") /\ ~Pending("stop")
  BY NothingPending
<1>3. ~burst.active => burst.packets = <<>>
  BY BufferEmpty DEF Quiet
<1>4. \A i \in DOMAIN bus' : ~IsPacket(bus'[i])
  BY <1>1 DEF Waiting
<1>5. BurstInv'
  <2>1. burst' = burst
    OBVIOUS
  <2>2. refresh \in {"idle", "burst"} /\ (burst.active <=> refresh = "burst")
    BY <1>2 DEF BurstInv
  <2>3. burst'.active <=> IF refresh' = "burst" THEN ~Pending("start")' ELSE Pending("stop")'
    BY <2>1, <2>2
  <2> QED BY <1>3, <1>4, <2>1, <2>2, <2>3 DEF BurstInv
<1>6. InTurn'
  BY <1>1 DEF InTurn
<1>7. Follows(Tx)
  BY <1>1, <1>2, <1>6, TxOfNow DEF Follows
<1> QED BY <1>1, <1>5, <1>7, StreamGoesOn

\* Nothing happens on the bus.
LEMMA BusStays ==
    ASSUME BusInv, BurstInv, StreamInv, UNCHANGED <<bus, burst, wire, lost, published, refresh>>, usbReady' \in BOOLEAN
    PROVE  BusInv' /\ BurstInv' /\ StreamInv' /\ \A k : Pending(k)' <=> Pending(k)
<1>1. BusInv' /\ \A k : Pending(k)' <=> Pending(k)
  BY DEF BusInv, Pending
<1>2. BurstInv'
  BY DEF BurstInv, Pending
<1>3. OnBus' = OnBus /\ InTurn'
  BY TxOfNow DEF OnBus, Waiting, InTurn
<1>4. Follows(Tx)
  BY <1>3, TxOfNow DEF Follows
<1> QED BY <1>1, <1>2, <1>4, StreamGoesOn

\* The answer to a request, behind the announcement of a preset when there is one.
Answer == [i \in 1 .. Fragments |-> [kind |-> "packet", packet |-> Numbered(Response)[i]]]

LEMMA AnswerKeeps ==
    ASSUME BusInv, BurstInv, StreamInv, HandleRequest
    PROVE  /\ BusInv' /\ BurstInv' /\ StreamInv'
           /\ ~Pending("preset") /\ ~Pending("bpm")
           /\ bus' = Tail(bus) \o <<[kind |-> "preset"]>> \o Answer => Pending("preset")'
<1> DEFINE q == Numbered(Response)
           answer == [i \in 1 .. Fragments |-> [kind |-> "packet", packet |-> q[i]]]
<1>1. /\ bus # <<>> /\ bus[1].kind = "request" /\ published' = published + Fragments
      /\ UNCHANGED <<burst, wire, lost, usbReady, refresh>>
  <2>1. bus # <<>> => Head(bus) = bus[1]
    BY SeqFacts DEF BusInv
  <2> QED BY <2>1 DEF HandleRequest, Quiet, otherState
<1>2. Tail(bus) = <<>> /\ OnBus = {} /\ \A k \in Kinds : Pending(k) <=> k = "request"
  BY <1>1, OnlySignal
<1>3. Fragments \in Nat
  BY MidiAssumption
<1>4. /\ q \in Seq(Packet) /\ Len(q) = Fragments /\ Rising(q) /\ Numbers(q) = published + 1 .. published + Fragments
      /\ \A i \in 1 .. Fragments : q[i].last <=> i = Fragments
  <2> DEFINE a == Response
  <2>1. DOMAIN a = 1 .. Fragments /\ \A i \in 1 .. Fragments : a[i].size \in Nat /\ a[i].last \in BOOLEAN
    BY DEF Response
  <2>2. \A i \in 1 .. Fragments : a[i].last <=> i = Fragments
    BY DEF Response
  <2> HIDE DEF a
  <2>3. /\ Numbered(a) \in Seq(Packet) /\ Len(Numbered(a)) = Fragments /\ Rising(Numbered(a))
        /\ Numbers(Numbered(a)) = published + 1 .. published + Fragments
        /\ \A i \in 1 .. Fragments : Numbered(a)[i].last = a[i].last
    BY <1>3, <2>1, TxOfNow, NumberedPackets
  <2> QED BY <2>2, <2>3 DEF a
<1>5. DOMAIN q = 1 .. Fragments
  BY <1>3, <1>4, LenProperties
<1>6. bus' = Tail(bus) \o <<[kind |-> "preset"]>> \o answer \/ bus' = Tail(bus) \o answer
  BY DEF HandleRequest
<1> HIDE DEF q
<1>7. \E pre : Behind(pre, q) /\ IsSeq(pre) /\ (pre = <<>> \/ (Len(pre) = 1 /\ pre[1].kind = "preset"))
  <2>1. <<>> \o <<[kind |-> "preset"]>> = <<[kind |-> "preset"]>>
    OBVIOUS
  <2>2. CASE bus' = <<>> \o <<[kind |-> "preset"]>> \o answer
    <3>1. Behind(<<[kind |-> "preset"]>>, q)
      BY <1>5, <2>1, <2>2 DEF Behind
    <3> QED BY <3>1, SmallSeqs
  <2>3. CASE bus' = <<>> \o answer
    <3>1. Behind(<<>>, q)
      BY <1>5, <2>3 DEF Behind
    <3> QED BY <3>1, SmallSeqs
  <2> QED BY <1>2, <1>6, <2>2, <2>3
<1>8. PICK pre : Behind(pre, q) /\ IsSeq(pre) /\ (pre = <<>> \/ (Len(pre) = 1 /\ pre[1].kind = "preset"))
  BY <1>7
<1>16. ASSUME bus' = Tail(bus) \o <<[kind |-> "preset"]>> \o Answer PROVE Pending("preset")'
  <2> DEFINE a == <<[kind |-> "preset"]>>
             r == [i \in DOMAIN q |-> [kind |-> "packet", packet |-> q[i]]]
  <2>1. <<>> \o a = a /\ bus' = Tail(bus) \o a \o r
    BY <1>5, <1>16 DEF Answer, q
  <2>2. Behind(a, q)
    BY <1>2, <2>1 DEF Behind
  <2>3. IsSeq(a) /\ Len(a) = 1 /\ a[1].kind = "preset" /\ a # <<>>
    BY SmallSeqs
  <2> HIDE DEF a
  <2>4. \A k \in Kinds \ {"packet"} : Pending(k)' <=> a # <<>> /\ a[1].kind = k
    BY <1>4, <2>2, <2>3, PacketsOnBus
  <2> QED BY <2>3, <2>4 DEF Kinds
<1>9. /\ BusInv' /\ InTurn' /\ OnBus' = Numbers(q)
      /\ \A k \in Kinds \ {"packet"} : Pending(k)' <=> pre # <<>> /\ pre[1].kind = k
      /\ (\A i \in DOMAIN q : ~q[i].last => i + 1 \in DOMAIN q) =>
            \A i \in DOMAIN bus' : IsPacket(bus'[i]) /\ ~bus'[i].packet.last =>
                i + 1 \in DOMAIN bus' /\ IsPacket(bus'[i + 1])
  BY <1>4, <1>8, PacketsOnBus
<1>10. \A i \in DOMAIN q : ~q[i].last => i + 1 \in DOMAIN q
  BY <1>3, <1>4, <1>5
<1>11. ~Pending("start")' /\ ~Pending("stop")'
  BY <1>8, <1>9 DEF Kinds
<1>12. ~Pending("start") /\ ~Pending("stop") /\ ~Pending("bpm") /\ ~Pending("preset")
  BY <1>2 DEF Kinds
<1>13. ~burst.active => burst.packets = <<>>
  BY <1>1, BufferEmpty DEF IsPacket
<1>14. BurstInv'
  <2>1. burst' = burst /\ refresh' = refresh
    BY <1>1
  <2> QED BY <1>9, <1>10, <1>11, <1>12, <1>13, <2>1 DEF BurstInv
<1>15. Follows(Tx)
  <2>1. /\ Before(Numbers(Tx.wire) \cup Numbers(Tx.buffer), Numbers(q))
        /\ Taken(Tx) \cup Numbers(q) = 1 .. published + Fragments
    BY <1>2, <1>3, <1>4, FirstOfAll
  <2>2. published' \in Nat
    BY <1>1, <1>3, TxOfNow
  <2> QED BY <1>1, <1>9, <2>1, <2>2, TxOfNow DEF Follows
<1> QED BY <1>9, <1>12, <1>14, <1>15, <1>16, StreamGoesOn

-----------------------------------------------------------------------------
(* What a setting changes.                                                 *)

Good(c) == c \in ConfigType /\ BleInv(c) /\ LoopInv(c)
\* An operation keeps the invariants and leaves no packet without a signal.
Keeps(c, d) == Good(d) /\ Unread(d) \subseteq Unread(c)

LEMMA ConfigForm ==
    ASSUME NEW c \in ConfigType
    PROVE  /\ c.din \in [on : BOOLEAN, loopback : BOOLEAN, hardware : BOOLEAN]
           /\ c.ble \in [on : BOOLEAN, ready : BOOLEAN]
           /\ c.central \in [known : BOOLEAN, connected : BOOLEAN, notify : BOOLEAN, last : BOOLEAN]
           /\ c.stale \in BOOLEAN /\ c.routes \subseteq Routes /\ c.timer \in Tempos \cup {0}
           /\ c.rx \in [Transports -> Nat] /\ c.raised \in [Transports -> BOOLEAN]
BY DEF ConfigType

\* A configuration whose fields are those of another one, but for the queue and the signal of a transport.
Same(c, d, t) ==
    /\ d.rx \in [Transports -> Nat] /\ d.raised \in [Transports -> BOOLEAN]
    /\ ~d.raised[t] /\ \A u \in Transports \ {t} : d.rx[u] = c.rx[u] /\ d.raised[u] = c.raised[u]

LEMMA QuietedIs ==
    ASSUME NEW c \in ConfigType, NEW t \in Transports, NEW emptied \in BOOLEAN
    PROVE  LET d == Quieted(c, t, emptied)
           IN  /\ d \in ConfigType /\ Same(c, d, t) /\ (emptied => d.rx[t] = 0)
               /\ d.din = c.din /\ d.routes = c.routes /\ d.timer = c.timer /\ d.ble = c.ble /\ d.central = c.central
               /\ d.stale = c.stale
<1> DEFINE r == [c.raised EXCEPT ![t] = FALSE]
           x == [c.rx EXCEPT ![t] = IF emptied THEN 0 ELSE c.rx[t]]
           d == Quieted(c, t, emptied)
<1>1. d = [[c EXCEPT !.raised = r] EXCEPT !.rx = x]
  BY DEF Quieted, ConfigType
<1>2. c.rx \in [Transports -> Nat] /\ c.raised \in [Transports -> BOOLEAN]
  BY DEF ConfigType
<1>3. r \in [Transports -> BOOLEAN] /\ r[t] = FALSE /\ \A u \in Transports \ {t} : r[u] = c.raised[u]
  BY <1>2
<1>4. x \in [Transports -> Nat] /\ (emptied => x[t] = 0) /\ \A u \in Transports \ {t} : x[u] = c.rx[u]
  BY <1>2
<1> HIDE DEF r, x, d
<1>5. /\ d \in ConfigType /\ d.rx = x /\ d.raised = r
      /\ d.din = c.din /\ d.routes = c.routes /\ d.timer = c.timer /\ d.ble = c.ble /\ d.central = c.central
      /\ d.stale = c.stale
  BY <1>1, <1>3, <1>4 DEF ConfigType
<1> QED BY <1>3, <1>4, <1>5 DEF Same, d

\* What is on after a transport was quieted has its packets from before.
LEMMA NothingUnread ==
    ASSUME NEW c, NEW d, NEW t \in Transports, Same(c, d, t), ~IsOn(d, t) \/ d.rx[t] = 0,
           \A u \in Transports \ {t} : IsOn(d, u) => IsOn(c, u)
    PROVE  Unread(d) \subseteq Unread(c)
<1>1. d.rx[t] \in Nat
  BY DEF Same
<1>2. ASSUME NEW u \in Unread(d) PROVE u \in Unread(c)
  <2>1. u \in Transports \ {t}
    BY <1>1, <1>2 DEF Unread
  <2> QED BY <1>2, <2>1 DEF Unread, Same
<1> QED BY <1>2

\* DIN is switched on or off: what waited there is gone, or is no longer read.
LEMMA DinSwitched ==
    ASSUME NEW c, Good(c), NEW d \in {DinInit(c), DinDeinit(c)}
    PROVE  Keeps(c, d) /\ d.routes = c.routes /\ d.timer = c.timer
<1>1. c \in ConfigType /\ "din" \in Transports
  BY DEF Good, Transports
<1>2. PICK x \in BOOLEAN : d = Quieted([c EXCEPT !.din.on = x], "din", x)
  BY DEF DinInit, DinDeinit
<1> DEFINE e == [c EXCEPT !.din.on = x]
<1>3. /\ e \in ConfigType /\ e.din.on = x /\ e.din.loopback = c.din.loopback /\ e.din.hardware = c.din.hardware
      /\ e.routes = c.routes /\ e.timer = c.timer /\ e.ble = c.ble /\ e.central = c.central
      /\ e.stale = c.stale /\ e.rx = c.rx /\ e.raised = c.raised
  BY <1>1 DEF ConfigType
<1>7. d = Quieted(e, "din", x)
  BY <1>2
<1> HIDE DEF e
<1>4. /\ d \in ConfigType /\ Same(e, d, "din") /\ (x => d.rx["din"] = 0)
      /\ d.din = e.din /\ d.routes = e.routes /\ d.timer = e.timer /\ d.ble = e.ble /\ d.central = e.central
      /\ d.stale = e.stale
  BY <1>1, <1>3, <1>7, QuietedIs
<1>5. BleInv(d) /\ LoopInv(d)
  BY <1>3, <1>4 DEF Good, BleInv, LoopInv, Destinations
<1>6. Unread(d) \subseteq Unread(c)
  <2>1. Same(c, d, "din")
    BY <1>3, <1>4 DEF Same
  <2>2. ~IsOn(d, "din") \/ d.rx["din"] = 0
    BY <1>3, <1>4 DEF IsOn
  <2>3. \A u \in Transports \ {"din"} : IsOn(d, u) => IsOn(c, u)
    BY <1>3, <1>4 DEF IsOn, Transports
  <2> QED BY <1>1, <2>1, <2>2, <2>3, NothingUnread
<1> QED BY <1>3, <1>4, <1>5, <1>6 DEF Keeps, Good

\* BLE is switched on or off; the central is told what it was told last.
LEMMA BleSwitched ==
    ASSUME NEW c, Good(c), NEW d \in {BleInit(c), BleDeinit(c)}
    PROVE  Keeps(c, d) /\ d.routes = c.routes /\ d.timer = c.timer
<1>1. /\ c \in ConfigType /\ "ble" \in Transports /\ c.central.last = ReadyNow(c.central)
      /\ c.central.last \in BOOLEAN
  BY DEF Good, Transports, BleInv, ConfigType
<1>2. \/ d = c
      \/ \E e \in ConfigType :
           /\ d.ble = e.ble /\ d.central = e.central /\ d.stale = e.stale /\ d.rx = e.rx /\ d.raised = e.raised
           /\ d.din = e.din /\ d.routes = e.routes /\ d.timer = e.timer /\ d \in ConfigType
           /\ e.din = c.din /\ e.routes = c.routes /\ e.timer = c.timer
           /\ Same(c, e, "ble") /\ e.rx["ble"] = 0 /\ ~e.ble.ready
           /\ e.central.last = ReadyNow(e.central)
           /\ e.ble.on /\ ReadyNow(e.central) => e.stale
  <2>1. CASE d = BleDeinit(c)
    <3> DEFINE b == [c EXCEPT !.ble = [on |-> FALSE, ready |-> FALSE]]
    <3>1. /\ b \in ConfigType /\ b.ble.on = FALSE /\ b.ble.ready = FALSE /\ b.din = c.din /\ b.routes = c.routes
          /\ b.timer = c.timer /\ b.central = c.central /\ b.stale = c.stale /\ b.rx = c.rx /\ b.raised = c.raised
      BY <1>1 DEF ConfigType
    <3>2. d = Quieted(b, "ble", TRUE)
      BY <2>1 DEF BleDeinit
    <3> HIDE DEF b
    <3>3. /\ d \in ConfigType /\ Same(b, d, "ble") /\ d.rx["ble"] = 0
          /\ d.din = b.din /\ d.routes = b.routes /\ d.timer = b.timer /\ d.ble = b.ble /\ d.central = b.central
          /\ d.stale = b.stale
      BY <1>1, <3>1, <3>2, QuietedIs
    <3>4. Same(c, d, "ble")
      BY <3>1, <3>3 DEF Same
    <3> QED BY <1>1, <3>1, <3>3, <3>4
  <2>2. CASE d = BleInit(c) /\ ~c.ble.on
    <3> DEFINE b == [c EXCEPT !.ble = [on |-> TRUE, ready |-> FALSE], !.stale = c.central.last]
               e == Quieted(b, "ble", TRUE)
               z == [known |-> TRUE, connected |-> FALSE, notify |-> FALSE, last |-> FALSE]
    <3>1. /\ b \in ConfigType /\ b.ble.on = TRUE /\ b.ble.ready = FALSE /\ b.din = c.din /\ b.routes = c.routes
          /\ b.timer = c.timer /\ b.central = c.central /\ b.stale = c.central.last /\ b.rx = c.rx /\ b.raised = c.raised
      BY <1>1 DEF ConfigType
    <3>2. d = IF c.central.known THEN PublishReady(e) ELSE [e EXCEPT !.central = z]
      BY <2>2 DEF BleInit
    <3>0. e = Quieted(b, "ble", TRUE)
      OBVIOUS
    <3> HIDE DEF b, e
    <3>3. /\ e \in ConfigType /\ Same(b, e, "ble") /\ e.rx["ble"] = 0
          /\ e.din = b.din /\ e.routes = b.routes /\ e.timer = b.timer /\ e.ble = b.ble /\ e.central = b.central
          /\ e.stale = b.stale
      <4>1. b \in ConfigType /\ "ble" \in Transports
        BY <1>1, <3>1
      <4> QED BY <3>0, <4>1, QuietedIs
    <3>4. Same(c, e, "ble")
      BY <3>1, <3>3 DEF Same
    <3>5. CASE c.central.known
      <4>1. d = e
        BY <1>1, <3>1, <3>2, <3>3, <3>5 DEF PublishReady
      <4> QED BY <1>1, <3>1, <3>3, <3>4, <4>1
    <3>6. CASE ~c.central.known
      <4>1. z \in [known : BOOLEAN, connected : BOOLEAN, notify : BOOLEAN, last : BOOLEAN]
        OBVIOUS
      <4>2. z.last = ReadyNow(z) /\ ~ReadyNow(z)
        BY DEF ReadyNow
      <4>3. d = [e EXCEPT !.central = z]
        BY <3>2, <3>6
      <4> HIDE DEF z
      <4>4. /\ d \in ConfigType /\ d.central = z /\ d.rx = e.rx /\ d.raised = e.raised
            /\ d.din = e.din /\ d.routes = e.routes /\ d.timer = e.timer /\ d.ble = e.ble /\ d.stale = e.stale
        BY <3>3, <4>1, <4>3 DEF ConfigType
      <4>5. Same(c, d, "ble")
        BY <3>4, <4>4 DEF Same
      <4> QED BY <1>1, <3>1, <3>3, <4>2, <4>4, <4>5
    <3> QED BY <3>5, <3>6
  <2>3. CASE d = BleInit(c) /\ c.ble.on
    BY <2>3 DEF BleInit
  <2> QED BY <2>1, <2>2, <2>3
<1>3. CASE d = c
  BY <1>3 DEF Keeps
<1>4. ASSUME NEW e \in ConfigType,
             d.ble = e.ble, d.central = e.central, d.stale = e.stale, d.rx = e.rx, d.raised = e.raised,
             d.din = e.din, d.routes = e.routes, d.timer = e.timer, d \in ConfigType,
             e.din = c.din, e.routes = c.routes, e.timer = c.timer,
             Same(c, e, "ble"), e.rx["ble"] = 0, ~e.ble.ready,
             e.central.last = ReadyNow(e.central), e.ble.on /\ ReadyNow(e.central) => e.stale
      PROVE  Keeps(c, d) /\ d.routes = c.routes /\ d.timer = c.timer
  <2>1. Same(c, d, "ble") /\ d.rx["ble"] = 0
    BY <1>4 DEF Same
  <2>2. \A u \in Transports \ {"ble"} : IsOn(d, u) => IsOn(c, u)
    BY <1>4 DEF IsOn, Transports
  <2>3. Unread(d) \subseteq Unread(c)
    BY <1>1, <2>1, <2>2, NothingUnread
  <2>4. BleInv(d) /\ LoopInv(d)
    BY <1>4 DEF Good, BleInv, LoopInv, Destinations
  <2> QED BY <1>4, <2>3, <2>4 DEF Keeps, Good
<1> QED BY <1>2, <1>3, <1>4

\* The loopback of the UART follows the routes; its queue can only become empty.
LEMMA LoopbackApplied ==
    ASSUME NEW c \in ConfigType, BleInv(c), c.din.hardware = c.din.loopback
    PROVE  LET d == ApplyLoopback(c)
           IN  Good(d) /\ Unread(d) \subseteq Unread(c) /\ d.routes = c.routes /\ d.timer = c.timer
<1> DEFINE wanted == (Destinations(c, "din") = {"din"})
           v == [c.din EXCEPT !.loopback = wanted, !.hardware = wanted]
           x == [c.rx EXCEPT !["din"] = IF c.din.on /\ c.din.hardware # wanted THEN 0 ELSE @]
           d == ApplyLoopback(c)
<1>1. d = IF wanted = c.din.loopback THEN c ELSE [c EXCEPT !.din = v, !.rx = x]
  <2>1. [c EXCEPT !.din.loopback = wanted, !.din.hardware = wanted,
                      !.rx["din"] = IF c.din.on /\ c.din.hardware # wanted THEN 0 ELSE @] = [c EXCEPT !.din = v, !.rx = x]
    <3> HIDE DEF wanted
    <3>1. c.din \in [on : BOOLEAN, loopback : BOOLEAN, hardware : BOOLEAN]
      BY ConfigForm
    <3> QED BY <3>1 DEF ConfigType
  <2> QED BY <2>1 DEF ApplyLoopback
<1>2. /\ wanted \in BOOLEAN /\ c.din \in [on : BOOLEAN, loopback : BOOLEAN, hardware : BOOLEAN]
      /\ c.rx \in [Transports -> Nat] /\ c.raised \in [Transports -> BOOLEAN] /\ "din" \in Transports
  BY ConfigForm DEF Transports
<1> HIDE DEF wanted
<1>3. /\ v \in [on : BOOLEAN, loopback : BOOLEAN, hardware : BOOLEAN]
      /\ v.on = c.din.on /\ v.loopback = wanted /\ v.hardware = wanted
  BY <1>2
<1>4. x \in [Transports -> Nat] /\ \A t \in Transports : x[t] > 0 => x[t] = c.rx[t]
  BY <1>2
<1> HIDE DEF v, x, d
<1>5. CASE wanted = c.din.loopback
  <2>1. d = c
    BY <1>1, <1>5
  <2>2. LoopInv(c)
    BY <1>5 DEF LoopInv, wanted
  <2> QED BY <2>1, <2>2 DEF Good, d
<1>6. CASE wanted # c.din.loopback
  <2>1. /\ d \in ConfigType /\ d.din = v /\ d.rx = x /\ d.raised = c.raised /\ d.routes = c.routes /\ d.timer = c.timer
        /\ d.ble = c.ble /\ d.central = c.central /\ d.stale = c.stale
    BY <1>1, <1>3, <1>4, <1>6 DEF ConfigType
  <2>2. LoopInv(d)
    BY <1>3, <2>1 DEF LoopInv, wanted, Destinations
  <2>3. BleInv(d)
    BY <2>1 DEF BleInv
  <2>4. \A t \in Transports : IsOn(d, t) => IsOn(c, t)
    BY <1>3, <2>1 DEF IsOn, Transports
  <2>5. Unread(d) \subseteq Unread(c)
    BY <1>4, <2>1, <2>4 DEF Unread
  <2> QED BY <2>1, <2>2, <2>3, <2>5 DEF Good, d
<1> QED BY <1>5, <1>6

\* A route is removed or added.
LEMMA RouteSwitched ==
    ASSUME NEW c, Good(c), NEW route \in Routes
    PROVE  LET u == Unregister(c, route)
               r == Register(c, route)
           IN  /\ Keeps(c, u) /\ u.routes = c.routes \ {route} /\ u.timer = c.timer
               /\ Keeps(c, r) /\ r.routes = c.routes \cup {route} /\ r.timer = c.timer
<1>1. c \in ConfigType /\ BleInv(c) /\ c.din.hardware = c.din.loopback /\ c.routes \subseteq Routes
  BY ConfigForm DEF Good, LoopInv
<1>2. route = <<route[1], route[2]>>
  <2>1. ToSet(RouteOrder) \subseteq Transports \X Transports
    BY MidiAssumption, LenProperties DEF ToSet
  <2> QED BY <2>1 DEF Routes
<1>3. ASSUME NEW rs, rs \subseteq Routes, NEW e, e = [c EXCEPT !.routes = rs]
      PROVE  /\ e \in ConfigType /\ BleInv(e) /\ e.din.hardware = e.din.loopback /\ e.routes = rs /\ e.timer = c.timer
             /\ Unread(e) = Unread(c)
             /\ (\A x : <<"din", x>> \in rs <=> <<"din", x>> \in c.routes) => Good(e)
  <2>1. /\ e \in ConfigType /\ e.routes = rs /\ e.timer = c.timer /\ e.din = c.din /\ e.ble = c.ble
        /\ e.central = c.central /\ e.stale = c.stale /\ e.rx = c.rx /\ e.raised = c.raised
    BY <1>1, <1>3 DEF ConfigType
  <2>2. BleInv(e)
    BY <1>1, <2>1 DEF BleInv
  <2>3. Unread(e) = Unread(c)
    BY <2>1 DEF Unread, IsOn
  <2>4. ASSUME \A x : <<"din", x>> \in rs <=> <<"din", x>> \in c.routes PROVE Good(e)
    <3>1. Destinations(e, "din") = Destinations(c, "din")
      BY <2>1, <2>4 DEF Destinations
    <3> QED BY <2>1, <2>2, <3>1 DEF Good, LoopInv
  <2> QED BY <1>1, <2>1, <2>2, <2>3, <2>4
<1>4. ASSUME NEW rs, rs \subseteq Routes, NEW e, e = [c EXCEPT !.routes = rs],
             NEW d, d = ApplyLoopback(e) \/ (d = e /\ \A x : <<"din", x>> \in rs <=> <<"din", x>> \in c.routes)
      PROVE  Keeps(c, d) /\ d.routes = rs /\ d.timer = c.timer
  <2>1. /\ e \in ConfigType /\ BleInv(e) /\ e.din.hardware = e.din.loopback /\ e.routes = rs /\ e.timer = c.timer
        /\ Unread(e) = Unread(c)
    BY <1>3, <1>4
  <2>2. CASE d = ApplyLoopback(e)
    <3>1. Good(d) /\ Unread(d) \subseteq Unread(e) /\ d.routes = e.routes /\ d.timer = e.timer
      BY <2>1, <2>2, LoopbackApplied
    <3> QED BY <2>1, <3>1 DEF Keeps
  <2>3. CASE d = e /\ \A x : <<"din", x>> \in rs <=> <<"din", x>> \in c.routes
    <3>1. Good(e)
      BY <1>3, <1>4, <2>3
    <3> QED BY <2>1, <2>3, <3>1 DEF Keeps
  <2> QED BY <1>4, <2>2, <2>3
<1>5. Keeps(c, Unregister(c, route)) /\ Unregister(c, route).routes = c.routes \ {route} /\ Unregister(c, route).timer = c.timer
  <2> DEFINE rs == c.routes \ {route}
             e == [c EXCEPT !.routes = rs]
             u == Unregister(c, route)
  <2>1. u = IF route[1] = "din" /\ route \in c.routes THEN ApplyLoopback(e) ELSE e
    BY DEF Unregister
  <2>2. rs \subseteq Routes
    BY <1>1
  <2>3. ~(route[1] = "din" /\ route \in c.routes) => \A x : <<"din", x>> \in rs <=> <<"din", x>> \in c.routes
    BY <1>2
  <2>4. e = [c EXCEPT !.routes = rs]
    OBVIOUS
  <2> HIDE DEF rs, e, u
  <2>5. u = ApplyLoopback(e) \/ (u = e /\ \A x : <<"din", x>> \in rs <=> <<"din", x>> \in c.routes)
    BY <2>1, <2>3
  <2>6. Keeps(c, u) /\ u.routes = rs /\ u.timer = c.timer
    BY <1>4, <2>2, <2>4, <2>5
  <2> QED BY <2>6 DEF u, rs
<1>6. Keeps(c, Register(c, route)) /\ Register(c, route).routes = c.routes \cup {route} /\ Register(c, route).timer = c.timer
  <2> DEFINE rs == c.routes \cup {route}
             e == [c EXCEPT !.routes = rs]
             u == Register(c, route)
  <2>1. u = IF route[1] = "din" THEN ApplyLoopback(e) ELSE e
    BY DEF Register
  <2>2. rs \subseteq Routes
    BY <1>1
  <2>3. ~(route[1] = "din") => \A x : <<"din", x>> \in rs <=> <<"din", x>> \in c.routes
    BY <1>2
  <2>4. e = [c EXCEPT !.routes = rs]
    OBVIOUS
  <2> HIDE DEF rs, e, u
  <2>5. u = ApplyLoopback(e) \/ (u = e /\ \A x : <<"din", x>> \in rs <=> <<"din", x>> \in c.routes)
    BY <2>1, <2>3
  <2>6. Keeps(c, u) /\ u.routes = rs /\ u.timer = c.timer
    BY <1>4, <2>2, <2>4, <2>5
  <2> QED BY <2>6 DEF u, rs
<1> QED BY <1>5, <1>6

LEMMA RouteSetUp ==
    ASSUME NEW c, Good(c), NEW settings, NEW route \in Routes, NEW d, d = SetupRoute(c, settings, route)
    PROVE  /\ Keeps(c, d) /\ d.timer = c.timer
           /\ route \in settings.thru => d.routes = c.routes \cup {route}
           /\ route \notin settings.thru => d.routes = c.routes \ {route}
<1> DEFINE u == Unregister(c, route)
<1>1. Keeps(c, u) /\ u.routes = c.routes \ {route} /\ u.timer = c.timer
  BY RouteSwitched
<1>2. d = IF route \in settings.thru THEN Register(u, route) ELSE u
  BY DEF SetupRoute
<1> HIDE DEF u
<1>3. Keeps(u, Register(u, route)) /\ Register(u, route).routes = u.routes \cup {route} /\ Register(u, route).timer = u.timer
  BY <1>1, RouteSwitched DEF Keeps
<1>4. CASE route \in settings.thru
  <2>1. d = Register(u, route)
    BY <1>2, <1>4
  <2>2. d.routes = c.routes \cup {route}
    BY <1>1, <1>3, <2>1
  <2> QED BY <1>1, <1>3, <1>4, <2>1, <2>2 DEF Keeps
<1>5. CASE route \notin settings.thru
  BY <1>1, <1>2, <1>5
<1> QED BY <1>4, <1>5

\* A nonempty set of naturals has a least element.
LEMMA LeastNatural ==
    ASSUME NEW T, T \subseteq Nat, T # {}
    PROVE  \E x \in T : \A y \in T : x <= y
<1> DEFINE R == {ss \in Nat \X Nat : ss[1] < ss[2]}
<1>1. OpToRel(<, Nat) = R
  BY Zenon DEF OpToRel
<1>2. IsWellFoundedOn(R, Nat)
  BY <1>1, NatLessThanWellFounded, Zenon
<1> HIDE DEF R
<1>3. PICK x \in T : \A y \in T : ~ (<<y, x>> \in R)
  BY <1>2, WFMin
<1>4. \A y, z \in Nat : y < z => <<y, z>> \in R
  BY DEF R
<1>5. ASSUME NEW y \in T PROVE x <= y
  <2>1. x \in Nat /\ y \in Nat
    OBVIOUS
  <2>2. ~(y < x)
    BY <2>1, <1>3, <1>4
  <2> QED BY <2>1, <2>2
<1> QED BY <1>5

\* What holds of 0, and of the next number whenever it holds of a number, holds of all.
LEMMA AllNaturals ==
    ASSUME NEW S, 0 \in S, \A n \in Nat : n \in S => n + 1 \in S
    PROVE  Nat \subseteq S
<1> SUFFICES ASSUME Nat \ S # {} PROVE FALSE
  OBVIOUS
<1>1. PICK x \in Nat \ S : \A y \in Nat \ S : x <= y
  <2> DEFINE T == Nat \ S
  <2>1. T \subseteq Nat /\ T # {}
    OBVIOUS
  <2> HIDE DEF T
  <2>2. \E x \in T : \A y \in T : x <= y
    BY <2>1, LeastNatural
  <2> QED BY <2>2 DEF T
<1>2. x # 0 /\ x \in Nat
  OBVIOUS
<1>3. x - 1 \in Nat /\ ~(x <= x - 1)
  BY <1>2
<1>4. x - 1 \in S
  BY <1>1, <1>3
<1>5. (x - 1) + 1 \in S
  BY <1>3, <1>4
<1>6. (x - 1) + 1 = x
  BY <1>2
<1> QED BY <1>5, <1>6

\* setup_thru() has been through the first n routes.
Steps(c, settings, n, g) ==
    g = [i \in 0 .. n |-> IF i = 0 THEN c ELSE SetupRoute(g[i - 1], settings, RouteOrder[i])]

LEMMA StepsExist == ASSUME NEW c, NEW settings, NEW m \in Nat PROVE \E g : Steps(c, settings, m, g)
<1> DEFINE S == {n \in Nat : \E g : Steps(c, settings, n, g)}
<1>1. 0 \in S
  <2> DEFINE g == [i \in 0 .. 0 |-> c]
  <2>1. g = [i \in 0 .. 0 |-> IF i = 0 THEN c ELSE SetupRoute(g[i - 1], settings, RouteOrder[i])]
    OBVIOUS
  <2> HIDE DEF g
  <2>2. Steps(c, settings, 0, g)
    BY <2>1 DEF Steps
  <2> QED BY <2>2
<1>2. ASSUME NEW n \in Nat, n \in S PROVE n + 1 \in S
  <2>1. PICK g : Steps(c, settings, n, g)
    BY <1>2
  <2> DEFINE h == [i \in 0 .. n + 1 |-> IF i = n + 1 THEN SetupRoute(g[n], settings, RouteOrder[n + 1]) ELSE g[i]]
  <2>2. \A i \in 0 .. n : h[i] = g[i]
    OBVIOUS
  <2>3. \A i \in 0 .. n : g[i] = IF i = 0 THEN c ELSE SetupRoute(g[i - 1], settings, RouteOrder[i])
    BY <2>1 DEF Steps
  <2>4. h[n + 1] = SetupRoute(g[n], settings, RouteOrder[n + 1])
    OBVIOUS
  <2>5. h = [i \in 0 .. n + 1 |-> h[i]]
    OBVIOUS
  <2> HIDE DEF h
  <2>6. ASSUME NEW i \in 0 .. n + 1
        PROVE  h[i] = IF i = 0 THEN c ELSE SetupRoute(h[i - 1], settings, RouteOrder[i])
    <3>1. CASE i = n + 1
      <4>1. i - 1 = n /\ n \in 0 .. n /\ i # 0
        BY <3>1
      <4> QED BY <2>2, <2>4, <3>1, <4>1
    <3>2. CASE i # n + 1
      <4>1. i \in 0 .. n /\ (i # 0 => i - 1 \in 0 .. n)
        BY <3>2
      <4> QED BY <2>2, <2>3, <4>1
    <3> QED BY <3>1, <3>2
  <2>7. h = [i \in 0 .. n + 1 |-> IF i = 0 THEN c ELSE SetupRoute(h[i - 1], settings, RouteOrder[i])]
    BY <2>5, <2>6
  <2>8. Steps(c, settings, n + 1, h)
    BY <2>7 DEF Steps
  <2> QED BY <2>8
<1> HIDE DEF S
<1>3. Nat \subseteq S
  BY <1>1, <1>2, AllNaturals
<1> QED BY <1>3 DEF S

Done(n) == {RouteOrder[i] : i \in 1 .. n}

\* Every route is as the settings have it, once its turn has come.
LEMMA StepsDone ==
    ASSUME NEW c, Good(c), NEW settings, NEW g, Steps(c, settings, Len(RouteOrder), g)
    PROVE  LET d == g[Len(RouteOrder)]
           IN  /\ Keeps(c, d) /\ d.timer = c.timer
               /\ d.routes = (c.routes \ Routes) \cup (settings.thru \cap Routes)
<1> DEFINE l == Len(RouteOrder)
           To(n) == /\ Keeps(c, g[n]) /\ g[n].timer = c.timer
                    /\ g[n].routes = (c.routes \ Done(n)) \cup (settings.thru \cap Done(n))
           S == {n \in Nat : n <= l => To(n)}
<1>1. l \in Nat /\ DOMAIN RouteOrder = 1 .. l
  BY MidiAssumption, LenProperties
<1> HIDE DEF l
<1>2. \A i \in 0 .. l : g[i] = IF i = 0 THEN c ELSE SetupRoute(g[i - 1], settings, RouteOrder[i])
  BY DEF Steps, l
<1>3. Done(l) = Routes
  BY <1>1 DEF Done, Routes, ToSet
<1>4. 0 \in S
  <2>1. Done(0) = {} /\ g[0] = c
    BY <1>1, <1>2 DEF Done
  <2>2. Keeps(c, c)
    BY DEF Keeps
  <2>3. To(0)
    BY <2>1, <2>2
  <2> QED BY <2>3
<1>5. ASSUME NEW n \in Nat, n \in S PROVE n + 1 \in S
  <2> SUFFICES ASSUME n + 1 <= l PROVE To(n + 1)
    OBVIOUS
  <2>1. To(n)
    BY <1>1, <1>5
  <2>2. n + 1 \in 0 .. l /\ n + 1 # 0 /\ (n + 1) - 1 = n /\ n + 1 \in 1 .. l
    BY <1>1
  <2>3. g[n + 1] = SetupRoute(g[n], settings, RouteOrder[n + 1])
    BY <1>2, <2>2
  <2>4. RouteOrder[n + 1] \in Routes
    BY <1>1, <2>2 DEF Routes, ToSet
  <2>5. Good(g[n])
    BY <2>1 DEF Keeps
  <2> DEFINE route == RouteOrder[n + 1]
             d == g[n + 1]
             b == g[n]
  <2>6. Done(n + 1) = Done(n) \cup {route}
    <3>1. 1 .. n + 1 = (1 .. n) \cup {n + 1}
      OBVIOUS
    <3> QED BY <3>1 DEF Done
  <2>10. d = SetupRoute(b, settings, route) /\ Good(b) /\ route \in Routes
    BY <2>3, <2>4, <2>5
  <2> HIDE DEF d, route, b
  <2>7. /\ Keeps(b, d) /\ d.timer = b.timer
        /\ route \in settings.thru => d.routes = b.routes \cup {route}
        /\ route \notin settings.thru => d.routes = b.routes \ {route}
    BY <2>10, RouteSetUp
  <2>11. To(n) <=> /\ Keeps(c, b) /\ b.timer = c.timer
                  /\ b.routes = (c.routes \ Done(n)) \cup (settings.thru \cap Done(n))
    BY DEF b
  <2>8. d.routes = (c.routes \ Done(n + 1)) \cup (settings.thru \cap Done(n + 1))
    BY <2>1, <2>6, <2>7, <2>11
  <2>9. Keeps(c, d) /\ d.timer = c.timer
    BY <2>1, <2>7, <2>11 DEF Keeps
  <2> QED BY <2>8, <2>9 DEF d
<1>6. l \in S
  <2> HIDE DEF S
  <2>1. Nat \subseteq S
    BY <1>4, <1>5, AllNaturals
  <2> QED BY <1>1, <2>1
<1>7. To(l)
  BY <1>1, <1>6
<1> QED BY <1>3, <1>7 DEF l

\* setup_thru() makes the routes those of the settings.
LEMMA ThruSetUp ==
    ASSUME NEW c, Good(c), NEW settings, settings.thru \subseteq Routes
    PROVE  LET d == SetupThru(c, settings)
           IN  Keeps(c, d) /\ d.timer = c.timer /\ d.routes = settings.thru
<1> DEFINE g == CHOOSE f : Steps(c, settings, Len(RouteOrder), f)
<1>1. Len(RouteOrder) \in Nat
  BY MidiAssumption, LenProperties
<1>2. Steps(c, settings, Len(RouteOrder), g)
  BY <1>1, StepsExist
<1>3. SetupThru(c, settings) = g[Len(RouteOrder)]
  BY DEF SetupThru, Steps
<1> HIDE DEF g
<1>4. c.routes \subseteq Routes
  BY ConfigForm DEF Good
<1> DEFINE d == g[Len(RouteOrder)]
<1>5. Keeps(c, d) /\ d.timer = c.timer /\ d.routes = (c.routes \ Routes) \cup (settings.thru \cap Routes)
  BY <1>2, StepsDone
<1> QED BY <1>3, <1>4, <1>5

\* The clock is started or stopped.
LEMMA TimerSet ==
    ASSUME NEW c, Good(c), NEW v \in Tempos \cup {0}, NEW d, d = [c EXCEPT !.timer = v]
    PROVE  Keeps(c, d) /\ d.routes = c.routes /\ d.timer = v
<1>1. /\ d \in ConfigType /\ d.routes = c.routes /\ d.timer = v /\ d.din = c.din /\ d.ble = c.ble
      /\ d.central = c.central /\ d.stale = c.stale /\ d.rx = c.rx /\ d.raised = c.raised
  BY DEF Good, ConfigType
<1>2. BleInv(d) /\ LoopInv(d)
  BY <1>1 DEF Good, BleInv, LoopInv, Destinations
<1>3. Unread(d) = Unread(c)
  BY <1>1 DEF Unread, IsOn
<1> QED BY <1>1, <1>2, <1>3 DEF Keeps, Good

LEMMA KeepsOn == ASSUME NEW c, NEW d, NEW e, Keeps(c, d), Keeps(d, e) PROVE Keeps(c, e) /\ Good(d) /\ Good(e)
BY DEF Keeps

\* The clock that the settings ask for.
Clock(settings) == IF settings.SendMidiClockDin THEN bpm ELSE 0

LEMMA ClockInRange == ASSUME bpm \in Tempos, NEW settings PROVE Clock(settings) \in Tempos \cup {0}
BY DEF Clock

\* init(): DIN, its clock, BLE and the routes.
LEMMA AllSetUp ==
    ASSUME NEW c, Good(c), bpm \in Tempos, NEW settings \in MidiSettings, NEW d, d = Init0(c, settings)
    PROVE  Keeps(c, d) /\ d.routes = settings.thru /\ d.timer = Clock(settings)
<1> DEFINE x == IF settings.DinEnabled THEN (IF c.din.on THEN c ELSE DinInit(c)) ELSE (IF c.din.on THEN DinDeinit(c) ELSE c)
           y == SetupSerial(c, settings)
           z == SetupBle(y, settings)
<1>1. y = [x EXCEPT !.timer = Clock(settings)] /\ d = SetupThru(z, settings)
  BY DEF SetupSerial, Clock, Init0
<1>2. Keeps(c, x)
  <2>1. x = c \/ x \in {DinInit(c), DinDeinit(c)}
    OBVIOUS
  <2> HIDE DEF x
  <2>2. Keeps(c, c)
    BY DEF Keeps
  <2>3. x \in {DinInit(c), DinDeinit(c)} => Keeps(c, x)
    BY DinSwitched
  <2> QED BY <2>1, <2>2, <2>3
<1>3. z = y \/ z \in {BleInit(y), BleDeinit(y)}
  BY DEF SetupBle
<1> HIDE DEF x, y, z
<1>4. Keeps(x, y) /\ y.timer = Clock(settings)
  <2>1. Good(x)
    BY <1>2 DEF Keeps
  <2> QED BY <1>1, <2>1, TimerSet, ClockInRange
<1>5. Keeps(y, z) /\ z.timer = y.timer
  <2>1. Good(y)
    BY <1>4 DEF Keeps
  <2>2. z \in {BleInit(y), BleDeinit(y)} => Keeps(y, z) /\ z.timer = y.timer
    BY <2>1, BleSwitched
  <2>3. z = y => Keeps(y, z) /\ z.timer = y.timer
    BY <2>1 DEF Keeps
  <2> QED BY <1>3, <2>2, <2>3
<1>6. Keeps(z, d) /\ d.timer = z.timer /\ d.routes = settings.thru
  <2>1. Good(z) /\ settings.thru \subseteq Routes
    BY <1>5 DEF Keeps, MidiSettings
  <2> DEFINE t == SetupThru(z, settings)
  <2>2. Keeps(z, t) /\ t.timer = z.timer /\ t.routes = settings.thru
    BY <2>1, ThruSetUp
  <2> QED BY <1>1, <2>2
<1>7. Keeps(c, d)
  BY <1>2, <1>4, <1>5, <1>6, KeepsOn
<1> QED BY <1>4, <1>5, <1>6, <1>7

\* What is asked of clock and routes between two settings.
FollowsSettings(c, settings) ==
    /\ c.timer # 0 => settings.SendMidiClockDin
    /\ settings.DinEnabled /\ settings.SendMidiClockDin => c.timer = bpm
    /\ c.routes = settings.thru

LEMMA SettingsType ==
    ASSUME SettingsInv
    PROVE  Settings \in MidiSettings /\ bpm \in Tempos /\ preset \in DOMAIN stored
<1>1. \A i \in DOMAIN stored : stored[i] \in MidiSettings
  BY LenProperties DEF SettingsInv
<1> QED BY <1>1 DEF Settings, SettingsInv

\* A setting that is accepted is one again.
LEMMA UpdatedType ==
    ASSUME SettingsInv, NEW w \in Writes, w.setting # "preset", Accepted(w)
    PROVE  /\ Updated(w) \in MidiSettings
           /\ w.setting # "thru" => Updated(w).thru = Settings.thru
           /\ w.setting # "DinEnabled" => Updated(w).DinEnabled = Settings.DinEnabled
           /\ w.setting # "SendMidiClockDin" => Updated(w).SendMidiClockDin = Settings.SendMidiClockDin
           /\ w.setting = "SendMidiClockDin" => Updated(w).SendMidiClockDin = w.value
<1> DEFINE s == Settings
           u == Updated(w)
<1>1. s \in MidiSettings
  BY SettingsType
<1>2. CASE w.setting = "thru"
  <2> DEFINE thru == IF w.value THEN s.thru \cup {w.route} ELSE s.thru \ {w.route}
  <2>1. u = [s EXCEPT !.thru = thru]
    BY <1>2 DEF Updated
  <2>2. thru \in SUBSET Routes
    BY <1>1, <1>2, MidiAssumption DEF MidiSettings
  <2> HIDE DEF thru, u, s
  <2>3. u \in MidiSettings /\ u.DinEnabled = s.DinEnabled /\ u.SendMidiClockDin = s.SendMidiClockDin
    BY <1>1, <2>1, <2>2 DEF MidiSettings
  <2> QED BY <1>2, <2>3 DEF u, s
<1>3. CASE w.setting = "none"
  BY <1>1, <1>3 DEF Updated
<1>4. CASE w.setting \in {"DinEnabled", "SendMidiClockDin", "BleEnabled", "UseGlobalChannel"}
  <2>1. u = [s EXCEPT ![w.setting] = w.value]
    BY <1>4 DEF Updated
  <2>2. w.value \in BOOLEAN
    BY <1>4, MidiAssumption
  <2> HIDE DEF u, s
  <2>3. /\ u \in MidiSettings /\ u.thru = s.thru
        /\ w.setting # "DinEnabled" => u.DinEnabled = s.DinEnabled
        /\ w.setting # "SendMidiClockDin" => u.SendMidiClockDin = s.SendMidiClockDin
        /\ w.setting = "SendMidiClockDin" => u.SendMidiClockDin = w.value
    BY <1>1, <1>4, <2>1, <2>2 DEF MidiSettings
  <2> QED BY <2>3 DEF u, s
<1>5. CASE w.setting = "GlobalChannel"
  <2>1. u = [s EXCEPT ![w.setting] = w.value] /\ w.value \in 1 .. OmniChannel
    BY <1>5 DEF Updated, Accepted
  <2> HIDE DEF u, s
  <2>2. /\ u \in MidiSettings /\ u.thru = s.thru /\ u.DinEnabled = s.DinEnabled
        /\ u.SendMidiClockDin = s.SendMidiClockDin
    BY <1>1, <1>5, <2>1 DEF MidiSettings
  <2> QED BY <1>5, <2>2 DEF u, s
<1>6. w.setting \in {"thru", "none", "DinEnabled", "SendMidiClockDin", "BleEnabled", "UseGlobalChannel", "GlobalChannel"}
  BY MidiAssumption
<1> QED BY <1>2, <1>3, <1>4, <1>5, <1>6

\* A setting takes effect: sys_config_set() leaves clock and routes as the settings have them.
LEMMA SettingApplied ==
    ASSUME SettingsInv, Good(Config), FollowsSettings(Config, Settings), NEW w \in Writes, w.setting # "preset", Accepted(w),
           NEW u, u = Updated(w), NEW d, d = Applied(w, u)
    PROVE  Keeps(Config, d) /\ FollowsSettings(d, u)
<1>1. /\ u \in MidiSettings /\ bpm \in Tempos
      /\ w.setting # "thru" => u.thru = Settings.thru
      /\ w.setting # "DinEnabled" => u.DinEnabled = Settings.DinEnabled
      /\ w.setting # "SendMidiClockDin" => u.SendMidiClockDin = Settings.SendMidiClockDin
      /\ w.setting = "SendMidiClockDin" => u.SendMidiClockDin = w.value
  BY UpdatedType, SettingsType
<1>2. u.thru \subseteq Routes /\ u.DinEnabled \in BOOLEAN /\ u.SendMidiClockDin \in BOOLEAN
  BY <1>1 DEF MidiSettings
<1> DEFINE c == Config
           s == Settings
<1>3. /\ c.timer # 0 => s.SendMidiClockDin
      /\ s.DinEnabled /\ s.SendMidiClockDin => c.timer = bpm
      /\ c.routes = s.thru /\ c \in ConfigType /\ Good(c)
  BY DEF FollowsSettings, Good
<1>4. ASSUME NEW e, Keeps(c, e), d = SetupThru(e, u),
             e.timer # 0 => u.SendMidiClockDin,
             u.DinEnabled /\ u.SendMidiClockDin => e.timer = bpm
      PROVE  Keeps(c, d) /\ FollowsSettings(d, u)
  <2>1. Good(e)
    BY <1>4 DEF Keeps
  <2> DEFINE t == SetupThru(e, u)
  <2>2. Keeps(e, t) /\ t.timer = e.timer /\ t.routes = u.thru
    BY <1>2, <2>1, ThruSetUp
  <2> HIDE DEF t
  <2>3. d = t
    BY <1>4 DEF t
  <2> QED BY <1>4, <2>2, <2>3, KeepsOn DEF FollowsSettings
<1>5. CASE w.setting = "SendMidiClockDin"
  <2>1. d = [c EXCEPT !.timer = IF w.value THEN bpm ELSE 0]
    BY <1>5 DEF Applied
  <2>2. (IF w.value THEN bpm ELSE 0) \in Tempos \cup {0} /\ u.SendMidiClockDin = w.value
    BY <1>1, <1>5
  <2> HIDE DEF c, s
  <2>3. Keeps(c, d) /\ d.routes = c.routes /\ d.timer = IF w.value THEN bpm ELSE 0
    BY <1>3, <2>1, <2>2, TimerSet
  <2> QED BY <1>1, <1>2, <1>3, <1>5, <2>2, <2>3 DEF FollowsSettings, c, s
<1>6. CASE w.setting = "DinEnabled"
  <2> DEFINE e == SwitchDin(c, u)
             x == IF u.DinEnabled THEN DinInit(c) ELSE DinDeinit(c)
             v == IF u.DinEnabled THEN bpm ELSE 0
  <2>1. d = SetupThru(e, u)
    BY <1>6 DEF Applied
  <2>2. e = IF u.SendMidiClockDin THEN [x EXCEPT !.timer = v] ELSE x
    BY DEF SwitchDin
  <2>3. x \in {DinInit(c), DinDeinit(c)} /\ v \in Tempos \cup {0}
    BY <1>1
  <2>4. v = IF u.DinEnabled THEN bpm ELSE 0
    OBVIOUS
  <2> HIDE DEF c, s, e, x, v
  <2>5. Keeps(c, x) /\ x.timer = c.timer
    BY <1>3, <2>3, DinSwitched
  <2>6. Keeps(c, e) /\ e.timer = IF u.SendMidiClockDin THEN v ELSE c.timer
    <3>1. CASE u.SendMidiClockDin
      <4>1. Good(x) /\ e = [x EXCEPT !.timer = v]
        BY <2>2, <2>5, <3>1 DEF Keeps
      <4>2. Keeps(x, e) /\ e.timer = v
        BY <2>3, <4>1, TimerSet
      <4> QED BY <2>5, <3>1, <4>2, KeepsOn
    <3>2. CASE ~u.SendMidiClockDin
      BY <2>2, <2>5, <3>2
    <3> QED BY <3>1, <3>2
  <2>7. u.SendMidiClockDin = s.SendMidiClockDin
    BY <1>1, <1>6 DEF s
  <2>8. (e.timer # 0 => u.SendMidiClockDin) /\ (u.DinEnabled /\ u.SendMidiClockDin => e.timer = bpm)
    BY <1>3, <2>4, <2>6, <2>7
  <2> QED BY <1>4, <2>1, <2>6, <2>8 DEF c
<1>7. CASE w.setting = "BleEnabled"
  <2> DEFINE e == SwitchBle(c, u)
  <2>1. d = SetupThru(e, u) /\ e \in {BleInit(c), BleDeinit(c)}
    BY <1>7 DEF Applied, SwitchBle
  <2> HIDE DEF c, e
  <2>2. Keeps(c, e) /\ e.timer = c.timer
    BY <1>3, <2>1, BleSwitched
  <2>3. (e.timer # 0 => u.SendMidiClockDin) /\ (u.DinEnabled /\ u.SendMidiClockDin => e.timer = bpm)
    BY <1>1, <1>3, <1>7, <2>2
  <2> QED BY <1>4, <2>1, <2>2, <2>3 DEF c
<1>8. CASE w.setting = "thru"
  <2>1. d = SetupThru(c, u)
    BY <1>8 DEF Applied
  <2>2. (c.timer # 0 => u.SendMidiClockDin) /\ (u.DinEnabled /\ u.SendMidiClockDin => c.timer = bpm)
    BY <1>1, <1>3, <1>8
  <2>3. Keeps(c, c)
    BY <1>3 DEF Keeps
  <2> QED BY <1>4, <2>1, <2>2, <2>3
<1>9. CASE w.setting \in {"none", "UseGlobalChannel", "GlobalChannel"}
  <2>1. d = c
    BY <1>9 DEF Applied
  <2> QED BY <1>1, <1>3, <1>9, <2>1 DEF Keeps, FollowsSettings
<1>10. w.setting \in {"thru", "none", "DinEnabled", "SendMidiClockDin", "BleEnabled", "UseGlobalChannel", "GlobalChannel"}
  BY MidiAssumption
<1> QED BY <1>5, <1>6, <1>7, <1>8, <1>9, <1>10

-----------------------------------------------------------------------------
(* Every step keeps the invariant.                                         *)

\* A preset or a tempo that is pending is next.
LEMMA PendingFirst ==
    ASSUME BusInv, NEW k \in {"preset", "bpm"}, Pending(k)
    PROVE  bus # <<>> /\ bus[1].kind = k
<1>1. PICK i \in DOMAIN bus : bus[i].kind = k
  BY DEF Pending
<1>2. Len(bus) \in Nat /\ DOMAIN bus = 1 .. Len(bus) /\ (bus # <<>> <=> Len(bus) > 0)
  BY SeqFacts DEF BusInv
<1>3. ~(i > 1)
  BY <1>1 DEF BusInv, IsPacket
<1> QED BY <1>1, <1>2, <1>3

LEMMA FollowsNow ==
    ASSUME AppliedInv, ~Pending("preset")
    PROVE  /\ Config.timer = timer /\ Config.routes = routes
           /\ ~Pending("bpm") => FollowsSettings(Config, Settings)
BY DEF AppliedInv, FollowsSettings, Config

LEMMA FollowsThen ==
    ASSUME NEW d, NEW s, FollowsSettings(d, s), timer' = d.timer, routes' = d.routes, Settings' = s, UNCHANGED bpm
    PROVE  AppliedInv'
<1>1. /\ timer' # 0 => Settings'.SendMidiClockDin
      /\ routes' = Settings'.thru
      /\ Settings'.DinEnabled /\ Settings'.SendMidiClockDin => timer' = bpm'
  BY DEF FollowsSettings
<1> QED BY <1>1 DEF AppliedInv

\* Neither the settings nor what they ask for changes, and nothing that would see to them goes away.
LEMMA AppliedStays ==
    ASSUME AppliedInv, UNCHANGED <<timer, routes, stored, preset, bpm>>,
           \/ (Pending("preset")' <=> Pending("preset")) /\ (Pending("bpm")' <=> Pending("bpm"))
           \/ ~Pending("preset") /\ ~Pending("bpm")
    PROVE  AppliedInv'
<1>1. Settings' = Settings
  BY DEF Settings
<1> QED BY <1>1 DEF AppliedInv

LEMMA SettingsStay == ASSUME SettingsInv, UNCHANGED <<stored, preset>>, bpm' \in Tempos PROVE SettingsInv'
BY DEF SettingsInv

LEMMA ConfigThen ==
    ASSUME NEW d, SetConfig(d), d \in ConfigType
    PROVE  Config' = d
<1>1. d = [din |-> d.din, routes |-> d.routes, timer |-> d.timer, ble |-> d.ble, central |-> d.central,
           stale |-> d.stale, rx |-> d.rx, raised |-> d.raised]
  BY DEF ConfigType
<1> QED BY <1>1 DEF SetConfig, Config

\* The configuration passes through an operation that keeps it, and the reader goes on accordingly.
LEMMA ConfigGoesOn ==
    ASSUME NEW d, Good(d), SetConfig(d),
           reader' = [at |-> reader'.at, from |-> reader'.from],
           reader'.at \in {"wait", "woken", "read"}, reader'.from \in Transports,
           ~frozen' => Unread(d) \subseteq IF reader'.at = "read" THEN {reader'.from} ELSE {}
    PROVE  ConfigInv'
<1>1. Config' = d
  BY ConfigThen DEF Good
<1>2. Config' \in ConfigType /\ BleInv(d) /\ LoopInv(d)
  BY <1>1 DEF Good
<1>3. BleInv(Config)'
  BY <1>1, <1>2 DEF BleInv, ReadyNow
<1>4. LoopInv(Config)'
  BY <1>1, <1>2 DEF LoopInv, Destinations
<1>5. Unread(Config)' = Unread(d)
  BY <1>1 DEF Unread, IsOn
<1>6. ReaderInv'
  BY <1>5 DEF ReaderInv
<1>7. (Config \in ConfigType)'
  BY <1>2 DEF ConfigType, Routes
<1> QED BY <1>3, <1>4, <1>6, <1>7 DEF ConfigInv

LEMMA ConfigKept ==
    ASSUME ConfigInv, NEW d, Keeps(Config, d), SetConfig(d), UNCHANGED <<reader, frozen>>
    PROVE  ConfigInv'
<1>1. Good(d) /\ Unread(d) \subseteq Unread(Config)
  BY DEF Keeps
<1>2. reader' = reader /\ frozen' = frozen /\ ReaderInv
  BY DEF ConfigInv
<1>3. /\ reader' = [at |-> reader'.at, from |-> reader'.from]
      /\ reader'.at \in {"wait", "woken", "read"} /\ reader'.from \in Transports
      /\ ~frozen' => Unread(d) \subseteq IF reader'.at = "read" THEN {reader'.from} ELSE {}
  BY <1>1, <1>2 DEF ReaderInv
<1> QED BY <1>1, <1>3, ConfigGoesOn

LEMMA ConfigNow ==
    ASSUME ConfigInv
    PROVE  /\ Good(Config) /\ Config \in ConfigType
           /\ UNCHANGED <<din, routes, timer, ble, central, stale, rx, raised>> => SetConfig(Config)
BY DEF ConfigInv, Good, SetConfig, Config

LEMMA ConfigStays ==
    ASSUME ConfigInv, UNCHANGED <<din, routes, timer, ble, central, stale, rx, raised, reader, frozen>>
    PROVE  ConfigInv'
<1> DEFINE d == Config
<1>1. Good(d) /\ SetConfig(d)
  BY ConfigNow
<1>2. Keeps(Config, d)
  BY <1>1 DEF Keeps
<1> QED BY <1>1, <1>2, ConfigKept

LEMMA SendStep == ASSUME MidiInv, Send PROVE MidiInv'
<1>1. /\ bus # <<>> /\ Head(bus) = bus[1]
      /\ HandleBurstPacket(Head(bus)) \/ HandleMessage(Head(bus)) \/ HandleBurstStart(Head(bus)) \/ HandleBurstStop(Head(bus))
      /\ UNCHANGED <<usbReady, refresh>>
      /\ UNCHANGED <<din, routes, timer, ble, central, stale, rx, raised, reader, frozen, stored, preset, bpm>>
  BY SeqFacts DEF MidiInv, BusInv, Send, Quiet, settingState, clockState, routeState, bleState, rxState, otherState
<1>2. BusInv' /\ BurstInv' /\ StreamInv'
  BY <1>1, BurstPacketKeeps, MessageKeeps, BurstStartKeeps, BurstStopKeeps DEF MidiInv
<1>3. ~Pending("preset") /\ ~Pending("bpm")
  <2>1. bus[1].kind \notin {"preset", "bpm"}
    BY <1>1 DEF HandleBurstPacket, HandleMessage, HandleBurstStart, HandleBurstStop
  <2> QED BY <2>1, PendingFirst DEF MidiInv
<1>4. SettingsInv' /\ ConfigInv' /\ AppliedInv'
  <2>1. bpm' \in Tempos
    BY <1>1 DEF MidiInv, SettingsInv
  <2> QED BY <1>1, <1>3, <2>1, SettingsStay, ConfigStays, AppliedStays DEF MidiInv
<1> QED BY <1>2, <1>4 DEF MidiInv

LEMMA RequestStep == ASSUME MidiInv, HandleRequest PROVE MidiInv'
<1>1. /\ BusInv' /\ BurstInv' /\ StreamInv' /\ ~Pending("preset") /\ ~Pending("bpm")
      /\ bus' = Tail(bus) \o <<[kind |-> "preset"]>> \o Answer => Pending("preset")'
  BY AnswerKeeps DEF MidiInv
<1>2. FollowsSettings(Config, Settings) /\ Good(Config) /\ Config.timer = timer /\ Config.routes = routes
  BY <1>1, FollowsNow, ConfigNow DEF MidiInv
<1>3. UNCHANGED <<bpm, reader, frozen>>
  BY DEF HandleRequest, otherState
<1>4. bpm \in Tempos
  BY DEF MidiInv, SettingsInv
<1>5. PICK w \in Writes :
        \/ /\ w.setting = "preset" /\ preset' = w.value /\ bus' = Tail(bus) \o <<[kind |-> "preset"]>> \o Answer
           /\ UNCHANGED <<stored, din, routes, timer, ble, central, stale, rx, raised>>
        \/ /\ w.setting # "preset" /\ Accepted(w) /\ preset' = preset
           /\ stored' = [stored EXCEPT ![preset] = Updated(w)] /\ SetConfig(Applied(w, Updated(w)))
        \/ UNCHANGED <<preset, stored, din, routes, timer, ble, central, stale, rx, raised>>
  BY DEF HandleRequest, Answer
<1>6. CASE /\ w.setting = "preset" /\ preset' = w.value /\ bus' = Tail(bus) \o <<[kind |-> "preset"]>> \o Answer
           /\ UNCHANGED <<stored, din, routes, timer, ble, central, stale, rx, raised>>
  <2>1. \A p \in Presets : w.value \in DOMAIN p
    BY <1>6, MidiAssumption
  <2>2. SettingsInv'
    BY <1>3, <1>6, <2>1 DEF MidiInv, SettingsInv
  <2>3. ConfigInv'
    BY <1>3, <1>6, ConfigStays DEF MidiInv
  <2>4. AppliedInv'
    BY <1>1, <1>6 DEF AppliedInv
  <2> QED BY <1>1, <2>2, <2>3, <2>4 DEF MidiInv
<1>7. CASE /\ w.setting # "preset" /\ Accepted(w) /\ preset' = preset
           /\ stored' = [stored EXCEPT ![preset] = Updated(w)] /\ SetConfig(Applied(w, Updated(w)))
  <2> DEFINE u == Updated(w)
             d == Applied(w, u)
  <2>1. Keeps(Config, d) /\ FollowsSettings(d, u)
    BY <1>2, <1>7, SettingApplied DEF MidiInv
  <2>2. u \in MidiSettings
    BY <1>7, UpdatedType DEF MidiInv
  <2>3. SetConfig(d) /\ timer' = d.timer /\ routes' = d.routes
    BY <1>7 DEF SetConfig
  <2>4. stored' = [stored EXCEPT ![preset] = u]
    BY <1>7
  <2> HIDE DEF u, d
  <2>5. ConfigInv'
    BY <1>3, <2>1, <2>3, ConfigKept DEF MidiInv
  <2>6. /\ stored' \in Seq(MidiSettings) /\ DOMAIN stored' = DOMAIN stored /\ stored'[preset] = u
    <3>1. stored \in Seq(MidiSettings) /\ preset \in DOMAIN stored
      BY DEF MidiInv, SettingsInv
    <3> QED BY <2>2, <2>4, <3>1, ExceptSeq, LenProperties
  <2>7. SettingsInv'
    BY <1>3, <1>7, <2>6 DEF MidiInv, SettingsInv
  <2>8. Settings' = u
    BY <1>7, <2>6 DEF Settings
  <2>9. AppliedInv'
    BY <1>3, <2>1, <2>3, <2>8, FollowsThen
  <2> QED BY <1>1, <2>5, <2>7, <2>9 DEF MidiInv
<1>8. CASE UNCHANGED <<preset, stored, din, routes, timer, ble, central, stale, rx, raised>>
  BY <1>1, <1>3, <1>4, <1>8, SettingsStay, ConfigStays, AppliedStays DEF MidiInv
<1> QED BY <1>5, <1>6, <1>7, <1>8

LEMMA PresetStep == ASSUME MidiInv, ChangePreset PROVE MidiInv'
<1>1. /\ bus # <<>> /\ bus[1].kind = "preset" /\ bus' = Tail(bus) /\ SetConfig(Init0(Config, Settings))
      /\ UNCHANGED <<burst, wire, lost, published, usbReady, refresh>> /\ UNCHANGED <<stored, preset, bpm, reader, frozen>>
  BY SeqFacts DEF MidiInv, BusInv, ChangePreset, Quiet, settingState, otherState
<1>2. BusInv' /\ BurstInv' /\ StreamInv'
  BY <1>1, SignalTaken DEF MidiInv
<1> DEFINE d == Init0(Config, Settings)
           s == Settings
<1>3. Good(Config) /\ s \in MidiSettings /\ bpm \in Tempos
  BY ConfigNow, SettingsType DEF MidiInv
<1>4. SetConfig(d) /\ d = Init0(Config, s)
  BY <1>1
<1>5. Settings' = s
  BY <1>1 DEF Settings
<1> HIDE DEF d, s
<1>6. Keeps(Config, d) /\ d.routes = s.thru /\ d.timer = Clock(s)
  BY <1>3, <1>4, AllSetUp
<1>7. ConfigInv'
  BY <1>1, <1>4, <1>6, ConfigKept DEF MidiInv
<1>8. AppliedInv'
  <2>1. timer' = d.timer /\ routes' = d.routes
    BY <1>4 DEF SetConfig
  <2>2. FollowsSettings(d, s)
    BY <1>6 DEF FollowsSettings, Clock
  <2> QED BY <1>1, <1>5, <2>1, <2>2, FollowsThen
<1>9. SettingsInv'
  BY <1>1, <1>3, SettingsStay DEF MidiInv
<1> QED BY <1>2, <1>7, <1>8, <1>9 DEF MidiInv

LEMMA ClockStep == ASSUME MidiInv, RestartClock PROVE MidiInv'
<1>1. /\ bus # <<>> /\ bus[1].kind = "bpm" /\ bus' = Tail(bus)
      /\ timer' = IF Settings.DinEnabled /\ Settings.SendMidiClockDin THEN bpm ELSE timer
      /\ UNCHANGED <<burst, wire, lost, published, usbReady, refresh>> /\ UNCHANGED <<stored, preset, bpm, reader, frozen>>
      /\ UNCHANGED <<din, routes, ble, central, stale, rx, raised>>
  BY SeqFacts DEF MidiInv, BusInv, RestartClock, Quiet, settingState, otherState, routeState, bleState, rxState
<1>2. BusInv' /\ BurstInv' /\ StreamInv'
  BY <1>1, SignalTaken DEF MidiInv
<1>3. ~Pending("preset")
  BY <1>1, PendingFirst DEF MidiInv
<1>4. (timer # 0 => Settings.SendMidiClockDin) /\ routes = Settings.thru
  BY <1>3 DEF MidiInv, AppliedInv
<1>5. Settings' = Settings
  BY <1>1 DEF Settings
<1>6. /\ timer' # 0 => Settings'.SendMidiClockDin
      /\ routes' = Settings'.thru
      /\ Settings'.DinEnabled /\ Settings'.SendMidiClockDin => timer' = bpm'
  BY <1>1, <1>4, <1>5
<1>7. AppliedInv'
  BY <1>6 DEF AppliedInv
<1> DEFINE v == IF Settings.DinEnabled /\ Settings.SendMidiClockDin THEN bpm ELSE timer
           d == [Config EXCEPT !.timer = v]
<1>8. v \in Tempos \cup {0} /\ Good(Config) /\ Config \in ConfigType /\ bpm \in Tempos
  <2>1. Config.timer = timer
    BY DEF Config
  <2> QED BY <2>1, ConfigForm, ConfigNow DEF MidiInv, SettingsInv
<1>9. d = [Config EXCEPT !.timer = v]
  OBVIOUS
<1>10. SetConfig(d)
  BY <1>1 DEF SetConfig, Config
<1> HIDE DEF v, d
<1>11. Keeps(Config, d)
  BY <1>8, <1>9, TimerSet
<1>12. ConfigInv'
  BY <1>1, <1>10, <1>11, ConfigKept DEF MidiInv
<1> QED BY <1>1, <1>2, <1>7, <1>8, <1>12, SettingsStay DEF MidiInv

\* A packet that is received has its signal; one for which there is no room is dropped.
LEMMA ReceiveStep == ASSUME MidiInv, NEW t \in Transports, Receive(t) PROVE MidiInv'
<1>1. /\ UNCHANGED <<bus, burst, wire, lost, published, refresh, usbReady>>
      /\ UNCHANGED <<stored, preset, bpm, reader, frozen, din, routes, timer, ble, central, stale>>
      /\ \/ rx' = [rx EXCEPT ![t] = @ + 1] /\ raised' = [raised EXCEPT ![t] = TRUE]
         \/ UNCHANGED <<rx, raised>>
  BY DEF Receive, settingState, clockState, routeState, bleState, txState, rxState, otherState
<1>2. BusInv' /\ BurstInv' /\ StreamInv' /\ \A k : Pending(k)' <=> Pending(k)
  BY <1>1, BusStays DEF MidiInv, StreamInv
<1>3. SettingsInv' /\ AppliedInv'
  BY <1>1, <1>2, SettingsStay, AppliedStays DEF MidiInv, SettingsInv
<1>4. CASE rx' = [rx EXCEPT ![t] = @ + 1] /\ raised' = [raised EXCEPT ![t] = TRUE]
  <2> DEFINE d == [Config EXCEPT !.rx = rx', !.raised = raised']
  <2>1. Config \in ConfigType /\ Good(Config) /\ Config.rx = rx /\ Config.raised = raised
    BY ConfigNow DEF MidiInv, Config
  <2>2. rx \in [Transports -> Nat] /\ raised \in [Transports -> BOOLEAN]
    BY <2>1, ConfigForm
  <2>3. rx' \in [Transports -> Nat] /\ raised' \in [Transports -> BOOLEAN]
    BY <1>4, <2>2
  <2>4. SetConfig(d)
    BY <1>1 DEF SetConfig, Config
  <2>5. /\ d \in ConfigType /\ d.din = Config.din /\ d.routes = Config.routes /\ d.timer = Config.timer
        /\ d.ble = Config.ble /\ d.central = Config.central /\ d.stale = Config.stale /\ d.rx = rx' /\ d.raised = raised'
    BY <2>1, <2>3 DEF ConfigType
  <2> HIDE DEF d
  <2>6. Good(d)
    BY <2>1, <2>5 DEF Good, BleInv, LoopInv, Destinations
  <2>7. Unread(d) \subseteq Unread(Config)
    <3>1. ASSUME NEW u \in Unread(d) PROVE u \in Unread(Config)
      <4>1. u # t
        BY <1>4, <2>2, <2>5, <3>1 DEF Unread
      <4>2. d.rx[u] = Config.rx[u] /\ d.raised[u] = Config.raised[u]
        BY <1>4, <2>1, <2>2, <2>5, <3>1, <4>1 DEF Unread
      <4> QED BY <2>5, <3>1, <4>2 DEF Unread, IsOn
    <3> QED BY <3>1
  <2>8. ConfigInv'
    BY <1>1, <2>4, <2>6, <2>7, ConfigKept DEF MidiInv, Keeps
  <2> QED BY <1>2, <1>3, <2>8 DEF MidiInv
<1>5. CASE UNCHANGED <<rx, raised>>
  BY <1>1, <1>2, <1>3, <1>5, ConfigStays DEF MidiInv
<1> QED BY <1>1, <1>4, <1>5

\* The reader: nothing else changes, but for the bus when a request was read.
LEMMA WaitStep == ASSUME MidiInv, WaitForData PROVE MidiInv'
<1>1. /\ UNCHANGED <<bus, burst, wire, lost, published, refresh, usbReady>>
      /\ UNCHANGED <<stored, preset, bpm, frozen, din, routes, timer, ble, central, stale, rx, raised>>
      /\ reader.at = "wait" /\ reader' = [at |-> "woken", from |-> First] /\ \E t \in Transports : raised[t]
  BY DEF WaitForData, settingState, clockState, routeState, bleState, txState, rxState
<1>2. BusInv' /\ BurstInv' /\ StreamInv' /\ \A k : Pending(k)' <=> Pending(k)
  BY <1>1, BusStays DEF MidiInv, StreamInv
<1>3. SettingsInv' /\ AppliedInv'
  BY <1>1, <1>2, SettingsStay, AppliedStays DEF MidiInv, SettingsInv
<1>4. First \in Transports
  <2>1. \E t \in Transports :
            /\ raised[t]
            /\ \A u \in Transports : raised[u] => u = t \/ t = "usb" \/ (t = "din" /\ u = "ble")
    <3>1. CASE raised["usb"]
      BY <3>1 DEF Transports
    <3>2. CASE ~raised["usb"] /\ raised["din"]
      BY <3>2 DEF Transports
    <3>3. CASE ~raised["usb"] /\ ~raised["din"]
      BY <1>1, <3>3 DEF Transports
    <3> QED BY <3>1, <3>2, <3>3
  <2> QED BY <2>1 DEF First
<1>5. Good(Config) /\ SetConfig(Config)
  BY <1>1, ConfigNow DEF MidiInv
<1>6. /\ reader' = [at |-> reader'.at, from |-> reader'.from]
      /\ reader'.at = "woken" /\ reader'.from \in Transports /\ frozen' = frozen
  BY <1>1, <1>4
<1>7. ~frozen => Unread(Config) \subseteq {}
  BY <1>1 DEF MidiInv, ConfigInv, ReaderInv
<1>8. ConfigInv'
  <2> DEFINE d == Config
  <2>1. Good(d) /\ SetConfig(d) /\ (~frozen' => Unread(d) \subseteq IF reader'.at = "read" THEN {reader'.from} ELSE {})
    BY <1>5, <1>6, <1>7
  <2> HIDE DEF d
  <2> QED BY <1>6, <2>1, ConfigGoesOn
<1> QED BY <1>2, <1>3, <1>8 DEF MidiInv

LEMMA ResetStep == ASSUME MidiInv, ResetSignal PROVE MidiInv'
<1> DEFINE t == reader.from
<1>1. /\ UNCHANGED <<bus, burst, wire, lost, published, refresh, usbReady>>
      /\ UNCHANGED <<stored, preset, bpm, frozen, din, routes, timer, ble, central, stale, rx>>
      /\ reader.at = "woken" /\ raised' = [raised EXCEPT ![t] = FALSE]
      /\ reader' = [reader EXCEPT !.at = IF frozen \/ ~Initialized(t) THEN "wait" ELSE "read"]
  BY DEF ResetSignal, settingState, clockState, routeState, bleState, txState
<1>2. BusInv' /\ BurstInv' /\ StreamInv' /\ \A k : Pending(k)' <=> Pending(k)
  BY <1>1, BusStays DEF MidiInv, StreamInv
<1>3. SettingsInv' /\ AppliedInv'
  BY <1>1, <1>2, SettingsStay, AppliedStays DEF MidiInv, SettingsInv
<1>4. /\ reader = [at |-> reader.at, from |-> t] /\ t \in Transports /\ (~frozen => Unread(Config) = {})
  BY <1>1 DEF MidiInv, ConfigInv, ReaderInv
<1>5. /\ reader' = [at |-> IF frozen \/ ~Initialized(t) THEN "wait" ELSE "read", from |-> t]
  BY <1>1, <1>4
<1> DEFINE d == [Config EXCEPT !.raised = raised']
<1>6. Config \in ConfigType /\ Good(Config) /\ Config.rx = rx /\ Config.raised = raised /\ Config.din = din /\ Config.ble = ble
  BY ConfigNow DEF MidiInv, Config
<1>7. raised \in [Transports -> BOOLEAN]
  BY <1>6, ConfigForm
<1>8. raised' \in [Transports -> BOOLEAN]
  BY <1>1, <1>7
<1>9. SetConfig(d)
  BY <1>1 DEF SetConfig, Config
<1>10. /\ d \in ConfigType /\ d.din = Config.din /\ d.routes = Config.routes /\ d.timer = Config.timer
       /\ d.ble = Config.ble /\ d.central = Config.central /\ d.stale = Config.stale /\ d.rx = Config.rx /\ d.raised = raised'
  BY <1>6, <1>8 DEF ConfigType
<1> HIDE DEF d, t
<1>11. Good(d)
  BY <1>6, <1>10 DEF Good, BleInv, LoopInv, Destinations
<1>12. ASSUME ~frozen, NEW u \in Unread(d) PROVE u = t /\ Initialized(t)
  <2>1. CASE u # t
    <3>1. d.raised[u] = Config.raised[u] /\ u \in Transports
      BY <1>1, <1>6, <1>7, <1>10, <1>12, <2>1 DEF Unread
    <3>2. u \in Unread(Config)
      BY <1>10, <1>12, <3>1 DEF Unread, IsOn
    <3> QED BY <1>4, <1>12, <3>2
  <2>2. IsOn(d, u) <=> Initialized(u)
    BY <1>6, <1>10 DEF IsOn, Initialized
  <2> QED BY <1>12, <2>1, <2>2 DEF Unread
<1>13. ConfigInv'
  <2>1. reader'.from = t /\ reader'.at = IF frozen \/ ~Initialized(t) THEN "wait" ELSE "read"
    BY <1>5
  <2>2. reader' = [at |-> reader'.at, from |-> reader'.from]
    BY <1>5
  <2>3. ASSUME ~frozen' PROVE Unread(d) \subseteq IF reader'.at = "read" THEN {reader'.from} ELSE {}
    BY <1>1, <1>12, <2>1, <2>3
  <2> QED BY <1>4, <1>9, <1>11, <2>1, <2>2, <2>3, ConfigGoesOn
<1> QED BY <1>2, <1>3, <1>13 DEF MidiInv

LEMMA ReadStep == ASSUME MidiInv, ReadPacket PROVE MidiInv'
<1> DEFINE t == reader.from
<1>1. /\ UNCHANGED <<burst, wire, lost, published, refresh, usbReady>> /\ Quiet
      /\ UNCHANGED <<stored, preset, bpm, frozen, din, routes, timer, ble, central, stale, raised>>
      /\ reader.at = "read"
      /\ \/ rx[t] = 0 /\ reader' = [reader EXCEPT !.at = "wait"] /\ UNCHANGED <<rx, bus>>
         \/ /\ rx[t] # 0 /\ rx' = [rx EXCEPT ![t] = @ - 1] /\ reader' = reader
            /\ bus' = bus \/ bus' = <<[kind |-> "request"]>>
  BY DEF ReadPacket, settingState, clockState, routeState, bleState
<1>2. BusInv' /\ BurstInv' /\ StreamInv' /\ ~Pending("preset") /\ ~Pending("bpm")
  <2>1. \A k : ~Pending(k)
    BY <1>1, NothingPending DEF MidiInv
  <2>2. CASE bus' = bus
    BY <1>1, <2>1, <2>2, BusStays DEF MidiInv, StreamInv
  <2>3. CASE bus' = <<[kind |-> "request"]>>
    <3> DEFINE a == [kind |-> "request"]
    <3>1. bus' = <<a>> /\ a.kind = "request"
      BY <2>3
    <3> HIDE DEF a
    <3>2. Group(bus')
      BY <3>1 DEF Group, Kinds
    <3>3. ~Pending("start")' /\ ~Pending("stop")'
      <4>1. DOMAIN bus' = {1} /\ bus'[1] = a
        BY <3>1
      <4> QED BY <3>1, <4>1, GroupOnBus, <3>2
    <3>4. refresh' = refresh /\ refresh \in {"idle", "burst"}
      BY <1>1 DEF MidiInv, BurstInv
    <3> QED BY <1>1, <2>1, <3>2, <3>3, <3>4, QuietThen DEF MidiInv
  <2> QED BY <1>1, <2>2, <2>3
<1>3. SettingsInv' /\ AppliedInv'
  BY <1>1, <1>2, SettingsStay, AppliedStays DEF MidiInv, SettingsInv
<1>4. /\ reader = [at |-> "read", from |-> t] /\ t \in Transports /\ (~frozen => Unread(Config) \subseteq {t})
  BY <1>1 DEF MidiInv, ConfigInv, ReaderInv
<1>5. Config \in ConfigType /\ Good(Config) /\ Config.rx = rx
  BY ConfigNow DEF MidiInv, Config
<1>6. CASE rx[t] = 0 /\ reader' = [reader EXCEPT !.at = "wait"] /\ UNCHANGED <<rx, bus>>
  <2> DEFINE d == Config
  <2>1. reader' = [at |-> "wait", from |-> t]
    BY <1>4, <1>6
  <2>2. reader'.at = "wait" /\ reader'.from = t /\ reader' = [at |-> reader'.at, from |-> reader'.from]
    BY <2>1
  <2>3. t \notin Unread(d)
    BY <1>5, <1>6 DEF Unread
  <2>4. Good(d) /\ SetConfig(d)
    BY <1>1, <1>6, ConfigNow DEF MidiInv
  <2>5. ~frozen' => Unread(d) \subseteq IF reader'.at = "read" THEN {reader'.from} ELSE {}
    BY <1>1, <1>4, <2>2, <2>3
  <2> HIDE DEF d
  <2>6. ConfigInv'
    BY <1>4, <2>2, <2>4, <2>5, ConfigGoesOn
  <2> QED BY <1>2, <1>3, <2>6 DEF MidiInv
<1>7. CASE rx[t] # 0 /\ rx' = [rx EXCEPT ![t] = @ - 1] /\ reader' = reader
  <2> DEFINE d == [Config EXCEPT !.rx = rx']
  <2>1. rx \in [Transports -> Nat]
    BY <1>5, ConfigForm
  <2>2. rx[t] - 1 \in Nat
    BY <1>4, <1>7, <2>1
  <2>3. rx' \in [Transports -> Nat]
    BY <1>7, <2>1, <2>2
  <2>4. SetConfig(d)
    BY <1>1 DEF SetConfig, Config
  <2>5. /\ d \in ConfigType /\ d.din = Config.din /\ d.routes = Config.routes /\ d.timer = Config.timer
        /\ d.ble = Config.ble /\ d.central = Config.central /\ d.stale = Config.stale /\ d.rx = rx' /\ d.raised = Config.raised
    BY <1>5, <2>3 DEF ConfigType
  <2> HIDE DEF d, t
  <2>6. Good(d)
    BY <1>5, <2>5 DEF Good, BleInv, LoopInv, Destinations
  <2>7. ASSUME ~frozen, NEW u \in Unread(d), u # t PROVE FALSE
    <3>1. d.rx[u] = Config.rx[u] /\ u \in Transports
      BY <1>5, <1>7, <2>1, <2>5, <2>7 DEF Unread
    <3>2. u \in Unread(Config)
      BY <2>5, <2>7, <3>1 DEF Unread, IsOn
    <3> QED BY <1>4, <2>7, <3>2
  <2>8. /\ reader' = [at |-> reader'.at, from |-> reader'.from] /\ reader'.at = "read" /\ reader'.from = t
    BY <1>4, <1>7
  <2>9. ~frozen' => Unread(d) \subseteq IF reader'.at = "read" THEN {reader'.from} ELSE {}
    BY <1>1, <2>7, <2>8
  <2>10. ConfigInv'
    BY <1>4, <2>4, <2>6, <2>8, <2>9, ConfigGoesOn
  <2> QED BY <1>2, <1>3, <2>10 DEF MidiInv
<1> QED BY <1>1, <1>6, <1>7

LEMMA TwoInOne == ASSUME NEW a, NEW b PROVE <<a>> \o <<b>> = <<a, b>>
<1> DEFINE s == <<a>> \o <<b>>
           t == <<a, b>>
<1>1. <<a>> \in Seq({a, b}) /\ <<b>> \in Seq({a, b}) /\ t \in Seq({a, b})
  OBVIOUS
<1>2. Len(<<a>>) = 1 /\ Len(<<b>>) = 1 /\ Len(t) = 2 /\ <<a>>[1] = a /\ <<b>>[1] = b /\ t[1] = a /\ t[2] = b
  OBVIOUS
<1>3. s \in Seq({a, b}) /\ Len(s) = 2 /\ s[1] = a /\ s[2] = b
  BY <1>1, <1>2, ConcatProperties
<1> HIDE DEF s, t
<1>4. \A i \in 1 .. 2 : s[i] = t[i]
  BY <1>2, <1>3
<1>5. s = t
  BY <1>1, <1>2, <1>3, <1>4, SeqEqual
<1> QED BY <1>5 DEF s, t

\* What is published on an empty bus, when it does not change what the settings ask for.
LEMMA PublishStep == ASSUME MidiInv, Publish \/ Refresh PROVE MidiInv'
<1>1. /\ UNCHANGED <<burst, wire, lost, published, usbReady>> /\ Quiet
      /\ UNCHANGED <<stored, preset, bpm, reader, frozen, din, routes, timer, ble, central, stale, rx, raised>>
  BY DEF Publish, Refresh, settingState, clockState, routeState, bleState, rxState, otherState
<1>2. \A k : ~Pending(k)
  BY <1>1, NothingPending DEF MidiInv
<1>3. refresh \in {"idle", "burst"}
  BY DEF MidiInv, BurstInv
<1> DEFINE start == [kind |-> "start"]
           stop == [kind |-> "stop"]
<1>4. \/ refresh' = refresh /\ \E c : bus' = <<[kind |-> "message", channel |-> c]>>
      \/ refresh = "idle" /\ refresh' = "burst" /\ bus' = <<start>>
      \/ refresh = "burst" /\ refresh' = "idle" /\ \E c : bus' = <<stop>> \/ bus' = <<[kind |-> "message", channel |-> c], stop>>
  <2>1. CASE Publish
    BY <2>1 DEF Publish, otherState
  <2>2. CASE Refresh
    <3>1. CASE refresh = "idle"
      BY <2>2, <3>1 DEF Refresh
    <3>2. CASE refresh = "burst"
      <4>1. PICK q \in {<<>>} \cup {<<c>> : c \in MessageChannels} :
               bus' = [i \in DOMAIN q |-> [kind |-> "message", channel |-> q[i]]] \o <<stop>>
        BY <2>2, <3>2 DEF Refresh
      <4> DEFINE r == [i \in DOMAIN q |-> [kind |-> "message", channel |-> q[i]]]
      <4>2. refresh' = "idle"
        BY <2>2, <3>2 DEF Refresh
      <4>3. CASE q = <<>>
        <5>1. r = <<>>
          BY <4>3
        <5>2. r \o <<stop>> = <<stop>>
          BY <5>1
        <5> QED BY <3>2, <4>1, <4>2, <5>2
      <4>4. ASSUME NEW c \in MessageChannels, q = <<c>>
            PROVE  bus' = <<[kind |-> "message", channel |-> c], stop>>
        <5> DEFINE m == [kind |-> "message", channel |-> c]
        <5>1. DOMAIN q = {1} /\ q[1] = c
          BY <4>4
        <5>2. r = [i \in {1} |-> m]
          BY <5>1
        <5>3. r = <<m>>
          BY <5>2
        <5>4. <<m>> \o <<stop>> = <<m, stop>>
          BY TwoInOne
        <5> HIDE DEF m, r
        <5> QED BY <4>1, <5>3, <5>4 DEF m, r
      <4> QED BY <3>2, <4>1, <4>2, <4>3, <4>4
    <3> QED BY <1>3, <3>1, <3>2
  <2> QED BY <2>1, <2>2
<1>5. start.kind = "start" /\ stop.kind = "stop"
  OBVIOUS
<1> HIDE DEF start, stop
<1>6. ASSUME NEW a, bus' = <<a>>, a.kind \in Kinds \ {"packet"}
      PROVE  Group(bus') /\ \A k : Pending(k)' <=> a.kind = k
  <2>1. Group(bus')
    BY <1>6 DEF Group
  <2>2. DOMAIN bus' = {1} /\ bus'[1] = a
    BY <1>6
  <2> QED BY <2>1, <2>2, GroupOnBus
<1>7. ASSUME NEW a, NEW b, bus' = <<a, b>>, a.kind = "message", b.kind = "stop"
      PROVE  Group(bus') /\ \A k : Pending(k)' <=> k \in {"message", "stop"}
  <2>1. Group(bus')
    BY <1>7 DEF Group
  <2>2. DOMAIN bus' = {1, 2} /\ bus'[1] = a /\ bus'[2] = b
    BY <1>7
  <2> QED BY <1>7, <2>1, <2>2, GroupOnBus
<1>8. /\ Group(bus') /\ refresh' \in {"idle", "burst"}
      /\ Pending("start")' <=> refresh = "idle" /\ refresh' = "burst"
      /\ Pending("stop")' <=> refresh = "burst" /\ refresh' = "idle"
  <2>1. ASSUME NEW c, refresh' = refresh, bus' = <<[kind |-> "message", channel |-> c]>>
        PROVE  Group(bus') /\ ~Pending("start")' /\ ~Pending("stop")'
    <3> DEFINE a == [kind |-> "message", channel |-> c]
    <3>1. a.kind = "message" /\ bus' = <<a>>
      BY <2>1
    <3> HIDE DEF a
    <3> QED BY <1>6, <3>1 DEF Kinds
  <2>2. CASE refresh = "idle" /\ refresh' = "burst" /\ bus' = <<start>>
    BY <1>5, <1>6, <2>2 DEF Kinds
  <2>3. ASSUME bus' = <<stop>> PROVE Group(bus') /\ ~Pending("start")' /\ Pending("stop")'
    BY <1>5, <1>6, <2>3 DEF Kinds
  <2>4. ASSUME NEW c, bus' = <<[kind |-> "message", channel |-> c], stop>>
        PROVE  Group(bus') /\ ~Pending("start")' /\ Pending("stop")'
    <3> DEFINE a == [kind |-> "message", channel |-> c]
    <3>1. a.kind = "message" /\ bus' = <<a, stop>>
      BY <2>4
    <3> HIDE DEF a
    <3> QED BY <1>5, <1>7, <3>1
  <2> QED BY <1>3, <1>4, <2>1, <2>2, <2>3, <2>4
<1>9. BusInv' /\ BurstInv' /\ StreamInv'
  BY <1>1, <1>8, QuietThen DEF MidiInv
<1>10. SettingsInv' /\ AppliedInv' /\ ConfigInv'
  BY <1>1, <1>2, SettingsStay, AppliedStays, ConfigStays DEF MidiInv, SettingsInv
<1> QED BY <1>9, <1>10 DEF MidiInv

\* The tempo changes, and RestartClock will see to it.
LEMMA TempoStep == ASSUME MidiInv, ChangeBpm PROVE MidiInv'
<1> DEFINE a == [kind |-> "bpm"]
<1>1. /\ UNCHANGED <<burst, wire, lost, published, refresh, usbReady>> /\ Quiet /\ bpm' \in Tempos /\ bus' = <<a>>
      /\ UNCHANGED <<stored, preset, reader, frozen, din, routes, timer, ble, central, stale, rx, raised>>
  BY DEF ChangeBpm, settingState, routeState, bleState, rxState, otherState
<1>2. a.kind = "bpm"
  OBVIOUS
<1> HIDE DEF a
<1>3. Group(bus')
  BY <1>1, <1>2 DEF Group, Kinds
<1>4. DOMAIN bus' = {1} /\ bus'[1] = a
  BY <1>1
<1>5. \A k : Pending(k)' <=> k = "bpm"
  BY <1>2, <1>3, <1>4, GroupOnBus
<1>6. refresh' = refresh /\ refresh \in {"idle", "burst"}
  BY <1>1 DEF MidiInv, BurstInv
<1>7. BusInv' /\ BurstInv' /\ StreamInv'
  BY <1>1, <1>3, <1>5, <1>6, QuietThen DEF MidiInv
<1>8. ~Pending("preset")
  BY <1>1, NothingPending DEF MidiInv
<1>9. (timer' # 0 => Settings'.SendMidiClockDin) /\ routes' = Settings'.thru
  <2>1. Settings' = Settings
    BY <1>1 DEF Settings
  <2> QED BY <1>1, <1>8, <2>1 DEF MidiInv, AppliedInv
<1>10. AppliedInv'
  BY <1>5, <1>9 DEF AppliedInv
<1> QED BY <1>1, <1>7, <1>10, SettingsStay, ConfigStays DEF MidiInv

\* A callback of the Bluetooth host: the handler is told when what it was told last is not so any more.
LEMMA CentralStep == ASSUME MidiInv, Central PROVE MidiInv'
<1>1. /\ UNCHANGED <<bus, burst, wire, lost, published, refresh, usbReady>>
      /\ UNCHANGED <<stored, preset, bpm, reader, frozen, din, routes, timer, rx, raised>>
  BY DEF Central, settingState, clockState, routeState, txState, rxState, otherState
<1>2. PICK z \in {[central EXCEPT !.connected = TRUE], [central EXCEPT !.notify = ~@],
                  [central EXCEPT !.connected = FALSE, !.notify = FALSE]} :
         LET told == PublishReady([Config EXCEPT !.central = z])
         IN central' = told.central /\ ble' = told.ble /\ stale' = told.stale
  BY DEF Central
<1>3. BusInv' /\ BurstInv' /\ StreamInv' /\ \A k : Pending(k)' <=> Pending(k)
  BY <1>1, BusStays DEF MidiInv, StreamInv
<1>4. SettingsInv' /\ AppliedInv'
  BY <1>1, <1>3, SettingsStay, AppliedStays DEF MidiInv, SettingsInv
<1> DEFINE b == [Config EXCEPT !.central = z]
           d == PublishReady(b)
<1>5. Config \in ConfigType /\ Good(Config)
  BY ConfigNow DEF MidiInv
<1>6. /\ central \in [known : BOOLEAN, connected : BOOLEAN, notify : BOOLEAN, last : BOOLEAN]
      /\ Config.central = central
  BY <1>5, ConfigForm DEF Config
<1>7. z \in [known : BOOLEAN, connected : BOOLEAN, notify : BOOLEAN, last : BOOLEAN] /\ z.last = central.last
  BY <1>6
<1>8. /\ b \in ConfigType /\ b.din = din /\ b.routes = routes /\ b.timer = timer /\ b.ble = ble /\ b.central = z
      /\ b.stale = stale /\ b.rx = rx /\ b.raised = raised
  BY <1>5, <1>7 DEF ConfigType, Config
<1>9. central' = d.central /\ ble' = d.ble /\ stale' = d.stale
  BY <1>2
<1>10. d = IF ReadyNow(z) = z.last THEN b
           ELSE [b EXCEPT !.central.last = ReadyNow(z), !.ble.ready = ReadyNow(z), !.stale = FALSE]
  BY <1>8 DEF PublishReady
<1>11. ReadyNow(z) \in BOOLEAN
  BY <1>7 DEF ReadyNow
<1> HIDE DEF b, d
<1>12. /\ d \in ConfigType /\ d.din = din /\ d.routes = routes /\ d.timer = timer /\ d.rx = rx /\ d.raised = raised
       /\ d.ble.on = ble.on
       /\ d.central.connected = z.connected /\ d.central.notify = z.notify
       /\ IF ReadyNow(z) = z.last THEN d.central.last = z.last /\ d.ble.ready = ble.ready /\ d.stale = stale
          ELSE d.central.last = ReadyNow(z) /\ d.ble.ready = ReadyNow(z) /\ d.stale = FALSE
  <2>1. CASE ReadyNow(z) = z.last
    BY <1>8, <1>10, <2>1
  <2>2. CASE ReadyNow(z) # z.last
    <3> DEFINE r == ReadyNow(z)
               x == [z EXCEPT !.last = r]
               y == [ble EXCEPT !.ready = r]
    <3>1. ble \in [on : BOOLEAN, ready : BOOLEAN]
      BY <1>8, ConfigForm
    <3> HIDE DEF r
    <3>2. r \in BOOLEAN
      BY <1>11 DEF r
    <3>3. /\ x \in [known : BOOLEAN, connected : BOOLEAN, notify : BOOLEAN, last : BOOLEAN]
          /\ x.connected = z.connected /\ x.notify = z.notify /\ x.last = r
      BY <1>7, <3>2
    <3>4. y \in [on : BOOLEAN, ready : BOOLEAN] /\ y.on = ble.on /\ y.ready = r
      BY <3>1, <3>2
    <3>5. d = [b EXCEPT !.central = x, !.ble = y, !.stale = FALSE]
      BY <1>8, <1>10, <2>2 DEF r
    <3> HIDE DEF x, y
    <3>6. /\ d \in ConfigType /\ d.din = din /\ d.routes = routes /\ d.timer = timer /\ d.rx = rx /\ d.raised = raised
          /\ d.ble = y /\ d.central = x /\ d.stale = FALSE
      BY <1>8, <3>3, <3>4, <3>5 DEF ConfigType
    <3> QED BY <2>2, <3>3, <3>4, <3>6 DEF r
  <2> QED BY <2>1, <2>2
<1>13. ReadyNow(d.central) <=> ReadyNow(z)
  BY <1>12 DEF ReadyNow
<1>14. /\ central.last <=> ReadyNow(central)
       /\ ble.ready => ReadyNow(central)
       /\ ble.on /\ ReadyNow(central) /\ ~stale => ble.ready
  <2>1. Config.ble = ble /\ Config.stale = stale
    BY DEF Config
  <2> QED BY <1>5, <1>6, <2>1 DEF Good, BleInv
<1>15. BleInv(d)
  <2>1. d.central.last <=> ReadyNow(d.central)
    BY <1>11, <1>12, <1>13
  <2>2. d.central.last \in BOOLEAN /\ ReadyNow(d.central) \in BOOLEAN
    BY <1>12, ConfigForm DEF ReadyNow
  <2>3. d.ble.ready => ReadyNow(d.central)
    BY <1>7, <1>12, <1>13, <1>14
  <2>4. d.ble.on /\ ReadyNow(d.central) /\ ~d.stale => d.ble.ready
    BY <1>7, <1>12, <1>13, <1>14
  <2> QED BY <2>1, <2>2, <2>3, <2>4 DEF BleInv
<1>16. Config.din = din /\ Config.routes = routes /\ Config.rx = rx /\ Config.raised = raised /\ Config.ble = ble
  BY DEF Config
<1>17. LoopInv(d)
  BY <1>5, <1>12, <1>16 DEF Good, LoopInv, Destinations
<1>18. Unread(d) = Unread(Config)
  BY <1>12, <1>16 DEF Unread, IsOn
<1>19. SetConfig(d)
  BY <1>1, <1>9, <1>12 DEF SetConfig
<1>20. ConfigInv'
  BY <1>1, <1>12, <1>15, <1>17, <1>18, <1>19, ConfigKept DEF MidiInv, Good, Keeps
<1> QED BY <1>3, <1>4, <1>20 DEF MidiInv

\* The host comes or goes.
LEMMA HostStep == ASSUME MidiInv, Host PROVE MidiInv'
<1>1. /\ UNCHANGED <<bus, burst, wire, lost, published, refresh>> /\ usbReady' \in BOOLEAN
      /\ UNCHANGED <<stored, preset, bpm, reader, frozen, din, routes, timer, ble, central, stale, rx, raised>>
  BY DEF Host, settingState, clockState, routeState, bleState, txState, rxState
<1>2. BusInv' /\ BurstInv' /\ StreamInv' /\ \A k : Pending(k)' <=> Pending(k)
  BY <1>1, BusStays DEF MidiInv
<1>3. SettingsInv' /\ AppliedInv' /\ ConfigInv'
  BY <1>1, <1>2, SettingsStay, AppliedStays, ConfigStays DEF MidiInv, SettingsInv
<1> QED BY <1>2, <1>3 DEF MidiInv

LEMMA FreezeStep == ASSUME MidiInv, Freeze PROVE MidiInv'
<1>1. /\ UNCHANGED <<bus, burst, wire, lost, published, refresh, usbReady>> /\ frozen'
      /\ UNCHANGED <<stored, preset, bpm, reader, din, routes, timer, ble, central, stale, rx, raised>>
  BY DEF Freeze, settingState, clockState, routeState, bleState, txState, rxState
<1>2. BusInv' /\ BurstInv' /\ StreamInv' /\ \A k : Pending(k)' <=> Pending(k)
  BY <1>1, BusStays DEF MidiInv, StreamInv
<1>3. SettingsInv' /\ AppliedInv'
  BY <1>1, <1>2, SettingsStay, AppliedStays DEF MidiInv, SettingsInv
<1>4. ConfigInv'
  <2> DEFINE d == Config
  <2>1. Good(d) /\ SetConfig(d)
    BY <1>1, ConfigNow DEF MidiInv
  <2> HIDE DEF d
  <2>2. reader' = reader /\ ReaderInv
    BY <1>1 DEF MidiInv, ConfigInv
  <2>3. /\ reader' = [at |-> reader'.at, from |-> reader'.from]
        /\ reader'.at \in {"wait", "woken", "read"} /\ reader'.from \in Transports
    BY <2>2 DEF ReaderInv
  <2> QED BY <1>1, <2>1, <2>3, ConfigGoesOn
<1> QED BY <1>2, <1>3, <1>4 DEF MidiInv

LEMMA NothingHappens == ASSUME MidiInv, UNCHANGED vars PROVE MidiInv'
<1>1. /\ UNCHANGED <<bus, burst, wire, lost, published, refresh, usbReady>>
      /\ UNCHANGED <<stored, preset, bpm, reader, frozen, din, routes, timer, ble, central, stale, rx, raised>>
  BY DEF vars, settingState, clockState, routeState, bleState, txState, rxState, otherState
<1>2. BusInv' /\ BurstInv' /\ StreamInv' /\ \A k : Pending(k)' <=> Pending(k)
  BY <1>1, BusStays DEF MidiInv, StreamInv
<1>3. SettingsInv' /\ AppliedInv' /\ ConfigInv'
  BY <1>1, <1>2, SettingsStay, AppliedStays, ConfigStays DEF MidiInv, SettingsInv
<1> QED BY <1>2, <1>3 DEF MidiInv

LEMMA MidiInitially == ASSUME MidiInit PROVE MidiInv
<1> DEFINE off == [din |-> [on |-> FALSE, loopback |-> FALSE, hardware |-> FALSE], routes |-> {}, timer |-> 0,
                   ble |-> [on |-> FALSE, ready |-> FALSE],
                   central |-> [known |-> FALSE, connected |-> FALSE, notify |-> FALSE, last |-> FALSE],
                   stale |-> FALSE, rx |-> [t \in Transports |-> 0], raised |-> [t \in Transports |-> FALSE]]
           s == stored[1]
           c == Init0(off, s)
<1>1. /\ din = c.din /\ routes = c.routes /\ timer = c.timer /\ ble = c.ble
      /\ central = c.central /\ stale = c.stale /\ rx = c.rx /\ raised = c.raised
  BY DEF MidiInit
<1>2. /\ stored \in Presets /\ preset = 1 /\ bpm \in Tempos
      /\ burst = [active |-> FALSE, packets |-> <<>>]
      /\ bus = <<>> /\ usbReady \in BOOLEAN /\ wire = <<>> /\ lost = {} /\ published = 0
      /\ reader = [at |-> "wait", from |-> "usb"]
      /\ refresh = "idle" /\ frozen = FALSE
  BY MidiAssumption DEF MidiInit
<1>3. SettingsInv /\ s \in MidiSettings /\ Settings = s
  <2>1. stored \in Seq(MidiSettings) /\ stored # <<>>
    BY <1>2, MidiAssumption
  <2>2. Len(stored) \in Nat /\ DOMAIN stored = 1 .. Len(stored) /\ Len(stored) # 0
    BY <2>1, LenProperties, EmptySeq
  <2>3. 1 \in DOMAIN stored
    BY <2>2
  <2> QED BY <1>2, <2>1, <2>3, LenProperties DEF SettingsInv, Settings
<1>4. off \in ConfigType
  BY DEF ConfigType
<1>5. /\ off.din.loopback = FALSE /\ off.din.hardware = FALSE /\ off.routes = {} /\ off.ble.ready = FALSE /\ off.ble.on = FALSE
      /\ off.central.last = FALSE /\ off.central.connected = FALSE
      /\ off.rx = [t \in Transports |-> 0]
  OBVIOUS
<1>6. c = Init0(off, s)
  OBVIOUS
<1> HIDE DEF off, s, c
<1>7. Good(off)
  <2>1. Destinations(off, "din") = {}
    BY <1>5 DEF Destinations
  <2>2. LoopInv(off)
    BY <1>5, <2>1 DEF LoopInv
  <2>3. BleInv(off)
    BY <1>5 DEF BleInv, ReadyNow
  <2> QED BY <1>4, <2>2, <2>3 DEF Good
<1>8. Keeps(off, c) /\ c.routes = s.thru /\ c.timer = Clock(s)
  BY <1>2, <1>3, <1>6, <1>7, AllSetUp
<1>9. Config = c
  <2>1. c \in ConfigType
    BY <1>8 DEF Keeps, Good
  <2>2. c = [din |-> c.din, routes |-> c.routes, timer |-> c.timer, ble |-> c.ble, central |-> c.central,
             stale |-> c.stale, rx |-> c.rx, raised |-> c.raised]
    BY <2>1 DEF ConfigType
  <2> QED BY <1>1, <2>2 DEF Config
<1>10. ConfigInv
  <2>1. Unread(c) \subseteq {}
    BY <1>5, <1>8 DEF Keeps, Unread
  <2>2. ReaderInv
    BY <1>2, <1>9, <2>1 DEF ReaderInv, Transports
  <2> QED BY <1>8, <1>9, <2>2 DEF ConfigInv, Keeps, Good
<1>11. AppliedInv
  BY <1>1, <1>3, <1>8 DEF AppliedInv, Clock
<1>12. IsSeq(bus) /\ DOMAIN bus = {}
  BY <1>2, SmallSeqs, SeqFacts
<1>13. BusInv
  BY <1>2, <1>12 DEF BusInv
<1>14. BurstInv
  <2>1. burst.active = FALSE /\ burst.packets = <<>>
    BY <1>2
  <2> QED BY <1>2, <1>12, <2>1 DEF BurstInv, Pending
<1>15. StreamInv
  <2>1. Waiting = {} /\ OnBus = {}
    BY <1>12 DEF Waiting, OnBus
  <2>2. burst.packets = <<>> /\ Tx = [buffer |-> <<>>, wire |-> <<>>, lost |-> {}]
    BY <1>2 DEF Tx
  <2>3. Tx.buffer = <<>> /\ Tx.wire = <<>> /\ Tx.lost = {}
    BY <2>2
  <2>4. TxInv(Tx)
    BY <2>3, NoPackets DEF TxInv, Before
  <2>5. Taken(Tx) \cup OnBus = 1 .. published
    BY <1>2, <2>1, <2>3, NoPackets DEF Taken
  <2> QED BY <1>2, <2>1, <2>4, <2>5 DEF StreamInv, InTurn, Before
<1> QED BY <1>3, <1>10, <1>11, <1>13, <1>14, <1>15 DEF MidiInv

LEMMA MidiStep == ASSUME MidiInv, [Next]_vars PROVE MidiInv'
BY SendStep, RequestStep, PresetStep, ClockStep, ReceiveStep, WaitStep, ResetStep, ReadStep, PublishStep, TempoStep,
   CentralStep, HostStep, FreezeStep, NothingHappens DEF Next

LEMMA MidiInvariant == MidiSpec => []MidiInv
BY MidiInitially, MidiStep, PTL DEF MidiSpec

-----------------------------------------------------------------------------
(* What follows.                                                           *)

\* Whatever the inputs publish, the host does and a burst holds back, the packets for USB reach the host in the order
\* they were made, once, or are lost to a host that was not ready: BurstDelivered.
THEOREM PacketsAreDelivered == MidiSpec => []BurstDelivered
<1>1. MidiInv => BurstDelivered
  <2> SUFFICES ASSUME MidiInv PROVE BurstDelivered
    OBVIOUS
  <2>1. ASSUME NEW i \in 1 .. Len(wire) - 1 PROVE wire[i].n < wire[i + 1].n
    <3>1. wire \in Seq(Packet) /\ Rising(wire)
      BY TxOfNow DEF MidiInv, TxInv
    <3>2. i \in DOMAIN wire /\ i + 1 \in DOMAIN wire /\ i < i + 1
      BY <3>1, LenProperties
    <3> QED BY <3>1, <3>2 DEF Rising
  <2>2. ASSUME Quiet, ~burst.active PROVE {p.n : p \in ToSet(wire) \cup lost} = 1 .. published
    <3>1. burst.packets = <<>> /\ OnBus = {}
      BY <2>2, BufferEmpty, NothingPending DEF MidiInv, Quiet
    <3>2. Numbers(wire) \cup {p.n : p \in lost} = 1 .. published
      BY <3>1, TxOfNow, NoPackets DEF MidiInv, Taken
    <3>3. {p.n : p \in ToSet(wire) \cup lost} = Numbers(wire) \cup {p.n : p \in lost}
      BY DEF ToSet, Numbers
    <3> QED BY <3>2, <3>3
  <2> QED BY <2>1, <2>2 DEF BurstDelivered
<1> QED BY <1>1, MidiInvariant, PTL

\* A packet that a transport has queued never waits for the next one: the poll signal that is reset before the packets
\* are read is raised by every packet that comes later.
THEOREM NoPacketWaits == MidiSpec => []PacketsRead
<1>1. MidiInv => PacketsRead
  <2> SUFFICES ASSUME MidiInv, reader.at = "wait", ~frozen, NEW t \in Transports, Initialized(t), rx[t] > 0
               PROVE  raised[t]
    BY DEF PacketsRead
  <2>1. Unread(Config) = {}
    BY DEF MidiInv, ConfigInv, ReaderInv
  <2> QED BY <2>1 DEF Unread, IsOn, Initialized, Config
<1> QED BY <1>1, MidiInvariant, PTL

\* Clock, routes and loopback are those of the selected preset and its settings whenever no change is under way,
\* however settings, presets and tempos are changed.
THEOREM SettingsTakeEffect == MidiSpec => []SettingsApplied
<1>1. MidiInv => SettingsApplied
  <2> SUFFICES ASSUME MidiInv PROVE SettingsApplied
    OBVIOUS
  <2>1. ClockRuns
    BY DEF MidiInv, AppliedInv, ClockRuns
  <2>2. din.hardware = (Destinations(Config, "din") = {"din"})
    BY DEF MidiInv, ConfigInv, LoopInv, Config
  <2>3. RoutesApplied
    BY <2>2 DEF MidiInv, AppliedInv, RoutesApplied
  <2> QED BY <2>1, <2>3 DEF SettingsApplied
<1> QED BY <1>1, MidiInvariant, PTL

\* BLE is ready for a central that has subscribed only, and is ready for it, unless it was switched on while the
\* central was subscribed already.
THEOREM BleFollowsCentral == MidiSpec => []BleReadiness
<1>1. MidiInv => BleReadiness
  BY DEF MidiInv, ConfigInv, BleInv, BleReadiness, Config
<1> QED BY <1>1, MidiInvariant, PTL
=============================================================================
