---------------------------- MODULE FeedbackProofs ----------------------------
(***************************************************************************)
(* Theorems about the outputs and the touchscreen.                         *)
(***************************************************************************)
EXTENDS Touchscreen, FiniteSetTheorems, SequenceTheorems, WellFoundedInduction, TLAPS

-----------------------------------------------------------------------------
(* The invariant.                                                          *)

OutputBits == [active : BOOLEAN, pulseOn : BOOLEAN, state : BOOLEAN, level : Nat, timer : SpeedSet]
Signals == [kind : {"screen"}] \cup [kind : {"level"}, index : TouchOutputs, on : BOOLEAN]
TaskType ==
    [at : {"gate", "wait", "process", "count", "read", "store", "write"}, force : BOOLEAN, speed : SpeedSet, next : Nat,
     read : OutputBits]
\* The thread goes through the outputs of a speed that toggles.
InLoop == task.at \in {"read", "store", "write"}

OutputsTyped ==
    /\ output \in [OutputIndices -> OutputBits] /\ shown \in [OutputIndices -> Nat] /\ bus \in Seq(Signals)
    /\ pulse \in [mode : {"Timer", "MidiClock"}, counter : [SpeedSet -> Nat], state : [SpeedSet -> BOOLEAN]]
    /\ updates \in Nat /\ forced \in BOOLEAN /\ ioFrozen \in BOOLEAN
    /\ joined \subseteq OutputIndices /\ raced \subseteq OutputIndices
    /\ task \in TaskType /\ (InLoop => task.next \in OutputIndices)
    /\ preset \in Presets

\* What the thread has in hand of an output that was not set meanwhile is what it will write.
HandInv ==
    /\ task.at = "store" => task.read.pulseOn
    /\ task.at = "write" /\ task.next \notin raced =>
          output[task.next].pulseOn /\ task.read.level \in {0, output[task.next].level}
HeldInv == ShownIsHeld /\ HandInv

\* The loop has been at the output.
Passed(p) == p < task.next \/ (task.at = "write" /\ p = task.next)
Alike(p, q) == output[p].state = output[q].state
\* Outputs of a speed are alike; while they toggle, those that have been passed are in the new state, the others
\* still in the old one.
TaskSpeed == task.at \in {"store", "write"} => output[task.next].timer = task.speed
OthersAlike ==
    \A s \in SpeedSet : \A p, q \in joined :
        Pulsing(s, p) /\ Pulsing(s, q) /\ ~(InLoop /\ s = task.speed) => Alike(p, q)
PassedToggled ==
    InLoop => \A p \in joined : Pulsing(task.speed, p) /\ Passed(p) => output[p].state = pulse.state[task.speed]
RestAlike ==
    InLoop => \A p, q \in joined :
        Pulsing(task.speed, p) /\ Pulsing(task.speed, q) /\ ~Passed(p) /\ ~Passed(q) => Alike(p, q)
TogetherInv == TaskSpeed /\ OthersAlike /\ PassedToggled /\ RestAlike

IsLevel(signal, t) == signal.kind = "level" /\ signal.index = t
\* A queue has a level for the icon; the last one is lit or dark; it has a new screen.
Tells(q, t) == \E n \in DOMAIN q : IsLevel(q[n], t)
Says(q, t, lit) ==
    \A n \in DOMAIN q : IsLevel(q[n], t) /\ (\A m \in DOMAIN q : IsLevel(q[m], t) => m <= n) => q[n].on = lit
Screened(q) == \E n \in DOMAIN q : q[n].kind = "screen"

TouchTyped ==
    /\ initialized \in BOOLEAN /\ missed \subseteq TouchOutputs /\ strayed \subseteq TouchOutputs
    /\ DOMAIN display = {"page", "icon"} /\ DOMAIN display.icon = TouchOutputs
    /\ DOMAIN turning = {"at", "to", "cut"} /\ turning.at \in {"none", "page", "adopt", "announce"}

\* The last level on the bus is the one that is shown.
Foretold == \A t \in TouchOutputs : Says(bus, t, shown[t] # 0)
\* An icon that may be wrong will be drawn: its level is on the bus, or a screen that has all levels written again,
\* or the announcement of one is to come.
Drawn(t) == display.icon[t] = IF shown[t] # 0 THEN "on" ELSE "off"
IconInv(t) ==
    t \notin missed /\ initialized /\ OnScreen(t, screen) =>
        turning.at # "none" \/ Screened(bus) \/ Tells(bus, t) \/ Drawn(t)
IconsInv == Foretold /\ \A t \in TouchOutputs : IconInv(t)

\* Undisturbed, the page is the active screen, or is about to be, and its icons are its own.
PageInv ==
    ~crossed =>
        /\ display.page = IF turning.at = "adopt" THEN turning.to ELSE screen
        /\ \A t \in TouchOutputs \ strayed : ~OnScreen(t, display.page) => display.icon[t] = "none"

FeedbackInv == OutputsTyped /\ HeldInv /\ TogetherInv /\ TouchTyped /\ IconsInv /\ PageInv

-----------------------------------------------------------------------------
(* Numbers, indices and queues.                                            *)

\* A set of numbers has a least one.
LEMMA LeastIndex ==
    ASSUME NEW T, T \subseteq Nat, T # {}
    PROVE  \E x \in T : \A y \in T : x <= y
<1> DEFINE R == {ss \in Nat \X Nat : ss[1] < ss[2]}
<1>1. OpToRel(<, Nat) = R
  BY Zenon DEF OpToRel
<1>2. IsWellFoundedOn(R, Nat)
  BY <1>1, NatLessThanWellFounded, Zenon
<1> HIDE DEF R
<1>3. PICK x \in T : \A y \in T : ~ (<<y, x>> \in R)
  BY <1>2, WFMin
<1>4. \A y, z \in Nat : y < z => <<y, z>> \in R
  BY DEF R
<1>5. ASSUME NEW y \in T PROVE x <= y
  <2>1. x \in Nat /\ y \in Nat
    OBVIOUS
  <2>2. ~(y < x)
    BY <2>1, <1>3, <1>4
  <2> QED BY <2>1, <2>2
<1> QED BY <1>5

LEMMA OutputFacts ==
    /\ OutputIndices \subseteq Nat /\ TouchOutputs \subseteq OutputIndices /\ IsFiniteSet(TouchOutputs)
    /\ Speeds \in Nat \ {0} /\ NoPulse \in SpeedSet /\ 0 \in SpeedSet /\ SpeedSet \subseteq Nat
    /\ LevelMax \in Nat \ {0} /\ Keep \notin Nat
  BY OutputsAssumption DEF OutputIndices, NoPulse, SpeedSet, Keep

LEMMA SpeedOfValue == ASSUME NEW value \in Nat PROVE SpeedOf(value) \in SpeedSet
<1> DEFINE k == GroupSize \div Speeds
           r == value % GroupSize
           q == r \div k
<1>1. Speeds \in Nat \ {0} /\ GroupSize \in Nat \ {0} /\ GroupSize % Speeds = 0
  BY OutputsAssumption
<1>2. k \in Nat /\ GroupSize = Speeds * k
  BY <1>1
<1>3. k # 0
  BY <1>1, <1>2
<1>4. r \in Nat /\ r < GroupSize
  BY <1>1
<1> HIDE DEF k, r
<1>5. q \in Nat /\ k * q <= r
  BY <1>2, <1>3, <1>4
<1> HIDE DEF q
<1>6. ASSUME q >= Speeds PROVE FALSE
  <2>1. k * q >= k * Speeds
    BY <1>1, <1>2, <1>5, <1>6
  <2>2. k * Speeds = Speeds * k
    BY <1>1, <1>2
  <2>3. k * q \in Nat /\ k * Speeds \in Nat
    BY <1>1, <1>2, <1>5
  <2> QED BY <2>1, <2>2, <2>3, <1>2, <1>4, <1>5
<1>7. q \in SpeedSet
  BY <1>1, <1>5, <1>6 DEF SpeedSet
<1>8. SpeedOf(value) = IF value < GroupSize THEN NoPulse ELSE q
  BY DEF SpeedOf, q, r, k
<1> QED BY <1>7, <1>8, OutputFacts

LEMMA LevelOfValue == ASSUME NEW value \in Nat PROVE LevelOf(value) \in Nat
<1>1. value * LevelMax \in Nat
  BY OutputFacts
<1>2. Max7 \in Nat \ {0}
  BY OutputsAssumption
<1> DEFINE x == value * LevelMax
<1> HIDE DEF x
<1>3. \A y \in Nat : y \div Max7 \in Nat
  BY <1>2
<1> QED BY <1>1, <1>3 DEF LevelOf

\* The rank of an index among those of a finite set.
Rank(S, o) == Cardinality({p \in S : p < o}) + 1

LEMMA RankFacts ==
    ASSUME NEW S, S \subseteq Nat, IsFiniteSet(S)
    PROVE  /\ \A o \in S : Rank(S, o) \in 1 .. Cardinality(S)
           /\ \A o, p \in S : Rank(S, o) = Rank(S, p) => o = p
<1>1. \A o \in S : IsFiniteSet({p \in S : p < o}) /\ {p \in S : p < o} \subseteq S \ {o}
  BY FS_Subset
<1>2. ASSUME NEW o \in S PROVE Rank(S, o) \in 1 .. Cardinality(S)
  <2>1. IsFiniteSet(S \ {o}) /\ Cardinality(S \ {o}) = Cardinality(S) - 1
    BY FS_RemoveElement
  <2>2. Cardinality({p \in S : p < o}) <= Cardinality(S \ {o})
    BY <1>1, <2>1, FS_Subset
  <2>3. Cardinality(S) \in Nat /\ Cardinality({p \in S : p < o}) \in Nat
    BY <1>1, FS_CardinalityType
  <2> QED BY <2>1, <2>2, <2>3 DEF Rank
<1>3. ASSUME NEW o \in S, NEW p \in S, o < p PROVE Rank(S, o) < Rank(S, p)
  <2> DEFINE A == {x \in S : x < o}
             B == {x \in S : x < p}
  <2>0. \A x \in S : x \in Nat
    OBVIOUS
  <2>6. \A x, y, z \in Nat : x < y /\ y < z => x < z /\ x # y
    OBVIOUS
  <2>1. A \subseteq B \ {o} /\ o \in B
    <3>1. \A x \in S : x < o => x < p /\ x # o
      BY <2>0, <2>6, <1>3
    <3> QED BY <3>1, <1>3
  <2>5. IsFiniteSet(B) /\ IsFiniteSet(A)
    BY <1>1
  <2>2. IsFiniteSet(B \ {o}) /\ Cardinality(B \ {o}) = Cardinality(B) - 1
    BY <2>1, <2>5, FS_RemoveElement
  <2>3. Cardinality(A) <= Cardinality(B \ {o})
    BY <2>1, <2>2, FS_Subset
  <2>4. Cardinality(A) \in Nat /\ Cardinality(B) \in Nat
    BY <2>5, FS_CardinalityType
  <2> QED BY <2>2, <2>3, <2>4 DEF Rank
<1>4. ASSUME NEW o \in S, NEW p \in S, Rank(S, o) = Rank(S, p), o # p PROVE FALSE
  <2>1. Rank(S, o) \in Nat /\ Rank(S, p) \in Nat /\ o \in Nat /\ p \in Nat
    BY <1>2, FS_CardinalityType
  <2>2. o < p \/ p < o
    BY <2>1, <1>4
  <2> QED BY <2>1, <2>2, <1>3, <1>4
<1> QED BY <1>2, <1>4

\* A loop over the indices of a set comes to each of them, and to no other.
LEMMA NthFacts ==
    ASSUME NEW S, S \subseteq Nat, IsFiniteSet(S)
    PROVE  /\ \A n \in 1 .. Cardinality(S) : Nth(S, n) \in S
           /\ \A o \in S : \E n \in 1 .. Cardinality(S) : Nth(S, n) = o
<1> DEFINE N == Cardinality(S)
           f == [o \in S |-> Rank(S, o)]
<1>1. N \in Nat
  BY FS_CardinalityType
<1>2. f \in [S -> 1 .. N] /\ \A o, p \in S : f[o] = f[p] => o = p
  BY RankFacts
<1>3. f \in Injection(S, 1 .. N)
  BY <1>2 DEF Injection, IsInjective
<1>4. IsFiniteSet(1 .. N) /\ Cardinality(1 .. N) = N
  BY <1>1, FS_Interval
<1>5. f \in Surjection(S, 1 .. N)
  BY <1>3, <1>4, FS_Injection
<1>6. \A n \in 1 .. N : \E o \in S : Rank(S, o) = n
  BY <1>5 DEF Surjection
<1>7. ASSUME NEW n \in 1 .. N PROVE Nth(S, n) \in S /\ Rank(S, Nth(S, n)) = n
  <2>1. PICK o \in S : Rank(S, o) = n
    BY <1>6
  <2>2. Cardinality({p \in S : p < o}) = n - 1
    <3>1. Cardinality({p \in S : p < o}) \in Nat
      BY FS_Subset, FS_CardinalityType
    <3> QED BY <2>1, <3>1, <1>1 DEF Rank
  <2>3. Nth(S, n) \in S /\ Cardinality({p \in S : p < Nth(S, n)}) = n - 1
    BY <2>2 DEF Nth
  <2> QED BY <2>3, <1>1 DEF Rank
<1>8. ASSUME NEW o \in S PROVE \E n \in 1 .. N : Nth(S, n) = o
  <2>1. Rank(S, o) \in 1 .. N
    BY RankFacts
  <2>2. Rank(S, Nth(S, Rank(S, o))) = Rank(S, o) /\ Nth(S, Rank(S, o)) \in S
    BY <2>1, <1>7
  <2> QED BY <2>1, <2>2, RankFacts
<1> QED BY <1>7, <1>8

\* Taking from the front of a queue, and adding to its end.
LEMMA TailTells ==
    ASSUME NEW q \in Seq(Signals), q # <<>>, NEW t
    PROVE  /\ Tail(q) \in Seq(Signals) /\ Head(q) \in Signals
           /\ Tells(q, t) <=> IsLevel(Head(q), t) \/ Tells(Tail(q), t)
           /\ \A lit : Says(q, t, lit) => Says(Tail(q), t, lit)
           /\ \A lit : Says(q, t, lit) /\ IsLevel(Head(q), t) => Tells(Tail(q), t) \/ Head(q).on = lit
           /\ Screened(q) <=> Head(q).kind = "screen" \/ Screened(Tail(q))
<1>1. /\ Tail(q) \in Seq(Signals) /\ Len(q) \in Nat \ {0} /\ Len(Tail(q)) = Len(q) - 1
      /\ Head(q) = q[1] /\ Head(q) \in Signals /\ DOMAIN q = 1 .. Len(q) /\ DOMAIN Tail(q) = 1 .. Len(q) - 1
      /\ \A n \in 1 .. Len(q) - 1 : Tail(q)[n] = q[n + 1]
  OBVIOUS
<1>2. \A n \in DOMAIN q : n = 1 \/ (n - 1 \in DOMAIN Tail(q) /\ q[n] = Tail(q)[n - 1])
  BY <1>1
<1>3. \A n \in DOMAIN Tail(q) : n \in Nat /\ n + 1 \in DOMAIN q /\ q[n + 1] = Tail(q)[n]
  BY <1>1
<1>4. Tells(q, t) <=> IsLevel(Head(q), t) \/ Tells(Tail(q), t)
  <2>1. ASSUME Tells(q, t), ~IsLevel(Head(q), t) PROVE Tells(Tail(q), t)
    <3>1. PICK n \in DOMAIN q : IsLevel(q[n], t)
      BY <2>1 DEF Tells
    <3>2. n - 1 \in DOMAIN Tail(q) /\ IsLevel(Tail(q)[n - 1], t)
      BY <3>1, <2>1, <1>1, <1>2
    <3> QED BY <3>2 DEF Tells
  <2>2. ASSUME Tells(Tail(q), t) PROVE Tells(q, t)
    BY <2>2, <1>3, Zenon DEF Tells
  <2>3. ASSUME IsLevel(Head(q), t) PROVE Tells(q, t)
    BY <2>3, <1>1 DEF Tells
  <2> QED BY <2>1, <2>2, <2>3
<1>5. Screened(q) <=> Head(q).kind = "screen" \/ Screened(Tail(q))
  <2>1. ASSUME Screened(q), Head(q).kind # "screen" PROVE Screened(Tail(q))
    <3>1. PICK n \in DOMAIN q : q[n].kind = "screen"
      BY <2>1 DEF Screened
    <3>2. n - 1 \in DOMAIN Tail(q) /\ Tail(q)[n - 1].kind = "screen"
      BY <3>1, <2>1, <1>1, <1>2
    <3> QED BY <3>2 DEF Screened
  <2>2. ASSUME Screened(Tail(q)) PROVE Screened(q)
    <3>1. PICK n \in DOMAIN Tail(q) : Tail(q)[n].kind = "screen"
      BY <2>2 DEF Screened
    <3>2. n + 1 \in DOMAIN q /\ q[n + 1].kind = "screen"
      BY <3>1, <1>3
    <3> QED BY <3>2 DEF Screened
  <2>3. ASSUME Head(q).kind = "screen" PROVE Screened(q)
    BY <2>3, <1>1 DEF Screened
  <2> QED BY <2>1, <2>2, <2>3
<1>6. ASSUME NEW lit, Says(q, t, lit) PROVE Says(Tail(q), t, lit)
  <2> SUFFICES ASSUME NEW n \in DOMAIN Tail(q), IsLevel(Tail(q)[n], t),
                      \A m \in DOMAIN Tail(q) : IsLevel(Tail(q)[m], t) => m <= n
               PROVE  Tail(q)[n].on = lit
    BY DEF Says
  <2>1. n \in Nat /\ n + 1 \in DOMAIN q /\ IsLevel(q[n + 1], t) /\ q[n + 1] = Tail(q)[n]
    BY <1>3
  <2>2. ASSUME NEW m \in DOMAIN q, IsLevel(q[m], t) PROVE m <= n + 1
    <3>1. CASE m = 1
      BY <3>1, <2>1
    <3>2. CASE m # 1
      <4>1. m - 1 \in DOMAIN Tail(q) /\ IsLevel(Tail(q)[m - 1], t) /\ m \in Nat
        BY <3>2, <2>2, <1>1, <1>2
      <4> QED BY <4>1, <2>1
    <3> QED BY <3>1, <3>2
  <2> QED BY <2>1, <2>2, <1>6 DEF Says
<1>7. ASSUME NEW lit, Says(q, t, lit), IsLevel(Head(q), t), ~Tells(Tail(q), t) PROVE Head(q).on = lit
  <2>1. \A m \in DOMAIN q : IsLevel(q[m], t) => m = 1
    BY <1>2, <1>7 DEF Tells
  <2> QED BY <1>1, <1>7, <2>1 DEF Says
<1> QED BY <1>1, <1>4, <1>5, <1>6, <1>7

LEMMA ConcatTells ==
    ASSUME NEW q \in Seq(Signals), NEW r \in Seq(Signals), NEW t
    PROVE  /\ q \o r \in Seq(Signals)
           /\ Tells(q \o r, t) <=> Tells(q, t) \/ Tells(r, t)
           /\ Screened(q \o r) <=> Screened(q) \/ Screened(r)
           /\ \A lit : Says(r, t, lit) /\ Tells(r, t) => Says(q \o r, t, lit)
           /\ \A lit : Says(q, t, lit) /\ ~Tells(r, t) => Says(q \o r, t, lit)
<1>1. /\ q \o r \in Seq(Signals) /\ Len(q) \in Nat /\ Len(r) \in Nat
      /\ DOMAIN q = 1 .. Len(q) /\ DOMAIN r = 1 .. Len(r) /\ DOMAIN (q \o r) = 1 .. Len(q) + Len(r)
      /\ \A n \in 1 .. Len(q) : (q \o r)[n] = q[n]
      /\ \A n \in 1 .. Len(r) : (q \o r)[Len(q) + n] = r[n]
  OBVIOUS
<1>2. \A n \in DOMAIN (q \o r) :
          (n \in DOMAIN q /\ (q \o r)[n] = q[n]) \/ (n - Len(q) \in DOMAIN r /\ (q \o r)[n] = r[n - Len(q)] /\ n > Len(q))
  <2> SUFFICES ASSUME NEW n \in DOMAIN (q \o r), n \notin DOMAIN q
               PROVE  n - Len(q) \in DOMAIN r /\ (q \o r)[n] = r[n - Len(q)] /\ n > Len(q)
    BY <1>1
  <2>1. n - Len(q) \in DOMAIN r /\ n > Len(q) /\ n = Len(q) + (n - Len(q))
    BY <1>1
  <2> QED BY <2>1, <1>1
<1>3. /\ \A n \in DOMAIN q : n \in DOMAIN (q \o r) /\ (q \o r)[n] = q[n] /\ n <= Len(q) /\ n \in Nat
      /\ \A n \in DOMAIN r : n \in Nat /\ n > 0 /\ Len(q) + n \in DOMAIN (q \o r) /\ (q \o r)[Len(q) + n] = r[n]
  BY <1>1
<1>4. Tells(q \o r, t) <=> Tells(q, t) \/ Tells(r, t)
  BY <1>2, <1>3 DEF Tells
<1>5. Screened(q \o r) <=> Screened(q) \/ Screened(r)
  <2>1. ASSUME Screened(q \o r), ~Screened(q) PROVE Screened(r)
    <3>1. PICK n \in DOMAIN (q \o r) : (q \o r)[n].kind = "screen"
      BY <2>1 DEF Screened
    <3>2. n - Len(q) \in DOMAIN r /\ r[n - Len(q)].kind = "screen"
      BY <3>1, <2>1, <1>2 DEF Screened
    <3> QED BY <3>2 DEF Screened
  <2>2. ASSUME Screened(q) PROVE Screened(q \o r)
    <3>1. PICK n \in DOMAIN q : q[n].kind = "screen"
      BY <2>2 DEF Screened
    <3>2. n \in DOMAIN (q \o r) /\ (q \o r)[n].kind = "screen"
      BY <3>1, <1>3
    <3> QED BY <3>2 DEF Screened
  <2>3. ASSUME Screened(r) PROVE Screened(q \o r)
    <3>1. PICK n \in DOMAIN r : r[n].kind = "screen"
      BY <2>3 DEF Screened
    <3>2. Len(q) + n \in DOMAIN (q \o r) /\ (q \o r)[Len(q) + n].kind = "screen"
      BY <3>1, <1>3
    <3> QED BY <3>2 DEF Screened
  <2> QED BY <2>1, <2>2, <2>3
<1>6. ASSUME NEW lit, Says(r, t, lit), Tells(r, t) PROVE Says(q \o r, t, lit)
  <2> SUFFICES ASSUME NEW n \in DOMAIN (q \o r), IsLevel((q \o r)[n], t),
                      \A m \in DOMAIN (q \o r) : IsLevel((q \o r)[m], t) => m <= n
               PROVE  (q \o r)[n].on = lit
    BY DEF Says
  <2>1. PICK k \in DOMAIN r : IsLevel(r[k], t)
    BY <1>6 DEF Tells
  <2>2. Len(q) + k <= n
    BY <2>1, <1>3
  <2>3. n - Len(q) \in DOMAIN r /\ (q \o r)[n] = r[n - Len(q)]
    BY <2>2, <1>1, <1>2, <1>3
  <2>4. ASSUME NEW m \in DOMAIN r, IsLevel(r[m], t) PROVE m <= n - Len(q)
    <3>1. Len(q) + m <= n /\ m \in Nat /\ Len(q) \in Nat /\ n \in Nat
      BY <2>4, <1>1, <1>3
    <3> QED BY <3>1
  <2> QED BY <2>3, <2>4, <1>6 DEF Says
<1>7. ASSUME NEW lit, Says(q, t, lit), ~Tells(r, t) PROVE Says(q \o r, t, lit)
  <2> SUFFICES ASSUME NEW n \in DOMAIN (q \o r), IsLevel((q \o r)[n], t),
                      \A m \in DOMAIN (q \o r) : IsLevel((q \o r)[m], t) => m <= n
               PROVE  (q \o r)[n].on = lit
    BY DEF Says
  <2>1. n \in DOMAIN q /\ (q \o r)[n] = q[n]
    BY <1>2, <1>7 DEF Tells
  <2>2. ASSUME NEW m \in DOMAIN q, IsLevel(q[m], t) PROVE m <= n
    BY <2>2, <1>3
  <2> QED BY <2>1, <2>2, <1>7 DEF Says
<1> QED BY <1>1, <1>4, <1>5, <1>6, <1>7

LEMMA LevelSignalsFacts ==
    ASSUME NEW S, NEW levels, NEW t
    PROVE  /\ LevelSignals(S, levels) \in Seq(Signals)
           /\ Tells(LevelSignals(S, levels), t) <=> t \in S \cap TouchOutputs
           /\ Says(LevelSignals(S, levels), t, levels[t] # 0)
<1> DEFINE T == S \cap TouchOutputs
           q == LevelSignals(S, levels)
<1>1. IsFiniteSet(T) /\ T \subseteq Nat
  BY OutputsAssumption, FS_Subset
<1>2. Cardinality(T) \in Nat /\ \A n \in 1 .. Cardinality(T) : Nth(T, n) \in T
  BY <1>1, NthFacts, FS_CardinalityType
<1>3. DOMAIN q = 1 .. Cardinality(T)
  BY DEF LevelSignals
<1>4. ASSUME NEW n \in 1 .. Cardinality(T)
      PROVE  q[n].kind = "level" /\ q[n].index = Nth(T, n) /\ q[n].on = (levels[Nth(T, n)] # 0) /\ q[n] \in Signals
  <2>1. q[n] = [kind |-> "level", index |-> Nth(T, n), on |-> levels[Nth(T, n)] # 0]
    BY <1>4 DEF LevelSignals
  <2>2. (levels[Nth(T, n)] # 0) \in BOOLEAN
    BY Zenon
  <2>3. Nth(T, n) \in TouchOutputs
    BY <1>2
  <2> QED BY <2>1, <2>2, <2>3 DEF Signals
<1>5. q \in Seq(Signals)
  <2>1. q \in [1 .. Cardinality(T) -> Signals]
    BY <1>3, <1>4 DEF LevelSignals
  <2> HIDE DEF q, T
  <2>2. \A n \in Nat : [1 .. n -> Signals] \subseteq Seq(Signals)
    BY SeqDef
  <2> QED BY <2>1, <2>2, <1>2
<1>6. Tells(q, t) <=> t \in T
  <2>1. ASSUME Tells(q, t) PROVE t \in T
    <3>1. PICK n \in DOMAIN q : q[n].index = t
      BY <2>1 DEF Tells, IsLevel
    <3> QED BY <3>1, <1>2, <1>3, <1>4
  <2>2. ASSUME t \in T PROVE Tells(q, t)
    <3>1. PICK n \in 1 .. Cardinality(T) : Nth(T, n) = t
      BY <2>2, <1>1, NthFacts
    <3>2. n \in DOMAIN q /\ IsLevel(q[n], t)
      BY <3>1, <1>3, <1>4 DEF IsLevel
    <3> QED BY <3>2 DEF Tells
  <2> QED BY <2>1, <2>2
<1>7. Says(q, t, levels[t] # 0)
  BY <1>3, <1>4 DEF Says, IsLevel
<1> QED BY <1>5, <1>6, <1>7

-----------------------------------------------------------------------------
(* The mapper and the state of an output.                                  *)

\* A level is always given when a speed is.
Actions == [speed : SpeedSet \cup {Keep}, level : Nat \cup {Keep}]
IsAction(a) == a \in Actions /\ (a.level = Keep => a.speed = Keep)

LEMMA NoActionIs == IsAction(NoAction)
  BY DEF NoAction, Action, IsAction, Actions

LEMMA MidiActionIs == ASSUME NEW o, NEW m \in Messages PROVE IsAction(MidiAction(o, m))
<1>1. SpeedOf(m.data2) \in SpeedSet /\ LevelOf(m.data2) \in Nat
  BY OutputsAssumption, SpeedOfValue, LevelOfValue
<1>2. LevelMax \in Nat /\ 0 \in Nat /\ Keep \notin Nat
  BY OutputFacts
<1>3. \A speed \in SpeedSet \cup {Keep}, level \in Nat : IsAction(Action(speed, level))
  BY <1>2 DEF IsAction, Actions, Action
<1> HIDE DEF SpeedOf, LevelOf
<1>4. \/ MidiAction(o, m) = NoAction
      \/ \E level \in {0, LevelMax} : MidiAction(o, m) = Action(Keep, level)
      \/ MidiAction(o, m) = Action(SpeedOf(m.data2), LevelOf(m.data2))
  BY Zenon DEF MidiAction
<1> QED BY <1>1, <1>2, <1>3, <1>4, NoActionIs

LEMMA PresetActionIs == ASSUME NEW settings, NEW o, NEW number PROVE IsAction(PresetAction(settings, o, number))
<1>1. \A level \in Nat : IsAction(Action(Keep, level))
  BY OutputFacts DEF IsAction, Actions, Action
<1>2. \/ PresetAction(settings, o, number) = NoAction
      \/ \E level \in {0, LevelMax} : PresetAction(settings, o, number) = Action(Keep, level)
  BY Zenon DEF PresetAction
<1> QED BY <1>1, <1>2, NoActionIs, OutputFacts

LEMMA OscActionIs == ASSUME NEW value \in OscValues PROVE IsAction(OscAction(value))
<1>1. value \in Int /\ LevelMax \in Nat \ {0}
  BY OutputsAssumption
<1>2. \A level \in Nat : IsAction(Action(Keep, level))
  BY OutputFacts DEF IsAction, Actions, Action
<1>3. (IF value <= 0 THEN 0 ELSE IF value >= LevelMax THEN LevelMax ELSE value) \in Nat
  BY <1>1
<1> QED BY <1>2, <1>3 DEF OscAction

LEMMA OffIs == Off \in OutputBits
  BY OutputFacts DEF Off, OutputBits

LEMMA WithLevelIs ==
    ASSUME NEW out \in OutputBits, NEW level \in Nat
    PROVE  /\ WithLevel(out, level) \in OutputBits /\ WithLevel(out, level).level = level
           /\ WithLevel(out, level).timer = out.timer
<1>1. CASE level = 0
  BY <1>1, OffIs DEF WithLevel, OutputBits, Off
<1>2. CASE level # 0
  BY <1>2 DEF WithLevel, OutputBits
<1> QED BY <1>1, <1>2

LEMMA WithSpeedIs == ASSUME NEW out \in OutputBits, NEW speed \in SpeedSet PROVE WithSpeed(out, speed) \in OutputBits
<1>1. out.active \in BOOLEAN
  BY DEF OutputBits
<1>2. (speed # NoPulse) \in BOOLEAN /\ (speed # NoPulse \/ out.active) \in BOOLEAN
  BY <1>1, Zenon
<1> QED BY <1>2 DEF WithSpeed, OutputBits

LEMMA AppliedIs ==
    ASSUME NEW out \in OutputBits, NEW a, IsAction(a)
    PROVE  /\ Applied(out, a) \in OutputBits
           /\ a.level = Keep => Applied(out, a) = out /\ a = NoAction
           /\ a.level # Keep => Applied(out, a).level = a.level
<1> DEFINE faster == IF a.speed = Keep THEN out ELSE WithSpeed(out, a.speed)
<1>1. a.speed \in SpeedSet \cup {Keep} /\ a.level \in Nat \cup {Keep}
  BY DEF IsAction, Actions
<1>2. faster \in OutputBits
  BY <1>1, WithSpeedIs
<1>3. CASE a.level = Keep
  <2>1. a.speed = Keep
    BY <1>3 DEF IsAction
  <2>2. Applied(out, a) = out
    BY <1>3, <2>1 DEF Applied
  <2>3. a = NoAction
    BY <1>3, <2>1 DEF IsAction, Actions, NoAction, Action
  <2> QED BY <1>3, <2>2, <2>3
<1>4. CASE a.level # Keep
  <2>1. a.level \in Nat /\ Applied(out, a) = WithLevel(faster, a.level)
    BY <1>1, <1>4 DEF Applied
  <2> HIDE DEF faster
  <2> QED BY <1>2, <1>4, <2>1, WithLevelIs
<1> QED BY <1>3, <1>4

LEMMA DrivenIs ==
    ASSUME NEW o, NEW level \in Nat
    PROVE  Driven(o, level) \in Nat /\ (Driven(o, level) # 0 <=> level # 0)
  BY OutputFacts DEF Driven

-----------------------------------------------------------------------------
(* Levels that are written travel to the icons.                            *)

\* The bus gets levels and announcements, and shows the levels.
BusGrows ==
    /\ Foretold'
    /\ \A t \in TouchOutputs : Tells(bus', t) \/ (shown'[t] = shown[t] /\ ~Tells(bus, t))
    /\ Screened(bus) => Screened(bus')

LEMMA WritesGrow ==
    ASSUME shown \in [OutputIndices -> Nat], bus \in Seq(Signals), Foretold,
           NEW S \in SUBSET OutputIndices, NEW levels \in [OutputIndices -> Nat], WriteLevels(S, levels)
    PROVE  /\ shown' \in [OutputIndices -> Nat] /\ bus' \in Seq(Signals) /\ BusGrows
           /\ \A o \in OutputIndices : shown'[o] = IF o \in S THEN Driven(o, levels[o]) ELSE shown[o]
<1> DEFINE q == LevelSignals(S, levels)
<1>1. bus' = bus \o q /\ shown' = [o \in OutputIndices |-> IF o \in S THEN Driven(o, levels[o]) ELSE shown[o]]
  BY DEF WriteLevels, Written
<1>2. /\ q \in Seq(Signals)
      /\ \A t : (Tells(q, t) <=> t \in S \cap TouchOutputs) /\ Says(q, t, levels[t] # 0)
  BY LevelSignalsFacts
<1> HIDE DEF q
<1>3. shown' \in [OutputIndices -> Nat] /\ \A o \in OutputIndices : levels[o] \in Nat
  BY <1>1, DrivenIs
<1>4. ASSUME NEW t \in TouchOutputs
      PROVE  /\ Says(bus', t, shown'[t] # 0)
             /\ Tells(bus', t) \/ (shown'[t] = shown[t] /\ ~Tells(bus, t))
  <2>1. t \in OutputIndices /\ Says(bus, t, shown[t] # 0)
    BY OutputFacts DEF Foretold
  <2>2. CASE t \in S
    <3>1. Tells(q, t) /\ Says(q, t, shown'[t] # 0)
      <4>1. (shown'[t] # 0) <=> (levels[t] # 0)
        BY <1>1, <1>3, <2>1, <2>2, DrivenIs
      <4>2. (shown'[t] # 0) = (levels[t] # 0)
        BY <4>1, Zenon
      <4> QED BY <1>2, <2>2, <4>2
    <3> QED BY <3>1, <1>1, <1>2, ConcatTells
  <2>3. CASE t \notin S
    <3>1. ~Tells(q, t) /\ shown'[t] = shown[t]
      BY <1>1, <1>2, <2>1, <2>3
    <3> QED BY <3>1, <2>1, <1>1, <1>2, ConcatTells
  <2> QED BY <2>2, <2>3
<1>5. bus' \in Seq(Signals) /\ (Screened(bus) => Screened(bus'))
  BY <1>1, <1>2, ConcatTells
<1> QED BY <1>1, <1>3, <1>4, <1>5 DEF BusGrows, Foretold

\* A step of the outputs.
LEMMA QuietTouch ==
    ASSUME FeedbackInv, UNCHANGED touchVars, BusGrows
    PROVE  TouchTyped' /\ IconsInv' /\ PageInv'
<1>1. /\ screen' = screen /\ initialized' = initialized /\ display' = display /\ turning' = turning
      /\ missed' = missed /\ strayed' = strayed /\ crossed' = crossed
  BY DEF touchVars, ghostVars
<1>2. TouchTyped' /\ PageInv'
  BY <1>1 DEF FeedbackInv, TouchTyped, PageInv, OnScreen
<1>3. ASSUME NEW t \in TouchOutputs PROVE IconInv(t)'
  <2>1. IconInv(t)
    BY DEF FeedbackInv, IconsInv
  <2>2. Tells(bus', t) \/ (shown'[t] = shown[t] /\ ~Tells(bus, t))
    BY DEF BusGrows
  <2> QED BY <1>1, <2>1, <2>2 DEF IconInv, OnScreen, Drawn, BusGrows
<1> QED BY <1>2, <1>3 DEF IconsInv, BusGrows

LEMMA StillTouch ==
    ASSUME FeedbackInv, UNCHANGED touchVars, shown' = shown, bus' = bus
    PROVE  TouchTyped' /\ IconsInv' /\ PageInv'
<1>2. /\ screen' = screen /\ initialized' = initialized /\ display' = display /\ turning' = turning
      /\ missed' = missed /\ strayed' = strayed /\ crossed' = crossed
  BY DEF touchVars, ghostVars
<1>3. TouchTyped' /\ PageInv'
  BY <1>2 DEF FeedbackInv, TouchTyped, PageInv, OnScreen
<1> QED BY <1>2, <1>3 DEF FeedbackInv, IconsInv, IconInv, Foretold, OnScreen, Drawn

-----------------------------------------------------------------------------
(* The thread.                                                             *)

LEMMA NextSpeedIs == ASSUME NEW t \in TaskType PROVE NextSpeed(t) \in TaskType /\ NextSpeed(t).at \in {"count", "gate"}
<1>1. AtGate \in TaskType /\ AtGate.at = "gate"
  BY OffIs, OutputFacts DEF AtGate, Task, TaskType
<1>2. CASE t.speed + 1 \in SpeedSet
  BY <1>2 DEF NextSpeed, TaskType
<1> QED BY <1>1, <1>2 DEF NextSpeed

LEMMA NextOutputIs ==
    ASSUME NEW t \in TaskType, NEW o \in Nat
    PROVE  /\ NextOutput(t, o) \in TaskType
           /\ \/ /\ NextOutput(t, o).at = "read" /\ NextOutput(t, o).speed = t.speed
                 /\ NextOutput(t, o).next \in OutputIndices /\ NextOutput(t, o).next >= o
                 /\ \A p \in OutputIndices : p >= o /\ Pulsing(t.speed, p) => NextOutput(t, o).next <= p
              \/ /\ NextOutput(t, o).at \in {"count", "gate"}
                 /\ \A p \in OutputIndices : p >= o => ~Pulsing(t.speed, p)
<1> DEFINE ahead == {p \in Following(o) : Pulsing(t.speed, p)}
           first == CHOOSE p \in ahead : \A q \in ahead : p <= q
<1>1. ahead = {p \in OutputIndices : p >= o /\ Pulsing(t.speed, p)} /\ ahead \subseteq Nat
  BY OutputFacts DEF Following
<1>2. CASE ahead = {}
  BY <1>1, <1>2, NextSpeedIs DEF NextOutput
<1>3. CASE ahead # {}
  <2>1. first \in ahead /\ \A q \in ahead : first <= q
    <3>1. \E p \in ahead : \A q \in ahead : p <= q
      BY <1>1, <1>3, LeastIndex
    <3> QED BY <3>1
  <2>2. NextOutput(t, o) = [t EXCEPT !.at = "read", !.next = first]
    BY <1>3 DEF NextOutput
  <2>3. first \in OutputIndices /\ first \in Nat
    BY <1>1, <2>1
  <2> HIDE DEF first
  <2>4. NextOutput(t, o) \in TaskType /\ NextOutput(t, o).at = "read" /\ NextOutput(t, o).speed = t.speed
        /\ NextOutput(t, o).next = first
    BY <2>2, <2>3 DEF TaskType
  <2> QED BY <1>1, <2>1, <2>3, <2>4
<1> QED BY <1>2, <1>3

\* A step outside of the loop that leaves the outputs alone.
LEMMA NoLoop ==
    ASSUME OutputsTyped, HeldInv, TogetherInv, output' = output, shown' = shown, joined' = joined, raced' = raced,
           ~InLoop, ~InLoop'
    PROVE  HeldInv' /\ TogetherInv'
<1>1. HeldInv'
  BY DEF HeldInv, HandInv, ShownIsHeld, InLoop
<1>2. TogetherInv'
  BY DEF TogetherInv, TaskSpeed, OthersAlike, PassedToggled, RestAlike, InLoop, Pulsing, Alike
<1> QED BY <1>1, <1>2

\* A step that leaves thread and outputs alone.
LEMMA SameLoop ==
    ASSUME OutputsTyped, HeldInv, TogetherInv, output' = output, shown' = shown, joined' = joined, raced' = raced,
           task' = task, pulse'.state = pulse.state
    PROVE  HeldInv' /\ TogetherInv'
<1>1. HeldInv'
  BY DEF HeldInv, HandInv, ShownIsHeld
<1>2. TogetherInv'
  BY DEF TogetherInv, TaskSpeed, OthersAlike, PassedToggled, RestAlike, InLoop, Pulsing, Alike, Passed
<1> QED BY <1>1, <1>2

LEMMA IdleSteps ==
    ASSUME OutputsTyped, HeldInv, TogetherInv, PassGate \/ TakeUpdate \/ CheckMode
    PROVE  OutputsTyped' /\ HeldInv' /\ TogetherInv'
<1>1. \A at \in {"gate", "wait", "process"} : \A force \in BOOLEAN : Task(at, force) \in TaskType /\ Task(at, force).at = at
  BY OffIs, OutputFacts DEF Task, TaskType
<1>2. CASE PassGate
  <2>1. task'.at = "wait" /\ task' \in TaskType
    BY <1>1, <1>2 DEF PassGate
  <2>2. OutputsTyped'
    BY <1>2, <2>1 DEF PassGate, OutputsTyped, InLoop, levelState, settingState
  <2> QED BY <1>2, <2>1, <2>2, NoLoop DEF PassGate, InLoop, levelState
<1>3. CASE TakeUpdate
  <2>1. task'.at = "process" /\ task' \in TaskType
    BY <1>1, <1>3 DEF TakeUpdate, OutputsTyped
  <2>3. updates' \in Nat /\ forced' \in BOOLEAN
    <3>1. updates \in Nat /\ updates > 0 /\ updates' = updates - 1
      BY <1>3, Zenon DEF TakeUpdate, OutputsTyped
    <3>2. forced' = FALSE
      BY <1>3, Zenon DEF TakeUpdate
    <3>3. forced' \in BOOLEAN
      BY <3>2, Zenon
    <3>4. updates' \in Nat
      BY <3>1
    <3> QED BY <3>3, <3>4
  <2>4. /\ output' = output /\ shown' = shown /\ bus' = bus /\ pulse' = pulse /\ ioFrozen' = ioFrozen
        /\ joined' = joined /\ raced' = raced /\ preset' = preset
    BY <1>3 DEF TakeUpdate, levelState, settingState
  <2>2. OutputsTyped'
    BY <2>1, <2>3, <2>4 DEF OutputsTyped, InLoop
  <2> QED BY <1>3, <2>1, <2>2, NoLoop DEF TakeUpdate, InLoop, levelState
<1>4. CASE CheckMode
  <2>1. task'.at \in {"count", "gate"} /\ task' \in TaskType
    <3>1. task \in TaskType /\ (task' = [task EXCEPT !.at = "count"] \/ task' = AtGate)
      BY <1>4, Zenon DEF CheckMode, OutputsTyped
    <3>2. [task EXCEPT !.at = "count"] \in TaskType /\ [task EXCEPT !.at = "count"].at = "count"
      BY <3>1 DEF TaskType
    <3> QED BY <3>1, <3>2, <1>1 DEF AtGate
  <2>2. OutputsTyped'
    BY <1>4, <2>1 DEF CheckMode, OutputsTyped, InLoop, levelState, settingState
  <2> QED BY <1>4, <2>1, <2>2, NoLoop DEF CheckMode, InLoop, levelState
<1> QED BY <1>2, <1>3, <1>4

LEMMA CountHolds ==
    ASSUME OutputsTyped, HeldInv, TogetherInv, Count
    PROVE  OutputsTyped' /\ HeldInv' /\ TogetherInv'
<1> DEFINE s == task.speed
<1>1. s \in SpeedSet /\ task \in TaskType /\ task.at = "count" /\ ~InLoop
  BY DEF OutputsTyped, TaskType, Count, InLoop
<1>2. /\ output' = output /\ shown' = shown /\ joined' = joined /\ raced' = raced /\ bus' = bus
      /\ updates' = updates /\ forced' = forced /\ ioFrozen' = ioFrozen /\ preset' = preset
  BY DEF Count, levelState, settingState
<1>3. CASE ~Toggles(s)
  <2>1. task' = NextSpeed(task) /\ pulse' = [pulse EXCEPT !.counter[s] = @ + 1]
    BY <1>3 DEF Count
  <2>2. task' \in TaskType /\ ~InLoop'
    BY <1>1, <2>1, NextSpeedIs DEF InLoop
  <2>3. pulse' \in [mode : {"Timer", "MidiClock"}, counter : [SpeedSet -> Nat], state : [SpeedSet -> BOOLEAN]]
    <3>1. pulse \in [mode : {"Timer", "MidiClock"}, counter : [SpeedSet -> Nat], state : [SpeedSet -> BOOLEAN]]
      BY DEF OutputsTyped
    <3>2. pulse.counter \in [SpeedSet -> Nat] /\ pulse.counter[s] + 1 \in Nat
      BY <1>1, <3>1
    <3>3. [pulse.counter EXCEPT ![s] = @ + 1] \in [SpeedSet -> Nat]
      BY <1>1, <3>2
    <3> HIDE DEF s
    <3>4. pulse' = [pulse EXCEPT !.counter = [pulse.counter EXCEPT ![s] = @ + 1]]
      BY <2>1, <3>1
    <3> QED BY <3>1, <3>3, <3>4
  <2>4. OutputsTyped'
    BY <1>2, <2>2, <2>3 DEF OutputsTyped
  <2> QED BY <1>1, <1>2, <2>2, <2>4, NoLoop
<1>4. CASE Toggles(s)
  <2>1. task' = NextOutput(task, 0) /\ pulse' = [pulse EXCEPT !.counter[s] = 0, !.state[s] = ~@]
    BY <1>4 DEF Count
  <2>2. pulse' \in [mode : {"Timer", "MidiClock"}, counter : [SpeedSet -> Nat], state : [SpeedSet -> BOOLEAN]]
    BY <1>1, <2>1 DEF OutputsTyped
  <2>3. /\ task' \in TaskType
        /\ InLoop' => /\ task'.at = "read" /\ task'.speed = s /\ task'.next \in OutputIndices
                      /\ \A p \in OutputIndices : Pulsing(s, p) => task'.next <= p
    <3>1. 0 \in Nat /\ \A p \in OutputIndices : p >= 0
      BY OutputFacts
    <3>2. /\ NextOutput(task, 0) \in TaskType
          /\ \/ /\ NextOutput(task, 0).at = "read" /\ NextOutput(task, 0).speed = s
                /\ NextOutput(task, 0).next \in OutputIndices
                /\ \A p \in OutputIndices : p >= 0 /\ Pulsing(s, p) => NextOutput(task, 0).next <= p
             \/ NextOutput(task, 0).at \in {"count", "gate"}
      BY <1>1, <3>1, NextOutputIs, Zenon
    <3>3. task' = NextOutput(task, 0)
      BY <2>1
    <3> QED BY <3>1, <3>2, <3>3 DEF InLoop
  <2>4. OutputsTyped'
    BY <1>2, <2>2, <2>3 DEF OutputsTyped
  <2>5. HeldInv'
    BY <1>1, <1>2, <2>3 DEF HeldInv, HandInv, ShownIsHeld, InLoop
  <2>6. CASE ~InLoop'
    BY <1>1, <1>2, <2>4, <2>6, NoLoop
  <2>7. CASE InLoop'
    <3>1. \A sp, p : Pulsing(sp, p)' = Pulsing(sp, p)
      BY <1>2 DEF Pulsing
    <3>2. \A p \in joined : Pulsing(s, p) => ~Passed(p)'
      <4>1. \A p \in joined : p \in OutputIndices /\ p \in Nat
        BY OutputFacts DEF OutputsTyped
      <4>2. task'.next \in Nat /\ task'.at = "read"
        BY <2>3, <2>7, OutputFacts
      <4> QED BY <2>3, <2>7, <4>1, <4>2 DEF Passed
    <3>3. TogetherInv'
      BY <1>1, <1>2, <2>3, <2>7, <3>1, <3>2 DEF TogetherInv, TaskSpeed, OthersAlike, PassedToggled, RestAlike, Alike
    <3> QED BY <2>4, <2>5, <3>3
  <2> QED BY <2>6, <2>7, <2>4
<1> QED BY <1>3, <1>4

\* The loop goes on behind an output it has dealt with.
LEMMA LoopGoesOn ==
    ASSUME OutputsTyped, TogetherInv, InLoop, output' = output, joined' = joined, pulse' = pulse,
           task' = NextOutput(task, task.next + 1), ~Pulsing(task.speed, task.next) \/ task.at = "write"
    PROVE  task' \in TaskType /\ (InLoop' => task'.at = "read" /\ task'.next \in OutputIndices) /\ TogetherInv'
<1> DEFINE s == task.speed
<1>1. task \in TaskType /\ task.next \in Nat /\ task.next \in OutputIndices /\ s \in SpeedSet
      /\ joined \subseteq OutputIndices /\ OutputIndices \subseteq Nat
  BY OutputFacts DEF OutputsTyped, TaskType
<1>2. /\ task' \in TaskType
      /\ \/ /\ task'.at = "read" /\ task'.speed = s /\ task'.next \in OutputIndices
            /\ task'.next >= task.next + 1
            /\ \A p \in OutputIndices : p >= task.next + 1 /\ Pulsing(s, p) => task'.next <= p
         \/ /\ task'.at \in {"count", "gate"}
            /\ \A p \in OutputIndices : p >= task.next + 1 => ~Pulsing(s, p)
  <2>1. task.next + 1 \in Nat
    BY <1>1
  <2>2. /\ NextOutput(task, task.next + 1) \in TaskType
        /\ \/ /\ NextOutput(task, task.next + 1).at = "read" /\ NextOutput(task, task.next + 1).speed = s
              /\ NextOutput(task, task.next + 1).next \in OutputIndices
              /\ NextOutput(task, task.next + 1).next >= task.next + 1
              /\ \A p \in OutputIndices :
                    p >= task.next + 1 /\ Pulsing(s, p) => NextOutput(task, task.next + 1).next <= p
           \/ /\ NextOutput(task, task.next + 1).at \in {"count", "gate"}
              /\ \A p \in OutputIndices : p >= task.next + 1 => ~Pulsing(s, p)
    BY <1>1, <2>1, NextOutputIs, Zenon
  <2> QED BY <2>2
<1>3. \A sp, p : Pulsing(sp, p)' = Pulsing(sp, p)
  BY DEF Pulsing
<1>4. \A p \in joined : Pulsing(s, p) /\ p < task.next + 1 => Passed(p)
  BY <1>1 DEF Passed
<1>5. CASE InLoop'
  <2>1. task'.at = "read" /\ task'.speed = s /\ task'.next \in OutputIndices /\ task'.next \in Nat
        /\ task'.next >= task.next + 1
        /\ \A p \in OutputIndices : p >= task.next + 1 /\ Pulsing(s, p) => task'.next <= p
    BY <1>1, <1>2, <1>5 DEF InLoop
  <2>2. \A p \in joined : Pulsing(s, p) /\ Passed(p)' => Passed(p)
    BY <1>1, <1>4, <2>1 DEF Passed
  <2>3. \A p \in joined : ~Passed(p)' => ~Passed(p)
    BY <1>1, <2>1 DEF Passed
  <2>4. \A p, q \in joined : Pulsing(s, p) /\ Pulsing(s, q) /\ ~Passed(p)' /\ ~Passed(q)' => Alike(p, q)
    BY <2>3 DEF TogetherInv, TaskSpeed, OthersAlike, PassedToggled, RestAlike, Alike
  <2>5. TogetherInv'
    BY <1>3, <2>1, <2>2, <2>4, <1>5 DEF TogetherInv, TaskSpeed, OthersAlike, PassedToggled, RestAlike, Alike
  <2> QED BY <1>2, <2>1, <2>5
<1>6. CASE ~InLoop'
  <2>1. \A p \in OutputIndices : p >= task.next + 1 => ~Pulsing(s, p)
    BY <1>2, <1>6 DEF InLoop
  <2>2. \A p \in joined : Pulsing(s, p) => output[p].state = pulse.state[s]
    <3>1. \A p \in joined : p \in Nat /\ p \in OutputIndices
      BY <1>1
    <3>2. \A p \in joined : Pulsing(s, p) => Passed(p)
      BY <1>1, <1>4, <2>1, <3>1
    <3> QED BY <3>2 DEF TogetherInv, PassedToggled
  <2>3. \A sp \in SpeedSet : \A p, q \in joined : Pulsing(sp, p) /\ Pulsing(sp, q) => Alike(p, q)
    BY <2>2 DEF TogetherInv, TaskSpeed, OthersAlike, PassedToggled, RestAlike, Alike
  <2>4. task'.at \notin {"store", "write"}
    BY <1>6 DEF InLoop
  <2>5. TogetherInv'
    BY <1>3, <1>6, <2>3, <2>4 DEF TogetherInv, TaskSpeed, OthersAlike, PassedToggled, RestAlike, Alike
  <2> QED BY <1>2, <1>6, <2>5
<1> QED BY <1>5, <1>6

LEMMA ReadHolds ==
    ASSUME OutputsTyped, HeldInv, TogetherInv, ReadBits
    PROVE  OutputsTyped' /\ HeldInv' /\ TogetherInv'
<1> DEFINE o == task.next
<1>1. task \in TaskType /\ task.at = "read" /\ InLoop /\ o \in OutputIndices /\ output[o] \in OutputBits
  BY DEF OutputsTyped, ReadBits, InLoop
<1>2. /\ output' = output /\ shown' = shown /\ joined' = joined /\ raced' = raced /\ bus' = bus /\ pulse' = pulse
      /\ updates' = updates /\ forced' = forced /\ ioFrozen' = ioFrozen /\ preset' = preset
  BY DEF ReadBits, levelState, settingState
<1>3. CASE Pulsing(task.speed, o)
  <2>1. task' = [task EXCEPT !.at = "store", !.read = output[o]]
    BY <1>3 DEF ReadBits
  <2>2. /\ task' \in TaskType /\ task'.at = "store" /\ task'.next = o /\ task'.speed = task.speed
        /\ task'.read = output[o]
    BY <1>1, <2>1 DEF TaskType
  <2>3. OutputsTyped'
    BY <1>1, <1>2, <2>2 DEF OutputsTyped
  <2>4. HeldInv'
    BY <1>1, <1>2, <1>3, <2>2 DEF HeldInv, HandInv, ShownIsHeld, Pulsing
  <2>5. TogetherInv'
    <3>1. \A p : Passed(p)' <=> Passed(p)
      BY <1>1, <2>2 DEF Passed
    <3> QED BY <1>1, <1>2, <1>3, <2>2, <3>1 DEF TogetherInv, TaskSpeed, OthersAlike, PassedToggled, RestAlike, Pulsing, Alike, InLoop
  <2> QED BY <2>3, <2>4, <2>5
<1>4. CASE ~Pulsing(task.speed, o)
  <2>1. task' = NextOutput(task, task.next + 1)
    BY <1>4 DEF ReadBits
  <2>2. task' \in TaskType /\ (InLoop' => task'.at = "read" /\ task'.next \in OutputIndices) /\ TogetherInv'
    BY <1>1, <1>2, <1>4, <2>1, LoopGoesOn
  <2>3. OutputsTyped'
    BY <1>2, <2>2 DEF OutputsTyped
  <2>4. HeldInv'
    BY <1>1, <1>2, <2>2 DEF HeldInv, HandInv, ShownIsHeld, InLoop
  <2> QED BY <2>2, <2>3, <2>4
<1> QED BY <1>3, <1>4

LEMMA StoreHolds ==
    ASSUME OutputsTyped, HeldInv, TogetherInv, StoreBits
    PROVE  OutputsTyped' /\ HeldInv' /\ TogetherInv'
<1>0. PICK o \in OutputIndices, s \in SpeedSet : o = task.next /\ s = task.speed
  BY DEF OutputsTyped, StoreBits, InLoop, TaskType
<1> DEFINE state == pulse.state[s]
           level == IF state THEN output[o].level ELSE 0
<1>1. /\ task \in TaskType /\ task.at = "store" /\ InLoop /\ o \in OutputIndices /\ output[o] \in OutputBits
      /\ s \in SpeedSet /\ task.read \in OutputBits /\ task.read.pulseOn /\ output[o].timer = s
      /\ OutputIndices \subseteq Nat
  BY <1>0, OutputFacts DEF OutputsTyped, StoreBits, InLoop, TaskType, HeldInv, HandInv, TogetherInv, TaskSpeed
<1>2. /\ shown' = shown /\ raced' = raced /\ bus' = bus /\ pulse' = pulse
      /\ updates' = updates /\ forced' = forced /\ ioFrozen' = ioFrozen /\ preset' = preset
      /\ joined' = joined \cup {o}
      /\ output' = [output EXCEPT ![o] = [task.read EXCEPT !.state = state, !.level = output[o].level,
                                                           !.timer = output[o].timer]]
      /\ task' = [task EXCEPT !.at = "write", !.read = [@ EXCEPT !.level = level]]
  BY <1>0 DEF StoreBits, settingState, Toggled
<1>3. state \in BOOLEAN /\ level \in Nat /\ level \in {0, output[o].level}
  <2>1. state \in BOOLEAN
    BY <1>1 DEF OutputsTyped
  <2>2. level \in {0, output[o].level} /\ output[o].level \in Nat
    BY <1>1 DEF OutputBits
  <2> QED BY <2>1, <2>2
<1> HIDE DEF state, level
<1>4. /\ task' \in TaskType /\ task'.at = "write" /\ task'.next = o /\ task'.speed = s /\ task'.read.level = level
  BY <1>0, <1>1, <1>2, <1>3 DEF TaskType, OutputBits
<1>5. /\ output' \in [OutputIndices -> OutputBits]
      /\ output'[o].state = state /\ output'[o].level = output[o].level /\ output'[o].timer = s
      /\ output'[o].pulseOn = task.read.pulseOn
      /\ \A p \in OutputIndices : p # o => output'[p] = output[p]
  <2> DEFINE new == [task.read EXCEPT !.state = state, !.level = output[o].level, !.timer = output[o].timer]
  <2>1. /\ new \in OutputBits /\ new.state = state /\ new.level = output[o].level /\ new.timer = output[o].timer
        /\ new.pulseOn = task.read.pulseOn
    BY <1>1, <1>3 DEF OutputBits
  <2> HIDE DEF new
  <2>2. output' = [output EXCEPT ![o] = new] /\ output \in [OutputIndices -> OutputBits]
    BY <1>2 DEF OutputsTyped, new
  <2> QED BY <1>1, <2>1, <2>2
<1>6. OutputsTyped'
  BY <1>1, <1>2, <1>4, <1>5 DEF OutputsTyped, InLoop
<1>7. HeldInv'
  <2>1. ShownIsHeld'
    BY <1>0, <1>1, <1>2, <1>4, <1>5 DEF HeldInv, ShownIsHeld
  <2>2. HandInv'
    BY <1>1, <1>3, <1>4, <1>5 DEF HandInv
  <2> QED BY <2>1, <2>2 DEF HeldInv
<1>8. TogetherInv'
  <2>1. InLoop' /\ \A p \in joined' : p = o \/ (p # o /\ p \in joined /\ output'[p] = output[p] /\ p \in OutputIndices)
    BY <1>1, <1>2, <1>4, <1>5 DEF InLoop, OutputsTyped
  <2>2. /\ \A sp, p : p \in joined' /\ p # o => (Pulsing(sp, p)' <=> Pulsing(sp, p))
        /\ \A sp : Pulsing(sp, o)' => sp = s
    BY <1>5, <2>1 DEF Pulsing
  <2>3. /\ Passed(o)' /\ \A p \in joined' : p # o => (Passed(p)' <=> Passed(p))
    BY <1>0, <1>1, <1>4, <2>1 DEF Passed
  <2>4. TaskSpeed'
    BY <1>4, <1>5 DEF TaskSpeed
  <2>5. OthersAlike'
    BY <1>0, <1>1, <1>4, <2>1, <2>2 DEF TogetherInv, OthersAlike, Alike
  <2>6. PassedToggled'
    BY <1>0, <1>1, <1>2, <1>4, <1>5, <2>1, <2>2, <2>3 DEF TogetherInv, PassedToggled, state
  <2>7. RestAlike'
    BY <1>0, <1>1, <1>4, <2>1, <2>2, <2>3 DEF TogetherInv, RestAlike, Alike
  <2> QED BY <2>4, <2>5, <2>6, <2>7 DEF TogetherInv
<1> QED BY <1>6, <1>7, <1>8

LEMMA ToggleHolds ==
    ASSUME OutputsTyped, HeldInv, TogetherInv, Foretold, WriteToggled
    PROVE  OutputsTyped' /\ HeldInv' /\ TogetherInv' /\ BusGrows
<1>0. PICK o \in OutputIndices : o = task.next
  BY DEF OutputsTyped, WriteToggled, InLoop
<1> DEFINE levels == [p \in OutputIndices |-> task.read.level]
<1>1. task \in TaskType /\ task.at = "write" /\ InLoop /\ o \in OutputIndices /\ task.read.level \in Nat
  BY <1>0 DEF OutputsTyped, WriteToggled, InLoop, TaskType, OutputBits
<1>2. /\ output' = output /\ joined' = joined /\ raced' = raced /\ pulse' = pulse
      /\ updates' = updates /\ forced' = forced /\ ioFrozen' = ioFrozen /\ preset' = preset
      /\ WriteLevels({o}, levels) /\ task' = NextOutput(task, task.next + 1)
  BY <1>0 DEF WriteToggled, settingState
<1>3. levels \in [OutputIndices -> Nat] /\ levels[o] = task.read.level
  BY <1>1
<1> HIDE DEF levels
<1>4. /\ shown' \in [OutputIndices -> Nat] /\ bus' \in Seq(Signals) /\ BusGrows
      /\ \A p \in OutputIndices : shown'[p] = IF p \in {o} THEN Driven(p, levels[p]) ELSE shown[p]
  <2>1. {o} \in SUBSET OutputIndices /\ shown \in [OutputIndices -> Nat] /\ bus \in Seq(Signals) /\ WriteLevels({o}, levels)
    BY <1>2 DEF OutputsTyped
  <2> QED BY <1>3, <2>1, WritesGrow, Zenon
<1>5. task' \in TaskType /\ (InLoop' => task'.at = "read" /\ task'.next \in OutputIndices) /\ TogetherInv'
  BY <1>1, <1>2, LoopGoesOn
<1>6. OutputsTyped'
  BY <1>2, <1>4, <1>5 DEF OutputsTyped
<1>7. task'.at \notin {"store", "write"}
  BY <1>5 DEF InLoop
<1>8. ASSUME NEW p \in OutputIndices, p \notin raced
      PROVE  shown'[p] = Driven(p, output[p].level) \/ (output[p].pulseOn /\ shown'[p] = 0)
  <2>1. CASE p = o
    <3>1. shown'[o] = Driven(o, task.read.level) /\ Driven(o, 0) = 0
      BY <1>1, <1>3, <1>4 DEF Driven
    <3>2. output[o].pulseOn /\ task.read.level \in {0, output[o].level}
      BY <1>0, <1>1, <1>8, <2>1 DEF HeldInv, HandInv
    <3> QED BY <2>1, <3>1, <3>2
  <2>2. CASE p # o
    BY <1>0, <1>4, <1>8, <2>2 DEF HeldInv, ShownIsHeld
  <2> QED BY <2>1, <2>2
<1>9. HeldInv'
  BY <1>2, <1>7, <1>8 DEF HeldInv, HandInv, ShownIsHeld
<1> QED BY <1>4, <1>5, <1>6, <1>9

-----------------------------------------------------------------------------
(* The subscribers and the writes.                                         *)

\* A step, while the thread does not hold the mutex, that writes outputs as they are.
LEMMA WrittenHolds ==
    ASSUME OutputsTyped, HeldInv, TogetherInv, ~InLoop, ~InLoop', raced' = raced, joined' \subseteq joined,
           \A o \in joined' : output'[o] = output[o],
           \A o \in OutputIndices :
               shown'[o] = Driven(o, output'[o].level) \/ (shown'[o] = shown[o] /\ output'[o] = output[o])
    PROVE  HeldInv' /\ TogetherInv'
<1>1. HeldInv'
  BY DEF HeldInv, HandInv, ShownIsHeld, InLoop
<1>2. TaskSpeed' /\ PassedToggled' /\ RestAlike'
  BY DEF TaskSpeed, PassedToggled, RestAlike, InLoop
<1>3. OthersAlike'
  BY DEF TogetherInv, OthersAlike, Pulsing, Alike
<1> QED BY <1>1, <1>2, <1>3 DEF TogetherInv

LEMMA ApplyHolds ==
    ASSUME OutputsTyped, HeldInv, TogetherInv, Foretold, ~Locked, task' = task, raced' = raced,
           NEW actions, \A o \in OutputIndices : IsAction(actions[o]), ApplyActions(actions)
    PROVE  /\ output' \in [OutputIndices -> OutputBits] /\ shown' \in [OutputIndices -> Nat] /\ bus' \in Seq(Signals)
           /\ joined' \subseteq OutputIndices /\ HeldInv' /\ TogetherInv' /\ BusGrows
<1> DEFINE S == {o \in OutputIndices : actions[o].level # Keep}
           levels == LevelsOf(output')
<1>1. /\ output' = [o \in OutputIndices |-> Applied(output[o], actions[o])] /\ WriteLevels(S, levels)
      /\ joined' = joined \ {o \in OutputIndices : actions[o] # NoAction}
  BY DEF ApplyActions
<1>2. \A o \in OutputIndices : output[o] \in OutputBits
  BY DEF OutputsTyped
<1>3. output' \in [OutputIndices -> OutputBits] /\ \A o \in OutputIndices : o \notin S => output'[o] = output[o]
  BY <1>1, <1>2, AppliedIs
<1>4. levels \in [OutputIndices -> Nat] /\ \A o \in OutputIndices : levels[o] = output'[o].level
  BY <1>3 DEF LevelsOf, OutputBits
<1>5. S \in SUBSET OutputIndices /\ shown \in [OutputIndices -> Nat] /\ bus \in Seq(Signals)
  BY DEF OutputsTyped
<1> HIDE DEF S, levels
<1>6. /\ shown' \in [OutputIndices -> Nat] /\ bus' \in Seq(Signals) /\ BusGrows
      /\ \A o \in OutputIndices : shown'[o] = IF o \in S THEN Driven(o, levels[o]) ELSE shown[o]
  BY <1>1, <1>4, <1>5, WritesGrow, Zenon
<1>7. joined' \subseteq joined /\ joined' \subseteq OutputIndices /\ \A o \in joined' : output'[o] = output[o]
  <2>1. joined' \subseteq joined /\ joined' \subseteq OutputIndices /\ \A o \in joined' : actions[o] = NoAction
    BY <1>1 DEF OutputsTyped
  <2>2. NoAction.level = Keep
    BY DEF NoAction, Action
  <2> QED BY <1>3, <2>1, <2>2 DEF S
<1>8. ~InLoop /\ ~InLoop'
  BY DEF Locked, InLoop
<1>9. \A o \in OutputIndices :
          shown'[o] = Driven(o, output'[o].level) \/ (shown'[o] = shown[o] /\ output'[o] = output[o])
  BY <1>3, <1>4, <1>6
<1>10. HeldInv' /\ TogetherInv'
  BY <1>7, <1>8, <1>9, WrittenHolds
<1> QED BY <1>3, <1>6, <1>7, <1>10

LEMMA RequestTyped == ASSUME OutputsTyped, NEW force \in BOOLEAN, RequestUpdate(force) PROVE updates' \in Nat /\ forced' \in BOOLEAN
<1>1. updates \in Nat /\ (updates' = updates + 1 \/ updates' = updates) /\ forced \in BOOLEAN /\ forced' = (forced \/ force)
  BY Zenon DEF RequestUpdate, OutputsTyped
<1>2. forced' \in BOOLEAN
  BY <1>1, Zenon
<1> QED BY <1>1, <1>2

LEMMA MessageHolds ==
    ASSUME FeedbackInv, UNCHANGED touchVars,
           \/ \E m \in Messages : HandleMessage(m)
           \/ \E o \in OutputIndices, value \in OscValues : HandleOsc(o, value)
    PROVE  FeedbackInv'
<1>1. OutputsTyped /\ HeldInv /\ TogetherInv /\ Foretold
  BY DEF FeedbackInv, IconsInv
<1>2. \E actions : (\A o \in OutputIndices : IsAction(actions[o])) /\ ApplyActions(actions)
  <2>1. CASE \E m \in Messages : HandleMessage(m)
    <3>1. PICK m \in Messages : HandleMessage(m)
      BY <2>1
    <3>2. ApplyActions([o \in OutputIndices |-> MidiAction(o, m)])
      BY <3>1 DEF HandleMessage
    <3>3. \A o \in OutputIndices : IsAction([p \in OutputIndices |-> MidiAction(p, m)][o])
      BY MidiActionIs
    <3> QED BY <3>2, <3>3
  <2>2. CASE \E o \in OutputIndices, value \in OscValues : HandleOsc(o, value)
    <3>1. PICK o \in OutputIndices, value \in OscValues : HandleOsc(o, value)
      BY <2>2
    <3>2. ApplyActions([p \in OutputIndices |-> IF p = o THEN OscAction(value) ELSE NoAction])
      BY <3>1 DEF HandleOsc, ApplyAction
    <3>3. \A q \in OutputIndices : IsAction([p \in OutputIndices |-> IF p = o THEN OscAction(value) ELSE NoAction][q])
      BY OscActionIs, NoActionIs
    <3> QED BY <3>2, <3>3
  <2> QED BY <2>1, <2>2
<1>3. /\ ~Locked /\ RequestUpdate(FALSE)
      /\ pulse' = pulse /\ task' = task /\ preset' = preset /\ ioFrozen' = ioFrozen /\ raced' = raced
  BY DEF HandleMessage, HandleOsc, settingState
<1>4. PICK actions : (\A o \in OutputIndices : IsAction(actions[o])) /\ ApplyActions(actions)
  BY <1>2
<1>5. /\ output' \in [OutputIndices -> OutputBits] /\ shown' \in [OutputIndices -> Nat] /\ bus' \in Seq(Signals)
      /\ joined' \subseteq OutputIndices /\ HeldInv' /\ TogetherInv' /\ BusGrows
  BY <1>1, <1>3, <1>4, ApplyHolds
<1>6. updates' \in Nat /\ forced' \in BOOLEAN
  BY <1>1, <1>3, RequestTyped
<1>7. OutputsTyped'
  BY <1>1, <1>3, <1>5, <1>6 DEF OutputsTyped, InLoop
<1>8. TouchTyped' /\ IconsInv' /\ PageInv'
  BY <1>5, QuietTouch
<1> QED BY <1>5, <1>7, <1>8 DEF FeedbackInv

LEMMA ThreadHolds ==
    ASSUME FeedbackInv, UNCHANGED touchVars, OutputsThread
    PROVE  FeedbackInv'
<1>1. OutputsTyped /\ HeldInv /\ TogetherInv /\ Foretold
  BY DEF FeedbackInv, IconsInv
<1>2. CASE PassGate \/ TakeUpdate \/ CheckMode
  <2>1. shown' = shown /\ bus' = bus
    BY <1>2 DEF PassGate, TakeUpdate, CheckMode, levelState
  <2> QED BY <1>1, <1>2, <2>1, IdleSteps, StillTouch DEF FeedbackInv
<1>3. CASE Count
  <2>1. shown' = shown /\ bus' = bus
    BY <1>3 DEF Count, levelState
  <2> QED BY <1>1, <1>3, <2>1, CountHolds, StillTouch DEF FeedbackInv
<1>4. CASE ReadBits
  <2>1. shown' = shown /\ bus' = bus
    BY <1>4 DEF ReadBits, levelState
  <2> QED BY <1>1, <1>4, <2>1, ReadHolds, StillTouch DEF FeedbackInv
<1>5. CASE StoreBits
  <2>1. shown' = shown /\ bus' = bus
    BY <1>5 DEF StoreBits
  <2> QED BY <1>1, <1>5, <2>1, StoreHolds, StillTouch DEF FeedbackInv
<1>6. CASE WriteToggled
  BY <1>1, <1>6, ToggleHolds, QuietTouch DEF FeedbackInv
<1> QED BY <1>2, <1>3, <1>4, <1>5, <1>6 DEF OutputsThread

\* A step that leaves outputs, thread and bus alone.
LEMMA StillHolds ==
    ASSUME FeedbackInv, UNCHANGED touchVars, UNCHANGED levelState, task' = task, raced' = raced, preset' = preset,
           pulse'.state = pulse.state \/ ~Locked,
           pulse' \in [mode : {"Timer", "MidiClock"}, counter : [SpeedSet -> Nat], state : [SpeedSet -> BOOLEAN]],
           updates' \in Nat, forced' \in BOOLEAN, ioFrozen' \in BOOLEAN
    PROVE  FeedbackInv'
<1>1. OutputsTyped /\ HeldInv /\ TogetherInv
  BY DEF FeedbackInv
<1>2. output' = output /\ shown' = shown /\ bus' = bus /\ joined' = joined
  BY DEF levelState
<1>3. OutputsTyped'
  BY <1>1, <1>2 DEF OutputsTyped, InLoop
<1>4. HeldInv' /\ TogetherInv'
  <2>1. CASE pulse'.state = pulse.state
    BY <1>1, <1>2, <2>1, SameLoop
  <2>2. CASE ~Locked
    <3>1. ~InLoop /\ ~InLoop'
      BY <2>2 DEF Locked, InLoop
    <3> QED BY <1>1, <1>2, <3>1, NoLoop
  <2> QED BY <2>1, <2>2
<1> QED BY <1>2, <1>3, <1>4, StillTouch DEF FeedbackInv

LEMMA PulseHolds ==
    ASSUME FeedbackInv, UNCHANGED touchVars, HandleClock \/ HandleStart \/ WritePulseMode \/ FreezeOutputs \/ ResumeOutputs
    PROVE  FeedbackInv'
<1> DEFINE PulseType == [mode : {"Timer", "MidiClock"}, counter : [SpeedSet -> Nat], state : [SpeedSet -> BOOLEAN]]
<1>1. OutputsTyped /\ pulse \in PulseType /\ updates \in Nat /\ forced \in BOOLEAN /\ ioFrozen \in BOOLEAN
  BY Zenon DEF FeedbackInv, OutputsTyped
<1> HIDE DEF PulseType
<1>2. CASE HandleClock
  <2>1. UNCHANGED levelState /\ task' = task /\ raced' = raced /\ preset' = preset /\ pulse' = pulse /\ ioFrozen' = ioFrozen
    BY <1>2 DEF HandleClock, settingState
  <2>4. RequestUpdate(TRUE)
    BY <1>2, Zenon DEF HandleClock
  <2>2. updates' \in Nat /\ forced' \in BOOLEAN
    BY <1>1, <2>4, RequestTyped
  <2>3. ioFrozen' \in BOOLEAN
    BY <1>1, <2>1, Zenon
  <2> QED BY <1>1, <2>1, <2>2, <2>3, StillHolds DEF PulseType
<1>3. CASE HandleStart
  <2>1. /\ UNCHANGED levelState /\ task' = task /\ raced' = raced /\ preset' = preset /\ ioFrozen' = ioFrozen
        /\ pulse' = [pulse EXCEPT !.counter = [s \in SpeedSet |-> 0], !.state = [s \in SpeedSet |-> TRUE]]
    BY <1>3 DEF HandleStart, settingState
  <2>5. RequestUpdate(TRUE) /\ ~Locked
    BY <1>3, Zenon DEF HandleStart
  <2>2. updates' \in Nat /\ forced' \in BOOLEAN
    BY <1>1, <2>5, RequestTyped
  <2>3. ioFrozen' \in BOOLEAN
    BY <1>1, <2>1, Zenon
  <2>4. pulse' \in PulseType
    BY <1>1, <2>1 DEF PulseType
  <2> QED BY <1>1, <2>1, <2>2, <2>3, <2>4, <2>5, StillHolds DEF PulseType
<1>4. CASE WritePulseMode
  <2>1. UNCHANGED levelState /\ task' = task /\ raced' = raced /\ preset' = preset /\ ioFrozen' = ioFrozen
        /\ updates' = updates /\ forced' = forced /\ pulse' = [pulse EXCEPT !.mode = PulseMode(config')]
    BY <1>4 DEF WritePulseMode
  <2>2. ioFrozen' \in BOOLEAN /\ forced' \in BOOLEAN /\ updates' \in Nat
    BY <1>1, <2>1, Zenon
  <2>3. PulseMode(config') \in {"Timer", "MidiClock"}
    BY DEF PulseMode
  <2>4. pulse' \in PulseType /\ pulse'.state = pulse.state
    BY <1>1, <2>1, <2>3 DEF PulseType
  <2> QED BY <1>1, <2>1, <2>2, <2>4, StillHolds DEF PulseType
<1>5. CASE FreezeOutputs \/ ResumeOutputs
  <2>1. UNCHANGED levelState /\ task' = task /\ raced' = raced /\ preset' = preset /\ pulse' = pulse
        /\ updates' = updates /\ forced' = forced
    BY <1>5 DEF FreezeOutputs, ResumeOutputs, pulseState, settingState
  <2>2. ioFrozen' \in BOOLEAN /\ forced' \in BOOLEAN /\ updates' \in Nat
    BY <1>1, <1>5, <2>1, Zenon DEF FreezeOutputs, ResumeOutputs
  <2> QED BY <1>1, <2>1, <2>2, StillHolds DEF PulseType
<1> QED BY <1>2, <1>3, <1>4, <1>5

LEMMA RefreshHolds ==
    ASSUME FeedbackInv, UNCHANGED touchVars, NEW o \in OutputIndices, RefreshOutput(o)
    PROVE  FeedbackInv'
<1> DEFINE levels == LevelsOf(output)
<1>1. OutputsTyped /\ HeldInv /\ TogetherInv /\ Foretold
  BY DEF FeedbackInv, IconsInv
<1>2. /\ output' = output /\ joined' = joined /\ raced' = raced /\ pulse' = pulse /\ task' = task /\ preset' = preset
      /\ updates' = updates /\ forced' = forced /\ ioFrozen' = ioFrozen /\ ~Locked /\ WriteLevels({o}, levels)
  BY DEF RefreshOutput, pulseState, settingState
<1>3. levels \in [OutputIndices -> Nat] /\ \A p \in OutputIndices : levels[p] = output[p].level
  BY <1>1 DEF LevelsOf, OutputsTyped, OutputBits
<1> HIDE DEF levels
<1>4. /\ shown' \in [OutputIndices -> Nat] /\ bus' \in Seq(Signals) /\ BusGrows
      /\ \A p \in OutputIndices : shown'[p] = IF p \in {o} THEN Driven(p, levels[p]) ELSE shown[p]
  <2>1. {o} \in SUBSET OutputIndices /\ shown \in [OutputIndices -> Nat] /\ bus \in Seq(Signals)
    BY <1>1 DEF OutputsTyped
  <2> QED BY <1>1, <1>2, <1>3, <2>1, WritesGrow, Zenon
<1>5. ~InLoop /\ ~InLoop'
  BY <1>2 DEF Locked, InLoop
<1>6. HeldInv' /\ TogetherInv'
  BY <1>1, <1>2, <1>3, <1>4, <1>5, WrittenHolds
<1>7. OutputsTyped'
  BY <1>1, <1>2, <1>4, <1>5 DEF OutputsTyped
<1> QED BY <1>4, <1>6, <1>7, QuietTouch DEF FeedbackInv

\* A configuration write sets the level of an output, whatever the thread does.
LEMMA UnlockedHolds ==
    ASSUME FeedbackInv, UNCHANGED touchVars, UNCHANGED pulseState, preset' = preset, ioFrozen' = ioFrozen,
           NEW o \in OutputIndices, NEW level \in Nat, SetLevelUnlocked(o, level)
    PROVE  FeedbackInv'
<1> DEFINE levels == LevelsOf(output')
<1>1. OutputsTyped /\ HeldInv /\ TogetherInv /\ Foretold
  BY DEF FeedbackInv, IconsInv
<1>2. /\ pulse' = pulse /\ task' = task /\ updates' = updates /\ forced' = forced /\ joined' = joined \ {o}
      /\ output' = [output EXCEPT ![o] = WithLevel(output[o], level)] /\ WriteLevels({o}, levels)
      /\ raced' = IF task.at \in {"store", "write"} /\ task.next = o THEN raced \cup {o} ELSE raced \ {o}
  BY DEF SetLevelUnlocked, pulseState
<1>3. /\ output' \in [OutputIndices -> OutputBits] /\ output'[o].level = level /\ output'[o].timer = output[o].timer
      /\ \A p \in OutputIndices : p # o => output'[p] = output[p]
  <2>1. output \in [OutputIndices -> OutputBits] /\ output[o] \in OutputBits
    BY <1>1 DEF OutputsTyped
  <2> DEFINE new == WithLevel(output[o], level)
  <2>2. new \in OutputBits /\ new.level = level /\ new.timer = output[o].timer /\ output' = [output EXCEPT ![o] = new]
    BY <1>2, <2>1, WithLevelIs
  <2> HIDE DEF new
  <2> QED BY <2>1, <2>2
<1>4. levels \in [OutputIndices -> Nat] /\ \A p \in OutputIndices : levels[p] = output'[p].level
  BY <1>3 DEF LevelsOf, OutputBits
<1> HIDE DEF levels
<1>5. /\ shown' \in [OutputIndices -> Nat] /\ bus' \in Seq(Signals) /\ BusGrows
      /\ \A p \in OutputIndices : shown'[p] = IF p \in {o} THEN Driven(p, levels[p]) ELSE shown[p]
  <2>1. {o} \in SUBSET OutputIndices /\ shown \in [OutputIndices -> Nat] /\ bus \in Seq(Signals)
    BY <1>1 DEF OutputsTyped
  <2> QED BY <1>1, <1>2, <1>4, <2>1, WritesGrow, Zenon
<1>6. shown'[o] = Driven(o, output'[o].level) /\ \A p \in OutputIndices : p # o => shown'[p] = shown[p]
  BY <1>4, <1>5
<1>7. HeldInv'
  <2>1. ShownIsHeld'
    BY <1>1, <1>2, <1>3, <1>6 DEF HeldInv, ShownIsHeld
  <2>2. HandInv'
    BY <1>1, <1>2, <1>3 DEF HeldInv, HandInv, OutputsTyped, InLoop
  <2> QED BY <2>1, <2>2 DEF HeldInv
<1>8. TogetherInv'
  <2>1. \A p \in joined' : p # o /\ p \in joined /\ p \in OutputIndices /\ output'[p] = output[p]
    BY <1>1, <1>2, <1>3 DEF OutputsTyped
  <2>2. (InLoop' <=> InLoop) /\ \A p : Passed(p)' <=> Passed(p)
    BY <1>2 DEF InLoop, Passed
  <2>3. \A p \in joined' : \A s : (Pulsing(s, p)' <=> Pulsing(s, p))
    BY <2>1 DEF Pulsing
  <2>4. TaskSpeed'
    BY <1>1, <1>2, <1>3 DEF TogetherInv, TaskSpeed, OutputsTyped, InLoop
  <2>5. OthersAlike'
    BY <1>1, <1>2, <2>1, <2>2, <2>3 DEF TogetherInv, OthersAlike, Alike
  <2>6. PassedToggled'
    BY <1>1, <1>2, <2>1, <2>2, <2>3 DEF TogetherInv, PassedToggled
  <2>7. RestAlike'
    BY <1>1, <1>2, <2>1, <2>2, <2>3 DEF TogetherInv, RestAlike, Alike
  <2> QED BY <2>4, <2>5, <2>6, <2>7 DEF TogetherInv
<1>9. OutputsTyped'
  <2>1. joined' \subseteq OutputIndices /\ raced' \subseteq OutputIndices
    BY <1>1, <1>2 DEF OutputsTyped
  <2> QED BY <1>1, <1>2, <1>3, <1>5, <2>1 DEF OutputsTyped, InLoop
<1> QED BY <1>5, <1>7, <1>8, <1>9, QuietTouch DEF FeedbackInv

LEMMA WriteHolds ==
    ASSUME FeedbackInv, UNCHANGED touchVars, NEW o \in OutputIndices, WriteState(o) \/ WriteType(o)
    PROVE  FeedbackInv'
<1>1. LevelMax \in Nat /\ 0 \in Nat
  BY OutputFacts
<1>2. \E level \in {0, LevelMax} : SetLevelUnlocked(o, level)
  BY Zenon DEF WriteState, WriteType
<1>3. UNCHANGED pulseState /\ preset' = preset /\ ioFrozen' = ioFrozen
  BY DEF WriteState, WriteType, settingState
<1> QED BY <1>1, <1>2, <1>3, UnlockedHolds

-----------------------------------------------------------------------------
(* The touchscreen.                                                        *)

\* What is left alone when the touchscreen works.
OutputsSame ==
    /\ output' = output /\ shown' = shown /\ joined' = joined /\ raced' = raced /\ pulse' = pulse /\ task' = task
    /\ preset' = preset /\ updates' = updates /\ forced' = forced /\ ioFrozen' = ioFrozen

LEMMA OutputsSameHolds ==
    ASSUME OutputsTyped, HeldInv, TogetherInv, OutputsSame, bus' \in Seq(Signals)
    PROVE  OutputsTyped' /\ HeldInv' /\ TogetherInv'
<1>1. OutputsTyped'
  BY DEF OutputsSame, OutputsTyped, InLoop
<1>2. HeldInv' /\ TogetherInv'
  BY SameLoop DEF OutputsSame
<1> QED BY <1>1, <1>2

\* While a page is drawn, a screen announced or nothing shown, the icons need not be right.
LEMMA IconsMayWait ==
    ASSUME Foretold', turning'.at # "none" \/ Screened(bus') \/ ~initialized'
    PROVE  IconsInv'
  BY DEF IconsInv, IconInv

LEMMA BlankIs ==
    ASSUME TouchTyped, initialized' \in BOOLEAN, NEW page, ShowPage(page), turning' = turning, missed' = missed
    PROVE  /\ TouchTyped' /\ display'.page = page
           /\ \A t \in TouchOutputs : display'.icon[t] = "none"
<1>1. /\ display' = [page |-> page, icon |-> [t \in TouchOutputs |-> "none"]] /\ strayed' = {}
  BY DEF ShowPage, Blank
<1>2. /\ DOMAIN display' = {"page", "icon"} /\ DOMAIN display'.icon = TouchOutputs /\ display'.page = page
      /\ \A t \in TouchOutputs : display'.icon[t] = "none"
  BY <1>1
<1>3. TouchTyped'
  BY <1>1, <1>2 DEF TouchTyped
<1> QED BY <1>2, <1>3

\* A page of the dispatcher is the active screen, unless the thread is about to store another one.
LEMMA SendPageIs ==
    ASSUME TouchTyped, initialized' \in BOOLEAN, NEW page, SendPage(page), screen' = page
    PROVE  TouchTyped' /\ PageInv'
<1>1. CASE turning.at = "page"
  <2>1. /\ turning' = [turning EXCEPT !.cut = TRUE] /\ missed' = TouchOutputs /\ display' = display /\ strayed' = strayed
    BY <1>1 DEF SendPage
  <2>2. DOMAIN turning' = {"at", "to", "cut"} /\ turning'.at = "page"
    BY <1>1, <2>1 DEF TouchTyped
  <2>3. crossed'
    BY <1>1 DEF SendPage
  <2> QED BY <2>1, <2>2, <2>3 DEF TouchTyped, PageInv
<1>2. CASE turning.at # "page"
  <2>1. ShowPage(page) /\ turning' = turning /\ missed' = missed
    BY <1>2 DEF SendPage
  <2>2. ~crossed' => turning.at # "adopt"
    BY DEF SendPage
  <2>3. /\ TouchTyped' /\ display'.page = page
        /\ \A t \in TouchOutputs : display'.icon[t] = "none"
    BY <2>1, BlankIs
  <2> QED BY <2>1, <2>2, <2>3 DEF PageInv
<1> QED BY <1>1, <1>2

LEMMA SetIconIs ==
    ASSUME TouchTyped, PageInv, NEW h \in TouchOutputs, NEW on \in BOOLEAN, SetIcon(h, on),
           screen' = screen, initialized' = initialized, crossed' = crossed
    PROVE  /\ TouchTyped' /\ PageInv' /\ turning'.at = turning.at
           /\ \A t \in TouchOutputs : t # h => display'.icon[t] = display.icon[t] /\ (t \in missed' <=> t \in missed)
           /\ initialized /\ OnScreen(h, screen) /\ turning.at = "none" =>
                  display'.icon[h] = IF on THEN "on" ELSE "off"
<1>1. CASE ~initialized \/ ~OnScreen(h, screen)
  <2>1. display' = display /\ turning' = turning /\ missed' = missed /\ strayed' = strayed
    BY <1>1 DEF SetIcon
  <2> QED BY <1>1, <2>1 DEF TouchTyped, PageInv, OnScreen
<1>2. CASE initialized /\ OnScreen(h, screen) /\ turning.at = "page"
  <2>1. /\ turning' = [turning EXCEPT !.cut = TRUE] /\ missed' = missed \cup {h} /\ display' = display
        /\ strayed' = strayed
    BY <1>2 DEF SetIcon, DrawIcon
  <2>2. DOMAIN turning' = {"at", "to", "cut"} /\ turning'.at = "page"
    BY <1>2, <2>1 DEF TouchTyped
  <2> QED BY <1>2, <2>1, <2>2 DEF TouchTyped, PageInv, OnScreen
<1>3. CASE initialized /\ OnScreen(h, screen) /\ turning.at # "page"
  <2>1. /\ display' = [display EXCEPT !.icon[h] = IF on THEN "on" ELSE "off"] /\ turning' = turning
        /\ missed' = missed \ {h} /\ strayed' = IF turning.at = "adopt" THEN strayed \cup {h} ELSE strayed
    BY <1>3 DEF SetIcon, DrawIcon
  <2>2. /\ DOMAIN display' = {"page", "icon"} /\ DOMAIN display'.icon = TouchOutputs /\ display'.page = display.page
        /\ display'.icon[h] = (IF on THEN "on" ELSE "off")
        /\ \A t \in TouchOutputs : t # h => display'.icon[t] = display.icon[t]
    BY <2>1 DEF TouchTyped
  <2>3. TouchTyped'
    BY <2>1, <2>2 DEF TouchTyped
  <2>4. ~crossed' => display'.page = IF turning'.at = "adopt" THEN turning'.to ELSE screen'
    BY <2>1, <2>2 DEF PageInv
  <2>5. ASSUME ~crossed', NEW t \in TouchOutputs, t \notin strayed', ~OnScreen(t, display'.page)
        PROVE  display'.icon[t] = "none"
    <3>1. t # h
      <4>1. CASE turning.at = "adopt"
        BY <2>1, <2>5, <4>1
      <4>2. CASE turning.at # "adopt"
        <5>1. display'.page = screen
          BY <2>1, <2>4, <2>5, <4>2
        <5> QED BY <1>3, <2>5, <5>1
      <4> QED BY <4>1, <4>2
    <3>2. t \notin strayed /\ ~OnScreen(t, display.page)
      BY <2>1, <2>2, <2>5
    <3> QED BY <2>2, <2>5, <3>1, <3>2 DEF PageInv
  <2>6. PageInv'
    BY <2>4, <2>5 DEF PageInv, OnScreen
  <2> QED BY <2>1, <2>2, <2>3, <2>6
<1> QED BY <1>1, <1>2, <1>3

LEMMA LevelHolds ==
    ASSUME FeedbackInv, HandleLevel
    PROVE  FeedbackInv'
<1>1. OutputsTyped /\ HeldInv /\ TogetherInv /\ TouchTyped /\ PageInv /\ Foretold /\ (\A t \in TouchOutputs : IconInv(t))
      /\ bus \in Seq(Signals)
  BY DEF FeedbackInv, IconsInv, OutputsTyped
<1>2. /\ bus # <<>> /\ Head(bus).kind = "level" /\ bus' = Tail(bus) /\ OutputsSame
      /\ screen' = screen /\ initialized' = initialized /\ crossed' = crossed
  BY DEF HandleLevel, OutputsSame, pulseState, settingState
<1>3. PICK h \in TouchOutputs, on \in BOOLEAN : h = Head(bus).index /\ on = Head(bus).on
  <2>1. Head(bus) \in Signals
    BY <1>1, <1>2, TailTells
  <2>2. Head(bus).index \in TouchOutputs /\ Head(bus).on \in BOOLEAN
    BY <1>2, <2>1 DEF Signals
  <2> QED BY <2>2, Zenon
<1>4. \/ missed' = missed \cup {h} /\ display' = display /\ turning' = turning /\ strayed' = strayed
      \/ SetIcon(h, on)
  BY <1>3, Zenon DEF HandleLevel
<1>5. Foretold' /\ bus' \in Seq(Signals)
  BY <1>1, <1>2, TailTells DEF Foretold, OutputsSame
<1>6. OutputsTyped' /\ HeldInv' /\ TogetherInv'
  BY <1>1, <1>2, <1>5, OutputsSameHolds
<1>7. \A t \in TouchOutputs : Tells(bus, t) => Tells(bus', t) \/ t = h
  <2>1. \A t \in TouchOutputs : IsLevel(Head(bus), t) => t = h
    BY <1>3 DEF IsLevel
  <2> QED BY <1>1, <1>2, <2>1, TailTells
<1>8. Screened(bus) => Screened(bus')
  BY <1>1, <1>2, TailTells
<1>9. ~Tells(bus', h) => on = (shown[h] # 0)
  <2>1. IsLevel(Head(bus), h) /\ Says(bus, h, shown[h] # 0)
    BY <1>1, <1>2, <1>3 DEF IsLevel, Foretold
  <2>2. Tells(Tail(bus), h) \/ Head(bus).on = (shown[h] # 0)
    BY <1>1, <1>2, <2>1, TailTells, Zenon
  <2> QED BY <1>2, <1>3, <2>2
<1>10. TouchTyped' /\ PageInv' /\ \A t \in TouchOutputs : IconInv(t)'
  <2>1. CASE missed' = missed \cup {h} /\ display' = display /\ turning' = turning /\ strayed' = strayed
    <3>1. TouchTyped' /\ PageInv'
      BY <1>1, <1>2, <1>3, <2>1 DEF TouchTyped, PageInv, OnScreen
    <3>2. ASSUME NEW t \in TouchOutputs PROVE IconInv(t)'
      BY <1>1, <1>2, <1>7, <1>8, <2>1 DEF IconInv, OnScreen, Drawn, OutputsSame
    <3> QED BY <3>1, <3>2
  <2>2. CASE SetIcon(h, on)
    <3>1. /\ TouchTyped' /\ PageInv' /\ turning'.at = turning.at
          /\ \A t \in TouchOutputs : t # h => display'.icon[t] = display.icon[t] /\ (t \in missed' <=> t \in missed)
          /\ initialized /\ OnScreen(h, screen) /\ turning.at = "none" =>
                 display'.icon[h] = IF on THEN "on" ELSE "off"
      BY <1>1, <1>2, <1>3, <2>2, SetIconIs
    <3>2. ASSUME NEW t \in TouchOutputs, t # h PROVE IconInv(t)'
      BY <1>1, <1>2, <1>7, <1>8, <3>1, <3>2 DEF IconInv, OnScreen, Drawn, OutputsSame
    <3>3. IconInv(h)'
      BY <1>1, <1>2, <1>9, <3>1 DEF IconInv, OnScreen, Drawn, OutputsSame
    <3> QED BY <3>1, <3>2, <3>3
  <2> QED BY <1>4, <2>1, <2>2
<1> QED BY <1>5, <1>6, <1>10 DEF FeedbackInv, IconsInv

LEMMA TurnHolds ==
    ASSUME FeedbackInv, TouchPage \/ PageSent \/ AdoptScreen
    PROVE  FeedbackInv'
<1>1. OutputsTyped /\ HeldInv /\ TogetherInv /\ TouchTyped /\ PageInv /\ Foretold
  BY DEF FeedbackInv, IconsInv
<1>2. OutputsSame /\ bus' = bus /\ initialized' = initialized
  BY DEF TouchPage, PageSent, AdoptScreen, OutputsSame, outputVars, levelState, pulseState, settingState
<1>3. OutputsTyped' /\ HeldInv' /\ TogetherInv' /\ Foretold'
  <2>1. bus' \in Seq(Signals) /\ shown' = shown
    BY <1>1, <1>2 DEF OutputsTyped, OutputsSame
  <2> QED BY <1>1, <1>2, <2>1, OutputsSameHolds DEF Foretold
<1>4. TouchTyped' /\ PageInv' /\ turning'.at # "none"
  <2>1. CASE TouchPage
    <3>1. PICK page \in PageTargets : turning' = [at |-> "page", to |-> page, cut |-> FALSE]
      BY <2>1 DEF TouchPage
    <3>2. /\ display' = display /\ missed' = missed /\ strayed' = strayed /\ crossed' = crossed /\ screen' = screen
          /\ turning.at = "none"
      BY <2>1 DEF TouchPage, ghostVars, NoTurn
    <3> QED BY <1>1, <1>2, <3>1, <3>2 DEF TouchTyped, PageInv, OnScreen
  <2>2. CASE PageSent
    <3>1. turning' = [turning EXCEPT !.at = "adopt"] /\ missed' = missed /\ crossed' = turning.cut
      BY <2>2 DEF PageSent
    <3>2. DOMAIN turning' = {"at", "to", "cut"} /\ turning'.at = "adopt" /\ turning'.to = turning.to
      BY <1>1, <3>1 DEF TouchTyped
    <3>3. CASE turning.cut
      <4>1. display' = display /\ strayed' = strayed
        BY <2>2, <3>3 DEF PageSent
      <4> QED BY <1>1, <1>2, <3>1, <3>2, <3>3, <4>1 DEF TouchTyped, PageInv
    <3>4. CASE ~turning.cut
      <4>1. display' = [page |-> turning.to, icon |-> [t \in TouchOutputs |-> "none"]] /\ strayed' = {}
        BY <2>2, <3>4 DEF PageSent, ShowPage, Blank
      <4>2. /\ DOMAIN display' = {"page", "icon"} /\ DOMAIN display'.icon = TouchOutputs /\ display'.page = turning.to
            /\ \A t \in TouchOutputs : display'.icon[t] = "none"
        BY <4>1
      <4> QED BY <1>1, <1>2, <3>1, <3>2, <4>1, <4>2 DEF TouchTyped, PageInv
    <3> QED BY <3>3, <3>4
  <2>3. CASE AdoptScreen
    <3>1. /\ turning' = [turning EXCEPT !.at = "announce"] /\ display' = display /\ missed' = missed /\ strayed' = strayed
          /\ crossed' = crossed /\ screen' = turning.to /\ turning.at = "adopt"
      BY <2>3 DEF AdoptScreen, ghostVars
    <3>2. DOMAIN turning' = {"at", "to", "cut"} /\ turning'.at = "announce"
      BY <1>1, <3>1 DEF TouchTyped
    <3> QED BY <1>1, <1>2, <3>1, <3>2 DEF TouchTyped, PageInv, OnScreen
  <2> QED BY <2>1, <2>2, <2>3
<1> QED BY <1>3, <1>4, IconsMayWait DEF FeedbackInv

\* The announcement of a screen.
ScreenSignal == [kind |-> "screen"]
LEMMA ScreenSignalIs ==
    /\ <<ScreenSignal>> \in Seq(Signals) /\ Screened(<<ScreenSignal>>) /\ \A t : ~Tells(<<ScreenSignal>>, t)
    /\ <<>> \in Seq(Signals) /\ \A t : ~Tells(<<>>, t)
    /\ \A t, lit : Says(<<>>, t, lit) /\ Says(<<ScreenSignal>>, t, lit)
<1> DEFINE q == <<ScreenSignal>>
<1>1. DOMAIN q = {1} /\ q[1].kind = "screen" /\ ScreenSignal \in Signals
  BY DEF ScreenSignal, Signals
<1>2. <<>> \in Seq(Signals) /\ DOMAIN <<>> = {}
  OBVIOUS
<1>3. q \in Seq(Signals)
  BY <1>1
<1> HIDE DEF q
<1>4. Screened(q) /\ \A t : ~Tells(q, t) /\ \A lit : Says(q, t, lit)
  BY <1>1 DEF Screened, Tells, Says, IsLevel
<1>5. \A t : ~Tells(<<>>, t) /\ \A lit : Says(<<>>, t, lit)
  BY <1>2 DEF Tells, Says
<1> QED BY <1>2, <1>3, <1>4, <1>5 DEF q

LEMMA Announced ==
    ASSUME NEW q \in Seq(Signals)
    PROVE  /\ Append(q, ScreenSignal) = q \o <<ScreenSignal>>
           /\ q \o <<ScreenSignal>> \in Seq(Signals) /\ Screened(q \o <<ScreenSignal>>)
           /\ \A t : (Tells(q \o <<ScreenSignal>>, t) <=> Tells(q, t))
           /\ \A t, lit : Says(q, t, lit) => Says(q \o <<ScreenSignal>>, t, lit)
<1>1. ScreenSignal \in Signals
  BY DEF ScreenSignal, Signals
<1>2. Append(q, ScreenSignal) = q \o <<ScreenSignal>>
  BY <1>1
<1> QED BY <1>2, ScreenSignalIs, ConcatTells

LEMMA AnnounceHolds ==
    ASSUME FeedbackInv, AnnounceScreen
    PROVE  FeedbackInv'
<1>1. OutputsTyped /\ HeldInv /\ TogetherInv /\ TouchTyped /\ PageInv /\ Foretold /\ bus \in Seq(Signals)
  BY DEF FeedbackInv, IconsInv, OutputsTyped
<1>2. /\ OutputsSame /\ bus' = Append(bus, ScreenSignal) /\ initialized' = initialized /\ screen' = screen
      /\ turning.at = "announce" /\ turning' = NoTurn /\ display' = display /\ strayed' = strayed /\ crossed' = crossed
      /\ missed' = IF turning.cut THEN missed \cup TouchOutputs ELSE missed
  BY DEF AnnounceScreen, OutputsSame, pulseState, settingState, ScreenSignal
<1>3. bus' \in Seq(Signals) /\ Screened(bus') /\ Foretold'
  BY <1>1, <1>2, Announced DEF Foretold, OutputsSame
<1>4. OutputsTyped' /\ HeldInv' /\ TogetherInv'
  BY <1>1, <1>2, <1>3, OutputsSameHolds
<1>5. TouchTyped' /\ PageInv'
  BY <1>1, <1>2 DEF TouchTyped, PageInv, OnScreen, NoTurn
<1> QED BY <1>3, <1>4, <1>5, IconsMayWait DEF FeedbackInv

\* Outputs writes the levels of the icons again.
LEMMA AnswerHolds ==
    ASSUME FeedbackInv, AnswerScreen
    PROVE  FeedbackInv'
<1>1. OutputsTyped /\ HeldInv /\ TogetherInv /\ TouchTyped /\ PageInv /\ Foretold /\ bus \in Seq(Signals)
  BY DEF FeedbackInv, IconsInv, OutputsTyped
<1>2. /\ bus # <<>> /\ Head(bus).kind = "screen" /\ output' = output /\ joined' = joined /\ raced' = raced
      /\ pulse' = pulse /\ task' = task /\ preset' = preset /\ ioFrozen' = ioFrozen
      /\ screen' = screen /\ initialized' = initialized /\ display' = display /\ turning' = turning /\ strayed' = strayed
      /\ crossed' = crossed /\ missed' = IF ioFrozen THEN TouchOutputs ELSE missed
  BY DEF AnswerScreen, ScreenChanged, settingState
<1>3. TouchTyped' /\ PageInv'
  BY <1>1, <1>2 DEF TouchTyped, PageInv, OnScreen
<1>4. Tail(bus) \in Seq(Signals) /\ \A t : \A lit : Says(bus, t, lit) => Says(Tail(bus), t, lit)
  BY <1>1, <1>2, TailTells
<1>5. CASE ioFrozen
  <2>1. bus' = Tail(bus) /\ shown' = shown /\ updates' = updates /\ forced' = forced
    BY <1>5 DEF AnswerScreen, ScreenChanged
  <2>2. Foretold'
    BY <1>1, <1>4, <2>1 DEF Foretold
  <2>3. OutputsTyped' /\ HeldInv' /\ TogetherInv'
    BY <1>1, <1>2, <1>4, <2>1, OutputsSameHolds DEF OutputsSame
  <2>4. IconsInv'
    BY <1>2, <1>5, <2>2 DEF IconsInv, IconInv
  <2> QED BY <1>3, <2>3, <2>4 DEF FeedbackInv
<1>6. CASE ~ioFrozen
  <2> DEFINE levels == LevelsOf(output)
             q == LevelSignals(TouchOutputs, levels)
  <2>1. shown' = Written(TouchOutputs, levels) /\ bus' = Tail(bus) \o q
    BY <1>6 DEF AnswerScreen, ScreenChanged
  <2>2. ~Locked /\ RequestUpdate(FALSE)
    BY <1>6, Zenon DEF AnswerScreen, ScreenChanged
  <2>3. \A o \in OutputIndices : levels[o] \in Nat /\ levels[o] = output[o].level
    BY <1>1 DEF LevelsOf, OutputsTyped, OutputBits
  <2>4. /\ q \in Seq(Signals)
        /\ \A t : (Tells(q, t) <=> t \in TouchOutputs \cap TouchOutputs) /\ Says(q, t, levels[t] # 0)
    BY LevelSignalsFacts
  <2> HIDE DEF q, levels
  <2>5. /\ shown' \in [OutputIndices -> Nat]
        /\ \A o \in OutputIndices : shown'[o] = IF o \in TouchOutputs THEN Driven(o, levels[o]) ELSE shown[o]
    <3>1. shown' = [o \in OutputIndices |-> IF o \in TouchOutputs THEN Driven(o, levels[o]) ELSE shown[o]]
      BY <2>1 DEF Written
    <3> QED BY <1>1, <2>3, <3>1, DrivenIs DEF OutputsTyped
  <2>6. bus' \in Seq(Signals) /\ \A t \in TouchOutputs : Tells(bus', t) /\ Says(bus', t, levels[t] # 0)
    BY <1>4, <2>1, <2>4, ConcatTells
  <2>7. Foretold'
    <3>1. ASSUME NEW t \in TouchOutputs PROVE (shown'[t] # 0) = (levels[t] # 0)
      <4>1. t \in OutputIndices
        BY OutputFacts
      <4>2. (shown'[t] # 0) <=> (levels[t] # 0)
        BY <2>3, <2>5, <4>1, DrivenIs
      <4> QED BY <4>2, Zenon
    <3> QED BY <2>6, <3>1 DEF Foretold
  <2>8. IconsInv'
    BY <2>6, <2>7 DEF IconsInv, IconInv
  <2>9. HeldInv' /\ TogetherInv'
    <3>1. ~InLoop /\ ~InLoop'
      BY <1>2, <2>2 DEF Locked, InLoop
    <3> QED BY <1>1, <1>2, <2>3, <2>5, <3>1, WrittenHolds
  <2>10. updates' \in Nat /\ forced' \in BOOLEAN
    BY <1>1, <2>2, RequestTyped
  <2>11. OutputsTyped'
    BY <1>1, <1>2, <2>5, <2>6, <2>10 DEF OutputsTyped, InLoop
  <2> QED BY <1>3, <2>8, <2>9, <2>11 DEF FeedbackInv
<1> QED BY <1>5, <1>6

LEMMA SignalsOfIs ==
    ASSUME NEW e
    PROVE  /\ SignalsOf(e) \in Seq(Signals) /\ \A t : ~Tells(SignalsOf(e), t)
           /\ e /\ ~initialized => Screened(SignalsOf(e))
<1>1. SignalsOf(e) = IF e /\ ~initialized THEN <<ScreenSignal>> ELSE <<>>
  BY DEF SignalsOf, ScreenSignal
<1> QED BY <1>1, ScreenSignalIs

\* The touchscreen is enabled or not, and the announcement of its screen is the last signal.
LEMMA EnableHolds ==
    ASSUME FeedbackInv, NEW e \in BOOLEAN, Enable(e), BusGrows, e /\ ~initialized => Screened(bus')
    PROVE  TouchTyped' /\ IconsInv' /\ PageInv'
<1>1. TouchTyped /\ PageInv /\ Foretold' /\ initialized \in BOOLEAN
  BY DEF FeedbackInv, BusGrows, TouchTyped
<1>2. CASE e = initialized
  BY <1>2, QuietTouch DEF Enable
<1>3. CASE e # initialized /\ e
  <2>1. initialized' \in BOOLEAN /\ SendPage(InitialScreen) /\ screen' = InitialScreen /\ Screened(bus')
    BY <1>1, <1>3, Zenon DEF Enable
  <2> QED BY <1>1, <2>1, SendPageIs, IconsMayWait
<1>4. CASE e # initialized /\ ~e
  <2>1. /\ initialized' = e /\ turning' = [turning EXCEPT !.cut = turning.at = "page"]
        /\ display' = display /\ missed' = missed /\ strayed' = strayed /\ crossed' = crossed /\ screen' = screen
    BY <1>4 DEF Enable, ghostVars
  <2>2. DOMAIN turning' = {"at", "to", "cut"} /\ turning'.at = turning.at /\ turning'.to = turning.to
    BY <1>1, <2>1 DEF TouchTyped
  <2>3. initialized' \in BOOLEAN /\ ~initialized'
    BY <1>4, <2>1, Zenon
  <2>4. TouchTyped' /\ PageInv'
    BY <1>1, <2>1, <2>2, <2>3 DEF TouchTyped, PageInv, OnScreen
  <2> QED BY <1>1, <2>3, <2>4, IconsMayWait
<1> QED BY <1>2, <1>3, <1>4

\* The bus gets signals that are not levels.
LEMMA OthersGrow ==
    ASSUME bus \in Seq(Signals), Foretold, shown' = shown, NEW q \in Seq(Signals), \A t : ~Tells(q, t), bus' = bus \o q
    PROVE  bus' \in Seq(Signals) /\ BusGrows /\ (Screened(q) => Screened(bus'))
<1>1. bus' \in Seq(Signals) /\ (Screened(q) => Screened(bus')) /\ (Screened(bus) => Screened(bus'))
  BY ConcatTells
<1>2. Foretold' /\ \A t \in TouchOutputs : Tells(bus', t) <=> Tells(bus, t)
  BY ConcatTells DEF Foretold
<1> QED BY <1>1, <1>2 DEF BusGrows

LEMMA SettingHolds ==
    ASSUME FeedbackInv, WriteEnable \/ WriteScreen
    PROVE  FeedbackInv'
<1>1. OutputsTyped /\ HeldInv /\ TogetherInv /\ TouchTyped /\ PageInv /\ Foretold /\ bus \in Seq(Signals)
      /\ initialized \in BOOLEAN
  BY DEF FeedbackInv, IconsInv, OutputsTyped, TouchTyped
<1>2. OutputsSame
  BY DEF WriteEnable, WriteScreen, OutputsSame, pulseState, settingState
<1>3. CASE WriteEnable
  <2> DEFINE e == ~initialized
  <2>1. Enable(e) /\ bus' = bus \o SignalsOf(e)
    BY <1>3, Zenon DEF WriteEnable
  <2>2. e \in BOOLEAN /\ shown' = shown
    BY <1>2 DEF OutputsSame
  <2> HIDE DEF e
  <2>3. bus' \in Seq(Signals) /\ BusGrows /\ (Screened(SignalsOf(e)) => Screened(bus'))
    BY <1>1, <2>1, <2>2, SignalsOfIs, OthersGrow
  <2>4. e /\ ~initialized => Screened(bus')
    BY <2>3, SignalsOfIs
  <2>5. TouchTyped' /\ IconsInv' /\ PageInv'
    BY <2>1, <2>2, <2>3, <2>4, EnableHolds
  <2> QED BY <1>1, <1>2, <2>3, <2>5, OutputsSameHolds DEF FeedbackInv
<1>4. CASE WriteScreen
  <2>1. PICK page \in PageTargets : SendPage(page) /\ screen' = page
    BY <1>4, Zenon DEF WriteScreen
  <2>2. bus' = Append(bus, ScreenSignal) /\ initialized' = initialized
    BY <1>4 DEF WriteScreen, ScreenSignal
  <2>3. bus' \in Seq(Signals) /\ Screened(bus') /\ Foretold'
    BY <1>1, <1>2, <2>2, Announced DEF Foretold, OutputsSame
  <2>4. initialized' \in BOOLEAN
    BY <1>1, <2>2, Zenon
  <2>5. TouchTyped' /\ PageInv'
    BY <1>1, <2>1, <2>4, SendPageIs
  <2> QED BY <1>1, <1>2, <2>3, <2>5, OutputsSameHolds, IconsMayWait DEF FeedbackInv
<1> QED BY <1>3, <1>4

\* All outputs are set to what the preset says.
LEMMA PresetOutputsIs ==
    ASSUME OutputsTyped, HeldInv, TogetherInv, Foretold, ~Locked, task' = task, raced' = raced,
           NEW number, NEW others \in Seq(Signals), \A t : ~Tells(others, t), PresetOutputs(number, others)
    PROVE  /\ output' \in [OutputIndices -> OutputBits] /\ shown' \in [OutputIndices -> Nat] /\ bus' \in Seq(Signals)
           /\ joined' \subseteq OutputIndices /\ HeldInv' /\ TogetherInv' /\ BusGrows
           /\ Screened(others) => Screened(bus')
<1> DEFINE actions == [o \in OutputIndices |-> PresetAction(config', o, number)]
           S == {o \in OutputIndices : actions[o].level # Keep}
           levels == LevelsOf(output')
           zero == [o \in OutputIndices |-> 0]
           off == LevelSignals(OutputIndices, zero)
           lit == LevelSignals(S, levels)
<1>1. /\ output' = [o \in OutputIndices |-> Applied(WithLevel(output[o], 0), actions[o])]
      /\ shown' = Written(OutputIndices, levels) /\ bus' = bus \o off \o lit \o others /\ joined' = {}
  BY DEF PresetOutputs
<1>2. ASSUME NEW o \in OutputIndices
      PROVE  /\ output'[o] \in OutputBits /\ (o \notin S => output'[o].level = 0)
  <2>1. WithLevel(output[o], 0) \in OutputBits /\ WithLevel(output[o], 0).level = 0
    BY OutputFacts, WithLevelIs DEF OutputsTyped
  <2>2. actions[o] = PresetAction(config', o, number)
    OBVIOUS
  <2> HIDE DEF actions
  <2>3. IsAction(actions[o])
    BY <2>2, PresetActionIs
  <2>4. output'[o] = Applied(WithLevel(output[o], 0), actions[o])
    BY <1>1
  <2> QED BY <2>1, <2>3, <2>4, AppliedIs
<1>3. output' \in [OutputIndices -> OutputBits]
  BY <1>1, <1>2
<1>4. \A o \in OutputIndices : levels[o] = output'[o].level /\ levels[o] \in Nat
  BY <1>2 DEF LevelsOf, OutputBits
<1>5. /\ \A t : (Tells(off, t) <=> t \in OutputIndices \cap TouchOutputs) /\ Says(off, t, zero[t] # 0)
      /\ \A t : (Tells(lit, t) <=> t \in S \cap TouchOutputs) /\ Says(lit, t, levels[t] # 0)
      /\ off \in Seq(Signals) /\ lit \in Seq(Signals)
  BY LevelSignalsFacts
<1>6. \A t \in OutputIndices : zero[t] = 0
  OBVIOUS
<1> HIDE DEF S, levels, zero, off, lit
<1>7. shown' \in [OutputIndices -> Nat] /\ \A o \in OutputIndices : shown'[o] = Driven(o, levels[o])
  <2>1. shown' = [o \in OutputIndices |-> Driven(o, levels[o])]
    BY <1>1 DEF Written
  <2> QED BY <1>4, <2>1, DrivenIs
<1>8. /\ bus \o off \in Seq(Signals) /\ bus \o off \o lit \in Seq(Signals) /\ bus' \in Seq(Signals)
      /\ (Screened(bus) => Screened(bus')) /\ (Screened(others) => Screened(bus'))
  <2>1. bus \in Seq(Signals)
    BY DEF OutputsTyped
  <2>2. bus \o off \in Seq(Signals) /\ (Screened(bus) => Screened(bus \o off))
    BY <1>5, <2>1, ConcatTells
  <2>3. bus \o off \o lit \in Seq(Signals) /\ (Screened(bus) => Screened(bus \o off \o lit))
    BY <1>5, <2>2, ConcatTells
  <2> QED BY <1>1, <2>2, <2>3, ConcatTells
<1>9. ASSUME NEW t \in TouchOutputs PROVE Tells(bus', t) /\ Says(bus', t, shown'[t] # 0)
  <2>1. t \in OutputIndices /\ bus \in Seq(Signals)
    BY OutputFacts DEF OutputsTyped
  <2>2. (zero[t] # 0) = FALSE
    BY <1>6, <2>1
  <2>3. Tells(off, t) /\ Says(off, t, FALSE)
    BY <1>5, <2>1, <2>2
  <2>4. Tells(bus \o off, t) /\ Says(bus \o off, t, FALSE)
    BY <1>5, <2>1, <2>3, ConcatTells
  <2>5. (shown'[t] # 0) = (levels[t] # 0)
    <3>1. (shown'[t] # 0) <=> (levels[t] # 0)
      BY <1>4, <1>7, <2>1, DrivenIs
    <3> QED BY <3>1, Zenon
  <2>6. Tells(bus \o off \o lit, t) /\ Says(bus \o off \o lit, t, shown'[t] # 0)
    <3>1. CASE t \in S
      <4>1. Tells(lit, t) /\ Says(lit, t, levels[t] # 0)
        BY <1>5, <3>1
      <4> QED BY <1>5, <1>8, <2>5, <4>1, ConcatTells
    <3>2. CASE t \notin S
      <4>1. (levels[t] # 0) = FALSE
        BY <1>2, <1>4, <2>1, <3>2
      <4>2. ~Tells(lit, t)
        BY <1>5, <3>2
      <4> QED BY <1>5, <1>8, <2>4, <2>5, <4>1, <4>2, ConcatTells
    <3> QED BY <3>1, <3>2
  <2> QED BY <1>1, <1>8, <2>6, ConcatTells
<1>10. BusGrows
  BY <1>8, <1>9 DEF BusGrows, Foretold
<1>11. HeldInv' /\ TogetherInv'
  <2>1. ~InLoop /\ ~InLoop' /\ joined' \subseteq joined /\ \A o \in joined' : output'[o] = output[o]
    BY <1>1 DEF Locked, InLoop
  <2>2. \A o \in OutputIndices : shown'[o] = Driven(o, output'[o].level)
    BY <1>4, <1>7
  <2> QED BY <2>1, <2>2, WrittenHolds
<1> QED BY <1>1, <1>3, <1>7, <1>8, <1>10, <1>11

LEMMA PresetHolds ==
    ASSUME FeedbackInv, SelectPreset
    PROVE  FeedbackInv'
<1>1. OutputsTyped /\ HeldInv /\ TogetherInv /\ Foretold /\ bus \in Seq(Signals)
  BY DEF FeedbackInv, IconsInv, OutputsTyped
<1>2. PICK number \in 0 .. 1 :
          /\ number + 1 \in DOMAIN preset
          /\ ChangePreset(number, SignalsOf(TouchEnabled[number + 1]))
          /\ Enable(TouchEnabled[number + 1])
  BY DEF SelectPreset
<1> DEFINE e == TouchEnabled[number + 1]
           others == SignalsOf(e)
<1>3. e \in BOOLEAN
  BY <1>1, <1>2, TouchAssumption DEF OutputsTyped
<1>4. Enable(e) /\ ChangePreset(number, others)
  BY <1>2, Zenon
<1> HIDE DEF e
<1>5. others \in Seq(Signals) /\ (\A t : ~Tells(others, t)) /\ (e /\ ~initialized => Screened(others))
  BY SignalsOfIs
<1> HIDE DEF others
<1>6. pulse' = pulse /\ task' = task /\ preset' = preset /\ ioFrozen' = ioFrozen /\ raced' = raced
  BY <1>4 DEF ChangePreset
<1>7. CASE ioFrozen
  <2>1. /\ OutputsSame /\ bus' = bus \o others
    BY <1>4, <1>6, <1>7 DEF ChangePreset, OutputsSame
  <2>2. bus' \in Seq(Signals) /\ BusGrows /\ (Screened(others) => Screened(bus'))
    BY <1>1, <1>5, <2>1, OthersGrow DEF OutputsSame
  <2>3. TouchTyped' /\ IconsInv' /\ PageInv'
    BY <1>3, <1>4, <1>5, <2>2, EnableHolds
  <2> QED BY <1>1, <2>1, <2>2, <2>3, OutputsSameHolds DEF FeedbackInv
<1>8. CASE ~ioFrozen
  <2>1. ~Locked /\ PresetOutputs(number, others) /\ RequestUpdate(FALSE)
    BY <1>4, <1>8, Zenon DEF ChangePreset
  <2>2. /\ output' \in [OutputIndices -> OutputBits] /\ shown' \in [OutputIndices -> Nat] /\ bus' \in Seq(Signals)
        /\ joined' \subseteq OutputIndices /\ HeldInv' /\ TogetherInv' /\ BusGrows
        /\ Screened(others) => Screened(bus')
    BY <1>1, <1>5, <1>6, <2>1, PresetOutputsIs
  <2>3. updates' \in Nat /\ forced' \in BOOLEAN
    BY <1>1, <2>1, RequestTyped
  <2>4. ~InLoop'
    BY <1>6, <2>1 DEF Locked, InLoop
  <2>5. OutputsTyped'
    BY <1>1, <1>6, <2>2, <2>3, <2>4 DEF OutputsTyped
  <2>6. TouchTyped' /\ IconsInv' /\ PageInv'
    BY <1>3, <1>4, <1>5, <2>2, EnableHolds
  <2> QED BY <2>2, <2>5, <2>6 DEF FeedbackInv
<1> QED BY <1>7, <1>8

-----------------------------------------------------------------------------
(* Theorems.                                                               *)

LEMMA InitialOutputIs ==
    ASSUME NEW settings, NEW number, NEW o
    PROVE  InitialOutput(settings, number, o) \in OutputBits
<1> DEFINE base == IF settings.outputs[o].type = "Static" THEN WithLevel(Off, LevelMax) ELSE Off
<1>1. base \in OutputBits
  BY OffIs, OutputFacts, WithLevelIs
<1>2. IsAction(PresetAction(settings, o, number))
  BY PresetActionIs
<1>3. InitialOutput(settings, number, o) = Applied(base, PresetAction(settings, o, number))
  BY DEF InitialOutput
<1> HIDE DEF base
<1> QED BY <1>1, <1>2, <1>3, AppliedIs

LEMMA FeedbackStarts == FeedbackInit => FeedbackInv
<1> SUFFICES ASSUME FeedbackInit PROVE FeedbackInv
  OBVIOUS
<1>1. /\ preset \in Presets /\ updates = 1 /\ forced = FALSE /\ task = AtGate /\ ioFrozen = FALSE
      /\ joined = {} /\ raced = {} /\ output = [o \in OutputIndices |-> InitialOutput(config, 0, o)]
      /\ shown = [o \in OutputIndices |-> Driven(o, output[o].level)]
      /\ pulse = [mode |-> PulseMode(config), counter |-> [s \in SpeedSet |-> 0], state |-> [s \in SpeedSet |-> TRUE]]
  BY DEF FeedbackInit, OutputsInit
<1>2. /\ initialized = TouchEnabled[1] /\ display = Blank(InitialScreen) /\ turning = NoTurn /\ missed = {} /\ strayed = {}
      /\ screen = InitialScreen
      /\ bus = IF initialized THEN <<ScreenSignal>> ELSE <<>>
  BY DEF FeedbackInit, ScreenSignal
<1>3. initialized \in BOOLEAN
  BY <1>1, <1>2, TouchAssumption
<1>4. output \in [OutputIndices -> OutputBits]
  BY <1>1, InitialOutputIs
<1>5. shown \in [OutputIndices -> Nat] /\ \A o \in OutputIndices : shown[o] = Driven(o, output[o].level)
  BY <1>1, <1>4, DrivenIs DEF OutputBits
<1>6. pulse \in [mode : {"Timer", "MidiClock"}, counter : [SpeedSet -> Nat], state : [SpeedSet -> BOOLEAN]]
  <2>1. PulseMode(config) \in {"Timer", "MidiClock"}
    BY DEF PulseMode
  <2> QED BY <1>1, <2>1
<1>7. task \in TaskType /\ task.at = "gate" /\ ~InLoop
  BY <1>1, OffIs, OutputFacts DEF AtGate, Task, TaskType, InLoop
<1>8. bus \in Seq(Signals) /\ (initialized => Screened(bus)) /\ \A t, lit : Says(bus, t, lit)
  BY <1>2, ScreenSignalIs
<1>9. OutputsTyped
  BY <1>1, <1>4, <1>5, <1>6, <1>7, <1>8 DEF OutputsTyped
<1>10. HeldInv
  BY <1>5, <1>7 DEF HeldInv, HandInv, ShownIsHeld
<1>11. TogetherInv
  BY <1>1, <1>7 DEF TogetherInv, TaskSpeed, OthersAlike, PassedToggled, RestAlike
<1>12. TouchTyped /\ PageInv
  BY <1>2, <1>3 DEF TouchTyped, PageInv, Blank, NoTurn
<1>13. IconsInv
  BY <1>8 DEF IconsInv, IconInv, Foretold
<1> QED BY <1>9, <1>10, <1>11, <1>12, <1>13 DEF FeedbackInv

LEMMA FeedbackSteps == FeedbackInv /\ [FeedbackNext]_feedbackVars => FeedbackInv'
<1> SUFFICES ASSUME FeedbackInv, [FeedbackNext]_feedbackVars PROVE FeedbackInv'
  OBVIOUS
<1>1. CASE OutputsNext /\ UNCHANGED touchVars
  <2>1. CASE OutputsThread
    BY <1>1, <2>1, ThreadHolds
  <2>2. CASE \/ \E m \in Messages : HandleMessage(m)
             \/ \E o \in OutputIndices, value \in OscValues : HandleOsc(o, value)
    BY <1>1, <2>2, MessageHolds
  <2>3. CASE \E o \in OutputIndices : WriteState(o) \/ WriteType(o)
    BY <1>1, <2>3, WriteHolds
  <2>4. CASE \E o \in OutputIndices : RefreshOutput(o)
    BY <1>1, <2>4, RefreshHolds
  <2>5. CASE HandleClock \/ HandleStart \/ WritePulseMode \/ FreezeOutputs \/ ResumeOutputs
    BY <1>1, <2>5, PulseHolds
  <2> QED BY <1>1, <2>1, <2>2, <2>3, <2>4, <2>5, Zenon DEF OutputsNext
<1>2. CASE TouchNext
  <2>1. CASE TouchThread
    BY <2>1, TurnHolds, AnnounceHolds DEF TouchThread
  <2>2. CASE HandleLevel
    BY <2>2, LevelHolds
  <2>3. CASE AnswerScreen
    BY <2>3, AnswerHolds
  <2>4. CASE SelectPreset
    BY <2>4, PresetHolds
  <2>5. CASE WriteEnable \/ WriteScreen
    BY <2>5, SettingHolds
  <2> QED BY <1>2, <2>1, <2>2, <2>3, <2>4, <2>5 DEF TouchNext
<1>3. CASE UNCHANGED feedbackVars
  <2>1. OutputsSame /\ bus' = bus /\ UNCHANGED touchVars
    BY <1>3 DEF feedbackVars, outputVars, levelState, pulseState, settingState, OutputsSame
  <2>2. OutputsTyped /\ HeldInv /\ TogetherInv /\ bus' \in Seq(Signals)
    BY <2>1 DEF FeedbackInv, OutputsTyped
  <2>3. shown' = shown
    BY <2>1 DEF OutputsSame
  <2> QED BY <2>1, <2>2, <2>3, OutputsSameHolds, StillTouch DEF FeedbackInv
<1> QED BY <1>1, <1>2, <1>3 DEF FeedbackNext

\* Outputs and touchscreen, whatever is told, written, refreshed, frozen or turned meanwhile.
THEOREM FeedbackInvariant == FeedbackSpec => []FeedbackInv
<1>1. FeedbackInit => FeedbackInv
  BY FeedbackStarts
<1>2. FeedbackInv /\ [FeedbackNext]_feedbackVars => FeedbackInv'
  BY FeedbackSteps
<1> QED BY <1>1, <1>2, PTL DEF FeedbackSpec

\* Outputs::write_level(): what an output shows is its level, or dark while it pulses.
THEOREM OutputsShowTheirLevel == FeedbackSpec => []ShownIsHeld
<1>1. FeedbackInv => ShownIsHeld
  BY DEF FeedbackInv, HeldInv
<1> QED BY <1>1, FeedbackInvariant, PTL

\* Outputs::process_update(): the outputs of a speed are lit and dark together.
THEOREM OutputsPulseTogether == FeedbackSpec => []PulsesTogether
<1>1. FeedbackInv => PulsesTogether
  <2> SUFFICES ASSUME FeedbackInv, NEW o \in joined, NEW p \in joined, ~Locked, output[o].pulseOn, output[p].pulseOn,
                      output[o].timer = output[p].timer
               PROVE  output[o].state = output[p].state
    BY DEF PulsesTogether
  <2>1. o \in OutputIndices /\ output[o].timer \in SpeedSet
    BY DEF FeedbackInv, OutputsTyped, OutputBits
  <2>2. ~InLoop /\ Pulsing(output[o].timer, o) /\ Pulsing(output[o].timer, p)
    BY DEF Locked, InLoop, Pulsing
  <2> QED BY <2>1, <2>2 DEF FeedbackInv, TogetherInv, OthersAlike, Alike
<1> QED BY <1>1, FeedbackInvariant, PTL

\* Touchscreen::set_icon_state() and set_screen(): the icons of the active screen are drawn as their outputs.
THEOREM IconsAreDrawn == FeedbackSpec => []IconsShown
<1>1. FeedbackInv => IconsShown
  <2> SUFFICES ASSUME FeedbackInv, initialized, bus = <<>>, turning = NoTurn, NEW t \in TouchOutputs \ missed,
                      OnScreen(t, screen)
               PROVE  display.icon[t] = IF shown[t] # 0 THEN "on" ELSE "off"
    BY DEF IconsShown
  <2>1. ~Tells(bus, t) /\ ~Screened(bus)
    BY DEF Tells, Screened
  <2>2. turning.at = "none"
    BY DEF NoTurn
  <2> QED BY <2>1, <2>2 DEF FeedbackInv, IconsInv, IconInv, Drawn
<1> QED BY <1>1, FeedbackInvariant, PTL

\* Touchscreen::set_screen(): the page that is shown is the active screen, and its icons are of that screen, but for
\* icons drawn between the two steps that turn a page, and until the next page sent undisturbed when the dispatcher
\* got into them.
THEOREM PageStaysActive == FeedbackSpec => []PageIsActive
<1>1. FeedbackInv => PageIsActive
  BY DEF FeedbackInv, PageInv, PageIsActive
<1> QED BY <1>1, FeedbackInvariant, PTL
=============================================================================
