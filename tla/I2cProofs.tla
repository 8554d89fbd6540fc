----------------------------- MODULE I2cProofs -----------------------------
(***************************************************************************)
(* The gate for any number of threads, and the I2C thread with any         *)
(* peripherals, settings and devices: sensors that work again once they    *)
(* are left alone, registers that follow the settings, zones that are      *)
(* shown where they belong, a host that knows what the sensors measure,    *)
(* and a screen that shows what its elements say.                          *)
(*                                                                         *)
(* SensorsHeal is not inductive.  It holds because a driver that is not    *)
(* healthy is always on its way: its next update or its next probe is at   *)
(* most so many ticks off, which Failing and Missing count against the     *)
(* calm of its device.  HostUpToDate and ScreenShows count the same way    *)
(* what a healthy driver has yet to tell or to draw: Pressing and Lately.  *)
(***************************************************************************)
EXTENDS I2c, FiniteSetTheorems, TLAPS

-----------------------------------------------------------------------------
(* The gate, for any number of workers and any limit of the semaphore.     *)
(* That a worker is never blocked while I/O runs is not inductive: it does *)
(* not say how many tokens the others may take.  EnoughTokens counts them. *)

\* The waiting workers are finitely many, at most as many as resume() gives tokens.
LEMMA WaitingBounded ==
    /\ IsFiniteSet(Waiting)
    /\ Cardinality(Waiting) \in Nat
    /\ Cardinality(Waiting) <= Count
<1>1. Waiting \subseteq Workers
  BY DEF Waiting
<1>2. IsFiniteSet(Workers)
  BY GateAssumption
<1>3. IsFiniteSet(Waiting) /\ Cardinality(Waiting) <= Cardinality(Workers)
  BY <1>1, <1>2, FS_Subset
<1>4. Cardinality(Waiting) \in Nat /\ Cardinality(Workers) \in Nat
  BY <1>2, <1>3, FS_CardinalityType
<1> QED BY <1>3, <1>4, GateAssumption

\* The types hold initially, and no operation on the flag, the semaphore or a worker breaks them.
THEOREM GateTyped == Spec => []TypeOK
<1>1. Init => TypeOK
  BY GateAssumption DEF Init, TypeOK
<1>2. TypeOK /\ [Next]_vars => TypeOK'
  <2> SUFFICES ASSUME TypeOK, [Next]_vars PROVE TypeOK'
    OBVIOUS
  <2> USE DEF TypeOK
  <2>1. CASE Freeze
    BY <2>1 DEF Freeze
  <2>2. CASE Resume
    <3>1. gives' \in 0 .. Count
      <4>1. CASE frozen
        BY <2>2, <4>1, GateAssumption DEF Resume
      <4>2. CASE ~frozen
        BY <2>2, <4>2, GateAssumption DEF Resume
      <4> QED BY <4>1, <4>2
    <3> QED BY <2>2, <3>1, Zenon DEF Resume
  <2>3. CASE Give
    BY <2>3, GateAssumption DEF Give
  <2>4. ASSUME NEW w \in Workers, Iterate(w) PROVE TypeOK'
    BY <2>4 DEF Iterate
  <2>5. ASSUME NEW w \in Workers, Check(w) PROVE TypeOK'
    BY <2>5 DEF Check
  <2>6. ASSUME NEW w \in Workers, Take(w) PROVE TypeOK'
    BY <2>6, GateAssumption DEF Take
  <2>7. CASE UNCHANGED vars
    BY <2>7 DEF vars
  <2> QED BY <2>1, <2>2, <2>3, <2>4, <2>5, <2>6, <2>7 DEF Next
<1> QED BY <1>1, <1>2, PTL DEF Spec

\* An iteration changes nothing about who waits.
LEMMA IterateWaiting == ASSUME TypeOK, NEW w \in Workers, Iterate(w) PROVE Waiting' = Waiting
  BY DEF TypeOK, Iterate, Waiting

\* Nobody starts to wait while the flag is clear.
LEMMA CheckWaiting == ASSUME TypeOK, NEW w \in Workers, Check(w), ~frozen PROVE Waiting' = Waiting
  BY DEF TypeOK, Check, Waiting

\* Taking a token ends one wait.
LEMMA TakeWaiting ==
    ASSUME TypeOK, NEW w \in Workers, Take(w)
    PROVE  w \in Waiting /\ Waiting' = Waiting \ {w}
  BY DEF TypeOK, Take, Waiting

\* While I/O runs there is a token for every waiting worker, whatever the order of freezes, resumes, single
\* tokens and steps of the workers.
THEOREM GateEnoughTokens == Spec => []EnoughTokens
<1>1. Init => EnoughTokens
  BY DEF Init, EnoughTokens
<1>2. TypeOK /\ EnoughTokens /\ [Next]_vars => EnoughTokens'
  <2> SUFFICES ASSUME TypeOK, EnoughTokens, [Next]_vars, ~frozen' PROVE (Cardinality(Waiting) <= tokens + gives)'
    BY DEF EnoughTokens
  <2>t. tokens \in Nat /\ gives \in Nat /\ tokens <= Limit
    BY GateAssumption DEF TypeOK
  <2>w. Cardinality(Waiting) \in Nat /\ Cardinality(Waiting) <= Count /\ IsFiniteSet(Waiting)
    BY WaitingBounded
  <2>1. CASE Freeze
    BY <2>1 DEF Freeze
  <2>2. CASE Resume
    <3>1. Waiting' = Waiting /\ tokens' = tokens
      BY <2>2 DEF Resume, Waiting
    <3>2. CASE frozen
      BY <2>2, <2>t, <2>w, <3>1, <3>2, GateAssumption DEF Resume
    <3>3. CASE ~frozen
      BY <2>2, <2>t, <2>w, <3>1, <3>3 DEF Resume, EnoughTokens
    <3> QED BY <3>2, <3>3
  <2>3. CASE Give
    <3>1. Waiting' = Waiting /\ ~frozen
      BY <2>3 DEF Give, Waiting
    <3>2. Cardinality(Waiting) <= tokens + gives
      BY <3>1 DEF EnoughTokens
    <3> QED BY <2>3, <2>t, <2>w, <3>1, <3>2, GateAssumption DEF Give
  <2>4. ASSUME NEW w \in Workers, Iterate(w) PROVE (Cardinality(Waiting) <= tokens + gives)'
    <3>1. Waiting' = Waiting
      BY <2>4, IterateWaiting
    <3> QED BY <2>4, <3>1 DEF Iterate, EnoughTokens
  <2>5. ASSUME NEW w \in Workers, Check(w) PROVE (Cardinality(Waiting) <= tokens + gives)'
    <3>1. ~frozen
      BY <2>5 DEF Check
    <3>2. Waiting' = Waiting
      BY <2>5, <3>1, CheckWaiting
    <3> QED BY <2>5, <3>1, <3>2 DEF Check, EnoughTokens
  <2>6. ASSUME NEW w \in Workers, Take(w) PROVE (Cardinality(Waiting) <= tokens + gives)'
    <3>1. w \in Waiting /\ Waiting' = Waiting \ {w}
      BY <2>6, TakeWaiting
    <3>2. Cardinality(Waiting \ {w}) = Cardinality(Waiting) - 1
      BY <3>1, <2>w, FS_RemoveElement
    <3>3. tokens' = tokens - 1 /\ gives' = gives /\ ~frozen
      BY <2>6 DEF Take
    <3> QED BY <2>t, <2>w, <3>1, <3>2, <3>3 DEF EnoughTokens
  <2>7. CASE UNCHANGED vars
    BY <2>7 DEF vars, Waiting, EnoughTokens
  <2> QED BY <2>1, <2>2, <2>3, <2>4, <2>5, <2>6, <2>7 DEF Next
<1> QED BY <1>1, <1>2, GateTyped, PTL DEF Spec

\* A worker is never blocked in k_sem_take() while I/O is running and resume() has returned.
THEOREM GateNoLostWakeup == Spec => []NoLostWakeup
<1>1. TypeOK /\ EnoughTokens => NoLostWakeup
  <2> SUFFICES ASSUME TypeOK, EnoughTokens, ~frozen, gives = 0, NEW w \in Waiting PROVE tokens > 0
    BY DEF NoLostWakeup
  <2>1. tokens \in Nat /\ Cardinality(Waiting) <= tokens
    BY GateAssumption DEF TypeOK, EnoughTokens
  <2>2. Cardinality(Waiting) \in Nat /\ Cardinality(Waiting) # 0
    BY WaitingBounded, FS_EmptySet
  <2> QED BY <2>1, <2>2
<1> QED BY <1>1, GateTyped, GateEnoughTokens, PTL

\* A token left over from an earlier resume never starts an iteration in a freeze.
THEOREM GateStartsOnlyWhenRunning == Spec => StartsOnlyWhenRunning
<1>1. TypeOK /\ [Next]_vars => StartsRunning
  <2> SUFFICES ASSUME TypeOK, [Next]_vars, NEW v \in Workers, worker[v] # "work", worker'[v] = "work" PROVE ~frozen
    BY DEF StartsRunning
  <2>1. CASE Freeze \/ Resume \/ Give \/ UNCHANGED vars
    BY <2>1 DEF Freeze, Resume, Give, vars
  <2>2. ASSUME NEW w \in Workers, Iterate(w) PROVE ~frozen
    BY <2>2 DEF Iterate, TypeOK
  <2>3. ASSUME NEW w \in Workers, Check(w) PROVE ~frozen
    BY <2>3 DEF Check, TypeOK
  <2>4. ASSUME NEW w \in Workers, Take(w) PROVE ~frozen
    BY <2>4 DEF Take, TypeOK
  <2> QED BY <2>1, <2>2, <2>3, <2>4 DEF Next
<1>2. TypeOK /\ [Next]_vars => [StartsRunning]_vars
  BY <1>1
<1> QED BY <1>2, GateTyped, PTL DEF Spec, StartsOnlyWhenRunning

\* The gate as the I/O threads rely on it, for any number of them up to Io::Count.
THEOREM GateIsWorking == Spec => GateWorks
<1>1. TypeOK /\ EnoughTokens /\ NoLostWakeup => GateSafe
  BY DEF GateSafe
<1>2. Spec => []GateSafe
  BY <1>1, GateTyped, GateEnoughTokens, GateNoLostWakeup, PTL
<1> QED BY <1>2, GateStartsOnlyWhenRunning, PTL DEF GateWorks, StartsOnlyWhenRunning

-----------------------------------------------------------------------------
(* The inductive invariant of the thread, its peripherals and the          *)
(* dispatcher.                                                             *)

IsSched(p, s) ==
    /\ s = [initialized |-> s.initialized, probe |-> s.probe, update |-> s.update]
    /\ s.initialized \in BOOLEAN
    /\ s.probe \in Nat /\ s.probe <= now + ProbeInterval
    /\ s.update \in Nat /\ s.update <= now + Interval[p]
IsDriver(v) == {"up", "address"} \subseteq DOMAIN v /\ v.up \in BOOLEAN
IsDevice(p, d) ==
    /\ d = [present |-> d.present, at |-> d.at, regs |-> d.regs, input |-> d.input, stranger |-> d.stranger]
    /\ d.present \in BOOLEAN /\ d.at \in 1 .. AddressCount[p] /\ d.stranger \in Nat

\* The peripherals and the thread that serves them.
PeripheralType(p) ==
    /\ IsSched(p, sched[p]) /\ IsDriver(driver[p]) /\ IsDevice(p, device[p])
    /\ DOMAIN settings[p] = Fields(p)
    /\ calm[p] \in Nat
ThreadInv ==
    /\ order \in Seq(Drivers)
    /\ now \in Nat /\ ran \in BOOLEAN
    /\ turn \in 0 .. Len(order) + 1
    /\ pc \in {"idle", "init", "read"} /\ (pc # "idle" => turn \in DOMAIN order)
    /\ handler \in Peripherals \cup {"none"}
    /\ DOMAIN sched = Peripherals /\ DOMAIN driver = Peripherals /\ DOMAIN device = Peripherals
    /\ DOMAIN settings = Peripherals /\ DOMAIN calm = Peripherals
    /\ \A p \in Peripherals : PeripheralType(p)

\* While it is calm, the device is there, I/O runs and the dispatcher leaves the driver alone.
CalmInv(p) == calm[p] > 0 => device[p].present /\ handler # p /\ ~frozen

InInit(p) == Serving(p) /\ pc = "init"
InRead(p) == Serving(p) /\ pc = "read"
\* The thread has served the peripheral in this tick.
Served(p) == ran \/ \E i \in DOMAIN order : order[i] = p /\ turn > i

\* What SensorsHeal excepts.
Excused(p) == IF p = "display" THEN ~Supported(settings[p]) ELSE \E a \in Acknowledged(p) : a < device[p].at

\* The driver will not be dropped.  Two drivers never are.
Faithful == {"bno085", "display"}
Healthy(p) == sched[p].initialized /\ driver[p].up /\ (p \in Faithful \/ driver[p].address = device[p].at)
\* The driver will be dropped with its next update,
Failing(p) ==
    /\ sched[p].initialized /\ calm[p] <= Interval[p] /\ sched[p].update + calm[p] <= now + Interval[p]
    /\ Served(p) => now < sched[p].update
    /\ ~InInit(p) /\ ~InRead(p)

\* is down and will be probed for,
Missing(p) ==
    /\ ~sched[p].initialized /\ calm[p] <= ProbeInterval + Interval[p]
    /\ sched[p].probe + calm[p] <= now + Interval[p] + ProbeInterval
    /\ Served(p) => now < sched[p].probe
    /\ ~InInit(p) /\ ~InRead(p)

\* or is being set up at the right address.
Entering(p) ==
    /\ ~sched[p].initialized /\ calm[p] <= ProbeInterval + Interval[p]
    /\ InInit(p)
    /\ work.cfg = settings[p] /\ (p = "display" \/ driver[p].address = device[p].at)

\* One that is excepted is not up.
Absent(p) ==
    /\ Excused(p) /\ ~sched[p].initialized /\ ~driver[p].up
    /\ InInit(p) => work.cfg = settings[p]

\* A driver asks at one of the addresses, and never beyond the other chip.
IsAddress(p, a) ==
    /\ a \in 1 .. AddressCount[p]
    /\ device[p].stranger \in 1 .. AddressCount[p] => a <= device[p].stranger
HealInv(p) ==
    /\ (InInit(p) => ~sched[p].initialized) /\ (InRead(p) => sched[p].initialized)
    /\ IsAddress(p, driver[p].address)
    /\ calm[p] > 0 => Healthy(p) \/ Failing(p) \/ Missing(p) \/ Entering(p) \/ Absent(p)

\* The registers are those of the settings; the thread sets up with the settings of now, unless init() overlapped.
Alike(p, c, s) == Registers(p, c) = Registers(p, s) /\ (p = "display" => Supported(c) = Supported(s))
RegistersInv(p) ==
    p \notin mixed =>
        /\ InInit(p) => Alike(p, work.cfg, settings[p])
        /\ p = "display" /\ handler = p /\ ~Supported(settings[p]) => ~driver[p].up
        /\ p \notin unnoticed /\ driver[p].up /\ ~(p = "display" /\ handler = p) =>
              device[p].regs = Registers(p, settings[p])

PeripheralInv(p) == CalmInv(p) /\ HealInv(p) /\ RegistersInv(p)
I2cInv == ThreadInv /\ \A p \in Peripherals : PeripheralInv(p)

-----------------------------------------------------------------------------
(* The drivers: what their operations leave of up and address.             *)

\* An operation that keeps both.
Keeps(v, w) == IsDriver(w) /\ w.up = v.up /\ w.address = v.address

LEMMA FreshFacts ==
    ASSUME NEW p \in Drivers
    PROVE  IsDriver(FreshDriver(p)) /\ ~FreshDriver(p).up /\ FreshDriver(p).address = 1
  BY DEF Drivers, IsDriver, FreshDriver, ApdsFresh, CapFresh, BnoFresh, L4Fresh, L5Fresh, DisplayFresh

\* init() takes the driver down first, but for the display.
LEMMA StartFacts ==
    ASSUME NEW p \in Drivers, NEW v, NEW s, IsDriver(v)
    PROVE  /\ IsDriver(Start(p, v, s))
           /\ Start(p, v, s).up => v.up /\ p = "display" /\ Supported(s)
  BY DEF Drivers, IsDriver, Start, ApdsStart, CapStart, BnoStart, L4Start, L5Start, DisplayStart

\* The texts of the display keep the driver.
LEMMA SetTextKeeps ==
    ASSUME NEW v, NEW e, NEW text, NEW t, IsDriver(v)
    PROVE  Keeps(v, SetText(v, e, text, t))
  BY DEF Keeps, IsDriver, SetText

LEMMA SetTextsKeeps ==
    ASSUME NEW v, NEW texts, NEW t, IsDriver(v)
    PROVE  Keeps(v, SetTexts(v, texts, t))
  BY DEF Keeps, IsDriver, SetTexts

LEMMA RetentionKeeps ==
    ASSUME NEW v, NEW time, NEW t, IsDriver(v)
    PROVE  Keeps(v, SetRetention(v, time, t))
<1> DEFINE w == [v EXCEPT !.retention = time]
<1>1. Keeps(v, w)
  BY DEF Keeps, IsDriver
<1> HIDE DEF w
<1> DEFINE gone == IF time = 0 THEN {} ELSE {e \in Retained : v.elements[e].text # Blank}
<1>2. Keeps(w, SetTexts(w, [e \in gone |-> Blank], t))
  BY <1>1, SetTextsKeeps DEF Keeps
<1>3. SetRetention(v, time, t) = SetTexts(w, [e \in gone |-> Blank], t)
  BY DEF SetRetention, Cleared, w
<1> QED BY <1>1, <1>2, <1>3 DEF Keeps

LEMMA ExpireKeeps ==
    ASSUME NEW v, NEW t, IsDriver(v)
    PROVE  Keeps(v, Expire(v, t))
  BY SetTextsKeeps DEF Expire, Cleared

\* The driver is up at the end of init().
LEMMA ReadyFacts ==
    ASSUME NEW p \in Drivers, NEW v, NEW s, IsDriver(v)
    PROVE  IsDriver(Ready(p, v, s)) /\ Ready(p, v, s).up /\ Ready(p, v, s).address = v.address
<1>1. CASE p = "display"
  <2> DEFINE w == [v EXCEPT !.up = TRUE, !.greeted = TRUE, !.resolution = s.resolution, !.alternate = s.alternate]
             r == SetRetention(w, s.eventTime, now)
  <2>1. IsDriver(w) /\ w.up /\ w.address = v.address
    BY DEF IsDriver
  <2>2. Ready(p, v, s) = SetText(r, "preset", Presets[preset + 1], now)
    BY <1>1 DEF Ready, DisplayReady
  <2> HIDE DEF w
  <2>3. Keeps(w, r)
    BY <2>1, RetentionKeeps
  <2> HIDE DEF r
  <2>4. Keeps(r, SetText(r, "preset", Presets[preset + 1], now))
    BY <2>3, SetTextKeeps DEF Keeps
  <2> QED BY <2>1, <2>2, <2>3, <2>4 DEF Keeps
<1>2. CASE p # "display"
  BY <1>2 DEF Drivers, IsDriver, Ready, ApdsReady, CapReady, BnoReady, BnoFresh, L4Ready, L5Ready
<1> QED BY <1>1, <1>2

\* deinit() takes it down.
LEMMA DeinitFacts ==
    ASSUME NEW p \in Drivers, NEW v, IsDriver(v)
    PROVE  IsDriver(Deinit(p, v)) /\ ~Deinit(p, v).up /\ Deinit(p, v).address \in {v.address, 1}
  BY DEF Drivers, IsDriver, Deinit, ApdsDeinit, ApdsFresh, CapDeinit, BnoDeinit, L4Deinit, L4Fresh, L5Deinit, DisplayDeinit

\* What the dispatcher does to a driver apart from init().
LEMMA ResetKeeps ==
    ASSUME NEW v, IsDriver(v)
    PROVE  Keeps(v, BnoForget(v)) /\ Keeps(v, L5Reset(v))
  BY DEF Keeps, IsDriver, BnoForget, L5Reset

LEMMA WrittenKeeps ==
    ASSUME NEW v, NEW setting, NEW value, NEW t, IsDriver(v)
    PROVE  Keeps(v, DisplayWritten(v, setting, value, t))
<1>1. Keeps(v, SetRetention(v, value, t))
  BY RetentionKeeps
<1>2. Keeps(v, [v EXCEPT !.alternate = value]) /\ Keeps(v, v)
  BY DEF Keeps, IsDriver
<1> QED BY <1>1, <1>2 DEF DisplayWritten

LEMMA MessageKeeps ==
    ASSUME NEW v, NEW type, NEW value, NEW message, NEW t, IsDriver(v)
    PROVE  Keeps(v, ShowMessage(v, type, value, message, t))
  BY SetTextsKeeps DEF ShowMessage

\* A failed read takes a driver down or leaves it where it is.
LEMMA FailFacts ==
    ASSUME NEW v, NEW n, IsDriver(v)
    PROVE  /\ IsDriver(ApdsFail(v, n))
           /\ ApdsFail(v, n).up => v.up
           /\ ApdsFail(v, n).address = v.address
  BY DEF IsDriver, ApdsFail, ApdsLost, ApdsFresh

LEMMA UnreadFacts ==
    ASSUME NEW p \in Drivers, NEW v, NEW s, IsDriver(v)
    PROVE  /\ IsDriver(Unread(p, v, s).v)
           /\ Unread(p, v, s).v.up => v.up
           /\ Unread(p, v, s).v.address = v.address
           /\ Unread(p, v, s).ok /\ p \notin {"apds9960", "display"} => p = "bno085" /\ Unread(p, v, s).v = v
  BY FailFacts DEF Drivers, IsDriver, Unread

\* The data of a driver.
LEMMA ApdsDataFacts ==
    ASSUME NEW v, NEW was, NEW s, NEW sample, NEW answered \in BOOLEAN, NEW t, IsDriver(v)
    PROVE  LET done == ApdsProcess(v, was, s, sample, answered, t)
           IN /\ IsDriver(done.v) /\ (done.v.up => v.up) /\ done.v.address = v.address
              /\ answered /\ v.up => done.ok /\ done.v.up
<1> DEFINE due == ApdsDue(was, sample)
           reads == Cardinality(due \cap {"proximity"}) + Cardinality({e \in {"gesture"} : was.mode = "gesture"})
                    + (IF due \cap {"ambient", "rgb"} # {} THEN 1 ELSE 0)
           values == ApdsValues(v, was, sample)
           heard == [v EXCEPT !.failures = IF ApdsNeedsStatus(was) THEN 0 ELSE @]
           read == [heard EXCEPT !.values = values, !.failures = IF reads > 0 THEN 0 ELSE @]
           gesture == IF was.mode = "gesture" THEN ApdsReadGesture(read, s, sample.fifo, t)
                      ELSE [ok |-> TRUE, v |-> read, out |-> <<>>]
           changed == {topic \in due : values[topic] # v.values[topic]}
           lost == ApdsFail(heard, reads)
           done == ApdsProcess(v, was, s, sample, answered, t)
<1>1. done = IF answered
             THEN [v |-> gesture.v, ok |-> gesture.ok,
                   out |-> [topic \in changed |-> ApdsResult(topic, values[topic], s)] @@ gesture.out]
             ELSE [v |-> lost, ok |-> reads > 0 => lost.up, out |-> <<>>]
  BY DEF ApdsProcess
<1>2. /\ IsDriver(heard) /\ heard.up = v.up /\ heard.address = v.address
      /\ IsDriver(read) /\ read.up = v.up /\ read.address = v.address
  <2> HIDE DEF reads, values
  <2>1. IsDriver(heard) /\ heard.up = v.up /\ heard.address = v.address
    BY DEF IsDriver
  <2> HIDE DEF heard
  <2>2. IsDriver(read) /\ read.up = v.up /\ read.address = v.address
    BY <2>1 DEF IsDriver
  <2> QED BY <2>1, <2>2
<1>3. IsDriver(gesture.v) /\ gesture.v.up = v.up /\ gesture.v.address = v.address /\ (v.up => gesture.ok)
  <2> HIDE DEF read
  <2>1. IsDriver(ApdsReadGesture(read, s, sample.fifo, t).v)
        /\ ApdsReadGesture(read, s, sample.fifo, t).v.up = v.up
        /\ ApdsReadGesture(read, s, sample.fifo, t).v.address = v.address
        /\ (v.up => ApdsReadGesture(read, s, sample.fifo, t).ok)
    <3> DEFINE found == ApdsGesture(read.edges, sample.fifo, t)
               sent == found.gesture # "none" /\ (read.sent = 0 \/ t - read.sent >= GestureCooldown)
    <3>1. ApdsReadGesture(read, s, sample.fifo, t)
            = [ok |-> found.gesture = "none" => read.up,
               v |-> [read EXCEPT !.edges = IF sample.fifo = <<>> THEN read.edges ELSE found.edges, !.sent = IF sent THEN t ELSE @],
               out |-> [topic \in {x \in {"gesture"} : sent} |-> ApdsOriented(found.gesture, s)]]
      BY DEF ApdsReadGesture
    <3> DEFINE kept == IF sample.fifo = <<>> THEN read.edges ELSE found.edges
               next == [read EXCEPT !.edges = kept, !.sent = IF sent THEN t ELSE @]
    <3>2. IsDriver(next) /\ next.up = read.up /\ next.address = read.address
      <4> HIDE DEF kept, sent
      <4> QED BY <1>2 DEF IsDriver
    <3> HIDE DEF found, sent
    <3>3. ApdsReadGesture(read, s, sample.fifo, t).v = next
      BY <3>1
    <3>4. read.up => ApdsReadGesture(read, s, sample.fifo, t).ok
      <4> DEFINE ok == found.gesture = "none" => read.up
                 out == [topic \in {x \in {"gesture"} : sent} |-> ApdsOriented(found.gesture, s)]
      <4>1. ApdsReadGesture(read, s, sample.fifo, t) = [ok |-> ok, v |-> next, out |-> out]
        BY <3>1 DEF next
      <4>2. read.up => ok
        OBVIOUS
      <4> HIDE DEF ok, next, out
      <4>3. ApdsReadGesture(read, s, sample.fifo, t).ok = ok
        BY <4>1
      <4> QED BY <4>2, <4>3
    <3> HIDE DEF next
    <3> QED BY <3>2, <3>3, <3>4, <1>2
  <2> QED BY <2>1, <1>2
<1> HIDE DEF due, reads, values, heard, read, gesture, changed, done
<1>4. IsDriver(lost) /\ (lost.up => v.up) /\ lost.address = v.address
  BY <1>2, FailFacts
<1> HIDE DEF lost
<1>5. answered => IsDriver(done.v) /\ done.v.up = v.up /\ done.v.address = v.address /\ (v.up => done.ok)
  BY <1>1, <1>3
<1>6. ~answered => IsDriver(done.v) /\ (done.v.up => v.up) /\ done.v.address = v.address
  BY <1>1, <1>4
<1>7. IsDriver(done.v) /\ (done.v.up => v.up) /\ done.v.address = v.address /\ (answered /\ v.up => done.ok /\ done.v.up)
  BY <1>5, <1>6
<1> QED BY <1>7 DEF done

LEMMA L4DataFacts ==
    ASSUME NEW v, NEW s, NEW objects, IsDriver(v)
    PROVE  Keeps(v, L4Process(v, s, objects).v)
<1> DEFINE closest == L4Closest(objects)
           first == v.last = <<>>
           mm == IF first THEN closest[1] ELSE L4Filter(v, s, closest[1])
           result == L4Result(v.sent, s, mm)
           quiet == ~(s.mm \/ s.norm) \/ closest = <<>>
           same == ~first /\ <<mm>> = v.last
           kept == [v EXCEPT !.filter = <<mm>>]
           next == [v EXCEPT !.last = <<mm>>, !.filter = IF first THEN @ ELSE <<mm>>,
                             !.sent = [o \in {"mm", "norm"} |-> IF o \in DOMAIN result THEN <<result[o]>> ELSE @[o]]]
<1>1. L4Process(v, s, objects) = IF quiet THEN [v |-> v, out |-> <<>>]
                                 ELSE IF same THEN [v |-> kept, out |-> <<>>] ELSE [v |-> next, out |-> result]
  BY DEF L4Process
<1>2. Keeps(v, v) /\ Keeps(v, kept) /\ Keeps(v, next)
  <2> HIDE DEF mm, first, result
  <2> QED BY DEF Keeps, IsDriver
<1> HIDE DEF quiet, same, kept, next, result
<1> QED BY <1>1, <1>2

LEMMA BnoDataFacts ==
    ASSUME NEW v, NEW s, NEW report, NEW value, NEW t, IsDriver(v)
    PROVE  Keeps(v, BnoProcess(v, s, report, value, t).v)
<1> DEFINE smooth == BnoSmoothed(v, s, report, value)
           told1 == v.told[report] # <<smooth>> /\ BnoDue(v, report, t)
           kept == [v EXCEPT !.smoothed[report] = <<smooth>>]
           next == [kept EXCEPT !.told[report] = <<smooth>>, !.at[report] = IF t = 0 THEN 1 ELSE t]
<1>1. BnoProcess(v, s, report, value, t).v = IF told1 THEN next ELSE kept
  BY DEF BnoProcess
<1> HIDE DEF smooth, told1
<1>2. Keeps(v, kept)
  BY DEF Keeps, IsDriver
<1>3. Keeps(v, next)
  <2> HIDE DEF kept
  <2> QED BY <1>2 DEF Keeps, IsDriver
<1> QED BY <1>1, <1>2, <1>3

LEMMA L5DataFacts ==
    ASSUME NEW v, NEW s, NEW frame, NEW t, IsDriver(v)
    PROVE  Keeps(v, L5Process(v, s, frame, t).v)
<1> DEFINE f == L5Frame(v.frames, s, frame)
           due == t - f.published >= OutputEvery[s.rate]
           frames == [f EXCEPT !.published = IF due THEN t ELSE @]
<1>1. L5Process(v, s, frame, t).v = [v EXCEPT !.frames = frames]
  BY DEF L5Process
<1> HIDE DEF frames
<1> QED BY <1>1 DEF Keeps, IsDriver

\* update() leaves an initialized driver up when its transactions are answered.
LEMMA ProcessFacts ==
    ASSUME NEW p \in Drivers, NEW v, NEW s, NEW answered \in BOOLEAN, IsDriver(v)
    PROVE  LET done == Process(p, v, s, answered)
           IN /\ IsDriver(done.v) /\ (done.v.up => v.up) /\ done.v.address = v.address
              /\ answered /\ v.up => done.ok /\ done.v.up
<1> DEFINE done == Process(p, v, s, answered)
<1> SUFFICES IsDriver(done.v) /\ (done.v.up => v.up) /\ done.v.address = v.address /\ (answered /\ v.up => done.ok /\ done.v.up)
  OBVIOUS
<1>1. CASE p = "apds9960"
  BY <1>1, ApdsDataFacts DEF Process
<1>2. CASE p = "cap1188"
  <2>1. done.v = CapProcess(v, work.sample).v /\ done.ok = answered
    BY <1>2 DEF Process, Answering
  <2>2. Keeps(v, CapProcess(v, work.sample).v)
    BY DEF CapProcess, Keeps, IsDriver
  <2> QED BY <2>1, <2>2 DEF Keeps
<1>3. CASE p = "bno085"
  <2>1. done.v = BnoProcess(v, s, work.sample.report, work.sample.value, now).v /\ done.ok = TRUE
    BY <1>3 DEF Process, Answering
  <2> HIDE DEF done
  <2> QED BY <2>1, BnoDataFacts DEF Keeps
<1>4. CASE p = "vl53l4cx"
  <2> DEFINE d == L4Process(v, s, work.sample)
             b == d.v.up /\ answered
             ok == v.up /\ answered
  <2>1. Keeps(v, d.v)
    BY L4DataFacts
  <2> HIDE DEF d
  <2>2. done = [v |-> [d.v EXCEPT !.up = b], out |-> d.out, ok |-> ok]
    BY <1>4 DEF Process, d
  <2>3. b \in BOOLEAN /\ ok \in BOOLEAN
    OBVIOUS
  <2> HIDE DEF b, ok, done
  <2>4. done.v = [d.v EXCEPT !.up = b] /\ done.ok = ok
    BY <2>2
  <2>5. IsDriver(done.v) /\ done.v.up = b /\ done.v.address = v.address
    BY <2>1, <2>3, <2>4 DEF Keeps, IsDriver
  <2> QED BY <2>1, <2>4, <2>5 DEF Keeps, b, ok
<1>5. CASE p = "vl53l5cx"
  <2>1. done.v = L5Process(v, s, work.sample, now).v /\ done.ok = v.up
    BY <1>5 DEF Process, Answering
  <2> HIDE DEF done
  <2> QED BY <2>1, L5DataFacts DEF Keeps
<1>6. CASE p = "display"
  <2>1. done.v = DisplayProcess(v, work.sample, now) /\ done.ok = TRUE
    BY <1>6 DEF Process
  <2>2. Keeps(v, DisplayProcess(v, work.sample, now))
    BY DEF DisplayProcess, Keeps, IsDriver
  <2> HIDE DEF done
  <2> QED BY <2>1, <2>2 DEF Keeps
<1> HIDE DEF done
<1> QED BY <1>1, <1>2, <1>3, <1>4, <1>5, <1>6 DEF Drivers

\* What is only stored makes no difference to the registers.
LEMMA StoredAlike ==
    ASSUME NEW p \in Drivers, NEW s, DOMAIN s = Fields(p), NEW k, NEW value, Handling(p, k) # "init"
    PROVE  Alike(p, [s EXCEPT ![k] = value], s)
<1> DEFINE w == [s EXCEPT ![k] = value]
<1> SUFFICES Alike(p, w, s)
  OBVIOUS
<1>0. \A f \in DOMAIN s : f # k => w[f] = s[f]
  OBVIOUS
<1> HIDE DEF w
<1>1. CASE p = "apds9960"
  <2>1. {"mode", "ambient", "rgb", "proximityGain", "alsGain"} \subseteq DOMAIN s
    BY <1>1 DEF Fields, ApdsDefaults
  <2>2. k \notin {"mode", "ambient", "rgb", "proximityGain", "alsGain"}
    BY <1>1 DEF Handling, ApdsHandling
  <2>3. w.mode = s.mode /\ w.ambient = s.ambient /\ w.rgb = s.rgb /\ w.proximityGain = s.proximityGain /\ w.alsGain = s.alsGain
    BY <1>0, <2>1, <2>2
  <2>4. ApdsEngines(w) = ApdsEngines(s)
    BY <2>3 DEF ApdsEngines
  <2>5. ApdsControl(w) = ApdsControl(s)
    BY <2>3 DEF ApdsControl
  <2> QED BY <1>1, <2>4, <2>5 DEF Alike, Registers, ApdsRegisters
<1>2. CASE p = "cap1188"
  BY <1>2 DEF Handling, CapHandling
<1>3. CASE p = "bno085"
  <2>1. k = "smoothing"
    BY <1>3 DEF Handling, BnoHandling
  <2>2. \A report \in BnoReports : \A output \in BnoOutputs(report) : w[output] = s[output]
    BY <1>0, <1>3, <2>1 DEF BnoReports, BnoOutputs, Fields, BnoDefaults
  <2>3. BnoRegisters(w) = BnoRegisters(s)
    BY <2>2 DEF BnoRegisters
  <2> QED BY <1>3, <2>3 DEF Alike, Registers
<1>4. CASE p = "vl53l4cx"
  <2>1. {"area", "distance"} \subseteq DOMAIN s /\ k \notin {"area", "distance"}
    BY <1>4 DEF Handling, L4Handling, Fields, L4Defaults
  <2> QED BY <1>0, <1>4, <2>1 DEF Alike, Registers, L4Registers
<1>5. CASE p = "vl53l5cx"
  <2>1. "resolution" \in DOMAIN s /\ k # "resolution"
    BY <1>5 DEF Handling, L5Handling, Fields, L5Defaults
  <2> QED BY <1>0, <1>5, <2>1 DEF Alike, Registers, L5Registers
<1>6. CASE p = "display"
  <2>1. {"controller", "resolution"} \subseteq DOMAIN s /\ k \notin {"controller", "resolution"}
    BY <1>6 DEF Handling, DisplayHandling, Fields, DisplayDefaults
  <2> QED BY <1>0, <1>6, <2>1 DEF Alike, Registers, DisplayRegisters, Supported
<1> QED BY <1>1, <1>2, <1>3, <1>4, <1>5, <1>6 DEF Drivers

-----------------------------------------------------------------------------
(* Steps that leave a peripheral alone.                                    *)

\* Its calm goes on or ends.
Stays(q) == calm'[q] = 0 \/ (calm'[q] = calm[q] /\ frozen' = frozen)
Untouched(q) ==
    /\ order' = order /\ now' = now
    /\ sched'[q] = sched[q] /\ settings'[q] = settings[q]
    /\ driver'[q].up = driver[q].up /\ driver'[q].address = driver[q].address
    /\ device'[q].present = device[q].present /\ device'[q].at = device[q].at
    /\ device'[q].stranger = device[q].stranger /\ device'[q].regs = device[q].regs
    /\ handler' = q <=> handler = q
    /\ Stays(q)
    /\ calm'[q] = 0 \/ (Served(q)' => Served(q))
    /\ InInit(q)' <=> InInit(q)
    /\ InRead(q)' <=> InRead(q)
    /\ InInit(q) => work'.cfg = work.cfg
    /\ q \in mixed' <=> q \in mixed
    /\ q \in unnoticed' <=> q \in unnoticed

LEMMA PeripheralDrivers == ASSUME ThreadInv PROVE Peripherals \subseteq Drivers /\ \A i \in DOMAIN order : order[i] \in Peripherals
<1>1. \A i \in DOMAIN order : order[i] \in Drivers
  BY DEF ThreadInv
<1> QED BY <1>1 DEF Peripherals

LEMMA CalmNumber == ASSUME ThreadInv, NEW q \in Peripherals PROVE calm[q] \in Nat
  BY DEF ThreadInv, PeripheralType

LEMMA ExcusedStays ==
    ASSUME NEW q, device'[q].present = device[q].present, device'[q].at = device[q].at,
           device'[q].stranger = device[q].stranger, settings'[q] = settings[q]
    PROVE  Excused(q)' = Excused(q) /\ Acknowledged(q)' = Acknowledged(q)
<1>1. Acknowledged(q)' = Acknowledged(q)
  BY DEF Acknowledged
<1> QED BY <1>1 DEF Excused

LEMMA UntouchedHolds ==
    ASSUME ThreadInv, NEW q \in Peripherals, PeripheralInv(q), Untouched(q)
    PROVE  PeripheralInv(q)'
<1>0. calm[q] \in Nat
  BY CalmNumber
<1>1. CalmInv(q)'
  BY <1>0 DEF PeripheralInv, CalmInv, Untouched, Stays
<1>2. HealInv(q)'
  <2>1. /\ (InInit(q)' => ~sched'[q].initialized) /\ (InRead(q)' => sched'[q].initialized)
        /\ IsAddress(q, driver[q].address)'
    BY DEF PeripheralInv, HealInv, IsAddress, Untouched
  <2>2. ASSUME calm'[q] > 0 PROVE (Healthy(q) \/ Failing(q) \/ Missing(q) \/ Entering(q) \/ Absent(q))'
    <3>1. calm'[q] = calm[q] /\ calm[q] > 0
      BY <2>2 DEF Untouched, Stays
    <3>2. Excused(q)' = Excused(q)
      BY ExcusedStays DEF Untouched
    <3>3. Healthy(q) \/ Failing(q) \/ Missing(q) \/ Entering(q) \/ Absent(q)
      BY <3>1 DEF PeripheralInv, HealInv
    <3>4. Healthy(q) => Healthy(q)'
      BY DEF Healthy, Untouched
    <3>5. Failing(q) => Failing(q)'
      BY <2>2, <3>1 DEF Failing, Untouched
    <3>6. Missing(q) => Missing(q)'
      BY <2>2, <3>1 DEF Missing, Untouched
    <3>7. Entering(q) => Entering(q)'
      BY <3>1 DEF Entering, Untouched
    <3>8. Absent(q) => Absent(q)'
      BY <3>2 DEF Absent, Untouched
    <3> QED BY <3>3, <3>4, <3>5, <3>6, <3>7, <3>8
  <2> QED BY <2>1, <2>2 DEF HealInv
<1>3. RegistersInv(q)'
  <2>1. ASSUME q \notin mixed' PROVE InInit(q)' => Alike(q, work'.cfg, settings'[q])
    BY <2>1 DEF PeripheralInv, RegistersInv, Untouched
  <2>2. ASSUME q \notin mixed' PROVE q = "display" /\ handler' = q /\ ~Supported(settings'[q]) => ~driver'[q].up
    BY <2>2 DEF PeripheralInv, RegistersInv, Untouched
  <2>3. ASSUME q \notin mixed'
        PROVE  q \notin unnoticed' /\ driver'[q].up /\ ~(q = "display" /\ handler' = q) => device'[q].regs = Registers(q, settings'[q])
    BY <2>3 DEF PeripheralInv, RegistersInv, Untouched
  <2>4. \A c, s : Alike(q, c, s)' = Alike(q, c, s)
    BY DEF Alike
  <2> QED BY <2>1, <2>2, <2>3, <2>4 DEF RegistersInv
<1> QED BY <1>1, <1>2, <1>3 DEF PeripheralInv

\* A step about one peripheral.
Frame ==
    /\ order' = order /\ now' = now /\ ran' = ran /\ frozen' = frozen
    /\ handler' \in Peripherals \cup {"none"}
    /\ DOMAIN sched' = Peripherals /\ DOMAIN driver' = Peripherals /\ DOMAIN device' = Peripherals
    /\ DOMAIN settings' = Peripherals /\ DOMAIN calm' = Peripherals
LeftAlone(q) ==
    /\ sched'[q] = sched[q] /\ driver'[q] = driver[q] /\ device'[q] = device[q] /\ settings'[q] = settings[q]
    /\ calm'[q] = calm[q]
    /\ handler' = q <=> handler = q
    /\ q \in mixed' <=> q \in mixed
    /\ q \in unnoticed' <=> q \in unnoticed
Turning(p) ==
    \/ UNCHANGED <<turn, pc, work>>
    \/ Serving(p) /\ (NextTurn \/ (turn' = turn /\ pc' \in {"init", "read"}))

LEMMA PeripheralsStay == ASSUME order' = order PROVE Peripherals' = Peripherals
  BY DEF Peripherals

\* Only one peripheral is served.
LEMMA ServesOne ==
    ASSUME ThreadInv, NEW p \in Peripherals, NEW q \in Peripherals, q # p, order' = order, ran' = ran, Turning(p)
    PROVE  /\ Served(q)' => Served(q)
           /\ InInit(q)' <=> InInit(q)
           /\ InRead(q)' <=> InRead(q)
           /\ InInit(q) => work' = work
<1>1. CASE UNCHANGED <<turn, pc, work>>
  BY <1>1 DEF Served, InInit, InRead, Serving
<1>2. CASE Serving(p) /\ NextTurn
  <2>1. turn \in Nat /\ turn' = turn + 1 /\ pc' = "idle" /\ order[turn] = p /\ \A i \in DOMAIN order : i \in Nat
    BY <1>2 DEF ThreadInv, Serving, NextTurn
  <2>2. \A i \in DOMAIN order : order[i] = q /\ turn' > i => turn > i
    BY <2>1
  <2> QED BY <2>1, <2>2 DEF Served, InInit, InRead, Serving
<1>3. CASE Serving(p) /\ turn' = turn
  BY <1>3 DEF Served, InInit, InRead, Serving
<1> QED BY <1>1, <1>2, <1>3 DEF Turning

LEMMA TurnType ==
    ASSUME ThreadInv, NEW p \in Peripherals, order' = order, Turning(p)
    PROVE  turn' \in 0 .. Len(order) + 1 /\ pc' \in {"idle", "init", "read"} /\ (pc' # "idle" => turn' \in DOMAIN order)
<1>1. Len(order) \in Nat /\ DOMAIN order = 1 .. Len(order)
  BY DEF ThreadInv
<1> QED BY <1>1 DEF ThreadInv, Turning, Serving, NextTurn

LEMMA OneTouched ==
    ASSUME I2cInv, NEW p \in Peripherals, Frame, Turning(p), \A q \in Peripherals \ {p} : LeftAlone(q),
           PeripheralType(p)', PeripheralInv(p)'
    PROVE  I2cInv'
<1>0. ThreadInv
  BY DEF I2cInv
<1>p. Peripherals' = Peripherals
  BY PeripheralsStay DEF Frame
<1>1. ASSUME NEW q \in Peripherals \ {p} PROVE PeripheralType(q)' /\ PeripheralInv(q)'
  <2>1. LeftAlone(q)
    OBVIOUS
  <2>2. PeripheralType(q)'
    BY <1>0, <2>1 DEF ThreadInv, PeripheralType, LeftAlone, Frame, IsSched
  <2>3. Untouched(q)
    BY <1>0, <2>1, ServesOne DEF Untouched, LeftAlone, Frame, Stays
  <2> QED BY <2>2, <2>3, <1>0, UntouchedHolds DEF I2cInv
<1>2. ThreadInv'
  BY <1>0, <1>1, <1>p, TurnType DEF ThreadInv, Frame
<1> QED BY <1>1, <1>2, <1>p DEF I2cInv

-----------------------------------------------------------------------------
(* The thread.                                                             *)

ServeFrame == UNCHANGED <<ran, gateVars, order, now, settings, preset, handler>>

LEMMA Known ==
    ASSUME I2cInv, NEW p \in Peripherals
    PROVE  /\ ThreadInv /\ PeripheralType(p) /\ PeripheralInv(p)
           /\ p \in Drivers /\ p # "none"
           /\ ProbeInterval \in Nat \ {0} /\ Interval[p] \in Nat \ {0} /\ now \in Nat /\ calm[p] \in Nat
<1>1. ThreadInv /\ PeripheralType(p) /\ PeripheralInv(p)
  BY DEF I2cInv, ThreadInv
<1>2. p \in Drivers
  BY <1>1, PeripheralDrivers
<1> QED BY <1>1, <1>2, I2cAssumption DEF ThreadInv, PeripheralType, Drivers

\* A device that is not hidden by another chip is found where it is.
LEMMA FoundThere ==
    ASSUME I2cInv, NEW p \in Peripherals, device[p].present, p # "display", ~Excused(p)
    PROVE  Found(p) = device[p].at
<1>1. IsDevice(p, device[p]) /\ AddressCount[p] \in Nat
  BY Known, I2cAssumption DEF PeripheralType
<1>2. device[p].at \in Acknowledged(p) /\ Acknowledged(p) \subseteq Nat
  BY <1>1 DEF IsDevice, Acknowledged
<1>3. \A a \in Acknowledged(p) : device[p].at <= a
  BY <1>1, <1>2 DEF Excused, IsDevice
<1>4. \A b \in Acknowledged(p) : (\A a \in Acknowledged(p) : b <= a) => b = device[p].at
  BY <1>1, <1>2, <1>3 DEF IsDevice
<1> QED BY <1>2, <1>3, <1>4 DEF Found

\* What is found is the first address.
LEMMA FoundAddress ==
    ASSUME I2cInv, NEW p \in Peripherals, Acknowledged(p) # {}
    PROVE  IsAddress(p, Found(p))
<1>1. AddressCount[p] \in Nat /\ Acknowledged(p) \subseteq 1 .. AddressCount[p]
  BY Known, I2cAssumption DEF Acknowledged
<1>2. \E a \in Acknowledged(p) : \A b \in Acknowledged(p) : a <= b
  <2>1. PICK a \in Acknowledged(p) : TRUE
    OBVIOUS
  <2>2. \A b \in Acknowledged(p) : b = device[p].at \/ b = device[p].stranger
    BY DEF Acknowledged
  <2>3. \A b \in Acknowledged(p) : b \in Int
    BY <1>1
  <2> QED BY <2>1, <2>2, <2>3
<1>3. Found(p) \in Acknowledged(p) /\ \A b \in Acknowledged(p) : Found(p) <= b
  BY <1>2 DEF Found
<1>4. device[p].stranger \in 1 .. AddressCount[p] => device[p].stranger \in Acknowledged(p)
  BY DEF Acknowledged
<1> QED BY <1>1, <1>3, <1>4 DEF IsAddress

\* A device that is there acknowledges its address.
LEMMA ThereAcknowledged ==
    ASSUME I2cInv, NEW p \in Peripherals, device[p].present
    PROVE  Acknowledged(p) # {}
  BY Known DEF PeripheralType, IsDevice, Acknowledged

\* One that is behind another chip is not asked.
LEMMA ExcusedUnanswered ==
    ASSUME I2cInv, NEW p \in Peripherals, p # "display", Excused(p)
    PROVE  driver[p].address # device[p].at
<1>1. PICK a \in Acknowledged(p) : a < device[p].at
  BY DEF Excused
<1>2. AddressCount[p] \in Nat /\ device[p].at \in 1 .. AddressCount[p] /\ driver[p].address \in 1 .. AddressCount[p]
  BY Known, I2cAssumption DEF PeripheralType, IsDevice, PeripheralInv, HealInv, IsAddress
<1>3. a \in 1 .. AddressCount[p] /\ a = device[p].stranger
  BY <1>1, <1>2 DEF Acknowledged
<1>4. driver[p].address <= a
  BY <1>3, Known DEF PeripheralInv, HealInv, IsAddress
<1> QED BY <1>1, <1>2, <1>3, <1>4

LEMMA ProbeHolds ==
    ASSUME I2cInv, NEW p \in Peripherals, Serving(p), pc = "idle", Probe(p), ServeFrame
    PROVE  I2cInv'
<1>k. /\ ThreadInv /\ PeripheralType(p) /\ PeripheralInv(p)
      /\ p \in Drivers /\ p # "none"
      /\ ProbeInterval \in Nat \ {0} /\ Interval[p] \in Nat \ {0} /\ now \in Nat /\ calm[p] \in Nat
  BY Known
<1>u. UNCHANGED <<ran, frozen, order, now, settings, handler, calm, mixed, unnoticed>>
  BY DEF Probe, ServeFrame, ghosts, gateVars
<1>s. /\ sched' = [sched EXCEPT ![p].probe = now + ProbeInterval]
      /\ DOMAIN sched' = Peripherals /\ ~sched[p].initialized
      /\ sched'[p] = [initialized |-> FALSE, probe |-> now + ProbeInterval, update |-> sched[p].update]
  BY <1>k DEF Probe, ThreadInv, PeripheralType, IsSched
<1>t. IsSched(p, sched[p])' /\ \A q \in Peripherals \ {p} : sched'[q] = sched[q]
  BY <1>k, <1>s, <1>u DEF IsSched, PeripheralType, ThreadInv
<1>1. CASE Acknowledged(p) = {}
  <2>1. NextTurn /\ UNCHANGED <<driver, device>>
    BY <1>1 DEF Probe
  <2>2. calm[p] = 0
    BY <1>1, <1>k, ThereAcknowledged DEF PeripheralInv, CalmInv
  <2>3. ~InInit(p)' /\ ~InRead(p)'
    BY <2>1 DEF NextTurn, InInit, InRead
  <2>4. PeripheralType(p)'
    BY <1>k, <1>t, <1>u, <2>1 DEF PeripheralType
  <2>5. CalmInv(p)' /\ HealInv(p)'
    BY <1>k, <1>u, <2>1, <2>2, <2>3 DEF PeripheralInv, CalmInv, HealInv, IsAddress
  <2>6. RegistersInv(p)'
    BY <1>k, <1>u, <2>1, <2>3 DEF PeripheralInv, RegistersInv
  <2>7. Frame /\ Turning(p) /\ \A q \in Peripherals \ {p} : LeftAlone(q)
    BY <1>k, <1>s, <1>t, <1>u, <2>1 DEF Frame, Turning, LeftAlone, ThreadInv
  <2> QED BY <2>4, <2>5, <2>6, <2>7, OneTouched DEF PeripheralInv
<1>2. CASE Acknowledged(p) # {}
  <2>1. pc' = "init" /\ work'.cfg = settings[p] /\ turn' = turn /\ Begun(p, Found(p), settings[p])
    BY <1>2 DEF Probe
  <2>2. InInit(p)' /\ ~InRead(p)'
    BY <1>u, <2>1 DEF InInit, InRead, Serving
  <2>3. IsDriver(Start(p, driver[p], settings[p]))
        /\ (Start(p, driver[p], settings[p]).up => driver[p].up /\ p = "display" /\ Supported(settings[p]))
    BY <1>k, StartFacts DEF PeripheralType
  <2>5. /\ DOMAIN driver' = Peripherals /\ \A q \in Peripherals \ {p} : driver'[q] = driver[q]
        /\ driver'[p] = [Start(p, driver[p], settings[p]) EXCEPT !.address = Found(p)]
    BY <1>k, <2>1 DEF Begun, ThreadInv
  <2>6. IsDriver(driver[p])' /\ driver'[p].up = Start(p, driver[p], settings[p]).up /\ driver'[p].address = Found(p)
    BY <2>3, <2>5 DEF IsDriver
  <2>7. /\ DOMAIN device' = Peripherals /\ \A q \in Peripherals \ {p} : device'[q] = device[q]
        /\ IsDevice(p, device[p])'
        /\ device'[p].present = device[p].present /\ device'[p].at = device[p].at /\ device'[p].stranger = device[p].stranger
        /\ p \notin Resets => device'[p].regs = device[p].regs
    BY <1>k, <2>1 DEF Begun, ThreadInv, PeripheralType, IsDevice
  <2>8. PeripheralType(p)'
    BY <1>k, <1>t, <1>u, <2>6, <2>7 DEF PeripheralType
  <2>9. CalmInv(p)'
    BY <1>k, <1>u, <2>7 DEF PeripheralInv, CalmInv
  <2>10. HealInv(p)'
    <3>1. ASSUME calm[p] > 0 PROVE Entering(p)' \/ Absent(p)'
      <4>1. Excused(p)' = Excused(p)
        BY <1>u, <2>7, ExcusedStays
      <4>2. CASE Excused(p)
        <5>1. ~driver'[p].up
          BY <2>3, <2>6, <4>2 DEF Excused
        <5> QED BY <1>s, <1>u, <2>1, <4>1, <4>2, <5>1 DEF Absent
      <4>3. CASE ~Excused(p)
        <5>1. p # "display" => Found(p) = device[p].at
          BY <1>k, <3>1, <4>3, FoundThere DEF PeripheralInv, CalmInv
        <5>2. Missing(p)
          BY <1>k, <1>s, <3>1, <4>3 DEF PeripheralInv, HealInv, Healthy, Failing, Entering, Absent, InInit
        <5> QED BY <1>s, <1>u, <2>1, <2>2, <2>6, <2>7, <5>1, <5>2 DEF Entering, Missing
      <4> QED BY <4>2, <4>3
    <3>2. IsAddress(p, driver[p].address)'
      BY <1>2, <2>6, <2>7, FoundAddress DEF IsAddress
    <3> QED BY <1>s, <1>u, <2>2, <3>1, <3>2 DEF HealInv
  <2>11. RegistersInv(p)'
    <3>1. p = "display" => p \notin Resets
      BY DEF Resets
    <3> QED BY <1>k, <1>u, <2>1, <2>3, <2>6, <2>7, <3>1 DEF PeripheralInv, RegistersInv, Alike
  <2>12. Frame /\ Turning(p) /\ \A q \in Peripherals \ {p} : LeftAlone(q)
    BY <1>k, <1>s, <1>t, <1>u, <2>1, <2>5, <2>7 DEF Frame, Turning, LeftAlone, ThreadInv
  <2> QED BY <2>8, <2>9, <2>10, <2>11, <2>12, OneTouched DEF PeripheralInv
<1> QED BY <1>1, <1>2

LEMMA PassHolds ==
    ASSUME I2cInv, NEW p \in Peripherals, Serving(p), pc = "idle", Pass(p), ServeFrame
    PROVE  I2cInv'
<1>k. /\ ThreadInv /\ PeripheralType(p) /\ PeripheralInv(p)
      /\ p \in Drivers /\ p # "none"
      /\ ProbeInterval \in Nat \ {0} /\ Interval[p] \in Nat \ {0} /\ now \in Nat /\ calm[p] \in Nat
  BY Known
<1>u. UNCHANGED <<ran, frozen, order, now, settings, handler, driver, device, calm, mixed, unnoticed>> /\ NextTurn
  BY DEF Pass, ServeFrame, ghosts, gateVars
<1>s. /\ sched' = [sched EXCEPT ![p].probe = IF now >= @ THEN now + ProbeInterval ELSE @]
      /\ now < IF sched[p].initialized THEN sched[p].update ELSE sched[p].probe
  BY DEF Pass
<1>t. /\ DOMAIN sched' = Peripherals /\ \A q \in Peripherals \ {p} : sched'[q] = sched[q]
      /\ IsSched(p, sched'[p])
      /\ sched'[p].initialized = sched[p].initialized /\ sched'[p].update = sched[p].update
      /\ ~sched[p].initialized => sched'[p].probe = sched[p].probe
  <2> DEFINE up == sched[p].initialized
             n == IF now >= sched[p].probe THEN now + ProbeInterval ELSE sched[p].probe
  <2>1. n \in Nat /\ n <= now + ProbeInterval /\ (~sched[p].initialized => n = sched[p].probe)
    BY <1>k, <1>s DEF PeripheralType, IsSched
  <2>2. /\ DOMAIN sched' = Peripherals /\ \A q \in Peripherals \ {p} : sched'[q] = sched[q]
        /\ sched'[p] = [sched[p] EXCEPT !.probe = n]
    BY <1>k, <1>s DEF ThreadInv
  <2>3. up \in BOOLEAN /\ sched[p].update \in Nat /\ sched[p].update <= now + Interval[p]
    BY <1>k DEF PeripheralType, IsSched
  <2> HIDE DEF n
  <2>4. sched'[p] = [initialized |-> up, probe |-> n, update |-> sched[p].update]
    BY <1>k, <2>2 DEF PeripheralType, IsSched
  <2> HIDE DEF up
  <2>5. sched'[p].initialized = up /\ sched'[p].probe = n /\ sched'[p].update = sched[p].update
    BY <2>4
  <2>6. IsSched(p, sched'[p])
    BY <2>1, <2>3, <2>4, <2>5 DEF IsSched
  <2> QED BY <2>1, <2>2, <2>5, <2>6 DEF up
<1>1. ~InInit(p)' /\ ~InRead(p)'
  BY <1>u DEF NextTurn, InInit, InRead
<1>2. PeripheralType(p)'
  BY <1>k, <1>t, <1>u DEF PeripheralType, IsSched
<1>3. CalmInv(p)'
  BY <1>k, <1>u DEF PeripheralInv, CalmInv
<1>4. HealInv(p)'
  <2>1. ASSUME calm[p] > 0 PROVE (Healthy(p) \/ Failing(p) \/ Missing(p) \/ Absent(p))'
    <3>1. Excused(p)' = Excused(p)
      BY <1>u, ExcusedStays
    <3>2. Healthy(p) \/ Failing(p) \/ Missing(p) \/ Absent(p)
      BY <1>k, <2>1 DEF PeripheralInv, HealInv, Entering, InInit
    <3>3. Healthy(p) => Healthy(p)'
      BY <1>t, <1>u DEF Healthy
    <3>4. Failing(p) => Failing(p)'
      BY <1>1, <1>s, <1>t, <1>u DEF Failing
    <3>5. Missing(p) => Missing(p)'
      BY <1>1, <1>s, <1>t, <1>u DEF Missing
    <3>6. Absent(p) => Absent(p)'
      BY <1>1, <1>t, <1>u, <3>1 DEF Absent
    <3> QED BY <3>2, <3>3, <3>4, <3>5, <3>6
  <2>2. IsAddress(p, driver[p].address)'
    BY <1>k, <1>u DEF PeripheralInv, HealInv, IsAddress
  <2> QED BY <1>1, <1>u, <2>1, <2>2 DEF HealInv
<1>5. RegistersInv(p)'
  BY <1>k, <1>u, <1>1 DEF PeripheralInv, RegistersInv
<1>6. Frame /\ Turning(p) /\ \A q \in Peripherals \ {p} : LeftAlone(q)
  BY <1>k, <1>t, <1>u DEF Frame, Turning, LeftAlone, ThreadInv
<1> QED BY <1>2, <1>3, <1>4, <1>5, <1>6, OneTouched DEF PeripheralInv

\* A transaction that fails although the device is there ends its calm.
CalmKept(p) == calm' = calm \/ calm' = [calm EXCEPT ![p] = 0]
LEMMA OutcomeCalm ==
    ASSUME I2cInv, NEW p \in Peripherals, NEW answered \in BOOLEAN, Outcome(p, answered)
    PROVE  /\ CalmKept(p)
           /\ DOMAIN calm' = Peripherals /\ \A q \in Peripherals \ {p} : calm'[q] = calm[q]
           /\ calm'[p] = 0 \/ (calm'[p] = calm[p] /\ answered = Answers(p))
           /\ answered => Answers(p) /\ calm' = calm
  BY Known DEF Outcome, CalmKept, ThreadInv

LEMMA FirstAddress ==
    ASSUME I2cInv, NEW p \in Peripherals
    PROVE  IsAddress(p, 1)
<1>1. AddressCount[p] \in Nat \ {0}
  BY Known, I2cAssumption
<1> QED BY <1>1 DEF IsAddress

\* update() failed, and the driver is dropped.
LEMMA DroppedHolds ==
    ASSUME I2cInv, NEW p \in Peripherals, Serving(p), pc \in {"idle", "read"}, ServeFrame, NextTurn,
           NEW v, IsDriver(v), v.address = driver[p].address, Dropped(p, v), CalmKept(p), UNCHANGED <<mixed, unnoticed>>,
           calm'[p] = 0 \/ Failing(p)
    PROVE  I2cInv'
<1>k. /\ ThreadInv /\ PeripheralType(p) /\ PeripheralInv(p)
      /\ p \in Drivers /\ p # "none"
      /\ ProbeInterval \in Nat \ {0} /\ Interval[p] \in Nat \ {0} /\ now \in Nat /\ calm[p] \in Nat
  BY Known
<1>u. UNCHANGED <<ran, frozen, order, now, settings, handler>>
  BY DEF ServeFrame, gateVars
<1>c. /\ DOMAIN calm' = Peripherals /\ \A q \in Peripherals \ {p} : calm'[q] = calm[q]
      /\ calm'[p] = 0 \/ calm'[p] = calm[p]
  BY <1>k DEF CalmKept, ThreadInv
<1>s. /\ DOMAIN sched' = Peripherals /\ \A q \in Peripherals \ {p} : sched'[q] = sched[q]
      /\ sched'[p] = [initialized |-> FALSE, probe |-> now + ProbeInterval, update |-> 0]
  BY <1>k DEF Dropped, ThreadInv
<1>v. /\ DOMAIN driver' = Peripherals /\ \A q \in Peripherals \ {p} : driver'[q] = driver[q]
      /\ IsDriver(driver'[p]) /\ ~driver'[p].up /\ driver'[p].address \in {driver[p].address, 1}
  BY <1>k, DeinitFacts DEF Dropped, ThreadInv
<1>d. /\ DOMAIN device' = Peripherals /\ \A q \in Peripherals \ {p} : device'[q] = device[q]
      /\ IsDevice(p, device'[p])
      /\ device'[p].present = device[p].present /\ device'[p].at = device[p].at /\ device'[p].stranger = device[p].stranger
  BY <1>k DEF Dropped, Stopped, ThreadInv, PeripheralType, IsDevice
<1>1. ~InInit(p)' /\ ~InRead(p)'
  BY DEF NextTurn, InInit, InRead
<1>2. PeripheralType(p)'
  <2>1. IsSched(p, sched[p])'
    BY <1>k, <1>u, <1>s DEF IsSched
  <2>2. IsDriver(driver[p])' /\ IsDevice(p, device[p])'
    BY <1>v, <1>d DEF IsDriver, IsDevice
  <2> QED BY <1>k, <1>u, <1>c, <2>1, <2>2 DEF PeripheralType
<1>3. CalmInv(p)'
  BY <1>k, <1>u, <1>c, <1>d DEF PeripheralInv, CalmInv
<1>4. HealInv(p)'
  <2>1. ASSUME calm'[p] > 0 PROVE Missing(p)'
    <3>2. Failing(p) /\ calm'[p] = calm[p]
      BY <1>c, <2>1
    <3>3. calm'[p] <= Interval[p]
      BY <3>2 DEF Failing
    <3>4. now' < sched'[p].probe
      BY <1>k, <1>s, <1>u
    <3> QED BY <1>k, <1>s, <1>u, <1>c, <1>1, <2>1, <3>3, <3>4 DEF Missing
  <2>2. IsAddress(p, driver[p].address)'
    BY <1>k, <1>v, <1>d, FirstAddress DEF PeripheralInv, HealInv, IsAddress
  <2> QED BY <1>1, <2>1, <2>2 DEF HealInv
<1>5. RegistersInv(p)'
  BY <1>v, <1>1 DEF RegistersInv
<1>6. Frame /\ Turning(p) /\ \A q \in Peripherals \ {p} : LeftAlone(q)
  BY <1>k, <1>s, <1>u, <1>c, <1>v, <1>d DEF Frame, Turning, LeftAlone, ThreadInv
<1> QED BY <1>2, <1>3, <1>4, <1>5, <1>6, OneTouched DEF PeripheralInv

\* update() went on, and the driver is left as it was.
LEMMA UpdatedHolds ==
    ASSUME I2cInv, NEW p \in Peripherals, Serving(p), pc \in {"idle", "read"}, ServeFrame,
           NextTurn \/ (turn' = turn /\ pc' = "read"),
           DOMAIN sched' = Peripherals, \A q \in Peripherals \ {p} : sched'[q] = sched[q],
           IsSched(p, sched'[p]), sched'[p].initialized,
           DOMAIN driver' = Peripherals, \A q \in Peripherals \ {p} : driver'[q] = driver[q],
           NEW v, driver'[p] = v, IsDriver(v), v.up => driver[p].up, v.address = driver[p].address,
           DOMAIN device' = Peripherals, \A q \in Peripherals \ {p} : device'[q] = device[q], IsDevice(p, device'[p]),
           device'[p].present = device[p].present, device'[p].at = device[p].at,
           device'[p].stranger = device[p].stranger, device'[p].regs = device[p].regs,
           CalmKept(p), UNCHANGED <<mixed, unnoticed>>,
           calm'[p] = 0 \/ (v.up /\ (p \in Faithful \/ v.address = device[p].at))
    PROVE  I2cInv'
<1>k. /\ ThreadInv /\ PeripheralType(p) /\ PeripheralInv(p)
      /\ p \in Drivers /\ p # "none"
      /\ ProbeInterval \in Nat \ {0} /\ Interval[p] \in Nat \ {0} /\ now \in Nat /\ calm[p] \in Nat
  BY Known
<1>u. UNCHANGED <<ran, frozen, order, now, settings, handler>>
  BY DEF ServeFrame, gateVars
<1>c. /\ DOMAIN calm' = Peripherals /\ \A q \in Peripherals \ {p} : calm'[q] = calm[q]
      /\ calm'[p] = 0 \/ calm'[p] = calm[p]
  BY <1>k DEF CalmKept, ThreadInv
<1>v. DOMAIN driver' = Peripherals /\ driver'[p] = v /\ \A q \in Peripherals \ {p} : driver'[q] = driver[q]
  OBVIOUS
<1>1. ~InInit(p)'
  BY DEF NextTurn, InInit
<1>2. PeripheralType(p)'
  <2>1. IsSched(p, sched[p])'
    BY <1>u DEF IsSched
  <2>2. IsDriver(driver[p])' /\ IsDevice(p, device[p])'
    BY <1>v DEF IsDriver, IsDevice
  <2> QED BY <1>k, <1>u, <1>c, <2>1, <2>2 DEF PeripheralType
<1>3. CalmInv(p)'
  BY <1>k, <1>u, <1>c DEF PeripheralInv, CalmInv
<1>4. HealInv(p)'
  <2>1. ASSUME calm'[p] > 0 PROVE Healthy(p)'
    <3>1. v.up /\ (p \in Faithful \/ v.address = device[p].at)
      BY <2>1
    <3> QED BY <1>v, <3>1 DEF Healthy
  <2>2. IsAddress(p, driver[p].address)'
    BY <1>k, <1>v DEF PeripheralInv, HealInv, IsAddress
  <2> QED BY <1>1, <2>1, <2>2 DEF HealInv
<1>5. RegistersInv(p)'
  BY <1>k, <1>u, <1>v, <1>1 DEF PeripheralInv, RegistersInv
<1>6. Frame /\ Turning(p) /\ \A q \in Peripherals \ {p} : LeftAlone(q)
  BY <1>k, <1>u, <1>c, <1>v DEF Frame, Turning, LeftAlone, ThreadInv
<1> QED BY <1>2, <1>3, <1>4, <1>5, <1>6, OneTouched DEF PeripheralInv

LEMMA RescheduledFacts ==
    ASSUME I2cInv, NEW p \in Peripherals, sched' = Rescheduled(p), sched[p].initialized
    PROVE  /\ DOMAIN sched' = Peripherals /\ \A q \in Peripherals \ {p} : sched'[q] = sched[q]
           /\ IsSched(p, sched'[p]) /\ sched'[p].initialized /\ sched'[p].update = now + Interval[p]
<1> DEFINE n == IF now >= sched[p].probe THEN now + ProbeInterval ELSE sched[p].probe
           m == now + Interval[p]
<1>k. /\ ThreadInv /\ PeripheralType(p)
      /\ ProbeInterval \in Nat \ {0} /\ Interval[p] \in Nat /\ now \in Nat
  BY Known
<1>1. n \in Nat /\ n <= now + ProbeInterval /\ m \in Nat /\ m <= now + Interval[p]
  BY <1>k DEF PeripheralType, IsSched
<1>2. sched' = [sched EXCEPT ![p].probe = n, ![p].update = m]
  BY <1>k DEF Rescheduled, ThreadInv
<1> HIDE DEF n, m
<1>3. DOMAIN sched' = Peripherals /\ \A q \in Peripherals \ {p} : sched'[q] = sched[q]
  BY <1>k, <1>2 DEF ThreadInv
<1>4. sched[p] = [initialized |-> TRUE, probe |-> sched[p].probe, update |-> sched[p].update]
  BY <1>k DEF PeripheralType, IsSched
<1>5. sched'[p] = [[sched[p] EXCEPT !.probe = n] EXCEPT !.update = m]
  BY <1>k, <1>2 DEF ThreadInv
<1>6. sched'[p] = [initialized |-> TRUE, probe |-> n, update |-> m]
  BY <1>4, <1>5
<1>7. IsSched(p, sched'[p])
  BY <1>1, <1>6 DEF IsSched
<1>8. sched'[p].update = now + Interval[p]
  BY <1>6 DEF m
<1> QED BY <1>3, <1>6, <1>7, <1>8

LEMMA UpdateDownHolds ==
    ASSUME I2cInv, NEW p \in Peripherals, Serving(p), pc = "idle", UpdateDown(p), ServeFrame
    PROVE  I2cInv'
<1>k. ThreadInv /\ PeripheralType(p) /\ PeripheralInv(p) /\ calm[p] \in Nat
  BY Known
<1>1. Dropped(p, driver[p]) /\ NextTurn /\ UNCHANGED <<calm, mixed, unnoticed>> /\ sched[p].initialized /\ ~driver[p].up
  BY DEF UpdateDown, UpdateDue
<1>2. IsDriver(driver[p]) /\ CalmKept(p)
  BY <1>k, <1>1 DEF PeripheralType, CalmKept
<1>3. calm'[p] = 0 \/ Failing(p)
  BY <1>k, <1>1 DEF PeripheralInv, HealInv, Healthy, Missing, Entering, Absent
<1> QED BY <1>1, <1>2, <1>3, DroppedHolds

\* The device answers a driver that looks for it where it is.
LEMMA AnswersThere ==
    ASSUME I2cInv, NEW p \in Peripherals, calm[p] > 0, Healthy(p), p \notin Faithful
    PROVE  Answers(p)
  BY Known DEF PeripheralInv, CalmInv, Healthy, Answers

\* An initialized driver that is up and will not be dropped, or that is looked for at the wrong address.
LEMMA UpdateHealth ==
    ASSUME I2cInv, NEW p \in Peripherals, sched[p].initialized, driver[p].up, p \in Faithful \/ Answers(p)
    PROVE  Healthy(p)
  BY DEF Healthy, Answers

\* The APDS9960 is only ever at its address.
LEMMA OneAddress ==
    ASSUME I2cInv, NEW p \in Peripherals, p = "apds9960"
    PROVE  driver[p].address = device[p].at
<1>1. driver[p].address \in 1 .. 1
  BY Known, I2cAssumption DEF PeripheralInv, HealInv, IsAddress
<1>2. device[p].at \in 1 .. 1
  BY Known, I2cAssumption DEF PeripheralType, IsDevice
<1> QED BY <1>1, <1>2

LEMMA UpdateUnreadHolds ==
    ASSUME I2cInv, NEW p \in Peripherals, Serving(p), pc = "idle", UpdateUnread(p), ServeFrame
    PROVE  I2cInv'
<1>k. ThreadInv /\ PeripheralType(p) /\ PeripheralInv(p) /\ calm[p] \in Nat /\ p \in Drivers
  BY Known
<1> DEFINE result == Unread(p, driver[p], settings[p])
<1>1. /\ NextTurn /\ UNCHANGED <<mixed, unnoticed>>
      /\ sched[p].initialized /\ driver[p].up /\ p # "display"
      /\ FirstRead(p, FALSE)
      /\ IF result.ok
         THEN driver' = [driver EXCEPT ![p] = result.v] /\ sched' = Rescheduled(p) /\ UNCHANGED device
         ELSE Dropped(p, result.v)
  BY DEF UpdateUnread, UpdateDue
<1>2. IsDriver(result.v) /\ (result.v.up => driver[p].up)
      /\ (result.ok /\ p \notin {"apds9960", "display"} => p = "bno085" /\ result.v = driver[p])
  BY <1>k, UnreadFacts DEF PeripheralType
<1>3. result.v.address = driver[p].address
  BY <1>k, UnreadFacts DEF PeripheralType
<1> HIDE DEF result
<1>4. Outcome(p, FALSE)
  BY <1>1 DEF FirstRead
<1>5. CalmKept(p) /\ (calm'[p] = 0 \/ (calm'[p] = calm[p] /\ ~Answers(p)))
  BY <1>4, OutcomeCalm
<1>6. CASE result.ok
  <2>2. calm'[p] = 0 \/ (p \in Faithful /\ result.v.up)
    <3>1. CASE p = "apds9960"
      <4>1. calm'[p] = 0 \/ ~device[p].present
        BY <1>1, <1>5, <3>1, OneAddress DEF Answers
      <4> QED BY <1>k, <1>5, <4>1 DEF PeripheralInv, CalmInv
    <3>2. CASE p # "apds9960"
      BY <1>1, <1>2, <1>6, <3>2 DEF Faithful
    <3> QED BY <3>1, <3>2
  <2>3. /\ DOMAIN sched' = Peripherals /\ \A q \in Peripherals \ {p} : sched'[q] = sched[q]
        /\ IsSched(p, sched'[p]) /\ sched'[p].initialized
    BY <1>1, <1>6, RescheduledFacts
  <2>4. /\ DOMAIN driver' = Peripherals /\ \A q \in Peripherals \ {p} : driver'[q] = driver[q]
        /\ driver'[p] = result.v /\ device' = device
    BY <1>k, <1>1, <1>6 DEF ThreadInv
  <2>5. DOMAIN device' = Peripherals /\ IsDevice(p, device'[p])
    BY <1>k, <2>4 DEF ThreadInv, PeripheralType
  <2> QED BY <1>1, <1>2, <1>3, <1>5, <2>2, <2>3, <2>4, <2>5, UpdatedHolds
<1>7. CASE ~result.ok
  <2>1. p # "bno085"
    <3>1. p = "bno085" => Unread(p, driver[p], settings[p]).ok = TRUE
      BY DEF Unread
    <3> QED BY <1>7, <3>1 DEF result
  <2>2. p \notin Faithful
    BY <1>1, <2>1 DEF Faithful
  <2>3. calm'[p] = 0 \/ ~Healthy(p)
    BY <1>k, <1>5, <2>2, AnswersThere
  <2>4. calm'[p] = 0 \/ Failing(p)
    BY <1>k, <1>1, <1>5, <2>3 DEF PeripheralInv, HealInv, Missing, Entering, Absent
  <2> QED BY <1>1, <1>2, <1>3, <1>5, <1>7, <2>4, DroppedHolds
<1> QED BY <1>6, <1>7

LEMMA UpdateReadHolds ==
    ASSUME I2cInv, NEW p \in Peripherals, Serving(p), pc = "idle", UpdateRead(p), ServeFrame
    PROVE  I2cInv'
<1>k. ThreadInv /\ PeripheralType(p) /\ PeripheralInv(p) /\ calm[p] \in Nat /\ p \in Drivers
  BY Known
<1>1. /\ UNCHANGED <<driver, mixed, unnoticed>> /\ sched' = Rescheduled(p)
      /\ sched[p].initialized /\ driver[p].up /\ p # "display"
      /\ FirstRead(p, TRUE)
  BY DEF UpdateRead, UpdateDue
<1>2. NextTurn \/ (turn' = turn /\ pc' = "read")
  BY DEF UpdateRead
<1>3. /\ DOMAIN device' = Peripherals /\ \A q \in Peripherals \ {p} : device'[q] = device[q]
      /\ IsDevice(p, device'[p])
      /\ device'[p].present = device[p].present /\ device'[p].at = device[p].at
      /\ device'[p].stranger = device[p].stranger /\ device'[p].regs = device[p].regs
  <2>1. device' = device \/ device' = [device EXCEPT ![p].input.fifo = <<>>]
    BY DEF UpdateRead
  <2>2. DOMAIN device = Peripherals /\ IsDevice(p, device[p])
    BY <1>k DEF ThreadInv, PeripheralType
  <2>3. CASE device' = device
    BY <2>2, <2>3
  <2>4. CASE device' = [device EXCEPT ![p].input.fifo = <<>>]
    <3> DEFINE i == [device[p].input EXCEPT !.fifo = <<>>]
    <3>1. device' = [device EXCEPT ![p].input = i]
      BY <2>2, <2>4
    <3> HIDE DEF i
    <3> QED BY <2>2, <3>1 DEF IsDevice
  <2> QED BY <2>1, <2>3, <2>4
<1>4. CalmKept(p) /\ (p \in Faithful \/ driver[p].address = device[p].at)
  <2>1. CASE ReadsFirst(p)
    <3>1. Outcome(p, TRUE)
      BY <1>1, <2>1 DEF FirstRead
    <3> QED BY <3>1, OutcomeCalm DEF Answers, CalmKept
  <2>2. CASE ~ReadsFirst(p)
    <3>1. calm' = calm /\ p = "apds9960"
      BY <1>1, <2>2 DEF FirstRead, ReadsFirst
    <3> QED BY <1>1, <3>1, OneAddress DEF CalmKept
  <2> QED BY <2>1, <2>2
<1>5. /\ DOMAIN sched' = Peripherals /\ \A q \in Peripherals \ {p} : sched'[q] = sched[q]
      /\ IsSched(p, sched'[p]) /\ sched'[p].initialized
  BY <1>1, RescheduledFacts
<1>6. DOMAIN driver' = Peripherals /\ driver' = driver /\ IsDriver(driver[p])
  BY <1>k, <1>1 DEF ThreadInv, PeripheralType
<1> QED BY <1>1, <1>2, <1>3, <1>4, <1>5, <1>6, UpdatedHolds

LEMMA UpdateDisplayHolds ==
    ASSUME I2cInv, NEW p \in Peripherals, Serving(p), pc = "idle", UpdateDisplay(p), ServeFrame
    PROVE  I2cInv'
<1>k. ThreadInv /\ PeripheralType(p) /\ PeripheralInv(p) /\ calm[p] \in Nat /\ p \in Drivers
  BY Known
<1>1. /\ UNCHANGED <<device, mixed, unnoticed>> /\ sched' = Rescheduled(p) /\ p = "display"
      /\ sched[p].initialized /\ driver[p].up
  BY DEF UpdateDisplay, UpdateDue
<1>2. Keeps(driver[p], Expire(driver[p], now)) /\ IsDriver(driver[p])
  BY <1>k, ExpireKeeps DEF PeripheralType
<1>3. /\ DOMAIN driver' = Peripherals /\ \A q \in Peripherals \ {p} : driver'[q] = driver[q]
      /\ Keeps(driver[p], driver'[p])
  <2>1. driver' = driver \/ driver' = [driver EXCEPT ![p] = Expire(driver[p], now)]
    BY DEF UpdateDisplay
  <2>2. DOMAIN driver = Peripherals /\ Keeps(driver[p], driver[p])
    BY <1>k, <1>2 DEF ThreadInv, Keeps
  <2> QED BY <1>2, <2>1, <2>2
<1>4. CalmKept(p)
  <2>1. calm' = calm \/ \E answered \in BOOLEAN : Outcome(p, answered)
    BY DEF UpdateDisplay
  <2> QED BY <2>1, OutcomeCalm DEF CalmKept
<1>5. /\ DOMAIN sched' = Peripherals /\ \A q \in Peripherals \ {p} : sched'[q] = sched[q]
      /\ IsSched(p, sched'[p]) /\ sched'[p].initialized
  BY <1>1, RescheduledFacts
<1>6. NextTurn \/ (turn' = turn /\ pc' = "read")
  BY DEF UpdateDisplay
<1>7. DOMAIN device' = Peripherals /\ IsDevice(p, device'[p])
  BY <1>k, <1>1 DEF ThreadInv, PeripheralType
<1>8. IsDriver(driver'[p]) /\ driver'[p].up /\ driver'[p].address = driver[p].address /\ p \in Faithful
  BY <1>1, <1>3 DEF Keeps, Faithful
<1> QED BY <1>1, <1>3, <1>4, <1>5, <1>6, <1>7, <1>8, UpdatedHolds

LEMMA FinishUpdateHolds ==
    ASSUME I2cInv, NEW p \in Peripherals, Serving(p), pc = "read", FinishUpdate(p), ServeFrame
    PROVE  I2cInv'
<1>k. ThreadInv /\ PeripheralType(p) /\ PeripheralInv(p) /\ calm[p] \in Nat /\ p \in Drivers
  BY Known
<1>p. PICK answered \in BOOLEAN :
        LET done == Process(p, driver[p], settings[p], answered)
        IN /\ IF ReadsLast(p) THEN Outcome(p, answered) ELSE answered /\ UNCHANGED calm
           /\ IF done.ok
              THEN driver' = [driver EXCEPT ![p] = done.v] /\ UNCHANGED <<sched, device>>
              ELSE Dropped(p, done.v)
           /\ NextTurn
           /\ UNCHANGED <<mixed, unnoticed>>
  BY DEF FinishUpdate
<1> DEFINE done == Process(p, driver[p], settings[p], answered)
<1>1. /\ IF ReadsLast(p) THEN Outcome(p, answered) ELSE answered /\ UNCHANGED calm
      /\ IF done.ok
         THEN driver' = [driver EXCEPT ![p] = done.v] /\ UNCHANGED <<sched, device>>
         ELSE Dropped(p, done.v)
      /\ NextTurn
      /\ UNCHANGED <<mixed, unnoticed>>
  BY <1>p
<1>2. /\ IsDriver(done.v) /\ (done.v.up => driver[p].up) /\ done.v.address = driver[p].address
      /\ answered /\ driver[p].up => done.ok /\ done.v.up
  BY <1>k, ProcessFacts DEF PeripheralType
<1> HIDE DEF done
<1>3. CalmKept(p) /\ (calm'[p] = 0 \/ calm'[p] = calm[p])
  BY <1>1, OutcomeCalm DEF CalmKept

\* What the thread is in the middle of was healthy at its beginning, unless its calm ended since.
<1>4. calm'[p] = 0 \/ Healthy(p)
  BY <1>k, <1>3 DEF PeripheralInv, HealInv, InInit, InRead, Failing, Missing, Entering, Absent
<1>5. calm'[p] = 0 \/ (done.ok /\ done.v.up /\ (p \in Faithful \/ done.v.address = device[p].at))
  <2> SUFFICES ASSUME calm'[p] # 0
               PROVE  done.ok /\ done.v.up /\ (p \in Faithful \/ done.v.address = device[p].at)
    OBVIOUS
  <2>1. Healthy(p) /\ calm[p] > 0
    BY <1>k, <1>3, <1>4
  <2>2. answered
    <3>1. CASE ReadsLast(p)
      <4>1. p \notin Faithful
        BY <3>1 DEF ReadsLast, Faithful
      <4>2. Answers(p)
        BY <2>1, <4>1, AnswersThere
      <4> QED BY <1>1, <3>1, <4>2, OutcomeCalm
    <3>2. CASE ~ReadsLast(p)
      BY <1>1, <3>2
    <3> QED BY <3>1, <3>2
  <2> QED BY <1>2, <2>1, <2>2 DEF Healthy
<1>6. CASE ~done.ok
  BY <1>1, <1>2, <1>3, <1>5, <1>6, DroppedHolds
<1>7. CASE done.ok
  <2>1. /\ DOMAIN driver' = Peripherals /\ \A q \in Peripherals \ {p} : driver'[q] = driver[q]
        /\ driver'[p] = done.v
        /\ DOMAIN sched' = Peripherals /\ sched' = sched /\ IsSched(p, sched'[p]) /\ sched'[p].initialized
        /\ DOMAIN device' = Peripherals /\ device' = device /\ IsDevice(p, device'[p])
    BY <1>k, <1>1, <1>7 DEF ThreadInv, PeripheralType, PeripheralInv, HealInv, InRead
  <2> QED BY <1>1, <1>2, <1>3, <1>5, <1>7, <2>1, UpdatedHolds
<1> QED BY <1>6, <1>7

LEMMA FinishInitHolds ==
    ASSUME I2cInv, NEW p \in Peripherals, Serving(p), pc = "init", FinishInit(p), ServeFrame
    PROVE  I2cInv'
<1>k. /\ ThreadInv /\ PeripheralType(p) /\ PeripheralInv(p)
      /\ p \in Drivers /\ p # "none"
      /\ ProbeInterval \in Nat \ {0} /\ Interval[p] \in Nat \ {0} /\ now \in Nat /\ calm[p] \in Nat
  BY Known
<1>u. UNCHANGED <<ran, frozen, order, now, settings, handler>> /\ NextTurn
  BY DEF FinishInit, ServeFrame, gateVars
<1>p. PICK answered \in BOOLEAN :
        /\ Outcome(p, answered)
        /\ IF (IF p = "display" THEN Supported(work.cfg) ELSE answered)
           THEN /\ Initialized(p, work.cfg, answered, handler = p \/ work.cfg # settings[p])
                /\ sched' = [sched EXCEPT ![p].initialized = TRUE, ![p].update = now]
           ELSE /\ driver' = [driver EXCEPT ![p] = Deinit(p, @)]
                /\ device' = Stopped(p, driver[p])
                /\ sched' = [sched EXCEPT ![p].update = now]
                /\ UNCHANGED <<mixed, unnoticed>>
  BY DEF FinishInit
<1> DEFINE ready == IF p = "display" THEN Supported(work.cfg) ELSE answered
<1>c. /\ DOMAIN calm' = Peripherals /\ \A q \in Peripherals \ {p} : calm'[q] = calm[q]
      /\ calm'[p] = 0 \/ (calm'[p] = calm[p] /\ answered = Answers(p))
      /\ answered => Answers(p)
  BY <1>p, OutcomeCalm
<1>1. InInit(p) /\ ~InInit(p)' /\ ~InRead(p)' /\ ~sched[p].initialized
  BY <1>k, <1>u DEF NextTurn, InInit, InRead, PeripheralInv, HealInv
<1>r. /\ ready => /\ driver' = [driver EXCEPT ![p] = Ready(p, @, work.cfg)]
                  /\ sched' = [sched EXCEPT ![p].initialized = TRUE, ![p].update = now]
      /\ ~ready => /\ driver' = [driver EXCEPT ![p] = Deinit(p, @)]
                   /\ sched' = [sched EXCEPT ![p].update = now]
  BY <1>p DEF Initialized
<1>s. /\ DOMAIN sched' = Peripherals /\ \A q \in Peripherals \ {p} : sched'[q] = sched[q]
      /\ IsSched(p, sched'[p]) /\ (sched'[p].initialized <=> ready)
  <2> HIDE DEF ready
  <2> DEFINE off == sched[p].initialized
  <2>1. /\ sched[p] = [initialized |-> off, probe |-> sched[p].probe, update |-> sched[p].update]
        /\ sched[p].probe \in Nat /\ sched[p].probe <= now + ProbeInterval
        /\ off \in BOOLEAN /\ ~off
    BY <1>k, <1>1 DEF PeripheralType, IsSched
  <2> HIDE DEF off
  <2>2. CASE ready
    <3>1. sched' = [sched EXCEPT ![p] = [[sched[p] EXCEPT !.initialized = TRUE] EXCEPT !.update = now]]
      BY <1>k, <1>r, <2>2 DEF ThreadInv
    <3>2. sched'[p] = [initialized |-> TRUE, probe |-> sched[p].probe, update |-> now]
      BY <1>k, <2>1, <3>1 DEF ThreadInv
    <3>3. IsSched(p, sched'[p])
      BY <1>k, <2>1, <3>2 DEF IsSched
    <3> QED BY <1>k, <2>2, <3>1, <3>2, <3>3 DEF ThreadInv
  <2>3. CASE ~ready
    <3>1. sched' = [sched EXCEPT ![p] = [sched[p] EXCEPT !.update = now]]
      BY <1>k, <1>r, <2>3 DEF ThreadInv
    <3>2. sched'[p] = [initialized |-> off, probe |-> sched[p].probe, update |-> now]
      BY <1>k, <2>1, <3>1 DEF ThreadInv
    <3>3. sched'[p].initialized = off /\ sched'[p].probe = sched[p].probe /\ sched'[p].update = now
      BY <3>2
    <3>4. IsSched(p, sched'[p])
      BY <1>k, <2>1, <3>2, <3>3 DEF IsSched
    <3>5. DOMAIN sched' = Peripherals /\ \A q \in Peripherals \ {p} : sched'[q] = sched[q]
      BY <1>k, <3>1 DEF ThreadInv
    <3> QED BY <2>1, <2>3, <3>3, <3>4, <3>5
  <2> QED BY <2>2, <2>3
<1>v. /\ DOMAIN driver' = Peripherals /\ \A q \in Peripherals \ {p} : driver'[q] = driver[q]
      /\ IsDriver(driver'[p]) /\ (driver'[p].up <=> ready)
      /\ IF ready THEN driver'[p].address = driver[p].address ELSE driver'[p].address \in {driver[p].address, 1}
  <2> HIDE DEF ready
  <2>1. IsDriver(driver[p]) /\ DOMAIN driver = Peripherals
    BY <1>k DEF PeripheralType, ThreadInv
  <2>2. IsDriver(Ready(p, driver[p], work.cfg)) /\ Ready(p, driver[p], work.cfg).up
        /\ Ready(p, driver[p], work.cfg).address = driver[p].address
    BY <1>k, <2>1, ReadyFacts
  <2>3. IsDriver(Deinit(p, driver[p])) /\ ~Deinit(p, driver[p]).up /\ Deinit(p, driver[p]).address \in {driver[p].address, 1}
    BY <1>k, <2>1, DeinitFacts
  <2> QED BY <1>r, <2>1, <2>2, <2>3
<1>d. /\ DOMAIN device' = Peripherals /\ \A q \in Peripherals \ {p} : device'[q] = device[q]
      /\ IsDevice(p, device'[p])
      /\ device'[p].present = device[p].present /\ device'[p].at = device[p].at /\ device'[p].stranger = device[p].stranger
      /\ ready /\ answered => device'[p].regs = Registers(p, work.cfg)
  <2> DEFINE regs == IF ready THEN IF answered THEN Registers(p, work.cfg) ELSE device[p].regs
                     ELSE IF p \in Stops /\ driver[p].up /\ Answers(p) THEN NoRegisters ELSE device[p].regs
  <2>1. device' = [device EXCEPT ![p].regs = regs]
    BY <1>p DEF Initialized, Stopped
  <2>2. ready /\ answered => regs = Registers(p, work.cfg)
    OBVIOUS
  <2>3. DOMAIN device = Peripherals /\ IsDevice(p, device[p])
    BY <1>k DEF ThreadInv, PeripheralType
  <2> HIDE DEF regs
  <2> QED BY <2>1, <2>2, <2>3 DEF IsDevice
<1>2. PeripheralType(p)'
  <2>1. IsSched(p, sched[p])'
    BY <1>u, <1>s DEF IsSched
  <2>2. IsDriver(driver[p])' /\ IsDevice(p, device[p])'
    BY <1>v, <1>d DEF IsDriver, IsDevice
  <2> QED BY <1>k, <1>u, <1>c, <2>1, <2>2 DEF PeripheralType
<1>3. CalmInv(p)'
  BY <1>k, <1>u, <1>c, <1>d DEF PeripheralInv, CalmInv
<1>4. HealInv(p)'
  <2>1. ASSUME calm'[p] > 0 PROVE Healthy(p)' \/ Absent(p)'
    <3>1. calm'[p] = calm[p] /\ answered = Answers(p) /\ Excused(p)' = Excused(p)
      BY <1>c, <1>d, <1>u, <2>1, ExcusedStays
    <3>2. Entering(p) \/ Absent(p)
      BY <1>k, <1>1, <2>1, <3>1 DEF PeripheralInv, HealInv, Healthy, Failing, Missing
    <3>3. work.cfg = settings[p] /\ device[p].present
      BY <1>k, <1>1, <2>1, <3>1, <3>2 DEF Entering, Absent, PeripheralInv, CalmInv
    <3>4. CASE Excused(p)
      <4>1. ~ready
        BY <3>1, <3>3, <3>4, ExcusedUnanswered DEF Answers, Excused
      <4> QED BY <1>1, <1>s, <1>v, <3>1, <3>4, <4>1 DEF Absent
    <3>5. CASE ~Excused(p)
      <4>1. Entering(p)
        BY <3>2, <3>5 DEF Absent
      <4>2. ready
        BY <3>1, <3>3, <3>5, <4>1 DEF Entering, Answers, Excused
      <4> QED BY <1>s, <1>v, <1>d, <4>1, <4>2 DEF Healthy, Entering, Faithful
    <3> QED BY <3>4, <3>5
  <2>2. IsAddress(p, driver[p].address)'
    <3> HIDE DEF ready
    <3> QED BY <1>k, <1>v, <1>d, FirstAddress DEF PeripheralInv, HealInv, IsAddress
  <2> QED BY <1>1, <2>1, <2>2 DEF HealInv
<1>5. RegistersInv(p)'
  <2>1. CASE ready
    <3>1. /\ mixed' = IF handler = p \/ work.cfg # settings[p] THEN mixed ELSE mixed \ {p}
          /\ unnoticed' = IF answered THEN unnoticed \ {p} ELSE unnoticed \cup {p}
      BY <1>p, <2>1 DEF Initialized
    <3> SUFFICES ASSUME p \notin mixed'
                 PROVE  /\ p = "display" /\ handler' = p /\ ~Supported(settings'[p]) => ~driver'[p].up
                        /\ p \notin unnoticed' => device'[p].regs = Registers(p, settings'[p])
      BY <1>1 DEF RegistersInv
    <3>2. Alike(p, work.cfg, settings[p])
      <4>1. CASE p \notin mixed
        BY <1>k, <1>1, <4>1 DEF PeripheralInv, RegistersInv
      <4>2. CASE p \in mixed
        <5>1. work.cfg = settings[p]
          BY <3>1, <4>2
        <5> QED BY <5>1 DEF Alike
      <4> QED BY <4>1, <4>2
    <3>3. p = "display" => Supported(settings'[p])
      BY <1>u, <2>1, <3>2 DEF Alike
    <3>4. p \notin unnoticed' => device'[p].regs = Registers(p, settings'[p])
      BY <1>u, <1>d, <2>1, <3>1, <3>2 DEF Alike
    <3> QED BY <3>3, <3>4
  <2>2. CASE ~ready
    BY <1>1, <1>v, <2>2 DEF RegistersInv
  <2> QED BY <2>1, <2>2
<1>6. Frame /\ Turning(p) /\ \A q \in Peripherals \ {p} : LeftAlone(q)
  <2>1. \A q \in Peripherals \ {p} : (q \in mixed' <=> q \in mixed) /\ (q \in unnoticed' <=> q \in unnoticed)
    BY <1>p DEF Initialized
  <2> QED BY <1>k, <1>s, <1>u, <1>c, <1>v, <1>d, <2>1 DEF Frame, Turning, LeftAlone, ThreadInv
<1> QED BY <1>2, <1>3, <1>4, <1>5, <1>6, OneTouched DEF PeripheralInv

\* A call of the driver that the thread serves.
ServedStep(p) ==
    \/ pc = "init" /\ FinishInit(p)
    \/ pc = "read" /\ FinishUpdate(p)
    \/ pc = "idle" /\ (Probe(p) \/ Pass(p) \/ UpdateDown(p) \/ UpdateUnread(p) \/ UpdateRead(p) \/ UpdateDisplay(p))

LEMMA ServedOne ==
    ASSUME I2cInv, ServeStep
    PROVE  \E p \in Peripherals : Serving(p) /\ ServedStep(p)
<1>1. pc \in {"idle", "init", "read"}
  BY DEF I2cInv, ThreadInv
<1> QED BY <1>1 DEF ServeStep, ServedStep

LEMMA ServeStepHolds ==
    ASSUME I2cInv, ServeStep, ServeFrame
    PROVE  I2cInv'
<1>1. PICK p \in Peripherals : Serving(p) /\ ServedStep(p)
  BY ServedOne
<1> QED BY <1>1, FinishInitHolds, FinishUpdateHolds, ProbeHolds, PassHolds, UpdateDownHolds, UpdateUnreadHolds, UpdateReadHolds,
           UpdateDisplayHolds
        DEF ServedStep

\* A step that leaves all of them alone.
LEMMA NoneTouched ==
    ASSUME I2cInv, order' = order, ThreadInv', \A q \in Peripherals : Untouched(q)
    PROVE  I2cInv'
<1>1. \A q \in Peripherals : PeripheralInv(q)'
  BY UntouchedHolds DEF I2cInv
<1> QED BY <1>1, PeripheralsStay DEF I2cInv

\* In a freeze nothing is served, and nothing is calm.
LEMMA BeginUntouched ==
    ASSUME I2cInv, BeginIteration, ServeFrame, NEW q \in Peripherals
    PROVE  Untouched(q) /\ pc = "idle"
<1>0. ThreadInv /\ PeripheralInv(q)
  BY DEF I2cInv
<1>1. /\ UNCHANGED <<ran, frozen, order, now, settings, handler, pc, work, sched, driver, device, calm, mixed, unnoticed>>
      /\ turn = 0 /\ turn' = IF frozen THEN Len(order) + 1 ELSE 1
  BY DEF BeginIteration, ServeFrame, gateVars, ghosts
<1>2. Len(order) \in Nat /\ DOMAIN order = 1 .. Len(order)
  BY <1>0 DEF ThreadInv
<1>3. pc = "idle"
  BY <1>0, <1>1, <1>2 DEF ThreadInv
<1>4. calm'[q] = 0 \/ (Served(q)' => Served(q))
  <2>1. CASE frozen
    BY <1>0, <1>1, <2>1, CalmNumber DEF PeripheralInv, CalmInv
  <2>2. CASE ~frozen
    BY <1>1, <1>2, <2>2 DEF Served
  <2> QED BY <2>1, <2>2
<1>5. ~InInit(q) /\ ~InInit(q)' /\ ~InRead(q) /\ ~InRead(q)'
  BY <1>1, <1>3 DEF InInit, InRead
<1> QED BY <1>1, <1>3, <1>4, <1>5 DEF Untouched, Stays

LEMMA BeginIterationHolds ==
    ASSUME I2cInv, BeginIteration, ServeFrame
    PROVE  I2cInv'
<1>0. ThreadInv
  BY DEF I2cInv
<1>1. /\ UNCHANGED <<ran, order, now, settings, handler, pc, sched, driver, device, calm>>
      /\ turn = 0 /\ turn' = IF frozen THEN Len(order) + 1 ELSE 1
  BY DEF BeginIteration, ServeFrame, ghosts
<1>2. Len(order) \in Nat /\ DOMAIN order = 1 .. Len(order)
  BY <1>0 DEF ThreadInv
<1>3. pc = "idle"
  BY <1>0, <1>1, <1>2 DEF ThreadInv
<1>p. Peripherals' = Peripherals
  BY <1>1, PeripheralsStay
<1>4. ThreadInv'
  <2>1. \A q \in Peripherals : PeripheralType(q)'
    BY <1>0, <1>1 DEF ThreadInv, PeripheralType, IsSched
  <2>2. turn' \in 0 .. Len(order) + 1
    BY <1>1, <1>2
  <2> QED BY <1>0, <1>1, <1>3, <1>p, <2>1, <2>2 DEF ThreadInv
<1> QED BY <1>1, <1>4, BeginUntouched, NoneTouched

LEMMA EndUntouched ==
    ASSUME I2cInv, EndIteration, UNCHANGED <<order, now, settings, preset, handler>>, NEW q \in Peripherals
    PROVE  Untouched(q) /\ ~InRead(q)
<1>1. /\ UNCHANGED <<frozen, order, now, settings, handler, pc, work, sched, driver, device, calm, mixed, unnoticed>>
      /\ turn = Len(order) + 1 /\ turn' = 0 /\ ran' = TRUE
  BY DEF EndIteration, Iterate, gateVars, ghosts
<1>2. Len(order) \in Nat /\ DOMAIN order = 1 .. Len(order)
  BY DEF I2cInv, ThreadInv
<1>3. pc = "idle"
  BY <1>1, <1>2 DEF I2cInv, ThreadInv
<1>4. Served(q)
  <2>1. PICK i \in DOMAIN order : order[i] = q
    BY DEF Peripherals
  <2> QED BY <1>1, <1>2, <2>1 DEF Served
<1>5. ~InInit(q) /\ ~InInit(q)' /\ ~InRead(q) /\ ~InRead(q)'
  BY <1>1, <1>3 DEF InInit, InRead
<1> QED BY <1>1, <1>4, <1>5 DEF Untouched, Stays

LEMMA EndIterationHolds ==
    ASSUME I2cInv, EndIteration, UNCHANGED <<order, now, settings, preset, handler>>
    PROVE  I2cInv'
<1>0. ThreadInv
  BY DEF I2cInv
<1>1. /\ UNCHANGED <<order, now, settings, handler, pc, sched, driver, device, calm>>
      /\ turn = Len(order) + 1 /\ turn' = 0 /\ ran' = TRUE
  BY DEF EndIteration, ghosts
<1>2. Len(order) \in Nat /\ DOMAIN order = 1 .. Len(order)
  BY <1>0 DEF ThreadInv
<1>3. pc = "idle"
  BY <1>0, <1>1, <1>2 DEF ThreadInv
<1>p. Peripherals' = Peripherals
  BY <1>1, PeripheralsStay
<1>4. ThreadInv'
  <2>1. \A q \in Peripherals : PeripheralType(q)'
    BY <1>0, <1>1 DEF ThreadInv, PeripheralType, IsSched
  <2> QED BY <1>0, <1>1, <1>2, <1>3, <1>p, <2>1 DEF ThreadInv
<1> QED BY <1>1, <1>4, EndUntouched, NoneTouched

LEMMA ThreadStepHolds == ASSUME I2cInv, ThreadStep PROVE I2cInv'
<1>1. CASE EndIteration
  BY <1>1, EndIterationHolds DEF ThreadStep
<1>2. CASE (BeginIteration \/ ServeStep) /\ UNCHANGED <<ran, gateVars>>
  <2>1. ServeFrame
    BY <1>2 DEF ThreadStep, ServeFrame
  <2> QED BY <1>2, <2>1, BeginIterationHolds, ServeStepHolds
<1> QED BY <1>1, <1>2 DEF ThreadStep

-----------------------------------------------------------------------------
(* The dispatcher.                                                         *)

DispatchFrame == UNCHANGED <<gateVars, order, now, threadVars, sched>>

LEMMA DispatchFacts ==
    ASSUME I2cInv, DispatchFrame
    PROVE  /\ UNCHANGED <<frozen, order, now, ran, turn, pc, work, sched>>
           /\ ThreadInv /\ DOMAIN sched' = Peripherals /\ Peripherals' = Peripherals
           /\ \A p \in Peripherals : /\ Turning(p)
                                     /\ (InInit(p)' <=> InInit(p)) /\ (InRead(p)' <=> InRead(p)) /\ (Served(p)' <=> Served(p))
                                     /\ IsSched(p, sched[p])'
<1>1. UNCHANGED <<frozen, order, now, ran, turn, pc, work, sched>> /\ ThreadInv
  BY DEF DispatchFrame, gateVars, threadVars, I2cInv
<1>2. \A p \in Peripherals : IsSched(p, sched[p])'
  BY <1>1 DEF ThreadInv, PeripheralType, IsSched
<1> QED BY <1>1, <1>2, PeripheralsStay DEF ThreadInv, Turning, InInit, InRead, Served, Serving

\* Only what the display shows changes.
LEMMA DisplayedHolds ==
    ASSUME I2cInv, DispatchFrame, "display" \in Peripherals, NEW v, Keeps(driver["display"], v),
           driver' = [driver EXCEPT !["display"] = v], calm' = [calm EXCEPT !["display"] = 0],
           UNCHANGED <<settings, handler, device, mixed, unnoticed>>
    PROVE  I2cInv'
<1>1. /\ UNCHANGED <<frozen, order, now, ran, turn, pc, work, sched>>
      /\ ThreadInv /\ DOMAIN sched' = Peripherals /\ Peripherals' = Peripherals
      /\ \A p \in Peripherals : /\ Turning(p)
                                /\ (InInit(p)' <=> InInit(p)) /\ (InRead(p)' <=> InRead(p)) /\ (Served(p)' <=> Served(p))
                                /\ IsSched(p, sched[p])'
  BY DispatchFacts
<1>2. /\ DOMAIN driver' = Peripherals /\ DOMAIN calm' = Peripherals
      /\ \A q \in Peripherals : /\ IsDriver(driver'[q])
                                /\ driver'[q].up = driver[q].up /\ driver'[q].address = driver[q].address
                                /\ calm'[q] = 0 \/ calm'[q] = calm[q]
                                /\ calm'[q] \in Nat
  BY <1>1 DEF ThreadInv, PeripheralType, Keeps
<1>3. ThreadInv'
  <2>1. \A q \in Peripherals : PeripheralType(q)'
    <3> TAKE q \in Peripherals
    <3>1. IsDriver(driver[q])' /\ IsDevice(q, device[q])'
      BY <1>1, <1>2 DEF ThreadInv, PeripheralType, IsDriver, IsDevice
    <3> QED BY <1>1, <1>2, <3>1 DEF ThreadInv, PeripheralType
  <2> QED BY <1>1, <1>2, <2>1 DEF ThreadInv
<1>4. \A q \in Peripherals : Untouched(q)
  BY <1>1, <1>2 DEF Untouched, Stays
<1> QED BY <1>1, <1>3, <1>4, NoneTouched

LEMMA ShowOnDisplayHolds ==
    ASSUME I2cInv, DispatchFrame, NEW message \in Messages, ShowOnDisplay(message)
    PROVE  I2cInv'
<1> DEFINE v == ShowMessage(driver["display"], message.typeElement, message.valueElement, message, now)
<1>1. /\ "display" \in Peripherals /\ driver' = [driver EXCEPT !["display"] = v] /\ calm' = [calm EXCEPT !["display"] = 0]
      /\ UNCHANGED <<settings, handler, device, mixed, unnoticed>>
  BY DEF ShowOnDisplay, Displayed
<1>2. Keeps(driver["display"], v)
  BY <1>1, Known, MessageKeeps DEF PeripheralType
<1> QED BY <1>1, <1>2, DisplayedHolds

LEMMA ChangePresetHolds ==
    ASSUME I2cInv, DispatchFrame, NEW value, ChangePreset(value)
    PROVE  I2cInv'
<1> DEFINE v == SetText(driver["display"], "preset", Presets[value + 2], now)
<1>1. /\ "display" \in Peripherals /\ driver' = [driver EXCEPT !["display"] = v] /\ calm' = [calm EXCEPT !["display"] = 0]
      /\ UNCHANGED <<settings, handler, device, mixed, unnoticed>>
  BY DEF ChangePreset, Displayed
<1>2. Keeps(driver["display"], v)
  BY <1>1, Known, SetTextKeeps DEF PeripheralType
<1> QED BY <1>1, <1>2, DisplayedHolds

LEMMA RefreshHostHolds ==
    ASSUME I2cInv, DispatchFrame, NEW p \in Peripherals, RefreshHost(p)
    PROVE  I2cInv'
<1>1. /\ UNCHANGED <<frozen, order, now, ran, turn, pc, work, sched>>
      /\ ThreadInv /\ DOMAIN sched' = Peripherals /\ Peripherals' = Peripherals
      /\ \A q \in Peripherals : /\ Turning(q)
                                /\ (InInit(q)' <=> InInit(q)) /\ (InRead(q)' <=> InRead(q)) /\ (Served(q)' <=> Served(q))
                                /\ IsSched(q, sched[q])'
  BY DispatchFacts
<1>2. UNCHANGED <<driver, settings, handler, device, calm, mixed, unnoticed>>
  BY DEF RefreshHost
<1>3. ThreadInv'
  <2>1. \A q \in Peripherals : PeripheralType(q)'
    <3> TAKE q \in Peripherals
    <3>1. IsDriver(driver[q])' /\ IsDevice(q, device[q])'
      BY <1>1, <1>2 DEF ThreadInv, PeripheralType, IsDriver, IsDevice
    <3> QED BY <1>1, <1>2, <3>1 DEF ThreadInv, PeripheralType
  <2> QED BY <1>1, <1>2, <2>1 DEF ThreadInv
<1>4. \A q \in Peripherals : Untouched(q)
  BY <1>1, <1>2 DEF Untouched, Stays
<1> QED BY <1>1, <1>3, <1>4, NoneTouched

LEMMA WriteSettingHolds ==
    ASSUME I2cInv, DispatchFrame, NEW write \in Writes, WriteSetting(write)
    PROVE  I2cInv'
<1> DEFINE p == write.peripheral
           k == write.setting
           s == [settings[p] EXCEPT ![k] = write.value]
<1>0. p \in Peripherals /\ handler = "none"
  BY DEF WriteSetting
<1>k. /\ ThreadInv /\ PeripheralType(p) /\ PeripheralInv(p)
      /\ p \in Drivers /\ p # "none" /\ calm[p] \in Nat
  BY <1>0, Known
<1>u. /\ UNCHANGED <<frozen, order, now, ran, turn, pc, work, sched>>
      /\ ThreadInv /\ DOMAIN sched' = Peripherals /\ Peripherals' = Peripherals
      /\ \A q \in Peripherals : /\ Turning(q)
                                /\ (InInit(q)' <=> InInit(q)) /\ (InRead(q)' <=> InRead(q)) /\ (Served(q)' <=> Served(q))
                                /\ IsSched(q, sched[q])'
  BY DispatchFacts
<1>1. /\ calm' = [calm EXCEPT ![p] = 0] /\ settings' = [settings EXCEPT ![p] = s]
      /\ unnoticed' = unnoticed
      /\ IF Handling(p, k) = "init"
         THEN /\ handler' = p
              /\ Begun(p, driver[p].address, s)
              /\ mixed' = IF Serving(p) /\ pc = "init" THEN mixed \cup {p} ELSE mixed
         ELSE /\ CASE p = "display" -> Displayed(DisplayWritten(driver[p], k, write.value, now))
                   [] Handling(p, k) = "reset" -> driver' = [driver EXCEPT ![p] = IF p = "bno085" THEN BnoForget(@) ELSE L5Reset(@)]
                   [] OTHER -> UNCHANGED driver
              /\ UNCHANGED <<handler, device, mixed>>
  BY <1>k DEF WriteSetting, ThreadInv
<1>c. /\ DOMAIN calm' = Peripherals /\ \A q \in Peripherals \ {p} : calm'[q] = calm[q]
      /\ calm'[p] = 0
  BY <1>0, <1>k, <1>1 DEF ThreadInv
<1>s. /\ DOMAIN settings' = Peripherals /\ \A q \in Peripherals \ {p} : settings'[q] = settings[q]
      /\ settings'[p] = s /\ DOMAIN s = Fields(p)
  BY <1>0, <1>k, <1>1 DEF ThreadInv, PeripheralType
<1>a. Handling(p, k) # "init" => Alike(p, s, settings[p])
  BY <1>k, StoredAlike DEF PeripheralType
<1>b. Begun(p, driver[p].address, s) =>
        /\ driver' = [driver EXCEPT ![p] = [Start(p, driver[p], s) EXCEPT !.address = driver[p].address]]
        /\ \E regs : device' = [device EXCEPT ![p].regs = regs]
  BY DEF Begun
<1> HIDE DEF s, k
<1> DEFINE inits == Handling(p, k) = "init"
<1>d. /\ DOMAIN device' = Peripherals /\ \A q \in Peripherals \ {p} : device'[q] = device[q]
      /\ IsDevice(p, device'[p]) /\ device'[p].stranger = device[p].stranger
  <2>1. DOMAIN device = Peripherals /\ IsDevice(p, device[p])
    BY <1>k DEF ThreadInv, PeripheralType
  <2>2. CASE inits
    <3>1. PICK regs : device' = [device EXCEPT ![p].regs = regs]
      BY <1>1, <1>b, <2>2
    <3> QED BY <1>0, <2>1, <3>1 DEF IsDevice
  <2>3. CASE ~inits
    BY <1>1, <2>1, <2>3
  <2> QED BY <2>2, <2>3
<1>v. /\ DOMAIN driver' = Peripherals /\ \A q \in Peripherals \ {p} : driver'[q] = driver[q]
      /\ IsDriver(driver'[p])
      /\ inits => (driver'[p].up => driver[p].up /\ p = "display" /\ Supported(s)) /\ driver'[p].address = driver[p].address
      /\ ~inits => driver'[p].up = driver[p].up /\ driver'[p].address = driver[p].address
  <2>1. IsDriver(driver[p]) /\ DOMAIN driver = Peripherals
    BY <1>k DEF ThreadInv, PeripheralType
  <2>2. CASE inits
    <3>1. IsDriver(Start(p, driver[p], s)) /\ (Start(p, driver[p], s).up => driver[p].up /\ p = "display" /\ Supported(s))
      BY <1>k, <2>1, StartFacts
    <3> QED BY <1>0, <1>1, <1>b, <2>1, <2>2, <3>1 DEF IsDriver
  <2>3. CASE ~inits
    <3>1. \/ p = "display" /\ driver' = [driver EXCEPT ![p] = DisplayWritten(driver[p], k, write.value, now)]
          \/ driver' = [driver EXCEPT ![p] = BnoForget(driver[p])] \/ driver' = [driver EXCEPT ![p] = L5Reset(driver[p])]
          \/ driver' = driver
      BY <1>1, <2>3 DEF Displayed
    <3>2. Keeps(driver[p], DisplayWritten(driver[p], k, write.value, now)) /\ Keeps(driver[p], BnoForget(driver[p]))
          /\ Keeps(driver[p], L5Reset(driver[p]))
      BY <2>1, WrittenKeeps, ResetKeeps
    <3> QED BY <1>0, <2>1, <2>3, <3>1, <3>2 DEF Keeps
  <2> QED BY <2>2, <2>3
<1>2. PeripheralType(p)'
  <2>1. IsDriver(driver[p])' /\ IsDevice(p, device[p])'
    BY <1>v, <1>d DEF IsDriver, IsDevice
  <2> QED BY <1>0, <1>u, <1>c, <1>s, <2>1 DEF PeripheralType
<1>3. CalmInv(p)'
  BY <1>c DEF CalmInv
<1>4. HealInv(p)'
  <2>1. IsAddress(p, driver[p].address)'
    BY <1>k, <1>v, <1>d DEF PeripheralInv, HealInv, IsAddress
  <2>2. (InInit(p)' => ~sched'[p].initialized) /\ (InRead(p)' => sched'[p].initialized)
    BY <1>0, <1>k, <1>u DEF PeripheralInv, HealInv
  <2> QED BY <1>c, <2>1, <2>2 DEF HealInv
<1>5. RegistersInv(p)'
  <2>1. CASE inits
    <3>1. p \notin mixed' => ~InInit(p)'
      BY <1>0, <1>1, <1>u, <2>1 DEF InInit
    <3> QED BY <1>1, <1>s, <1>v, <2>1, <3>1 DEF RegistersInv
  <2>2. CASE ~inits
    <3> SUFFICES ASSUME p \notin mixed
                 PROVE  /\ InInit(p)' => Alike(p, work'.cfg, settings'[p])
                        /\ p \notin unnoticed /\ driver'[p].up => device'[p].regs = Registers(p, settings'[p])
      BY <1>0, <1>1, <1>k, <2>2 DEF RegistersInv, Alike
    <3>1. InInit(p) => Alike(p, work.cfg, settings[p])
      BY <1>k DEF PeripheralInv, RegistersInv
    <3>2. p \notin unnoticed /\ driver[p].up => device[p].regs = Registers(p, settings[p])
      BY <1>0, <1>k DEF PeripheralInv, RegistersInv
    <3>3. Alike(p, s, settings[p])
      BY <1>a, <2>2
    <3> QED BY <1>0, <1>1, <1>u, <1>s, <1>v, <2>2, <3>1, <3>2, <3>3 DEF Alike
  <2> QED BY <2>1, <2>2
<1>6. Frame /\ Turning(p) /\ \A q \in Peripherals \ {p} : LeftAlone(q)
  <2>1. handler' \in {p, "none"}
    BY <1>0, <1>1
  <2>2. \A q \in Peripherals \ {p} : q # "none"
    BY Known
  <2> QED BY <1>0, <1>1, <1>u, <1>c, <1>s, <1>v, <1>d, <2>1, <2>2 DEF Frame, LeftAlone
<1> QED BY <1>0, <1>2, <1>3, <1>4, <1>5, <1>6, OneTouched DEF PeripheralInv

LEMMA FinishHandlerInitHolds ==
    ASSUME I2cInv, DispatchFrame, NEW p \in Peripherals, handler = p, FinishHandlerInit
    PROVE  I2cInv'
<1>0. handler' = "none" /\ UNCHANGED settings
  BY DEF FinishHandlerInit
<1>k. /\ ThreadInv /\ PeripheralType(p) /\ PeripheralInv(p)
      /\ p \in Drivers /\ p # "none" /\ calm[p] \in Nat
  BY <1>0, Known
<1>u. /\ UNCHANGED <<frozen, order, now, ran, turn, pc, work, sched>>
      /\ ThreadInv /\ DOMAIN sched' = Peripherals /\ Peripherals' = Peripherals
      /\ \A q \in Peripherals : /\ Turning(q)
                                /\ (InInit(q)' <=> InInit(q)) /\ (InRead(q)' <=> InRead(q)) /\ (Served(q)' <=> Served(q))
                                /\ IsSched(q, sched[q])'
  BY DispatchFacts
<1>p. PICK answered \in BOOLEAN :
        /\ Outcome(p, answered)
        /\ IF (IF p = "display" THEN Supported(settings[p]) ELSE answered)
           THEN Initialized(p, settings[p], answered, Serving(p) /\ pc = "init")
           ELSE UNCHANGED <<driver, device, mixed, unnoticed>>
  BY DEF FinishHandlerInit
<1> DEFINE ready == IF p = "display" THEN Supported(settings[p]) ELSE answered
<1>c. /\ DOMAIN calm' = Peripherals /\ \A q \in Peripherals \ {p} : calm'[q] = calm[q]
      /\ calm'[p] = 0
      /\ answered => Answers(p)
  BY <1>0, <1>k, <1>p, OutcomeCalm DEF PeripheralInv, CalmInv
<1>1. /\ ready => /\ driver' = [driver EXCEPT ![p] = Ready(p, @, settings[p])]
                  /\ device' = [device EXCEPT ![p].regs = IF answered THEN Registers(p, settings[p]) ELSE @]
                  /\ mixed' = IF InInit(p) THEN mixed ELSE mixed \ {p}
                  /\ unnoticed' = IF answered THEN unnoticed \ {p} ELSE unnoticed \cup {p}
      /\ ~ready => UNCHANGED <<driver, device, mixed, unnoticed>>
  BY <1>p DEF Initialized, InInit
<1>v. /\ DOMAIN driver' = Peripherals /\ \A q \in Peripherals \ {p} : driver'[q] = driver[q]
      /\ IsDriver(driver'[p])
      /\ ready => driver'[p].address = driver[p].address
      /\ ~ready => driver' = driver
  <2> HIDE DEF ready
  <2>1. IsDriver(driver[p]) /\ DOMAIN driver = Peripherals
    BY <1>k DEF PeripheralType, ThreadInv
  <2>2. IsDriver(Ready(p, driver[p], settings[p])) /\ Ready(p, driver[p], settings[p]).address = driver[p].address
    BY <1>k, <2>1, ReadyFacts
  <2> QED BY <1>0, <1>1, <2>1, <2>2
<1>d. /\ DOMAIN device' = Peripherals /\ \A q \in Peripherals \ {p} : device'[q] = device[q]
      /\ IsDevice(p, device'[p]) /\ device'[p].stranger = device[p].stranger
      /\ ready /\ answered => device'[p].regs = Registers(p, settings[p])
  <2>1. DOMAIN device = Peripherals /\ IsDevice(p, device[p])
    BY <1>k DEF ThreadInv, PeripheralType
  <2>2. CASE ready
    <3> DEFINE regs == IF answered THEN Registers(p, settings[p]) ELSE device[p].regs
    <3>1. device' = [device EXCEPT ![p].regs = regs] /\ (answered => regs = Registers(p, settings[p]))
      BY <1>1, <2>2
    <3> HIDE DEF regs
    <3> QED BY <1>0, <2>1, <3>1 DEF IsDevice
  <2>3. CASE ~ready
    BY <1>1, <2>1, <2>3
  <2> QED BY <2>2, <2>3
<1>2. PeripheralType(p)'
  <2>1. IsDriver(driver[p])' /\ IsDevice(p, device[p])'
    BY <1>v, <1>d DEF IsDriver, IsDevice
  <2> QED BY <1>0, <1>k, <1>c, <1>u, <2>1 DEF PeripheralType
<1>3. CalmInv(p)'
  BY <1>c DEF CalmInv
<1>4. HealInv(p)'
  <2>1. IsAddress(p, driver[p].address)'
    <3>1. driver'[p].address = driver[p].address
      BY <1>v
    <3> QED BY <1>k, <1>d, <3>1 DEF PeripheralInv, HealInv, IsAddress
  <2>2. (InInit(p)' => ~sched'[p].initialized) /\ (InRead(p)' => sched'[p].initialized)
    BY <1>k, <1>u DEF PeripheralInv, HealInv
  <2> QED BY <1>c, <2>1, <2>2 DEF HealInv
<1>5. RegistersInv(p)'
  <2> SUFFICES ASSUME p \notin mixed'
               PROVE  /\ InInit(p)' => Alike(p, work'.cfg, settings'[p])
                      /\ p \notin unnoticed' /\ driver'[p].up => device'[p].regs = Registers(p, settings'[p])
    BY <1>0, <1>k DEF RegistersInv, Alike
  <2>1. InInit(p)' => Alike(p, work'.cfg, settings'[p])
    <3>1. InInit(p) => p \notin mixed
      BY <1>1
    <3> QED BY <1>0, <1>k, <1>u, <3>1 DEF PeripheralInv, RegistersInv, Alike
  <2>2. CASE ready
    BY <1>0, <1>1, <1>d, <2>1, <2>2
  <2>3. CASE ~ready
    BY <1>0, <1>1, <1>k, <2>1, <2>3 DEF PeripheralInv, RegistersInv
  <2> QED BY <2>2, <2>3
<1>6. Frame /\ Turning(p) /\ \A q \in Peripherals \ {p} : LeftAlone(q)
  <2>1. \A q \in Peripherals \ {p} : q # "none"
    BY Known
  <2>2. \A q \in Peripherals \ {p} : (q \in mixed' <=> q \in mixed) /\ (q \in unnoticed' <=> q \in unnoticed)
    BY <1>1
  <2> QED BY <1>0, <1>k, <1>u, <1>c, <1>v, <1>d, <2>1, <2>2 DEF Frame, LeftAlone, ThreadInv
<1> QED BY <1>2, <1>3, <1>4, <1>5, <1>6, OneTouched DEF PeripheralInv

LEMMA DispatcherStepHolds == ASSUME I2cInv, DispatcherStep PROVE I2cInv'
<1>1. DispatchFrame
  BY DEF DispatcherStep, DispatchFrame
<1>2. FinishHandlerInit => handler \in Peripherals
  BY DEF FinishHandlerInit, I2cInv, ThreadInv
<1> QED BY <1>1, <1>2, WriteSettingHolds, FinishHandlerInitHolds, RefreshHostHolds, ShowOnDisplayHolds, ChangePresetHolds
        DEF DispatcherStep

-----------------------------------------------------------------------------
(* The outside and the gate.                                               *)

OutsideFrame == UNCHANGED <<gateVars, order, turn, pc, work, sched, driver, settings, preset, handler, told, forgotten, silent>>

\* A step about one device, which ends its calm.
LEMMA DeviceHolds ==
    ASSUME I2cInv, OutsideFrame, UNCHANGED <<now, ran, mixed>>, NEW p \in Peripherals,
           calm' = [calm EXCEPT ![p] = 0],
           DOMAIN device' = Peripherals, \A q \in Peripherals \ {p} : device'[q] = device[q], IsDevice(p, device'[p]),
           device'[p].stranger = device[p].stranger,
           unnoticed' = unnoticed \/ unnoticed' = unnoticed \cup {p},
           device'[p].regs = device[p].regs \/ ~driver[p].up \/ p \in unnoticed'
    PROVE  I2cInv'
<1>k. /\ ThreadInv /\ PeripheralType(p) /\ PeripheralInv(p)
      /\ p \in Drivers /\ p # "none" /\ now \in Nat
  BY Known
<1>u. UNCHANGED <<frozen, order, now, ran, turn, pc, work, sched, driver, settings, handler, mixed>>
  BY DEF OutsideFrame, gateVars
<1>c. /\ DOMAIN calm' = Peripherals /\ \A q \in Peripherals \ {p} : calm'[q] = calm[q]
      /\ calm'[p] = 0
  BY <1>k DEF ThreadInv
<1>1. (InInit(p)' <=> InInit(p)) /\ (InRead(p)' <=> InRead(p)) /\ Turning(p)
  BY <1>u DEF InInit, InRead, Serving, Turning
<1>2. PeripheralType(p)'
  <2>1. IsSched(p, sched[p])' /\ IsDriver(driver[p])' /\ IsDevice(p, device[p])'
    BY <1>k, <1>u DEF PeripheralType, IsSched, IsDriver, IsDevice
  <2> QED BY <1>k, <1>u, <1>c, <2>1 DEF PeripheralType
<1>3. CalmInv(p)' /\ HealInv(p)'
  BY <1>k, <1>u, <1>c, <1>1 DEF PeripheralInv, CalmInv, HealInv, IsAddress
<1>4. RegistersInv(p)'
  BY <1>k, <1>u, <1>1 DEF PeripheralInv, RegistersInv, Alike
<1>5. Frame /\ \A q \in Peripherals \ {p} : LeftAlone(q)
  BY <1>k, <1>u, <1>c DEF Frame, LeftAlone, ThreadInv
<1> QED BY <1>1, <1>2, <1>3, <1>4, <1>5, OneTouched DEF PeripheralInv

LEMMA UnplugHolds ==
    ASSUME I2cInv, OutsideFrame, NEW p \in Peripherals, Unplug(p)
    PROVE  I2cInv'
<1>1. IsDevice(p, device[p]) /\ DOMAIN device = Peripherals
  BY Known DEF PeripheralType, ThreadInv
<1>2. device' = [device EXCEPT ![p].present = FALSE] /\ calm' = [calm EXCEPT ![p] = 0] /\ UNCHANGED <<now, ran, mixed, unnoticed>>
  BY DEF Unplug
<1>3. /\ DOMAIN device' = Peripherals /\ \A q \in Peripherals \ {p} : device'[q] = device[q]
      /\ IsDevice(p, device'[p]) /\ device'[p].regs = device[p].regs /\ device'[p].stranger = device[p].stranger
  BY <1>1, <1>2 DEF IsDevice
<1> QED BY <1>2, <1>3, DeviceHolds

LEMMA PlugHolds ==
    ASSUME I2cInv, OutsideFrame, NEW p \in Peripherals, NEW address \in 1 .. AddressCount[p], Plug(p, address)
    PROVE  I2cInv'
<1>1. IsDevice(p, device[p]) /\ DOMAIN device = Peripherals
  BY Known DEF PeripheralType, ThreadInv
<1>2. /\ device' = [device EXCEPT ![p].present = TRUE, ![p].at = address, ![p].regs = NoRegisters]
      /\ calm' = [calm EXCEPT ![p] = 0] /\ UNCHANGED <<now, ran, mixed>>
      /\ unnoticed' = IF driver[p].up THEN unnoticed \cup {p} ELSE unnoticed
  BY DEF Plug
<1>3. DOMAIN device' = Peripherals /\ \A q \in Peripherals \ {p} : device'[q] = device[q]
  BY <1>1, <1>2
<1>4. device'[p] = [[[device[p] EXCEPT !.present = TRUE] EXCEPT !.at = address] EXCEPT !.regs = NoRegisters]
  BY <1>1, <1>2
<1>5. IsDevice(p, device'[p]) /\ device'[p].stranger = device[p].stranger
  BY <1>1, <1>4 DEF IsDevice
<1> QED BY <1>2, <1>3, <1>5, DeviceHolds

LEMMA StimulateHolds ==
    ASSUME I2cInv, OutsideFrame, NEW p \in Peripherals, NEW input, Stimulate(p, input)
    PROVE  I2cInv'
<1>1. IsDevice(p, device[p]) /\ DOMAIN device = Peripherals
  BY Known DEF PeripheralType, ThreadInv
<1>2. device' = [device EXCEPT ![p].input = input] /\ calm' = [calm EXCEPT ![p] = 0] /\ UNCHANGED <<now, ran, mixed, unnoticed>>
  BY DEF Stimulate
<1>3. /\ DOMAIN device' = Peripherals /\ \A q \in Peripherals \ {p} : device'[q] = device[q]
      /\ IsDevice(p, device'[p]) /\ device'[p].regs = device[p].regs /\ device'[p].stranger = device[p].stranger
  BY <1>1, <1>2 DEF IsDevice
<1> QED BY <1>2, <1>3, DeviceHolds

LEMMA LessOf ==
    ASSUME NEW a \in Nat, NEW b \in Nat
    PROVE  Min({a, b}) \in Nat /\ Min({a, b}) <= b
<1>1. \E x \in {a, b} : \A y \in {a, b} : x <= y
  BY a <= b \/ b <= a
<1> QED BY <1>1 DEF Min

\* The thread was served in the tick that ends, or waits for I/O to go on: the gate wakes it in time otherwise.
LEMMA TickHolds ==
    ASSUME I2cInv, NoLostWakeup, OutsideFrame, Tick
    PROVE  I2cInv'
<1>0. ThreadInv /\ \A q \in Peripherals : PeripheralInv(q)
  BY DEF I2cInv
<1>u. UNCHANGED <<frozen, order, turn, pc, work, sched, driver, settings, handler, device, mixed, unnoticed>>
  BY DEF OutsideFrame, Tick, gateVars
<1>t. turn = 0 /\ gives = 0 /\ now' = now + 1 /\ ran' = FALSE /\ (ran \/ (worker[I2cThread] = "take" /\ tokens = 0))
  BY DEF Tick
<1>c. calm' = [p \in Peripherals |-> IF device[p].present /\ handler # p /\ ~frozen THEN Min({MaxCalm, calm[p] + 1}) ELSE 0]
  BY DEF Tick
<1>p. Peripherals' = Peripherals
  BY <1>u, PeripheralsStay
<1>2. pc = "idle"
  BY <1>0, <1>t DEF ThreadInv
<1>3. ~frozen => ran
  BY <1>t, I2cAssumption DEF NoLostWakeup, Waiting
<1>4. ASSUME NEW q \in Peripherals PROVE calm'[q] \in Nat /\ calm'[q] <= calm[q] + 1
  <2>1. calm[q] \in Nat /\ MaxCalm \in Nat
    BY <1>0, CalmNumber, I2cAssumption
  <2> DEFINE m == Min({MaxCalm, calm[q] + 1})
  <2>2. m \in Nat /\ m <= calm[q] + 1
    BY <2>1, LessOf
  <2>3. calm'[q] = m \/ calm'[q] = 0
    BY <1>c
  <2> HIDE DEF m
  <2> QED BY <2>1, <2>2, <2>3
<1>5. ASSUME NEW q \in Peripherals PROVE PeripheralType(q)'
  <2>1. PeripheralType(q) /\ now \in Nat /\ ProbeInterval \in Nat /\ Interval[q] \in Nat
    BY Known
  <2>2. IsSched(q, sched[q])'
    BY <1>t, <1>u, <2>1 DEF PeripheralType, IsSched
  <2>3. IsDriver(driver[q])' /\ IsDevice(q, device[q])'
    BY <1>u, <2>1 DEF PeripheralType, IsDriver, IsDevice
  <2> QED BY <1>u, <1>4, <2>1, <2>2, <2>3 DEF PeripheralType
<1>6. ThreadInv'
  <2>1. now \in Nat
    BY <1>0 DEF ThreadInv
  <2>2. now' \in Nat
    BY <1>t, <2>1
  <2>3. ran' \in BOOLEAN
    BY <1>t, Zenon
  <2>4. DOMAIN calm' = Peripherals
    BY <1>c
  <2> QED BY <1>0, <1>2, <1>5, <1>p, <1>u, <2>2, <2>3, <2>4 DEF ThreadInv
<1>7. ASSUME NEW q \in Peripherals PROVE PeripheralInv(q)'
  <2>k. /\ PeripheralType(q) /\ PeripheralInv(q)
        /\ now \in Nat /\ ProbeInterval \in Nat /\ Interval[q] \in Nat \ {0} /\ calm[q] \in Nat
    BY Known
  <2>1. calm'[q] > 0 => device[q].present /\ handler # q /\ ~frozen
    BY <1>c
  <2>2. CalmInv(q)'
    BY <1>u, <2>1 DEF CalmInv
  <2>3. ~InInit(q) /\ ~InRead(q) /\ ~InInit(q)' /\ ~InRead(q)' /\ ~Served(q)'
    BY <1>0, <1>t, <1>2, <1>u DEF InInit, InRead, Served, ThreadInv
  <2>4. RegistersInv(q)'
    BY <1>u, <2>3, <2>k DEF PeripheralInv, RegistersInv
  <2>5. ASSUME calm'[q] > 0 PROVE Healthy(q)' \/ Failing(q)' \/ Missing(q)' \/ Absent(q)'
    <3>1. Excused(q)' = Excused(q)
      BY <1>u, ExcusedStays
    <3>2. Served(q)
      BY <1>3, <2>1, <2>5 DEF Served
    <3>3. Healthy(q) => Healthy(q)'
      BY <1>u DEF Healthy
    <3>t. /\ sched[q].probe \in Nat /\ sched[q].probe <= now + ProbeInterval
          /\ sched[q].update \in Nat /\ sched[q].update <= now + Interval[q]
      BY <2>k DEF PeripheralType, IsSched
    <3>4. CASE calm[q] = 0
      <4>1. calm'[q] = 1
        BY <1>4, <2>5, <3>4
      <4>2. sched[q].initialized => Failing(q)'
        BY <1>t, <1>u, <2>3, <2>k, <3>t, <4>1 DEF Failing
      <4>3. ~sched[q].initialized => Missing(q)'
        BY <1>t, <1>u, <2>3, <2>k, <3>t, <4>1 DEF Missing
      <4> QED BY <4>2, <4>3
    <3>5. CASE calm[q] > 0
      <4>1. Healthy(q) \/ Failing(q) \/ Missing(q) \/ Absent(q)
        BY <2>3, <2>k, <3>5 DEF PeripheralInv, HealInv, Entering
      <4>2. Failing(q) => Failing(q)'
        BY <1>t, <1>4, <1>u, <2>3, <2>k, <3>2, <3>t DEF Failing
      <4>3. Missing(q) => Missing(q)'
        BY <1>t, <1>4, <1>u, <2>3, <2>k, <3>2, <3>t DEF Missing
      <4>4. Absent(q) => Absent(q)'
        BY <1>u, <2>3, <3>1 DEF Absent
      <4> QED BY <3>3, <4>1, <4>2, <4>3, <4>4
    <3> QED BY <2>k, <3>4, <3>5
  <2>6. HealInv(q)'
    BY <1>u, <2>3, <2>5, <2>k DEF PeripheralInv, HealInv, IsAddress
  <2> QED BY <2>2, <2>4, <2>6 DEF PeripheralInv
<1> QED BY <1>6, <1>7, <1>p DEF I2cInv

LEMMA OutsideStepHolds == ASSUME I2cInv, NoLostWakeup, OutsideStep PROVE I2cInv'
<1>1. OutsideFrame
  BY DEF OutsideStep, OutsideFrame
<1> QED BY <1>1, UnplugHolds, PlugHolds, StimulateHolds, TickHolds DEF OutsideStep

\* A freeze ends the calm of all devices, and while I/O is frozen there is none.
LEMMA GateUntouched ==
    ASSUME I2cInv, GateStep, NEW q \in Peripherals
    PROVE  Untouched(q) /\ DOMAIN calm' = Peripherals /\ calm'[q] \in Nat
<1>0. ThreadInv /\ PeripheralInv(q)
  BY DEF I2cInv
<1>u. UNCHANGED <<order, now, ran, turn, pc, work, sched, driver, settings, handler, device, mixed, unnoticed>>
  BY DEF GateStep, threadVars
<1>1. \/ calm' = [p \in Peripherals |-> 0]
      \/ calm' = calm /\ (frozen \/ frozen' = frozen)
  <2>1. CASE FreezeIo
    BY <2>1 DEF FreezeIo
  <2>2. CASE ((frozen /\ Resume) \/ Give) /\ UNCHANGED <<left, calm>>
    BY <2>2 DEF Give
  <2>3. CASE \E w \in Workers : OtherThread(w)
    BY <2>3 DEF OtherThread, Iterate, Check, Take
  <2>4. CASE WaitUntilRunning
    BY <2>4 DEF WaitUntilRunning, Check, Take
  <2> QED BY <2>1, <2>2, <2>3, <2>4 DEF GateStep
<1>2. Stays(q) /\ calm'[q] \in Nat
  <2>1. calm[q] \in Nat /\ CalmInv(q)
    BY <1>0, CalmNumber DEF PeripheralInv
  <2> QED BY <1>1, <2>1 DEF CalmInv, Stays
<1>3. DOMAIN calm' = Peripherals
  BY <1>0, <1>1 DEF ThreadInv
<1> QED BY <1>2, <1>3, <1>u DEF Untouched, Served, InInit, InRead, Serving

LEMMA GateStepHolds == ASSUME I2cInv, GateStep PROVE I2cInv'
<1>0. ThreadInv
  BY DEF I2cInv
<1>u. UNCHANGED <<order, now, ran, turn, pc, sched, driver, settings, handler, device>>
  BY DEF GateStep, threadVars
<1>p. Peripherals' = Peripherals
  BY <1>u, PeripheralsStay
<1>1. ThreadInv'
  <2>1. \A q \in Peripherals : PeripheralType(q)'
    BY <1>0, <1>u, GateUntouched DEF ThreadInv, PeripheralType, IsSched
  <2>2. DOMAIN calm' = Peripherals
    <3>1. CASE Peripherals = {}
      BY <1>0, <3>1 DEF GateStep, FreezeIo, OtherThread, WaitUntilRunning, ThreadInv
    <3>2. CASE Peripherals # {}
      BY <3>2, GateUntouched
    <3> QED BY <3>1, <3>2
  <2> QED BY <1>0, <1>p, <1>u, <2>1, <2>2 DEF ThreadInv
<1> QED BY <1>1, <1>u, GateUntouched, NoneTouched

-----------------------------------------------------------------------------
(* The theorems.                                                           *)

LEMMA InitHolds == I2cInit => I2cInv
<1> SUFFICES ASSUME I2cInit PROVE I2cInv
  OBVIOUS
<1>1. /\ Installed
      /\ now = 0 /\ ran = FALSE /\ turn = 1 /\ pc = "idle" /\ handler = "none"
      /\ sched = [p \in Peripherals |-> [initialized |-> FALSE, probe |-> 0, update |-> 0]]
      /\ driver = [p \in Peripherals |-> FreshDriver(p)]
      /\ calm = [p \in Peripherals |-> 0]
  BY DEF I2cInit
<1>2. order \in Seq(Drivers) /\ Len(order) \in Nat
  BY <1>1 DEF Installed
<1>3. Peripherals \subseteq Drivers
  BY <1>2 DEF Peripherals
<1>4. DOMAIN settings = Peripherals /\ DOMAIN device = Peripherals
  BY <1>1 DEF Installed
<1>5. ASSUME NEW p \in Peripherals PROVE PeripheralType(p) /\ PeripheralInv(p)
  <2>1. p \in Drivers /\ ProbeInterval \in Nat /\ Interval[p] \in Nat
    BY <1>3, I2cAssumption
  <2>2. IsSched(p, sched[p])
    <3>1. sched[p] = [initialized |-> FALSE, probe |-> 0, update |-> 0]
      BY <1>1
    <3>2. sched[p].initialized = FALSE /\ sched[p].probe = 0 /\ sched[p].update = 0
      BY <3>1
    <3>3. sched[p].initialized \in BOOLEAN
      BY <3>2, Zenon
    <3>4. sched[p] = [initialized |-> sched[p].initialized, probe |-> sched[p].probe, update |-> sched[p].update]
      BY <3>1, <3>2, Zenon
    <3>5. 0 \in Nat /\ 0 <= now + ProbeInterval /\ 0 <= now + Interval[p]
      BY <1>1, <2>1
    <3> QED BY <3>2, <3>3, <3>4, <3>5, Zenon DEF IsSched
  <2>3. driver[p] = FreshDriver(p) /\ IsDriver(driver[p]) /\ ~driver[p].up /\ driver[p].address = 1
    BY <1>1, <2>1, FreshFacts
  <2>4. IsDevice(p, device[p]) /\ DOMAIN settings[p] = Fields(p)
    <3>1. device[p] = [present |-> device[p].present, at |-> device[p].at, regs |-> NoRegisters, input |-> device[p].input,
                       stranger |-> device[p].stranger]
      BY <1>1 DEF Installed
    <3>2. device[p].regs = NoRegisters
      BY <3>1
    <3> QED BY <1>1, <3>1, <3>2 DEF Installed, IsDevice
  <2>5. PeripheralType(p)
    BY <1>1, <2>2, <2>3, <2>4 DEF PeripheralType
  <2>6. PeripheralInv(p)
    <3>1. IsAddress(p, 1)
      BY <2>1, I2cAssumption DEF IsAddress
    <3> QED BY <1>1, <2>3, <3>1 DEF PeripheralInv, CalmInv, HealInv, RegistersInv, InInit, InRead
  <2> QED BY <2>5, <2>6
<1>6. DOMAIN sched = Peripherals /\ DOMAIN driver = Peripherals /\ DOMAIN calm = Peripherals
  BY <1>1
<1>7. now \in Nat /\ turn \in 0 .. Len(order) + 1 /\ pc = "idle" /\ handler = "none"
  BY <1>1, <1>2
<1>8. ran \in BOOLEAN
  BY <1>1, Zenon
<1> QED BY <1>2, <1>4, <1>5, <1>6, <1>7, <1>8 DEF I2cInv, ThreadInv

LEMMA StutterHolds == ASSUME I2cInv, UNCHANGED i2cVars PROVE I2cInv'
<1>0. ThreadInv
  BY DEF I2cInv
<1>1. UNCHANGED <<frozen, order, now, ran, turn, pc, work, sched, driver, settings, handler, device, calm, mixed, unnoticed>>
  BY DEF i2cVars, gateVars, threadVars, ghosts
<1>2. Peripherals' = Peripherals
  BY <1>1, PeripheralsStay
<1>3. ThreadInv'
  <2>1. \A q \in Peripherals : PeripheralType(q)'
    BY <1>0, <1>1 DEF ThreadInv, PeripheralType, IsSched
  <2> QED BY <1>0, <1>1, <1>2, <2>1 DEF ThreadInv
<1>4. \A q \in Peripherals : Untouched(q)
  BY <1>1 DEF Untouched, Stays, Served, InInit, InRead, Serving
<1> QED BY <1>1, <1>3, <1>4, NoneTouched

\* The I2C thread and what freezes and resumes it go through the gate as IoGate describes it: their steps are its steps.
THEOREM I2cUsesGate == I2cSpec => Spec
<1>1. I2cInit => Init
  BY DEF I2cInit
<1>2. [I2cNext]_i2cVars => [Next]_vars
  <2> SUFFICES ASSUME [I2cNext]_i2cVars PROVE [Next]_vars
    OBVIOUS
  <2>1. CASE GateStep
    <3>1. I2cThread \in Workers
      BY I2cAssumption
    <3> QED BY <2>1, <3>1 DEF GateStep, FreezeIo, OtherThread, WaitUntilRunning, Next
  <2>2. CASE ThreadStep
    <3>1. I2cThread \in Workers
      BY I2cAssumption
    <3> QED BY <2>2, <3>1 DEF ThreadStep, EndIteration, gateVars, vars, Next
  <2>3. CASE DispatcherStep \/ OutsideStep \/ UNCHANGED i2cVars
    BY <2>3 DEF DispatcherStep, OutsideStep, i2cVars, gateVars, vars
  <2> QED BY <2>1, <2>2, <2>3 DEF I2cNext
<1> QED BY <1>1, <1>2, PTL DEF I2cSpec, Spec

\* Whatever order the thread, the dispatcher, the other threads and the devices come in, every device that is calm
\* is there with I/O running, and its driver works or is on its way.
THEOREM I2cInvariant == I2cSpec => []I2cInv
<1>1. I2cInv /\ NoLostWakeup /\ [I2cNext]_i2cVars => I2cInv'
  BY GateStepHolds, ThreadStepHolds, DispatcherStepHolds, OutsideStepHolds, StutterHolds DEF I2cNext
<1>2. I2cSpec => []NoLostWakeup
  BY I2cUsesGate, GateNoLostWakeup, PTL
<1> QED BY <1>1, <1>2, InitHolds, PTL DEF I2cSpec

\* What is calm for long enough is healthy, or cannot be.
LEMMA SettledDriver ==
    ASSUME I2cInv, NEW p \in Peripherals, Settled(p)
    PROVE  Healthy(p) \/ Absent(p)
<1>1. /\ PeripheralInv(p)
      /\ ProbeInterval \in Nat /\ Interval[p] \in Nat /\ calm[p] \in Nat
  BY Known
<1>2. calm[p] > 0 /\ calm[p] > ProbeInterval + Interval[p] + 1
  BY <1>1 DEF Settled
<1> QED BY <1>1, <1>2 DEF PeripheralInv, HealInv, Failing, Missing, Entering

\* A device that was away, that failed a transaction or that was set up while it was away works again, for any
\* peripherals, intervals and addresses, however often it happened.
THEOREM I2cSensorsHeal == I2cSpec => []SensorsHeal
<1>1. I2cInv => SensorsHeal
  <2> SUFFICES ASSUME I2cInv, NEW p \in Peripherals, Settled(p), ~Excused(p)
               PROVE  sched[p].initialized /\ driver[p].up
    BY DEF SensorsHeal, Excused
  <2>1. Healthy(p)
    BY SettledDriver DEF Absent
  <2> QED BY <2>1 DEF Healthy
<1> QED BY <1>1, I2cInvariant, PTL

\* The registers of a device follow from the settings of now, whatever failed on the way.
THEOREM I2cSettingsReachDevice == I2cSpec => []SettingsReachDevice
<1>1. I2cInv => SettingsReachDevice
  <2> SUFFICES ASSUME I2cInv, NEW p \in Peripherals, p \notin mixed, p \notin unnoticed, Settled(p), driver[p].up
               PROVE  device[p].regs = Registers(p, settings[p])
    BY DEF SettingsReachDevice
  <2>1. /\ PeripheralInv(p)
        /\ ProbeInterval \in Nat /\ Interval[p] \in Nat /\ calm[p] \in Nat
    BY Known
  <2>2. handler # p
    BY <2>1 DEF Settled, PeripheralInv, CalmInv
  <2> QED BY <2>1, <2>2 DEF PeripheralInv, RegistersInv
<1> QED BY <1>1, I2cInvariant, PTL

-----------------------------------------------------------------------------
(* Whose step it is.  A peripheral is left alone by all steps but its own. *)

ZoneSensor == "vl53l5cx"

\* The host was told something by each.
ToldInv == DOMAIN told = Peripherals

OnlyTouches(p) ==
    \A q \in Peripherals \ {p} :
        /\ LeftAlone(q) /\ told'[q] = told[q]
        /\ q = "cap1188" => forgotten' = forgotten
        /\ q = "display" => screen' = screen /\ owed' = owed
        /\ q = ZoneSensor => silent' = silent

LEMMA OthersDropped ==
    ASSUME I2cInv, NEW p \in Peripherals, NEW v, Dropped(p, v), NEW q \in Peripherals \ {p}
    PROVE  sched'[q] = sched[q] /\ driver'[q] = driver[q] /\ device'[q] = device[q]
  BY DEF Dropped, Stopped, I2cInv, ThreadInv

LEMMA OthersReady ==
    ASSUME I2cInv, NEW p \in Peripherals, NEW cfg, NEW answered, NEW overlapped, Initialized(p, cfg, answered, overlapped),
           NEW q \in Peripherals \ {p}
    PROVE  /\ driver'[q] = driver[q] /\ device'[q] = device[q]
           /\ q \in mixed' <=> q \in mixed
           /\ q \in unnoticed' <=> q \in unnoticed
           /\ q = "cap1188" => forgotten' = forgotten
           /\ q = "display" => screen' = screen /\ owed' = owed
           /\ q = ZoneSensor => silent' = silent
<1>0. DOMAIN driver = Peripherals /\ DOMAIN device = Peripherals
  BY DEF I2cInv, ThreadInv
<1>1. driver'[q] = driver[q] /\ device'[q] = device[q]
  BY <1>0 DEF Initialized
<1>2. (q \in mixed' <=> q \in mixed) /\ (q \in unnoticed' <=> q \in unnoticed)
  BY DEF Initialized
<1>3. q = "cap1188" => forgotten' = forgotten
  BY DEF Initialized
<1>4. q = "display" => screen' = screen /\ owed' = owed
  BY DEF Initialized
<1>5. q = ZoneSensor => silent' = silent
  BY DEF Initialized, ZoneSensor
<1> QED BY <1>1, <1>2, <1>3, <1>4, <1>5

LEMMA OthersTold ==
    ASSUME ToldInv, NEW p \in Peripherals, NEW out, Tell(p, out), NEW q \in Peripherals \ {p}
    PROVE  told'[q] = told[q] /\ (q = "cap1188" => forgotten' = forgotten)
  BY DEF ToldInv, Tell

\* The thread serves one peripheral.
LEMMA ServedAlone ==
    ASSUME I2cInv, ToldInv, ServeFrame, NEW p \in Peripherals, Serving(p), ServedStep(p)
    PROVE  Turning(p) /\ OnlyTouches(p)
<1>0. /\ DOMAIN driver = Peripherals /\ DOMAIN device = Peripherals /\ DOMAIN sched = Peripherals
      /\ DOMAIN calm = Peripherals
  BY DEF I2cInv, ThreadInv
<1>t. NextTurn \/ (turn' = turn /\ pc' \in {"init", "read"}) => Turning(p)
  BY DEF Turning
<1>f. settings' = settings /\ handler' = handler
  BY DEF ServeFrame
<1>u. ASSUME NEW q \in Peripherals \ {p} PROVE q = ZoneSensor /\ silent' = Unheard(p) => silent' = silent
  BY DEF Unheard, ZoneSensor
<1>o. ASSUME NEW answered \in BOOLEAN, Outcome(p, answered), NEW q \in Peripherals \ {p} PROVE calm'[q] = calm[q]
  BY <1>o, OutcomeCalm
<1>r. sched' = Rescheduled(p) => \A q \in Peripherals \ {p} : sched'[q] = sched[q]
  BY <1>0 DEF Rescheduled
<1> USE DEF OnlyTouches, LeftAlone
<1>1. CASE pc = "init" /\ FinishInit(p)
  <2>1. PICK answered \in BOOLEAN :
          /\ Outcome(p, answered)
          /\ IF (IF p = "display" THEN Supported(work.cfg) ELSE answered)
             THEN /\ Initialized(p, work.cfg, answered, handler = p \/ work.cfg # settings[p])
                  /\ sched' = [sched EXCEPT ![p].initialized = TRUE, ![p].update = now]
             ELSE /\ driver' = [driver EXCEPT ![p] = Deinit(p, @)]
                  /\ device' = Stopped(p, driver[p])
                  /\ sched' = [sched EXCEPT ![p].update = now]
                  /\ silent' = Unheard(p)
                  /\ UNCHANGED <<screen, owed, mixed, unnoticed, forgotten>>
          /\ NextTurn
          /\ UNCHANGED told
    BY <1>1 DEF FinishInit
  <2> DEFINE ready == IF p = "display" THEN Supported(work.cfg) ELSE answered
  <2>2. CASE ready
    <3>1. /\ Initialized(p, work.cfg, answered, handler = p \/ work.cfg # settings[p])
          /\ sched' = [sched EXCEPT ![p].initialized = TRUE, ![p].update = now]
      BY <2>1, <2>2
    <3>2. \A q \in Peripherals \ {p} : sched'[q] = sched[q]
      BY <1>0, <3>1
    <3> QED BY <1>f, <1>o, <1>t, <2>1, <3>1, <3>2, OthersReady
  <2>3. CASE ~ready
    <3>1. /\ driver' = [driver EXCEPT ![p] = Deinit(p, @)]
          /\ device' = Stopped(p, driver[p])
          /\ sched' = [sched EXCEPT ![p].update = now]
          /\ silent' = Unheard(p)
          /\ UNCHANGED <<screen, owed, mixed, unnoticed, forgotten>>
      BY <2>1, <2>3
    <3>2. \A q \in Peripherals \ {p} : sched'[q] = sched[q] /\ driver'[q] = driver[q] /\ device'[q] = device[q]
      BY <1>0, <3>1 DEF Stopped
    <3> QED BY <1>f, <1>o, <1>t, <1>u, <2>1, <3>1, <3>2
  <2> QED BY <2>2, <2>3
<1>2. CASE pc = "read" /\ FinishUpdate(p)
  <2>1. PICK answered \in BOOLEAN :
          LET done == Process(p, driver[p], settings[p], answered)
          IN /\ IF ReadsLast(p) THEN Outcome(p, answered) ELSE answered /\ UNCHANGED <<left, calm>>
             /\ Tell(p, done.out)
             /\ IF done.ok
                THEN /\ driver' = [driver EXCEPT ![p] = done.v]
                     /\ silent' = IF p = "vl53l5cx" THEN Heard(p) ELSE silent
                     /\ UNCHANGED <<sched, device>>
                ELSE Dropped(p, done.v) /\ silent' = Unheard(p)
             /\ NextTurn
             /\ UNCHANGED <<screen, mixed, unnoticed, owed>>
    BY <1>2 DEF FinishUpdate
  <2> DEFINE done == Process(p, driver[p], settings[p], answered)
  <2>2. /\ IF ReadsLast(p) THEN Outcome(p, answered) ELSE UNCHANGED calm
        /\ Tell(p, done.out)
        /\ \/ /\ driver' = [driver EXCEPT ![p] = done.v]
              /\ silent' = IF p = "vl53l5cx" THEN Heard(p) ELSE silent
              /\ UNCHANGED <<sched, device>>
           \/ Dropped(p, done.v) /\ silent' = Unheard(p)
    BY <2>1
  <2> HIDE DEF done
  <2>3. ASSUME NEW q \in Peripherals \ {p}
        PROVE  sched'[q] = sched[q] /\ driver'[q] = driver[q] /\ device'[q] = device[q] /\ (q = ZoneSensor => silent' = silent)
    <3>1. CASE /\ driver' = [driver EXCEPT ![p] = done.v] /\ UNCHANGED <<sched, device>>
               /\ silent' = IF p = "vl53l5cx" THEN Heard(p) ELSE silent
      BY <1>0, <3>1 DEF ZoneSensor
    <3>2. CASE Dropped(p, done.v) /\ silent' = Unheard(p)
      BY <1>u, <3>2, OthersDropped
    <3> QED BY <2>2, <3>1, <3>2
  <2>4. ASSUME NEW q \in Peripherals \ {p} PROVE calm'[q] = calm[q]
    BY <1>o, <2>2
  <2>5. ASSUME NEW q \in Peripherals \ {p} PROVE told'[q] = told[q] /\ (q = "cap1188" => forgotten' = forgotten)
    BY <2>2, OthersTold
  <2> QED BY <1>f, <1>t, <2>1, <2>3, <2>4, <2>5
<1>3. CASE Probe(p)
  <2>1. /\ sched' = [sched EXCEPT ![p].probe = now + ProbeInterval]
        /\ \/ NextTurn /\ UNCHANGED <<driver, device>>
           \/ pc' = "init" /\ turn' = turn /\ Begun(p, Found(p), settings[p])
        /\ UNCHANGED <<told, screen, calm, mixed, unnoticed, forgotten, owed, silent>>
    BY <1>3 DEF Probe, ghosts
  <2>2. ASSUME NEW q \in Peripherals \ {p} PROVE sched'[q] = sched[q] /\ driver'[q] = driver[q] /\ device'[q] = device[q]
    BY <1>0, <2>1 DEF Begun
  <2> QED BY <1>f, <1>t, <2>1, <2>2
<1>4. CASE Pass(p)
  <2>1. /\ sched' = [sched EXCEPT ![p].probe = IF now >= @ THEN now + ProbeInterval ELSE @] /\ NextTurn
        /\ UNCHANGED <<driver, device, told, screen, calm, mixed, unnoticed, forgotten, owed, silent>>
    BY <1>4 DEF Pass, ghosts
  <2>2. ASSUME NEW q \in Peripherals \ {p} PROVE sched'[q] = sched[q]
    BY <1>0, <2>1
  <2> QED BY <1>f, <1>t, <2>1, <2>2
<1>5. CASE UpdateDown(p)
  <2>1. /\ Dropped(p, driver[p]) /\ silent' = Unheard(p) /\ NextTurn
        /\ UNCHANGED <<calm, told, screen, mixed, unnoticed, forgotten, owed>>
    BY <1>5 DEF UpdateDown
  <2> QED BY <1>f, <1>t, <1>u, <2>1, OthersDropped
<1>6. CASE UpdateUnread(p)
  <2> DEFINE result == Unread(p, driver[p], settings[p])
  <2>1. /\ FirstRead(p, FALSE) /\ NextTurn
        /\ \/ driver' = [driver EXCEPT ![p] = result.v] /\ sched' = Rescheduled(p) /\ UNCHANGED <<device, silent>>
           \/ Dropped(p, result.v) /\ silent' = Unheard(p)
        /\ UNCHANGED <<told, screen, mixed, unnoticed, forgotten, owed>>
    BY <1>6 DEF UpdateUnread
  <2> HIDE DEF result
  <2>2. ASSUME NEW q \in Peripherals \ {p} PROVE calm'[q] = calm[q]
    BY <1>o, <2>1 DEF FirstRead
  <2>3. ASSUME NEW q \in Peripherals \ {p}
        PROVE  sched'[q] = sched[q] /\ driver'[q] = driver[q] /\ device'[q] = device[q] /\ (q = ZoneSensor => silent' = silent)
    <3>1. CASE driver' = [driver EXCEPT ![p] = result.v] /\ sched' = Rescheduled(p) /\ UNCHANGED <<device, silent>>
      BY <1>0, <1>r, <3>1
    <3>2. CASE Dropped(p, result.v) /\ silent' = Unheard(p)
      BY <1>u, <3>2, OthersDropped
    <3> QED BY <2>1, <3>1, <3>2
  <2> QED BY <1>f, <1>t, <2>1, <2>2, <2>3
<1>7. CASE UpdateRead(p)
  <2>1. /\ FirstRead(p, TRUE) /\ sched' = Rescheduled(p)
        /\ NextTurn \/ (pc' = "read" /\ turn' = turn)
        /\ device' = device \/ device' = [device EXCEPT ![p].input.fifo = <<>>]
        /\ UNCHANGED <<driver, told, screen, mixed, unnoticed, forgotten, owed, silent>>
    BY <1>7 DEF UpdateRead
  <2>2. ASSUME NEW q \in Peripherals \ {p} PROVE calm'[q] = calm[q] /\ device'[q] = device[q]
    BY <1>0, <1>o, <2>1 DEF FirstRead
  <2> QED BY <1>f, <1>r, <1>t, <2>1, <2>2
<1>8. CASE UpdateDisplay(p)
  <2>1. /\ p = "display" /\ sched' = Rescheduled(p)
        /\ NextTurn \/ (pc' = "read" /\ turn' = turn)
        /\ driver' = driver \/ driver' = [driver EXCEPT ![p] = Expire(driver[p], now)]
        /\ calm' = calm \/ \E answered \in BOOLEAN : Outcome(p, answered)
        /\ UNCHANGED <<device, told, mixed, unnoticed, forgotten, silent>>
    BY <1>8 DEF UpdateDisplay
  <2>2. ASSUME NEW q \in Peripherals \ {p} PROVE calm'[q] = calm[q] /\ driver'[q] = driver[q]
    BY <1>0, <1>o, <2>1
  <2> QED BY <1>f, <1>r, <1>t, <2>1, <2>2
<1> QED BY <1>1, <1>2, <1>3, <1>4, <1>5, <1>6, <1>7, <1>8 DEF ServedStep

\* The dispatcher is about one peripheral at a time,
LEMMA WrittenAlone ==
    ASSUME I2cInv, NEW write \in Writes, WriteSetting(write), DispatchFrame
    PROVE  write.peripheral \in Peripherals /\ OnlyTouches(write.peripheral)
<1> DEFINE p == write.peripheral
           k == write.setting
           s == [settings[p] EXCEPT ![k] = write.value]
<1>0. /\ DOMAIN settings = Peripherals /\ DOMAIN driver = Peripherals /\ DOMAIN device = Peripherals /\ DOMAIN calm = Peripherals
  BY DEF I2cInv, ThreadInv
<1>1. /\ p \in Peripherals /\ handler = "none"
      /\ calm' = [calm EXCEPT ![p] = 0] /\ settings' = [settings EXCEPT ![p] = s]
      /\ IF Handling(p, k) = "init"
         THEN /\ handler' = p
              /\ Begun(p, driver[p].address, settings'[p])
              /\ mixed' = IF Serving(p) /\ pc = "init" THEN mixed \cup {p} ELSE mixed
              /\ UNCHANGED <<silent, owed>>
         ELSE /\ CASE p = "display" -> Displayed(DisplayWritten(driver[p], k, write.value, now))
                   [] Handling(p, k) = "reset" ->
                        /\ driver' = [driver EXCEPT ![p] = IF p = "bno085" THEN BnoForget(@) ELSE L5Reset(@)]
                        /\ UNCHANGED owed
                   [] OTHER -> UNCHANGED <<driver, owed>>
              /\ silent' = Unheard(p)
              /\ UNCHANGED <<handler, device, mixed>>
      /\ UNCHANGED <<screen, told, unnoticed, forgotten>>
  BY <1>0 DEF WriteSetting
<1> HIDE DEF s, k
<1>2. ASSUME NEW q \in Peripherals \ {p}
      PROVE  /\ driver'[q] = driver[q] /\ device'[q] = device[q]
             /\ handler' = q <=> handler = q
             /\ q \in mixed' <=> q \in mixed
             /\ q = "display" => owed' = owed
             /\ q = ZoneSensor => silent' = silent
  <2>1. q # "none"
    BY Known
  <2>2. CASE Handling(p, k) = "init"
    <3>1. /\ handler' = p /\ Begun(p, driver[p].address, settings'[p])
          /\ mixed' = IF Serving(p) /\ pc = "init" THEN mixed \cup {p} ELSE mixed
          /\ UNCHANGED <<silent, owed>>
      BY <1>1, <2>2
    <3>2. driver'[q] = driver[q] /\ device'[q] = device[q]
      BY <1>0, <3>1 DEF Begun
    <3> QED BY <1>1, <2>1, <3>1, <3>2
  <2>3. CASE Handling(p, k) # "init"
    <3>1. \/ p = "display" /\ Displayed(DisplayWritten(driver[p], k, write.value, now))
          \/ driver' = [driver EXCEPT ![p] = IF p = "bno085" THEN BnoForget(@) ELSE L5Reset(@)] /\ UNCHANGED owed
          \/ UNCHANGED <<driver, owed>>
      BY <1>1, <2>3
    <3>2. driver'[q] = driver[q] /\ (q = "display" => owed' = owed)
      BY <1>0, <3>1 DEF Displayed
    <3>3. silent' = Unheard(p) /\ UNCHANGED <<handler, device, mixed>>
      BY <1>1, <2>3
    <3> QED BY <3>2, <3>3 DEF Unheard, ZoneSensor
  <2> QED BY <2>2, <2>3
<1> QED BY <1>0, <1>1, <1>2 DEF OnlyTouches, LeftAlone, DispatchFrame

LEMMA HandledAlone ==
    ASSUME I2cInv, FinishHandlerInit, DispatchFrame, NEW p \in Peripherals, handler = p
    PROVE  OnlyTouches(p)
<1>1. PICK answered \in BOOLEAN :
        /\ Outcome(p, answered)
        /\ \/ Initialized(p, settings[p], answered, Serving(p) /\ pc = "init")
           \/ UNCHANGED <<driver, device, screen, owed, mixed, unnoticed, forgotten, silent>>
  BY DEF FinishHandlerInit
<1>2. handler' = "none" /\ UNCHANGED <<settings, told>>
  BY DEF FinishHandlerInit
<1>3. ASSUME NEW q \in Peripherals \ {p}
      PROVE  /\ driver'[q] = driver[q] /\ device'[q] = device[q]
             /\ q \in mixed' <=> q \in mixed
             /\ q \in unnoticed' <=> q \in unnoticed
             /\ q = "cap1188" => forgotten' = forgotten
             /\ q = "display" => screen' = screen /\ owed' = owed
             /\ q = ZoneSensor => silent' = silent
  BY <1>1, OthersReady
<1>4. ASSUME NEW q \in Peripherals \ {p} PROVE calm'[q] = calm[q] /\ q # "none"
  BY <1>1, OutcomeCalm, Known
<1> QED BY <1>2, <1>3, <1>4 DEF OnlyTouches, LeftAlone, DispatchFrame

LEMMA RefreshedAlone ==
    ASSUME I2cInv, ToldInv, NEW p \in Peripherals, RefreshHost(p), DispatchFrame
    PROVE  OnlyTouches(p)
<1>1. Tell(p, Refreshed(p)) /\ UNCHANGED <<driver, settings, handler, device, screen, calm, mixed, unnoticed, owed, silent>>
  BY DEF RefreshHost
<1> QED BY <1>1, OthersTold DEF OnlyTouches, LeftAlone, DispatchFrame

LEMMA DisplayedAlone ==
    ASSUME I2cInv, DispatchFrame, (\E message \in Messages : ShowOnDisplay(message)) \/ (\E value \in 0 .. Len(Presets) - 2 : ChangePreset(value))
    PROVE  "display" \in Peripherals /\ OnlyTouches("display")
<1>0. DOMAIN driver = Peripherals /\ DOMAIN calm = Peripherals
  BY DEF I2cInv, ThreadInv
<1>1. PICK v : /\ "display" \in Peripherals /\ Displayed(v) /\ calm' = [calm EXCEPT !["display"] = 0]
               /\ UNCHANGED <<settings, handler, device, screen, told, mixed, unnoticed, forgotten, silent>>
  BY DEF ShowOnDisplay, ChangePreset
<1> QED BY <1>0, <1>1 DEF OnlyTouches, LeftAlone, DispatchFrame, Displayed

\* and so is what happens to a device.
LEMMA PluggedAlone ==
    ASSUME I2cInv, OutsideFrame, NEW p \in Peripherals, NEW address \in 1 .. AddressCount[p], Plug(p, address)
    PROVE  UNCHANGED <<now, ran>> /\ OnlyTouches(p)
<1>0. DOMAIN device = Peripherals /\ DOMAIN calm = Peripherals
  BY DEF I2cInv, ThreadInv
<1>1. device' = [device EXCEPT ![p].present = TRUE, ![p].at = address, ![p].regs = NoRegisters]
  BY DEF Plug
<1>2. /\ UNCHANGED <<now, ran, mixed>> /\ calm' = [calm EXCEPT ![p] = 0]
      /\ p # "display" => UNCHANGED <<screen, owed>>
      /\ unnoticed' = IF driver[p].up THEN unnoticed \cup {p} ELSE unnoticed
  BY DEF Plug
<1>3. \A q \in Peripherals \ {p} : device'[q] = device[q] /\ calm'[q] = calm[q] /\ (q \in unnoticed' <=> q \in unnoticed)
  BY <1>0, <1>1, <1>2
<1> QED BY <1>2, <1>3 DEF OnlyTouches, LeftAlone, OutsideFrame

LEMMA OutsideAlone ==
    ASSUME I2cInv, OutsideFrame, NEW p \in Peripherals,
           \/ Unplug(p)
           \/ \E address \in 1 .. AddressCount[p] : Plug(p, address)
           \/ \E input \in Inputs[p] : Stimulate(p, input)
    PROVE  UNCHANGED <<now, ran>> /\ OnlyTouches(p)
<1>0. DOMAIN device = Peripherals /\ DOMAIN calm = Peripherals
  BY DEF I2cInv, ThreadInv
<1>1. CASE Unplug(p)
  BY <1>0, <1>1 DEF Unplug, OnlyTouches, LeftAlone, OutsideFrame
<1>2. ASSUME NEW input \in Inputs[p], Stimulate(p, input) PROVE UNCHANGED <<now, ran>> /\ OnlyTouches(p)
  BY <1>0, <1>2 DEF Stimulate, OnlyTouches, LeftAlone, OutsideFrame
<1> QED BY <1>1, <1>2, PluggedAlone

-----------------------------------------------------------------------------
\* A peripheral that the step is not about
Alone(q) ==
    /\ Untouched(q)
    /\ driver'[q] = driver[q] /\ device'[q] = device[q] /\ told'[q] = told[q]
    /\ InRead(q) => work' = work
    /\ q = "cap1188" => forgotten' = forgotten
    /\ q = "display" => screen' = screen /\ owed' = owed
    /\ q = ZoneSensor => silent' = silent

\* and the steps that it is about.
OwnStep(p) ==
    \/ ServeFrame /\ Serving(p) /\ ServedStep(p)
    \/ /\ DispatchFrame
       /\ \/ \E write \in Writes : write.peripheral = p /\ WriteSetting(write)
          \/ handler = p /\ FinishHandlerInit
          \/ RefreshHost(p)
          \/ /\ p = "display"
             /\ (\E message \in Messages : ShowOnDisplay(message)) \/ (\E value \in 0 .. Len(Presets) - 2 : ChangePreset(value))
    \/ /\ OutsideFrame
       /\ \/ Unplug(p)
          \/ \E address \in 1 .. AddressCount[p] : Plug(p, address)
          \/ \E input \in Inputs[p] : Stimulate(p, input)
          \/ Tick

LEMMA OthersAlone ==
    ASSUME I2cInv, UNCHANGED <<order, now, ran, frozen>>, NEW p \in Peripherals, Turning(p), OnlyTouches(p),
           NEW q \in Peripherals \ {p}
    PROVE  Alone(q)
<1>1. LeftAlone(q) /\ ThreadInv
  BY DEF OnlyTouches, I2cInv
<1>2. Untouched(q)
  BY <1>1, ServesOne DEF Untouched, LeftAlone, Stays
<1>3. InRead(q) => work' = work
  BY DEF InRead, Serving, Turning
<1> QED BY <1>1, <1>2, <1>3 DEF OnlyTouches, LeftAlone, Alone

LEMMA Whose ==
    ASSUME I2cInv, ToldInv, [I2cNext]_i2cVars, NEW q \in Peripherals
    PROVE  Alone(q) \/ OwnStep(q)
<1>1. CASE GateStep
  <2>1. Untouched(q)
    BY <1>1, GateUntouched
  <2> QED BY <1>1, <2>1 DEF GateStep, threadVars, Alone
<1>2. CASE ThreadStep
  <2>1. CASE EndIteration
    <3>1. Untouched(q) /\ ~InRead(q)
      BY <1>2, <2>1, EndUntouched DEF ThreadStep
    <3> QED BY <2>1, <3>1 DEF EndIteration, ghosts, Alone
  <2>2. CASE BeginIteration /\ UNCHANGED <<ran, gateVars>>
    <3>1. ServeFrame
      BY <1>2, <2>2 DEF ThreadStep, ServeFrame
    <3>2. Untouched(q)
      BY <2>2, <3>1, BeginUntouched
    <3> QED BY <2>2, <3>2 DEF BeginIteration, ghosts, Alone
  <2>3. CASE ServeStep /\ UNCHANGED <<ran, gateVars>>
    <3>1. ServeFrame
      BY <1>2, <2>3 DEF ThreadStep, ServeFrame
    <3>2. PICK p \in Peripherals : Serving(p) /\ ServedStep(p)
      BY <2>3, ServedOne
    <3>3. Turning(p) /\ OnlyTouches(p)
      BY <3>1, <3>2, ServedAlone
    <3>4. UNCHANGED <<order, now, ran, frozen>>
      BY <3>1 DEF ServeFrame, gateVars
    <3> QED BY <3>1, <3>2, <3>3, <3>4, OthersAlone DEF OwnStep
  <2> QED BY <1>2, <2>1, <2>2, <2>3 DEF ThreadStep
<1>3. CASE DispatcherStep
  <2>1. DispatchFrame
    BY <1>3 DEF DispatcherStep, DispatchFrame
  <2>2. UNCHANGED <<order, now, ran, frozen>> /\ \A p \in Peripherals : Turning(p)
    BY <2>1, DispatchFacts
  <2>3. ASSUME NEW write \in Writes, WriteSetting(write) PROVE Alone(q) \/ OwnStep(q)
    BY <2>1, <2>2, <2>3, WrittenAlone, OthersAlone DEF OwnStep
  <2>4. ASSUME FinishHandlerInit PROVE Alone(q) \/ OwnStep(q)
    <3>1. handler \in Peripherals
      BY <2>4 DEF FinishHandlerInit, I2cInv, ThreadInv
    <3> QED BY <2>1, <2>2, <2>4, <3>1, HandledAlone, OthersAlone DEF OwnStep
  <2>5. ASSUME NEW p \in Peripherals, RefreshHost(p) PROVE Alone(q) \/ OwnStep(q)
    BY <2>1, <2>2, <2>5, RefreshedAlone, OthersAlone DEF OwnStep
  <2>6. ASSUME (\E message \in Messages : ShowOnDisplay(message)) \/ (\E value \in 0 .. Len(Presets) - 2 : ChangePreset(value))
        PROVE  Alone(q) \/ OwnStep(q)
    <3>1. "display" \in Peripherals /\ OnlyTouches("display")
      BY <2>1, <2>6, DisplayedAlone
    <3> QED BY <2>1, <2>2, <2>6, <3>1, OthersAlone DEF OwnStep
  <2> QED BY <1>3, <2>3, <2>4, <2>5, <2>6 DEF DispatcherStep
<1>4. CASE OutsideStep
  <2>1. OutsideFrame
    BY <1>4 DEF OutsideStep, OutsideFrame
  <2>2. UNCHANGED <<order, frozen>> /\ \A p \in Peripherals : Turning(p)
    BY <2>1 DEF OutsideFrame, gateVars, Turning
  <2>3. ASSUME NEW p \in Peripherals,
               \/ Unplug(p)
               \/ \E address \in 1 .. AddressCount[p] : Plug(p, address)
               \/ \E input \in Inputs[p] : Stimulate(p, input)
        PROVE  Alone(q) \/ OwnStep(q)
    <3>1. UNCHANGED <<now, ran>> /\ OnlyTouches(p)
      BY <2>1, <2>3, OutsideAlone
    <3> QED BY <2>1, <2>2, <2>3, <3>1, OthersAlone DEF OwnStep
  <2> QED BY <1>4, <2>1, <2>3 DEF OutsideStep, OwnStep
<1>5. CASE UNCHANGED i2cVars
  <2>1. Untouched(q)
    BY <1>5 DEF i2cVars, gateVars, threadVars, ghosts, Untouched, Stays, Served, InInit, InRead, Serving
  <2> QED BY <1>5, <2>1 DEF i2cVars, threadVars, ghosts, Alone
<1> QED BY <1>1, <1>2, <1>3, <1>4, <1>5 DEF I2cNext

\* Every peripheral has been told of.
LEMMA ToldHolds == ASSUME I2cInv, ToldInv, [I2cNext]_i2cVars PROVE ToldInv'
<1>1. order' = order
  BY DEF I2cNext, GateStep, ThreadStep, DispatcherStep, OutsideStep, i2cVars
<1>2. Peripherals' = Peripherals
  BY <1>1, PeripheralsStay
<1>3. told' = told \/ \E p \in Peripherals : \E out : Tell(p, out)
  <2>1. CASE GateStep \/ OutsideStep \/ UNCHANGED i2cVars
    BY <2>1 DEF GateStep, OutsideStep, i2cVars
  <2>2. CASE ThreadStep
    <3>1. CASE EndIteration \/ BeginIteration
      BY <3>1 DEF EndIteration, BeginIteration
    <3>2. CASE ServeStep
      <4>1. PICK p \in Peripherals : ServedStep(p)
        BY <3>2, ServedOne
      <4> QED BY <4>1 DEF ServedStep, FinishInit, FinishUpdate, Probe, Pass, UpdateDown, UpdateUnread, UpdateRead, UpdateDisplay
    <3> QED BY <2>2, <3>1, <3>2 DEF ThreadStep
  <2>3. CASE DispatcherStep
    BY <2>3 DEF DispatcherStep, WriteSetting, FinishHandlerInit, RefreshHost, ShowOnDisplay, ChangePreset
  <2> QED BY <2>1, <2>2, <2>3 DEF I2cNext
<1>4. ASSUME NEW p \in Peripherals, NEW out, Tell(p, out) PROVE DOMAIN told' = DOMAIN told
  BY <1>4 DEF Tell
<1> QED BY <1>2, <1>3, <1>4 DEF ToldInv

LEMMA ToldAlways == I2cSpec => []ToldInv
<1>1. I2cInit => ToldInv
  BY DEF I2cInit, ToldInv
<1>2. I2cInv /\ ToldInv /\ [I2cNext]_i2cVars => ToldInv'
  BY ToldHolds
<1> QED BY <1>1, <1>2, I2cInvariant, PTL DEF I2cSpec

-----------------------------------------------------------------------------
(* The zones of the VL53L5CX.  ZonesAccounted is about the grid and the    *)
(* frames that were heard; between them is the filter, which has a         *)
(* distance for each source zone that was measured well not too long ago,  *)
(* and the grid has a place for each of those.                             *)

Frames == [AllZones -> Nat]
Measured == [AllZones -> Int]
IsFrames(f) ==
    /\ f = [grid |-> f.grid, invalid |-> f.invalid, filter |-> f.filter, published |-> f.published]
    /\ f.grid \in Frames /\ f.invalid \in Frames /\ f.filter \in Frames
Filtered(f) == {z \in AllZones : f.filter[z] > 0}
Shown(f) == {z \in AllZones : f.grid[z] > 0}
FramesSound(f, s, q) ==
    /\ IsFrames(f) /\ q \in [AllZones -> 0 .. Never]
    /\ Cardinality(Shown(f)) = Cardinality(Filtered(f))
    /\ \A z \in AllZones : f.filter[z] > 0 <=> q[z] <= HoldFrames[s.smoothing]
    /\ \A z \in Filtered(f) : f.invalid[z] = q[z]
Inside(f, s) == Filtered(f) \subseteq Zones(GridWidth[s.resolution])
IsL5Settings(s) == s.resolution \in DOMAIN GridWidth /\ s.smoothing \in DOMAIN HoldFrames

L5Driver(up, address, frames) == [up |-> up, address |-> address, frames |-> frames]
IsL5Driver(v) == v = L5Driver(v.up, v.address, v.frames)

\* The driver, its settings and what was heard of each zone.
ZoneState(v, s, q) ==
    /\ IsL5Settings(s) /\ IsL5Driver(v)
    /\ FramesSound(v.frames, s, q)
    /\ v.up => Inside(v.frames, s)
ZonesInv ==
    ZoneSensor \in Peripherals =>
        /\ ZoneState(driver[ZoneSensor], settings[ZoneSensor], silent)
        /\ device[ZoneSensor].input \in Measured
        /\ InRead(ZoneSensor) => work.sample \in Measured

\* What is divided by the width of the grid is put together again.
LEMMA Division ==
    ASSUME NEW w \in Nat \ {0}, NEW z \in Nat
    PROVE  /\ (z % w) \in 0 .. w - 1 /\ z \div w \in Nat
           /\ z = (z % w) + (z \div w) * w
  OBVIOUS

LEMMA WidthsBounded ==
    ASSUME NEW r \in DOMAIN GridWidth
    PROVE  /\ GridWidth[r] \in Nat \ {0}
           /\ Zones(GridWidth[r]) \subseteq AllZones
           /\ IsFiniteSet(AllZones) /\ AllZones \subseteq Nat
<1> DEFINE W == {GridWidth[o] : o \in DOMAIN GridWidth}
<1>1. PICK m \in W : \A n \in W : m >= n
  BY ZoneAssumption
<1>2. Max(W) \in W /\ \A n \in W : Max(W) >= n
  BY <1>1 DEF Max
<1>3. Max(W) \in Nat /\ GridWidth[r] \in Nat \ {0} /\ GridWidth[r] <= Max(W)
  BY <1>2, ZoneAssumption
<1>4. AllZones = 0 .. Max(W) * Max(W) - 1
  BY DEF AllZones, Zones
<1>5. \A a, b \in Nat : a <= b => a * a <= b * b
  <2> TAKE a, b \in Nat
  <2> HAVE a <= b
  <2>1. a * a <= a * b
    OBVIOUS
  <2>2. a * b <= b * b
    OBVIOUS
  <2> QED BY <2>1, <2>2
<1> HIDE DEF W
<1>6. GridWidth[r] * GridWidth[r] <= Max(W) * Max(W) /\ Max(W) * Max(W) \in Nat
  BY <1>3, <1>5
<1>7. Zones(GridWidth[r]) \subseteq AllZones
  BY <1>3, <1>4, <1>6 DEF Zones
<1>8. IsFiniteSet(AllZones)
  BY <1>4, <1>6, FS_Interval
<1> QED BY <1>3, <1>4, <1>7, <1>8

\* Zones and points of a grid correspond.
Points(w) == (0 .. w - 1) \X (0 .. w - 1)

LEMMA PointOfZone ==
    ASSUME NEW w \in Nat \ {0}, NEW z \in Zones(w)
    PROVE  Point(z, w) \in Points(w) /\ Zone(Point(z, w), w) = z
<1>1. z \in Nat /\ z < w * w
  BY DEF Zones
<1>2. (z % w) \in 0 .. w - 1 /\ z \div w \in Nat /\ z = (z % w) + (z \div w) * w
  BY <1>1, Division
<1>3. z \div w < w
  <2> SUFFICES ASSUME z \div w >= w PROVE FALSE
    BY <1>2
  <2>0. \A d \in Nat : d >= w => d * w >= w * w
    OBVIOUS
  <2>1. (z \div w) * w >= w * w
    BY <1>2, <2>0
  <2> QED BY <1>1, <1>2, <2>1
<1> QED BY <1>2, <1>3 DEF Point, Points, Zone

LEMMA ZoneOfPoint ==
    ASSUME NEW w \in Nat \ {0}, NEW p \in Points(w)
    PROVE  Zone(p, w) \in Zones(w)
<1>1. p[1] \in 0 .. w - 1 /\ p[2] \in 0 .. w - 1
  BY DEF Points
<1>2. p[2] * w <= (w - 1) * w /\ p[2] * w \in Nat
  BY <1>1
<1>3. (w - 1) * w + w = w * w
  OBVIOUS
<1> QED BY <1>1, <1>2, <1>3 DEF Zone, Zones

LEMMA ZonesDiffer ==
    ASSUME NEW w \in Nat \ {0}, NEW p \in Points(w), NEW q \in Points(w), Zone(p, w) = Zone(q, w)
    PROVE  p = q
<1>1. p[1] \in 0 .. w - 1 /\ p[2] \in 0 .. w - 1 /\ q[1] \in 0 .. w - 1 /\ q[2] \in 0 .. w - 1
      /\ p = <<p[1], p[2]>> /\ q = <<q[1], q[2]>>
  BY DEF Points
<1>2. p[1] - q[1] = (q[2] - p[2]) * w
  BY <1>1 DEF Zone
<1>3. q[2] - p[2] >= 1 => (q[2] - p[2]) * w >= w
  BY <1>1
<1>4. q[2] - p[2] <= -1 => (q[2] - p[2]) * w <= -w
  BY <1>1
<1>5. q[2] = p[2]
  BY <1>1, <1>2, <1>3, <1>4
<1> QED BY <1>1, <1>2, <1>5

\* Every orientation is a permutation of the points.
LEMMA OrientedPoints ==
    ASSUME NEW w \in Nat \ {0}, NEW s, NEW p \in Points(w), NEW q \in Points(w)
    PROVE  /\ L5Oriented(p, s, w) \in Points(w)
           /\ L5Oriented(p, s, w) = L5Oriented(q, s, w) => p = q
<1>1. p[1] \in 0 .. w - 1 /\ p[2] \in 0 .. w - 1 /\ q[1] \in 0 .. w - 1 /\ q[2] \in 0 .. w - 1
      /\ p = <<p[1], p[2]>> /\ q = <<q[1], q[2]>>
  BY DEF Points
<1> DEFINE far(n) == w - 1 - n
           turned(z) == CASE s.rotation = 90 -> <<far(z[2]), z[1]>>
                          [] s.rotation = 180 -> <<far(z[1]), far(z[2])>>
                          [] s.rotation = 270 -> <<z[2], far(z[1])>>
                          [] OTHER -> z
           flipped(z) == <<IF s.invertX THEN far(z[1]) ELSE z[1], IF s.invertY THEN far(z[2]) ELSE z[2]>>
<1>2. /\ turned(p) \in Points(w) /\ turned(q) \in Points(w)
      /\ turned(p) = turned(q) => p = q
  BY <1>1 DEF Points
<1>3. \A a, b \in Points(w) : flipped(a) \in Points(w) /\ (flipped(a) = flipped(b) => a = b)
  BY DEF Points
<1>4. L5Oriented(p, s, w) = flipped(turned(p)) /\ L5Oriented(q, s, w) = flipped(turned(q))
  BY DEF L5Oriented
<1> HIDE DEF turned, flipped
<1> QED BY <1>2, <1>3, <1>4

LEMMA TargetsDiffer ==
    ASSUME NEW w \in Nat \ {0}, NEW s, NEW y \in Zones(w), NEW z \in Zones(w)
    PROVE  /\ L5Target(z, s, w) \in Zones(w)
           /\ L5Target(y, s, w) = L5Target(z, s, w) => y = z
<1>1. /\ Point(y, w) \in Points(w) /\ Zone(Point(y, w), w) = y
      /\ Point(z, w) \in Points(w) /\ Zone(Point(z, w), w) = z
  BY PointOfZone
<1>2. /\ L5Oriented(Point(y, w), s, w) \in Points(w) /\ L5Oriented(Point(z, w), s, w) \in Points(w)
      /\ L5Oriented(Point(y, w), s, w) = L5Oriented(Point(z, w), s, w) => Point(y, w) = Point(z, w)
  BY <1>1, OrientedPoints
<1> QED BY <1>1, <1>2, ZoneOfPoint, ZonesDiffer DEF L5Target

\* Nothing was heard yet, or not any more.
LEMMA NoFramesSound ==
    ASSUME NEW s, IsL5Settings(s)
    PROVE  FramesSound(NoFrames, s, [z \in AllZones |-> Never]) /\ Inside(NoFrames, s)
<1>1. HoldFrames[s.smoothing] \in Nat /\ HoldFrames[s.smoothing] < Never
  BY ZoneAssumption, I2cAssumption DEF IsL5Settings
<1>2. Filtered(NoFrames) = {} /\ Shown(NoFrames) = {} /\ IsFrames(NoFrames)
  BY DEF NoFrames, Filtered, Shown, IsFrames, Frames
<1> QED BY <1>1, <1>2 DEF FramesSound, Inside, NoFrames, Never

Framed(f, filter, invalid, grid) == [f EXCEPT !.filter = filter, !.invalid = invalid, !.grid = grid]

LEMMA NewFrames ==
    ASSUME NEW f, IsFrames(f), NEW filter, NEW invalid, NEW grid
    PROVE  Framed(f, filter, invalid, grid)
              = [grid |-> grid, invalid |-> invalid, filter |-> filter, published |-> f.published]
<1> DEFINE a == [f EXCEPT !.filter = filter]
           b == [a EXCEPT !.invalid = invalid]
           c == [b EXCEPT !.grid = grid]
<1>1. a = [grid |-> f.grid, invalid |-> f.invalid, filter |-> filter, published |-> f.published]
  BY DEF IsFrames
<1> HIDE DEF a
<1>2. b = [grid |-> f.grid, invalid |-> invalid, filter |-> filter, published |-> f.published]
  BY <1>1
<1> HIDE DEF b
<1>3. c = [grid |-> grid, invalid |-> invalid, filter |-> filter, published |-> f.published]
  BY <1>2
<1> QED BY <1>3 DEF a, b, Framed

\* What a frame makes of the zones.
HeardAfter(q, s, frame) ==
    [z \in AllZones |-> IF z \notin Zones(GridWidth[s.resolution]) THEN Never
                        ELSE IF L5Usable(frame[z], s) THEN 0
                        ELSE IF q[z] < Never THEN q[z] + 1 ELSE Never]

LEMMA FrameSound ==
    ASSUME NEW f, NEW s, NEW q, NEW frame \in Measured, IsL5Settings(s), FramesSound(f, s, q), Inside(f, s)
    PROVE  FramesSound(L5Frame(f, s, frame), s, HeardAfter(q, s, frame)) /\ Inside(L5Frame(f, s, frame), s)
<1> DEFINE w == GridWidth[s.resolution]
           hold == HoldFrames[s.smoothing]
           zones == Zones(w)
           usable == {z \in zones : L5Usable(frame[z], s)}
           held == {z \in zones \ usable : L5Held(f, s, z)}
           filter == [z \in AllZones |-> IF z \in usable THEN L5Smoothed(f.filter[z], s, frame[z])
                                         ELSE IF z \in zones \ held THEN 0 ELSE f.filter[z]]
           invalid == [z \in AllZones |-> IF z \in held THEN f.invalid[z] + 1 ELSE IF z \in zones THEN 0 ELSE f.invalid[z]]
           target(z) == L5Target(z, s, w)
           source(t) == CHOOSE z \in usable \cup held : target(z) = t
           grid == [t \in AllZones |-> IF \E z0 \in usable \cup held : target(z0) = t THEN filter[source(t)] ELSE 0]
           g == Framed(f, filter, invalid, grid)
           h == HeardAfter(q, s, frame)
<1>0. L5Frame(f, s, frame) = g
  BY DEF L5Frame, Framed
<1>1. /\ w \in Nat \ {0} /\ zones \subseteq AllZones /\ IsFiniteSet(AllZones)
      /\ hold \in Nat /\ hold < Never
  BY WidthsBounded, ZoneAssumption, I2cAssumption DEF IsL5Settings
<1>2. /\ IsFrames(f) /\ q \in [AllZones -> 0 .. Never]
      /\ \A z \in AllZones : f.filter[z] > 0 <=> q[z] <= hold
      /\ \A z \in AllZones : f.filter[z] > 0 => f.invalid[z] = q[z]
      /\ \A z \in AllZones : f.filter[z] \in Nat /\ f.invalid[z] \in Nat /\ q[z] \in Nat /\ q[z] <= Never
      /\ \A z \in AllZones \ zones : f.filter[z] = 0
  <2>1. IsFrames(f) /\ q \in [AllZones -> 0 .. Never]
    BY DEF FramesSound
  <2>2. /\ \A z \in AllZones : f.filter[z] > 0 <=> q[z] <= hold
        /\ \A z \in AllZones : f.filter[z] > 0 => f.invalid[z] = q[z]
    BY DEF FramesSound, Filtered
  <2>3. \A z \in AllZones : f.filter[z] \in Nat /\ f.invalid[z] \in Nat /\ q[z] \in Nat /\ q[z] <= Never
    BY <2>1 DEF IsFrames, Frames, Never
  <2>4. \A z \in AllZones \ zones : f.filter[z] = 0
    BY <2>3 DEF Inside, Filtered
  <2> QED BY <2>1, <2>2, <2>3, <2>4
<1>3. \A z \in usable : L5Smoothed(f.filter[z], s, frame[z]) \in Nat \ {0}
  <2> TAKE z \in usable
  <2>1. frame[z] \in Nat /\ frame[z] > 0 /\ f.filter[z] \in Nat
    BY <1>1, <1>2 DEF Measured, L5Usable
  <2>2. f.filter[z] # 0 => (f.filter[z] + frame[z]) \div 2 \in Nat \ {0}
    BY <2>1
  <2> QED BY <2>1, <2>2 DEF L5Smoothed
<1>4. \A z \in held : f.filter[z] > 0 /\ f.invalid[z] = q[z] /\ q[z] < hold
  BY <1>1, <1>2 DEF L5Held
<1> HIDE DEF w
<1>5. \A z \in AllZones : filter[z] \in Nat /\ invalid[z] \in Nat /\ (filter[z] > 0 <=> z \in usable \cup held)
  <2> TAKE z \in AllZones
  <2>1. CASE z \in usable
    <3>1. filter[z] = L5Smoothed(f.filter[z], s, frame[z]) /\ invalid[z] = 0
      BY <2>1
    <3> QED BY <1>3, <2>1, <3>1
  <2>2. CASE z \in held
    <3>1. filter[z] = f.filter[z] /\ invalid[z] = f.invalid[z] + 1
      BY <2>2
    <3> QED BY <1>2, <1>4, <2>2, <3>1
  <2>3. CASE z \in zones /\ z \notin usable \cup held
    <3>1. filter[z] = 0 /\ invalid[z] = 0
      BY <2>3
    <3> QED BY <2>3, <3>1
  <2>4. CASE z \notin zones
    <3>1. filter[z] = f.filter[z] /\ invalid[z] = f.invalid[z]
      BY <2>4
    <3> QED BY <1>2, <2>4, <3>1
  <2> QED BY <2>1, <2>2, <2>3, <2>4
<1>6. filter \in Frames /\ invalid \in Frames
  BY <1>5 DEF Frames
<1>7. \A z \in AllZones : /\ h[z] \in 0 .. Never
                          /\ filter[z] > 0 <=> h[z] <= hold
                          /\ filter[z] > 0 => invalid[z] = h[z]
  <2> HIDE DEF filter, invalid
  <2> TAKE z \in AllZones
  <2>1. CASE z \in usable
    <3>1. h[z] = 0 /\ invalid[z] = 0
      BY <2>1 DEF HeardAfter, w, invalid
    <3> QED BY <1>1, <1>5, <2>1, <3>1 DEF Never
  <2>2. CASE z \in held
    <3>1. h[z] = (IF q[z] < Never THEN q[z] + 1 ELSE Never) /\ invalid[z] = f.invalid[z] + 1
      BY <2>2 DEF HeardAfter, w, invalid
    <3>2. h[z] = q[z] + 1 /\ invalid[z] = q[z] + 1 /\ h[z] <= hold /\ h[z] \in 0 .. Never
      BY <1>1, <1>2, <1>4, <2>2, <3>1 DEF Never
    <3> QED BY <1>5, <2>2, <3>2
  <2>3. CASE z \in zones /\ z \notin usable \cup held
    <3>1. h[z] = (IF q[z] < Never THEN q[z] + 1 ELSE Never)
      BY <2>3 DEF HeardAfter, w
    <3>2. q[z] >= hold
      BY <1>1, <1>2, <2>3 DEF L5Held
    <3>3. h[z] > hold /\ h[z] \in 0 .. Never
      BY <1>1, <1>2, <3>1, <3>2 DEF Never
    <3> QED BY <1>1, <1>5, <2>3, <3>3 DEF Never
  <2>4. CASE z \notin zones
    <3>1. h[z] = Never
      BY <2>4 DEF HeardAfter, w
    <3> QED BY <1>1, <1>5, <2>4, <3>1 DEF Never
  <2> QED BY <2>1, <2>2, <2>3, <2>4
<1>8. \A y, z \in zones : target(z) \in zones /\ (target(y) = target(z) => y = z)
  BY <1>1, TargetsDiffer
<1> DEFINE kept == usable \cup held
<1>9. kept \subseteq zones
  OBVIOUS
<1> HIDE DEF zones, filter, target, usable, held, invalid
<1>10. \A z \in kept : source(target(z)) = z
  BY <1>8, <1>9
<1>11. \A t \in AllZones : grid[t] \in Nat /\ (grid[t] > 0 <=> \E z \in kept : target(z) = t)
  <2> TAKE t \in AllZones
  <2>1. CASE \E z \in kept : target(z) = t
    <3>1. PICK z \in kept : target(z) = t
      BY <2>1
    <3>2. grid[t] = filter[source(t)] /\ source(t) = z
      BY <1>10, <3>1
    <3>3. filter[z] \in Nat /\ filter[z] > 0
      BY <1>1, <1>5, <1>9
    <3> QED BY <2>1, <3>2, <3>3
  <2>2. CASE ~\E z \in kept : target(z) = t
    BY <2>2
  <2> QED BY <2>1, <2>2
<1> HIDE DEF kept, grid
<1>12. grid \in Frames
  <2>1. grid = [t \in AllZones |-> grid[t]]
    BY DEF grid
  <2> QED BY <1>11, <2>1 DEF Frames
<1>13. g = [grid |-> grid, invalid |-> invalid, filter |-> filter, published |-> f.published]
  <2>1. IsFrames(f)
    BY <1>2
  <2>2. \A x, y, z : Framed(f, x, y, z) = [grid |-> z, invalid |-> y, filter |-> x, published |-> f.published]
    BY <2>1, NewFrames
  <2> QED BY <2>2
<1> HIDE DEF g, h
<1>14. IsFrames(g) /\ Filtered(g) = kept /\ g.filter = filter /\ g.invalid = invalid /\ g.grid = grid
  <2>1. g.filter = filter /\ g.invalid = invalid /\ g.grid = grid
    BY <1>13
  <2>2. IsFrames(g)
    BY <1>6, <1>12, <1>13, <2>1 DEF IsFrames
  <2>3. Filtered(g) = kept
    BY <1>1, <1>5, <1>9, <2>1 DEF Filtered, kept
  <2> QED BY <2>1, <2>2, <2>3
<1>15. Cardinality(Shown(g)) = Cardinality(Filtered(g))
  <2> DEFINE m == [z \in kept |-> target(z)]
  <2>1. Shown(g) = {t \in AllZones : \E z \in kept : target(z) = t}
    BY <1>11, <1>14 DEF Shown
  <2>2. m \in [kept -> Shown(g)]
    BY <1>1, <1>8, <1>9, <2>1
  <2>3. \A y, z \in kept : m[y] = m[z] => y = z
    BY <1>8, <1>9
  <2>4. \A t \in Shown(g) : \E z \in kept : m[z] = t
    BY <2>1
  <2> HIDE DEF m
  <2>5. ExistsBijection(kept, Shown(g))
    <3>1. m \in Bijection(kept, Shown(g))
      BY <2>2, <2>3, <2>4 DEF Bijection, Injection, Surjection, IsInjective
    <3> QED BY <3>1 DEF ExistsBijection
  <2>6. IsFiniteSet(kept)
    BY <1>1, <1>9, FS_Subset
  <2> QED BY <1>14, <2>5, <2>6, FS_Bijection
<1>16. h \in [AllZones -> 0 .. Never]
  <2>1. h = [z \in AllZones |-> h[z]]
    BY DEF h, HeardAfter
  <2> QED BY <1>7, <2>1
<1>17. FramesSound(g, s, h)
  <2>1. \A z \in Filtered(g) : g.invalid[z] = h[z]
    BY <1>7, <1>14 DEF Filtered
  <2> QED BY <1>7, <1>14, <1>15, <1>16, <2>1 DEF FramesSound
<1>18. Inside(g, s)
  BY <1>9, <1>14 DEF Inside, zones, w
<1> QED BY <1>0, <1>17, <1>18 DEF g, h

\* When the frame was published is of no account.
LEMMA PublishedSound ==
    ASSUME NEW f, NEW s, NEW q, NEW t, FramesSound(f, s, q)
    PROVE  /\ FramesSound([f EXCEPT !.published = t], s, q)
           /\ Inside(f, s) => Inside([f EXCEPT !.published = t], s)
<1> DEFINE g == [f EXCEPT !.published = t]
<1>1. g = [grid |-> f.grid, invalid |-> f.invalid, filter |-> f.filter, published |-> t]
  BY DEF FramesSound, IsFrames
<1> HIDE DEF g
<1>2. g.grid = f.grid /\ g.invalid = f.invalid /\ g.filter = f.filter /\ g.published = t
  BY <1>1
<1>3. IsFrames(g)
  BY <1>1, <1>2 DEF FramesSound, IsFrames
<1>4. Filtered(g) = Filtered(f) /\ Shown(g) = Shown(f)
  BY <1>2 DEF Filtered, Shown
<1>5. FramesSound(g, s, q) /\ (Inside(f, s) => Inside(g, s))
  BY <1>2, <1>3, <1>4 DEF FramesSound, Inside
<1> QED BY <1>5 DEF g

AllNever == [z \in AllZones |-> Never]

LEMMA L5DriverFields ==
    \A up, address, frames : LET v == L5Driver(up, address, frames)
                             IN v.up = up /\ v.address = address /\ v.frames = frames
  BY DEF L5Driver

LEMMA L5DriverChanges ==
    \A up, address, frames, n :
        LET v == L5Driver(up, address, frames)
        IN /\ [v EXCEPT !.up = n] = L5Driver(n, address, frames)
           /\ [v EXCEPT !.address = n] = L5Driver(up, n, frames)
           /\ [v EXCEPT !.frames = n] = L5Driver(up, address, n)
  BY DEF L5Driver

LEMMA L5Changed ==
    ASSUME NEW v, IsL5Driver(v)
    PROVE  \A n : /\ [v EXCEPT !.up = n] = L5Driver(n, v.address, v.frames)
                  /\ [v EXCEPT !.address = n] = L5Driver(v.up, n, v.frames)
                  /\ [v EXCEPT !.frames = n] = L5Driver(v.up, v.address, n)
<1> TAKE n
<1>1. PICK u, a, f : v = L5Driver(u, a, f)
  BY Zenon DEF IsL5Driver
<1>2. u = v.up /\ a = v.address /\ f = v.frames
  BY <1>1, L5DriverFields
<1>3. /\ [v EXCEPT !.up = n] = L5Driver(n, a, f)
      /\ [v EXCEPT !.address = n] = L5Driver(u, n, f)
      /\ [v EXCEPT !.frames = n] = L5Driver(u, a, n)
  BY <1>1, L5DriverChanges
<1> QED BY <1>2, <1>3

\* The operations of the driver.
LEMMA L5StartSound ==
    ASSUME NEW v, NEW s, NEW q, ZoneState(v, s, q), NEW a,
           NEW r, IsL5Settings(r), r.smoothing = s.smoothing
    PROVE  ZoneState([L5Start(v) EXCEPT !.address = a], r, q)
<1> DEFINE u == L5Start(v)
           w == [u EXCEPT !.address = a]
<1>0. IsL5Driver(v)
  BY DEF ZoneState
<1>1. u = L5Driver(FALSE, v.address, v.frames)
  BY <1>0, L5Changed, Zenon DEF L5Start
<1> HIDE DEF u
<1>2. w = L5Driver(FALSE, a, v.frames)
  <2>1. \A up : [L5Driver(up, v.address, v.frames) EXCEPT !.address = a] = L5Driver(up, a, v.frames)
    BY L5DriverChanges
  <2> QED BY <1>1, <2>1, Zenon
<1> HIDE DEF w
<1>3. FramesSound(v.frames, r, q)
  BY DEF ZoneState, FramesSound
<1>4. ZoneState(w, r, q)
  <2>0. \A up : LET x == L5Driver(up, a, v.frames) IN x.up = up /\ x.address = a /\ x.frames = v.frames
    BY L5DriverFields
  <2>1. w.up = FALSE /\ w.address = a /\ w.frames = v.frames
    BY <1>2, <2>0, Zenon
  <2>2. IsL5Driver(w)
    BY <1>2, <2>1, Zenon DEF IsL5Driver
  <2> QED BY <1>3, <2>1, <2>2, Zenon DEF ZoneState
<1> QED BY <1>4 DEF u, w

LEMMA L5ForgetsSound ==
    ASSUME NEW v, NEW s, IsL5Settings(s), IsL5Driver(v)
    PROVE  /\ ZoneState(L5Ready(v), s, AllNever)
           /\ ZoneState(L5Deinit(v), s, AllNever)
           /\ ZoneState(L5Reset(v), s, AllNever)
<1>1. \A up, a : ZoneState(L5Driver(up, a, NoFrames), s, AllNever)
  <2> TAKE up, a
  <2> DEFINE w == L5Driver(up, a, NoFrames)
  <2>1. w.up = up /\ w.address = a /\ w.frames = NoFrames
    BY L5DriverFields
  <2>2. FramesSound(NoFrames, s, AllNever) /\ Inside(NoFrames, s)
    BY NoFramesSound DEF AllNever
  <2> HIDE DEF w
  <2>3. w = L5Driver(w.up, w.address, w.frames)
    BY <2>1, Zenon DEF w
  <2>4. ZoneState(w, s, AllNever)
    BY <2>1, <2>2, <2>3, Zenon DEF ZoneState, IsL5Driver
  <2> QED BY <2>4 DEF w
<1>2. \A up : [v EXCEPT !.up = up] = L5Driver(up, v.address, v.frames)
  BY L5Changed
<1>3. \A up : [L5Driver(up, v.address, v.frames) EXCEPT !.frames = NoFrames] = L5Driver(up, v.address, NoFrames)
  BY L5DriverChanges
<1>4. [v EXCEPT !.frames = NoFrames] = L5Driver(v.up, v.address, NoFrames)
  BY L5Changed
<1>5. L5Ready(v) = L5Driver(TRUE, v.address, NoFrames)
  BY <1>2, <1>3, Zenon DEF L5Ready
<1>6. L5Deinit(v) = L5Driver(FALSE, v.address, NoFrames)
  BY <1>2, <1>3, Zenon DEF L5Deinit
<1> QED BY <1>1, <1>4, <1>5, <1>6, Zenon DEF L5Reset

LEMMA L5ProcessSound ==
    ASSUME NEW v, NEW s, NEW q, ZoneState(v, s, q), v.up, NEW frame \in Measured, NEW t
    PROVE  ZoneState(L5Process(v, s, frame, t).v, s, HeardAfter(q, s, frame))
<1> DEFINE f == L5Frame(v.frames, s, frame)
           g == [f EXCEPT !.published = IF t - f.published >= OutputEvery[s.rate] THEN t ELSE @]
           w == [v EXCEPT !.frames = g]
           h == HeardAfter(q, s, frame)
<1>1. FramesSound(f, s, h) /\ Inside(f, s)
  BY FrameSound DEF ZoneState
<1> HIDE DEF f, h
<1>2. FramesSound(g, s, h) /\ Inside(g, s)
  <2>1. \A p : FramesSound([f EXCEPT !.published = p], s, h) /\ Inside([f EXCEPT !.published = p], s)
    BY <1>1, PublishedSound
  <2> QED BY <2>1
<1>3. L5Process(v, s, frame, t).v = w
  BY DEF L5Process, f
<1> HIDE DEF g
<1>4. w = L5Driver(v.up, v.address, g)
  BY L5Changed DEF ZoneState
<1> HIDE DEF w
<1>5. IsL5Settings(s)
  BY DEF ZoneState
<1>6. w.up = v.up /\ w.address = v.address /\ w.frames = g
  <2>1. \A up : LET x == L5Driver(up, v.address, g) IN x.up = up /\ x.address = v.address /\ x.frames = g
    BY L5DriverFields
  <2> QED BY <1>4, <2>1, Zenon
<1>7. ZoneState(w, s, h)
  BY <1>2, <1>4, <1>5, <1>6, Zenon DEF ZoneState, IsL5Driver
<1> QED BY <1>3, <1>7 DEF h

LEMMA StoredL5Settings ==
    ASSUME NEW s, IsL5Settings(s), NEW k, NEW value, L5Accepts(k, value), DOMAIN s = DOMAIN L5Defaults
    PROVE  LET r == [s EXCEPT ![k] = value]
           IN IsL5Settings(r) /\ (k = "resolution" => r.smoothing = s.smoothing)
<1> DEFINE r == [s EXCEPT ![k] = value]
<1>1. "resolution" \in DOMAIN s /\ "smoothing" \in DOMAIN s
  BY DEF L5Defaults
<1>2. /\ r.resolution = IF k = "resolution" THEN value ELSE s.resolution
      /\ r.smoothing = IF k = "smoothing" THEN value ELSE s.smoothing
  BY <1>1
<1>3. /\ k = "resolution" => value \in DOMAIN GridWidth
      /\ k = "smoothing" => value \in DOMAIN HoldFrames
  BY DEF L5Accepts
<1> HIDE DEF r
<1>4. IsL5Settings(r) /\ (k = "resolution" => r.smoothing = s.smoothing)
  BY <1>2, <1>3 DEF IsL5Settings
<1> QED BY <1>4 DEF r

-----------------------------------------------------------------------------
\* What is to be shown of a step.
LEMMA ZonesHold ==
    ASSUME order' = order,
           ZoneSensor \in Peripherals =>
               /\ ZoneState(driver'[ZoneSensor], settings'[ZoneSensor], silent')
               /\ device'[ZoneSensor].input \in Measured
               /\ InRead(ZoneSensor)' => work'.sample \in Measured
    PROVE  ZonesInv'
<1>1. Peripherals' = Peripherals
  BY PeripheralsStay
<1> QED BY <1>1 DEF ZonesInv

\* A step that has nothing to do with the zones.
LEMMA ZonesKept ==
    ASSUME ZonesInv, order' = order,
           ZoneSensor \in Peripherals =>
               /\ silent' = silent
               /\ driver'[ZoneSensor] = driver[ZoneSensor] /\ settings'[ZoneSensor] = settings[ZoneSensor]
               /\ device'[ZoneSensor].input = device[ZoneSensor].input \/ device'[ZoneSensor].input \in Measured
               /\ InRead(ZoneSensor)' => InRead(ZoneSensor) /\ work' = work
    PROVE  ZonesInv'
  BY ZonesHold DEF ZonesInv

\* A device keeps its input whatever becomes of its registers.
LEMMA InputStays ==
    ASSUME I2cInv, NEW p \in Peripherals, NEW regs
    PROVE  [device[p] EXCEPT !.regs = regs].input = device[p].input
<1>1. IsDevice(p, device[p])
  BY Known DEF PeripheralType
<1> QED BY <1>1 DEF IsDevice

\* The thread serves another peripheral.
LEMMA ZonesOfOthers ==
    ASSUME I2cInv, ZonesInv, ServeFrame, NEW p \in Peripherals, Serving(p), p # ZoneSensor,
           Turning(p), \A q \in Peripherals \ {p} : driver'[q] = driver[q] /\ device'[q] = device[q],
           ZoneSensor \in Peripherals => silent' = silent
    PROVE  ZonesInv'
<1>1. UNCHANGED <<order, ran, settings>> /\ ThreadInv
  BY DEF ServeFrame, I2cInv
<1>2. ZoneSensor \in Peripherals => ~InRead(ZoneSensor) /\ (InRead(ZoneSensor)' <=> InRead(ZoneSensor))
  <2>1. ~InRead(ZoneSensor)
    BY DEF InRead, Serving
  <2> QED BY <1>1, <2>1, ServesOne
<1> QED BY <1>1, <1>2, ZonesKept

\* The steps of the thread that serves the sensor.
LEMMA ZoneKnown ==
    ASSUME I2cInv, ZonesInv, ZoneSensor \in Peripherals
    PROVE  /\ ZoneState(driver[ZoneSensor], settings[ZoneSensor], silent)
           /\ IsL5Settings(settings[ZoneSensor]) /\ IsL5Driver(driver[ZoneSensor])
           /\ device[ZoneSensor].input \in Measured
           /\ InRead(ZoneSensor) => work.sample \in Measured
           /\ DOMAIN driver = Peripherals /\ DOMAIN device = Peripherals /\ DOMAIN settings = Peripherals
           /\ DOMAIN settings[ZoneSensor] = DOMAIN L5Defaults
<1>1. PeripheralType(ZoneSensor) /\ ThreadInv
  BY Known
<1> QED BY <1>1 DEF ZonesInv, ZoneState, ThreadInv, PeripheralType, Fields, ZoneSensor

LEMMA ZonesDropped ==
    ASSUME I2cInv, ZonesInv, ServeFrame, ZoneSensor \in Peripherals, NextTurn, NEW v, IsL5Driver(v),
           driver' = [driver EXCEPT ![ZoneSensor] = Deinit(ZoneSensor, v)],
           NEW u, device' = Stopped(ZoneSensor, u), silent' = Unheard(ZoneSensor)
    PROVE  ZonesInv'
<1>k. /\ IsL5Settings(settings[ZoneSensor]) /\ device[ZoneSensor].input \in Measured
      /\ DOMAIN driver = Peripherals /\ DOMAIN device = Peripherals
  BY ZoneKnown
<1>1. driver'[ZoneSensor] = L5Deinit(v) /\ silent' = AllNever
  BY <1>k DEF Deinit, Unheard, AllNever, ZoneSensor
<1>2. device'[ZoneSensor].input = device[ZoneSensor].input
  <2> DEFINE regs == IF ZoneSensor \in Stops /\ u.up /\ Answers(ZoneSensor) THEN NoRegisters ELSE device[ZoneSensor].regs
  <2>1. device'[ZoneSensor] = [device[ZoneSensor] EXCEPT !.regs = regs]
    BY <1>k DEF Stopped
  <2> HIDE DEF regs
  <2> QED BY <2>1, InputStays
<1>3. settings' = settings /\ order' = order
  BY DEF ServeFrame
<1>4. ZoneState(driver'[ZoneSensor], settings'[ZoneSensor], silent')
  BY <1>k, <1>1, <1>3, L5ForgetsSound
<1>5. ~InRead(ZoneSensor)'
  BY DEF NextTurn, InRead
<1> QED BY <1>k, <1>2, <1>3, <1>4, <1>5, ZonesHold

\* init() begins, on either thread.
LEMMA ZonesBegun ==
    ASSUME I2cInv, ZonesInv, ZoneSensor \in Peripherals, NEW a, NEW s,
           Begun(ZoneSensor, a, s), NEW r, IsL5Settings(r), r.smoothing = settings[ZoneSensor].smoothing, silent' = silent
    PROVE  ZoneState(driver'[ZoneSensor], r, silent') /\ device'[ZoneSensor].input \in Measured
<1>k. /\ ZoneState(driver[ZoneSensor], settings[ZoneSensor], silent) /\ device[ZoneSensor].input \in Measured
      /\ DOMAIN driver = Peripherals /\ DOMAIN device = Peripherals
  BY ZoneKnown
<1>1. driver'[ZoneSensor] = [L5Start(driver[ZoneSensor]) EXCEPT !.address = a]
  BY <1>k DEF Begun, Start, ZoneSensor
<1>2. device'[ZoneSensor].input = device[ZoneSensor].input
  <2> DEFINE regs == IF ZoneSensor \in Resets /\ device[ZoneSensor].present /\ device[ZoneSensor].at = a THEN NoRegisters
                     ELSE device[ZoneSensor].regs
  <2>1. device'[ZoneSensor] = [device[ZoneSensor] EXCEPT !.regs = regs]
    BY <1>k DEF Begun
  <2> HIDE DEF regs
  <2> QED BY <2>1, InputStays
<1> QED BY <1>k, <1>1, <1>2, L5StartSound

\* and ends well.
LEMMA ZonesReady ==
    ASSUME I2cInv, ZonesInv, ZoneSensor \in Peripherals, NEW s, NEW answered, NEW overlapped,
           Initialized(ZoneSensor, s, answered, overlapped)
    PROVE  ZoneState(driver'[ZoneSensor], settings[ZoneSensor], silent') /\ device'[ZoneSensor].input \in Measured
<1>k. /\ IsL5Settings(settings[ZoneSensor]) /\ IsL5Driver(driver[ZoneSensor]) /\ device[ZoneSensor].input \in Measured
      /\ DOMAIN driver = Peripherals /\ DOMAIN device = Peripherals
  BY ZoneKnown
<1>1. driver'[ZoneSensor] = L5Ready(driver[ZoneSensor]) /\ silent' = AllNever
  BY <1>k DEF Initialized, Ready, AllNever, ZoneSensor
<1>2. device'[ZoneSensor].input = device[ZoneSensor].input
  <2> DEFINE regs == IF answered THEN Registers(ZoneSensor, s) ELSE device[ZoneSensor].regs
  <2>1. device'[ZoneSensor] = [device[ZoneSensor] EXCEPT !.regs = regs]
    BY <1>k DEF Initialized
  <2> HIDE DEF regs
  <2> QED BY <2>1, InputStays
<1> QED BY <1>k, <1>1, <1>2, L5ForgetsSound

LEMMA ZonesServed ==
    ASSUME I2cInv, ZonesInv, ServeFrame, ZoneSensor \in Peripherals, Serving(ZoneSensor),
           \/ pc = "init" /\ FinishInit(ZoneSensor)
           \/ pc = "read" /\ FinishUpdate(ZoneSensor)
           \/ Probe(ZoneSensor) \/ Pass(ZoneSensor) \/ UpdateDown(ZoneSensor) \/ UpdateUnread(ZoneSensor)
           \/ UpdateRead(ZoneSensor) \/ UpdateDisplay(ZoneSensor)
    PROVE  ZonesInv'
<1> DEFINE p == ZoneSensor
<1>k. /\ ZoneState(driver[p], settings[p], silent)
      /\ IsL5Settings(settings[p]) /\ IsL5Driver(driver[p])
      /\ device[p].input \in Measured
      /\ InRead(p) => work.sample \in Measured
      /\ DOMAIN driver = Peripherals /\ DOMAIN device = Peripherals
  BY ZoneKnown
<1>f. settings' = settings /\ order' = order
  BY DEF ServeFrame
<1>n. NextTurn => ~InRead(p)'
  BY DEF NextTurn, InRead
<1>p. p = "vl53l5cx"
  BY DEF ZoneSensor
<1>1. CASE FinishInit(p)
  <2>1. PICK answered \in BOOLEAN :
          /\ IF answered
             THEN Initialized(p, work.cfg, answered, handler = p \/ work.cfg # settings[p])
             ELSE /\ driver' = [driver EXCEPT ![p] = Deinit(p, @)]
                  /\ device' = Stopped(p, driver[p])
                  /\ silent' = Unheard(p)
          /\ NextTurn
    BY <1>1, <1>p DEF FinishInit
  <2>2. CASE answered
    <3>1. Initialized(p, work.cfg, answered, handler = p \/ work.cfg # settings[p])
      BY <2>1, <2>2
    <3>2. ZoneState(driver'[p], settings[p], silent') /\ device'[p].input \in Measured
      BY <3>1, ZonesReady
    <3> QED BY <1>f, <1>n, <2>1, <3>2, ZonesHold
  <2>3. CASE ~answered
    <3>1. /\ driver' = [driver EXCEPT ![p] = Deinit(p, driver[p])]
          /\ device' = Stopped(p, driver[p]) /\ silent' = Unheard(p)
      BY <2>1, <2>3
    <3> QED BY <1>k, <2>1, <3>1, ZonesDropped
  <2> QED BY <2>2, <2>3
<1>2. CASE pc = "read" /\ FinishUpdate(p)
  <2>1. PICK answered \in BOOLEAN :
          LET done == Process(p, driver[p], settings[p], answered)
          IN /\ IF done.ok
                THEN /\ driver' = [driver EXCEPT ![p] = done.v]
                     /\ silent' = Heard(p)
                     /\ UNCHANGED <<sched, device>>
                ELSE Dropped(p, done.v) /\ silent' = Unheard(p)
             /\ NextTurn
    BY <1>2, <1>p DEF FinishUpdate
  <2> DEFINE done == Process(p, driver[p], settings[p], answered)
             next == L5Process(driver[p], settings[p], work.sample, now)
  <2>2. done.v = next.v /\ done.ok = driver[p].up
    BY <1>p DEF Process, Answering
  <2>3. work.sample \in Measured
    BY <1>2, <1>k DEF InRead
  <2>4. Heard(p) = HeardAfter(silent, settings[p], work.sample)
    BY DEF Heard, HeardAfter
  <2>5. CASE driver[p].up
    <3>1. driver' = [driver EXCEPT ![p] = next.v] /\ silent' = Heard(p) /\ device' = device
      BY <2>1, <2>2, <2>5
    <3>2. ZoneState(next.v, settings[p], silent')
      <4>1. \A t : ZoneState(L5Process(driver[p], settings[p], work.sample, t).v, settings[p],
                             HeardAfter(silent, settings[p], work.sample))
        BY <1>k, <2>3, <2>5, L5ProcessSound
      <4> QED BY <2>4, <3>1, <4>1
    <3> HIDE DEF next
    <3>3. ZoneState(driver'[p], settings'[p], silent')
      BY <1>f, <1>k, <3>1, <3>2
    <3> QED BY <1>f, <1>k, <1>n, <2>1, <3>1, <3>3, ZonesHold
  <2>6. CASE ~driver[p].up
    <3>1. Dropped(p, next.v) /\ silent' = Unheard(p)
      BY <2>1, <2>2, <2>6
    <3>2. IsL5Driver(next.v)
      <4> DEFINE f == L5Frame(driver[p].frames, settings[p], work.sample)
                 g == [f EXCEPT !.published = IF now - f.published >= OutputEvery[settings[p].rate] THEN now ELSE @]
      <4>1. next.v = [driver[p] EXCEPT !.frames = g]
        BY DEF L5Process
      <4> HIDE DEF g, next
      <4>2. next.v = L5Driver(driver[p].up, driver[p].address, g)
        BY <1>k, <4>1, L5Changed
      <4>3. \A up, address : IsL5Driver(L5Driver(up, address, g))
        BY L5DriverFields DEF IsL5Driver
      <4> QED BY <4>2, <4>3, Zenon
    <3>3. /\ driver' = [driver EXCEPT ![p] = Deinit(p, next.v)]
          /\ device' = Stopped(p, next.v)
      BY <3>1 DEF Dropped
    <3> HIDE DEF next
    <3> QED BY <2>1, <3>1, <3>2, <3>3, ZonesDropped
  <2> QED BY <2>5, <2>6
<1>3. CASE Probe(p)
  <2>1. silent' = silent
    BY <1>3 DEF Probe, ghosts
  <2>2. CASE NextTurn /\ UNCHANGED <<driver, device>>
    BY <1>f, <1>n, <2>1, <2>2, ZonesKept
  <2>3. CASE pc' = "init" /\ Begun(p, Found(p), settings[p])
    <3>1. ZoneState(driver'[p], settings[p], silent') /\ device'[p].input \in Measured
      BY <1>k, <2>1, <2>3, ZonesBegun
    <3>2. ~InRead(p)'
      BY <2>3 DEF InRead
    <3> QED BY <1>f, <3>1, <3>2, ZonesHold
  <2> QED BY <1>3, <2>2, <2>3 DEF Probe
<1>4. CASE Pass(p)
  BY <1>4, <1>f, <1>n, ZonesKept DEF Pass, ghosts
<1>5. CASE UpdateDown(p)
  BY <1>5, <1>k, ZonesDropped DEF UpdateDown, Dropped
<1>6. CASE UpdateUnread(p)
  <2>1. LET result == Unread(p, driver[p], settings[p])
        IN IF result.ok
           THEN driver' = [driver EXCEPT ![p] = result.v] /\ UNCHANGED <<device, silent>>
           ELSE Dropped(p, result.v) /\ silent' = Unheard(p)
    BY <1>6 DEF UpdateUnread
  <2>2. NextTurn
    BY <1>6 DEF UpdateUnread
  <2>3. Unread(p, driver[p], settings[p]) = [v |-> driver[p], ok |-> FALSE]
    BY <1>p DEF Unread
  <2>4. Dropped(p, driver[p]) /\ silent' = Unheard(p)
    BY <2>1, <2>3
  <2> QED BY <1>k, <2>2, <2>4, ZonesDropped DEF Dropped
<1>7. CASE UpdateRead(p)
  <2>1. /\ NextTurn \/ (\E sample \in Samples(p) : work' = [drawn |-> {}, sample |-> sample, was |-> settings[p]])
        /\ driver' = driver /\ silent' = silent /\ device' = device
    BY <1>7, <1>p DEF UpdateRead
  <2>2. Samples(p) \subseteq {device[p].input}
    BY <1>p DEF Samples
  <2>3. InRead(p)' => work'.sample \in Measured
    BY <1>k, <1>n, <2>1, <2>2
  <2> QED BY <1>f, <1>k, <2>1, <2>3, ZonesHold
<1>8. CASE UpdateDisplay(p)
  BY <1>8, <1>p DEF UpdateDisplay
<1> QED BY <1>1, <1>2, <1>3, <1>4, <1>5, <1>6, <1>7, <1>8

LEMMA ZonesThread == ASSUME I2cInv, ToldInv, ZonesInv, ThreadStep PROVE ZonesInv'
<1>0. ThreadInv /\ UNCHANGED <<order, now, settings, preset, handler>>
  BY DEF I2cInv, ThreadStep
<1>1. CASE EndIteration \/ (BeginIteration /\ UNCHANGED <<ran, gateVars>>)
  <2>1. UNCHANGED <<pc, driver, device>> /\ silent' = silent
    BY <1>1 DEF EndIteration, BeginIteration, ghosts
  <2>2. pc = "idle"
    <3>1. turn \notin DOMAIN order
      <4>1. Len(order) \in Nat /\ DOMAIN order = 1 .. Len(order)
        BY <1>0 DEF ThreadInv
      <4> QED BY <1>1, <4>1 DEF EndIteration, BeginIteration
    <3> QED BY <1>0, <3>1 DEF ThreadInv
  <2>3. ~InRead(ZoneSensor)'
    BY <2>1, <2>2 DEF InRead
  <2> QED BY <1>0, <2>1, <2>3, ZonesKept
<1>2. CASE ServeStep /\ UNCHANGED <<ran, gateVars>>
  <2>0. ServeFrame
    BY <1>0, <1>2 DEF ServeFrame
  <2>1. PICK p \in Peripherals : Serving(p) /\ ServedStep(p)
    BY <1>2, ServedOne
  <2>3. CASE p = ZoneSensor
    BY <2>0, <2>1, <2>3, ZonesServed DEF ServedStep
  <2>4. CASE p # ZoneSensor
    <3>1. Turning(p) /\ OnlyTouches(p)
      BY <2>0, <2>1, ServedAlone
    <3>2. (ZoneSensor \in Peripherals => silent' = silent) /\ \A q \in Peripherals \ {p} : driver'[q] = driver[q] /\ device'[q] = device[q]
      BY <2>4, <3>1 DEF OnlyTouches, LeftAlone
    <3> QED BY <2>0, <2>1, <2>4, <3>1, <3>2, ZonesOfOthers
  <2> QED BY <2>3, <2>4
<1> QED BY <1>1, <1>2 DEF ThreadStep

\* The dispatcher, between any two steps of the thread.
LEMMA ZonesWritten ==
    ASSUME I2cInv, ZonesInv, DispatchFrame, NEW write \in Writes, WriteSetting(write)
    PROVE  ZonesInv'
<1> DEFINE p == write.peripheral
           k == write.setting
           s == [settings[p] EXCEPT ![k] = write.value]
<1>u. /\ order' = order /\ work' = work
      /\ ZoneSensor \in Peripherals => (InRead(ZoneSensor)' <=> InRead(ZoneSensor))
  BY DispatchFacts
<1>k. /\ DOMAIN settings = Peripherals /\ DOMAIN driver = Peripherals /\ DOMAIN device = Peripherals
  BY DEF I2cInv, ThreadInv
<1>1. /\ p \in Peripherals /\ Accepts(p, k, write.value) /\ settings' = [settings EXCEPT ![p] = s]
      /\ IF Handling(p, k) = "init"
         THEN Begun(p, driver[p].address, settings'[p]) /\ silent' = silent
         ELSE /\ CASE p = "display" -> Displayed(DisplayWritten(driver[p], k, write.value, now))
                   [] Handling(p, k) = "reset" ->
                        driver' = [driver EXCEPT ![p] = IF p = "bno085" THEN BnoForget(@) ELSE L5Reset(@)]
                   [] OTHER -> UNCHANGED driver
              /\ silent' = Unheard(p) /\ UNCHANGED device
  BY <1>k DEF WriteSetting
<1>2. CASE p # ZoneSensor
  <2>1. silent' = silent
    BY <1>1, <1>2 DEF Unheard, ZoneSensor
  <2>2. \A q \in Peripherals \ {p} : driver'[q] = driver[q] /\ device'[q] = device[q] /\ settings'[q] = settings[q]
    <3>1. CASE Handling(p, k) = "init"
      BY <1>1, <1>k, <3>1 DEF Begun
    <3>2. CASE Handling(p, k) # "init"
      BY <1>1, <1>k, <3>2 DEF Displayed
    <3> QED BY <3>1, <3>2
  <2> QED BY <1>2, <1>u, <2>1, <2>2, ZonesKept
<1>3. CASE p = ZoneSensor
  <2>1. p = "vl53l5cx" /\ p \in Peripherals
    BY <1>1, <1>3 DEF ZoneSensor
  <2>2. /\ IsL5Settings(settings[p]) /\ IsL5Driver(driver[p]) /\ device[p].input \in Measured
        /\ InRead(p) => work.sample \in Measured
        /\ DOMAIN settings[p] = DOMAIN L5Defaults
    BY <1>3, <2>1, ZoneKnown
  <2>3. settings'[p] = s /\ IsL5Settings(s) /\ (k = "resolution" => s.smoothing = settings[p].smoothing)
    <3>1. L5Accepts(k, write.value)
      BY <1>1, <2>1 DEF Accepts
    <3>2. IsL5Settings(s) /\ (k = "resolution" => s.smoothing = settings[p].smoothing)
      BY <2>2, <3>1, StoredL5Settings
    <3>3. settings'[p] = s
      BY <1>1, <1>k
    <3> QED BY <3>2, <3>3
  <2>4. Handling(p, k) = IF k = "resolution" THEN "init" ELSE "reset"
    BY <2>1 DEF Handling, L5Handling
  <2>5. CASE k = "resolution"
    <3>1. Begun(p, driver[p].address, settings'[p]) /\ silent' = silent
      BY <1>1, <2>4, <2>5
    <3>2. ZoneState(driver'[p], s, silent') /\ device'[p].input \in Measured
      BY <1>3, <2>1, <2>3, <2>5, <3>1, ZonesBegun
    <3> QED BY <1>3, <1>u, <2>2, <2>3, <3>2, ZonesHold
  <2>6. CASE k # "resolution"
    <3>1. driver' = [driver EXCEPT ![p] = L5Reset(@)] /\ silent' = Unheard(p) /\ device' = device
      BY <1>1, <2>1, <2>4, <2>6
    <3>2. driver'[p] = L5Reset(driver[p]) /\ silent' = AllNever
      BY <1>k, <2>1, <3>1 DEF Unheard, AllNever
    <3>3. ZoneState(driver'[p], s, silent')
      BY <2>2, <2>3, <3>2, L5ForgetsSound
    <3> QED BY <1>3, <1>u, <2>2, <2>3, <3>1, <3>3, ZonesHold
  <2> QED BY <2>5, <2>6
<1> QED BY <1>2, <1>3

LEMMA ZonesHandled ==
    ASSUME I2cInv, ZonesInv, DispatchFrame, FinishHandlerInit
    PROVE  ZonesInv'
<1>u. /\ order' = order /\ work' = work
      /\ ZoneSensor \in Peripherals => (InRead(ZoneSensor)' <=> InRead(ZoneSensor))
  BY DispatchFacts
<1>k. DOMAIN driver = Peripherals /\ DOMAIN device = Peripherals
  BY DEF I2cInv, ThreadInv
<1>1. handler \in Peripherals /\ settings' = settings
  BY DEF FinishHandlerInit, I2cInv, ThreadInv
<1>2. PICK answered \in BOOLEAN :
        \/ Initialized(handler, settings[handler], answered, Serving(handler) /\ pc = "init")
        \/ UNCHANGED <<driver, device, silent>>
  BY DEF FinishHandlerInit
<1>3. CASE UNCHANGED <<driver, device, silent>>
  BY <1>1, <1>3, <1>u, ZonesKept
<1>4. CASE Initialized(handler, settings[handler], answered, Serving(handler) /\ pc = "init")
  <2>1. CASE handler = ZoneSensor
    <3>1. ZoneState(driver'[ZoneSensor], settings[ZoneSensor], silent') /\ device'[ZoneSensor].input \in Measured
      BY <1>1, <1>4, <2>1, ZonesReady
    <3>2. InRead(ZoneSensor) => work.sample \in Measured
      BY <1>1, <2>1, ZoneKnown
    <3> QED BY <1>1, <1>u, <3>1, <3>2, ZonesHold
  <2>2. CASE handler # ZoneSensor
    <3>1. /\ driver' = [driver EXCEPT ![handler] = Ready(handler, @, settings[handler])]
          /\ device' = [device EXCEPT ![handler].regs = IF answered THEN Registers(handler, settings[handler]) ELSE @]
          /\ silent' = silent
      BY <1>4, <2>2 DEF Initialized, ZoneSensor
    <3>2. \A q \in Peripherals \ {handler} : driver'[q] = driver[q] /\ device'[q] = device[q]
      BY <1>k, <3>1
    <3> QED BY <1>1, <1>u, <2>2, <3>1, <3>2, ZonesKept
  <2> QED BY <2>1, <2>2
<1> QED BY <1>2, <1>3, <1>4

LEMMA ZonesDispatched == ASSUME I2cInv, ZonesInv, DispatcherStep PROVE ZonesInv'
<1>1. DispatchFrame
  BY DEF DispatcherStep, DispatchFrame
<1>u. /\ order' = order /\ work' = work
      /\ ZoneSensor \in Peripherals => (InRead(ZoneSensor)' <=> InRead(ZoneSensor))
  BY <1>1, DispatchFacts
<1>k. DOMAIN driver = Peripherals
  BY DEF I2cInv, ThreadInv
<1>2. ASSUME NEW p \in Peripherals, RefreshHost(p) PROVE ZonesInv'
  BY <1>2, <1>u, ZonesKept DEF RefreshHost
<1>3. ASSUME NEW v, Displayed(v), UNCHANGED <<settings, device, silent>> PROVE ZonesInv'
  <2>1. \A q \in Peripherals \ {"display"} : driver'[q] = driver[q]
    BY <1>3, <1>k DEF Displayed
  <2> QED BY <1>3, <1>u, <2>1, ZonesKept DEF ZoneSensor
<1>4. ASSUME NEW message \in Messages, ShowOnDisplay(message) PROVE ZonesInv'
  <2>1. UNCHANGED <<settings, device, silent>>
        /\ Displayed(ShowMessage(driver["display"], message.typeElement, message.valueElement, message, now))
    BY <1>4 DEF ShowOnDisplay
  <2> QED BY <1>3, <2>1
<1>5. ASSUME NEW value, ChangePreset(value) PROVE ZonesInv'
  <2>1. UNCHANGED <<settings, device, silent>> /\ Displayed(SetText(driver["display"], "preset", Presets[value + 2], now))
    BY <1>5 DEF ChangePreset
  <2> QED BY <1>3, <2>1
<1> QED BY <1>1, <1>2, <1>4, <1>5, ZonesWritten, ZonesHandled DEF DispatcherStep

\* The outside.
LEMMA ZonesOutside == ASSUME I2cInv, ZonesInv, OutsideStep PROVE ZonesInv'
<1>u. UNCHANGED <<order, turn, pc, work, driver, settings, silent>>
  BY DEF OutsideStep
<1>r. InRead(ZoneSensor)' <=> InRead(ZoneSensor)
  BY <1>u DEF InRead, Serving
<1>k. DOMAIN device = Peripherals /\ \A p \in Peripherals : IsDevice(p, device[p])
  BY DEF I2cInv, ThreadInv, PeripheralType
<1>1. ZoneSensor \in Peripherals =>
          device'[ZoneSensor].input = device[ZoneSensor].input \/ device'[ZoneSensor].input \in Measured
  <2>1. ASSUME NEW p \in Peripherals, Unplug(p)
        PROVE  \A q \in Peripherals : device'[q].input = device[q].input
    BY <1>k, <2>1 DEF Unplug, IsDevice
  <2>2. ASSUME NEW p \in Peripherals, NEW address, Plug(p, address)
        PROVE  \A q \in Peripherals : device'[q].input = device[q].input
    <3>1. device' = [device EXCEPT ![p].present = TRUE, ![p].at = address, ![p].regs = NoRegisters]
      BY <2>2 DEF Plug
    <3>2. \A q \in Peripherals \ {p} : device'[q] = device[q]
      BY <1>k, <3>1
    <3>3. device'[p] = [[[device[p] EXCEPT !.present = TRUE] EXCEPT !.at = address] EXCEPT !.regs = NoRegisters]
      BY <1>k, <3>1
    <3>4. device'[p].input = device[p].input
      BY <1>k, <3>3 DEF IsDevice
    <3> QED BY <3>2, <3>4
  <2>3. ASSUME NEW p \in Peripherals, NEW input \in Inputs[p], Stimulate(p, input), ZoneSensor \in Peripherals
        PROVE  device'[ZoneSensor].input = device[ZoneSensor].input \/ device'[ZoneSensor].input \in Measured
    <3>1. device' = [device EXCEPT ![p].input = input]
      BY <2>3 DEF Stimulate
    <3>2. CASE p = ZoneSensor
      <4>1. device'[ZoneSensor].input = input
        BY <1>k, <2>3, <3>1, <3>2 DEF IsDevice
      <4> QED BY <3>2, <4>1, I2cAssumption DEF ZoneSensor, Measured
    <3>3. CASE p # ZoneSensor
      BY <1>k, <2>3, <3>1, <3>3
    <3> QED BY <3>2, <3>3
  <2>4. Tick => device' = device
    BY DEF Tick
  <2> QED BY <2>1, <2>2, <2>3, <2>4 DEF OutsideStep
<1> QED BY <1>1, <1>r, <1>u, ZonesKept

LEMMA ZonesGate == ASSUME ZonesInv, GateStep \/ UNCHANGED i2cVars PROVE ZonesInv'
<1>1. UNCHANGED <<order, turn, pc, work, driver, settings, device, silent>>
  BY DEF GateStep, threadVars, i2cVars, ghosts
<1>2. InRead(ZoneSensor)' <=> InRead(ZoneSensor)
  BY <1>1 DEF InRead, Serving
<1> QED BY <1>1, <1>2, ZonesKept

LEMMA ZonesStart == I2cInit => ZonesInv
<1> SUFFICES ASSUME I2cInit, ZoneSensor \in Peripherals
             PROVE  /\ ZoneState(driver[ZoneSensor], settings[ZoneSensor], silent)
                    /\ device[ZoneSensor].input \in Measured
                    /\ InRead(ZoneSensor) => work.sample \in Measured
  BY DEF ZonesInv
<1> DEFINE s == settings[ZoneSensor]
<1>1. /\ Installed /\ pc = "idle"
      /\ driver = [p \in Peripherals |-> FreshDriver(p)] /\ silent = AllNever
  BY DEF I2cInit, AllNever
<1>2. IsL5Settings(s)
  <2>1. \A k \in DOMAIN L5Defaults : L5Accepts(k, s[k])
    BY <1>1 DEF Installed, Fields, Accepts, ZoneSensor
  <2>2. "resolution" \in DOMAIN L5Defaults /\ "smoothing" \in DOMAIN L5Defaults
    BY DEF L5Defaults
  <2> QED BY <2>1, <2>2 DEF L5Accepts, IsL5Settings
<1>3. device[ZoneSensor].input \in Measured
  BY <1>1, I2cAssumption DEF Installed, ZoneSensor, Measured
<1>4. driver[ZoneSensor] = L5Driver(FALSE, 1, NoFrames)
  BY <1>1 DEF FreshDriver, ZoneSensor, L5Fresh, L5Driver
<1>5. \A up : [L5Driver(up, 1, NoFrames) EXCEPT !.frames = NoFrames] = L5Driver(up, 1, NoFrames) /\ IsL5Driver(L5Driver(up, 1, NoFrames))
  BY L5DriverFields, L5DriverChanges DEF IsL5Driver
<1>6. L5Reset(driver[ZoneSensor]) = driver[ZoneSensor] /\ IsL5Driver(driver[ZoneSensor])
  BY <1>4, <1>5, Zenon DEF L5Reset
<1>7. ZoneState(driver[ZoneSensor], s, silent)
  BY <1>1, <1>2, <1>6, L5ForgetsSound
<1> QED BY <1>1, <1>3, <1>7 DEF InRead

\* What the grid shows is what was heard of not too long ago, for any grids, smoothings, orientations and frames.
THEOREM I2cZonesAccounted == I2cSpec => []ZonesAccounted
<1>1. I2cInv /\ ToldInv /\ ZonesInv /\ [I2cNext]_i2cVars => ZonesInv'
  BY ZonesGate, ZonesThread, ZonesDispatched, ZonesOutside DEF I2cNext
<1>2. ZonesInv => ZonesAccounted
  <2> SUFFICES ASSUME ZonesInv, ZoneSensor \in Peripherals
               PROVE  LET f == driver[ZoneSensor].frames
                      IN Cardinality(Shown(f))
                            = Cardinality({z \in AllZones : silent[z] <= HoldFrames[settings[ZoneSensor].smoothing]})
    BY DEF ZonesAccounted, ZoneSensor, Shown
  <2>1. FramesSound(driver[ZoneSensor].frames, settings[ZoneSensor], silent)
    BY DEF ZonesInv, ZoneState
  <2>2. Filtered(driver[ZoneSensor].frames) = {z \in AllZones : silent[z] <= HoldFrames[settings[ZoneSensor].smoothing]}
    BY <2>1 DEF FramesSound, Filtered
  <2> QED BY <2>1, <2>2 DEF FramesSound
<1> QED BY <1>1, <1>2, ZonesStart, I2cInvariant, ToldAlways, PTL DEF I2cSpec
-----------------------------------------------------------------------------
(* What a driver has to do.  HostUpToDate and ScreenShows say that what a  *)
(* device measures was told and what changed is drawn when it is calm for  *)
(* long enough.  Until it is, the driver is healthy and its next update is *)
(* at most so many ticks off, or the driver is on its way as Failing,      *)
(* Missing and Entering count.                                             *)

\* The only report of a sensor that is not missed and whose values are not smoothed
Reports(p) == BnoRegisters(settings[p]).reports
Followed(p) == p \notin mixed /\ p \notin unnoticed /\ Cardinality(Reports(p)) = 1 /\ settings[p].smoothing = "off"
Wanting(p) ==
    \/ p = "cap1188" /\ driver[p].last # device[p].input
    \/ p = "bno085" /\ Followed(p) /\ \E r \in Reports(p) : driver[p].told[r] # <<device[p].input[r]>>
    \/ p = "display" /\ Pending(driver[p]) # {}
Drawing(p) == p = "display" /\ InRead(p)
Late(p) == calm[p] > 0 /\ ~Drawing(p) /\ (~Healthy(p) \/ Wanting(p))

\* The next update is due in time,
Pressing(p) ==
    /\ calm[p] <= ProbeInterval + Interval[p] + 1
    /\ Served(p) \/ InRead(p) => now <= sched[p].update
    /\ ~InRead(p) => sched[p].update + calm[p] <= now + ProbeInterval + Interval[p]

\* and does what is to be done, since the driver told or drew nothing for as long.
Lately(p) ==
    IF p = "display" THEN {driver[p].refreshed} ELSE IF p = "bno085" THEN {driver[p].at[r] : r \in BnoReports} \ {0} ELSE {}
Attention(p) ==
    /\ Late(p) /\ Healthy(p) => Pressing(p)
    /\ \A t \in Lately(p) : t \in Nat /\ t <= now + 1 /\ (Late(p) => t + calm[p] <= now + 1)

LEMMA AttentionStays ==
    ASSUME I2cInv, NEW p \in Peripherals, Untouched(p), driver'[p] = driver[p], device'[p] = device[p], Attention(p)
    PROVE  Attention(p)'
<1>k. /\ now \in Nat /\ ProbeInterval \in Nat /\ Interval[p] \in Nat /\ calm[p] \in Nat
  BY Known
<1>1. /\ Untouched(p) /\ driver'[p] = driver[p] /\ device'[p] = device[p]
      /\ settings'[p] = settings[p] /\ sched'[p] = sched[p] /\ now' = now
  BY DEF Untouched
<1>2. (Wanting(p)' <=> Wanting(p)) /\ Lately(p)' = Lately(p)
  BY <1>1 DEF Wanting, Followed, Reports, Lately, Untouched
<1>3. (Healthy(p)' <=> Healthy(p)) /\ (Drawing(p)' <=> Drawing(p))
  BY <1>1 DEF Healthy, Drawing, Untouched
<1>4. calm'[p] = 0 \/ calm'[p] = calm[p]
  BY <1>1 DEF Untouched, Stays
<1>5. Late(p)' => Late(p) /\ calm'[p] = calm[p]
  BY <1>2, <1>3, <1>4 DEF Late
<1>6. Late(p)' /\ Healthy(p)' => Pressing(p)'
  <2> SUFFICES ASSUME Late(p)', Healthy(p)' PROVE Pressing(p)'
    OBVIOUS
  <2>1. Pressing(p) /\ calm'[p] = calm[p] /\ calm'[p] # 0
    BY <1>3, <1>5, <1>k DEF Attention, Late
  <2> QED BY <1>1, <2>1 DEF Pressing, Untouched
<1> QED BY <1>1, <1>2, <1>5, <1>6 DEF Attention

\* A step of its own that does not make it late
LEMMA AttentionKept ==
    ASSUME NEW p \in Peripherals, Attention(p), now' = now, Lately(p)' \subseteq Lately(p),
           \/ ~(calm'[p] > 0)
           \/ calm'[p] = calm[p] /\ (Late(p)' => Late(p)) /\ (Late(p)' /\ Healthy(p)' => Pressing(p)')
    PROVE  Attention(p)'
<1>1. CASE ~(calm'[p] > 0)
  <2>1. ~Late(p)'
    BY <1>1 DEF Late
  <2> QED BY <2>1 DEF Attention
<1>2. CASE calm'[p] = calm[p] /\ (Late(p)' => Late(p)) /\ (Late(p)' /\ Healthy(p)' => Pressing(p)')
  BY <1>2 DEF Attention
<1> QED BY <1>1, <1>2

\* The calm of a device is ended by what disturbs it, and by nothing else that is not a tick.
LEMMA AttentionTick ==
    ASSUME I2cInv, NoLostWakeup, OutsideFrame, Tick, NEW p \in Peripherals, Attention(p)
    PROVE  Attention(p)'
<1>k. /\ ThreadInv /\ PeripheralType(p)
      /\ now \in Nat /\ ProbeInterval \in Nat /\ Interval[p] \in Nat /\ calm[p] \in Nat
  BY Known
<1>u. UNCHANGED <<frozen, order, turn, pc, sched, driver, settings, handler, device, mixed, unnoticed>>
  BY DEF OutsideFrame, Tick, gateVars
<1>t. turn = 0 /\ now' = now + 1 /\ ran' = FALSE /\ (ran \/ (worker[I2cThread] = "take" /\ tokens = 0)) /\ gives = 0
  BY DEF Tick
<1>c. calm'[p] = IF device[p].present /\ handler # p /\ ~frozen THEN Min({MaxCalm, calm[p] + 1}) ELSE 0
  BY DEF Tick
<1>1. calm'[p] \in Nat /\ calm'[p] <= calm[p] + 1 /\ (calm'[p] > 0 => ~frozen)
  <2>1. MaxCalm \in Nat
    BY I2cAssumption
  <2> DEFINE m == Min({MaxCalm, calm[p] + 1})
  <2>2. m \in Nat /\ m <= calm[p] + 1
    BY <1>k, <2>1, LessOf
  <2>3. (calm'[p] = m /\ ~frozen) \/ calm'[p] = 0
    BY <1>c
  <2> HIDE DEF m
  <2> QED BY <1>k, <2>2, <2>3
<1>2. ~frozen => Served(p)
  BY <1>t, I2cAssumption DEF NoLostWakeup, Waiting, Served
<1>3. ~InRead(p) /\ ~InRead(p)' /\ ~Served(p)'
  BY <1>k, <1>t, <1>u DEF InRead, Served, ThreadInv
<1>4. /\ Healthy(p)' <=> Healthy(p)
      /\ Wanting(p)' <=> Wanting(p)
      /\ ~Drawing(p) /\ ~Drawing(p)' /\ Lately(p)' = Lately(p)
  BY <1>u, <1>3 DEF Healthy, Wanting, Followed, Reports, Drawing, Lately
<1>5. Late(p)' => calm[p] = 0 \/ Late(p)
  BY <1>k, <1>4 DEF Late
<1>s. sched[p].update \in Nat /\ sched[p].update <= now + Interval[p] /\ sched'[p].update = sched[p].update
  BY <1>k, <1>u DEF PeripheralType, IsSched
<1>6. ASSUME Late(p)', Healthy(p)' PROVE Pressing(p)'
  <2>1. calm'[p] > 0
    BY <1>6 DEF Late
  <2>2. CASE calm[p] = 0
    <3>1. calm'[p] = 1
      BY <1>1, <1>k, <2>1, <2>2
    <3> QED BY <1>k, <1>t, <1>s, <1>3, <3>1 DEF Pressing
  <2>3. CASE Late(p)
    <3>1. Pressing(p) /\ Served(p)
      BY <1>1, <1>2, <1>4, <1>6, <2>1, <2>3 DEF Attention
    <3>2. now <= sched[p].update /\ sched[p].update + calm[p] <= now + ProbeInterval + Interval[p]
      BY <1>3, <3>1 DEF Pressing
    <3> QED BY <1>1, <1>k, <1>t, <1>s, <1>3, <3>2 DEF Pressing
  <2> QED BY <1>5, <1>6, <2>2, <2>3
<1>7. ASSUME NEW t \in Lately(p)' PROVE t \in Nat /\ t <= now' + 1 /\ (Late(p)' => t + calm'[p] <= now' + 1)
  <2>1. t \in Nat /\ t <= now + 1 /\ (Late(p) => t + calm[p] <= now + 1)
    BY <1>4 DEF Attention
  <2>2. Late(p)' => t + calm[p] <= now + 1
    BY <1>5, <1>k, <2>1
  <2> QED BY <1>1, <1>k, <1>t, <2>1, <2>2
<1> QED BY <1>6, <1>7 DEF Attention

\* init() on the thread: what it leaves, and that the first update of a driver that it sets up is due at once.
LEMMA InitOutcome ==
    ASSUME I2cInv, NEW p \in Peripherals, Serving(p), pc = "init", FinishInit(p), ServeFrame
    PROVE  \E answered \in BOOLEAN :
              /\ Outcome(p, answered) /\ NextTurn /\ told' = told
              /\ \/ /\ IF p = "display" THEN Supported(work.cfg) ELSE answered
                    /\ Initialized(p, work.cfg, answered, handler = p \/ work.cfg # settings[p])
                    /\ sched' = [sched EXCEPT ![p].initialized = TRUE, ![p].update = now]
                 \/ /\ driver' = [driver EXCEPT ![p] = Deinit(p, @)]
                    /\ sched' = [sched EXCEPT ![p].update = now]
                    /\ device' = Stopped(p, driver[p])
                    /\ UNCHANGED <<screen, owed, mixed, unnoticed, forgotten>>
  BY DEF FinishInit

LEMMA InitPressing ==
    ASSUME I2cInv, NEW p \in Peripherals, Serving(p), pc = "init", FinishInit(p), ServeFrame
    PROVE  /\ ~Healthy(p) /\ ~InRead(p) /\ ~InRead(p)' /\ now' = now
           /\ calm'[p] = 0 \/ calm'[p] = calm[p]
           /\ calm'[p] > 0 /\ Healthy(p)' => Pressing(p)'
<1>k. /\ ThreadInv /\ PeripheralType(p) /\ PeripheralInv(p)
      /\ ProbeInterval \in Nat \ {0} /\ Interval[p] \in Nat \ {0} /\ now \in Nat /\ calm[p] \in Nat
  BY Known
<1>p. PICK answered \in BOOLEAN :
              /\ Outcome(p, answered) /\ NextTurn
              /\ \/ /\ IF p = "display" THEN Supported(work.cfg) ELSE answered
                    /\ sched' = [sched EXCEPT ![p].initialized = TRUE, ![p].update = now]
                 \/ /\ driver' = [driver EXCEPT ![p] = Deinit(p, @)]
                    /\ sched' = [sched EXCEPT ![p].update = now]
  BY InitOutcome
<1>1. InInit(p) /\ ~sched[p].initialized /\ ~InRead(p) /\ ~InRead(p)'
  BY <1>k, <1>p DEF InInit, InRead, NextTurn, PeripheralInv, HealInv
<1>2. now' = now
  BY DEF ServeFrame
<1>3. calm'[p] = 0 \/ (calm'[p] = calm[p] /\ answered = Answers(p))
  BY <1>p, OutcomeCalm
<1>4. ASSUME calm'[p] > 0, Healthy(p)' PROVE Pressing(p)'
  <2>1. calm'[p] = calm[p] /\ answered = Answers(p) /\ calm[p] > 0
    BY <1>3, <1>4
  <2>2. /\ IF p = "display" THEN Supported(work.cfg) ELSE answered
        /\ sched' = [sched EXCEPT ![p].initialized = TRUE, ![p].update = now]
    <3>1. CASE sched' = [sched EXCEPT ![p].update = now]
      <4>1. sched'[p].initialized = sched[p].initialized
        BY <1>k, <3>1 DEF ThreadInv, PeripheralType, IsSched
      <4> QED BY <1>1, <1>4, <4>1 DEF Healthy
    <3> QED BY <1>p, <3>1
  <2>3. ~Absent(p)
    <3> SUFFICES ASSUME Absent(p) PROVE FALSE
      OBVIOUS
    <3>1. CASE p = "display"
      BY <1>1, <2>2, <3>1 DEF Absent, Excused
    <3>2. CASE p # "display"
      BY <2>1, <2>2, <3>2, ExcusedUnanswered DEF Absent, Answers
    <3> QED BY <3>1, <3>2
  <2>4. Entering(p)
    BY <1>1, <1>k, <2>1, <2>3 DEF PeripheralInv, HealInv, Healthy, Failing, Missing
  <2>5. sched'[p].update = now
    BY <1>k, <2>2 DEF ThreadInv, PeripheralType, IsSched
  <2> QED BY <1>1, <1>2, <1>k, <2>1, <2>4, <2>5 DEF Entering, Pressing
<1> QED BY <1>1, <1>2, <1>3, <1>4 DEF Healthy

\* The steps that neither tell nor draw
LEMMA AttentionInit ==
    ASSUME I2cInv, NEW p \in Peripherals, Serving(p), pc = "init", FinishInit(p), ServeFrame, Attention(p),
           Lately(p)' \subseteq Lately(p)
    PROVE  Attention(p)'
<1>1. ~Healthy(p) /\ ~Drawing(p) /\ now' = now
  BY InitPressing DEF Drawing
<1>2. calm'[p] = 0 \/ calm'[p] = calm[p]
  BY InitPressing
<1>3. calm'[p] > 0 /\ Healthy(p)' => Pressing(p)'
  BY InitPressing
<1>4. Late(p)' => calm'[p] > 0
  BY DEF Late
<1>5. calm'[p] = calm[p] /\ calm'[p] > 0 => Late(p)
  BY <1>1 DEF Late
<1>6. \/ ~(calm'[p] > 0)
      \/ calm'[p] = calm[p] /\ (Late(p)' => Late(p)) /\ (Late(p)' /\ Healthy(p)' => Pressing(p)')
  BY <1>2, <1>3, <1>4, <1>5
<1> QED BY <1>1, <1>6, AttentionKept

LEMMA AttentionUnhealthy ==
    ASSUME NEW p \in Peripherals, Attention(p), now' = now, Lately(p)' \subseteq Lately(p),
           ~(calm'[p] > 0) \/ calm'[p] = calm[p], ~Healthy(p), ~Drawing(p), ~Healthy(p)'
    PROVE  Attention(p)'
<1>1. calm'[p] > 0 => calm'[p] = calm[p] /\ Late(p)
  BY DEF Late
<1>2. Late(p)' => calm'[p] > 0
  BY DEF Late
<1> QED BY <1>1, <1>2, AttentionKept

LEMMA AttentionIdle ==
    ASSUME I2cInv, NEW p \in Peripherals, Serving(p), pc = "idle", Probe(p) \/ UpdateDown(p), ServeFrame, Attention(p),
           Lately(p)' \subseteq Lately(p)
    PROVE  Attention(p)'
<1>k. ThreadInv /\ PeripheralType(p)
  BY Known
<1>1. calm' = calm /\ now' = now /\ ~Drawing(p)
  BY DEF Probe, UpdateDown, ghosts, ServeFrame, Drawing, InRead
<1>2. ~Healthy(p)
  BY DEF Probe, UpdateDown, Healthy
<1>3. ~Healthy(p)'
  <2>1. CASE Probe(p)
    <3>1. ~sched[p].initialized /\ sched' = [sched EXCEPT ![p].probe = now + ProbeInterval]
      BY <2>1 DEF Probe
    <3>2. ~sched'[p].initialized
      BY <1>k, <3>1 DEF ThreadInv, PeripheralType, IsSched
    <3> QED BY <3>2 DEF Healthy
  <2>2. CASE UpdateDown(p)
    <3>1. sched'[p].initialized = FALSE
      BY <1>k, <2>2 DEF UpdateDown, Dropped, ThreadInv
    <3> QED BY <3>1 DEF Healthy
  <2> QED BY <2>1, <2>2
<1> QED BY <1>1, <1>2, <1>3, AttentionUnhealthy

LEMMA AttentionPass ==
    ASSUME I2cInv, NEW p \in Peripherals, Serving(p), pc = "idle", Pass(p), ServeFrame, Attention(p)
    PROVE  Attention(p)'
<1>k. /\ ThreadInv /\ PeripheralType(p)
      /\ ProbeInterval \in Nat \ {0} /\ Interval[p] \in Nat \ {0} /\ now \in Nat /\ calm[p] \in Nat
  BY Known
<1>u. UNCHANGED <<now, driver, device, settings, calm, mixed, unnoticed>> /\ NextTurn
  BY DEF Pass, ServeFrame, ghosts
<1>1. ~InRead(p) /\ ~InRead(p)'
  BY <1>u DEF InRead, NextTurn
<1>2. /\ sched'[p].initialized = sched[p].initialized /\ sched'[p].update = sched[p].update
      /\ sched[p].initialized => now < sched[p].update
  <2>1. /\ sched' = [sched EXCEPT ![p].probe = IF now >= @ THEN now + ProbeInterval ELSE @]
        /\ now < IF sched[p].initialized THEN sched[p].update ELSE sched[p].probe
    BY DEF Pass
  <2> DEFINE n == IF now >= sched[p].probe THEN now + ProbeInterval ELSE sched[p].probe
  <2>2. sched'[p] = [sched[p] EXCEPT !.probe = n]
    BY <1>k, <2>1 DEF ThreadInv
  <2> HIDE DEF n
  <2>3. sched[p] = [initialized |-> sched[p].initialized, probe |-> sched[p].probe, update |-> sched[p].update]
    BY <1>k DEF PeripheralType, IsSched
  <2>4. sched'[p].initialized = sched[p].initialized /\ sched'[p].update = sched[p].update
    BY <2>2, <2>3
  <2> QED BY <2>1, <2>4
<1>3. /\ Wanting(p)' <=> Wanting(p)
      /\ Healthy(p)' <=> Healthy(p)
      /\ Drawing(p)' <=> Drawing(p)
      /\ Lately(p)' = Lately(p)
  BY <1>1, <1>2, <1>u DEF Wanting, Followed, Reports, Healthy, Drawing, Lately
<1>4. Late(p)' <=> Late(p)
  BY <1>3, <1>u DEF Late
<1>5. ASSUME Late(p)', Healthy(p)' PROVE Pressing(p)'
  <2>1. Pressing(p) /\ sched[p].initialized
    BY <1>3, <1>4, <1>5 DEF Attention, Healthy
  <2>2. now <= sched[p].update
    BY <1>k, <1>2, <2>1 DEF PeripheralType, IsSched
  <2> QED BY <1>1, <1>2, <1>u, <2>1, <2>2 DEF Pressing
<1> QED BY <1>3, <1>4, <1>5, <1>u, AttentionKept

\* What the thread is in the middle of is healthy, unless its calm ended.
LEMMA ReadingHealthy ==
    ASSUME I2cInv, NEW p \in Peripherals, InRead(p), calm[p] > 0
    PROVE  Healthy(p)
  BY Known DEF PeripheralInv, HealInv, Failing, Missing, Entering, Absent, InInit, InRead

\* It is read in time.
LEMMA AttentionReading ==
    ASSUME I2cInv, NEW p \in Peripherals, Serving(p), pc = "idle", sched[p].initialized, sched' = Rescheduled(p),
           ServeFrame, turn' = turn, pc' = "read", driver'[p] = driver[p], device' = device,
           UNCHANGED <<mixed, unnoticed>>, calm'[p] = 0 \/ calm'[p] = calm[p], p # "display", Attention(p)
    PROVE  Attention(p)'
<1>k. now \in Nat /\ ProbeInterval \in Nat /\ Interval[p] \in Nat \ {0} /\ calm[p] \in Nat
  BY Known
<1>1. sched'[p].initialized /\ sched'[p].update = now + Interval[p]
  BY RescheduledFacts
<1>2. InRead(p)' /\ now' = now /\ settings' = settings
  BY DEF ServeFrame, InRead, Serving
<1>3. /\ Wanting(p)' <=> Wanting(p)
      /\ Healthy(p)' <=> Healthy(p)
      /\ ~Drawing(p) /\ ~Drawing(p)' /\ Lately(p)' = Lately(p)
  BY <1>1, <1>2 DEF Wanting, Followed, Reports, Healthy, Drawing, Lately
<1>4. ASSUME calm'[p] = calm[p] PROVE (Late(p)' => Late(p)) /\ (Late(p)' /\ Healthy(p)' => Pressing(p)')
  <2>1. Late(p)' <=> Late(p)
    BY <1>3, <1>4 DEF Late
  <2>2. ASSUME Late(p), Healthy(p) PROVE Pressing(p)'
    <3>1. Pressing(p)
      BY <2>2 DEF Attention
    <3> QED BY <1>1, <1>2, <1>4, <1>k, <3>1 DEF Pressing
  <2> QED BY <1>3, <2>1, <2>2
<1>5. calm'[p] = 0 => ~(calm'[p] > 0)
  OBVIOUS
<1> QED BY <1>2, <1>3, <1>4, <1>5, AttentionKept

-----------------------------------------------------------------------------
(* The touch sensor.  The host knows of each pad what the driver knows,    *)
(* and the driver what it read last.                                       *)

TouchSensor == "cap1188"
IsCap(v) == {"up", "address", "last"} \subseteq DOMAIN v
Believed(pad) == <<"touch", pad>> \in DOMAIN told[TouchSensor] /\ told[TouchSensor][<<"touch", pad>>]
HostKnows == \A pad \in Pads : <<"touch", pad>> \notin forgotten => (Believed(pad) <=> pad \in driver[TouchSensor].last)
TouchState ==
    /\ IsCap(driver[TouchSensor])
    /\ HostKnows
    /\ InRead(TouchSensor) /\ calm[TouchSensor] > 0 => work.sample = device[TouchSensor].input
    /\ Attention(TouchSensor)
TouchInv == TouchSensor \in Peripherals => TouchState

\* The operations leave what was read last, or forget it.
LEMMA CapShapes ==
    ASSUME NEW v, IsCap(v)
    PROVE  /\ IsCap(CapDeinit(v)) /\ CapDeinit(v).last = v.last
           /\ IsCap(CapReady(v)) /\ CapReady(v).last = {}
  BY DEF IsCap, CapDeinit, CapReady

LEMMA CapStartShape ==
    ASSUME NEW v, IsCap(v), NEW a
    PROVE  IsCap([CapStart(v) EXCEPT !.address = a]) /\ [CapStart(v) EXCEPT !.address = a].last = v.last
  BY DEF IsCap, CapStart

LEMMA CapProcessShape ==
    ASSUME NEW v, IsCap(v), NEW status
    PROVE  IsCap(CapProcess(v, status).v) /\ CapProcess(v, status).v.last = status
  BY DEF IsCap, CapProcess

\* Each pad that changed is told as the sensor measured it.
LEMMA CapOut ==
    ASSUME NEW v, NEW status, NEW changed, changed = (status \ v.last) \cup (v.last \ status)
    PROVE  /\ DOMAIN CapProcess(v, status).out = {<<"touch", pad>> : pad \in changed}
           /\ \A pad \in changed : CapProcess(v, status).out[<<"touch", pad>>] <=> pad \in status
<1> DEFINE out == CapProcess(v, status).out
<1>1. out = [topic \in {<<"touch", pad>> : pad \in changed} |-> topic[2] \in status]
  BY DEF CapProcess
<1> HIDE DEF out
<1>2. ASSUME NEW pad \in changed PROVE out[<<"touch", pad>>] <=> pad \in status
  <2>1. <<"touch", pad>> \in {<<"touch", x>> : x \in changed}
    OBVIOUS
  <2>2. out[<<"touch", pad>>] = (<<"touch", pad>>[2] \in status)
    BY <1>1, <2>1
  <2> QED BY <2>2
<1>3. DOMAIN out = {<<"touch", pad>> : pad \in changed}
  BY <1>1
<1> QED BY <1>2, <1>3 DEF out

LEMMA TouchKnown ==
    ASSUME I2cInv, ToldInv, NEW p \in Peripherals
    PROVE  DOMAIN driver = Peripherals /\ DOMAIN told = Peripherals /\ DOMAIN calm = Peripherals /\ DOMAIN device = Peripherals
  BY DEF I2cInv, ThreadInv, ToldInv

LEMMA TellFacts ==
    ASSUME NEW p \in DOMAIN told, NEW out, Tell(p, out)
    PROVE  /\ DOMAIN told'[p] = DOMAIN told[p] \cup DOMAIN out
           /\ \A topic \in DOMAIN out : told'[p][topic] = out[topic]
           /\ \A topic \in DOMAIN told[p] \ DOMAIN out : told'[p][topic] = told[p][topic]
<1>1. told'[p] = Learned(told[p], out)
  BY DEF Tell
<1> QED BY <1>1 DEF Learned

\* What is not told or forgotten stays so, as long as the driver does not read.
LEMMA HostKept ==
    ASSUME HostKnows, told'[TouchSensor] = told[TouchSensor], forgotten' = forgotten,
           driver'[TouchSensor].last = driver[TouchSensor].last
    PROVE  HostKnows'
  BY DEF HostKnows, Believed

\* What is told of some pads is what the driver knows of them.
LEMMA HostTold ==
    ASSUME ToldInv, HostKnows, TouchSensor \in Peripherals, NEW out, Tell(TouchSensor, out),
           NEW changed, DOMAIN out = {<<"touch", pad>> : pad \in changed},
           NEW last, \A pad \in changed : out[<<"touch", pad>>] <=> pad \in last,
           \A pad \in Pads \ changed : pad \in last <=> pad \in driver[TouchSensor].last,
           driver'[TouchSensor].last = last
    PROVE  HostKnows'
<1>1. forgotten' = forgotten \ DOMAIN out
  BY DEF Tell, TouchSensor
<1>2. \A topic \in DOMAIN out : topic \in DOMAIN told'[TouchSensor] /\ told'[TouchSensor][topic] = out[topic]
  BY TellFacts DEF ToldInv
<1>3. DOMAIN told'[TouchSensor] = DOMAIN told[TouchSensor] \cup DOMAIN out
      /\ \A topic \in DOMAIN told[TouchSensor] \ DOMAIN out : told'[TouchSensor][topic] = told[TouchSensor][topic]
  BY TellFacts DEF ToldInv
<1>4. ASSUME NEW pad \in Pads, <<"touch", pad>> \notin forgotten' PROVE Believed(pad)' <=> pad \in last
  <2>1. CASE pad \in changed
    <3>1. <<"touch", pad>> \in DOMAIN out
      BY <2>1
    <3>2. told'[TouchSensor][<<"touch", pad>>] = out[<<"touch", pad>>] /\ <<"touch", pad>> \in DOMAIN told'[TouchSensor]
      BY <1>2, <3>1
    <3> QED BY <2>1, <3>2 DEF Believed
  <2>2. CASE pad \notin changed
    <3>1. <<"touch", pad>> \notin DOMAIN out
      BY <2>2
    <3>2. <<"touch", pad>> \notin forgotten
      BY <1>1, <1>4, <3>1
    <3>3. Believed(pad)' <=> Believed(pad)
      BY <1>3, <3>1 DEF Believed
    <3> QED BY <2>2, <3>2, <3>3 DEF HostKnows
  <2> QED BY <2>1, <2>2
<1> QED BY <1>4 DEF HostKnows

\* The thread
LEMMA TouchFinishInit ==
    ASSUME I2cInv, ToldInv, NEW p \in Peripherals, p = TouchSensor, TouchState, Serving(p), pc = "init", FinishInit(p), ServeFrame
    PROVE  TouchState'
<1>k. DOMAIN driver = Peripherals /\ DOMAIN told = Peripherals
  BY TouchKnown
<1>1. PICK answered \in BOOLEAN :
              /\ NextTurn /\ told' = told
              /\ \/ Initialized(p, work.cfg, answered, handler = p \/ work.cfg # settings[p])
                 \/ /\ driver' = [driver EXCEPT ![p] = Deinit(p, @)]
                    /\ UNCHANGED forgotten
  BY InitOutcome
<1>2. ~InRead(p)'
  BY <1>1 DEF InRead, NextTurn
<1>3. CASE Initialized(p, work.cfg, answered, handler = p \/ work.cfg # settings[p])
  <2>1. /\ driver'[p] = CapReady(driver[p])
        /\ forgotten' = {topic \in DOMAIN told[p] : told[p][topic]}
    BY <1>3, <1>k DEF Initialized, Ready, TouchSensor
  <2>2. IsCap(driver'[p]) /\ driver'[p].last = {}
    BY <2>1, CapShapes DEF TouchState
  <2>3. HostKnows'
    BY <1>1, <2>1, <2>2 DEF HostKnows, Believed
  <2> QED BY <2>2, <2>3, <1>2, AttentionInit DEF TouchState, Lately, TouchSensor
<1>4. CASE driver' = [driver EXCEPT ![p] = Deinit(p, @)] /\ UNCHANGED forgotten
  <2>1. driver'[p] = CapDeinit(driver[p])
    BY <1>4, <1>k DEF Deinit, TouchSensor
  <2>2. IsCap(driver'[p]) /\ driver'[p].last = driver[p].last
    BY <2>1, CapShapes DEF TouchState
  <2>3. HostKnows'
    BY <1>1, <1>4, <2>2, HostKept DEF TouchState
  <2> QED BY <2>2, <2>3, <1>2, AttentionInit DEF TouchState, Lately, TouchSensor
<1> QED BY <1>1, <1>3, <1>4

LEMMA TouchFinishUpdate ==
    ASSUME I2cInv, ToldInv, NEW p \in Peripherals, p = TouchSensor, TouchState, Serving(p), pc = "read", FinishUpdate(p), ServeFrame
    PROVE  TouchState'
<1>k. DOMAIN driver = Peripherals /\ DOMAIN told = Peripherals
  BY TouchKnown
<1> DEFINE v == driver[p]
           out == CapProcess(v, work.sample).out
           changed == (work.sample \ v.last) \cup (v.last \ work.sample)
<1>1. PICK answered \in BOOLEAN :
        LET done == Process(p, driver[p], settings[p], answered)
        IN /\ IF ReadsLast(p) THEN Outcome(p, answered) ELSE answered /\ UNCHANGED <<left, calm>>
           /\ Tell(p, done.out)
           /\ IF done.ok
              THEN driver' = [driver EXCEPT ![p] = done.v] /\ UNCHANGED <<sched, device>>
              ELSE Dropped(p, done.v)
           /\ NextTurn
           /\ UNCHANGED <<mixed, unnoticed>>
  BY DEF FinishUpdate
<1>2. Process(p, driver[p], settings[p], answered) = [v |-> CapProcess(v, work.sample).v, out |-> out, ok |-> answered]
  BY DEF Process, Answering, TouchSensor
<1>3. /\ Outcome(p, answered)
      /\ Tell(p, out)
      /\ answered => driver' = [driver EXCEPT ![p] = CapProcess(v, work.sample).v] /\ UNCHANGED <<sched, device>>
      /\ ~answered => Dropped(p, CapProcess(v, work.sample).v)
      /\ NextTurn
  BY <1>1, <1>2 DEF ReadsLast, TouchSensor
<1>4. IsCap(CapProcess(v, work.sample).v) /\ CapProcess(v, work.sample).v.last = work.sample
  BY CapProcessShape DEF TouchState
<1>5. IsCap(driver'[p]) /\ driver'[p].last = work.sample
  <2>1. CASE answered
    BY <1>3, <1>4, <1>k, <2>1
  <2>2. CASE ~answered
    <3>1. driver'[p] = CapDeinit(CapProcess(v, work.sample).v)
      BY <1>3, <1>k, <2>2 DEF Dropped, Deinit, TouchSensor
    <3> QED BY <1>4, <3>1, CapShapes
  <2> QED BY <2>1, <2>2
<1>6. HostKnows'
  <2>1. DOMAIN out = {<<"touch", pad>> : pad \in changed} /\ \A pad \in changed : out[<<"touch", pad>>] <=> pad \in work.sample
    BY CapOut
  <2>3. \A pad \in Pads \ changed : pad \in work.sample <=> pad \in v.last
    OBVIOUS
  <2> HIDE DEF out, changed
  <2>4. Tell(TouchSensor, out) /\ HostKnows /\ TouchSensor \in Peripherals
    BY <1>3 DEF TouchState
  <2> QED BY <1>5, <2>1, <2>3, <2>4, HostTold
<1>7. Attention(p)'
  <2>1. calm'[p] = 0 \/ (calm'[p] = calm[p] /\ answered = Answers(p))
    BY <1>3, OutcomeCalm
  <2>2. ASSUME calm'[p] > 0 PROVE ~Late(p)'
    <3>1. InRead(p) /\ calm[p] > 0 /\ calm'[p] = calm[p]
      BY <2>1, <2>2 DEF InRead
    <3>2. Healthy(p)
      BY <3>1, ReadingHealthy
    <3>3. answered
      BY <2>1, <2>2, <3>1, <3>2, AnswersThere DEF Faithful, TouchSensor
    <3>4. device' = device /\ sched' = sched
      BY <1>3, <3>3
    <3>5. work.sample = device'[p].input
      BY <3>1, <3>4 DEF TouchState
    <3>6. ~Wanting(p)'
      BY <1>5, <3>5 DEF Wanting, TouchSensor
    <3>7. driver'[p].up = driver[p].up /\ driver'[p].address = driver[p].address
      BY <1>3, <1>k, <3>3 DEF TouchState, IsCap, CapProcess
    <3>8. Healthy(p)'
      BY <3>2, <3>4, <3>7 DEF Healthy
    <3> QED BY <3>6, <3>8 DEF Late
  <2> QED BY <2>1, <2>2, AttentionKept DEF ServeFrame, TouchState, Lately, TouchSensor
<1>8. ~InRead(p)'
  BY <1>3 DEF InRead, NextTurn
<1> QED BY <1>5, <1>6, <1>7, <1>8 DEF TouchState

LEMMA TouchIdle ==
    ASSUME I2cInv, ToldInv, NEW p \in Peripherals, p = TouchSensor, TouchState, Serving(p), pc = "idle", ServeFrame,
           Probe(p) \/ UpdateDown(p) \/ Pass(p)
    PROVE  TouchState'
<1>k. DOMAIN driver = Peripherals
  BY TouchKnown
<1>1. told' = told /\ forgotten' = forgotten /\ calm' = calm
  BY DEF Probe, UpdateDown, Pass, ghosts
<1>2. ~InRead(p)'
  BY DEF Probe, UpdateDown, Pass, InRead, NextTurn
<1>3. IsCap(driver'[p]) /\ driver'[p].last = driver[p].last
  <2>1. CASE driver' = driver
    BY <2>1 DEF TouchState
  <2>2. CASE Begun(p, Found(p), settings[p])
    <3>1. driver'[p] = [CapStart(driver[p]) EXCEPT !.address = Found(p)]
      BY <1>k, <2>2 DEF Begun, Start, TouchSensor
    <3> QED BY <3>1, CapStartShape DEF TouchState
  <2>3. CASE Dropped(p, driver[p])
    <3>1. driver'[p] = CapDeinit(driver[p])
      BY <1>k, <2>3 DEF Dropped, Deinit, TouchSensor
    <3> QED BY <3>1, CapShapes DEF TouchState
  <2> QED BY <2>1, <2>2, <2>3 DEF Probe, UpdateDown, Pass
<1>4. HostKnows'
  BY <1>1, <1>3, HostKept DEF TouchState
<1>5. Attention(p)'
  BY AttentionIdle, AttentionPass DEF TouchState, Lately, TouchSensor
<1> QED BY <1>2, <1>3, <1>4, <1>5 DEF TouchState

\* A read that fails ends the calm or that of the driver.
LEMMA TouchUnread ==
    ASSUME I2cInv, ToldInv, NEW p \in Peripherals, p = TouchSensor, TouchState, Serving(p), pc = "idle", ServeFrame, UpdateUnread(p)
    PROVE  TouchState'
<1>k. DOMAIN driver = Peripherals /\ DOMAIN sched = Peripherals /\ calm[p] \in Nat
  BY TouchKnown, Known DEF I2cInv, ThreadInv
<1> DEFINE result == Unread(p, driver[p], settings[p])
<1>1. result.v = driver[p] /\ result.ok = FALSE
  BY DEF Unread, TouchSensor
<1>u. /\ FirstRead(p, FALSE) /\ NextTurn /\ told' = told
      /\ result.ok \/ Dropped(p, result.v)
  BY DEF UpdateUnread
<1> HIDE DEF result
<1>2. Dropped(p, driver[p]) /\ Outcome(p, FALSE) /\ NextTurn /\ told' = told
  BY <1>1, <1>u DEF FirstRead, ReadsFirst, TouchSensor
<1>3. forgotten' = forgotten
  BY DEF UpdateUnread
<1>4. driver'[p] = CapDeinit(driver[p]) /\ sched'[p].initialized = FALSE
  BY <1>k, <1>2 DEF Dropped, Deinit, TouchSensor
<1>5. IsCap(driver'[p]) /\ driver'[p].last = driver[p].last
  BY <1>4, CapShapes DEF TouchState
<1>6. HostKnows'
  BY <1>2, <1>3, <1>5, HostKept DEF TouchState
<1>7. ~InRead(p)' /\ ~InRead(p)
  BY <1>2 DEF InRead, NextTurn
<1>8. calm'[p] = 0 \/ (calm'[p] = calm[p] /\ ~Answers(p))
  BY <1>2, OutcomeCalm
<1>9. Attention(p)'
  <2>1. CASE calm'[p] = 0
    BY <2>1, AttentionKept DEF ServeFrame, TouchState, Lately, TouchSensor
  <2>2. CASE calm'[p] = calm[p] /\ calm[p] > 0
    <3>1. ~Healthy(p)
      BY <1>8, <1>k, <2>2, AnswersThere DEF Faithful, TouchSensor
    <3>2. ~Healthy(p)'
      BY <1>4 DEF Healthy
    <3> QED BY <1>7, <2>2, <3>1, <3>2, AttentionUnhealthy DEF ServeFrame, TouchState, Lately, TouchSensor, Drawing
  <2> QED BY <1>8, <1>k, <2>1, <2>2
<1> QED BY <1>5, <1>6, <1>7, <1>9 DEF TouchState

LEMMA TouchRead ==
    ASSUME I2cInv, ToldInv, NEW p \in Peripherals, p = TouchSensor, TouchState, Serving(p), pc = "idle", ServeFrame, UpdateRead(p)
    PROVE  TouchState'
<1>1. Samples(p) = {device[p].input} /\ Samples(p) # {}
  BY DEF Samples, TouchSensor
<1>2. PICK sample \in Samples(p) : work' = [drawn |-> {}, sample |-> sample, was |-> settings[p]]
  BY <1>1 DEF UpdateRead
<1>3. work'.sample = device[p].input
  BY <1>1, <1>2
<1>4. /\ UNCHANGED <<driver, told, forgotten, mixed, unnoticed, device, turn>> /\ sched' = Rescheduled(p) /\ sched[p].initialized
      /\ pc' = "read" /\ Outcome(p, TRUE)
  BY <1>1 DEF UpdateRead, UpdateDue, FirstRead, ReadsFirst, TouchSensor
<1>5. HostKnows'
  BY <1>4, HostKept DEF TouchState
<1>6. calm' = calm
  BY <1>4, OutcomeCalm
<1>7. Attention(p)'
  BY <1>4, <1>6, AttentionReading DEF TouchState, TouchSensor
<1> QED BY <1>3, <1>4, <1>5, <1>7 DEF TouchState

LEMMA TouchServed ==
    ASSUME I2cInv, ToldInv, NEW p \in Peripherals, p = TouchSensor, TouchState, Serving(p), ServeFrame, ServedStep(p)
    PROVE  TouchState'
<1>1. ~UpdateDisplay(p)
  BY DEF UpdateDisplay, TouchSensor
<1> QED BY <1>1, TouchFinishInit, TouchFinishUpdate, TouchIdle, TouchUnread, TouchRead DEF ServedStep

\* Each pad is told as the driver knows it.
LEMMA CapRefreshed ==
    ASSUME NEW v, NEW shown, shown = IF v.up THEN Pads ELSE {}
    PROVE  /\ DOMAIN CapRefresh(v) = {<<"touch", pad>> : pad \in shown}
           /\ \A pad \in shown : CapRefresh(v)[<<"touch", pad>>] <=> pad \in v.last
<1> DEFINE out == CapRefresh(v)
<1>1. out = [topic \in {<<"touch", pad>> : pad \in shown} |-> topic[2] \in v.last]
  BY DEF CapRefresh
<1> HIDE DEF out
<1>2. ASSUME NEW pad \in shown PROVE out[<<"touch", pad>>] <=> pad \in v.last
  <2>1. <<"touch", pad>> \in {<<"touch", x>> : x \in shown}
    OBVIOUS
  <2>2. out[<<"touch", pad>>] = (<<"touch", pad>>[2] \in v.last)
    BY <1>1, <2>1
  <2> QED BY <2>2
<1>3. DOMAIN out = {<<"touch", pad>> : pad \in shown}
  BY <1>1
<1> QED BY <1>2, <1>3 DEF out

\* The dispatcher
LEMMA TouchDispatched ==
    ASSUME I2cInv, ToldInv, NEW p \in Peripherals, p = TouchSensor, TouchState, DispatchFrame,
           \/ \E write \in Writes : write.peripheral = p /\ WriteSetting(write)
           \/ handler = p /\ FinishHandlerInit
           \/ RefreshHost(p)
    PROVE  TouchState'
<1>k. DOMAIN driver = Peripherals /\ DOMAIN told = Peripherals /\ DOMAIN calm = Peripherals
  BY TouchKnown
<1>f. UNCHANGED <<now, turn, pc, work, order, sched, ran, frozen>>
  BY DEF DispatchFrame, threadVars, gateVars
<1>r. InRead(p)' <=> InRead(p)
  BY <1>f DEF InRead, Serving
<1>1. ASSUME NEW write \in Writes, write.peripheral = p, WriteSetting(write) PROVE TouchState'
  <2> DEFINE stored == [settings EXCEPT ![p][write.setting] = write.value]
  <2>1. Handling(p, write.setting) = "init"
    BY DEF Handling, CapHandling, TouchSensor
  <2>2. /\ calm' = [calm EXCEPT ![p] = 0] /\ told' = told /\ forgotten' = forgotten
        /\ Begun(p, driver[p].address, stored[p])
    BY <1>1, <2>1 DEF WriteSetting
  <2> HIDE DEF stored
  <2>3. driver'[p] = [CapStart(driver[p]) EXCEPT !.address = driver[p].address]
    BY <1>k, <2>2 DEF Begun, Start, TouchSensor
  <2>4. IsCap(driver'[p]) /\ driver'[p].last = driver[p].last
    BY <2>3, CapStartShape DEF TouchState
  <2>5. ~(calm'[p] > 0)
    BY <1>k, <2>2
  <2>6. HostKnows'
    BY <2>2, <2>4, HostKept DEF TouchState
  <2>7. Attention(p)'
    BY <1>f, <2>5, AttentionKept DEF TouchState, Lately, TouchSensor
  <2> QED BY <2>4, <2>5, <2>6, <2>7 DEF TouchState
<1>2. ASSUME handler = p, FinishHandlerInit PROVE TouchState'
  <2>1. PICK answered \in BOOLEAN :
          /\ Outcome(p, answered)
          /\ \/ Initialized(p, settings[p], answered, Serving(p) /\ pc = "init")
             \/ UNCHANGED <<driver, forgotten>>
    BY <1>2 DEF FinishHandlerInit, TouchSensor
  <2>2. told' = told
    BY <1>2 DEF FinishHandlerInit
  <2>3. ~(calm'[p] > 0)
    <3>1. ~(calm[p] > 0)
      BY <1>2, Known DEF PeripheralInv, CalmInv
    <3> QED BY <2>1, <3>1, OutcomeCalm
  <2>4. IsCap(driver'[p]) /\ HostKnows'
    <3>1. CASE UNCHANGED <<driver, forgotten>>
      BY <2>2, <3>1, HostKept DEF TouchState
    <3>2. CASE Initialized(p, settings[p], answered, Serving(p) /\ pc = "init")
      <4>1. driver'[p] = CapReady(driver[p]) /\ forgotten' = {topic \in DOMAIN told[p] : told[p][topic]}
        BY <1>k, <3>2 DEF Initialized, Ready, TouchSensor
      <4>2. IsCap(driver'[p]) /\ driver'[p].last = {}
        BY <4>1, CapShapes DEF TouchState
      <4> QED BY <2>2, <4>1, <4>2 DEF HostKnows, Believed
    <3> QED BY <2>1, <3>1, <3>2
  <2>5. Attention(p)'
    BY <1>f, <2>3, AttentionKept DEF TouchState, Lately, TouchSensor
  <2> QED BY <2>3, <2>4, <2>5 DEF TouchState
<1>3. ASSUME RefreshHost(p) PROVE TouchState'
  <2>1. UNCHANGED <<driver, settings, handler, device, calm, mixed, unnoticed>> /\ Tell(p, Refreshed(p))
    BY <1>3 DEF RefreshHost
  <2> DEFINE shown == IF driver[p].up THEN Pads ELSE {}
             out == CapRefresh(driver[p])
  <2>2. Tell(p, out)
    BY <2>1 DEF Refreshed, TouchSensor
  <2>3. DOMAIN out = {<<"touch", pad>> : pad \in shown} /\ \A pad \in shown : out[<<"touch", pad>>] <=> pad \in driver[p].last
    BY CapRefreshed
  <2> HIDE DEF out, shown
  <2>4. HostKnows'
    BY <2>1, <2>2, <2>3, HostTold DEF TouchState
  <2>5. Untouched(p)
    BY <1>f, <2>1 DEF Untouched, Stays, Served, InInit, InRead, Serving
  <2>6. Attention(p)'
    BY <2>1, <2>5, AttentionStays DEF TouchState
  <2> QED BY <1>f, <1>r, <2>1, <2>4, <2>6 DEF TouchState
<1> QED BY <1>1, <1>2, <1>3

\* What happens to a device ends its calm.
LEMMA Disturbed ==
    ASSUME NEW p, NEW address, NEW input, Unplug(p) \/ Plug(p, address) \/ Stimulate(p, input)
    PROVE  calm' = [calm EXCEPT ![p] = 0] /\ now' = now
  BY DEF Unplug, Plug, Stimulate

\* The outside
LEMMA TouchOutside ==
    ASSUME I2cInv, ToldInv, NoLostWakeup, NEW p \in Peripherals, p = TouchSensor, TouchState, OutsideFrame,
           \/ Unplug(p)
           \/ \E address \in 1 .. AddressCount[p] : Plug(p, address)
           \/ \E input \in Inputs[p] : Stimulate(p, input)
           \/ Tick
    PROVE  TouchState'
<1>k. DOMAIN calm = Peripherals
  BY TouchKnown
<1>f. UNCHANGED <<driver, told, forgotten>>
  BY DEF OutsideFrame
<1>1. HostKnows'
  BY <1>f, HostKept DEF TouchState
<1>2. CASE Tick
  <2>1. turn' = 0
    BY <1>2 DEF Tick, OutsideFrame
  <2>2. ~InRead(p)'
    BY <2>1, Known DEF InRead, Serving, OutsideFrame, ThreadInv, gateVars
  <2> QED BY <1>1, <1>2, <1>f, <2>2, AttentionTick DEF TouchState
<1>3. CASE ~Tick
  <2>1. calm' = [calm EXCEPT ![p] = 0] /\ now' = now
    BY <1>3, Disturbed
  <2>2. ~(calm'[p] > 0)
    BY <1>k, <2>1
  <2>3. Attention(p)'
    BY <2>1, <2>2, AttentionKept DEF TouchState, Lately, TouchSensor
  <2> QED BY <1>1, <1>f, <2>2, <2>3 DEF TouchState
<1> QED BY <1>2, <1>3

LEMMA TouchHolds ==
    ASSUME I2cInv, ToldInv, NoLostWakeup, TouchInv, [I2cNext]_i2cVars
    PROVE  TouchInv'
<1>1. order' = order
  BY DEF I2cNext, GateStep, ThreadStep, DispatcherStep, OutsideStep, i2cVars
<1>2. SUFFICES ASSUME TouchSensor \in Peripherals PROVE TouchState'
  BY <1>1, PeripheralsStay DEF TouchInv
<1>3. PICK p \in Peripherals : p = TouchSensor
  BY <1>2
<1>4. TouchState
  BY <1>2 DEF TouchInv
<1>5. CASE Alone(p)
  <2>1. /\ Untouched(p) /\ driver'[p] = driver[p] /\ device'[p] = device[p] /\ told'[p] = told[p] /\ forgotten' = forgotten
        /\ InRead(p) => work' = work
    BY <1>3, <1>5 DEF Alone, TouchSensor
  <2>2. HostKnows'
    BY <1>3, <1>4, <2>1, HostKept DEF TouchState
  <2>3. Attention(p)'
    BY <1>3, <1>4, <2>1, AttentionStays DEF TouchState
  <2>4. InRead(p)' /\ calm'[p] > 0 => InRead(p) /\ calm[p] > 0
    BY <2>1 DEF Untouched, Stays
  <2> QED BY <1>3, <1>4, <2>1, <2>2, <2>3, <2>4 DEF TouchState
<1>6. CASE OwnStep(p)
  <2>1. "display" # p
    BY <1>3 DEF TouchSensor
  <2> QED BY <1>3, <1>4, <1>6, <2>1, TouchServed, TouchDispatched, TouchOutside DEF OwnStep
<1> QED BY <1>5, <1>6, Whose

LEMMA TouchStart == I2cInit => TouchInv
<1> SUFFICES ASSUME I2cInit, TouchSensor \in Peripherals PROVE TouchState
  BY DEF TouchInv
<1>1. /\ driver[TouchSensor] = CapFresh /\ told[TouchSensor] = <<>> /\ calm[TouchSensor] = 0 /\ pc = "idle"
  BY DEF I2cInit, FreshDriver, TouchSensor
<1>2. IsCap(CapFresh) /\ CapFresh.last = {}
  BY DEF IsCap, CapFresh
<1>3. HostKnows
  BY <1>1, <1>2 DEF HostKnows, Believed
<1>4. Attention(TouchSensor)
  BY <1>1 DEF Attention, Late, Lately, TouchSensor
<1> QED BY <1>1, <1>2, <1>3, <1>4 DEF TouchState, InRead

\* What has been calm for long enough is told.
LEMMA TouchSettled ==
    ASSUME I2cInv, TouchInv, TouchSensor \in Peripherals, Settled(TouchSensor), driver[TouchSensor].up,
           NEW pad \in Pads, <<"touch", pad>> \notin forgotten
    PROVE  Believed(pad) <=> pad \in device[TouchSensor].input
<1>1. PICK p \in Peripherals : p = TouchSensor
  OBVIOUS
<1>k. now \in Nat /\ ProbeInterval \in Nat /\ Interval[p] \in Nat /\ calm[p] \in Nat
  BY Known
<1>2. Healthy(p)
  BY <1>1, SettledDriver DEF Absent
<1>3. ~Pressing(p) /\ calm[p] > 0
  BY <1>1, <1>k DEF Settled, Pressing
<1>4. ~Late(p)
  BY <1>1, <1>2, <1>3 DEF TouchInv, TouchState, Attention
<1>5. driver[p].last = device[p].input
  BY <1>1, <1>2, <1>3, <1>4 DEF Late, Drawing, Wanting, TouchSensor
<1> QED BY <1>1, <1>5 DEF TouchInv, TouchState, HostKnows
-----------------------------------------------------------------------------
(* The motion sensor.  The host knows of each enabled output what the      *)
(* driver told last, the driver asks where the device is, and a value that *)
(* is not due yet was preceded by another one not long ago.                *)

MotionSensor == "bno085"
IsBno(v) ==
    /\ {"up", "address", "smoothed", "told", "at"} \subseteq DOMAIN v
    /\ DOMAIN v.told = BnoReports /\ DOMAIN v.smoothed = BnoReports /\ v.at \in [BnoReports -> Nat]
HasReports(d) == d.regs # NoRegisters => d.regs.reports \subseteq BnoReports
OutputKnown(r, o) == o \in DOMAIN told[MotionSensor] /\ <<told[MotionSensor][o]>> = driver[MotionSensor].told[r]
MotionKnows ==
    driver[MotionSensor].up =>
        \A r \in BnoReports : \A o \in BnoOutputs(r) :
            settings[MotionSensor][o] /\ driver[MotionSensor].told[r] # <<>> => OutputKnown(r, o)
MotionThere == MotionSensor \notin unnoticed /\ driver[MotionSensor].up => driver[MotionSensor].address = device[MotionSensor].at
MotionRead ==
    InRead(MotionSensor) =>
        /\ work.sample.report \in BnoReports
        /\ calm[MotionSensor] > 0 => /\ work.sample.report \in device[MotionSensor].regs.reports
                                     /\ work.sample.value = device[MotionSensor].input[work.sample.report]
MotionState ==
    /\ IsBno(driver[MotionSensor]) /\ HasReports(device[MotionSensor])
    /\ MotionKnows /\ MotionThere /\ MotionRead
    /\ Attention(MotionSensor)
MotionInv == MotionSensor \in Peripherals => MotionState

LEMMA NothingTold == DOMAIN BnoNothing = BnoReports /\ \A r \in BnoReports : BnoNothing[r] = <<>>
  BY DEF BnoNothing

\* The operations keep the times, or forget them; the driver is down, or forgets what it told.
LEMMA BnoDown ==
    ASSUME NEW v, IsBno(v)
    PROVE  IsBno(BnoDeinit(v)) /\ BnoDeinit(v).at = v.at /\ BnoDeinit(v).up = FALSE
  BY DEF IsBno, BnoDeinit

LEMMA BnoForgets ==
    ASSUME NEW v, IsBno(v)
    PROVE  /\ IsBno(BnoForget(v)) /\ BnoForget(v).at = v.at /\ BnoForget(v).told = BnoNothing
           /\ BnoForget(v).up = v.up /\ BnoForget(v).address = v.address
  BY NothingTold DEF IsBno, BnoForget

LEMMA BnoReadied ==
    ASSUME NEW v, IsBno(v)
    PROVE  /\ IsBno(BnoReady(v)) /\ BnoReady(v).told = BnoNothing /\ BnoReady(v).address = v.address
           /\ \A r \in BnoReports : BnoReady(v).at[r] = 0
<1>1. IsBno(BnoFresh) /\ BnoFresh.told = BnoNothing /\ \A r \in BnoReports : BnoFresh.at[r] = 0
  BY NothingTold DEF IsBno, BnoFresh
<1> QED BY <1>1 DEF IsBno, BnoReady

\* A value that is told is told as the enabled outputs of its report.
BnoTells(v, report, smooth, t) == v.told[report] # <<smooth>> /\ BnoDue(v, report, t)
BnoFollows(v, s, report, smooth, t, done) ==
    /\ IsBno(done.v) /\ done.v.up = v.up /\ done.v.address = v.address
    /\ BnoTells(v, report, smooth, t) =>
                /\ done.v.told = [v.told EXCEPT ![report] = <<smooth>>]
                /\ done.v.at = [v.at EXCEPT ![report] = IF t = 0 THEN 1 ELSE t]
                /\ DOMAIN done.out = {o \in BnoOutputs(report) : s[o]}
                /\ \A o \in DOMAIN done.out : done.out[o] = smooth
    /\ ~BnoTells(v, report, smooth, t) => done.v.told = v.told /\ done.v.at = v.at /\ DOMAIN done.out = {}

LEMMA BnoProcessed ==
    ASSUME NEW v, IsBno(v), NEW s, NEW report \in BnoReports, NEW value, NEW t \in Nat
    PROVE  BnoFollows(v, s, report, BnoSmoothed(v, s, report, value), t, BnoProcess(v, s, report, value, t))
<1> DEFINE smooth == BnoSmoothed(v, s, report, value)
           done == BnoProcess(v, s, report, value, t)
<1> DEFINE kept == [v EXCEPT !.smoothed[report] = <<smooth>>]
           next == [kept EXCEPT !.told[report] = <<smooth>>, !.at[report] = IF t = 0 THEN 1 ELSE t]
<1>1. /\ IsBno(kept) /\ kept.up = v.up /\ kept.address = v.address /\ kept.told = v.told /\ kept.at = v.at
  BY DEF IsBno
<1>2. /\ done.v = IF BnoTells(v, report, smooth, t) THEN next ELSE kept
      /\ done.out = [output \in {o \in BnoOutputs(report) : s[o] /\ v.told[report] # <<smooth>> /\ BnoDue(v, report, t)} |-> smooth]
  BY DEF BnoProcess, BnoTells
<1> HIDE DEF done, smooth, kept
<1>3. /\ IsBno(next) /\ next.up = kept.up /\ next.address = kept.address
      /\ next.told = [kept.told EXCEPT ![report] = <<smooth>>]
      /\ next.at = [kept.at EXCEPT ![report] = IF t = 0 THEN 1 ELSE t]
  BY <1>1 DEF IsBno
<1> HIDE DEF next
<1>4. ASSUME BnoTells(v, report, smooth, t) PROVE BnoFollows(v, s, report, smooth, t, done)
  <2>1. done.out = [output \in {o \in BnoOutputs(report) : s[o]} |-> smooth]
    BY <1>2, <1>4 DEF BnoTells
  <2> QED BY <1>1, <1>2, <1>3, <1>4, <2>1 DEF BnoFollows
<1>5. ASSUME ~BnoTells(v, report, smooth, t) PROVE BnoFollows(v, s, report, smooth, t, done)
  <2>1. {o \in BnoOutputs(report) : s[o] /\ v.told[report] # <<smooth>> /\ BnoDue(v, report, t)} = {}
    BY <1>5 DEF BnoTells
  <2>2. DOMAIN done.out = {}
    BY <1>2, <2>1
  <2> QED BY <1>1, <1>2, <1>5, <2>2 DEF BnoFollows
<1>6. BnoFollows(v, s, report, smooth, t, done)
  BY <1>4, <1>5
<1> QED BY <1>6 DEF smooth, done

LEMMA MotionLately ==
    ASSUME NEW p, p = MotionSensor, driver'[p].at = driver[p].at \/ \A r \in BnoReports : driver'[p].at[r] = 0
    PROVE  Lately(p)' \subseteq Lately(p)
  BY DEF Lately, MotionSensor

\* A driver that is down, or told nothing, owes nothing.
LEMMA MotionUntold ==
    ASSUME driver'[MotionSensor].up = FALSE \/ driver'[MotionSensor].told = BnoNothing
    PROVE  MotionKnows'
  BY NothingTold DEF MotionKnows

LEMMA MotionKept ==
    ASSUME MotionKnows, driver'[MotionSensor] = driver[MotionSensor], settings'[MotionSensor] = settings[MotionSensor],
           told'[MotionSensor] = told[MotionSensor]
    PROVE  MotionKnows'
  BY DEF MotionKnows, OutputKnown

\* The thread
LEMMA MotionFinishInit ==
    ASSUME I2cInv, ToldInv, NEW p \in Peripherals, p = MotionSensor, MotionState, Serving(p), pc = "init", FinishInit(p), ServeFrame
    PROVE  MotionState'
<1>k. DOMAIN driver = Peripherals /\ DOMAIN device = Peripherals
  BY TouchKnown
<1>d. IsDevice(p, device[p])
  BY Known DEF PeripheralType
<1>1. PICK answered \in BOOLEAN :
              /\ Outcome(p, answered) /\ NextTurn
              /\ \/ answered /\ Initialized(p, work.cfg, answered, handler = p \/ work.cfg # settings[p])
                 \/ driver' = [driver EXCEPT ![p] = Deinit(p, @)] /\ device' = Stopped(p, driver[p])
  BY InitOutcome DEF MotionSensor
<1>2. ~InRead(p)'
  BY <1>1 DEF InRead, NextTurn
<1>3. CASE answered /\ Initialized(p, work.cfg, answered, handler = p \/ work.cfg # settings[p])
  <2>1. /\ driver'[p] = BnoReady(driver[p])
        /\ device' = [device EXCEPT ![p].regs = BnoRegisters(work.cfg)]
    BY <1>3, <1>k DEF Initialized, Ready, Registers, MotionSensor
  <2>2. device'[p].regs = BnoRegisters(work.cfg) /\ device'[p].at = device[p].at
    BY <1>k, <1>d, <2>1 DEF IsDevice
  <2>3. /\ IsBno(driver'[p]) /\ driver'[p].told = BnoNothing /\ driver'[p].address = driver[p].address
        /\ \A r \in BnoReports : driver'[p].at[r] = 0
    BY <2>1, BnoReadied DEF MotionState
  <2>4. HasReports(device'[p])
    BY <2>2 DEF HasReports, BnoRegisters
  <2>5. Answers(p)
    BY <1>1, <1>3, OutcomeCalm
  <2>6. MotionKnows' /\ MotionThere' /\ MotionRead'
    BY <1>2, <2>2, <2>3, <2>5, MotionUntold DEF MotionThere, MotionRead, Answers
  <2>7. Attention(p)'
    BY <2>3, MotionLately, AttentionInit DEF MotionState
  <2> QED BY <2>3, <2>4, <2>6, <2>7 DEF MotionState, HasReports
<1>4. CASE driver' = [driver EXCEPT ![p] = Deinit(p, @)] /\ device' = Stopped(p, driver[p])
  <2>1. driver'[p] = BnoDeinit(driver[p])
    BY <1>4, <1>k DEF Deinit, MotionSensor
  <2>2. device'[p].regs = device[p].regs
    BY <1>4, <1>k, <1>d DEF Stopped, Stops, IsDevice, MotionSensor
  <2>3. IsBno(driver'[p]) /\ driver'[p].at = driver[p].at /\ driver'[p].up = FALSE
    BY <2>1, BnoDown DEF MotionState
  <2>4. HasReports(device'[p])
    BY <2>2 DEF MotionState, HasReports
  <2>5. MotionKnows' /\ MotionThere' /\ MotionRead'
    BY <1>2, <2>3, MotionUntold DEF MotionThere, MotionRead
  <2>6. Attention(p)'
    BY <2>3, MotionLately, AttentionInit DEF MotionState
  <2> QED BY <2>3, <2>4, <2>5, <2>6 DEF MotionState, HasReports
<1> QED BY <1>1, <1>3, <1>4

LEMMA MotionIdle ==
    ASSUME I2cInv, ToldInv, NEW p \in Peripherals, p = MotionSensor, MotionState, Serving(p), pc = "idle", ServeFrame,
           Probe(p) \/ UpdateDown(p) \/ Pass(p)
    PROVE  MotionState'
<1>k. DOMAIN driver = Peripherals /\ DOMAIN device = Peripherals
  BY TouchKnown
<1>d. IsDevice(p, device[p])
  BY Known DEF PeripheralType
<1>1. told' = told /\ unnoticed' = unnoticed /\ settings' = settings /\ ~InRead(p)'
  BY DEF Probe, UpdateDown, Pass, ghosts, ServeFrame, InRead, NextTurn
<1>2. CASE driver' = driver /\ device' = device
  <2>1. MotionKnows' /\ MotionThere' /\ MotionRead'
    BY <1>1, <1>2, MotionKept DEF MotionState, MotionThere, MotionRead
  <2>2. Attention(p)'
    BY <1>2, MotionLately, AttentionIdle, AttentionPass DEF MotionState
  <2> QED BY <1>2, <2>1, <2>2 DEF MotionState, HasReports
<1>3. CASE Probe(p) /\ Begun(p, Found(p), settings[p])
  <2>1. driver'[p] = [BnoStart(driver[p]) EXCEPT !.address = Found(p)]
    BY <1>k, <1>3 DEF Begun, Start, MotionSensor
  <2>2. IsBno(driver'[p]) /\ driver'[p].at = driver[p].at /\ driver'[p].up = FALSE
    BY <2>1 DEF MotionState, IsBno, BnoStart
  <2>3. HasReports(device'[p])
    BY <1>k, <1>d, <1>3 DEF Begun, IsDevice, MotionState, HasReports
  <2>4. MotionKnows' /\ MotionThere' /\ MotionRead'
    BY <1>1, <2>2, MotionUntold DEF MotionThere, MotionRead
  <2>5. Attention(p)'
    BY <1>3, <2>2, MotionLately, AttentionIdle DEF MotionState
  <2> QED BY <2>2, <2>3, <2>4, <2>5 DEF MotionState, HasReports
<1>4. CASE UpdateDown(p)
  <2>1. driver'[p] = BnoDeinit(driver[p])
    BY <1>k, <1>4 DEF UpdateDown, Dropped, Deinit, MotionSensor
  <2>2. IsBno(driver'[p]) /\ driver'[p].at = driver[p].at /\ driver'[p].up = FALSE
    BY <2>1, BnoDown DEF MotionState
  <2>3. device' = Stopped(p, driver[p])
    BY <1>4 DEF UpdateDown, Dropped
  <2>4. device'[p].regs = device[p].regs
    BY <2>3, <1>k, <1>d DEF Stopped, Stops, IsDevice, MotionSensor
  <2>5. HasReports(device'[p])
    BY <2>4 DEF MotionState, HasReports
  <2>6. MotionKnows' /\ MotionThere' /\ MotionRead'
    BY <1>1, <2>2, MotionUntold DEF MotionThere, MotionRead
  <2>7. Attention(p)'
    BY <1>4, <2>2, MotionLately, AttentionIdle DEF MotionState
  <2> QED BY <2>2, <2>5, <2>6, <2>7 DEF MotionState, HasReports
<1> QED BY <1>2, <1>3, <1>4 DEF Probe, Pass

LEMMA ReportsFinite == IsFiniteSet(BnoReports)
<1>1. \A x : IsFiniteSet({x})
  BY FS_Singleton
<1>2. \A S, T : IsFiniteSet(S) /\ IsFiniteSet(T) => IsFiniteSet(S \cup T)
  BY FS_Union
<1>3. IsFiniteSet({"rotation"} \cup {"gyroscope"}) /\ IsFiniteSet({"acceleration"} \cup {"gravity"})
  BY <1>1, <1>2
<1>4. IsFiniteSet(({"rotation"} \cup {"gyroscope"}) \cup ({"acceleration"} \cup {"gravity"}))
  BY <1>2, <1>3
<1>5. BnoReports = ({"rotation"} \cup {"gyroscope"}) \cup ({"acceleration"} \cup {"gravity"})
  BY DEF BnoReports
<1> QED BY <1>4, <1>5

\* One that is followed has the reports of the settings, and answers while it is calm.
LEMMA FollowedReports ==
    ASSUME I2cInv, NEW p \in Peripherals, p = MotionSensor, MotionThere, calm[p] > 0, Healthy(p), Followed(p)
    PROVE  Configured(p) /\ device[p].regs.reports = Reports(p) /\ Answers(p) /\ \E r : Reports(p) = {r}
<1>1. PeripheralInv(p)
  BY Known
<1>2. driver[p].up /\ p \notin mixed /\ p \notin unnoticed /\ Cardinality(Reports(p)) = 1
  BY DEF Healthy, Followed
<1>3. device[p].regs = BnoRegisters(settings[p])
  BY <1>1, <1>2 DEF PeripheralInv, RegistersInv, Registers, MotionSensor
<1>4. device[p].regs.reports = Reports(p) /\ DOMAIN device[p].regs = {"reports"}
  BY <1>3 DEF Reports, BnoRegisters
<1>5. Configured(p)
  <2>1. DOMAIN NoRegisters = {"off"}
    BY DEF NoRegisters
  <2> QED BY <1>4, <2>1 DEF Configured
<1>6. Answers(p)
  BY <1>1, <1>2 DEF PeripheralInv, CalmInv, MotionThere, Answers
<1>7. \E r : Reports(p) = {r}
  <2>1. IsFiniteSet(Reports(p))
    <3>1. IsFiniteSet(BnoReports)
      BY ReportsFinite
    <3>2. Reports(p) \subseteq BnoReports
      BY DEF Reports, BnoRegisters
    <3> QED BY <3>1, <3>2, FS_Subset
  <2> QED BY <1>2, <2>1, FS_Singleton
<1> QED BY <1>4, <1>5, <1>6, <1>7

LEMMA MotionUnread ==
    ASSUME I2cInv, ToldInv, NEW p \in Peripherals, p = MotionSensor, MotionState, Serving(p), pc = "idle", ServeFrame,
           \/ UpdateUnread(p)
           \/ UpdateRead(p) /\ Samples(p) = {}
    PROVE  MotionState'
<1>k. DOMAIN driver = Peripherals /\ calm[p] \in Nat /\ now \in Nat
  BY TouchKnown, Known
<1> DEFINE result == Unread(p, driver[p], settings[p])
<1>1. result.v = driver[p] /\ result.ok = TRUE
  BY DEF Unread, MotionSensor
<1> HIDE DEF result
<1>2. /\ driver'[p] = driver[p] /\ sched' = Rescheduled(p) /\ sched[p].initialized
      /\ UNCHANGED <<device, told, mixed, unnoticed, settings, now>> /\ NextTurn
  <2>1. CASE UpdateUnread(p)
    <3>1. result.ok => driver' = [driver EXCEPT ![p] = result.v] /\ sched' = Rescheduled(p) /\ UNCHANGED device
      BY <2>1 DEF UpdateUnread, result
    <3>2. sched[p].initialized /\ UNCHANGED <<told, mixed, unnoticed, settings, now>> /\ NextTurn
      BY <2>1 DEF UpdateUnread, UpdateDue, ServeFrame
    <3> QED BY <1>1, <1>k, <3>1, <3>2
  <2>2. CASE UpdateRead(p) /\ Samples(p) = {}
    BY <2>2 DEF UpdateRead, UpdateDue, ServeFrame
  <2> QED BY <2>1, <2>2
<1>3. calm'[p] = 0 \/ (calm'[p] = calm[p] /\ (~Answers(p) \/ Samples(p) = {}))
  <2>1. CASE UpdateUnread(p)
    <3>1. Outcome(p, FALSE)
      BY <2>1 DEF UpdateUnread, FirstRead, ReadsFirst, MotionSensor
    <3> QED BY <3>1, OutcomeCalm
  <2>2. CASE UpdateRead(p) /\ Samples(p) = {}
    <3>1. Outcome(p, TRUE)
      BY <2>2 DEF UpdateRead, FirstRead, ReadsFirst, MotionSensor
    <3> QED BY <2>2, <3>1, OutcomeCalm
  <2> QED BY <2>1, <2>2
<1>4. ~InRead(p)' /\ ~Drawing(p)
  BY <1>2 DEF InRead, NextTurn, Drawing, MotionSensor
<1>5. MotionKnows' /\ MotionThere' /\ MotionRead'
  BY <1>2, <1>4, MotionKept DEF MotionState, MotionThere, MotionRead
<1>6. Attention(p)'
  <2>1. sched'[p].initialized
    BY <1>2, RescheduledFacts
  <2>2. (Wanting(p)' <=> Wanting(p)) /\ (Healthy(p)' <=> Healthy(p)) /\ Lately(p)' = Lately(p)
    BY <1>2, <2>1 DEF Wanting, Followed, Reports, Healthy, Lately
  <2>3. calm'[p] = calm[p] => (Late(p)' => Late(p))
    BY <1>4, <2>2 DEF Late
  <2>4. ASSUME calm'[p] = calm[p], calm'[p] # 0, Late(p)', Healthy(p)' PROVE FALSE
    <3>1. calm[p] > 0 /\ Healthy(p) /\ Wanting(p)
      BY <1>k, <2>2, <2>4 DEF Late
    <3>2. Followed(p)
      BY <3>1 DEF Wanting, MotionSensor
    <3>3. Configured(p) /\ device[p].regs.reports = Reports(p) /\ Answers(p) /\ \E r : Reports(p) = {r}
      BY <3>1, <3>2, FollowedReports DEF MotionState
    <3>4. Samples(p) # {}
      BY <3>3 DEF Samples, MotionSensor
    <3> QED BY <1>3, <2>4, <3>3, <3>4
  <2> QED BY <1>2, <1>3, <2>2, <2>3, <2>4, AttentionKept DEF MotionState
<1> QED BY <1>2, <1>5, <1>6 DEF MotionState, HasReports

LEMMA MotionReadStep ==
    ASSUME I2cInv, ToldInv, NEW p \in Peripherals, p = MotionSensor, MotionState, Serving(p), pc = "idle", ServeFrame,
           UpdateRead(p), Samples(p) # {}
    PROVE  MotionState'
<1>1. PICK sample \in Samples(p) : work' = [drawn |-> {}, sample |-> sample, was |-> settings[p]]
  BY DEF UpdateRead
<1>2. /\ UNCHANGED <<driver, told, mixed, unnoticed, device, turn>> /\ sched' = Rescheduled(p) /\ sched[p].initialized
      /\ pc' = "read" /\ Outcome(p, TRUE)
  BY DEF UpdateRead, UpdateDue, FirstRead, ReadsFirst, MotionSensor
<1>3. settings' = settings
  BY DEF ServeFrame
<1>4. PICK r \in device[p].regs.reports : Configured(p) /\ sample = [report |-> r, value |-> device[p].input[r]]
  BY DEF Samples, MotionSensor
<1>5. r \in BnoReports
  BY <1>4 DEF MotionState, HasReports, Configured
<1>6. MotionRead'
  BY <1>1, <1>2, <1>4, <1>5 DEF MotionRead
<1>7. MotionKnows' /\ MotionThere'
  BY <1>2, <1>3, MotionKept DEF MotionState, MotionThere
<1>8. calm' = calm
  BY <1>2, OutcomeCalm
<1>9. Attention(p)'
  BY <1>2, <1>8, AttentionReading DEF MotionState, MotionSensor
<1> QED BY <1>2, <1>6, <1>7, <1>9 DEF MotionState, HasReports

LEMMA OutputsApart ==
    ASSUME NEW r \in BnoReports, NEW q \in BnoReports, NEW o \in BnoOutputs(r), o \in BnoOutputs(q)
    PROVE  r = q
  BY DEF BnoReports, BnoOutputs

LEMMA MotionFinishUpdate ==
    ASSUME I2cInv, ToldInv, NEW p \in Peripherals, p = MotionSensor, MotionState, Serving(p), pc = "read", FinishUpdate(p), ServeFrame
    PROVE  MotionState'
<1>k. /\ DOMAIN driver = Peripherals /\ DOMAIN told = Peripherals
      /\ ThreadInv /\ PeripheralType(p)
      /\ now \in Nat /\ ProbeInterval \in Nat /\ Interval[p] \in Nat /\ calm[p] \in Nat
  BY TouchKnown, Known
<1> DEFINE v == driver[p]
           report == work.sample.report
           value == work.sample.value
           done == BnoProcess(v, settings[p], report, value, now)
           smooth == BnoSmoothed(v, settings[p], report, value)
           tells == BnoTells(v, report, smooth, now)
           x == Process(p, driver[p], settings[p], TRUE)
<1>r. InRead(p)
  BY DEF InRead
<1>1. /\ UNCHANGED calm /\ Tell(p, x.out)
      /\ x.ok => driver' = [driver EXCEPT ![p] = x.v] /\ UNCHANGED <<sched, device>>
      /\ NextTurn
      /\ UNCHANGED <<mixed, unnoticed>>
  BY DEF FinishUpdate, ReadsLast, MotionSensor
<1>2. x.v = done.v /\ x.out = done.out /\ x.ok = TRUE
  BY DEF Process, Answering, MotionSensor
<1> HIDE DEF x, done
<1>3. /\ UNCHANGED <<calm, sched, device, mixed, unnoticed>> /\ NextTurn
      /\ Tell(p, done.out) /\ driver'[p] = done.v
  BY <1>1, <1>2, <1>k
<1>4. now' = now /\ settings' = settings
  BY DEF ServeFrame
<1>5. report \in BnoReports /\ IsBno(v) /\ MotionKnows
  BY <1>r DEF MotionState, MotionRead
<1>6. /\ IsBno(done.v) /\ done.v.up = v.up /\ done.v.address = v.address
      /\ tells => /\ done.v.told = [v.told EXCEPT ![report] = <<smooth>>]
                  /\ done.v.at = [v.at EXCEPT ![report] = IF now = 0 THEN 1 ELSE now]
                  /\ DOMAIN done.out = {o \in BnoOutputs(report) : settings[p][o]}
                  /\ \A o \in DOMAIN done.out : done.out[o] = smooth
      /\ ~tells => done.v.told = v.told /\ done.v.at = v.at /\ DOMAIN done.out = {}
  <2> HIDE DEF v, report, value
  <2>1. BnoFollows(v, settings[p], report, smooth, now, done)
    BY <1>5, <1>k, BnoProcessed DEF done, smooth
  <2> QED BY <2>1 DEF BnoFollows
<1>o. /\ DOMAIN told'[p] = DOMAIN told[p] \cup DOMAIN done.out
      /\ \A topic \in DOMAIN done.out : told'[p][topic] = done.out[topic]
      /\ \A topic \in DOMAIN told[p] \ DOMAIN done.out : told'[p][topic] = told[p][topic]
  BY <1>3, <1>k, TellFacts
<1>7. ~InRead(p)' /\ ~Drawing(p) /\ ~Drawing(p)'
  BY <1>3 DEF InRead, NextTurn, Drawing, MotionSensor
<1> HIDE DEF smooth, tells, report, value
<1>8. MotionKnows'
  <2> SUFFICES ASSUME driver'[p].up, NEW r \in BnoReports, NEW o \in BnoOutputs(r), settings[p][o], driver'[p].told[r] # <<>>
               PROVE  o \in DOMAIN told'[p] /\ <<told'[p][o]>> = driver'[p].told[r]
    BY <1>4 DEF MotionKnows, OutputKnown
  <2>1. CASE tells /\ r = report
    <3>1. driver'[p].told[r] = <<smooth>>
      BY <1>3, <1>5, <1>6, <2>1 DEF IsBno
    <3>2. o \in DOMAIN done.out
      BY <1>6, <2>1
    <3>3. done.out[o] = smooth
      BY <1>6, <2>1, <3>2
    <3> QED BY <1>o, <3>1, <3>2, <3>3
  <2>2. CASE ~(tells /\ r = report)
    <3>1. driver'[p].told[r] = v.told[r]
      BY <1>3, <1>5, <1>6, <2>2 DEF IsBno
    <3>2. o \notin DOMAIN done.out
      BY <1>5, <1>6, <2>2, OutputsApart
    <3>3. o \in DOMAIN told[p] /\ <<told[p][o]>> = v.told[r]
      BY <1>3, <1>5, <1>6, <3>1 DEF MotionKnows, OutputKnown
    <3>4. told'[p][o] = told[p][o]
      BY <1>o, <3>2, <3>3
    <3> QED BY <1>o, <3>1, <3>3, <3>4
  <2> QED BY <2>1, <2>2
<1>9. MotionThere' /\ MotionRead'
  BY <1>3, <1>6, <1>7 DEF MotionState, MotionThere, MotionRead

\* While it is calm, what was read is what the device measures.
<1>10. ASSUME calm[p] > 0, Followed(p)
       PROVE  Healthy(p) /\ Reports(p) = {report} /\ smooth = device[p].input[report]
  <2>1. Healthy(p)
    BY <1>10, <1>r, ReadingHealthy
  <2>2. device[p].regs.reports = Reports(p) /\ \E r : Reports(p) = {r}
    BY <1>10, <2>1, FollowedReports DEF MotionState
  <2>3. report \in Reports(p) /\ value = device[p].input[report]
    BY <1>10, <1>r, <2>2 DEF MotionState, MotionRead, report, value
  <2>4. smooth = value
    BY <1>10 DEF smooth, BnoSmoothed, Followed
  <2> QED BY <2>1, <2>2, <2>3, <2>4
<1>11. Attention(p)'
  <2>1. (Healthy(p)' <=> Healthy(p)) /\ (Followed(p)' <=> Followed(p)) /\ Reports(p)' = Reports(p)
    BY <1>3, <1>4, <1>6 DEF Healthy, Followed, Reports
  <2>h. calm[p] > 0 => Healthy(p)
    BY <1>r, ReadingHealthy
  <2>2. CASE tells
    <3>1. ~Late(p)'
      <4> SUFFICES ASSUME Late(p)' PROVE FALSE
        OBVIOUS
      <4>1. calm[p] > 0 /\ Wanting(p)'
        BY <1>3, <2>1, <2>h DEF Late
      <4>2. Followed(p) /\ \E r \in Reports(p) : driver'[p].told[r] # <<device[p].input[r]>>
        BY <1>3, <2>1, <4>1 DEF Wanting, MotionSensor
      <4>3. driver'[p].told[report] = <<smooth>>
        BY <1>3, <1>5, <1>6, <2>2 DEF IsBno
      <4> QED BY <1>10, <4>1, <4>2, <4>3
    <3>2. ASSUME NEW t \in Lately(p)' PROVE t \in Nat /\ t <= now' + 1
      <4>1. t # 0 /\ \E r \in BnoReports : t = driver'[p].at[r]
        BY DEF Lately, MotionSensor
      <4>2. PICK r \in BnoReports : t = driver'[p].at[r]
        BY <4>1
      <4>3. CASE r = report
        BY <1>3, <1>4, <1>5, <1>6, <1>k, <2>2, <4>2, <4>3 DEF IsBno
      <4>4. CASE r # report
        <5>1. t = v.at[r]
          BY <1>3, <1>5, <1>6, <2>2, <4>2, <4>4 DEF IsBno
        <5>2. t \in Lately(p)
          BY <4>1, <5>1 DEF Lately, MotionSensor
        <5> QED BY <1>4, <5>2 DEF MotionState, Attention
      <4> QED BY <4>3, <4>4
    <3> QED BY <3>1, <3>2 DEF Attention
  <2>3. CASE ~tells
    <3>1. driver'[p].told = v.told /\ driver'[p].at = v.at
      BY <1>3, <1>6, <2>3
    <3>2. (Wanting(p)' <=> Wanting(p)) /\ Lately(p)' = Lately(p)
      BY <1>3, <2>1, <3>1 DEF Wanting, Lately, MotionSensor
    <3>3. Late(p)' <=> Late(p)
      BY <1>3, <1>7, <2>1, <3>2 DEF Late
    <3>4. ASSUME Late(p)', Healthy(p)' PROVE Pressing(p)'
      <4>1. calm[p] > 0 /\ Followed(p) /\ \E r \in Reports(p) : v.told[r] # <<device[p].input[r]>>
        BY <2>1, <3>2, <3>3, <3>4 DEF Late, Wanting, MotionSensor
      <4>2. v.told[report] # <<smooth>>
        BY <1>10, <4>1
      <4>3. ~BnoDue(v, report, now)
        BY <2>3, <4>2 DEF tells, BnoTells
      <4>4. v.at[report] # 0 /\ ~(now - v.at[report] >= OutputInterval)
        BY <4>3 DEF BnoDue
      <4>5. v.at[report] \in Lately(p)
        BY <1>5, <4>4 DEF Lately, MotionSensor
      <4>6. v.at[report] \in Nat /\ v.at[report] + calm[p] <= now + 1
        BY <3>3, <3>4, <4>5 DEF MotionState, Attention
      <4>7. calm[p] <= ProbeInterval
        BY <1>k, <4>4, <4>6, I2cAssumption
      <4>8. Pressing(p)
        BY <2>1, <3>3, <3>4 DEF MotionState, Attention
      <4>9. sched[p].update \in Nat /\ sched[p].update <= now + Interval[p]
        BY <1>k DEF PeripheralType, IsSched
      <4> QED BY <1>3, <1>4, <1>k, <1>r, <4>7, <4>8, <4>9 DEF Pressing
    <3> QED BY <1>3, <1>4, <3>2, <3>3, <3>4, AttentionKept DEF MotionState
  <2> QED BY <2>2, <2>3
<1> QED BY <1>3, <1>6, <1>8, <1>9, <1>11 DEF MotionState, HasReports

LEMMA MotionServed ==
    ASSUME I2cInv, ToldInv, NEW p \in Peripherals, p = MotionSensor, MotionState, Serving(p), ServeFrame, ServedStep(p)
    PROVE  MotionState'
<1>1. ~UpdateDisplay(p)
  BY DEF UpdateDisplay, MotionSensor
<1> QED BY <1>1, MotionFinishInit, MotionFinishUpdate, MotionIdle, MotionUnread, MotionReadStep DEF ServedStep

\* The dispatcher
LEMMA MotionWritten ==
    ASSUME I2cInv, ToldInv, NEW p \in Peripherals, p = MotionSensor, MotionState, DispatchFrame,
           NEW write \in Writes, write.peripheral = p, WriteSetting(write)
    PROVE  MotionState'
<1>k. DOMAIN driver = Peripherals /\ DOMAIN device = Peripherals /\ DOMAIN calm = Peripherals
  BY TouchKnown
<1>d. IsDevice(p, device[p])
  BY Known DEF PeripheralType
<1>f. UNCHANGED <<now, turn, pc, work, order, sched, ran, frozen>>
  BY DEF DispatchFrame, threadVars, gateVars
<1> DEFINE stored == [settings EXCEPT ![p][write.setting] = write.value]
<1>1. /\ calm' = [calm EXCEPT ![p] = 0] /\ told' = told /\ unnoticed' = unnoticed
      /\ \/ Begun(p, driver[p].address, stored[p])
         \/ /\ write.setting = "smoothing" /\ device' = device
            /\ driver' = [driver EXCEPT ![p] = BnoForget(@)]
  <2>1. Handling(p, write.setting) = IF write.setting = "smoothing" THEN "reset" ELSE "init"
    BY DEF Handling, BnoHandling, MotionSensor
  <2> QED BY <2>1 DEF WriteSetting, MotionSensor
<1> HIDE DEF stored
<1>2. ~(calm'[p] > 0)
  BY <1>1, <1>k
<1>3. InRead(p)' <=> InRead(p)
  BY <1>f DEF InRead, Serving
<1>4. /\ IsBno(driver'[p]) /\ driver'[p].at = driver[p].at
      /\ driver'[p].up = FALSE \/ driver'[p].told = BnoNothing
      /\ driver'[p].up => driver[p].up /\ driver'[p].address = driver[p].address /\ device' = device
  <2>1. CASE Begun(p, driver[p].address, stored[p])
    <3>1. driver'[p] = [BnoStart(driver[p]) EXCEPT !.address = driver[p].address]
      BY <1>k, <2>1 DEF Begun, Start, MotionSensor
    <3>2. IsBno(driver'[p]) /\ driver'[p].at = driver[p].at /\ driver'[p].up = FALSE
      BY <3>1 DEF MotionState, IsBno, BnoStart
    <3> QED BY <3>2
  <2>2. CASE device' = device /\ driver' = [driver EXCEPT ![p] = BnoForget(@)]
    <3>1. driver'[p] = BnoForget(driver[p])
      BY <1>k, <2>2
    <3> QED BY <2>2, <3>1, BnoForgets DEF MotionState
  <2> QED BY <1>1, <2>1, <2>2
<1>5. HasReports(device'[p])
  <2>1. CASE Begun(p, driver[p].address, stored[p])
    BY <1>k, <1>d, <2>1 DEF Begun, IsDevice, MotionState, HasReports
  <2>2. CASE device' = device
    BY <2>2 DEF MotionState, HasReports
  <2> QED BY <1>1, <2>1, <2>2
<1>6. MotionKnows'
  BY <1>4, MotionUntold
<1>7. MotionThere'
  BY <1>1, <1>4 DEF MotionState, MotionThere
<1>8. MotionRead'
  BY <1>2, <1>3, <1>f DEF MotionState, MotionRead
<1>9. Attention(p)'
  BY <1>f, <1>2, <1>4, MotionLately, AttentionKept DEF MotionState
<1> QED BY <1>4, <1>5, <1>6, <1>7, <1>8, <1>9 DEF MotionState, HasReports

LEMMA MotionHandled ==
    ASSUME I2cInv, ToldInv, NEW p \in Peripherals, p = MotionSensor, MotionState, DispatchFrame, handler = p, FinishHandlerInit
    PROVE  MotionState'
<1>k. DOMAIN driver = Peripherals /\ DOMAIN device = Peripherals
  BY TouchKnown
<1>d. IsDevice(p, device[p])
  BY Known DEF PeripheralType
<1>f. UNCHANGED <<now, turn, pc, work, order, sched, ran, frozen>>
  BY DEF DispatchFrame, threadVars, gateVars
<1>1. PICK answered \in BOOLEAN :
        /\ Outcome(p, answered)
        /\ \/ answered /\ Initialized(p, settings[p], answered, Serving(p) /\ pc = "init")
           \/ UNCHANGED <<driver, device, unnoticed>>
  BY DEF FinishHandlerInit, MotionSensor
<1>2. told' = told /\ settings' = settings
  BY DEF FinishHandlerInit
<1>3. ~(calm'[p] > 0)
  <2>1. ~(calm[p] > 0)
    BY Known DEF PeripheralInv, CalmInv
  <2> QED BY <1>1, <2>1, OutcomeCalm
<1>4. InRead(p)' <=> InRead(p)
  BY <1>f DEF InRead, Serving
<1>5. MotionRead'
  BY <1>3, <1>4, <1>f DEF MotionState, MotionRead
<1>6. CASE UNCHANGED <<driver, device, unnoticed>>
  <2>1. MotionKnows' /\ MotionThere'
    BY <1>2, <1>6, MotionKept DEF MotionState, MotionThere
  <2>2. Attention(p)'
    BY <1>f, <1>3, <1>6, MotionLately, AttentionKept DEF MotionState
  <2> QED BY <1>5, <1>6, <2>1, <2>2 DEF MotionState, HasReports
<1>7. CASE answered /\ Initialized(p, settings[p], answered, Serving(p) /\ pc = "init")
  <2>1. driver'[p] = BnoReady(driver[p]) /\ device' = [device EXCEPT ![p].regs = BnoRegisters(settings[p])]
    BY <1>7, <1>k DEF Initialized, Ready, Registers, MotionSensor
  <2>2. /\ IsBno(driver'[p]) /\ driver'[p].told = BnoNothing /\ driver'[p].address = driver[p].address
        /\ \A r \in BnoReports : driver'[p].at[r] = 0
    BY <2>1, BnoReadied DEF MotionState
  <2>3. device'[p].regs = BnoRegisters(settings[p]) /\ device'[p].at = device[p].at
    BY <1>k, <1>d, <2>1 DEF IsDevice
  <2>4. HasReports(device'[p])
    BY <2>3 DEF HasReports, BnoRegisters
  <2>5. Answers(p)
    BY <1>1, <1>7 DEF Outcome
  <2>6. MotionThere'
    BY <2>2, <2>3, <2>5 DEF Answers, MotionThere, MotionSensor
  <2>7. MotionKnows'
    BY <2>2, MotionUntold
  <2>8. Attention(p)'
    BY <1>f, <1>3, <2>2, MotionLately, AttentionKept DEF MotionState
  <2> QED BY <1>5, <2>2, <2>4, <2>6, <2>7, <2>8 DEF MotionState
<1> QED BY <1>1, <1>6, <1>7

LEMMA MotionRefreshed ==
    ASSUME I2cInv, ToldInv, NEW p \in Peripherals, p = MotionSensor, MotionState, DispatchFrame, RefreshHost(p)
    PROVE  MotionState'
<1>f. UNCHANGED <<now, turn, pc, work, order, sched, ran, frozen>>
  BY DEF DispatchFrame, threadVars, gateVars
<1>1. UNCHANGED <<driver, settings, handler, device, calm, mixed, unnoticed>> /\ Tell(p, Refreshed(p))
  BY DEF RefreshHost
<1>2. Refreshed(p) = <<>>
  BY DEF Refreshed, MotionSensor
<1>3. DOMAIN told'[p] = DOMAIN told[p] /\ \A topic \in DOMAIN told[p] : told'[p][topic] = told[p][topic]
  <2> DEFINE out == Refreshed(p)
  <2>1. DOMAIN out = {}
    BY <1>2
  <2>2. Tell(p, out)
    BY <1>1
  <2> HIDE DEF out
  <2>3. p \in DOMAIN told
    BY TouchKnown
  <2>4. /\ DOMAIN told'[p] = DOMAIN told[p] \cup DOMAIN out
        /\ \A topic \in DOMAIN told[p] \ DOMAIN out : told'[p][topic] = told[p][topic]
    BY <2>2, <2>3, TellFacts
  <2> QED BY <2>1, <2>4
<1>4. MotionKnows'
  BY <1>1, <1>3 DEF MotionState, MotionKnows, OutputKnown
<1>5. InRead(p)' <=> InRead(p)
  BY <1>f DEF InRead, Serving
<1>6. MotionThere' /\ MotionRead'
  BY <1>1, <1>5, <1>f DEF MotionState, MotionThere, MotionRead
<1>7. Untouched(p)
  BY <1>f, <1>1 DEF Untouched, Stays, Served, InInit, InRead, Serving
<1>8. Attention(p)'
  BY <1>1, <1>7, AttentionStays DEF MotionState
<1> QED BY <1>1, <1>4, <1>6, <1>8 DEF MotionState, HasReports

LEMMA MotionDispatched ==
    ASSUME I2cInv, ToldInv, NEW p \in Peripherals, p = MotionSensor, MotionState, DispatchFrame,
           \/ \E write \in Writes : write.peripheral = p /\ WriteSetting(write)
           \/ handler = p /\ FinishHandlerInit
           \/ RefreshHost(p)
    PROVE  MotionState'
  BY MotionWritten, MotionHandled, MotionRefreshed

\* The outside: a device that is plugged in again has lost its registers, and the driver did not notice if it is up.
LEMMA MotionUnplugged ==
    ASSUME NEW p, NEW address, DOMAIN device = Peripherals, p \in Peripherals, IsDevice(p, device[p]), Plug(p, address)
    PROVE  device'[p].regs = NoRegisters /\ (driver[p].up => p \in unnoticed')
  BY DEF Plug, IsDevice

LEMMA MotionStirred ==
    ASSUME NEW p, NEW input, DOMAIN device = Peripherals, p \in Peripherals, IsDevice(p, device[p]), Unplug(p) \/ Stimulate(p, input)
    PROVE  device'[p].regs = device[p].regs /\ device'[p].at = device[p].at /\ unnoticed' = unnoticed
  BY DEF Unplug, Stimulate, IsDevice

LEMMA MotionMoved ==
    ASSUME I2cInv, ToldInv, NEW p \in Peripherals, p = MotionSensor, MotionState, OutsideFrame, calm' = [calm EXCEPT ![p] = 0], now' = now,
           \/ device'[p].regs = NoRegisters /\ (driver[p].up => p \in unnoticed')
           \/ device'[p].regs = device[p].regs /\ device'[p].at = device[p].at /\ unnoticed' = unnoticed
    PROVE  MotionState'
<1>k. DOMAIN calm = Peripherals
  BY TouchKnown
<1>f. UNCHANGED <<driver, told, settings, order, turn, pc, work>>
  BY DEF OutsideFrame
<1>1. ~(calm'[p] > 0)
  BY <1>k
<1>2. InRead(p)' <=> InRead(p)
  BY <1>f DEF InRead, Serving
<1>3. MotionKnows' /\ MotionRead'
  BY <1>1, <1>2, <1>f, MotionKept DEF MotionState, MotionRead
<1>4. MotionThere' /\ HasReports(device'[p])
  BY <1>f DEF MotionState, MotionThere, HasReports
<1>5. Attention(p)'
  BY <1>1, <1>f, MotionLately, AttentionKept DEF MotionState
<1> QED BY <1>3, <1>4, <1>5, <1>f DEF MotionState

LEMMA MotionTick ==
    ASSUME I2cInv, NoLostWakeup, NEW p \in Peripherals, p = MotionSensor, MotionState, OutsideFrame, Tick
    PROVE  MotionState'
<1>f. UNCHANGED <<driver, told, settings, order, turn, pc, work, device, unnoticed>>
  BY DEF OutsideFrame, Tick
<1>1. turn' = 0
  BY <1>f DEF Tick
<1>2. ~InRead(p)'
  BY <1>1, Known DEF InRead, Serving, OutsideFrame, ThreadInv, gateVars
<1>3. MotionKnows' /\ MotionRead' /\ MotionThere'
  BY <1>2, <1>f, MotionKept DEF MotionState, MotionRead, MotionThere
<1>4. Attention(p)'
  BY AttentionTick DEF MotionState
<1> QED BY <1>3, <1>4, <1>f DEF MotionState, HasReports

LEMMA MotionOutside ==
    ASSUME I2cInv, ToldInv, NoLostWakeup, NEW p \in Peripherals, p = MotionSensor, MotionState, OutsideFrame,
           \/ Unplug(p)
           \/ \E address \in 1 .. AddressCount[p] : Plug(p, address)
           \/ \E input \in Inputs[p] : Stimulate(p, input)
           \/ Tick
    PROVE  MotionState'
<1>k. DOMAIN device = Peripherals /\ IsDevice(p, device[p])
  BY TouchKnown, Known DEF PeripheralType
<1>1. ASSUME NEW address, Plug(p, address) PROVE MotionState'
  BY <1>1, <1>k, Disturbed, MotionUnplugged, MotionMoved
<1>2. ASSUME NEW input, Unplug(p) \/ Stimulate(p, input) PROVE MotionState'
  BY <1>2, <1>k, Disturbed, MotionStirred, MotionMoved
<1> QED BY <1>1, <1>2, MotionTick

LEMMA MotionHolds ==
    ASSUME I2cInv, ToldInv, NoLostWakeup, MotionInv, [I2cNext]_i2cVars
    PROVE  MotionInv'
<1>1. order' = order
  BY DEF I2cNext, GateStep, ThreadStep, DispatcherStep, OutsideStep, i2cVars
<1>2. SUFFICES ASSUME MotionSensor \in Peripherals PROVE MotionState'
  BY <1>1, PeripheralsStay DEF MotionInv
<1>3. PICK p \in Peripherals : p = MotionSensor
  BY <1>2
<1>4. MotionState
  BY <1>2 DEF MotionInv
<1>5. CASE Alone(p)
  <2>1. /\ Untouched(p) /\ driver'[p] = driver[p] /\ device'[p] = device[p] /\ told'[p] = told[p]
        /\ InRead(p) => work' = work
    BY <1>5 DEF Alone
  <2>2. /\ settings'[p] = settings[p] /\ (p \in unnoticed' <=> p \in unnoticed)
        /\ (InRead(p)' <=> InRead(p)) /\ (calm'[p] > 0 => calm[p] > 0)
    BY <2>1 DEF Untouched, Stays
  <2>3. MotionKnows' /\ MotionThere' /\ MotionRead'
    BY <1>3, <1>4, <2>1, <2>2, MotionKept DEF MotionState, MotionThere, MotionRead
  <2>4. Attention(p)'
    BY <1>3, <1>4, <2>1, AttentionStays DEF MotionState
  <2> QED BY <1>3, <1>4, <2>1, <2>3, <2>4 DEF MotionState, HasReports
<1>6. CASE OwnStep(p)
  <2>1. "display" # p
    BY <1>3 DEF MotionSensor
  <2> QED BY <1>3, <1>4, <1>6, <2>1, MotionServed, MotionDispatched, MotionOutside DEF OwnStep
<1> QED BY <1>5, <1>6, Whose

LEMMA MotionStart == I2cInit => MotionInv
<1> SUFFICES ASSUME I2cInit, MotionSensor \in Peripherals PROVE MotionState
  BY DEF MotionInv
<1>1. /\ driver[MotionSensor] = BnoFresh /\ calm[MotionSensor] = 0 /\ pc = "idle" /\ now = 0
  BY DEF I2cInit, FreshDriver, MotionSensor
<1>2. IsBno(BnoFresh) /\ BnoFresh.up = FALSE /\ \A r \in BnoReports : BnoFresh.at[r] = 0
  BY NothingTold DEF IsBno, BnoFresh
<1>3. device[MotionSensor].regs = NoRegisters
  BY DEF I2cInit, Installed
<1>4. MotionKnows /\ MotionThere /\ HasReports(device[MotionSensor])
  BY <1>1, <1>2, <1>3 DEF MotionKnows, MotionThere, HasReports
<1>5. Attention(MotionSensor)
  BY <1>1, <1>2 DEF Attention, Late, Lately, MotionSensor
<1> QED BY <1>1, <1>2, <1>4, <1>5 DEF MotionState, MotionRead, InRead

\* What is enabled of the only report was told as the device measures it.
LEMMA MotionSettled ==
    ASSUME I2cInv, MotionInv, MotionSensor \in Peripherals, MotionSensor \notin mixed, MotionSensor \notin unnoticed,
           Settled(MotionSensor), driver[MotionSensor].up,
           Cardinality(Reports(MotionSensor)) = 1, settings[MotionSensor].smoothing = "off",
           NEW report \in Reports(MotionSensor), NEW output \in BnoOutputs(report), settings[MotionSensor][output]
    PROVE  output \in DOMAIN told[MotionSensor] /\ told[MotionSensor][output] = device[MotionSensor].input[report]
<1>1. PICK p \in Peripherals : p = MotionSensor
  OBVIOUS
<1>k. now \in Nat /\ ProbeInterval \in Nat /\ Interval[p] \in Nat /\ calm[p] \in Nat
  BY Known
<1>2. Healthy(p)
  BY <1>1, SettledDriver DEF Absent
<1>3. ~Pressing(p) /\ calm[p] > 0
  BY <1>1, <1>k DEF Settled, Pressing
<1>4. ~Late(p)
  BY <1>1, <1>2, <1>3 DEF MotionInv, MotionState, Attention
<1>5. Followed(p)
  BY <1>1 DEF Followed
<1>6. driver[p].told[report] = <<device[p].input[report]>>
  BY <1>1, <1>2, <1>3, <1>4, <1>5 DEF Late, Drawing, Wanting, MotionSensor
<1>7. report \in BnoReports
  BY DEF Reports, BnoRegisters
<1>8. OutputKnown(report, output)
  <2>1. driver[p].told[report] # <<>>
    BY <1>6
  <2>2. MotionKnows
    BY DEF MotionInv, MotionState
  <2> QED BY <1>1, <1>7, <2>1, <2>2 DEF MotionKnows
<1> QED BY <1>1, <1>6, <1>8 DEF OutputKnown
-----------------------------------------------------------------------------
(* What the host knows of both sensors                                     *)

LEMMA HostSettled ==
    ASSUME I2cInv, TouchInv, MotionInv
    PROVE  HostUpToDate
<1>1. ASSUME TouchSensor \in Peripherals, Settled(TouchSensor), driver[TouchSensor].up,
             NEW pad \in Pads, <<"touch", pad>> \notin forgotten
      PROVE  Believed(pad) <=> pad \in device[TouchSensor].input
  BY <1>1, TouchSettled
<1>2. ASSUME MotionSensor \in Peripherals, MotionSensor \notin mixed, MotionSensor \notin unnoticed,
             Settled(MotionSensor), driver[MotionSensor].up,
             Cardinality(Reports(MotionSensor)) = 1, settings[MotionSensor].smoothing = "off",
             NEW report \in Reports(MotionSensor), NEW output \in BnoOutputs(report), settings[MotionSensor][output]
      PROVE  output \in DOMAIN told[MotionSensor] /\ told[MotionSensor][output] = device[MotionSensor].input[report]
  BY <1>2, MotionSettled
<1> QED BY <1>1, <1>2 DEF HostUpToDate, Believed, Reports, TouchSensor, MotionSensor

\* The host is told what the sensors measure: when a device is there for long enough and nothing disturbs it, the
\* host believes each pad of the touch sensor touched that is, and knows the value of the only report of the motion
\* sensor in each output that is enabled (Cap1188::update(), Bno085::publish_report()).
THEOREM I2cHostUpToDate == I2cSpec => []HostUpToDate
<1>1. I2cInv /\ ToldInv /\ NoLostWakeup /\ TouchInv /\ MotionInv /\ [I2cNext]_i2cVars => TouchInv' /\ MotionInv'
  BY TouchHolds, MotionHolds
<1>2. I2cInv /\ TouchInv /\ MotionInv => HostUpToDate
  BY HostSettled
<1>3. I2cSpec => []NoLostWakeup
  BY I2cUsesGate, GateNoLostWakeup, PTL
<1> QED BY <1>1, <1>2, <1>3, TouchStart, MotionStart, I2cInvariant, ToldAlways, PTL DEF I2cSpec
-----------------------------------------------------------------------------
(* The display.  What is not to be drawn any more, or is being drawn, is   *)
(* on the screen, but for what is owed; the driver draws all that changed. *)

Oled == "display"
IsDisplay(v) ==
    /\ {"up", "address", "greeted", "resolution", "retention", "alternate", "refreshed", "elements"} \subseteq DOMAIN v
    /\ DOMAIN v.elements = Elements /\ \A e \in Elements : {"text", "change", "at"} \subseteq DOMAIN v.elements[e]
    /\ v.refreshed \in Nat

\* What an operation leaves of the layout, and of the elements that it does not want to be drawn
SameLayout(v, w) == IsDisplay(w) /\ w.greeted = v.greeted /\ w.resolution = v.resolution /\ w.refreshed = v.refreshed
Follows(v, w) == \A e \in Elements : ~w.elements[e].change => ~v.elements[e].change /\ w.elements[e].text = v.elements[e].text
Rewrites(v, w) == SameLayout(v, w) /\ w.up = v.up /\ Follows(v, w)

LEMMA TextsRewritten ==
    ASSUME NEW v, IsDisplay(v), NEW texts, NEW t
    PROVE  Rewrites(v, SetTexts(v, texts, t))
<1> DEFINE set(e) == SetText(v, e, texts[e], t).elements[e]
           next == [e \in Elements |-> IF e \in DOMAIN texts THEN set(e) ELSE v.elements[e]]
           w == SetTexts(v, texts, t)
<1>1. ASSUME NEW e \in Elements
      PROVE  /\ {"text", "change", "at"} \subseteq DOMAIN set(e)
             /\ ~set(e).change => ~v.elements[e].change /\ set(e).text = v.elements[e].text
  <2> DEFINE x == [text |-> texts[e], change |-> v.elements[e].change \/ texts[e] # v.elements[e].text, at |-> t]
  <2>1. set(e) = x
    BY DEF SetText, IsDisplay
  <2>2. {"text", "change", "at"} \subseteq DOMAIN x /\ (~x.change => ~v.elements[e].change /\ x.text = v.elements[e].text)
    OBVIOUS
  <2> HIDE DEF x, set
  <2> QED BY <2>1, <2>2
<1> HIDE DEF set
<1>2. /\ DOMAIN next = Elements /\ \A e \in Elements : {"text", "change", "at"} \subseteq DOMAIN next[e]
      /\ \A e \in Elements : ~next[e].change => ~v.elements[e].change /\ next[e].text = v.elements[e].text
  BY <1>1 DEF IsDisplay
<1>3. w = [v EXCEPT !.elements = next]
  BY DEF SetTexts, IsDisplay, set
<1> HIDE DEF next, w
<1>4. /\ w.elements = next /\ DOMAIN w = DOMAIN v
      /\ w.up = v.up /\ w.greeted = v.greeted /\ w.resolution = v.resolution /\ w.refreshed = v.refreshed
  BY <1>3 DEF IsDisplay
<1>5. Rewrites(v, w)
  BY <1>2, <1>4 DEF Rewrites, SameLayout, Follows, IsDisplay
<1> QED BY <1>5 DEF w

LEMMA TextRewritten ==
    ASSUME NEW v, IsDisplay(v), NEW e \in Elements, NEW text, NEW t
    PROVE  Rewrites(v, SetText(v, e, text, t))
<1> DEFINE set == [text |-> text, change |-> v.elements[e].change \/ text # v.elements[e].text, at |-> t]
           w == SetText(v, e, text, t)
<1>1. w = [v EXCEPT !.elements[e] = set]
  BY DEF SetText, IsDisplay
<1>2. {"text", "change", "at"} \subseteq DOMAIN set /\ (~set.change => ~v.elements[e].change /\ set.text = v.elements[e].text)
  OBVIOUS
<1> HIDE DEF set, w
<1>3. /\ w.elements = [v.elements EXCEPT ![e] = set] /\ DOMAIN w = DOMAIN v
      /\ w.up = v.up /\ w.greeted = v.greeted /\ w.resolution = v.resolution /\ w.refreshed = v.refreshed
  BY <1>1 DEF IsDisplay
<1>4. /\ w.elements[e] = set /\ DOMAIN w.elements = Elements
      /\ \A x \in Elements \ {e} : w.elements[x] = v.elements[x]
  BY <1>3 DEF IsDisplay
<1>5. Rewrites(v, w)
  BY <1>2, <1>3, <1>4 DEF Rewrites, SameLayout, Follows, IsDisplay
<1> QED BY <1>5 DEF w

LEMMA RewritesBoth ==
    ASSUME NEW u, NEW v, NEW w, Rewrites(u, v), Rewrites(v, w)
    PROVE  Rewrites(u, w)
  BY DEF Rewrites, SameLayout, Follows

LEMMA RetentionRewritten ==
    ASSUME NEW v, IsDisplay(v), NEW time, NEW t
    PROVE  Rewrites(v, SetRetention(v, time, t))
<1> DEFINE kept == [v EXCEPT !.retention = time]
           gone == IF time = 0 THEN {} ELSE {e \in Retained : v.elements[e].text # Blank}
           texts == [e \in gone |-> Blank]
<1>1. Rewrites(v, kept)
  BY DEF Rewrites, SameLayout, Follows, IsDisplay
<1>2. SetRetention(v, time, t) = SetTexts(kept, texts, t)
  BY DEF SetRetention, Cleared
<1> HIDE DEF kept, texts, gone
<1>3. Rewrites(kept, SetTexts(kept, texts, t))
  BY <1>1, TextsRewritten DEF Rewrites, SameLayout
<1> QED BY <1>1, <1>2, <1>3, RewritesBoth

LEMMA ExpiredRewritten ==
    ASSUME NEW v, IsDisplay(v), NEW t
    PROVE  Rewrites(v, Expire(v, t))
  BY TextsRewritten DEF Expire, Cleared

LEMMA MessageRewritten ==
    ASSUME NEW v, IsDisplay(v), NEW type, NEW value, NEW message, NEW t
    PROVE  Rewrites(v, ShowMessage(v, type, value, message, t))
  BY TextsRewritten DEF ShowMessage

LEMMA SettingRewritten ==
    ASSUME NEW v, IsDisplay(v), NEW setting, NEW value, NEW t
    PROVE  Rewrites(v, DisplayWritten(v, setting, value, t))
<1>1. CASE setting = "eventTime"
  BY <1>1, RetentionRewritten DEF DisplayWritten
<1>2. CASE setting = "alternate"
  BY <1>2 DEF DisplayWritten, Rewrites, SameLayout, Follows, IsDisplay
<1>3. CASE setting # "eventTime" /\ setting # "alternate"
  BY <1>3 DEF DisplayWritten, Rewrites, SameLayout, Follows
<1> QED BY <1>1, <1>2, <1>3

\* init() of a display: the layout is taken over, and the texts as by any other operation.
Readied(v, cfg, w) ==
    IsDisplay(w) /\ w.greeted = TRUE /\ w.resolution = cfg.resolution /\ w.refreshed = v.refreshed /\ Follows(v, w)

LEMMA DisplayReadied ==
    ASSUME NEW v, IsDisplay(v), NEW cfg, NEW text, NEW t
    PROVE  Readied(v, cfg, DisplayReady(v, cfg, text, t))
<1> DEFINE kept == [v EXCEPT !.up = TRUE, !.greeted = TRUE, !.resolution = cfg.resolution, !.alternate = cfg.alternate]
           cleared == SetRetention(kept, cfg.eventTime, t)
           w == SetText(cleared, "preset", text, t)
<1>1. /\ IsDisplay(kept) /\ kept.greeted = TRUE /\ kept.resolution = cfg.resolution /\ kept.refreshed = v.refreshed
      /\ kept.elements = v.elements
  BY DEF IsDisplay
<1>2. DisplayReady(v, cfg, text, t) = w
  BY DEF DisplayReady
<1> HIDE DEF kept
<1>3. Rewrites(kept, cleared)
  BY <1>1, RetentionRewritten
<1> HIDE DEF cleared
<1>4. "preset" \in Elements
  BY DEF Elements, ElementOrder
<1>5. Rewrites(cleared, w)
  BY <1>3, <1>4, TextRewritten DEF Rewrites, SameLayout
<1> HIDE DEF w
<1>6. Rewrites(kept, w)
  BY <1>3, <1>5, RewritesBoth
<1>7. Readied(v, cfg, w)
  BY <1>1, <1>6 DEF Rewrites, SameLayout, Follows, Readied
<1> QED BY <1>2, <1>7

\* The rest of its operations touches no element.
Idles(v, w) == SameLayout(v, w) /\ w.elements = v.elements /\ (w.up => v.up)
LEMMA DisplayStarted ==
    ASSUME NEW v, IsDisplay(v), NEW cfg, NEW address
    PROVE  Idles(v, [DisplayStart(v, cfg) EXCEPT !.address = address])
  BY DEF DisplayStart, Idles, SameLayout, IsDisplay

LEMMA DisplayDown ==
    ASSUME NEW v, IsDisplay(v)
    PROVE  Idles(v, DisplayDeinit(v))
  BY DEF DisplayDeinit, Idles, SameLayout, IsDisplay

\* The end of a drawing: nothing that was drawn is to be drawn.
Cleaned(v, drawn, t, w) ==
    /\ IsDisplay(w) /\ w.up = v.up /\ w.greeted = v.greeted /\ w.resolution = v.resolution /\ w.refreshed = t
    /\ \A e \in Elements : /\ w.elements[e].text = v.elements[e].text
                           /\ w.elements[e].change = IF e \in drawn THEN FALSE ELSE v.elements[e].change

LEMMA DisplayProcessed ==
    ASSUME NEW v, IsDisplay(v), NEW drawn, NEW t \in Nat
    PROVE  Cleaned(v, drawn, t, DisplayProcess(v, drawn, t))
<1> DEFINE next == [e \in Elements |-> IF e \in drawn THEN [v.elements[e] EXCEPT !.change = FALSE] ELSE v.elements[e]]
           w == DisplayProcess(v, drawn, t)
<1>1. /\ DOMAIN next = Elements
      /\ \A e \in Elements : /\ {"text", "change", "at"} \subseteq DOMAIN next[e]
                             /\ next[e].text = v.elements[e].text
                             /\ next[e].change = IF e \in drawn THEN FALSE ELSE v.elements[e].change
  BY DEF IsDisplay
<1>2. w = [v EXCEPT !.elements = next, !.refreshed = t]
  BY DEF DisplayProcess, IsDisplay
<1> HIDE DEF next, w
<1>3. /\ w.elements = next /\ DOMAIN w = DOMAIN v
      /\ w.up = v.up /\ w.greeted = v.greeted /\ w.resolution = v.resolution /\ w.refreshed = t
  BY <1>2 DEF IsDisplay
<1>4. Cleaned(v, drawn, t, w)
  BY <1>1, <1>3 DEF IsDisplay, Cleaned
<1> QED BY <1>4 DEF w

\* The elements that are being drawn, and the state of the display and of its screen.
Drawn == IF InRead(Oled) THEN work.drawn ELSE {}
Laid(v) == v.resolution = "128x64" \/ ~v.greeted
Shows(v, shown, except, drawn) ==
    \A e \in Elements \ except : ~v.elements[e].change \/ e \in drawn => shown[e] = v.elements[e].text
Looks == Laid(driver[Oled]) => Shows(driver[Oled], screen, owed, Drawn)
ScreenState ==
    /\ IsDisplay(driver[Oled])
    /\ driver[Oled].up => driver[Oled].greeted
    /\ InRead(Oled) => /\ work.sample = work.drawn
                       /\ calm[Oled] > 0 => Pending(driver[Oled]) \subseteq work.drawn
    /\ Looks
    /\ Attention(Oled)
ScreenInv == Oled \in Peripherals => ScreenState

\* The layout and the screen stay, and the texts that change while they are drawn are owed.
LEMMA LooksKept ==
    ASSUME Looks, NEW w, driver'[Oled] = w, SameLayout(driver[Oled], w), Follows(driver[Oled], w),
           screen' = screen, owed \cup Overtaken(w) \subseteq owed', Drawn' \subseteq Drawn
    PROVE  Looks'
<1> SUFFICES ASSUME Laid(w), NEW e \in Elements, e \notin owed', ~w.elements[e].change \/ e \in Drawn
             PROVE  screen[e] = w.elements[e].text
  BY DEF Looks, Shows
<1>1. Laid(driver[Oled]) /\ e \notin owed
  BY DEF SameLayout, Laid
<1>2. w.elements[e].text = driver[Oled].elements[e].text
  <2>1. CASE ~w.elements[e].change
    BY <2>1 DEF Follows
  <2>2. CASE e \in Drawn
    <3>1. e \in work.drawn /\ e \notin Overtaken(w)
      BY <2>2 DEF Drawn
    <3> QED BY <3>1 DEF Overtaken, Oled
  <2> QED BY <2>1, <2>2
<1>3. ~driver[Oled].elements[e].change \/ e \in Drawn
  BY DEF Follows
<1> QED BY <1>1, <1>2, <1>3 DEF Looks, Shows

LEMMA LooksSame ==
    ASSUME Looks, NEW w, driver'[Oled] = w, Idles(driver[Oled], w), screen' = screen, owed' = owed, Drawn' \subseteq Drawn
    PROVE  Looks'
  BY DEF Looks, Shows, Laid, Idles, SameLayout

\* The screen is dark: what is on it besides blanks is owed.
LEMMA LooksWiped ==
    ASSUME NEW w, driver'[Oled] = w, Follows(driver[Oled], w), screen' = ClearScreen,
           Overtaken(w) \cup Wiped(driver[Oled]) \subseteq owed', Drawn' \subseteq Drawn
    PROVE  Looks'
<1> SUFFICES ASSUME NEW e \in Elements, e \notin owed', ~w.elements[e].change \/ e \in Drawn
             PROVE  w.elements[e].text = Blank
  BY DEF Looks, Shows, ClearScreen
<1>1. e \in Drawn => e \in work.drawn
  BY DEF Drawn
<1>2. w.elements[e].text = driver[Oled].elements[e].text
  BY <1>1 DEF Follows, Overtaken, Oled
<1>3. e \in DrawnOf(driver[Oled])
  BY <1>1 DEF DrawnOf, Follows
<1> QED BY <1>2, <1>3 DEF Wiped

\* init() takes over the layout: the screen is cleared, or what was drawn in another one is owed.
LEMMA LooksReady ==
    ASSUME Looks, IsDisplay(driver[Oled]), NEW cfg, NEW answered \in BOOLEAN, NEW w, driver'[Oled] = w,
           w = Ready(Oled, driver[Oled], cfg), ScreenReady(driver[Oled], cfg, answered), Drawn' \subseteq Drawn
    PROVE  Looks' /\ IsDisplay(w) /\ w.greeted = TRUE /\ w.refreshed = driver[Oled].refreshed
<1> DEFINE v == driver[Oled]
<1>1. IsDisplay(w) /\ w.greeted = TRUE /\ w.resolution = cfg.resolution /\ w.refreshed = v.refreshed /\ Follows(v, w)
  <2>1. w = DisplayReady(v, cfg, Presets[preset + 1], now)
    BY DEF Ready, Oled
  <2>2. Readied(v, cfg, DisplayReady(v, cfg, Presets[preset + 1], now))
    BY DisplayReadied
  <2> QED BY <2>1, <2>2 DEF Readied
<1>2. /\ screen' = IF answered THEN ClearScreen ELSE screen
      /\ owed' = owed \cup Overtaken(w)
                    \cup (IF answered THEN Wiped(v)
                          ELSE IF v.greeted /\ v.resolution # cfg.resolution THEN DrawnOf(v) ELSE {})
  BY DEF ScreenReady, Oled
<1>3. CASE answered
  <2>1. Looks'
    BY <1>1, <1>2, <1>3, LooksWiped
  <2> QED BY <1>1, <2>1
<1>4. CASE ~answered /\ (v.greeted => v.resolution = cfg.resolution)
  <2>1. Laid(w) => Laid(v)
    BY <1>1, <1>4 DEF Laid
  <2>2. ASSUME Laid(w), NEW e \in Elements, e \notin owed', ~w.elements[e].change \/ e \in Drawn
        PROVE  screen'[e] = w.elements[e].text
    <3>1. e \in Drawn => e \in work.drawn
      BY DEF Drawn
    <3>2. w.elements[e].text = v.elements[e].text
      BY <1>1, <1>2, <2>2, <3>1 DEF Follows, Overtaken, Oled
    <3>3. ~v.elements[e].change \/ e \in Drawn
      BY <1>1, <2>2 DEF Follows
    <3> QED BY <1>2, <1>4, <2>1, <2>2, <3>2, <3>3 DEF Looks, Shows
  <2> QED BY <1>1, <2>2 DEF Looks, Shows
<1>5. CASE ~answered /\ v.greeted /\ v.resolution # cfg.resolution
  <2>1. ASSUME NEW e \in Elements, e \notin owed', ~w.elements[e].change \/ e \in Drawn
        PROVE  FALSE
    <3>1. e \in Drawn => e \in work.drawn
      BY DEF Drawn
    <3>2. e \in DrawnOf(v)
      BY <1>1, <2>1, <3>1 DEF DrawnOf, Follows
    <3> QED BY <1>2, <1>5, <2>1, <3>2
  <2> QED BY <1>1, <2>1 DEF Looks, Shows
<1> QED BY <1>3, <1>4, <1>5

\* The drawing of what is pending: in this layout each element has a place of its own.
LEMMA DrawnPlaces ==
    ASSUME NEW v, v.resolution = "128x64", NEW shown, NEW e \in Elements
    PROVE  Draw(v, shown)[e] = IF e \in Pending(v) THEN v.elements[e].text ELSE shown[e]
<1> DEFINE drawn == {i \in DOMAIN ElementOrder : ElementOrder[i] \in Pending(v) /\ Place(ElementOrder[i], v.resolution) = e}
<1>1. Draw(v, shown)[e] = IF drawn = {} THEN shown[e] ELSE v.elements[ElementOrder[Max(drawn)]].text
  BY DEF Draw
<1>2. drawn = {i \in DOMAIN ElementOrder : ElementOrder[i] \in Pending(v) /\ ElementOrder[i] = e}
  BY DEF Place
<1> HIDE DEF drawn
<1>3. CASE e \notin Pending(v)
  BY <1>1, <1>2, <1>3
<1>4. CASE e \in Pending(v)
  <2>1. PICK i \in DOMAIN ElementOrder : ElementOrder[i] = e
    BY DEF Elements
  <2>2. DOMAIN ElementOrder = 1 .. 7
    BY DEF ElementOrder
  <2>3. \A j \in DOMAIN ElementOrder : ElementOrder[j] = e => j = i
    BY <2>1, <2>2 DEF ElementOrder
  <2>4. drawn = {i}
    BY <1>2, <1>4, <2>1, <2>3
  <2>5. Max(drawn) = i
    BY <2>2, <2>4 DEF Max
  <2> QED BY <1>1, <1>4, <2>1, <2>4, <2>5
<1> QED BY <1>3, <1>4

LEMMA LooksDrawn ==
    ASSUME Looks, NEW w, driver'[Oled] = w, Rewrites(driver[Oled], w), driver[Oled].greeted, NEW answered \in BOOLEAN,
           screen' = IF answered THEN Draw(w, screen) ELSE screen,
           owed' = IF answered THEN owed \ Pending(w) ELSE owed \cup Pending(w),
           ~InRead(Oled), InRead(Oled)', work'.drawn = Pending(w)
    PROVE  Looks'
<1> DEFINE v == driver[Oled]
<1>1. Drawn = {} /\ Drawn' = Pending(w)
  BY DEF Drawn
<1> SUFFICES ASSUME Laid(w), NEW e \in Elements, e \notin owed', ~w.elements[e].change \/ e \in Pending(w)
             PROVE  screen'[e] = w.elements[e].text
  BY <1>1 DEF Looks, Shows
<1>2. w.resolution = "128x64" /\ Laid(v)
  BY DEF Laid, Rewrites, SameLayout
<1>3. CASE e \in Pending(w)
  BY <1>2, <1>3, DrawnPlaces
<1>4. CASE e \notin Pending(w)
  <2>1. ~v.elements[e].change /\ w.elements[e].text = v.elements[e].text
    BY <1>4 DEF Rewrites, Follows
  <2>2. e \notin owed
    BY <1>4
  <2>3. screen[e] = v.elements[e].text
    BY <1>2, <2>1, <2>2 DEF Looks, Shows
  <2>4. screen'[e] = screen[e]
    BY <1>2, <1>4, DrawnPlaces
  <2> QED BY <2>1, <2>3, <2>4
<1> QED BY <1>3, <1>4

\* The thread
LEMMA ScreenLately ==
    ASSUME NEW p, p = Oled, driver'[p].refreshed = driver[p].refreshed
    PROVE  Lately(p)' \subseteq Lately(p)
  BY DEF Lately, Oled

LEMMA ScreenFinishInit ==
    ASSUME I2cInv, ToldInv, NEW p \in Peripherals, p = Oled, ScreenState, Serving(p), pc = "init", FinishInit(p), ServeFrame
    PROVE  ScreenState'
<1>k. DOMAIN driver = Peripherals
  BY TouchKnown
<1>1. PICK answered \in BOOLEAN :
              /\ NextTurn
              /\ \/ Initialized(p, work.cfg, answered, handler = p \/ work.cfg # settings[p])
                 \/ driver' = [driver EXCEPT ![p] = Deinit(p, @)] /\ UNCHANGED <<screen, owed>>
  BY InitOutcome
<1>2. ~InRead(p)'
  BY <1>1 DEF InRead, NextTurn
<1>3. Drawn' \subseteq Drawn
  BY <1>2 DEF Drawn
<1>4. Looks' /\ IsDisplay(driver'[p]) /\ (driver'[p].up => driver'[p].greeted) /\ driver'[p].refreshed = driver[p].refreshed
  <2>1. CASE Initialized(p, work.cfg, answered, handler = p \/ work.cfg # settings[p])
    <3> DEFINE cfg == work.cfg
    <3>1. driver'[Oled] = Ready(Oled, driver[Oled], cfg) /\ ScreenReady(driver[Oled], cfg, answered)
      BY <1>k, <2>1 DEF Initialized, Oled
    <3> HIDE DEF cfg
    <3> QED BY <1>3, <3>1, LooksReady DEF ScreenState
  <2>2. CASE driver' = [driver EXCEPT ![p] = Deinit(p, @)] /\ UNCHANGED <<screen, owed>>
    <3>1. driver'[Oled] = DisplayDeinit(driver[Oled])
      BY <1>k, <2>2 DEF Deinit, Oled
    <3>2. Idles(driver[Oled], driver'[Oled])
      BY <3>1, DisplayDown DEF ScreenState
    <3> QED BY <1>3, <2>2, <3>2, LooksSame DEF ScreenState, Idles, SameLayout
  <2> QED BY <1>1, <2>1, <2>2
<1>5. Attention(p)'
  BY <1>4, ScreenLately, AttentionInit DEF ScreenState
<1> QED BY <1>2, <1>4, <1>5 DEF ScreenState

LEMMA ScreenIdle ==
    ASSUME I2cInv, ToldInv, NEW p \in Peripherals, p = Oled, ScreenState, Serving(p), pc = "idle", ServeFrame,
           Probe(p) \/ Pass(p) \/ UpdateDown(p)
    PROVE  ScreenState'
<1>k. DOMAIN driver = Peripherals
  BY TouchKnown
<1>1. ~InRead(p)' /\ screen' = screen /\ owed' = owed
  BY DEF Probe, UpdateDown, Pass, ghosts, InRead, NextTurn
<1>2. Drawn' \subseteq Drawn
  BY <1>1 DEF Drawn
<1>3. Idles(driver[p], driver'[p])
  <2>1. CASE driver' = driver
    BY <2>1 DEF Idles, SameLayout, ScreenState
  <2>2. CASE Probe(p) /\ Begun(p, Found(p), settings[p])
    <3>1. driver'[p] = [DisplayStart(driver[p], settings[p]) EXCEPT !.address = Found(p)]
      BY <1>k, <2>2 DEF Begun, Start, Oled
    <3> QED BY <3>1, DisplayStarted DEF ScreenState
  <2>3. CASE UpdateDown(p)
    <3>1. driver'[p] = DisplayDeinit(driver[p])
      BY <1>k, <2>3 DEF UpdateDown, Dropped, Deinit, Oled
    <3> QED BY <3>1, DisplayDown DEF ScreenState
  <2> QED BY <2>1, <2>2, <2>3 DEF Probe, Pass
<1>4. Looks'
  BY <1>1, <1>2, <1>3, LooksSame DEF ScreenState
<1>5. Attention(p)'
  <2>1. Lately(p)' \subseteq Lately(p)
    BY <1>3, ScreenLately DEF Idles, SameLayout
  <2> QED BY <2>1, AttentionIdle, AttentionPass DEF ScreenState
<1> QED BY <1>1, <1>3, <1>4, <1>5 DEF ScreenState, Idles, SameLayout

\* A drawing begins, of all that is pending then.
LEMMA ScreenDrawing ==
    ASSUME I2cInv, ToldInv, NEW p \in Peripherals, p = Oled, ScreenState, Serving(p), pc = "idle", ServeFrame,
           UpdateDisplay(p), RefreshDue(driver[p], now)
    PROVE  ScreenState'
<1>k. DOMAIN driver = Peripherals
  BY TouchKnown
<1> DEFINE w == Expire(driver[p], now)
<1>1. PICK answered \in BOOLEAN :
         /\ IF Pending(w) = {} THEN UNCHANGED calm ELSE Outcome(p, answered)
         /\ driver' = [driver EXCEPT ![p] = w]
         /\ screen' = IF answered THEN Draw(w, screen) ELSE screen
         /\ owed' = IF answered THEN owed \ Pending(w) ELSE owed \cup Pending(w)
         /\ pc' = "read" /\ work' = [drawn |-> Pending(w), sample |-> Pending(w)] /\ turn' = turn
  BY DEF UpdateDisplay
<1>2. Rewrites(driver[p], w)
  BY ExpiredRewritten DEF ScreenState
<1> HIDE DEF w
<1>3. driver'[p] = w /\ work'.drawn = Pending(w) /\ work'.sample = Pending(w)
  BY <1>1, <1>k
<1>4. InRead(p)' /\ ~InRead(p) /\ now' = now
  BY <1>1 DEF InRead, Serving, ServeFrame
<1>5. driver[p].greeted
  BY DEF UpdateDisplay, ScreenState
<1>6. Looks'
  BY <1>1, <1>2, <1>3, <1>4, <1>5, LooksDrawn DEF ScreenState
<1>7. calm'[p] = 0 \/ calm'[p] = calm[p]
  BY <1>1, OutcomeCalm
<1>8. Attention(p)'
  <2>1. ~Late(p)'
    BY <1>4 DEF Late, Drawing, Oled
  <2>2. Lately(p)' \subseteq Lately(p)
    BY <1>2, <1>3, ScreenLately DEF Rewrites, SameLayout
  <2>3. ~(calm'[p] > 0) \/ calm'[p] = calm[p]
    BY <1>7
  <2> QED BY <1>4, <2>1, <2>2, <2>3, AttentionKept DEF ScreenState
<1> QED BY <1>2, <1>3, <1>5, <1>6, <1>8 DEF ScreenState, Rewrites, SameLayout

\* It is too early to draw again: not for long enough to matter.
LEMMA ScreenEarly ==
    ASSUME I2cInv, ToldInv, NEW p \in Peripherals, p = Oled, ScreenState, Serving(p), pc = "idle", ServeFrame,
           UpdateDisplay(p), ~RefreshDue(driver[p], now)
    PROVE  ScreenState'
<1>k. now \in Nat /\ ProbeInterval \in Nat /\ Interval[p] \in Nat \ {0} /\ calm[p] \in Nat
  BY Known
<1>1. UNCHANGED <<driver, screen, owed, calm, device, mixed, unnoticed, now, settings>> /\ NextTurn
  BY DEF UpdateDisplay, ServeFrame
<1>2. sched' = Rescheduled(p) /\ sched[p].initialized
  BY DEF UpdateDisplay, UpdateDue
<1>3. ~InRead(p)' /\ ~InRead(p)
  BY <1>1 DEF InRead, NextTurn
<1>4. Looks'
  BY <1>1, <1>3 DEF ScreenState, Looks, Drawn, Oled
<1>5. sched'[p].initialized /\ sched'[p].update = now + Interval[p]
  BY <1>2, RescheduledFacts
<1>6. Lately(p)' = Lately(p) /\ (Late(p)' <=> Late(p)) /\ (Healthy(p)' <=> Healthy(p))
  BY <1>1, <1>2, <1>3, <1>5 DEF Lately, Late, Healthy, Wanting, Followed, Reports, Drawing
<1>7. ASSUME Late(p), Healthy(p) PROVE Pressing(p)'
  <2>1. Pressing(p)
    BY <1>7 DEF ScreenState, Attention
  <2>2. driver[p].refreshed \in Nat /\ driver[p].refreshed + calm[p] <= now + 1
    BY <1>7 DEF ScreenState, Attention, Lately, Oled
  <2>3. now - driver[p].refreshed < RefreshTime /\ RefreshTime \in Nat /\ RefreshTime <= ProbeInterval
    <3>1. RefreshTime \in 0 .. ProbeInterval
      BY I2cAssumption
    <3> QED BY <1>k, <2>2, <3>1 DEF RefreshDue
  <2>4. calm[p] <= ProbeInterval
    BY <1>k, <2>2, <2>3
  <2> QED BY <1>1, <1>3, <1>5, <1>k, <2>1, <2>4 DEF Pressing
<1>8. Attention(p)'
  BY <1>1, <1>6, <1>7, AttentionKept DEF ScreenState
<1> QED BY <1>1, <1>3, <1>4, <1>8 DEF ScreenState

LEMMA ScreenFinishUpdate ==
    ASSUME I2cInv, ToldInv, NEW p \in Peripherals, p = Oled, ScreenState, Serving(p), pc = "read", FinishUpdate(p), ServeFrame
    PROVE  ScreenState'
<1>k. DOMAIN driver = Peripherals /\ now \in Nat /\ calm[p] \in Nat
  BY TouchKnown, Known
<1> DEFINE v == driver[p]
           x == Process(p, driver[p], settings[p], TRUE)
<1>r. InRead(p)
  BY DEF InRead
<1>1. /\ UNCHANGED <<calm, screen, owed>> /\ NextTurn
      /\ x.ok => driver' = [driver EXCEPT ![p] = x.v] /\ UNCHANGED <<sched, device>>
  BY DEF FinishUpdate, ReadsLast, Oled
<1>2. x.v = DisplayProcess(v, work.sample, now) /\ x.ok = TRUE
  BY DEF Process, Oled
<1> HIDE DEF x
<1>3. driver'[p] = DisplayProcess(v, work.drawn, now) /\ sched' = sched
  BY <1>1, <1>2, <1>k, <1>r DEF ScreenState
<1>4. now' = now /\ ~InRead(p)'
  BY <1>1 DEF ServeFrame, InRead, NextTurn
<1>5. Cleaned(v, work.drawn, now, driver'[p])
  BY <1>3, <1>k, DisplayProcessed DEF ScreenState
<1>6. Looks'
  <2> SUFFICES ASSUME Laid(driver'[p]), NEW e \in Elements, e \notin owed, ~driver'[p].elements[e].change
               PROVE  screen[e] = driver'[p].elements[e].text
    BY <1>1, <1>4 DEF Looks, Shows, Drawn
  <2>1. Laid(v)
    BY <1>5 DEF Laid, Cleaned
  <2>2. ~v.elements[e].change \/ e \in Drawn
    BY <1>5, <1>r DEF Cleaned, Drawn
  <2> QED BY <1>5, <2>1, <2>2 DEF Cleaned, Looks, Shows, ScreenState
<1>7. Attention(p)'
  <2>1. ~Late(p)'
    <3> SUFFICES ASSUME calm[p] > 0 PROVE Healthy(p)' /\ ~Wanting(p)'
      BY <1>1 DEF Late
    <3>1. Healthy(p)'
      <4>1. Healthy(p)
        BY <1>r, ReadingHealthy
      <4> QED BY <1>3, <1>5, <4>1 DEF Healthy, Cleaned, Faithful, Oled
    <3>2. Pending(driver'[p]) = {}
      BY <1>5, <1>r DEF ScreenState, Pending, Cleaned
    <3> QED BY <3>1, <3>2 DEF Wanting, Oled
  <2>2. Lately(p)' = {now}
    BY <1>5 DEF Lately, Cleaned, Oled
  <2> QED BY <1>4, <1>k, <2>1, <2>2 DEF Attention
<1> QED BY <1>4, <1>5, <1>6, <1>7 DEF ScreenState, Cleaned

LEMMA ScreenServed ==
    ASSUME I2cInv, ToldInv, NEW p \in Peripherals, p = Oled, ScreenState, Serving(p), ServeFrame, ServedStep(p)
    PROVE  ScreenState'
<1>1. ~UpdateUnread(p) /\ ~UpdateRead(p)
  BY DEF UpdateUnread, UpdateRead, Oled
<1> QED BY <1>1, ScreenFinishInit, ScreenFinishUpdate, ScreenIdle, ScreenDrawing, ScreenEarly DEF ServedStep

\* The dispatcher
LEMMA ScreenWritten ==
    ASSUME I2cInv, ToldInv, NEW p \in Peripherals, p = Oled, ScreenState, DispatchFrame, calm' = [calm EXCEPT ![p] = 0],
           \/ /\ Idles(driver[p], driver'[p]) /\ UNCHANGED <<screen, owed>>
           \/ /\ Rewrites(driver[p], driver'[p]) /\ owed' = owed \cup Overtaken(driver'[p]) /\ screen' = screen
    PROVE  ScreenState'
<1>k. DOMAIN calm = Peripherals
  BY TouchKnown
<1>f. UNCHANGED <<now, turn, pc, work, order, sched, ran, frozen>>
  BY DEF DispatchFrame, threadVars, gateVars
<1>1. ~(calm'[p] > 0)
  BY <1>k
<1>2. (InRead(p)' <=> InRead(p)) /\ Drawn' = Drawn
  BY <1>f DEF InRead, Serving, Drawn, Oled
<1>3. Looks'
  <2>1. CASE Idles(driver[p], driver'[p]) /\ UNCHANGED <<screen, owed>>
    BY <1>2, <2>1, LooksSame DEF ScreenState
  <2>2. CASE Rewrites(driver[p], driver'[p]) /\ owed' = owed \cup Overtaken(driver'[p]) /\ screen' = screen
    BY <1>2, <2>2, LooksKept DEF ScreenState, Rewrites
  <2> QED BY <2>1, <2>2
<1>4. SameLayout(driver[p], driver'[p]) /\ (driver'[p].up => driver[p].up)
  BY DEF Idles, Rewrites
<1>5. Attention(p)'
  BY <1>1, <1>4, <1>f, ScreenLately, AttentionKept DEF SameLayout, ScreenState
<1> QED BY <1>1, <1>2, <1>3, <1>4, <1>5, <1>f DEF ScreenState, SameLayout

LEMMA ScreenDispatched ==
    ASSUME I2cInv, ToldInv, NEW p \in Peripherals, p = Oled, ScreenState, DispatchFrame,
           \/ \E write \in Writes : write.peripheral = p /\ WriteSetting(write)
           \/ handler = p /\ FinishHandlerInit
           \/ RefreshHost(p)
           \/ \E message \in Messages : ShowOnDisplay(message)
           \/ \E value \in 0 .. Len(Presets) - 2 : ChangePreset(value)
    PROVE  ScreenState'
<1>k. DOMAIN driver = Peripherals
  BY TouchKnown
<1>v. IsDisplay(driver[p])
  BY DEF ScreenState
<1>f. UNCHANGED <<now, turn, pc, work, order, sched, ran, frozen>>
  BY DEF DispatchFrame, threadVars, gateVars
<1>i. (InRead(p)' <=> InRead(p)) /\ Drawn' = Drawn
  BY <1>f DEF InRead, Serving, Drawn, Oled
<1>1. ASSUME NEW w, Rewrites(driver[p], w), Displayed(w), calm' = [calm EXCEPT ![p] = 0], screen' = screen
      PROVE  ScreenState'
  <2>1. driver'[p] = w /\ owed' = owed \cup Overtaken(w)
    BY <1>1, <1>k DEF Displayed, Oled
  <2> QED BY <1>1, <2>1, ScreenWritten
<1>2. ASSUME NEW write \in Writes, write.peripheral = p, WriteSetting(write) PROVE ScreenState'
  <2> DEFINE stored == [settings EXCEPT ![p][write.setting] = write.value]
             w == DisplayWritten(driver[p], write.setting, write.value, now)
  <2>1. Handling(p, write.setting) \in {"init", "store"}
    BY DEF Handling, DisplayHandling, Oled
  <2>2. /\ calm' = [calm EXCEPT ![p] = 0] /\ screen' = screen
        /\ \/ Begun(p, driver[p].address, stored[p]) /\ owed' = owed
           \/ Displayed(w)
    BY <1>2, <2>1 DEF WriteSetting, Oled
  <2> HIDE DEF stored, w
  <2>3. CASE Begun(p, driver[p].address, stored[p]) /\ owed' = owed
    <3> DEFINE cfg == stored[p]
               address == driver[p].address
    <3>1. driver'[p] = [DisplayStart(driver[p], cfg) EXCEPT !.address = address]
      BY <1>k, <2>3 DEF Begun, Start, Oled
    <3> HIDE DEF cfg, address
    <3>2. Idles(driver[p], [DisplayStart(driver[p], cfg) EXCEPT !.address = address])
      BY <1>v, DisplayStarted
    <3>3. Idles(driver[p], driver'[p])
      BY <3>1, <3>2
    <3> QED BY <2>2, <2>3, <3>3, ScreenWritten
  <2>4. CASE Displayed(w)
    <3>1. Rewrites(driver[p], w)
      BY <1>v, SettingRewritten DEF w
    <3> QED BY <1>1, <2>2, <2>4, <3>1
  <2> QED BY <2>2, <2>3, <2>4
<1>3. ASSUME handler = p, FinishHandlerInit PROVE ScreenState'
  <2> DEFINE cfg == settings[p]
  <2>1. PICK answered \in BOOLEAN :
          /\ Outcome(p, answered)
          /\ \/ Initialized(p, cfg, answered, Serving(p) /\ pc = "init")
             \/ UNCHANGED <<driver, screen, owed>>
    BY <1>3 DEF FinishHandlerInit
  <2>2. ~(calm'[p] > 0)
    <3>1. ~(calm[p] > 0)
      BY <1>3, Known DEF PeripheralInv, CalmInv
    <3> QED BY <2>1, <3>1, OutcomeCalm
  <2> HIDE DEF cfg
  <2>3. Looks' /\ IsDisplay(driver'[p]) /\ (driver'[p].up => driver'[p].greeted) /\ driver'[p].refreshed = driver[p].refreshed
    <3>1. CASE UNCHANGED <<driver, screen, owed>>
      BY <1>i, <3>1 DEF ScreenState, Looks
    <3>2. CASE Initialized(p, cfg, answered, Serving(p) /\ pc = "init")
      <4>1. driver'[Oled] = Ready(Oled, driver[Oled], cfg) /\ ScreenReady(driver[Oled], cfg, answered)
        BY <1>k, <3>2 DEF Initialized, Oled
      <4> QED BY <1>i, <4>1, LooksReady DEF ScreenState
    <3> QED BY <2>1, <3>1, <3>2
  <2>4. Attention(p)'
    BY <1>f, <2>2, <2>3, ScreenLately, AttentionKept DEF ScreenState
  <2> QED BY <1>f, <1>i, <2>2, <2>3, <2>4 DEF ScreenState
<1>4. ASSUME RefreshHost(p) PROVE ScreenState'
  <2>1. UNCHANGED <<driver, settings, handler, device, calm, mixed, unnoticed, screen, owed>>
    BY <1>4 DEF RefreshHost
  <2>2. Untouched(p)
    BY <1>f, <2>1 DEF Untouched, Stays, Served, InInit, InRead, Serving
  <2>3. Attention(p)'
    BY <2>1, <2>2, AttentionStays DEF ScreenState
  <2> QED BY <1>f, <1>i, <2>1, <2>3 DEF ScreenState, Looks
<1>5. ASSUME NEW message \in Messages, ShowOnDisplay(message) PROVE ScreenState'
  <2> DEFINE w == ShowMessage(driver[p], message.typeElement, message.valueElement, message, now)
  <2>1. Displayed(w) /\ calm' = [calm EXCEPT ![p] = 0] /\ screen' = screen
    BY <1>5 DEF ShowOnDisplay, Oled
  <2>2. Rewrites(driver[p], w)
    BY <1>v, MessageRewritten
  <2> HIDE DEF w
  <2> QED BY <1>1, <2>1, <2>2
<1>6. ASSUME NEW value \in 0 .. Len(Presets) - 2, ChangePreset(value) PROVE ScreenState'
  <2> DEFINE text == Presets[value + 2]
             w == SetText(driver[p], "preset", text, now)
  <2>1. Displayed(w) /\ calm' = [calm EXCEPT ![p] = 0] /\ screen' = screen
    BY <1>6 DEF ChangePreset, Oled
  <2>2. "preset" \in Elements
    BY DEF Elements, ElementOrder
  <2> HIDE DEF text
  <2>3. Rewrites(driver[p], w)
    BY <1>v, <2>2, TextRewritten
  <2> HIDE DEF w
  <2> QED BY <1>1, <2>1, <2>3
<1> QED BY <1>2, <1>3, <1>4, <1>5, <1>6

\* The outside: a display that is plugged in again is dark.
LEMMA ScreenDark ==
    ASSUME NEW address, Plug(Oled, address)
    PROVE  screen' = ClearScreen /\ owed' = owed \cup Wiped(driver[Oled])
  BY DEF Plug, Oled

LEMMA ScreenOutside ==
    ASSUME I2cInv, ToldInv, NoLostWakeup, NEW p \in Peripherals, p = Oled, ScreenState, OutsideFrame,
           \/ Unplug(p)
           \/ \E address \in 1 .. AddressCount[p] : Plug(p, address)
           \/ \E input \in Inputs[p] : Stimulate(p, input)
           \/ Tick
    PROVE  ScreenState'
<1>k. DOMAIN calm = Peripherals
  BY TouchKnown
<1>f. UNCHANGED <<driver, order, turn, pc, work>>
  BY DEF OutsideFrame
<1>i. (InRead(p)' <=> InRead(p)) /\ Drawn' = Drawn
  BY <1>f DEF InRead, Serving, Drawn, Oled
<1>1. CASE Tick
  <2>1. turn = 0 /\ UNCHANGED <<screen, owed>>
    BY <1>1 DEF Tick
  <2>2. ~InRead(p)
    BY <2>1, Known DEF InRead, Serving, ThreadInv
  <2>3. Attention(p)'
    BY <1>1, AttentionTick DEF ScreenState
  <2> QED BY <1>f, <1>i, <2>1, <2>2, <2>3 DEF ScreenState, Looks
<1>2. ASSUME calm' = [calm EXCEPT ![p] = 0], now' = now, Looks' PROVE ScreenState'
  <2>1. ~(calm'[p] > 0)
    BY <1>2, <1>k
  <2>2. Attention(p)'
    BY <1>2, <1>f, <2>1, ScreenLately, AttentionKept DEF ScreenState
  <2> QED BY <1>2, <1>f, <1>i, <2>1, <2>2 DEF ScreenState
<1>3. ASSUME NEW input, Unplug(p) \/ Stimulate(p, input) PROVE ScreenState'
  <2>1. UNCHANGED <<screen, owed>>
    BY <1>3 DEF Unplug, Stimulate
  <2>2. Looks'
    BY <1>f, <1>i, <2>1 DEF ScreenState, Looks
  <2> QED BY <1>2, <1>3, <2>2, Disturbed
<1>4. ASSUME NEW address, Plug(p, address) PROVE ScreenState'
  <2>1. screen' = ClearScreen /\ owed' = owed \cup Wiped(driver[Oled])
    BY <1>4, ScreenDark
  <2>2. Follows(driver[Oled], driver'[Oled]) /\ Overtaken(driver'[Oled]) = {}
    BY <1>f DEF Follows, Overtaken, Oled
  <2>3. Looks'
    BY <1>i, <2>1, <2>2, LooksWiped
  <2> QED BY <1>2, <1>4, <2>3, Disturbed
<1> QED BY <1>1, <1>3, <1>4

LEMMA ScreenHolds ==
    ASSUME I2cInv, ToldInv, NoLostWakeup, ScreenInv, [I2cNext]_i2cVars
    PROVE  ScreenInv'
<1>1. order' = order
  BY DEF I2cNext, GateStep, ThreadStep, DispatcherStep, OutsideStep, i2cVars
<1>2. SUFFICES ASSUME Oled \in Peripherals PROVE ScreenState'
  BY <1>1, PeripheralsStay DEF ScreenInv
<1>3. PICK p \in Peripherals : p = Oled
  BY <1>2
<1>4. ScreenState
  BY <1>2 DEF ScreenInv
<1>5. CASE Alone(p)
  <2>1. /\ Untouched(p) /\ driver'[p] = driver[p] /\ device'[p] = device[p] /\ screen' = screen /\ owed' = owed
        /\ InRead(p) => work' = work
    BY <1>3, <1>5 DEF Alone, Oled
  <2>2. (InRead(p)' <=> InRead(p)) /\ (calm'[p] > 0 => calm'[p] = calm[p])
    BY <2>1 DEF Untouched, Stays
  <2>3. Drawn' = Drawn
    BY <1>3, <2>1, <2>2 DEF Drawn
  <2>4. Looks'
    BY <1>3, <1>4, <2>1, <2>3 DEF ScreenState, Looks
  <2>5. Attention(p)'
    BY <1>3, <1>4, <2>1, AttentionStays DEF ScreenState
  <2> QED BY <1>3, <1>4, <2>1, <2>2, <2>4, <2>5 DEF ScreenState
<1>6. CASE OwnStep(p)
  BY <1>3, <1>4, <1>6, ScreenServed, ScreenDispatched, ScreenOutside DEF OwnStep
<1> QED BY <1>5, <1>6, Whose

LEMMA ScreenStart == I2cInit => ScreenInv
<1> SUFFICES ASSUME I2cInit, Oled \in Peripherals PROVE ScreenState
  BY DEF ScreenInv
<1>1. driver[Oled] = DisplayFresh /\ screen = ClearScreen /\ calm[Oled] = 0 /\ pc = "idle" /\ now = 0
  BY DEF I2cInit, FreshDriver, Oled
<1>2. /\ IsDisplay(DisplayFresh) /\ DisplayFresh.up = FALSE /\ DisplayFresh.refreshed = 0
      /\ \A e \in Elements : ~DisplayFresh.elements[e].change => DisplayFresh.elements[e].text = Blank
  BY DEF IsDisplay, DisplayFresh, Element
<1>3. ~InRead(Oled)
  BY <1>1 DEF InRead
<1>4. Looks
  BY <1>1, <1>2, <1>3 DEF Looks, Shows, Drawn, ClearScreen
<1>5. Attention(Oled)
  BY <1>1, <1>2 DEF Attention, Late, Lately, Oled
<1> QED BY <1>1, <1>2, <1>3, <1>4, <1>5 DEF ScreenState

LEMMA ScreenSettled ==
    ASSUME I2cInv, ScreenInv
    PROVE  ScreenShows
<1> SUFFICES ASSUME Oled \in Peripherals
             PROVE  /\ driver[Oled].resolution = "128x64" =>
                        \A e \in Elements \ owed : ~driver[Oled].elements[e].change => screen[e] = driver[Oled].elements[e].text
                    /\ driver[Oled].up /\ Settled(Oled) /\ pc = "idle" => Pending(driver[Oled]) = {}
  BY DEF ScreenShows, Oled
<1>1. ScreenState
  BY DEF ScreenInv
<1>2. ASSUME driver[Oled].up, Settled(Oled), pc = "idle" PROVE Pending(driver[Oled]) = {}
  <2>1. PICK p \in Peripherals : p = Oled
    OBVIOUS
  <2>k. now \in Nat /\ ProbeInterval \in Nat /\ Interval[p] \in Nat /\ calm[p] \in Nat
    BY Known
  <2>2. Healthy(p)
    BY <1>2, <2>1, SettledDriver DEF Absent
  <2>3. ~Pressing(p) /\ calm[p] > 0
    BY <1>2, <2>1, <2>k DEF Settled, Pressing
  <2>4. ~Late(p)
    BY <1>1, <2>1, <2>2, <2>3 DEF ScreenState, Attention
  <2>5. ~Drawing(p)
    BY <1>2 DEF Drawing, InRead
  <2> QED BY <2>1, <2>2, <2>3, <2>4, <2>5 DEF Late, Wanting, Oled
<1>3. driver[Oled].resolution = "128x64" =>
          \A e \in Elements \ owed : ~driver[Oled].elements[e].change => screen[e] = driver[Oled].elements[e].text
  BY <1>1 DEF ScreenState, Looks, Laid, Shows
<1> QED BY <1>2, <1>3

\* The screen shows what the elements say: what is not to be drawn any more is on the screen, unless it was wiped or
\* changed while it was drawn, and what changed is drawn when the display is there for long enough
\* (Elements::update(), init_u8x8()).
THEOREM I2cScreenShows == I2cSpec => []ScreenShows
<1>1. I2cSpec => []NoLostWakeup
  BY I2cUsesGate, GateNoLostWakeup, PTL
<1> QED BY <1>1, ScreenHolds, ScreenStart, ScreenSettled, I2cInvariant, ToldAlways, PTL DEF I2cSpec
=============================================================================
