--------------------------- MODULE DatabaseProofs ---------------------------
(***************************************************************************)
(* What the configuration database is worth for any number of presets and  *)
(* readers, any failures and power losses, and any order of sessions,      *)
(* restores and resets.                                                    *)
(***************************************************************************)
EXTENDS Database, SequenceTheorems, TLAPS

-----------------------------------------------------------------------------
(* The inductive invariant.  What is stored, and what may be stored when   *)
(* the power goes:                                                         *)

Writes ==
    [field : {"uid"}, value : {TRUE}] \cup [field : {"active"}, value : Presets]
        \cup [field : {"preserve"}, value : {0, 1}] \cup [field : {"common"}, value : {"default", "user"}]
        \cup [field : {"data"}, preset : Presets, value : {"default", "user"}]

Good(cells) == cells \in Cells /\ (cells.uid => Complete(cells))
Entry == [write : Writes, after : Cells]

StorageInv ==
    /\ Good(flash)
    /\ journal \in Seq(Entry) /\ \A i \in DOMAIN journal : Good(journal[i].after)

\* The other variables.
Events == {"BackupStart", "BackupEnd", "RestoreStart", "RestoreEnd", "FactoryResetStart", "FactoryResetEnd",
           "ConfigurationSessionOpened", "ConfigurationSessionClosed", "PresetChanged"}
AdminState == [context : {"Common", "Preset"}, active : Presets, layout : 0 .. NumPresets]
HwState == [session : BOOLEAN, backup : BOOLEAN, bulk : BOOLEAN, toCache : BOOLEAN]
HostState == [open : BOOLEAN, mode : {"None", "Backup", "Restore"}]
StageState == [op : {"init", "run", "reset"}, at : Ats, next : 1 .. NumPresets + 3]
CallState == [at : {"idle", "layout", "preset", "context"}, preset : Presets, overtaken : BOOLEAN]

StateInv ==
    /\ admin \in AdminState /\ hw \in HwState /\ host \in HostState /\ stage \in StageState
    /\ signals \in Seq(Events)
    /\ calls \in [DOMAIN calls -> CallState]
    /\ factory \in Cells \cup {NoSnapshot}
    /\ faults \in Nat

\* How far the defaults have been written when the next of them is number n.
Unsigned(common, data) == [uid |-> FALSE, active |-> 0, preserve |-> 0, common |-> common, data |-> data]
Data == [Presets -> Values]
AllDefault == [p \in Presets |-> "default"]
PartialData(n) == [p \in Presets |-> IF n > NumPresets - p + 1 THEN "default" ELSE "erased"]
Partial(n) == Unsigned(IF n > 1 THEN "default" ELSE "erased", PartialData(n))
DefaultCells == [uid |-> TRUE, active |-> 0, preserve |-> 0, common |-> "default", data |-> AllDefault]

StageInv ==
    /\ stage.op = "run" <=> stage.at = "run"
    /\ stage.at = "signature" => stage.op = "init"
    /\ stage.op = "init" => host = NoHost /\ \A r \in DOMAIN calls : calls[r] = NoCall
    /\ stage.at \in {"restore", "clearForSnapshot"} => factory # NoSnapshot
    /\ stage.at = "defaults" => Visible = Partial(stage.next)
    /\ stage.at \in {"snapshot", "done"} => Visible = DefaultCells
    /\ stage.op = "reset" /\ stage.at = "load" => Visible = DefaultCells
    /\ factory # NoSnapshot => factory = DefaultCells

\* The selected region: what a reader is about to store, as long as no reader was overtaken.
SelectionInv ==
    stage.op # "reset" /\ Undisturbed =>
        /\ admin.context = "Preset" => admin.layout = admin.active
        /\ admin.context = "Common" /\ (\A r \in DOMAIN calls : calls[r].at \in {"idle", "layout"}) =>
              admin.layout = CommonRegion
        /\ \A r \in DOMAIN calls :
              /\ calls[r].at # "idle" => calls[r].preset = admin.active
              /\ calls[r].at \in {"preset", "context"} => admin.layout = admin.active

ActiveInv ==
    /\ ActiveIsStored
    /\ stage.op = "init" /\ (stage.at = "snapshot" \/ (stage.at = "defaults" /\ stage.next > NumPresets + 1)) =>
          admin.active = 0

\* What a host wrote and is not durable waits for a signal that flushes it, as the cached mode was switched on
\* by a signal before that one.
Ends   == {"RestoreEnd", "FactoryResetEnd"}
Starters == {"RestoreStart", "FactoryResetStart"}
CachedAt(i) ==
    \/ hw.toCache /\ \A j \in DOMAIN signals : j < i => signals[j] \notin Ends
    \/ \E k \in DOMAIN signals :
          /\ k < i /\ signals[k] \in Starters
          /\ \A j \in DOMAIN signals : k < j /\ j < i => signals[j] \notin Ends
CachedNow == CachedAt(Len(signals) + 1)
CloseFlushes == \E i \in DOMAIN signals : signals[i] = "ConfigurationSessionClosed"
EndFlushes == \E i \in DOMAIN signals : signals[i] \in Ends /\ CachedAt(i)

SavingInv ==
    faults = 0 =>
       /\ Unsaved => host.open \/ CloseFlushes
       /\ Unsaved /\ stage.at = "restart" => CloseFlushes \/ EndFlushes
       /\ stage.at \in {"signature", "load", "restore", "defaults", "snapshot", "done"} => ~Unsaved
       /\ stage.op = "run" /\ host.mode = "Restore" => CachedNow

IInv == StorageInv /\ StateInv /\ StageInv /\ SelectionInv /\ ActiveInv /\ SavingInv

-----------------------------------------------------------------------------
(* The storage.                                                            *)

\* What each write changes.
LEMMA ApplyFields ==
    ASSUME NEW c, NEW w
    PROVE  /\ w.field = "uid" => Apply(c, w) = [c EXCEPT !.uid = w.value]
           /\ w.field = "active" => Apply(c, w) = [c EXCEPT !.active = w.value]
           /\ w.field = "preserve" => Apply(c, w) = [c EXCEPT !.preserve = w.value]
           /\ w.field = "common" => Apply(c, w) = [c EXCEPT !.common = w.value]
           /\ w.field = "data" => Apply(c, w) = [c EXCEPT !.data[w.preset] = w.value]
BY DEF Apply

LEMMA WriteFields ==
    /\ \A f, v : Set(f, v).field = f /\ Set(f, v).value = v
    /\ \A p, v : SetData(p, v).field = "data" /\ SetData(p, v).preset = p /\ SetData(p, v).value = v
    /\ Set("uid", TRUE) \in Writes
    /\ \A p \in Presets : Set("active", p) \in Writes
    /\ \A b \in {0, 1} : Set("preserve", b) \in Writes
    /\ \A v \in {"default", "user"} : /\ Set("common", v) \in Writes
                                      /\ \A p \in Presets : SetData(p, v) \in Writes
BY DEF Set, SetData, Writes

LEMMA ApplyGood ==
    ASSUME NEW c, Good(c), NEW w \in Writes, w.field = "uid" => Complete(c)
    PROVE  Good(Apply(c, w))
<1>1. c \in Cells /\ (c.uid => Complete(c))
  BY DEF Good
<1>2. CASE w \in [field : {"uid"}, value : {TRUE}]
  <2>1. Apply(c, w) = [c EXCEPT !.uid = TRUE]
    BY <1>2 DEF Apply
  <2> QED BY <1>1, <1>2, <2>1 DEF Good, Cells, Complete
<1>3. CASE w \in [field : {"active"}, value : Presets]
  <2>1. Apply(c, w) = [c EXCEPT !.active = w.value]
    BY <1>3 DEF Apply
  <2> QED BY <1>1, <1>3, <2>1 DEF Good, Cells, Complete
<1>4. CASE w \in [field : {"preserve"}, value : {0, 1}]
  <2>1. Apply(c, w) = [c EXCEPT !.preserve = w.value]
    BY <1>4 DEF Apply
  <2> QED BY <1>1, <1>4, <2>1 DEF Good, Cells, Complete
<1>5. CASE w \in [field : {"common"}, value : {"default", "user"}]
  <2>1. Apply(c, w) = [c EXCEPT !.common = w.value]
    BY <1>5 DEF Apply
  <2> QED BY <1>1, <1>5, <2>1 DEF Good, Cells, Complete, Values
<1>6. CASE w \in [field : {"data"}, preset : Presets, value : {"default", "user"}]
  <2>1. Apply(c, w) = [c EXCEPT !.data[w.preset] = w.value]
    BY <1>6 DEF Apply
  <2> QED BY <1>1, <1>6, <2>1 DEF Good, Cells, Complete, Values
<1> QED BY <1>2, <1>3, <1>4, <1>5, <1>6 DEF Writes

LEMMA StorageFacts ==
    ASSUME StorageInv
    PROVE  /\ Good(Visible) /\ Visible \in Cells
           /\ Len(journal) \in Nat /\ DOMAIN journal = 1 .. Len(journal)
           /\ journal # <<>> => Len(journal) > 0
<1>1. Len(journal) \in Nat /\ DOMAIN journal = 1 .. Len(journal) /\ (journal # <<>> => Len(journal) > 0)
  BY LenProperties, EmptySeq DEF StorageInv
<1>2. Good(Visible)
  BY <1>1 DEF StorageInv, Visible
<1> QED BY <1>1, <1>2 DEF Good

LEMMA ReplaceStores ==
    ASSUME NEW c, Good(c), flash' = c, journal' = <<>>
    PROVE  StorageInv' /\ Visible' = c /\ ~Unsaved'
<1>1. DOMAIN <<>> = {} /\ <<>> \in Seq(Entry)
  OBVIOUS
<1> QED BY <1>1 DEF StorageInv, Visible, Unsaved, Good, Cells, Complete

LEMMA FlushStores ==
    ASSUME StorageInv, Flush
    PROVE  StorageInv' /\ Visible' = Visible /\ ~Unsaved'
BY StorageFacts, ReplaceStores DEF Flush

LEMMA KeepStores ==
    ASSUME StorageInv, UNCHANGED <<flash, journal>>
    PROVE  StorageInv' /\ Visible' = Visible /\ (Unsaved' <=> Unsaved)
BY DEF StorageInv, Visible, Unsaved

LEMMA JournaledStores ==
    ASSUME StorageInv, NEW w \in Writes, Good(Apply(Visible, w)), journal' = Journaled(w), UNCHANGED flash
    PROVE  /\ StorageInv' /\ Visible' = Apply(Visible, w)
           /\ Unsaved' => Unsaved \/ (w.field = "data" /\ w.value = "user")
<1> DEFINE c == Apply(Visible, w)
           e == [write |-> w, after |-> c]
           n == Len(journal) + 1
<1>1. journal' = Append(journal, e)
  BY DEF Journaled
<1>2. e \in Entry /\ e.write = w /\ e.after = c
  BY DEF Entry, Good
<1> HIDE DEF c, e
<1>3. /\ Len(journal) \in Nat /\ DOMAIN journal = 1 .. Len(journal) /\ DOMAIN journal' = 1 .. n
      /\ journal' \in Seq(Entry) /\ Len(journal') = n /\ journal' # <<>>
      /\ journal'[n] = e /\ \A i \in 1 .. Len(journal) : journal'[i] = journal[i]
  BY <1>1, <1>2, StorageFacts, LenProperties, AppendProperties, EmptySeq DEF StorageInv
<1>4. \A i \in DOMAIN journal' : i \in DOMAIN journal \/ i = n
  BY <1>3
<1>5. Good(c)
  BY DEF c
<1>6. ASSUME NEW i \in DOMAIN journal' PROVE Good(journal'[i].after)
  BY <1>2, <1>3, <1>4, <1>5 DEF StorageInv
<1>7. Good(flash)
  BY DEF StorageInv
<1>8. StorageInv'
  BY <1>3, <1>6, <1>7 DEF StorageInv, Good, Cells, Complete
<1>9. Visible' = c
  BY <1>2, <1>3 DEF Visible
<1>10. Unsaved' => Unsaved \/ (w.field = "data" /\ w.value = "user")
  BY <1>2, <1>3, <1>4 DEF Unsaved
<1> QED BY <1>8, <1>9, <1>10 DEF c

LEMMA WriteStores ==
    ASSUME StorageInv, NEW w \in Writes, Good(Apply(Visible, w)), Write(w)
    PROVE  /\ StorageInv' /\ Visible' = Apply(Visible, w)
           /\ Unsaved' => Unsaved \/ (w.field = "data" /\ w.value = "user")
<1>1. CASE journal' = Journaled(w) /\ UNCHANGED flash
  BY <1>1, JournaledStores
<1>2. CASE flash' = Apply(Visible, w) /\ journal' = <<>>
  BY <1>2, ReplaceStores
<1> QED BY <1>1, <1>2 DEF Write

LEMMA WriteFailsStores ==
    ASSUME StorageInv, NEW w \in Writes, Good(Apply(Visible, w)), WriteFails(w), faults \in Nat
    PROVE  StorageInv' /\ faults' \in Nat \ {0} /\ UNCHANGED <<inputs, losses>>
<1>1. StorageInv'
  BY KeepStores, JournaledStores DEF WriteFails
<1> QED BY <1>1 DEF WriteFails, Fault

-----------------------------------------------------------------------------
(* Regions.                                                                *)

Selected(a) == a.layout = IF a.context = "Common" THEN CommonRegion ELSE a.active

LEMMA PresetFacts ==
    /\ NumPresets \in Nat \ {0} /\ CommonRegion \in 0 .. NumPresets /\ CommonRegion \notin Presets
    /\ 0 \in Presets /\ Presets \subseteq 0 .. NumPresets
    /\ \A n \in 0 .. NumPresets : n # CommonRegion => n \in Presets
BY DatabaseAssumption DEF Presets, CommonRegion

LEMMA SelectFacts ==
    ASSUME NEW a \in AdminState, NEW p \in Presets
    PROVE  /\ SelectCommon(a) \in AdminState /\ SelectCommon(a).context = "Common"
           /\ SelectCommon(a).active = a.active
           /\ Selected(a) \/ a.context = "Preset" => SelectCommon(a).layout = CommonRegion
           /\ SelectPreset(a, p) \in AdminState /\ SelectPreset(a, p).context = "Preset"
           /\ SelectPreset(a, p).active = p
           /\ Selected(a) \/ a.context = "Common" => SelectPreset(a, p).layout = p
<1>1. /\ SelectCommon(a) \in AdminState /\ SelectCommon(a).context = "Common"
      /\ SelectCommon(a).active = a.active
      /\ Selected(a) \/ a.context = "Preset" => SelectCommon(a).layout = CommonRegion
  BY PresetFacts DEF SelectCommon, Selected, AdminState
<1>2. /\ SelectPreset(a, p) \in AdminState /\ SelectPreset(a, p).context = "Preset"
      /\ SelectPreset(a, p).active = p
      /\ Selected(a) \/ a.context = "Common" => SelectPreset(a, p).layout = p
  BY PresetFacts DEF SelectPreset, Selected, AdminState
<1> QED BY <1>1, <1>2

\* The common region after a preset was selected, as set_preset() has it.
LEMMA SelectBoth ==
    ASSUME NEW a \in AdminState, NEW p \in Presets
    PROVE  LET b == SelectCommon(SelectPreset(a, p))
           IN  b \in AdminState /\ b.context = "Common" /\ b.active = p /\ b.layout = CommonRegion
<1> DEFINE c == SelectPreset(a, p)
<1>1. c \in AdminState /\ c.context = "Preset" /\ c.active = p
  BY SelectFacts
<1> HIDE DEF c
<1>2. /\ SelectCommon(c) \in AdminState /\ SelectCommon(c).context = "Common"
      /\ SelectCommon(c).active = p /\ SelectCommon(c).layout = CommonRegion
  BY <1>1, SelectFacts
<1> QED BY <1>2 DEF c

\* A write that misses the common region changes the data of a preset.
LEMMA RegionWrites ==
    ASSUME NEW a \in AdminState
    PROVE  /\ \A f, v : Set(f, v) \in Writes =>
                 /\ InCommon(a, f, v) \in Writes
                 /\ InCommon(a, f, v) = Set(f, v) \/ InCommon(a, f, v).field = "data"
                 /\ a.layout = CommonRegion => InCommon(a, f, v) = Set(f, v)
           /\ InPreset(a, "user") \in Writes /\ InPreset(a, "user").field \in {"common", "data"}
<1>1. a.layout # CommonRegion => a.layout \in Presets
  BY PresetFacts DEF AdminState
<1> QED BY <1>1, WriteFields DEF InCommon, InPreset

-----------------------------------------------------------------------------
(* The defaults.                                                           *)

LEMMA DefaultsFacts ==
    /\ Len(Defaults) = NumPresets + 3
    /\ Defaults[1] = Set("common", "default")
    /\ \A n \in 2 .. NumPresets + 1 : Defaults[n] = SetData(NumPresets + 1 - n, "default")
    /\ Defaults[NumPresets + 2] = Set("preserve", 0)
    /\ Defaults[NumPresets + 3] = Set("uid", TRUE)
<1> DEFINE data == [i \in 1 .. NumPresets |-> SetData(NumPresets - i, "default")]
           a == <<Set("common", "default")>>
           c == <<Set("preserve", 0), Set("uid", TRUE)>>
<1>1. NumPresets \in Nat \ {0}
  BY PresetFacts
<1>2. data \in Seq(Writes) /\ Len(data) = NumPresets
  <2>1. \A i \in 1 .. NumPresets : NumPresets - i \in Presets
    BY <1>1 DEF Presets
  <2>2. data \in [1 .. NumPresets -> Writes]
    BY <2>1, WriteFields
  <2> QED BY <1>1, <2>2, LenProperties, SeqDef
<1>3. a \in Seq(Writes) /\ Len(a) = 1 /\ a[1] = Set("common", "default")
  BY WriteFields
<1>4. c \in Seq(Writes) /\ Len(c) = 2 /\ c[1] = Set("preserve", 0) /\ c[2] = Set("uid", TRUE)
  <2>1. Set("preserve", 0) \in Writes /\ Set("uid", TRUE) \in Writes
    BY WriteFields
  <2>2. \A x, y \in Writes : <<x, y>> \in Seq(Writes) /\ Len(<<x, y>>) = 2
    OBVIOUS
  <2> QED BY <2>1, <2>2
<1>5. \A i \in 1 .. NumPresets : data[i] = SetData(NumPresets - i, "default")
  OBVIOUS
<1>6. Defaults = (a \o data) \o c
  BY DEF Defaults
<1> HIDE DEF data, a, c
<1>7. /\ a \o data \in Seq(Writes) /\ Len(a \o data) = NumPresets + 1
      /\ \A i \in 1 .. NumPresets + 1 : (a \o data)[i] = IF i <= 1 THEN a[i] ELSE data[i - 1]
  BY <1>1, <1>2, <1>3, ConcatProperties
<1>8. /\ Len(Defaults) = NumPresets + 3
      /\ \A i \in 1 .. NumPresets + 3 :
            Defaults[i] = IF i <= NumPresets + 1 THEN (a \o data)[i] ELSE c[i - (NumPresets + 1)]
  <2>1. NumPresets + 1 + 2 = NumPresets + 3
    BY <1>1
  <2>2. /\ Len(Defaults) = Len(a \o data) + Len(c)
        /\ \A i \in 1 .. Len(a \o data) + Len(c) :
              Defaults[i] = IF i <= Len(a \o data) THEN (a \o data)[i] ELSE c[i - Len(a \o data)]
    <3> DEFINE b == a \o data
    <3>1. b \in Seq(Writes) /\ c \in Seq(Writes) /\ Defaults = b \o c
      BY <1>4, <1>6, <1>7
    <3> HIDE DEF b
    <3>2. /\ Len(b \o c) = Len(b) + Len(c)
          /\ \A i \in 1 .. Len(b) + Len(c) : (b \o c)[i] = IF i <= Len(b) THEN b[i] ELSE c[i - Len(b)]
      BY <3>1, ConcatProperties
    <3>3. /\ Len(Defaults) = Len(b) + Len(c)
          /\ \A i \in 1 .. Len(b) + Len(c) : Defaults[i] = IF i <= Len(b) THEN b[i] ELSE c[i - Len(b)]
      BY <3>1, <3>2, Zenon
    <3> QED BY <3>3 DEF b
  <2> QED BY <1>4, <1>7, <2>1, <2>2
<1>9. \A n \in 2 .. NumPresets + 1 : n - 1 \in 1 .. NumPresets /\ NumPresets - (n - 1) = NumPresets + 1 - n
  BY <1>1
<1>10. Defaults[1] = Set("common", "default")
  <2>1. 1 \in 1 .. NumPresets + 3 /\ 1 \in 1 .. NumPresets + 1 /\ 1 <= NumPresets + 1
    BY <1>1
  <2>2. Defaults[1] = (a \o data)[1]
    BY <1>8, <2>1
  <2>3. (a \o data)[1] = a[1]
    BY <1>7, <2>1
  <2> QED BY <1>3, <2>2, <2>3
<1>11. ASSUME NEW n \in 2 .. NumPresets + 1
       PROVE  Defaults[n] = SetData(NumPresets + 1 - n, "default")
  <2>1. n \in 1 .. NumPresets + 1 /\ n \in 1 .. NumPresets + 3 /\ ~(n <= 1) /\ n <= NumPresets + 1
    BY <1>1
  <2>2. Defaults[n] = (a \o data)[n]
    BY <1>8, <2>1
  <2>3. (a \o data)[n] = data[n - 1]
    BY <1>7, <2>1
  <2> QED BY <1>5, <1>9, <2>2, <2>3
<1>12. Defaults[NumPresets + 2] = c[1] /\ Defaults[NumPresets + 3] = c[2]
  <2> DEFINE m == NumPresets + 2
             l == NumPresets + 3
  <2>1. /\ m \in 1 .. NumPresets + 3 /\ ~(m <= NumPresets + 1) /\ m - (NumPresets + 1) = 1
        /\ l \in 1 .. NumPresets + 3 /\ ~(l <= NumPresets + 1) /\ l - (NumPresets + 1) = 2
    BY <1>1
  <2> HIDE DEF m, l
  <2>2. Defaults[m] = c[m - (NumPresets + 1)] /\ Defaults[l] = c[l - (NumPresets + 1)]
    BY <1>8, <2>1
  <2>3. Defaults[m] = c[1] /\ Defaults[l] = c[2]
    BY <2>1, <2>2
  <2> QED BY <2>3 DEF m, l
<1> QED BY <1>4, <1>8, <1>10, <1>11, <1>12

LEMMA DefaultWrites ==
    ASSUME NEW n \in 1 .. NumPresets + 3
    PROVE  /\ Defaults[n] \in Writes
           /\ Defaults[n].field = "data" => Defaults[n].value = "default" /\ Defaults[n].preset \in Presets
           /\ Defaults[n].field = "uid" <=> n = NumPresets + 3
<1>1. \A i \in 2 .. NumPresets + 1 : NumPresets + 1 - i \in Presets
  BY PresetFacts DEF Presets
<1>2. n = 1 \/ n \in 2 .. NumPresets + 1 \/ n = NumPresets + 2 \/ n = NumPresets + 3
  BY PresetFacts
<1>3. CASE n = 1
  BY <1>3, DefaultsFacts, WriteFields, PresetFacts
<1>4. CASE n \in 2 .. NumPresets + 1
  BY <1>1, <1>4, DefaultsFacts, WriteFields, PresetFacts
<1>5. CASE n = NumPresets + 2
  BY <1>5, DefaultsFacts, WriteFields, PresetFacts
<1>6. CASE n = NumPresets + 3
  <2>1. Defaults[n] = Set("uid", TRUE)
    BY <1>6, DefaultsFacts
  <2>2. Set("uid", TRUE) \in Writes /\ Set("uid", TRUE).field = "uid"
    BY WriteFields
  <2> QED BY <1>6, <2>1, <2>2
<1> QED BY <1>2, <1>3, <1>4, <1>5, <1>6

\* Two contents of the storage that agree in every field are equal.
LEMMA CellsEqual ==
    ASSUME NEW c \in Cells, NEW e \in Cells,
           c.uid = e.uid, c.active = e.active, c.preserve = e.preserve, c.common = e.common, c.data = e.data
    PROVE  c = e
BY DEF Cells

LEMMA CommonField ==
    ASSUME NEW k \in Values, NEW v \in Values, NEW d \in Data
    PROVE  [Unsigned(k, d) EXCEPT !.common = v] = Unsigned(v, d)
<1> DEFINE c == Unsigned(k, d)
           e == Unsigned(v, d)
<1>1. c \in Cells /\ e \in Cells /\ c.uid = e.uid /\ c.active = e.active /\ c.preserve = e.preserve
      /\ c.data = e.data /\ e.common = v
  BY PresetFacts DEF Unsigned, Cells, Data
<1> HIDE DEF c, e
<1>2. [c EXCEPT !.common = v] \in Cells
  BY <1>1 DEF Cells
<1>3. [c EXCEPT !.common = v] = e
  BY CellsEqual, <1>1, <1>2 DEF Cells
<1> QED BY <1>3 DEF c, e

\* What a write does to a partial default.
LEMMA UnsignedFields ==
    /\ \A k \in Values, d \in Data :
          /\ [Unsigned(k, d) EXCEPT !.preserve = 0] = Unsigned(k, d)
          /\ [Unsigned(k, d) EXCEPT !.uid = TRUE]
                = [uid |-> TRUE, active |-> 0, preserve |-> 0, common |-> k, data |-> d]
    /\ \A k \in Values, d \in Data, q \in Presets, v \in Values :
          [Unsigned(k, d) EXCEPT !.data[q] = v] = Unsigned(k, [d EXCEPT ![q] = v])
<1>1. ASSUME NEW k \in Values, NEW d \in Data
      PROVE  [Unsigned(k, d) EXCEPT !.preserve = 0] = Unsigned(k, d)
  <2> DEFINE c == Unsigned(k, d)
  <2>1. c \in Cells /\ c.preserve = 0
    BY PresetFacts DEF Unsigned, Cells, Data
  <2> HIDE DEF c
  <2>2. [c EXCEPT !.preserve = 0] = c
    BY <2>1 DEF Cells
  <2> QED BY <2>2 DEF c
<1>2. ASSUME NEW k \in Values, NEW d \in Data
      PROVE  [Unsigned(k, d) EXCEPT !.uid = TRUE]
                = [uid |-> TRUE, active |-> 0, preserve |-> 0, common |-> k, data |-> d]
  <2> DEFINE c == Unsigned(k, d)
             e == [uid |-> TRUE, active |-> 0, preserve |-> 0, common |-> k, data |-> d]
  <2>1. c \in Cells /\ c.active = 0 /\ c.preserve = 0 /\ c.common = k /\ c.data = d
    BY PresetFacts DEF Unsigned, Cells, Data
  <2>2. /\ e \in Cells /\ e.uid = TRUE /\ e.active = 0 /\ e.preserve = 0 /\ e.common = k /\ e.data = d
    BY PresetFacts DEF Cells, Data
  <2> HIDE DEF c, e
  <2>3. [c EXCEPT !.uid = TRUE] \in Cells
    BY <2>1 DEF Cells
  <2>4. [c EXCEPT !.uid = TRUE] = e
    BY CellsEqual, <2>1, <2>2, <2>3 DEF Cells
  <2> QED BY <2>4 DEF c, e
<1>3. ASSUME NEW k \in Values, NEW d \in Data, NEW q \in Presets, NEW v \in Values
      PROVE  [Unsigned(k, d) EXCEPT !.data[q] = v] = Unsigned(k, [d EXCEPT ![q] = v])
  <2> DEFINE x == [d EXCEPT ![q] = v]
             c == Unsigned(k, d)
             e == Unsigned(k, x)
  <2>0. x \in Data
    BY DEF Data
  <2> HIDE DEF x
  <2>1. c \in Cells /\ e \in Cells /\ c.uid = e.uid /\ c.active = e.active /\ c.preserve = e.preserve
        /\ c.common = e.common /\ e.data = x /\ c.data = d
    BY <2>0, PresetFacts DEF Unsigned, Cells, Data
  <2> HIDE DEF c, e
  <2>2. [c EXCEPT !.data[q] = v] = [c EXCEPT !.data = x]
    BY <2>1 DEF x, Cells, Data
  <2>3. [c EXCEPT !.data = x] \in Cells
    BY <2>0, <2>1 DEF Cells, Data
  <2>4. [c EXCEPT !.data = x] = e
    BY CellsEqual, <2>1, <2>3 DEF Cells
  <2> QED BY <2>2, <2>4 DEF c, e, x
<1> QED BY <1>1, <1>2, <1>3

LEMMA PartialShape ==
    /\ \A n \in Nat : n > 1 => Partial(n) = Unsigned("default", PartialData(n))
    /\ Partial(1) = Unsigned("erased", [p \in Presets |-> "erased"])
    /\ PartialData(1) = [p \in Presets |-> "erased"] /\ PartialData(2) = PartialData(1)
    /\ PartialData(NumPresets + 2) = AllDefault /\ PartialData(NumPresets + 3) = AllDefault
<1>1. /\ NumPresets \in Nat \ {0}
      /\ \A p \in Presets : /\ ~(1 > NumPresets - p + 1) /\ ~(2 > NumPresets - p + 1)
                            /\ NumPresets + 2 > NumPresets - p + 1 /\ NumPresets + 3 > NumPresets - p + 1
  BY PresetFacts DEF Presets
<1>2. /\ PartialData(1) = [p \in Presets |-> "erased"] /\ PartialData(2) = [p \in Presets |-> "erased"]
      /\ PartialData(NumPresets + 2) = AllDefault /\ PartialData(NumPresets + 3) = AllDefault
  BY <1>1 DEF PartialData, AllDefault
<1>3. ~(1 > 1)
  OBVIOUS
<1> QED BY <1>2, <1>3 DEF Partial

LEMMA PartialFacts ==
    /\ Partial(1) = Erased /\ Good(Erased) /\ Good(DefaultCells)
    /\ \A n \in 1 .. NumPresets + 3 : Good(Partial(n))
    /\ Complete(Partial(NumPresets + 3))
<1>1. Partial(1) = Erased
  BY PartialShape DEF Unsigned, Erased
<1>2. Good(Erased) /\ Good(DefaultCells)
  BY PresetFacts DEF Good, Cells, Erased, DefaultCells, AllDefault, Complete, Values
<1>3. ASSUME NEW n \in 1 .. NumPresets + 3 PROVE Good(Partial(n))
  <2> DEFINE k == IF n > 1 THEN "default" ELSE "erased"
  <2>1. PartialData(n) \in [Presets -> Values] /\ k \in Values
    BY DEF PartialData, Values
  <2>2. Partial(n) = Unsigned(k, PartialData(n))
    BY DEF Partial
  <2> HIDE DEF k
  <2> QED BY <2>1, <2>2, PresetFacts DEF Good, Cells, Unsigned
<1>4. Complete(Partial(NumPresets + 3))
  <2>1. NumPresets + 3 \in Nat /\ NumPresets + 3 > 1
    BY PresetFacts
  <2>2. Partial(NumPresets + 3) = Unsigned("default", AllDefault)
    BY <2>1, PartialShape
  <2> QED BY <2>2 DEF Complete, Unsigned, AllDefault
<1> QED BY <1>1, <1>2, <1>3, <1>4

\* Each write of the defaults adds one step, the last one the signature.
LEMMA PartialStep ==
    /\ \A n \in 1 .. NumPresets + 2 : Apply(Partial(n), Defaults[n]) = Partial(n + 1)
    /\ Apply(Partial(NumPresets + 3), Defaults[NumPresets + 3]) = DefaultCells
<1>0. NumPresets \in Nat \ {0}
  BY PresetFacts
<1>3. {"erased", "default"} \subseteq Values /\ AllDefault \in Data /\ \A n : PartialData(n) \in Data
  BY DEF Values, Data, AllDefault, PartialData
<1>1. ASSUME NEW n \in 1 .. NumPresets + 2 PROVE Apply(Partial(n), Defaults[n]) = Partial(n + 1)
  <2>1. CASE n = 1
    <3>1. Apply(Partial(1), Defaults[1]) = [Partial(1) EXCEPT !.common = "default"]
      BY DefaultsFacts, WriteFields, ApplyFields
    <3>2. /\ Partial(1) = Unsigned("erased", PartialData(1))
          /\ Partial(1 + 1) = Unsigned("default", PartialData(1))
      BY PartialShape
    <3>3. [Unsigned("erased", PartialData(1)) EXCEPT !.common = "default"] = Unsigned("default", PartialData(1))
      <4> DEFINE k == "erased"
                 v == "default"
                 d == PartialData(1)
      <4>1. k \in Values /\ v \in Values /\ d \in Data
        BY <1>3
      <4> HIDE DEF k, v, d
      <4>2. [Unsigned(k, d) EXCEPT !.common = v] = Unsigned(v, d)
        BY <4>1, CommonField
      <4> QED BY <4>2 DEF k, v, d
    <3> QED BY <2>1, <3>1, <3>2, <3>3
  <2>2. CASE n \in 2 .. NumPresets + 1
    <3> DEFINE q == NumPresets + 1 - n
    <3>1. q \in Presets
      BY <1>0, <2>2 DEF Presets
    <3>2. Apply(Partial(n), Defaults[n]) = [Partial(n) EXCEPT !.data[q] = "default"]
      BY <2>2, DefaultsFacts, WriteFields, ApplyFields
    <3>3. \A p \in Presets : n + 1 > NumPresets - p + 1 <=> n > NumPresets - p + 1 \/ p = q
      BY <1>0, <2>2 DEF Presets
    <3>4. [PartialData(n) EXCEPT ![q] = "default"] = PartialData(n + 1)
      <4> DEFINE f == PartialData(n)
                 g == PartialData(n + 1)
      <4>1. /\ f \in [Presets -> Values] /\ g \in [Presets -> Values]
            /\ \A p \in Presets : /\ f[p] = IF n > NumPresets - p + 1 THEN "default" ELSE "erased"
                                  /\ g[p] = IF n + 1 > NumPresets - p + 1 THEN "default" ELSE "erased"
        BY DEF PartialData, Values
      <4> HIDE DEF f, g
      <4>2. \A p \in Presets : g[p] = IF p = q THEN "default" ELSE f[p]
        BY <3>3, <4>1
      <4> HIDE DEF q
      <4>3. [f EXCEPT ![q] = "default"] = g
        BY <3>1, <4>1, <4>2
      <4> QED BY <4>3 DEF f, g
    <3>5. /\ Partial(n) = Unsigned("default", PartialData(n))
          /\ Partial(n + 1) = Unsigned("default", PartialData(n + 1))
      BY <1>0, <2>2, PartialShape
    <3> HIDE DEF q
    <3>6. [Unsigned("default", PartialData(n)) EXCEPT !.data[q] = "default"]
             = Unsigned("default", [PartialData(n) EXCEPT ![q] = "default"])
      BY <1>3, <3>1, UnsignedFields
    <3> QED BY <3>2, <3>4, <3>5, <3>6
  <2>3. CASE n = NumPresets + 2
    <3>1. Apply(Partial(n), Defaults[n]) = [Partial(n) EXCEPT !.preserve = 0]
      BY <2>3, DefaultsFacts, WriteFields, ApplyFields
    <3>2. n + 1 = NumPresets + 3 /\ n \in Nat /\ n + 1 \in Nat /\ n > 1 /\ n + 1 > 1
      BY <1>0, <2>3
    <3>3. Partial(n) = Unsigned("default", AllDefault) /\ Partial(n + 1) = Unsigned("default", AllDefault)
      BY <2>3, <3>2, PartialShape
    <3>4. [Unsigned("default", AllDefault) EXCEPT !.preserve = 0] = Unsigned("default", AllDefault)
      BY <1>3, UnsignedFields
    <3> QED BY <3>1, <3>3, <3>4
  <2> QED BY <1>0, <2>1, <2>2, <2>3
<1>2. Apply(Partial(NumPresets + 3), Defaults[NumPresets + 3]) = DefaultCells
  <2> DEFINE n == NumPresets + 3
  <2>1. Apply(Partial(n), Defaults[n]) = [Partial(n) EXCEPT !.uid = TRUE]
    <3>1. Defaults[n] = Set("uid", TRUE)
      BY DefaultsFacts
    <3>2. Defaults[n].field = "uid" /\ Defaults[n].value = TRUE
      BY <3>1 DEF Set
    <3>3. Apply(Partial(n), Defaults[n]) = [Partial(n) EXCEPT !.uid = Defaults[n].value]
      BY <3>2, ApplyFields
    <3> QED BY <3>2, <3>3
  <2>2. n \in Nat /\ n > 1
    BY <1>0
  <2>3. Partial(n) = Unsigned("default", AllDefault)
    BY <2>2, PartialShape
  <2>4. [Unsigned("default", AllDefault) EXCEPT !.uid = TRUE] = DefaultCells
    BY <1>3, UnsignedFields DEF DefaultCells
  <2> QED BY <2>1, <2>3, <2>4
<1> QED BY <1>1, <1>2

-----------------------------------------------------------------------------
(* The signals and the cached mode they steer.                             *)

LEMMA QueueKept ==
    ASSUME UNCHANGED <<signals, hw>>
    PROVE  (CloseFlushes' <=> CloseFlushes) /\ (EndFlushes' <=> EndFlushes) /\ (CachedNow' <=> CachedNow)
BY DEF CloseFlushes, EndFlushes, CachedNow, CachedAt

LEMMA Published ==
    ASSUME signals \in Seq(Events), NEW e \in Events, Publish(e), UNCHANGED hw
    PROVE  /\ signals' \in Seq(Events) /\ signals' # <<>>
           /\ CloseFlushes \/ e = "ConfigurationSessionClosed" => CloseFlushes'
           /\ EndFlushes => EndFlushes'
           /\ e \in Ends /\ CachedNow => EndFlushes'
           /\ e \notin Ends /\ CachedNow => CachedNow'
           /\ e \in Starters => CachedNow'
<1> DEFINE n == Len(signals)
           t == signals'
<1>1. /\ n \in Nat /\ DOMAIN signals = 1 .. n /\ t \in Seq(Events) /\ DOMAIN t = 1 .. n + 1 /\ Len(t) = n + 1
      /\ t # <<>> /\ t[n + 1] = e /\ \A i \in 1 .. n : t[i] = signals[i]
  BY LenProperties, AppendProperties, EmptySeq DEF Publish
<1>2. ASSUME NEW i \in 1 .. n + 1, CachedAt(i) PROVE (CachedAt(i))'
  BY <1>1, <1>2 DEF CachedAt
<1>3. CloseFlushes \/ e = "ConfigurationSessionClosed" => CloseFlushes'
  BY <1>1 DEF CloseFlushes
<1>4. EndFlushes => EndFlushes'
  BY <1>1, <1>2 DEF EndFlushes
<1>5. e \in Ends /\ CachedNow => EndFlushes'
  BY <1>1, <1>2 DEF EndFlushes, CachedNow
<1>6. e \notin Ends /\ CachedNow => CachedNow'
  BY <1>1 DEF CachedNow, CachedAt
<1>7. e \in Starters => CachedNow'
  BY <1>1 DEF CachedNow, CachedAt
<1> QED BY <1>1, <1>3, <1>4, <1>5, <1>6, <1>7

LEMMA FlagsFacts ==
    ASSUME hw \in HwState, NEW e \in Events
    PROVE  /\ Flags(e) \in HwState
           /\ e \in Starters => Flags(e).toCache
           /\ hw.toCache /\ e \notin Ends => Flags(e).toCache
<1>1. CASE e \in Starters
  <2>1. CASE e = "RestoreStart"
    BY <2>1 DEF HwState, Flags
  <2>2. CASE e = "FactoryResetStart"
    BY <2>2 DEF HwState, Flags
  <2> QED BY <1>1, <2>1, <2>2 DEF Starters
<1>2. CASE e \in Ends
  <2>1. CASE e = "RestoreEnd"
    BY <2>1 DEF HwState, Flags, Starters, Ends
  <2>2. CASE e = "FactoryResetEnd"
    BY <2>2 DEF HwState, Flags, Starters, Ends
  <2> QED BY <1>2, <2>1, <2>2 DEF Ends
<1>3. CASE e \in {"BackupStart", "BackupEnd"}
  <2>1. CASE e = "BackupStart"
    BY <2>1 DEF HwState, Flags, Starters
  <2>2. CASE e = "BackupEnd"
    BY <2>2 DEF HwState, Flags, Starters
  <2> QED BY <1>3, <2>1, <2>2
<1>4. CASE e = "ConfigurationSessionOpened"
  BY <1>4 DEF HwState, Flags, Starters
<1>5. CASE e = "ConfigurationSessionClosed"
  BY <1>5 DEF HwState, Flags, Starters
<1>6. CASE e = "PresetChanged"
  BY <1>6 DEF HwState, Flags, Starters
<1> QED BY <1>1, <1>2, <1>3, <1>4, <1>5, <1>6 DEF Events, Starters, Ends

LEMMA Handled ==
    ASSUME signals \in Seq(Events), hw \in HwState, signals # <<>>, signals' = Tail(signals),
           hw' = Flags(Head(signals))
    PROVE  /\ signals' \in Seq(Events) /\ hw' \in HwState
           /\ CloseFlushes => Flushes(Head(signals)) \/ CloseFlushes'
           /\ EndFlushes => Flushes(Head(signals)) \/ EndFlushes'
           /\ CachedNow => CachedNow'
<1> DEFINE n == Len(signals)
           t == signals'
           e == Head(signals)
<1>1. /\ n \in Nat \ {0} /\ DOMAIN signals = 1 .. n /\ t \in Seq(Events) /\ DOMAIN t = 1 .. n - 1 /\ Len(t) = n - 1
      /\ e = signals[1] /\ e \in Events /\ \A i \in 1 .. n - 1 : t[i] = signals[i + 1]
  BY LenProperties, HeadTailProperties, EmptySeq
<1>2. /\ hw' \in HwState
      /\ e \in Starters => hw'.toCache
      /\ hw.toCache /\ e \notin Ends => hw'.toCache
  BY <1>1, FlagsFacts
<1>3. ASSUME NEW i \in 1 .. n, CachedAt(i + 1) PROVE (CachedAt(i))'
  <2>1. CASE hw.toCache /\ \A j \in DOMAIN signals : j < i + 1 => signals[j] \notin Ends
    <3>1. e \notin Ends
      BY <1>1, <2>1
    <3>2. \A j \in DOMAIN t : j < i => t[j] \notin Ends
      BY <1>1, <2>1
    <3> QED BY <1>2, <2>1, <3>1, <3>2 DEF CachedAt
  <2>2. ASSUME NEW k \in DOMAIN signals, k < i + 1, signals[k] \in Starters,
               \A j \in DOMAIN signals : k < j /\ j < i + 1 => signals[j] \notin Ends
        PROVE  (CachedAt(i))'
    <3>1. \A j \in DOMAIN t : k - 1 < j /\ j < i => t[j] \notin Ends
      BY <1>1, <2>2
    <3>2. CASE k = 1
      BY <1>1, <1>2, <2>2, <3>1, <3>2 DEF CachedAt
    <3>3. CASE k > 1
      <4>1. k - 1 \in DOMAIN t /\ t[k - 1] \in Starters /\ k - 1 < i
        BY <1>1, <2>2, <3>3
      <4> QED BY <3>1, <4>1 DEF CachedAt
    <3> QED BY <1>1, <3>2, <3>3
  <2> QED BY <1>3, <2>1, <2>2 DEF CachedAt
<1>4. CloseFlushes => Flushes(e) \/ CloseFlushes'
  <2> SUFFICES ASSUME NEW i \in DOMAIN signals, signals[i] = "ConfigurationSessionClosed"
               PROVE  Flushes(e) \/ CloseFlushes'
    BY DEF CloseFlushes
  <2>1. CASE i = 1
    BY <1>1, <2>1 DEF Flushes
  <2>2. CASE i > 1
    <3>1. i - 1 \in DOMAIN t /\ t[i - 1] = "ConfigurationSessionClosed"
      BY <1>1, <2>2
    <3> QED BY <3>1 DEF CloseFlushes
  <2> QED BY <1>1, <2>1, <2>2
<1>5. EndFlushes => Flushes(e) \/ EndFlushes'
  <2> SUFFICES ASSUME NEW i \in DOMAIN signals, signals[i] \in Ends, CachedAt(i)
               PROVE  Flushes(e) \/ EndFlushes'
    BY DEF EndFlushes
  <2>1. CASE i = 1
    <3>1. hw.toCache
      BY <1>1, <2>1 DEF CachedAt
    <3> QED BY <1>1, <2>1, <3>1 DEF Flushes, Ends
  <2>2. CASE i > 1
    <3>1. i - 1 \in DOMAIN t /\ t[i - 1] \in Ends /\ i - 1 \in 1 .. n /\ (i - 1) + 1 = i
      BY <1>1, <2>2
    <3>2. (CachedAt(i - 1))'
      BY <1>3, <3>1
    <3> QED BY <3>1, <3>2 DEF EndFlushes
  <2> QED BY <1>1, <2>1, <2>2
<1>6. CachedNow => CachedNow'
  <2>1. n \in 1 .. n /\ Len(t) + 1 = n
    BY <1>1
  <2> QED BY <1>3, <2>1 DEF CachedNow
<1> QED BY <1>1, <1>2, <1>4, <1>5, <1>6

-----------------------------------------------------------------------------
(* init() and factory_reset(): what their steps have in common.            *)

LEMMA GotoFacts ==
    ASSUME stage \in StageState, NEW at \in Ats, Goto(at)
    PROVE  stage' \in StageState /\ stage'.op = stage.op /\ stage'.at = at /\ stage'.next = 1
<1>1. 1 \in 1 .. NumPresets + 3
  BY PresetFacts
<1> QED BY <1>1 DEF Goto, StageState

LEMMA FinishFacts ==
    ASSUME stage \in StageState, Finish
    PROVE  /\ stage' \in StageState /\ stage'.next = 1
           /\ stage.op = "init" => stage'.op = "run" /\ stage'.at = "run"
           /\ stage.op # "init" => stage'.op = stage.op /\ stage'.at = "done"
<1>1. CASE stage.op = "init"
  <2>1. 1 \in 1 .. NumPresets + 3 /\ "run" \in Ats
    BY PresetFacts DEF Ats
  <2> QED BY <1>1, <2>1 DEF Finish, StageState
<1>2. CASE stage.op # "init"
  <2>1. "done" \in Ats
    BY DEF Ats
  <2> QED BY <1>2, <2>1, GotoFacts DEF Finish
<1> QED BY <1>1, <1>2

\* While the firmware initializes itself nobody reads, and the layout is that of the selected region.
LEMMA InitFacts ==
    ASSUME IInv, stage.op = "init"
    PROVE  /\ host = NoHost /\ \A r \in DOMAIN calls : calls[r].at = "idle"
           /\ Undisturbed /\ Selected(admin)
<1>1. host = NoHost /\ \A r \in DOMAIN calls : calls[r] = NoCall
  BY DEF IInv, StageInv
<1>2. NoCall.at = "idle" /\ ~NoCall.overtaken
  BY DEF NoCall
<1>3. \A r \in DOMAIN calls : calls[r].at = "idle" /\ ~calls[r].overtaken
  BY <1>1, <1>2
<1>4. Undisturbed
  BY <1>3 DEF Undisturbed
<1>5. admin.context \in {"Common", "Preset"}
  BY DEF IInv, StateInv, AdminState
<1>6. Selected(admin)
  BY <1>3, <1>4, <1>5 DEF IInv, SelectionInv, Selected
<1> QED BY <1>1, <1>3, <1>4, <1>6

LEMMA StorageStep ==
    ASSUME IInv, stage.op # "run", UNCHANGED <<host, calls, hw, signals>>,
           admin' \in AdminState, stage' \in StageState, factory' \in Cells \cup {NoSnapshot}, faults' \in Nat,
           StorageInv', stage'.op = stage.op \/ (stage.op = "init" /\ stage'.op = "run"),
           stage'.at # "restart",
           stage.op = "init" => Selected(admin'),
           ~Unsaved' \/ faults' # 0
    PROVE  StateInv' /\ SelectionInv' /\ SavingInv'
<1>1. StateInv'
  BY DEF IInv, StateInv
<1>2. SelectionInv'
  <2> SUFFICES ASSUME stage'.op # "reset" PROVE SelectionInv'
    BY DEF SelectionInv
  <2>1. stage.op = "init"
    BY DEF IInv, StateInv, StageState
  <2>2. (\A r \in DOMAIN calls : calls[r].at = "idle") /\ Selected(admin')
    BY <2>1, InitFacts
  <2> QED BY <2>2 DEF SelectionInv, Selected
<1>3. SavingInv'
  <2>1. stage'.op = "run" => host' = NoHost
    BY InitFacts
  <2>2. NoHost.mode # "Restore"
    BY DEF NoHost
  <2> QED BY <2>1, <2>2 DEF SavingInv
<1> QED BY <1>1, <1>2, <1>3

LEMMA StagesApart ==
    ASSUME IInv, stage.at \in Ats \ {"run"}
    PROVE  stage.op # "run"
BY DEF IInv, StageInv

LEMMA SilentSaving ==
    ASSUME IInv, stage.at \in {"signature", "load", "restore", "defaults", "snapshot", "done"}
    PROVE  ~Unsaved \/ faults # 0
BY DEF IInv, SavingInv

LEMMA FaultFacts ==
    ASSUME faults \in Nat, Fault
    PROVE  faults' \in Nat /\ faults' # 0
BY DEF Fault

LEMMA CheckSignaturePreserves ==
    ASSUME IInv, CheckSignature
    PROVE  IInv'
<1>1. /\ stage.at = "signature" /\ stage.op = "init" /\ stage.op # "run" /\ UNCHANGED <<flash, journal, factory>>
      /\ UNCHANGED <<host, calls, hw, signals>> /\ faults' = faults
      /\ admin' = SelectCommon(admin)
  BY DEF CheckSignature, At, IInv, StageInv, bounds
<1>2. /\ stage' \in StageState /\ stage'.op = "init" /\ stage'.at \in {"load", "restore", "clear"}
      /\ stage'.at = "restore" => factory # NoSnapshot
  <2> DEFINE at == IF Visible.uid THEN "load" ELSE IF factory # NoSnapshot THEN "restore" ELSE "clear"
  <2>1. Goto(at) /\ at \in Ats /\ at \in {"load", "restore", "clear"} /\ (at = "restore" => factory # NoSnapshot)
    BY DEF CheckSignature, Ats
  <2> HIDE DEF at
  <2> QED BY <1>1, <2>1, GotoFacts DEF IInv, StateInv
<1>3. admin' \in AdminState /\ Selected(admin')
  BY <1>1, InitFacts, SelectFacts, PresetFacts DEF IInv, StateInv, Selected
<1>4. StorageInv' /\ Visible' = Visible /\ (Unsaved' <=> Unsaved)
  BY <1>1, KeepStores DEF IInv
<1>5. ~Unsaved' \/ faults' # 0
  BY <1>1, <1>4, SilentSaving
<1>6. StateInv' /\ SelectionInv' /\ SavingInv'
  BY <1>1, <1>2, <1>3, <1>4, <1>5, StorageStep DEF IInv, StateInv
<1>7. StageInv'
  BY <1>1, <1>2 DEF IInv, StageInv
<1>8. ActiveInv'
  BY <1>2 DEF ActiveInv, ActiveIsStored
<1> QED BY <1>4, <1>6, <1>7, <1>8 DEF IInv

LEMMA RestoreSnapshotPreserves ==
    ASSUME IInv, RestoreSnapshot \/ RestoreSnapshotFails
    PROVE  IInv'
<1>1. /\ stage.at = "restore" /\ stage.op # "run" /\ stage.op \in {"init", "reset"} /\ factory = DefaultCells
      /\ UNCHANGED <<host, calls, hw, signals, factory>>
  <2>1. stage.at = "restore" /\ UNCHANGED <<host, calls, hw, signals, factory>>
    BY DEF RestoreSnapshot, RestoreSnapshotFails, At
  <2> QED BY <2>1 DEF IInv, StageInv, StateInv, StageState
<1>2. faults' \in Nat
  BY FaultFacts DEF IInv, StateInv, RestoreSnapshot, RestoreSnapshotFails, bounds
<1>3. /\ stage' \in StageState /\ stage'.op = stage.op /\ stage'.at \in {"load", "clear"}
      /\ StorageInv' /\ ~Unsaved' /\ (stage'.at = "load" => Visible' = DefaultCells)
      /\ admin' \in AdminState /\ (stage.op = "init" => Selected(admin'))
  <2>1. CASE RestoreSnapshot
    <3>1. DefaultCells.uid /\ Goto("load") /\ flash' = DefaultCells /\ journal' = <<>> /\ admin' = SelectCommon(admin)
      BY <1>1, <2>1 DEF RestoreSnapshot, DefaultCells
    <3>2. "load" \in Ats
      BY DEF Ats
    <3>3. stage' \in StageState /\ stage'.op = stage.op /\ stage'.at = "load"
      BY <3>1, <3>2, GotoFacts DEF IInv, StateInv
    <3>4. StorageInv' /\ ~Unsaved' /\ Visible' = DefaultCells
      BY <3>1, PartialFacts, ReplaceStores
    <3>5. admin' \in AdminState /\ (stage.op = "init" => Selected(admin'))
      BY <3>1, InitFacts, SelectFacts, PresetFacts DEF IInv, StateInv, Selected
    <3> QED BY <3>3, <3>4, <3>5
  <2>2. CASE RestoreSnapshotFails
    <3>1. Goto("clear") /\ flash' = Erased /\ journal' = <<>> /\ admin' = admin /\ "clear" \in Ats
      BY <2>2 DEF RestoreSnapshotFails, Ats
    <3>2. stage' \in StageState /\ stage'.op = stage.op /\ stage'.at = "clear"
      BY <3>1, GotoFacts DEF IInv, StateInv
    <3>3. StorageInv' /\ ~Unsaved'
      BY <3>1, PartialFacts, ReplaceStores
    <3>4. admin' \in AdminState /\ (stage.op = "init" => Selected(admin'))
      BY <3>1, InitFacts DEF IInv, StateInv, Selected
    <3> QED BY <3>2, <3>3, <3>4
  <2> QED BY <2>1, <2>2
<1>4. StateInv' /\ SelectionInv' /\ SavingInv'
  BY <1>1, <1>2, <1>3, StorageStep DEF IInv, StateInv
<1>5. StageInv'
  BY <1>1, <1>3 DEF IInv, StageInv
<1>6. ActiveInv'
  BY <1>1, <1>3 DEF ActiveInv, ActiveIsStored
<1> QED BY <1>3, <1>4, <1>5, <1>6 DEF IInv

LEMMA ClearPreserves ==
    ASSUME IInv, Clear \/ ClearFails
    PROVE  IInv'
<1>1. /\ stage.at \in {"clearForSnapshot", "clear"} /\ stage.op # "run" /\ stage.op \in {"init", "reset"}
      /\ UNCHANGED <<host, calls, hw, signals, factory, admin>>
      /\ stage.at = "clearForSnapshot" => factory # NoSnapshot
  <2>1. stage.at \in {"clearForSnapshot", "clear"} /\ UNCHANGED <<host, calls, hw, signals, factory, admin>>
    BY DEF Clear, ClearFails
  <2> QED BY <2>1 DEF IInv, StageInv, StateInv, StageState
<1>2. /\ faults' \in Nat /\ stage' \in StageState /\ stage'.op = stage.op
      /\ stage'.at \in {"defaults", "restore", "failed"}
      /\ stage'.at = "restore" => factory # NoSnapshot
      /\ stage'.at = "defaults" => Visible' = Partial(stage'.next)
      /\ stage'.at = "defaults" => stage'.next = 1
      /\ StorageInv' /\ (~Unsaved' \/ faults' # 0)
  <2>1. CASE Clear
    <3> DEFINE at == IF stage.at = "clear" THEN "defaults" ELSE "restore"
    <3>1. /\ Goto(at) /\ at \in Ats /\ at \in {"defaults", "restore"}
          /\ at = "restore" => stage.at = "clearForSnapshot"
      BY <1>1, <2>1 DEF Clear, Ats
    <3>2. flash' = Erased /\ journal' = <<>> /\ faults' = faults
      BY <2>1 DEF Clear, bounds
    <3> HIDE DEF at
    <3>3. stage' \in StageState /\ stage'.op = stage.op /\ stage'.at = at /\ stage'.next = 1
      BY <3>1, GotoFacts DEF IInv, StateInv
    <3>4. StorageInv' /\ ~Unsaved' /\ Visible' = Partial(1)
      BY <3>2, PartialFacts, ReplaceStores
    <3> QED BY <1>1, <3>1, <3>2, <3>3, <3>4 DEF IInv, StateInv
  <2>2. CASE ClearFails
    <3>1. Goto("failed") /\ "failed" \in Ats /\ Fault /\ UNCHANGED <<flash, journal>>
      BY <2>2 DEF ClearFails, Ats
    <3>2. stage' \in StageState /\ stage'.op = stage.op /\ stage'.at = "failed"
      BY <3>1, GotoFacts DEF IInv, StateInv
    <3>3. faults' \in Nat /\ faults' # 0
      BY <3>1, FaultFacts DEF IInv, StateInv
    <3>4. StorageInv'
      BY <3>1, KeepStores DEF IInv
    <3> QED BY <3>2, <3>3, <3>4
  <2> QED BY <2>1, <2>2
<1>3. admin' \in AdminState /\ (stage.op = "init" => Selected(admin'))
  BY <1>1, InitFacts DEF IInv, StateInv, Selected
<1>4. StateInv' /\ SelectionInv' /\ SavingInv'
  BY <1>1, <1>2, <1>3, StorageStep DEF IInv, StateInv
<1>5. StageInv'
  BY <1>1, <1>2 DEF IInv, StageInv
<1>6. ActiveInv'
  BY <1>1, <1>2, PresetFacts DEF ActiveInv, ActiveIsStored
<1> QED BY <1>2, <1>4, <1>5, <1>6 DEF IInv

LEMMA SelectDefault ==
    ASSUME IInv, NEW n \in 1 .. NumPresets + 3
    PROVE  /\ Select(Defaults[n]) \in AdminState
           /\ Selected(admin) => Selected(Select(Defaults[n]))
           /\ n = NumPresets + 1 => Select(Defaults[n]).active = 0
           /\ n > NumPresets + 1 => Select(Defaults[n]).active = admin.active
<1>1. admin \in AdminState
  BY DEF IInv, StateInv
<1>2. CASE Defaults[n].field = "data"
  <2> DEFINE p == Defaults[n].preset
             b == SelectPreset(admin, p)
  <2>1. p \in Presets /\ Select(Defaults[n]) = b
    BY <1>2, DefaultWrites DEF Select
  <2>2. n = NumPresets + 1 => p = 0
    BY DefaultsFacts, WriteFields, PresetFacts
  <2>3. ~(n > NumPresets + 1)
    <3>1. n > NumPresets + 1 => n = NumPresets + 2 \/ n = NumPresets + 3
      BY PresetFacts
    <3> QED BY <1>2, <3>1, DefaultsFacts DEF Set
  <2> HIDE DEF p
  <2>4. b \in AdminState /\ b.context = "Preset" /\ b.active = p /\ (Selected(admin) => b.layout = p)
    BY <1>1, <2>1, SelectFacts
  <2> QED BY <2>1, <2>2, <2>3, <2>4 DEF Selected
<1>3. CASE Defaults[n].field # "data"
  <2> DEFINE b == SelectCommon(admin)
  <2>1. Select(Defaults[n]) = b
    BY <1>3 DEF Select
  <2>2. n # NumPresets + 1
    BY <1>3, DefaultsFacts, WriteFields, PresetFacts
  <2>3. /\ b \in AdminState /\ b.context = "Common" /\ b.active = admin.active
        /\ Selected(admin) => b.layout = CommonRegion
    BY <1>1, SelectFacts, PresetFacts
  <2> QED BY <2>1, <2>2, <2>3 DEF Selected
<1> QED BY <1>2, <1>3

LEMMA WriteDefaultPreserves ==
    ASSUME IInv, WriteDefault
    PROVE  IInv'
<1> DEFINE n == stage.next
           w == Defaults[n]
<1>1. /\ stage.at = "defaults" /\ stage.op # "run" /\ stage.op \in {"init", "reset"} /\ n \in 1 .. NumPresets + 3
      /\ UNCHANGED <<host, calls, hw, signals, factory, faults>>
      /\ Visible = Partial(n) /\ StorageInv /\ stage \in StageState
      /\ admin' = Select(w) /\ Write(w)
  <2>1. stage.at = "defaults" /\ UNCHANGED <<host, calls, hw, signals, factory, faults>> /\ admin' = Select(w) /\ Write(w)
    BY DEF WriteDefault, At, bounds
  <2> QED BY <2>1 DEF IInv, StageInv, StateInv, StageState
<1>2. Apply(Visible, w) = IF n < NumPresets + 3 THEN Partial(n + 1) ELSE DefaultCells
  <2>1. n < NumPresets + 3 => n \in 1 .. NumPresets + 2
    BY <1>1, PresetFacts
  <2>2. ~(n < NumPresets + 3) => n = NumPresets + 3
    BY <1>1, PresetFacts
  <2> QED BY <1>1, <2>1, <2>2, PartialStep
<1>3. w \in Writes /\ ~(w.field = "data" /\ w.value = "user")
  BY <1>1, DefaultWrites
<1>4. Good(Apply(Visible, w))
  <2>1. n < NumPresets + 3 => n + 1 \in 1 .. NumPresets + 3
    BY <1>1, PresetFacts
  <2> QED BY <1>2, <2>1, PartialFacts
<1>5. /\ admin' \in AdminState /\ (Selected(admin) => Selected(admin'))
      /\ n = NumPresets + 1 => admin'.active = 0
      /\ n > NumPresets + 1 => admin'.active = admin.active
  BY <1>1, SelectDefault
<1>6. /\ stage' \in StageState /\ stage'.op = stage.op
      /\ n < NumPresets + 3 => stage'.at = "defaults" /\ stage'.next = n + 1
      /\ ~(n < NumPresets + 3) => stage'.at = "snapshot"
  <2>1. CASE n < NumPresets + 3
    <3>1. n + 1 \in 1 .. NumPresets + 3 /\ stage' = [stage EXCEPT !.next = n + 1]
      BY <1>1, <2>1, DefaultsFacts, PresetFacts DEF WriteDefault
    <3> QED BY <1>1, <2>1, <3>1 DEF StageState
  <2>2. CASE ~(n < NumPresets + 3)
    <3>1. Goto("snapshot") /\ "snapshot" \in Ats
      BY <2>2, DefaultsFacts DEF WriteDefault, Ats
    <3> QED BY <1>1, <2>2, <3>1, GotoFacts
  <2> QED BY <2>1, <2>2
<1> HIDE DEF n, w
<1>7. StorageInv' /\ Visible' = Apply(Visible, w) /\ (Unsaved' => Unsaved)
  BY <1>1, <1>3, <1>4, WriteStores
<1>8. ~Unsaved' \/ faults' # 0
  BY <1>1, <1>7, SilentSaving
<1>9. StateInv' /\ SelectionInv' /\ SavingInv'
  BY <1>1, <1>5, <1>6, <1>7, <1>8, InitFacts, StorageStep DEF IInv, StateInv
<1>10. StageInv'
  BY <1>1, <1>2, <1>6, <1>7 DEF IInv, StageInv
<1>11. ActiveInv'
  <2>1. stage'.op # "run"
    BY <1>1, <1>6
  <2>2. ASSUME stage'.op = "init", stage'.at = "snapshot" \/ (stage'.at = "defaults" /\ stage'.next > NumPresets + 1)
        PROVE  n = NumPresets + 1 \/ n > NumPresets + 1
    BY <1>1, <1>6, <2>2, PresetFacts
  <2>3. n > NumPresets + 1 /\ stage.op = "init" => admin.active = 0
    BY <1>1 DEF IInv, ActiveInv, n
  <2> QED BY <1>5, <1>6, <2>1, <2>2, <2>3 DEF ActiveInv, ActiveIsStored
<1> QED BY <1>7, <1>9, <1>10, <1>11 DEF IInv

LEMMA WriteDefaultFailsPreserves ==
    ASSUME IInv, WriteDefaultFails
    PROVE  IInv'
<1> DEFINE n == stage.next
           w == Defaults[n]
<1>1. /\ stage.at = "defaults" /\ stage.op # "run" /\ stage.op \in {"init", "reset"} /\ n \in 1 .. NumPresets + 3
      /\ UNCHANGED <<host, calls, hw, signals, factory>>
      /\ Visible = Partial(n) /\ StorageInv /\ stage \in StageState /\ faults \in Nat
      /\ admin' = Select(w) /\ WriteFails(w) /\ Goto("failed")
  <2>1. /\ stage.at = "defaults" /\ UNCHANGED <<host, calls, hw, signals, factory>> /\ admin' = Select(w)
        /\ WriteFails(w) /\ Goto("failed")
    BY DEF WriteDefaultFails, At
  <2> QED BY <2>1 DEF IInv, StageInv, StateInv, StageState
<1>2. Good(Apply(Visible, w)) /\ w \in Writes
  <2>1. n < NumPresets + 3 => n \in 1 .. NumPresets + 2 /\ n + 1 \in 1 .. NumPresets + 3
    BY <1>1, PresetFacts
  <2>2. ~(n < NumPresets + 3) => n = NumPresets + 3
    BY <1>1, PresetFacts
  <2> QED BY <1>1, <2>1, <2>2, PartialStep, PartialFacts, DefaultWrites
<1>3. admin' \in AdminState /\ (Selected(admin) => Selected(admin'))
  BY <1>1, SelectDefault
<1>4. stage' \in StageState /\ stage'.op = stage.op /\ stage'.at = "failed"
  <2>1. "failed" \in Ats
    BY DEF Ats
  <2> QED BY <1>1, <2>1, GotoFacts
<1> HIDE DEF n, w
<1>5. StorageInv' /\ faults' \in Nat \ {0}
  BY <1>1, <1>2, WriteFailsStores
<1>6. StateInv' /\ SelectionInv' /\ SavingInv'
  BY <1>1, <1>3, <1>4, <1>5, InitFacts, StorageStep DEF IInv, StateInv
<1>7. StageInv'
  BY <1>1, <1>4 DEF IInv, StageInv
<1>8. ActiveInv'
  BY <1>1, <1>4 DEF ActiveInv, ActiveIsStored
<1> QED BY <1>5, <1>6, <1>7, <1>8 DEF IInv

LEMMA StoreSnapshotPreserves ==
    ASSUME IInv, StoreSnapshot \/ StoreSnapshotFails
    PROVE  IInv'
<1>1. /\ stage.at = "snapshot" /\ stage.op # "run" /\ stage.op \in {"init", "reset"}
      /\ UNCHANGED <<host, calls, hw, signals, flash, journal, admin>>
      /\ Visible = DefaultCells /\ Finish
  <2>1. /\ stage.at = "snapshot" /\ UNCHANGED <<host, calls, hw, signals, flash, journal, admin>> /\ Finish
    BY DEF StoreSnapshot, StoreSnapshotFails, At
  <2> QED BY <2>1 DEF IInv, StageInv, StateInv, StageState
<1>2. faults' \in Nat
  BY FaultFacts DEF IInv, StateInv, StoreSnapshot, StoreSnapshotFails, bounds
<1>3. factory' = DefaultCells \/ factory' = NoSnapshot
  BY <1>1 DEF StoreSnapshot, StoreSnapshotFails
<1>4. factory' \in Cells \cup {NoSnapshot}
  BY <1>3, PartialFacts DEF Good
<1>5. StorageInv' /\ Visible' = Visible /\ (Unsaved' <=> Unsaved)
  BY <1>1, KeepStores DEF IInv
<1>6. ~Unsaved' \/ faults' # 0
  BY <1>1, <1>5, SilentSaving, FaultFacts DEF IInv, StateInv, StoreSnapshot, StoreSnapshotFails, bounds
<1>7. /\ stage' \in StageState
      /\ stage.op = "init" => stage'.op = "run" /\ stage'.at = "run"
      /\ stage.op # "init" => stage'.op = stage.op /\ stage'.at = "done"
  BY <1>1, FinishFacts DEF IInv, StateInv
<1>8. admin' \in AdminState /\ (stage.op = "init" => Selected(admin'))
  BY <1>1, InitFacts DEF IInv, StateInv, Selected
<1>9. StateInv' /\ SelectionInv' /\ SavingInv'
  BY <1>1, <1>2, <1>4, <1>5, <1>6, <1>7, <1>8, StorageStep
<1>10. StageInv'
  BY <1>1, <1>3, <1>5, <1>7 DEF IInv, StageInv
<1>11. ActiveInv'
  <2>1. stage.op = "init" => admin.active = 0
    BY <1>1 DEF IInv, ActiveInv
  <2>2. Visible'.active = 0
    BY <1>1, <1>5 DEF DefaultCells
  <2> QED BY <1>1, <1>7, <2>1, <2>2 DEF ActiveInv, ActiveIsStored
<1> QED BY <1>5, <1>9, <1>10, <1>11 DEF IInv

LEMMA LoadPreserves ==
    ASSUME IInv, Load
    PROVE  IInv'
<1> DEFINE v == Visible.active
           a == [SelectCommon(admin) EXCEPT !.active = v]
           keep == Visible.preserve = 1 \/ v = 0
<1>1. /\ stage.at = "load" /\ stage.op # "run" /\ stage.op \in {"init", "reset"}
      /\ UNCHANGED <<host, calls, hw, signals, factory, faults>>
      /\ Finish /\ StorageInv /\ stage \in StageState /\ admin \in AdminState
      /\ stage.op = "reset" => Visible = DefaultCells
  <2>1. stage.at = "load" /\ UNCHANGED <<host, calls, hw, signals, factory, faults>> /\ Finish
    BY DEF Load, At, bounds
  <2> QED BY <2>1 DEF IInv, StageInv, StateInv, StageState
<1>2. v \in Presets /\ Good(Visible)
  BY <1>1, StorageFacts DEF Cells
<1>3. /\ keep => admin' = SelectPreset(a, v) /\ UNCHANGED <<flash, journal>>
      /\ ~keep => admin' = SelectCommon(SelectPreset(a, 0)) /\ Write(Set("active", 0))
  BY DEF Load
<1>4. a \in AdminState /\ a.context = "Common"
  <2> DEFINE b == SelectCommon(admin)
  <2>1. b \in AdminState /\ b.context = "Common" /\ a = [b EXCEPT !.active = v]
    BY <1>1, <1>2, SelectFacts
  <2> HIDE DEF b, v, a
  <2> QED BY <1>2, <2>1 DEF AdminState
<1>5. stage.op = "reset" => keep
  BY <1>1 DEF DefaultCells
<1>6. /\ stage' \in StageState
      /\ stage.op = "init" => stage'.op = "run" /\ stage'.at = "run"
      /\ stage.op # "init" => stage'.op = stage.op /\ stage'.at = "done"
  BY <1>1, FinishFacts
<1> HIDE DEF v, a, keep
<1>7. CASE keep
  <2>1. StorageInv' /\ Visible' = Visible /\ (Unsaved' <=> Unsaved)
    BY <1>1, <1>3, <1>7, KeepStores
  <2>2. admin' \in AdminState /\ Selected(admin') /\ admin'.active = v
    BY <1>2, <1>3, <1>4, <1>7, SelectFacts DEF Selected
  <2>3. ~Unsaved' \/ faults' # 0
    BY <1>1, <2>1, SilentSaving
  <2>4. StateInv' /\ SelectionInv' /\ SavingInv'
    BY <1>1, <1>6, <2>1, <2>2, <2>3, StorageStep DEF IInv, StateInv
  <2>5. StageInv'
    BY <1>1, <1>6, <2>1 DEF IInv, StageInv
  <2>6. ActiveInv'
    BY <1>1, <1>6, <2>1, <2>2 DEF ActiveInv, ActiveIsStored, v
  <2> QED BY <2>1, <2>4, <2>5, <2>6 DEF IInv
<1>8. CASE ~keep
  <2> DEFINE w == Set("active", 0)
  <2>1. w \in Writes /\ w.field = "active" /\ w.value = 0
    BY PresetFacts, WriteFields DEF Set
  <2>2. Good(Apply(Visible, w))
    BY <1>2, <2>1, ApplyGood
  <2>3. Apply(Visible, w) = [Visible EXCEPT !.active = 0]
    BY <2>1, ApplyFields
  <2>4. Write(w)
    BY <1>3, <1>8
  <2> HIDE DEF w
  <2>5. StorageInv' /\ Visible' = Apply(Visible, w) /\ (Unsaved' => Unsaved)
    BY <1>1, <2>1, <2>2, <2>4, WriteStores
  <2>6. Visible'.active = 0
    <3>1. Visible \in Cells
      BY <1>1, StorageFacts
    <3> QED BY <2>3, <2>5, <3>1 DEF Cells
  <2>7. admin' \in AdminState /\ Selected(admin') /\ admin'.active = 0
    BY <1>3, <1>4, <1>8, SelectBoth, PresetFacts DEF Selected
  <2>8. ~Unsaved' \/ faults' # 0
    BY <1>1, <2>5, SilentSaving
  <2>9. StateInv' /\ SelectionInv' /\ SavingInv'
    BY <1>1, <1>6, <2>5, <2>7, <2>8, StorageStep DEF IInv, StateInv
  <2>10. StageInv'
    BY <1>1, <1>5, <1>6, <1>8 DEF IInv, StageInv
  <2>11. ActiveInv'
    BY <1>1, <1>5, <1>6, <1>8, <2>6, <2>7 DEF ActiveInv, ActiveIsStored
  <2> QED BY <2>5, <2>9, <2>10, <2>11 DEF IInv
<1> QED BY <1>7, <1>8

LEMMA LoadFailsPreserves ==
    ASSUME IInv, LoadFails
    PROVE  IInv'
<1> DEFINE v == Visible.active
           a == [SelectCommon(admin) EXCEPT !.active = v]
           w == Set("active", 0)
<1>1. /\ stage.at = "load" /\ stage.op # "run" /\ stage.op \in {"init", "reset"}
      /\ UNCHANGED <<host, calls, hw, signals, factory>>
      /\ Goto("failed") /\ StorageInv /\ stage \in StageState /\ admin \in AdminState /\ faults \in Nat
      /\ WriteFails(w) /\ admin' = SelectCommon(SelectPreset(a, 0))
  <2>1. /\ stage.at = "load" /\ UNCHANGED <<host, calls, hw, signals, factory>> /\ Goto("failed") /\ WriteFails(w)
        /\ admin' = SelectCommon(SelectPreset(a, 0))
    BY DEF LoadFails, At
  <2> QED BY <2>1 DEF IInv, StageInv, StateInv, StageState
<1>2. v \in Presets /\ Good(Visible)
  BY <1>1, StorageFacts DEF Cells
<1>3. a \in AdminState
  <2> DEFINE b == SelectCommon(admin)
  <2>1. b \in AdminState /\ a = [b EXCEPT !.active = v]
    BY <1>1, <1>2, SelectFacts
  <2> HIDE DEF b, v, a
  <2> QED BY <1>2, <2>1 DEF AdminState
<1>4. stage' \in StageState /\ stage'.op = stage.op /\ stage'.at = "failed"
  <2>1. "failed" \in Ats
    BY DEF Ats
  <2> QED BY <1>1, <2>1, GotoFacts
<1>5. w \in Writes /\ w.field = "active"
  BY PresetFacts, WriteFields DEF Set
<1> HIDE DEF v, a, w
<1>6. Good(Apply(Visible, w))
  BY <1>2, <1>5, ApplyGood
<1>7. StorageInv' /\ faults' \in Nat \ {0}
  BY <1>1, <1>5, <1>6, WriteFailsStores
<1>8. admin' \in AdminState /\ Selected(admin')
  BY <1>1, <1>3, SelectBoth, PresetFacts DEF Selected
<1>9. StateInv' /\ SelectionInv' /\ SavingInv'
  BY <1>1, <1>4, <1>7, <1>8, StorageStep DEF IInv, StateInv
<1>10. StageInv'
  BY <1>1, <1>4 DEF IInv, StageInv
<1>11. ActiveInv'
  BY <1>1, <1>4 DEF ActiveInv, ActiveIsStored
<1> QED BY <1>7, <1>9, <1>10, <1>11 DEF IInv

\* The factory reset publishes its end and leaves the restart to the coordinator.
LEMMA ResetDonePreserves ==
    ASSUME IInv, ResetDone
    PROVE  IInv'
<1>1. /\ stage.at = "done" /\ stage.op # "run" /\ stage.op \in {"init", "reset"}
      /\ UNCHANGED <<host, calls, hw, factory, flash, journal, admin, faults>>
      /\ Publish("FactoryResetEnd") /\ Goto("restart") /\ stage \in StageState
      /\ signals \in Seq(Events)
  <2>1. /\ stage.at = "done" /\ UNCHANGED <<host, calls, hw, factory, flash, journal, admin, faults>>
        /\ Publish("FactoryResetEnd") /\ Goto("restart")
    BY DEF ResetDone, At, bounds
  <2> QED BY <2>1 DEF IInv, StageInv, StateInv, StageState
<1>2. stage' \in StageState /\ stage'.op = stage.op /\ stage'.at = "restart"
  <2>1. "restart" \in Ats
    BY DEF Ats
  <2> QED BY <1>1, <2>1, GotoFacts
<1>3. "FactoryResetEnd" \in Events
  BY DEF Events
<1>4. signals' \in Seq(Events)
  BY <1>1, <1>3, Published
<1>5. StorageInv' /\ Visible' = Visible /\ (Unsaved' <=> Unsaved)
  BY <1>1, KeepStores DEF IInv
<1>6. ~Unsaved' \/ faults' # 0
  BY <1>1, <1>5, SilentSaving
<1>7. StateInv'
  BY <1>1, <1>2, <1>4 DEF IInv, StateInv
<1>8. StageInv'
  BY <1>1, <1>2 DEF IInv, StageInv
<1>9. SelectionInv'
  <2>1. CASE stage.op = "init"
    BY <1>1, <1>2, <2>1, InitFacts DEF SelectionInv, Selected
  <2>2. CASE stage.op = "reset"
    BY <1>2, <2>2 DEF SelectionInv
  <2> QED BY <1>1, <2>1, <2>2
<1>10. ActiveInv'
  BY <1>1, <1>2 DEF ActiveInv, ActiveIsStored
<1>11. SavingInv'
  BY <1>1, <1>2, <1>6 DEF SavingInv
<1> QED BY <1>5, <1>7, <1>8, <1>9, <1>10, <1>11 DEF IInv

-----------------------------------------------------------------------------
(* The dispatcher.                                                         *)

\* When the dispatcher steps in, a read that was under way is marked; without such a read the layout is that
\* of the selected region.
LEMMA OvertakingFacts ==
    ASSUME IInv, stage.op = "run", Overtaking
    PROVE  /\ calls' \in [DOMAIN calls' -> CallState] /\ DOMAIN calls' = DOMAIN calls
           /\ Undisturbed' => /\ Undisturbed /\ Selected(admin)
                              /\ \A r \in DOMAIN calls : calls[r].at = "idle" /\ calls'[r].at = "idle"
<1>1. calls \in [DOMAIN calls -> CallState] /\ admin.context \in {"Common", "Preset"}
  BY DEF IInv, StateInv, AdminState
<1>2. /\ DOMAIN calls' = DOMAIN calls
      /\ \A r \in DOMAIN calls : calls'[r] = [calls[r] EXCEPT !.overtaken = @ \/ calls[r].at # "idle"]
  BY DEF Overtaking
<1>3. ASSUME NEW r \in DOMAIN calls
      PROVE  /\ calls'[r] \in CallState /\ calls'[r].at = calls[r].at
             /\ ~calls'[r].overtaken => ~calls[r].overtaken /\ calls[r].at = "idle"
  <2> DEFINE c == calls[r]
             d == calls'[r]
             b == c.overtaken \/ c.at # "idle"
  <2>1. c \in CallState /\ b \in BOOLEAN /\ d = [c EXCEPT !.overtaken = b]
    BY <1>1, <1>2
  <2>2. ~b => ~c.overtaken /\ c.at = "idle"
    OBVIOUS
  <2> HIDE DEF b, c, d
  <2>3. d \in CallState /\ d.at = c.at
    BY <2>1 DEF CallState
  <2>4. ~d.overtaken => ~b
    BY <2>1 DEF CallState
  <2> QED BY <2>2, <2>3, <2>4 DEF c, d
<1>4. calls' \in [DOMAIN calls' -> CallState]
  BY <1>2, <1>3 DEF Overtaking
<1>5. Undisturbed' => Undisturbed /\ \A r \in DOMAIN calls : calls[r].at = "idle" /\ calls'[r].at = "idle"
  BY <1>2, <1>3 DEF Undisturbed
<1>6. Undisturbed /\ (\A r \in DOMAIN calls : calls[r].at = "idle") => Selected(admin)
  BY <1>1 DEF IInv, SelectionInv, Selected
<1> QED BY <1>2, <1>4, <1>5, <1>6

\* A step of the dispatcher that keeps or restores the selection and the stored active preset.
LEMMA DispatcherStep ==
    ASSUME IInv, stage.op = "run", Overtaking, factory' = factory, UNCHANGED hw,
           admin' \in AdminState, host' \in HostState, stage' \in StageState, signals' \in Seq(Events),
           faults' \in Nat, faults' = 0 => faults = 0, stage'.op # "init",
           Selected(admin) => Selected(admin'),
           faults' = 0 /\ Undisturbed /\ Selected(admin) /\ admin.active = Visible.active => admin'.active = Visible'.active
    PROVE  StateInv' /\ SelectionInv' /\ ActiveInv'
<1>1. StateInv'
  BY OvertakingFacts DEF IInv, StateInv
<1>2. SelectionInv'
  BY OvertakingFacts DEF SelectionInv, Selected
<1>3. ActiveInv'
  <2>1. ASSUME faults' = 0, Undisturbed' PROVE admin'.active = Visible'.active
    <3>1. Undisturbed /\ Selected(admin) /\ faults = 0
      BY <2>1, OvertakingFacts
    <3>2. admin.active = Visible.active
      BY <3>1 DEF IInv, ActiveInv, ActiveIsStored
    <3> QED BY <2>1, <3>1, <3>2
  <2> QED BY <2>1 DEF ActiveInv, ActiveIsStored
<1> QED BY <1>1, <1>2, <1>3

LEMMA StageKept ==
    ASSUME IInv, stage.op = "run", stage' = stage, factory' = factory
    PROVE  StageInv'
<1>1. stage.at = "run"
  BY DEF IInv, StageInv
<1> QED BY <1>1 DEF IInv, StageInv

LEMMA RunSaving ==
    ASSUME IInv, stage.op = "run", stage' = stage, faults' = 0 => faults = 0,
           faults' = 0 /\ Unsaved' => host'.open \/ CloseFlushes',
           faults' = 0 /\ host'.mode = "Restore" => CachedNow'
    PROVE  SavingInv'
<1>1. stage.at = "run"
  BY DEF IInv, StageInv
<1> QED BY <1>1 DEF SavingInv

\* The actions that publish a signal and leave the storage and the selected region alone.
LEMMA PublishingPreserves ==
    ASSUME IInv, stage.op = "run", Overtaking, UNCHANGED <<flash, journal, admin, hw, factory, stage, faults>>,
           host' \in HostState, NEW e \in Events, Publish(e),
           host.open /\ ~host'.open => e = "ConfigurationSessionClosed",
           host'.mode = "Restore" => \/ host.mode = "Restore" /\ e \notin Ends
                                     \/ e \in Starters
    PROVE  IInv'
<1>1. StorageInv' /\ Visible' = Visible /\ (Unsaved' <=> Unsaved)
  BY KeepStores DEF IInv
<1>2. signals \in Seq(Events) /\ admin \in AdminState /\ stage \in StageState /\ faults \in Nat
  BY DEF IInv, StateInv
<1>3. signals' \in Seq(Events)
  BY <1>2, Published
<1>4. StateInv' /\ SelectionInv' /\ ActiveInv'
  BY <1>1, <1>2, <1>3, DispatcherStep DEF Selected
<1>5. StageInv'
  BY StageKept
<1>6. faults' = 0 /\ Unsaved' => host'.open \/ CloseFlushes'
  BY <1>1, <1>2, Published DEF IInv, SavingInv
<1>7. faults' = 0 /\ host'.mode = "Restore" => CachedNow'
  BY <1>2, Published DEF IInv, SavingInv
<1>8. SavingInv'
  BY <1>6, <1>7, RunSaving
<1> QED BY <1>1, <1>4, <1>5, <1>8 DEF IInv

LEMMA SessionPreserves ==
    ASSUME IInv, OpenSession \/ CloseSession \/ FinishBackup \/ StartMode("Backup", "BackupStart")
                    \/ StartMode("Restore", "RestoreStart")
    PROVE  IInv'
<1>1. host \in HostState
  BY DEF IInv, StateInv
<1>2. CASE OpenSession
  <2>1. /\ stage.op = "run" /\ Overtaking /\ UNCHANGED <<flash, journal, admin, hw, factory, stage, faults>>
        /\ host' = [host EXCEPT !.open = TRUE] /\ Publish("ConfigurationSessionOpened")
    BY <1>2 DEF OpenSession, Input, NoFault, Kept
  <2>2. host' \in HostState /\ host'.open /\ host'.mode = host.mode
    BY <1>1, <2>1 DEF HostState
  <2>3. "ConfigurationSessionOpened" \in Events /\ "ConfigurationSessionOpened" \notin Ends
    BY DEF Events, Ends
  <2> QED BY <2>1, <2>2, <2>3, PublishingPreserves
<1>3. CASE CloseSession
  <2>1. /\ stage.op = "run" /\ Overtaking /\ UNCHANGED <<flash, journal, admin, hw, factory, stage, faults>>
        /\ host' = [host EXCEPT !.open = FALSE] /\ Publish("ConfigurationSessionClosed")
        /\ host.mode # "Restore"
    BY <1>3 DEF CloseSession, Input, NoFault, Kept
  <2>2. host' \in HostState /\ host'.mode = host.mode
    BY <1>1, <2>1 DEF HostState
  <2>3. "ConfigurationSessionClosed" \in Events
    BY DEF Events
  <2> QED BY <2>1, <2>2, <2>3, PublishingPreserves
<1>4. CASE FinishBackup
  <2>1. /\ stage.op = "run" /\ Overtaking /\ UNCHANGED <<flash, journal, admin, hw, factory, stage, faults>>
        /\ host' = [host EXCEPT !.mode = "None"] /\ Publish("BackupEnd")
    BY <1>4 DEF FinishBackup, Input, NoFault, Kept
  <2>2. host' \in HostState /\ host'.mode = "None" /\ host'.open = host.open
    BY <1>1, <2>1 DEF HostState
  <2>3. "BackupEnd" \in Events
    BY DEF Events
  <2> QED BY <2>1, <2>2, <2>3, PublishingPreserves
<1>5. CASE StartMode("Backup", "BackupStart")
  <2>1. /\ stage.op = "run" /\ Overtaking /\ UNCHANGED <<flash, journal, admin, hw, factory, stage, faults>>
        /\ host' = [host EXCEPT !.mode = "Backup"] /\ Publish("BackupStart")
    BY <1>5 DEF StartMode, Input, NoFault, Kept
  <2>2. host' \in HostState /\ host'.mode = "Backup" /\ host'.open = host.open
    BY <1>1, <2>1 DEF HostState
  <2>3. "BackupStart" \in Events
    BY DEF Events
  <2> QED BY <2>1, <2>2, <2>3, PublishingPreserves
<1>6. CASE StartMode("Restore", "RestoreStart")
  <2>1. /\ stage.op = "run" /\ Overtaking /\ UNCHANGED <<flash, journal, admin, hw, factory, stage, faults>>
        /\ host' = [host EXCEPT !.mode = "Restore"] /\ Publish("RestoreStart")
    BY <1>6 DEF StartMode, Input, NoFault, Kept
  <2>2. host' \in HostState /\ host'.mode = "Restore" /\ host'.open = host.open
    BY <1>1, <2>1 DEF HostState
  <2>3. "RestoreStart" \in Events /\ "RestoreStart" \in Starters
    BY DEF Events, Starters
  <2> QED BY <2>1, <2>2, <2>3, PublishingPreserves
<1> QED BY <1>2, <1>3, <1>4, <1>5, <1>6

LEMMA ReadCommonPreserves ==
    ASSUME IInv, ReadCommon
    PROVE  IInv'
<1>1. /\ stage.op = "run" /\ Overtaking /\ UNCHANGED <<flash, journal, hw, factory, stage, faults, host, signals>>
      /\ admin' = SelectCommon(admin)
  BY DEF ReadCommon, Input, NoFault, Kept
<1>2. signals \in Seq(Events) /\ admin \in AdminState /\ stage \in StageState /\ faults \in Nat /\ host \in HostState
  BY DEF IInv, StateInv
<1>3. StorageInv' /\ Visible' = Visible /\ (Unsaved' <=> Unsaved)
  BY <1>1, KeepStores DEF IInv
<1>4. admin' \in AdminState /\ admin'.active = admin.active /\ (Selected(admin) => Selected(admin'))
  BY <1>1, <1>2, SelectFacts, PresetFacts DEF Selected
<1>5. StateInv' /\ SelectionInv' /\ ActiveInv'
  BY <1>1, <1>2, <1>3, <1>4, DispatcherStep
<1>6. StageInv'
  BY <1>1, StageKept
<1>7. SavingInv'
  BY <1>1, <1>3, QueueKept, RunSaving DEF IInv, SavingInv
<1> QED BY <1>3, <1>5, <1>6, <1>7 DEF IInv

\* A write of a session: the session is still to be closed, and the close flushes it.
LEMMA SessionWritePreserves ==
    ASSUME IInv, host.open, stage.op = "run", Overtaking, UNCHANGED <<hw, factory, stage, faults, host, signals>>,
           admin' \in AdminState, Selected(admin) => Selected(admin'), admin'.active = admin.active,
           NEW w \in Writes, w.field \in {"preserve", "common", "data"}, Write(w)
    PROVE  IInv'
<1>1. /\ signals \in Seq(Events) /\ stage \in StageState /\ faults \in Nat /\ host \in HostState
      /\ StorageInv /\ Good(Visible) /\ Visible \in Cells
  BY StorageFacts DEF IInv, StateInv
<1>2. Good(Apply(Visible, w))
  BY <1>1, ApplyGood
<1>3. StorageInv' /\ Visible' = Apply(Visible, w)
  BY <1>1, <1>2, WriteStores
<1>4. Visible'.active = Visible.active
  <2>1. CASE w.field = "preserve"
    BY <1>1, <1>3, <2>1, ApplyFields DEF Cells
  <2>2. CASE w.field = "common"
    BY <1>1, <1>3, <2>2, ApplyFields DEF Cells
  <2>3. CASE w.field = "data"
    BY <1>1, <1>3, <2>3, ApplyFields DEF Cells
  <2> QED BY <2>1, <2>2, <2>3
<1>5. StateInv' /\ SelectionInv' /\ ActiveInv'
  BY <1>1, <1>4, DispatcherStep
<1>6. StageInv'
  BY StageKept
<1>7. SavingInv'
  BY QueueKept, RunSaving DEF IInv, SavingInv
<1> QED BY <1>3, <1>5, <1>6, <1>7 DEF IInv

LEMMA UpdatePresetPreserves ==
    ASSUME IInv, UpdatePreset
    PROVE  IInv'
<1> DEFINE w == InPreset(admin', "user")
<1>1. /\ host.open /\ stage.op = "run" /\ Overtaking /\ UNCHANGED <<hw, factory, stage, faults, host, signals>>
      /\ admin' = SelectPreset(admin, admin.active) /\ Write(w)
  BY DEF UpdatePreset, Input, NoFault
<1>2. admin \in AdminState /\ admin.active \in Presets
  BY DEF IInv, StateInv, AdminState
<1>3. admin' \in AdminState /\ admin'.active = admin.active /\ (Selected(admin) => Selected(admin'))
  BY <1>1, <1>2, SelectFacts DEF Selected
<1>4. w \in Writes /\ w.field \in {"common", "data"}
  BY <1>3, RegionWrites
<1> HIDE DEF w
<1> QED BY <1>1, <1>3, <1>4, SessionWritePreserves

LEMMA SetPreservePreserves ==
    ASSUME IInv, NEW state \in {0, 1}, SetPreserve(state)
    PROVE  IInv'
<1> DEFINE w == InCommon(admin', "preserve", state)
<1>1. /\ host.open /\ stage.op = "run" /\ Overtaking /\ UNCHANGED <<hw, factory, stage, faults, host, signals>>
      /\ admin' = SelectCommon(admin) /\ Write(w)
  BY DEF SetPreserve, Input, NoFault
<1>2. admin \in AdminState
  BY DEF IInv, StateInv
<1>3. admin' \in AdminState /\ admin'.active = admin.active /\ (Selected(admin) => Selected(admin'))
  BY <1>1, <1>2, SelectFacts, PresetFacts DEF Selected
<1>4. w \in Writes /\ w.field \in {"preserve", "data"}
  <2>1. Set("preserve", state) \in Writes /\ Set("preserve", state).field = "preserve"
    BY WriteFields DEF Set
  <2> QED BY <1>3, <2>1, RegionWrites
<1> HIDE DEF w
<1> QED BY <1>1, <1>3, <1>4, SessionWritePreserves

LEMMA SetPresetPreserves ==
    ASSUME IInv, NEW p, SetPreset(p)
    PROVE  IInv'
<1> DEFINE w == Set("active", p)
<1>1. /\ p \in Presets /\ stage.op = "run" /\ Overtaking /\ UNCHANGED <<hw, factory, stage, faults, host>>
      /\ admin' = SelectCommon(SelectPreset(admin, p)) /\ Write(InCommon(admin', "active", p))
      /\ Publish("PresetChanged")
  BY DEF SetPreset, Input, NoFault
<1>2. /\ signals \in Seq(Events) /\ admin \in AdminState /\ stage \in StageState /\ faults \in Nat
      /\ host \in HostState /\ StorageInv /\ Good(Visible) /\ Visible \in Cells
  BY StorageFacts DEF IInv, StateInv
<1>3. /\ admin' \in AdminState /\ admin'.context = "Common" /\ admin'.active = p /\ admin'.layout = CommonRegion
      /\ Selected(admin')
  BY <1>1, <1>2, SelectBoth DEF Selected
<1>4. w \in Writes /\ w.field = "active" /\ w.value = p /\ Write(w)
  <2>1. w \in Writes /\ w.field = "active" /\ w.value = p
    BY <1>1, WriteFields DEF Set
  <2>2. InCommon(admin', "active", p) = w
    BY <1>3 DEF InCommon
  <2> QED BY <1>1, <2>1, <2>2
<1> HIDE DEF w
<1>5. Good(Apply(Visible, w))
  BY <1>2, <1>4, ApplyGood
<1>6. StorageInv' /\ Visible' = Apply(Visible, w) /\ (Unsaved' => Unsaved)
  BY <1>2, <1>4, <1>5, WriteStores
<1>7. Visible'.active = p
  BY <1>1, <1>2, <1>4, <1>6, ApplyFields DEF Cells
<1>8. "PresetChanged" \in Events /\ "PresetChanged" \notin Ends
  BY DEF Events, Ends
<1>9. signals' \in Seq(Events) /\ (CloseFlushes => CloseFlushes') /\ (CachedNow => CachedNow')
  BY <1>1, <1>2, <1>8, Published
<1>10. StateInv' /\ SelectionInv' /\ ActiveInv'
  BY <1>1, <1>2, <1>3, <1>7, <1>9, DispatcherStep
<1>11. StageInv'
  BY <1>1, StageKept
<1>12. SavingInv'
  BY <1>1, <1>6, <1>9, RunSaving DEF IInv, SavingInv
<1> QED BY <1>6, <1>10, <1>11, <1>12 DEF IInv

LEMMA SetPresetFailsPreserves ==
    ASSUME IInv, NEW p \in Presets, SetPresetFails(p)
    PROVE  IInv'
<1> DEFINE w == Set("active", p)
<1>1. /\ stage.op = "run" /\ Overtaking /\ UNCHANGED <<hw, factory, stage, host, signals>>
      /\ admin' = SelectCommon(SelectPreset(admin, p)) /\ WriteFails(InCommon(admin', "active", p))
  BY DEF SetPresetFails
<1>2. /\ signals \in Seq(Events) /\ admin \in AdminState /\ stage \in StageState /\ faults \in Nat
      /\ host \in HostState /\ StorageInv /\ Good(Visible)
  BY StorageFacts DEF IInv, StateInv
<1>3. /\ admin' \in AdminState /\ admin'.context = "Common" /\ admin'.layout = CommonRegion
      /\ Selected(admin')
  BY <1>1, <1>2, SelectBoth DEF Selected
<1>4. w \in Writes /\ w.field = "active" /\ WriteFails(w)
  <2>1. w \in Writes /\ w.field = "active"
    BY WriteFields DEF Set
  <2>2. InCommon(admin', "active", p) = w
    BY <1>3 DEF InCommon
  <2> QED BY <1>1, <2>1, <2>2
<1> HIDE DEF w
<1>5. Good(Apply(Visible, w))
  BY <1>2, <1>4, ApplyGood
<1>6. StorageInv' /\ faults' \in Nat \ {0}
  BY <1>2, <1>4, <1>5, WriteFailsStores
<1>7. StateInv' /\ SelectionInv' /\ ActiveInv'
  BY <1>1, <1>2, <1>3, <1>6, DispatcherStep
<1>8. StageInv'
  BY <1>1, StageKept
<1>9. SavingInv'
  BY <1>6 DEF SavingInv
<1> QED BY <1>6, <1>7, <1>8, <1>9 DEF IInv

\* The end of a restore is published while the writes of the restore are cached.
LEMMA FinishRestorePreserves ==
    ASSUME IInv, FinishRestore
    PROVE  IInv'
<1>1. /\ stage.op = "run" /\ Overtaking /\ UNCHANGED <<hw, factory, faults, admin, flash, journal>>
      /\ host.mode = "Restore" /\ host' = [host EXCEPT !.mode = "None"]
      /\ stage' = [op |-> "reset", at |-> "restart", next |-> 1] /\ Publish("RestoreEnd")
  BY DEF FinishRestore, NoFault, Kept
<1>2. /\ signals \in Seq(Events) /\ admin \in AdminState /\ faults \in Nat /\ host \in HostState
  BY DEF IInv, StateInv
<1>3. StorageInv' /\ Visible' = Visible /\ (Unsaved' <=> Unsaved)
  BY <1>1, KeepStores DEF IInv
<1>4. host' \in HostState /\ host'.open = host.open
  BY <1>1, <1>2 DEF HostState
<1>5. stage' \in StageState /\ stage'.op = "reset" /\ stage'.at = "restart"
  <2>1. 1 \in 1 .. NumPresets + 3 /\ "restart" \in Ats
    BY PresetFacts DEF Ats
  <2> QED BY <1>1, <2>1 DEF StageState
<1>6. "RestoreEnd" \in Events /\ "RestoreEnd" \in Ends
  BY DEF Events, Ends
<1>7. signals' \in Seq(Events) /\ (CloseFlushes => CloseFlushes') /\ (CachedNow => EndFlushes')
  BY <1>1, <1>2, <1>6, Published
<1>8. StateInv' /\ SelectionInv' /\ ActiveInv'
  BY <1>1, <1>2, <1>3, <1>4, <1>5, <1>7, DispatcherStep
<1>9. StageInv'
  BY <1>1, <1>5 DEF IInv, StageInv
<1>10. SavingInv'
  BY <1>1, <1>3, <1>4, <1>5, <1>7 DEF IInv, SavingInv
<1> QED BY <1>3, <1>8, <1>9, <1>10 DEF IInv

LEMMA StartResetPreserves ==
    ASSUME IInv, StartReset
    PROVE  IInv'
<1> DEFINE at == IF factory # NoSnapshot THEN "clearForSnapshot" ELSE "clear"
<1>1. /\ stage.op = "run" /\ Overtaking /\ UNCHANGED <<hw, factory, faults, admin, flash, journal, host>>
      /\ stage' = [op |-> "reset", at |-> at, next |-> 1] /\ Publish("FactoryResetStart")
  BY DEF StartReset, NoFault, Kept
<1>2. at \in {"clearForSnapshot", "clear"} /\ (at = "clearForSnapshot" => factory # NoSnapshot)
  OBVIOUS
<1> HIDE DEF at
<1>3. /\ signals \in Seq(Events) /\ admin \in AdminState /\ faults \in Nat /\ host \in HostState
  BY DEF IInv, StateInv
<1>4. StorageInv' /\ Visible' = Visible /\ (Unsaved' <=> Unsaved)
  BY <1>1, KeepStores DEF IInv
<1>5. stage' \in StageState /\ stage'.op = "reset" /\ stage'.at = at
  <2>1. 1 \in 1 .. NumPresets + 3 /\ at \in Ats
    BY <1>2, PresetFacts DEF Ats
  <2> QED BY <1>1, <2>1 DEF StageState
<1>6. "FactoryResetStart" \in Events
  BY DEF Events
<1>7. signals' \in Seq(Events) /\ (CloseFlushes => CloseFlushes')
  BY <1>1, <1>3, <1>6, Published
<1>8. StateInv' /\ SelectionInv' /\ ActiveInv'
  BY <1>1, <1>3, <1>4, <1>5, <1>7, DispatcherStep
<1>9. StageInv'
  BY <1>1, <1>2, <1>5 DEF IInv, StageInv
<1>10. SavingInv'
  BY <1>1, <1>2, <1>4, <1>5, <1>7 DEF IInv, SavingInv
<1> QED BY <1>4, <1>8, <1>9, <1>10 DEF IInv

-----------------------------------------------------------------------------
(* The signals that HwaHw handles, the readers, and the loss of power.     *)

LEMMA SignalFrame ==
    ASSUME IInv, UNCHANGED <<admin, factory, host, stage, calls>>, Visible' = Visible, signals' \in Seq(Events),
           hw' \in HwState, faults' \in Nat, faults' = 0 => faults = 0
    PROVE  StateInv' /\ StageInv' /\ SelectionInv' /\ ActiveInv'
<1>1. StateInv'
  BY DEF IInv, StateInv
<1>2. StageInv'
  BY DEF IInv, StageInv
<1>3. SelectionInv'
  BY DEF IInv, SelectionInv, Undisturbed
<1>4. ActiveInv'
  BY DEF IInv, ActiveInv, ActiveIsStored, Undisturbed
<1> QED BY <1>1, <1>2, <1>3, <1>4

LEMMA HandleSignalPreserves ==
    ASSUME IInv, HandleSignal
    PROVE  IInv'
<1> DEFINE e == Head(signals)
<1>1. /\ UNCHANGED <<admin, factory, host, stage, calls, faults>> /\ signals # <<>> /\ signals' = Tail(signals)
      /\ hw' = Flags(e)
      /\ Flushes(e) => Flush
      /\ ~Flushes(e) => UNCHANGED <<flash, journal>>
  BY DEF HandleSignal, Kept, bounds
<1>2. signals \in Seq(Events) /\ hw \in HwState /\ faults \in Nat /\ StorageInv /\ SavingInv
  BY DEF IInv, StateInv
<1>3. /\ signals' \in Seq(Events) /\ hw' \in HwState
      /\ CloseFlushes => Flushes(e) \/ CloseFlushes'
      /\ EndFlushes => Flushes(e) \/ EndFlushes'
      /\ CachedNow => CachedNow'
  BY <1>1, <1>2, Handled
<1> HIDE DEF e
<1>4. StorageInv' /\ Visible' = Visible /\ (Unsaved' => Unsaved /\ ~Flushes(e))
  <2>1. CASE Flushes(e)
    BY <1>1, <1>2, <2>1, FlushStores
  <2>2. CASE ~Flushes(e)
    BY <1>1, <1>2, <2>2, KeepStores
  <2> QED BY <2>1, <2>2
<1>5. StateInv' /\ StageInv' /\ SelectionInv' /\ ActiveInv'
  BY <1>1, <1>2, <1>3, <1>4, SignalFrame
<1>6. SavingInv'
  BY <1>1, <1>2, <1>3, <1>4 DEF SavingInv
<1> QED BY <1>4, <1>5, <1>6 DEF IInv

LEMMA FlushFailsPreserves ==
    ASSUME IInv, FlushFails
    PROVE  IInv'
<1>1. /\ UNCHANGED <<admin, factory, host, stage, calls, flash, journal>> /\ signals # <<>>
      /\ signals' = Tail(signals) /\ hw' = Flags(Head(signals)) /\ Fault
  BY DEF FlushFails, Kept
<1>2. signals \in Seq(Events) /\ hw \in HwState /\ faults \in Nat /\ StorageInv
  BY DEF IInv, StateInv
<1>3. signals' \in Seq(Events) /\ hw' \in HwState
  BY <1>1, <1>2, Handled
<1>4. StorageInv' /\ Visible' = Visible
  BY <1>1, <1>2, KeepStores
<1>5. faults' \in Nat /\ faults' # 0
  BY <1>1, <1>2, FaultFacts
<1>6. StateInv' /\ StageInv' /\ SelectionInv' /\ ActiveInv'
  BY <1>1, <1>3, <1>4, <1>5, SignalFrame
<1>7. SavingInv'
  BY <1>5 DEF SavingInv
<1> QED BY <1>4, <1>6, <1>7 DEF IInv

LEMMA ReaderFrame ==
    ASSUME IInv, stage.op # "init", UNCHANGED <<flash, journal, factory, hw, signals, host, stage, faults>>,
           admin' \in AdminState, calls' \in [DOMAIN calls' -> CallState], Undisturbed' => Undisturbed,
           stage.op # "reset" /\ Undisturbed => admin'.active = admin.active, SelectionInv'
    PROVE  IInv'
<1>1. StorageInv' /\ Visible' = Visible /\ (Unsaved' <=> Unsaved)
  BY KeepStores DEF IInv
<1>2. StateInv'
  BY DEF IInv, StateInv
<1>3. StageInv'
  BY <1>1 DEF IInv, StageInv
<1>4. ActiveInv'
  BY <1>1 DEF IInv, ActiveInv, ActiveIsStored
<1>5. SavingInv'
  BY <1>1, QueueKept DEF IInv, SavingInv
<1> QED BY <1>1, <1>2, <1>3, <1>4, <1>5 DEF IInv

\* One field of the call of one reader.
LEMMA CallStep ==
    ASSUME calls \in [DOMAIN calls -> CallState], NEW r \in DOMAIN calls, NEW c \in CallState,
           calls' = [calls EXCEPT ![r] = c], c.overtaken = calls[r].overtaken
    PROVE  /\ calls' \in [DOMAIN calls' -> CallState] /\ DOMAIN calls' = DOMAIN calls /\ calls'[r] = c
           /\ \A s \in DOMAIN calls : s # r => calls'[s] = calls[s]
           /\ Undisturbed' => Undisturbed
<1>1. /\ calls' \in [DOMAIN calls' -> CallState] /\ DOMAIN calls' = DOMAIN calls /\ calls'[r] = c
      /\ \A s \in DOMAIN calls : s # r => calls'[s] = calls[s]
  OBVIOUS
<1>2. ASSUME Undisturbed', NEW s \in DOMAIN calls PROVE ~calls[s].overtaken
  BY <1>1, <1>2 DEF Undisturbed
<1> QED BY <1>1, <1>2 DEF Undisturbed

LEMMA BeginReadPreserves ==
    ASSUME IInv, NEW r \in DOMAIN calls, BeginRead(r)
    PROVE  IInv'
<1> DEFINE at == IF admin.context = "Preset" THEN "idle" ELSE "layout"
           c == [calls[r] EXCEPT !.at = at, !.preset = admin.active]
<1>1. /\ calls \in [DOMAIN calls -> CallState] /\ admin \in AdminState /\ admin.active \in Presets
      /\ at \in {"idle", "layout"} /\ at \in {"idle", "layout", "preset", "context"}
  BY DEF IInv, StateInv, AdminState
<1>2. /\ stage.op = "run" /\ calls[r].at = "idle" /\ UNCHANGED <<flash, journal, factory, hw, signals, host, stage, faults, admin>>
      /\ calls' = [calls EXCEPT ![r] = c]
  <2>1. calls' = [calls EXCEPT ![r].at = at, ![r].preset = admin.active]
    BY DEF BeginRead
  <2> HIDE DEF at
  <2>2. calls' = [calls EXCEPT ![r] = c]
    BY <1>1, <2>1
  <2> QED BY <2>2 DEF BeginRead
<1>3. c \in CallState /\ c.at = at /\ c.preset = admin.active /\ c.overtaken = calls[r].overtaken
  <2> HIDE DEF at
  <2> QED BY <1>1 DEF CallState
<1> HIDE DEF c, at
<1>4. /\ calls' \in [DOMAIN calls' -> CallState] /\ DOMAIN calls' = DOMAIN calls /\ calls'[r] = c
      /\ \A s \in DOMAIN calls : s # r => calls'[s] = calls[s]
      /\ Undisturbed' => Undisturbed
  BY <1>1, <1>2, <1>3, CallStep
<1>5. SelectionInv'
  BY <1>1, <1>2, <1>3, <1>4 DEF IInv, SelectionInv
<1> QED BY <1>1, <1>2, <1>4, <1>5, ReaderFrame

LEMMA StoringPreserves ==
    ASSUME IInv, NEW r \in DOMAIN calls, SetLayout(r) \/ StorePreset(r) \/ StoreContext(r)
    PROVE  IInv'
<1>1. /\ calls \in [DOMAIN calls -> CallState] /\ admin \in AdminState /\ calls[r].preset \in Presets
      /\ calls[r] \in CallState
  BY DEF IInv, StateInv, CallState
<1>2. /\ UNCHANGED <<flash, journal, factory, hw, signals, host, stage, faults>> /\ calls[r].at # "idle"
  BY DEF SetLayout, StorePreset, StoreContext, Step, bounds
<1>3. stage.op # "init"
  BY <1>2, InitFacts
<1>4. CASE SetLayout(r)
  <2> DEFINE c == [calls[r] EXCEPT !.at = "preset"]
  <2>1. calls[r].at = "layout" /\ calls' = [calls EXCEPT ![r] = c] /\ admin' = [admin EXCEPT !.layout = calls[r].preset]
    BY <1>4 DEF SetLayout, Step
  <2>2. c \in CallState /\ c.at = "preset" /\ c.preset = calls[r].preset /\ c.overtaken = calls[r].overtaken
    BY <1>1 DEF CallState
  <2> HIDE DEF c
  <2>3. /\ calls' \in [DOMAIN calls' -> CallState] /\ DOMAIN calls' = DOMAIN calls /\ calls'[r] = c
        /\ \A s \in DOMAIN calls : s # r => calls'[s] = calls[s]
        /\ Undisturbed' => Undisturbed
    BY <1>1, <2>1, <2>2, CallStep
  <2>4. /\ admin' \in AdminState /\ admin'.active = admin.active /\ admin'.context = admin.context
        /\ admin'.layout = calls[r].preset
    BY <1>1, <2>1, PresetFacts DEF AdminState
  <2>5. SelectionInv'
    BY <1>2, <2>1, <2>2, <2>3, <2>4 DEF IInv, SelectionInv
  <2> QED BY <1>2, <1>3, <2>3, <2>4, <2>5, ReaderFrame
<1>5. CASE StorePreset(r)
  <2> DEFINE c == [calls[r] EXCEPT !.at = "context"]
  <2>1. calls[r].at = "preset" /\ calls' = [calls EXCEPT ![r] = c] /\ admin' = [admin EXCEPT !.active = calls[r].preset]
    BY <1>5 DEF StorePreset, Step
  <2>2. c \in CallState /\ c.at = "context" /\ c.preset = calls[r].preset /\ c.overtaken = calls[r].overtaken
    BY <1>1 DEF CallState
  <2> HIDE DEF c
  <2>3. /\ calls' \in [DOMAIN calls' -> CallState] /\ DOMAIN calls' = DOMAIN calls /\ calls'[r] = c
        /\ \A s \in DOMAIN calls : s # r => calls'[s] = calls[s]
        /\ Undisturbed' => Undisturbed
    BY <1>1, <2>1, <2>2, CallStep
  <2>4. /\ admin' \in AdminState /\ admin'.active = calls[r].preset /\ admin'.context = admin.context
        /\ admin'.layout = admin.layout
    BY <1>1, <2>1 DEF AdminState
  <2>5. stage.op # "reset" /\ Undisturbed => admin'.active = admin.active
    BY <1>2, <2>4 DEF IInv, SelectionInv
  <2>6. SelectionInv'
    BY <1>2, <2>1, <2>2, <2>3, <2>4, <2>5 DEF IInv, SelectionInv
  <2> QED BY <1>2, <1>3, <2>3, <2>4, <2>5, <2>6, ReaderFrame
<1>6. CASE StoreContext(r)
  <2> DEFINE c == [calls[r] EXCEPT !.at = "idle"]
  <2>1. calls[r].at = "context" /\ calls' = [calls EXCEPT ![r] = c] /\ admin' = [admin EXCEPT !.context = "Preset"]
    BY <1>6 DEF StoreContext, Step
  <2>2. c \in CallState /\ c.at = "idle" /\ c.preset = calls[r].preset /\ c.overtaken = calls[r].overtaken
    BY <1>1 DEF CallState
  <2> HIDE DEF c
  <2>3. /\ calls' \in [DOMAIN calls' -> CallState] /\ DOMAIN calls' = DOMAIN calls /\ calls'[r] = c
        /\ \A s \in DOMAIN calls : s # r => calls'[s] = calls[s]
        /\ Undisturbed' => Undisturbed
    BY <1>1, <2>1, <2>2, CallStep
  <2>4. /\ admin' \in AdminState /\ admin'.active = admin.active /\ admin'.context = "Preset"
        /\ admin'.layout = admin.layout
    BY <1>1, <2>1 DEF AdminState
  <2>5. SelectionInv'
    BY <1>2, <2>1, <2>2, <2>3, <2>4 DEF IInv, SelectionInv
  <2> QED BY <1>2, <1>3, <2>3, <2>4, <2>5, ReaderFrame
<1> QED BY <1>4, <1>5, <1>6

\* The state that the device starts in, whatever it has stored.
Started ==
    /\ Good(flash) /\ journal = <<>> /\ admin = Stopped /\ hw = HwInit /\ signals = <<>> /\ host = NoHost
    /\ stage = [op |-> "init", at |-> "signature", next |-> 1]
    /\ calls \in [DOMAIN calls -> {NoCall}] /\ faults \in Nat
    /\ factory \in Cells \cup {NoSnapshot} /\ (factory # NoSnapshot => factory = DefaultCells)

LEMMA StartFacts == Started => IInv
<1> SUFFICES ASSUME Started PROVE IInv
  OBVIOUS
<1> USE DEF Started
<1>1. <<>> \in Seq(Entry) /\ <<>> \in Seq(Events) /\ DOMAIN <<>> = {}
  OBVIOUS
<1>2. StorageInv /\ ~Unsaved
  BY <1>1 DEF StorageInv, Unsaved
<1>3. 1 \in 1 .. NumPresets + 3 /\ "signature" \in Ats
  BY PresetFacts DEF Ats
<1>4. NoCall \in CallState /\ ~NoCall.overtaken /\ NoCall.at = "idle"
  BY PresetFacts DEF NoCall, CallState
<1>5. StateInv
  <2>1. Stopped \in AdminState /\ HwInit \in HwState /\ NoHost \in HostState
    BY PresetFacts DEF Stopped, HwInit, NoHost, AdminState, HwState, HostState
  <2>2. stage \in StageState
    BY <1>3 DEF StageState
  <2>3. calls \in [DOMAIN calls -> CallState]
    BY <1>4
  <2> QED BY <1>1, <2>1, <2>2, <2>3 DEF StateInv
<1>6. StageInv
  BY DEF StageInv
<1>7. SelectionInv
  BY <1>4 DEF SelectionInv, Stopped
<1>8. ActiveInv
  BY DEF ActiveInv, ActiveIsStored
<1>9. SavingInv
  BY <1>2 DEF SavingInv
<1> QED BY <1>2, <1>5, <1>6, <1>7, <1>8, <1>9 DEF IInv

LEMMA PowerUpPreserves ==
    ASSUME IInv, PowerUp
    PROVE  IInv'
<1>1. /\ flash' \in {flash} \cup {journal[i].after : i \in DOMAIN journal} /\ journal' = <<>>
      /\ admin' = Stopped /\ hw' = HwInit /\ signals' = <<>> /\ host' = NoHost
      /\ stage' = [op |-> "init", at |-> "signature", next |-> 1]
      /\ calls' = [r \in DOMAIN calls |-> NoCall]
      /\ UNCHANGED <<factory, faults>>
  BY DEF PowerUp
<1>2. Good(flash')
  BY <1>1 DEF IInv, StorageInv
<1>3. faults \in Nat /\ factory \in Cells \cup {NoSnapshot} /\ (factory # NoSnapshot => factory = DefaultCells)
  BY DEF IInv, StateInv, StageInv
<1>4. calls' \in [DOMAIN calls' -> {NoCall}]
  BY <1>1
<1>5. Started'
  BY <1>1, <1>2, <1>3, <1>4 DEF Started, Good, Cells, Complete
<1> QED BY <1>5, StartFacts, PTL

-----------------------------------------------------------------------------
(* The theorem.                                                            *)

LEMMA InitEstablishes == Init => IInv
<1> SUFFICES ASSUME Init PROVE IInv
  OBVIOUS
<1>1. PICK R \in SUBSET Readers : calls = [r \in R |-> NoCall]
  BY DEF Init
<1>2. calls \in [DOMAIN calls -> {NoCall}]
  BY <1>1
<1>3. Started
  BY <1>2, PartialFacts DEF Init, Started
<1> QED BY <1>3, StartFacts

LEMMA NextPreserves == IInv /\ [Next]_vars => IInv'
<1> SUFFICES ASSUME IInv, [Next]_vars PROVE IInv'
  OBVIOUS
<1>1. CASE Storage
  BY <1>1, CheckSignaturePreserves, RestoreSnapshotPreserves, ClearPreserves, WriteDefaultPreserves,
     WriteDefaultFailsPreserves, StoreSnapshotPreserves, LoadPreserves, LoadFailsPreserves, ResetDonePreserves
     DEF Storage
<1>2. CASE Dispatcher
  BY <1>2, SessionPreserves, ReadCommonPreserves, UpdatePresetPreserves, SetPreservePreserves, SetPresetPreserves,
     SetPresetFailsPreserves, FinishRestorePreserves, StartResetPreserves DEF Dispatcher
<1>3. CASE HandleSignal
  BY <1>3, HandleSignalPreserves
<1>4. CASE FlushFails
  BY <1>4, FlushFailsPreserves
<1>5. CASE \E r \in DOMAIN calls : Reader(r)
  BY <1>5, BeginReadPreserves, StoringPreserves DEF Reader
<1>6. CASE PowerLoss \/ Restart
  BY <1>6, PowerUpPreserves DEF PowerLoss, Restart
<1>7. CASE UNCHANGED vars
  <2>1. /\ UNCHANGED <<flash, journal, factory, admin, hw, signals, host, stage, calls, faults>>
    BY <1>7 DEF vars
  <2>2. StorageInv' /\ Visible' = Visible /\ (Unsaved' <=> Unsaved)
    BY <2>1, KeepStores DEF IInv
  <2>3. StateInv' /\ StageInv' /\ SelectionInv' /\ ActiveInv'
    BY <2>1, <2>2, SignalFrame DEF IInv, StateInv
  <2>4. SavingInv'
    BY <2>1, <2>2, QueueKept DEF IInv, SavingInv
  <2> QED BY <2>2, <2>3, <2>4 DEF IInv
<1> QED BY <1>1, <1>2, <1>3, <1>4, <1>5, <1>6, <1>7 DEF Next

LEMMA InvariantIsSafe == IInv => DatabaseSafe
<1> SUFFICES ASSUME IInv PROVE DatabaseSafe
  OBVIOUS
<1>1. TypeOK
  <2>1. Visible \in Cells /\ flash \in Cells
    BY StorageFacts DEF IInv, StorageInv, Good
  <2>2. stage \in [op : {"init", "run", "reset"}, at : Ats, next : 1 .. Len(Defaults)]
    BY DefaultsFacts DEF IInv, StateInv, StageState
  <2> QED BY <2>1, <2>2 DEF TypeOK, IInv, StateInv, AdminState, HwState, HostState, CallState
<1>2. SignatureMeansComplete
  BY DEF IInv, StorageInv, Good, SignatureMeansComplete
<1>3. SnapshotIsDefault
  BY DEF IInv, StageInv, SnapshotIsDefault, DefaultCells, AllDefault
<1>4. SavedWhenClosed /\ RestoreSaved
  <2>1. signals = <<>> => ~CloseFlushes /\ ~EndFlushes
    BY DEF CloseFlushes, EndFlushes
  <2> QED BY <2>1 DEF IInv, SavingInv, SavedWhenClosed, RestoreSaved
<1>5. ResetGivesDefaults
  BY DEF IInv, StageInv, ResetGivesDefaults, DefaultCells, AllDefault
<1>6. ActiveIsStored
  BY DEF IInv, ActiveInv
<1>7. RegionSelected
  BY DEF IInv, SelectionInv, RegionSelected, StateInv, AdminState
<1> QED BY <1>1, <1>2, <1>3, <1>4, <1>5, <1>6, <1>7 DEF DatabaseSafe

\* For any number of presets and readers, whatever fails and whenever the power goes: a signature that is found
\* valid stands for complete data, the factory snapshot for the defaults, what a host wrote is durable once its
\* session is closed or its restore has ended, and the selected preset is the stored one.
THEOREM DatabaseIsSafe == Spec => []DatabaseSafe
<1> QED BY InitEstablishes, NextPreserves, InvariantIsSafe, PTL DEF Spec
=============================================================================
