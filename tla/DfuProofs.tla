----------------------------- MODULE DfuProofs -----------------------------
(***************************************************************************)
(* The theorems about the payload writer and the upload protocol: first    *)
(* the writer alone, then the parser that drives it.                       *)
(***************************************************************************)
EXTENDS DfuUpload, SequenceTheorems, WellFoundedInduction, TLAPS

-----------------------------------------------------------------------------
(***************************************************************************)
(* What holds of the payload writer for every geometry of the flash area,  *)
(* every write block, payload and header size, and any number of failing   *)
(* operations and power losses.  IInv is the inductive invariant: what the *)
(* transfer has accepted is in the flash up to the write block and in the  *)
(* block from there on; the sector erased last is still erased behind the  *)
(* block, which is why it alone need not be erased again; the header stays *)
(* erased until the commit.                                                *)
(***************************************************************************)

-----------------------------------------------------------------------------
(* Geometry.                                                               *)

\* A nonempty set of naturals has a least element.
LEMMA LeastNatural ==
    ASSUME NEW T, T \subseteq Nat, T # {}
    PROVE  \E x \in T : \A y \in T : x <= y
<1> DEFINE R == {ss \in Nat \X Nat : ss[1] < ss[2]}
<1>1. OpToRel(<, Nat) = R
  BY Zenon DEF OpToRel
<1>2. IsWellFoundedOn(R, Nat)
  BY <1>1, NatLessThanWellFounded, Zenon
<1> HIDE DEF R
<1>3. PICK x \in T : \A y \in T : ~ (<<y, x>> \in R)
  BY <1>2, WFMin
<1>4. \A y, z \in Nat : y < z => <<y, z>> \in R
  BY DEF R
<1>5. ASSUME NEW y \in T PROVE x <= y
  <2>1. x \in Nat /\ y \in Nat
    OBVIOUS
  <2>2. ~(y < x)
    BY <2>1, <1>3, <1>4
  <2> QED BY <2>1, <2>2
<1> QED BY <1>5

\* prepare() takes one of the candidates, ...
LEMMA BlockSizeChosen == ASSUME Prepared PROVE BlockSize \in BlockCandidates
<1> DEFINE T == {MaxBlock - c : c \in BlockCandidates}
<1>1. /\ MaxBlock \in Nat
      /\ \A c \in BlockCandidates : c \in Nat \ {0} /\ c <= MaxBlock
  BY GeometryAssumption DEF BlockCandidates
<1>2. T \subseteq Nat /\ T # {}
  <2>1. \A c \in BlockCandidates : MaxBlock - c \in Nat
    BY <1>1
  <2> QED BY <2>1 DEF Prepared
<1>3. PICK x \in T : \A y \in T : x <= y
  BY <1>2, LeastNatural
<1>4. PICK c \in BlockCandidates : x = MaxBlock - c
  BY <1>3
<1>5. ASSUME NEW d \in BlockCandidates PROVE d <= c
  <2>1. MaxBlock - d \in T
    OBVIOUS
  <2>2. MaxBlock - c <= MaxBlock - d
    BY <2>1, <1>3, <1>4
  <2> QED BY <2>2, <1>1
<1> QED BY <1>4, <1>5 DEF BlockSize

\* ... a write block of at least one cell.
LEMMA BlockSizeType == ASSUME Prepared PROVE BlockSize \in Nat \ {0}
<1>1. \A c \in BlockCandidates : c \in Nat \ {0}
  BY GeometryAssumption DEF BlockCandidates
<1> QED BY <1>1, BlockSizeChosen

\* The sectors lie in the area.
LEMMA SectorFacts ==
    /\ Sectors # <<>> <=> Len(Sectors) > 0
    /\ Len(Sectors) \in Nat
    /\ AreaSize \in Nat
    /\ \A i \in SectorIndex : /\ Sectors[i].offset \in Nat
                              /\ Sectors[i].size \in Nat
                              /\ SectorEnd(i) \in Nat
                              /\ Sectors[i].offset < SectorEnd(i)
                              /\ SectorEnd(i) <= AreaSize
<1>1. /\ Len(Sectors) \in Nat
      /\ Sectors # <<>> <=> Len(Sectors) > 0
      /\ \A i \in SectorIndex : Sectors[i] \in [offset : Nat, size : Nat \ {0}]
  <2> DEFINE S == [offset : Nat, size : Nat \ {0}]
  <2>1. Sectors \in Seq(S)
    BY GeometryAssumption
  <2> HIDE DEF S
  <2>2. Len(Sectors) \in Nat
    BY <2>1, LenProperties
  <2>3. Sectors # <<>> <=> Len(Sectors) > 0
    BY <2>1, EmptySeq
  <2>4. \A i \in SectorIndex : Sectors[i] \in S
    BY <2>1, ElementOfSeq DEF SectorIndex
  <2> QED BY <2>2, <2>3, <2>4 DEF S
<1>2. \A i \in SectorIndex : /\ Sectors[i].offset \in Nat
                             /\ Sectors[i].size \in Nat
                             /\ SectorEnd(i) \in Nat
                             /\ Sectors[i].offset < SectorEnd(i)
  BY <1>1 DEF SectorEnd
<1>3. Sectors # <<>> => Len(Sectors) \in SectorIndex
  BY <1>1 DEF SectorIndex
<1>4. AreaSize \in Nat
  BY <1>2, <1>3 DEF AreaSize
<1>5. ASSUME NEW i \in SectorIndex PROVE SectorEnd(i) <= AreaSize
  <2> DEFINE n == Len(Sectors)
  <2>1. Sectors # <<>> /\ n \in SectorIndex
    BY <1>1, <1>3 DEF SectorIndex
  <2>2. AreaSize = SectorEnd(n)
    BY <2>1 DEF AreaSize
  <2>3. CASE i = n
    BY <2>2, <2>3, <1>2, <2>1
  <2>4. CASE i # n
    <3>1. i < n
      BY <2>4, <1>1 DEF SectorIndex
    <3>2. SectorEnd(i) <= Sectors[n].offset
      BY <3>1, <2>1, GeometryAssumption
    <3> QED BY <3>2, <2>2, <1>2, <2>1
  <2> QED BY <2>3, <2>4
<1> QED BY <1>1, <1>2, <1>4, <1>5

\* A sector that ends before the area does is followed by another one.
LEMMA NextSector ==
    ASSUME NEW i \in SectorIndex, SectorEnd(i) < AreaSize
    PROVE  i + 1 \in SectorIndex /\ Sectors[i + 1].offset = SectorEnd(i)
<1>1. i < Len(Sectors) /\ i \in Nat /\ Len(Sectors) \in Nat
  <2>1. Sectors # <<>>
    BY SectorFacts DEF SectorIndex
  <2>2. AreaSize = SectorEnd(Len(Sectors))
    BY <2>1 DEF AreaSize
  <2> QED BY <2>2, SectorFacts DEF SectorIndex
<1>2. i + 1 \in SectorIndex /\ i + 1 > 1 /\ (i + 1) - 1 = i
  BY <1>1 DEF SectorIndex
<1> QED BY <1>2, GeometryAssumption

\* The payload fits behind the header.
LEMMA OffsetFacts ==
    /\ PayloadOffset \in Nat
    /\ Capacity \in Nat
    /\ Capacity > 0 => PayloadOffset + Capacity = AreaSize
    /\ Staged => PayloadOffset = HeaderSize
    /\ ~Staged => PayloadOffset = 0
BY SectorFacts, HeaderAssumption DEF PayloadOffset, Capacity

-----------------------------------------------------------------------------
(* The inductive invariant.                                                *)

\* A write block is on its way to the flash.
Flushing == w.pc \in {"flush", "lastFlush"}

\* A transfer is under way wherever the writer is in the middle of a call, but
\* for the erase that ends an abort; it fits in the area.
ControlInv ==
    /\ w.pc \in {"eraseHeader", "flush", "lastFlush", "commit"} => w.active
    /\ w.pc = "cancel" => ~w.active
    /\ w.pc \in {"eraseHeader", "cancel"} => Staged
    /\ w.active => /\ Prepared
                   /\ w.expected \in 1 .. Capacity

\* The counters and the write block of an active transfer.
CountInv ==
    w.active =>
      /\ BlockOffset >= PayloadOffset
      /\ Len(accepted) <= w.expected
      /\ w.pc \in {"idle", "eraseHeader"} =>
            /\ w.written = Len(accepted)
            /\ w.next = PayloadOffset + Len(accepted)
            /\ Len(w.blk) < BlockSize
      /\ w.pc = "eraseHeader" => accepted = <<>> /\ w.blk = <<>> /\ w.erased = 0
      /\ w.pc = "flush" =>
            /\ w.written + 1 = Len(accepted)
            /\ w.next = PayloadOffset + Len(accepted)
      /\ w.pc \in {"lastFlush", "commit"} =>
            /\ Len(accepted) = w.expected
            /\ w.next >= PayloadOffset + Len(accepted)
      /\ w.pc = "commit" => w.blk = <<>>

\* The accepted bytes are in the flash up to the write block, then in it.
DataInv ==
    w.active =>
      \A k \in 1 .. Len(accepted) :
         IF PayloadOffset + k - 1 < BlockOffset
         THEN flash[PayloadOffset + k - 1] = accepted[k]
         ELSE PayloadOffset + k - 1 < w.next =>
                 w.blk[PayloadOffset + k - BlockOffset] = accepted[k]

\* The sector erased last reaches at least to the write block, what is left of
\* it behind the block is still erased, and erase_range() goes on from it.
ErasedInv ==
    w.active =>
      /\ w.erased = 0 => BlockOffset = PayloadOffset
      /\ w.erased # 0 =>
            /\ SectorEnd(w.erased) >= BlockOffset
            /\ \/ Sectors[w.erased].offset <= BlockOffset
               \/ /\ Flushing
                  /\ w.scan = w.erased + 1
                  /\ Sectors[w.erased].offset < w.next
            /\ \A o \in Offsets :
                  BlockOffset <= o /\ o < SectorEnd(w.erased) => flash[o] = Erased
      /\ Flushing => w.scan \in {1, w.erased + 1}

\* The storage of the header is erased sector by sector, and stays so until
\* the transfer is committed.
HeaderInv ==
    /\ w.pc \in {"eraseHeader", "cancel"} =>
          /\ w.scan \in 1 .. Len(Sectors) + 1
          /\ w.scan > 1 => \A o \in Offsets :
                              o < SectorEnd(w.scan - 1) => flash[o] = Erased
    /\ Staged /\ w.active /\ w.pc # "eraseHeader" =>
          \A o \in Offsets : o < HeaderSize => flash[o] = Erased

IInv ==
    /\ WriterTypeOK
    /\ ControlInv
    /\ CountInv
    /\ DataInv
    /\ ErasedInv
    /\ HeaderInv
    /\ PackageComplete
    /\ NeverOverprogrammed

-----------------------------------------------------------------------------
(* The flash device.                                                       *)

LEMMA EraseFacts ==
    ASSUME NEW f \in [Offsets -> Cell], NEW i \in SectorIndex
    PROVE  /\ EraseSector(f, i) \in [Offsets -> Cell]
           /\ \A o \in Offsets :
                 EraseSector(f, i)[o] =
                    IF Sectors[i].offset <= o /\ o < SectorEnd(i) THEN Erased
                    ELSE f[o]
BY DEF EraseSector, Cell

\* Programming erased cells stores the data.
LEMMA ProgramFacts ==
    ASSUME NEW f \in [Offsets -> Cell], NEW offset \in Nat, NEW data \in Seq(Cell),
           \A o \in Offsets : offset <= o /\ o < offset + Len(data) => f[o] = Erased
    PROVE  /\ Program(f, offset, data) \in [Offsets -> Cell]
           /\ \A o \in Offsets :
                 Program(f, offset, data)[o] =
                    IF offset <= o /\ o < offset + Len(data)
                    THEN data[o - offset + 1] ELSE f[o]
<1>1. ASSUME NEW o \in Offsets, offset <= o, o < offset + Len(data)
      PROVE  o - offset + 1 \in 1 .. Len(data) /\ data[o - offset + 1] \in Cell
  <2>1. o \in Int /\ Len(data) \in Nat
    BY SectorFacts, LenProperties DEF Offsets
  <2>2. o - offset + 1 \in 1 .. Len(data)
    BY <1>1, <2>1
  <2> QED BY <2>2, ElementOfSeq
<1>2. \A o \in Offsets :
         Program(f, offset, data)[o] =
            IF offset <= o /\ o < offset + Len(data)
            THEN data[o - offset + 1] ELSE f[o]
  BY DEF Program
<1>3. Program(f, offset, data) = [o \in Offsets |-> Program(f, offset, data)[o]]
  BY DEF Program
<1>4. \A o \in Offsets : Program(f, offset, data)[o] \in Cell
  BY <1>1, <1>2
<1> QED BY <1>2, <1>3, <1>4

\* So does a program operation that is cut short, of a prefix of the data.
LEMMA TornFacts ==
    ASSUME NEW f \in [Offsets -> Cell], NEW offset \in Nat, NEW data \in Seq(Cell),
           \A o \in Offsets : offset <= o /\ o < offset + Len(data) => f[o] = Erased,
           NEW g \in Torn(f, offset, data)
    PROVE  /\ g \in [Offsets -> Cell]
           /\ \E k \in 0 .. Len(data) : \A o \in Offsets :
                 g[o] = IF offset <= o /\ o < offset + k
                        THEN data[o - offset + 1] ELSE f[o]
<1>1. PICK k \in 0 .. Len(data) : g = Program(f, offset, SubSeq(data, 1, k))
  BY DEF Torn
<1> DEFINE d == SubSeq(data, 1, k)
<1>2. Len(data) \in Nat /\ k \in Nat /\ k <= Len(data)
  BY LenProperties
<1>3. \A j \in 1 .. k : data[j] \in Cell
  BY <1>2, ElementOfSeq
<1>4. d \in Seq(Cell) /\ Len(d) = k /\ \A j \in 1 .. k : d[j] = data[j]
  BY <1>2, <1>3, SubSeqProperties
<1> HIDE DEF d
<1>5. \A o \in Offsets : offset <= o /\ o < offset + Len(d) => f[o] = Erased
  BY <1>2, <1>4, SectorFacts DEF Offsets
<1>6. /\ g \in [Offsets -> Cell]
      /\ \A o \in Offsets : g[o] = IF offset <= o /\ o < offset + Len(d)
                                   THEN d[o - offset + 1] ELSE f[o]
  BY <1>1, <1>4, <1>5, ProgramFacts DEF d
<1>7. \A o \in Offsets : g[o] = IF offset <= o /\ o < offset + k
                                THEN data[o - offset + 1] ELSE f[o]
  BY <1>2, <1>4, <1>6, SectorFacts DEF Offsets
<1> QED BY <1>6, <1>7

-----------------------------------------------------------------------------
(* The states a call can leave the writer in without a transfer.           *)

\* Without a transfer only what the flash holds matters.
LEMMA StoppedInv ==
    ASSUME WriterTypeOK', PackageComplete', NeverOverprogrammed',
           ~w'.active, w'.pc \in {"idle", "cancel"},
           w'.pc = "cancel" => Staged /\ w'.scan = 1
    PROVE  IInv'
<1>1. ControlInv'
  BY DEF ControlInv
<1>2. CountInv' /\ DataInv' /\ ErasedInv'
  BY DEF CountInv, DataInv, ErasedInv
<1>3. HeaderInv'
  BY SectorFacts DEF HeaderInv
<1> QED BY <1>1, <1>2, <1>3 DEF IInv

\* reset(), abort().
LEMMA IdleFacts ==
    ASSUME NEW ret \in {"none", "ok", "fail"}
    PROVE  /\ Idle(ret) \in WriterState
           /\ Idle(ret).pc = "idle" /\ ~Idle(ret).active
BY SectorFacts DEF Idle, WriterState, PCs

LEMMA AbortedFacts ==
    ASSUME NEW ret \in {"none", "ok", "fail"}
    PROVE  /\ Aborted(ret) \in WriterState
           /\ Aborted(ret).pc \in {"idle", "cancel"} /\ ~Aborted(ret).active
           /\ Aborted(ret).pc = "cancel" => Staged /\ Aborted(ret).scan = 1
<1>1. CASE w.active /\ Staged
  <2> DEFINE r == [active |-> FALSE, expected |-> 0, written |-> 0, next |-> 0,
                   blk |-> <<>>, erased |-> 0, pc |-> "cancel", scan |-> 1,
                   ret |-> ret]
  <2>1. Aborted(ret) = r
    BY <1>1 DEF Aborted, Idle
  <2>2. r \in WriterState /\ r.pc = "cancel" /\ r.scan = 1 /\ ~r.active
    BY SectorFacts DEF WriterState, PCs
  <2> QED BY <1>1, <2>1, <2>2
<1>2. CASE ~(w.active /\ Staged)
  BY <1>2, IdleFacts DEF Aborted
<1> QED BY <1>1, <1>2

-----------------------------------------------------------------------------
(* Every step preserves the invariant.                                     *)

\* Nothing is said of the writer by what only the flash matters for.
LEMMA FlashUnchanged ==
    ASSUME IInv, UNCHANGED <<flash, package>>
    PROVE  PackageComplete' /\ NeverOverprogrammed'
BY DEF IInv, PackageComplete, HeaderValid, PayloadAt, NeverOverprogrammed

LEMMA BeginStep == ASSUME IInv, NEW n \in Nat, Begin(n) PROVE IInv'
<1>1. PackageComplete' /\ NeverOverprogrammed'
  BY FlashUnchanged DEF Begin
<1>2. accepted' = <<>> /\ flash' = flash /\ package' = package /\ faults' = faults
  BY DEF Begin
<1>3. WriterTypeOK
  BY DEF IInv
<1>4. CASE ~Accepts(n)
  <2>1. w' = Idle("fail")
    BY <1>4 DEF Begin
  <2>2. WriterTypeOK'
    BY <1>2, <1>3, <2>1, IdleFacts, EmptySeq DEF WriterTypeOK
  <2> QED BY <1>1, <2>1, <2>2, IdleFacts, StoppedInv
<1>5. CASE Accepts(n)
  <2> DEFINE r == [active |-> TRUE, expected |-> n, written |-> 0,
                   next |-> PayloadOffset, blk |-> <<>>, erased |-> 0,
                   pc |-> IF Staged THEN "eraseHeader" ELSE "idle", scan |-> 1,
                   ret |-> IF Staged THEN "none" ELSE "ok"]
  <2>1. w' = r
    BY <1>5 DEF Begin, Idle
  <2>2. r \in WriterState
    BY SectorFacts, OffsetFacts DEF WriterState, PCs
  <2>3. /\ w'.active /\ w'.expected = n /\ w'.written = 0 /\ w'.scan = 1
        /\ w'.next = PayloadOffset /\ w'.blk = <<>> /\ w'.erased = 0
        /\ w'.pc = IF Staged THEN "eraseHeader" ELSE "idle"
    BY <2>1
  <2> HIDE DEF r
  <2>4. WriterTypeOK'
    BY <1>2, <1>3, <2>1, <2>2, EmptySeq DEF WriterTypeOK
  <2>5. ControlInv'
    BY <1>5, <2>3, OffsetFacts DEF ControlInv, Accepts
  <2>6. BlockOffset' = PayloadOffset /\ Len(accepted') = 0 /\ Len(w'.blk) = 0
    BY <1>2, <2>3, OffsetFacts, EmptySeq DEF BlockOffset
  <2>7. CountInv'
    BY <1>2, <1>5, <2>3, <2>6, OffsetFacts, BlockSizeType DEF CountInv, Accepts
  <2>8. DataInv' /\ ErasedInv'
    BY <2>3, <2>6 DEF DataInv, ErasedInv, Flushing
  <2>9. HeaderInv'
    BY <2>3, SectorFacts DEF HeaderInv
  <2> QED BY <1>1, <2>4, <2>5, <2>7, <2>8, <2>9 DEF IInv
<1> QED BY <1>4, <1>5

LEMMA BeginUnopenedStep == ASSUME IInv, BeginUnopened PROVE IInv'
<1>1. WriterTypeOK'
  BY IdleFacts, HeaderAssumption DEF IInv, WriterTypeOK, BeginUnopened, MayFail
<1>2. PackageComplete' /\ NeverOverprogrammed'
  BY FlashUnchanged DEF BeginUnopened
<1> QED BY <1>1, <1>2, IdleFacts, StoppedInv DEF BeginUnopened

LEMMA AbortStep == ASSUME IInv, Abort PROVE IInv'
<1>1. WriterTypeOK'
  BY AbortedFacts DEF IInv, WriterTypeOK, Abort
<1>2. PackageComplete' /\ NeverOverprogrammed'
  BY FlashUnchanged DEF Abort
<1> QED BY <1>1, <1>2, AbortedFacts, StoppedInv DEF Abort

LEMMA EraseHeaderFailsStep == ASSUME IInv, EraseHeaderFails PROVE IInv'
<1> USE DEF EraseHeaderFails
<1>1. PackageComplete' /\ NeverOverprogrammed'
  BY FlashUnchanged
<1>2. faults' \in 0 .. MaxFaults
  BY HeaderAssumption DEF IInv, WriterTypeOK, MayFail
<1>3. CASE w.pc = "eraseHeader"
  <2>1. WriterTypeOK'
    BY <1>2, <1>3, AbortedFacts DEF IInv, WriterTypeOK
  <2> QED BY <1>1, <1>3, <2>1, AbortedFacts, StoppedInv
<1>4. CASE w.pc = "cancel"
  <2>1. w' = [w EXCEPT !.pc = "idle"] /\ ~w.active /\ w \in WriterState
    BY <1>4 DEF IInv, ControlInv, WriterTypeOK
  <2>2. w' \in WriterState /\ ~w'.active /\ w'.pc = "idle"
    BY <2>1 DEF WriterState, PCs
  <2>3. WriterTypeOK'
    BY <1>2, <2>2 DEF IInv, WriterTypeOK
  <2> QED BY <1>1, <2>2, <2>3, StoppedInv
<1> QED BY <1>3, <1>4

\* Where the header's first word is erased, no header is valid.
LEMMA HeaderErased ==
    ASSUME 0 \in Offsets => flash'[0] = Erased, flash' \in [Offsets -> Cell]
    PROVE  PackageComplete'
<1>1. ASSUME 3 \in DOMAIN flash' PROVE 0 \in Offsets
  BY <1>1, SectorFacts DEF Offsets
<1>2. ~HeaderValid(flash')
  BY <1>1, CellAssumption DEF HeaderValid
<1> QED BY <1>2 DEF PackageComplete

LEMMA EraseHeaderSectorStep == ASSUME IInv, EraseHeaderSector PROVE IInv'
<1> DEFINE i == w.scan
<1>1. /\ i \in SectorIndex /\ i \in Nat \ {0}
      /\ flash' = EraseSector(flash, i)
      /\ w.pc \in {"eraseHeader", "cancel"} /\ Staged
      /\ accepted' = accepted /\ package' = <<>> /\ faults' = faults
  BY DEF EraseHeaderSector, IInv, ControlInv, SectorIndex
<1>2. WriterTypeOK /\ flash \in [Offsets -> Cell] /\ w \in WriterState
  BY DEF IInv, WriterTypeOK
<1>3. /\ w'.active = w.active /\ w'.expected = w.expected /\ w'.written = w.written
      /\ w'.next = w.next /\ w'.blk = w.blk /\ w'.erased = w.erased
      /\ w'.pc = IF SectorEnd(i) < HeaderSize THEN w.pc ELSE "idle"
      /\ w'.scan = IF SectorEnd(i) < HeaderSize THEN i + 1 ELSE i
  BY <1>2 DEF EraseHeaderSector, WriterState
<1>4. w' \in WriterState
  <2>1. CASE SectorEnd(i) < HeaderSize
    BY <1>1, <1>2, <2>1, SMTT(30) DEF EraseHeaderSector, WriterState
  <2>2. CASE ~(SectorEnd(i) < HeaderSize)
    BY <1>1, <1>2, <2>2 DEF EraseHeaderSector, WriterState, PCs
  <2> QED BY <2>1, <2>2
<1>5. WriterTypeOK'
  BY <1>1, <1>2, <1>4, EraseFacts, EmptySeq DEF WriterTypeOK
<1> HIDE DEF i
<1>6. \A o \in Offsets : o < SectorEnd(i) => flash'[o] = Erased
  <2> SUFFICES ASSUME NEW o \in Offsets, o < SectorEnd(i) PROVE flash'[o] = Erased
    OBVIOUS
  <2>1. CASE i = 1
    <3>1. Sectors[i].offset = 0
      BY <1>1, <2>1, GeometryAssumption
    <3> QED BY <1>1, <1>2, <3>1, EraseFacts, SectorFacts DEF Offsets
  <2>2. CASE i > 1
    <3>1. Sectors[i].offset = SectorEnd(i - 1) /\ SectorEnd(i - 1) \in Nat
      BY <1>1, <2>2, GeometryAssumption, SectorFacts DEF SectorIndex
    <3>2. o < SectorEnd(i - 1) => flash[o] = Erased
      BY <1>1, <2>2 DEF i, IInv, HeaderInv
    <3> QED BY <1>1, <1>2, <3>1, <3>2, EraseFacts, SectorFacts DEF Offsets
  <2> QED BY <1>1, <2>1, <2>2
<1>7. 0 \in Offsets => flash'[0] = Erased
  BY <1>1, <1>6, SectorFacts
<1>8. PackageComplete'
  BY <1>5, <1>7, HeaderErased DEF WriterTypeOK
<1>9. NeverOverprogrammed'
  BY <1>1, <1>2, EraseFacts, CellAssumption DEF IInv, NeverOverprogrammed
<1>10. HeaderInv'
  <2>1. CASE SectorEnd(i) < HeaderSize
    <3>1. i + 1 \in 1 .. Len(Sectors) + 1 /\ (i + 1) - 1 = i
      BY <1>1, SectorFacts DEF SectorIndex
    <3>2. w.pc = "eraseHeader" \/ ~w.active
      BY <1>1 DEF IInv, ControlInv
    <3> QED BY <1>1, <1>3, <1>6, <2>1, <3>1, <3>2 DEF HeaderInv
  <2>2. CASE ~(SectorEnd(i) < HeaderSize)
    <3>1. \A o \in Offsets : o < HeaderSize => o < SectorEnd(i)
      BY <1>1, <2>2, SectorFacts, HeaderAssumption DEF Offsets
    <3> QED BY <1>3, <1>6, <2>2, <3>1 DEF HeaderInv
  <2> QED BY <2>1, <2>2
<1>11. CASE w.pc = "cancel"
  <2>1. ~w'.active /\ w'.pc \in {"idle", "cancel"}
    BY <1>3, <1>11 DEF IInv, ControlInv
  <2> QED BY <1>1, <1>5, <1>8, <1>9, <1>10, <2>1
          DEF IInv, ControlInv, CountInv, DataInv, ErasedInv
<1>12. CASE w.pc = "eraseHeader"
  <2>1. /\ w.active /\ Prepared /\ w.expected \in 1 .. Capacity
        /\ accepted = <<>> /\ w.blk = <<>> /\ w.erased = 0
        /\ w.written = Len(accepted) /\ w.next = PayloadOffset + Len(accepted)
        /\ Len(w.blk) < BlockSize
    BY <1>12 DEF IInv, ControlInv, CountInv
  <2>2. ControlInv'
    BY <1>1, <1>3, <1>12, <2>1 DEF ControlInv
  <2>3. Len(accepted) = 0 /\ Len(w.blk) = 0 /\ BlockOffset' = PayloadOffset
    BY <1>3, <2>1, EmptySeq, OffsetFacts DEF BlockOffset
  <2>4. CountInv'
    BY <1>1, <1>3, <1>12, <2>1, <2>3, OffsetFacts DEF CountInv
  <2>5. DataInv' /\ ErasedInv'
    BY <1>1, <1>3, <1>12, <2>1, <2>3 DEF DataInv, ErasedInv, Flushing
  <2> QED BY <1>5, <1>8, <1>9, <1>10, <2>2, <2>4, <2>5 DEF IInv
<1> QED BY <1>1, <1>11, <1>12

\* What the invariant says of an active transfer between two calls.
LEMMA ActiveFacts ==
    ASSUME IInv, w.active
    PROVE  /\ w \in WriterState /\ w.blk \in Seq(Byte \cup {Erased})
           /\ accepted \in Seq(Byte) /\ flash \in [Offsets -> Cell]
           /\ BlockSize \in Nat \ {0} /\ PayloadOffset \in Nat
           /\ w.next \in Nat /\ Len(w.blk) \in Nat /\ Len(accepted) \in Nat
           /\ w.expected \in Nat /\ w.written \in Nat
           /\ BlockOffset \in Nat /\ BlockOffset + Len(w.blk) = w.next
           /\ Len(accepted) <= w.expected
           /\ PayloadOffset + w.expected <= AreaSize
<1>1. /\ w \in WriterState /\ w.blk \in Seq(Byte \cup {Erased})
      /\ accepted \in Seq(Byte) /\ flash \in [Offsets -> Cell]
      /\ w.next \in Nat /\ w.expected \in Nat /\ w.written \in Nat
  BY DEF IInv, WriterTypeOK, WriterState
<1>2. Len(w.blk) \in Nat /\ Len(accepted) \in Nat
  BY <1>1, LenProperties
<1>3. Prepared /\ w.expected \in 1 .. Capacity
  BY DEF IInv, ControlInv
<1>4. BlockOffset >= PayloadOffset /\ Len(accepted) <= w.expected
  BY DEF IInv, CountInv
<1> QED BY <1>1, <1>2, <1>3, <1>4, BlockSizeType, OffsetFacts, SectorFacts, SMTT(30) DEF BlockOffset

LEMMA WriteStep == ASSUME IInv, NEW b \in Byte, Write(b) PROVE IInv'
<1>1. PackageComplete' /\ NeverOverprogrammed'
  BY FlashUnchanged DEF Write
<1>2. flash' = flash /\ package' = package /\ faults' = faults /\ w.pc = "idle"
  BY DEF Write
<1>3. WriterTypeOK
  BY DEF IInv
<1>4. CASE ~w.active \/ w.written = w.expected
  <2>1. w' = Aborted("fail") /\ accepted' = <<>>
    BY <1>4 DEF Write
  <2>2. WriterTypeOK'
    BY <1>2, <1>3, <2>1, AbortedFacts, EmptySeq DEF WriterTypeOK
  <2> QED BY <1>1, <2>1, <2>2, AbortedFacts, StoppedInv
<1>5. CASE w.active /\ w.written # w.expected
  <2> DEFINE full == Len(w.blk) + 1 = BlockSize
  <2>1. accepted' = Append(accepted, b)
    BY <1>5 DEF Write
  <2> DEFINE r == [active |-> w.active, expected |-> w.expected,
                   written |-> IF full THEN w.written ELSE w.written + 1,
                   next |-> w.next + 1, blk |-> Append(w.blk, b),
                   erased |-> w.erased, pc |-> IF full THEN "flush" ELSE "idle",
                   scan |-> 1, ret |-> IF full THEN "none" ELSE "ok"]
  <2>r. w' = r
    <3>1. w \in WriterState
      BY <1>3 DEF WriterTypeOK
    <3>2. w' = [w EXCEPT !.blk = Append(@, b), !.next = @ + 1,
                         !.written = IF full THEN @ ELSE @ + 1,
                         !.pc = IF full THEN "flush" ELSE "idle", !.scan = 1,
                         !.ret = IF full THEN "none" ELSE "ok"]
      BY <1>5, Zenon DEF Write
    <3> HIDE DEF full
    <3> QED BY <3>1, <3>2 DEF WriterState
  <2> HIDE DEF full
  <2>2. /\ w'.active /\ w'.expected = w.expected /\ w'.erased = w.erased
        /\ w'.blk = Append(w.blk, b) /\ w'.next = w.next + 1 /\ w'.scan = 1
        /\ w'.written = IF full THEN w.written ELSE w.written + 1
        /\ w'.pc = IF full THEN "flush" ELSE "idle"
    BY <1>5, <2>r
  <2>3. w' \in WriterState
    <3>1. w \in WriterState /\ b \in Byte \cup {Erased}
      BY <1>3 DEF WriterTypeOK
    <3>2. Append(w.blk, b) \in Seq(Byte \cup {Erased})
      BY <1>5, <3>1, ActiveFacts, AppendProperties
    <3>3. r \in WriterState
      BY <3>1, <3>2 DEF WriterState, PCs
    <3> QED BY <2>r, <3>3
  <2>4. /\ accepted' \in Seq(Byte) /\ Len(accepted') = Len(accepted) + 1
        /\ \A k \in 1 .. Len(accepted) : accepted'[k] = accepted[k]
        /\ accepted'[Len(accepted) + 1] = b
    BY <1>3, <1>5, <2>1, ActiveFacts, AppendProperties
  <2>5. /\ Len(w'.blk) = Len(w.blk) + 1
        /\ \A k \in 1 .. Len(w.blk) : w'.blk[k] = w.blk[k]
        /\ w'.blk[Len(w.blk) + 1] = b
    BY <1>5, <2>2, ActiveFacts, AppendProperties, SMTT(30)
  <2>a. /\ BlockOffset \in Nat /\ BlockOffset + Len(w.blk) = w.next
        /\ Len(w.blk) \in Nat /\ w.next \in Nat /\ Len(accepted) \in Nat
        /\ w.expected \in Nat /\ Len(accepted) <= w.expected
        /\ PayloadOffset \in Nat /\ BlockSize \in Nat
    BY <1>5, ActiveFacts
  <2>6. BlockOffset' = BlockOffset
    BY <2>2, <2>5, <2>a DEF BlockOffset
  <2>7. WriterTypeOK'
    BY <1>2, <1>3, <2>3, <2>4 DEF WriterTypeOK
  <2>8. ControlInv'
    BY <1>5, <2>2 DEF IInv, ControlInv
  <2>9. /\ w.written = Len(accepted) /\ w.next = PayloadOffset + Len(accepted)
        /\ Len(w.blk) < BlockSize /\ BlockOffset >= PayloadOffset
    BY <1>2, <1>5 DEF IInv, CountInv
  <2>10. CountInv'
    <3>1. Len(w'.blk) <= BlockSize /\ (~full => Len(w'.blk) < BlockSize)
      BY <2>5, <2>9, <2>a DEF full
    <3>2. w'.next = PayloadOffset + Len(accepted') /\ Len(accepted') <= w.expected
      BY <1>5, <2>2, <2>4, <2>9, <2>a
    <3> QED BY <2>2, <2>4, <2>6, <2>9, <2>a, <3>1, <3>2 DEF CountInv
  <2>11. DataInv'
    <3> SUFFICES ASSUME NEW k \in 1 .. Len(accepted')
                 PROVE  IF PayloadOffset + k - 1 < BlockOffset
                        THEN flash[PayloadOffset + k - 1] = accepted'[k]
                        ELSE w'.blk[PayloadOffset + k - BlockOffset] = accepted'[k]
      BY <1>2, <2>2, <2>6 DEF DataInv
    <3>1. CASE k \in 1 .. Len(accepted)
      <4>1. PayloadOffset + k - 1 < w.next
        BY <1>5, <2>9, <3>1, ActiveFacts
      <4>2. IF PayloadOffset + k - 1 < BlockOffset
            THEN flash[PayloadOffset + k - 1] = accepted[k]
            ELSE w.blk[PayloadOffset + k - BlockOffset] = accepted[k]
        BY <1>5, <3>1, <4>1 DEF IInv, DataInv
      <4>3. PayloadOffset + k - 1 >= BlockOffset =>
              PayloadOffset + k - BlockOffset \in 1 .. Len(w.blk)
        BY <1>5, <3>1, <4>1, ActiveFacts, SMTT(30)
      <4>4. accepted'[k] = accepted[k]
        BY <2>4, <3>1
      <4>5. PayloadOffset + k - 1 >= BlockOffset =>
              w'.blk[PayloadOffset + k - BlockOffset] =
                 w.blk[PayloadOffset + k - BlockOffset]
        BY <2>5, <4>3
      <4> QED BY <2>a, <3>1, <4>2, <4>4, <4>5
    <3>2. CASE k = Len(accepted) + 1
      <4>1. PayloadOffset + k - BlockOffset = Len(w.blk) + 1
        BY <1>5, <2>9, <3>2, ActiveFacts, SMTT(30)
      <4>2. ~(PayloadOffset + k - 1 < BlockOffset)
        BY <1>5, <4>1, <3>2, ActiveFacts
      <4> QED BY <2>4, <2>5, <3>2, <4>1, <4>2
    <3> QED BY <1>5, <2>4, <3>1, <3>2, ActiveFacts
  <2>12. ErasedInv'
    <3>1. /\ w.erased = 0 => BlockOffset = PayloadOffset
          /\ w.erased # 0 =>
                /\ SectorEnd(w.erased) >= BlockOffset
                /\ Sectors[w.erased].offset <= BlockOffset
                /\ \A o \in Offsets :
                      BlockOffset <= o /\ o < SectorEnd(w.erased) => flash[o] = Erased
      BY <1>2, <1>5 DEF IInv, ErasedInv, Flushing
    <3> QED BY <1>2, <2>2, <2>6, <3>1 DEF ErasedInv
  <2>13. HeaderInv'
    BY <1>2, <1>5, <2>2 DEF IInv, HeaderInv
  <2> QED BY <1>1, <2>7, <2>8, <2>10, <2>11, <2>12, <2>13 DEF IInv
<1> QED BY <1>4, <1>5

LEMMA FinishStep == ASSUME IInv, Finish PROVE IInv'
<1>1. PackageComplete' /\ NeverOverprogrammed'
  BY FlashUnchanged DEF Finish
<1>2. flash' = flash /\ package' = package /\ faults' = faults /\ w.pc = "idle"
  BY DEF Finish
<1>3. WriterTypeOK /\ w \in WriterState
  BY DEF IInv, WriterTypeOK
<1>4. CASE ~w.active \/ w.written # w.expected
  <2>1. w' = Aborted("fail") /\ accepted' = <<>>
    BY <1>4 DEF Finish
  <2>2. WriterTypeOK'
    BY <1>2, <1>3, <2>1, AbortedFacts, EmptySeq DEF WriterTypeOK
  <2> QED BY <1>1, <2>1, <2>2, AbortedFacts, StoppedInv
<1>5. CASE w.active /\ w.written = w.expected
  <2>1. accepted' = accepted
    BY <1>5 DEF Finish
  <2>2. /\ w.written = Len(accepted) /\ w.next = PayloadOffset + Len(accepted)
        /\ Len(w.blk) < BlockSize /\ BlockOffset >= PayloadOffset
        /\ Len(accepted) = w.expected
    BY <1>2, <1>5 DEF IInv, CountInv
  <2>3. /\ BlockOffset \in Nat /\ BlockOffset + Len(w.blk) = w.next
        /\ Len(w.blk) \in Nat /\ w.next \in Nat /\ Len(accepted) \in Nat
        /\ PayloadOffset \in Nat /\ BlockSize \in Nat /\ w.expected \in Nat
    BY <1>5, ActiveFacts
  <2>4. /\ w.erased = 0 => BlockOffset = PayloadOffset
        /\ w.erased # 0 =>
              /\ SectorEnd(w.erased) >= BlockOffset
              /\ Sectors[w.erased].offset <= BlockOffset
              /\ \A o \in Offsets :
                    BlockOffset <= o /\ o < SectorEnd(w.erased) => flash[o] = Erased
    BY <1>2, <1>5 DEF IInv, ErasedInv, Flushing
  <2>5. ASSUME NEW k \in 1 .. Len(accepted)
        PROVE  /\ PayloadOffset + k - 1 < w.next
               /\ IF PayloadOffset + k - 1 < BlockOffset
                  THEN flash[PayloadOffset + k - 1] = accepted[k]
                  ELSE /\ w.blk[PayloadOffset + k - BlockOffset] = accepted[k]
                       /\ PayloadOffset + k - BlockOffset \in 1 .. Len(w.blk)
    <3>1. PayloadOffset + k - 1 < w.next
      BY <2>2, <2>3
    <3>2. PayloadOffset + k - 1 >= BlockOffset =>
            PayloadOffset + k - BlockOffset \in 1 .. Len(w.blk)
      BY <2>3, <3>1
    <3> QED BY <1>5, <2>3, <3>1, <3>2 DEF IInv, DataInv
  <2>6. CASE w.blk = <<>>
    <3>1. w' = [w EXCEPT !.pc = "commit", !.ret = "none"]
      BY <1>5, <2>6 DEF Finish
    <3>2. /\ w' \in WriterState /\ w'.active /\ w'.expected = w.expected
          /\ w'.next = w.next /\ w'.blk = <<>> /\ w'.erased = w.erased
          /\ w'.pc = "commit"
      BY <1>3, <1>5, <2>6, <3>1 DEF WriterState, PCs
    <3>3. BlockOffset' = BlockOffset
      BY <2>6, <3>2 DEF BlockOffset
    <3>4. WriterTypeOK'
      BY <1>2, <1>3, <2>1, <3>2 DEF WriterTypeOK
    <3>5. ControlInv'
      BY <1>5, <3>2 DEF IInv, ControlInv
    <3>6. CountInv'
      BY <2>1, <2>2, <2>3, <3>2, <3>3 DEF CountInv
    <3>7. DataInv'
      BY <1>2, <2>1, <2>5, <2>6, <3>2, <3>3 DEF DataInv
    <3>8. ErasedInv'
      BY <1>2, <2>4, <3>2, <3>3 DEF ErasedInv, Flushing
    <3>9. HeaderInv'
      BY <1>2, <1>5, <3>2 DEF IInv, HeaderInv
    <3> QED BY <1>1, <3>4, <3>5, <3>6, <3>7, <3>8, <3>9 DEF IInv
  <2>7. CASE w.blk # <<>>
    <3> DEFINE pad == [k \in 1 .. BlockSize |-> IF k <= Len(w.blk) THEN w.blk[k]
                                                ELSE Erased]
               r == [active |-> TRUE, expected |-> w.expected,
                     written |-> w.written,
                     next |-> w.next + BlockSize - Len(w.blk), blk |-> pad,
                     erased |-> w.erased, pc |-> "lastFlush", scan |-> 1,
                     ret |-> "none"]
    <3>1. w' = r
      BY <1>3, <1>5, <2>7 DEF Finish, WriterState
    <3>2. \A k \in 1 .. BlockSize : pad[k] \in Byte \cup {Erased}
      <4>1. w.blk \in Seq(Byte \cup {Erased})
        BY <1>5, ActiveFacts
      <4>2. \A k \in 1 .. Len(w.blk) : w.blk[k] \in Byte \cup {Erased}
        BY <4>1, ElementOfSeq
      <4> QED BY <2>3, <4>2
    <3>3. pad \in Seq(Byte \cup {Erased}) /\ Len(pad) = BlockSize
      BY <2>3, <3>2
    <3>4. \A k \in 1 .. Len(w.blk) : pad[k] = w.blk[k]
      BY <2>2, <2>3
    <3> HIDE DEF pad
    <3>5. w.next + BlockSize - Len(w.blk) \in Nat
      BY <2>2, <2>3
    <3>6. r \in WriterState
      BY <1>3, <3>3, <3>5 DEF WriterState, PCs
    <3>7. /\ w'.active /\ w'.expected = w.expected /\ w'.blk = pad
          /\ w'.next = w.next + BlockSize - Len(w.blk)
          /\ w'.erased = w.erased /\ w'.pc = "lastFlush" /\ w'.scan = 1
      BY <3>1
    <3>8. WriterTypeOK'
      BY <1>2, <1>3, <2>1, <3>1, <3>6 DEF WriterTypeOK
    <3> HIDE DEF r
    <3>9. BlockOffset' = BlockOffset
      BY <2>3, <3>3, <3>7 DEF BlockOffset
    <3>10. ControlInv'
      BY <1>5, <3>7 DEF IInv, ControlInv
    <3>11. CountInv'
      <4>1. \A a, b, c \in Nat : b < c => a + c - b >= a
        OBVIOUS
      <4>2. w'.next >= w.next
        BY <2>2, <2>3, <3>7, <4>1
      <4> QED BY <2>1, <2>2, <3>7, <3>9, <4>2 DEF CountInv
    <3>12. DataInv'
      BY <1>2, <2>1, <2>5, <3>4, <3>7, <3>9 DEF DataInv
    <3>13. ErasedInv'
      BY <1>2, <2>4, <3>7, <3>9 DEF ErasedInv, Flushing
    <3>14. HeaderInv'
      BY <1>2, <1>5, <3>7 DEF IInv, HeaderInv
    <3> QED BY <1>1, <3>8, <3>10, <3>11, <3>12, <3>13, <3>14 DEF IInv
  <2> QED BY <2>6, <2>7
<1> QED BY <1>4, <1>5

\* The sector erase_range() turns to next is the one behind the sector erased
\* last, or the first one the payload needs; nothing written before is in it.
LEMMA NextErase ==
    ASSUME IInv, Flushing, BlockInRange, NEW i \in ToErase, \A j \in ToErase : i <= j
    PROVE  /\ i \in SectorIndex
           /\ Sectors[i].offset < w.next /\ BlockOffset < SectorEnd(i)
           /\ \A o \in Offsets : BlockOffset <= o /\ o < Sectors[i].offset =>
                                    flash[o] = Erased
           /\ BlockOffset > PayloadOffset => BlockOffset <= Sectors[i].offset
<1>1. w.active
  BY DEF IInv, ControlInv, Flushing
<1>2. /\ BlockOffset \in Nat /\ BlockOffset + Len(w.blk) = w.next
      /\ Len(w.blk) \in Nat /\ w.next \in Nat /\ PayloadOffset \in Nat
      /\ BlockOffset >= PayloadOffset /\ w.erased \in 0 .. Len(Sectors)
  BY <1>1, ActiveFacts DEF IInv, CountInv, WriterState
<1>3. /\ i \in SectorIndex /\ i \in Nat \ {0} /\ i >= w.scan /\ i # w.erased
      /\ BlockOffset < SectorEnd(i)
      /\ w.next > Sectors[i].offset
  BY <1>2 DEF ToErase, Touched, SectorIndex
<1>4. /\ w.erased = 0 => BlockOffset = PayloadOffset
      /\ w.erased # 0 =>
            /\ SectorEnd(w.erased) >= BlockOffset
            /\ \/ Sectors[w.erased].offset <= BlockOffset
               \/ /\ w.scan = w.erased + 1
                  /\ Sectors[w.erased].offset < w.next
            /\ \A o \in Offsets :
                  BlockOffset <= o /\ o < SectorEnd(w.erased) => flash[o] = Erased
      /\ w.scan \in {1, w.erased + 1}
  BY <1>1 DEF IInv, ErasedInv
<1>5. \A j \in SectorIndex : /\ Sectors[j].offset \in Nat /\ SectorEnd(j) \in Nat
                             /\ Sectors[j].offset < SectorEnd(j)
  BY SectorFacts
<1>6. CASE w.erased = 0
  <2>1. Sectors[i].offset <= BlockOffset
    <3>1. CASE i = 1
      BY <1>2, <1>3, <3>1, GeometryAssumption
    <3>2. CASE i > 1
      <4>1. /\ i - 1 \in SectorIndex /\ Sectors[i].offset = SectorEnd(i - 1)
            /\ i - 1 >= 1 /\ i - 1 # 0 /\ i - 1 \in Nat
        BY <1>3, <3>2, GeometryAssumption, SectorFacts DEF SectorIndex
      <4>2. i - 1 \notin ToErase
        BY <1>3, <4>1
      <4>3. i - 1 \notin Touched(BlockOffset, Len(w.blk))
        BY <1>4, <1>6, <4>1, <4>2 DEF ToErase
      <4>4. ~(BlockOffset < SectorEnd(i - 1)) \/ ~(w.next > Sectors[i - 1].offset)
        BY <1>2, <4>1, <4>3 DEF Touched
      <4> QED BY <1>2, <1>3, <1>5, <4>1, <4>4
    <3> QED BY <1>3, <3>1, <3>2
  <2> QED BY <1>2, <1>3, <1>4, <1>5, <1>6, <2>1, SectorFacts DEF Offsets
<1>7. CASE w.erased # 0
  <2> DEFINE e == w.erased
  <2>1. e \in SectorIndex /\ e \in Nat
    BY <1>2, <1>7, SectorFacts DEF SectorIndex
  <2>2. i > e
    <3>1. CASE w.scan = e + 1
      BY <1>3, <2>1, <3>1
    <3>2. CASE w.scan # e + 1
      <4>1. Sectors[e].offset <= BlockOffset
        BY <1>4, <1>7, <3>2
      <4>2. ASSUME i < e PROVE FALSE
        <5>1. SectorEnd(i) <= Sectors[e].offset
          BY <1>3, <2>1, <4>2, GeometryAssumption
        <5> QED BY <1>2, <1>3, <1>5, <2>1, <4>1, <5>1
      <4> QED BY <1>3, <2>1, <4>2
    <3> QED BY <3>1, <3>2
  <2>3. SectorEnd(e) <= Sectors[i].offset
    BY <1>3, <2>1, <2>2, GeometryAssumption
  <2>4. Sectors[i].offset = SectorEnd(e)
    <3>1. /\ e + 1 \in SectorIndex /\ Sectors[e + 1].offset = SectorEnd(e)
          /\ e + 1 <= i
      <4>1. SectorEnd(e) < AreaSize
        BY <1>3, <1>5, <2>1, <2>3, SectorFacts
      <4> QED BY <1>3, <2>1, <2>2, <4>1, NextSector
    <3>2. CASE i = e + 1
      BY <3>1, <3>2
    <3>3. CASE i > e + 1
      <4>1. e + 1 \notin ToErase
        BY <1>3, <2>1, <3>3
      <4>2. e + 1 >= w.scan /\ e + 1 # e
        BY <1>4, <2>1
      <4>3. e + 1 \notin Touched(BlockOffset, Len(w.blk))
        BY <3>1, <4>1, <4>2 DEF ToErase
      <4>4. BlockOffset < SectorEnd(e + 1)
        BY <1>2, <1>4, <1>5, <1>7, <2>1, <3>1
      <4>5. w.next > Sectors[e + 1].offset
        BY <1>2, <1>3, <1>5, <2>1, <2>3, <3>1, SMTT(30)
      <4> QED BY <1>2, <3>1, <4>3, <4>4, <4>5 DEF Touched
    <3> QED BY <1>3, <2>1, <3>1, <3>2, <3>3
  <2> QED BY <1>2, <1>3, <1>4, <1>7, <2>4
<1> QED BY <1>6, <1>7

\* As long as a transfer keeps the header erased there is no package to speak of.
LEMMA HeaderStaysErased ==
    ASSUME IInv, w.active, w.pc # "eraseHeader", flash' \in [Offsets -> Cell],
           \A o \in Offsets : o < PayloadOffset => flash'[o] \in {flash[o], Erased}
    PROVE  /\ PackageComplete'
           /\ Staged => \A o \in Offsets : o < HeaderSize => flash'[o] = Erased
<1>1. CASE ~Staged
  BY <1>1 DEF PackageComplete
<1>2. CASE Staged
  <2>1. \A o \in Offsets : o < HeaderSize => flash'[o] = Erased
    BY <1>2, OffsetFacts DEF IInv, HeaderInv
  <2>2. 0 \in Offsets => flash'[0] = Erased
    BY <2>1, HeaderAssumption
  <2> QED BY <2>1, <2>2, HeaderErased
<1> QED BY <1>1, <1>2, HeaderAssumption

LEMMA EraseBlockSectorStep == ASSUME IInv, EraseBlockSector PROVE IInv'
<1>1. PICK i \in ToErase : /\ \A j \in ToErase : i <= j
                           /\ flash' = EraseSector(flash, i)
                           /\ w' = [w EXCEPT !.erased = i, !.scan = i + 1]
  BY DEF EraseBlockSector
<1>2. /\ Flushing /\ BlockInRange /\ accepted' = accepted /\ faults' = faults
      /\ package' \in {package, <<>>}
  BY DEF EraseBlockSector, Flushing
<1>3. w.active /\ WriterTypeOK /\ w \in WriterState /\ flash \in [Offsets -> Cell]
  BY <1>2 DEF IInv, ControlInv, WriterTypeOK, Flushing
<1>4. /\ i \in SectorIndex /\ i \in 1 .. Len(Sectors)
      /\ Sectors[i].offset < w.next /\ BlockOffset < SectorEnd(i)
      /\ \A o \in Offsets : BlockOffset <= o /\ o < Sectors[i].offset => flash[o] = Erased
      /\ BlockOffset > PayloadOffset => BlockOffset <= Sectors[i].offset
  BY <1>1, <1>2, NextErase DEF SectorIndex
<1>5. /\ BlockOffset \in Nat /\ w.next \in Nat /\ PayloadOffset \in Nat
      /\ Len(accepted) \in Nat /\ Len(accepted) <= w.expected /\ w.expected \in Nat
      /\ PayloadOffset + w.expected <= AreaSize
      /\ AreaSize \in Nat /\ Sectors[i].offset \in Nat /\ SectorEnd(i) \in Nat
  BY <1>3, <1>4, ActiveFacts, SectorFacts
<1>6. /\ flash' \in [Offsets -> Cell]
      /\ \A o \in Offsets :
            flash'[o] = IF Sectors[i].offset <= o /\ o < SectorEnd(i) THEN Erased
                        ELSE flash[o]
  BY <1>1, <1>3, <1>4, EraseFacts
<1>7. /\ w' \in WriterState
      /\ w'.active /\ w'.expected = w.expected /\ w'.written = w.written
      /\ w'.next = w.next /\ w'.blk = w.blk /\ w'.pc = w.pc
      /\ w'.erased = i /\ w'.scan = i + 1
  <2>1. i \in 0 .. Len(Sectors) /\ i + 1 \in Nat
    BY <1>4, SectorFacts
  <2>2. w' = [w EXCEPT !.erased = i, !.scan = i + 1]
    BY <1>1
  <2>3. w' \in WriterState
    BY <1>3, <2>1, <2>2 DEF WriterState
  <2> QED BY <1>3, <2>2, <2>3 DEF WriterState
<1>8. BlockOffset' = BlockOffset
  BY <1>7 DEF BlockOffset
<1>9. WriterTypeOK'
  BY <1>2, <1>3, <1>6, <1>7, EmptySeq DEF WriterTypeOK
<1>10. ControlInv' /\ CountInv'
  BY <1>2, <1>3, <1>7, <1>8 DEF IInv, ControlInv, CountInv, Flushing
<1>11. DataInv'
  <2> SUFFICES ASSUME NEW k \in 1 .. Len(accepted)
               PROVE  PayloadOffset + k - 1 < BlockOffset =>
                         flash'[PayloadOffset + k - 1] = flash[PayloadOffset + k - 1]
    BY <1>2, <1>3, <1>7, <1>8 DEF IInv, DataInv
  <2>1. PayloadOffset + k - 1 \in Offsets
    BY <1>5 DEF Offsets
  <2> QED BY <1>4, <1>5, <1>6, <2>1, SMTT(30)
<1>12. ErasedInv'
  <2>1. ASSUME NEW o \in Offsets, BlockOffset <= o, o < SectorEnd(i)
        PROVE  flash'[o] = Erased
    <3>1. CASE Sectors[i].offset <= o
      BY <1>6, <2>1, <3>1
    <3>2. CASE ~(Sectors[i].offset <= o)
      <4>1. o \in Nat /\ o < Sectors[i].offset
        BY <1>5, <3>2 DEF Offsets
      <4>2. flash[o] = Erased
        BY <1>4, <2>1, <4>1
      <4> QED BY <1>6, <3>2, <4>2
    <3> QED BY <3>1, <3>2
  <2>2. i # 0 /\ SectorEnd(i) >= BlockOffset
    BY <1>4, <1>5
  <2> QED BY <1>2, <1>4, <1>7, <1>8, <2>1, <2>2 DEF ErasedInv, Flushing
<1>13. /\ PackageComplete'
       /\ Staged => \A o \in Offsets : o < HeaderSize => flash'[o] = Erased
  BY <1>2, <1>3, <1>6, HeaderStaysErased DEF Flushing
<1>14. HeaderInv'
  BY <1>2, <1>7, <1>13 DEF HeaderInv, Flushing
<1>15. NeverOverprogrammed'
  BY <1>6, CellAssumption DEF IInv, NeverOverprogrammed
<1> QED BY <1>9, <1>10, <1>11, <1>12, <1>13, <1>14, <1>15 DEF IInv

\* When erase_range() is done the whole block is erased.
LEMMA BlockErased ==
    ASSUME IInv, Flushing, BlockInRange, ToErase = {}
    PROVE  /\ w.erased # 0 /\ SectorEnd(w.erased) >= w.next
           /\ Sectors[w.erased].offset <= w.next
           /\ \A o \in Offsets : BlockOffset <= o /\ o < w.next => flash[o] = Erased
<1>1. w.active
  BY DEF IInv, ControlInv, Flushing
<1>2. /\ BlockOffset \in Nat /\ BlockOffset + Len(w.blk) = w.next
      /\ Len(w.blk) \in Nat /\ w.next \in Nat /\ w.erased \in 0 .. Len(Sectors)
  BY <1>1, ActiveFacts DEF WriterState
<1>3. /\ w.erased # 0 =>
            /\ SectorEnd(w.erased) >= BlockOffset
            /\ \/ Sectors[w.erased].offset <= BlockOffset
               \/ Sectors[w.erased].offset < w.next
            /\ \A o \in Offsets :
                  BlockOffset <= o /\ o < SectorEnd(w.erased) => flash[o] = Erased
      /\ w.scan \in {1, w.erased + 1}
  BY <1>1 DEF IInv, ErasedInv
<1>4. w.erased # 0
  <2>1. PICK i \in SectorIndex : i \in Touched(BlockOffset, Len(w.blk))
    BY DEF BlockInRange, Touched
  <2>2. i \notin ToErase /\ i >= 1
    BY <2>1, SectorFacts DEF SectorIndex
  <2> QED BY <1>3, <2>1, <2>2 DEF ToErase
<1>5. w.erased \in SectorIndex /\ w.erased \in Nat
  BY <1>2, <1>4, SectorFacts DEF SectorIndex
<1>6. /\ Sectors[w.erased].offset \in Nat /\ SectorEnd(w.erased) \in Nat
      /\ AreaSize \in Nat /\ w.next <= AreaSize
  BY <1>5, SectorFacts DEF BlockInRange
<1>7. SectorEnd(w.erased) >= w.next
  <2> SUFFICES ASSUME SectorEnd(w.erased) < w.next PROVE FALSE
    BY <1>2, <1>6
  <2> DEFINE e == w.erased
  <2>1. e + 1 \in SectorIndex /\ Sectors[e + 1].offset = SectorEnd(e)
    BY <1>2, <1>5, <1>6, NextSector
  <2>2. SectorEnd(e + 1) > BlockOffset
    BY <1>2, <1>3, <1>4, <1>6, <2>1, SectorFacts
  <2>3. e + 1 \in Touched(BlockOffset, Len(w.blk))
    BY <1>2, <2>1, <2>2 DEF Touched
  <2>4. e + 1 >= w.scan /\ e + 1 # e
    BY <1>3, <1>5
  <2> QED BY <2>3, <2>4 DEF ToErase
<1> QED BY <1>2, <1>3, <1>4, <1>6, <1>7, SectorFacts, SMTT(30) DEF Offsets

LEMMA ProgramBlockStep == ASSUME IInv, ProgramBlock PROVE IInv'
<1>1. /\ Flushing /\ BlockInRange /\ ToErase = {}
      /\ flash' = Program(flash, BlockOffset, w.blk)
      /\ accepted' = accepted /\ faults' = faults /\ package' = package
  BY DEF ProgramBlock, Flushing
<1>2. w.active /\ WriterTypeOK /\ w \in WriterState /\ flash \in [Offsets -> Cell]
  BY <1>1 DEF IInv, ControlInv, WriterTypeOK, Flushing
<1>3. /\ BlockOffset \in Nat /\ BlockOffset + Len(w.blk) = w.next
      /\ w.next \in Nat /\ PayloadOffset \in Nat /\ Len(w.blk) \in Nat
      /\ Len(accepted) \in Nat /\ Len(accepted) <= w.expected /\ w.expected \in Nat
      /\ PayloadOffset + w.expected <= AreaSize /\ AreaSize \in Nat
      /\ w.written \in Nat /\ BlockSize \in Nat \ {0}
      /\ w.blk \in Seq(Byte \cup {Erased})
  BY <1>2, ActiveFacts, SectorFacts
<1>4. /\ w.erased # 0 /\ SectorEnd(w.erased) >= w.next
      /\ Sectors[w.erased].offset <= w.next
      /\ \A o \in Offsets : BlockOffset <= o /\ o < w.next => flash[o] = Erased
  BY <1>1, BlockErased
<1>5. /\ flash' \in [Offsets -> Cell]
      /\ \A o \in Offsets :
            flash'[o] = IF BlockOffset <= o /\ o < w.next
                        THEN w.blk[o - BlockOffset + 1] ELSE flash[o]
  <2>1. w.blk \in Seq(Cell)
    BY <1>3 DEF Cell
  <2>2. /\ Program(flash, BlockOffset, w.blk) \in [Offsets -> Cell]
        /\ \A o \in Offsets :
              Program(flash, BlockOffset, w.blk)[o] =
                 IF BlockOffset <= o /\ o < BlockOffset + Len(w.blk)
                 THEN w.blk[o - BlockOffset + 1] ELSE flash[o]
    <3>1. \A o \in Offsets : BlockOffset <= o /\ o < BlockOffset + Len(w.blk) =>
                                flash[o] = Erased
      BY <1>3, <1>4
    <3> QED BY <1>2, <1>3, <2>1, <3>1, ProgramFacts
  <2> QED BY <1>1, <1>3, <2>2
<1>6. /\ w'.active /\ w'.expected = w.expected /\ w'.next = w.next
      /\ w'.blk = <<>> /\ w'.erased = w.erased
      /\ w'.written = IF w.pc = "flush" THEN w.written + 1 ELSE w.written
      /\ w'.pc = IF w.pc = "flush" THEN "idle" ELSE "commit"
  BY <1>2 DEF ProgramBlock, WriterState
<1>7. w' \in WriterState
  <2>1. CASE w.pc = "flush"
    <3> DEFINE r == [active |-> w.active, expected |-> w.expected,
                     written |-> w.written + 1, next |-> w.next, blk |-> <<>>,
                     erased |-> w.erased, pc |-> "idle", scan |-> w.scan,
                     ret |-> "ok"]
    <3>1. w' = r
      BY <1>2, <2>1 DEF ProgramBlock, WriterState
    <3>2. r \in WriterState
      BY <1>2, EmptySeq DEF WriterState, PCs
    <3> QED BY <3>1, <3>2
  <2>2. CASE w.pc # "flush"
    <3>1. w' = [w EXCEPT !.blk = <<>>, !.pc = "commit"]
      BY <2>2 DEF ProgramBlock
    <3> QED BY <1>2, <3>1, EmptySeq DEF WriterState, PCs
  <2> QED BY <2>1, <2>2
<1>8. WriterTypeOK'
  BY <1>1, <1>2, <1>5, <1>7 DEF WriterTypeOK
<1>9. BlockOffset' = w.next
  BY <1>3, <1>6, EmptySeq DEF BlockOffset
<1>10. ControlInv'
  BY <1>2, <1>6 DEF IInv, ControlInv
<1>11. CountInv'
  <2>1. w.next >= PayloadOffset
    BY <1>2, <1>3 DEF IInv, CountInv
  <2>2. CASE w.pc = "flush"
    <3>1. w.written + 1 = Len(accepted) /\ w.next = PayloadOffset + Len(accepted)
      BY <1>2, <2>2 DEF IInv, CountInv
    <3> QED BY <1>1, <1>3, <1>6, <1>9, <2>1, <2>2, <3>1, EmptySeq DEF CountInv
  <2>3. CASE w.pc = "lastFlush"
    <3>1. Len(accepted) = w.expected /\ w.next >= PayloadOffset + Len(accepted)
      BY <1>2, <2>3 DEF IInv, CountInv
    <3> QED BY <1>1, <1>3, <1>6, <1>9, <2>1, <2>3, <3>1, EmptySeq DEF CountInv
  <2> QED BY <1>1, <2>2, <2>3 DEF Flushing
<1>12. DataInv'
  <2> SUFFICES ASSUME NEW k \in 1 .. Len(accepted), PayloadOffset + k - 1 < w.next
               PROVE  flash'[PayloadOffset + k - 1] = accepted[k]
    BY <1>1, <1>6, <1>9 DEF DataInv
  <2> DEFINE o == PayloadOffset + k - 1
  <2>1. o \in Offsets /\ o - BlockOffset + 1 = PayloadOffset + k - BlockOffset
    BY <1>3 DEF Offsets
  <2>2. IF o < BlockOffset THEN flash[o] = accepted[k]
        ELSE w.blk[PayloadOffset + k - BlockOffset] = accepted[k]
    BY <1>2 DEF IInv, DataInv
  <2> QED BY <1>3, <1>5, <2>1, <2>2, SMTT(30)
<1>13. ErasedInv'
  <2>1. \A o \in Offsets : w.next <= o /\ o < SectorEnd(w.erased) => flash'[o] = Erased
    <3> SUFFICES ASSUME NEW o \in Offsets, w.next <= o, o < SectorEnd(w.erased)
                 PROVE  flash'[o] = Erased
      OBVIOUS
    <3>1. o \in Nat /\ ~(o < w.next) /\ BlockOffset <= o
      BY <1>3 DEF Offsets
    <3>2. flash'[o] = flash[o]
      BY <1>5, <3>1
    <3> QED BY <1>2, <1>4, <3>1, <3>2 DEF IInv, ErasedInv
  <2> QED BY <1>4, <1>6, <1>9, <2>1 DEF ErasedInv, Flushing
<1>14. BlockOffset >= PayloadOffset
  BY <1>2 DEF IInv, CountInv
<1>15. /\ PackageComplete'
       /\ Staged => \A o \in Offsets : o < HeaderSize => flash'[o] = Erased
  <2>1. \A o \in Offsets : o < PayloadOffset => flash'[o] = flash[o]
    BY <1>3, <1>5, <1>14 DEF Offsets
  <2> QED BY <1>1, <1>2, <1>5, <2>1, HeaderStaysErased DEF Flushing
<1>16. HeaderInv'
  BY <1>6, <1>15 DEF HeaderInv
<1>17. NeverOverprogrammed'
  <2> SUFFICES ASSUME NEW o \in Offsets PROVE flash'[o] # Corrupt
    BY DEF NeverOverprogrammed
  <2>1. CASE BlockOffset <= o /\ o < w.next
    <3>1. o - BlockOffset + 1 \in 1 .. Len(w.blk)
      BY <1>3, <2>1 DEF Offsets
    <3>2. w.blk[o - BlockOffset + 1] \in Byte \cup {Erased}
      BY <1>3, <3>1, ElementOfSeq
    <3> QED BY <1>5, <2>1, <3>2, CellAssumption
  <2>2. CASE ~(BlockOffset <= o /\ o < w.next)
    BY <1>5, <2>2 DEF IInv, NeverOverprogrammed
  <2> QED BY <2>1, <2>2
<1> QED BY <1>8, <1>10, <1>11, <1>12, <1>13, <1>15, <1>16, <1>17 DEF IInv

\* A write block that is programmed in part.
LEMMA TornBlock ==
    ASSUME IInv, Flushing, BlockInRange, ToErase = {},
           flash' \in Torn(flash, BlockOffset, w.blk)
    PROVE  flash' \in [Offsets -> Cell] /\ PackageComplete' /\ NeverOverprogrammed'
<1>1. w.active /\ flash \in [Offsets -> Cell] /\ w.pc # "eraseHeader"
  BY DEF IInv, ControlInv, WriterTypeOK, Flushing
<1>2. /\ BlockOffset \in Nat /\ BlockOffset + Len(w.blk) = w.next
      /\ w.next \in Nat /\ PayloadOffset \in Nat /\ Len(w.blk) \in Nat
      /\ w.blk \in Seq(Byte \cup {Erased}) /\ w.blk \in Seq(Cell)
  BY <1>1, ActiveFacts DEF Cell
<1>3. BlockOffset >= PayloadOffset
  BY <1>1 DEF IInv, CountInv
<1>4. \A o \in Offsets : BlockOffset <= o /\ o < BlockOffset + Len(w.blk) =>
                            flash[o] = Erased
  BY <1>2, BlockErased
<1>5. flash' \in [Offsets -> Cell]
  BY <1>1, <1>2, <1>4, TornFacts
<1>6. PICK k \in 0 .. Len(w.blk) : \A o \in Offsets :
         flash'[o] = IF BlockOffset <= o /\ o < BlockOffset + k
                     THEN w.blk[o - BlockOffset + 1] ELSE flash[o]
  <2>1. /\ flash \in [Offsets -> Cell] /\ BlockOffset \in Nat /\ w.blk \in Seq(Cell)
        /\ flash' \in Torn(flash, BlockOffset, w.blk)
    BY <1>1, <1>2
  <2> QED BY <2>1, <1>4, TornFacts, Zenon
<1>7. \A o \in Offsets : o < PayloadOffset => flash'[o] = flash[o]
  BY <1>2, <1>3, <1>6, SectorFacts DEF Offsets
<1>8. PackageComplete'
  BY <1>1, <1>5, <1>7, HeaderStaysErased
<1>9. NeverOverprogrammed'
  <2> SUFFICES ASSUME NEW o \in Offsets PROVE flash'[o] # Corrupt
    BY DEF NeverOverprogrammed
  <2>1. CASE BlockOffset <= o /\ o < BlockOffset + k
    <3>1. o - BlockOffset + 1 \in 1 .. Len(w.blk)
      BY <1>2, <2>1, SectorFacts DEF Offsets
    <3>2. w.blk[o - BlockOffset + 1] \in Byte \cup {Erased}
      BY <1>2, <3>1, ElementOfSeq
    <3> QED BY <1>6, <2>1, <3>2, CellAssumption
  <2>2. CASE ~(BlockOffset <= o /\ o < BlockOffset + k)
    BY <1>6, <2>2 DEF IInv, NeverOverprogrammed
  <2> QED BY <2>1, <2>2
<1> QED BY <1>5, <1>8, <1>9

\* What is in the flash when a transfer is committed.
LEMMA CommitFacts ==
    ASSUME IInv, w.pc = "commit"
    PROVE  /\ w.active /\ Len(accepted) = w.expected /\ accepted \in Seq(Byte)
           /\ \A k \in 1 .. Len(accepted) :
                 /\ PayloadOffset + k - 1 \in Offsets
                 /\ flash[PayloadOffset + k - 1] = accepted[k]
<1>1. w.active
  BY DEF IInv, ControlInv
<1>2. Len(accepted) = w.expected /\ w.next >= PayloadOffset + Len(accepted)
      /\ w.blk = <<>>
  BY <1>1 DEF IInv, CountInv
<1>3. /\ BlockOffset \in Nat /\ BlockOffset + Len(w.blk) = w.next /\ w.next \in Nat
      /\ PayloadOffset \in Nat /\ Len(accepted) \in Nat /\ accepted \in Seq(Byte)
      /\ PayloadOffset + w.expected <= AreaSize /\ AreaSize \in Nat
  BY <1>1, ActiveFacts, SectorFacts
<1>4. BlockOffset = w.next
  BY <1>2, <1>3, EmptySeq
<1>5. ASSUME NEW k \in 1 .. Len(accepted)
      PROVE  /\ PayloadOffset + k - 1 \in Offsets
             /\ flash[PayloadOffset + k - 1] = accepted[k]
  <2>1. PayloadOffset + k - 1 \in Offsets /\ PayloadOffset + k - 1 < BlockOffset
    BY <1>2, <1>3, <1>4 DEF Offsets
  <2> QED BY <1>1, <2>1 DEF IInv, DataInv
<1> QED BY <1>1, <1>2, <1>3, <1>5

\* A header that is programmed, in full or in part.
LEMMA HeaderWritten ==
    ASSUME IInv, w.pc = "commit", Staged,
           flash' \in Torn(flash, 0, HeaderOf(w.expected)), package' = accepted
    PROVE  flash' \in [Offsets -> Cell] /\ PackageComplete' /\ NeverOverprogrammed'
<1> DEFINE h == HeaderOf(w.expected)
<1>1. /\ flash \in [Offsets -> Cell] /\ w.expected \in Nat
      /\ HeaderSize \in Nat /\ HeaderSize >= 4 /\ PayloadOffset = HeaderSize
  BY HeaderAssumption, OffsetFacts DEF IInv, WriterTypeOK, WriterState
<1>2. /\ h \in Seq(Cell) /\ Len(h) = 4
      /\ h[1] = StartWord /\ h[2] = VersionWord /\ h[3] = UidWord
      /\ h[4] = w.expected
  BY <1>1 DEF HeaderOf, Cell
<1>3. \A k \in 1 .. 4 : h[k] # Corrupt
  <2>1. w.expected # Corrupt
    BY <1>1, CellAssumption
  <2>2. \A k \in 1 .. 4 : k = 1 \/ k = 2 \/ k = 3 \/ k = 4
    OBVIOUS
  <2> QED BY <1>2, <2>1, <2>2, CellAssumption
<1> HIDE DEF h
<1>4. /\ w.active /\ Len(accepted) = w.expected
      /\ \A k \in 1 .. Len(accepted) : /\ PayloadOffset + k - 1 \in Offsets
                                       /\ flash[PayloadOffset + k - 1] = accepted[k]
  BY CommitFacts
<1>5. \A o \in Offsets : o < HeaderSize => flash[o] = Erased
  BY <1>4 DEF IInv, HeaderInv
<1>6. \A o \in Offsets : 0 <= o /\ o < 0 + Len(h) => flash[o] = Erased
  BY <1>1, <1>2, <1>5, SectorFacts DEF Offsets
<1>7. flash' \in [Offsets -> Cell]
  BY <1>1, <1>2, <1>6, TornFacts DEF h
<1>8. PICK k \in 0 .. 4 : \A o \in Offsets :
         flash'[o] = IF 0 <= o /\ o < 0 + k THEN h[o - 0 + 1] ELSE flash[o]
  <2>1. flash' \in Torn(flash, 0, h) /\ 0 \in Nat
    BY DEF h
  <2>2. \E k \in 0 .. Len(h) : \A o \in Offsets :
           flash'[o] = IF 0 <= o /\ o < 0 + k THEN h[o - 0 + 1] ELSE flash[o]
    BY <1>1, <1>2, <1>6, <2>1, TornFacts, Zenon
  <2> QED BY <1>2, <2>2
<1>9. \A o \in Offsets : o \in Nat
  BY DEF Offsets
<1>10. NeverOverprogrammed'
  <2> SUFFICES ASSUME NEW o \in Offsets PROVE flash'[o] # Corrupt
    BY DEF NeverOverprogrammed
  <2>1. CASE o < k
    <3>1. flash'[o] = h[o - 0 + 1] /\ o - 0 + 1 \in 1 .. 4
      BY <1>8, <1>9, <2>1
    <3> QED BY <1>3, <3>1
  <2>2. CASE ~(o < k)
    BY <1>8, <1>9, <2>2 DEF IInv, NeverOverprogrammed
  <2> QED BY <2>1, <2>2
<1>11. PackageComplete'
  <2> SUFFICES ASSUME HeaderValid(flash'), flash'[3] # Erased
               PROVE  /\ flash'[3] = Len(accepted)
                      /\ \A j \in 1 .. Len(accepted) :
                            flash'[HeaderSize + j - 1] = accepted[j]
    BY DEF PackageComplete, PayloadAt
  <2>1. 3 \in Offsets
    BY <1>7 DEF HeaderValid
  <2>2. 3 < k
    <3> SUFFICES ASSUME ~(3 < k) PROVE FALSE
      OBVIOUS
    <3>1. flash'[3] = flash[3]
      BY <1>8, <2>1
    <3> QED BY <1>1, <1>5, <2>1, <3>1
  <2>3. flash'[3] = Len(accepted)
    BY <1>2, <1>4, <1>8, <2>1, <2>2
  <2>4. ASSUME NEW j \in 1 .. Len(accepted)
        PROVE  flash'[HeaderSize + j - 1] = accepted[j]
    <3>1. /\ HeaderSize + j - 1 \in Offsets /\ flash[HeaderSize + j - 1] = accepted[j]
          /\ ~(HeaderSize + j - 1 < k)
      BY <1>1, <1>4
    <3> QED BY <1>8, <3>1
  <2> QED BY <2>3, <2>4
<1> QED BY <1>7, <1>10, <1>11

LEMMA ProgramIsTorn ==
    ASSUME NEW f, NEW offset, NEW data \in Seq(Cell)
    PROVE  Program(f, offset, data) \in Torn(f, offset, data)
<1> DEFINE d == SubSeq(data, 1, Len(data))
<1>1. Len(data) \in Nat /\ \A j \in 1 .. Len(data) : data[j] \in Cell
  BY LenProperties, ElementOfSeq
<1>2. d \in Seq(Cell) /\ Len(d) = Len(data) /\ \A j \in 1 .. Len(data) : d[j] = data[j]
  BY <1>1, SubSeqProperties
<1>3. d = data
  BY <1>1, <1>2
<1>4. Len(data) \in 0 .. Len(data)
  BY <1>1
<1> QED BY <1>3, <1>4 DEF Torn

LEMMA FlushFailsStep == ASSUME IInv, FlushFails PROVE IInv'
<1>1. /\ Flushing /\ w' = Aborted("fail") /\ accepted' = <<>> /\ package' = package
      /\ \/ flash' = flash
         \/ BlockInRange /\ ToErase = {} /\ flash' \in Torn(flash, BlockOffset, w.blk)
  BY DEF FlushFails, Flushing
<1>2. faults' \in 0 .. MaxFaults
  BY HeaderAssumption DEF FlushFails, MayFail, IInv, WriterTypeOK
<1>3. flash' \in [Offsets -> Cell] /\ PackageComplete' /\ NeverOverprogrammed'
  <2>1. CASE flash' = flash
    BY <1>1, <2>1, FlashUnchanged DEF IInv, WriterTypeOK
  <2>2. CASE flash' # flash
    BY <1>1, <2>2, TornBlock
  <2> QED BY <2>1, <2>2
<1>4. WriterTypeOK'
  BY <1>1, <1>2, <1>3, AbortedFacts, EmptySeq DEF IInv, WriterTypeOK
<1> QED BY <1>1, <1>3, <1>4, AbortedFacts, StoppedInv

LEMMA CommitStep == ASSUME IInv, Commit PROVE IInv'
<1>1. /\ w.pc = "commit" /\ w' = Idle("ok") /\ accepted' = <<>> /\ package' = accepted
      /\ faults' = faults
      /\ flash' = IF Staged THEN Program(flash, 0, HeaderOf(w.expected)) ELSE flash
  BY DEF Commit
<1>2. WriterTypeOK /\ accepted \in Seq(Byte) /\ w.expected \in Nat
  BY DEF IInv, WriterTypeOK, WriterState
<1>3. flash' \in [Offsets -> Cell] /\ PackageComplete' /\ NeverOverprogrammed'
  <2>1. CASE Staged
    <3>1. HeaderOf(w.expected) \in Seq(Cell)
      BY <1>2 DEF HeaderOf, Cell
    <3> QED BY <1>1, <2>1, <3>1, ProgramIsTorn, HeaderWritten
  <2>2. CASE ~Staged
    BY <1>1, <1>2, <2>2 DEF IInv, WriterTypeOK, PackageComplete, NeverOverprogrammed
  <2> QED BY <2>1, <2>2
<1>4. WriterTypeOK'
  BY <1>1, <1>2, <1>3, IdleFacts, EmptySeq DEF WriterTypeOK
<1> QED BY <1>1, <1>3, <1>4, IdleFacts, StoppedInv

LEMMA CommitFailsStep == ASSUME IInv, CommitFails PROVE IInv'
<1>1. /\ w.pc = "commit" /\ Staged /\ w' = Aborted("fail") /\ accepted' = <<>>
      /\ \/ UNCHANGED <<flash, package>>
         \/ /\ flash' \in Torn(flash, 0, HeaderOf(w.expected))
            /\ package' = accepted
  BY DEF CommitFails
<1>2. faults' \in 0 .. MaxFaults
  BY HeaderAssumption DEF CommitFails, MayFail, IInv, WriterTypeOK
<1>3. WriterTypeOK
  BY DEF IInv
<1>4. flash' \in [Offsets -> Cell] /\ PackageComplete' /\ NeverOverprogrammed'
  <2>1. CASE UNCHANGED <<flash, package>>
    BY <1>3, <2>1, FlashUnchanged DEF WriterTypeOK
  <2>2. CASE ~UNCHANGED <<flash, package>>
    BY <1>1, <2>2, HeaderWritten
  <2> QED BY <2>1, <2>2
<1>5. package' \in Seq(Byte)
  BY <1>1, <1>3 DEF WriterTypeOK
<1>6. WriterTypeOK'
  BY <1>1, <1>2, <1>3, <1>4, <1>5, AbortedFacts, EmptySeq DEF WriterTypeOK
<1> QED BY <1>1, <1>4, <1>6, AbortedFacts, StoppedInv

LEMMA WriterPowerLossStep == ASSUME IInv, WriterPowerLoss PROVE IInv'
<1>1. /\ w' = Idle("none") /\ accepted' = <<>> /\ faults' = faults
      /\ package' = IF w.pc = "commit" THEN accepted ELSE package
  BY DEF WriterPowerLoss
<1>2. WriterTypeOK /\ package' \in Seq(Byte)
  BY <1>1 DEF IInv, WriterTypeOK
<1>3. flash' \in [Offsets -> Cell] /\ PackageComplete' /\ NeverOverprogrammed'
  <2>1. CASE Flushing /\ BlockInRange /\ ToErase = {}
    <3>1. flash' \in Torn(flash, BlockOffset, w.blk)
      BY <2>1 DEF WriterPowerLoss, Flushing
    <3> QED BY <2>1, <3>1, TornBlock
  <2>2. CASE w.pc = "commit" /\ Staged /\ HeaderSize % Native = 0
    <3>1. flash' \in Torn(flash, 0, HeaderOf(w.expected))
      BY <2>2 DEF WriterPowerLoss
    <3> QED BY <1>1, <2>2, <3>1, HeaderWritten
  <2>3. CASE /\ ~(Flushing /\ BlockInRange /\ ToErase = {})
             /\ ~(w.pc = "commit" /\ Staged /\ HeaderSize % Native = 0)
    <3>1. flash' = flash
      BY <2>3 DEF WriterPowerLoss, Flushing
    <3>2. CASE w.pc = "commit" /\ Staged
      <4>1. \A o \in Offsets : o < HeaderSize => flash[o] = Erased
        BY <3>2, CommitFacts DEF IInv, HeaderInv
      <4>2. 0 \in Offsets => flash'[0] = Erased
        BY <3>1, <4>1, HeaderAssumption
      <4> QED BY <1>2, <3>1, <4>2, HeaderErased
              DEF WriterTypeOK, IInv, NeverOverprogrammed
    <3>3. CASE ~Staged
      BY <1>2, <3>1, <3>3 DEF WriterTypeOK, IInv, PackageComplete, NeverOverprogrammed
    <3>4. CASE w.pc # "commit"
      BY <1>1, <1>2, <3>1, <3>4, FlashUnchanged DEF WriterTypeOK
    <3> QED BY <3>2, <3>3, <3>4
  <2> QED BY <2>1, <2>2, <2>3
<1>4. WriterTypeOK'
  BY <1>1, <1>2, <1>3, IdleFacts, EmptySeq DEF WriterTypeOK
<1> QED BY <1>1, <1>3, <1>4, IdleFacts, StoppedInv

-----------------------------------------------------------------------------
(* Every block is placed where write_block() accepts it.                   *)

\* Blocks start at multiples of the write block, a block that is flushed is
\* whole, and the last one starts inside the payload.
AlignedInv ==
    w.active =>
      /\ BlockOffset % BlockSize = 0
      /\ Flushing => Len(w.blk) = BlockSize
      /\ w.pc = "lastFlush" => BlockOffset < PayloadOffset + w.expected

\* Multiples of c.
LEMMA Multiple ==
    ASSUME NEW x \in Int, NEW c \in Int, c > 0, NEW k \in Int, x = c * k
    PROVE  x % c = 0
OBVIOUS

LEMMA Multiples ==
    ASSUME NEW x \in Int, NEW c \in Int, c > 0, x % c = 0
    PROVE  \E k \in Int : x = c * k
<1>1. x \div c \in Int /\ x = c * (x \div c)
  OBVIOUS
<1> QED BY <1>1

LEMMA MultipleSum ==
    ASSUME NEW a \in Int, NEW b \in Int, NEW c \in Int, c > 0, a % c = 0, b % c = 0
    PROVE  (a + b) % c = 0
<1>1. PICK i \in Int, j \in Int : a = c * i /\ b = c * j
  BY Multiples
<1> DEFINE x == a + b
           k == i + j
<1>2. x \in Int /\ k \in Int /\ x = c * k
  BY <1>1
<1> HIDE DEF x, k
<1>3. x % c = 0
  BY <1>2, Multiple
<1> QED BY <1>3 DEF x

LEMMA MultipleGap ==
    ASSUME NEW a \in Int, NEW b \in Int, NEW c \in Int, c > 0, a % c = 0, b % c = 0,
           a < b
    PROVE  a + c <= b
<1>1. PICK i \in Int, j \in Int : a = c * i /\ b = c * j
  BY Multiples
<1>2. \A m, n \in Int : m <= n => c * m <= c * n
  OBVIOUS
<1>3. j >= i + 1
  BY <1>1, <1>2
<1>4. \A m, n \in Int : n >= m + 1 => c * n >= c * m + c
  OBVIOUS
<1> QED BY <1>1, <1>3, <1>4

\* The write block divides the offset of the payload and the area.
LEMMA BlockDivides ==
    ASSUME Prepared
    PROVE  /\ BlockSize \in Nat \ {0}
           /\ PayloadOffset % BlockSize = 0
           /\ AreaSize % BlockSize = 0
<1>1. BlockSize \in Nat \ {0} /\ PayloadOffset % BlockSize = 0
  BY BlockSizeType, BlockSizeChosen DEF BlockCandidates
<1>2. \A i \in SectorIndex : Sectors[i].size % BlockSize = 0
  BY BlockSizeChosen DEF BlockCandidates
<1> DEFINE T == {i \in SectorIndex : SectorEnd(i) % BlockSize # 0}
<1>3. T = {}
  <2> SUFFICES ASSUME T # {} PROVE FALSE
    OBVIOUS
  <2>1. T \subseteq Nat
    BY DEF SectorIndex
  <2>2. PICK i \in T : \A j \in T : i <= j
    BY <2>1, LeastNatural
  <2>3. i \in SectorIndex /\ i \in Nat \ {0} /\ SectorEnd(i) % BlockSize # 0
    BY DEF SectorIndex
  <2>4. Sectors[i].offset \in Nat /\ Sectors[i].size \in Nat
    BY <2>3, SectorFacts
  <2>5. Sectors[i].offset % BlockSize = 0
    <3>1. CASE i = 1
      <4>1. Sectors[i].offset = 0
        BY <2>3, <3>1, GeometryAssumption
      <4> QED BY <1>1, <4>1, Multiple
    <3>2. CASE i > 1
      <4>1. i - 1 \in SectorIndex /\ ~(i <= i - 1) /\ Sectors[i].offset = SectorEnd(i - 1)
        BY <2>3, <3>2, GeometryAssumption, SectorFacts DEF SectorIndex
      <4>2. i - 1 \notin T
        BY <2>2, <4>1
      <4> QED BY <4>1, <4>2
    <3> QED BY <2>3, <3>1, <3>2
  <2> DEFINE a == Sectors[i].offset
             b == Sectors[i].size
  <2>6. a \in Int /\ b \in Int /\ a % BlockSize = 0 /\ b % BlockSize = 0 /\ SectorEnd(i) = a + b
    BY <1>2, <2>3, <2>4, <2>5 DEF SectorEnd
  <2> HIDE DEF a, b
  <2>7. (a + b) % BlockSize = 0
    BY <1>1, <2>6, MultipleSum
  <2> QED BY <2>3, <2>6, <2>7
<1>4. AreaSize % BlockSize = 0
  <2>1. Sectors # <<>> /\ Len(Sectors) \in SectorIndex
    BY SectorFacts DEF Prepared, SectorIndex
  <2> QED BY <1>3, <2>1 DEF AreaSize
<1> QED BY <1>1, <1>4

\* A range of the area overlaps a sector.
LEMMA TouchesSector ==
    ASSUME NEW offset \in Nat, NEW size \in Nat \ {0}, offset < AreaSize
    PROVE  Touched(offset, size) # {}
<1> DEFINE T == {i \in SectorIndex : offset < SectorEnd(i)}
<1>1. T # {}
  <2>1. Sectors # <<>> /\ Len(Sectors) \in SectorIndex
    BY SectorFacts DEF AreaSize, SectorIndex
  <2> QED BY <2>1 DEF AreaSize
<1>2. T \subseteq Nat
  BY DEF SectorIndex
<1>3. PICK i \in T : \A j \in T : i <= j
  BY <1>1, <1>2, LeastNatural
<1>4. i \in SectorIndex /\ i \in Nat \ {0} /\ offset < SectorEnd(i)
  BY DEF SectorIndex
<1>5. Sectors[i].offset <= offset
  <2>1. CASE i = 1
    BY <1>4, <2>1, GeometryAssumption
  <2>2. CASE i > 1
    <3>1. /\ i - 1 \in SectorIndex /\ ~(i <= i - 1)
          /\ Sectors[i].offset = SectorEnd(i - 1) /\ SectorEnd(i - 1) \in Nat
      BY <1>4, <2>2, GeometryAssumption, SectorFacts DEF SectorIndex
    <3>2. i - 1 \notin T
      BY <1>3, <3>1
    <3> QED BY <3>1, <3>2
  <2> QED BY <1>4, <2>1, <2>2
<1>6. offset + size > Sectors[i].offset
  BY <1>4, <1>5, SectorFacts
<1> QED BY <1>4, <1>6 DEF Touched

LEMMA PlacedFacts == ASSUME IInv, AlignedInv, Flushing PROVE BlockInRange
<1>1. w.active /\ Prepared
  BY DEF IInv, ControlInv, Flushing
<1>2. /\ BlockOffset \in Nat /\ BlockOffset + Len(w.blk) = w.next /\ Len(w.blk) \in Nat
      /\ Len(accepted) \in Nat /\ Len(accepted) <= w.expected /\ w.expected \in Nat
      /\ PayloadOffset + w.expected <= AreaSize /\ PayloadOffset \in Nat
      /\ AreaSize \in Nat
  BY <1>1, ActiveFacts, SectorFacts
<1>3. BlockSize \in Nat \ {0} /\ AreaSize % BlockSize = 0
  BY <1>1, BlockDivides
<1>4. BlockOffset % BlockSize = 0 /\ Len(w.blk) = BlockSize
  BY <1>1 DEF AlignedInv
<1>5. w.next <= AreaSize
  <2>1. CASE w.pc = "flush"
    BY <1>1, <1>2, <2>1 DEF IInv, CountInv
  <2>2. CASE w.pc = "lastFlush"
    <3>1. BlockOffset < AreaSize
      BY <1>1, <1>2, <2>2 DEF AlignedInv
    <3> DEFINE b == BlockOffset
    <3>2. b \in Int /\ AreaSize \in Int /\ BlockSize \in Int /\ BlockSize > 0
          /\ b % BlockSize = 0 /\ b < AreaSize
      BY <1>2, <1>3, <1>4, <3>1
    <3> HIDE DEF b
    <3>3. b + BlockSize <= AreaSize
      BY <1>3, <3>2, MultipleGap
    <3> QED BY <1>2, <1>4, <3>3 DEF b
  <2> QED BY <2>1, <2>2 DEF Flushing
<1>6. BlockOffset < AreaSize
  BY <1>2, <1>3, <1>4, <1>5
<1>7. Touched(BlockOffset, Len(w.blk)) # {}
  BY <1>2, <1>3, <1>4, <1>6, TouchesSector
<1> QED BY <1>4, <1>5, <1>7 DEF BlockInRange

\* Without a transfer nothing is placed.
LEMMA AlignedStops == ASSUME ~w'.active PROVE AlignedInv'
BY DEF AlignedInv

LEMMA AlignedBegin == ASSUME NEW n, Begin(n) PROVE AlignedInv'
<1>1. CASE ~Accepts(n)
  BY <1>1, IdleFacts, AlignedStops DEF Begin
<1>2. CASE Accepts(n)
  <2>1. /\ w'.next = PayloadOffset /\ w'.blk = <<>>
        /\ w'.pc = IF Staged THEN "eraseHeader" ELSE "idle"
    BY <1>2 DEF Begin, Idle
  <2>2. BlockOffset' = PayloadOffset
    BY <2>1, EmptySeq, OffsetFacts DEF BlockOffset
  <2> QED BY <1>2, <2>1, <2>2, BlockDivides DEF AlignedInv, Accepts, Flushing
<1> QED BY <1>1, <1>2

LEMMA AlignedNext == ASSUME IInv, AlignedInv, [WriterNext]_writerVars PROVE AlignedInv'
<1>1. CASE UNCHANGED writerVars
  BY <1>1 DEF writerVars, AlignedInv, BlockOffset, Flushing
<1>2. CASE \E n \in 0 .. AreaSize + 1 : Begin(n)
  BY <1>2, AlignedBegin
<1>3. CASE BeginUnopened
  BY <1>3, IdleFacts, AlignedStops DEF BeginUnopened
<1>4. CASE \E b \in Byte : Write(b)
  <2>1. PICK b \in Byte : Write(b)
    BY <1>4
  <2>2. CASE ~w.active \/ w.written = w.expected
    BY <2>1, <2>2, AbortedFacts, AlignedStops DEF Write
  <2>3. CASE w.active /\ w.written # w.expected
    <3>1. w \in WriterState /\ w.pc = "idle"
      BY <2>1 DEF IInv, WriterTypeOK, Write
    <3>2. /\ w'.blk = Append(w.blk, b) /\ w'.next = w.next + 1
          /\ w'.pc = IF Len(w.blk) + 1 = BlockSize THEN "flush" ELSE "idle"
      <4> DEFINE full == Len(w.blk) + 1 = BlockSize
      <4>1. w' = [w EXCEPT !.blk = Append(@, b), !.next = @ + 1,
                           !.written = IF full THEN @ ELSE @ + 1,
                           !.pc = IF full THEN "flush" ELSE "idle", !.scan = 1,
                           !.ret = IF full THEN "none" ELSE "ok"]
        BY <2>1, <2>3, Zenon DEF Write
      <4> HIDE DEF full
      <4>2. /\ w'.blk = Append(w.blk, b) /\ w'.next = w.next + 1
            /\ w'.pc = IF full THEN "flush" ELSE "idle"
        BY <3>1, <4>1 DEF WriterState
      <4> QED BY <4>2 DEF full
    <3>3. /\ w.blk \in Seq(Byte \cup {Erased}) /\ BlockOffset + Len(w.blk) = w.next
          /\ Len(w.blk) \in Nat /\ w.next \in Nat /\ BlockOffset \in Nat
      BY <2>3, ActiveFacts
    <3>4. Len(w'.blk) = Len(w.blk) + 1
      BY <3>2, <3>3, AppendProperties
    <3>5. BlockOffset' = BlockOffset
      BY <3>2, <3>3, <3>4 DEF BlockOffset
    <3> QED BY <2>3, <3>2, <3>4, <3>5 DEF AlignedInv, Flushing
  <2> QED BY <2>2, <2>3
<1>5. CASE Finish
  <2>1. CASE ~w.active \/ w.written # w.expected
    BY <1>5, <2>1, AbortedFacts, AlignedStops DEF Finish
  <2>2. CASE w.active /\ w.written = w.expected
    <3>1. /\ w \in WriterState /\ w.pc = "idle" /\ BlockOffset % BlockSize = 0
          /\ w.next = PayloadOffset + Len(accepted) /\ w.written = Len(accepted)
          /\ Len(w.blk) < BlockSize
      BY <1>5, <2>2 DEF IInv, WriterTypeOK, Finish, AlignedInv, CountInv
    <3>2. /\ w.blk \in Seq(Byte \cup {Erased}) /\ BlockOffset + Len(w.blk) = w.next
          /\ Len(w.blk) \in Nat /\ w.next \in Nat /\ BlockOffset \in Nat
          /\ BlockSize \in Nat \ {0} /\ PayloadOffset \in Nat /\ w.expected \in Nat
      BY <2>2, ActiveFacts
    <3>3. CASE w.blk = <<>>
      <4>1. w'.blk = w.blk /\ w'.next = w.next /\ w'.pc = "commit"
        BY <1>5, <2>2, <3>1, <3>3, SMTT(30) DEF Finish, WriterState
      <4>2. BlockOffset' = BlockOffset
        BY <4>1 DEF BlockOffset
      <4> QED BY <3>1, <4>1, <4>2 DEF AlignedInv, Flushing
    <3>4. CASE w.blk # <<>>
      <4> DEFINE pad == [k \in 1 .. BlockSize |-> IF k <= Len(w.blk) THEN w.blk[k]
                                                   ELSE Erased]
      <4>1. /\ w'.blk = pad /\ w'.next = w.next + BlockSize - Len(w.blk)
            /\ w'.pc = "lastFlush" /\ w'.expected = w.expected
        <5>1. w' = [w EXCEPT !.pc = "lastFlush", !.scan = 1, !.ret = "none",
                             !.next = @ + BlockSize - Len(w.blk), !.blk = pad]
          BY <1>5, <2>2, <3>4 DEF Finish
        <5> HIDE DEF pad
        <5> QED BY <3>1, <5>1 DEF WriterState
      <4>2. Len(pad) = BlockSize
        BY <3>2
      <4>3. Len(w'.blk) = BlockSize
        BY <4>1, <4>2
      <4> HIDE DEF pad
      <4>4. BlockOffset' = BlockOffset
        BY <3>2, <4>1, <4>3 DEF BlockOffset
      <4>5. Len(w.blk) > 0
        BY <3>2, <3>4, EmptySeq
      <4>6. BlockOffset < PayloadOffset + w.expected
        BY <2>2, <3>1, <3>2, <4>5
      <4> QED BY <3>1, <4>1, <4>3, <4>4, <4>6 DEF AlignedInv
    <3> QED BY <3>3, <3>4
  <2> QED BY <2>1, <2>2
<1>6. CASE Abort
  BY <1>6, AbortedFacts, AlignedStops DEF Abort
<1>7. CASE EraseHeaderSector
  <2>1. w \in WriterState
    BY DEF IInv, WriterTypeOK
  <2>2. /\ w'.active = w.active /\ w'.blk = w.blk /\ w'.next = w.next
        /\ w'.pc \notin {"flush", "lastFlush"}
    BY <1>7, <2>1, SMTT(30) DEF EraseHeaderSector, WriterState
  <2> QED BY <2>2 DEF AlignedInv, BlockOffset, Flushing
<1>8. CASE EraseHeaderFails
  <2>1. CASE w.pc = "eraseHeader"
    BY <1>8, <2>1, AbortedFacts, AlignedStops DEF EraseHeaderFails
  <2>2. CASE w.pc = "cancel"
    <3>1. w \in WriterState /\ ~w.active
      BY <2>2 DEF IInv, WriterTypeOK, ControlInv
    <3>2. w'.active = w.active
      BY <1>8, <2>2, <3>1 DEF EraseHeaderFails, WriterState
    <3> QED BY <3>1, <3>2, AlignedStops
  <2> QED BY <1>8, <2>1, <2>2 DEF EraseHeaderFails
<1>9. CASE EraseBlockSector
  <2>1. w \in WriterState
    BY DEF IInv, WriterTypeOK
  <2>2. /\ w'.active = w.active /\ w'.blk = w.blk /\ w'.next = w.next /\ w'.pc = w.pc
        /\ w'.expected = w.expected
    BY <1>9, <2>1, SMTT(30) DEF EraseBlockSector, WriterState
  <2> QED BY <2>2 DEF AlignedInv, BlockOffset, Flushing
<1>10. CASE ProgramBlock
  <2>1. w \in WriterState /\ Flushing /\ w.active
    BY <1>10 DEF IInv, WriterTypeOK, ControlInv, ProgramBlock, Flushing
  <2>2. w'.blk = <<>> /\ w'.next = w.next /\ w'.pc \in {"idle", "commit"}
    BY <1>10, <2>1, SMTT(30) DEF ProgramBlock, WriterState
  <2>3. /\ BlockOffset + Len(w.blk) = w.next /\ w.next \in Nat /\ BlockOffset \in Nat
        /\ BlockSize \in Nat \ {0}
        /\ BlockOffset % BlockSize = 0 /\ Len(w.blk) = BlockSize
    BY <2>1, ActiveFacts DEF AlignedInv
  <2>4. BlockOffset' = BlockOffset + BlockSize
    BY <2>2, <2>3, EmptySeq DEF BlockOffset
  <2>5. BlockSize % BlockSize = 0
    BY <2>3, Multiple
  <2> DEFINE b == BlockOffset
  <2>6. b \in Int /\ b % BlockSize = 0
    BY <2>3
  <2> HIDE DEF b
  <2>7. (b + BlockSize) % BlockSize = 0
    BY <2>3, <2>5, <2>6, MultipleSum
  <2> QED BY <2>2, <2>4, <2>7 DEF AlignedInv, Flushing, b
<1>11. CASE FlushFails \/ CommitFails
  BY <1>11, AbortedFacts, AlignedStops DEF FlushFails, CommitFails
<1>12. CASE Commit \/ WriterPowerLoss
  BY <1>12, IdleFacts, AlignedStops DEF Commit, WriterPowerLoss
<1> QED BY <1>1, <1>2, <1>3, <1>4, <1>5, <1>6, <1>7, <1>8, <1>9, <1>10, <1>11, <1>12
        DEF WriterNext, WriterCall, WriterStep

-----------------------------------------------------------------------------
(* What a step shows to those who only see the flash.                      *)

\* A call up to its first flash operation.
Quiet ==
    /\ UNCHANGED <<flash, package>>
    /\ faults' \in {faults, faults + 1}
    /\ w'.erased \in {w.erased, 0}
    /\ w'.active /\ w'.erased # 0 => w.active

LEMMA CallsQuiet ==
    ASSUME IInv,
           (\E n : Begin(n)) \/ BeginUnopened \/ (\E b : Write(b)) \/ Finish \/ Abort
    PROVE  Quiet
<1>1. /\ w \in WriterState
      /\ \A ret : ~Idle(ret).active /\ Idle(ret).erased = 0
      /\ \A ret : ~Aborted(ret).active /\ Aborted(ret).erased = 0
  BY DEF IInv, WriterTypeOK, Idle, Aborted
<1>2. CASE \E n : Begin(n)
  <2>1. PICK n : Begin(n)
    BY <1>2
  <2>2. w'.erased = 0
    <3>1. CASE Accepts(n)
      BY <2>1, <3>1 DEF Begin, Idle
    <3>2. CASE ~Accepts(n)
      BY <1>1, <2>1, <3>2 DEF Begin
    <3> QED BY <3>1, <3>2
  <2> QED BY <2>1, <2>2 DEF Begin, Quiet
<1>3. CASE BeginUnopened
  BY <1>1, <1>3 DEF BeginUnopened, Quiet
<1>4. CASE \E b : Write(b)
  <2>1. PICK b : Write(b)
    BY <1>4
  <2>2. CASE ~w.active \/ w.written = w.expected
    BY <1>1, <2>1, <2>2 DEF Write, Quiet
  <2>3. CASE w.active /\ w.written # w.expected
    <3> DEFINE full == Len(w.blk) + 1 = BlockSize
    <3>1. w' = [w EXCEPT !.blk = Append(@, b), !.next = @ + 1,
                         !.written = IF full THEN @ ELSE @ + 1,
                         !.pc = IF full THEN "flush" ELSE "idle", !.scan = 1,
                         !.ret = IF full THEN "none" ELSE "ok"]
      BY <2>1, <2>3, Zenon DEF Write
    <3> HIDE DEF full
    <3>2. w'.erased = w.erased
      BY <1>1, <3>1 DEF WriterState
    <3> QED BY <2>1, <2>3, <3>2 DEF Write, Quiet
  <2> QED BY <2>2, <2>3
<1>5. CASE Finish
  <2>1. CASE ~w.active \/ w.written # w.expected
    BY <1>1, <1>5, <2>1 DEF Finish, Quiet
  <2>2. CASE w.active /\ w.written = w.expected
    <3>1. w'.erased = w.erased
      BY <1>1, <1>5, <2>2 DEF Finish, WriterState
    <3> QED BY <1>5, <2>2, <3>1 DEF Finish, Quiet
  <2> QED BY <2>1, <2>2
<1>6. CASE Abort
  BY <1>1, <1>6 DEF Abort, Quiet
<1> QED BY <1>2, <1>3, <1>4, <1>5, <1>6

\* A block is only programmed, and a package only committed, by a transfer
\* that has erased a sector.
LEMMA ProgramsErased ==
    ASSUME IInv, Flushing, BlockInRange, ToErase = {} PROVE w.active /\ w.erased # 0
<1>1. w.active /\ w \in WriterState
  BY DEF IInv, ControlInv, WriterTypeOK, Flushing
<1>2. PICK i \in Touched(BlockOffset, Len(w.blk)) : TRUE
  BY DEF BlockInRange
<1>3. i \in Nat \ {0}
  BY DEF Touched, SectorIndex
<1>4. w.erased = 0 => w.scan = 1
  BY <1>1 DEF IInv, ErasedInv
<1> QED BY <1>1, <1>2, <1>3, <1>4 DEF ToErase

LEMMA CommitsErased ==
    ASSUME IInv, w.pc = "commit" PROVE w.active /\ w.erased # 0 /\ accepted # <<>>
<1>1. w.active /\ Len(accepted) = w.expected
  BY CommitFacts
<1>2. w.expected \in Nat \ {0}
  BY <1>1, OffsetFacts DEF IInv, ControlInv
<1>3. accepted # <<>>
  BY <1>1, <1>2, EmptySeq
<1>4. w.blk = <<>> /\ w.next >= PayloadOffset + Len(accepted)
  BY <1>1 DEF IInv, CountInv
<1>5. BlockOffset + Len(w.blk) = w.next /\ PayloadOffset \in Nat /\ w.next \in Nat
      /\ BlockOffset \in Nat
  BY <1>1, ActiveFacts
<1>6. BlockOffset > PayloadOffset
  BY <1>1, <1>2, <1>4, <1>5, EmptySeq
<1> QED BY <1>1, <1>3, <1>5, <1>6 DEF IInv, ErasedInv

\* The steps of the direct writer: a sector is erased, ...
Erases ==
    /\ Flushing /\ w.active /\ w'.active
    /\ w'.pc = w.pc /\ w'.expected = w.expected /\ w'.erased \notin {w.erased, 0}
    /\ package' = <<>>
    /\ UNCHANGED <<faults, accepted>>

\* ... a block is programmed, ...
Programs ==
    /\ Flushing /\ w.active /\ w'.active
    /\ w.erased # 0 /\ w'.erased = w.erased /\ w'.expected = w.expected
    /\ w.pc = "flush" => w'.pc = "idle" /\ w'.ret = "ok"
    /\ w.pc = "lastFlush" => w'.pc = "commit"
    /\ UNCHANGED <<faults, accepted, package>>

\* ... one of the two fails, ...
Breaks ==
    /\ Flushing /\ w.active
    /\ flash' = flash \/ w.erased # 0
    /\ w' = Idle("fail") /\ accepted' = <<>>
    /\ faults' = faults + 1
    /\ UNCHANGED package

\* ... or the transfer is committed.
Completes ==
    /\ w.pc = "commit" /\ w.active /\ w.erased # 0
    /\ accepted # <<>> /\ PayloadAt(flash, 0, accepted)
    /\ package' = accepted
    /\ UNCHANGED flash

LEMMA DirectSteps ==
    ASSUME IInv, AlignedInv, ~Staged, WriterStep
    PROVE  \/ Erases \/ Programs \/ Breaks
           \/ Completes /\ w' = Idle("ok") /\ accepted' = <<>> /\ UNCHANGED faults
<1>1. w \in WriterState /\ w.pc \notin {"eraseHeader", "cancel"}
  BY DEF IInv, WriterTypeOK, ControlInv
<1>2. CASE EraseBlockSector
  <2>1. PICK i \in ToErase : w' = [w EXCEPT !.erased = i, !.scan = i + 1]
    BY <1>2 DEF EraseBlockSector
  <2>2. i \in Nat \ {0} /\ i # w.erased
    BY DEF ToErase, Touched, SectorIndex
  <2>3. w'.active = w.active /\ w'.pc = w.pc /\ w'.expected = w.expected /\ w'.erased = i
    BY <1>1, <2>1 DEF WriterState
  <2>4. Flushing /\ w.active
    BY <1>2 DEF EraseBlockSector, Flushing, IInv, ControlInv
  <2> QED BY <1>2, <2>2, <2>3, <2>4 DEF EraseBlockSector, Erases
<1>3. CASE ProgramBlock
  <2>1. Flushing /\ w.active /\ w.erased # 0
    BY <1>3, ProgramsErased DEF ProgramBlock, Flushing
  <2>2. /\ w'.active = w.active /\ w'.expected = w.expected /\ w'.erased = w.erased
        /\ w.pc = "flush" => w'.pc = "idle" /\ w'.ret = "ok"
        /\ w.pc = "lastFlush" => w'.pc = "commit"
    BY <1>1, <1>3 DEF ProgramBlock, WriterState
  <2> QED BY <1>3, <2>1, <2>2 DEF ProgramBlock, Programs
<1>4. CASE FlushFails
  <2>1. Flushing /\ w.active /\ BlockInRange
    BY <1>4, PlacedFacts DEF FlushFails, Flushing, IInv, ControlInv
  <2>2. flash' = flash \/ w.erased # 0
    BY <1>4, <2>1, ProgramsErased DEF FlushFails
  <2>3. w' = Idle("fail")
    BY <1>4 DEF FlushFails, Aborted
  <2> QED BY <1>4, <2>1, <2>2, <2>3 DEF FlushFails, Breaks
<1>5. CASE Commit
  <2>1. w.pc = "commit" /\ package' = accepted /\ flash' = flash /\ w' = Idle("ok")
        /\ accepted' = <<>> /\ faults' = faults
    BY <1>5 DEF Commit
  <2>2. PayloadAt(flash, 0, accepted)
    BY <2>1, CommitFacts, OffsetFacts DEF PayloadAt
  <2> QED BY <2>1, <2>2, CommitsErased DEF Completes
<1> QED BY <1>1, <1>2, <1>3, <1>4, <1>5
        DEF WriterStep, EraseHeaderSector, EraseHeaderFails, CommitFails

\* Power is lost under the direct writer.
LEMMA DirectPowerLoss ==
    ASSUME IInv, ~Staged, WriterPowerLoss
    PROVE  \/ Completes
           \/ package' = package /\ (flash' = flash \/ (Flushing /\ w.active /\ w.erased # 0))
<1>1. CASE w.pc = "commit"
  <2>1. package' = accepted /\ flash' = flash
    BY <1>1 DEF WriterPowerLoss
  <2>2. PayloadAt(flash, 0, accepted)
    BY <1>1, CommitFacts, OffsetFacts DEF PayloadAt
  <2> QED BY <1>1, <2>1, <2>2, CommitsErased DEF Completes
<1>2. CASE w.pc # "commit"
  <2>1. package' = package
    BY <1>2 DEF WriterPowerLoss
  <2>2. CASE Flushing /\ BlockInRange /\ ToErase = {}
    BY <2>1, <2>2, ProgramsErased
  <2>3. CASE ~(Flushing /\ BlockInRange /\ ToErase = {})
    <3>1. ~(w.pc = "commit" /\ Staged /\ HeaderSize % Native = 0)
      BY <1>2
    <3>2. flash' = flash
      BY <2>3, <3>1 DEF WriterPowerLoss, Flushing
    <3> QED BY <2>1, <3>2
  <2> QED BY <2>2, <2>3
<1> QED BY <1>1, <1>2

\* The package a wholly written header announces.
Published == IF HeaderValid(flash) /\ flash[3] # Erased THEN package ELSE <<>>

\* A transfer keeps the header erased.
LEMMA NothingPublished ==
    ASSUME IInv, Staged, w.active, w.pc # "eraseHeader" PROVE Published = <<>>
<1>1. \A o \in Offsets : o < HeaderSize => flash[o] = Erased
  BY DEF IInv, HeaderInv
<1>2. ASSUME 3 \in DOMAIN flash PROVE 0 \in Offsets
  BY <1>2, SectorFacts DEF Offsets, IInv, WriterTypeOK
<1>3. ~HeaderValid(flash)
  BY <1>1, <1>2, HeaderAssumption, CellAssumption DEF HeaderValid
<1> QED BY <1>3 DEF Published

\* The staged package only changes by being given up, or from none.
LEMMA PublishedSteps ==
    ASSUME IInv, Staged, WriterStep \/ WriterPowerLoss
    PROVE  /\ Published' = Published \/ Published' = <<>> \/ Published = <<>>
           /\ faults' \in {faults, faults + 1}
<1>1. faults' \in {faults, faults + 1}
  BY DEF WriterStep, WriterPowerLoss, EraseHeaderSector, EraseHeaderFails, EraseBlockSector,
         ProgramBlock, FlushFails, Commit, CommitFails
<1>2. CASE w.pc \in {"flush", "lastFlush", "commit"}
  BY <1>1, <1>2, NothingPublished DEF IInv, ControlInv
<1>3. CASE w.pc \notin {"flush", "lastFlush", "commit"}
  <2>1. UNCHANGED <<flash, package>> \/ package' = <<>>
    BY <1>3 DEF WriterStep, WriterPowerLoss, EraseHeaderSector, EraseHeaderFails,
       EraseBlockSector, ProgramBlock, FlushFails, Commit, CommitFails
  <2> QED BY <1>1, <2>1 DEF Published, HeaderValid
<1> QED BY <1>2, <1>3

-----------------------------------------------------------------------------
(* The theorems.                                                           *)

LEMMA InvInit == ASSUME WriterInit PROVE IInv
<1>1. /\ flash = [o \in Offsets |-> Erased] /\ w = Idle("none")
      /\ faults = 0 /\ accepted = <<>> /\ package = <<>>
  BY DEF WriterInit
<1>2. w \in WriterState /\ w.pc = "idle" /\ ~w.active
  BY <1>1, IdleFacts
<1>3. WriterTypeOK
  BY <1>1, <1>2, EmptySeq, HeaderAssumption DEF WriterTypeOK, Cell
<1>4. ControlInv /\ CountInv /\ DataInv /\ ErasedInv /\ HeaderInv
  BY <1>2 DEF ControlInv, CountInv, DataInv, ErasedInv, HeaderInv
<1>5. NeverOverprogrammed
  BY <1>1, CellAssumption DEF NeverOverprogrammed
<1>6. PackageComplete
  <2>1. ASSUME 3 \in DOMAIN flash PROVE 0 \in Offsets
    BY <1>1, <2>1, SectorFacts DEF Offsets
  <2>2. ~HeaderValid(flash)
    BY <1>1, <2>1, CellAssumption DEF HeaderValid
  <2> QED BY <2>2 DEF PackageComplete
<1> QED BY <1>3, <1>4, <1>5, <1>6 DEF IInv

LEMMA InvNext == ASSUME IInv, [WriterNext]_writerVars PROVE IInv'
<1>1. CASE WriterCall
  <2>1. \A n \in 0 .. AreaSize + 1 : n \in Nat
    BY SectorFacts
  <2> QED BY <1>1, <2>1, BeginStep, BeginUnopenedStep, WriteStep, FinishStep, AbortStep
          DEF WriterCall
<1>2. CASE WriterStep
  BY <1>2, EraseHeaderSectorStep, EraseHeaderFailsStep, EraseBlockSectorStep,
     ProgramBlockStep, FlushFailsStep, CommitStep, CommitFailsStep DEF WriterStep
<1>3. CASE WriterPowerLoss
  BY <1>3, WriterPowerLossStep
<1>4. CASE UNCHANGED writerVars
  BY <1>4 DEF writerVars, IInv, WriterTypeOK, ControlInv, CountInv, DataInv,
              ErasedInv, HeaderInv, PackageComplete, HeaderValid, PayloadAt,
              NeverOverprogrammed, BlockOffset, Flushing
<1> QED BY <1>1, <1>2, <1>3, <1>4 DEF WriterNext

\* For every geometry, payload, header size and number of failures, wherever
\* power is lost: the writer keeps its types, ...
THEOREM WriterCorrect == WriterSpec => []IInv
<1>1. WriterInit => IInv
  BY InvInit
<1>2. IInv /\ [WriterNext]_writerVars => IInv'
  BY InvNext
<1> QED BY <1>1, <1>2, PTL DEF WriterSpec

THEOREM WriterTyped == WriterSpec => []WriterTypeOK
<1>1. IInv => WriterTypeOK
  BY DEF IInv
<1> QED BY <1>1, WriterCorrect, PTL

\* ... commits only what it has put in the flash in full, ...
THEOREM WriterCommitsAll == WriterSpec => []CommitComplete
<1>1. IInv => CommitComplete
  BY CommitFacts DEF CommitComplete, PayloadAt
<1> QED BY <1>1, WriterCorrect, PTL

\* ... never lets a whole header stand for less than a whole payload, ...
THEOREM WriterPackageWhole == WriterSpec => []PackageComplete
<1>1. IInv => PackageComplete
  BY DEF IInv
<1> QED BY <1>1, WriterCorrect, PTL

\* ... and never programs a cell it has not erased.
THEOREM WriterErasesFirst == WriterSpec => []NeverOverprogrammed
<1>1. IInv => NeverOverprogrammed
  BY DEF IInv
<1> QED BY <1>1, WriterCorrect, PTL

\* No block is ever misplaced, the padded last one of a transfer included: the
\* write block divides every sector, so the block ends with the area at the
\* latest.
THEOREM WriterPlacesBlocks == WriterSpec => []BlocksPlaced
<1>1. WriterInit => IInv /\ AlignedInv
  <2>1. WriterInit => AlignedInv
    BY IdleFacts DEF WriterInit, AlignedInv
  <2> QED BY <2>1, InvInit
<1>2. (IInv /\ AlignedInv) /\ [WriterNext]_writerVars => (IInv /\ AlignedInv)'
  BY InvNext, AlignedNext
<1>3. IInv /\ AlignedInv => BlocksPlaced
  BY PlacedFacts DEF BlocksPlaced, Flushing
<1> QED BY <1>1, <1>2, <1>3, PTL DEF WriterSpec

\* What a finished transfer is worth, in one.
THEOREM WriterIsSafe == WriterSpec => []WriterSafe
<1>1. BlocksPlaced /\ CommitComplete /\ PackageComplete /\ NeverOverprogrammed => WriterSafe
  BY DEF WriterSafe
<1> QED BY <1>1, WriterPlacesBlocks, WriterCommitsAll, WriterPackageWhole, WriterErasesFirst, PTL
-----------------------------------------------------------------------------
(***************************************************************************)
(* What holds of the upload protocol for every stream of commands and      *)
(* symbols, on top of the invariant of the writer.  The parser and the     *)
(* writer each know a part of the transfer; what one knows of the other    *)
(* between two commands is Between, and while the parser waits for the     *)
(* writer it depends on the call: the four operators below it.             *)
(***************************************************************************)

-----------------------------------------------------------------------------
(* The inductive invariant.                                                *)

Parser ==
    [stage : {"Start", "Metadata", "Payload", "End", "Done"},
     status : {"Incomplete", "Complete", "Invalid"},
     meta : Seq(Symbol), bytes : Nat, writerActive : BOOLEAN]

ParserTypeOK ==
    /\ p \in Parser
    /\ call \in {"none", "begin", "byte", "finish", "reject", "Begin", "Abort", "Finish"}

\* The size of the payload has been read.
Announced == Len(p.meta) = 3 /\ p.meta[3] \in Nat \ {0}

\* What the stage says of the other members of the parser.
StageInv ==
    /\ p.stage \in {"Start", "Metadata"} => p.bytes = 0 /\ ~p.writerActive
    /\ p.stage = "Start" => Len(p.meta) = 0
    /\ p.stage = "Metadata" /\ call # "begin" => Len(p.meta) < 3
    /\ p.stage \in {"Payload", "End"} => Announced /\ p.writerActive
    /\ p.stage = "Done" => ~p.writerActive

\* Between two commands.
Between ==
    call = "none" =>
        /\ w.pc = "idle"
        /\ w.active = p.writerActive
        /\ p.stage \in {"Payload", "End"} =>
              w.expected = p.meta[3] /\ Len(accepted) = p.bytes
        /\ p.stage = "Payload" => p.bytes < p.meta[3]

\* The writer has returned from an operation that has not failed.
Succeeded == w.pc = "idle" /\ w.ret = "ok"
\* An operation of the writer that failed has ended, or ends, without a transfer.
Fails == ~w.active /\ w.ret = "fail" /\ w.pc \in {"cancel", "idle"}

InBegin ==
    call = "begin" =>
        /\ p.stage = "Metadata" /\ Announced
        /\ \/ (w.pc = "eraseHeader" \/ Succeeded) /\ w.active /\ w.expected = p.meta[3] /\ accepted = <<>>
           \/ Fails
InByte ==
    call = "byte" =>
        /\ p.stage = "Payload"
        /\ \/ (w.pc = "flush" \/ Succeeded) /\ w.active /\ w.expected = p.meta[3] /\ Len(accepted) = p.bytes + 1
           \/ Fails

\* What the parser's status Complete promises.
Delivered ==
    /\ Staged => HeaderValid(flash) /\ flash[3] = Len(package)
    /\ package # <<>>
    /\ PayloadAt(flash, PayloadOffset, package)

InFinish ==
    call = "finish" =>
        /\ p.stage = "End"
        /\ \/ w.pc \in {"lastFlush", "commit"}
           \/ w.pc = "idle" /\ ~w.active /\ w.ret = "ok" /\ Delivered
           \/ Fails
InAbort ==
    call \in {"reject", "Begin", "Abort", "Finish"} =>
        /\ w.pc \in {"cancel", "idle"} /\ ~w.active
        /\ call = "reject" => p = Fresh("Invalid")

CompleteInv ==
    p.status = "Complete" =>
        p.stage = "Done" /\ w.pc = "idle" /\ ~w.active /\ Delivered

ParserInv ==
    ParserTypeOK /\ StageInv /\ Between /\ InBegin /\ InByte /\ InFinish /\ InAbort /\ CompleteInv

UploadInv == IInv /\ ParserInv

-----------------------------------------------------------------------------
(* What the writer does while the parser waits.                            *)

\* A committed package is in the flash in full, and its header with it.
LEMMA CommitDelivers == ASSUME IInv, Commit PROVE Delivered'
<1>1. /\ w.pc = "commit" /\ package' = accepted /\ Staged \in BOOLEAN
      /\ flash' = IF Staged THEN Program(flash, 0, HeaderOf(w.expected)) ELSE flash
  BY HeaderAssumption DEF Commit
<1>2. /\ w.active /\ Len(accepted) = w.expected /\ accepted \in Seq(Byte)
      /\ \A k \in 1 .. Len(accepted) : /\ PayloadOffset + k - 1 \in Offsets
                                       /\ flash[PayloadOffset + k - 1] = accepted[k]
  BY <1>1, CommitFacts
<1>3. w.expected \in Nat \ {0}
  BY <1>2, OffsetFacts DEF IInv, ControlInv
<1>4. package' # <<>>
  BY <1>1, <1>2, <1>3, EmptySeq
<1>5. CASE ~Staged
  <2>1. PayloadAt(flash', PayloadOffset, package')
    BY <1>1, <1>2, <1>5 DEF PayloadAt
  <2> QED BY <1>4, <1>5, <2>1 DEF Delivered, PayloadOffset
<1>6. CASE Staged
  <2> DEFINE h == HeaderOf(w.expected)
  <2>1. h \in Seq(Cell) /\ Len(h) = 4 /\ h = <<StartWord, VersionWord, UidWord, w.expected>>
    BY <1>3 DEF HeaderOf, Cell
  <2>2. HeaderSize \in Nat /\ HeaderSize >= 4 /\ PayloadOffset = HeaderSize /\ AreaSize \in Nat
    BY <1>6, HeaderAssumption, OffsetFacts, SectorFacts
  <2>3. \A o \in 0 .. 3 : o \in Offsets
    <3>1. PayloadOffset + 1 - 1 \in Offsets
      BY <1>2, <1>3
    <3> QED BY <2>2, <3>1 DEF Offsets
  <2>4. \A o \in Offsets : o < HeaderSize => flash[o] = Erased
    BY <1>1, <1>2, <1>6 DEF IInv, HeaderInv
  <2>5. flash \in [Offsets -> Cell]
    BY DEF IInv, WriterTypeOK
  <2> HIDE DEF h
  <2>6. \A o \in Offsets : 0 <= o /\ o < 0 + Len(h) => flash[o] = Erased
    BY <2>1, <2>2, <2>4 DEF Offsets
  <2>7. /\ Program(flash, 0, h) \in [Offsets -> Cell]
        /\ \A o \in Offsets : Program(flash, 0, h)[o] =
              IF 0 <= o /\ o < 0 + Len(h) THEN h[o - 0 + 1] ELSE flash[o]
    <3>1. 0 \in Nat /\ h \in Seq(Cell)
      BY <2>1
    <3> QED BY <2>5, <2>6, <3>1, ProgramFacts, Zenon
  <2>8. flash' = Program(flash, 0, h)
    BY <1>1, <1>6 DEF h
  <2>9. /\ flash'[0] = h[1] /\ flash'[1] = h[2] /\ flash'[2] = h[3] /\ flash'[3] = h[4]
        /\ DOMAIN flash' = Offsets
    BY <2>1, <2>3, <2>7, <2>8
  <2>10. HeaderValid(flash') /\ flash'[3] = Len(package')
    <3>1. h[1] = StartWord /\ h[2] = VersionWord /\ h[3] = UidWord /\ h[4] = w.expected
      BY <2>1
    <3> QED BY <1>1, <1>2, <1>3, <2>3, <2>9, <3>1 DEF HeaderValid
  <2>11. flash'[3] # Erased
    BY <1>1, <1>2, <1>3, <2>10, CellAssumption
  <2>12. PayloadAt(flash', HeaderSize, package')
    BY <1>6, <2>10, <2>11, CommitStep DEF IInv, PackageComplete
  <2> QED BY <1>4, <2>2, <2>10, <2>12 DEF Delivered, PayloadOffset
<1> QED BY <1>1, <1>5, <1>6

\* The members that say how far the transfer is do not change.
SameTransfer == w'.active = w.active /\ w'.expected = w.expected /\ accepted' = accepted

\* A step of the writer in terms of what the parser sees of it.
Goes ==
    \/ SameTransfer /\ w'.pc = w.pc /\ w'.ret = w.ret
    \/ SameTransfer /\ w.pc \in {"eraseHeader", "flush"} /\ w'.pc = "idle" /\ w'.ret = "ok"
    \/ SameTransfer /\ w.pc = "lastFlush" /\ w'.pc = "commit"
    \/ w.pc = "cancel" /\ w'.pc = "idle" /\ w'.ret = w.ret /\ ~w'.active
    \/ w.pc # "cancel" /\ Fails'
    \/ w.pc = "commit" /\ w'.pc = "idle" /\ w'.ret = "ok" /\ ~w'.active /\ Delivered'

LEMMA AbortedFails == ASSUME w' = Aborted("fail") PROVE Fails'
BY SMT DEF Aborted, Idle, Fails

LEMMA WriterGoes == ASSUME IInv, WriterStep PROVE w.pc # "idle" /\ Goes
<1>1. w \in WriterState /\ (w.pc = "cancel" => ~w.active)
  BY DEF IInv, WriterTypeOK, ControlInv
<1>2. CASE EraseHeaderSector
  BY <1>1, <1>2, SMT DEF EraseHeaderSector, WriterState, Goes, SameTransfer
<1>3. CASE EraseHeaderFails
  <2>1. CASE w.pc = "eraseHeader"
    BY <1>3, <2>1, AbortedFails DEF EraseHeaderFails, Goes
  <2>2. CASE w.pc = "cancel"
    BY <1>1, <1>3, <2>2, SMT DEF EraseHeaderFails, WriterState, Goes
  <2> QED BY <1>3, <2>1, <2>2 DEF EraseHeaderFails
<1>4. CASE EraseBlockSector
  BY <1>1, <1>4, SMT DEF EraseBlockSector, WriterState, Goes, SameTransfer
<1>5. CASE ProgramBlock
  BY <1>1, <1>5, SMT DEF ProgramBlock, WriterState, Goes, SameTransfer
<1>6. CASE FlushFails
  BY <1>6, AbortedFails DEF FlushFails, Goes
<1>7. CASE Commit
  BY <1>7, CommitDelivers, IdleFacts, SMT DEF Commit, Idle, Goes
<1>8. CASE CommitFails
  BY <1>8, AbortedFails DEF CommitFails, Goes
<1> QED BY <1>2, <1>3, <1>4, <1>5, <1>6, <1>7, <1>8 DEF WriterStep

\* The parser waits while the writer goes on.
LEMMA WriterStepKeeps ==
    ASSUME UploadInv, WriterStep, UNCHANGED <<p, call>> PROVE UploadInv'
<1>1. IInv' /\ Goes /\ w.pc # "idle" /\ IInv
  BY WriterGoes, InvNext DEF UploadInv, WriterNext
<1>2. ParserInv /\ p' = p /\ call' = call
  BY DEF UploadInv
<1>3. ParserTypeOK' /\ StageInv' /\ Between'
  BY <1>1, <1>2 DEF ParserInv, ParserTypeOK, StageInv, Announced, Between
<1>4. CompleteInv'
  BY <1>1, <1>2 DEF ParserInv, CompleteInv
<1>5. ControlInv
  BY <1>1 DEF IInv
<1>6. InBegin'
  BY <1>1, <1>2, SMT DEF ParserInv, InBegin, Succeeded, Fails, Announced, Goes, SameTransfer
<1>7. InByte'
  BY <1>1, <1>2, SMT DEF ParserInv, InByte, Succeeded, Fails, Goes, SameTransfer
<1>8. InFinish'
  BY <1>1, <1>2, <1>5 DEF ParserInv, InFinish, Fails, Goes, SameTransfer, ControlInv
<1>9. InAbort'
  BY <1>1, <1>2 DEF ParserInv, InAbort, Fails, Goes, SameTransfer
<1> QED BY <1>1, <1>3, <1>4, <1>6, <1>7, <1>8, <1>9 DEF UploadInv, ParserInv

-----------------------------------------------------------------------------
(* The parser starting over, or going on.                                  *)

LEMMA FreshFacts ==
    ASSUME NEW status \in {"Incomplete", "Complete", "Invalid"}
    PROVE  /\ Fresh(status) \in Parser
           /\ Fresh(status).stage = "Start" /\ Fresh(status).status = status
           /\ Fresh(status).bytes = 0 /\ ~Fresh(status).writerActive
           /\ Fresh(status).meta = <<>> /\ Len(Fresh(status).meta) = 0
BY DEF Fresh, Parser

\* A parser that has started over, with nothing under way in the writer.
LEMMA StartedOver ==
    ASSUME IInv', ~w'.active, NEW status \in {"Incomplete", "Invalid"}, p' = Fresh(status),
           \/ call' = "none" /\ w'.pc = "idle"
           \/ call' = "reject" /\ status = "Invalid" /\ w'.pc \in {"cancel", "idle"}
    PROVE  UploadInv'
<1>1. /\ p' \in Parser /\ p'.stage = "Start" /\ p'.status = status
      /\ p'.bytes = 0 /\ ~p'.writerActive /\ Len(p'.meta) = 0
  BY FreshFacts
<1>2. ParserTypeOK' /\ StageInv'
  BY <1>1 DEF ParserTypeOK, StageInv
<1>3. Between' /\ InBegin' /\ InByte' /\ InFinish' /\ CompleteInv'
  <2>1. w'.active = p'.writerActive
    <3>1. w'.active \in BOOLEAN /\ p'.writerActive \in BOOLEAN
      BY <1>1 DEF IInv, WriterTypeOK, WriterState, Parser
    <3> QED BY <1>1, <3>1
  <2> QED BY <1>1, <2>1 DEF Between, InBegin, InByte, InFinish, CompleteInv
<1>4. InAbort'
  <2>1. call' = "reject" => p' = Fresh("Invalid")
    OBVIOUS
  <2>2. (Fresh("Invalid"))' = Fresh("Invalid")
    BY DEF Fresh
  <2> QED BY <2>1, <2>2 DEF InAbort
<1> QED BY <1>2, <1>3, <1>4 DEF UploadInv, ParserInv

\* abort() in terms of what the parser sees of it.
LEMMA AbortFacts ==
    ASSUME IInv, Abort
    PROVE  /\ IInv' /\ flash' = flash /\ package' = package
           /\ ~w'.active /\ w'.pc \in {"cancel", "idle"} /\ (~w.active => w'.pc = "idle")
BY AbortStep, AbortedFacts, IdleFacts DEF Abort, Aborted

\* reject(), of a parser that knows whether a transfer is under way.
LEMMA RejectStep ==
    ASSUME UploadInv, w.pc = "idle", ~p.writerActive => ~w.active, Reject
    PROVE  UploadInv'
<1>1. IInv /\ p' = Fresh("Invalid") /\ p.writerActive \in BOOLEAN
  BY DEF UploadInv, ParserInv, ParserTypeOK, Parser, Reject
<1>2. CASE p.writerActive
  BY <1>1, <1>2, AbortFacts, StartedOver DEF Reject
<1>3. CASE ~p.writerActive
  <2>1. UNCHANGED writerVars /\ call' = "none"
    BY <1>3 DEF Reject
  <2>2. IInv'
    BY <1>1, <2>1, InvNext
  <2> QED BY <1>1, <1>3, <2>1, <2>2, StartedOver DEF writerVars
<1> QED BY <1>1, <1>2, <1>3

\* What is known between two commands.
LEMMA ReadyFacts ==
    ASSUME UploadInv, Ready
    PROVE  /\ IInv /\ p \in Parser /\ StageInv /\ call = "none" /\ w.pc = "idle"
           /\ w.active = p.writerActive
           /\ p.stage \in {"Payload", "End"} => w.expected = p.meta[3] /\ Len(accepted) = p.bytes
           /\ p.stage = "Payload" => p.bytes < p.meta[3]
           /\ CompleteInv
BY DEF UploadInv, ParserInv, ParserTypeOK, Between, Ready

-----------------------------------------------------------------------------
(* The commands.                                                           *)

LEMMA FeedStartStep == ASSUME UploadInv, Ready, NEW x \in Symbol, FeedStart(x) PROVE UploadInv'
<1>1. CASE x = StartWord
  <2>1. /\ IInv /\ p \in Parser /\ StageInv /\ call = "none" /\ w.pc = "idle"
        /\ w.active = p.writerActive /\ p.stage = "Start"
    BY ReadyFacts DEF FeedStart
  <2>2. UNCHANGED <<writerVars, call>> /\ p' = [p EXCEPT !.stage = "Metadata", !.status = "Incomplete"]
    BY <1>1, <2>1, SMT DEF FeedStart, Consumed, Advance, NextStage
  <2>3. /\ p' \in Parser /\ p'.stage = "Metadata" /\ p'.status = "Incomplete" /\ p'.meta = p.meta
        /\ p'.bytes = p.bytes /\ p'.writerActive = p.writerActive
    <3> DEFINE q == [stage |-> "Metadata", status |-> "Incomplete", meta |-> p.meta, bytes |-> p.bytes,
                     writerActive |-> p.writerActive]
    <3>1. p' = q
      BY <2>1, <2>2 DEF Parser
    <3>2. q \in Parser
      BY <2>1 DEF Parser
    <3> QED BY <3>1, <3>2
  <2>4. IInv'
    BY <2>1, <2>2, InvNext
  <2>5. ParserTypeOK' /\ StageInv'
    BY <2>1, <2>2, <2>3 DEF ParserTypeOK, StageInv
  <2>6. Between' /\ InBegin' /\ InByte' /\ InFinish' /\ InAbort' /\ CompleteInv'
    BY <2>1, <2>2, <2>3 DEF writerVars, Between, InBegin, InByte, InFinish, InAbort, CompleteInv
  <2> QED BY <2>4, <2>5, <2>6 DEF UploadInv, ParserInv
<1>2. CASE x # StartWord
  BY <1>2, ReadyFacts, RejectStep DEF FeedStart
<1> QED BY <1>1, <1>2

\* The word that completes the metadata is the third one.
LEMMA ThirdWord == \A m, k \in Nat : m < 3 /\ k = m + 1 /\ ~(k < 3) => m = 2 /\ k = 3
OBVIOUS

LEMMA FeedMetadataStep == ASSUME UploadInv, Ready, NEW x \in Symbol, FeedMetadata(x) PROVE UploadInv'
<1> DEFINE meta == Append(p.meta, Kept(x, p.meta))
<1>1. /\ IInv /\ p \in Parser /\ StageInv /\ call = "none" /\ w.pc = "idle"
      /\ w.active = p.writerActive /\ p.stage = "Metadata" /\ p.bytes = 0 /\ ~p.writerActive
      /\ Len(p.meta) < 3
  BY ReadyFacts DEF FeedMetadata, StageInv
<1>2. Kept(x, p.meta) \in Symbol
  BY DEF Kept, Symbol
<1>3. p.meta \in Seq(Symbol) /\ Len(p.meta) \in Nat
  BY <1>1, LenProperties DEF Parser
<1>4. /\ meta \in Seq(Symbol) /\ Len(meta) = Len(p.meta) + 1
      /\ meta[Len(p.meta) + 1] = Kept(x, p.meta)
  BY <1>2, <1>3, AppendProperties
<1>5. IInv' \/ ~UNCHANGED writerVars
  BY <1>1, InvNext
<1>6. CASE Len(meta) < 3
  <2>1. UNCHANGED <<writerVars, call>> /\ p' = [p EXCEPT !.meta = meta]
    BY <1>6 DEF FeedMetadata, Consumed
  <2> HIDE DEF meta
  <2>2. /\ p' \in Parser /\ p'.stage = "Metadata" /\ p'.status = p.status /\ p'.meta = meta
        /\ p'.bytes = p.bytes /\ p'.writerActive = p.writerActive
    BY <1>1, <1>4, <2>1, SMT DEF Parser
  <2>3. ParserTypeOK' /\ StageInv'
    BY <1>1, <1>6, <2>1, <2>2 DEF ParserTypeOK, StageInv
  <2>4. p.status # "Complete"
    BY <1>1, ReadyFacts DEF CompleteInv
  <2>5. Between' /\ InBegin' /\ InByte' /\ InFinish' /\ InAbort' /\ CompleteInv'
    BY <1>1, <2>1, <2>2, <2>4 DEF writerVars, Between, InBegin, InByte, InFinish, InAbort, CompleteInv
  <2> QED BY <1>5, <2>1, <2>3, <2>5 DEF UploadInv, ParserInv
<1>7. CASE ~(Len(meta) < 3) /\ MetaValid(meta)
  <2>1. (Begin(x) \/ BeginUnopened) /\ p' = [p EXCEPT !.meta = meta] /\ call' = "begin"
    BY <1>7 DEF FeedMetadata
  <2> HIDE DEF meta
  <2>2. Len(p.meta) = 2 /\ Len(meta) = 3
    <3>1. ~(Len(meta) < 3)
      BY <1>7
    <3>2. /\ Len(p.meta) < 3 /\ Len(p.meta) \in Nat
          /\ Len(meta) = Len(p.meta) + 1 /\ Len(meta) \in Nat
      BY <1>1, <1>3, <1>4, SMT
    <3> QED BY <3>1, <3>2, ThirdWord, Zenon
  <2>3. meta[3] = x
    <3>1. Kept(x, p.meta) = x
      BY <2>2, SMT DEF Kept
    <3> QED BY <1>4, <2>2, <3>1
  <2>4. x \in Nat \ {0}
    BY <1>7, <2>3 DEF MetaValid
  <2>5. /\ p' \in Parser /\ p'.stage = "Metadata" /\ p'.status = p.status /\ p'.meta = meta
        /\ p'.bytes = p.bytes /\ p'.writerActive = p.writerActive
    BY <1>1, <1>4, <2>1, SMT DEF Parser
  <2>6. IInv'
    BY <1>1, <2>1, <2>4, BeginStep, BeginUnopenedStep
  <2>7. ParserTypeOK' /\ StageInv'
    BY <1>1, <2>1, <2>5 DEF ParserTypeOK, StageInv
  <2>8. p.status # "Complete"
    BY <1>1, ReadyFacts DEF CompleteInv
  <2>9. \/ (w'.pc = "eraseHeader" \/ Succeeded') /\ w'.active /\ w'.expected = x /\ accepted' = <<>>
        \/ Fails'
    <3>1. CASE Begin(x) /\ Accepts(x)
      <4> DEFINE r == [active |-> TRUE, expected |-> x, written |-> 0,
                       next |-> PayloadOffset, blk |-> <<>>, erased |-> 0,
                       pc |-> IF Staged THEN "eraseHeader" ELSE "idle", scan |-> 1,
                       ret |-> IF Staged THEN "none" ELSE "ok"]
      <4>1. w' = r /\ accepted' = <<>>
        BY <3>1 DEF Begin, Idle
      <4>2. r.active /\ r.expected = x /\ (r.pc = "eraseHeader" \/ (r.pc = "idle" /\ r.ret = "ok"))
        BY HeaderAssumption
      <4> HIDE DEF r
      <4>3. (w'.pc = "eraseHeader" \/ Succeeded')
        BY <4>1, <4>2 DEF Succeeded
      <4> QED BY <4>1, <4>2, <4>3
    <3>2. CASE Begin(x) /\ ~Accepts(x)
      BY <3>2 DEF Begin, Idle, Fails
    <3>3. CASE BeginUnopened
      BY <3>3 DEF BeginUnopened, Idle, Fails
    <3> QED BY <2>1, <3>1, <3>2, <3>3
  <2>10. InBegin'
    BY <2>2, <2>3, <2>4, <2>5, <2>9 DEF InBegin, Announced
  <2>11. Between' /\ InByte' /\ InFinish' /\ InAbort' /\ CompleteInv'
    BY <2>1, <2>5, <2>8 DEF Between, InByte, InFinish, InAbort, CompleteInv
  <2> QED BY <2>6, <2>7, <2>10, <2>11 DEF UploadInv, ParserInv
<1>8. CASE ~(Len(meta) < 3) /\ ~MetaValid(meta)
  <2>1. Reject
    BY <1>8 DEF FeedMetadata
  <2> QED BY <1>1, <2>1, RejectStep
<1> QED BY <1>6, <1>7, <1>8

LEMMA FeedPayloadStep == ASSUME UploadInv, Ready, NEW x \in Symbol, FeedPayload(x) PROVE UploadInv'
<1>1. /\ IInv /\ p \in Parser /\ StageInv /\ call = "none" /\ w.pc = "idle"
      /\ p.stage = "Payload" /\ w.expected = p.meta[3] /\ Len(accepted) = p.bytes
      /\ x \in Byte /\ Write(x) /\ call' = "byte" /\ p' = p
  BY ReadyFacts DEF FeedPayload, Wait
<1>2. IInv'
  BY <1>1, WriteStep
<1>3. w \in WriterState /\ accepted \in Seq(Byte)
  BY <1>1 DEF IInv, WriterTypeOK
<1>4. \/ (w'.pc = "flush" \/ Succeeded') /\ w'.active /\ w'.expected = p.meta[3] /\ Len(accepted') = p.bytes + 1
      \/ Fails'
  <2>1. CASE ~w.active \/ w.written = w.expected
    BY <1>1, <2>1, AbortedFails DEF Write
  <2>2. CASE w.active /\ w.written # w.expected
    <3> DEFINE full == Len(w.blk) + 1 = BlockSize
    <3>1. /\ w' = [w EXCEPT !.blk = Append(@, x), !.next = @ + 1, !.written = IF full THEN @ ELSE @ + 1,
                            !.pc = IF full THEN "flush" ELSE "idle", !.scan = 1,
                            !.ret = IF full THEN "none" ELSE "ok"]
          /\ accepted' = Append(accepted, x)
      BY <1>1, <2>2 DEF Write
    <3> HIDE DEF full
    <3>2. w'.active = w.active /\ w'.expected = w.expected
          /\ (w'.pc = "flush" \/ (w'.pc = "idle" /\ w'.ret = "ok"))
      BY <1>3, <3>1, SMT DEF WriterState
    <3>3. Len(accepted') = p.bytes + 1
      BY <1>1, <1>3, <3>1, AppendProperties
    <3>4. (w'.pc = "flush" \/ Succeeded')
      BY <3>2 DEF Succeeded
    <3>5. w'.active /\ w'.expected = p.meta[3]
      BY <1>1, <2>2, <3>2
    <3> QED BY <3>3, <3>4, <3>5
  <2> QED BY <2>1, <2>2
<1>5. InByte'
  BY <1>1, <1>4 DEF InByte
<1>6. p.status # "Complete"
  BY <1>1, ReadyFacts DEF CompleteInv
<1>7. ParserTypeOK' /\ StageInv' /\ Between' /\ InBegin' /\ InFinish' /\ InAbort' /\ CompleteInv'
  BY <1>1, <1>6 DEF ParserTypeOK, StageInv, Announced, Between, InBegin, InFinish, InAbort, CompleteInv
<1> QED BY <1>2, <1>5, <1>7 DEF UploadInv, ParserInv

LEMMA FeedEndStep == ASSUME UploadInv, Ready, NEW x \in Symbol, FeedEnd(x) PROVE UploadInv'
<1>1. /\ IInv /\ p \in Parser /\ StageInv /\ call = "none" /\ w.pc = "idle" /\ w.active = p.writerActive
      /\ p.stage = "End"
  BY ReadyFacts DEF FeedEnd
<1>2. CASE x = EndWord
  <2>1. Finish /\ call' = "finish" /\ p' = p
    BY <1>2 DEF FeedEnd, Wait
  <2>2. IInv'
    BY <1>1, <2>1, FinishStep
  <2>3. w \in WriterState
    BY <1>1 DEF IInv, WriterTypeOK
  <2>4. w'.pc \in {"lastFlush", "commit"} \/ Fails'
    <3>1. CASE ~w.active \/ w.written # w.expected
      BY <2>1, <3>1, AbortedFails DEF Finish
    <3>2. CASE ~(~w.active \/ w.written # w.expected) /\ w.blk = <<>>
      BY <2>1, <2>3, <3>2, SMT DEF Finish, WriterState
    <3>3. CASE ~(~w.active \/ w.written # w.expected) /\ w.blk # <<>>
      <4> DEFINE padded == [k \in 1 .. BlockSize |-> IF k <= Len(w.blk) THEN w.blk[k] ELSE Erased]
      <4>1. w' = [w EXCEPT !.pc = "lastFlush", !.scan = 1, !.ret = "none",
                           !.next = @ + BlockSize - Len(w.blk), !.blk = padded]
        BY <2>1, <3>3 DEF Finish
      <4> HIDE DEF padded
      <4> QED BY <2>3, <4>1, SMT DEF WriterState
    <3> QED BY <3>1, <3>2, <3>3
  <2>5. InFinish'
    BY <1>1, <2>1, <2>4 DEF InFinish
  <2>6. p.status # "Complete"
    BY <1>1, ReadyFacts DEF CompleteInv
  <2>7. ParserTypeOK' /\ StageInv' /\ Between' /\ InBegin' /\ InByte' /\ InAbort' /\ CompleteInv'
    BY <1>1, <2>1, <2>6 DEF ParserTypeOK, StageInv, Announced, Between, InBegin, InByte, InAbort, CompleteInv
  <2> QED BY <2>2, <2>5, <2>7 DEF UploadInv, ParserInv
<1>3. CASE x # EndWord
  BY <1>1, <1>3, RejectStep DEF FeedEnd
<1> QED BY <1>2, <1>3

LEMMA ChunkStep == ASSUME UploadInv, NEW x \in Symbol, Chunk(x) PROVE UploadInv'
<1>1. Ready
  BY DEF Chunk
<1>2. CASE FeedDone
  BY <1>1, <1>2, ReadyFacts, RejectStep DEF FeedDone
<1> QED BY <1>1, <1>2, FeedStartStep, FeedMetadataStep, FeedPayloadStep, FeedEndStep DEF Chunk

LEMMA AbortCommandStep ==
    ASSUME UploadInv, NEW c \in {"Begin", "Abort", "Finish"}, AbortCommand(c) PROVE UploadInv'
<1>1. /\ IInv /\ p \in Parser /\ StageInv /\ call = "none" /\ w.pc = "idle" /\ CompleteInv
      /\ Abort /\ call' = c /\ p' = p
  BY ReadyFacts DEF AbortCommand
<1>2. /\ IInv' /\ flash' = flash /\ package' = package
      /\ ~w'.active /\ w'.pc \in {"cancel", "idle"} /\ (~w.active => w'.pc = "idle")
  BY <1>1, AbortFacts
<1>3. Delivered => Delivered'
  BY <1>2 DEF Delivered, HeaderValid, PayloadAt
<1>4. ParserTypeOK' /\ StageInv' /\ CompleteInv'
  BY <1>1, <1>2, <1>3 DEF ParserTypeOK, StageInv, Announced, CompleteInv
<1>5. Between' /\ InBegin' /\ InByte' /\ InFinish' /\ InAbort'
  BY <1>1, <1>2 DEF Between, InBegin, InByte, InFinish, InAbort
<1> QED BY <1>2, <1>4, <1>5 DEF UploadInv, ParserInv


ParserFields == {"stage", "status", "meta", "bytes", "writerActive"}

\* A parser is told by its five members.
LEMMA ParserRecord ==
    ASSUME NEW q \in Parser
    PROVE  /\ DOMAIN q = ParserFields
           /\ q = [stage |-> q.stage, status |-> q.status, meta |-> q.meta,
                   bytes |-> q.bytes, writerActive |-> q.writerActive]
<1>1. q = [stage |-> q.stage, status |-> q.status, meta |-> q.meta,
           bytes |-> q.bytes, writerActive |-> q.writerActive]
  BY DEF Parser
<1>2. DOMAIN q = ParserFields
  BY <1>1 DEF ParserFields
<1> QED BY <1>1, <1>2

LEMMA IsParser ==
    ASSUME NEW c, DOMAIN c = ParserFields, c = [k \in DOMAIN c |-> c[k]],
           c.stage \in {"Start", "Metadata", "Payload", "End", "Done"},
           c.status \in {"Incomplete", "Complete", "Invalid"},
           c.meta \in Seq(Symbol), c.bytes \in Nat, c.writerActive \in BOOLEAN
    PROVE  c \in Parser
<1>1. c = [stage |-> c.stage, status |-> c.status, meta |-> c.meta,
           bytes |-> c.bytes, writerActive |-> c.writerActive]
  BY DEF ParserFields
<1> QED BY <1>1 DEF Parser

\* The parser as it goes on from a call of the writer that succeeded.
Continued(n) == [p EXCEPT !.bytes = n, !.writerActive = TRUE]

LEMMA ContinuedFacts ==
    ASSUME p \in Parser, NEW n \in Nat
    PROVE  /\ Continued(n) \in Parser
           /\ Continued(n).stage = p.stage /\ Continued(n).meta = p.meta
           /\ Continued(n).bytes = n /\ Continued(n).writerActive
<1>1. ASSUME NEW v \in BOOLEAN, NEW c, c = [p EXCEPT !.bytes = n, !.writerActive = v]
      PROVE  /\ c \in Parser /\ c.stage = p.stage /\ c.meta = p.meta
             /\ c.bytes = n /\ c.writerActive = v
  <2>1. DOMAIN p = ParserFields
    BY ParserRecord
  <2>2. DOMAIN c = ParserFields /\ c = [k \in DOMAIN c |-> c[k]]
    BY <1>1, <2>1
  <2>3. c.stage = p.stage /\ c.status = p.status /\ c.meta = p.meta
    BY <1>1, <2>1 DEF ParserFields
  <2>4. c.bytes = n /\ c.writerActive = v
    BY <1>1, <2>1 DEF ParserFields
  <2>5. c.bytes \in Nat /\ c.writerActive \in BOOLEAN
    BY <2>4
  <2>6. c.stage \in {"Start", "Metadata", "Payload", "End", "Done"}
        /\ c.status \in {"Incomplete", "Complete", "Invalid"} /\ c.meta \in Seq(Symbol)
    BY <2>3 DEF Parser
  <2> QED BY <2>2, <2>3, <2>4, <2>5, <2>6, IsParser
<1>2. TRUE \in BOOLEAN
  OBVIOUS
<1> QED BY <1>1, <1>2, Zenon DEF Continued

\* ... and as it goes on to the next stage.
LEMMA AdvanceFacts ==
    ASSUME NEW q \in Parser
    PROVE  /\ q.stage # "Done" => Advance(q) \in Parser
           /\ Advance(q).meta = q.meta /\ Advance(q).bytes = q.bytes
           /\ q.stage \in {"Metadata", "Payload"} =>
                 /\ Advance(q).stage = IF q.stage = "Metadata" THEN "Payload" ELSE "End"
                 /\ Advance(q).status = "Incomplete"
                 /\ Advance(q).writerActive = q.writerActive
           /\ q.stage = "End" =>
                 /\ Advance(q).stage = "Done" /\ Advance(q).status = "Complete"
                 /\ Advance(q).writerActive = FALSE
<1>1. /\ DOMAIN q = ParserFields
      /\ q.stage \in {"Start", "Metadata", "Payload", "End", "Done"}
      /\ q.meta \in Seq(Symbol) /\ q.bytes \in Nat /\ q.writerActive \in BOOLEAN
  BY ParserRecord DEF Parser
<1>2. CASE q.stage = "End"
  <2>1. ASSUME NEW v \in BOOLEAN, NEW c,
               c = [q EXCEPT !.stage = "Done", !.status = "Complete", !.writerActive = v]
        PROVE  /\ c \in Parser /\ c.meta = q.meta /\ c.bytes = q.bytes
               /\ c.stage = "Done" /\ c.status = "Complete" /\ c.writerActive = v
    <3>1. DOMAIN c = ParserFields /\ c = [k \in DOMAIN c |-> c[k]]
      BY <1>1, <2>1
    <3>2. c.meta = q.meta /\ c.bytes = q.bytes
      BY <1>1, <2>1 DEF ParserFields
    <3>3. c.stage = "Done" /\ c.status = "Complete" /\ c.writerActive = v
      BY <1>1, <2>1 DEF ParserFields
    <3>4. c.writerActive \in BOOLEAN
      BY <3>3
    <3>5. c \in Parser
      BY <1>1, <3>1, <3>2, <3>3, <3>4, IsParser
    <3> QED BY <3>2, <3>3, <3>5
  <2>2. FALSE \in BOOLEAN
    OBVIOUS
  <2> QED BY <1>2, <2>1, <2>2, Zenon DEF Advance
<1>3. CASE q.stage # "End"
  <2>1. ASSUME NEW s, NEW c, c = [q EXCEPT !.stage = s, !.status = "Incomplete"]
        PROVE  /\ s \in {"Metadata", "Payload", "End"} => c \in Parser
               /\ c.meta = q.meta /\ c.bytes = q.bytes
               /\ c.stage = s /\ c.status = "Incomplete" /\ c.writerActive = q.writerActive
    <3>1. DOMAIN c = ParserFields /\ c = [k \in DOMAIN c |-> c[k]]
      BY <1>1, <2>1
    <3>2. c.meta = q.meta /\ c.bytes = q.bytes /\ c.writerActive = q.writerActive
      BY <1>1, <2>1 DEF ParserFields
    <3>3. c.stage = s /\ c.status = "Incomplete"
      BY <1>1, <2>1 DEF ParserFields
    <3>4. c.writerActive \in BOOLEAN
      BY <1>1, <3>2
    <3>5. s \in {"Metadata", "Payload", "End"} => c \in Parser
      BY <1>1, <3>1, <3>2, <3>3, <3>4, IsParser
    <3> QED BY <3>2, <3>3, <3>5
  <2>2. /\ q.stage = "Start" => NextStage[q.stage] = "Metadata"
        /\ q.stage = "Metadata" => NextStage[q.stage] = "Payload"
        /\ q.stage = "Payload" => NextStage[q.stage] = "End"
    BY DEF NextStage
  <2>3. Advance(q) = [q EXCEPT !.stage = NextStage[q.stage], !.status = "Incomplete"]
    BY <1>3 DEF Advance
  <2> DEFINE s == NextStage[q.stage]
             c == Advance(q)
  <2>4. c = [q EXCEPT !.stage = s, !.status = "Incomplete"]
    BY <2>3
  <2> HIDE DEF s, c
  <2>5. /\ s \in {"Metadata", "Payload", "End"} => c \in Parser
        /\ c.meta = q.meta /\ c.bytes = q.bytes
        /\ c.stage = s /\ c.status = "Incomplete" /\ c.writerActive = q.writerActive
    BY <2>1, <2>4, Zenon
  <2> QED BY <1>1, <1>3, <2>2, <2>5 DEF s, c
<1> QED BY <1>2, <1>3

\* begin() has succeeded.
LEMMA BegunStep ==
    ASSUME UploadInv, call = "begin", w.pc = "idle", w.ret = "ok", UNCHANGED writerVars,
           call' = "none", p' = Advance(Continued(p.bytes))
    PROVE  UploadInv'
<1>1. /\ IInv /\ p \in Parser /\ p.stage = "Metadata" /\ Announced /\ p.bytes = 0
      /\ w.active /\ w.expected = p.meta[3] /\ accepted = <<>>
  BY DEF UploadInv, ParserInv, ParserTypeOK, StageInv, InBegin, Fails
<1>2. 0 \in Nat /\ p.bytes = 0
  BY <1>1
<1>3. /\ p' \in Parser /\ p'.stage = "Payload" /\ p'.status = "Incomplete" /\ p'.meta = p.meta
      /\ p'.bytes = 0 /\ p'.writerActive
  <2> DEFINE q == Continued(p.bytes)
  <2>1. q \in Parser /\ q.stage = "Metadata" /\ q.meta = p.meta /\ q.bytes = 0 /\ q.writerActive
    BY <1>1, <1>2, ContinuedFacts
  <2>2. p' = Advance(q)
    OBVIOUS
  <2> HIDE DEF q
  <2> QED BY <2>1, <2>2, AdvanceFacts
<1>4. IInv'
  BY <1>1, InvNext
<1>5. ParserTypeOK' /\ StageInv'
  BY <1>1, <1>3 DEF ParserTypeOK, StageInv, Announced
<1>6. Between'
  <2>1. w' = w /\ accepted' = accepted /\ Len(accepted) = 0
    BY <1>1, EmptySeq DEF writerVars
  <2>2. w'.active = p'.writerActive
    BY <1>1, <1>3, <2>1, Zenon DEF IInv, WriterTypeOK, WriterState, Parser
  <2>3. w'.expected = p'.meta[3] /\ Len(accepted') = p'.bytes /\ p'.bytes < p'.meta[3]
    BY <1>1, <1>3, <2>1 DEF Announced
  <2> QED BY <2>1, <2>2, <2>3 DEF Between
<1>7. InBegin' /\ InByte' /\ InFinish' /\ InAbort' /\ CompleteInv'
  BY <1>3 DEF InBegin, InByte, InFinish, InAbort, CompleteInv
<1> QED BY <1>4, <1>5, <1>6, <1>7 DEF UploadInv, ParserInv

\* write() has succeeded.
LEMMA WrittenStep ==
    ASSUME UploadInv, call = "byte", w.pc = "idle", w.ret = "ok", UNCHANGED writerVars, call' = "none",
           p' = IF p.bytes + 1 # p.meta[3] THEN [Continued(p.bytes + 1) EXCEPT !.status = "Incomplete"]
                ELSE Advance(Continued(p.bytes + 1))
    PROVE  UploadInv'
<1>1. /\ IInv /\ p \in Parser /\ p.stage = "Payload" /\ Announced
      /\ w.active /\ w.expected = p.meta[3] /\ Len(accepted) = p.bytes + 1
  BY DEF UploadInv, ParserInv, ParserTypeOK, StageInv, InByte, Fails
<1>2. p.bytes \in Nat /\ p.bytes + 1 \in Nat /\ p.bytes + 1 <= p.meta[3] /\ p.meta[3] \in Nat
  BY <1>1, ActiveFacts DEF Parser, Announced
<1>3. /\ p' \in Parser /\ p'.meta = p.meta /\ p'.bytes = p.bytes + 1 /\ p'.writerActive
      /\ p'.status = "Incomplete"
      /\ p'.stage = IF p.bytes + 1 # p.meta[3] THEN "Payload" ELSE "End"
  <2> DEFINE q == Continued(p.bytes + 1)
  <2>1. /\ q \in Parser /\ q.stage = "Payload" /\ q.meta = p.meta /\ q.bytes = p.bytes + 1 /\ q.writerActive
    BY <1>1, <1>2, ContinuedFacts
  <2>2. p' = IF p.bytes + 1 # p.meta[3] THEN [q EXCEPT !.status = "Incomplete"] ELSE Advance(q)
    OBVIOUS
  <2> HIDE DEF q
  <2>3. CASE p.bytes + 1 # p.meta[3]
    BY <2>1, <2>2, <2>3, SMT DEF Parser
  <2>4. CASE p.bytes + 1 = p.meta[3]
    BY <2>1, <2>2, <2>4, AdvanceFacts
  <2> QED BY <2>3, <2>4
<1>4. IInv'
  BY <1>1, InvNext
<1>5. ParserTypeOK' /\ StageInv'
  BY <1>1, <1>3 DEF ParserTypeOK, StageInv, Announced
<1>6. Between'
  <2>1. w' = w /\ accepted' = accepted
    BY DEF writerVars
  <2>2. w'.active = p'.writerActive
    BY <1>1, <1>3, <2>1, Zenon DEF IInv, WriterTypeOK, WriterState, Parser
  <2>3. w'.expected = p'.meta[3] /\ Len(accepted') = p'.bytes
    BY <1>1, <1>3, <2>1
  <2>4. p'.stage = "Payload" => p'.bytes < p'.meta[3]
    BY <1>2, <1>3
  <2> QED BY <2>1, <2>2, <2>3, <2>4 DEF Between
<1>7. InBegin' /\ InByte' /\ InFinish' /\ InAbort' /\ CompleteInv'
  BY <1>3 DEF InBegin, InByte, InFinish, InAbort, CompleteInv
<1> QED BY <1>4, <1>5, <1>6, <1>7 DEF UploadInv, ParserInv

\* finish() has succeeded.
LEMMA FinishedStep ==
    ASSUME UploadInv, call = "finish", w.pc = "idle", w.ret = "ok", UNCHANGED writerVars,
           call' = "none", p' = Advance(Continued(p.bytes))
    PROVE  UploadInv'
<1>1. IInv /\ p \in Parser /\ p.stage = "End" /\ Delivered /\ ~w.active
  BY DEF UploadInv, ParserInv, ParserTypeOK, InFinish, Fails
<1>2. p.bytes \in Nat /\ p.meta \in Seq(Symbol)
  BY <1>1 DEF Parser
<1>3. p' \in Parser /\ p'.stage = "Done" /\ p'.status = "Complete" /\ ~p'.writerActive
  <2> DEFINE q == Continued(p.bytes)
  <2>1. q \in Parser /\ q.stage = "End"
    BY <1>1, <1>2, ContinuedFacts
  <2>2. p' = Advance(q)
    OBVIOUS
  <2> HIDE DEF q
  <2>3. /\ Advance(q) \in Parser /\ Advance(q).stage = "Done"
        /\ Advance(q).status = "Complete" /\ ~Advance(q).writerActive
    BY <2>1, AdvanceFacts
  <2> QED BY <2>2, <2>3, Zenon
<1>4. w'.active = p'.writerActive
  BY <1>1, <1>3, Zenon DEF writerVars, IInv, WriterTypeOK, WriterState, Parser
<1>5. IInv'
  BY <1>1, InvNext
<1>6. Delivered'
  BY <1>1 DEF Delivered, HeaderValid, PayloadAt, writerVars
<1>7. w' = w
  BY DEF writerVars
<1>8. ParserTypeOK' /\ StageInv'
  BY <1>3 DEF ParserTypeOK, StageInv
<1>9. Between' /\ InBegin' /\ InByte' /\ InFinish' /\ InAbort' /\ CompleteInv'
  BY <1>1, <1>3, <1>4, <1>6, <1>7 DEF Between, InBegin, InByte, InFinish, InAbort, CompleteInv
<1> QED BY <1>5, <1>8, <1>9 DEF UploadInv, ParserInv

LEMMA ChunkReturnsStep == ASSUME UploadInv, ChunkReturns PROVE UploadInv'
<1>1. CASE w.ret # "ok"
  <2>1. Reject /\ w.pc = "idle"
    BY <1>1 DEF ChunkReturns
  <2>2. ~w.active
    BY <1>1, <2>1 DEF ChunkReturns, UploadInv, ParserInv, InBegin, InByte, InFinish, Succeeded, Fails
  <2> QED BY <2>1, <2>2, RejectStep
<1>2. CASE w.ret = "ok"
  <2>1. CASE call = "begin"
    BY <1>2, <2>1, BegunStep DEF ChunkReturns, Continued
  <2>2. CASE call = "byte"
    BY <1>2, <2>2, WrittenStep DEF ChunkReturns, Continued
  <2>3. CASE call = "finish"
    BY <1>2, <2>3, FinishedStep DEF ChunkReturns, Continued
  <2> QED BY <2>1, <2>2, <2>3 DEF ChunkReturns
<1> QED BY <1>1, <1>2

LEMMA AbortReturnsStep == ASSUME UploadInv, AbortReturns PROVE UploadInv'
<1>1. /\ IInv /\ w.pc = "idle" /\ ~w.active /\ UNCHANGED writerVars /\ call' = "none"
      /\ p' = Fresh("Invalid") \/ p' = Fresh("Incomplete")
  BY DEF AbortReturns, UploadInv, ParserInv, InAbort
<1>2. IInv'
  BY <1>1, InvNext
<1> QED BY <1>1, <1>2, StartedOver DEF writerVars

LEMMA UploadPowerLossStep == ASSUME UploadInv, UploadPowerLoss PROVE UploadInv'
<1>1. IInv' /\ w' = Idle("none") /\ p' = Fresh("Incomplete") /\ call' = "none"
  BY WriterPowerLossStep DEF UploadInv, UploadPowerLoss, WriterPowerLoss
<1> QED BY <1>1, IdleFacts, StartedOver

-----------------------------------------------------------------------------
(* The theorems.                                                           *)

LEMMA UploadInvInit == ASSUME UploadInit PROVE UploadInv
<1>1. IInv /\ w.pc = "idle" /\ ~w.active /\ p = Fresh("Incomplete") /\ call = "none"
  BY InvInit, IdleFacts DEF UploadInit, WriterInit
<1>2. /\ p \in Parser /\ p.stage = "Start" /\ p.status = "Incomplete"
      /\ p.bytes = 0 /\ ~p.writerActive /\ Len(p.meta) = 0
  BY <1>1, FreshFacts
<1>3. ParserTypeOK /\ StageInv
  BY <1>1, <1>2 DEF ParserTypeOK, StageInv
<1>4. w.active = p.writerActive
  BY <1>1, <1>2, Zenon DEF IInv, WriterTypeOK, WriterState, Parser
<1>5. Between /\ InBegin /\ InByte /\ InFinish /\ InAbort /\ CompleteInv
  BY <1>1, <1>2, <1>4 DEF Between, InBegin, InByte, InFinish, InAbort, CompleteInv
<1> QED BY <1>1, <1>3, <1>5 DEF UploadInv, ParserInv

LEMMA UploadInvNext == ASSUME UploadInv, [UploadNext]_uploadVars PROVE UploadInv'
<1>1. CASE UNCHANGED uploadVars
  <2>1. /\ IInv /\ UNCHANGED writerVars /\ p' = p /\ call' = call
    BY <1>1 DEF uploadVars, UploadInv
  <2>2. IInv'
    BY <2>1, InvNext
  <2>3. UNCHANGED <<flash, w, faults, accepted, package>>
    BY <2>1 DEF writerVars
  <2>4. (Fresh("Invalid"))' = Fresh("Invalid")
    BY DEF Fresh
  <2>5. ParserInv'
    BY <2>1, <2>3, <2>4 DEF UploadInv, ParserInv, ParserTypeOK, StageInv, Announced, Between, InBegin, InByte,
       InFinish, InAbort, CompleteInv, Succeeded, Fails, Delivered, HeaderValid, PayloadAt
  <2> QED BY <2>2, <2>5 DEF UploadInv
<1>2. CASE UploadCommand
  BY <1>1, <1>2, ChunkStep, AbortCommandStep DEF UploadCommand, FinishAccepted, FinishRefused
<1>3. CASE UploadStep
  BY <1>3, WriterStepKeeps, ChunkReturnsStep, AbortReturnsStep DEF UploadStep
<1>4. CASE UploadPowerLoss
  BY <1>4, UploadPowerLossStep
<1> QED BY <1>1, <1>2, <1>3, <1>4 DEF UploadNext

\* Whatever commands and symbols a host sends, however the writer's operations
\* end and wherever power is lost, parser and writer stay together ...
THEOREM UploadCorrect == UploadSpec => []UploadInv
<1>1. UploadInit => UploadInv
  BY UploadInvInit
<1>2. UploadInv /\ [UploadNext]_uploadVars => UploadInv'
  BY UploadInvNext
<1> QED BY <1>1, <1>2, PTL DEF UploadSpec

\* ... so that between two commands they count the same bytes, and Finish is
\* answered Ok only for a package that is in the flash in full ...
THEOREM UploadIsConsistent == UploadSpec => []UploadConsistent
<1>1. UploadInv => UploadTypeOK
  BY DEF UploadInv, ParserInv, ParserTypeOK, Parser, IInv, UploadTypeOK
<1>2. UploadInv => CountersAgree
  <2> SUFFICES ASSUME UploadInv, Ready
               PROVE  /\ p.writerActive = w.active
                      /\ w.active => /\ p.bytes = Len(accepted)
                                     /\ w.written = Len(accepted)
                                     /\ w.expected = p.meta[3]
    BY DEF CountersAgree
  <2>1. /\ IInv /\ p \in Parser /\ StageInv /\ w.pc = "idle" /\ w.active = p.writerActive
        /\ p.stage \in {"Payload", "End"} => w.expected = p.meta[3] /\ Len(accepted) = p.bytes
    BY ReadyFacts
  <2>2. w.active => p.stage \in {"Payload", "End"}
    BY <2>1, ReadyFacts DEF StageInv, Parser
  <2>3. w.active => w.written = Len(accepted)
    BY <2>1 DEF IInv, CountInv
  <2> QED BY <2>1, <2>2, <2>3
<1>3. UploadInv => FinishMeansStaged
  BY DEF UploadInv, ParserInv, CompleteInv, Delivered, FinishMeansStaged
<1>4. UploadInv => UploadConsistent
  BY <1>1, <1>2, <1>3 DEF UploadConsistent
<1> QED BY <1>4, UploadCorrect, PTL

\* What the upload handler has the writer do, ...
LEMMA HandlerCalls ==
    ASSUME UploadCommand \/ ChunkReturns \/ AbortReturns
    PROVE  \/ \E n : Begin(n)
           \/ BeginUnopened
           \/ \E b \in Byte : Write(b)
           \/ Finish \/ Abort \/ UNCHANGED writerVars
<1>1. ASSUME Reject PROVE Abort \/ UNCHANGED writerVars
  BY <1>1 DEF Reject
<1>2. CASE UploadCommand
  <2>1. CASE \E x \in Symbol : Chunk(x)
    <3>1. PICK x \in Symbol : Chunk(x)
      BY <2>1
    <3>2. FeedStart(x) \/ FeedEnd(x) \/ FeedDone => Abort \/ Finish \/ UNCHANGED writerVars
      BY <1>1 DEF FeedStart, FeedEnd, FeedDone, Consumed
    <3>3. FeedMetadata(x) => Begin(x) \/ BeginUnopened \/ Abort \/ UNCHANGED writerVars
      BY <1>1 DEF FeedMetadata, Consumed
    <3>4. FeedPayload(x) => x \in Byte /\ Write(x)
      BY DEF FeedPayload
    <3> QED BY <3>1, <3>2, <3>3, <3>4, Zenon DEF Chunk
  <2> QED BY <1>2, <2>1, Zenon DEF UploadCommand, AbortCommand, FinishAccepted, FinishRefused, uploadVars
<1>3. CASE ChunkReturns \/ AbortReturns
  BY <1>1, <1>3, Zenon DEF ChunkReturns, AbortReturns
<1> QED BY <1>2, <1>3

\* ... and what any step of it is to the writer.
LEMMA WriterMoves ==
    ASSUME [UploadNext]_uploadVars
    PROVE  (\E n : Begin(n)) \/ [WriterNext]_writerVars
<1>1. CASE UploadCommand \/ ChunkReturns \/ AbortReturns
  BY <1>1, HandlerCalls, Zenon DEF WriterNext, WriterCall
<1>2. CASE WriterStep \/ UploadPowerLoss \/ UNCHANGED uploadVars
  BY <1>2 DEF UploadPowerLoss, uploadVars, WriterNext
<1> QED BY <1>1, <1>2 DEF UploadNext, UploadStep

\* Whatever the handler has the writer do, its blocks stay in place.
LEMMA UploadAligned ==
    ASSUME UploadInv, AlignedInv, [UploadNext]_uploadVars PROVE AlignedInv'
BY WriterMoves, AlignedBegin, AlignedNext DEF UploadInv

\* ... and nothing the protocol makes the writer do breaks what the writer
\* promises.
THEOREM UploadKeepsWriterSafe == UploadSpec => []WriterSafe
<1>1. UploadInit => AlignedInv
  BY IdleFacts DEF UploadInit, WriterInit, AlignedInv
<1>2. UploadSpec => [](UploadInv /\ AlignedInv)
  <2>1. UploadInit => UploadInv /\ AlignedInv
    BY <1>1, UploadInvInit
  <2>2. (UploadInv /\ AlignedInv) /\ [UploadNext]_uploadVars => (UploadInv /\ AlignedInv)'
    BY UploadInvNext, UploadAligned
  <2> QED BY <2>1, <2>2, PTL DEF UploadSpec
<1>3. UploadInv => CommitComplete
  BY CommitFacts DEF UploadInv, CommitComplete, PayloadAt
<1>4. UploadInv /\ AlignedInv => BlocksPlaced
  BY PlacedFacts DEF UploadInv, BlocksPlaced, Flushing
<1>5. UploadInv /\ AlignedInv => WriterSafe
  BY <1>3, <1>4 DEF UploadInv, IInv, WriterSafe
<1> QED BY <1>2, <1>5, PTL
=============================================================================
