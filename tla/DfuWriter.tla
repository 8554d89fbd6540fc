----------------------------- MODULE DfuWriter -----------------------------
(***************************************************************************)
(* The DFU payload writer: the buffered, sector-erasing flash writer every *)
(* firmware update goes through (common/src/dfu/writer) with the two       *)
(* variants that override its hooks, the staged writer of the running      *)
(* application (firmware/src/dfu/staged_update_writer, Staged = TRUE) and  *)
(* the direct writer of the bootloader (bootloader/src/dfu/                *)
(* direct_update_writer, Staged = FALSE).                                  *)
(*                                                                         *)
(* One action is one call of the writer up to its first flash operation,   *)
(* or one flash operation with the code that runs up to the next one, so   *)
(* that a power loss can fall between any two flash operations and inside  *)
(* every program operation.  A cell of the flash stands for one byte of    *)
(* payload or one 32-bit word of the header.                               *)
(***************************************************************************)
EXTENDS Integers, Sequences, FiniteSets

CONSTANTS
    Byte,         \* payload bytes
    Erased,       \* ERASED_BYTE, what an erased cell reads as
    Corrupt,      \* what a cell reads as after it is programmed twice
    StartWord,    \* START_COMMAND, the marker of a DFU header
    VersionWord,  \* FORMAT_VERSION
    UidWord,      \* OPENDECK_TARGET_UID
    Sectors,      \* Hwa::sector(0), sector(1), ...: [offset, size] records
    Native,       \* Hwa::write_block_size()
    MaxBlock,     \* MAX_FLASH_WRITE_BLOCK_SIZE
    HeaderSize,   \* HEADER_STORAGE_SIZE
    Staged,       \* TRUE in the application, FALSE in the bootloader
    MaxFaults     \* flash operations that may fail in one behaviour

VARIABLES
    flash,     \* the flash area, a function from offsets to cells
    w,         \* the members of DfuWriter, the flash operation under way (pc)
               \* and what the last call returned (ret)
    faults,    \* flash operations that have failed so far
    accepted,  \* history: the payload bytes of the active transfer
    package    \* history: the payload of the last transfer that was committed,
               \* until its header is erased or a new transfer overwrites it

writerVars == <<flash, w, faults, accepted, package>>

-----------------------------------------------------------------------------
(* Geometry.                                                               *)

SectorIndex == 1 .. Len(Sectors)

SectorEnd(i) == Sectors[i].offset + Sectors[i].size

\* Hwa::size().
AreaSize == IF Sectors = <<>> THEN 0 ELSE SectorEnd(Len(Sectors))

Offsets == 0 .. AreaSize - 1

\* payload_offset(): the staged writer keeps the first HeaderSize cells for
\* the header, the direct writer writes the image from the start of the slot.
PayloadOffset == IF Staged THEN HeaderSize ELSE 0

\* capacity()
Capacity == IF AreaSize <= PayloadOffset THEN 0 ELSE AreaSize - PayloadOffset

\* prepare(): a write block is a multiple of the native one that divides the
\* payload offset and the size of every sector ...
BlockCandidates ==
    {c \in 1 .. MaxBlock : /\ Native \in 1 .. c
                           /\ c % Native = 0
                           /\ PayloadOffset % c = 0
                           /\ \A i \in SectorIndex : Sectors[i].size % c = 0}

\* ... and prepare() fails when there is none, or the area has no sector.
Prepared == Sectors # <<>> /\ BlockCandidates # {}

\* The largest candidate is taken.
BlockSize == CHOOSE c \in BlockCandidates : \A d \in BlockCandidates : d <= c

\* The sectors that overlap [offset, offset + size).
Touched(offset, size) ==
    {i \in SectorIndex : offset < SectorEnd(i) /\ offset + size > Sectors[i].offset}

\* The sectors flash_area.sector() lists follow one another from the area's
\* start (the fourth conjunct follows from the one before it by an
\* induction over the list).
ASSUME GeometryAssumption ==
    /\ Sectors \in Seq([offset : Nat, size : Nat \ {0}])
    /\ \A i \in SectorIndex : i = 1 => Sectors[i].offset = 0
    /\ \A i \in SectorIndex : i > 1 => Sectors[i].offset = SectorEnd(i - 1)
    /\ \A i, j \in SectorIndex : i < j => SectorEnd(i) <= Sectors[j].offset
    /\ Native \in Nat \ {0}
    /\ MaxBlock \in Nat

\* The header is four words; its storage starts the area.
ASSUME HeaderAssumption ==
    /\ HeaderSize \in Nat
    /\ HeaderSize >= 4
    /\ Staged \in BOOLEAN
    /\ MaxFaults \in Nat

\* Erased cells are told apart from the words of a header and from what a
\* doubly programmed cell reads as.
ASSUME CellAssumption ==
    /\ Erased \notin {StartWord, VersionWord, UidWord, Corrupt}
    /\ Corrupt \notin {StartWord, VersionWord, UidWord}
    /\ Erased \notin Byte \cup Nat
    /\ Corrupt \notin Byte \cup Nat

Cell == Byte \cup Nat \cup {Erased, Corrupt, StartWord, VersionWord, UidWord}

-----------------------------------------------------------------------------
(* The flash device.                                                       *)

\* erase(): every cell of sector i.
EraseSector(f, i) ==
    [o \in Offsets |->
        IF Sectors[i].offset <= o /\ o < SectorEnd(i) THEN Erased ELSE f[o]]

\* write(): programming can only clear the bits of an erased cell.
Program(f, offset, data) ==
    [o \in Offsets |->
        IF offset <= o /\ o < offset + Len(data)
        THEN LET c == data[o - offset + 1]
             IN IF c = Erased THEN f[o] ELSE IF f[o] = Erased THEN c ELSE Corrupt
        ELSE f[o]]

\* A program operation that power loss or an error cuts short has programmed
\* some prefix of its data.
Torn(f, offset, data) ==
    {Program(f, offset, SubSeq(data, 1, k)) : k \in 0 .. Len(data)}

\* The header as commit() stores it, and what its first words say.
HeaderOf(n) == <<StartWord, VersionWord, UidWord, n>>

\* header_valid() of the stored header, when the area is large enough for one
\* to be read: the size word only has to be nonzero, which an erased one
\* (0xFFFFFFFF) is.
HeaderValid(f) ==
    /\ 3 \in DOMAIN f
    /\ f[0] = StartWord
    /\ f[1] = VersionWord
    /\ f[2] = UidWord
    /\ f[3] # 0

\* The payload of m cells starting at offset.
PayloadAt(f, offset, data) ==
    \A k \in 1 .. Len(data) : f[offset + k - 1] = data[k]

-----------------------------------------------------------------------------
(* The writer.                                                             *)

\* reset(), with ret the value the call returns to its caller.
Idle(ret) ==
    [active |-> FALSE, expected |-> 0, written |-> 0, next |-> 0, blk |-> <<>>,
     erased |-> 0, pc |-> "idle", scan |-> 0, ret |-> ret]

\* abort(): reset(), then cancel() when a transfer was active.  The staged
\* writer's cancel() erases the header; every abort the writer calls itself is
\* on the way to returning false.
Aborted(ret) ==
    IF w.active /\ Staged
    THEN [Idle(ret) EXCEPT !.pc = "cancel", !.scan = 1]
    ELSE Idle(ret)

\* Erasing, programming: may the next operation still fail?
MayFail == faults < MaxFaults

WriterInit ==
    /\ flash = [o \in Offsets |-> Erased]
    /\ w = Idle("none")
    /\ faults = 0
    /\ accepted = <<>>
    /\ package = <<>>

\* Mutant: the announced size is not compared with the capacity.
AcceptsAnySize(n) == n # 0 /\ Prepared

\* What begin() checks of the announced size and of the area.
Accepts(n) == n # 0 /\ Prepared /\ n <= Capacity

\* begin(header, n).  Nothing is published to the flash yet: the staged writer
\* goes on to erase the header, the direct one is ready.
Begin(n) ==
    /\ w.pc = "idle"
    /\ w' = IF Accepts(n)
            THEN [Idle(IF Staged THEN "none" ELSE "ok") EXCEPT
                    !.active = TRUE, !.expected = n, !.next = PayloadOffset,
                    !.pc = IF Staged THEN "eraseHeader" ELSE "idle", !.scan = 1]
            ELSE Idle("fail")
    /\ accepted' = <<>>
    /\ UNCHANGED <<flash, faults, package>>

\* begin() when the flash area cannot be opened.
BeginUnopened ==
    /\ w.pc = "idle"
    /\ MayFail
    /\ faults' = faults + 1
    /\ w' = Idle("fail")
    /\ accepted' = <<>>
    /\ UNCHANGED <<flash, package>>

\* Mutant: the index of erase_header_sector()'s loop is not advanced.
EraseHeaderSectorStuck ==
    /\ w.pc \in {"eraseHeader", "cancel"}
    /\ w.scan \in SectorIndex
    /\ flash' = EraseSector(flash, w.scan)
    /\ w' = IF SectorEnd(w.scan) < HeaderSize
            THEN w
            ELSE [w EXCEPT !.pc = "idle",
                           !.ret = IF w.pc = "eraseHeader" THEN "ok" ELSE @]
    /\ package' = <<>>
    /\ UNCHANGED <<faults, accepted>>

\* erase_header_sector(), one sector: from begin() ("eraseHeader") or from
\* cancel() ("cancel").  It goes on until HeaderSize cells are erased.
EraseHeaderSector ==
    /\ w.pc \in {"eraseHeader", "cancel"}
    /\ w.scan \in SectorIndex
    /\ flash' = EraseSector(flash, w.scan)
    /\ w' = IF SectorEnd(w.scan) < HeaderSize
            THEN [w EXCEPT !.scan = @ + 1]
            ELSE [w EXCEPT !.pc = "idle",
                           !.ret = IF w.pc = "eraseHeader" THEN "ok" ELSE @]
    /\ package' = <<>>
    /\ UNCHANGED <<faults, accepted>>

\* The same, failing: the sector does not exist, or its erase fails.  begin()
\* aborts the transfer; cancel() ignores the failure.
EraseHeaderFails ==
    /\ w.pc \in {"eraseHeader", "cancel"}
    /\ \/ w.scan \notin SectorIndex /\ UNCHANGED faults
       \/ w.scan \in SectorIndex /\ MayFail /\ faults' = faults + 1
    /\ w' = IF w.pc = "eraseHeader" THEN Aborted("fail") ELSE [w EXCEPT !.pc = "idle"]
    /\ accepted' = <<>>
    /\ UNCHANGED <<flash, package>>

\* write(), one byte: write_byte() buffers it, and a full block is flushed
\* before the call returns.
Write(b) ==
    /\ w.pc = "idle"
    /\ IF ~w.active \/ w.written = w.expected
       THEN /\ w' = Aborted("fail")
            /\ accepted' = <<>>
       ELSE /\ w' = LET full == Len(w.blk) + 1 = BlockSize
                    IN [w EXCEPT !.blk = Append(@, b),
                                 !.next = @ + 1,
                                 !.written = IF full THEN @ ELSE @ + 1,
                                 !.pc = IF full THEN "flush" ELSE "idle",
                                 !.scan = 1,
                                 !.ret = IF full THEN "none" ELSE "ok"]
            /\ accepted' = Append(accepted, b)
    /\ UNCHANGED <<flash, faults, package>>

\* finish(): a transfer that is short is aborted, a partial block is padded
\* with erased cells and flushed, then the transfer is committed.
Finish ==
    /\ w.pc = "idle"
    /\ w' = IF ~w.active \/ w.written # w.expected
            THEN Aborted("fail")
            ELSE IF w.blk = <<>>
                 THEN [w EXCEPT !.pc = "commit", !.ret = "none"]
                 ELSE [w EXCEPT !.pc = "lastFlush", !.scan = 1, !.ret = "none",
                                !.next = @ + BlockSize - Len(w.blk),
                                !.blk = [k \in 1 .. BlockSize |->
                                            IF k <= Len(w.blk) THEN w.blk[k]
                                            ELSE Erased]]
    /\ accepted' = IF w.active /\ w.written = w.expected THEN accepted ELSE <<>>
    /\ UNCHANGED <<flash, faults, package>>

\* abort(), called by the parser.
Abort ==
    /\ w.pc = "idle"
    /\ w' = Aborted("ok")
    /\ accepted' = <<>>
    /\ UNCHANGED <<flash, faults, package>>

\* write_block(): the block that is flushed and the sectors erase_range() has
\* still to erase for it.  A sector is skipped when it is the one erased last.
BlockOffset == w.next - Len(w.blk)

BlockInRange ==
    /\ BlockOffset % BlockSize = 0
    /\ w.next <= AreaSize
    /\ Touched(BlockOffset, Len(w.blk)) # {}

\* Mutant: the sector the previous block was in is erased again.
ToEraseAgain == {i \in Touched(BlockOffset, Len(w.blk)) : i >= w.scan}

ToErase ==
    {i \in Touched(BlockOffset, Len(w.blk)) : i >= w.scan /\ i # w.erased}

\* erase_range(), one sector, in the order the area lists them.
EraseBlockSector ==
    /\ w.pc \in {"flush", "lastFlush"}
    /\ BlockInRange
    /\ \E i \in ToErase :
          /\ \A j \in ToErase : i <= j
          /\ flash' = EraseSector(flash, i)
          /\ w' = [w EXCEPT !.erased = i, !.scan = i + 1]
    /\ package' = IF Staged THEN package ELSE <<>>
    /\ UNCHANGED <<faults, accepted>>

\* The write that ends write_block(); a write() that flushed counts its byte.
ProgramBlock ==
    /\ w.pc \in {"flush", "lastFlush"}
    /\ BlockInRange
    /\ ToErase = {}
    /\ flash' = Program(flash, BlockOffset, w.blk)
    /\ w' = IF w.pc = "flush"
            THEN [w EXCEPT !.blk = <<>>, !.pc = "idle", !.ret = "ok",
                           !.written = @ + 1]
            ELSE [w EXCEPT !.blk = <<>>, !.pc = "commit"]
    /\ UNCHANGED <<faults, accepted, package>>

\* write_block() failing: the block is misplaced, an erase fails, or the write
\* fails part of the way.  write() and finish() abort the transfer.
FlushFails ==
    /\ w.pc \in {"flush", "lastFlush"}
    /\ \/ ~BlockInRange /\ UNCHANGED <<flash, faults>>
       \/ /\ BlockInRange
          /\ MayFail
          /\ faults' = faults + 1
          /\ flash' \in IF ToErase = {} THEN Torn(flash, BlockOffset, w.blk)
                        ELSE {flash}
    /\ w' = Aborted("fail")
    /\ accepted' = <<>>
    /\ UNCHANGED package

\* commit(): the staged writer writes the header, last of all; then reset().
\* The direct writer has nothing to write.
Commit ==
    /\ w.pc = "commit"
    /\ Staged => HeaderSize % Native = 0
    /\ flash' = IF Staged THEN Program(flash, 0, HeaderOf(w.expected)) ELSE flash
    /\ package' = accepted
    /\ accepted' = <<>>
    /\ w' = Idle("ok")
    /\ UNCHANGED faults

\* commit() failing: finish() aborts the transfer, which erases what was written.
CommitFails ==
    /\ w.pc = "commit"
    /\ Staged
    /\ \/ HeaderSize % Native # 0 /\ UNCHANGED <<flash, faults, package>>
       \/ /\ HeaderSize % Native = 0
          /\ MayFail
          /\ faults' = faults + 1
          /\ flash' \in Torn(flash, 0, HeaderOf(w.expected))
          /\ package' = accepted
    /\ accepted' = <<>>
    /\ w' = Aborted("fail")

\* Power is lost: RAM is gone, the program operation under way, if any, has
\* programmed a prefix of its data.  A sector erase is taken to be atomic.
WriterPowerLoss ==
    /\ flash' \in
          CASE w.pc \in {"flush", "lastFlush"} /\ BlockInRange /\ ToErase = {} ->
                 Torn(flash, BlockOffset, w.blk)
            [] w.pc = "commit" /\ Staged /\ HeaderSize % Native = 0 ->
                 Torn(flash, 0, HeaderOf(w.expected))
            [] OTHER -> {flash}
    /\ package' = IF w.pc = "commit" THEN accepted ELSE package
    /\ w' = Idle("none")
    /\ accepted' = <<>>
    /\ UNCHANGED faults

\* One flash operation of the call under way, with the code up to the next.
WriterStep ==
    \/ EraseHeaderSector \/ EraseHeaderFails
    \/ EraseBlockSector  \/ ProgramBlock \/ FlushFails
    \/ Commit \/ CommitFails

WriterCall ==
    \/ \E n \in 0 .. AreaSize + 1 : Begin(n)
    \/ BeginUnopened
    \/ \E b \in Byte : Write(b)
    \/ Finish
    \/ Abort

WriterNext == WriterCall \/ WriterStep \/ WriterPowerLoss

WriterSpec == WriterInit /\ [][WriterNext]_writerVars
-----------------------------------------------------------------------------
(* Properties.                                                             *)

PCs == {"idle", "eraseHeader", "cancel", "flush", "lastFlush", "commit"}

WriterState ==
    [active : BOOLEAN, expected : Nat, written : Nat, next : Nat,
     blk : Seq(Byte \cup {Erased}), erased : 0 .. Len(Sectors),
     pc : PCs, scan : Nat, ret : {"none", "ok", "fail"}]

\* The type invariant of the writer and of the flash area it owns.
WriterTypeOK ==
    /\ flash \in [Offsets -> Cell]
    /\ w \in WriterState
    /\ faults \in 0 .. MaxFaults
    /\ accepted \in Seq(Byte)
    /\ package \in Seq(Byte)

\* When commit() runs, every byte the transfer announced is in the flash, in
\* its place: DfuWriter::finish() commits nothing it has not flushed, and no
\* erase_range() on the way has erased a block that was written before.
CommitComplete ==
    w.pc = "commit" =>
        /\ Len(accepted) = w.expected
        /\ PayloadAt(flash, PayloadOffset, accepted)

\* A staged header that is wholly written stands for a whole payload, whatever
\* failed and wherever power was lost since: StagedUpdateWriter erases it
\* before the first byte of a new payload and writes it after the last.  (A
\* torn header reads as an impossible size instead.)
PackageComplete ==
    Staged /\ HeaderValid(flash) /\ flash[3] # Erased =>
        /\ flash[3] = Len(package)
        /\ PayloadAt(flash, HeaderSize, package)

\* No cell is programmed twice between two erases, the assumption the flash
\* device makes of write_block() and write_header(): the sector remembered in
\* _erased_sector really is the only one that need not be erased again.
NeverOverprogrammed == \A o \in Offsets : flash[o] # Corrupt

\* Every block the writer flushes starts where a block may and lies in the
\* area, the padded last one too: the checks of write_block() and erase_range()
\* never refuse one, so a transfer only fails when the flash does.
BlocksPlaced == w.pc \in {"flush", "lastFlush"} => BlockInRange

\* What a finished transfer is worth: no block was misplaced, everything accepted is in the flash when the package
\* is committed, a header in the flash announces what is there, and the flash was erased before it was programmed.
WriterSafe == BlocksPlaced /\ CommitComplete /\ PackageComplete /\ NeverOverprogrammed
=============================================================================
