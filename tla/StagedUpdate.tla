---------------------------- MODULE StagedUpdate ----------------------------
(***************************************************************************)
(* A firmware update from end to end: the running application stages an    *)
(* uploaded package and asks for the bootloader, MCUboot picks the image   *)
(* to start, the OpenDeck bootloader installs a staged package into the    *)
(* application slot (bootloader/src/dfu/staged_update_reader) or, in       *)
(* recovery, takes an upload straight into the slot.  Power may be lost at *)
(* any point.  One image runs at a time, so the RAM of the upload handler  *)
(* (w, p, call) is that of the running image.                              *)
(***************************************************************************)
EXTENDS Integers, Sequences, FiniteSets

CONSTANTS
    Byte, Erased, Corrupt, StartWord, VersionWord, UidWord, EndWord, Junk, Sizes,
    StagedSectors, SlotSectors,   \* the two flash areas
    Native, MaxBlock, HeaderSize, MaxFaults,
    BufferSize,                   \* BUFFER_SIZE of the staged-update reader
    Payloads,                     \* the payloads hosts upload ...
    Signed,                       \* ... and those MCUboot accepts
    Factory,                      \* the image a device leaves the factory with
    MaxLosses                     \* power losses in one behaviour

VARIABLES
    mode,       \* the running image: "app", "loader", or "halt" (MCUboot
                \* found nothing to start)
    reboot,     \* the delayed reboot that is scheduled: "none", "app", "loader"
    staged,     \* staged_dfu_partition
    slot,       \* slot0_partition
    w, p, call, faults, accepted,   \* of the upload handler
    stagedPkg,  \* history: the package whose header was written last
    slotPkg,    \* history: what the direct writer committed last
    reader,     \* the staged-update reader: [pc, offset, size, buf, result]
    losses,     \* power losses so far
    source      \* history: the staged package the slot was last rewritten
                \* from, <<>> when that was a recovery upload (or never)

handlerVars == <<w, p, call, faults, accepted>>
vars == <<mode, reboot, losses, staged, slot, handlerVars, stagedPkg, slotPkg,
          reader, source>>

App == INSTANCE DfuUpload WITH
    flash <- staged, package <- stagedPkg, Staged <- TRUE, Sectors <- StagedSectors

Ldr == INSTANCE DfuUpload WITH
    flash <- slot, package <- slotPkg, Staged <- FALSE, Sectors <- SlotSectors

appVars == <<staged, stagedPkg>>
slotVars == <<slot, slotPkg>>

-----------------------------------------------------------------------------
(* The constants.                                                          *)

\* The sectors of a flash area follow one another from its start (the last
\* conjunct follows from the one before it by an induction over the list).
Contiguous(sectors) ==
    LET index  == 1 .. Len(sectors)
        end(i) == sectors[i].offset + sectors[i].size
    IN /\ sectors \in Seq([offset : Nat, size : Nat \ {0}])
       /\ \A i \in index : i = 1 => sectors[i].offset = 0
       /\ \A i \in index : i > 1 => sectors[i].offset = end(i - 1)
       /\ \A i, j \in index : i < j => end(i) <= sectors[j].offset

ASSUME FlashAssumption ==
    /\ Contiguous(StagedSectors) /\ Contiguous(SlotSectors)
    /\ Native \in Nat \ {0} /\ MaxBlock \in Nat
    /\ HeaderSize \in Nat /\ HeaderSize >= 4
    /\ BufferSize \in Nat \ {0}
    /\ MaxFaults \in Nat /\ MaxLosses \in Nat

\* Erased cells are told apart from the words of a header and from what a
\* doubly programmed cell reads as.
ASSUME WordAssumption ==
    /\ Erased \notin {StartWord, VersionWord, UidWord, Corrupt} \cup Byte \cup Nat
    /\ Corrupt \notin {StartWord, VersionWord, UidWord} \cup Byte \cup Nat
    /\ Sizes \subseteq Nat

\* A device leaves the factory with an image that fits the slot and starts.
ASSUME FactoryAssumption ==
    /\ Factory \subseteq Signed
    /\ \A img \in Factory : /\ img \in Seq(Byte) \ {<<>>}
                            /\ Len(img) <= Ldr!AreaSize

-----------------------------------------------------------------------------
\* MCUboot validates the image in the slot by its signature (external).
SlotValid == \E img \in Signed : Ldr!PayloadAt(slot, 0, img)

NoReader == [pc |-> "off", offset |-> 0, size |-> 0, buf |-> <<>>, result |-> FALSE]

\* The bootloader starts by looking for a staged update.
ReaderFor(m) == IF m = "loader" THEN [NoReader EXCEPT !.pc = "header"] ELSE NoReader

\* A word of the stored header that was never programmed reads as 0xFFFFFFFF:
\* more than any slot holds.
StoredSize == IF staged[3] = Erased THEN Ldr!AreaSize + 1 ELSE staged[3]

Init ==
    /\ mode = "app"
    /\ reboot = "none"
    /\ slotPkg \in Factory
    /\ slot = [o \in Ldr!Offsets |-> IF o < Len(slotPkg) THEN slotPkg[o + 1] ELSE Erased]
    /\ App!UploadInit
    /\ reader = NoReader
    /\ losses = 0
    /\ source = <<>>

\* Hosts upload payloads of the bounded set, in streams that may be malformed,
\* short or cut off anywhere.
HostPayload ==
    \E pkg \in Payloads : /\ Len(accepted') <= Len(pkg)
                          /\ accepted' = SubSeq(pkg, 1, Len(accepted'))

-----------------------------------------------------------------------------
(* The application.                                                        *)

AppCommand ==
    /\ mode = "app"
    /\ App!UploadCommand
    /\ HostPayload
    /\ UNCHANGED <<mode, reboot, losses, slotVars, reader, source>>

\* FirmwareUploadHandler::handle_frame(): a Finish answered Ok has the system
\* schedule the reboot into the bootloader.
AppFinish ==
    /\ mode = "app"
    /\ App!FinishAccepted
    /\ reboot' = "loader"
    /\ UNCHANGED <<mode, losses, slotVars, reader, source>>

AppStep ==
    /\ mode = "app"
    /\ App!UploadStep
    /\ UNCHANGED <<mode, reboot, losses, slotVars, reader, source>>

-----------------------------------------------------------------------------
(* The bootloader: StagedUpdateReader::consume().                          *)

Consuming == mode = "loader" /\ reader.pc # "off"

\* Mutant: the marker is cleared before the package is copied.
ReaderHeaderClearsFirst ==
    /\ Consuming
    /\ reader.pc = "header"
    /\ IF App!HeaderValid(staged)
       THEN /\ Ldr!Begin(StoredSize)
            /\ reader' = [reader EXCEPT !.pc = "begin", !.size = StoredSize]
            /\ staged' = [staged EXCEPT ![0] = Erased]
       ELSE /\ reader' = NoReader
            /\ UNCHANGED <<staged, slotVars, w, faults, accepted>>
    /\ UNCHANGED <<mode, reboot, losses, stagedPkg, p, call, source>>

\* The header is read; without a valid one, or when the staged area cannot be
\* opened or read, the bootloader goes on to its recovery transports.
ReaderHeader ==
    /\ Consuming
    /\ reader.pc = "header"
    /\ \/ /\ App!HeaderValid(staged)
          /\ Ldr!Begin(StoredSize) \/ Ldr!BeginUnopened
          /\ reader' = [reader EXCEPT !.pc = "begin", !.size = StoredSize]
       \/ /\ ~App!HeaderValid(staged)
          /\ reader' = NoReader
          /\ UNCHANGED <<slotVars, w, faults, accepted>>
       \/ /\ App!MayFail
          /\ faults' = faults + 1
          /\ reader' = NoReader
          /\ UNCHANGED <<slotVars, w, accepted>>
    /\ UNCHANGED <<mode, reboot, losses, appVars, p, call, source>>

\* The direct writer returned to the reader.
ReaderReturns ==
    /\ Consuming
    /\ reader.pc \in {"begin", "write", "finish"}
    /\ w.pc = "idle"
    /\ reader' =
         IF w.ret # "ok" THEN [reader EXCEPT !.pc = "clear", !.result = FALSE]
         ELSE IF reader.pc = "finish" THEN [reader EXCEPT !.pc = "clear", !.result = TRUE]
         ELSE [reader EXCEPT !.pc = "copy"]
    /\ UNCHANGED <<mode, reboot, losses, appVars, slotVars, handlerVars, source>>

\* Mutant: the payload is read over and over.
ReaderReadRepeats ==
    /\ Consuming
    /\ reader.pc = "copy" /\ reader.buf = <<>> /\ reader.offset < reader.size
    /\ reader' = [reader EXCEPT !.buf = <<staged[HeaderSize]>>]
    /\ UNCHANGED <<mode, reboot, losses, appVars, slotVars, handlerVars, source>>

\* The next chunk is read into the buffer.
ReaderRead ==
    /\ Consuming
    /\ reader.pc = "copy" /\ reader.buf = <<>> /\ reader.offset < reader.size
    /\ LET left  == reader.size - reader.offset
           chunk == IF left < BufferSize THEN left ELSE BufferSize
       IN reader' = [reader EXCEPT
                       !.buf = [k \in 1 .. chunk |->
                                   staged[HeaderSize + reader.offset + k - 1]],
                       !.offset = @ + chunk]
    /\ UNCHANGED <<mode, reboot, losses, appVars, slotVars, handlerVars, source>>

\* The read fails: the marker is cleared and consume() returns true.
ReaderReadFails ==
    /\ Consuming
    /\ reader.pc = "copy" /\ reader.buf = <<>> /\ reader.offset < reader.size
    /\ App!MayFail
    /\ faults' = faults + 1
    /\ reader' = [reader EXCEPT !.pc = "clearAfterRead", !.result = TRUE]
    /\ UNCHANGED <<mode, reboot, losses, appVars, slotVars, w, p, call,
                   accepted, source>>

\* The chunk is written, byte by byte.
ReaderWrite ==
    /\ Consuming
    /\ reader.pc = "copy" /\ reader.buf # <<>>
    /\ Ldr!Write(Head(reader.buf))
    /\ reader' = [reader EXCEPT !.buf = Tail(@), !.pc = "write"]
    /\ UNCHANGED <<mode, reboot, losses, appVars, p, call, source>>

ReaderFinish ==
    /\ Consuming
    /\ reader.pc = "copy" /\ reader.buf = <<>> /\ reader.offset = reader.size
    /\ Ldr!Finish
    /\ reader' = [reader EXCEPT !.pc = "finish"]
    /\ UNCHANGED <<mode, reboot, losses, appVars, p, call, source>>

\* clear_pending(): the first sector of the staged area is erased.  A failure
\* only counts after an installation that succeeded.
ReaderClear ==
    /\ Consuming
    /\ reader.pc \in {"clear", "clearAfterRead"}
    /\ \/ /\ staged' = App!EraseSector(staged, 1)
          /\ stagedPkg' = <<>>
          /\ reader' = [reader EXCEPT !.pc = "done"]
          /\ UNCHANGED faults
       \/ /\ App!MayFail
          /\ faults' = faults + 1
          /\ reader' = [reader EXCEPT !.pc = "done",
                                      !.result = @ /\ reader.pc = "clearAfterRead"]
          /\ UNCHANGED appVars
    /\ UNCHANGED <<mode, reboot, losses, slotVars, w, p, call, accepted, source>>

\* The running image is cut short, possibly inside a flash operation: RAM is
\* gone, MCUboot picks the image to start.
Restart(request) ==
    /\ IF mode = "app" THEN App!UploadPowerLoss /\ UNCHANGED slotVars
                       ELSE Ldr!UploadPowerLoss /\ UNCHANGED appVars
    /\ mode' = IF request THEN "loader" ELSE IF SlotValid' THEN "app" ELSE "halt"
    /\ reboot' = "none"
    /\ reader' = ReaderFor(mode')
    /\ UNCHANGED source

\* System::init(): reboot into the application when consume() returned true,
\* else start the recovery transports.
ReaderDone ==
    /\ Consuming
    /\ reader.pc = "done"
    /\ IF reader.result
       THEN Restart(FALSE) /\ UNCHANGED losses
       ELSE /\ reader' = NoReader
            /\ UNCHANGED <<mode, reboot, losses, appVars, slotVars, handlerVars,
                           source>>

-----------------------------------------------------------------------------
(* The bootloader's recovery transports, and what ends every image.        *)

\* The direct writer's commit() schedules the reboot into the application.
LoaderStep ==
    /\ mode = "loader"
    /\ IF reader.pc = "off"
       THEN Ldr!UploadStep
       ELSE Ldr!WriterStep /\ UNCHANGED <<p, call>>
    /\ reboot' = IF w.pc = "commit" /\ w'.ret = "ok" THEN "app" ELSE reboot
    /\ source' = IF w'.erased \in {w.erased, 0} THEN source
                 ELSE IF reader.pc = "off" THEN <<>> ELSE stagedPkg
    /\ UNCHANGED <<mode, losses, appVars, reader>>

LoaderCommand ==
    /\ mode = "loader"
    /\ reader.pc = "off"
    /\ Ldr!UploadCommand
    /\ HostPayload
    /\ UNCHANGED <<mode, reboot, losses, appVars, reader, source>>

\* The scheduled reboot, whatever the upload handler is doing: mcu.reboot()
\* retains the boot mode MCUboot then reads and clears.
Reboot ==
    /\ reboot # "none"
    /\ Restart(reboot = "loader")
    /\ UNCHANGED losses

\* Power is lost and comes back, the bootloader button pressed or not; the
\* retained boot mode is lost with it.
PowerLoss ==
    /\ losses < MaxLosses
    /\ losses' = losses + 1
    /\ \E button \in BOOLEAN : Restart(button)

\* The bootloader can also be asked for by a configuration command.
RebootRequest ==
    /\ mode = "app"
    /\ Restart(TRUE)
    /\ UNCHANGED losses

\* With no image to start, the user resets the device with the button pressed.
ButtonEntry ==
    /\ mode = "halt"
    /\ Restart(TRUE)
    /\ UNCHANGED losses

ReaderStep ==
    \/ ReaderHeader \/ ReaderReturns \/ ReaderRead \/ ReaderReadFails
    \/ ReaderWrite \/ ReaderFinish \/ ReaderClear \/ ReaderDone

Next ==
    \/ AppCommand \/ AppFinish \/ AppStep
    \/ ReaderStep
    \/ LoaderStep \/ LoaderCommand
    \/ Reboot \/ RebootRequest \/ PowerLoss \/ ButtonEntry

\* The threads and the work queue run what they have to run; the host and the
\* power supply owe nothing.
Spec ==
    /\ Init
    /\ [][Next]_vars
    /\ WF_vars(AppStep)
    /\ WF_vars(ReaderStep)
    /\ WF_vars(LoaderStep)
    /\ WF_vars(Reboot)

-----------------------------------------------------------------------------
(* Properties.                                                             *)

\* A staged package that is whole.
StagedWhole(pkg) ==
    /\ App!HeaderValid(staged)
    /\ staged[3] = Len(pkg)
    /\ App!PayloadAt(staged, HeaderSize, pkg)

\* The type invariant: that of the upload handler belongs to the running image.
TypeOK ==
    /\ mode \in {"app", "loader", "halt"}
    /\ reboot \in {"none", "app", "loader"}
    /\ IF mode = "app" THEN App!UploadTypeOK ELSE Ldr!UploadTypeOK
    /\ staged \in [App!Offsets -> App!Cell]
    /\ slot \in [Ldr!Offsets -> Ldr!Cell]
    /\ stagedPkg \in Seq(Byte) /\ slotPkg \in Seq(Byte) /\ source \in Seq(Byte)
    /\ reader \in [pc : {"off", "header", "begin", "copy", "write", "finish", "clear",
                         "clearAfterRead", "done"},
                   offset : Nat, size : Nat, buf : Seq(Byte), result : BOOLEAN]
    /\ losses \in 0 .. MaxLosses

\* The bootloader overwrites the application only with a package that is whole
\* in the staged area: a header torn by a power loss never starts an
\* installation (its size reads as 0xFFFFFFFF, which begin() refuses).
OnlyWholePackagesInstalled ==
    mode = "loader" /\ reader.pc \in {"copy", "write", "finish"} =>
        StagedWhole(stagedPkg) /\ reader.size = Len(stagedPkg)

\* While the slot holds no image MCUboot would start because an installation
\* was cut short, the staged package it came from is still whole, so that
\* entering the bootloader again completes it.  (Only for a package MCUboot
\* accepts, and as long as the flash itself has not failed.)
InterruptedInstallCanResume ==
    source \in Signed /\ ~SlotValid /\ faults = 0 => StagedWhole(source)

\* An installation that succeeded has put the whole package in the slot.
InstalledInFull ==
    reader.pc = "clear" /\ reader.result =>
        App!PayloadAt(slot, 0, source) /\ slotPkg = source

\* Neither flash area is programmed twice between two erases, across uploads,
\* installations, aborts, power losses and failures.
NeverOverprogrammed == App!NeverOverprogrammed /\ Ldr!NeverOverprogrammed

\* An installation starts from a whole package only, leaves one to start over from while it is under way, and
\* ends with the whole package in a slot that was erased before it was programmed.
InstallSafe ==
    /\ TypeOK
    /\ OnlyWholePackagesInstalled
    /\ InterruptedInstallCanResume
    /\ InstalledInFull
    /\ NeverOverprogrammed

\* Once the bootloader has started with a good package staged, and neither
\* power nor flash fails any more, the device ends up running it.
StagedUpdateInstalled ==
    (/\ reader.pc = "header"
     /\ stagedPkg \in Signed
     /\ StagedWhole(stagedPkg)
     /\ losses = MaxLosses
     /\ faults = MaxFaults)
    ~> (mode = "app" /\ source \in Signed /\ App!PayloadAt(slot, 0, source))

\* consume() "returns true when a staged update was found and consumed", after
\* which the bootloader reboots into the application.
ConsumedMeansInstalled ==
    reader.pc = "done" /\ reader.result => slotPkg = source

\* The update as its user sees it: UpdateContract.
Contract == INSTANCE UpdateContract WITH
    Payload <- Seq(Byte),
    image <- slotPkg,
    startable <- SlotValid,
    pending <- IF App!HeaderValid(staged) /\ staged[3] # Erased
               THEN stagedPkg ELSE <<>>,
    recovering <- source = <<>>,
    faulty <- faults > 0

ImplementsContract == Contract!Spec
=============================================================================
