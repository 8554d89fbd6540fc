----------------------------- MODULE DfuUpload -----------------------------
(***************************************************************************)
(* The upload protocol (common/src/dfu/upload) over the dfu.bin stream     *)
(* parser (common/src/dfu/dfu_stream_parser) over the payload writer.      *)
(* Both images run it: the application with the staged writer, the         *)
(* bootloader with the direct one.                                         *)
(*                                                                         *)
(* The host feeds one symbol of dfu.bin at a time, a 32-bit word of the    *)
(* header or of the footer or one byte of the payload: how a transport     *)
(* cuts dfu.bin into chunks changes nothing of what the parser does.       *)
(***************************************************************************)
EXTENDS DfuWriter

CONSTANTS
    EndWord,   \* END_COMMAND, the footer
    Junk,      \* any other word
    Sizes      \* sizes a header announces, zero and too large ones among them

VARIABLES
    p,     \* the members of DfuStreamParser
    call   \* the call of the parser or of Upload that waits for the writer

uploadVars == <<writerVars, p, call>>

ASSUME SizesAssumption == Sizes \subseteq Nat

Symbol == Byte \cup Sizes \cup {StartWord, VersionWord, UidWord, EndWord, Junk}

\* DfuStreamParser::reset(), with the status it leaves behind.
Fresh(status) ==
    [stage |-> "Start", status |-> status, meta |-> <<>>,
     bytes |-> 0, writerActive |-> FALSE]

UploadInit ==
    /\ WriterInit
    /\ p = Fresh("Incomplete")
    /\ call = "none"

\* No command is handled while another one is.
Ready == call = "none" /\ w.pc = "idle"

\* advance_stage(): the stages in order; the footer ends the stream.
NextStage == [Start |-> "Metadata", Metadata |-> "Payload", Payload |-> "End", End |-> "Done"]

Advance(q) ==
    IF q.stage = "End"
    THEN [q EXCEPT !.stage = "Done", !.status = "Complete", !.writerActive = FALSE]
    ELSE [q EXCEPT !.stage = NextStage[q.stage], !.status = "Incomplete"]

\* A word the parser keeps in _header: only whether it is the one expected
\* there matters.
Kept(x, meta) ==
    LET expected == <<VersionWord, UidWord, x>>
    IN IF x = expected[Len(meta) + 1] THEN x ELSE Junk

\* header_valid(): the start word was matched before.
MetaValid(meta) == meta[1] = VersionWord /\ meta[2] = UidWord /\ meta[3] \in Nat \ {0}

\* reject(): abort an active writer, forget the stream, remember Invalid until
\* the next Begin or Finish.
Reject ==
    /\ IF p.writerActive THEN Abort ELSE UNCHANGED writerVars
    /\ call' = IF p.writerActive THEN "reject" ELSE "none"
    /\ p' = Fresh("Invalid")

\* The writer is called and the parser waits for it.
Wait(c) == call' = c /\ UNCHANGED p

\* feed() consuming x without a call of the writer.
Consumed(q) == p' = q /\ UNCHANGED <<writerVars, call>>

\* process_start()
FeedStart(x) ==
    /\ p.stage = "Start"
    /\ IF x = StartWord THEN Consumed(Advance(p)) ELSE Reject

\* process_metadata(): version, target and size; the third word begins the
\* transfer when the header is valid.
FeedMetadata(x) ==
    /\ p.stage = "Metadata"
    /\ LET meta == Append(p.meta, Kept(x, p.meta))
       IN IF Len(meta) < 3 THEN Consumed([p EXCEPT !.meta = meta])
          ELSE IF MetaValid(meta)
               THEN /\ Begin(x) \/ BeginUnopened
                    /\ p' = [p EXCEPT !.meta = meta]
                    /\ call' = "begin"
               ELSE Reject

\* process_payload()
FeedPayload(x) == p.stage = "Payload" /\ x \in Byte /\ Write(x) /\ Wait("byte")

\* process_end(): the footer finishes the transfer.
FeedEnd(x) ==
    /\ p.stage = "End"
    /\ IF x = EndWord THEN Finish /\ Wait("finish") ELSE Reject

\* A byte past the footer.
FeedDone == p.stage = "Done" /\ Reject

\* handle_chunk(), one symbol of it.  The ACK is Failed when the parser ends up
\* Invalid; an Invalid parser consumes nothing.  (An empty chunk, like any frame
\* of the wrong length, is answered BadRequest and changes nothing.)
Chunk(x) ==
    /\ Ready
    /\ p.status # "Invalid"
    /\ \/ FeedStart(x) \/ FeedMetadata(x) \/ FeedPayload(x) \/ FeedEnd(x)
       \/ FeedDone

\* Mutant: the result of finish() is not looked at.
ChunkReturnsUnchecked ==
    /\ call \in {"begin", "byte", "finish"}
    /\ w.pc = "idle"
    /\ IF w.ret = "ok" \/ call = "finish"
       THEN LET bytes == IF call = "byte" THEN p.bytes + 1 ELSE p.bytes
                q     == [p EXCEPT !.bytes = bytes, !.writerActive = TRUE]
            IN /\ p' = IF call = "byte" /\ bytes # p.meta[3]
                       THEN [q EXCEPT !.status = "Incomplete"] ELSE Advance(q)
               /\ call' = "none"
               /\ UNCHANGED writerVars
       ELSE Reject

\* feed() going on when the writer has returned to it.
ChunkReturns ==
    /\ call \in {"begin", "byte", "finish"}
    /\ w.pc = "idle"
    /\ IF w.ret = "ok"
       THEN LET bytes == IF call = "byte" THEN p.bytes + 1 ELSE p.bytes
                q     == [p EXCEPT !.bytes = bytes, !.writerActive = TRUE]
            IN /\ p' = IF call = "byte" /\ bytes # p.meta[3]
                       THEN [q EXCEPT !.status = "Incomplete"] ELSE Advance(q)
               /\ call' = "none"
               /\ UNCHANGED writerVars
       ELSE Reject

\* handle_begin(), handle_abort(): abort whatever transfer is under way.
AbortCommand(command) ==
    /\ Ready
    /\ Abort
    /\ call' = command
    /\ UNCHANGED p

\* The end of DfuStreamParser::abort(), called by Begin, Abort and Finish, and of
\* reject().
AbortReturns ==
    /\ call \in {"Begin", "Abort", "Finish", "reject"}
    /\ w.pc = "idle"
    /\ p' = IF call = "reject" THEN p ELSE Fresh("Incomplete")
    /\ call' = "none"
    /\ UNCHANGED writerVars

\* handle_finish(): Ok, and "finished", only for a stream the parser has
\* completed, which changes nothing here ...
FinishAccepted == Ready /\ p.status = "Complete" /\ UNCHANGED uploadVars

\* ... anything else is answered Failed and aborted.
FinishRefused ==
    /\ p.status # "Complete"
    /\ AbortCommand("Finish")

UploadCommand ==
    \/ \E x \in Symbol : Chunk(x)
    \/ \E c \in {"Begin", "Abort"} : AbortCommand(c)
    \/ FinishAccepted
    \/ FinishRefused

\* The handler of the command under way.
UploadStep ==
    \/ WriterStep /\ UNCHANGED <<p, call>>
    \/ ChunkReturns
    \/ AbortReturns

\* Power loss: the parser starts over.
UploadPowerLoss ==
    /\ WriterPowerLoss
    /\ p' = Fresh("Incomplete")
    /\ call' = "none"

UploadNext == UploadCommand \/ UploadStep \/ UploadPowerLoss

\* The transport's thread runs the handler it has started to its end.
UploadSpec ==
    /\ UploadInit
    /\ [][UploadNext]_uploadVars
    /\ WF_uploadVars(UploadStep)
-----------------------------------------------------------------------------
(* Properties.                                                             *)

\* The type invariant of the upload handler.
UploadTypeOK ==
    /\ WriterTypeOK
    /\ p \in [stage : {"Start", "Metadata", "Payload", "End", "Done"},
              status : {"Incomplete", "Complete", "Invalid"},
              meta : Seq(Symbol), bytes : Nat, writerActive : BOOLEAN]
    /\ call \in {"none", "begin", "byte", "finish", "reject", "Begin", "Abort", "Finish"}

\* Between two commands the parser and the writer agree: the parser holds an
\* active transfer exactly when the writer does, and both have counted the
\* bytes that were accepted (each keeps a _bytes_written of its own, reset on
\* different paths, and the ACK quotes the parser's).
CountersAgree ==
    Ready => /\ p.writerActive = w.active
             /\ w.active => /\ p.bytes = Len(accepted)
                            /\ w.written = Len(accepted)
                            /\ w.expected = p.meta[3]

\* While the parser's status is Complete, which is all handle_finish() looks at
\* to answer Ok, the package is in the flash in full and its header with it.
FinishMeansStaged ==
    p.status = "Complete" =>
        /\ Staged => HeaderValid(flash) /\ flash[3] = Len(package)
        /\ package # <<>>
        /\ PayloadAt(flash, PayloadOffset, package)

\* Every command is answered: the erase loops, the aborts they lead to and the
\* parser's continuation come to an end (or power is lost).
CommandAnswered == call # "none" ~> call = "none"

\* The parser, the writer and the flash tell the same story, whatever stream of commands and symbols a host
\* sends: their types, the counters of both, and what the answer to Finish promises.
UploadConsistent == UploadTypeOK /\ CountersAgree /\ FinishMeansStaged
=============================================================================
