------------------------------- MODULE FileIO -------------------------------
(***************************************************************************)
(* The stream loops of fastjson_file_encode and fastjson_file_decode.      *)
(*                                                                         *)
(* Every php_stream_* call may run PHP code, the methods of a userspace    *)
(* wrapper or an error handler.  That code may report any count, throw,    *)
(* end the request (a bailout), or try to close the very stream the loop   *)
(* works on.  ApiCalls models what the two functions do to the error       *)
(* state; this module is about the stream and the bytes.                   *)
(***************************************************************************)
EXTENDS Integers, Sequences

CONSTANT MaxBytes      \* bound on the bytes of one file

ASSUME BytesAssumption == MaxBytes \in Nat

VARIABLES
  pc,         \* idle, or the stream call that is next
  io,         \* locals of the running function
  stream,     \* the php_stream
  moved,      \* the bytes, by number, that reached the file or were read
  exc,        \* EG(exception) is set
  outcome     \* how the last call ended

vars == <<pc, io, stream, moved, exc, outcome>>

\* stdio, a plain file: read by php_stream_copy_to_mem.
Kinds == {"stdio", "user"}

\* closes counts how often the stream was destroyed.
NoStream == [closes |-> 0, in_free |-> FALSE, no_fclose |-> FALSE]

NoCall == [op |-> "none"]

NoOutcome == [how |-> "none"]

Init ==
  /\ pc = "idle" /\ io = NoCall /\ stream = NoStream /\ moved = << >>
  /\ exc = FALSE /\ outcome = NoOutcome

-----------------------------------------------------------------------------
(* What PHP code does inside a stream call (external). *)

\* fclose() respects both marks; pclose() only the one of a stream in free.
ClosedBy(by) ==
  IF ~ stream.in_free /\ (by = "pclose" \/ (by = "fclose" /\ ~ stream.no_fclose))
    THEN [stream EXCEPT !.closes = @ + 1] ELSE stream

\* The stream call returns, and has perhaps thrown.
Returns(throws) ==
  /\ \E by \in {"none", "fclose", "pclose"} : stream' = ClosedBy(by)
  /\ exc' = (exc \/ throws)
  /\ UNCHANGED outcome

\* PHP code does not run while an exception is pending: the call fails.
Counts(rest) == IF exc THEN {-1} ELSE -1 .. rest + 1

-----------------------------------------------------------------------------
(* The functions *)

Ends(how) ==
  /\ outcome' = [how |-> how, op |-> io.op, threw |-> exc', bailed |-> io'.bailed,
                 opened |-> io.opened, closes |-> stream'.closes,
                 whole |-> Len(moved) = io.total, lost |-> io'.lost]
  /\ pc' = "idle"

\* lost: the stream failed to flush or close, whatever the function noticed.
Call(op, total, kind) ==
  [op |-> op, total |-> total, kind |-> kind, done |-> 0, n |-> 0, opened |-> FALSE,
   wrote_all |-> FALSE, can_flush |-> FALSE, flushed |-> TRUE, closed |-> TRUE,
   read_failed |-> FALSE, bailed |-> FALSE, saved_no_fclose |-> FALSE,
   lost |-> FALSE]

\* The JSON is made before the file is opened, so it has at least one byte.
Start ==
  /\ pc = "idle"
  /\ \E op \in {"encode", "decode"}, total \in 0 .. MaxBytes, kind \in Kinds :
       /\ op = "encode" => total > 0
       /\ io' = Call(op, total, kind)
  /\ pc' = "open"
  /\ moved' = << >> /\ stream' = NoStream /\ exc' = FALSE /\ outcome' = NoOutcome

OpenFails ==
  /\ pc = "open"
  /\ exc' \in BOOLEAN
  /\ UNCHANGED <<io, stream, moved>>
  /\ Ends(IF exc' THEN "throw" ELSE "fail")

OpenBails ==
  /\ pc = "open"
  /\ io' = [io EXCEPT !.bailed = TRUE]
  /\ UNCHANGED <<stream, moved, exc>>
  /\ Ends("bailout")

\* The stream is marked against destruction by callbacks.
Marked_FcloseOnly(no_fclose) == [closes |-> 0, in_free |-> FALSE, no_fclose |-> TRUE]

Marked(no_fclose) == [closes |-> 0, in_free |-> TRUE, no_fclose |-> TRUE]

OpenSucceeds ==
  /\ pc = "open"
  /\ \E no_fclose \in BOOLEAN, can_flush \in BOOLEAN :
       /\ io.kind = "stdio" => can_flush
       /\ stream' = Marked(no_fclose)
       /\ io' = [io EXCEPT !.opened = TRUE, !.saved_no_fclose = no_fclose,
                           !.can_flush = can_flush]
  /\ pc' = IF io.op = "encode" THEN "write" ELSE "read"
  /\ UNCHANGED <<moved, exc, outcome>>

Bytes_FromStart(n) == [i \in 1 .. n |-> i]

\* the n bytes after the ones done
Bytes(n) == [i \in 1 .. n |-> io.done + i]

\* done after a write that reports n, over-reported counts included
Progress(n) == IF n >= io.total - io.done THEN io.total ELSE io.done + n

\* php_stream_write; a count beyond what was offered moves no more bytes.
Write ==
  /\ pc = "write"
  /\ \E n \in Counts(io.total - io.done), throws \in BOOLEAN :
       /\ Returns(throws)
       /\ moved' = moved \o Bytes(IF n > io.total - io.done THEN io.total - io.done ELSE n)
       /\ io' = [io EXCEPT !.n = n]
  /\ pc' = "wrote"

\* no progress
Stalls_OnlyOnError(n) == n < 0

Stalls(n) == n <= 0

\* The rest of the round, and what follows the loop.
Wrote ==
  /\ pc = "wrote"
  /\ LET d == IF Stalls(io.n) THEN io.done ELSE Progress(io.n) IN
       /\ io' = [io EXCEPT !.done = d, !.wrote_all = (d = io.total)]
       /\ pc' = IF ~ Stalls(io.n) /\ d < io.total THEN "write"
                ELSE IF d = io.total /\ io.can_flush /\ ~ exc THEN "flush" ELSE "close"
  /\ UNCHANGED <<stream, moved, exc, outcome>>

Flushed_Ignored(ok) == TRUE

\* flush_res == 0
Flushed(ok) == ok

Flush ==
  /\ pc = "flush"
  /\ \E ok \in BOOLEAN, throws \in BOOLEAN :
       Returns(throws) /\ io' = [io EXCEPT !.flushed = Flushed(ok), !.lost = ~ ok]
  /\ pc' = "close"
  /\ UNCHANGED moved

(***************************************************************************)
(* fastjson_read_stream.  A plain file is read in one go, and has been     *)
(* read whole exactly when it is at its end.                               *)
(***************************************************************************)
ReadStdio ==
  /\ pc = "read" /\ io.kind = "stdio"
  /\ \E n \in 0 .. io.total, throws \in BOOLEAN :
       /\ throws => n < io.total
       /\ Returns(throws)
       /\ moved' = Bytes(n)
       /\ io' = [io EXCEPT !.done = n, !.read_failed = (n < io.total)]
  /\ pc' = "close"

ReadFails(got, eof) == got < 0 \/ ~ eof

\* php_stream_read of a chunk.
ReadChunk ==
  /\ pc = "read" /\ io.kind = "user"
  /\ \E got \in IF exc THEN {-1} ELSE -1 .. io.total - io.done, throws \in BOOLEAN :
       /\ Returns(throws)
       /\ moved' = moved \o Bytes(got)
       /\ io' = [io EXCEPT !.n = got]
  /\ pc' = "got"

GotBytes ==
  /\ pc = "got" /\ io.n > 0
  /\ io' = [io EXCEPT !.done = @ + io.n]
  /\ pc' = "read"
  /\ UNCHANGED <<stream, moved, exc, outcome>>

(***************************************************************************)
(* php_stream_eof is asked, and its PHP code run, only when the read did   *)
(* not fail; the stream does not claim its end too early.                  *)
(***************************************************************************)
GotNothing ==
  /\ pc = "got" /\ io.n <= 0
  /\ \E eof \in BOOLEAN, throws \in BOOLEAN :
       /\ eof /\ io.n = 0 => io.done = io.total
       /\ IF io.n < 0 THEN UNCHANGED <<stream, exc, outcome>> ELSE Returns(throws)
       /\ io' = [io EXCEPT !.read_failed = ReadFails(io.n, eof)]
  /\ pc' = "close"
  /\ UNCHANGED moved

\* A callback ends the request; zend_catch takes over.
CallbackBails ==
  /\ pc \in {"write", "flush", "read"} \/ (pc = "got" /\ io.n = 0)
  /\ \E by \in {"none", "fclose", "pclose"} : stream' = ClosedBy(by)
  /\ io' = [io EXCEPT !.bailed = TRUE]
  /\ pc' = "close"
  /\ UNCHANGED <<moved, exc, outcome>>

\* The marks are undone, in_free last: php_stream_close heeds it.
Unmarked == [stream EXCEPT !.no_fclose = io.saved_no_fclose, !.in_free = FALSE]

\* php_stream_close (external): the PHP code it runs finds the stream in free.
Closed(s) == IF s.in_free THEN s ELSE [s EXCEPT !.closes = @ + 1]

EncodeEnds_FailureFirst ==
  IF ~ io.wrote_all \/ ~ io.flushed \/ ~ io'.closed THEN "fail"
  ELSE IF exc' THEN "throw" ELSE "ok"

EncodeEnds ==
  IF exc' THEN "throw"
  ELSE IF ~ io.wrote_all \/ ~ io.flushed \/ ~ io'.closed THEN "fail" ELSE "ok"

\* fastjson_read_and_close_stream ignores the result of the close.
DecodeEnds == IF exc' THEN "throw" ELSE IF io.read_failed THEN "fail" ELSE "ok"

Close ==
  /\ pc = "close"
  /\ stream' = Closed(Unmarked)
  /\ \E ok \in BOOLEAN, throws \in BOOLEAN :
       /\ io' = [io EXCEPT !.closed = ok, !.lost = @ \/ ~ ok]
       /\ exc' = (exc \/ throws)
       /\ Ends(IF io.bailed THEN "bailout" ELSE IF io.op = "encode" THEN EncodeEnds ELSE DecodeEnds)
  /\ UNCHANGED moved

Step ==
  \/ OpenFails \/ OpenBails \/ OpenSucceeds
  \/ Write \/ Wrote \/ Flush \/ ReadStdio \/ ReadChunk \/ GotBytes \/ GotNothing
  \/ CallbackBails \/ Close

Next == Start \/ Step

\* The loops never block, and the PHP code they run returns or is stopped.
Spec == Init /\ [][Next]_vars /\ WF_vars(Step)

-----------------------------------------------------------------------------
(* Properties *)

(***************************************************************************)
(* Types; the position of both loops stays within the data, over-reported  *)
(* counts included.                                                        *)
(***************************************************************************)
TypeOK ==
  /\ pc \in {"idle", "open", "write", "wrote", "flush", "read", "got", "close"}
  /\ exc \in BOOLEAN
  /\ moved \in Seq(1 .. MaxBytes)
  /\ stream \in [closes : Nat, in_free : BOOLEAN, no_fclose : BOOLEAN]
  /\ pc # "idle" => io.done \in 0 .. io.total

(***************************************************************************)
(* No stream call touches a destroyed stream, whatever the callbacks tried *)
(* to close, and the function destroys it exactly once, also when it fails *)
(* or the request ends inside a callback.                                  *)
(***************************************************************************)
ClosedExactlyOnce ==
  /\ pc \notin {"idle", "open"} => stream.closes = 0
  /\ outcome # NoOutcome => outcome.closes = IF outcome.opened THEN 1 ELSE 0

\* The bytes arrive in order, none twice and none left out.
InOrder == \A i \in 1 .. Len(moved) : moved[i] = i

(***************************************************************************)
(* Success means that every byte was moved and, for a written file, that   *)
(* the flush and the close succeeded too.                                  *)
(***************************************************************************)
SuccessIsWhole ==
  outcome # NoOutcome /\ outcome.how = "ok" =>
    /\ outcome.whole
    /\ outcome.op = "encode" => ~ outcome.lost

(***************************************************************************)
(* An exception from a callback of any phase reaches the caller, and a     *)
(* bailout is re-raised: neither is turned into a result.                  *)
(***************************************************************************)
NothingSwallowed ==
  outcome # NoOutcome =>
    /\ outcome.how = "bailout" <=> outcome.bailed
    /\ outcome.how = "throw" <=> outcome.threw /\ ~ outcome.bailed

\* Every call ends, however the wrapper splits or refuses the bytes.
Terminates == pc # "idle" ~> pc = "idle"

-----------------------------------------------------------------------------
(* The inductive invariant of the proofs *)

Locals ==
  [op : {"encode", "decode"}, total : 0 .. MaxBytes, kind : Kinds, done : 0 .. MaxBytes,
   n : Int, opened : BOOLEAN, wrote_all : BOOLEAN, can_flush : BOOLEAN, flushed : BOOLEAN,
   closed : BOOLEAN, read_failed : BOOLEAN, bailed : BOOLEAN, saved_no_fclose : BOOLEAN,
   lost : BOOLEAN]

InLoop == {"write", "wrote", "flush", "read", "got", "close"}

\* The stream is in free from the open to the close, and only then.
Holding ==
  /\ pc = "open" => ~ io.opened /\ stream = NoStream
  /\ pc \in InLoop => io.opened /\ stream = Marked(FALSE)

(***************************************************************************)
(* How many bytes were moved, at each point of the loops; and what the     *)
(* flags say of that once they are over.                                   *)
(***************************************************************************)
Position ==
  /\ pc \in {"open", "write", "read"} => Len(moved) = io.done
  /\ pc = "open" => io.done = 0
  /\ pc = "read" /\ io.kind = "stdio" => io.done = 0
  /\ pc \in {"write", "wrote", "flush"} => io.op = "encode"
  /\ pc \in {"read", "got"} => io.op = "decode"
  /\ pc = "wrote" => Len(moved) = IF Stalls(io.n) THEN io.done ELSE Progress(io.n)
  /\ pc = "got" => /\ io.kind = "user"
                   /\ Len(moved) = io.done + IF io.n > 0 THEN io.n ELSE 0
                   /\ io.n <= io.total - io.done
  /\ pc \in {"flush", "close"} /\ ~ io.bailed =>
       /\ io.op = "encode" /\ io.wrote_all => Len(moved) = io.total
       /\ io.op = "decode" /\ ~ io.read_failed => Len(moved) = io.total

Running ==
  pc # "idle" =>
    /\ outcome = NoOutcome /\ io \in Locals /\ io.done <= io.total
    /\ pc # "close" => ~ io.bailed
    /\ io.lost => ~ io.flushed

FileInv ==
  /\ TypeOK /\ InOrder /\ ClosedExactlyOnce /\ SuccessIsWhole /\ NothingSwallowed
  /\ Running /\ Holding /\ Position

=============================================================================
