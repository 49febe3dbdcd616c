------------------------------ MODULE ApiCalls ------------------------------
(***************************************************************************)
(* Calls of the extension's functions, with the PHP code they run.         *)
(*                                                                         *)
(* fastjson_encode, fastjson_file_encode, fastjson_file_decode and         *)
(* fastjson_pointer_set call back into PHP: jsonSerialize(), property      *)
(* hooks, destructors, and the methods of a userspace stream wrapper.      *)
(* That code may call any function of the extension again, throw, end the  *)
(* request, or suspend the Fiber it runs in, so frames of several fibers   *)
(* finish in any order.  All of them share one recorded error.             *)
(*                                                                         *)
(* Between two actions control is in PHP code of the fiber `cur'; every    *)
(* frame on a stack waits in a callback.  A call that happens to run no    *)
(* callback is one whose frame finishes at once.                           *)
(***************************************************************************)
EXTENDS ErrorState, Sequences, SequencesExt

CONSTANTS
  Fibers,     \* the main program and its fibers
  MaxFrames   \* bound: frames waiting at once, over all fibers

ASSUME FiberAssumption == Fibers # {} /\ MaxFrames \in Nat

VARIABLES
  err,        \* FASTJSON_G(last_err_*)
  stack,      \* per fiber, the frames waiting in a callback, innermost last
  cur,        \* the fiber whose PHP code runs
  ret         \* the call that has just returned to PHP code, or NoCall

vars == <<err, stack, cur, ret>>

Callers == {"encode", "file_encode", "file_decode", "pointer_set"}
Phases  == {"encoding", "opening", "io"}

(***************************************************************************)
(* A frame: the effective throw mode, its saved_err, the error of its own  *)
(* encode so far (encode_err, operation_err or replacement_err), and the   *)
(* kind of callback it waits in.  entry, the error at the moment of the    *)
(* call, is only for the properties.                                       *)
(***************************************************************************)
Frame == [fn : Callers, throw : BOOLEAN, saved : Errors, own : Errors,
          phase : Phases, entry : Errors]

NoCall == [throw |-> FALSE, kind |-> "none", own |-> NoError,
           thrown |-> None, entry |-> NoError]

Top == stack[cur][Len(stack[cur])]
InCallback == Len(stack[cur]) > 0

\* What the properties need of a finished call; entry only in throw mode.
Report(throw, entry, r) ==
  [throw |-> throw, kind |-> r.kind, own |-> r.own, thrown |-> r.thrown,
   entry |-> IF throw THEN entry ELSE NoError]

-----------------------------------------------------------------------------
Init ==
  /\ err = NoError
  /\ stack = [f \in Fibers |-> << >>]
  /\ cur \in Fibers
  /\ ret = NoCall

\* A call that runs no PHP code.
Atomic(throw, outcomes) ==
  \E r \in outcomes :
    /\ err' = r.err
    /\ ret' = Report(throw, err, r)
    /\ UNCHANGED <<stack, cur>>

CallDecode(throw)         == Atomic(throw, fastjson_decode(throw, err))
CallValidate              == Atomic(FALSE, fastjson_validate(FALSE, err))
CallPointerGet(throw)     == Atomic(throw, fastjson_pointer_get(throw, err))
CallPointerExists(throw)  == Atomic(throw, fastjson_pointer_exists(throw, err))
CallMergePatch(throw)     == Atomic(throw, fastjson_merge_patch(throw, err))

-----------------------------------------------------------------------------
(* Entering a call that runs PHP code. *)

Waiting == Cardinality(UNION {{f} \X DOMAIN stack[f] : f \in Fibers})

Enter(fn, throw, phase) ==
  /\ Waiting < MaxFrames
  /\ err' = throw_mode_init(throw, err)
  /\ stack' = [stack EXCEPT ![cur] = Append(@,
       [fn |-> fn, throw |-> throw, saved |-> err, own |-> NoError,
        phase |-> phase, entry |-> err])]
  /\ ret' = NoCall
  /\ UNCHANGED cur

\* $depth wider than int: refused before the error state is touched.
EncodeDepthRejected(throw) ==
  Atomic(throw, {Result(err, "value", NoError)})

CallEncode(throw) ==
  Enter("encode", throw, "encoding") \/ EncodeDepthRejected(throw)

CallFileEncode(throw) ==
  Enter("file_encode", throw, "encoding") \/ EncodeDepthRejected(throw)

CallFileDecode(throw) ==
  \/ Enter("file_decode", throw, "opening")
  \/ Atomic(throw, {DepthRejected(throw, err)})

\* Depth, document and pointer are checked before the value is encoded.
CallPointerSet(throw) ==
  \/ Enter("pointer_set", throw, "encoding")
  \/ Atomic(throw,
       {DepthRejected(throw, err)} \cup Unread(throw, err) \cup Misdirected(throw, err))

-----------------------------------------------------------------------------
(* The innermost frame of the running fiber resumes. *)

Leave(r) ==
  /\ err' = r.err
  /\ ret' = Report(Top.throw, Top.entry, r)
  /\ stack' = [stack EXCEPT ![cur] = Front(@)]
  /\ UNCHANGED cur

GoOn(own, phase, e) ==
  /\ err' = e
  /\ stack' = [stack EXCEPT ![cur][Len(stack[cur])].own = own,
                            ![cur][Len(stack[cur])].phase = phase]
  /\ ret' = NoCall
  /\ UNCHANGED cur

(***************************************************************************)
(* dw_set_error writes the globals as well as the writer's own state, so   *)
(* PHP code the encoder runs next (more callbacks of a partial output, or  *)
(* destructors of a failing one) sees it and may overwrite it again.       *)
(***************************************************************************)
EncoderMeetsError ==
  /\ InCallback /\ Top.phase = "encoding"
  /\ \E c \in EncodeErrs : GoOn(StateOf(c), "encoding", set_error_code(err, c))

(***************************************************************************)
(* How the direct writer ends: own is encode_err, made whether bytes came  *)
(* out.  Its error is never cleared.  Bytes with an error are partial      *)
(* output, which JSON_PARTIAL_OUTPUT_ON_ERROR allows; for encode and       *)
(* file_encode that flag switches throw mode off, for pointer_set it does  *)
(* not.                                                                    *)
(***************************************************************************)
WriterErrs == {NoError} \cup {StateOf(c) : c \in EncodeErrs}

WriterEnds(own, made) ==
  /\ Top.own # NoError => own # NoError
  /\ own = NoError => made
  /\ made /\ own # NoError => ~ Top.throw \/ Top.fn = "pointer_set"

\* fastjson_do_encode publishes the outcome before it looks at the result.
do_encode_LeaksNested(own) == err

do_encode(own) == IF Top.throw THEN Top.saved ELSE own

\* The call has produced its bytes; own tells complete from partial output.
Encoded(e, own) == Result(e, IF own = NoError THEN "ok" ELSE "partial", own)

EncodeFailed(own) ==
  IF Top.throw THEN throw_error(own.code, Top.saved, own)
               ELSE Result(do_encode(own), "fail", own)

EncodeReturns ==
  /\ InCallback /\ Top.fn = "encode" /\ Top.phase = "encoding"
  /\ \E own \in WriterErrs, made \in BOOLEAN :
       /\ WriterEnds(own, made)
       /\ Leave(IF made THEN Encoded(do_encode(own), own) ELSE EncodeFailed(own))

\* file_encode opens the file only once it has bytes to write.
FileEncodeEncodes ==
  /\ InCallback /\ Top.fn = "file_encode" /\ Top.phase = "encoding"
  /\ \E own \in WriterErrs, made \in BOOLEAN :
       /\ WriterEnds(own, made)
       /\ IF made THEN GoOn(own, "opening", do_encode(own)) ELSE Leave(EncodeFailed(own))

(***************************************************************************)
(* PHP code run by the encoder throws.  Outside throw mode the outer call  *)
(* still reports its own state; in throw mode, as in ext/json, whatever    *)
(* the callbacks left stays.                                               *)
(***************************************************************************)
EncoderThrows ==
  /\ InCallback /\ Top.phase = "encoding"
  /\ Leave(Result(IF Top.throw THEN err ELSE Top.own, "user", Top.own))

-----------------------------------------------------------------------------
(* file_encode and file_decode around their stream. *)

IoError == StateOf("SYNTAX")

Restored == IF Top.throw THEN Top.saved ELSE Top.own

\* The wrapper's open() throws, or a read, write, flush or close does.
StreamThrows ==
  /\ InCallback /\ Top.phase \in {"opening", "io"}
  /\ Leave(Result(Restored, "stream", Top.own))

\* Neither an open nor a transfer failure throws a JsonException.
StreamFails ==
  /\ InCallback /\ Top.phase \in {"opening", "io"}
  /\ Leave(Result(set_error_code(err, "SYNTAX"), "io", IoError))

StreamOpened ==
  /\ InCallback /\ Top.phase = "opening"
  /\ GoOn(Top.own, "io", err)

FileEncodeReturns ==
  /\ InCallback /\ Top.fn = "file_encode" /\ Top.phase = "io"
  /\ Leave(Encoded(Restored, Top.own))

\* The bytes are in memory and the stream is closed: parse and walk them.
FileDecoded_Keeps(r) == r

FileDecoded(r) == IF Top.throw /\ r.kind = "ok" THEN [r EXCEPT !.err = Top.saved] ELSE r

FileDecodeReturns ==
  /\ InCallback /\ Top.fn = "file_decode" /\ Top.phase = "io"
  /\ \E r \in {ReadFailed(Top.throw, Top.saved, err, e) : e \in ReadErrs}
           \cup {finish_decode(Top.throw, Top.saved, err, w) : w \in WalkErrs \cup {None}} :
       Leave(FileDecoded(r))

-----------------------------------------------------------------------------
(* pointer_set once the replacement is encoded. *)

\* Outside throw mode the replacement's error is published first.
ReplacementPublished(own) == IF Top.throw THEN err ELSE own

PointerSetFailed_Current(own) ==
  IF Top.throw THEN throw_error(err.code, Top.saved, own)
               ELSE Result(ReplacementPublished(own), "fail", own)

PointerSetFailed(own) ==
  IF Top.throw THEN throw_error(own.code, Top.saved, own)
               ELSE Result(ReplacementPublished(own), "fail", own)

\* Partial output of the replacement stays visible in throw mode.
PointerSetDone(own) ==
  Encoded(IF Top.throw THEN (IF own.code # None THEN own ELSE Top.saved)
                       ELSE ReplacementPublished(own), own)

PointerSetReturns ==
  /\ InCallback /\ Top.fn = "pointer_set" /\ Top.phase = "encoding"
  /\ \E own \in WriterErrs, made \in BOOLEAN :
       /\ WriterEnds(own, made)
       /\ \E r \in IF made
                     THEN {PointerSetDone(own)} \cup
                          {splice_dispatch_error(Top.throw, Top.saved,
                             ReplacementPublished(own), c) : c \in SpliceErrs}
                     ELSE {PointerSetFailed(own)} :
            Leave(r)

-----------------------------------------------------------------------------
(* The PHP program and the request. *)

\* A fiber suspends or another is resumed.
SwitchFiber ==
  /\ \E f \in Fibers \ {cur} : cur' = f
  /\ ret' = NoCall
  /\ UNCHANGED <<err, stack>>

\* A fatal error unwinds every fiber; shutdown functions run afterwards.
Bailout ==
  /\ \E f \in Fibers : stack[f] # << >>
  /\ stack' = [f \in Fibers |-> << >>]
  /\ ret' = NoCall
  /\ UNCHANGED <<err, cur>>

\* PHP_RINIT_FUNCTION: the next request starts without an error.
RequestInit ==
  /\ stack = [f \in Fibers |-> << >>]
  /\ err' = clear_error(err)
  /\ ret' = NoCall
  /\ UNCHANGED <<stack, cur>>

\* PHP code has the result of the call that returned, and runs on.
Continue ==
  /\ ret # NoCall
  /\ ret' = NoCall
  /\ UNCHANGED <<err, stack, cur>>

Call(throw) ==
  \/ CallDecode(throw) \/ CallPointerGet(throw) \/ CallPointerExists(throw)
  \/ CallMergePatch(throw) \/ CallEncode(throw) \/ CallFileEncode(throw)
  \/ CallFileDecode(throw) \/ CallPointerSet(throw)

Resume ==
  \/ EncoderMeetsError \/ EncodeReturns \/ FileEncodeEncodes \/ EncoderThrows
  \/ StreamThrows \/ StreamFails \/ StreamOpened
  \/ FileEncodeReturns \/ FileDecodeReturns \/ PointerSetReturns

Run ==
  \/ \E throw \in BOOLEAN : Call(throw)
  \/ CallValidate
  \/ Resume
  \/ SwitchFiber \/ Bailout \/ RequestInit

\* A returned call is looked at before anything else happens.
Next == (ret = NoCall /\ Run) \/ Continue

Spec == Init /\ [][Next]_vars

-----------------------------------------------------------------------------
(* Properties *)

\* Types; every recorded, saved and reported error is one of the extension's.
TypeOK ==
  /\ err \in Errors
  /\ stack \in [Fibers -> Seq(Frame)]
  /\ cur \in Fibers
  /\ ret.own \in Errors /\ ret.entry \in Errors

(***************************************************************************)
(* A call without JSON_THROW_ON_ERROR reports its own outcome, whatever    *)
(* its callbacks and other fibers recorded while it waited: the error it   *)
(* met, or none.  Partial output reports its error in both modes.          *)
(***************************************************************************)
ReportsOwnOutcome ==
  (\/ ret.kind = "partial"
   \/ ~ ret.throw /\ ret.kind \in {"ok", "fail", "absent", "io", "user", "stream"})
     => err = ret.own

(***************************************************************************)
(* A call with JSON_THROW_ON_ERROR leaves the recorded error as it was     *)
(* when the call was made: when it succeeds, when it throws its            *)
(* JsonException, and when the stream of a file call throws.               *)
(***************************************************************************)
ThrowModePreserves ==
  ret.throw /\ ret.kind \in {"ok", "exc", "stream"} => err = ret.entry

(***************************************************************************)
(* A JsonException carries the code of the failure of the call that threw  *)
(* it, never NONE and never a code left over from a nested call.           *)
(***************************************************************************)
ThrowsOwnCode ==
  ret.kind = "exc" => ret.throw /\ ret.thrown = ret.own.code /\ ret.thrown # None

(***************************************************************************)
(* What must stay distinguishable in both modes: a stream failure is       *)
(* recorded and not thrown, an absent pointer target leaves no error.      *)
(***************************************************************************)
IoAndAbsentAreSignalled ==
  /\ ret.kind = "io" => err.code = "SYNTAX" /\ err.pos = NoPos
  /\ ret.kind = "absent" => err = NoError

(***************************************************************************)
(* A source offset is never shown with an error that has none: only parse  *)
(* errors carry one, through every save, restore and overwrite.            *)
(***************************************************************************)
OffsetOK(e) == e.pos # NoPos => \E x \in ReadErrs : e = ReadState(x)

OffsetMatchesCode == OffsetOK(err)

(***************************************************************************)
(* What the proofs need of every waiting frame: its saved state is the one *)
(* at entry and consistent, and a file call in throw mode reaches its      *)
(* stream only without an error of its own.                                *)
(***************************************************************************)
FrameOK(fr) ==
  /\ fr \in Frame
  /\ fr.saved = fr.entry
  /\ OffsetOK(fr.saved)
  /\ fr.own \in WriterErrs
  /\ fr.throw /\ fr.phase # "encoding" => fr.own = NoError
  /\ fr.phase # "encoding" => fr.fn \in {"file_encode", "file_decode"}

FramesOK == \A f \in Fibers : \A i \in 1 .. Len(stack[f]) : FrameOK(stack[f][i])

Contract ==
  ReportsOwnOutcome /\ ThrowModePreserves /\ ThrowsOwnCode /\ IoAndAbsentAreSignalled

ApiInv == TypeOK /\ FramesOK /\ OffsetMatchesCode /\ Contract

=============================================================================
