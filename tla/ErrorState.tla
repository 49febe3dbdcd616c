----------------------------- MODULE ErrorState -----------------------------
(***************************************************************************)
(* The recorded error of the extension: the module globals last_err_* and  *)
(* the functions that set, save, restore and throw from them.  Each entry  *)
(* point that runs no PHP code is one operator from the error state at     *)
(* entry to the state at return; `own' is the error the operation met.     *)
(*                                                                         *)
(* An error is a code and a byte offset, -1 when there is none (line and   *)
(* column are set and reset with the offset); the message goes with the    *)
(* code.                                                                   *)
(***************************************************************************)
EXTENDS Integers

CONSTANTS
  ReadErrs,   \* what the parser reports: [code, pos], pos inside the input;
              \* the codes are yyjson's read codes
  EncodeErrs, \* error codes of the direct writer
  WalkErrs,   \* codes the value walker sets: depth, invalid property name
  SpliceErrs  \* codes of the pointer status table fj_splice_errors

None == "NONE"
\* last_err_pos when no source offset is recorded
NoPos == -1
Codes == {None, "SYNTAX", "UTF8", "DEPTH"} \cup EncodeErrs \cup WalkErrs \cup SpliceErrs
Errors == [code : Codes, pos : Int]

ASSUME ErrorAssumption ==
  /\ \A e \in ReadErrs : e.code \in STRING /\ e.pos \in Nat
  /\ None \notin EncodeErrs \cup WalkErrs \cup SpliceErrs

-----------------------------------------------------------------------------
(* Setting and throwing. *)

\* fastjson_error_state_clear and _set, on a state of the caller's own.
NoError == [code |-> None, pos |-> NoPos]
StateOf(code) == [code |-> code, pos |-> NoPos]

\* fastjson_set_error_code on the globals g: no source offset.
set_error_code_KeepsPos(g, code) == [g EXCEPT !.code = code]

set_error_code(g, code) == [g EXCEPT !.code = code, !.pos = NoPos]

clear_error(g) == set_error_code(g, None)

\* Invalid UTF-8 in a string has a code of its own; the rest is syntax.
translate_read_code(yy) == IF yy = "INVALID_STRING" THEN "UTF8" ELSE "SYNTAX"

ReadState(e) == [code |-> translate_read_code(e.code), pos |-> e.pos]

\* fastjson_set_read_error: the translated code and where the parser stopped.
set_read_error(g, e) ==
  [g EXCEPT !.code = translate_read_code(e.code), !.pos = e.pos]

\* fastjson_throw_mode_init: save, and clear unless errors are thrown.
throw_mode_init(throw, err) == IF throw THEN err ELSE clear_error(err)

(***************************************************************************)
(* What a finished call leaves: the global error, how it returned, and the *)
(* code of the JsonException it threw.                                     *)
(*   ok      a result           partial  a result with an error            *)
(*   fail    false or null      absent   no such location                  *)
(*   io      a stream failure   exc      JsonException                     *)
(*   value   ValueError                                                    *)
(*   user, stream   an exception of PHP code the encoder or a stream ran   *)
(* own is the error of the operation itself, for the contract.             *)
(***************************************************************************)
Result(err, kind, own) == [err |-> err, kind |-> kind, own |-> own, thrown |-> None]

\* fastjson_throw_error: the exception carries the code, the entry state stays.
throw_error(code, saved, own) ==
  [err |-> saved, kind |-> "exc", own |-> own, thrown |-> code]

\* A parse error: fastjson_throw_read_error or fastjson_set_read_error.
ReadFailed(throw, saved, g, e) ==
  IF throw THEN throw_error(translate_read_code(e.code), saved, ReadState(e))
           ELSE Result(set_read_error(g, e), "fail", ReadState(e))

\* fj_splice_dispatch_error.
splice_dispatch_error(throw, saved, g, code) ==
  IF throw THEN throw_error(code, saved, StateOf(code))
           ELSE Result(set_error_code(g, code), "fail", StateOf(code))

(***************************************************************************)
(* fastjson_walk_doc_into and what its callers do after it: the walker     *)
(* records its error in the globals in both modes, and throw mode throws   *)
(* whatever they hold.                                                     *)
(***************************************************************************)
WalkFailed(throw, saved, g, code) ==
  LET set == set_error_code(g, code)
  IN  IF throw THEN throw_error(set.code, saved, StateOf(code))
               ELSE Result(set, "fail", StateOf(code))

WalkDone(throw, g) == Result(IF throw THEN g ELSE clear_error(g), "ok", NoError)

finish_decode(throw, saved, g, walk) ==
  IF walk = None THEN WalkDone(throw, g) ELSE WalkFailed(throw, saved, g, walk)

-----------------------------------------------------------------------------
(* Entry points that run no PHP code.  Each is the set of its outcomes.    *)

\* $depth outside 1 .. INT_MAX, after throw_mode_init.
DepthRejected(throw, err) == Result(throw_mode_init(throw, err), "value", NoError)

Walked(throw, err) ==
  {finish_decode(throw, err, throw_mode_init(throw, err), w) : w \in WalkErrs \cup {None}}

Unread(throw, err) ==
  {ReadFailed(throw, err, throw_mode_init(throw, err), e) : e \in ReadErrs}

Misdirected(throw, err) ==
  {splice_dispatch_error(throw, err, throw_mode_init(throw, err), c) : c \in SpliceErrs}

fastjson_decode(throw, err) ==
  {DepthRejected(throw, err)} \cup Unread(throw, err) \cup Walked(throw, err)

\* Flags, then empty input, then the clear, then depth; never throws errors.
fastjson_validate(throw, err) ==
  {Result(err, "value", NoError), Result(clear_error(err), "value", NoError)}
    \cup {Result(set_read_error(err, e), "fail", ReadState(e)) : e \in ReadErrs}
    \cup {Result(set_error_code(err, "DEPTH"), "fail", StateOf("DEPTH"))}
    \cup {Result(clear_error(err), "ok", NoError)}

\* No value at the pointer: cleared in both modes.
Absent(throw, err) == Result(clear_error(err), "absent", NoError)

fastjson_pointer_get(throw, err) ==
  {DepthRejected(throw, err), Absent(throw, err)}
    \cup Unread(throw, err) \cup Misdirected(throw, err) \cup Walked(throw, err)

fastjson_pointer_exists(throw, err) ==
  {Absent(throw, err), Result(throw_mode_init(throw, err), "ok", NoError)}
    \cup Unread(throw, err) \cup Misdirected(throw, err)

(***************************************************************************)
(* The merge itself may exceed the depth, or the walk of its result may    *)
(* fail; either way the code is set or thrown and the entry state kept.    *)
(***************************************************************************)
fastjson_merge_patch(throw, err) ==
  {DepthRejected(throw, err)} \cup Unread(throw, err) \cup Walked(throw, err)
    \cup {WalkFailed(throw, err, throw_mode_init(throw, err), "DEPTH")}

=============================================================================
