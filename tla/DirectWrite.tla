----------------------------- MODULE DirectWrite -----------------------------
(***************************************************************************)
(* The direct-write encoder: calls of fastjson_directwrite_encode over one *)
(* heap of PHP values, which may be cyclic.                                *)
(*                                                                         *)
(* The encoder is recursive C; here each call has a stack with a frame per *)
(* active dw_encode_zval or dw_discard_zval of a container, and a control  *)
(* point.  jsonSerialize() and property hooks are PHP code: while a call   *)
(* waits in one, other calls may start, run and finish (a nested encode),  *)
(* or stop in a callback of their own (another Fiber), so calls finish in  *)
(* any order.  They share the recursion guards, which are bits on the PHP  *)
(* values.                                                                 *)
(*                                                                         *)
(* A string, number or enum is one of the Scalars, by what the writer does *)
(* with it.  Output is a sequence of tokens, pretty-printed.               *)
(***************************************************************************)
EXTENDS Integers, Sequences, SequencesExt, FiniteSets

CONSTANTS
  Calls,      \* encode calls
  Nodes,      \* arrays and objects
  Heaps,      \* the heaps considered: functions from Nodes to Node
  Depths,     \* values of $depth
  MaxCallDepth, \* the fallback limit on nested dw_encode_zval calls (1024)
  MayOverflow \* {FALSE}, or BOOLEAN where PHP reports native stack overflow

(***************************************************************************)
(* ok: anything representable.  inf: a non-finite double.  bad: malformed  *)
(* UTF-8.  type: an unsupported type.  huge: a string past ZSTR_MAX_LEN.   *)
(* enum: a case of a non-backed enum.                                      *)
(***************************************************************************)
Scalars == {"ok", "inf", "bad", "type", "huge", "enum"}
Values  == Scalars \cup Nodes

(***************************************************************************)
(* list, assoc: arrays.  obj: an object.  json: a JsonSerializable.  bare: *)
(* an object whose JSON property view is null.  Nothing guards a fixed     *)
(* one: an immutable array, which cannot be cyclic, or an object whose     *)
(* property view is built anew for each visit (DateTime), so that a guard  *)
(* on one view is not seen on the next.                                    *)
(* An item is a plain value, a hook (PHP code computes it), or skipped     *)
(* (a mangled key, an uninitialized or a get-less virtual property).       *)
(***************************************************************************)
Item == [key : {"ok", "bad"}, how : {"plain", "hook", "skip"}, val : Values]
Node == [kind : {"list", "assoc", "obj", "json", "bare"},
         fixed : BOOLEAN, items : Seq(Item)]

ASSUME HeapAssumption ==
  /\ \A h \in Heaps : h \in [Nodes -> Node]
  /\ Nodes \cap Scalars = {}
  /\ Depths \subseteq Int

VARIABLES
  heap,       \* the PHP values
  guards,     \* recursion guards set on them
  running,    \* the call in control, or "php"
  at,         \* per call, its control point
  frames,     \* per call, its frames, innermost last
  ctx,        \* per call, its fastjson_dw_ctx
  ret         \* the outcome of the call that has just returned, or NoReturn

vars == <<heap, guards, running, at, frames, ctx, ret>>

None == "NONE"

\* A guard is the JSON bit of an object, or the GC bit of an array or object.
Json(n) == <<"json", n>>
Gc(n)   == <<"gc", n>>
NoGuard == <<>>

Idle        == [pc |-> "idle"]
Visit(v, d) == [pc |-> "visit", val |-> v, depth |-> d]
Walking     == [pc |-> "next"]
This(n, d)  == [pc |-> "this", node |-> n, depth |-> d]
Callback    == [pc |-> "callback"]
Return(ok)  == [pc |-> "ret", ok |-> ok]

\* ctx.buf.s == NULL
Freed == <<"freed">>

NewCtx(partial, depth) ==
  [partial |-> partial, error |-> None, hard |-> FALSE, aborted |-> FALSE,
   exc |-> FALSE, indent |-> 0, buf |-> << >>, depth |-> depth]

NoReturn == [made |-> FALSE]

Init ==
  /\ heap \in Heaps
  /\ guards = {} /\ running = "php"
  /\ at = [c \in Calls |-> Idle]
  /\ frames = [c \in Calls |-> << >>]
  /\ ctx = [c \in Calls |-> NewCtx(FALSE, 0)]
  /\ ret = NoReturn

-----------------------------------------------------------------------------
(* Steps are described by what they do to the call in control. *)

Top(c) == Last(frames[c])

\* mode of the walk the call is in: emit, or discard after a hard error
Discarding(c) == frames[c] # << >> /\ Top(c).mode # "emit"

Go(c, point) == at' = [at EXCEPT ![c] = point]

\* dw_set_error
SetError(x, e) == [x EXCEPT !.error = e]

Put(x, toks) == [x EXCEPT !.buf = @ \o toks]

(***************************************************************************)
(* dw_partial_or_fail: record the error; partial output substitutes a      *)
(* value and goes on.                                                      *)
(***************************************************************************)
dw_partial_or_fail(c, e) ==
  /\ ctx' = [ctx EXCEPT ![c] = IF @.partial THEN Put(SetError(@, e), <<"v">>)
                                            ELSE SetError(@, e)]
  /\ Go(c, Return(ctx[c].partial))
  /\ UNCHANGED <<guards, frames>>

SetAndFail_Silent(c, e) ==
  Go(c, Return(FALSE)) /\ UNCHANGED <<guards, frames, ctx>>

\* dw_set_error and return false, partial output or not.
SetAndFail(c, e) ==
  /\ ctx' = [ctx EXCEPT ![c] = SetError(@, e)]
  /\ Go(c, Return(FALSE))
  /\ UNCHANGED <<guards, frames>>

Succeed(c, toks) ==
  /\ ctx' = [ctx EXCEPT ![c] = Put(@, toks)]
  /\ Go(c, Return(TRUE))
  /\ UNCHANGED <<guards, frames>>

\* The step goes on in the same call, or hands control to PHP code.
Proceed(c) ==
  /\ running' = IF at'[c].pc = "callback" THEN "php" ELSE c
  /\ ret' = NoReturn
  /\ UNCHANGED heap

-----------------------------------------------------------------------------
(* Scalars *)

\* Not partial: the buffer is freed at once and the rest is only searched.
HardError(x) == [SetError(x, "INF") EXCEPT !.hard = TRUE, !.buf = Freed]

emit_inf(c) ==
  IF ctx[c].partial
    THEN dw_partial_or_fail(c, "INF")
    ELSE /\ ctx' = [ctx EXCEPT ![c] = HardError(@)]
         /\ Go(c, Return(FALSE))
         /\ UNCHANGED <<guards, frames>>

\* dw_discard_zval of a non-finite double: never over a recorded hard error.
discard_inf(c) ==
  /\ ctx' = [ctx EXCEPT ![c] = IF @.hard THEN @ ELSE SetError(@, "INF")]
  /\ Go(c, Return(TRUE))
  /\ UNCHANGED <<guards, frames>>

EncodeScalar(c, v) ==
  \/ v = "ok"   /\ Succeed(c, IF Discarding(c) THEN << >> ELSE <<"v">>)
  \/ v = "inf"  /\ IF Discarding(c) THEN discard_inf(c) ELSE emit_inf(c)
  \/ v = "huge" /\ SetAndFail(c, "TYPE")
  \/ v = "bad"  /\ IF Discarding(c) THEN SetAndFail(c, "UTF8")
                                    ELSE dw_partial_or_fail(c, "UTF8")
  \/ v = "type" /\ dw_partial_or_fail(c, "TYPE")
  \/ v = "enum" /\ dw_partial_or_fail(c, "ENUM")

-----------------------------------------------------------------------------
(* Entering containers *)

Brackets(kind) == IF kind = "list" THEN <<"[", "]">> ELSE <<"{", "}">>

Frame(n, kind, d, g, mode, body) ==
  [node |-> n, kind |-> kind, next |-> 1, depth |-> d, guard |-> g,
   mode |-> mode, body |-> body, first |-> TRUE]

Mode(c) == IF Discarding(c) THEN "discard" ELSE "emit"

Protect(g) == guards' = IF g = NoGuard THEN guards ELSE guards \cup {g}

Unprotect(g) == guards' = guards \ {g}

\* The opening bracket, and the indent of a body known to have items.
OpenBracket(x, kind, body) ==
  [x EXCEPT !.buf = @ \o <<Brackets(kind)[1]>>, !.indent = IF body THEN @ + 1 ELSE @]

\* A container's body begins: guard set, bracket written, frame pushed.
Begin(c, n, kind, d, g, body) ==
  /\ Protect(g)
  /\ frames' = [frames EXCEPT ![c] =
       Append(@, Frame(n, kind, d - 1, g, Mode(c), body))]
  /\ ctx' = [ctx EXCEPT ![c] =
       IF Discarding(c) THEN @ ELSE OpenBracket(@, kind, body)]
  /\ Go(c, Walking)

GcGuard(n) == IF heap[n].fixed THEN NoGuard ELSE Gc(n)

\* dw_emit_array, dw_discard_array
dw_emit_array(c, n, d, overflow) ==
  IF overflow \/ d <= 0 THEN dw_partial_or_fail(c, "DEPTH")
  ELSE IF GcGuard(n) \in guards THEN dw_partial_or_fail(c, "RECURSION")
  ELSE Begin(c, n, heap[n].kind, d, GcGuard(n), heap[n].items # << >>)

(***************************************************************************)
(* dw_emit_object_props, dw_discard_object_props, after the depth check of *)
(* their callers.  The indent waits for the first emitted property.        *)
(***************************************************************************)
dw_emit_object_props(c, n, d) ==
  IF d <= 0
    THEN dw_partial_or_fail(c, "DEPTH")
  ELSE IF heap[n].kind = "bare"
    THEN Succeed(c, IF Discarding(c) THEN << >> ELSE <<"{">> \o <<"}">>)
  ELSE IF GcGuard(n) \in guards
    THEN dw_partial_or_fail(c, "RECURSION")
  ELSE Begin(c, n, "props", d, GcGuard(n), FALSE)

\* dw_emit_jsonserializable up to the call of jsonSerialize().
dw_emit_jsonserializable(c, n, d) ==
  IF Json(n) \in guards THEN dw_partial_or_fail(c, "RECURSION")
  ELSE /\ Protect(Json(n))
       /\ frames' = [frames EXCEPT ![c] = Append(@, Frame(n, "json", d, Json(n), "emit", FALSE))]
       /\ Go(c, Callback)
       /\ UNCHANGED ctx

\* PHP code is not run for a result that is already lost.
dw_discard_jsonserializable_Reenters(c, n, d) == dw_emit_jsonserializable(c, n, d)

dw_discard_jsonserializable(c, n, d) == Succeed(c, << >>)

\* dw_emit_object, dw_discard_object; serializers go before the depth check.
dw_emit_object(c, n, d, overflow) ==
  IF overflow THEN dw_partial_or_fail(c, "DEPTH")
  ELSE IF heap[n].kind = "json"
    THEN IF Discarding(c) THEN dw_discard_jsonserializable(c, n, d)
                          ELSE dw_emit_jsonserializable(c, n, d)
  ELSE dw_emit_object_props(c, n, d)

\* dw_encode_zval, dw_discard_zval: call_depth is the number of frames.
EncodeValue(c) ==
  /\ running = c /\ at[c].pc = "visit"
  /\ LET v == at[c].val  d == at[c].depth IN
       IF Len(frames[c]) >= MaxCallDepth THEN dw_partial_or_fail(c, "DEPTH")
       ELSE IF v \in Scalars THEN EncodeScalar(c, v)
       ELSE \E overflow \in MayOverflow :
              IF heap[v].kind \in {"list", "assoc"}
                THEN dw_emit_array(c, v, d, overflow)
                ELSE dw_emit_object(c, v, d, overflow)
  /\ Proceed(c)

\* jsonSerialize() returned $this: its properties, at the same depth.
EncodeThis(c) ==
  /\ running = c /\ at[c].pc = "this"
  /\ dw_emit_object_props(c, at[c].node, at[c].depth)
  /\ Proceed(c)

-----------------------------------------------------------------------------
(* Walking the items of a container *)

\* The top frame is left: guard released, indent undone.
Leave_KeepsGuard(c, ok) ==
  /\ frames' = [frames EXCEPT ![c] = Front(@)]
  /\ Go(c, Return(ok))
  /\ UNCHANGED guards

Leave(c, ok) ==
  /\ Unprotect(Top(c).guard)
  /\ frames' = [frames EXCEPT ![c] = Front(@)]
  /\ Go(c, Return(ok))

Outdent(x, fr) == [x EXCEPT !.indent = IF fr.mode # "discard" /\ fr.body THEN @ - 1 ELSE @]

SetTop(c, fr) == frames' = [frames EXCEPT ![c][Len(frames[c])] = fr]

\* The item at fr.next, and the frame after it.
ItemAt(fr)  == heap[fr.node].items[fr.next]
Advance(fr) == [fr EXCEPT !.next = @ + 1]

\* Past the last item: a drained container has failed, the others succeed.
EndContainer(c) ==
  LET fr == Top(c) IN
  /\ fr.next > Len(heap[fr.node].items)
  /\ ctx' = [ctx EXCEPT ![c] = IF fr.mode = "emit"
                                 THEN Put(Outdent(@, fr), <<Brackets(fr.kind)[2]>>)
                                 ELSE Outdent(@, fr)]
  /\ Leave(c, fr.mode # "drain")

(***************************************************************************)
(* Separator, key and then the value.  A malformed key is an error; partial*)
(* output puts an empty key in its place.                                  *)
(***************************************************************************)
Comma_ByIndex(fr) == IF fr.next = 1 THEN << >> ELSE <<",">>

Comma(fr) == IF fr.first THEN << >> ELSE <<",">>

\* pretty printing opens the body of an object at its first property
OpenBody(x, fr) == [x EXCEPT !.indent = IF fr.body THEN @ ELSE @ + 1]

EmitKeyAndVisit(c, key, v) ==
  LET fr  == Top(c)
      bad == key = "bad" /\ fr.kind # "list"
      x   == OpenBody(ctx[c], fr)
      toks == Comma(fr) \o (IF fr.kind = "list" THEN << >> ELSE <<"k">>)
  IN  /\ ctx' = [ctx EXCEPT ![c] =
           IF bad /\ ~ x.partial THEN Put(SetError(x, "UTF8"), Comma(fr))
           ELSE Put(IF bad THEN SetError(x, "UTF8") ELSE x, toks)]
      /\ SetTop(c, [fr EXCEPT !.body = TRUE])
      /\ Go(c, IF bad /\ ~ x.partial THEN Return(FALSE) ELSE Visit(v, fr.depth))
      /\ UNCHANGED guards

DiscardKeyAndVisit(c, key, v) ==
  LET bad == key = "bad" /\ Top(c).kind # "list" IN
  /\ ctx' = [ctx EXCEPT ![c] = IF bad THEN SetError(@, "UTF8") ELSE @]
  /\ Go(c, IF bad THEN Return(FALSE) ELSE Visit(v, Top(c).depth))
  /\ UNCHANGED <<guards, frames>>

SkipItem(c) == SetTop(c, Advance(Top(c))) /\ UNCHANGED <<guards, ctx, at>>

\* Hooks are not run for a result that is already lost.
DiscardItem(c, it) ==
  IF it.how = "plain" THEN DiscardKeyAndVisit(c, it.key, it.val) ELSE SkipItem(c)

EmitItem(c, it) ==
  \/ it.how = "plain" /\ EmitKeyAndVisit(c, it.key, it.val)
  \/ it.how = "skip"  /\ SkipItem(c)
  \/ it.how = "hook"  /\ Go(c, Callback) /\ UNCHANGED <<guards, frames, ctx>>

NextItem(c) ==
  /\ Top(c).next <= Len(heap[Top(c).node].items)
  /\ IF Discarding(c) THEN DiscardItem(c, ItemAt(Top(c))) ELSE EmitItem(c, ItemAt(Top(c)))

Walk(c) ==
  /\ running = c /\ at[c].pc = "next"
  /\ NextItem(c) \/ EndContainer(c)
  /\ Proceed(c)

-----------------------------------------------------------------------------
(* A value returns to the container, serializer or caller it belongs to *)

\* A failed child of an emitting container: search the rest once for errors.
Drains(c) == Top(c).mode = "emit" /\ ctx[c].hard /\ ~ ctx[c].aborted

AbortDiscard_Forgotten(x) == x

AbortDiscard(x) == [x EXCEPT !.aborted = TRUE]

Resumed_Stuck(fr) == IF fr.mode = "discard" THEN fr ELSE [Advance(fr) EXCEPT !.first = FALSE]

Resumed(fr) == [Advance(fr) EXCEPT !.first = FALSE]

ItemReturns(c, ok) ==
  LET fr == Top(c) IN
  /\ fr.kind # "json"
  /\ IF ok \/ Drains(c)
       THEN /\ SetTop(c, IF ok THEN Resumed(fr) ELSE [Advance(fr) EXCEPT !.mode = "drain"])
            /\ Go(c, Walking)
            /\ UNCHANGED <<guards, ctx>>
       ELSE /\ ctx' = [ctx EXCEPT ![c] =
                 IF fr.mode = "drain" THEN AbortDiscard(Outdent(@, fr)) ELSE Outdent(@, fr)]
            /\ Leave(c, FALSE)

JsonReturns(c, ok) ==
  /\ Top(c).kind = "json"
  /\ Leave(c, ok)
  /\ UNCHANGED ctx

ValueReturns(c) ==
  /\ running = c /\ at[c].pc = "ret" /\ frames[c] # << >>
  /\ ItemReturns(c, at[c].ok) \/ JsonReturns(c, at[c].ok)
  /\ Proceed(c)

\* fastjson_directwrite_encode returns.
Made(c, ok) == ok /\ ~ ctx[c].hard

Finish(c) ==
  /\ running = c /\ at[c].pc = "ret" /\ frames[c] = << >>
  /\ ret' = [made |-> Made(c, at[c].ok), error |-> ctx[c].error, exc |-> ctx[c].exc,
             partial |-> ctx[c].partial, buf |-> ctx[c].buf, depth |-> ctx[c].depth]
  /\ running' = "php"
  /\ Go(c, Idle)
  /\ ctx' = [ctx EXCEPT ![c] = NewCtx(FALSE, 0)]
  /\ UNCHANGED <<heap, guards, frames>>

-----------------------------------------------------------------------------
(* PHP code *)

Start(c) ==
  /\ running = "php" /\ at[c] = Idle
  /\ \E v \in Values, partial \in BOOLEAN, d \in Depths :
       /\ Go(c, Visit(v, d))
       /\ ctx' = [ctx EXCEPT ![c] = NewCtx(partial, d)]
  /\ running' = c
  /\ ret' = NoReturn
  /\ UNCHANGED <<heap, guards, frames>>

\* jsonSerialize() or a hook throws.
CallbackThrows(c) ==
  /\ ctx' = [ctx EXCEPT ![c] = [Outdent(@, Top(c)) EXCEPT !.exc = TRUE]]
  /\ Leave(c, FALSE)

SerializerReturns(c, v) ==
  /\ Top(c).kind = "json"
  /\ IF v = Top(c).node
       THEN /\ Unprotect(Top(c).guard)
            /\ frames' = [frames EXCEPT ![c] = Front(@)]
            /\ Go(c, This(v, Top(c).depth))
       ELSE Go(c, Visit(v, Top(c).depth)) /\ UNCHANGED <<guards, frames>>
  /\ UNCHANGED ctx

HookReturns(c, v) ==
  /\ Top(c).kind = "props"
  /\ EmitKeyAndVisit(c, ItemAt(Top(c)).key, v)

\* The hooked property turns out uninitialized.
HookReturnsUndef(c) ==
  /\ Top(c).kind = "props"
  /\ SetTop(c, Advance(Top(c)))
  /\ Go(c, Walking)
  /\ UNCHANGED <<guards, ctx>>

CallbackReturns(c) ==
  /\ running = "php" /\ at[c].pc = "callback"
  /\ \/ \E v \in Values : SerializerReturns(c, v) \/ HookReturns(c, v)
     \/ HookReturnsUndef(c)
     \/ CallbackThrows(c)
  /\ Proceed(c)

Run(c) == EncodeValue(c) \/ EncodeThis(c) \/ Walk(c) \/ ValueReturns(c) \/ Finish(c)

Next == \E c \in Calls : Start(c) \/ Run(c) \/ CallbackReturns(c)

Spec == Init /\ [][Next]_vars

-----------------------------------------------------------------------------
(* Properties *)

(***************************************************************************)
(* A recursion guard is set exactly while one frame holds it: none leaks   *)
(* on any error, exception or discard path, none is released for somebody  *)
(* else, and none is held twice.                                           *)
(***************************************************************************)
GuardsExact ==
  \A g \in guards \cup UNION {{frames[c][i].guard : i \in 1 .. Len(frames[c])} : c \in Calls} :
    g # NoGuard =>
      /\ g \in guards
      /\ \E c \in Calls : \E i \in 1 .. Len(frames[c]) :
           /\ frames[c][i].guard = g
           /\ \A b \in Calls : \A j \in 1 .. Len(frames[b]) :
                frames[b][j].guard = g => b = c /\ j = i

(***************************************************************************)
(* What the callers of the encoder rely on: bytes together with an error   *)
(* only under partial output, no bytes only with an error or a PHP         *)
(* exception, and never bytes with an exception.                           *)
(***************************************************************************)
WriterContract ==
  ret # NoReturn =>
    /\ ret.made /\ ret.error # None => ret.partial
    /\ ~ ret.made => ret.error # None \/ ret.exc
    /\ ret.made => ~ ret.exc

\* After a hard error no jsonSerialize() and no hook of that call runs.
NoPhpCodeAfterHardError == \A c \in Calls : at[c].pc = "callback" => ~ ctx[c].hard

(***************************************************************************)
(* The search after a hard error ends at the first further error: nothing  *)
(* replaces an error that has replaced the INF.                            *)
(***************************************************************************)
LaterErrorIsFinal ==
  [][\A c \in Calls : ctx[c].hard /\ ctx[c].error # "INF" =>
       at'[c] = Idle \/ ctx'[c].error = ctx[c].error]_vars

(***************************************************************************)
(* A grammar for the output, as an automaton: the open brackets, what may  *)
(* come next, and the deepest nesting seen.                                *)
(***************************************************************************)
Enclosing(p) == IF p.open = << >> THEN "root" ELSE Last(p.open)

\* A value may come next.
ValueDue(p) == p.want = "val" \/ (p.want = "first" /\ Enclosing(p) = "[")

ParseMove(p, open, want) ==
  [open |-> open, want |-> want, deep |-> IF Len(open) > p.deep THEN Len(open) ELSE p.deep]

AfterValue(open) == IF open = << >> THEN "end" ELSE "sep"

ParseStep(p, t) ==
  LET in    == Enclosing(p)
      shuts == p.want \in {"first", "sep"}
  IN  CASE t = "v" /\ ValueDue(p) -> ParseMove(p, p.open, AfterValue(p.open))
        [] t \in {"[", "{"} /\ ValueDue(p) -> ParseMove(p, Append(p.open, t), "first")
        [] t = "k" /\ in = "{" /\ p.want \in {"first", "key"} -> ParseMove(p, p.open, "val")
        [] t = "," /\ in # "root" /\ p.want = "sep" ->
             ParseMove(p, p.open, IF in = "[" THEN "val" ELSE "key")
        [] t = "]" /\ in = "[" /\ shuts -> ParseMove(p, Front(p.open), AfterValue(Front(p.open)))
        [] t = "}" /\ in = "{" /\ shuts -> ParseMove(p, Front(p.open), AfterValue(Front(p.open)))
        [] OTHER -> ParseMove(p, p.open, "error")

ParseStart == [open |-> << >>, want |-> "val", deep |-> 0]

Parse(toks) ==
  LET upto[n \in 0 .. Len(toks)] ==
        IF n = 0 THEN ParseStart ELSE ParseStep(upto[n - 1], toks[n])
  IN  upto[Len(toks)]

\* The indent is the number of bodies the call has open.
OpenBodies(s) == Cardinality({i \in 1 .. Len(s) : s[i].body /\ s[i].mode # "discard"})

IndentMatchesNesting == \A c \in Calls : ctx[c].indent = OpenBodies(frames[c])

(***************************************************************************)
(* Output, partial output with its substitutes included, is grammatical    *)
(* JSON nested no deeper than $depth, not at all if that is negative;      *)
(* while it is written each line is indented by the bodies open around it, *)
(* and after a hard error nothing is written to the freed buffer any more. *)
(***************************************************************************)
ReturnedJson ==
  ret # NoReturn /\ ret.made =>
    LET p == Parse(ret.buf) IN p.want = "end" /\ (p.deep > 0 => p.deep <= ret.depth)

OutputIsJson ==
  /\ \A c \in Calls : ctx[c].hard <=> ctx[c].buf = Freed
  /\ IndentMatchesNesting
  /\ ReturnedJson

(***************************************************************************)
(* Fairness: the encoder never blocks, and PHP code it calls returns or    *)
(* throws (a callback that runs forever is stopped by PHP's time limit).   *)
(***************************************************************************)
FairSpec ==
  Spec /\ \A c \in Calls : WF_vars(Run(c)) /\ WF_vars(CallbackReturns(c))

\* Every encode returns, on cyclic values too.
Terminates == \A c \in Calls : at[c].pc # "idle" ~> at[c].pc = "idle"

-----------------------------------------------------------------------------
(* The inductive invariant of the proofs *)

GuardSet == {NoGuard} \cup {Json(n) : n \in Nodes} \cup {Gc(n) : n \in Nodes}

\* Serializers are only called, and so only have frames, while emitting.
FrameSet ==
  {fr \in [node : Nodes, kind : {"list", "assoc", "props", "json"}, next : Nat \ {0},
            depth : Int, guard : GuardSet, mode : {"emit", "drain", "discard"},
            body : BOOLEAN, first : BOOLEAN] :
     fr.kind = "json" => fr.mode = "emit"}

ErrorCodes == {None, "INF", "UTF8", "TYPE", "ENUM", "DEPTH", "RECURSION"}
Tokens == {"v", "k", ",", "[", "]", "{", "}", "freed"}

CtxSet ==
  [partial : BOOLEAN, error : ErrorCodes, hard : BOOLEAN, aborted : BOOLEAN, exc : BOOLEAN,
   indent : Int, buf : Seq(Tokens), depth : Int]

Points ==
  {Idle, Walking, Callback} \cup {Visit(v, d) : v \in Values, d \in Int}
    \cup {This(n, d) : n \in Nodes, d \in Int} \cup {Return(ok) : ok \in BOOLEAN}

Typed ==
  /\ heap \in Heaps
  /\ at \in [Calls -> Points]
  /\ frames \in [Calls -> Seq(FrameSet)]
  /\ ctx \in [Calls -> CtxSet]

\* Guards and frames, as GuardsExact says it, in the form the proof uses.
GuardsHeld ==
  /\ NoGuard \notin guards
  /\ \A g \in guards : \E c \in Calls : \E i \in 1 .. Len(frames[c]) : frames[c][i].guard = g
  /\ \A c \in Calls : \A i \in 1 .. Len(frames[c]) :
       frames[c][i].guard # NoGuard => frames[c][i].guard \in guards
  /\ \A b, c \in Calls : \A j \in 1 .. Len(frames[b]), i \in 1 .. Len(frames[c]) :
       frames[b][j].guard = frames[c][i].guard /\ frames[b][j].guard # NoGuard
         => b = c /\ j = i

\* At control point p with frames s: walking and waiting need a frame, PHP
\* code is called from an emitting one, and none is left behind.
InFrame(p, s) ==
  /\ p.pc = "idle" => s = << >>
  /\ p.pc \in {"next", "callback"} => s # << >>
  /\ p.pc = "callback" => Last(s).mode = "emit"
  /\ p.pc = "next" => Last(s).kind # "json"

(***************************************************************************)
(* Where a call stands after an error.  A frame discards exactly when it   *)
(* lies on one that discards or drains; a call that is past a hard error   *)
(* either fails or is discarding; outside partial output an error means    *)
(* the call fails or is past a hard error.                                 *)
(***************************************************************************)
Fails(p)    == p.pc = "ret" /\ ~ p.ok
Discards(s) == s # << >> /\ Last(s).mode # "emit"

Nested(s) ==
  \A i \in 1 .. Len(s) : s[i].mode = "discard" <=> (i > 1 /\ s[i - 1].mode # "emit")

Standing(p, discards, x) ==
  /\ discards => x.hard
  /\ x.hard => x.error # None /\ ~ x.partial /\ ~ x.exc
  /\ x.hard => Fails(p) \/ discards
  /\ Fails(p) => x.error # None \/ x.exc
  /\ ~ x.partial /\ x.error # None => x.hard \/ Fails(p)
  /\ x.exc => Fails(p)

CallOK(p, s, x) == InFrame(p, s) /\ Nested(s) /\ Standing(p, Discards(s), x)

WriterInv ==
  /\ Typed /\ GuardsHeld /\ WriterContract
  /\ \A c \in Calls : CallOK(at[c], frames[c], ctx[c])

\* Past a hard error, an error found by the search is final: the call fails,
\* and either the search is given up or the frame it happened in discards.
FinalError(p, s, x) ==
  x.hard /\ x.error # "INF" => Fails(p) /\ (x.aborted \/ Discards(s))

FinalInv == WriterInv /\ \A c \in Calls : FinalError(at[c], frames[c], ctx[c])

(***************************************************************************)
(* What the output of a call says of its frames.  The brackets open in the *)
(* text are those of the frames that are not serializers, and what may     *)
(* come next is what the call is about to write; a frame's depth is what   *)
(* is left of $depth below those brackets.                                 *)
(***************************************************************************)
OpenBrackets(s) ==
  LET upto[n \in 0 .. Len(s)] ==
        IF n = 0 THEN << >>
        ELSE IF s[n].kind = "json" THEN upto[n - 1]
        ELSE Append(upto[n - 1], Brackets(s[n].kind)[1])
  IN  upto

AtItem(s) == s # << >> /\ Last(s).kind # "json"

Wanted(p, s, q) ==
  /\ p.pc \in {"visit", "this"} => ValueDue(q)
  /\ p.pc = "ret" => q.want = AfterValue(q.open)
  /\ p.pc \in {"next", "callback"} =>
       IF AtItem(s) THEN q.want = (IF Last(s).first THEN "first" ELSE "sep") ELSE ValueDue(q)

DepthLeft(p, s, x) ==
  /\ \A i \in 1 .. Len(s) :
       /\ s[i].depth + Len(OpenBrackets(s)[i]) = x.depth
       /\ s[i].kind # "json" => s[i].depth >= 0
  /\ p.pc \in {"visit", "this"} => p.depth + Len(OpenBrackets(s)[Len(s)]) = x.depth

Grammatical(p, s, x) ==
  LET q == Parse(x.buf)
  IN  /\ q.open = OpenBrackets(s)[Len(s)]
      /\ q.deep > 0 => q.deep <= x.depth
      /\ Wanted(p, s, q)
      /\ DepthLeft(p, s, x)

OutputOK(p, s, x) ==
  /\ IF x.hard THEN x.buf = Freed ELSE x.buf \in Seq(Tokens \ {"freed"})
  /\ x.indent = OpenBodies(s)
  /\ \A i \in 1 .. Len(s) : s[i].kind = "json" => ~ s[i].body
  /\ p.pc # "idle" /\ ~ x.hard /\ ~ Fails(p) => Grammatical(p, s, x)

OutputInv ==
  /\ WriterInv /\ ReturnedJson
  /\ \A c \in Calls : OutputOK(at[c], frames[c], ctx[c])

=============================================================================
