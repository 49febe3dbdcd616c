-------------------------- MODULE DirectWriteProofs --------------------------
(***************************************************************************)
(* The recursion guards, the error discipline and the output of the direct *)
(* writer, for any heap, any number of nested or interleaved calls and any *)
(* depth.  WriterInv is inductive: a step of call c changes the control    *)
(* point, the frames and the context of c only, so each kind of step is a  *)
(* lemma about those three and about the guards.  OutputInv adds what the  *)
(* text written so far says of the frames; its lemmas are first about the  *)
(* grammar, then about texts with frames, then about the steps.            *)
(***************************************************************************)
EXTENDS DirectWrite, DataInduction, FiniteSetTheorems, SequenceTheorems

-----------------------------------------------------------------------------
(* The invariant, one call at a time. *)

LEMMA StepKeeps ==
  ASSUME WriterInv, NEW c \in Calls, NEW p \in Points, NEW s \in Seq(FrameSet), NEW x \in CtxSet,
         at' = [at EXCEPT ![c] = p], frames' = [frames EXCEPT ![c] = s],
         ctx' = [ctx EXCEPT ![c] = x], heap' = heap,
         GuardsHeld', WriterContract', CallOK(p, s, x)
  PROVE  WriterInv'
<1>1. Typed'
  BY DEF WriterInv, Typed
<1>2. \A b \in Calls : CallOK(at'[b], frames'[b], ctx'[b])
  <2> SUFFICES ASSUME NEW b \in Calls PROVE CallOK(at'[b], frames'[b], ctx'[b])
    OBVIOUS
  <2>1. CASE b = c
    <3>1. at'[b] = p /\ frames'[b] = s /\ ctx'[b] = x
      BY <2>1 DEF WriterInv, Typed
    <3> QED
      BY <3>1
  <2>2. CASE b # c
    <3>1. at'[b] = at[b] /\ frames'[b] = frames[b] /\ ctx'[b] = ctx[b]
      BY <2>2 DEF WriterInv, Typed
    <3> QED
      BY <3>1 DEF WriterInv
  <2> QED
    BY <2>1, <2>2
<1>3. (\A b \in Calls : CallOK(at[b], frames[b], ctx[b]))'
  BY <1>2 DEF CallOK, InFrame, Nested, Standing, Fails, Discards
<1> QED
  BY <1>1, <1>3 DEF WriterInv

\* Nothing is reported between calls.
LEMMA NothingReported ==
  ASSUME ret' = NoReturn
  PROVE  WriterContract'
BY DEF WriterContract

-----------------------------------------------------------------------------
(* The guards under the three ways frames change. *)

\* Frames keep their number and their guards.
LEMMA GuardsSame ==
  ASSUME Typed, GuardsHeld, NEW c \in Calls, NEW s \in Seq(FrameSet),
         Len(s) = Len(frames[c]), \A i \in 1 .. Len(s) : s[i].guard = frames[c][i].guard,
         frames' = [frames EXCEPT ![c] = s], guards' = guards
  PROVE  GuardsHeld'
<1>1. \A b \in Calls : Len(frames'[b]) = Len(frames[b])
        /\ \A i \in 1 .. Len(frames[b]) : frames'[b][i].guard = frames[b][i].guard
  BY DEF Typed
<1> QED
  BY <1>1 DEF GuardsHeld

LEMMA GuardsPush ==
  ASSUME Typed, GuardsHeld, NEW c \in Calls, NEW fr \in FrameSet, fr.guard \notin guards,
         frames' = [frames EXCEPT ![c] = Append(frames[c], fr)], Protect(fr.guard)
  PROVE  GuardsHeld'
<1> DEFINE n == Len(frames[c]) + 1
<1>1. /\ frames[c] \in Seq(FrameSet) /\ n \in Nat \ {0}
      /\ Len(frames'[c]) = n /\ frames'[c][n] = fr
      /\ \A i \in 1 .. Len(frames[c]) : frames'[c][i] = frames[c][i]
  BY DEF Typed
<1>2. \A b \in Calls : b # c => frames'[b] = frames[b]
  BY DEF Typed
<1>3. guards' = IF fr.guard = NoGuard THEN guards ELSE guards \cup {fr.guard}
  BY DEF Protect
<1>4. (NoGuard \notin guards)'
  BY <1>3 DEF GuardsHeld
<1>5. \A g \in guards' : \E b \in Calls : \E i \in 1 .. Len(frames'[b]) : frames'[b][i].guard = g
  <2> SUFFICES ASSUME NEW g \in guards'
               PROVE  \E b \in Calls : \E i \in 1 .. Len(frames'[b]) : frames'[b][i].guard = g
    OBVIOUS
  <2>1. CASE g \in guards
    <3>0. PICK b \in Calls : \E i \in 1 .. Len(frames[b]) : frames[b][i].guard = g
      BY <2>1 DEF GuardsHeld
    <3>1. PICK i \in 1 .. Len(frames[b]) : frames[b][i].guard = g
      BY <3>0
    <3>2. i \in 1 .. Len(frames'[b]) /\ frames'[b][i].guard = g
      BY <1>1, <1>2, <3>1
    <3> QED
      BY <3>2
  <2>2. CASE g = fr.guard
    BY <1>1, <2>2
  <2> QED
    BY <1>3, <2>1, <2>2
<1>6. \A b \in Calls : \A i \in 1 .. Len(frames'[b]) :
        \/ frames'[b][i] = fr /\ b = c /\ i = n
        \/ i \in 1 .. Len(frames[b]) /\ frames'[b][i] = frames[b][i]
  BY <1>1, <1>2
<1>7. \A b \in Calls : \A i \in 1 .. Len(frames'[b]) :
        frames'[b][i].guard # NoGuard => frames'[b][i].guard \in guards'
  BY <1>3, <1>6 DEF GuardsHeld
<1>8. \A b, d \in Calls : \A j \in 1 .. Len(frames'[b]), i \in 1 .. Len(frames'[d]) :
        frames'[b][j].guard = frames'[d][i].guard /\ frames'[b][j].guard # NoGuard
          => b = d /\ j = i
  <2> SUFFICES ASSUME NEW b \in Calls, NEW d \in Calls, NEW j \in 1 .. Len(frames'[b]),
                      NEW i \in 1 .. Len(frames'[d]),
                      frames'[b][j].guard = frames'[d][i].guard, frames'[b][j].guard # NoGuard
               PROVE  b = d /\ j = i
    OBVIOUS
  <2>1. CASE j \in 1 .. Len(frames[b]) /\ frames'[b][j] = frames[b][j]
             /\ i \in 1 .. Len(frames[d]) /\ frames'[d][i] = frames[d][i]
    BY <2>1 DEF GuardsHeld
  <2>2. CASE frames'[b][j] = fr /\ b = c /\ j = n /\ frames'[d][i] = fr /\ d = c /\ i = n
    BY <2>2
  <2>3. CASE frames'[b][j] = fr /\ i \in 1 .. Len(frames[d]) /\ frames'[d][i] = frames[d][i]
    BY <2>3 DEF GuardsHeld
  <2>4. CASE frames'[d][i] = fr /\ j \in 1 .. Len(frames[b]) /\ frames'[b][j] = frames[b][j]
    BY <2>4 DEF GuardsHeld
  <2> QED
    BY <1>6, <2>1, <2>2, <2>3, <2>4
<1> QED
  BY <1>4, <1>5, <1>7, <1>8 DEF GuardsHeld

LEMMA GuardsPop ==
  ASSUME Typed, GuardsHeld, NEW c \in Calls, frames[c] # << >>,
         frames' = [frames EXCEPT ![c] = Front(frames[c])], Unprotect(Top(c).guard)
  PROVE  GuardsHeld'
<1> DEFINE n == Len(frames[c])
<1>1. /\ frames[c] \in Seq(FrameSet) /\ n \in Nat \ {0} /\ Top(c) = frames[c][n]
      /\ frames'[c] = Front(frames[c])
  BY DEF Typed, Top, Last
<1>2. /\ Len(frames'[c]) = n - 1
      /\ \A i \in 1 .. n - 1 : frames'[c][i] = frames[c][i]
  BY <1>1 DEF Front
<1>3. \A b \in Calls : b # c => frames'[b] = frames[b]
  BY DEF Typed
<1>4. guards' = guards \ {frames[c][n].guard}
  BY <1>1 DEF Unprotect
<1>5. \A b \in Calls : \A i \in 1 .. Len(frames'[b]) :
        i \in 1 .. Len(frames[b]) /\ frames'[b][i] = frames[b][i] /\ ~ (b = c /\ i = n)
  BY <1>1, <1>2, <1>3
<1>6. \A g \in guards' : \E b \in Calls : \E i \in 1 .. Len(frames'[b]) : frames'[b][i].guard = g
  <2> SUFFICES ASSUME NEW g \in guards'
               PROVE  \E b \in Calls : \E i \in 1 .. Len(frames'[b]) : frames'[b][i].guard = g
    OBVIOUS
  <2>0. PICK b \in Calls : \E i \in 1 .. Len(frames[b]) : frames[b][i].guard = g
    BY <1>4 DEF GuardsHeld
  <2>1. PICK i \in 1 .. Len(frames[b]) : frames[b][i].guard = g
    BY <2>0
  <2>2. ~ (b = c /\ i = n)
    BY <1>4, <2>1
  <2>3. i \in 1 .. Len(frames'[b]) /\ frames'[b][i].guard = g
    BY <1>1, <1>2, <1>3, <2>1, <2>2
  <2> QED
    BY <2>3
<1>7. \A b \in Calls : \A i \in 1 .. Len(frames'[b]) :
        frames'[b][i].guard # NoGuard => frames'[b][i].guard \in guards'
  BY <1>1, <1>4, <1>5 DEF GuardsHeld
<1>8. \A b, d \in Calls : \A j \in 1 .. Len(frames'[b]), i \in 1 .. Len(frames'[d]) :
        frames'[b][j].guard = frames'[d][i].guard /\ frames'[b][j].guard # NoGuard
          => b = d /\ j = i
  BY <1>5 DEF GuardsHeld
<1> QED
  BY <1>4, <1>6, <1>7, <1>8 DEF GuardsHeld

-----------------------------------------------------------------------------
(* Updates of the context. *)

\* The fields the invariant is about.
Same(x, y) == /\ x.partial = y.partial /\ x.error = y.error
              /\ x.hard = y.hard /\ x.exc = y.exc

LEMMA Updates ==
  ASSUME NEW x \in CtxSet
  PROVE  /\ \A e \in ErrorCodes :
              /\ SetError(x, e) \in CtxSet /\ SetError(x, e).error = e
              /\ SetError(x, e).partial = x.partial /\ SetError(x, e).hard = x.hard
              /\ SetError(x, e).exc = x.exc
         /\ \A toks \in Seq(Tokens) : Put(x, toks) \in CtxSet /\ Same(Put(x, toks), x)
         /\ \A fr \in FrameSet : /\ Outdent(x, fr) \in CtxSet /\ Same(Outdent(x, fr), x)
                                 /\ OpenBody(x, fr) \in CtxSet /\ Same(OpenBody(x, fr), x)
         /\ AbortDiscard(x) \in CtxSet /\ Same(AbortDiscard(x), x)
<1>1. ASSUME NEW e \in ErrorCodes
      PROVE  /\ SetError(x, e) \in CtxSet /\ SetError(x, e).error = e
             /\ SetError(x, e).partial = x.partial /\ SetError(x, e).hard = x.hard
             /\ SetError(x, e).exc = x.exc
  BY DEF SetError, CtxSet
<1>2. ASSUME NEW toks \in Seq(Tokens)
      PROVE  Put(x, toks) \in CtxSet /\ Same(Put(x, toks), x)
  <2>1. x.buf \o toks \in Seq(Tokens)
    BY DEF CtxSet
  <2> QED
    BY <2>1 DEF Put, CtxSet, Same
<1>3. ASSUME NEW fr \in FrameSet
      PROVE  /\ Outdent(x, fr) \in CtxSet /\ Same(Outdent(x, fr), x)
             /\ OpenBody(x, fr) \in CtxSet /\ Same(OpenBody(x, fr), x)
  BY DEF Outdent, OpenBody, CtxSet, FrameSet, Same
<1>4. AbortDiscard(x) \in CtxSet /\ Same(AbortDiscard(x), x)
  BY DEF AbortDiscard, CtxSet, Same
<1> QED
  BY <1>1, <1>2, <1>3, <1>4

LEMMA TokenSeqs ==
  /\ << >> \in Seq(Tokens) /\ <<"{">> \o <<"}">> \in Seq(Tokens)
  /\ \A s, t \in Seq(Tokens) : s \o t \in Seq(Tokens)
<1>1. << >> \in Seq(Tokens)
  OBVIOUS
<1>2. ASSUME NEW s \in Seq(Tokens), NEW t \in Seq(Tokens) PROVE s \o t \in Seq(Tokens)
  OBVIOUS
<1>3. <<"{">> \in Seq(Tokens) /\ <<"}">> \in Seq(Tokens)
  BY DEF Tokens
<1>4. <<"{">> \o <<"}">> \in Seq(Tokens)
  BY <1>2, <1>3, Zenon
<1> QED
  BY <1>1, <1>2, <1>4, Zenon

LEMMA HardErrorUpdate ==
  ASSUME NEW x \in CtxSet
  PROVE  /\ HardError(x) \in CtxSet /\ HardError(x).error = "INF" /\ HardError(x).hard = TRUE
         /\ HardError(x).partial = x.partial /\ HardError(x).exc = x.exc
<1>1. Freed \in Seq(Tokens)
  BY DEF Freed, Tokens
<1> QED
  BY <1>1 DEF HardError, SetError, CtxSet, ErrorCodes

LEMMA PointTypes ==
  /\ Idle \in Points /\ Walking \in Points /\ Callback \in Points
  /\ \A ok \in BOOLEAN : Return(ok) \in Points
  /\ \A v \in Values, d \in Int : Visit(v, d) \in Points
  /\ \A n \in Nodes, d \in Int : This(n, d) \in Points
  /\ Idle.pc = "idle" /\ Walking.pc = "next" /\ Callback.pc = "callback"
  /\ \A ok : Return(ok).pc = "ret" /\ Return(ok).ok = ok
  /\ \A v, d : Visit(v, d).pc = "visit" /\ Visit(v, d).val = v /\ Visit(v, d).depth = d
  /\ \A n, d : This(n, d).pc = "this" /\ This(n, d).node = n /\ This(n, d).depth = d
<1>1. Idle \in Points /\ Walking \in Points /\ Callback \in Points
  BY DEF Points
<1>2. \A ok \in BOOLEAN : Return(ok) \in Points
  BY DEF Points
<1>3. \A v \in Values, d \in Int : Visit(v, d) \in Points
  BY DEF Points
<1>4. \A n \in Nodes, d \in Int : This(n, d) \in Points
  BY DEF Points
<1>5. Idle.pc = "idle" /\ Walking.pc = "next" /\ Callback.pc = "callback"
  BY DEF Idle, Walking, Callback
<1>6. \A ok : Return(ok).pc = "ret" /\ Return(ok).ok = ok
  BY DEF Return
<1>7. \A v, d : Visit(v, d).pc = "visit" /\ Visit(v, d).val = v /\ Visit(v, d).depth = d
  BY DEF Visit
<1>8. \A n, d : This(n, d).pc = "this" /\ This(n, d).node = n /\ This(n, d).depth = d
  BY DEF This
<1> QED
  BY <1>1, <1>2, <1>3, <1>4, <1>5, <1>6, <1>7, <1>8

-----------------------------------------------------------------------------
(* Steps that return to the top frame and leave the frames alone. *)

\* A call that goes on has not failed and met no exception.
LEMMA GoingOn ==
  ASSUME WriterInv, NEW c \in Calls, ~ Fails(at[c])
  PROVE  /\ ctx[c] \in CtxSet /\ frames[c] \in Seq(FrameSet)
         /\ ctx[c].partial \in BOOLEAN /\ ctx[c].hard \in BOOLEAN
         /\ ~ ctx[c].exc
         /\ ctx[c].hard <=> Discards(frames[c])
         /\ ~ ctx[c].partial /\ ctx[c].error # None => ctx[c].hard
         /\ ctx[c].hard => ctx[c].error # None /\ ~ ctx[c].partial
         /\ Nested(frames[c])
         /\ Discarding(c) <=> Discards(frames[c])
<1>1. CallOK(at[c], frames[c], ctx[c])
  BY DEF WriterInv
<1>2. ctx[c] \in CtxSet /\ frames[c] \in Seq(FrameSet)
  BY DEF WriterInv, Typed
<1> QED
  BY <1>1, <1>2 DEF CallOK, Standing, Discarding, Discards, Top, CtxSet

\* A result returned without touching frames or guards.
LEMMA ReturnKeeps ==
  ASSUME WriterInv, NEW c \in Calls, ~ Fails(at[c]), NEW ok \in BOOLEAN, NEW x \in CtxSet,
         Go(c, Return(ok)), ctx' = [ctx EXCEPT ![c] = x], UNCHANGED <<guards, frames>>,
         Proceed(c), Standing(Return(ok), Discards(frames[c]), x)
  PROVE  WriterInv'
<1>1. frames[c] \in Seq(FrameSet) /\ Nested(frames[c])
  BY GoingOn
<1>2. frames' = [frames EXCEPT ![c] = frames[c]] /\ guards' = guards
  BY DEF WriterInv, Typed
<1>3. GuardsHeld'
  BY <1>1, <1>2, GuardsSame DEF WriterInv
<1>4. WriterContract' /\ heap' = heap
  BY NothingReported DEF Proceed
<1>5. CallOK(Return(ok), frames[c], x)
  BY <1>1, PointTypes DEF CallOK, InFrame
<1> QED
  BY <1>1, <1>2, <1>3, <1>4, <1>5, StepKeeps, PointTypes DEF Go

LEMMA PartialOrFailKeeps ==
  ASSUME WriterInv, NEW c \in Calls, ~ Fails(at[c]), NEW e \in ErrorCodes, e # None,
         dw_partial_or_fail(c, e), Proceed(c)
  PROVE  WriterInv'
<1> DEFINE y == SetError(ctx[c], e)
           x == IF ctx[c].partial THEN Put(y, <<"v">>) ELSE y
<1>1. /\ ctx[c] \in CtxSet /\ ctx[c].partial \in BOOLEAN /\ ~ ctx[c].exc
      /\ ctx[c].hard <=> Discards(frames[c])
      /\ ctx[c].hard => ~ ctx[c].partial
  BY GoingOn
<1>2. /\ y \in CtxSet /\ y.error = e /\ y.partial = ctx[c].partial
      /\ y.hard = ctx[c].hard /\ y.exc = ctx[c].exc
  BY <1>1, Updates
<1>3. <<"v">> \in Seq(Tokens)
  BY DEF Tokens
<1> HIDE DEF y
<1>4. x \in CtxSet /\ Same(x, y)
  BY <1>1, <1>2, <1>3, Updates DEF Same
<1>5. Standing(Return(ctx[c].partial), Discards(frames[c]), x)
  BY <1>1, <1>2, <1>4, PointTypes DEF Standing, Fails, Same
<1>6. ctx' = [ctx EXCEPT ![c] = x]
  BY DEF dw_partial_or_fail, y
<1> QED
  BY <1>1, <1>4, <1>5, <1>6, ReturnKeeps DEF dw_partial_or_fail

LEMMA SetAndFailKeeps ==
  ASSUME WriterInv, NEW c \in Calls, ~ Fails(at[c]), NEW e \in ErrorCodes, e # None,
         SetAndFail(c, e), Proceed(c)
  PROVE  WriterInv'
<1> DEFINE x == SetError(ctx[c], e)
<1>1. /\ ctx[c] \in CtxSet /\ ~ ctx[c].exc /\ (ctx[c].hard <=> Discards(frames[c]))
      /\ (ctx[c].hard => ~ ctx[c].partial)
  BY GoingOn
<1>2. /\ x \in CtxSet /\ x.error = e /\ x.partial = ctx[c].partial
      /\ x.hard = ctx[c].hard /\ x.exc = ctx[c].exc
  BY <1>1, Updates
<1> HIDE DEF x
<1>3. Standing(Return(FALSE), Discards(frames[c]), x)
  BY <1>1, <1>2, PointTypes DEF Standing, Fails
<1>4. ctx' = [ctx EXCEPT ![c] = x]
  BY DEF SetAndFail, x
<1> QED
  BY <1>2, <1>3, <1>4, ReturnKeeps DEF SetAndFail

LEMMA SucceedKeeps ==
  ASSUME WriterInv, NEW c \in Calls, ~ Fails(at[c]), NEW toks \in Seq(Tokens),
         Succeed(c, toks), Proceed(c)
  PROVE  WriterInv'
<1> DEFINE x == Put(ctx[c], toks)
<1>1. /\ ctx[c] \in CtxSet /\ ~ ctx[c].exc /\ (ctx[c].hard <=> Discards(frames[c]))
      /\ (~ ctx[c].partial /\ ctx[c].error # None => ctx[c].hard)
      /\ (ctx[c].hard => ctx[c].error # None /\ ~ ctx[c].partial)
  BY GoingOn
<1>2. x \in CtxSet /\ Same(x, ctx[c])
  BY <1>1, Updates
<1> HIDE DEF x
<1>3. Standing(Return(TRUE), Discards(frames[c]), x)
  BY <1>1, <1>2, PointTypes DEF Standing, Fails, Same
<1>4. ctx' = [ctx EXCEPT ![c] = x]
  BY DEF Succeed, x
<1> QED
  BY <1>2, <1>3, <1>4, ReturnKeeps DEF Succeed

LEMMA ScalarKeeps ==
  ASSUME WriterInv, NEW c \in Calls, ~ Fails(at[c]), NEW v,
         EncodeScalar(c, v), Proceed(c)
  PROVE  WriterInv'
<1>1. /\ ctx[c] \in CtxSet /\ ctx[c].partial \in BOOLEAN /\ ~ ctx[c].exc
      /\ (ctx[c].hard <=> Discards(frames[c]))
      /\ (~ ctx[c].partial /\ ctx[c].error # None => ctx[c].hard)
      /\ (ctx[c].hard => ctx[c].error # None /\ ~ ctx[c].partial)
      /\ (Discarding(c) <=> Discards(frames[c]))
  BY GoingOn
<1>2. ASSUME NEW toks \in {<< >>, <<"v">>}, Succeed(c, toks) PROVE WriterInv'
  <2>1. << >> \in Seq(Tokens) /\ <<"v">> \in Seq(Tokens)
    BY DEF Tokens
  <2> QED
    BY <1>2, <2>1, SucceedKeeps
<1>3. ASSUME NEW e \in {"INF", "TYPE", "UTF8", "ENUM"}, dw_partial_or_fail(c, e) PROVE WriterInv'
  BY <1>3, PartialOrFailKeeps DEF None, ErrorCodes
<1>4. ASSUME NEW e \in {"TYPE", "UTF8"}, SetAndFail(c, e) PROVE WriterInv'
  BY <1>4, SetAndFailKeeps DEF None, ErrorCodes
<1>5. CASE Discarding(c) /\ discard_inf(c)
  <2>1. ctx' = [ctx EXCEPT ![c] = ctx[c]]
    BY <1>1, <1>5 DEF discard_inf
  <2>2. Standing(Return(TRUE), Discards(frames[c]), ctx[c])
    BY <1>1, PointTypes DEF Standing, Fails
  <2> QED
    BY <1>1, <1>5, <2>1, <2>2, ReturnKeeps DEF discard_inf
<1>6. CASE ~ Discarding(c) /\ emit_inf(c)
  <2>1. CASE ctx[c].partial
    BY <1>3, <1>6, <2>1 DEF emit_inf
  <2>2. CASE ~ ctx[c].partial
    <3> DEFINE x == HardError(ctx[c])
    <3>1. /\ x \in CtxSet /\ x.error = "INF" /\ x.hard = TRUE
          /\ x.partial = ctx[c].partial /\ x.exc = ctx[c].exc
      BY <1>1, HardErrorUpdate
    <3>2. ctx' = [ctx EXCEPT ![c] = x] /\ Go(c, Return(FALSE)) /\ UNCHANGED <<guards, frames>>
      BY <1>6, <2>2 DEF emit_inf
    <3> HIDE DEF x
    <3>3. Standing(Return(FALSE), Discards(frames[c]), x)
      BY <1>1, <2>2, <3>1, PointTypes DEF Standing, Fails, None
    <3> QED
      BY <3>1, <3>2, <3>3, ReturnKeeps
  <2> QED
    BY <2>1, <2>2
<1> QED
  BY <1>2, <1>3, <1>4, <1>5, <1>6 DEF EncodeScalar

-----------------------------------------------------------------------------
(* Steps that push, pop or replace the top frame. *)

LEMMA AppendFacts ==
  ASSUME NEW s \in Seq(FrameSet), NEW fr \in FrameSet
  PROVE  /\ Append(s, fr) \in Seq(FrameSet) /\ Append(s, fr) # << >>
         /\ Last(Append(s, fr)) = fr
         /\ Discards(Append(s, fr)) <=> fr.mode # "emit"
         /\ Nested(s) /\ (fr.mode = "discard" <=> Discards(s)) => Nested(Append(s, fr))
<1>1. /\ Append(s, fr) \in Seq(FrameSet) /\ Append(s, fr) # << >>
      /\ Len(Append(s, fr)) = Len(s) + 1 /\ Append(s, fr)[Len(s) + 1] = fr
      /\ \A i \in 1 .. Len(s) : Append(s, fr)[i] = s[i]
      /\ Len(s) \in Nat
  OBVIOUS
<1>2. Last(Append(s, fr)) = fr
  BY <1>1 DEF Last
<1>3. Nested(s) /\ (fr.mode = "discard" <=> Discards(s)) => Nested(Append(s, fr))
  <2> SUFFICES ASSUME Nested(s), fr.mode = "discard" <=> Discards(s),
                      NEW i \in 1 .. Len(Append(s, fr))
               PROVE  Append(s, fr)[i].mode = "discard"
                        <=> (i > 1 /\ Append(s, fr)[i - 1].mode # "emit")
    BY DEF Nested
  <2>1. CASE i = Len(s) + 1 /\ s = << >>
    BY <1>1, <2>1 DEF Discards
  <2>2. CASE i = Len(s) + 1 /\ s # << >>
    <3>1. Len(s) > 0 /\ Append(s, fr)[i - 1] = s[Len(s)] /\ Last(s) = s[Len(s)]
      BY <1>1, <2>2 DEF Last
    <3> QED
      BY <1>1, <2>2, <3>1 DEF Discards
  <2>3. CASE i \in 1 .. Len(s)
    <3>1. i > 1 => Append(s, fr)[i - 1] = s[i - 1]
      BY <1>1, <2>3
    <3> QED
      BY <1>1, <2>3, <3>1 DEF Nested
  <2> QED
    BY <1>1, <2>1, <2>2, <2>3
<1> QED
  BY <1>1, <1>2, <1>3 DEF Discards

LEMMA FrontFacts ==
  ASSUME NEW s \in Seq(FrameSet), s # << >>, Nested(s)
  PROVE  /\ Front(s) \in Seq(FrameSet) /\ Nested(Front(s))
         /\ Discards(Front(s)) <=> Last(s).mode = "discard"
         /\ Last(s) \in FrameSet
<1>1. Len(s) \in Nat \ {0} /\ Last(s) = s[Len(s)] /\ Last(s) \in FrameSet
  BY DEF Last
<1>2. /\ Front(s) \in Seq(FrameSet) /\ Len(Front(s)) = Len(s) - 1
      /\ \A i \in 1 .. Len(s) - 1 : Front(s)[i] = s[i]
  <2>1. Len(s) - 1 \in Nat /\ Front(s) = [i \in 1 .. Len(s) - 1 |-> s[i]]
    BY <1>1 DEF Front
  <2>2. Front(s) \in [1 .. Len(s) - 1 -> FrameSet]
    BY <1>1, <2>1
  <2>3. Front(s) \in Seq(FrameSet) /\ Len(Front(s)) = Len(s) - 1
    BY <2>1, <2>2
  <2> QED
    BY <2>1, <2>3
<1>3. Nested(Front(s))
  <2> SUFFICES ASSUME NEW i \in 1 .. Len(Front(s))
               PROVE  Front(s)[i].mode = "discard" <=> (i > 1 /\ Front(s)[i - 1].mode # "emit")
    BY DEF Nested
  <2>1. i \in 1 .. Len(s) /\ Front(s)[i] = s[i] /\ (i > 1 => Front(s)[i - 1] = s[i - 1])
    BY <1>1, <1>2
  <2> QED
    BY <2>1 DEF Nested
<1>4. CASE Len(s) = 1
  <2>1. Front(s) = << >>
    BY <1>1, <1>2, <1>4
  <2>2. s[1].mode # "discard"
    BY <1>1, <1>4 DEF Nested
  <2> QED
    BY <1>1, <1>2, <1>3, <1>4, <2>1, <2>2 DEF Discards
<1>5. CASE Len(s) > 1
  <2>1. Front(s) # << >> /\ Last(Front(s)) = s[Len(s) - 1]
    BY <1>1, <1>2, <1>5 DEF Last
  <2>2. s[Len(s)].mode = "discard" <=> s[Len(s) - 1].mode # "emit"
    BY <1>1, <1>5 DEF Nested
  <2> QED
    BY <1>1, <1>2, <1>3, <2>1, <2>2 DEF Discards
<1>6. Len(s) = 1 \/ Len(s) > 1
  <2>1. \A n \in Nat \ {0} : n = 1 \/ n > 1
    OBVIOUS
  <2> QED
    BY <1>1, <2>1, Zenon
<1> QED
  BY <1>4, <1>5, <1>6, Zenon

\* Replacing the top by a frame of the same kind of mode.
LEMMA ReplaceFacts ==
  ASSUME NEW s \in Seq(FrameSet), s # << >>, Nested(s), NEW fr \in FrameSet,
         fr.mode = "discard" <=> Last(s).mode = "discard"
  PROVE  LET t == [s EXCEPT ![Len(s)] = fr]
         IN  /\ t \in Seq(FrameSet) /\ t # << >> /\ Len(t) = Len(s) /\ Last(t) = fr
             /\ Nested(t) /\ (Discards(t) <=> fr.mode # "emit")
             /\ \A i \in 1 .. Len(s) : i # Len(s) => t[i] = s[i]
             /\ t[Len(s)] = fr /\ Last(s) = s[Len(s)]
<1> DEFINE t == [s EXCEPT ![Len(s)] = fr]
<1>1. Len(s) \in Nat \ {0} /\ s \in [1 .. Len(s) -> FrameSet]
  OBVIOUS
<1>2. t \in [1 .. Len(s) -> FrameSet]
  BY <1>1
<1>3. t \in Seq(FrameSet) /\ Len(t) = Len(s)
  BY <1>1, <1>2
<1>4. DOMAIN s = 1 .. Len(s) /\ Len(s) \in 1 .. Len(s)
  BY <1>1
<1>5. /\ t[Len(s)] = fr
      /\ \A i \in 1 .. Len(s) : i # Len(s) => t[i] = s[i]
  BY <1>4
<1> HIDE DEF t
<1>6. Last(t) = fr /\ Last(s) = s[Len(s)] /\ t # << >>
  BY <1>1, <1>3, <1>5 DEF Last
<1>7. Nested(t)
  <2> SUFFICES ASSUME NEW i \in 1 .. Len(t)
               PROVE  t[i].mode = "discard" <=> (i > 1 /\ t[i - 1].mode # "emit")
    BY DEF Nested
  <2>1. i \in 1 .. Len(s) /\ (i > 1 => t[i - 1] = s[i - 1])
    <3>1. i \in 1 .. Len(s)
      BY <1>3
    <3>2. i > 1 => i - 1 \in 1 .. Len(s) /\ i - 1 # Len(s)
      BY <1>1, <3>1
    <3> QED
      BY <1>5, <3>1, <3>2
  <2>2. t[i].mode = "discard" <=> s[i].mode = "discard"
    BY <1>1, <1>6, <1>5, <2>1
  <2>3. s[i].mode = "discard" <=> (i > 1 /\ s[i - 1].mode # "emit")
    BY <2>1 DEF Nested
  <2> QED
    BY <2>1, <2>2, <2>3
<1> QED
  BY <1>1, <1>3, <1>5, <1>6, <1>7 DEF Discards, t

\* A call that goes on with the same error state, discarding as before.
LEMMA Stands ==
  ASSUME WriterInv, NEW c \in Calls, ~ Fails(at[c]), NEW p \in Points, ~ Fails(p),
         NEW s \in Seq(FrameSet), Discards(s) <=> Discards(frames[c]),
         NEW x \in CtxSet, Same(x, ctx[c])
  PROVE  Standing(p, Discards(s), x)
<1>1. /\ ~ ctx[c].exc
      /\ ctx[c].hard <=> Discards(frames[c])
      /\ ~ ctx[c].partial /\ ctx[c].error # None => ctx[c].hard
      /\ ctx[c].hard => ctx[c].error # None /\ ~ ctx[c].partial
  BY GoingOn
<1> QED
  BY <1>1 DEF Standing, Same

LEMMA BeginKeeps ==
  ASSUME WriterInv, NEW c \in Calls, ~ Fails(at[c]), NEW n \in Nodes,
         NEW kind \in {"list", "assoc", "props"}, NEW d \in Int, NEW g \in GuardSet,
         g \notin guards, NEW body \in BOOLEAN, Begin(c, n, kind, d, g, body), Proceed(c)
  PROVE  WriterInv'
<1> DEFINE fr == Frame(n, kind, d - 1, g, Mode(c), body)
           s  == Append(frames[c], fr)
           x  == IF Discarding(c) THEN ctx[c] ELSE OpenBracket(ctx[c], kind, body)
<1>1. /\ ctx[c] \in CtxSet /\ frames[c] \in Seq(FrameSet) /\ Nested(frames[c])
      /\ Discarding(c) <=> Discards(frames[c])
  BY GoingOn
<1>2. Mode(c) \in {"emit", "discard"} /\ (Mode(c) = "discard" <=> Discards(frames[c]))
  BY <1>1 DEF Mode
<1>3. fr \in FrameSet /\ fr.guard = g /\ fr.mode = Mode(c) /\ fr.kind # "json"
  BY <1>2 DEF Frame, FrameSet
<1>4. x \in CtxSet /\ Same(x, ctx[c])
  <2>1. <<Brackets(kind)[1]>> \in Seq(Tokens)
    BY DEF Brackets, Tokens
  <2>2. ctx[c].buf \o <<Brackets(kind)[1]>> \in Seq(Tokens)
    BY <1>1, <2>1 DEF CtxSet
  <2>3. ctx[c].indent \in Int /\ (IF body THEN ctx[c].indent + 1 ELSE ctx[c].indent) \in Int
    BY <1>1 DEF CtxSet
  <2>4. OpenBracket(ctx[c], kind, body) \in CtxSet
    BY <1>1, <2>2, <2>3 DEF OpenBracket, CtxSet
  <2>5. Same(OpenBracket(ctx[c], kind, body), ctx[c])
    BY <1>1 DEF OpenBracket, Same, CtxSet
  <2> QED
    BY <1>1, <2>4, <2>5 DEF Same
<1>5. /\ frames' = [frames EXCEPT ![c] = s] /\ ctx' = [ctx EXCEPT ![c] = x]
      /\ at' = [at EXCEPT ![c] = Walking] /\ Protect(fr.guard)
  <2>1. Protect(g) /\ at' = [at EXCEPT ![c] = Walking]
    BY DEF Begin, Go
  <2>2. frames' = [frames EXCEPT ![c] = s]
    BY DEF Begin
  <2>3. ctx' = [ctx EXCEPT ![c] = x]
    BY DEF Begin
  <2> QED
    BY <1>3, <2>1, <2>2, <2>3
<1>6. WriterContract' /\ heap' = heap
  BY NothingReported DEF Proceed
<1> HIDE DEF fr, x
<1>7. GuardsHeld'
  BY <1>3, <1>5, GuardsPush DEF WriterInv
<1>8. /\ s \in Seq(FrameSet) /\ s # << >> /\ Last(s) = fr /\ Nested(s)
      /\ Discards(s) <=> Discards(frames[c])
  BY <1>1, <1>2, <1>3, AppendFacts
<1> HIDE DEF s
<1>9. Walking \in Points /\ Walking.pc = "next" /\ ~ Fails(Walking)
  BY PointTypes DEF Fails
<1>10. Standing(Walking, Discards(s), x)
  BY <1>4, <1>8, <1>9, Stands
<1>11. CallOK(Walking, s, x)
  BY <1>3, <1>8, <1>9, <1>10 DEF CallOK, InFrame
<1> QED
  BY <1>4, <1>5, <1>6, <1>7, <1>8, <1>9, <1>11, StepKeeps

\* jsonSerialize() is called from a new frame that emits.
LEMMA SerializerKeeps ==
  ASSUME WriterInv, NEW c \in Calls, ~ Fails(at[c]), NEW n \in Nodes, NEW d \in Int,
         ~ Discarding(c), dw_emit_jsonserializable(c, n, d), Proceed(c)
  PROVE  WriterInv'
<1>1. CASE Json(n) \in guards
  BY <1>1, PartialOrFailKeeps DEF dw_emit_jsonserializable, ErrorCodes, None
<1>2. CASE Json(n) \notin guards
  <2> DEFINE fr == Frame(n, "json", d, Json(n), "emit", FALSE)
             s  == Append(frames[c], fr)
  <2>1. /\ ctx[c] \in CtxSet /\ frames[c] \in Seq(FrameSet) /\ Nested(frames[c])
        /\ ~ Discards(frames[c])
    BY GoingOn
  <2>2. fr \in FrameSet /\ fr.guard = Json(n) /\ fr.mode = "emit"
    BY DEF Frame, FrameSet, GuardSet
  <2>3. /\ frames' = [frames EXCEPT ![c] = s] /\ at' = [at EXCEPT ![c] = Callback]
        /\ Protect(fr.guard) /\ ctx' = ctx
    BY <1>2, <2>2 DEF dw_emit_jsonserializable, Go
  <2>4. WriterContract' /\ heap' = heap /\ ctx' = [ctx EXCEPT ![c] = ctx[c]]
    BY <2>3, NothingReported DEF Proceed, WriterInv, Typed
  <2> HIDE DEF fr
  <2>5. GuardsHeld'
    BY <1>2, <2>2, <2>3, GuardsPush DEF WriterInv
  <2>6. /\ s \in Seq(FrameSet) /\ s # << >> /\ Last(s) = fr /\ Nested(s)
        /\ Discards(s) <=> Discards(frames[c])
    BY <2>1, <2>2, AppendFacts
  <2> HIDE DEF s
  <2>7. Callback \in Points /\ Callback.pc = "callback" /\ ~ Fails(Callback)
    BY PointTypes DEF Fails
  <2>8. Standing(Callback, Discards(s), ctx[c])
    BY <2>1, <2>6, <2>7, Stands DEF Same
  <2>9. CallOK(Callback, s, ctx[c])
    BY <2>2, <2>6, <2>7, <2>8 DEF CallOK, InFrame
  <2> QED
    BY <2>1, <2>3, <2>4, <2>5, <2>6, <2>7, <2>9, StepKeeps
<1> QED
  BY <1>1, <1>2

\* The top frame is left with a result.
LEMMA LeaveKeeps ==
  ASSUME WriterInv, NEW c \in Calls, frames[c] # << >>, NEW ok \in BOOLEAN, NEW x \in CtxSet,
         Leave(c, ok), ctx' = [ctx EXCEPT ![c] = x], Proceed(c),
         Standing(Return(ok), Last(frames[c]).mode = "discard", x)
  PROVE  WriterInv'
<1> DEFINE s == Front(frames[c])
<1>1. frames[c] \in Seq(FrameSet) /\ Nested(frames[c])
  BY DEF WriterInv, Typed, CallOK
<1>2. s \in Seq(FrameSet) /\ Nested(s) /\ (Discards(s) <=> Last(frames[c]).mode = "discard")
  BY <1>1, FrontFacts
<1>3. /\ frames' = [frames EXCEPT ![c] = s] /\ at' = [at EXCEPT ![c] = Return(ok)]
      /\ Unprotect(Top(c).guard)
  BY DEF Leave, Go
<1>4. WriterContract' /\ heap' = heap
  BY NothingReported DEF Proceed
<1>5. GuardsHeld'
  BY <1>3, GuardsPop DEF WriterInv
<1> HIDE DEF s
<1>6. Standing(Return(ok), Discards(s), x)
  BY <1>2 DEF Standing
<1>7. Return(ok) \in Points /\ Return(ok).pc = "ret"
  BY PointTypes
<1>8. CallOK(Return(ok), s, x)
  BY <1>2, <1>6, <1>7 DEF CallOK, InFrame
<1> QED
  BY <1>2, <1>3, <1>4, <1>5, <1>7, <1>8, StepKeeps

\* The top frame advances or changes its mode.
LEMMA ReplaceKeeps ==
  ASSUME WriterInv, NEW c \in Calls, frames[c] # << >>, NEW fr \in FrameSet,
         fr.guard = Last(frames[c]).guard,
         fr.mode = "discard" <=> Last(frames[c]).mode = "discard",
         NEW p \in Points, NEW x \in CtxSet,
         SetTop(c, fr), at' = [at EXCEPT ![c] = p], ctx' = [ctx EXCEPT ![c] = x],
         guards' = guards, Proceed(c),
         p.pc # "idle", p.pc = "callback" => fr.mode = "emit",
         p.pc = "next" => fr.kind # "json",
         Standing(p, fr.mode # "emit", x)
  PROVE  WriterInv'
<1> DEFINE s == [frames[c] EXCEPT ![Len(frames[c])] = fr]
<1>1. frames[c] \in Seq(FrameSet) /\ Nested(frames[c])
  BY DEF WriterInv, Typed, CallOK
<1>2. /\ s \in Seq(FrameSet) /\ s # << >> /\ Len(s) = Len(frames[c]) /\ Last(s) = fr
      /\ Nested(s) /\ (Discards(s) <=> fr.mode # "emit")
      /\ \A i \in 1 .. Len(frames[c]) : i # Len(frames[c]) => s[i] = frames[c][i]
      /\ s[Len(frames[c])] = fr /\ Last(frames[c]) = frames[c][Len(frames[c])]
  BY <1>1, ReplaceFacts
<1>3. frames' = [frames EXCEPT ![c] = s]
  BY DEF SetTop
<1>4. WriterContract' /\ heap' = heap
  BY NothingReported DEF Proceed
<1> HIDE DEF s
<1>5. \A i \in 1 .. Len(s) : s[i].guard = frames[c][i].guard
  BY <1>2
<1>6. GuardsHeld'
  BY <1>2, <1>3, <1>5, GuardsSame DEF WriterInv
<1>7. Standing(p, Discards(s), x)
  BY <1>2 DEF Standing
<1>8. CallOK(p, s, x)
  BY <1>2, <1>7 DEF CallOK, InFrame
<1> QED
  BY <1>2, <1>3, <1>4, <1>6, <1>8, StepKeeps

-----------------------------------------------------------------------------
(* One lemma per action. *)

LEMMA HeapTypes ==
  ASSUME Typed, NEW n \in Nodes
  PROVE  /\ heap[n].kind \in {"list", "assoc", "obj", "json", "bare"}
         /\ heap[n].items \in Seq(Item)
         /\ GcGuard(n) \in GuardSet
<1>1. heap[n] \in Node
  BY HeapAssumption DEF Typed
<1> QED
  BY <1>1 DEF Node, GcGuard, GuardSet

LEMMA PropsKeeps ==
  ASSUME WriterInv, NEW c \in Calls, ~ Fails(at[c]), NEW n \in Nodes, NEW d \in Int,
         dw_emit_object_props(c, n, d), Proceed(c)
  PROVE  WriterInv'
<1>1. ASSUME NEW e \in {"DEPTH", "RECURSION"}, dw_partial_or_fail(c, e) PROVE WriterInv'
  BY <1>1, PartialOrFailKeeps DEF None, ErrorCodes
<1>2. ASSUME NEW toks \in {<< >>, <<"{">> \o <<"}">>}, Succeed(c, toks) PROVE WriterInv'
  <2>1. << >> \in Seq(Tokens) /\ <<"{">> \o <<"}">> \in Seq(Tokens)
    BY TokenSeqs
  <2> QED
    BY <1>2, <2>1, SucceedKeeps
<1>3. ASSUME GcGuard(n) \notin guards, Begin(c, n, "props", d, GcGuard(n), FALSE) PROVE WriterInv'
  BY <1>3, BeginKeeps, HeapTypes DEF WriterInv
<1> QED
  BY <1>1, <1>2, <1>3 DEF dw_emit_object_props

LEMMA EncodeValueKeeps ==
  ASSUME WriterInv, NEW c \in Calls, EncodeValue(c)
  PROVE  WriterInv'
<1> DEFINE v == at[c].val
           d == at[c].depth
<1>1. at[c].pc = "visit" /\ Proceed(c) /\ ~ Fails(at[c])
  BY DEF EncodeValue, Fails
<1>2. v \in Values /\ d \in Int
  <2>1. at[c] \in Points
    BY DEF WriterInv, Typed
  <2>2. PICK w \in Values, e \in Int : at[c] = Visit(w, e)
    BY <1>1, <2>1 DEF Points, Idle, Walking, Callback, This, Return
  <2> QED
    BY <2>2 DEF Visit
<1> HIDE DEF v, d
<1>3. ASSUME NEW e \in {"DEPTH", "RECURSION"}, dw_partial_or_fail(c, e) PROVE WriterInv'
  BY <1>1, <1>3, PartialOrFailKeeps DEF None, ErrorCodes
<1>4. CASE v \in Scalars /\ EncodeScalar(c, v)
  BY <1>1, <1>4, ScalarKeeps
<1>5. ASSUME NEW overflow, v \in Nodes, heap[v].kind \in {"list", "assoc"},
             dw_emit_array(c, v, d, overflow)
      PROVE  WriterInv'
  <2>1. ASSUME GcGuard(v) \notin guards,
               Begin(c, v, heap[v].kind, d, GcGuard(v), heap[v].items # << >>)
        PROVE  WriterInv'
    <3>1. (heap[v].items # << >>) \in BOOLEAN /\ heap[v].kind \in {"list", "assoc", "props"}
      BY <1>5
    <3> QED
      BY <1>1, <1>2, <1>5, <2>1, <3>1, BeginKeeps, HeapTypes DEF WriterInv
  <2> QED
    BY <1>3, <1>5, <2>1 DEF dw_emit_array
<1>6. ASSUME NEW overflow, v \in Nodes, dw_emit_object(c, v, d, overflow) PROVE WriterInv'
  <2>1. << >> \in Seq(Tokens)
    OBVIOUS
  <2>2. CASE dw_discard_jsonserializable(c, v, d)
    BY <1>1, <2>1, <2>2, SucceedKeeps DEF dw_discard_jsonserializable
  <2>3. CASE ~ Discarding(c) /\ dw_emit_jsonserializable(c, v, d)
    BY <1>1, <1>2, <1>6, <2>3, SerializerKeeps
  <2>4. CASE dw_emit_object_props(c, v, d)
    BY <1>1, <1>2, <1>6, <2>4, PropsKeeps
  <2> QED
    BY <1>3, <1>6, <2>2, <2>3, <2>4 DEF dw_emit_object
<1>7. \/ dw_partial_or_fail(c, "DEPTH")
      \/ v \in Scalars /\ EncodeScalar(c, v)
      \/ /\ v \notin Scalars
         /\ \E overflow \in MayOverflow :
              IF heap[v].kind \in {"list", "assoc"}
                THEN dw_emit_array(c, v, d, overflow)
                ELSE dw_emit_object(c, v, d, overflow)
  BY DEF EncodeValue, v, d
<1>8. v \in Scalars \/ v \in Nodes
  BY <1>2 DEF Values
<1> QED
  BY <1>3, <1>4, <1>5, <1>6, <1>7, <1>8

LEMMA EncodeThisKeeps ==
  ASSUME WriterInv, NEW c \in Calls, EncodeThis(c)
  PROVE  WriterInv'
<1>1. at[c].pc = "this" /\ Proceed(c) /\ ~ Fails(at[c])
  BY DEF EncodeThis, Fails
<1>2. at[c] \in Points
  BY DEF WriterInv, Typed
<1>3. \E n \in Nodes, d \in Int : at[c] = This(n, d)
  BY <1>1, <1>2 DEF Points, Idle, Walking, Callback, Visit, Return
<1>4. at[c].node \in Nodes /\ at[c].depth \in Int
  BY <1>3, PointTypes
<1> QED
  BY <1>1, <1>4, PropsKeeps DEF EncodeThis

\* What a step may do to the top frame.
LEMMA FrameUpdates ==
  ASSUME NEW fr \in FrameSet
  PROVE  /\ Advance(fr) \in FrameSet /\ Advance(fr).guard = fr.guard
         /\ Advance(fr).mode = fr.mode /\ Advance(fr).kind = fr.kind
         /\ Resumed(fr) \in FrameSet /\ Resumed(fr).guard = fr.guard
         /\ Resumed(fr).mode = fr.mode /\ Resumed(fr).kind = fr.kind
         /\ [fr EXCEPT !.body = TRUE] \in FrameSet
         /\ [fr EXCEPT !.body = TRUE].guard = fr.guard
         /\ [fr EXCEPT !.body = TRUE].mode = fr.mode
         /\ fr.kind # "json" => [Advance(fr) EXCEPT !.mode = "drain"] \in FrameSet
         /\ [Advance(fr) EXCEPT !.mode = "drain"].guard = fr.guard
         /\ [Advance(fr) EXCEPT !.mode = "drain"].mode = "drain"
         /\ [Advance(fr) EXCEPT !.mode = "drain"].kind = fr.kind
<1>1. /\ Advance(fr) \in FrameSet /\ Advance(fr).guard = fr.guard
      /\ Advance(fr).mode = fr.mode /\ Advance(fr).kind = fr.kind
  BY DEF Advance, FrameSet
<1>2. /\ Resumed(fr) \in FrameSet /\ Resumed(fr).guard = fr.guard
      /\ Resumed(fr).mode = fr.mode /\ Resumed(fr).kind = fr.kind
  BY <1>1 DEF Resumed, FrameSet
<1>3. /\ [fr EXCEPT !.body = TRUE] \in FrameSet
      /\ [fr EXCEPT !.body = TRUE].guard = fr.guard
      /\ [fr EXCEPT !.body = TRUE].mode = fr.mode
  BY DEF FrameSet
<1>4. /\ fr.kind # "json" => [Advance(fr) EXCEPT !.mode = "drain"] \in FrameSet
      /\ [Advance(fr) EXCEPT !.mode = "drain"].guard = fr.guard
      /\ [Advance(fr) EXCEPT !.mode = "drain"].mode = "drain"
      /\ [Advance(fr) EXCEPT !.mode = "drain"].kind = fr.kind
  BY <1>1 DEF FrameSet
<1> QED
  BY <1>1, <1>2, <1>3, <1>4

\* A call that walks or waits in PHP code has a top frame.
LEMMA TopFrame ==
  ASSUME WriterInv, NEW c \in Calls, frames[c] # << >>
  PROVE  /\ frames[c] \in Seq(FrameSet) /\ Top(c) = Last(frames[c]) /\ Top(c) \in FrameSet
         /\ Nested(frames[c])
         /\ Discards(frames[c]) <=> Top(c).mode # "emit"
         /\ Discarding(c) <=> Top(c).mode # "emit"
         /\ Top(c).mode \in {"emit", "drain", "discard"}
         /\ Top(c).depth \in Int /\ Top(c).node \in Nodes
<1>1. frames[c] \in Seq(FrameSet) /\ Nested(frames[c]) /\ Top(c) = Last(frames[c])
  BY DEF WriterInv, Typed, CallOK, Top
<1>2. Top(c) \in FrameSet
  BY <1>1, FrontFacts
<1> QED
  BY <1>1, <1>2 DEF Discards, Discarding, FrameSet

LEMMA EmitKeyKeeps ==
  ASSUME WriterInv, NEW c \in Calls, ~ Fails(at[c]), frames[c] # << >>, Top(c).mode = "emit",
         NEW key, NEW v \in Values, EmitKeyAndVisit(c, key, v), Proceed(c)
  PROVE  WriterInv'
<1> DEFINE fr  == Top(c)
           bad == key = "bad" /\ fr.kind # "list"
           y   == OpenBody(ctx[c], fr)
           sep == Comma(fr)
           toks == sep \o (IF fr.kind = "list" THEN << >> ELSE <<"k">>)
           x   == IF bad /\ ~ y.partial THEN Put(SetError(y, "UTF8"), sep)
                  ELSE Put(IF bad THEN SetError(y, "UTF8") ELSE y, toks)
           p   == IF bad /\ ~ y.partial THEN Return(FALSE) ELSE Visit(v, fr.depth)
           fs  == [fr EXCEPT !.body = TRUE]
<1>1. /\ fr = Last(frames[c]) /\ fr \in FrameSet /\ fr.mode = "emit" /\ fr.depth \in Int
      /\ ~ Discards(frames[c])
  BY TopFrame
<1>2. /\ ctx[c] \in CtxSet /\ ctx[c].partial \in BOOLEAN /\ ~ ctx[c].exc /\ ~ ctx[c].hard
      /\ (~ ctx[c].partial => ctx[c].error = None)
  BY <1>1, GoingOn
<1>3. at' = [at EXCEPT ![c] = p] /\ guards' = guards
  BY DEF EmitKeyAndVisit, Go
<1>4. SetTop(c, fs)
  BY DEF EmitKeyAndVisit
<1>5. ctx' = [ctx EXCEPT ![c] = x]
  BY DEF EmitKeyAndVisit
<1>6. sep \in Seq(Tokens) /\ toks \in Seq(Tokens)
  <2>1. << >> \in Seq(Tokens) /\ <<",">> \in Seq(Tokens) /\ <<"k">> \in Seq(Tokens)
    BY DEF Tokens
  <2>2. sep \in Seq(Tokens)
    BY <2>1 DEF Comma
  <2> HIDE DEF sep
  <2>3. (IF fr.kind = "list" THEN << >> ELSE <<"k">>) \in Seq(Tokens)
    BY <2>1
  <2> QED
    BY <2>2, <2>3, TokenSeqs
<1>7. y \in CtxSet /\ Same(y, ctx[c])
  BY <1>1, <1>2, Updates
<1> HIDE DEF toks, sep, y
<1>8. /\ SetError(y, "UTF8") \in CtxSet /\ SetError(y, "UTF8").error = "UTF8"
      /\ SetError(y, "UTF8").partial = y.partial /\ SetError(y, "UTF8").hard = y.hard
      /\ SetError(y, "UTF8").exc = y.exc
  BY <1>7, Updates DEF ErrorCodes
<1>9. fs \in FrameSet /\ fs.guard = fr.guard /\ fs.mode = "emit"
  BY <1>1, FrameUpdates
<1> HIDE DEF fr, fs
<1>10. CASE bad /\ ~ y.partial
  <2>1. x \in CtxSet /\ Same(x, SetError(y, "UTF8"))
    BY <1>6, <1>8, <1>10, Updates
  <2>2. p = Return(FALSE) /\ Return(FALSE) \in Points /\ p.pc = "ret" /\ Fails(p)
    BY <1>10, PointTypes DEF Fails
  <2> HIDE DEF x, p, bad
  <2>3. Standing(p, fs.mode # "emit", x)
    BY <1>2, <1>7, <1>8, <1>9, <2>1, <2>2 DEF Standing, Same, None
  <2> QED
    BY <1>1, <1>3, <1>4, <1>5, <1>9, <2>1, <2>2, <2>3, ReplaceKeeps
<1>11. CASE ~ (bad /\ ~ y.partial)
  <2>1. CASE bad
    <3>1. x \in CtxSet /\ Same(x, SetError(y, "UTF8"))
      BY <1>6, <1>8, <1>11, <2>1, Updates
    <3>2. p = Visit(v, fr.depth)
      BY <1>11
    <3> HIDE DEF p
    <3>3. p \in Points /\ p.pc = "visit" /\ ~ Fails(p)
      BY <1>1, <3>2, PointTypes DEF Fails
    <3>4. y.partial
      BY <1>11, <2>1
    <3> HIDE DEF x, bad
    <3>5. Standing(p, fs.mode # "emit", x)
      BY <1>2, <1>7, <1>8, <1>9, <3>1, <3>3, <3>4 DEF Standing, Same
    <3> QED
      BY <1>1, <1>3, <1>4, <1>5, <1>9, <3>1, <3>3, <3>5, ReplaceKeeps
  <2>2. CASE ~ bad
    <3>1. x \in CtxSet /\ Same(x, y)
      BY <1>6, <1>7, <2>2, Updates
    <3>2. p = Visit(v, fr.depth)
      BY <1>11
    <3> HIDE DEF p
    <3>3. p \in Points /\ p.pc = "visit" /\ ~ Fails(p)
      BY <1>1, <3>2, PointTypes DEF Fails
    <3> HIDE DEF x, bad
    <3>4. Standing(p, fs.mode # "emit", x)
      BY <1>2, <1>7, <1>9, <3>1, <3>3 DEF Standing, Same
    <3> QED
      BY <1>1, <1>3, <1>4, <1>5, <1>9, <3>1, <3>3, <3>4, ReplaceKeeps
  <2> QED
    BY <2>1, <2>2
<1> QED
  BY <1>10, <1>11

\* Only the control point moves.
LEMMA GoKeeps ==
  ASSUME WriterInv, NEW c \in Calls, ~ Fails(at[c]), NEW p \in Points, ~ Fails(p),
         InFrame(p, frames[c]), Go(c, p), UNCHANGED <<guards, frames, ctx>>, Proceed(c)
  PROVE  WriterInv'
<1>1. /\ ctx[c] \in CtxSet /\ frames[c] \in Seq(FrameSet) /\ Nested(frames[c])
  BY GoingOn
<1>2. /\ frames' = [frames EXCEPT ![c] = frames[c]] /\ ctx' = [ctx EXCEPT ![c] = ctx[c]]
      /\ guards' = guards
  BY DEF WriterInv, Typed
<1>3. GuardsHeld'
  BY <1>1, <1>2, GuardsSame DEF WriterInv
<1>4. WriterContract' /\ heap' = heap
  BY NothingReported DEF Proceed
<1>5. Standing(p, Discards(frames[c]), ctx[c])
  BY <1>1, Stands DEF Same
<1>6. CallOK(p, frames[c], ctx[c])
  BY <1>1, <1>5 DEF CallOK
<1> QED
  BY <1>1, <1>2, <1>3, <1>4, <1>6, StepKeeps DEF Go

LEMMA DiscardKeyKeeps ==
  ASSUME WriterInv, NEW c \in Calls, ~ Fails(at[c]), frames[c] # << >>, Discarding(c),
         NEW key, NEW v \in Values, DiscardKeyAndVisit(c, key, v), Proceed(c)
  PROVE  WriterInv'
<1> DEFINE bad == key = "bad" /\ Top(c).kind # "list"
<1>1. ctx[c] \in CtxSet /\ ctx[c].hard /\ ~ ctx[c].partial /\ ~ ctx[c].exc
      /\ Discards(frames[c])
  BY GoingOn
<1>2. CASE bad
  <2> DEFINE x == SetError(ctx[c], "UTF8")
  <2>1. /\ x \in CtxSet /\ x.error = "UTF8" /\ x.partial = ctx[c].partial
        /\ x.hard = ctx[c].hard /\ x.exc = ctx[c].exc
    BY <1>1, Updates DEF ErrorCodes
  <2>2. ctx' = [ctx EXCEPT ![c] = x] /\ Go(c, Return(FALSE)) /\ UNCHANGED <<guards, frames>>
    BY <1>2 DEF DiscardKeyAndVisit
  <2> HIDE DEF x
  <2>3. Standing(Return(FALSE), Discards(frames[c]), x)
    BY <1>1, <2>1, PointTypes DEF Standing, Fails, None
  <2> QED
    BY <2>1, <2>2, <2>3, ReturnKeeps
<1>3. CASE ~ bad
  <2> DEFINE p == Visit(v, Top(c).depth)
  <2>1. p \in Points /\ p.pc = "visit" /\ ~ Fails(p)
    BY TopFrame, PointTypes DEF Fails
  <2>2. ctx' = [ctx EXCEPT ![c] = ctx[c]] /\ Go(c, p) /\ UNCHANGED <<guards, frames>>
    BY <1>3 DEF DiscardKeyAndVisit
  <2>3. ctx' = ctx
    BY <2>2 DEF WriterInv, Typed
  <2> HIDE DEF p
  <2> QED
    BY <2>1, <2>2, <2>3, GoKeeps DEF InFrame
<1> QED
  BY <1>2, <1>3

\* The top frame advances, and walking goes on.
LEMMA AdvanceKeeps ==
  ASSUME WriterInv, NEW c \in Calls, ~ Fails(at[c]), frames[c] # << >>, Top(c).kind # "json",
         SetTop(c, Advance(Top(c))), at' = [at EXCEPT ![c] = Walking],
         UNCHANGED <<guards, ctx>>, Proceed(c)
  PROVE  WriterInv'
<1> DEFINE fr == Advance(Top(c))
<1>1. /\ Top(c) = Last(frames[c]) /\ Top(c) \in FrameSet
      /\ (Discards(frames[c]) <=> Top(c).mode # "emit") /\ frames[c] \in Seq(FrameSet)
  BY TopFrame
<1>2. fr \in FrameSet /\ fr.guard = Top(c).guard /\ fr.mode = Top(c).mode /\ fr.kind = Top(c).kind
  BY <1>1, FrameUpdates
<1>3. ctx[c] \in CtxSet /\ ctx' = [ctx EXCEPT ![c] = ctx[c]] /\ guards' = guards
  BY DEF WriterInv, Typed
<1>4. Walking \in Points /\ Walking.pc = "next" /\ ~ Fails(Walking)
  BY PointTypes DEF Fails
<1>5. Standing(Walking, Discards(frames[c]), ctx[c])
  BY <1>1, <1>3, <1>4, Stands DEF Same
<1> HIDE DEF fr
<1>6. Standing(Walking, fr.mode # "emit", ctx[c])
  BY <1>1, <1>2, <1>5 DEF Standing
<1>7. SetTop(c, fr)
  BY DEF fr
<1> QED
  BY <1>1, <1>2, <1>3, <1>4, <1>6, <1>7, ReplaceKeeps

LEMMA EndContainerKeeps ==
  ASSUME WriterInv, NEW c \in Calls, ~ Fails(at[c]), frames[c] # << >>,
         EndContainer(c), Proceed(c)
  PROVE  WriterInv'
<1> DEFINE fr == Top(c)
           y == Outdent(ctx[c], fr)
           x == IF fr.mode = "emit" THEN Put(y, <<Brackets(fr.kind)[2]>>) ELSE y
           ok == fr.mode # "drain"
<1>1. /\ fr = Last(frames[c]) /\ fr \in FrameSet /\ fr.mode \in {"emit", "drain", "discard"}
      /\ Discards(frames[c]) <=> fr.mode # "emit"
  BY TopFrame
<1>2. /\ ctx[c] \in CtxSet /\ ~ ctx[c].exc /\ (ctx[c].hard <=> Discards(frames[c]))
      /\ (~ ctx[c].partial /\ ctx[c].error # None => ctx[c].hard)
      /\ (ctx[c].hard => ctx[c].error # None /\ ~ ctx[c].partial)
  BY GoingOn
<1>3. ctx' = [ctx EXCEPT ![c] = x] /\ Leave(c, ok)
  BY DEF EndContainer
<1>4. y \in CtxSet /\ Same(y, ctx[c])
  BY <1>1, <1>2, Updates
<1>5. <<Brackets(fr.kind)[2]>> \in Seq(Tokens)
  BY DEF Brackets, Tokens
<1> HIDE DEF y, fr
<1>6. x \in CtxSet /\ Same(x, ctx[c])
  BY <1>4, <1>5, Updates DEF Same
<1>7. Return(ok).pc = "ret" /\ Return(ok).ok = ok /\ ok \in BOOLEAN
  BY PointTypes
<1> HIDE DEF x
<1>8. Standing(Return(ok), fr.mode = "discard", x)
  BY <1>1, <1>2, <1>6, <1>7 DEF Standing, Fails, Same
<1> QED
  BY <1>1, <1>3, <1>6, <1>7, <1>8, LeaveKeeps DEF fr

LEMMA WalkKeeps ==
  ASSUME WriterInv, NEW c \in Calls, Walk(c)
  PROVE  WriterInv'
<1>1. at[c].pc = "next" /\ Proceed(c) /\ ~ Fails(at[c])
  BY DEF Walk, Fails
<1>2. CallOK(at[c], frames[c], ctx[c]) /\ at[c] \in Points
  BY DEF WriterInv, Typed
<1>3. frames[c] # << >> /\ Last(frames[c]).kind # "json"
  BY <1>1, <1>2 DEF CallOK, InFrame
<1>4. /\ Top(c) = Last(frames[c]) /\ Top(c) \in FrameSet /\ Top(c).node \in Nodes
      /\ Discarding(c) <=> Top(c).mode # "emit"
  BY <1>3, TopFrame
<1>5. CASE EndContainer(c)
  BY <1>1, <1>3, <1>5, EndContainerKeeps
<1>6. CASE NextItem(c)
  <2> DEFINE it == ItemAt(Top(c))
  <2>1. it.val \in Values
    <3>1. heap[Top(c).node].items \in Seq(Item)
      BY <1>4, HeapTypes DEF WriterInv
    <3>2. Top(c).next \in 1 .. Len(heap[Top(c).node].items)
      BY <1>4, <1>6, <3>1 DEF NextItem, FrameSet
    <3>3. it \in Item
      BY <3>1, <3>2 DEF ItemAt
    <3> QED
      BY <3>3 DEF Item
  <2>2. IF Discarding(c) THEN DiscardItem(c, it) ELSE EmitItem(c, it)
    BY <1>6 DEF NextItem
  <2> HIDE DEF it
  <2>3. CASE SkipItem(c)
    <3>1. at[c] = Walking
      BY <1>1, <1>2 DEF Points, Idle, Walking, Callback, This, Return, Visit
    <3>2. at' = [at EXCEPT ![c] = Walking]
      BY <2>3, <3>1 DEF SkipItem, WriterInv, Typed
    <3> QED
      BY <1>1, <1>3, <1>4, <2>3, <3>2, AdvanceKeeps DEF SkipItem
  <2>4. CASE Discarding(c) /\ DiscardKeyAndVisit(c, it.key, it.val)
    BY <1>1, <1>3, <2>1, <2>4, DiscardKeyKeeps
  <2>5. CASE ~ Discarding(c) /\ EmitKeyAndVisit(c, it.key, it.val)
    BY <1>1, <1>3, <1>4, <2>1, <2>5, EmitKeyKeeps
  <2>6. CASE ~ Discarding(c) /\ Go(c, Callback) /\ UNCHANGED <<guards, frames, ctx>>
    <3>1. Callback \in Points /\ Callback.pc = "callback" /\ ~ Fails(Callback)
      BY PointTypes DEF Fails
    <3>2. InFrame(Callback, frames[c])
      BY <1>3, <1>4, <2>6, <3>1 DEF InFrame
    <3> QED
      BY <1>1, <2>6, <3>1, <3>2, GoKeeps
  <2> QED
    BY <2>2, <2>3, <2>4, <2>5, <2>6 DEF DiscardItem, EmitItem
<1> QED
  BY <1>5, <1>6 DEF Walk

LEMMA ReturnPoint ==
  ASSUME WriterInv, NEW c \in Calls, at[c].pc = "ret"
  PROVE  at[c].ok \in BOOLEAN /\ (Fails(at[c]) <=> ~ at[c].ok)
<1>1. at[c] \in Points
  BY DEF WriterInv, Typed
<1>2. PICK ok \in BOOLEAN : at[c] = Return(ok)
  BY <1>1 DEF Points, Idle, Walking, Callback, This, Visit
<1>3. at[c].ok = ok
  BY <1>2 DEF Return
<1> QED
  BY <1>3 DEF Fails

LEMMA ValueReturnsKeeps ==
  ASSUME WriterInv, NEW c \in Calls, ValueReturns(c)
  PROVE  WriterInv'
<1> DEFINE fr == Top(c)
           ok == at[c].ok
<1>1. at[c].pc = "ret" /\ frames[c] # << >> /\ Proceed(c)
      /\ (ItemReturns(c, ok) \/ JsonReturns(c, ok))
  BY DEF ValueReturns
<1>2. ok \in BOOLEAN /\ (Fails(at[c]) <=> ~ ok)
  BY <1>1, ReturnPoint
<1>3. /\ fr = Last(frames[c]) /\ fr \in FrameSet /\ fr.mode \in {"emit", "drain", "discard"}
      /\ (Discards(frames[c]) <=> fr.mode # "emit") /\ frames[c] \in Seq(FrameSet)
  BY <1>1, TopFrame
<1>4. ctx[c] \in CtxSet /\ Standing(at[c], Discards(frames[c]), ctx[c])
  BY DEF WriterInv, Typed, CallOK
<1>5. /\ Walking \in Points /\ Walking.pc = "next" /\ ~ Fails(Walking)
      /\ Return(ok).pc = "ret" /\ Return(ok).ok = ok
      /\ Return(FALSE).pc = "ret" /\ Return(FALSE).ok = FALSE
  BY PointTypes DEF Fails
<1> HIDE DEF ok, fr
<1>6. CASE JsonReturns(c, ok)
  <2>1. Leave(c, ok) /\ ctx' = [ctx EXCEPT ![c] = ctx[c]] /\ fr.kind = "json"
    BY <1>6 DEF JsonReturns, WriterInv, Typed, fr
  <2>2. fr.mode = "emit"
    BY <1>3, <2>1 DEF FrameSet
  <2>3. Standing(Return(ok), fr.mode = "discard", ctx[c])
    BY <1>2, <1>3, <1>4, <1>5, <2>2 DEF Standing, Fails
  <2> QED
    BY <1>1, <1>2, <1>3, <1>4, <2>1, <2>3, LeaveKeeps
<1>7. CASE ItemReturns(c, ok) /\ ok
  <2> DEFINE nx == Resumed(fr)
  <2>1. /\ SetTop(c, nx) /\ at' = [at EXCEPT ![c] = Walking]
        /\ guards' = guards /\ ctx' = [ctx EXCEPT ![c] = ctx[c]] /\ fr.kind # "json"
    BY <1>7 DEF ItemReturns, Go, WriterInv, Typed, fr
  <2>2. nx \in FrameSet /\ nx.guard = fr.guard /\ nx.mode = fr.mode /\ nx.kind = fr.kind
    BY <1>3, FrameUpdates
  <2> HIDE DEF nx
  <2>3. Standing(Walking, nx.mode # "emit", ctx[c])
    BY <1>2, <1>3, <1>4, <1>5, <1>7, <2>2 DEF Standing
  <2> QED
    BY <1>1, <1>3, <1>4, <1>5, <2>1, <2>2, <2>3, ReplaceKeeps
<1>8. CASE ItemReturns(c, ok) /\ ~ ok /\ Drains(c)
  <2> DEFINE nx == [Advance(fr) EXCEPT !.mode = "drain"]
  <2>1. /\ SetTop(c, nx) /\ at' = [at EXCEPT ![c] = Walking]
        /\ guards' = guards /\ ctx' = [ctx EXCEPT ![c] = ctx[c]] /\ fr.kind # "json"
    BY <1>8 DEF ItemReturns, Go, WriterInv, Typed, fr
  <2>2. nx \in FrameSet /\ nx.guard = fr.guard /\ nx.mode = "drain" /\ nx.kind = fr.kind
    BY <1>3, <2>1, FrameUpdates
  <2>3. fr.mode = "emit" /\ ctx[c].hard
    BY <1>8 DEF Drains, fr
  <2> HIDE DEF nx
  <2>4. Standing(Walking, nx.mode # "emit", ctx[c])
    BY <1>4, <1>5, <2>2, <2>3 DEF Standing
  <2> QED
    BY <1>1, <1>3, <1>4, <1>5, <2>1, <2>2, <2>3, <2>4, ReplaceKeeps
<1>9. CASE ItemReturns(c, ok) /\ ~ ok /\ ~ Drains(c)
  <2> DEFINE y == Outdent(ctx[c], fr)
             x == IF fr.mode = "drain" THEN AbortDiscard(y) ELSE y
  <2>1. ctx' = [ctx EXCEPT ![c] = x] /\ Leave(c, FALSE)
    BY <1>9 DEF ItemReturns, fr
  <2>2. y \in CtxSet /\ Same(y, ctx[c])
    BY <1>3, <1>4, Updates
  <2> HIDE DEF y
  <2>3. x \in CtxSet /\ Same(x, ctx[c])
    BY <2>2, Updates DEF Same
  <2> HIDE DEF x
  <2>4. Standing(Return(FALSE), fr.mode = "discard", x)
    BY <1>2, <1>3, <1>4, <1>5, <1>9, <2>3 DEF Standing, Fails, Same
  <2> QED
    BY <1>1, <1>3, <2>1, <2>3, <2>4, LeaveKeeps
<1> QED
  BY <1>1, <1>6, <1>7, <1>8, <1>9

LEMMA NewContext ==
  ASSUME NEW partial \in BOOLEAN, NEW d \in Int
  PROVE  /\ NewCtx(partial, d) \in CtxSet /\ NewCtx(partial, d).error = None
         /\ NewCtx(partial, d).hard = FALSE /\ NewCtx(partial, d).exc = FALSE
<1>1. << >> \in Seq(Tokens)
  OBVIOUS
<1> QED
  BY <1>1 DEF NewCtx, CtxSet, ErrorCodes

\* With no frames, any point that has not failed suits a fresh context.
LEMMA FreshKeeps ==
  ASSUME WriterInv, NEW c \in Calls, frames[c] = << >>, NEW p \in Points,
         p.pc \in {"idle", "visit"}, NEW partial \in BOOLEAN, NEW d \in Int,
         at' = [at EXCEPT ![c] = p], ctx' = [ctx EXCEPT ![c] = NewCtx(partial, d)],
         UNCHANGED <<heap, guards, frames>>, WriterContract'
  PROVE  WriterInv'
<1> DEFINE x == NewCtx(partial, d)
<1>1. x \in CtxSet /\ x.error = None /\ x.hard = FALSE /\ x.exc = FALSE
  BY NewContext
<1> HIDE DEF x
<1>2. /\ frames[c] \in Seq(FrameSet) /\ frames' = [frames EXCEPT ![c] = frames[c]]
      /\ guards' = guards /\ Nested(frames[c])
  BY DEF WriterInv, Typed, CallOK
<1>3. GuardsHeld'
  BY <1>2, GuardsSame DEF WriterInv
<1>4. ~ Discards(frames[c]) /\ ~ Fails(p)
  BY DEF Discards, Fails
<1>5. Standing(p, Discards(frames[c]), x)
  BY <1>1, <1>4 DEF Standing
<1>6. CallOK(p, frames[c], x)
  BY <1>2, <1>5 DEF CallOK, InFrame
<1> QED
  BY <1>1, <1>2, <1>3, <1>6, StepKeeps DEF x

LEMMA StartKeeps ==
  ASSUME WriterInv, NEW c \in Calls, Start(c)
  PROVE  WriterInv'
<1>1. PICK v \in Values, partial \in BOOLEAN, d \in Depths :
        Go(c, Visit(v, d)) /\ ctx' = [ctx EXCEPT ![c] = NewCtx(partial, d)]
  BY DEF Start
<1>2. d \in Int
  BY HeapAssumption
<1>3. at[c] = Idle /\ ret' = NoReturn /\ UNCHANGED <<heap, guards, frames>>
  BY DEF Start
<1>4. frames[c] = << >>
  BY <1>3, PointTypes DEF WriterInv, CallOK, InFrame
<1>5. Visit(v, d) \in Points /\ Visit(v, d).pc = "visit"
  BY <1>2, PointTypes
<1> QED
  BY <1>1, <1>2, <1>3, <1>4, <1>5, FreshKeeps, NothingReported DEF Go

LEMMA FinishKeeps ==
  ASSUME WriterInv, NEW c \in Calls, Finish(c)
  PROVE  WriterInv'
<1>1. /\ at[c].pc = "ret" /\ frames[c] = << >> /\ UNCHANGED <<heap, guards, frames>>
      /\ at' = [at EXCEPT ![c] = Idle] /\ ctx' = [ctx EXCEPT ![c] = NewCtx(FALSE, 0)]
      /\ ret' = [made |-> Made(c, at[c].ok), error |-> ctx[c].error, exc |-> ctx[c].exc,
                 partial |-> ctx[c].partial, buf |-> ctx[c].buf, depth |-> ctx[c].depth]
  BY DEF Finish, Go
<1>2. at[c].ok \in BOOLEAN /\ (Fails(at[c]) <=> ~ at[c].ok)
  BY <1>1, ReturnPoint
<1>3. Standing(at[c], Discards(frames[c]), ctx[c]) /\ ~ Discards(frames[c])
  BY <1>1 DEF WriterInv, CallOK, Discards
<1>4. /\ ret'.made = Made(c, at[c].ok) /\ ret'.error = ctx[c].error
      /\ ret'.exc = ctx[c].exc /\ ret'.partial = ctx[c].partial
  BY <1>1
<1>5. WriterContract'
  <2>1. /\ Made(c, at[c].ok) /\ ctx[c].error # None => ctx[c].partial
        /\ ~ Made(c, at[c].ok) => ctx[c].error # None \/ ctx[c].exc
        /\ Made(c, at[c].ok) => ~ ctx[c].exc
    BY <1>2, <1>3 DEF Made, Standing
  <2> QED
    BY <1>4, <2>1 DEF WriterContract
<1>6. Idle \in Points /\ Idle.pc = "idle"
  BY PointTypes
<1>7. PICK partial \in BOOLEAN : partial = FALSE
  BY Zenon
<1>8. PICK d \in Int : d = 0
  OBVIOUS
<1>9. ctx' = [ctx EXCEPT ![c] = NewCtx(partial, d)]
  BY <1>1, <1>7, <1>8
<1> QED
  BY <1>1, <1>5, <1>6, <1>9, FreshKeeps

LEMMA CallbackReturnsKeeps ==
  ASSUME WriterInv, NEW c \in Calls, CallbackReturns(c)
  PROVE  WriterInv'
<1>1. at[c].pc = "callback" /\ Proceed(c) /\ ~ Fails(at[c])
  BY DEF CallbackReturns, Fails
<1>2. CallOK(at[c], frames[c], ctx[c])
  BY DEF WriterInv
<1>3. frames[c] # << >> /\ Last(frames[c]).mode = "emit"
  BY <1>1, <1>2 DEF CallOK, InFrame
<1>4. /\ Top(c) = Last(frames[c]) /\ Top(c) \in FrameSet /\ Top(c).mode = "emit"
      /\ frames[c] \in Seq(FrameSet) /\ Nested(frames[c]) /\ ~ Discards(frames[c])
      /\ Top(c).depth \in Int /\ Top(c).node \in Nodes
  BY <1>3, TopFrame
<1>5. /\ ctx[c] \in CtxSet /\ ~ ctx[c].exc /\ ~ ctx[c].hard
      /\ (~ ctx[c].partial => ctx[c].error = None)
  BY <1>1, <1>4, GoingOn
<1>6. ASSUME NEW v \in Values, SerializerReturns(c, v) PROVE WriterInv'
  <2>1. ctx' = ctx /\ ctx' = [ctx EXCEPT ![c] = ctx[c]]
    BY <1>6 DEF SerializerReturns, WriterInv, Typed
  <2>2. CASE v = Top(c).node
    <3> DEFINE p == This(v, Top(c).depth)
               s == Front(frames[c])
    <3>1. /\ Unprotect(Top(c).guard) /\ frames' = [frames EXCEPT ![c] = s]
          /\ at' = [at EXCEPT ![c] = p]
      BY <1>6, <2>2 DEF SerializerReturns, Go
    <3>2. p \in Points /\ p.pc = "this" /\ ~ Fails(p)
      BY <1>4, <2>2, PointTypes DEF Fails
    <3>3. s \in Seq(FrameSet) /\ Nested(s) /\ ~ Discards(s)
      BY <1>3, <1>4, FrontFacts
    <3>4. GuardsHeld'
      BY <1>3, <3>1, GuardsPop DEF WriterInv
    <3>5. WriterContract' /\ heap' = heap
      BY <1>1, NothingReported DEF Proceed
    <3> HIDE DEF p, s
    <3>6. Standing(p, Discards(s), ctx[c])
      BY <1>1, <1>4, <1>5, <3>2, <3>3, Stands DEF Same
    <3>7. CallOK(p, s, ctx[c])
      BY <3>2, <3>3, <3>6 DEF CallOK, InFrame
    <3> QED
      BY <1>5, <2>1, <3>1, <3>2, <3>3, <3>4, <3>5, <3>7, StepKeeps
  <2>3. CASE v # Top(c).node
    <3> DEFINE p == Visit(v, Top(c).depth)
    <3>1. Go(c, p) /\ UNCHANGED <<guards, frames, ctx>>
      BY <1>6, <2>1, <2>3 DEF SerializerReturns
    <3>2. p \in Points /\ p.pc = "visit" /\ ~ Fails(p)
      BY <1>4, PointTypes DEF Fails
    <3> HIDE DEF p
    <3>3. InFrame(p, frames[c])
      BY <3>2 DEF InFrame
    <3> QED
      BY <1>1, <3>1, <3>2, <3>3, GoKeeps
  <2> QED
    BY <2>2, <2>3
<1>7. ASSUME NEW v \in Values, HookReturns(c, v) PROVE WriterInv'
  BY <1>1, <1>3, <1>4, <1>7, EmitKeyKeeps DEF HookReturns
<1>8. CASE HookReturnsUndef(c)
  <2>1. /\ Top(c).kind = "props" /\ SetTop(c, Advance(Top(c)))
        /\ at' = [at EXCEPT ![c] = Walking] /\ UNCHANGED <<guards, ctx>>
    BY <1>8 DEF HookReturnsUndef, Go
  <2>2. Top(c).kind # "json"
    BY <2>1
  <2> QED
    BY <1>1, <1>3, <2>1, <2>2, AdvanceKeeps
<1>9. CASE CallbackThrows(c)
  <2> DEFINE y == Outdent(ctx[c], Top(c))
             x == [y EXCEPT !.exc = TRUE]
  <2>1. ctx' = [ctx EXCEPT ![c] = x] /\ Leave(c, FALSE)
    BY <1>9 DEF CallbackThrows
  <2>2. y \in CtxSet /\ Same(y, ctx[c])
    BY <1>4, <1>5, Updates
  <2> HIDE DEF y
  <2>3. /\ x \in CtxSet /\ x.partial = y.partial /\ x.error = y.error
        /\ x.hard = y.hard /\ x.exc = TRUE
    BY <2>2 DEF CtxSet
  <2> HIDE DEF x
  <2>4. Fails(Return(FALSE))
    BY PointTypes DEF Fails
  <2>5. Standing(Return(FALSE), Last(frames[c]).mode = "discard", x)
    BY <1>3, <1>5, <2>2, <2>3, <2>4 DEF Standing, Same
  <2> QED
    BY <1>1, <1>3, <2>1, <2>3, <2>5, LeaveKeeps
<1> QED
  BY <1>6, <1>7, <1>8, <1>9 DEF CallbackReturns

-----------------------------------------------------------------------------
(* The theorems. *)

LEMMA FirstContext ==
  /\ NewCtx(FALSE, 0) \in CtxSet /\ NewCtx(FALSE, 0).error = None
  /\ NewCtx(FALSE, 0).hard = FALSE /\ NewCtx(FALSE, 0).exc = FALSE
<1>1. PICK partial \in BOOLEAN : partial = FALSE
  BY Zenon
<1>2. PICK d \in Int : d = 0
  OBVIOUS
<1>3. /\ NewCtx(partial, d) \in CtxSet /\ NewCtx(partial, d).error = None
      /\ NewCtx(partial, d).hard = FALSE /\ NewCtx(partial, d).exc = FALSE
  BY NewContext
<1> QED
  BY <1>1, <1>3, <1>2

LEMMA InitWriterInv == Init => WriterInv
<1> SUFFICES ASSUME Init PROVE WriterInv
  OBVIOUS
<1>1. \A c \in Calls : at[c] = Idle /\ frames[c] = << >> /\ ctx[c] = NewCtx(FALSE, 0)
  BY DEF Init
<1>2. << >> \in Seq(FrameSet) /\ NewCtx(FALSE, 0) \in CtxSet /\ Idle \in Points
  <2>1. << >> \in Seq(FrameSet)
    OBVIOUS
  <2> QED
    BY <2>1, FirstContext, PointTypes, Zenon
<1>3. Typed
  BY <1>2 DEF Typed, Init
<1>4. GuardsHeld
  <2>1. guards = {} /\ \A c \in Calls : Len(frames[c]) = 0
    BY <1>1 DEF Init
  <2> QED
    BY <2>1 DEF GuardsHeld
<1>5. WriterContract
  BY DEF WriterContract, Init
<1>6. ASSUME NEW c \in Calls PROVE CallOK(at[c], frames[c], ctx[c])
  <2>1. Idle.pc = "idle" /\ ~ Fails(Idle) /\ Nested(<< >>) /\ ~ Discards(<< >>)
    BY PointTypes DEF Fails, Nested, Discards
  <2>2. /\ NewCtx(FALSE, 0).error = None /\ NewCtx(FALSE, 0).hard = FALSE
        /\ NewCtx(FALSE, 0).exc = FALSE
    BY FirstContext
  <2>3. Standing(Idle, Discards(<< >>), NewCtx(FALSE, 0))
    BY <2>1, <2>2 DEF Standing
  <2> QED
    BY <1>1, <2>1, <2>3 DEF CallOK, InFrame
<1> QED
  BY <1>3, <1>4, <1>5, <1>6 DEF WriterInv

LEMMA StutterKeeps ==
  ASSUME WriterInv, UNCHANGED vars
  PROVE  WriterInv'
BY DEF vars, WriterInv, Typed, GuardsHeld, WriterContract, CallOK, InFrame, Nested, Standing,
       Fails, Discards

(***************************************************************************)
(* The invariant of the direct writer: types, guards, the contract with    *)
(* its callers, and where every call stands after an error.                *)
(***************************************************************************)
THEOREM WriterInvariant == Spec => []WriterInv
<1>1. ASSUME WriterInv, [Next]_vars PROVE WriterInv'
  <2>1. ASSUME NEW c \in Calls, Start(c) \/ Run(c) \/ CallbackReturns(c) PROVE WriterInv'
    BY <1>1, <2>1, StartKeeps, EncodeValueKeeps, EncodeThisKeeps, WalkKeeps, ValueReturnsKeeps,
       FinishKeeps, CallbackReturnsKeeps DEF Run
  <2>2. CASE UNCHANGED vars
    BY <1>1, <2>2, StutterKeeps
  <2> QED
    BY <1>1, <2>1, <2>2 DEF Next
<1> QED
  BY <1>1, InitWriterInv, PTL DEF Spec

(***************************************************************************)
(* On every path out of a container, an error, an exception or a discarded *)
(* result included, exactly the guards of the live frames are set.         *)
(***************************************************************************)
THEOREM GuardsAreExact == Spec => []GuardsExact
<1>1. ASSUME WriterInv PROVE GuardsExact
  <2> SUFFICES
        ASSUME NEW g \in guards \cup
                 UNION {{frames[c][i].guard : i \in 1 .. Len(frames[c])} : c \in Calls},
               g # NoGuard
        PROVE  /\ g \in guards
               /\ \E c \in Calls : \E i \in 1 .. Len(frames[c]) :
                    /\ frames[c][i].guard = g
                    /\ \A b \in Calls : \A j \in 1 .. Len(frames[b]) :
                         frames[b][j].guard = g => b = c /\ j = i
    BY DEF GuardsExact
  <2>1. GuardsHeld
    BY <1>1 DEF WriterInv
  <2>2. g \in guards
    BY <2>1 DEF GuardsHeld
  <2>3. PICK c \in Calls : \E i \in 1 .. Len(frames[c]) : frames[c][i].guard = g
    BY <2>1, <2>2 DEF GuardsHeld
  <2>4. PICK i \in 1 .. Len(frames[c]) : frames[c][i].guard = g
    BY <2>3
  <2>5. \A b \in Calls : \A j \in 1 .. Len(frames[b]) : frames[b][j].guard = g => b = c /\ j = i
    BY <2>1, <2>4 DEF GuardsHeld
  <2> QED
    BY <2>2, <2>4, <2>5
<1> QED
  BY <1>1, WriterInvariant, PTL

(***************************************************************************)
(* json_encode's callers may rely on the writer's result: bytes, an error  *)
(* code or a pending exception, in the combinations they handle.           *)
(***************************************************************************)
THEOREM ContractHolds == Spec => []WriterContract
<1>1. ASSUME WriterInv PROVE WriterContract
  BY <1>1 DEF WriterInv
<1> QED
  BY <1>1, WriterInvariant, PTL

(***************************************************************************)
(* Once an INF has doomed a call, it runs no more PHP code.                *)
(***************************************************************************)
THEOREM NoPhpCode == Spec => []NoPhpCodeAfterHardError
<1>1. ASSUME WriterInv PROVE NoPhpCodeAfterHardError
  <2> SUFFICES ASSUME NEW c \in Calls, at[c].pc = "callback" PROVE ~ ctx[c].hard
    BY DEF NoPhpCodeAfterHardError
  <2>1. CallOK(at[c], frames[c], ctx[c])
    BY <1>1 DEF WriterInv
  <2> QED
    BY <2>1 DEF CallOK, InFrame, Standing, Discards, Fails
<1> QED
  BY <1>1, WriterInvariant, PTL

-----------------------------------------------------------------------------
(* An error found while discarding is final. *)

\* A step of call c leaves the other calls alone, and changes the error of c,
\* once it is a hard one, only where the discarded item fails.
Confined(c) ==
  /\ \A b \in Calls : b # c => at'[b] = at[b] /\ frames'[b] = frames[b] /\ ctx'[b] = ctx[b]
  /\ \/ ctx'[c].error = ctx[c].error /\ ctx'[c].hard = ctx[c].hard
     \/ ~ ctx'[c].hard
     \/ ctx'[c].error = "INF"
     \/ at'[c] = Return(FALSE) /\ frames'[c] = frames[c] /\ Discarding(c)

\* What a step of c has to show for that.
LEMMA ConfinedBy ==
  ASSUME WriterInv, NEW c \in Calls, NEW p, NEW s, NEW x,
         at' = [at EXCEPT ![c] = p], frames' = [frames EXCEPT ![c] = s],
         ctx' = [ctx EXCEPT ![c] = x],
         \/ x.error = ctx[c].error /\ x.hard = ctx[c].hard
         \/ ~ x.hard
         \/ x.error = "INF"
         \/ p = Return(FALSE) /\ s = frames[c] /\ Discarding(c)
  PROVE  Confined(c)
<1>1. at'[c] = p /\ frames'[c] = s /\ ctx'[c] = x
  BY DEF WriterInv, Typed
<1>2. \A b \in Calls : b # c => at'[b] = at[b] /\ frames'[b] = frames[b] /\ ctx'[b] = ctx[b]
  BY DEF WriterInv, Typed
<1> QED BY <1>1, <1>2 DEF Confined

LEMMA PartialConfined ==
  ASSUME WriterInv, NEW c \in Calls, ~ Fails(at[c]), NEW e \in ErrorCodes,
         dw_partial_or_fail(c, e)
  PROVE  Confined(c)
<1> DEFINE y == SetError(ctx[c], e)
           x == IF ctx[c].partial THEN Put(y, <<"v">>) ELSE y
<1>1. /\ ctx[c] \in CtxSet /\ ctx[c].partial \in BOOLEAN /\ ctx[c].hard \in BOOLEAN
      /\ (ctx[c].hard => ~ ctx[c].partial) /\ (ctx[c].hard => Discarding(c))
      /\ frames[c] \in Seq(FrameSet)
  BY GoingOn
<1>2. y \in CtxSet /\ y.hard = ctx[c].hard /\ <<"v">> \in Seq(Tokens)
  <2>1. y \in CtxSet /\ y.hard = ctx[c].hard
    BY <1>1, Updates
  <2>2. <<"v">> \in Seq(Tokens)
    BY DEF Tokens
  <2> QED BY <2>1, <2>2
<1> HIDE DEF y
<1>3. x.hard = ctx[c].hard
  BY <1>1, <1>2, Updates DEF Same
<1>4. /\ ctx' = [ctx EXCEPT ![c] = x] /\ at' = [at EXCEPT ![c] = Return(ctx[c].partial)]
      /\ frames' = [frames EXCEPT ![c] = frames[c]]
  BY DEF dw_partial_or_fail, Go, y, WriterInv, Typed
<1> HIDE DEF x
<1>5. CASE ctx[c].hard
  <2>1. ctx[c].partial = FALSE
    BY <1>1, <1>5
  <2> QED BY <1>1, <1>4, <1>5, <2>1, ConfinedBy
<1>6. CASE ~ ctx[c].hard
  BY <1>3, <1>4, <1>6, ConfinedBy
<1> QED BY <1>5, <1>6

LEMMA FailConfined ==
  ASSUME WriterInv, NEW c \in Calls, ~ Fails(at[c]), NEW e \in ErrorCodes,
         SetAndFail(c, e)
  PROVE  Confined(c)
<1> DEFINE x == SetError(ctx[c], e)
<1>1. ctx[c] \in CtxSet /\ (ctx[c].hard => Discarding(c))
  BY GoingOn
<1>2. x.hard = ctx[c].hard
  BY <1>1, Updates
<1>3. /\ ctx' = [ctx EXCEPT ![c] = x] /\ at' = [at EXCEPT ![c] = Return(FALSE)]
      /\ frames' = [frames EXCEPT ![c] = frames[c]]
  BY DEF SetAndFail, Go, WriterInv, Typed
<1> HIDE DEF x
<1>4. CASE ctx[c].hard
  BY <1>1, <1>3, <1>4, ConfinedBy
<1>5. CASE ~ ctx[c].hard
  BY <1>2, <1>3, <1>5, ConfinedBy
<1> QED BY <1>4, <1>5

LEMMA SucceedConfined ==
  ASSUME WriterInv, NEW c \in Calls, NEW toks \in Seq(Tokens), Succeed(c, toks)
  PROVE  Confined(c)
<1>1. ctx[c] \in CtxSet
  BY DEF WriterInv, Typed
<1>2. Same(Put(ctx[c], toks), ctx[c])
  BY <1>1, Updates
<1>3. /\ ctx' = [ctx EXCEPT ![c] = Put(ctx[c], toks)] /\ at' = [at EXCEPT ![c] = Return(TRUE)]
      /\ frames' = [frames EXCEPT ![c] = frames[c]]
  BY DEF Succeed, Go, WriterInv, Typed
<1> QED BY <1>2, <1>3, ConfinedBy DEF Same

LEMMA ScalarConfined ==
  ASSUME WriterInv, NEW c \in Calls, ~ Fails(at[c]), NEW v, EncodeScalar(c, v)
  PROVE  Confined(c)
<1>1. << >> \in Seq(Tokens) /\ <<"v">> \in Seq(Tokens)
  BY DEF Tokens
<1>2. ASSUME NEW toks \in {<< >>, <<"v">>}, Succeed(c, toks) PROVE Confined(c)
  BY <1>1, <1>2, SucceedConfined
<1>3. ASSUME NEW e \in {"INF", "TYPE", "UTF8", "ENUM"}, dw_partial_or_fail(c, e) PROVE Confined(c)
  BY <1>3, PartialConfined DEF ErrorCodes
<1>4. ASSUME NEW e \in {"TYPE", "UTF8"}, SetAndFail(c, e) PROVE Confined(c)
  BY <1>4, FailConfined DEF ErrorCodes
<1>5. CASE Discarding(c) /\ discard_inf(c)
  <2>1. ctx[c].hard
    BY <1>5, GoingOn
  <2>2. /\ ctx' = [ctx EXCEPT ![c] = ctx[c]] /\ at' = [at EXCEPT ![c] = Return(TRUE)]
        /\ frames' = [frames EXCEPT ![c] = frames[c]]
    BY <1>5, <2>1 DEF discard_inf, Go, WriterInv, Typed
  <2> QED BY <2>2, ConfinedBy
<1>6. CASE emit_inf(c)
  <2>1. CASE ctx[c].partial
    BY <1>3, <1>6, <2>1 DEF emit_inf
  <2>2. CASE ~ ctx[c].partial
    <3>1. HardError(ctx[c]).error = "INF"
      BY HardErrorUpdate DEF WriterInv, Typed
    <3>2. /\ ctx' = [ctx EXCEPT ![c] = HardError(ctx[c])] /\ at' = [at EXCEPT ![c] = Return(FALSE)]
          /\ frames' = [frames EXCEPT ![c] = frames[c]]
      BY <1>6, <2>2 DEF emit_inf, Go, WriterInv, Typed
    <3> QED BY <3>1, <3>2, ConfinedBy
  <2> QED BY <2>1, <2>2
<1> QED
  BY <1>2, <1>3, <1>4, <1>5, <1>6 DEF EncodeScalar

LEMMA BeginConfined ==
  ASSUME WriterInv, NEW c \in Calls, NEW n, NEW kind, NEW d, NEW g, NEW body,
         Begin(c, n, kind, d, g, body)
  PROVE  Confined(c)
<1> DEFINE x == IF Discarding(c) THEN ctx[c] ELSE OpenBracket(ctx[c], kind, body)
           s == Append(frames[c], Frame(n, kind, d - 1, g, Mode(c), body))
<1>1. ctx[c] \in CtxSet
  BY DEF WriterInv, Typed
<1>2. x.error = ctx[c].error /\ x.hard = ctx[c].hard
  BY <1>1 DEF OpenBracket, CtxSet
<1>3. ctx' = [ctx EXCEPT ![c] = x] /\ at' = [at EXCEPT ![c] = Walking]
  BY DEF Begin, Go
<1>4. frames' = [frames EXCEPT ![c] = s]
  BY DEF Begin
<1> HIDE DEF x, s
<1> QED BY <1>2, <1>3, <1>4, ConfinedBy

LEMMA PropsConfined ==
  ASSUME WriterInv, NEW c \in Calls, ~ Fails(at[c]), NEW n, NEW d,
         dw_emit_object_props(c, n, d)
  PROVE  Confined(c)
<1>1. ASSUME NEW e \in {"DEPTH", "RECURSION"}, dw_partial_or_fail(c, e) PROVE Confined(c)
  BY <1>1, PartialConfined DEF ErrorCodes
<1>2. ASSUME NEW toks \in {<< >>, <<"{">> \o <<"}">>}, Succeed(c, toks) PROVE Confined(c)
  BY <1>2, TokenSeqs, SucceedConfined
<1>3. ASSUME Begin(c, n, "props", d, GcGuard(n), FALSE) PROVE Confined(c)
  BY <1>3, BeginConfined
<1> QED
  BY <1>1, <1>2, <1>3 DEF dw_emit_object_props

LEMMA EncodeConfined ==
  ASSUME WriterInv, NEW c \in Calls, EncodeValue(c) \/ EncodeThis(c)
  PROVE  Confined(c)
<1>1. ~ Fails(at[c])
  BY DEF EncodeValue, EncodeThis, Fails
<1>2. ASSUME NEW e \in {"DEPTH", "RECURSION"}, dw_partial_or_fail(c, e) PROVE Confined(c)
  BY <1>1, <1>2, PartialConfined DEF ErrorCodes
<1>3. CASE EncodeThis(c)
  BY <1>1, <1>3, PropsConfined DEF EncodeThis
<1>4. CASE EncodeValue(c)
  <2> DEFINE v == at[c].val
             d == at[c].depth
  <2>1. ASSUME NEW overflow, dw_emit_array(c, v, d, overflow) PROVE Confined(c)
    BY <1>2, <2>1, BeginConfined DEF dw_emit_array
  <2>2. ASSUME NEW overflow, dw_emit_object(c, v, d, overflow) PROVE Confined(c)
    <3>1. CASE dw_discard_jsonserializable(c, v, d)
      BY <3>1, TokenSeqs, SucceedConfined DEF dw_discard_jsonserializable
    <3>2. CASE dw_emit_jsonserializable(c, v, d)
      <4> DEFINE s == Append(frames[c], Frame(v, "json", d, Json(v), "emit", FALSE))
      <4>1. CASE Json(v) \in guards
        BY <1>2, <3>2, <4>1 DEF dw_emit_jsonserializable
      <4>2. CASE Json(v) \notin guards
        <5>1. /\ frames' = [frames EXCEPT ![c] = s] /\ at' = [at EXCEPT ![c] = Callback]
              /\ ctx' = [ctx EXCEPT ![c] = ctx[c]]
          BY <3>2, <4>2 DEF dw_emit_jsonserializable, Go, WriterInv, Typed
        <5> HIDE DEF s
        <5> QED BY <5>1, ConfinedBy
      <4> QED BY <4>1, <4>2
    <3>3. CASE dw_emit_object_props(c, v, d)
      BY <1>1, <3>3, PropsConfined
    <3> QED BY <1>2, <2>2, <3>1, <3>2, <3>3 DEF dw_emit_object
  <2>3. \/ dw_partial_or_fail(c, "DEPTH")
        \/ EncodeScalar(c, v)
        \/ \E overflow \in MayOverflow :
             dw_emit_array(c, v, d, overflow) \/ dw_emit_object(c, v, d, overflow)
    BY <1>4 DEF EncodeValue
  <2> HIDE DEF v, d
  <2> QED BY <1>1, <1>2, <2>1, <2>2, <2>3, ScalarConfined
<1> QED BY <1>3, <1>4

LEMMA EmitKeyConfined ==
  ASSUME WriterInv, NEW c \in Calls, ~ Fails(at[c]), frames[c] # << >>, Top(c).mode = "emit",
         NEW key, NEW v, EmitKeyAndVisit(c, key, v)
  PROVE  Confined(c)
<1> DEFINE fr  == Top(c)
           bad == key = "bad" /\ fr.kind # "list"
           y   == OpenBody(ctx[c], fr)
           sep == Comma(fr)
           toks == sep \o (IF fr.kind = "list" THEN << >> ELSE <<"k">>)
           x   == IF bad /\ ~ y.partial THEN Put(SetError(y, "UTF8"), sep)
                  ELSE Put(IF bad THEN SetError(y, "UTF8") ELSE y, toks)
           p   == IF bad /\ ~ y.partial THEN Return(FALSE) ELSE Visit(v, fr.depth)
           s   == [frames[c] EXCEPT ![Len(frames[c])] = [fr EXCEPT !.body = TRUE]]
<1>1. fr \in FrameSet /\ ctx[c] \in CtxSet /\ ~ ctx[c].hard
  <2>1. fr \in FrameSet /\ ~ Discards(frames[c])
    BY TopFrame
  <2> QED BY <2>1, GoingOn
<1>2. y \in CtxSet /\ ~ y.hard
  BY <1>1, Updates DEF Same
<1>3. SetError(y, "UTF8") \in CtxSet /\ ~ SetError(y, "UTF8").hard
  BY <1>2, Updates DEF ErrorCodes
<1>4. sep \in Seq(Tokens) /\ toks \in Seq(Tokens)
  <2>1. << >> \in Seq(Tokens) /\ <<",">> \in Seq(Tokens) /\ <<"k">> \in Seq(Tokens)
    BY DEF Tokens
  <2>2. sep \in Seq(Tokens)
    BY <2>1 DEF Comma
  <2> HIDE DEF sep
  <2>3. (IF fr.kind = "list" THEN << >> ELSE <<"k">>) \in Seq(Tokens)
    BY <2>1
  <2> QED BY <2>2, <2>3, TokenSeqs
<1>5. ctx' = [ctx EXCEPT ![c] = x]
  BY DEF EmitKeyAndVisit
<1>6. at' = [at EXCEPT ![c] = p]
  BY DEF EmitKeyAndVisit, Go
<1>7. frames' = [frames EXCEPT ![c] = s]
  BY DEF EmitKeyAndVisit, SetTop
<1> HIDE DEF y, toks, sep, s, p, bad
<1>8. ~ x.hard
  <2> DEFINE e == SetError(y, "UTF8")
  <2>1. e \in CtxSet /\ ~ e.hard
    BY <1>3
  <2> HIDE DEF e
  <2>2. ~ Put(e, sep).hard /\ ~ Put(e, toks).hard /\ ~ Put(y, toks).hard
    BY <1>2, <1>4, <2>1, Updates, SMTT(60) DEF Same
  <2>3. x = Put(e, sep) \/ x = Put(e, toks) \/ x = Put(y, toks)
    BY DEF e
  <2> HIDE DEF x
  <2> QED BY <2>2, <2>3
<1> HIDE DEF x
<1> QED BY <1>5, <1>6, <1>7, <1>8, ConfinedBy

LEMMA DiscardKeyConfined ==
  ASSUME WriterInv, NEW c \in Calls, Discarding(c),
         NEW key, NEW v, DiscardKeyAndVisit(c, key, v)
  PROVE  Confined(c)
<1> DEFINE bad == key = "bad" /\ Top(c).kind # "list"
<1>1. frames' = [frames EXCEPT ![c] = frames[c]]
  BY DEF DiscardKeyAndVisit, WriterInv, Typed
<1>2. CASE bad
  <2>1. /\ ctx' = [ctx EXCEPT ![c] = SetError(ctx[c], "UTF8")]
        /\ at' = [at EXCEPT ![c] = Return(FALSE)]
    BY <1>2 DEF DiscardKeyAndVisit, Go
  <2> QED BY <1>1, <2>1, ConfinedBy
<1>3. CASE ~ bad
  <2>1. ctx' = [ctx EXCEPT ![c] = ctx[c]] /\ at' = [at EXCEPT ![c] = Visit(v, Top(c).depth)]
    BY <1>3 DEF DiscardKeyAndVisit, Go
  <2> QED BY <1>1, <2>1, ConfinedBy
<1> QED BY <1>2, <1>3

LEMMA WalkConfined ==
  ASSUME WriterInv, NEW c \in Calls, Walk(c)
  PROVE  Confined(c)
<1>1. at[c].pc = "next" /\ ~ Fails(at[c]) /\ CallOK(at[c], frames[c], ctx[c])
  BY DEF Walk, Fails, WriterInv
<1>2. frames[c] # << >>
  BY <1>1 DEF CallOK, InFrame
<1>3. /\ Top(c) \in FrameSet /\ ctx[c] \in CtxSet
      /\ Discarding(c) <=> Top(c).mode # "emit"
  BY <1>2, TopFrame DEF WriterInv, Typed
<1>4. CASE EndContainer(c)
  <2> DEFINE fr == Top(c)
             y == Outdent(ctx[c], fr)
             x == IF fr.mode = "emit" THEN Put(y, <<Brackets(fr.kind)[2]>>) ELSE y
  <2>1. y \in CtxSet /\ Same(y, ctx[c])
    BY <1>3, Updates
  <2>2. <<Brackets(fr.kind)[2]>> \in Seq(Tokens)
    BY DEF Brackets, Tokens
  <2>3. ctx' = [ctx EXCEPT ![c] = x]
    BY <1>4 DEF EndContainer
  <2>4. /\ at' = [at EXCEPT ![c] = Return(fr.mode # "drain")]
        /\ frames' = [frames EXCEPT ![c] = Front(frames[c])]
    BY <1>4 DEF EndContainer, Leave, Go
  <2> HIDE DEF y
  <2>5. Same(x, ctx[c])
    BY <2>1, <2>2, Updates DEF Same
  <2> HIDE DEF x
  <2> QED BY <2>3, <2>4, <2>5, ConfinedBy DEF Same
<1>5. CASE NextItem(c)
  <2> DEFINE it == ItemAt(Top(c))
  <2>1. IF Discarding(c) THEN DiscardItem(c, it) ELSE EmitItem(c, it)
    BY <1>5 DEF NextItem
  <2> HIDE DEF it
  <2>2. CASE SkipItem(c)
    <3> DEFINE s == [frames[c] EXCEPT ![Len(frames[c])] = Advance(Top(c))]
    <3>1. /\ frames' = [frames EXCEPT ![c] = s] /\ at' = [at EXCEPT ![c] = at[c]]
          /\ ctx' = [ctx EXCEPT ![c] = ctx[c]]
      BY <2>2 DEF SkipItem, SetTop, WriterInv, Typed
    <3> HIDE DEF s
    <3> QED BY <3>1, ConfinedBy
  <2>3. CASE Discarding(c) /\ DiscardKeyAndVisit(c, it.key, it.val)
    BY <2>3, DiscardKeyConfined
  <2>4. CASE ~ Discarding(c) /\ EmitKeyAndVisit(c, it.key, it.val)
    BY <1>1, <1>2, <1>3, <2>4, EmitKeyConfined
  <2>5. CASE Go(c, Callback) /\ UNCHANGED <<guards, frames, ctx>>
    <3>1. /\ frames' = [frames EXCEPT ![c] = frames[c]] /\ at' = [at EXCEPT ![c] = Callback]
          /\ ctx' = [ctx EXCEPT ![c] = ctx[c]]
      BY <2>5 DEF Go, WriterInv, Typed
    <3> QED BY <3>1, ConfinedBy
  <2> QED
    BY <2>1, <2>2, <2>3, <2>4, <2>5 DEF DiscardItem, EmitItem
<1> QED
  BY <1>4, <1>5 DEF Walk

LEMMA CallbackConfined ==
  ASSUME WriterInv, NEW c \in Calls, CallbackReturns(c)
  PROVE  Confined(c)
<1>1. at[c].pc = "callback" /\ ~ Fails(at[c]) /\ CallOK(at[c], frames[c], ctx[c])
  BY DEF CallbackReturns, Fails, WriterInv
<1>2. frames[c] # << >> /\ Last(frames[c]).mode = "emit"
  BY <1>1 DEF CallOK, InFrame
<1>3. Top(c) \in FrameSet /\ ctx[c] \in CtxSet /\ Top(c).mode = "emit"
  BY <1>2, TopFrame DEF WriterInv, Typed
<1>4. ASSUME NEW v \in Values, SerializerReturns(c, v) PROVE Confined(c)
  <2>1. ctx' = [ctx EXCEPT ![c] = ctx[c]]
    BY <1>4 DEF SerializerReturns, WriterInv, Typed
  <2>2. CASE v = Top(c).node
    <3>1. /\ frames' = [frames EXCEPT ![c] = Front(frames[c])]
          /\ at' = [at EXCEPT ![c] = This(v, Top(c).depth)]
      BY <1>4, <2>2 DEF SerializerReturns, Go
    <3> QED BY <2>1, <3>1, ConfinedBy
  <2>3. CASE v # Top(c).node
    <3>1. /\ frames' = [frames EXCEPT ![c] = frames[c]]
          /\ at' = [at EXCEPT ![c] = Visit(v, Top(c).depth)]
      BY <1>4, <2>3 DEF SerializerReturns, Go, WriterInv, Typed
    <3> QED BY <2>1, <3>1, ConfinedBy
  <2> QED BY <2>2, <2>3
<1>5. ASSUME NEW v \in Values, HookReturns(c, v) PROVE Confined(c)
  BY <1>1, <1>2, <1>3, <1>5, EmitKeyConfined DEF HookReturns
<1>6. CASE HookReturnsUndef(c)
  <2> DEFINE s == [frames[c] EXCEPT ![Len(frames[c])] = Advance(Top(c))]
  <2>1. /\ frames' = [frames EXCEPT ![c] = s] /\ at' = [at EXCEPT ![c] = Walking]
        /\ ctx' = [ctx EXCEPT ![c] = ctx[c]]
    BY <1>6 DEF HookReturnsUndef, SetTop, Go, WriterInv, Typed
  <2> HIDE DEF s
  <2> QED BY <2>1, ConfinedBy
<1>7. CASE CallbackThrows(c)
  <2> DEFINE y == Outdent(ctx[c], Top(c))
             x == [y EXCEPT !.exc = TRUE]
  <2>1. y \in CtxSet /\ Same(y, ctx[c])
    BY <1>3, Updates
  <2>2. /\ ctx' = [ctx EXCEPT ![c] = x] /\ at' = [at EXCEPT ![c] = Return(FALSE)]
        /\ frames' = [frames EXCEPT ![c] = Front(frames[c])]
    BY <1>7 DEF CallbackThrows, Leave, Go
  <2> HIDE DEF y
  <2>3. x.error = y.error /\ x.hard = y.hard
    BY <2>1 DEF CtxSet
  <2> HIDE DEF x
  <2> QED BY <2>1, <2>2, <2>3, ConfinedBy DEF Same
<1> QED
  BY <1>4, <1>5, <1>6, <1>7 DEF CallbackReturns

\* A call that goes on keeps FinalError: it has no final error yet.
LEMMA GoingOnFinal ==
  ASSUME FinalInv, NEW c \in Calls, ~ Fails(at[c]), Confined(c)
  PROVE  \A b \in Calls : FinalError(at'[b], frames'[b], ctx'[b])
<1>1. ASSUME NEW b \in Calls, b # c PROVE FinalError(at'[b], frames'[b], ctx'[b])
  BY <1>1 DEF FinalInv, Confined, FinalError
<1>2. FinalError(at'[c], frames'[c], ctx'[c])
  <2>1. ctx[c].hard => ctx[c].error = "INF"
    BY DEF FinalInv, FinalError
  <2>2. CASE at'[c] = Return(FALSE) /\ frames'[c] = frames[c] /\ Discarding(c)
    <3>1. Fails(at'[c])
      BY <2>2, PointTypes, ZenonT(60) DEF Fails
    <3>2. Discards(frames'[c])
      BY <2>2, GoingOn DEF FinalInv
    <3> QED BY <3>1, <3>2 DEF FinalError
  <2>3. CASE \/ ctx'[c].error = ctx[c].error /\ ctx'[c].hard = ctx[c].hard
             \/ ~ ctx'[c].hard
             \/ ctx'[c].error = "INF"
    BY <2>1, <2>3 DEF FinalError
  <2> QED BY <2>2, <2>3 DEF Confined
<1> QED BY <1>1, <1>2

\* A value returns: the error stays, and so does what makes it final.
LEMMA ReturnsFinal ==
  ASSUME FinalInv, NEW c \in Calls, ValueReturns(c)
  PROVE  /\ \A b \in Calls : FinalError(at'[b], frames'[b], ctx'[b])
         /\ ctx'[c].error = ctx[c].error
         /\ \A b \in Calls : b # c => ctx'[b] = ctx[b]
<1>1. WriterInv /\ FinalError(at[c], frames[c], ctx[c])
  BY DEF FinalInv
<1>2. at[c].pc = "ret" /\ frames[c] # << >>
      /\ (ItemReturns(c, at[c].ok) \/ JsonReturns(c, at[c].ok))
  BY DEF ValueReturns
<1>3. at[c].ok \in BOOLEAN /\ (Fails(at[c]) <=> ~ at[c].ok)
  BY <1>1, <1>2, ReturnPoint
<1>4. /\ Top(c) = Last(frames[c]) /\ Top(c) \in FrameSet
      /\ (Discards(frames[c]) <=> Top(c).mode # "emit")
      /\ Top(c).mode \in {"emit", "drain", "discard"}
      /\ frames[c] \in Seq(FrameSet) /\ Nested(frames[c]) /\ ctx[c] \in CtxSet
  BY <1>1, <1>2, TopFrame DEF WriterInv, Typed
<1>5. Discards(Front(frames[c])) <=> Top(c).mode = "discard"
  BY <1>2, <1>4, FrontFacts
<1>6. \A ok \in BOOLEAN : Fails(Return(ok)) <=> ~ ok
  BY PointTypes DEF Fails
<1>7. SUFFICES \E p, s, x :
        /\ at' = [at EXCEPT ![c] = p] /\ frames' = [frames EXCEPT ![c] = s]
        /\ ctx' = [ctx EXCEPT ![c] = x]
        /\ x.error = ctx[c].error /\ FinalError(p, s, x)
  <2>1. PICK p, s, x :
        /\ at' = [at EXCEPT ![c] = p] /\ frames' = [frames EXCEPT ![c] = s]
        /\ ctx' = [ctx EXCEPT ![c] = x]
        /\ x.error = ctx[c].error /\ FinalError(p, s, x)
    BY <1>7
  <2>2. at'[c] = p /\ frames'[c] = s /\ ctx'[c] = x
    BY <1>1, <2>1 DEF WriterInv, Typed
  <2>3. \A b \in Calls : b # c => at'[b] = at[b] /\ frames'[b] = frames[b] /\ ctx'[b] = ctx[b]
    BY <1>1, <2>1 DEF WriterInv, Typed
  <2>4. ASSUME NEW b \in Calls PROVE FinalError(at'[b], frames'[b], ctx'[b])
    <3>1. CASE b = c
      BY <2>1, <2>2, <3>1
    <3>2. CASE b # c
      BY <2>3, <3>2 DEF FinalInv
    <3> QED BY <3>1, <3>2
  <2> QED BY <2>1, <2>2, <2>3, <2>4
<1>8. CASE JsonReturns(c, at[c].ok)
  <2>1. /\ at' = [at EXCEPT ![c] = Return(at[c].ok)] /\ Top(c).kind = "json"
        /\ frames' = [frames EXCEPT ![c] = Front(frames[c])]
        /\ ctx' = [ctx EXCEPT ![c] = ctx[c]]
    BY <1>1, <1>8 DEF JsonReturns, Leave, Go, WriterInv, Typed
  <2>2. ~ Discards(frames[c])
    BY <1>4, <2>1 DEF FrameSet
  <2>3. FinalError(Return(at[c].ok), Front(frames[c]), ctx[c])
    BY <1>1, <1>3, <1>6, <2>2 DEF FinalError
  <2> QED BY <2>1, <2>3
<1>9. CASE ItemReturns(c, at[c].ok) /\ (at[c].ok \/ Drains(c))
  <2>1. ctx[c].hard => ctx[c].error = "INF"
    BY <1>1, <1>3, <1>4, <1>9 DEF FinalError, Drains
  <2>2. FinalError(Walking, frames'[c], ctx[c])
    BY <2>1 DEF FinalError
  <2>3. at' = [at EXCEPT ![c] = Walking] /\ ctx' = [ctx EXCEPT ![c] = ctx[c]]
    BY <1>1, <1>9 DEF ItemReturns, Go, WriterInv, Typed
  <2>4. \E t : frames' = [frames EXCEPT ![c] = t]
    <3>1. \E fr : SetTop(c, fr)
      BY <1>9 DEF ItemReturns
    <3> QED BY <3>1 DEF SetTop
  <2>5. PICK t : frames' = [frames EXCEPT ![c] = t]
    BY <2>4
  <2>6. frames'[c] = t
    BY <1>1, <2>5 DEF WriterInv, Typed
  <2> QED BY <2>2, <2>3, <2>5, <2>6
<1>10. CASE ItemReturns(c, at[c].ok) /\ ~ (at[c].ok \/ Drains(c))
  <2> DEFINE y == Outdent(ctx[c], Top(c))
             x == IF Top(c).mode = "drain" THEN AbortDiscard(y) ELSE y
  <2>1. /\ ctx' = [ctx EXCEPT ![c] = x] /\ at' = [at EXCEPT ![c] = Return(FALSE)]
        /\ frames' = [frames EXCEPT ![c] = Front(frames[c])]
    BY <1>10 DEF ItemReturns, Leave, Go
  <2>2. y \in CtxSet /\ Same(y, ctx[c]) /\ y.aborted = ctx[c].aborted
    <3>1. y \in CtxSet /\ Same(y, ctx[c])
      BY <1>4, Updates
    <3>2. y.aborted = ctx[c].aborted
      BY <1>4 DEF Outdent, CtxSet
    <3> QED BY <3>1, <3>2
  <2> HIDE DEF y
  <2>3. AbortDiscard(y).aborted = TRUE /\ Same(AbortDiscard(y), y)
    <3>1. AbortDiscard(y).aborted = TRUE
      BY <2>2 DEF AbortDiscard, CtxSet
    <3> QED BY <2>2, <3>1, Updates
  <2>4. /\ x.error = ctx[c].error /\ x.hard = ctx[c].hard
        /\ x.aborted = (Top(c).mode = "drain" \/ ctx[c].aborted)
    <3>1. CASE Top(c).mode = "drain"
      BY <2>2, <2>3, <3>1 DEF Same
    <3>2. CASE Top(c).mode # "drain"
      BY <2>2, <3>2 DEF Same, CtxSet
    <3> QED BY <3>1, <3>2
  <2> HIDE DEF x
  <2>5. FinalError(Return(FALSE), Front(frames[c]), x)
    BY <1>1, <1>4, <1>5, <1>6, <2>4 DEF FinalError
  <2> QED BY <2>1, <2>4, <2>5
<1> QED
  BY <1>2, <1>8, <1>9, <1>10

\* Start and Finish reset the context of their call.
LEMMA ResetFinal ==
  ASSUME FinalInv, NEW c \in Calls, Start(c) \/ Finish(c)
  PROVE  /\ \A b \in Calls : FinalError(at'[b], frames'[b], ctx'[b])
         /\ \A b \in Calls : b # c => ctx'[b] = ctx[b]
<1>1. \E partial, d : ctx' = [ctx EXCEPT ![c] = NewCtx(partial, d)]
  BY DEF Start, Finish
<1>2. /\ \A b \in Calls : b # c => at'[b] = at[b]
      /\ frames' = frames
  BY DEF Start, Finish, Go, FinalInv, WriterInv, Typed
<1>3. ~ ctx'[c].hard
  BY <1>1 DEF NewCtx, FinalInv, WriterInv, Typed
<1>4. \A b \in Calls : b # c => ctx'[b] = ctx[b]
  BY <1>1 DEF FinalInv, WriterInv, Typed
<1> QED BY <1>2, <1>3, <1>4 DEF FinalInv, FinalError

\* A step that is not a return and not a reset is Confined and starts from a
\* point that does not fail.
LEMMA StepsConfined ==
  ASSUME WriterInv, NEW c \in Calls,
         EncodeValue(c) \/ EncodeThis(c) \/ Walk(c) \/ CallbackReturns(c)
  PROVE  Confined(c) /\ ~ Fails(at[c])
<1>1. Confined(c)
  BY EncodeConfined, WalkConfined, CallbackConfined
<1>2. ~ Fails(at[c])
  BY DEF EncodeValue, EncodeThis, Walk, CallbackReturns, Fails
<1> QED BY <1>1, <1>2

LEMMA FinalKept ==
  ASSUME FinalInv, [Next]_vars
  PROVE  \A b \in Calls : FinalError(at'[b], frames'[b], ctx'[b])
<1>1. ASSUME NEW c \in Calls, Start(c) \/ Run(c) \/ CallbackReturns(c)
      PROVE  \A b \in Calls : FinalError(at'[b], frames'[b], ctx'[b])
  <2>1. CASE Start(c) \/ Finish(c)
    BY <2>1, ResetFinal
  <2>2. CASE ValueReturns(c)
    BY <2>2, ReturnsFinal
  <2>3. CASE EncodeValue(c) \/ EncodeThis(c) \/ Walk(c) \/ CallbackReturns(c)
    BY <2>3, StepsConfined, GoingOnFinal DEF FinalInv
  <2> QED BY <1>1, <2>1, <2>2, <2>3 DEF Run
<1>2. CASE UNCHANGED vars
  BY <1>2 DEF vars, FinalInv
<1> QED BY <1>1, <1>2 DEF Next

(***************************************************************************)
(* Past a hard error a further error of the search is final, in every      *)
(* reachable state: the call fails, and every frame it returns through is  *)
(* left.                                                                   *)
(***************************************************************************)
THEOREM FinalInvariant == Spec => []FinalInv
<1>1. Init => FinalInv
  <2> SUFFICES ASSUME Init PROVE FinalInv
    OBVIOUS
  <2>1. \A c \in Calls : ~ ctx[c].hard
    BY DEF Init, NewCtx
  <2> QED BY <2>1, InitWriterInv DEF FinalInv, FinalError
<1>2. ASSUME FinalInv, [Next]_vars, WriterInv' PROVE FinalInv'
  <2>1. \A b \in Calls : FinalError(at'[b], frames'[b], ctx'[b])
    BY <1>2, FinalKept
  <2>2. (\A b \in Calls : FinalError(at[b], frames[b], ctx[b]))'
    BY <2>1 DEF FinalError, Fails, Discards
  <2> QED BY <1>2, <2>2 DEF FinalInv
<1> QED
  BY <1>1, <1>2, WriterInvariant, PTL DEF Spec

(***************************************************************************)
(* Once the search that follows a hard error has found another error, no   *)
(* step replaces that error before the call returns.                       *)
(***************************************************************************)
THEOREM LaterErrorsAreFinal == Spec => LaterErrorIsFinal
<1> DEFINE Kept == \A c \in Calls : ctx[c].hard /\ ctx[c].error # "INF" =>
                     at'[c] = Idle \/ ctx'[c].error = ctx[c].error
<1>1. ASSUME FinalInv, Next PROVE Kept
  <2> SUFFICES ASSUME NEW b \in Calls, ctx[b].hard, ctx[b].error # "INF",
                      NEW c \in Calls, Start(c) \/ Run(c) \/ CallbackReturns(c)
               PROVE  at'[b] = Idle \/ ctx'[b].error = ctx[b].error
    BY <1>1 DEF Next
  <2>1. Fails(at[b])
    BY <1>1 DEF FinalInv, FinalError
  <2>2. CASE Start(c)
    <3>1. c # b
      BY <2>1, <2>2 DEF Start, Idle, Fails
    <3> QED BY <1>1, <2>2, <3>1, ResetFinal
  <2>3. CASE Finish(c)
    <3>1. c = b => at'[b] = Idle
      BY <1>1, <2>3 DEF Finish, Go, FinalInv, WriterInv, Typed
    <3> QED BY <1>1, <2>3, <3>1, ResetFinal
  <2>4. CASE ValueReturns(c)
    BY <1>1, <2>4, ReturnsFinal
  <2>5. CASE EncodeValue(c) \/ EncodeThis(c) \/ Walk(c) \/ CallbackReturns(c)
    BY <1>1, <2>1, <2>5, StepsConfined DEF FinalInv, Confined
  <2> QED BY <2>2, <2>3, <2>4, <2>5 DEF Run
<1>2. ASSUME FinalInv, [Next]_vars PROVE [Kept]_vars
  <2>1. CASE Next
    BY <1>1, <1>2, <2>1
  <2>2. CASE UNCHANGED vars
    BY <2>2
  <2> QED BY <1>2, <2>1, <2>2
<1>3. LaterErrorIsFinal <=> [][Kept]_vars
  BY DEF LaterErrorIsFinal
<1> QED
  BY <1>2, <1>3, FinalInvariant, PTL DEF Spec

-----------------------------------------------------------------------------
(* The automaton that reads the output, one token at a time. *)

Wants == {"val", "first", "key", "sep", "end", "error"}
Opening == {"[", "{"}
ParseStates == {p \in [open : Seq(Opening), want : Wants, deep : Nat] : Len(p.open) <= p.deep}

LEMMA FrontIs ==
  ASSUME NEW S, NEW s \in Seq(S), s # << >>
  PROVE  /\ Front(s) \in Seq(S) /\ Len(s) \in Nat \ {0} /\ Len(Front(s)) = Len(s) - 1
         /\ \A i \in 1 .. Len(s) - 1 : Front(s)[i] = s[i]
         /\ Last(s) = s[Len(s)] /\ Last(s) \in S
<1>1. Len(s) \in Nat \ {0} /\ \A i \in 1 .. Len(s) : s[i] \in S
  OBVIOUS
<1>2. Len(s) - 1 \in Nat /\ Front(s) = [i \in 1 .. Len(s) - 1 |-> s[i]]
  BY <1>1 DEF Front
<1>3. Front(s) \in [1 .. Len(s) - 1 -> S]
  BY <1>1, <1>2
<1>4. Front(s) \in Seq(S) /\ Len(Front(s)) = Len(s) - 1
  BY <1>2, <1>3
<1> QED BY <1>1, <1>2, <1>4 DEF Last

LEMMA MoveTyped ==
  ASSUME NEW p \in ParseStates, NEW open \in Seq(Opening), NEW want \in Wants
  PROVE  /\ ParseMove(p, open, want) \in ParseStates
         /\ ParseMove(p, open, want).open = open /\ ParseMove(p, open, want).want = want
         /\ ParseMove(p, open, want).deep = IF Len(open) > p.deep THEN Len(open) ELSE p.deep
<1>1. Len(open) \in Nat /\ p.deep \in Nat
  BY DEF ParseStates
<1>2. (IF Len(open) > p.deep THEN Len(open) ELSE p.deep) \in Nat
  BY <1>1
<1> QED BY <1>2 DEF ParseMove, ParseStates

LEMMA StepTyped ==
  ASSUME NEW p \in ParseStates, NEW t
  PROVE  ParseStep(p, t) \in ParseStates
<1>1. p.open \in Seq(Opening) /\ \A open : AfterValue(open) \in Wants
  BY DEF ParseStates, AfterValue, Wants
<1>2. p.open # << >> => Front(p.open) \in Seq(Opening)
  BY <1>1, FrontIs
<1>3. t \in {"[", "{"} => Append(p.open, t) \in Seq(Opening)
  <2>1. ASSUME NEW b \in Opening PROVE Append(p.open, b) \in Seq(Opening)
    BY <1>1
  <2> QED BY <2>1 DEF Opening
<1>4. Enclosing(p) # "root" => p.open # << >>
  BY DEF Enclosing
<1>5. \A open \in Seq(Opening), want \in Wants : ParseMove(p, open, want) \in ParseStates
  BY MoveTyped
<1>6. /\ {"val", "first", "key", "error"} \subseteq Wants
      /\ (IF Enclosing(p) = "[" THEN "val" ELSE "key") \in Wants
  BY DEF Wants
<1>7. {"[", "{"} \cap {"root"} = {}
  OBVIOUS
<1> QED BY <1>1, <1>2, <1>3, <1>4, <1>5, <1>6 DEF ParseStep

\* Parse is the fold of the automaton over the tokens.
LEMMA ParseIsFold ==
  ASSUME NEW toks \in Seq(Tokens)
  PROVE  \E f \in [0 .. Len(toks) -> ParseStates] :
           /\ f[0] = ParseStart
           /\ \A n \in 1 .. Len(toks) : f[n] = ParseStep(f[n - 1], toks[n])
           /\ Parse(toks) = f[Len(toks)]
<1> DEFINE L == Len(toks)
           D == [n \in 1 .. L |-> [b \in ParseStates |-> ParseStep(b, toks[n])]]
<1>1. L \in Nat
  OBVIOUS
<1>2. D \in [1 .. L -> [ParseStates -> ParseStates]]
  BY StepTyped
<1>3. ParseStart \in ParseStates
  BY DEF ParseStart, ParseStates, Wants
<1> HIDE DEF L
<1>4. PICK g \in [0 .. L -> ParseStates] :
         g[0] = ParseStart /\ \A n \in 1 .. L : g[n] = D[n][g[n - 1]]
  <2> HIDE DEF D
  <2> QED BY <1>1, <1>2, <1>3, FoldExists
<1>5. ASSUME NEW n \in 1 .. L PROVE g[n] = ParseStep(g[n - 1], toks[n])
  <2>1. n - 1 \in 0 .. L
    BY <1>1
  <2>2. g[n - 1] \in ParseStates
    BY <2>1, <1>4
  <2> QED BY <2>2, <1>4
<1> HIDE DEF D
<1> DEFINE Rec(f) == [n \in 0 .. L |-> IF n = 0 THEN ParseStart ELSE ParseStep(f[n - 1], toks[n])]
<1>6. g = Rec(g)
  <2>1. ASSUME NEW n \in 0 .. L
        PROVE  g[n] = IF n = 0 THEN ParseStart ELSE ParseStep(g[n - 1], toks[n])
    <3>1. n # 0 => n \in 1 .. L
      BY <1>1
    <3> QED BY <3>1, <1>4, <1>5
  <2> QED BY <2>1
<1> DEFINE f == CHOOSE f : f = Rec(f)
<1>7. f = Rec(f)
  <2> HIDE DEF Rec
  <2> QED BY <1>6
<1>8. Parse(toks) = f[L]
  BY Zenon DEF Parse, L
<1> HIDE DEF f
<1>9. /\ f = [n \in 0 .. L |-> f[n]]
      /\ f[0] = ParseStart
      /\ \A n \in 1 .. L : f[n] = ParseStep(f[n - 1], toks[n])
  <2>1. \A n \in 0 .. L : f[n] = IF n = 0 THEN ParseStart ELSE ParseStep(f[n - 1], toks[n])
    BY <1>7
  <2>2. \A n \in 1 .. L : n \in 0 .. L /\ n # 0
    BY <1>1
  <2>3. 0 \in 0 .. L
    BY <1>1
  <2>4. f = [n \in 0 .. L |-> f[n]]
    BY <1>7
  <2> QED BY <2>1, <2>2, <2>3, <2>4
<1> DEFINE P == {n \in 0 .. L : f[n] = g[n]}
<1>10. 0 \in P
  BY <1>1, <1>4, <1>9
<1>11. ASSUME NEW n \in 0 .. L - 1, n \in P PROVE n + 1 \in P
  <2>1. n + 1 \in 1 .. L /\ n + 1 \in 0 .. L /\ (n + 1) - 1 = n
    BY <1>1
  <2>2. f[n + 1] = ParseStep(f[n], toks[n + 1]) /\ g[n + 1] = ParseStep(g[n], toks[n + 1])
    BY <2>1, <1>5, <1>9
  <2> QED BY <2>1, <2>2, <1>11
<1>12. \A n \in 0 .. L : n \in P
  <2> HIDE DEF P
  <2> QED BY <1>1, <1>10, <1>11, InductionUpTo
<1>13. L \in 0 .. L
  BY <1>1
<1> QED BY <1>4, <1>5, <1>8, <1>12, <1>13 DEF L

LEMMA ParseOfNothing == Parse(<< >>) = ParseStart
<1>1. << >> \in Seq(Tokens) /\ Len(<< >>) = 0
  OBVIOUS
<1> QED BY <1>1, ParseIsFold

LEMMA ParseTyped ==
  ASSUME NEW toks \in Seq(Tokens)
  PROVE  Parse(toks) \in ParseStates
<1>1. Len(toks) \in 0 .. Len(toks)
  OBVIOUS
<1> QED BY <1>1, ParseIsFold

LEMMA ParseNextToken ==
  ASSUME NEW toks \in Seq(Tokens), NEW t \in Tokens
  PROVE  Parse(toks \o <<t>>) = ParseStep(Parse(toks), t)
<1> DEFINE L == Len(toks)
           u == toks \o <<t>>
<1>1. L \in Nat /\ u \in Seq(Tokens) /\ Len(u) = L + 1 /\ u[L + 1] = t
      /\ \A n \in 1 .. L : u[n] = toks[n]
  OBVIOUS
<1>2. PICK h \in [0 .. L -> ParseStates] :
         /\ h[0] = ParseStart
         /\ \A n \in 1 .. L : h[n] = ParseStep(h[n - 1], toks[n])
         /\ Parse(toks) = h[L]
  BY ParseIsFold
<1> HIDE DEF L, u
<1>3. PICK f \in [0 .. L + 1 -> ParseStates] :
         /\ f[0] = ParseStart
         /\ \A n \in 1 .. L + 1 : f[n] = ParseStep(f[n - 1], u[n])
         /\ Parse(u) = f[L + 1]
  BY <1>1, ParseIsFold
<1> DEFINE P == {n \in 0 .. L : f[n] = h[n]}
<1>4. 0 \in P
  BY <1>1, <1>2, <1>3
<1>5. ASSUME NEW n \in 0 .. L - 1, n \in P PROVE n + 1 \in P
  <2>1. n + 1 \in 1 .. L /\ n + 1 \in 1 .. L + 1 /\ n + 1 \in 0 .. L /\ (n + 1) - 1 = n
    BY <1>1
  <2>2. f[n + 1] = ParseStep(f[n], u[n + 1]) /\ h[n + 1] = ParseStep(h[n], toks[n + 1])
    BY <2>1, <1>2, <1>3
  <2> QED BY <2>1, <2>2, <1>1, <1>5
<1>6. \A n \in 0 .. L : n \in P
  <2> HIDE DEF P
  <2> QED BY <1>1, <1>4, <1>5, InductionUpTo
<1>7. L \in 0 .. L /\ L + 1 \in 1 .. L + 1 /\ (L + 1) - 1 = L
  BY <1>1
<1>8. f[L + 1] = ParseStep(h[L], t)
  BY <1>1, <1>3, <1>6, <1>7
<1> QED BY <1>2, <1>3, <1>8 DEF u

\* How the automaton reads each token where the writer puts it.
LEMMA ReadsValue ==
  ASSUME NEW q \in ParseStates, ValueDue(q)
  PROVE  /\ ParseStep(q, "v") = ParseMove(q, q.open, AfterValue(q.open))
         /\ \A b \in Opening : ParseStep(q, b) = ParseMove(q, Append(q.open, b), "first")
<1>1. ParseStep(q, "v") = ParseMove(q, q.open, AfterValue(q.open))
  BY DEF ParseStep
<1>2. ASSUME NEW b \in Opening PROVE ParseStep(q, b) = ParseMove(q, Append(q.open, b), "first")
  <2>1. CASE b = "["
    BY <2>1 DEF ParseStep
  <2>2. CASE b = "{"
    BY <2>2 DEF ParseStep
  <2> QED BY <2>1, <2>2 DEF Opening
<1> QED BY <1>1, <1>2

LEMMA ReadsKey ==
  ASSUME NEW q \in ParseStates, Enclosing(q) = "{", q.want \in {"first", "key"}
  PROVE  ParseStep(q, "k") = ParseMove(q, q.open, "val")
BY DEF ParseStep

LEMMA ReadsComma ==
  ASSUME NEW q \in ParseStates, Enclosing(q) \in Opening, q.want = "sep"
  PROVE  ParseStep(q, ",") = ParseMove(q, q.open, IF Enclosing(q) = "[" THEN "val" ELSE "key")
BY DEF ParseStep, Opening

LEMMA ReadsClose ==
  ASSUME NEW q \in ParseStates, NEW kind, Enclosing(q) = Brackets(kind)[1],
         q.want \in {"first", "sep"}
  PROVE  ParseStep(q, Brackets(kind)[2])
           = ParseMove(q, Front(q.open), AfterValue(Front(q.open)))
<1>1. CASE kind = "list"
  <2>1. Brackets(kind)[1] = "[" /\ Brackets(kind)[2] = "]"
    BY <1>1 DEF Brackets
  <2> QED BY <2>1 DEF ParseStep
<1>2. CASE kind # "list"
  <2>1. Brackets(kind)[1] = "{" /\ Brackets(kind)[2] = "}"
    BY <1>2 DEF Brackets
  <2> QED BY <2>1 DEF ParseStep
<1> QED BY <1>1, <1>2

-----------------------------------------------------------------------------
(* The brackets and the bodies of a stack of frames. *)

LEMMA BracketTypes ==
  \A kind : Brackets(kind)[1] \in Opening /\ Brackets(kind)[1] \in Tokens \ {"freed"}
              /\ Brackets(kind)[2] \in Tokens \ {"freed"}
              /\ (Brackets(kind)[1] = "[" <=> kind = "list")
BY DEF Brackets, Opening, Tokens

\* One frame more.
Pushed(open, kind) == IF kind = "json" THEN open ELSE Append(open, Brackets(kind)[1])

LEMMA PushedTyped ==
  ASSUME NEW open \in Seq(Opening), NEW kind
  PROVE  Pushed(open, kind) \in Seq(Opening)
<1>1. Brackets(kind)[1] \in Opening
  BY BracketTypes
<1> QED BY <1>1 DEF Pushed

LEMMA OpenBracketsIs ==
  ASSUME NEW s \in Seq(FrameSet)
  PROVE  /\ OpenBrackets(s) \in [0 .. Len(s) -> Seq(Opening)]
         /\ OpenBrackets(s)[0] = << >>
         /\ \A n \in 1 .. Len(s) :
              OpenBrackets(s)[n] = Pushed(OpenBrackets(s)[n - 1], s[n].kind)
<1> DEFINE L == Len(s)
           B == Seq(Opening)
           D == [n \in 1 .. L |-> [b \in B |-> Pushed(b, s[n].kind)]]
<1>1. L \in Nat
  OBVIOUS
<1>2. D \in [1 .. L -> [B -> B]]
  BY PushedTyped
<1>3. PICK z \in B : z = << >>
  <2>1. << >> \in B
    OBVIOUS
  <2> HIDE DEF B
  <2> QED BY <2>1, Zenon
<1> HIDE DEF L
<1>4. PICK g \in [0 .. L -> B] : g[0] = z /\ \A n \in 1 .. L : g[n] = D[n][g[n - 1]]
  <2> HIDE DEF D, B
  <2> QED BY <1>1, <1>2, FoldExists
<1>5. ASSUME NEW n \in 1 .. L PROVE g[n] = Pushed(g[n - 1], s[n].kind)
  <2> HIDE DEF B
  <2>1. n - 1 \in 0 .. L
    BY <1>1
  <2>2. g[n - 1] \in B
    BY <2>1, <1>4
  <2> QED BY <2>2, <1>4
<1> HIDE DEF D
<1> DEFINE Rec(f) == [n \in 0 .. L |->
                        IF n = 0 THEN << >>
                        ELSE IF s[n].kind = "json" THEN f[n - 1]
                        ELSE Append(f[n - 1], Brackets(s[n].kind)[1])]
<1>6. g = Rec(g)
  <2>1. ASSUME NEW n \in 0 .. L
        PROVE  g[n] = IF n = 0 THEN << >>
                      ELSE IF s[n].kind = "json" THEN g[n - 1]
                      ELSE Append(g[n - 1], Brackets(s[n].kind)[1])
    <3>1. n # 0 => n \in 1 .. L
      BY <1>1
    <3> QED BY <3>1, <1>3, <1>4, <1>5 DEF Pushed
  <2> QED BY <2>1
<1> DEFINE f == CHOOSE f : f = Rec(f)
<1>7. f = Rec(f)
  <2> HIDE DEF Rec
  <2> QED BY <1>6
<1>8. OpenBrackets(s) = f
  BY Zenon DEF OpenBrackets, L
<1> HIDE DEF f
<1>9. /\ f = [n \in 0 .. L |-> f[n]]
      /\ f[0] = << >>
      /\ \A n \in 1 .. L : f[n] = Pushed(f[n - 1], s[n].kind)
  <2>1. \A n \in 0 .. L : f[n] = IF n = 0 THEN << >>
                                 ELSE IF s[n].kind = "json" THEN f[n - 1]
                                 ELSE Append(f[n - 1], Brackets(s[n].kind)[1])
    BY <1>7
  <2>2. \A n \in 1 .. L : n \in 0 .. L /\ n # 0
    BY <1>1
  <2>3. 0 \in 0 .. L
    BY <1>1
  <2>4. f = [n \in 0 .. L |-> f[n]]
    BY <1>7
  <2> QED BY <2>1, <2>2, <2>3, <2>4 DEF Pushed
<1> DEFINE P == {n \in 0 .. L : f[n] = g[n]}
<1>10. 0 \in P
  BY <1>1, <1>3, <1>4, <1>9
<1>11. ASSUME NEW n \in 0 .. L - 1, n \in P PROVE n + 1 \in P
  <2>1. n + 1 \in 1 .. L /\ n + 1 \in 0 .. L /\ (n + 1) - 1 = n
    BY <1>1
  <2> QED BY <2>1, <1>5, <1>9, <1>11
<1>12. \A n \in 0 .. L : n \in P
  <2> HIDE DEF P
  <2> QED BY <1>1, <1>10, <1>11, InductionUpTo
<1>13. f \in [0 .. L -> Seq(Opening)]
  BY <1>4, <1>9, <1>12
<1> QED BY <1>8, <1>9, <1>13 DEF L

\* The brackets below a height depend on the kinds of the frames below it.
LEMMA OpenBracketsAgree ==
  ASSUME NEW s \in Seq(FrameSet), NEW u \in Seq(FrameSet), NEW m \in Nat,
         m <= Len(s), m <= Len(u), \A i \in 1 .. m : u[i].kind = s[i].kind
  PROVE  \A n \in 0 .. m : OpenBrackets(u)[n] = OpenBrackets(s)[n]
<1> DEFINE P == {n \in 0 .. m : OpenBrackets(u)[n] = OpenBrackets(s)[n]}
<1>1. 0 \in P
  BY OpenBracketsIs
<1>2. ASSUME NEW n \in 0 .. m - 1, n \in P PROVE n + 1 \in P
  <2>1. /\ n + 1 \in 1 .. m /\ n + 1 \in 1 .. Len(s) /\ n + 1 \in 1 .. Len(u)
        /\ n + 1 \in 0 .. m /\ (n + 1) - 1 = n
    OBVIOUS
  <2>2. /\ OpenBrackets(s)[n + 1] = Pushed(OpenBrackets(s)[n], s[n + 1].kind)
        /\ OpenBrackets(u)[n + 1] = Pushed(OpenBrackets(u)[n], u[n + 1].kind)
    BY <2>1, OpenBracketsIs
  <2> QED BY <2>1, <2>2, <1>2
<1>3. \A n \in 0 .. m : n \in P
  <2> HIDE DEF P
  <2> QED BY <1>1, <1>2, InductionUpTo
<1> QED BY <1>3

\* Whether a frame's body counts.
Counts(fr) == fr.body /\ fr.mode # "discard"
Bodies(s) == {i \in 1 .. Len(s) : s[i].body /\ s[i].mode # "discard"}

LEMMA BodiesFinite ==
  ASSUME NEW s \in Seq(FrameSet)
  PROVE  IsFiniteSet(Bodies(s)) /\ Cardinality(Bodies(s)) \in Nat
<1>1. IsFiniteSet(1 .. Len(s))
  BY FS_Interval
<1>2. Bodies(s) \subseteq 1 .. Len(s)
  BY DEF Bodies
<1> QED BY <1>1, <1>2, FS_Subset, FS_CardinalityType

\* A stack has the bodies of the frames below its top, and its top's.
LEMMA BodiesTop ==
  ASSUME NEW s \in Seq(FrameSet), NEW u \in Seq(FrameSet), Len(u) = Len(s) + 1,
         \A i \in 1 .. Len(s) : u[i] = s[i]
  PROVE  OpenBodies(u) = OpenBodies(s) + (IF Counts(u[Len(u)]) THEN 1 ELSE 0)
<1>1. Len(s) \in Nat /\ Len(u) \notin 1 .. Len(s) /\ Len(u) \in 1 .. Len(u)
  OBVIOUS
<1>2. Bodies(u) = IF Counts(u[Len(u)]) THEN Bodies(s) \cup {Len(u)} ELSE Bodies(s)
  BY <1>1 DEF Bodies, Counts
<1>3. Len(u) \notin Bodies(s)
  BY <1>1 DEF Bodies
<1>4. IsFiniteSet(Bodies(s)) /\ Cardinality(Bodies(s)) \in Nat
  BY BodiesFinite
<1>5. Cardinality(Bodies(s) \cup {Len(u)}) = Cardinality(Bodies(s)) + 1
  BY <1>3, <1>4, FS_AddElement
<1>6. OpenBodies(u) = Cardinality(Bodies(u)) /\ OpenBodies(s) = Cardinality(Bodies(s))
  BY DEF OpenBodies, Bodies
<1> QED BY <1>2, <1>4, <1>5, <1>6

LEMMA BodiesTyped == \A s \in Seq(FrameSet) : OpenBodies(s) \in Nat
BY BodiesFinite DEF OpenBodies, Bodies

LEMMA NoBodies == OpenBodies(<< >>) = 0
<1>1. {i \in 1 .. Len(<< >>) : << >>[i].body /\ << >>[i].mode # "discard"} = {}
  OBVIOUS
<1> QED BY <1>1, FS_EmptySet DEF OpenBodies

-----------------------------------------------------------------------------
(* What a push, a pop and a replaced top do to brackets, bodies and depths. *)

OpenOf(s) == OpenBrackets(s)[Len(s)]

LEMMA OpenOfTyped ==
  \A s \in Seq(FrameSet) : OpenOf(s) \in Seq(Opening) /\ Len(OpenOf(s)) \in Nat
<1> SUFFICES ASSUME NEW s \in Seq(FrameSet)
             PROVE  OpenOf(s) \in Seq(Opening) /\ Len(OpenOf(s)) \in Nat
  OBVIOUS
<1>1. Len(s) \in 0 .. Len(s)
  OBVIOUS
<1>2. OpenOf(s) \in Seq(Opening)
  BY <1>1, OpenBracketsIs DEF OpenOf
<1> QED BY <1>2

LEMMA NoBrackets == OpenOf(<< >>) = << >>
<1>1. << >> \in Seq(FrameSet) /\ Len(<< >>) = 0
  OBVIOUS
<1> QED BY <1>1, OpenBracketsIs DEF OpenOf

LEMMA OpenOfPush ==
  ASSUME NEW s \in Seq(FrameSet), NEW fr \in FrameSet
  PROVE  /\ OpenOf(Append(s, fr)) = Pushed(OpenOf(s), fr.kind)
         /\ \A n \in 0 .. Len(s) : OpenBrackets(Append(s, fr))[n] = OpenBrackets(s)[n]
<1> DEFINE u == Append(s, fr)
           m == Len(s)
<1>1. /\ m \in Nat /\ u \in Seq(FrameSet) /\ Len(u) = m + 1 /\ u[m + 1] = fr
      /\ \A i \in 1 .. m : u[i] = s[i]
  OBVIOUS
<1> HIDE DEF u, m
<1>2. m <= Len(s) /\ m <= Len(u)
  BY <1>1 DEF m
<1>3. \A n \in 0 .. m : OpenBrackets(u)[n] = OpenBrackets(s)[n]
  BY <1>1, <1>2, OpenBracketsAgree
<1>4. m + 1 \in 1 .. Len(u) /\ (m + 1) - 1 = m /\ m \in 0 .. m
  BY <1>1
<1>5. OpenBrackets(u)[m + 1] = Pushed(OpenBrackets(u)[m], fr.kind)
  BY <1>1, <1>4, OpenBracketsIs
<1> QED BY <1>1, <1>3, <1>4, <1>5 DEF OpenOf, u, m

LEMMA OpenOfPop ==
  ASSUME NEW s \in Seq(FrameSet), s # << >>
  PROVE  /\ OpenOf(s) = Pushed(OpenOf(Front(s)), Last(s).kind)
         /\ \A n \in 0 .. Len(Front(s)) : OpenBrackets(Front(s))[n] = OpenBrackets(s)[n]
<1> DEFINE u == Front(s)
           m == Len(u)
<1>1. /\ m \in Nat /\ u \in Seq(FrameSet) /\ Len(s) = m + 1 /\ Last(s) = s[m + 1]
      /\ \A i \in 1 .. m : u[i] = s[i]
  BY FrontIs
<1> HIDE DEF u
<1>2. m <= Len(s) /\ m <= Len(u)
  BY <1>1
<1>3. \A n \in 0 .. m : OpenBrackets(u)[n] = OpenBrackets(s)[n]
  BY <1>1, <1>2, OpenBracketsAgree
<1>4. m + 1 \in 1 .. Len(s) /\ (m + 1) - 1 = m /\ m \in 0 .. m
  BY <1>1
<1>5. OpenBrackets(s)[m + 1] = Pushed(OpenBrackets(s)[m], s[m + 1].kind)
  BY <1>4, OpenBracketsIs
<1> QED BY <1>1, <1>3, <1>4, <1>5 DEF OpenOf, u

\* A new top of the same kind.
LEMMA ReplaceIs ==
  ASSUME NEW s \in Seq(FrameSet), s # << >>, NEW fr \in FrameSet
  PROVE  LET u == [s EXCEPT ![Len(s)] = fr]
         IN  /\ u \in Seq(FrameSet) /\ Len(u) = Len(s) /\ u # << >>
             /\ Last(u) = fr /\ u[Len(s)] = fr
             /\ \A i \in 1 .. Len(s) - 1 : u[i] = s[i]
             /\ Front(u) = Front(s)
<1> DEFINE u == [s EXCEPT ![Len(s)] = fr]
<1>1. Len(s) \in Nat \ {0}
  BY FrontIs
<1>2. u \in Seq(FrameSet) /\ Len(u) = Len(s) /\ u # << >>
  BY <1>1
<1>3. u[Len(s)] = fr /\ \A i \in 1 .. Len(s) - 1 : u[i] = s[i]
  BY <1>1
<1>4. Last(u) = fr
  BY <1>2, <1>3 DEF Last
<1> HIDE DEF u
<1>5. Front(u) = Front(s)
  BY <1>2, <1>3 DEF Front
<1> QED BY <1>2, <1>3, <1>4, <1>5 DEF u

LEMMA OpenOfReplace ==
  ASSUME NEW s \in Seq(FrameSet), s # << >>, NEW fr \in FrameSet, fr.kind = Last(s).kind
  PROVE  LET u == [s EXCEPT ![Len(s)] = fr]
         IN  /\ OpenOf(u) = OpenOf(s)
             /\ \A n \in 0 .. Len(s) : OpenBrackets(u)[n] = OpenBrackets(s)[n]
<1> DEFINE u == [s EXCEPT ![Len(s)] = fr]
<1>1. /\ u \in Seq(FrameSet) /\ Len(u) = Len(s) /\ u[Len(s)] = fr
      /\ \A i \in 1 .. Len(s) - 1 : u[i] = s[i]
  BY ReplaceIs
<1>2. Len(s) \in Nat \ {0} /\ Last(s) = s[Len(s)]
  BY FrontIs
<1> HIDE DEF u
<1>3. \A i \in 1 .. Len(s) : u[i].kind = s[i].kind
  BY <1>1, <1>2
<1>4. \A n \in 0 .. Len(s) : OpenBrackets(u)[n] = OpenBrackets(s)[n]
  BY <1>1, <1>2, <1>3, OpenBracketsAgree
<1>5. OpenOf(u) = OpenOf(s)
  BY <1>1, <1>2, <1>4 DEF OpenOf
<1> QED BY <1>4, <1>5 DEF u

LEMMA BodiesPush ==
  ASSUME NEW s \in Seq(FrameSet), NEW fr \in FrameSet
  PROVE  OpenBodies(Append(s, fr)) = OpenBodies(s) + (IF Counts(fr) THEN 1 ELSE 0)
<1>1. /\ Append(s, fr) \in Seq(FrameSet) /\ Len(Append(s, fr)) = Len(s) + 1
      /\ Append(s, fr)[Len(s) + 1] = fr
      /\ \A i \in 1 .. Len(s) : Append(s, fr)[i] = s[i]
  OBVIOUS
<1> QED BY <1>1, BodiesTop

LEMMA BodiesPop ==
  ASSUME NEW s \in Seq(FrameSet), s # << >>
  PROVE  OpenBodies(s) = OpenBodies(Front(s)) + (IF Counts(Last(s)) THEN 1 ELSE 0)
<1>1. /\ Front(s) \in Seq(FrameSet) /\ Len(s) = Len(Front(s)) + 1 /\ Last(s) = s[Len(s)]
      /\ \A i \in 1 .. Len(Front(s)) : s[i] = Front(s)[i]
  BY FrontIs
<1> QED BY <1>1, BodiesTop

LEMMA BodiesReplace ==
  ASSUME NEW s \in Seq(FrameSet), s # << >>, NEW fr \in FrameSet
  PROVE  OpenBodies([s EXCEPT ![Len(s)] = fr])
           = OpenBodies(Front(s)) + (IF Counts(fr) THEN 1 ELSE 0)
<1>1. LET u == [s EXCEPT ![Len(s)] = fr]
      IN  u \in Seq(FrameSet) /\ u # << >> /\ Last(u) = fr /\ Front(u) = Front(s)
  BY ReplaceIs
<1> QED BY <1>1, BodiesPop

\* The part of the invariant about frames only.
Unspent(s, d) ==
  \A i \in 1 .. Len(s) :
    /\ s[i].depth + Len(OpenBrackets(s)[i]) = d
    /\ s[i].kind # "json" => s[i].depth >= 0

Bodiless(s) == \A i \in 1 .. Len(s) : s[i].kind = "json" => ~ s[i].body

LEMMA PushParts ==
  ASSUME NEW s \in Seq(FrameSet), NEW fr \in FrameSet
  PROVE  /\ \A d : Unspent(s, d) /\ fr.depth + Len(Pushed(OpenOf(s), fr.kind)) = d
                     /\ (fr.kind # "json" => fr.depth >= 0)
                   => Unspent(Append(s, fr), d)
         /\ Bodiless(s) /\ (fr.kind = "json" => ~ fr.body) => Bodiless(Append(s, fr))
<1> DEFINE u == Append(s, fr)
<1>1. /\ u \in Seq(FrameSet) /\ Len(u) = Len(s) + 1 /\ u[Len(s) + 1] = fr /\ Len(s) \in Nat
      /\ \A i \in 1 .. Len(s) : u[i] = s[i]
  OBVIOUS
<1>2. /\ OpenBrackets(u)[Len(u)] = Pushed(OpenOf(s), fr.kind)
      /\ \A n \in 0 .. Len(s) : OpenBrackets(u)[n] = OpenBrackets(s)[n]
  BY OpenOfPush DEF OpenOf
<1> HIDE DEF u
<1>3. \A i \in 1 .. Len(u) : i = Len(u) \/ (i \in 1 .. Len(s) /\ i \in 0 .. Len(s))
  BY <1>1
<1>4. ASSUME NEW d, Unspent(s, d), fr.depth + Len(Pushed(OpenOf(s), fr.kind)) = d,
             fr.kind # "json" => fr.depth >= 0
      PROVE  Unspent(u, d)
  BY <1>1, <1>2, <1>3, <1>4 DEF Unspent
<1>5. ASSUME Bodiless(s), fr.kind = "json" => ~ fr.body PROVE Bodiless(u)
  BY <1>1, <1>3, <1>5 DEF Bodiless
<1> QED BY <1>4, <1>5 DEF u

LEMMA PopParts ==
  ASSUME NEW s \in Seq(FrameSet), s # << >>
  PROVE  /\ \A d : Unspent(s, d) => Unspent(Front(s), d)
         /\ Bodiless(s) => Bodiless(Front(s))
<1> DEFINE u == Front(s)
<1>1. /\ u \in Seq(FrameSet) /\ Len(s) = Len(u) + 1 /\ Len(u) \in Nat
      /\ \A i \in 1 .. Len(u) : u[i] = s[i]
  BY FrontIs
<1>2. \A n \in 0 .. Len(u) : OpenBrackets(u)[n] = OpenBrackets(s)[n]
  BY OpenOfPop
<1> HIDE DEF u
<1>3. \A i \in 1 .. Len(u) : i \in 1 .. Len(s) /\ i \in 0 .. Len(u)
  BY <1>1
<1> QED BY <1>1, <1>2, <1>3 DEF Unspent, Bodiless, u

LEMMA ReplaceParts ==
  ASSUME NEW s \in Seq(FrameSet), s # << >>, NEW fr \in FrameSet,
         fr.kind = Last(s).kind, fr.depth = Last(s).depth
  PROVE  LET u == [s EXCEPT ![Len(s)] = fr]
         IN  /\ \A d : Unspent(s, d) => Unspent(u, d)
             /\ Bodiless(s) /\ (fr.kind = "json" => ~ fr.body) => Bodiless(u)
<1> DEFINE u == [s EXCEPT ![Len(s)] = fr]
<1>1. /\ u \in Seq(FrameSet) /\ Len(u) = Len(s) /\ u[Len(s)] = fr
      /\ \A i \in 1 .. Len(s) - 1 : u[i] = s[i]
  BY ReplaceIs
<1>2. Len(s) \in Nat \ {0} /\ Last(s) = s[Len(s)]
  BY FrontIs
<1>3. \A n \in 0 .. Len(s) : OpenBrackets(u)[n] = OpenBrackets(s)[n]
  BY OpenOfReplace
<1> HIDE DEF u
<1>4. \A i \in 1 .. Len(s) : i \in 0 .. Len(s) /\ u[i].kind = s[i].kind /\ u[i].depth = s[i].depth
                               /\ (u[i] = s[i] \/ i = Len(s))
  BY <1>1, <1>2
<1>5. ASSUME NEW d, Unspent(s, d) PROVE Unspent(u, d)
  BY <1>1, <1>3, <1>4, <1>5 DEF Unspent
<1>6. ASSUME Bodiless(s), fr.kind = "json" => ~ fr.body PROVE Bodiless(u)
  BY <1>1, <1>4, <1>6 DEF Bodiless
<1> QED BY <1>5, <1>6 DEF u

-----------------------------------------------------------------------------
(* What a step of the writer does to its output. *)

Unfreed == Tokens \ {"freed"}

Laid(s, x) ==
  /\ IF x.hard THEN x.buf = Freed ELSE x.buf \in Seq(Unfreed)
  /\ x.indent = OpenBodies(s)
  /\ Bodiless(s)

Reading(s, x) ==
  /\ Parse(x.buf).open = OpenOf(s)
  /\ Parse(x.buf).deep > 0 => Parse(x.buf).deep <= x.depth
  /\ Unspent(s, x.depth)

LEMMA OutputIs ==
  ASSUME NEW p, NEW s, NEW x
  PROVE  /\ OutputOK(p, s, x) <=>
              Laid(s, x) /\ (p.pc # "idle" /\ ~ x.hard /\ ~ Fails(p) => Grammatical(p, s, x))
         /\ Grammatical(p, s, x) <=>
              /\ Reading(s, x)
              /\ Wanted(p, s, Parse(x.buf))
              /\ p.pc \in {"visit", "this"} => p.depth + Len(OpenOf(s)) = x.depth
<1>1. OutputOK(p, s, x) <=>
        Laid(s, x) /\ (p.pc # "idle" /\ ~ x.hard /\ ~ Fails(p) => Grammatical(p, s, x))
  BY DEF OutputOK, Laid, Bodiless, Unfreed
<1>2. Grammatical(p, s, x) <=>
        /\ Reading(s, x)
        /\ Wanted(p, s, Parse(x.buf))
        /\ p.pc \in {"visit", "this"} => p.depth + Len(OpenOf(s)) = x.depth
  BY DEF Grammatical, DepthLeft, Reading, Unspent, OpenOf
<1> QED BY <1>1, <1>2

LEMMA UnfreedSeqs ==
  /\ \A b \in Seq(Unfreed) : b \in Seq(Tokens) /\ b \o << >> = b
  /\ \A a, b \in Seq(Unfreed) : a \o b \in Seq(Unfreed)
  /\ \A b \in Seq(Unfreed), t \in Unfreed : b \o <<t>> \in Seq(Unfreed)
  /\ << >> \in Seq(Unfreed) /\ Freed \o << >> = Freed
  /\ {"v", "k", ",", "{", "}"} \subseteq Unfreed /\ \A t \in Unfreed : t \in Tokens
<1>1. {"v", "k", ",", "{", "}"} \subseteq Unfreed /\ \A t \in Unfreed : t \in Tokens
  BY DEF Unfreed, Tokens
<1>2. \A b \in Seq(Unfreed) : b \in Seq(Tokens) /\ b \o << >> = b
  <2> SUFFICES ASSUME NEW b \in Seq(Unfreed) PROVE b \in Seq(Tokens) /\ b \o << >> = b
    OBVIOUS
  <2>1. Unfreed \subseteq Tokens
    BY DEF Unfreed
  <2>2. b \in Seq(Tokens)
    BY <2>1, SeqMonotonic
  <2> QED BY <2>2, ConcatEmptySeq
<1>3. \A b \in Seq(Unfreed), t \in Unfreed : b \o <<t>> \in Seq(Unfreed)
  OBVIOUS
<1>4. << >> \in Seq(Unfreed) /\ Freed \o << >> = Freed
  BY DEF Freed
<1>5. \A a, b \in Seq(Unfreed) : a \o b \in Seq(Unfreed)
  OBVIOUS
<1> QED BY <1>1, <1>2, <1>3, <1>4, <1>5

\* One token more, and two.
LEMMA ReadNext ==
  ASSUME NEW b \in Seq(Unfreed), NEW t \in Unfreed
  PROVE  /\ Parse(b) \in ParseStates
         /\ b \o <<t>> \in Seq(Unfreed)
         /\ Parse(b \o <<t>>) = ParseStep(Parse(b), t)
<1>1. b \in Seq(Tokens) /\ t \in Tokens /\ b \o <<t>> \in Seq(Unfreed)
  BY UnfreedSeqs
<1> QED BY <1>1, ParseTyped, ParseNextToken

LEMMA ReadTwo ==
  ASSUME NEW b \in Seq(Unfreed), NEW t \in Unfreed, NEW e \in Unfreed
  PROVE  /\ b \o (<<t>> \o <<e>>) \in Seq(Unfreed)
         /\ Parse(b \o (<<t>> \o <<e>>)) = ParseStep(ParseStep(Parse(b), t), e)
<1>1. /\ b \o <<t>> \in Seq(Unfreed)
      /\ Parse(b \o <<t>>) = ParseStep(Parse(b), t)
  BY ReadNext
<1>2. /\ (b \o <<t>>) \o <<e>> \in Seq(Unfreed)
      /\ Parse((b \o <<t>>) \o <<e>>) = ParseStep(Parse(b \o <<t>>), e)
  BY <1>1, ReadNext
<1>3. (b \o <<t>>) \o <<e>> = b \o (<<t>> \o <<e>>)
  <2>1. b \in Seq(Unfreed) /\ <<t>> \in Seq(Unfreed) /\ <<e>> \in Seq(Unfreed)
    OBVIOUS
  <2> QED BY <2>1, ConcatAssociative
<1> QED BY <1>1, <1>2, <1>3

LEMMA FrontOfAppend ==
  ASSUME NEW S, NEW s \in Seq(S), NEW e \in S
  PROVE  /\ Front(Append(s, e)) = s /\ Last(Append(s, e)) = e /\ Append(s, e) # << >>
         /\ Append(s, e) \in Seq(S) /\ Len(Append(s, e)) = Len(s) + 1
<1>1. /\ Append(s, e) \in Seq(S) /\ Len(Append(s, e)) = Len(s) + 1 /\ Len(s) \in Nat
      /\ Append(s, e)[Len(s) + 1] = e /\ \A i \in 1 .. Len(s) : Append(s, e)[i] = s[i]
      /\ Append(s, e) # << >>
  OBVIOUS
<1>2. Front(Append(s, e)) = [i \in 1 .. Len(s) |-> s[i]]
  BY <1>1 DEF Front
<1>3. s = [i \in 1 .. Len(s) |-> s[i]]
  OBVIOUS
<1> QED BY <1>1, <1>2, <1>3 DEF Last

LEMMA MoveIs ==
  ASSUME NEW q \in ParseStates, NEW open \in Seq(Opening), NEW want \in Wants
  PROVE  /\ ParseMove(q, open, want) \in ParseStates
         /\ ParseMove(q, open, want).open = open /\ ParseMove(q, open, want).want = want
         /\ Len(open) <= q.deep => ParseMove(q, open, want).deep = q.deep
         /\ \A d \in Int : (q.deep > 0 => q.deep <= d) /\ Len(open) <= d
              => ParseMove(q, open, want).deep <= d \/ ~ (ParseMove(q, open, want).deep > 0)
<1>1. Len(open) \in Nat /\ q.deep \in Nat
  BY DEF ParseStates
<1> QED BY <1>1, MoveTyped

\* The writer's tokens keep the context apart from the buffer.
Wrote(y, x, b) == y.hard = x.hard /\ y.indent = x.indent /\ y.depth = x.depth /\ y.buf = b

LEMMA OutputUpdates ==
  ASSUME NEW x \in CtxSet
  PROVE  /\ \A e : Wrote(SetError(x, e), x, x.buf)
         /\ \A toks : Wrote(Put(x, toks), x, x.buf \o toks)
         /\ Wrote(AbortDiscard(x), x, x.buf)
         /\ \A fr : /\ Outdent(x, fr).hard = x.hard /\ Outdent(x, fr).depth = x.depth
                    /\ Outdent(x, fr).buf = x.buf
                    /\ Outdent(x, fr).indent = IF Counts(fr) THEN x.indent - 1 ELSE x.indent
         /\ \A fr : /\ OpenBody(x, fr).hard = x.hard /\ OpenBody(x, fr).depth = x.depth
                    /\ OpenBody(x, fr).buf = x.buf
                    /\ OpenBody(x, fr).indent = IF fr.body THEN x.indent ELSE x.indent + 1
         /\ \A kind, body :
              /\ OpenBracket(x, kind, body).hard = x.hard
              /\ OpenBracket(x, kind, body).depth = x.depth
              /\ OpenBracket(x, kind, body).buf = x.buf \o <<Brackets(kind)[1]>>
              /\ OpenBracket(x, kind, body).indent = IF body THEN x.indent + 1 ELSE x.indent
         /\ /\ HardError(x).hard = TRUE /\ HardError(x).indent = x.indent
            /\ HardError(x).buf = Freed
<1>1. \A e : Wrote(SetError(x, e), x, x.buf)
  BY DEF SetError, CtxSet, Wrote
<1>2. \A toks : Wrote(Put(x, toks), x, x.buf \o toks)
  BY DEF Put, CtxSet, Wrote
<1>3. Wrote(AbortDiscard(x), x, x.buf)
  BY DEF AbortDiscard, CtxSet, Wrote
<1>4. \A fr : /\ Outdent(x, fr).hard = x.hard /\ Outdent(x, fr).depth = x.depth
              /\ Outdent(x, fr).buf = x.buf
              /\ Outdent(x, fr).indent = IF Counts(fr) THEN x.indent - 1 ELSE x.indent
  BY DEF Outdent, CtxSet, Counts
<1>5. \A fr : /\ OpenBody(x, fr).hard = x.hard /\ OpenBody(x, fr).depth = x.depth
              /\ OpenBody(x, fr).buf = x.buf
              /\ OpenBody(x, fr).indent = IF fr.body THEN x.indent ELSE x.indent + 1
  BY DEF OpenBody, CtxSet
<1>6. \A kind, body :
        /\ OpenBracket(x, kind, body).hard = x.hard
        /\ OpenBracket(x, kind, body).depth = x.depth
        /\ OpenBracket(x, kind, body).buf = x.buf \o <<Brackets(kind)[1]>>
        /\ OpenBracket(x, kind, body).indent = IF body THEN x.indent + 1 ELSE x.indent
  BY DEF OpenBracket, CtxSet
<1>7. HardError(x).hard = TRUE /\ HardError(x).indent = x.indent /\ HardError(x).buf = Freed
  BY DEF HardError, SetError, CtxSet
<1> QED BY <1>1, <1>2, <1>3, <1>4, <1>5, <1>6, <1>7

\* The same, for a context given by a name.
LEMMA OpenBracketUpdates ==
  ASSUME NEW x \in CtxSet, NEW y, NEW kind, NEW body, y = OpenBracket(x, kind, body)
  PROVE  /\ y.hard = x.hard /\ y.depth = x.depth /\ y.buf = x.buf \o <<Brackets(kind)[1]>>
         /\ y.indent = IF body THEN x.indent + 1 ELSE x.indent
BY DEF OpenBracket, CtxSet

LEMMA NamedUpdates ==
  ASSUME NEW x \in CtxSet, NEW y
  PROVE  /\ \A fr : y = Outdent(x, fr) =>
              /\ y.hard = x.hard /\ y.depth = x.depth /\ y.buf = x.buf
              /\ y.indent = IF Counts(fr) THEN x.indent - 1 ELSE x.indent
         /\ \A fr : y = OpenBody(x, fr) =>
              /\ y.hard = x.hard /\ y.depth = x.depth /\ y.buf = x.buf
              /\ y.indent = IF fr.body THEN x.indent ELSE x.indent + 1
         /\ \A kind, body : y = OpenBracket(x, kind, body) =>
              /\ y.hard = x.hard /\ y.depth = x.depth
              /\ y.buf = x.buf \o <<Brackets(kind)[1]>>
              /\ y.indent = IF body THEN x.indent + 1 ELSE x.indent
<1>1. ASSUME NEW fr, y = Outdent(x, fr)
      PROVE  /\ y.hard = x.hard /\ y.depth = x.depth /\ y.buf = x.buf
             /\ y.indent = IF Counts(fr) THEN x.indent - 1 ELSE x.indent
  BY <1>1 DEF Outdent, CtxSet, Counts
<1>2. ASSUME NEW fr, y = OpenBody(x, fr)
      PROVE  /\ y.hard = x.hard /\ y.depth = x.depth /\ y.buf = x.buf
             /\ y.indent = IF fr.body THEN x.indent ELSE x.indent + 1
  BY <1>2 DEF OpenBody, CtxSet
<1>3. ASSUME NEW kind, NEW body, y = OpenBracket(x, kind, body)
      PROVE  /\ y.hard = x.hard /\ y.depth = x.depth
             /\ y.buf = x.buf \o <<Brackets(kind)[1]>>
             /\ y.indent = IF body THEN x.indent + 1 ELSE x.indent
  BY <1>3, OpenBracketUpdates, Zenon
<1> QED BY <1>1, <1>2, <1>3

\* Facts about a call whose output so far is grammatical.
LEMMA ReadFacts ==
  ASSUME NEW s \in Seq(FrameSet), NEW x \in CtxSet, NEW p, Laid(s, x), ~ x.hard,
         Grammatical(p, s, x)
  PROVE  LET q == Parse(x.buf)
         IN  /\ x.buf \in Seq(Unfreed) /\ x.depth \in Int
             /\ q \in ParseStates /\ q.open = OpenOf(s) /\ q.open \in Seq(Opening)
             /\ Len(q.open) \in Nat /\ Len(q.open) <= q.deep /\ q.want \in Wants
             /\ q.deep \in Nat /\ (q.deep > 0 => q.deep <= x.depth)
             /\ AfterValue(q.open) \in Wants
             /\ Wanted(p, s, q) /\ Unspent(s, x.depth)
             /\ p.pc \in {"visit", "this"} => p.depth + Len(q.open) = x.depth
<1> DEFINE q == Parse(x.buf)
<1>1. x.buf \in Seq(Unfreed)
  BY DEF Laid
<1>2. q \in ParseStates
  BY <1>1, UnfreedSeqs, ParseTyped
<1>3. /\ Reading(s, x) /\ Wanted(p, s, q)
      /\ p.pc \in {"visit", "this"} => p.depth + Len(OpenOf(s)) = x.depth
  BY OutputIs
<1>4. q.open = OpenOf(s) /\ (q.deep > 0 => q.deep <= x.depth) /\ Unspent(s, x.depth)
  BY <1>3 DEF Reading
<1> HIDE DEF q
<1>5. /\ q.open \in Seq(Opening) /\ Len(q.open) \in Nat /\ Len(q.open) <= q.deep
      /\ q.want \in Wants /\ q.deep \in Nat
  BY <1>2 DEF ParseStates
<1>6. x.depth \in Int /\ AfterValue(q.open) \in Wants
  BY DEF CtxSet, AfterValue, Wants
<1> QED BY <1>1, <1>2, <1>3, <1>4, <1>5, <1>6 DEF q

\* What was written leaves the call with grammatical output.
LEMMA WroteOK ==
  ASSUME NEW s, NEW y, NEW r, NEW q, Laid(s, y), q = Parse(y.buf), q.open = OpenOf(s),
         q.deep > 0 => q.deep <= y.depth, Unspent(s, y.depth), Wanted(r, s, q),
         r.pc \in {"visit", "this"} => r.depth + Len(OpenOf(s)) = y.depth
  PROVE  OutputOK(r, s, y)
BY OutputIs DEF Reading

\* The same frames, and other tokens.
LEMMA LaidAgain ==
  ASSUME NEW s, NEW x, NEW y, NEW b, Laid(s, x), Wrote(y, x, b),
         IF x.hard THEN b = Freed ELSE b \in Seq(Unfreed)
  PROVE  Laid(s, y)
BY DEF Laid, Wrote

LEMMA ValueOut ==
  ASSUME NEW s \in Seq(FrameSet), NEW x \in CtxSet, NEW p, Laid(s, x), ~ x.hard,
         Grammatical(p, s, x), p.pc \in {"visit", "this"},
         NEW y, Wrote(y, x, x.buf \o <<"v">>), NEW r, r.pc = "ret"
  PROVE  OutputOK(r, s, y)
<1> DEFINE q == Parse(x.buf)
           m == Parse(y.buf)
<1>1. /\ x.buf \in Seq(Unfreed) /\ q \in ParseStates /\ q.open = OpenOf(s)
      /\ q.open \in Seq(Opening) /\ Len(q.open) <= q.deep
      /\ (q.deep > 0 => q.deep <= x.depth) /\ AfterValue(q.open) \in Wants
      /\ Wanted(p, s, q) /\ Unspent(s, x.depth)
  BY ReadFacts
<1>2. /\ y.hard = x.hard /\ y.depth = x.depth /\ y.buf = x.buf \o <<"v">>
  BY DEF Wrote
<1>3. y.buf \in Seq(Unfreed) /\ m = ParseStep(q, "v")
  <2>1. "v" \in Unfreed
    BY UnfreedSeqs
  <2> QED BY <1>1, <1>2, <2>1, ReadNext
<1> HIDE DEF q, m
<1>4. ValueDue(q)
  BY <1>1 DEF Wanted
<1>5. m = ParseMove(q, q.open, AfterValue(q.open))
  BY <1>1, <1>3, <1>4, ReadsValue
<1>6. m.open = q.open /\ m.want = AfterValue(q.open) /\ m.deep = q.deep
  BY <1>1, <1>5, MoveIs
<1>7. Wanted(r, s, m)
  BY <1>6 DEF Wanted
<1>8. Laid(s, y)
  BY <1>2, <1>3, LaidAgain
<1> QED BY <1>1, <1>2, <1>6, <1>7, <1>8, WroteOK DEF m

\* A bracket opened and closed again, read in one go.
LEMMA ReadsEmpty ==
  ASSUME NEW q \in ParseStates, ValueDue(q), NEW d \in Int, NEW kind,
         q.deep > 0 => q.deep <= d, Len(q.open) < d
  PROVE  LET m == ParseStep(ParseStep(q, Brackets(kind)[1]), Brackets(kind)[2])
         IN  m.open = q.open /\ m.want = AfterValue(q.open) /\ (m.deep > 0 => m.deep <= d)
<1> DEFINE b == Brackets(kind)[1]
           o == Append(q.open, b)
           i == ParseStep(q, b)
           m == ParseStep(i, Brackets(kind)[2])
<1>1. /\ q.open \in Seq(Opening) /\ Len(q.open) \in Nat /\ AfterValue(q.open) \in Wants
      /\ b \in Opening /\ "first" \in Wants
  <2>1. q.open \in Seq(Opening) /\ Len(q.open) \in Nat
    BY DEF ParseStates
  <2>2. AfterValue(q.open) \in Wants /\ "first" \in Wants
    BY DEF AfterValue, Wants
  <2>3. b \in Opening
    BY BracketTypes
  <2> QED BY <2>1, <2>2, <2>3
<1> HIDE DEF b
<1>2. /\ o \in Seq(Opening) /\ o # << >> /\ Last(o) = b /\ Front(o) = q.open
      /\ Len(o) = Len(q.open) + 1
  BY <1>1, FrontOfAppend
<1>3. i = ParseMove(q, o, "first")
  BY <1>1, ReadsValue
<1> HIDE DEF o, i, m
<1>4. i.deep <= d \/ ~ (i.deep > 0)
  <2>1. Len(o) <= d
    BY <1>1, <1>2
  <2> QED BY <1>1, <1>2, <1>3, <2>1, MoveIs
<1>5. i \in ParseStates /\ i.open = o /\ i.want = "first"
  BY <1>1, <1>2, <1>3, MoveIs
<1>6. Enclosing(i) = Brackets(kind)[1]
  BY <1>2, <1>5 DEF Enclosing, b
<1>7. m = ParseMove(i, q.open, AfterValue(q.open))
  <2>1. m = ParseMove(i, Front(i.open), AfterValue(Front(i.open)))
    BY <1>5, <1>6, ReadsClose DEF m
  <2> QED BY <2>1, <1>2, <1>5
<1>8. Len(q.open) <= i.deep
  <2>1. Len(i.open) <= i.deep /\ i.deep \in Nat
    BY <1>5 DEF ParseStates
  <2> QED BY <2>1, <1>1, <1>2, <1>5
<1>9. m.open = q.open /\ m.want = AfterValue(q.open) /\ m.deep = i.deep
  BY <1>1, <1>5, <1>7, <1>8, MoveIs
<1>10. m.deep > 0 => m.deep <= d
  BY <1>4, <1>9
<1> QED BY <1>9, <1>10 DEF m, i, b

LEMMA EmptyOut ==
  ASSUME NEW s \in Seq(FrameSet), NEW x \in CtxSet, NEW p, Laid(s, x), ~ x.hard,
         Grammatical(p, s, x), p.pc \in {"visit", "this"}, p.depth \in Int, p.depth > 0,
         NEW kind, NEW y, Wrote(y, x, x.buf \o (<<Brackets(kind)[1]>> \o <<Brackets(kind)[2]>>)),
         NEW r, r.pc = "ret"
  PROVE  OutputOK(r, s, y)
<1> DEFINE q == Parse(x.buf)
           m == Parse(y.buf)
           a == Brackets(kind)[1]
           b == Brackets(kind)[2]
<1>1. /\ x.buf \in Seq(Unfreed) /\ q \in ParseStates /\ q.open = OpenOf(s) /\ x.depth \in Int
      /\ (q.deep > 0 => q.deep <= x.depth) /\ Len(q.open) \in Nat
      /\ Wanted(p, s, q) /\ Unspent(s, x.depth)
      /\ p.depth + Len(q.open) = x.depth
  BY ReadFacts
<1>2. /\ y.hard = x.hard /\ y.depth = x.depth /\ y.buf = x.buf \o (<<a>> \o <<b>>)
  BY DEF Wrote
<1>3. a \in Unfreed /\ b \in Unfreed
  BY BracketTypes DEF Unfreed
<1> HIDE DEF a, b
<1>4. y.buf \in Seq(Unfreed) /\ m = ParseStep(ParseStep(q, a), b)
  BY <1>1, <1>2, <1>3, ReadTwo
<1> HIDE DEF q, m
<1>5. ValueDue(q) /\ Len(q.open) < x.depth
  <2>1. ValueDue(q)
    BY <1>1 DEF Wanted
  <2>2. Len(q.open) < x.depth
    BY <1>1
  <2> QED BY <2>1, <2>2
<1>6. m.open = q.open /\ m.want = AfterValue(q.open) /\ (m.deep > 0 => m.deep <= x.depth)
  BY <1>1, <1>4, <1>5, ReadsEmpty DEF a, b
<1>7. Wanted(r, s, m)
  BY <1>6 DEF Wanted
<1>8. Laid(s, y)
  BY <1>2, <1>4, LaidAgain DEF Wrote
<1> QED BY <1>1, <1>2, <1>6, <1>7, <1>8, WroteOK DEF m

\* Frames pushed, popped and replaced under a text that says so.
LEMMA LaidPush ==
  ASSUME NEW s \in Seq(FrameSet), NEW fr \in FrameSet, NEW x, NEW y, Laid(s, x),
         IF y.hard THEN y.buf = Freed ELSE y.buf \in Seq(Unfreed),
         x.indent \in Int, y.indent = IF Counts(fr) THEN x.indent + 1 ELSE x.indent,
         fr.kind = "json" => ~ fr.body
  PROVE  Laid(Append(s, fr), y)
<1>1. OpenBodies(Append(s, fr)) = OpenBodies(s) + (IF Counts(fr) THEN 1 ELSE 0)
  BY BodiesPush
<1>2. x.indent = OpenBodies(s) /\ Bodiless(s)
  BY DEF Laid
<1>3. y.indent = OpenBodies(Append(s, fr))
  BY <1>1, <1>2
<1>4. Bodiless(Append(s, fr))
  BY <1>2, PushParts
<1> QED BY <1>3, <1>4 DEF Laid

LEMMA LaidPop ==
  ASSUME NEW s \in Seq(FrameSet), s # << >>, NEW x, NEW y, Laid(s, x),
         IF y.hard THEN y.buf = Freed ELSE y.buf \in Seq(Unfreed),
         x.indent \in Int, y.indent = IF Counts(Last(s)) THEN x.indent - 1 ELSE x.indent
  PROVE  Laid(Front(s), y)
<1>1. OpenBodies(s) = OpenBodies(Front(s)) + (IF Counts(Last(s)) THEN 1 ELSE 0)
  BY BodiesPop
<1>2. x.indent = OpenBodies(s) /\ Bodiless(s)
  BY DEF Laid
<1>3. OpenBodies(Front(s)) \in Nat
  BY FrontIs, BodiesTyped
<1>4. y.indent = OpenBodies(Front(s))
  BY <1>1, <1>2, <1>3
<1>5. Bodiless(Front(s))
  BY <1>2, PopParts
<1> QED BY <1>4, <1>5 DEF Laid

LEMMA LaidReplace ==
  ASSUME NEW s \in Seq(FrameSet), s # << >>, NEW fr \in FrameSet,
         fr.kind = Last(s).kind, fr.depth = Last(s).depth, fr.kind = "json" => ~ fr.body,
         NEW x, NEW y, Laid(s, x),
         IF y.hard THEN y.buf = Freed ELSE y.buf \in Seq(Unfreed),
         x.indent \in Int,
         y.indent = x.indent + (IF Counts(fr) THEN 1 ELSE 0) - (IF Counts(Last(s)) THEN 1 ELSE 0)
  PROVE  Laid([s EXCEPT ![Len(s)] = fr], y)
<1>1. OpenBodies(s) = OpenBodies(Front(s)) + (IF Counts(Last(s)) THEN 1 ELSE 0)
  BY BodiesPop
<1>2. OpenBodies([s EXCEPT ![Len(s)] = fr])
        = OpenBodies(Front(s)) + (IF Counts(fr) THEN 1 ELSE 0)
  BY BodiesReplace
<1>3. x.indent = OpenBodies(s) /\ Bodiless(s)
  BY DEF Laid
<1>4. OpenBodies(Front(s)) \in Nat
  BY FrontIs, BodiesTyped
<1>5. y.indent = OpenBodies([s EXCEPT ![Len(s)] = fr])
  BY <1>1, <1>2, <1>3, <1>4
<1>6. Bodiless([s EXCEPT ![Len(s)] = fr])
  BY <1>3, ReplaceParts
<1> QED BY <1>5, <1>6 DEF Laid

\* A container begins.
LEMMA BeginOut ==
  ASSUME NEW s \in Seq(FrameSet), NEW x \in CtxSet, NEW p, Laid(s, x), ~ x.hard,
         Grammatical(p, s, x), p.pc \in {"visit", "this"}, p.depth \in Int, p.depth > 0,
         NEW fr \in FrameSet, fr.kind # "json", fr.depth = p.depth - 1, fr.first,
         fr.mode = "emit",
         NEW y, ~ y.hard, y.depth = x.depth, y.buf = x.buf \o <<Brackets(fr.kind)[1]>>,
         y.indent = IF fr.body THEN x.indent + 1 ELSE x.indent,
         NEW r, r.pc = "next"
  PROVE  OutputOK(r, Append(s, fr), y)
<1> DEFINE q == Parse(x.buf)
           m == Parse(y.buf)
           b == Brackets(fr.kind)[1]
           u == Append(s, fr)
           o == Append(q.open, b)
<1>1. /\ x.buf \in Seq(Unfreed) /\ q \in ParseStates /\ q.open = OpenOf(s) /\ x.depth \in Int
      /\ (q.deep > 0 => q.deep <= x.depth) /\ Len(q.open) \in Nat /\ q.open \in Seq(Opening)
      /\ Wanted(p, s, q) /\ Unspent(s, x.depth)
      /\ p.depth + Len(q.open) = x.depth
  BY ReadFacts
<1>2. b \in Unfreed /\ b \in Opening /\ "first" \in Wants
  BY BracketTypes DEF Unfreed, Wants
<1> HIDE DEF b, q, m
<1>3. y.buf \in Seq(Unfreed) /\ m = ParseStep(q, b)
  BY <1>1, <1>2, ReadNext DEF q, m, b
<1>4. o \in Seq(Opening) /\ Len(o) = Len(q.open) + 1
  BY <1>1, <1>2, FrontOfAppend
<1>5. OpenOf(u) = o
  BY <1>1, OpenOfPush DEF Pushed, b
<1>6. m = ParseMove(q, o, "first")
  <2>1. ValueDue(q)
    BY <1>1 DEF Wanted
  <2> QED BY <1>1, <1>2, <1>3, <2>1, ReadsValue
<1> HIDE DEF o
<1>7. Len(o) <= x.depth /\ fr.depth + Len(o) = x.depth /\ fr.depth >= 0
  <2>1. /\ p.depth + Len(q.open) = x.depth /\ Len(q.open) \in Nat /\ Len(o) = Len(q.open) + 1
        /\ x.depth \in Int
    BY <1>1, <1>4
  <2>2. Len(o) <= x.depth
    BY <2>1
  <2>3. fr.depth + Len(o) = x.depth
    <3>1. PICK n \in Int : n = p.depth
      OBVIOUS
    <3>2. fr.depth = n - 1 /\ n + Len(q.open) = x.depth
      BY <2>1, <3>1
    <3>3. (n - 1) + (Len(q.open) + 1) = n + Len(q.open)
      BY <2>1
    <3> QED BY <2>1, <3>2, <3>3
  <2> QED BY <2>2, <2>3
<1>8. /\ m.open = o /\ m.want = "first"
      /\ m.deep <= x.depth \/ ~ (m.deep > 0)
  BY <1>1, <1>2, <1>4, <1>6, <1>7, MoveIs
<1>9. Unspent(u, x.depth)
  <2>1. Pushed(OpenOf(s), fr.kind) = o
    BY <1>5, OpenOfPush
  <2> QED BY <1>1, <1>7, <2>1, PushParts
<1>10. u # << >> /\ Last(u) = fr
  BY AppendFacts
<1>11. Laid(u, y)
  <2>1. x.indent \in Int
    BY DEF CtxSet
  <2>2. Counts(fr) <=> fr.body
    BY DEF Counts
  <2> QED BY <1>3, <2>1, <2>2, LaidPush
<1> HIDE DEF u
<1>12. Wanted(r, u, m)
  BY <1>8, <1>10 DEF Wanted, AtItem
<1>13. m.deep > 0 => m.deep <= y.depth
  BY <1>8
<1> QED BY <1>5, <1>8, <1>9, <1>11, <1>12, <1>13, WroteOK DEF m, u

\* A container begins while a doomed result is searched.
LEMMA BeginQuiet ==
  ASSUME NEW s \in Seq(FrameSet), NEW x \in CtxSet, Laid(s, x), x.hard,
         NEW fr \in FrameSet, fr.kind # "json", fr.mode = "discard", NEW r
  PROVE  OutputOK(r, Append(s, fr), x)
<1>1. ~ Counts(fr) /\ x.indent \in Int
  BY DEF Counts, CtxSet
<1>2. Laid(Append(s, fr), x)
  BY <1>1, LaidPush DEF Laid
<1> QED BY <1>2, OutputIs

\* A serializer is called.
LEMMA SerializerOut ==
  ASSUME NEW s \in Seq(FrameSet), NEW x \in CtxSet, NEW p, Laid(s, x), ~ x.hard,
         Grammatical(p, s, x), p.pc \in {"visit", "this"},
         NEW fr \in FrameSet, fr.kind = "json", fr.depth = p.depth, ~ fr.body,
         NEW r, r.pc = "callback"
  PROVE  OutputOK(r, Append(s, fr), x)
<1> DEFINE q == Parse(x.buf)
           u == Append(s, fr)
<1>1. /\ x.buf \in Seq(Unfreed) /\ q.open = OpenOf(s)
      /\ (q.deep > 0 => q.deep <= x.depth)
      /\ Wanted(p, s, q) /\ Unspent(s, x.depth)
      /\ p.depth + Len(q.open) = x.depth
  BY ReadFacts
<1>2. OpenOf(u) = q.open /\ Pushed(OpenOf(s), fr.kind) = q.open
  BY <1>1, OpenOfPush DEF Pushed
<1>3. Unspent(u, x.depth)
  BY <1>1, <1>2, PushParts
<1>4. u # << >> /\ Last(u) = fr
  BY AppendFacts
<1>5. Laid(u, x)
  <2>1. x.indent \in Int /\ ~ Counts(fr)
    BY DEF CtxSet, Counts
  <2> QED BY <1>1, <2>1, LaidPush
<1> HIDE DEF u, q
<1>6. Wanted(r, u, q)
  BY <1>1, <1>4 DEF Wanted, AtItem
<1> QED BY <1>1, <1>2, <1>3, <1>5, <1>6, WroteOK DEF u, q

LEMMA ValueIsDue == \A q : q.want = "val" => ValueDue(q)
BY Zenon DEF ValueDue

\* Separator and key, then a value is due.
KeyTokens(fr) == Comma(fr) \o (IF fr.kind = "list" THEN << >> ELSE <<"k">>)
AtKey(fr) == IF fr.first THEN "first" ELSE "sep"

LEMMA ReadsItem ==
  ASSUME NEW b \in Seq(Unfreed), NEW q \in ParseStates, q = Parse(b), NEW fr,
         Enclosing(q) = Brackets(fr.kind)[1],
         q.want = AtKey(fr), NEW u, u = b \o KeyTokens(fr)
  PROVE  /\ u \in Seq(Unfreed) /\ ValueDue(Parse(u))
         /\ Parse(u).open = q.open /\ Parse(u).deep = q.deep
<1>1. PICK c \in Unfreed : c = ","
  BY UnfreedSeqs, Zenon
<1>2. PICK k \in Unfreed : k = "k"
  BY UnfreedSeqs, Zenon
<1>3. /\ fr.kind = "list" /\ fr.first => u = b \o (<< >> \o << >>)
      /\ fr.kind = "list" /\ ~ fr.first => u = b \o (<<c>> \o << >>)
      /\ fr.kind # "list" /\ fr.first => u = b \o (<< >> \o <<k>>)
      /\ fr.kind # "list" /\ ~ fr.first => u = b \o (<<c>> \o <<k>>)
  BY <1>1, <1>2, Zenon DEF Comma, KeyTokens
<1>4. ASSUME NEW want \in Wants
      PROVE  /\ ParseMove(q, q.open, want) \in ParseStates
             /\ ParseMove(q, q.open, want).open = q.open
             /\ ParseMove(q, q.open, want).want = want
             /\ ParseMove(q, q.open, want).deep = q.deep
  BY MoveIs DEF ParseStates
<1>5. "val" \in Wants /\ "key" \in Wants
  BY DEF Wants
<1>6. Enclosing(q) \in Opening
  BY BracketTypes
<1>7. /\ fr.kind = "list" => Enclosing(q) = "["
      /\ fr.kind # "list" => Enclosing(q) = "{"
  BY DEF Brackets
<1>8. CASE fr.kind = "list" /\ fr.first
  <2>1. u = b
    BY <1>3, <1>8, UnfreedSeqs
  <2>2. ValueDue(q)
    BY <1>7, <1>8, Zenon DEF ValueDue, AtKey
  <2> QED BY <2>1, <2>2
<1>9. CASE fr.kind = "list" /\ ~ fr.first
  <2>1. ParseStep(q, c) = ParseMove(q, q.open, "val")
    BY <1>1, <1>6, <1>7, <1>9, ReadsComma DEF AtKey
  <2> HIDE <1>1, <1>2
  <2>2. u = b \o <<c>>
    BY <1>3, <1>9
  <2>3. u \in Seq(Unfreed) /\ Parse(u) = ParseMove(q, q.open, "val")
    BY <2>1, <2>2, ReadNext
  <2> QED BY <1>4, <1>5, <2>3, ValueIsDue
<1>10. CASE fr.kind # "list" /\ fr.first
  <2>1. ParseStep(q, k) = ParseMove(q, q.open, "val")
    BY <1>2, <1>7, <1>10, ReadsKey DEF AtKey
  <2> HIDE <1>1, <1>2
  <2>2. u = b \o <<k>>
    BY <1>3, <1>10
  <2>3. u \in Seq(Unfreed) /\ Parse(u) = ParseMove(q, q.open, "val")
    BY <2>1, <2>2, ReadNext
  <2> QED BY <1>4, <1>5, <2>3, ValueIsDue
<1>11. CASE fr.kind # "list" /\ ~ fr.first
  <2> DEFINE m == ParseMove(q, q.open, "key")
  <2>1. ParseStep(q, c) = m
    BY <1>1, <1>6, <1>7, <1>11, ReadsComma DEF AtKey
  <2>2. m \in ParseStates /\ m.open = q.open /\ m.want = "key" /\ m.deep = q.deep
    BY <1>4, <1>5
  <2> HIDE DEF m
  <2>3. Enclosing(m) = Enclosing(q)
    BY <2>2 DEF Enclosing
  <2>4. ParseStep(m, k) = ParseMove(m, m.open, "val")
    BY <1>2, <1>7, <1>11, <2>2, <2>3, ReadsKey
  <2>5. /\ ParseMove(m, m.open, "val").open = m.open
        /\ ParseMove(m, m.open, "val").want = "val"
        /\ ParseMove(m, m.open, "val").deep = m.deep
    BY <1>5, <2>2, MoveIs DEF ParseStates
  <2> HIDE <1>1, <1>2
  <2>6. u \in Seq(Unfreed) /\ Parse(u) = ParseStep(ParseStep(q, c), k)
    <3>1. u = b \o (<<c>> \o <<k>>)
      BY <1>3, <1>11
    <3>2. /\ b \o (<<c>> \o <<k>>) \in Seq(Unfreed)
          /\ Parse(b \o (<<c>> \o <<k>>)) = ParseStep(ParseStep(Parse(b), c), k)
      BY ReadTwo, Zenon
    <3> QED BY <3>1, <3>2, Zenon
  <2> QED BY <2>1, <2>2, <2>4, <2>5, <2>6, ValueIsDue
<1> QED BY <1>8, <1>9, <1>10, <1>11

\* The text of a call in the midst of a container ends inside its brackets.
LEMMA InBrackets ==
  ASSUME NEW s \in Seq(FrameSet), AtItem(s), NEW q, q.open = OpenOf(s)
  PROVE  /\ Enclosing(q) = Brackets(Last(s).kind)[1] /\ q.open # << >>
         /\ Front(q.open) = OpenOf(Front(s)) /\ AfterValue(q.open) = "sep"
<1>1. /\ s # << >> /\ Last(s).kind # "json"
      /\ OpenOf(s) = Pushed(OpenOf(Front(s)), Last(s).kind)
  BY OpenOfPop DEF AtItem
<1>2. OpenOf(Front(s)) \in Seq(Opening) /\ Brackets(Last(s).kind)[1] \in Opening
  BY <1>1, FrontIs, OpenOfTyped, BracketTypes
<1>3. q.open = Append(OpenOf(Front(s)), Brackets(Last(s).kind)[1])
  BY <1>1 DEF Pushed
<1>4. /\ Front(q.open) = OpenOf(Front(s)) /\ Last(q.open) = Brackets(Last(s).kind)[1]
      /\ q.open # << >>
  BY <1>2, <1>3, FrontOfAppend
<1> QED BY <1>4 DEF Enclosing, AfterValue

\* A key, or the separator alone before a value of a list.
LEMMA KeyOut ==
  ASSUME NEW s \in Seq(FrameSet), NEW x \in CtxSet, NEW p, Laid(s, x), ~ x.hard,
         Grammatical(p, s, x), p.pc \in {"next", "callback"}, AtItem(s), Last(s).mode = "emit",
         NEW fr \in FrameSet, fr = [Last(s) EXCEPT !.body = TRUE],
         NEW y, ~ y.hard, y.depth = x.depth,
         y.buf = x.buf \o KeyTokens(Last(s)),
         y.indent = IF Last(s).body THEN x.indent ELSE x.indent + 1,
         NEW r, r.pc = "visit", r.depth = Last(s).depth
  PROVE  OutputOK(r, [s EXCEPT ![Len(s)] = fr], y)
<1> DEFINE q == Parse(x.buf)
           m == Parse(y.buf)
           u == [s EXCEPT ![Len(s)] = fr]
           e == Last(s)
<1>1. /\ x.buf \in Seq(Unfreed) /\ q \in ParseStates /\ q.open = OpenOf(s)
      /\ (q.deep > 0 => q.deep <= x.depth)
      /\ Wanted(p, s, q) /\ Unspent(s, x.depth)
  BY ReadFacts
<1>2. s # << >> /\ e \in FrameSet /\ e.kind # "json" /\ e = s[Len(s)] /\ Len(s) \in Nat \ {0}
  BY FrontIs DEF AtItem
<1>3. /\ fr.kind = e.kind /\ fr.depth = e.depth /\ fr.mode = "emit" /\ fr.body
      /\ fr.first = e.first
  BY <1>2 DEF FrameSet
<1> HIDE DEF q
<1>4. q.want = AtKey(e)
  BY <1>1 DEF Wanted, AtKey
<1>5. Enclosing(q) = Brackets(e.kind)[1]
  BY <1>1, InBrackets
<1>6. /\ y.buf \in Seq(Unfreed) /\ ValueDue(m) /\ m.open = q.open /\ m.deep = q.deep
  <2> DEFINE b == x.buf
             w == y.buf
  <2>1. w = b \o KeyTokens(e) /\ q = Parse(b) /\ b \in Seq(Unfreed)
    BY <1>1 DEF q
  <2> HIDE DEF e, b, w
  <2>2. w \in Seq(Unfreed) /\ ValueDue(Parse(w)) /\ Parse(w).open = q.open
        /\ Parse(w).deep = q.deep
    BY <1>1, <1>4, <1>5, <2>1, ReadsItem
  <2> QED BY <2>2 DEF w
<1> HIDE DEF m
<1>7. OpenOf(u) = OpenOf(s) /\ Unspent(u, x.depth)
  <2>1. OpenOf(u) = OpenOf(s)
    BY <1>2, <1>3, OpenOfReplace
  <2>2. Unspent(u, x.depth)
    BY <1>1, <1>2, <1>3, ReplaceParts
  <2> QED BY <2>1, <2>2
<1>8. Laid(u, y)
  <2>1. x.indent \in Int
    BY DEF CtxSet
  <2>2. Counts(fr) /\ (Counts(e) <=> e.body)
    BY <1>3 DEF Counts
  <2>3. y.indent = x.indent + (IF Counts(fr) THEN 1 ELSE 0) - (IF Counts(e) THEN 1 ELSE 0)
    BY <2>1, <2>2
  <2>4. IF y.hard THEN y.buf = Freed ELSE y.buf \in Seq(Unfreed)
    BY <1>6
  <2>5. fr.kind = "json" => ~ fr.body
    BY <1>2, <1>3
  <2> QED BY <1>2, <1>3, <2>1, <2>3, <2>4, <2>5, LaidReplace
<1> HIDE DEF u
<1>9. r.depth + Len(OpenOf(u)) = y.depth
  <2>1. Len(s) \in 1 .. Len(s)
    BY <1>2
  <2>2. e.depth + Len(OpenOf(s)) = x.depth
    BY <1>1, <1>2, <2>1 DEF Unspent, OpenOf
  <2> QED BY <1>7, <2>2
<1>10. Wanted(r, u, m)
  BY <1>6 DEF Wanted
<1> QED BY <1>1, <1>6, <1>7, <1>8, <1>9, <1>10, WroteOK DEF m, u

\* A container ends.
LEMMA CloseOut ==
  ASSUME NEW s \in Seq(FrameSet), NEW x \in CtxSet, NEW p, Laid(s, x), ~ x.hard,
         Grammatical(p, s, x), p.pc = "next", AtItem(s),
         NEW y, ~ y.hard, y.depth = x.depth, y.buf = x.buf \o <<Brackets(Last(s).kind)[2]>>,
         y.indent = IF Counts(Last(s)) THEN x.indent - 1 ELSE x.indent,
         NEW r, r.pc = "ret"
  PROVE  OutputOK(r, Front(s), y)
<1> DEFINE q == Parse(x.buf)
           m == Parse(y.buf)
           o == Front(q.open)
           e == Last(s)
           b == Brackets(e.kind)[2]
<1>1. /\ x.buf \in Seq(Unfreed) /\ q \in ParseStates /\ q.open = OpenOf(s)
      /\ q.open \in Seq(Opening) /\ Len(q.open) \in Nat /\ q.deep \in Nat
      /\ Len(q.open) <= q.deep /\ (q.deep > 0 => q.deep <= x.depth)
      /\ Wanted(p, s, q) /\ Unspent(s, x.depth)
  BY ReadFacts
<1>2. s # << >>
  BY DEF AtItem
<1>3. Enclosing(q) = Brackets(e.kind)[1] /\ q.open # << >> /\ o = OpenOf(Front(s))
  BY <1>1, InBrackets
<1>4. b \in Unfreed
  BY BracketTypes DEF Unfreed
<1> HIDE DEF b, q, m
<1>5. y.buf \in Seq(Unfreed) /\ m = ParseStep(q, b)
  BY <1>1, <1>4, ReadNext DEF q, m, b
<1>6. m = ParseMove(q, o, AfterValue(o))
  <2>1. q.want \in {"first", "sep"}
    BY <1>1 DEF Wanted
  <2> QED BY <1>1, <1>3, <1>5, <2>1, ReadsClose DEF b
<1>7. o \in Seq(Opening) /\ Len(o) <= q.deep /\ AfterValue(o) \in Wants
  <2>1. o \in Seq(Opening) /\ Len(o) = Len(q.open) - 1
    BY <1>1, <1>3, FrontIs
  <2>2. AfterValue(o) \in Wants
    BY DEF AfterValue, Wants
  <2> HIDE DEF o
  <2>3. Len(o) <= q.deep
    BY <1>1, <2>1
  <2> QED BY <2>1, <2>2, <2>3
<1> HIDE DEF o
<1>8. m.open = o /\ m.want = AfterValue(o) /\ m.deep = q.deep
  BY <1>1, <1>6, <1>7, MoveIs
<1>9. Unspent(Front(s), y.depth)
  BY <1>1, <1>2, PopParts
<1>10. Laid(Front(s), y)
  <2>1. x.indent \in Int
    BY DEF CtxSet
  <2> QED BY <1>2, <1>5, <2>1, LaidPop
<1>11. Wanted(r, Front(s), m)
  BY <1>8 DEF Wanted
<1> QED BY <1>1, <1>3, <1>8, <1>9, <1>10, <1>11, WroteOK DEF m

\* A serializer's frame is left with the text as it is.
LEMMA SerializerDone ==
  ASSUME NEW s \in Seq(FrameSet), NEW x \in CtxSet, NEW p, Laid(s, x), ~ x.hard,
         s # << >>, Last(s).kind = "json", Grammatical(p, s, x),
         NEW r, \/ p.pc = "ret" /\ r.pc = "ret"
                \/ p.pc = "callback" /\ r.pc = "this" /\ r.depth = Last(s).depth
  PROVE  OutputOK(r, Front(s), x)
<1> DEFINE q == Parse(x.buf)
           u == Front(s)
<1>1. /\ x.buf \in Seq(Unfreed) /\ q.open = OpenOf(s) /\ (q.deep > 0 => q.deep <= x.depth)
      /\ Wanted(p, s, q) /\ Unspent(s, x.depth)
  BY ReadFacts
<1>2. OpenOf(u) = q.open
  BY <1>1, OpenOfPop DEF Pushed
<1>3. Unspent(u, x.depth)
  BY <1>1, PopParts
<1>4. /\ Len(s) \in Nat \ {0} /\ Last(s) = s[Len(s)]
  BY FrontIs
<1>5. ~ Counts(Last(s)) /\ Last(s).depth + Len(OpenOf(s)) = x.depth
  <2>1. Len(s) \in 1 .. Len(s)
    BY <1>4
  <2>2. ~ Last(s).body
    BY <1>4, <2>1 DEF Laid, Bodiless
  <2>3. Last(s).depth + Len(OpenOf(s)) = x.depth
    BY <1>1, <1>4, <2>1 DEF Unspent, OpenOf
  <2> QED BY <2>2, <2>3 DEF Counts
<1>6. Laid(u, x)
  <2>1. x.indent \in Int
    BY DEF CtxSet
  <2> QED BY <1>1, <1>5, <2>1, LaidPop
<1> HIDE DEF u, q
<1>7. Wanted(r, u, q)
  BY <1>1 DEF Wanted, AtItem
<1>8. r.pc \in {"visit", "this"} => r.depth + Len(OpenOf(u)) = x.depth
  BY <1>1, <1>2, <1>5
<1> QED BY <1>1, <1>2, <1>3, <1>6, <1>7, <1>8, WroteOK DEF q, u

\* A serializer's result is visited.
LEMMA SerializerValue ==
  ASSUME NEW s \in Seq(FrameSet), NEW x \in CtxSet, NEW p, Laid(s, x), ~ x.hard,
         s # << >>, Last(s).kind = "json", Grammatical(p, s, x), p.pc = "callback",
         NEW r, r.pc = "visit", r.depth = Last(s).depth
  PROVE  OutputOK(r, s, x)
<1> DEFINE q == Parse(x.buf)
<1>1. /\ q.open = OpenOf(s) /\ (q.deep > 0 => q.deep <= x.depth)
      /\ Wanted(p, s, q) /\ Unspent(s, x.depth)
  BY ReadFacts
<1>2. Len(s) \in Nat \ {0} /\ Last(s) = s[Len(s)] /\ Len(s) \in 1 .. Len(s)
  <2>1. Len(s) \in Nat \ {0} /\ Last(s) = s[Len(s)]
    BY FrontIs
  <2> QED BY <2>1
<1>3. Last(s).depth + Len(OpenOf(s)) = x.depth
  BY <1>1, <1>2 DEF Unspent, OpenOf
<1> HIDE DEF q
<1>4. Wanted(r, s, q)
  BY <1>1 DEF Wanted, AtItem
<1> QED BY <1>1, <1>3, <1>4, WroteOK DEF q

\* The top frame moves on, after an item or past one that is not emitted.
LEMMA MoveOnOut ==
  ASSUME NEW s \in Seq(FrameSet), NEW x \in CtxSet, NEW p, Laid(s, x), ~ x.hard, AtItem(s),
         Grammatical(p, s, x),
         NEW fr \in FrameSet, fr.kind = Last(s).kind, fr.depth = Last(s).depth,
         fr.mode = Last(s).mode, fr.body = Last(s).body,
         \/ p.pc \in {"next", "callback"} /\ fr.first = Last(s).first
         \/ p.pc = "ret" /\ ~ fr.first,
         NEW r, r.pc = "next"
  PROVE  OutputOK(r, [s EXCEPT ![Len(s)] = fr], x)
<1> DEFINE q == Parse(x.buf)
           u == [s EXCEPT ![Len(s)] = fr]
           e == Last(s)
<1>1. /\ x.buf \in Seq(Unfreed) /\ q.open = OpenOf(s) /\ (q.deep > 0 => q.deep <= x.depth)
      /\ Wanted(p, s, q) /\ Unspent(s, x.depth)
  BY ReadFacts
<1>2. s # << >> /\ fr.kind # "json"
  BY DEF AtItem
<1>3. AfterValue(q.open) = "sep"
  BY <1>1, InBrackets
<1>4. u # << >> /\ Last(u) = fr
  BY <1>2, ReplaceIs
<1>5. OpenOf(u) = OpenOf(s)
  BY <1>2, OpenOfReplace
<1>6. Unspent(u, x.depth)
  BY <1>1, <1>2, ReplaceParts
<1>7. Laid(u, x)
  <2>1. x.indent \in Int /\ (Counts(fr) <=> Counts(e))
    BY DEF CtxSet, Counts
  <2>2. x.indent = x.indent + (IF Counts(fr) THEN 1 ELSE 0) - (IF Counts(e) THEN 1 ELSE 0)
    BY <2>1
  <2> QED BY <1>1, <1>2, <2>1, <2>2, LaidReplace
<1> HIDE DEF u, q
<1>8. Wanted(r, u, q)
  BY <1>1, <1>2, <1>3, <1>4 DEF Wanted, AtItem
<1> QED BY <1>1, <1>5, <1>6, <1>7, <1>8, WroteOK DEF q, u

\* A doomed result: frames change, the freed buffer does not.
LEMMA ReplaceQuiet ==
  ASSUME NEW s \in Seq(FrameSet), NEW x \in CtxSet, Laid(s, x), x.hard, AtItem(s),
         NEW fr \in FrameSet, fr.kind = Last(s).kind, fr.depth = Last(s).depth,
         (fr.mode = "discard") <=> (Last(s).mode = "discard"), fr.body = Last(s).body, NEW r
  PROVE  OutputOK(r, [s EXCEPT ![Len(s)] = fr], x)
<1> DEFINE e == Last(s)
<1>1. s # << >> /\ fr.kind # "json" /\ x.buf = Freed
  BY DEF AtItem, Laid
<1>2. x.indent \in Int /\ (Counts(fr) <=> Counts(e))
  BY DEF CtxSet, Counts
<1>3. x.indent = x.indent + (IF Counts(fr) THEN 1 ELSE 0) - (IF Counts(e) THEN 1 ELSE 0)
  BY <1>2
<1>4. Laid([s EXCEPT ![Len(s)] = fr], x)
  BY <1>1, <1>2, <1>3, LaidReplace
<1> QED BY <1>4, OutputIs

\* A frame is left with an error, or from a doomed result.
LEMMA LeaveQuiet ==
  ASSUME NEW s \in Seq(FrameSet), s # << >>, NEW x \in CtxSet, Laid(s, x),
         NEW y, y.hard = x.hard, y.buf = x.buf,
         y.indent = IF Counts(Last(s)) THEN x.indent - 1 ELSE x.indent,
         NEW r, Fails(r) \/ x.hard
  PROVE  OutputOK(r, Front(s), y)
<1>1. Laid(Front(s), y)
  <2>1. x.indent \in Int
    BY DEF CtxSet
  <2>2. IF y.hard THEN y.buf = Freed ELSE y.buf \in Seq(Unfreed)
    BY DEF Laid
  <2> QED BY <2>1, <2>2, LaidPop
<1> QED BY <1>1, OutputIs

\* The frames stay, and the call fails or its result is lost already.
LEMMA StayQuiet ==
  ASSUME NEW s, NEW x, Laid(s, x), NEW y, Wrote(y, x, x.buf), NEW r, Fails(r) \/ x.hard
  PROVE  OutputOK(r, s, y)
<1>1. IF x.hard THEN x.buf = Freed ELSE x.buf \in Seq(Unfreed)
  BY DEF Laid
<1>2. Laid(s, y) /\ y.hard = x.hard
  BY <1>1, LaidAgain DEF Wrote
<1> QED BY <1>2, OutputIs

\* PHP code is called for an item, and the text waits.
LEMMA HookOut ==
  ASSUME NEW s, NEW x, NEW p, Laid(s, x), Grammatical(p, s, x), p.pc = "next",
         NEW r, r.pc = "callback"
  PROVE  OutputOK(r, s, x)
<1>1. Reading(s, x) /\ Wanted(p, s, Parse(x.buf))
  BY OutputIs
<1>2. Wanted(r, s, Parse(x.buf))
  BY <1>1 DEF Wanted
<1>3. Grammatical(r, s, x)
  BY <1>1, <1>2, OutputIs
<1> QED BY <1>3, OutputIs

-----------------------------------------------------------------------------
(* One step of one call. *)

OutputKept == \A b \in Calls : OutputOK(at'[b], frames'[b], ctx'[b])

LEMMA StepOutput ==
  ASSUME OutputInv, NEW c \in Calls, NEW p, NEW s, NEW x,
         at' = [at EXCEPT ![c] = p], frames' = [frames EXCEPT ![c] = s],
         ctx' = [ctx EXCEPT ![c] = x], OutputOK(p, s, x)
  PROVE  OutputKept
<1>1. at'[c] = p /\ frames'[c] = s /\ ctx'[c] = x
  BY DEF OutputInv, WriterInv, Typed
<1>2. \A b \in Calls : b # c => at'[b] = at[b] /\ frames'[b] = frames[b] /\ ctx'[b] = ctx[b]
  BY DEF OutputInv, WriterInv, Typed
<1>3. \A b \in Calls : OutputOK(at[b], frames[b], ctx[b])
  BY DEF OutputInv
<1> QED BY <1>1, <1>2, <1>3, Zenon DEF OutputKept

\* A call and what it has written so far.
LEMMA CallFacts ==
  ASSUME OutputInv, NEW c \in Calls
  PROVE  /\ WriterInv /\ ctx[c] \in CtxSet /\ frames[c] \in Seq(FrameSet)
         /\ Laid(frames[c], ctx[c])
         /\ at[c].pc # "idle" /\ ~ ctx[c].hard /\ ~ Fails(at[c])
              => Grammatical(at[c], frames[c], ctx[c])
<1>1. WriterInv /\ OutputOK(at[c], frames[c], ctx[c])
  BY DEF OutputInv
<1>2. ctx[c] \in CtxSet /\ frames[c] \in Seq(FrameSet)
  BY <1>1 DEF WriterInv, Typed
<1> QED BY <1>1, <1>2, OutputIs

LEMMA VisitFacts ==
  ASSUME OutputInv, NEW c \in Calls, at[c].pc \in {"visit", "this"}
  PROVE  /\ WriterInv /\ ~ Fails(at[c]) /\ ctx[c] \in CtxSet /\ frames[c] \in Seq(FrameSet)
         /\ Laid(frames[c], ctx[c]) /\ at[c].depth \in Int
         /\ ctx[c].hard \in BOOLEAN /\ ctx[c].partial \in BOOLEAN
         /\ ~ ctx[c].hard => Grammatical(at[c], frames[c], ctx[c])
         /\ ctx[c].hard => ~ ctx[c].partial
         /\ ctx[c].hard <=> Discarding(c)
<1>1. ~ Fails(at[c]) /\ at[c].pc # "idle"
  BY DEF Fails
<1>2. WriterInv
  BY DEF OutputInv
<1>3. at[c].depth \in Int
  <2>1. at[c] \in Points
    BY <1>2 DEF WriterInv, Typed
  <2>2. \/ \E w \in Values, e \in Int : at[c] = Visit(w, e)
        \/ \E w \in Nodes, e \in Int : at[c] = This(w, e)
    BY <2>1 DEF Points, Idle, Walking, Callback, Return
  <2> QED BY <2>2, PointTypes
<1> QED BY <1>1, <1>2, <1>3, CallFacts, GoingOn

LEMMA PartialOutput ==
  ASSUME OutputInv, NEW c \in Calls, at[c].pc \in {"visit", "this"}, NEW e \in ErrorCodes,
         dw_partial_or_fail(c, e)
  PROVE  OutputKept
<1> DEFINE x == ctx[c]
           s == frames[c]
           y == SetError(x, e)
           z == Put(y, <<"v">>)
           p == at[c]
<1>1. /\ WriterInv /\ x \in CtxSet /\ s \in Seq(FrameSet) /\ Laid(s, x) /\ x.partial \in BOOLEAN
      /\ ~ x.hard => Grammatical(p, s, x)
      /\ x.hard => ~ x.partial
  BY VisitFacts
<1>2. /\ at' = [at EXCEPT ![c] = Return(x.partial)] /\ frames' = [frames EXCEPT ![c] = s]
      /\ ctx' = [ctx EXCEPT ![c] = IF x.partial THEN z ELSE y]
  BY <1>1 DEF dw_partial_or_fail, Go, WriterInv, Typed
<1>3. Return(x.partial).pc = "ret" /\ Return(x.partial).ok = x.partial
  BY PointTypes
<1>4. y \in CtxSet /\ Wrote(y, x, x.buf) /\ Wrote(z, y, y.buf \o <<"v">>)
  <2>1. y \in CtxSet
    BY <1>1, Updates
  <2>2. Wrote(y, x, x.buf)
    BY <1>1, OutputUpdates
  <2> HIDE DEF y
  <2> QED BY <2>1, <2>2, OutputUpdates
<1> HIDE DEF y, z, x, s, p
<1>5. Wrote(z, x, x.buf \o <<"v">>)
  BY <1>4 DEF Wrote
<1>6. CASE x.partial
  <2>1. OutputOK(Return(x.partial), s, z)
    BY <1>1, <1>3, <1>5, <1>6, ValueOut DEF p
  <2> QED BY <1>2, <1>6, <2>1, StepOutput
<1>7. CASE ~ x.partial
  <2>1. Fails(Return(x.partial))
    BY <1>3, <1>7 DEF Fails
  <2>2. OutputOK(Return(x.partial), s, y)
    BY <1>1, <1>4, <2>1, StayQuiet
  <2> QED BY <1>2, <1>7, <2>2, StepOutput
<1> QED BY <1>6, <1>7

LEMMA FailOutput ==
  ASSUME OutputInv, NEW c \in Calls, at[c].pc \in {"visit", "this"}, NEW e \in ErrorCodes,
         SetAndFail(c, e)
  PROVE  OutputKept
<1>1. ctx[c] \in CtxSet /\ Laid(frames[c], ctx[c])
  BY CallFacts
<1>2. Wrote(SetError(ctx[c], e), ctx[c], ctx[c].buf)
  BY <1>1, OutputUpdates
<1>3. Fails(Return(FALSE))
  BY PointTypes DEF Fails
<1>4. OutputOK(Return(FALSE), frames[c], SetError(ctx[c], e))
  BY <1>1, <1>2, <1>3, StayQuiet
<1>5. /\ at' = [at EXCEPT ![c] = Return(FALSE)] /\ frames' = [frames EXCEPT ![c] = frames[c]]
      /\ ctx' = [ctx EXCEPT ![c] = SetError(ctx[c], e)]
  BY DEF SetAndFail, Go, OutputInv, WriterInv, Typed
<1> QED BY <1>4, <1>5, StepOutput

\* A scalar or an empty object is written, or skipped in a doomed result.
LEMMA SucceedOutput ==
  ASSUME OutputInv, NEW c \in Calls, at[c].pc \in {"visit", "this"}, NEW toks,
         Succeed(c, toks),
         \/ Discarding(c) /\ toks = << >>
         \/ ~ Discarding(c) /\ toks = <<"v">>
         \/ /\ ~ Discarding(c) /\ at[c].depth > 0
            /\ \E kind : toks = <<Brackets(kind)[1]>> \o <<Brackets(kind)[2]>>
  PROVE  OutputKept
<1> DEFINE x == ctx[c]
           s == frames[c]
           y == Put(x, toks)
           p == at[c]
           r == Return(TRUE)
<1>1. /\ WriterInv /\ x \in CtxSet /\ s \in Seq(FrameSet) /\ Laid(s, x)
      /\ ~ x.hard => Grammatical(p, s, x)
      /\ x.hard <=> Discarding(c)
      /\ p.depth \in Int
  BY VisitFacts
<1>2. /\ at' = [at EXCEPT ![c] = r] /\ frames' = [frames EXCEPT ![c] = s]
      /\ ctx' = [ctx EXCEPT ![c] = y]
  BY <1>1 DEF Succeed, Go, WriterInv, Typed
<1>3. Wrote(y, x, x.buf \o toks)
  BY <1>1, OutputUpdates
<1>4. r.pc = "ret"
  BY PointTypes
<1> HIDE DEF y, x, s, p, r
<1>5. CASE Discarding(c) /\ toks = << >>
  <2>1. x.buf = Freed /\ x.hard
    BY <1>1, <1>5 DEF Laid
  <2>2. Wrote(y, x, x.buf)
    BY <1>3, <1>5, <2>1, UnfreedSeqs
  <2> QED BY <1>1, <1>2, <2>1, <2>2, StayQuiet, StepOutput
<1>6. CASE ~ Discarding(c) /\ toks = <<"v">>
  <2>1. OutputOK(r, s, y)
    BY <1>1, <1>3, <1>4, <1>6, ValueOut DEF p
  <2> QED BY <1>2, <2>1, StepOutput
<1>7. ASSUME ~ Discarding(c), p.depth > 0, NEW kind,
             toks = <<Brackets(kind)[1]>> \o <<Brackets(kind)[2]>>
      PROVE  OutputKept
  <2>1. p.pc \in {"visit", "this"}
    BY DEF p
  <2>2. ~ x.hard /\ Grammatical(p, s, x)
    BY <1>1, <1>7
  <2>3. Wrote(y, x, x.buf \o (<<Brackets(kind)[1]>> \o <<Brackets(kind)[2]>>))
    BY <1>3, <1>7, Zenon
  <2>4. OutputOK(r, s, y)
    BY <1>1, <1>4, <1>7, <2>1, <2>2, <2>3, EmptyOut, Zenon
  <2> QED BY <1>2, <2>4, StepOutput
<1> QED BY <1>5, <1>6, <1>7 DEF p

LEMMA ScalarOutput ==
  ASSUME OutputInv, NEW c \in Calls, at[c].pc \in {"visit", "this"}, NEW v, EncodeScalar(c, v)
  PROVE  OutputKept
<1>1. ASSUME Succeed(c, IF Discarding(c) THEN << >> ELSE <<"v">>) PROVE OutputKept
  BY <1>1, SucceedOutput
<1>2. ASSUME NEW e \in {"INF", "TYPE", "UTF8", "ENUM"}, dw_partial_or_fail(c, e)
      PROVE  OutputKept
  BY <1>2, PartialOutput DEF ErrorCodes
<1>3. ASSUME NEW e \in {"TYPE", "UTF8"}, SetAndFail(c, e) PROVE OutputKept
  BY <1>3, FailOutput DEF ErrorCodes
<1>4. CASE Discarding(c) /\ discard_inf(c)
  <2>1. /\ WriterInv /\ ctx[c] \in CtxSet /\ Laid(frames[c], ctx[c]) /\ ctx[c].hard
    BY <1>4, VisitFacts
  <2>2. /\ at' = [at EXCEPT ![c] = Return(TRUE)] /\ frames' = [frames EXCEPT ![c] = frames[c]]
        /\ ctx' = [ctx EXCEPT ![c] = ctx[c]]
    BY <1>4, <2>1 DEF discard_inf, Go, WriterInv, Typed
  <2>3. OutputOK(Return(TRUE), frames[c], ctx[c])
    BY <2>1, StayQuiet DEF Wrote
  <2> QED BY <2>2, <2>3, StepOutput
<1>5. CASE emit_inf(c)
  <2>1. CASE ctx[c].partial
    BY <1>2, <1>5, <2>1 DEF emit_inf
  <2>2. CASE ~ ctx[c].partial
    <3> DEFINE x == HardError(ctx[c])
    <3>1. /\ WriterInv /\ ctx[c] \in CtxSet /\ Laid(frames[c], ctx[c])
      BY VisitFacts
    <3>2. x.hard = TRUE /\ x.indent = ctx[c].indent /\ x.buf = Freed
      BY <3>1, OutputUpdates
    <3>3. ctx' = [ctx EXCEPT ![c] = x] /\ at' = [at EXCEPT ![c] = Return(FALSE)]
          /\ frames' = [frames EXCEPT ![c] = frames[c]]
      BY <1>5, <2>2, <3>1 DEF emit_inf, Go, WriterInv, Typed
    <3> HIDE DEF x
    <3>4. Laid(frames[c], x)
      BY <3>1, <3>2 DEF Laid
    <3>5. OutputOK(Return(FALSE), frames[c], x)
      BY <3>2, <3>4, OutputIs
    <3> QED BY <3>3, <3>5, StepOutput
  <2> QED BY <2>1, <2>2
<1> QED
  BY <1>1, <1>2, <1>3, <1>4, <1>5 DEF EncodeScalar

LEMMA BeginOutput ==
  ASSUME OutputInv, NEW c \in Calls, at[c].pc \in {"visit", "this"}, NEW n \in Nodes,
         NEW kind \in {"list", "assoc", "props"}, NEW g \in GuardSet, NEW body \in BOOLEAN,
         at[c].depth > 0, Begin(c, n, kind, at[c].depth, g, body)
  PROVE  OutputKept
<1> DEFINE x == ctx[c]
           s == frames[c]
           p == at[c]
           fr == Frame(n, kind, p.depth - 1, g, Mode(c), body)
           y == IF Discarding(c) THEN x ELSE OpenBracket(x, kind, body)
           u == Append(s, fr)
<1>1. /\ WriterInv /\ x \in CtxSet /\ s \in Seq(FrameSet) /\ Laid(s, x)
      /\ ~ x.hard => Grammatical(p, s, x)
      /\ x.hard <=> Discarding(c)
      /\ p.depth \in Int
  BY VisitFacts
<1>2. /\ fr \in FrameSet /\ fr.kind = kind /\ fr.kind # "json" /\ fr.depth = p.depth - 1
      /\ fr.first /\ fr.mode = Mode(c) /\ fr.body = body
  BY <1>1 DEF Frame, FrameSet, Mode
<1>3. ctx' = [ctx EXCEPT ![c] = y] /\ at' = [at EXCEPT ![c] = Walking]
  BY DEF Begin, Go
<1>4. frames' = [frames EXCEPT ![c] = u]
  BY DEF Begin
<1>5. Walking.pc = "next"
  BY PointTypes
<1>6. p.pc \in {"visit", "this"} /\ p.depth > 0
  BY DEF p
<1> HIDE DEF x, s, p, fr, y, u
<1>7. CASE Discarding(c)
  <2>1. y = x /\ x.hard /\ fr.mode = "discard"
    BY <1>1, <1>2, <1>7 DEF y, Mode
  <2>2. OutputOK(Walking, u, y)
    BY <1>1, <1>2, <2>1, BeginQuiet DEF u
  <2> QED BY <1>3, <1>4, <2>2, StepOutput
<1>8. CASE ~ Discarding(c)
  <2>1. fr.mode = "emit"
    BY <1>2, <1>8 DEF Mode
  <2>2. /\ y.hard = x.hard /\ y.depth = x.depth /\ y.buf = x.buf \o <<Brackets(fr.kind)[1]>>
        /\ y.indent = IF fr.body THEN x.indent + 1 ELSE x.indent
    <3>1. y = OpenBracket(x, kind, body)
      BY <1>8 DEF y
    <3>3. x \in CtxSet
      BY <1>1
    <3>2. /\ y.hard = x.hard /\ y.depth = x.depth /\ y.buf = x.buf \o <<Brackets(kind)[1]>>
          /\ y.indent = IF body THEN x.indent + 1 ELSE x.indent
      BY <3>1, <3>3, OpenBracketUpdates
    <3> QED BY <1>2, <3>2
  <2>3. OutputOK(Walking, u, y)
    BY <1>1, <1>2, <1>5, <1>6, <1>8, <2>1, <2>2, BeginOut DEF u
  <2> QED BY <1>3, <1>4, <2>3, StepOutput
<1> QED BY <1>7, <1>8

LEMMA PropsOutput ==
  ASSUME OutputInv, NEW c \in Calls, at[c].pc \in {"visit", "this"}, NEW n \in Nodes,
         dw_emit_object_props(c, n, at[c].depth)
  PROVE  OutputKept
<1>1. ASSUME NEW e \in {"DEPTH", "RECURSION"}, dw_partial_or_fail(c, e) PROVE OutputKept
  BY <1>1, PartialOutput DEF ErrorCodes
<1>2. at[c].depth \in Int /\ GcGuard(n) \in GuardSet
  BY VisitFacts, HeapTypes DEF WriterInv
<1>3. ASSUME at[c].depth > 0, Succeed(c, IF Discarding(c) THEN << >> ELSE <<"{">> \o <<"}">>)
      PROVE  OutputKept
  <2>1. \E kind : <<"{">> \o <<"}">> = <<Brackets(kind)[1]>> \o <<Brackets(kind)[2]>>
    <3>1. Brackets("props")[1] = "{" /\ Brackets("props")[2] = "}"
      BY DEF Brackets
    <3> QED BY <3>1, Zenon
  <2> QED BY <1>3, <2>1, SucceedOutput, Zenon
<1>4. ASSUME at[c].depth > 0, Begin(c, n, "props", at[c].depth, GcGuard(n), FALSE)
      PROVE  OutputKept
  BY <1>2, <1>4, BeginOutput
<1>5. ~ (at[c].depth <= 0) => at[c].depth > 0
  BY <1>2
<1> QED
  BY <1>1, <1>3, <1>4, <1>5, Zenon DEF dw_emit_object_props

LEMMA SerializerOutput ==
  ASSUME OutputInv, NEW c \in Calls, at[c].pc \in {"visit", "this"}, NEW n \in Nodes,
         ~ Discarding(c), dw_emit_jsonserializable(c, n, at[c].depth)
  PROVE  OutputKept
<1>1. CASE Json(n) \in guards
  BY <1>1, PartialOutput DEF dw_emit_jsonserializable, ErrorCodes
<1>2. CASE Json(n) \notin guards
  <2> DEFINE x == ctx[c]
             s == frames[c]
             p == at[c]
             fr == Frame(n, "json", p.depth, Json(n), "emit", FALSE)
             u == Append(s, fr)
  <2>1. /\ WriterInv /\ x \in CtxSet /\ s \in Seq(FrameSet) /\ Laid(s, x) /\ ~ x.hard
        /\ Grammatical(p, s, x) /\ p.depth \in Int
    BY VisitFacts
  <2>2. fr \in FrameSet /\ fr.kind = "json" /\ fr.depth = p.depth /\ ~ fr.body
    BY <2>1 DEF Frame, FrameSet, GuardSet
  <2>3. /\ at' = [at EXCEPT ![c] = Callback] /\ frames' = [frames EXCEPT ![c] = u]
        /\ ctx' = [ctx EXCEPT ![c] = x]
    BY <1>2, <2>1 DEF dw_emit_jsonserializable, Go, WriterInv, Typed
  <2>4. Callback.pc = "callback" /\ p.pc \in {"visit", "this"}
    BY PointTypes
  <2> HIDE DEF x, s, p, fr, u
  <2>5. OutputOK(Callback, u, x)
    BY <2>1, <2>2, <2>4, SerializerOut DEF u
  <2> QED BY <2>3, <2>5, StepOutput
<1> QED BY <1>1, <1>2

LEMMA EncodeOutput ==
  ASSUME OutputInv, NEW c \in Calls, EncodeValue(c) \/ EncodeThis(c)
  PROVE  OutputKept
<1>1. at[c].pc \in {"visit", "this"} /\ at[c] \in Points
  BY DEF EncodeValue, EncodeThis, OutputInv, WriterInv, Typed
<1>2. ASSUME NEW e \in {"DEPTH", "RECURSION"}, dw_partial_or_fail(c, e) PROVE OutputKept
  BY <1>1, <1>2, PartialOutput DEF ErrorCodes
<1>3. CASE EncodeThis(c)
  <2>1. \E n \in Nodes, d \in Int : at[c] = This(n, d)
    BY <1>1, <1>3 DEF EncodeThis, Points, Idle, Walking, Callback, Visit, Return
  <2>2. at[c].node \in Nodes
    BY <2>1, PointTypes
  <2> QED BY <1>1, <1>3, <2>2, PropsOutput DEF EncodeThis
<1>4. CASE EncodeValue(c)
  <2> DEFINE v == at[c].val
             d == at[c].depth
  <2>1. v \in Values /\ d \in Int
    <3>1. \E w \in Values, e \in Int : at[c] = Visit(w, e)
      BY <1>1, <1>4 DEF EncodeValue, Points, Idle, Walking, Callback, This, Return
    <3> QED BY <3>1, PointTypes
  <2>2. ASSUME NEW overflow, v \in Nodes, heap[v].kind \in {"list", "assoc"},
               dw_emit_array(c, v, d, overflow)
        PROVE  OutputKept
    <3>1. ASSUME Begin(c, v, heap[v].kind, d, GcGuard(v), heap[v].items # << >>), d > 0
          PROVE  OutputKept
      <4>1. /\ (heap[v].items # << >>) \in BOOLEAN
            /\ heap[v].kind \in {"list", "assoc", "props"}
            /\ GcGuard(v) \in GuardSet
        BY <2>2, HeapTypes DEF OutputInv, WriterInv
      <4> QED BY <1>1, <2>2, <3>1, <4>1, BeginOutput
    <3>2. ~ (d <= 0) => d > 0
      BY <2>1
    <3> QED BY <1>2, <2>2, <3>1, <3>2 DEF dw_emit_array
  <2>3. ASSUME NEW overflow, v \in Nodes, dw_emit_object(c, v, d, overflow)
        PROVE  OutputKept
    <3>1. CASE Discarding(c) /\ dw_discard_jsonserializable(c, v, d)
      BY <1>1, <3>1, SucceedOutput DEF dw_discard_jsonserializable
    <3>2. CASE ~ Discarding(c) /\ dw_emit_jsonserializable(c, v, d)
      BY <1>1, <2>3, <3>2, SerializerOutput
    <3>3. CASE dw_emit_object_props(c, v, d)
      BY <1>1, <2>3, <3>3, PropsOutput
    <3> QED BY <1>2, <2>3, <3>1, <3>2, <3>3 DEF dw_emit_object
  <2>4. \/ dw_partial_or_fail(c, "DEPTH")
        \/ EncodeScalar(c, v)
        \/ /\ v \notin Scalars
           /\ \E overflow \in MayOverflow :
                IF heap[v].kind \in {"list", "assoc"}
                  THEN dw_emit_array(c, v, d, overflow)
                  ELSE dw_emit_object(c, v, d, overflow)
    BY <1>4 DEF EncodeValue
  <2>5. v \in Scalars \/ v \in Nodes
    BY <2>1 DEF Values
  <2> HIDE DEF v, d
  <2> QED BY <1>1, <1>2, <2>2, <2>3, <2>4, <2>5, ScalarOutput
<1> QED BY <1>3, <1>4

\* The top frame of a call that walks, waits in PHP code or gets a value back.
LEMMA TopFacts ==
  ASSUME OutputInv, NEW c \in Calls, frames[c] # << >>
  PROVE  /\ WriterInv /\ ctx[c] \in CtxSet /\ frames[c] \in Seq(FrameSet)
         /\ Laid(frames[c], ctx[c])
         /\ Top(c) = Last(frames[c]) /\ Top(c) \in FrameSet /\ Top(c).node \in Nodes
         /\ Discarding(c) <=> Top(c).mode # "emit"
         /\ Top(c).kind # "json" => AtItem(frames[c])
         /\ at[c].pc # "idle" /\ ~ Fails(at[c]) =>
              /\ ctx[c].hard <=> Discarding(c)
              /\ ~ ctx[c].hard => Grammatical(at[c], frames[c], ctx[c])
<1>1. /\ WriterInv /\ ctx[c] \in CtxSet /\ frames[c] \in Seq(FrameSet)
      /\ Laid(frames[c], ctx[c])
      /\ at[c].pc # "idle" /\ ~ ctx[c].hard /\ ~ Fails(at[c])
           => Grammatical(at[c], frames[c], ctx[c])
  BY CallFacts
<1>2. /\ Top(c) = Last(frames[c]) /\ Top(c) \in FrameSet /\ Top(c).node \in Nodes
      /\ Discarding(c) <=> Top(c).mode # "emit"
  BY <1>1, TopFrame
<1>3. ~ Fails(at[c]) => (ctx[c].hard <=> Discarding(c))
  BY <1>1, GoingOn
<1> QED BY <1>1, <1>2, <1>3 DEF AtItem

LEMMA EmitKeyOutput ==
  ASSUME OutputInv, NEW c \in Calls, at[c].pc \in {"next", "callback"}, frames[c] # << >>,
         ~ Discarding(c), Top(c).kind # "json", NEW key, NEW v, EmitKeyAndVisit(c, key, v)
  PROVE  OutputKept
<1> DEFINE fr  == Top(c)
           s   == frames[c]
           w   == ctx[c]
           bad == key = "bad" /\ fr.kind # "list"
           y   == OpenBody(w, fr)
           z   == SetError(y, "UTF8")
           fs  == [fr EXCEPT !.body = TRUE]
           u   == [s EXCEPT ![Len(s)] = fs]
           toks == KeyTokens(fr)
           x   == IF bad /\ ~ y.partial THEN Put(z, Comma(fr)) ELSE Put(IF bad THEN z ELSE y, toks)
           p   == IF bad /\ ~ y.partial THEN Return(FALSE) ELSE Visit(v, fr.depth)
<1>1. ~ Fails(at[c]) /\ at[c].pc # "idle"
  BY DEF Fails
<1>2. /\ WriterInv /\ w \in CtxSet /\ s \in Seq(FrameSet) /\ Laid(s, w) /\ fr = Last(s)
      /\ fr \in FrameSet /\ fr.mode = "emit" /\ AtItem(s) /\ ~ w.hard
      /\ Grammatical(at[c], s, w)
  BY <1>1, TopFacts
<1>3. at' = [at EXCEPT ![c] = p]
  BY DEF EmitKeyAndVisit, Go
<1>4. frames' = [frames EXCEPT ![c] = u]
  BY DEF EmitKeyAndVisit, SetTop
<1>5. ctx' = [ctx EXCEPT ![c] = x]
  BY DEF EmitKeyAndVisit, KeyTokens
<1>6. /\ y \in CtxSet /\ ~ y.hard /\ y.depth = w.depth /\ y.buf = w.buf
      /\ y.indent = IF fr.body THEN w.indent ELSE w.indent + 1
  <2>1. y \in CtxSet
    BY <1>2, Updates
  <2>2. y = OpenBody(w, fr)
    OBVIOUS
  <2> HIDE DEF y, w, fr
  <2> QED BY <1>2, <2>1, <2>2, NamedUpdates
<1>7. fs \in FrameSet /\ fs.kind = fr.kind /\ fs.depth = fr.depth /\ fs.mode = "emit" /\ fs.body
  BY <1>2 DEF FrameSet
<1> HIDE DEF y
<1>8. z \in CtxSet /\ Wrote(z, y, y.buf)
  <2>1. z \in CtxSet
    BY <1>6, Updates DEF ErrorCodes
  <2> QED BY <1>6, <2>1, OutputUpdates
<1> HIDE DEF z, toks
<1>9. /\ Wrote(Put(z, Comma(fr)), z, z.buf \o Comma(fr))
      /\ Wrote(Put(z, toks), z, z.buf \o toks) /\ Wrote(Put(y, toks), y, y.buf \o toks)
  BY <1>6, <1>8, OutputUpdates
<1>10. CASE bad /\ ~ y.partial
  <2>1. Fails(p)
    BY <1>10, PointTypes DEF Fails
  <2>2. x = Put(z, Comma(fr))
    BY <1>10
  <2> HIDE DEF x, p, u, fs, fr, s, w, bad
  <2>3. /\ ~ x.hard /\ x.buf = w.buf \o Comma(fr)
        /\ x.indent = IF fr.body THEN w.indent ELSE w.indent + 1
    BY <1>6, <1>8, <1>9, <2>2 DEF Wrote
  <2>4. x.buf \in Seq(Unfreed)
    <3>1. w.buf \in Seq(Unfreed)
      BY <1>2 DEF Laid
    <3>2. Comma(fr) \in Seq(Unfreed)
      <4>1. PICK d \in Unfreed : d = ","
        BY UnfreedSeqs, Zenon
      <4>2. Comma(fr) = << >> \/ Comma(fr) = <<d>>
        BY <4>1, Zenon DEF Comma
      <4>3. <<d>> \in Seq(Unfreed) /\ << >> \in Seq(Unfreed)
        OBVIOUS
      <4> QED BY <4>2, <4>3, Zenon
    <3> QED BY <2>3, <3>1, <3>2, UnfreedSeqs
  <2>5. Laid(u, x)
    <3>1. w.indent \in Int /\ Counts(fs) /\ (Counts(fr) <=> fr.body)
      BY <1>2, <1>7 DEF CtxSet, Counts
    <3>2. x.indent = w.indent + (IF Counts(fs) THEN 1 ELSE 0) - (IF Counts(fr) THEN 1 ELSE 0)
      BY <2>3, <3>1
    <3>3. fs.kind = "json" => ~ fs.body
      BY <1>2, <1>7 DEF AtItem
    <3>4. s # << >>
      BY <1>2 DEF AtItem
    <3> QED BY <1>2, <1>7, <2>3, <2>4, <3>1, <3>2, <3>3, <3>4, LaidReplace DEF u
  <2>6. OutputOK(p, u, x)
    BY <2>1, <2>5, OutputIs
  <2> QED BY <1>3, <1>4, <1>5, <2>6, StepOutput
<1>11. CASE ~ (bad /\ ~ y.partial)
  <2>1. p.pc = "visit" /\ p.depth = fr.depth
    <3>1. p = Visit(v, fr.depth)
      BY <1>11
    <3> HIDE DEF p, fr
    <3> QED BY <3>1, PointTypes
  <2>2. x = Put(z, toks) \/ x = Put(y, toks)
    BY <1>11
  <2>3. fs = [fr EXCEPT !.body = TRUE]
    OBVIOUS
  <2> HIDE DEF x, p, u, fs, fr, s, w, bad
  <2>4. /\ ~ x.hard /\ x.depth = w.depth /\ x.buf = w.buf \o toks
        /\ x.indent = IF fr.body THEN w.indent ELSE w.indent + 1
    BY <1>6, <1>8, <1>9, <2>2 DEF Wrote
  <2>5. OutputOK(p, u, x)
    BY <1>2, <1>7, <2>1, <2>3, <2>4, KeyOut DEF u, toks
  <2> QED BY <1>3, <1>4, <1>5, <2>5, StepOutput
<1> QED BY <1>10, <1>11

LEMMA FrameFields ==
  ASSUME NEW fr \in FrameSet
  PROVE  /\ Advance(fr).depth = fr.depth /\ Advance(fr).body = fr.body
         /\ Advance(fr).first = fr.first
         /\ Resumed(fr).depth = fr.depth /\ Resumed(fr).body = fr.body /\ ~ Resumed(fr).first
         /\ [Advance(fr) EXCEPT !.mode = "drain"].depth = fr.depth
         /\ [Advance(fr) EXCEPT !.mode = "drain"].body = fr.body
<1>1. /\ Advance(fr).depth = fr.depth /\ Advance(fr).body = fr.body
      /\ Advance(fr).first = fr.first /\ Advance(fr) \in FrameSet
  BY DEF Advance, FrameSet
<1>2. /\ Resumed(fr).depth = fr.depth /\ Resumed(fr).body = fr.body /\ ~ Resumed(fr).first
  BY <1>1 DEF Resumed, FrameSet
<1>3. /\ [Advance(fr) EXCEPT !.mode = "drain"].depth = fr.depth
      /\ [Advance(fr) EXCEPT !.mode = "drain"].body = fr.body
  BY <1>1 DEF FrameSet
<1> QED BY <1>1, <1>2, <1>3

LEMMA DiscardKeyOutput ==
  ASSUME OutputInv, NEW c \in Calls, at[c].pc = "next", frames[c] # << >>, Discarding(c),
         NEW key, NEW v, DiscardKeyAndVisit(c, key, v)
  PROVE  OutputKept
<1> DEFINE x == ctx[c]
           s == frames[c]
           bad == key = "bad" /\ Top(c).kind # "list"
           y == IF bad THEN SetError(x, "UTF8") ELSE x
           p == IF bad THEN Return(FALSE) ELSE Visit(v, Top(c).depth)
<1>1. ~ Fails(at[c]) /\ at[c].pc # "idle"
  BY DEF Fails
<1>2. WriterInv /\ x \in CtxSet /\ s \in Seq(FrameSet) /\ Laid(s, x) /\ x.hard
  BY <1>1, TopFacts
<1>3. /\ at' = [at EXCEPT ![c] = p] /\ frames' = [frames EXCEPT ![c] = s]
      /\ ctx' = [ctx EXCEPT ![c] = y]
  BY <1>2 DEF DiscardKeyAndVisit, Go, WriterInv, Typed
<1>4. Wrote(y, x, x.buf)
  <2>1. Wrote(SetError(x, "UTF8"), x, x.buf) /\ Wrote(x, x, x.buf)
    BY <1>2, OutputUpdates DEF Wrote
  <2> QED BY <2>1
<1> HIDE DEF x, s, y, p
<1>5. OutputOK(p, s, y)
  BY <1>2, <1>4, StayQuiet
<1> QED BY <1>3, <1>5, StepOutput

\* The top frame moves on to its next item.
LEMMA AdvanceOutput ==
  ASSUME OutputInv, NEW c \in Calls, ~ Fails(at[c]), at[c].pc # "idle", frames[c] # << >>,
         Top(c).kind # "json", NEW fr \in FrameSet, fr.kind = Top(c).kind,
         fr.depth = Top(c).depth, fr.mode = Top(c).mode, fr.body = Top(c).body,
         \/ at[c].pc \in {"next", "callback"} /\ fr.first = Top(c).first
         \/ at[c].pc = "ret" /\ ~ fr.first,
         SetTop(c, fr), at' = [at EXCEPT ![c] = Walking], UNCHANGED ctx
  PROVE  OutputKept
<1> DEFINE x == ctx[c]
           s == frames[c]
           p == at[c]
           u == [s EXCEPT ![Len(s)] = fr]
<1>1. /\ WriterInv /\ x \in CtxSet /\ s \in Seq(FrameSet) /\ Laid(s, x) /\ Top(c) = Last(s)
      /\ AtItem(s) /\ (~ x.hard => Grammatical(p, s, x))
  BY TopFacts
<1>2. frames' = [frames EXCEPT ![c] = u] /\ ctx' = [ctx EXCEPT ![c] = x]
  BY <1>1 DEF SetTop, WriterInv, Typed
<1>3. Walking.pc = "next"
  BY PointTypes
<1>4. /\ fr.kind = Last(s).kind /\ fr.depth = Last(s).depth /\ fr.mode = Last(s).mode
      /\ fr.body = Last(s).body
      /\ \/ p.pc \in {"next", "callback"} /\ fr.first = Last(s).first
         \/ p.pc = "ret" /\ ~ fr.first
  BY <1>1
<1> HIDE DEF x, s, p
<1>5. CASE x.hard
  <2>1. OutputOK(Walking, u, x)
    BY <1>1, <1>4, <1>5, ReplaceQuiet
  <2> QED BY <1>2, <2>1, StepOutput
<1>6. CASE ~ x.hard
  <2>1. OutputOK(Walking, u, x)
    BY <1>1, <1>3, <1>4, <1>6, MoveOnOut
  <2> QED BY <1>2, <2>1, StepOutput
<1> QED BY <1>5, <1>6

\* The top frame is left, with a failure or after a hard error.
LEMMA LeaveOutput ==
  ASSUME OutputInv, NEW c \in Calls, frames[c] # << >>, NEW ok, Leave(c, ok),
         NEW y, ctx' = [ctx EXCEPT ![c] = y],
         y.hard = ctx[c].hard, y.buf = ctx[c].buf,
         y.indent = IF Counts(Top(c)) THEN ctx[c].indent - 1 ELSE ctx[c].indent,
         ok = FALSE \/ ctx[c].hard
  PROVE  OutputKept
<1> DEFINE x == ctx[c]
           s == frames[c]
           p == Return(ok)
<1>1. /\ WriterInv /\ x \in CtxSet /\ s \in Seq(FrameSet) /\ Laid(s, x) /\ Top(c) = Last(s)
  BY TopFacts
<1>2. at' = [at EXCEPT ![c] = p] /\ frames' = [frames EXCEPT ![c] = Front(s)]
  BY <1>1 DEF Leave, Go, WriterInv, Typed
<1>3. Fails(p) \/ x.hard
  BY PointTypes DEF Fails
<1>4. /\ s # << >> /\ y.hard = x.hard /\ y.buf = x.buf
      /\ y.indent = IF Counts(Last(s)) THEN x.indent - 1 ELSE x.indent
  BY <1>1
<1> HIDE DEF x, s, p
<1>5. OutputOK(p, Front(s), y)
  BY <1>1, <1>3, <1>4, LeaveQuiet
<1> QED BY <1>2, <1>5, StepOutput

LEMMA EndContainerOutput ==
  ASSUME OutputInv, NEW c \in Calls, at[c].pc = "next", frames[c] # << >>,
         Top(c).kind # "json", EndContainer(c)
  PROVE  OutputKept
<1> DEFINE x == ctx[c]
           s == frames[c]
           p == at[c]
           fr == Top(c)
           y == Outdent(x, fr)
           z == Put(y, <<Brackets(fr.kind)[2]>>)
           ok == fr.mode # "drain"
<1>1. ~ Fails(at[c]) /\ at[c].pc # "idle"
  BY DEF Fails
<1>2. /\ WriterInv /\ x \in CtxSet /\ s \in Seq(FrameSet) /\ Laid(s, x) /\ fr = Last(s)
      /\ fr \in FrameSet /\ AtItem(s) /\ (~ x.hard => Grammatical(p, s, x))
      /\ (x.hard <=> fr.mode # "emit")
  BY <1>1, TopFacts
<1>3. ctx' = [ctx EXCEPT ![c] = IF fr.mode = "emit" THEN z ELSE y] /\ Leave(c, ok)
  BY DEF EndContainer
<1>4. y \in CtxSet
  BY <1>2, Updates
<1>5. /\ y.hard = x.hard /\ y.depth = x.depth /\ y.buf = x.buf
      /\ y.indent = IF Counts(fr) THEN x.indent - 1 ELSE x.indent
  <2>1. y = Outdent(x, fr)
    OBVIOUS
  <2> HIDE DEF x, y, fr
  <2> QED BY <1>2, <2>1, NamedUpdates
<1> HIDE DEF y
<1>6. Wrote(z, y, y.buf \o <<Brackets(fr.kind)[2]>>)
  BY <1>4, OutputUpdates
<1> HIDE DEF z
<1>7. CASE fr.mode # "emit"
  <2>1. ctx' = [ctx EXCEPT ![c] = y]
    BY <1>3, <1>7
  <2> HIDE DEF ok
  <2> QED BY <1>2, <1>3, <1>5, <1>7, <2>1, LeaveOutput
<1>8. CASE fr.mode = "emit"
  <2> DEFINE r == Return(ok)
  <2>1. /\ at' = [at EXCEPT ![c] = r] /\ frames' = [frames EXCEPT ![c] = Front(s)]
        /\ ctx' = [ctx EXCEPT ![c] = z]
    BY <1>2, <1>3, <1>8 DEF Leave, Go, WriterInv, Typed
  <2>2. r.pc = "ret" /\ p.pc = "next"
    BY PointTypes
  <2> HIDE DEF r, p, s, x, fr
  <2>3. /\ ~ x.hard /\ ~ z.hard /\ z.depth = x.depth
        /\ z.buf = x.buf \o <<Brackets(Last(s).kind)[2]>>
        /\ z.indent = IF Counts(Last(s)) THEN x.indent - 1 ELSE x.indent
    BY <1>2, <1>5, <1>6, <1>8 DEF Wrote
  <2>4. OutputOK(r, Front(s), z)
    BY <1>2, <2>2, <2>3, CloseOut
  <2> QED BY <2>1, <2>4, StepOutput
<1> QED BY <1>7, <1>8

LEMMA WalkOutput ==
  ASSUME OutputInv, NEW c \in Calls, Walk(c)
  PROVE  OutputKept
<1>1. at[c].pc = "next" /\ ~ Fails(at[c]) /\ at[c].pc # "idle"
  BY DEF Walk, Fails
<1>2. WriterInv /\ CallOK(at[c], frames[c], ctx[c]) /\ at[c] \in Points
  BY DEF OutputInv, WriterInv, Typed
<1>3. frames[c] # << >> /\ Last(frames[c]).kind # "json"
  BY <1>1, <1>2 DEF CallOK, InFrame
<1>4. /\ ctx[c] \in CtxSet /\ frames[c] \in Seq(FrameSet) /\ Laid(frames[c], ctx[c])
      /\ Top(c) = Last(frames[c]) /\ Top(c) \in FrameSet
      /\ (ctx[c].hard <=> Discarding(c))
      /\ (~ ctx[c].hard => Grammatical(at[c], frames[c], ctx[c]))
  BY <1>1, <1>3, TopFacts
<1>5. CASE EndContainer(c)
  BY <1>1, <1>3, <1>4, <1>5, EndContainerOutput
<1>6. CASE NextItem(c)
  <2> DEFINE it == ItemAt(Top(c))
  <2>1. IF Discarding(c) THEN DiscardItem(c, it) ELSE EmitItem(c, it)
    BY <1>6 DEF NextItem
  <2> HIDE DEF it
  <2>2. CASE SkipItem(c)
    <3> DEFINE fr == Advance(Top(c))
    <3>1. at[c] = Walking
      BY <1>1, <1>2 DEF Points, Idle, Walking, Callback, This, Return, Visit
    <3>2. at' = [at EXCEPT ![c] = Walking] /\ SetTop(c, fr) /\ UNCHANGED ctx
      BY <1>2, <2>2, <3>1 DEF SkipItem, WriterInv, Typed
    <3>3. /\ fr \in FrameSet /\ fr.kind = Top(c).kind /\ fr.depth = Top(c).depth
          /\ fr.mode = Top(c).mode /\ fr.body = Top(c).body /\ fr.first = Top(c).first
      BY <1>4, FrameUpdates, FrameFields
    <3> HIDE DEF fr
    <3> QED BY <1>1, <1>3, <1>4, <3>2, <3>3, AdvanceOutput
  <2>3. CASE Discarding(c) /\ DiscardKeyAndVisit(c, it.key, it.val)
    BY <1>1, <1>3, <2>3, DiscardKeyOutput
  <2>4. CASE ~ Discarding(c) /\ EmitKeyAndVisit(c, it.key, it.val)
    BY <1>1, <1>3, <1>4, <2>4, EmitKeyOutput
  <2>5. CASE ~ Discarding(c) /\ Go(c, Callback) /\ UNCHANGED <<guards, frames, ctx>>
    <3>1. Callback.pc = "callback"
      BY PointTypes
    <3>2. OutputOK(Callback, frames[c], ctx[c])
      BY <1>1, <1>4, <2>5, <3>1, HookOut
    <3>3. /\ at' = [at EXCEPT ![c] = Callback] /\ frames' = [frames EXCEPT ![c] = frames[c]]
          /\ ctx' = [ctx EXCEPT ![c] = ctx[c]]
      BY <1>2, <2>5 DEF Go, WriterInv, Typed
    <3> QED BY <3>2, <3>3, StepOutput
  <2> QED
    BY <2>1, <2>2, <2>3, <2>4, <2>5 DEF DiscardItem, EmitItem
<1> QED
  BY <1>5, <1>6 DEF Walk

LEMMA ReturnsOutput ==
  ASSUME OutputInv, NEW c \in Calls, ValueReturns(c)
  PROVE  OutputKept
<1> DEFINE fr == Top(c)
           ok == at[c].ok
<1>1. at[c].pc = "ret" /\ frames[c] # << >> /\ (ItemReturns(c, ok) \/ JsonReturns(c, ok))
  BY DEF ValueReturns
<1>2. WriterInv /\ Standing(at[c], Discards(frames[c]), ctx[c])
  BY DEF OutputInv, WriterInv, CallOK
<1>3. ok \in BOOLEAN /\ (Fails(at[c]) <=> ~ ok)
  BY <1>1, <1>2, ReturnPoint
<1>4. /\ fr = Last(frames[c]) /\ fr \in FrameSet /\ fr.mode \in {"emit", "drain", "discard"}
      /\ frames[c] \in Seq(FrameSet) /\ (Discards(frames[c]) <=> fr.mode # "emit")
  BY <1>1, <1>2, TopFrame
<1>5. /\ ctx[c] \in CtxSet /\ Laid(frames[c], ctx[c])
      /\ (fr.kind # "json" => AtItem(frames[c]))
      /\ (~ ctx[c].hard /\ ok => Grammatical(at[c], frames[c], ctx[c]))
  <2>1. at[c].pc # "idle"
    BY <1>1
  <2> QED BY <1>1, <1>3, <2>1, TopFacts
<1>6. Return(ok).pc = "ret"
  BY PointTypes
<1>7. CASE JsonReturns(c, ok)
  <2>1. /\ Leave(c, ok) /\ ctx' = [ctx EXCEPT ![c] = ctx[c]] /\ fr.kind = "json"
    BY <1>2, <1>7 DEF JsonReturns, WriterInv, Typed
  <2>2. fr.mode = "emit" /\ ~ fr.body
    <3>1. Len(frames[c]) \in 1 .. Len(frames[c]) /\ fr = frames[c][Len(frames[c])]
      <4>1. Len(frames[c]) \in Nat \ {0} /\ Last(frames[c]) = frames[c][Len(frames[c])]
        BY <1>1, <1>4, FrontIs
      <4> QED BY <1>4, <4>1
    <3> HIDE DEF fr
    <3>2. ~ fr.body
      BY <1>5, <2>1, <3>1 DEF Laid, Bodiless
    <3> QED BY <1>4, <2>1, <3>2 DEF FrameSet
  <2>3. CASE ok
    <3>1. /\ at' = [at EXCEPT ![c] = Return(ok)]
          /\ frames' = [frames EXCEPT ![c] = Front(frames[c])]
      BY <1>2, <2>1 DEF Leave, Go, WriterInv, Typed
    <3>2. ~ ctx[c].hard
      BY <1>2, <1>3, <1>4, <2>2, <2>3 DEF Standing
    <3>3. OutputOK(Return(ok), Front(frames[c]), ctx[c])
      BY <1>1, <1>4, <1>5, <1>6, <2>1, <2>3, <3>2, SerializerDone
    <3> QED BY <2>1, <3>1, <3>3, StepOutput
  <2>4. CASE ~ ok
    <3>1. ~ Counts(fr)
      BY <2>2 DEF Counts
    <3> HIDE DEF fr
    <3>2. /\ ctx[c].hard = ctx[c].hard /\ ctx[c].buf = ctx[c].buf
          /\ ctx[c].indent = IF Counts(Top(c)) THEN ctx[c].indent - 1 ELSE ctx[c].indent
      BY <3>1 DEF fr
    <3>3. ok = FALSE
      BY <1>3, <2>4
    <3>4. PICK y : y = ctx[c]
      OBVIOUS
    <3> HIDE DEF ok
    <3> QED BY <1>1, <2>1, <3>2, <3>3, <3>4, LeaveOutput
  <2> QED BY <2>3, <2>4
<1>8. CASE ItemReturns(c, ok) /\ ok
  <2> DEFINE nx == Resumed(fr)
  <2>1. /\ SetTop(c, nx) /\ at' = [at EXCEPT ![c] = Walking] /\ UNCHANGED ctx
        /\ fr.kind # "json"
    BY <1>8 DEF ItemReturns, Go
  <2>2. /\ nx \in FrameSet /\ nx.mode = fr.mode /\ nx.kind = fr.kind
        /\ nx.depth = fr.depth /\ nx.body = fr.body /\ ~ nx.first
    BY <1>4, FrameUpdates, FrameFields
  <2>3. ~ Fails(at[c]) /\ at[c].pc # "idle"
    BY <1>1, <1>3, <1>8
  <2> HIDE DEF nx
  <2> QED BY <1>1, <2>1, <2>2, <2>3, AdvanceOutput
<1>9. CASE ItemReturns(c, ok) /\ ~ ok /\ Drains(c)
  <2> DEFINE nx == [Advance(fr) EXCEPT !.mode = "drain"]
             s == frames[c]
             x == ctx[c]
             u == [s EXCEPT ![Len(s)] = nx]
  <2>1. /\ SetTop(c, nx) /\ at' = [at EXCEPT ![c] = Walking]
        /\ ctx' = [ctx EXCEPT ![c] = x] /\ fr.kind # "json"
    BY <1>2, <1>9 DEF ItemReturns, Go, WriterInv, Typed
  <2>2. /\ nx \in FrameSet /\ nx.mode = "drain" /\ nx.kind = fr.kind
        /\ nx.depth = fr.depth /\ nx.body = fr.body
    BY <1>4, <2>1, FrameUpdates, FrameFields
  <2>3. fr.mode = "emit" /\ x.hard
    BY <1>9 DEF Drains
  <2>4. frames' = [frames EXCEPT ![c] = u]
    BY <1>2, <2>1 DEF SetTop, WriterInv, Typed
  <2> HIDE DEF nx, fr, s, x
  <2>5. (nx.mode = "discard") <=> (Last(s).mode = "discard")
    BY <1>4, <2>2, <2>3 DEF s
  <2>6. OutputOK(Walking, u, x)
    BY <1>4, <1>5, <2>1, <2>2, <2>3, <2>5, ReplaceQuiet DEF s, x
  <2> QED BY <2>1, <2>4, <2>6, StepOutput
<1>10. CASE ItemReturns(c, ok) /\ ~ ok /\ ~ Drains(c)
  <2> DEFINE y == Outdent(ctx[c], fr)
             x == IF fr.mode = "drain" THEN AbortDiscard(y) ELSE y
             no == FALSE
  <2>1. ctx' = [ctx EXCEPT ![c] = x] /\ Leave(c, no)
    BY <1>10 DEF ItemReturns
  <2>2. y \in CtxSet
    BY <1>4, <1>5, Updates
  <2>3. /\ y.hard = ctx[c].hard /\ y.buf = ctx[c].buf
        /\ y.indent = IF Counts(fr) THEN ctx[c].indent - 1 ELSE ctx[c].indent
    <3>1. y = Outdent(ctx[c], fr)
      OBVIOUS
    <3> HIDE DEF y, fr
    <3> QED BY <1>5, <3>1, NamedUpdates
  <2> HIDE DEF y
  <2>4. x.hard = y.hard /\ x.buf = y.buf /\ x.indent = y.indent
    <3>1. Wrote(AbortDiscard(y), y, y.buf)
      BY <2>2, OutputUpdates
    <3> QED BY <3>1 DEF Wrote
  <2>5. /\ no = FALSE /\ x.hard = ctx[c].hard /\ x.buf = ctx[c].buf
        /\ x.indent = IF Counts(fr) THEN ctx[c].indent - 1 ELSE ctx[c].indent
    BY <2>3, <2>4
  <2> HIDE DEF x, no
  <2> QED BY <1>1, <2>1, <2>5, LeaveOutput
<1> QED BY <1>1, <1>3, <1>7, <1>8, <1>9, <1>10

LEMMA CallbackOutput ==
  ASSUME OutputInv, NEW c \in Calls, CallbackReturns(c)
  PROVE  OutputKept
<1> DEFINE fr == Top(c)
           s == frames[c]
           x == ctx[c]
<1>1. at[c].pc = "callback" /\ ~ Fails(at[c]) /\ at[c].pc # "idle"
  BY DEF CallbackReturns, Fails
<1>2. WriterInv /\ CallOK(at[c], frames[c], ctx[c])
  BY DEF OutputInv, WriterInv
<1>3. s # << >> /\ Last(s).mode = "emit"
  BY <1>1, <1>2 DEF CallOK, InFrame
<1>4. /\ x \in CtxSet /\ s \in Seq(FrameSet) /\ Laid(s, x)
      /\ fr = Last(s) /\ fr \in FrameSet /\ (fr.kind # "json" => AtItem(s))
      /\ ~ Discarding(c) /\ ~ x.hard /\ Grammatical(at[c], s, x)
  BY <1>1, <1>3, TopFacts
<1>5. ASSUME NEW v \in Values, SerializerReturns(c, v) PROVE OutputKept
  <2>1. ctx' = [ctx EXCEPT ![c] = x] /\ fr.kind = "json"
    BY <1>2, <1>5 DEF SerializerReturns, WriterInv, Typed
  <2>2. CASE v = fr.node
    <3> DEFINE p == This(v, fr.depth)
    <3>1. frames' = [frames EXCEPT ![c] = Front(s)] /\ at' = [at EXCEPT ![c] = p]
      BY <1>5, <2>2 DEF SerializerReturns, Go
    <3>2. p.pc = "this" /\ p.depth = Last(s).depth
      BY <1>4, PointTypes
    <3> HIDE DEF p, s, x, fr
    <3>3. OutputOK(p, Front(s), x)
      BY <1>1, <1>3, <1>4, <2>1, <3>2, SerializerDone
    <3> QED BY <2>1, <3>1, <3>3, StepOutput
  <2>3. CASE v # fr.node
    <3> DEFINE p == Visit(v, fr.depth)
    <3>1. frames' = [frames EXCEPT ![c] = s] /\ at' = [at EXCEPT ![c] = p]
      BY <1>2, <1>5, <2>3 DEF SerializerReturns, Go, WriterInv, Typed
    <3>2. p.pc = "visit" /\ p.depth = Last(s).depth
      BY <1>4, PointTypes
    <3> HIDE DEF p, s, x, fr
    <3>3. OutputOK(p, s, x)
      BY <1>1, <1>3, <1>4, <2>1, <3>2, SerializerValue
    <3> QED BY <2>1, <3>1, <3>3, StepOutput
  <2> QED BY <2>2, <2>3
<1>6. ASSUME NEW v \in Values, HookReturns(c, v) PROVE OutputKept
  <2>1. Top(c).kind # "json" /\ EmitKeyAndVisit(c, ItemAt(Top(c)).key, v)
    BY <1>6 DEF HookReturns
  <2> QED BY <1>1, <1>3, <1>4, <2>1, EmitKeyOutput
<1>7. CASE HookReturnsUndef(c)
  <2> DEFINE nx == Advance(fr)
  <2>1. /\ fr.kind # "json" /\ SetTop(c, nx) /\ at' = [at EXCEPT ![c] = Walking]
        /\ UNCHANGED ctx
    BY <1>7 DEF HookReturnsUndef, Go
  <2>2. /\ nx \in FrameSet /\ nx.kind = fr.kind /\ nx.depth = fr.depth
        /\ nx.mode = fr.mode /\ nx.body = fr.body /\ nx.first = fr.first
    BY <1>4, FrameUpdates, FrameFields
  <2> HIDE DEF nx
  <2> QED BY <1>1, <1>3, <2>1, <2>2, AdvanceOutput
<1>8. CASE CallbackThrows(c)
  <2> DEFINE y == Outdent(x, fr)
             z == [y EXCEPT !.exc = TRUE]
             no == FALSE
  <2>1. ctx' = [ctx EXCEPT ![c] = z] /\ Leave(c, no)
    BY <1>8 DEF CallbackThrows
  <2>2. y \in CtxSet
    BY <1>4, Updates
  <2>3. /\ y.hard = x.hard /\ y.buf = x.buf
        /\ y.indent = IF Counts(fr) THEN x.indent - 1 ELSE x.indent
    <3>1. y = Outdent(x, fr)
      OBVIOUS
    <3> HIDE DEF y, fr, x
    <3> QED BY <1>4, <3>1, NamedUpdates
  <2> HIDE DEF y
  <2>4. z.hard = y.hard /\ z.buf = y.buf /\ z.indent = y.indent
    BY <2>2 DEF CtxSet
  <2>5. /\ no = FALSE /\ z.hard = ctx[c].hard /\ z.buf = ctx[c].buf
        /\ z.indent = IF Counts(Top(c)) THEN ctx[c].indent - 1 ELSE ctx[c].indent
    BY <2>3, <2>4
  <2> HIDE DEF z, no
  <2> QED BY <1>3, <2>1, <2>5, LeaveOutput
<1> QED
  BY <1>5, <1>6, <1>7, <1>8 DEF CallbackReturns

\* A call without frames that has written nothing, before it starts and at its start.
LEMMA FreshOutput ==
  ASSUME NEW partial \in BOOLEAN, NEW d \in Int, NEW p,
         \/ p.pc = "idle"
         \/ p.pc = "visit" /\ p.depth = d
  PROVE  OutputOK(p, << >>, NewCtx(partial, d))
<1> DEFINE x == NewCtx(partial, d)
           s == << >>
<1>1. ~ x.hard /\ x.buf = << >> /\ x.indent = 0 /\ x.depth = d
  BY DEF NewCtx
<1>2. Laid(s, x)
  <2>1. << >> \in Seq(Unfreed) /\ Bodiless(s)
    BY DEF Bodiless
  <2> QED BY <1>1, <2>1, NoBodies DEF Laid
<1>3. CASE p.pc = "idle"
  BY <1>2, <1>3, OutputIs
<1>4. CASE p.pc = "visit" /\ p.depth = d
  <2> DEFINE q == Parse(x.buf)
  <2>1. q.open = << >> /\ q.want = "val" /\ q.deep = 0
    BY <1>1, ParseOfNothing DEF ParseStart
  <2>2. OpenOf(s) = << >> /\ Len(OpenOf(s)) = 0
    BY NoBrackets
  <2>3. Unspent(s, x.depth)
    BY DEF Unspent
  <2> HIDE DEF q, x
  <2>4. Wanted(p, s, q)
    BY <1>4, <2>1 DEF Wanted, ValueDue
  <2> HIDE DEF s
  <2>5. p.depth + Len(OpenOf(s)) = x.depth
    BY <1>1, <1>4, <2>2
  <2>6. q = Parse(x.buf)
    BY DEF q
  <2>7. OutputOK(p, s, x)
    BY <1>2, <2>1, <2>2, <2>3, <2>4, <2>5, <2>6, WroteOK DEF s
  <2> QED BY <2>7 DEF s, x
<1> QED BY <1>3, <1>4

LEMMA StartOutput ==
  ASSUME OutputInv, NEW c \in Calls, Start(c)
  PROVE  OutputKept
<1>1. PICK v \in Values, partial \in BOOLEAN, d \in Depths :
        Go(c, Visit(v, d)) /\ ctx' = [ctx EXCEPT ![c] = NewCtx(partial, d)]
  BY DEF Start
<1>2. d \in Int
  BY HeapAssumption
<1>3. at[c] = Idle /\ UNCHANGED frames
  BY DEF Start
<1>4. frames[c] = << >> /\ frames' = [frames EXCEPT ![c] = << >>]
  <2>1. frames[c] = << >>
    BY <1>3, PointTypes DEF OutputInv, WriterInv, CallOK, InFrame
  <2> QED BY <1>3, <2>1 DEF OutputInv, WriterInv, Typed
<1>5. Visit(v, d).pc = "visit" /\ Visit(v, d).depth = d
  BY PointTypes
<1>6. OutputOK(Visit(v, d), << >>, NewCtx(partial, d))
  BY <1>2, <1>5, FreshOutput
<1> QED BY <1>1, <1>4, <1>6, StepOutput DEF Go

LEMMA FinishOutput ==
  ASSUME OutputInv, NEW c \in Calls, Finish(c)
  PROVE  OutputKept /\ ReturnedJson'
<1> DEFINE x == ctx[c]
           p == at[c]
           s == frames[c]
<1>1. /\ p.pc = "ret" /\ s = << >> /\ UNCHANGED frames
      /\ at' = [at EXCEPT ![c] = Idle] /\ ctx' = [ctx EXCEPT ![c] = NewCtx(FALSE, 0)]
      /\ ret'.made = Made(c, p.ok) /\ ret'.buf = x.buf /\ ret'.depth = x.depth
  BY DEF Finish, Go
<1>2. OutputKept
  <2>1. frames' = [frames EXCEPT ![c] = << >>]
    BY <1>1 DEF OutputInv, WriterInv, Typed
  <2>2. PICK partial \in BOOLEAN : partial = FALSE
    BY Zenon
  <2>3. PICK d \in Int : d = 0
    OBVIOUS
  <2>4. OutputOK(Idle, << >>, NewCtx(partial, d))
    BY PointTypes, FreshOutput
  <2>5. OutputOK(Idle, << >>, NewCtx(FALSE, 0))
    BY <2>2, <2>3, <2>4
  <2> QED BY <1>1, <2>1, <2>5, StepOutput
<1>3. ReturnedJson'
  <2> DEFINE q == Parse(x.buf)
  <2>1. SUFFICES ASSUME Made(c, p.ok)
                 PROVE  q.want = "end" /\ (q.deep > 0 => q.deep <= x.depth)
    BY <1>1 DEF ReturnedJson
  <2>2. p.pc # "idle" /\ ~ x.hard /\ ~ Fails(p)
    BY <1>1, <2>1 DEF Made, Fails
  <2>3. Grammatical(p, s, x)
    BY <2>2, CallFacts
  <2>4. Reading(s, x) /\ Wanted(p, s, q)
    BY <2>3, OutputIs
  <2>5. q.open = << >>
    BY <1>1, <2>4, NoBrackets DEF Reading
  <2>6. q.want = "end"
    BY <1>1, <2>4, <2>5 DEF Wanted, AfterValue
  <2> QED BY <2>4, <2>6 DEF Reading
<1> QED BY <1>2, <1>3

LEMMA InitOutput == Init => OutputInv
<1> SUFFICES ASSUME Init PROVE OutputInv
  OBVIOUS
<1>1. WriterInv
  BY InitWriterInv
<1>2. ReturnedJson
  BY DEF Init, ReturnedJson
<1>3. ASSUME NEW c \in Calls PROVE OutputOK(at[c], frames[c], ctx[c])
  <2>1. at[c] = Idle /\ frames[c] = << >> /\ ctx[c] = NewCtx(FALSE, 0)
    BY DEF Init
  <2>2. PICK partial \in BOOLEAN : partial = FALSE
    BY Zenon
  <2>3. PICK d \in Int : d = 0
    OBVIOUS
  <2>4. OutputOK(Idle, << >>, NewCtx(partial, d))
    BY PointTypes, FreshOutput
  <2> QED BY <2>1, <2>2, <2>3, <2>4
<1> QED BY <1>1, <1>2, <1>3 DEF OutputInv

LEMMA NothingReturned ==
  ASSUME ret' = NoReturn
  PROVE  ReturnedJson'
BY DEF ReturnedJson

LEMMA OutputStep ==
  ASSUME OutputInv, Next
  PROVE  OutputKept /\ ReturnedJson'
<1>1. PICK c \in Calls : Start(c) \/ Run(c) \/ CallbackReturns(c)
  BY DEF Next
<1>2. CASE Start(c)
  BY <1>2, StartOutput, NothingReturned DEF Start
<1>3. CASE EncodeValue(c) \/ EncodeThis(c)
  BY <1>3, EncodeOutput, NothingReturned DEF EncodeValue, EncodeThis, Proceed
<1>4. CASE Walk(c)
  BY <1>4, WalkOutput, NothingReturned DEF Walk, Proceed
<1>5. CASE ValueReturns(c)
  BY <1>5, ReturnsOutput, NothingReturned DEF ValueReturns, Proceed
<1>6. CASE Finish(c)
  BY <1>6, FinishOutput
<1>7. CASE CallbackReturns(c)
  BY <1>7, CallbackOutput, NothingReturned DEF CallbackReturns, Proceed
<1> QED
  BY <1>1, <1>2, <1>3, <1>4, <1>5, <1>6, <1>7 DEF Run

(***************************************************************************)
(* The text each call has written so far, read by the grammar: the brackets*)
(* it leaves open are those of the call's frames, what may come next is    *)
(* what the call is about to write, and a frame's depth is what is left of *)
(* $depth below its brackets; what a call returned is complete.            *)
(***************************************************************************)
THEOREM OutputInvariant == Spec => []OutputInv
<1>1. Spec => []WriterInv
  BY WriterInvariant
<1>2. Init => OutputInv
  BY InitOutput
<1>3. OutputInv /\ WriterInv' /\ [Next]_vars => OutputInv'
  <2> SUFFICES ASSUME OutputInv, WriterInv', [Next]_vars PROVE OutputInv'
    OBVIOUS
  <2>1. CASE Next
    BY <2>1, OutputStep DEF OutputKept, OutputInv
  <2>2. CASE UNCHANGED vars
    BY <2>2 DEF vars, OutputInv, ReturnedJson
  <2> QED BY <2>1, <2>2
<1> QED
  BY <1>1, <1>2, <1>3, PTL DEF Spec

(***************************************************************************)
(* Whatever the heap, the depth and the interleaving of calls: a result is *)
(* grammatical JSON nested no deeper than $depth, partial output included; *)
(* the indent follows the open bodies, and the buffer freed at a hard      *)
(* error is not written to.                                                *)
(***************************************************************************)
THEOREM OutputIsGrammatical == Spec => []OutputIsJson
<1>1. OutputInv => OutputIsJson
  <2> SUFFICES ASSUME OutputInv PROVE OutputIsJson
    OBVIOUS
  <2>1. ASSUME NEW c \in Calls
        PROVE  /\ ctx[c].hard <=> ctx[c].buf = Freed
               /\ ctx[c].indent = OpenBodies(frames[c])
    <3>1. Laid(frames[c], ctx[c])
      BY CallFacts
    <3>2. Freed \notin Seq(Unfreed)
      BY DEF Freed, Unfreed
    <3> QED BY <3>1, <3>2 DEF Laid
  <2> QED BY <2>1 DEF OutputIsJson, IndentMatchesNesting, OutputInv
<1> QED
  BY <1>1, OutputInvariant, PTL
=============================================================================
