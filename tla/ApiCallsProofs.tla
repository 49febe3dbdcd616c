--------------------------- MODULE ApiCallsProofs ---------------------------
(***************************************************************************)
(* The error contract for any number of fibers, any depth of nesting and   *)
(* any set of error codes.  The argument: a result is Good when it keeps   *)
(* the contract for the call it ends; every outcome of every function is   *)
(* Good, given that a waiting frame still holds the state of its entry;    *)
(* and no step disturbs a frame that is not its own.                       *)
(***************************************************************************)
EXTENDS ApiCalls, TLAPS

\* A result that, returned by a call entered in state `entry', keeps the contract.
Good(throw, entry, r) ==
  /\ r.err \in Errors /\ r.own \in Errors /\ OffsetOK(r.err)
  /\ (\/ r.kind = "partial"
      \/ ~ throw /\ r.kind \in {"ok", "fail", "absent", "io", "user", "stream"})
       => r.err = r.own
  /\ throw /\ r.kind \in {"ok", "exc", "stream"} => r.err = entry
  /\ r.kind = "exc" => throw /\ r.thrown = r.own.code /\ r.thrown # None
  /\ r.kind = "io" => r.err.code = "SYNTAX" /\ r.err.pos = NoPos
  /\ r.kind = "absent" => r.err = NoError

Sound(e) == e \in Errors /\ OffsetOK(e)

-----------------------------------------------------------------------------
(* The setters. *)

LEMMA NoPosIsInt == NoPos \in Int
BY DEF NoPos

\* Error states are equal when their fields are.
LEMMA SameError ==
  ASSUME NEW a \in Errors, NEW b \in Errors, a.code = b.code, a.pos = b.pos
  PROVE  a = b
BY DEF Errors

LEMMA StateOfSound ==
  ASSUME NEW c \in Codes
  PROVE  Sound(StateOf(c)) /\ Sound(NoError)
BY NoPosIsInt DEF Sound, StateOf, NoError, Errors, Codes, None, OffsetOK

\* Setting a code on any error state gives that code without an offset.
LEMMA SetCode ==
  ASSUME NEW g \in Errors, NEW c \in Codes
  PROVE  set_error_code(g, c) = StateOf(c)
<1>1. set_error_code(g, c) \in Errors /\ StateOf(c) \in Errors
  BY NoPosIsInt DEF set_error_code, StateOf, Errors
<1>2. set_error_code(g, c).code = c /\ set_error_code(g, c).pos = NoPos
  BY NoPosIsInt DEF set_error_code, Errors
<1>3. StateOf(c).code = c /\ StateOf(c).pos = NoPos
  BY DEF StateOf
<1> QED
  BY <1>1, <1>2, <1>3, SameError

LEMMA Clear ==
  ASSUME NEW g \in Errors
  PROVE  clear_error(g) = NoError
BY SetCode DEF clear_error, StateOf, NoError, Codes

LEMMA ReadStateSound ==
  ASSUME NEW g \in Errors, NEW e \in ReadErrs
  PROVE  /\ set_read_error(g, e) = ReadState(e)
         /\ Sound(ReadState(e))
         /\ ReadState(e).code = translate_read_code(e.code)
         /\ translate_read_code(e.code) # None
<1>1. translate_read_code(e.code) \in Codes /\ translate_read_code(e.code) # None
  BY DEF translate_read_code, Codes, None
<1>2. e.pos \in Int
  BY ErrorAssumption
<1>3. ReadState(e) \in Errors /\ ReadState(e).code = translate_read_code(e.code)
      /\ ReadState(e).pos = e.pos
  BY <1>1, <1>2 DEF ReadState, Errors
<1>4. set_read_error(g, e) \in Errors
      /\ set_read_error(g, e).code = translate_read_code(e.code)
      /\ set_read_error(g, e).pos = e.pos
  BY <1>1, <1>2 DEF set_read_error, Errors
<1> QED
  BY <1>1, <1>3, <1>4, SameError DEF Sound, OffsetOK

\* Entering leaves a sound state: the old one, or none.
LEMMA Entered ==
  ASSUME NEW e, Sound(e), NEW throw \in BOOLEAN
  PROVE  /\ Sound(throw_mode_init(throw, e))
         /\ throw => throw_mode_init(throw, e) = e
         /\ ~ throw => throw_mode_init(throw, e) = NoError
BY Clear, StateOfSound DEF throw_mode_init, Sound, Codes

-----------------------------------------------------------------------------
(* The building blocks of the entry points give Good results. *)

LEMMA GoodReadFailed ==
  ASSUME NEW throw \in BOOLEAN, NEW s, Sound(s), NEW g \in Errors, NEW e \in ReadErrs
  PROVE  Good(throw, s, ReadFailed(throw, s, g, e))
<1>1. /\ set_read_error(g, e) = ReadState(e) /\ Sound(ReadState(e))
      /\ ReadState(e).code = translate_read_code(e.code)
      /\ translate_read_code(e.code) # None
  BY ReadStateSound
<1> QED
  BY <1>1 DEF Good, ReadFailed, throw_error, Result, Sound

LEMMA GoodSplice ==
  ASSUME NEW throw \in BOOLEAN, NEW s, Sound(s), NEW g \in Errors, NEW c \in SpliceErrs
  PROVE  Good(throw, s, splice_dispatch_error(throw, s, g, c))
<1>1. c \in Codes /\ c # None
  BY ErrorAssumption DEF Codes
<1>2. set_error_code(g, c) = StateOf(c) /\ Sound(StateOf(c)) /\ StateOf(c).code = c
  BY <1>1, SetCode, StateOfSound DEF StateOf
<1> QED
  BY <1>1, <1>2 DEF Good, splice_dispatch_error, throw_error, Result, Sound

LEMMA GoodWalkFailed ==
  ASSUME NEW throw \in BOOLEAN, NEW s, Sound(s), NEW g \in Errors,
         NEW c \in WalkErrs \cup {"DEPTH"}
  PROVE  Good(throw, s, WalkFailed(throw, s, g, c))
<1>1. c \in Codes /\ c # None
  BY ErrorAssumption DEF Codes, None
<1>2. set_error_code(g, c) = StateOf(c) /\ Sound(StateOf(c)) /\ StateOf(c).code = c
  BY <1>1, SetCode, StateOfSound DEF StateOf
<1> QED
  BY <1>1, <1>2 DEF Good, WalkFailed, throw_error, Result, Sound

\* A finished walk is Good when throw mode still holds the entry state.
LEMMA GoodFinish ==
  ASSUME NEW throw \in BOOLEAN, NEW s, Sound(s), NEW g \in Errors,
         throw => g = s, NEW w \in WalkErrs \cup {None}
  PROVE  Good(throw, s, finish_decode(throw, s, g, w))
<1>1. CASE w = None
  <2>1. clear_error(g) = NoError /\ Sound(NoError)
    BY Clear, StateOfSound DEF Codes
  <2> QED
    BY <1>1, <2>1 DEF finish_decode, WalkDone, Result, Good, Sound
<1>2. CASE w # None
  BY <1>2, GoodWalkFailed DEF finish_decode
<1> QED
  BY <1>1, <1>2

\* The parts the entry points are assembled from.
LEMMA GoodParts ==
  ASSUME NEW throw \in BOOLEAN, NEW e, Sound(e)
  PROVE  /\ Good(throw, e, DepthRejected(throw, e))
         /\ \A r \in Walked(throw, e) : Good(throw, e, r)
         /\ \A r \in Unread(throw, e) : Good(throw, e, r)
         /\ \A r \in Misdirected(throw, e) : Good(throw, e, r)
         /\ Good(throw, e, Absent(throw, e))
<1> DEFINE g == throw_mode_init(throw, e)
<1>1. Sound(g) /\ g \in Errors /\ (throw => g = e) /\ Sound(NoError) /\ clear_error(e) = NoError
  BY Entered, StateOfSound, Clear DEF Sound, Codes
<1>2. Good(throw, e, DepthRejected(throw, e))
  BY <1>1 DEF DepthRejected, Good, Result, Sound
<1>3. \A r \in Walked(throw, e) : Good(throw, e, r)
  BY <1>1, GoodFinish DEF Walked
<1>4. \A r \in Unread(throw, e) : Good(throw, e, r)
  BY <1>1, GoodReadFailed DEF Unread
<1>5. \A r \in Misdirected(throw, e) : Good(throw, e, r)
  BY <1>1, GoodSplice DEF Misdirected
<1>6. Good(throw, e, Absent(throw, e))
  BY <1>1 DEF Absent, Good, Result, Sound
<1> QED
  BY <1>2, <1>3, <1>4, <1>5, <1>6

-----------------------------------------------------------------------------
(* Every outcome of every function is Good. *)

LEMMA GoodAtomic ==
  ASSUME NEW throw \in BOOLEAN, NEW e, Sound(e)
  PROVE  /\ \A r \in fastjson_decode(throw, e) : Good(throw, e, r)
         /\ \A r \in fastjson_pointer_get(throw, e) : Good(throw, e, r)
         /\ \A r \in fastjson_pointer_exists(throw, e) : Good(throw, e, r)
         /\ \A r \in fastjson_merge_patch(throw, e) : Good(throw, e, r)
         /\ Good(throw, e, Result(e, "value", NoError))
<1>1. Sound(throw_mode_init(throw, e)) /\ Sound(NoError)
      /\ (throw => throw_mode_init(throw, e) = e)
      /\ (~ throw => throw_mode_init(throw, e) = NoError)
  BY Entered, StateOfSound DEF Codes
<1>2. \A r \in fastjson_decode(throw, e) : Good(throw, e, r)
  BY GoodParts DEF fastjson_decode
<1>3. \A r \in fastjson_pointer_get(throw, e) : Good(throw, e, r)
  BY GoodParts DEF fastjson_pointer_get
<1>4. \A r \in fastjson_pointer_exists(throw, e) : Good(throw, e, r)
  <2>1. Good(throw, e, Result(throw_mode_init(throw, e), "ok", NoError))
    BY <1>1 DEF Good, Result, Sound
  <2> QED
    BY <2>1, GoodParts DEF fastjson_pointer_exists
<1>5. \A r \in fastjson_merge_patch(throw, e) : Good(throw, e, r)
  <2>1. Good(throw, e, WalkFailed(throw, e, throw_mode_init(throw, e), "DEPTH"))
    BY <1>1, GoodWalkFailed DEF Sound
  <2> QED
    BY <2>1, GoodParts DEF fastjson_merge_patch
<1>6. Good(throw, e, Result(e, "value", NoError))
  BY <1>1 DEF Good, Result, Sound
<1> QED
  BY <1>2, <1>3, <1>4, <1>5, <1>6

LEMMA GoodValidate ==
  ASSUME NEW e, Sound(e), NEW r \in fastjson_validate(FALSE, e)
  PROVE  Good(FALSE, e, r)
<1>1. e \in Errors /\ clear_error(e) = NoError /\ Sound(NoError)
  BY Clear, StateOfSound DEF Sound, Codes
<1>2. set_error_code(e, "DEPTH") = StateOf("DEPTH") /\ Sound(StateOf("DEPTH"))
  BY <1>1, SetCode, StateOfSound DEF Codes
<1>3. CASE r \in {Result(e, "value", NoError), Result(clear_error(e), "value", NoError)}
  BY <1>1, <1>3 DEF Good, Result, Sound
<1>4. ASSUME NEW x \in ReadErrs, r = Result(set_read_error(e, x), "fail", ReadState(x))
      PROVE  Good(FALSE, e, r)
  <2>1. set_read_error(e, x) = ReadState(x) /\ Sound(ReadState(x))
    BY <1>1, ReadStateSound
  <2> QED
    BY <1>4, <2>1 DEF Good, Result, Sound
<1>5. CASE r = Result(set_error_code(e, "DEPTH"), "fail", StateOf("DEPTH"))
  BY <1>2, <1>5 DEF Good, Result, Sound
<1>6. CASE r = Result(clear_error(e), "ok", NoError)
  BY <1>1, <1>6 DEF Good, Result, Sound
<1> QED
  BY <1>3, <1>4, <1>5, <1>6 DEF fastjson_validate

-----------------------------------------------------------------------------
(* Calls that return, go on and begin. *)

\* Returning a Good result keeps the contract.
LEMMA Returned ==
  ASSUME NEW throw \in BOOLEAN, NEW entry \in Errors, NEW r, Good(throw, entry, r),
         err' = r.err, ret' = Report(throw, entry, r)
  PROVE  /\ Contract' /\ OffsetMatchesCode'
         /\ err' \in Errors /\ ret'.own \in Errors /\ ret'.entry \in Errors
<1>1. /\ ret'.throw = throw /\ ret'.kind = r.kind /\ ret'.own = r.own
      /\ ret'.thrown = r.thrown /\ (throw => ret'.entry = entry)
      /\ ret'.entry \in Errors
  BY StateOfSound DEF Report, Sound, Codes
<1>2. ReportsOwnOutcome'
  BY <1>1 DEF Good, ReportsOwnOutcome
<1>3. ThrowModePreserves'
  BY <1>1 DEF Good, ThrowModePreserves
<1>4. ThrowsOwnCode'
  BY <1>1 DEF Good, ThrowsOwnCode
<1>5. IoAndAbsentAreSignalled'
  BY <1>1 DEF Good, IoAndAbsentAreSignalled
<1> QED
  BY <1>1, <1>2, <1>3, <1>4, <1>5 DEF Good, Contract, OffsetMatchesCode, OffsetOK

\* Between calls there is nothing to report.
LEMMA Quiet ==
  ASSUME ret' = NoCall
  PROVE  Contract' /\ ret'.own \in Errors /\ ret'.entry \in Errors
<1>1. /\ ret'.kind = "none" /\ ~ ret'.throw
      /\ ret'.own \in Errors /\ ret'.entry \in Errors
  BY StateOfSound DEF NoCall, Sound, Codes
<1> QED
  BY <1>1 DEF Contract, ReportsOwnOutcome, ThrowModePreserves, ThrowsOwnCode,
              IoAndAbsentAreSignalled

LEMMA AtomicKeeps ==
  ASSUME ApiInv, NEW throw \in BOOLEAN, NEW outcomes,
         \A r \in outcomes : Good(throw, err, r), Atomic(throw, outcomes)
  PROVE  ApiInv'
<1>1. PICK r \in outcomes : err' = r.err /\ ret' = Report(throw, err, r)
  BY DEF Atomic
<1>2. stack' = stack /\ cur' = cur
  BY DEF Atomic
<1>3. err \in Errors
  BY DEF ApiInv, TypeOK
<1>4. Contract' /\ OffsetMatchesCode' /\ err' \in Errors /\ ret'.own \in Errors
      /\ ret'.entry \in Errors
  BY <1>1, <1>3, Returned
<1>5. TypeOK'
  BY <1>2, <1>4 DEF ApiInv, TypeOK
<1>6. FramesOK'
  BY <1>2 DEF ApiInv, FramesOK
<1> QED
  BY <1>4, <1>5, <1>6 DEF ApiInv

\* The frame that resumes.
LEMMA TopFrame ==
  ASSUME ApiInv, InCallback
  PROVE  /\ cur \in Fibers /\ Len(stack[cur]) \in Nat \ {0}
         /\ stack[cur] \in Seq(Frame)
         /\ FrameOK(Top) /\ Top.throw \in BOOLEAN
         /\ Top.saved = Top.entry /\ Sound(Top.saved) /\ Top.own \in WriterErrs
         /\ Sound(err)
<1>1. cur \in Fibers /\ stack[cur] \in Seq(Frame) /\ Len(stack[cur]) \in Nat \ {0}
  BY DEF ApiInv, TypeOK, InCallback
<1>2. FrameOK(Top)
  BY <1>1 DEF ApiInv, FramesOK, Top
<1>3. Sound(err)
  BY DEF ApiInv, TypeOK, OffsetMatchesCode, Sound
<1> QED
  BY <1>1, <1>2, <1>3 DEF FrameOK, Frame, Sound

LEMMA LeaveKeeps ==
  ASSUME ApiInv, InCallback, NEW r, Good(Top.throw, Top.saved, r), Leave(r)
  PROVE  ApiInv'
<1>1. /\ cur \in Fibers /\ Len(stack[cur]) \in Nat \ {0} /\ stack[cur] \in Seq(Frame)
      /\ Top.throw \in BOOLEAN /\ Top.entry = Top.saved /\ Top.entry \in Errors
  BY TopFrame DEF Sound
<1>2. Contract' /\ OffsetMatchesCode' /\ err' \in Errors /\ ret'.own \in Errors
      /\ ret'.entry \in Errors
  BY <1>1, Returned DEF Leave
<1>3. /\ Front(stack[cur]) \in Seq(Frame) /\ Len(Front(stack[cur])) = Len(stack[cur]) - 1
      /\ \A i \in 1 .. Len(stack[cur]) - 1 : Front(stack[cur])[i] = stack[cur][i]
  BY <1>1 DEF Front
<1>4. stack' = [stack EXCEPT ![cur] = Front(stack[cur])] /\ cur' = cur
  BY DEF Leave
<1>5. TypeOK'
  BY <1>1, <1>2, <1>3, <1>4 DEF ApiInv, TypeOK
<1>6. FramesOK'
  <2>1. SUFFICES ASSUME NEW f \in Fibers, NEW i \in 1 .. Len(stack'[f])
                 PROVE  FrameOK(stack'[f][i])
    BY DEF FramesOK, FrameOK, OffsetOK, WriterErrs
  <2>5. /\ stack \in [Fibers -> Seq(Frame)]
        /\ \A g \in Fibers : \A j \in 1 .. Len(stack[g]) : FrameOK(stack[g][j])
    BY DEF ApiInv, FramesOK, TypeOK
  <2>2. CASE f = cur
    <3>1. stack'[f] = Front(stack[cur])
      BY <1>4, <2>5, <2>2
    <3>2. i \in 1 .. Len(stack[cur]) - 1
      BY <1>3, <3>1
    <3>3. i \in 1 .. Len(stack[cur]) /\ stack'[f][i] = stack[cur][i]
      BY <1>1, <1>3, <3>1, <3>2
    <3> QED
      BY <1>1, <2>5, <3>3
  <2>3. CASE f # cur
    <3>1. stack'[f] = stack[f]
      BY <1>4, <2>5, <2>3
    <3> QED
      BY <2>5, <3>1
  <2> QED
    BY <2>2, <2>3
<1> QED
  BY <1>2, <1>5, <1>6 DEF ApiInv

\* Pushing or replacing the innermost frame, with a consistent one.
LEMMA FramesKept ==
  ASSUME ApiInv, NEW s \in Seq(Frame), \A i \in 1 .. Len(s) : FrameOK(s[i]),
         stack' = [stack EXCEPT ![cur] = s], cur' = cur, Sound(err'), ret' = NoCall
  PROVE  ApiInv'
<1>1. Contract' /\ ret'.own \in Errors /\ ret'.entry \in Errors
  BY Quiet
<1>2. TypeOK'
  BY <1>1 DEF ApiInv, TypeOK, Sound
<1>3. FramesOK'
  <2>1. SUFFICES ASSUME NEW f \in Fibers, NEW i \in 1 .. Len(stack'[f])
                 PROVE  FrameOK(stack'[f][i])
    BY DEF FramesOK, FrameOK, OffsetOK, WriterErrs
  <2> QED
    BY DEF ApiInv, FramesOK, TypeOK
<1> QED
  BY <1>1, <1>2, <1>3 DEF ApiInv, OffsetMatchesCode, Sound, OffsetOK

LEMMA EnterKeeps ==
  ASSUME ApiInv, NEW fn \in Callers, NEW throw \in BOOLEAN, NEW phase \in Phases,
         phase # "encoding" => fn \in {"file_encode", "file_decode"},
         Enter(fn, throw, phase)
  PROVE  ApiInv'
<1> DEFINE fr == [fn |-> fn, throw |-> throw, saved |-> err, own |-> NoError,
                  phase |-> phase, entry |-> err]
<1>1. Sound(err) /\ cur \in Fibers /\ stack[cur] \in Seq(Frame)
  BY DEF ApiInv, TypeOK, OffsetMatchesCode, Sound
<1>2. Sound(NoError) /\ NoError \in WriterErrs
  BY StateOfSound DEF Codes, WriterErrs
<1>3. fr \in Frame
  BY <1>1, <1>2 DEF Frame, Sound
<1>4. FrameOK(fr)
  BY <1>1, <1>2, <1>3 DEF FrameOK, Sound
<1> HIDE DEF fr
<1>5. Append(stack[cur], fr) \in Seq(Frame)
  BY <1>1, <1>3
<1>6. \A i \in 1 .. Len(Append(stack[cur], fr)) : FrameOK(Append(stack[cur], fr)[i])
  BY <1>1, <1>4 DEF ApiInv, FramesOK
<1>7. Sound(err')
  BY <1>1, Entered DEF Enter
<1>8. stack' = [stack EXCEPT ![cur] = Append(stack[cur], fr)] /\ cur' = cur /\ ret' = NoCall
  BY DEF Enter, fr
<1> QED
  BY <1>5, <1>6, <1>7, <1>8, FramesKept

LEMMA GoOnKeeps ==
  ASSUME ApiInv, InCallback, NEW own \in WriterErrs, NEW phase \in Phases, NEW e,
         Top.throw /\ phase # "encoding" => own = NoError,
         phase # "encoding" => Top.fn \in {"file_encode", "file_decode"},
         Sound(e), GoOn(own, phase, e)
  PROVE  ApiInv'
<1> DEFINE n  == Len(stack[cur])
           fr == [Top EXCEPT !.own = own, !.phase = phase]
           s  == [stack[cur] EXCEPT ![n] = fr]
<1>1. /\ cur \in Fibers /\ n \in Nat \ {0} /\ stack[cur] \in Seq(Frame)
      /\ FrameOK(Top) /\ Top \in Frame
  BY TopFrame DEF FrameOK
<1>2. own \in Errors
  BY StateOfSound DEF WriterErrs, Codes, Sound
<1>3. fr \in Frame
  BY <1>1, <1>2 DEF Frame
<1>4. fr.fn = Top.fn /\ fr.throw = Top.throw /\ fr.saved = Top.saved
      /\ fr.entry = Top.entry /\ fr.own = own
  BY <1>1 DEF Frame
<1>5. FrameOK(fr)
  BY <1>1, <1>3, <1>4 DEF FrameOK
<1>6. stack' = [stack EXCEPT ![cur] = s] /\ cur' = cur /\ ret' = NoCall /\ err' = e
  BY DEF GoOn, Top
<1> HIDE DEF fr
<1>7. s \in Seq(Frame) /\ Len(s) = n /\ s[n] = fr
      /\ \A i \in 1 .. n : i # n => s[i] = stack[cur][i]
  BY <1>1, <1>3
<1>8. \A i \in 1 .. Len(s) : FrameOK(s[i])
  BY <1>1, <1>5, <1>7 DEF ApiInv, FramesOK
<1> QED
  BY <1>6, <1>7, <1>8, FramesKept

-----------------------------------------------------------------------------
(* One lemma per way a waiting frame resumes. *)

\* An error of the direct writer has a code and no offset.
LEMMA WriterError ==
  ASSUME NEW own \in WriterErrs
  PROVE  /\ Sound(own) /\ own \in Errors
         /\ own # NoError => own.code # None
         /\ NoError.code = None
<1>1. CASE own = NoError
  BY <1>1, StateOfSound DEF Codes, Sound, NoError
<1>2. CASE own # NoError
  BY <1>2, StateOfSound, ErrorAssumption DEF WriterErrs, Codes, Sound, StateOf, NoError
<1> QED
  BY <1>1, <1>2

LEMMA EncodeResumes ==
  ASSUME ApiInv, InCallback, NEW own \in WriterErrs, NEW made \in BOOLEAN,
         WriterEnds(own, made), Top.fn # "pointer_set"
  PROVE  /\ made => Good(Top.throw, Top.saved, Encoded(do_encode(own), own))
         /\ ~ made => Good(Top.throw, Top.saved, EncodeFailed(own))
         /\ Sound(do_encode(own))
         /\ made /\ Top.throw => own = NoError
<1>1. Top.throw \in BOOLEAN /\ Sound(Top.saved)
  BY TopFrame
<1>2. Sound(own) /\ (own # NoError => own.code # None)
  BY WriterError
<1>3. Sound(do_encode(own)) /\ (~ Top.throw => do_encode(own) = own)
      /\ (Top.throw => do_encode(own) = Top.saved)
  BY <1>1, <1>2 DEF do_encode
<1>4. made /\ Top.throw => own = NoError
  BY DEF WriterEnds
<1>5. made => Good(Top.throw, Top.saved, Encoded(do_encode(own), own))
  BY <1>1, <1>2, <1>3, <1>4 DEF Encoded, Result, Good, Sound
<1>6. ~ made => Good(Top.throw, Top.saved, EncodeFailed(own))
  BY <1>1, <1>2, <1>3 DEF WriterEnds, EncodeFailed, throw_error, Result, Good, Sound
<1> QED
  BY <1>3, <1>4, <1>5, <1>6

LEMMA EncoderKeeps ==
  ASSUME ApiInv, EncoderMeetsError \/ EncodeReturns \/ FileEncodeEncodes \/ EncoderThrows
  PROVE  ApiInv'
<1>0. CASE EncoderMeetsError
  <2>1. InCallback
    BY <1>0 DEF EncoderMeetsError
  <2>2. PICK c \in EncodeErrs : GoOn(StateOf(c), "encoding", set_error_code(err, c))
    BY <1>0 DEF EncoderMeetsError
  <2>3. c \in Codes /\ StateOf(c) \in WriterErrs
    BY DEF Codes, WriterErrs
  <2>4. set_error_code(err, c) = StateOf(c) /\ Sound(StateOf(c))
    BY <2>1, <2>3, TopFrame, SetCode, StateOfSound DEF Sound
  <2> QED
    BY <2>1, <2>2, <2>3, <2>4, GoOnKeeps DEF Phases
<1>1. CASE EncodeReturns
  BY <1>1, EncodeResumes, LeaveKeeps DEF EncodeReturns
<1>2. CASE FileEncodeEncodes
  <2>1. PICK own \in WriterErrs, made \in BOOLEAN :
          /\ WriterEnds(own, made)
          /\ IF made THEN GoOn(own, "opening", do_encode(own)) ELSE Leave(EncodeFailed(own))
    BY <1>2 DEF FileEncodeEncodes
  <2>2. InCallback /\ Top.fn = "file_encode"
    BY <1>2 DEF FileEncodeEncodes
  <2>3. CASE made
    BY <2>1, <2>2, <2>3, EncodeResumes, GoOnKeeps DEF Phases
  <2>4. CASE ~ made
    BY <2>1, <2>2, <2>4, EncodeResumes, LeaveKeeps
  <2> QED
    BY <2>3, <2>4
<1>3. CASE EncoderThrows
  <2>1. InCallback
    BY <1>3 DEF EncoderThrows
  <2>2. Sound(Top.own) /\ Sound(err) /\ Top.throw \in BOOLEAN
    BY <2>1, TopFrame, WriterError
  <2>3. Good(Top.throw, Top.saved, Result(IF Top.throw THEN err ELSE Top.own, "user", Top.own))
    BY <2>2 DEF Good, Result, Sound
  <2> QED
    BY <1>3, <2>1, <2>3, LeaveKeeps DEF EncoderThrows
<1> QED
  BY <1>0, <1>1, <1>2, <1>3

LEMMA StreamKeeps ==
  ASSUME ApiInv, StreamThrows \/ StreamFails \/ StreamOpened \/ FileEncodeReturns
  PROVE  ApiInv'
<1>1. InCallback
  BY DEF StreamThrows, StreamFails, StreamOpened, FileEncodeReturns
<1>2. /\ Top.throw \in BOOLEAN /\ Sound(Top.saved) /\ Top.own \in WriterErrs
      /\ Sound(err) /\ Sound(Top.own) /\ FrameOK(Top)
  BY <1>1, TopFrame, WriterError
<1>3. Sound(Restored) /\ (Top.throw => Restored = Top.saved) /\ (~ Top.throw => Restored = Top.own)
  BY <1>2 DEF Restored
<1>4. Top.throw => Top.own = NoError
  BY <1>2 DEF FrameOK, StreamThrows, StreamFails, StreamOpened, FileEncodeReturns
<1>5. CASE StreamThrows
  <2>1. Good(Top.throw, Top.saved, Result(Restored, "stream", Top.own))
    BY <1>2, <1>3 DEF Good, Result, Sound
  <2> QED
    BY <1>1, <1>5, <2>1, LeaveKeeps DEF StreamThrows
<1>6. CASE StreamFails
  <2>1. set_error_code(err, "SYNTAX") = IoError /\ Sound(IoError)
        /\ IoError.code = "SYNTAX" /\ IoError.pos = NoPos
    <3>1. "SYNTAX" \in Codes
      BY DEF Codes
    <3> QED
      BY <1>2, <3>1, SetCode, StateOfSound DEF IoError, Sound, StateOf
  <2>2. Good(Top.throw, Top.saved, Result(set_error_code(err, "SYNTAX"), "io", IoError))
    BY <1>2, <2>1 DEF Good, Result, Sound
  <2> QED
    BY <1>1, <1>6, <2>2, LeaveKeeps DEF StreamFails
<1>7. CASE StreamOpened
  BY <1>1, <1>2, <1>4, <1>7, GoOnKeeps DEF StreamOpened, FrameOK, Phases
<1>8. CASE FileEncodeReturns
  <2>1. Good(Top.throw, Top.saved, Encoded(Restored, Top.own))
    BY <1>2, <1>3, <1>4 DEF Good, Encoded, Result, Sound
  <2> QED
    BY <1>1, <1>8, <2>1, LeaveKeeps DEF FileEncodeReturns
<1> QED
  BY <1>5, <1>6, <1>7, <1>8

\* file_decode puts the entry state back over what the stream's code left.
LEMMA FileDecodeKeeps ==
  ASSUME ApiInv, FileDecodeReturns
  PROVE  ApiInv'
<1>1. InCallback
  BY DEF FileDecodeReturns
<1>2. Top.throw \in BOOLEAN /\ Sound(Top.saved) /\ err \in Errors /\ Sound(err)
  BY <1>1, TopFrame DEF Sound
<1>3. ASSUME NEW e \in ReadErrs
      PROVE  Good(Top.throw, Top.saved, FileDecoded(ReadFailed(Top.throw, Top.saved, err, e)))
  <2>1. ReadFailed(Top.throw, Top.saved, err, e).kind # "ok"
    BY <1>2 DEF ReadFailed, throw_error, Result
  <2>2. FileDecoded(ReadFailed(Top.throw, Top.saved, err, e))
          = ReadFailed(Top.throw, Top.saved, err, e)
    BY <2>1 DEF FileDecoded
  <2> QED
    BY <1>2, <2>2, GoodReadFailed
<1>4. ASSUME NEW w \in WalkErrs \cup {None}
      PROVE  Good(Top.throw, Top.saved, FileDecoded(finish_decode(Top.throw, Top.saved, err, w)))
  <2>1. CASE ~ Top.throw
    BY <1>2, <2>1, GoodFinish DEF FileDecoded
  <2>2. CASE Top.throw /\ w # None
    <3>1. finish_decode(Top.throw, Top.saved, err, w) = WalkFailed(Top.throw, Top.saved, err, w)
      BY <2>2 DEF finish_decode
    <3>2. WalkFailed(Top.throw, Top.saved, err, w).kind = "exc"
      BY <2>2 DEF WalkFailed, throw_error
    <3> QED
      BY <1>2, <2>2, <3>1, <3>2, GoodWalkFailed DEF FileDecoded
  <2>3. CASE Top.throw /\ w = None
    <3>1. finish_decode(Top.throw, Top.saved, err, w) = Result(err, "ok", NoError)
      BY <2>3 DEF finish_decode, WalkDone
    <3>2. FileDecoded(Result(err, "ok", NoError)) = Result(Top.saved, "ok", NoError)
      BY <2>3 DEF FileDecoded, Result
    <3>3. Sound(NoError)
      BY StateOfSound DEF Codes
    <3>4. Good(Top.throw, Top.saved, Result(Top.saved, "ok", NoError))
      BY <1>2, <2>3, <3>3 DEF Good, Result, Sound
    <3> QED
      BY <3>1, <3>2, <3>4
  <2> QED
    BY <1>2, <2>1, <2>2, <2>3
<1> QED
  BY <1>1, <1>3, <1>4, LeaveKeeps DEF FileDecodeReturns

LEMMA PointerSetKeeps ==
  ASSUME ApiInv, PointerSetReturns
  PROVE  ApiInv'
<1>1. InCallback
  BY DEF PointerSetReturns
<1>2. Top.throw \in BOOLEAN /\ Sound(Top.saved) /\ Sound(err)
  BY <1>1, TopFrame
<1>3. PICK own \in WriterErrs, made \in BOOLEAN :
        /\ WriterEnds(own, made)
        /\ \E r \in IF made
                      THEN {PointerSetDone(own)} \cup
                           {splice_dispatch_error(Top.throw, Top.saved,
                              ReplacementPublished(own), c) : c \in SpliceErrs}
                      ELSE {PointerSetFailed(own)} :
             Leave(r)
  BY DEF PointerSetReturns
<1>4. Sound(own) /\ (own # NoError => own.code # None) /\ NoError.code = None
  BY WriterError
<1>5. Sound(ReplacementPublished(own)) /\ ReplacementPublished(own) \in Errors
      /\ (~ Top.throw => ReplacementPublished(own) = own)
  BY <1>2, <1>4 DEF ReplacementPublished, Sound
<1>6. Good(Top.throw, Top.saved, PointerSetDone(own))
  BY <1>2, <1>4, <1>5 DEF PointerSetDone, Encoded, Result, Good, Sound
<1>7. \A c \in SpliceErrs : Good(Top.throw, Top.saved,
        splice_dispatch_error(Top.throw, Top.saved, ReplacementPublished(own), c))
  BY <1>2, <1>5, GoodSplice
<1>8. ~ made => Good(Top.throw, Top.saved, PointerSetFailed(own))
  BY <1>2, <1>3, <1>4, <1>5 DEF WriterEnds, PointerSetFailed, throw_error, Result, Good, Sound
<1> QED
  BY <1>1, <1>3, <1>6, <1>7, <1>8, LeaveKeeps

-----------------------------------------------------------------------------
(* The invariant and what it gives. *)

LEMMA CallKeeps ==
  ASSUME ApiInv, NEW throw \in BOOLEAN, Call(throw)
  PROVE  ApiInv'
<1>1. Sound(err)
  BY DEF ApiInv, TypeOK, OffsetMatchesCode, Sound
<1>2. CASE CallDecode(throw)
  BY <1>1, <1>2, GoodAtomic, AtomicKeeps DEF CallDecode
<1>3. CASE CallPointerGet(throw)
  BY <1>1, <1>3, GoodAtomic, AtomicKeeps DEF CallPointerGet
<1>4. CASE CallPointerExists(throw)
  BY <1>1, <1>4, GoodAtomic, AtomicKeeps DEF CallPointerExists
<1>5. CASE CallMergePatch(throw)
  BY <1>1, <1>5, GoodAtomic, AtomicKeeps DEF CallMergePatch
<1>6. CASE EncodeDepthRejected(throw)
  BY <1>1, <1>6, GoodAtomic, AtomicKeeps DEF EncodeDepthRejected
<1>7. CASE CallEncode(throw)
  BY <1>6, <1>7, EnterKeeps DEF CallEncode, Callers, Phases
<1>8. CASE CallFileEncode(throw)
  BY <1>6, <1>8, EnterKeeps DEF CallFileEncode, Callers, Phases
<1>9. CASE CallFileDecode(throw)
  <2>1. CASE Enter("file_decode", throw, "opening")
    BY <2>1, EnterKeeps DEF Callers, Phases
  <2>2. CASE Atomic(throw, {DepthRejected(throw, err)})
    BY <1>1, <2>2, GoodParts, AtomicKeeps
  <2> QED
    BY <1>9, <2>1, <2>2 DEF CallFileDecode
<1>10. CASE CallPointerSet(throw)
  <2> DEFINE refused == {DepthRejected(throw, err)} \cup Unread(throw, err)
                          \cup Misdirected(throw, err)
  <2>1. CASE Enter("pointer_set", throw, "encoding")
    BY <2>1, EnterKeeps DEF Callers, Phases
  <2>2. CASE Atomic(throw, refused)
    <3>1. \A r \in refused : Good(throw, err, r)
      BY <1>1, GoodParts
    <3> QED
      BY <2>2, <3>1, AtomicKeeps
  <2> QED
    BY <1>10, <2>1, <2>2 DEF CallPointerSet
<1> QED
  BY <1>2, <1>3, <1>4, <1>5, <1>7, <1>8, <1>9, <1>10 DEF Call

LEMMA EnvironmentKeeps ==
  ASSUME ApiInv, SwitchFiber \/ Bailout \/ RequestInit \/ Continue
  PROVE  ApiInv'
<1>1. Contract' /\ ret'.own \in Errors /\ ret'.entry \in Errors
  BY Quiet DEF SwitchFiber, Bailout, RequestInit, Continue
<1>2. cur' \in Fibers
  BY DEF SwitchFiber, Bailout, RequestInit, Continue, ApiInv, TypeOK
<1>3. Sound(err')
  <2>1. Sound(err) /\ Sound(NoError) /\ clear_error(err) = NoError
    BY Clear, StateOfSound DEF ApiInv, TypeOK, OffsetMatchesCode, Sound, Codes
  <2> QED
    BY <2>1 DEF SwitchFiber, Bailout, RequestInit, Continue
<1>4. stack' = stack \/ stack' = [f \in Fibers |-> << >>]
  BY DEF SwitchFiber, Bailout, RequestInit, Continue
<1>5. stack' \in [Fibers -> Seq(Frame)]
  <2>1. [f \in Fibers |-> << >>] \in [Fibers -> Seq(Frame)]
    OBVIOUS
  <2>2. stack \in [Fibers -> Seq(Frame)]
    BY DEF ApiInv, TypeOK
  <2> QED
    BY <1>4, <2>1, <2>2
<1>6. FramesOK'
  <2>1. SUFFICES ASSUME NEW f \in Fibers, NEW i \in 1 .. Len(stack'[f])
                 PROVE  FrameOK(stack'[f][i])
    BY DEF FramesOK, FrameOK, OffsetOK, WriterErrs
  <2> QED
    BY <1>4 DEF ApiInv, FramesOK
<1> QED
  BY <1>1, <1>2, <1>3, <1>5, <1>6 DEF ApiInv, TypeOK, OffsetMatchesCode, Sound, OffsetOK

\* Contract and frame consistency hold in every reachable state.
THEOREM ApiInvariant == Spec => []ApiInv
<1>1. Init => ApiInv
  <2> SUFFICES ASSUME Init PROVE ApiInv
    OBVIOUS
  <2>1. Sound(NoError)
    BY StateOfSound DEF Codes
  <2>2. ret.kind = "none" /\ ~ ret.throw /\ ret.own = NoError /\ ret.entry = NoError
    BY DEF Init, NoCall
  <2>3. TypeOK
    BY <2>1, <2>2 DEF Init, TypeOK, Sound
  <2>4. FramesOK
    BY DEF Init, FramesOK
  <2>5. Contract
    BY <2>2 DEF Contract, ReportsOwnOutcome, ThrowModePreserves, ThrowsOwnCode,
                IoAndAbsentAreSignalled
  <2> QED
    BY <2>1, <2>3, <2>4, <2>5 DEF Init, ApiInv, OffsetMatchesCode, Sound
<1>2. ApiInv /\ [Next]_vars => ApiInv'
  <2> SUFFICES ASSUME ApiInv, [Next]_vars PROVE ApiInv'
    OBVIOUS
  <2>1. ASSUME NEW throw \in BOOLEAN, Call(throw) PROVE ApiInv'
    BY <2>1, CallKeeps
  <2>2. CASE CallValidate
    <3>1. Sound(err)
      BY DEF ApiInv, TypeOK, OffsetMatchesCode, Sound
    <3> QED
      BY <2>2, <3>1, GoodValidate, AtomicKeeps DEF CallValidate
  <2>3. CASE Resume
    BY <2>3, EncoderKeeps, StreamKeeps, FileDecodeKeeps, PointerSetKeeps DEF Resume
  <2>4. CASE SwitchFiber \/ Bailout \/ RequestInit \/ Continue
    BY <2>4, EnvironmentKeeps
  <2>5. CASE UNCHANGED vars
    BY <2>5 DEF vars, ApiInv, TypeOK, FramesOK, FrameOK, OffsetMatchesCode, OffsetOK,
                WriterErrs, Contract, ReportsOwnOutcome, ThrowModePreserves,
                ThrowsOwnCode, IoAndAbsentAreSignalled
  <2> QED
    BY <2>1, <2>2, <2>3, <2>4, <2>5 DEF Next, Run
<1> QED
  BY <1>1, <1>2, PTL DEF Spec

(***************************************************************************)
(* Outside throw mode, and for partial output in both modes, a call        *)
(* reports its own outcome, however deep its callbacks nest and however    *)
(* many fibers ran in between.                                             *)
(***************************************************************************)
THEOREM OwnOutcome == Spec => []ReportsOwnOutcome
<1>1. ApiInv => ReportsOwnOutcome
  BY DEF ApiInv, Contract
<1> QED
  BY <1>1, ApiInvariant, PTL

(***************************************************************************)
(* A throw-mode call leaves the recorded error as it found it, also when   *)
(* the PHP code it ran called the extension outside throw mode.            *)
(***************************************************************************)
THEOREM EntryStatePreserved == Spec => []ThrowModePreserves
<1>1. ApiInv => ThrowModePreserves
  BY DEF ApiInv, Contract
<1> QED
  BY <1>1, ApiInvariant, PTL

\* A JsonException carries the code of its own call's failure.
THEOREM ExceptionCode == Spec => []ThrowsOwnCode
<1>1. ApiInv => ThrowsOwnCode
  BY DEF ApiInv, Contract
<1> QED
  BY <1>1, ApiInvariant, PTL

\* Only a parse error is ever shown with a source offset.
THEOREM OffsetsAreOfParseErrors == Spec => []OffsetMatchesCode
<1>1. ApiInv => OffsetMatchesCode
  BY DEF ApiInv
<1> QED
  BY <1>1, ApiInvariant, PTL

=============================================================================
