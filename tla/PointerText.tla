----------------------------- MODULE PointerText -----------------------------
(***************************************************************************)
(* fj_pointer_parse: a JSON Pointer's text cut into segments.  The number  *)
(* of segments is counted first, the arrays are allocated for that number  *)
(* and for as many bytes as the pointer has, and a second pass fills them, *)
(* so the two passes have to agree.  When the count is over the limit the  *)
(* escapes are only looked over.  Characters are one-letter strings and    *)
(* offsets count from 0 as in the code.                                    *)
(***************************************************************************)
EXTENDS Integers, Sequences, SequencesExt

CONSTANTS
    Chars,        \* the characters
    Pointers,     \* the pointer texts, sequences of characters
    DepthLimits,  \* the depth limits passed; 0 is no limit
    SegmentLimit, \* FASTJSON_POINTER_MAX_SEGMENTS
    MaxDigits,    \* 19, the digits an index may have
    SizeMax       \* the largest size_t

ASSUME PointersAssumption ==
    {"/", "~", "0", "1"} \subseteq Chars /\ Pointers \subseteq Seq(Chars)

ASSUME LimitsAssumption ==
    /\ DepthLimits \subseteq Nat /\ SegmentLimit \in Nat \ {0}
    /\ MaxDigits \in Nat \ {0} /\ SizeMax \in Nat \ 0..8

VARIABLES
    pointer, limit,
    phase,        \* "start", "count", "prescan", "fill", "done"
    pos,          \* the offset the running loop stands at
    seg_count,    \* segments counted, and entries allocated
    storage,      \* the unescaped bytes written
    segs,         \* the entries written: [start, len] into storage
    parse_status  \* "OK", "SETTABLE_FAIL", "DEPTH_FAIL"

parse_vars == <<pointer, limit, phase, pos, seg_count, storage, segs, parse_status>>

pointer_len == Len(pointer)
\* A PHP string ends in a NUL byte that is not counted in its length.
At(offset) == IF offset < pointer_len THEN pointer[offset + 1] ELSE "NUL"
Digits == <<"0", "1", "2", "3", "4", "5", "6", "7", "8", "9">>
Digit == [d \in {Digits[k] : k \in 1..10} |-> CHOOSE n \in 0..9 : Digits[n + 1] = d]
SegText(seg) == SubSeq(storage, seg.start + 1, seg.start + seg.len)

Finish(s) ==
    /\ phase' = "done" /\ parse_status' = s
    /\ UNCHANGED <<pointer, limit, pos, seg_count, storage, segs>>

ParseInit ==
    /\ pointer \in Pointers /\ limit \in DepthLimits
    /\ phase = "start" /\ pos = 1 /\ seg_count = 0
    /\ storage = <<>> /\ segs = <<>> /\ parse_status = "OK"

Start ==
    /\ phase = "start"
    /\ IF pointer_len = 0 THEN Finish("OK")
       ELSE IF At(0) # "/" THEN Finish("SETTABLE_FAIL")
       ELSE /\ phase' = "count"
            /\ UNCHANGED <<pointer, limit, pos, seg_count, storage, segs, parse_status>>

\* Mutant: the text after the last '/' is not counted.
CountStep_NoLast ==
    /\ phase = "count" /\ pos <= pointer_len
    /\ seg_count' = IF At(pos) = "/" THEN seg_count + 1 ELSE seg_count
    /\ pos' = pos + 1
    /\ UNCHANGED <<pointer, limit, phase, storage, segs, parse_status>>

\* fastjson_pointer_count_segments: a segment ends at each further '/' and at
\* the end of the text.
CountStep ==
    /\ phase = "count" /\ pos <= pointer_len
    /\ seg_count' = IF pos = pointer_len \/ At(pos) = "/" THEN seg_count + 1 ELSE seg_count
    /\ pos' = pos + 1
    /\ UNCHANGED <<pointer, limit, phase, storage, segs, parse_status>>

nsegs_ok ==
    /\ seg_count <= SegmentLimit
    /\ limit > 0 => seg_count < limit

\* The segment gate, and the allocation when it passes.
Gate ==
    /\ phase = "count" /\ pos > pointer_len
    /\ phase' = IF nsegs_ok THEN "fill" ELSE "prescan"
    /\ pos' = 1
    /\ UNCHANGED <<pointer, limit, seg_count, storage, segs, parse_status>>

Escaped(offset) == At(offset) \in {"0", "1"}

\* Mutant: an escape counts as one character of the prescan.
PrescanStep_OneByOne ==
    /\ phase = "prescan" /\ pos < pointer_len
    /\ IF At(pos) = "~" /\ pos + 1 < pointer_len /\ ~Escaped(pos + 1)
       THEN Finish("SETTABLE_FAIL")
       ELSE /\ pos' = pos + 1
            /\ UNCHANGED <<pointer, limit, phase, seg_count, storage, segs, parse_status>>

PrescanStep ==
    /\ phase = "prescan" /\ pos < pointer_len
    /\ IF At(pos) = "~" /\ ~Escaped(pos + 1) THEN Finish("SETTABLE_FAIL")
       ELSE /\ pos' = pos + (IF At(pos) = "~" THEN 2 ELSE 1)
            /\ UNCHANGED <<pointer, limit, phase, seg_count, storage, segs, parse_status>>

PrescanEnds ==
    /\ phase = "prescan" /\ pos >= pointer_len
    /\ Finish("DEPTH_FAIL")

\* fj_pointer_fill_segments.  The code finds the end of a segment and then
\* unescapes it; here the two loops run over the segment together.
SegEnds == pos = pointer_len \/ At(pos) = "/"

FillPlain ==
    /\ phase = "fill" /\ pos <= pointer_len /\ ~SegEnds /\ At(pos) # "~"
    /\ IF Len(storage) + 1 > pointer_len THEN Finish("SETTABLE_FAIL")
       ELSE /\ storage' = Append(storage, At(pos))
            /\ pos' = pos + 1
            /\ UNCHANGED <<pointer, limit, phase, seg_count, segs, parse_status>>

\* ~0 is '~' and ~1 is '/'; anything else after '~' is an error, also the end
\* of the segment, whose '/' is no digit.
FillEscape ==
    /\ phase = "fill" /\ pos <= pointer_len /\ ~SegEnds /\ At(pos) = "~"
    /\ IF ~Escaped(pos + 1) \/ Len(storage) + 1 > pointer_len THEN Finish("SETTABLE_FAIL")
       ELSE /\ storage' = Append(storage, IF At(pos + 1) = "0" THEN "~" ELSE "/")
            /\ pos' = pos + 2
            /\ UNCHANGED <<pointer, limit, phase, seg_count, segs, parse_status>>

SegsLen == IF segs = <<>> THEN 0 ELSE segs[Len(segs)].start + segs[Len(segs)].len

FillSegment ==
    /\ phase = "fill" /\ pos <= pointer_len /\ SegEnds
    /\ segs' = Append(segs, [start |-> SegsLen, len |-> Len(storage) - SegsLen])
    /\ pos' = pos + 1
    /\ UNCHANGED <<pointer, limit, phase, seg_count, storage, parse_status>>

FillEnds ==
    /\ phase = "fill" /\ pos > pointer_len
    /\ Finish(IF Len(segs) = seg_count THEN "OK" ELSE "SETTABLE_FAIL")

ParseNext ==
    \/ Start \/ CountStep \/ Gate \/ PrescanStep \/ PrescanEnds
    \/ FillPlain \/ FillEscape \/ FillSegment \/ FillEnds

ParseSpec == ParseInit /\ [][ParseNext]_parse_vars

(***************************************************************************)
(* fj_seg_is_index, with size_t arithmetic: the value, or -1.              *)
(***************************************************************************)
DigitsOnly(str) == \A n \in DOMAIN str : str[n] \in DOMAIN Digit

\* Mutant: a value is refused only once it has wrapped.
IndexStep_Late(idx, digit) ==
    IF idx > SizeMax \div 10 THEN -1 ELSE (idx * 10 + digit) % (SizeMax + 1)

\* One turn of the loop: the next value, or -1 where it would not fit.
IndexStep(idx, digit) ==
    IF idx > (SizeMax - digit) \div 10 THEN -1 ELSE (idx * 10 + digit) % (SizeMax + 1)

fj_seg_is_index(str) ==
    IF str = <<>> \/ Len(str) > MaxDigits THEN -1
    ELSE IF str[1] = "0" THEN (IF Len(str) > 1 THEN -1 ELSE 0)
    ELSE IF ~DigitsOnly(str) THEN -1
    ELSE LET value[n \in 0..Len(str)] ==
                 IF n = 0 THEN 0
                 ELSE IF value[n - 1] = -1 THEN -1
                 ELSE IndexStep(value[n - 1], Digit[str[n]])
         IN value[Len(str)]

(***************************************************************************)
(* Properties                                                              *)
(***************************************************************************)
\* The arrays are written within what was allocated for them: at most seg_count
\* entries, at most pointer_len bytes, each entry inside the bytes written.
WritesInBounds ==
    /\ Len(segs) <= seg_count
    /\ Len(storage) <= pointer_len
    /\ \A n \in DOMAIN segs : segs[n].start + segs[n].len <= Len(storage)

\* RFC 6901 from the other end: escape each segment ('~' as ~0, '/' as ~1),
\* put '/' before each and the pointer's own text comes back.  This settles
\* what the segments are, empty ones included.
EscapeChar(c) == CASE c = "~" -> <<"~", "0">> [] c = "/" -> <<"~", "1">> [] OTHER -> <<c>>
Escape(str) == FlattenSeq([n \in DOMAIN str |-> EscapeChar(str[n])])
Spelling(str) == <<"/">> \o Escape(str)
Spellings == [n \in DOMAIN segs |-> Spelling(SegText(segs[n]))]
SegmentsSpellThePointer == pointer = FlattenSeq(Spellings)

\* The first n characters hold no bad escape.
EscapesRight(n) ==
    \A m \in 1..n : pointer[m] = "~" => m < Len(pointer) /\ pointer[m + 1] \in {"0", "1"}
WellFormed == pointer = <<>> \/ (pointer[1] = "/" /\ EscapesRight(Len(pointer)))

Verdict ==
    IF ~WellFormed THEN "SETTABLE_FAIL"
    ELSE IF pointer # <<>> /\ ~nsegs_ok THEN "DEPTH_FAIL" ELSE "OK"

\* A pointer is cut into the segments it spells.  One that is malformed is
\* reported as such however long it is: the prescan of a pointer with too many
\* segments finds the same bad escapes that filling it would have found, so an
\* oversized pointer fails with DEPTH exactly when it is well formed.
ParsesThePointer ==
    phase = "done" =>
        /\ parse_status = Verdict
        /\ parse_status = "OK" => SegmentsSpellThePointer

\* What a string of digits means, without bounds.
Numeral(str) ==
    LET value[n \in 0..Len(str)] == IF n = 0 THEN 0 ELSE value[n - 1] * 10 + Digit[str[n]]
    IN value[Len(str)]

Canonical(str) ==
    /\ str # <<>> /\ DigitsOnly(str)
    /\ str[1] = "0" => Len(str) = 1
    /\ Len(str) <= MaxDigits

\* A segment is an array index exactly when it is a canonical numeral that
\* size_t can hold, and then its value is that number: never one wrapped
\* around, which would select an existing element.
IndexIsTheNumeral ==
    phase = "done" /\ parse_status = "OK" =>
        \A n \in DOMAIN segs :
            LET str == SegText(segs[n])
            IN fj_seg_is_index(str) =
                   IF Canonical(str) /\ Numeral(str) <= SizeMax THEN Numeral(str) ELSE -1

(***************************************************************************)
(* The inductive invariant.                                                *)
(***************************************************************************)
ParseType ==
    /\ pointer \in Pointers /\ limit \in DepthLimits
    /\ phase \in {"start", "count", "prescan", "fill", "done"}
    /\ pos \in 1..pointer_len + 1 /\ seg_count \in Nat
    /\ storage \in Seq(Chars) /\ segs \in Seq([start : Nat, len : Nat])

\* The offsets at which segments end, and their number below an offset.
SegmentEnds == {p \in 1..pointer_len : p = pointer_len \/ At(p) = "/"}
EndsBefore(n) == Cardinality({p \in 1..n - 1 : p \in SegmentEnds})

\* Counting and filling meet the same ends; nothing is filled before.
Counted ==
    /\ phase \in {"start", "count", "prescan"} => storage = <<>> /\ segs = <<>>
    /\ phase \in {"count", "prescan", "fill"} => pointer # <<>> /\ pointer[1] = "/"
    /\ phase = "start" => pos = 1 /\ seg_count = 0
    /\ phase = "count" => seg_count = EndsBefore(pos)
    /\ phase = "prescan" => ~nsegs_ok
    /\ phase = "fill" => /\ nsegs_ok
                      /\ seg_count = EndsBefore(pointer_len + 1)
                      /\ Len(segs) = EndsBefore(pos)

\* What has been read is spelled by the segments filled and, while there is
\* text left, by the one being filled.
Behind == IF pos < pointer_len THEN pos ELSE pointer_len
Filled ==
    /\ Len(storage) < pos
    /\ SubSeq(pointer, 1, Behind) =
           FlattenSeq(Spellings) \o
           (IF pos > pointer_len THEN <<>>
            ELSE Spelling(SubSeq(storage, SegsLen + 1, Len(storage))))

ParseInv ==
    /\ ParseType /\ Counted /\ WritesInBounds
    /\ phase \in {"prescan", "fill"} => EscapesRight(Behind)
    /\ phase = "fill" => Filled
    /\ ParsesThePointer
=============================================================================
