---------------------------- MODULE StringWriter ----------------------------
(***************************************************************************)
(* dw_emit_string_ex and the sized string writer: one string appended to   *)
(* the output buffer by the library in one pass, copied whole, copied as a *)
(* clean prefix and an escaped tail, written chunk by chunk in place, or   *)
(* measured first; and once more, sanitized, when it was malformed.        *)
(*                                                                         *)
(* Bytes are tokens: "Q" the quote, "/" the slash, "\\" the backslash,     *)
(* "ctl" a control character, "L2" to "L4" the first byte of a character   *)
(* of that size, "T" a continuation, "X" a byte that is none of these; any *)
(* other is ASCII that needs no escape.  Offsets count from 0.             *)
(***************************************************************************)
EXTENDS Integers, Sequences, SequencesExt

CONSTANTS
    Jobs,                 \* the calls: [text, flags, buffer]; flags among "slashes",
                          \* "unicode", "ignore", "substitute", "partial", "key" and
                          \* those of HexEscapes; buffer [bytes, spare]: earlier
                          \* output and room left
    THRESHOLD, ALWAYS,    \* FASTJSON_EXACT_STRING_THRESHOLD and _ALWAYS
    NONASCII,             \* FASTJSON_EXACT_NONASCII_THRESHOLD
    CHUNK, WORD, SHARE,   \* 2048, 8, and the 8 of "the last eighth"
    ZSTR_MAX_LEN

ASSUME JobsAssumption ==
    \A j \in Jobs : /\ j.text \in Seq(STRING) /\ j.buffer.bytes \in Seq(STRING)
                    /\ j.buffer.spare \in Nat
ASSUME SizesAssumption ==
    /\ THRESHOLD \in Nat /\ ALWAYS \in Nat /\ NONASCII \in Nat /\ ZSTR_MAX_LEN \in Nat
    /\ CHUNK \in Nat \ {0} /\ WORD \in Nat \ {0} /\ SHARE \in Nat \ {0}

VARIABLES
    input, before, flags,   \* the call: the string, the earlier output, the flags
    str, sane,              \* the string being written, and whether it was sanitized
    mem, used, a,           \* bytes stored so far, the length, the capacity
    pos,                    \* chunked: input offset reached
    stage, result           \* where the writer is; "", "ok", "utf8", "too_large"

call == <<input, before, flags>>
writervars == <<input, before, flags, str, sane, mem, used, a, pos, stage, result>>

len == Len(str)
ByteOf(t, p) == t[p + 1]
Piece(t, p, n) == SubSeq(t, p + 1, p + n)
Least(x, y) == IF x < y THEN x ELSE y
Most(x, y) == IF x < y THEN y ELSE x

(***************************************************************************)
(* The library's writer.                                                   *)
(***************************************************************************)
\* The bytes a character takes that starts with c, or would take.
Size(c) == CASE c = "L2" -> 2 [] c = "L3" -> 3 [] c \in {"L4", "X"} -> 4 [] OTHER -> 1
WholeAt(t, p) ==
    /\ ByteOf(t, p) \notin {"T", "X"}
    /\ p + Size(ByteOf(t, p)) <= Len(t)
    /\ \A k \in 1..Size(ByteOf(t, p)) - 1 : ByteOf(t, p + k) = "T"
Starts(t) == {p \in 0..Len(t) - 1 : WholeAt(t, p)}
Stray(t) ==
    (0..Len(t) - 1) \ UNION {p..p + Size(ByteOf(t, p)) - 1 : p \in Starts(t)}
Valid(t) == Stray(t) = {}

Pair(c) == <<"\\", c>>
Unit(c) == <<"\\", "u", "h", "h", "h", c>>
Escaped(t, p) ==
    LET c == ByteOf(t, p)
    IN CASE c \in {"Q", "\\"} \/ (c = "/" /\ "slashes" \in flags) -> Pair(c)
         [] c = "ctl" -> Unit(c)
         [] Size(c) > 1 /\ "unicode" \in flags ->
              IF c = "L4" THEN Unit("high") \o Unit("low") ELSE Unit(c)
         [] OTHER -> Piece(t, p, Size(c))
Body(t) ==
    FlattenSeq([k \in 1..Len(t) |-> IF WholeAt(t, k - 1) THEN Escaped(t, k - 1) ELSE <<>>])
Json(t) == <<"Q">> \o Body(t) \o <<"Q">>

(***************************************************************************)
(* The buffer.  Stores are recorded wherever they land; smart_str_alloc    *)
(* gives exactly the room asked for, which is the least it may give.       *)
(***************************************************************************)
Store(bytes, at, what) ==
    [k \in 1..Most(Len(bytes), at + Len(what)) |->
        IF k \in at + 1..at + Len(what) THEN what[k - at] ELSE bytes[k]]
smart_str_alloc(add) == IF used + add >= a THEN used + add ELSE a

WriterInit ==
    /\ \E j \in Jobs :
          /\ input = j.text /\ flags = j.flags
          /\ before = j.buffer.bytes /\ mem = j.buffer.bytes
          /\ used = Len(j.buffer.bytes) /\ a = Len(j.buffer.bytes) + j.buffer.spare
    /\ str = input /\ sane = FALSE /\ pos = 0 /\ stage = "emit" /\ result = ""

Finish(r) == stage' = "done" /\ result' = r
TooLarge == Finish("too_large") /\ UNCHANGED <<call, str, sane, mem, used, a, pos>>
Invalid == stage' = "invalid" /\ UNCHANGED <<call, str, sane, mem, used, pos, result>>
Goto(l) == stage' = l /\ UNCHANGED <<call, str, sane, mem, used, a, pos, result>>

\* The bytes stored at an offset and the length set behind them.
Appended(what, room) ==
    /\ mem' = Store(mem, used, what) /\ used' = used + Len(what)
    /\ a' = smart_str_alloc(room)
    /\ Finish("ok") /\ UNCHANGED <<call, str, sane, pos>>

(***************************************************************************)
(* dw_emit_string_ex                                                       *)
(***************************************************************************)
fastjson_string_wants_sized_writer ==
    /\ len >= THRESHOLD
    /\ len >= ALWAYS \/ a - used <= len * 6 + 2

EmitSized == stage = "emit" /\ fastjson_string_wants_sized_writer /\ Goto("sized")

EmitOnePass ==
    /\ stage = "emit" /\ ~fastjson_string_wants_sized_writer
    /\ IF len > (ZSTR_MAX_LEN - 2) \div 6 \/ len * 6 + 2 > ZSTR_MAX_LEN - used
       THEN TooLarge
       ELSE IF Valid(str) THEN Appended(Json(str), len * 6 + 2)
       ELSE Invalid /\ a' = smart_str_alloc(len * 6 + 2)

(***************************************************************************)
(* fastjson_write_large_json_string                                        *)
(***************************************************************************)
NeedsEscape(c) == c \in {"Q", "\\", "ctl", "L2", "L3", "L4", "T", "X"} \/ (c = "/" /\ "slashes" \in flags)
CleanTo(n) == \A p \in 0..n - 1 : ~NeedsEscape(ByteOf(str, p))
FirstDirty == CHOOSE n \in 0..len : CleanTo(n) /\ (n = len \/ NeedsEscape(ByteOf(str, n)))
CleanWords == WORD * (FirstDirty \div WORD)
InTail(n) == n >= len - len \div SHARE

\* fastjson_string_is_copyable_ascii: whole words, then single bytes if the
\* word that needs an escape is near the end of the string.
prefix_len ==
    IF InTail(CleanWords) \/ CleanWords + WORD > len THEN FirstDirty ELSE CleanWords
copyable_ascii == FirstDirty = len

Large ==
    /\ stage = "sized"
    /\ IF used > ZSTR_MAX_LEN - 2 \/ len > ZSTR_MAX_LEN - used - 2 THEN TooLarge
       ELSE IF copyable_ascii THEN Appended(<<"Q">> \o str \o <<"Q">>, len + 2)
       ELSE IF len >= NONASCII THEN Goto("exact")
       ELSE IF InTail(prefix_len) THEN Goto("tail")
       ELSE Goto("chunks")

WriteTail ==
    /\ stage = "tail"
    /\ LET tail_len == len - prefix_len
           tail == Piece(str, prefix_len, tail_len)
           room == prefix_len + tail_len * 6 + 3
           at == used + prefix_len + 1
       IN IF tail_len > (ZSTR_MAX_LEN - used - prefix_len - 3) \div 6 THEN TooLarge
          ELSE /\ a' = smart_str_alloc(room)
               /\ IF ~Valid(tail) THEN Invalid
                  ELSE \* written with quotes behind the prefix, then moved over
                       \* the first of them
                       LET wide == Store(Store(mem, used, <<"Q">> \o Piece(str, 0, prefix_len)),
                                         at, Json(tail))
                       IN /\ mem' = Store(wide, at, Tail(Json(tail)))
                          /\ used' = at + Len(Json(tail)) - 1
                          /\ Finish("ok") /\ UNCHANGED <<call, str, sane, pos>>

SizeOf(p) ==
    LET c == ByteOf(str, p)
    IN CASE c = "ctl" -> 6 [] c \in {"Q", "\\"} -> 2
         [] c = "/" /\ "slashes" \in flags -> 2
         [] Size(c) > 1 /\ "unicode" \in flags -> IF c = "L4" THEN 12 ELSE 6
         [] OTHER -> Size(c)

\* One turn of the loop at offset p, if a character starts there.
SizeStep(was, p) ==
    IF was.status /= "ok" \/ was.i /= p THEN was
    ELSE IF ~WholeAt(str, p) THEN [status |-> "utf8", out_len |-> 0, i |-> p]
    ELSE IF SizeOf(p) > ZSTR_MAX_LEN - was.out_len
    THEN [status |-> "too_large", out_len |-> 0, i |-> p]
    ELSE [status |-> "ok", out_len |-> was.out_len + SizeOf(p), i |-> p + Size(ByteOf(str, p))]

fastjson_json_string_size ==
    LET upto[n \in 0..len] ==
            IF n = 0 THEN [status |-> "ok", out_len |-> 2, i |-> 0]
            ELSE SizeStep(upto[n - 1], n - 1)
    IN upto[len]

\* The clean prefix was copied as scratch behind the length; it is measured
\* and written again from the start.
WriteExact ==
    /\ stage = "exact"
    /\ LET exact == fastjson_json_string_size
           copied == Store(mem, used, <<"Q">> \o Piece(str, 0, FirstDirty))
           room == smart_str_alloc(len + 2)
       IN \/ /\ exact.status = "utf8"
             /\ mem' = copied /\ a' = room
             /\ stage' = "invalid" /\ UNCHANGED <<call, str, sane, used, pos, result>>
          \/ /\ exact.status = "too_large" \/ exact.out_len > ZSTR_MAX_LEN - used
             /\ mem' = copied /\ a' = room
             /\ Finish("too_large") /\ UNCHANGED <<call, str, sane, used, pos>>
          \/ /\ exact.status = "ok" /\ exact.out_len <= ZSTR_MAX_LEN - used
             /\ mem' = Store(copied, used, Json(str)) /\ used' = used + Len(Json(str))
             /\ a' = Most(room, smart_str_alloc(exact.out_len))
             /\ Finish("ok") /\ UNCHANGED <<call, str, sane, pos>>

(***************************************************************************)
(* fastjson_write_json_string_chunked                                      *)
(***************************************************************************)
\* Where the character that touches offset p starts: before its trail.
LeadBefore(p) ==
    LET back == {q \in pos..p : \A k \in q..p - 1 : ByteOf(str, k) = "T"}
    IN (CHOOSE q \in back : \A r \in back : q <= r) - 1

fastjson_json_chunk_len ==
    LET n == Least(CHUNK, len - pos)
        lead == LeadBefore(pos + n)
        need == Size(ByteOf(str, lead))
    IN IF pos + n >= len \/ lead < pos \/ pos + n - lead >= need THEN n
       ELSE IF lead > pos THEN lead - pos
       ELSE IF pos + need <= len THEN need
       ELSE n

ChunkBegin ==
    /\ stage = "chunks"
    /\ IF ZSTR_MAX_LEN - used - 2 - len < CHUNK * 6 THEN TooLarge
       ELSE /\ a' = smart_str_alloc(len + 2 + CHUNK * 6)
            /\ mem' = Store(mem, used, <<"Q">>) /\ used' = used + 1
            /\ pos' = 0 /\ stage' = "chunk"
            /\ UNCHANGED <<call, str, sane, result>>

\* Mutant: the room for a chunk leaves out its two quotes.
ChunkNeed_NoQuotes(n) == n * 6
ChunkNeed(n) == n * 6 + 2

\* The chunk's worst case, and the rest at the expansion seen so far and an
\* eighth more, at most six times.
Projected(n) ==
    LET left == len - pos - n
        rest == IF pos = 0 THEN (left * 9) \div 8
                ELSE (left * (used - Len(before)) * 9) \div (pos * 8)
    IN Least(ChunkNeed(n) + Least(rest, left * 6), ZSTR_MAX_LEN - used)

\* Mutant: the byte under the chunk's opening quote is not put back.
InPlace_NotRestored(bytes, at, what) == Store(bytes, at, what)
InPlace(bytes, at, what) == Store(Store(bytes, at, what), at, <<ByteOf(bytes, at)>>)

GiveUpChunks(l, r) ==
    /\ used' = Len(before) /\ stage' = l /\ result' = r
    /\ UNCHANGED <<call, str, sane, mem, pos>>

ChunkStep ==
    /\ stage = "chunk" /\ pos < len
    /\ LET n == fastjson_json_chunk_len
           chunk == Piece(str, pos, n)
           room == IF a - used < ChunkNeed(n) THEN smart_str_alloc(Projected(n)) ELSE a
       IN IF ChunkNeed(n) > ZSTR_MAX_LEN - used
          THEN GiveUpChunks("done", "too_large") /\ UNCHANGED a
          ELSE IF ~Valid(chunk) THEN GiveUpChunks("invalid", "") /\ a' = room
          ELSE /\ a' = room
               /\ mem' = InPlace(mem, used - 1, Json(chunk))
               /\ used' = used + Len(Body(chunk))
               /\ pos' = pos + n
               /\ UNCHANGED <<call, str, sane, stage, result>>

ChunkEnds ==
    /\ stage = "chunk" /\ pos >= len
    /\ mem' = Store(mem, used, <<"Q">>) /\ used' = used + 1
    /\ Finish("ok") /\ UNCHANGED <<call, str, sane, a, pos>>

(***************************************************************************)
(* The retry.  What fastjson_sanitize_utf8 makes of the string (Utf8).     *)
(***************************************************************************)
ReplacementChar == <<"L3", "T", "T">>
Kept(t, marks, p) == IF p \in marks THEN ReplacementChar
                     ELSE IF p \in Stray(t) THEN <<>> ELSE <<ByteOf(t, p)>>
Repaired(t, marks) == FlattenSeq([k \in 1..Len(t) |-> Kept(t, marks, k - 1)])
Sanitized(t) ==
    LET first == {p \in Stray(t) : p - 1 \notin Stray(t)}
    IN IF "ignore" \in flags THEN {Repaired(t, {})}
       ELSE {Repaired(t, first), Repaired(t, Stray(t))}

Sanitize ==
    /\ stage = "invalid" /\ ~sane /\ flags \cap {"ignore", "substitute"} /= {}
    /\ str' \in Sanitized(str) /\ sane' = TRUE
    /\ stage' = "emit"
    /\ UNCHANGED <<call, mem, used, a, pos, result>>

Malformed ==
    /\ stage = "invalid" /\ (sane \/ flags \cap {"ignore", "substitute"} = {})
    /\ LET what == IF "partial" \notin flags THEN <<>>
                   ELSE IF "key" \in flags THEN <<"Q", "Q">> ELSE <<"null">>
       IN /\ mem' = Store(mem, used, what) /\ used' = used + Len(what)
          /\ a' = smart_str_alloc(Len(what))
    /\ Finish("utf8") /\ UNCHANGED <<call, str, sane, pos>>

WriterNext ==
    \/ EmitSized \/ EmitOnePass \/ Large \/ WriteTail \/ WriteExact
    \/ ChunkBegin \/ ChunkStep \/ ChunkEnds \/ Sanitize \/ Malformed

WriterSpec == WriterInit /\ [][WriterNext]_writervars

(***************************************************************************)
(* Properties                                                              *)
(***************************************************************************)
\* No store lands outside the capacity, whichever estimate it was taken from:
\* six times the string, the prefix and six times the tail, the projection
\* made between two chunks, or the exact size.
StaysInCapacity == used <= a /\ Len(mem) <= Most(a, Len(before))

\* The size computed before writing is the size of what is written.
SizeIsExact ==
    LET exact == fastjson_json_string_size
    IN exact.status = "ok" => exact.out_len = Len(Json(str))

\* However a string is written, the buffer ends up as the library's one pass
\* would have left it; earlier output is untouched throughout; a string that
\* fails leaves the length alone (fastjson_internal.h: "other statuses leave
\* it unchanged"), so a retry starts where the first attempt did; only a
\* malformed string is reported, sanitized or replaced; and a size that was
\* computed before writing is exact.
StringWritten ==
    /\ stage \in {"emit", "sized", "invalid", "tail", "exact", "chunks"} => used = Len(before)
    /\ SubSeq(mem, 1, Len(before)) = before
    /\ stage = "invalid" => ~sane /\ ~Valid(str)
    /\ stage = "exact" => SizeIsExact
    /\ stage = "done" =>
          LET added == SubSeq(mem, Len(before) + 1, used)
          IN CASE result = "ok" -> added = Json(str) /\ Valid(str)
               [] result = "too_large" -> added = <<>>
               [] result = "utf8" -> added = IF "partial" \notin flags THEN <<>>
                                             ELSE IF "key" \in flags THEN <<"Q", "Q">>
                                             ELSE <<"null">>
=============================================================================
