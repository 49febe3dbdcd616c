----------------------------- MODULE HexEscapes -----------------------------
(***************************************************************************)
(* fastjson_apply_hex_escapes: after a string was written, JSON_HEX_TAG,   *)
(* _AMP, _APOS and _QUOT turn some of its bytes into six-byte escapes, in  *)
(* place.  A forward pass over the escaped text counts the growth; a       *)
(* backward pass, which sees each byte before the ones that explain it,    *)
(* rewrites it from the far end.  Bytes are tokens, "Q" the quote; offsets *)
(* count from 0.                                                           *)
(***************************************************************************)
EXTENDS Integers, Sequences

CONSTANTS ZSTR_MAX_LEN

VARIABLES
    flags, start_pos,   \* the arguments: "tag", "amp", "apos", "quot" among the flags
    bytes, used, a,     \* the buffer: bytes stored, length, capacity
    pc,                 \* "count", "rewrite", "done", "too_large"
    i, growth,          \* the forward pass
    read, write         \* the backward pass

args == <<flags, start_pos>>
buf == <<bytes, used, a>>
vars == <<flags, start_pos, bytes, used, a, pc, i, growth, read, write>>

orig_len == used - start_pos
At(offset) == bytes[offset + 1]
Src(k) == At(start_pos + k)

\* The bytes the flags turn into escapes wherever they stand.
Special(c) ==
    \/ "tag" \in flags /\ c \in {"<", ">"}
    \/ "amp" \in flags /\ c = "&"
    \/ "apos" \in flags /\ c = "'"

Hex(c) == <<"\\", "u", "0", "0", "hex", c>>

Init == pc = "count" /\ i = 0 /\ growth = 0 /\ read = 0 /\ write = 0

TooLarge == pc' = "too_large" /\ UNCHANGED <<args, buf, i, growth, read, write>>

Count(add, step) ==
    /\ growth' = growth + add /\ i' = i + step
    /\ UNCHANGED <<args, buf, pc, read, write>>

Grow(add, step) == IF growth > ZSTR_MAX_LEN - add THEN TooLarge ELSE Count(add, step)

AtEscape == Src(i) = "\\" /\ i + 1 < orig_len
EscapedQuote == AtEscape /\ "quot" \in flags /\ Src(i + 1) = "Q"

CountEscapedQuote ==
    /\ pc = "count" /\ i < orig_len /\ EscapedQuote
    /\ Grow(4, 2)

\* Any other escape is passed over whole.
CountEscape ==
    /\ pc = "count" /\ i < orig_len /\ AtEscape /\ ~EscapedQuote
    /\ Count(0, IF Src(i + 1) = "u" /\ i + 5 < orig_len THEN 6 ELSE 2)

CountByte ==
    /\ pc = "count" /\ i < orig_len /\ ~AtEscape
    /\ IF Special(Src(i)) THEN Grow(5, 1) ELSE Count(0, 1)

\* smart_str_alloc, and the two positions at the far end.
CountEnds ==
    /\ pc = "count" /\ i >= orig_len
    /\ IF growth = 0 THEN pc' = "done" /\ UNCHANGED <<buf, read, write>>
       ELSE IF growth > ZSTR_MAX_LEN - start_pos - orig_len
       THEN pc' = "too_large" /\ UNCHANGED <<buf, read, write>>
       ELSE /\ pc' = "rewrite"
            /\ a' = IF used + growth >= a THEN used + growth ELSE a
            /\ bytes' = SubSeq(bytes, 1, used) \o [k \in 1..growth |-> "unset"]
            /\ read' = used /\ write' = used + growth
            /\ UNCHANGED used
    /\ UNCHANGED <<args, i, growth>>

\* Mutant: a quote after a backslash is taken for an escaped one anywhere.
QuoteAt_Anywhere(pos) ==
    /\ "quot" \in flags /\ At(pos) = "Q"
    /\ pos > start_pos /\ At(pos - 1) = "\\"

\* A quote that is neither the first nor the last byte of the string.
QuoteAt(pos) ==
    /\ "quot" \in flags /\ At(pos) = "Q"
    /\ pos > start_pos /\ pos + 1 < start_pos + orig_len
    /\ At(pos - 1) = "\\"

Rewrite(what, consumed) ==
    /\ bytes' = [k \in 1..Len(bytes) |->
                    IF k \in write - Len(what) + 1..write THEN what[k - write + Len(what)]
                    ELSE bytes[k]]
    /\ write' = write - Len(what) /\ read' = read - consumed
    /\ UNCHANGED <<args, used, a, pc, i, growth>>

RewriteStep ==
    /\ pc = "rewrite" /\ read > start_pos
    /\ LET pos == read - 1
       IN IF QuoteAt(pos) THEN Rewrite(Hex("Q"), 2)
          ELSE IF Special(At(pos)) THEN Rewrite(Hex(At(pos)), 1)
          ELSE Rewrite(<<At(pos)>>, 1)

RewriteEnds ==
    /\ pc = "rewrite" /\ read <= start_pos
    /\ used' = used + growth /\ pc' = "done"
    /\ UNCHANGED <<args, bytes, a, i, growth, read, write>>

Next ==
    \/ CountEscapedQuote \/ CountEscape \/ CountByte \/ CountEnds
    \/ RewriteStep \/ RewriteEnds

Spec == Init /\ [][Next]_vars
=============================================================================
