-------------------------------- MODULE Utf8 --------------------------------
(***************************************************************************)
(* The three readers of UTF-8 in fastjson.c: fastjson_byte_is_valid_utf8_  *)
(* start (one character), fastjson_utf8_well_formed (a whole string, ASCII *)
(* a word at a time) and the loop of fastjson_sanitize_utf8, which drops   *)
(* or replaces what is malformed.  A text is a sequence of bytes, offsets  *)
(* count from 0 as in the code.                                            *)
(***************************************************************************)
EXTENDS Integers, Sequences

CONSTANTS
    Texts,     \* the texts
    WordSize   \* bytes skipped at a time, 8

Byte == 0..255
Text == Seq(Byte)

ASSUME WordAssumption == WordSize \in Nat \ {0}
ASSUME TextsAssumption == \A t \in Texts : t \in Text

VARIABLES
    s,               \* the text
    mode,            \* "encode" or "decode"
    ignore, subst,   \* JSON_INVALID_UTF8_IGNORE, JSON_INVALID_UTF8_SUBSTITUTE
    i,               \* the offset reached
    out,             \* what was written: [from, bytes], from an offset of s
    w,               \* how far the write pointer is from the start of the buffer
    pc               \* "loop", "done"

vars == <<s, mode, ignore, subst, i, out, w, pc>>

At(t, p) == t[p + 1]
Offsets(t) == 0..Len(t) - 1
Slice(t, p, n) == SubSeq(t, p + 1, p + n)

(***************************************************************************)
(* One character.                                                          *)
(***************************************************************************)
Trail(c) == c \in 128..191
Lead(c) == c < 128 \/ c \in 194..244

\* Bytes of the sequence that lead byte c opens; 0 where c opens none.
Announced(c) ==
    CASE c < 128 -> 1 [] c \in 128..193 -> 0 [] c \in 194..223 -> 2
      [] c \in 224..239 -> 3 [] c \in 240..244 -> 4 [] OTHER -> 0

\* Mutant: surrogates pass.
fastjson_byte_is_valid_utf8_start_Surrogates(t, p) ==
    /\ p < Len(t)
    /\ LET c0 == At(t, p)  n == Announced(c0)
       IN /\ n > 0 /\ p + n <= Len(t)
          /\ \A k \in 1..n - 1 : Trail(At(t, p + k))
          /\ ~(c0 = 224 /\ At(t, p + 1) < 160)
          /\ ~(c0 = 240 /\ At(t, p + 1) < 144) /\ ~(c0 = 244 /\ At(t, p + 1) >= 144)

fastjson_byte_is_valid_utf8_start(t, p) ==
    /\ p < Len(t)
    /\ LET c0 == At(t, p)  n == Announced(c0)
       IN /\ n > 0 /\ p + n <= Len(t)
          /\ \A k \in 1..n - 1 : Trail(At(t, p + k))
          /\ ~(c0 = 224 /\ At(t, p + 1) < 160) /\ ~(c0 = 237 /\ At(t, p + 1) >= 160)
          /\ ~(c0 = 240 /\ At(t, p + 1) < 144) /\ ~(c0 = 244 /\ At(t, p + 1) >= 144)

\* The code point of the n bytes at p: the lead's low bits, then six a byte.
CodePoint(t, p, n) ==
    LET low(bits) == At(t, p) % bits
        six(k) == At(t, p + k) % 64
    IN CASE n = 1 -> low(128)
         [] n = 2 -> 64 * low(32) + six(1)
         [] n = 3 -> 4096 * low(16) + 64 * six(1) + six(2)
         [] n = 4 -> 262144 * low(8) + 4096 * six(1) + 64 * six(2) + six(3)

InRange(cp, n) ==
    \/ n = 1
    \/ n = 2 /\ cp >= 128
    \/ n = 3 /\ cp >= 2048 /\ ~(cp >= 55296 /\ cp <= 57343)
    \/ n = 4 /\ cp >= 65536 /\ cp <= 1114111

AllTrail(t, p, n) == p + n <= Len(t) /\ \A k \in 1..n - 1 : Trail(At(t, p + k))

\* The rule that validator and sanitizer both spell out.
Good(t, p) ==
    LET n == Announced(At(t, p))
    IN n > 0 /\ AllTrail(t, p, n) /\ InRange(CodePoint(t, p, n), n)

(***************************************************************************)
(* fastjson_utf8_well_formed                                               *)
(***************************************************************************)
AsciiWords(t) ==
    LET clean == {k \in 0..Len(t) \div WordSize :
                    \A p \in 0..k * WordSize - 1 : At(t, p) < 128}
    IN WordSize * (CHOOSE k \in clean : \A j \in clean : j <= k)

\* The loop, character by character: from which offsets it gets to the end.
GoodFrom(t) ==
    LET ok[p \in 0..Len(t)] ==
            p = Len(t) \/ (Good(t, p) /\ ok[p + Announced(At(t, p))])
    IN ok

fastjson_utf8_well_formed(t) == GoodFrom(t)[AsciiWords(t)]

(***************************************************************************)
(* fastjson_sanitize_utf8                                                  *)
(***************************************************************************)
\* Mutant: a sequence cut short is passed over at its announced length.
Advance_Announced(t, p, n) == IF p + n <= Len(t) THEN n ELSE Len(t) - p

\* How far a malformed sequence reaches: up to the first byte that can start
\* a character, the end of the text, or the length its lead announces.
Advance(t, p, n) ==
    LET stops == {k \in 1..n - 1 : p + k >= Len(t) \/ Lead(At(t, p + k))}
    IN IF stops = {} THEN n ELSE CHOOSE k \in stops : \A j \in stops : k <= j

Classify(t, p) ==
    LET n == Announced(At(t, p))
    IN [good |-> Good(t, p),
        adv |-> IF Good(t, p) THEN n
                ELSE IF n = 0 \/ mode = "decode" THEN 1
                ELSE Advance(t, p, n)]

\* Encoding prefers to drop when both flags are set, decoding to replace.
Substitutes == IF mode = "decode" THEN subst ELSE subst /\ ~ignore

BufferSize ==
    IF Substitutes THEN 3 * Len(s) + 1 ELSE IF Len(s) > 0 THEN Len(s) ELSE 1

Replacement == <<239, 191, 189>>

Init ==
    /\ s \in Texts /\ mode \in {"encode", "decode"}
    /\ ignore \in BOOLEAN /\ subst \in BOOLEAN /\ (ignore \/ subst)
    /\ i = 0 /\ out = <<>> /\ w = 0 /\ pc = "loop"

Write(bytes) ==
    /\ out' = Append(out, [from |-> i, bytes |-> bytes])
    /\ w' = w + Len(bytes)

Step(good) ==
    /\ pc = "loop" /\ i < Len(s)
    /\ Classify(s, i).good = good
    /\ i' = i + Classify(s, i).adv
    /\ UNCHANGED <<s, mode, ignore, subst, pc>>

CopyGood == Step(TRUE) /\ Write(Slice(s, i, Classify(s, i).adv))
ReplaceBad == Step(FALSE) /\ Substitutes /\ Write(Replacement)
DropBad == Step(FALSE) /\ ~Substitutes /\ UNCHANGED <<out, w>>

End ==
    /\ pc = "loop" /\ i >= Len(s)
    /\ pc' = "done"
    /\ UNCHANGED <<s, mode, ignore, subst, i, out, w>>

Next == CopyGood \/ ReplaceBad \/ DropBad \/ End

Spec == Init /\ [][Next]_vars

(***************************************************************************)
(* The reference: table 3-7 of the Unicode standard, well-formed sequences.*)
(***************************************************************************)
Sequences3_7 ==
    {<<0..127>>, <<194..223, 128..191>>,
     <<{224}, 160..191, 128..191>>, <<225..236, 128..191, 128..191>>,
     <<{237}, 128..159, 128..191>>, <<238..239, 128..191, 128..191>>,
     <<{240}, 144..191, 128..191, 128..191>>,
     <<241..243, 128..191, 128..191, 128..191>>,
     <<{244}, 128..143, 128..191, 128..191>>}

Spelled(t, p, row) ==
    /\ p + Len(row) <= Len(t)
    /\ \A k \in 1..Len(row) : At(t, p + k - 1) \in row[k]

CharAt(t, p) == \E row \in Sequences3_7 : Spelled(t, p, row)
SizeAt(t, p) == Len(CHOOSE row \in Sequences3_7 : Spelled(t, p, row))
Characters(t) == {p \in Offsets(t) : CharAt(t, p)}
Outside(t) ==
    Offsets(t) \ UNION {p..p + SizeAt(t, p) - 1 : p \in Characters(t)}

(***************************************************************************)
(* Properties                                                              *)
(***************************************************************************)
\* The three functions draw the same line between well-formed and malformed,
\* and it is the standard's: php_fastjson.h says that the validator uses the
\* sanitizer's rules, and a string the validator passes is never sanitized.
ValidatorsAgree ==
    /\ \A p \in Offsets(s) :
          /\ fastjson_byte_is_valid_utf8_start(s, p) <=> CharAt(s, p)
          /\ Classify(s, p).good <=> CharAt(s, p)
    /\ fastjson_utf8_well_formed(s) <=> Outside(s) = {}

\* What the first n bytes of the text have turned into: the characters, in
\* order and as they were, and replacements; which bytes are replaced depends
\* on the flags and the mode.
SanitizedUpTo(n) ==
    LET written == {out[k] : k \in 1..Len(out)}
        kept == {u \in written : u.from \in Characters(s)}
        marks == {u.from : u \in written \ kept}
        outside == {p \in Outside(s) : p < n}
    IN /\ kept = {[from |-> p, bytes |-> Slice(s, p, SizeAt(s, p))] :
                     p \in {q \in Characters(s) : q < n}}
       /\ \A k \in 2..Len(out) : out[k - 1].from < out[k].from
       /\ \A u \in written \ kept : u.bytes = Replacement
       /\ ~Substitutes => marks = {}
       /\ Substitutes /\ mode = "decode" => marks = outside
       /\ Substitutes /\ mode = "encode" =>
            /\ marks \subseteq outside
            /\ {p \in outside : p - 1 \notin Outside(s)} \subseteq marks

\* Sanitizing keeps every well-formed character and invents none, however the
\* malformed bytes around it were skipped.  Dropping leaves only those;
\* replacing marks every malformed byte when decoding, and at least the first
\* of each malformed run when encoding.  On the way the writes stay inside the
\* buffer taken before the loop: len * 3 + 1 where bytes are replaced, and the
\* length of the text where they are dropped.
SanitizesExactly ==
    /\ w <= BufferSize
    /\ pc = "done" => SanitizedUpTo(Len(s))

\* The same on the way, write by write, with what makes it inductive: no
\* character reaches across the offset reached, and the writes lag behind it.
Writes == [from : Nat, bytes : Text]

Due(t, p, m, subs) ==
    \/ p \in Characters(t)
    \/ subs /\ m = "decode" /\ p \in Outside(t)
    \/ subs /\ m = "encode" /\ p \in Outside(t) /\ p - 1 \notin Outside(t)

Faithful(t, o, n, m, subs) ==
    /\ \A k \in 1..Len(o) :
          /\ o[k].from \in Offsets(t) /\ o[k].from < n
          /\ o[k].from \in Characters(t) =>
               o[k].bytes = Slice(t, o[k].from, SizeAt(t, o[k].from))
          /\ o[k].from \notin Characters(t) =>
               o[k].bytes = Replacement /\ subs /\ o[k].from \in Outside(t)
    /\ \A k \in 2..Len(o) : o[k - 1].from < o[k].from
    /\ \A p \in Offsets(t) :
          p < n /\ Due(t, p, m, subs) => \E k \in 1..Len(o) : o[k].from = p

SanitizeInv ==
    /\ s \in Texts /\ mode \in {"encode", "decode"}
    /\ i \in 0..Len(s) /\ (pc = "done" => i = Len(s))
    /\ w \in Nat /\ w <= (IF Substitutes THEN 3 * i ELSE i)
    /\ \A p \in Characters(s) : p < i => p + SizeAt(s, p) <= i
    /\ out \in Seq(Writes)
    /\ Faithful(s, out, i, mode, Substitutes)
=============================================================================
