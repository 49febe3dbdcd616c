-------------------------------- MODULE Reader --------------------------------
(***************************************************************************)
(* fastjson_read_doc_ex: the parser is asked once; if it stops at a number *)
(* the text is scanned for Inf and NaN literals, and without one it is     *)
(* parsed again with infinities allowed, so that 1e999 decodes to INF      *)
(* while Infinity stays a syntax error.  A text is a sequence of lexemes   *)
(* [kind, chars]; the parser, which is yyjson, works on the lexemes, the   *)
(* scanner (fastjson_input_has_inf_nan_literal) on the characters they     *)
(* spell.  Commas and brackets between the lexemes are left out.           *)
(***************************************************************************)
EXTENDS Integers, Sequences, SequencesExt, FiniteSetsExt

CONSTANTS
    Reads   \* the calls: [lexemes, relaxed, bignum, utf8: BOOLEAN]

Kinds == {"plain",    \* a value or punctuation every reader accepts
          "overflow", \* a number whose exponent overflows a double
          "literal",  \* Inf or NaN
          "signed",   \* -Inf, which a strict reader takes for a bad number
          "comment",  \* accepted by relaxed readers only
          "badtext",  \* a string that holds invalid UTF-8
          "foreign",  \* a valid multi-byte character outside strings
          "broken",   \* a malformed byte outside strings
          "bom",      \* a byte order mark, at the start and for relaxed readers
          "cut"}      \* nothing: the text ends within a value

(***************************************************************************)
(* What the characters of a lexeme can be.  "NUL" stands for the end of    *)
(* the text and is none of them.                                           *)
(***************************************************************************)
Lower(c) ==
    CASE c = "I" -> "i" [] c = "N" -> "n" [] c = "F" -> "f" [] c = "A" -> "a" [] OTHER -> c

Word(c, k) ==
    /\ k + 2 <= Len(c)
    /\ <<Lower(c[k]), Lower(c[k + 1]), Lower(c[k + 2])>>
           \in {<<"i", "n", "f">>, <<"n", "a", "n">>}

\* Outside strings JSON has no i, and n only in null.
Bare(c) ==
    \A k \in 1..Len(c) :
        /\ c[k] \notin {"\"", "/"} /\ Lower(c[k]) # "i"
        /\ Lower(c[k]) = "n" => k < Len(c) /\ c[k + 1] = "u"

\* E: the places of the escaped characters.
Quoted(c) ==
    /\ Len(c) >= 2 /\ c[1] = "\"" /\ c[Len(c)] = "\""
    /\ \E E \in SUBSET (3..Len(c) - 1) : \A k \in 2..Len(c) - 1 :
           /\ k + 1 \in E <=> (c[k] = "\\" /\ k \notin E)
           /\ c[k] = "\"" => k \in E

LineEnd == {"CR", "LF"}

\* The end of the text ends a line comment, too.
IsLineComment(c, last) ==
    /\ Len(c) >= 2 /\ c[1] = "/" /\ c[2] = "/"
    /\ \A k \in 3..Len(c) - 1 : c[k] \notin LineEnd
    /\ last \/ (Len(c) >= 3 /\ c[Len(c)] \in LineEnd)

IsBlockComment(c) ==
    /\ Len(c) >= 4 /\ c[1] = "/" /\ c[2] = "*" /\ c[Len(c) - 1] = "*" /\ c[Len(c)] = "/"
    /\ \A k \in 3..Len(c) - 2 : ~(c[k] = "*" /\ c[k + 1] = "/")

\* The bytes of the two multi-byte characters are found together and in order.
Follows(c, a, b) ==
    /\ \A k \in 1..Len(c) : c[k] = a => k < Len(c) /\ c[k + 1] = b
    /\ \A k \in 1..Len(c) : c[k] = b => k > 1 /\ c[k - 1] = a
WholeCharacters(c) ==
    Follows(c, "0xC3", "0xA9") /\ Follows(c, "0xEF", "0xBB") /\ Follows(c, "0xBB", "0xBF")

Spells(kind, c, last) ==
    CASE kind = "plain"    -> Bare(c) \/ Quoted(c)
      [] kind = "overflow" -> Bare(c)
      [] kind = "literal"  -> Word(c, 1)
      [] kind = "signed"   -> c[1] = "-" /\ Word(c, 2)
      [] kind = "comment"  -> IsLineComment(c, last) \/ IsBlockComment(c)
      [] kind = "badtext"  -> Quoted(c)
      [] kind = "foreign"  -> Bare(c) /\ c # <<>> /\ c[1] # "0xFF"
      [] kind = "broken"   -> Bare(c) /\ c # <<>> /\ c[1] = "0xFF"
      [] kind = "bom"      -> c = <<"0xEF", "0xBB", "0xBF">>
      [] kind = "cut"      -> c = <<>> /\ last

IsLexeme(x, last) ==
    /\ x.kind \in Kinds /\ x.chars \in Seq(STRING)
    /\ \A k \in 1..Len(x.chars) : x.chars[k] # "NUL"
    /\ WholeCharacters(x.chars)
    /\ Spells(x.kind, x.chars, last)

ASSUME ReadsAssumption ==
    \A r \in Reads :
        /\ {r.relaxed, r.bignum, r.utf8} \subseteq BOOLEAN
        /\ r.lexemes \in Seq({r.lexemes[n] : n \in DOMAIN r.lexemes})
        /\ \A n \in 1..Len(r.lexemes) :
              /\ IsLexeme(r.lexemes[n], n = Len(r.lexemes))
              /\ r.lexemes[n].kind = "bom" => n = 1

VARIABLES
    read,     \* the call
    pc,       \* "first", "scan", "second", "classify", "done"
    i,        \* offset of the scanner
    in_str, escape,  \* the scanner is in a string, after a backslash
    accepted, \* a document was returned
    read_err  \* [code, pos] of the parser

readvars == <<read, pc, i, in_str, escape, accepted, read_err>>

(***************************************************************************)
(* The parser, known by what it accepts and where it stops.                *)
(***************************************************************************)
Chars == [n \in DOMAIN read.lexemes |-> read.lexemes[n].chars]
text == FlattenSeq(Chars)
StartOf(n) == Len(FlattenSeq(SubSeq(Chars, 1, n - 1)))
NoErr == [code |-> "NONE", pos |-> 0]

Accepts(kind, inf_nan) ==
    CASE kind = "plain"    -> TRUE
      [] kind = "overflow" -> inf_nan \/ read.bignum
      [] kind \in {"literal", "signed"} -> inf_nan
      [] kind \in {"comment", "bom"} -> read.relaxed
      [] kind = "badtext"  -> read.utf8
      [] OTHER             -> FALSE

StopCode(kind) ==
    CASE kind \in {"overflow", "signed"} -> "INVALID_NUMBER"
      [] kind = "badtext" -> "INVALID_STRING"
      [] kind = "cut" -> "UNEXPECTED_END"
      [] OTHER -> "UNEXPECTED_CHARACTER"

\* Behind the quote of a malformed string, and behind a sign without digits.
StopAt(n) ==
    StartOf(n) + (IF read.lexemes[n].kind \in {"badtext", "signed"} THEN 1 ELSE 0)

Stops(inf_nan) == {n \in DOMAIN read.lexemes : ~Accepts(read.lexemes[n].kind, inf_nan)}
yyjson_read_opts(inf_nan) ==
    IF Stops(inf_nan) = {} THEN NoErr
    ELSE [code |-> StopCode(read.lexemes[Min(Stops(inf_nan))].kind),
          pos  |-> StopAt(Min(Stops(inf_nan)))]

(***************************************************************************)
(* fastjson_read_doc_ex                                                    *)
(***************************************************************************)
ReadInit ==
    /\ read \in Reads
    /\ pc = "first" /\ i = 0 /\ in_str = FALSE /\ escape = FALSE
    /\ accepted = FALSE /\ read_err = NoErr

FirstRead ==
    /\ pc = "first"
    /\ read_err' = yyjson_read_opts(FALSE)
    /\ accepted' = (read_err' = NoErr)
    /\ pc' = CASE accepted' -> "done"
               [] read_err'.code = "INVALID_NUMBER" -> "scan"
               [] OTHER -> "classify"
    /\ UNCHANGED <<read, i, in_str, escape>>

len == Len(text)
s(offset) == IF offset < len THEN text[offset + 1] ELSE "NUL"
ScanTo(offset, str, esc) ==
    /\ i' = offset /\ in_str' = str /\ escape' = esc
    /\ UNCHANGED <<read, pc, accepted, read_err>>

InString ==
    /\ pc = "scan" /\ i < len /\ in_str
    /\ ScanTo(i + 1, escape \/ s(i) # "\"", ~escape /\ s(i) = "\\")

Comment == read.relaxed /\ s(i) = "/" /\ i + 1 < len
LineComment == Comment /\ s(i + 1) = "/"
BlockComment == Comment /\ s(i + 1) = "*"

\* To the character after the CR or LF that ends the comment.
SkipLineComment ==
    /\ pc = "scan" /\ i < len /\ ~in_str /\ LineComment
    /\ ScanTo(Min({j \in i + 2..len : s(j) \in {"CR", "LF", "NUL"}}) + 1, FALSE, FALSE)

\* Mutant: the closing */ may share its star with the opening.
SkipBlockComment_Overlap ==
    /\ pc = "scan" /\ i < len /\ ~in_str /\ BlockComment
    /\ LET ends == {j \in i + 1..len : s(j) = "*" /\ s(j + 1) = "/"}
       IN ScanTo((IF ends = {} THEN len ELSE Min(ends)) + 2, FALSE, FALSE)

SkipBlockComment ==
    /\ pc = "scan" /\ i < len /\ ~in_str /\ BlockComment
    /\ LET ends == {j \in i + 2..len : s(j) = "*" /\ s(j + 1) = "/"}
       IN ScanTo((IF ends = {} THEN len ELSE Min(ends)) + 2, FALSE, FALSE)

Skipped == LineComment \/ BlockComment

OpenString ==
    /\ pc = "scan" /\ i < len /\ ~in_str /\ s(i) = "\""
    /\ ScanTo(i + 1, TRUE, FALSE)

LiteralAt(offset) ==
    /\ offset + 2 < len
    /\ LET word == <<Lower(s(offset)), Lower(s(offset + 1)), Lower(s(offset + 2))>>
       IN word \in {<<"i", "n", "f">>, <<"n", "a", "n">>}

\* A literal: no second read, the first error stands.
FindLiteral ==
    /\ pc = "scan" /\ i < len /\ ~in_str /\ ~Skipped /\ LiteralAt(i)
    /\ pc' = "classify"
    /\ UNCHANGED <<read, i, in_str, escape, accepted, read_err>>

PassCharacter ==
    /\ pc = "scan" /\ i < len /\ ~in_str /\ ~Skipped /\ s(i) # "\"" /\ ~LiteralAt(i)
    /\ ScanTo(i + 1, FALSE, FALSE)

SecondRead ==
    /\ pc = "scan" /\ i >= len
    /\ read_err' = yyjson_read_opts(TRUE)
    /\ accepted' = (read_err' = NoErr)
    /\ pc' = IF accepted' THEN "done" ELSE "classify"
    /\ UNCHANGED <<read, i, in_str, escape>>

\* fastjson_byte_is_valid_utf8_start is module Utf8.
MalformedAt(offset) == s(offset) = "0xFF"

Reclassifies == read_err.pos < len /\ MalformedAt(read_err.pos)

\* yyjson calls any byte it cannot place unexpected; a malformed one is an
\* error of the encoding.
Classify ==
    /\ pc = "classify"
    /\ read_err' = IF Reclassifies THEN [read_err EXCEPT !.code = "INVALID_STRING"] ELSE read_err
    /\ pc' = "done"
    /\ UNCHANGED <<read, i, in_str, escape, accepted>>

ReadNext ==
    \/ FirstRead \/ InString \/ SkipLineComment \/ SkipBlockComment \/ OpenString
    \/ FindLiteral \/ PassCharacter \/ SecondRead \/ Classify

ReadSpec == ReadInit /\ [][ReadNext]_readvars

(***************************************************************************)
(* Properties                                                              *)
(***************************************************************************)
Has(kinds) == \E n \in DOMAIN read.lexemes : read.lexemes[n].kind \in kinds
Refused ==
    {"foreign", "broken", "cut"} \cup (IF read.relaxed THEN {} ELSE {"comment", "bom"})
        \cup (IF read.utf8 THEN {} ELSE {"badtext"})

\* The retry lets overflowing numbers through and nothing else: a text is
\* accepted exactly when every lexeme of it is JSON under the flags of the
\* call, Inf and NaN never being so and an overflowing number always.  The
\* scanner must not be led astray by quotes, escapes and comments.
AcceptsExactly ==
    pc = "done" => (accepted <=> ~Has({"literal", "signed"} \cup Refused))

\* Without an Inf or NaN in the text, the error is the one of the first lexeme
\* that is not JSON, also when a number was read twice on the way, and it is
\* UTF-8 exactly if that lexeme is malformed UTF-8.  (A comment in a strict
\* text is scanned like the rest of it, so letters in it can stop the retry
\* and leave the error at the number; those texts are left out.)
ErrorIsTheFirstFault ==
    pc = "done" /\ ~accepted /\ ~Has({"literal", "signed"} \cup (Refused \cap {"comment"})) =>
        LET first == Min({n \in DOMAIN read.lexemes : read.lexemes[n].kind \in Refused})
        IN /\ read_err.pos = StopAt(first)
           /\ read_err.code = "INVALID_STRING" <=> read.lexemes[first].kind \in {"badtext", "broken"}
=============================================================================
