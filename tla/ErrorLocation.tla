---------------------------- MODULE ErrorLocation ----------------------------
(***************************************************************************)
(* The line and column recorded with a parse error (fastjson_set_read_     *)
(* error): fastjson_locate_ascii_pos reads the text a word at a time and   *)
(* gives up at the first byte that is not ASCII, when yyjson_locate_pos    *)
(* starts over and counts characters.  Bytes are "LF", any other ASCII,    *)
(* the three of the byte order mark, "0xC3" and "0xA9", which make up a    *)
(* two-byte character, and "0xFF", which belongs to none.                  *)
(***************************************************************************)
EXTENDS Integers, Sequences, FiniteSets

CONSTANTS
    WordSize   \* bytes read at a time, 8

VARIABLES
    json, pos,   \* the arguments: the text and the offset of the error in it
    pc,          \* "start", "words", "bytes", "chars", "done"
    i,           \* the offset reached
    line_count, line_start,
    line, col    \* the answer

vars == <<json, pos, pc, i, line_count, line_start, line, col>>

At(offset) == json[offset + 1]
BOM == <<"0xEF", "0xBB", "0xBF">>
High == {"0xC3", "0xA9", "0xFF", "0xEF", "0xBB", "0xBF"}
HasBOM == pos >= 3 /\ SubSeq(json, 1, 3) = BOM
Start == IF HasBOM THEN 3 ELSE 0

Init ==
    /\ pc = "start" /\ i = 0 /\ line_count = 0 /\ line_start = 0
    /\ line = 0 /\ col = 0

Begin ==
    /\ pc = "start"
    /\ i' = Start /\ line_start' = Start
    /\ pc' = "words"
    /\ UNCHANGED <<json, pos, line_count, line, col>>

Word == i..i + WordSize - 1
Newlines(offsets) == {j \in offsets : At(j) = "LF"}
LastOf(S) == CHOOSE j \in S : \A k \in S : k <= j

\* fastjson_locate_ascii_pos gives up; yyjson_locate_pos counts from the start.
GiveUp ==
    /\ pc' = "chars"
    /\ i' = Start /\ line_count' = 0 /\ line_start' = 0
    /\ UNCHANGED <<json, pos, line, col>>

Counted(found, next) ==
    /\ i' = next
    /\ line_count' = line_count + Cardinality(found)
    /\ line_start' = IF found = {} THEN line_start ELSE LastOf(found) + 1
    /\ UNCHANGED <<json, pos, pc, line, col>>

\* Mutant: a word counts as one line break however many it holds.
WordStep_OneBreak ==
    /\ pc = "words" /\ i + WordSize <= pos
    /\ IF \E j \in Word : At(j) \in High THEN GiveUp
       ELSE /\ i' = i + WordSize
            /\ line_count' = line_count + (IF Newlines(Word) = {} THEN 0 ELSE 1)
            /\ line_start' = IF Newlines(Word) = {} THEN line_start ELSE LastOf(Newlines(Word)) + 1
            /\ UNCHANGED <<json, pos, pc, line, col>>

\* A word is tested as a whole for high bytes and for line breaks; one that
\* has breaks is then looked through byte by byte.
WordStep ==
    /\ pc = "words" /\ i + WordSize <= pos
    /\ IF \E j \in Word : At(j) \in High THEN GiveUp
       ELSE Counted(Newlines(Word), i + WordSize)

WordsEnd ==
    /\ pc = "words" /\ i + WordSize > pos
    /\ pc' = "bytes"
    /\ UNCHANGED <<json, pos, i, line_count, line_start, line, col>>

ByteStep ==
    /\ pc = "bytes" /\ i < pos
    /\ IF At(i) \in High THEN GiveUp ELSE Counted(Newlines({i}), i + 1)

BytesEnd ==
    /\ pc = "bytes" /\ i >= pos
    /\ line' = line_count + 1 /\ col' = pos - line_start + 1
    /\ pc' = "done"
    /\ UNCHANGED <<json, pos, i, line_count, line_start>>

(***************************************************************************)
(* yyjson_locate_pos, a library function: whole characters up to pos.      *)
(***************************************************************************)
CharStarts(from, to) ==
    {j \in from..to - 1 :
        /\ ~(j > from /\ At(j - 1) = "0xC3")
        /\ ~(j > from /\ At(j - 1) = "0xEF") /\ ~(j > from + 1 /\ At(j - 2) = "0xEF")}

yyjson_locate_pos ==
    /\ pc = "chars"
    /\ LET chars == CharStarts(Start, pos)
           breaks == Newlines(chars)
           after == IF breaks = {} THEN Start ELSE LastOf(breaks) + 1
       IN /\ line' = Cardinality(breaks) + 1
          /\ col' = Cardinality({j \in chars : j >= after}) + 1
    /\ pc' = "done"
    /\ UNCHANGED <<json, pos, i, line_count, line_start>>

Next ==
    \/ Begin \/ WordStep \/ WordsEnd \/ ByteStep \/ BytesEnd \/ yyjson_locate_pos

Spec == Init /\ [][Next]_vars

(***************************************************************************)
(* Properties                                                              *)
(***************************************************************************)
\* Line and column are what a reader of the text counts, whichever of the two
\* functions found them: one line more than there are line breaks before the
\* error, and one column more than there are characters since the last break,
\* a byte order mark counting as nothing.
LocatesTheError ==
    pc = "done" =>
        LET before == {j \in Start..pos - 1 : At(j) = "LF"}
            bol == IF before = {} THEN Start ELSE LastOf(before) + 1
        IN /\ line = Cardinality(before) + 1
           /\ col = Cardinality({j \in bol..pos - 1 : At(j) \notin {"0xA9", "0xBB", "0xBF"}}) + 1
=============================================================================
