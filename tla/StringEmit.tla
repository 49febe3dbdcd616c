----------------------------- MODULE StringEmit -----------------------------
(***************************************************************************)
(* dw_emit_string_ex to its end: the string is appended to the output      *)
(* (StringWriter) and, under the JSON_HEX flags, rewritten in place by     *)
(* dw_apply_hex_escapes (HexEscapes), in the same buffer.                  *)
(***************************************************************************)
EXTENDS StringWriter

VARIABLES hex_pc, hex_i, growth, read, write

HexPass == INSTANCE HexEscapes
    WITH start_pos <- Len(before), bytes <- mem, pc <- hex_pc, i <- hex_i

hexvars == <<hex_pc, hex_i, growth, read, write>>
allvars == <<writervars, hexvars>>

EmitInit == WriterInit /\ HexPass!Init

WriteStep == WriterNext /\ UNCHANGED hexvars

HexMask == {"tag", "amp", "apos", "quot"}

dw_apply_hex_escapes ==
    /\ stage = "done" /\ result = "ok" /\ flags \cap HexMask /= {}
    /\ UNCHANGED <<call, str, sane, pos, stage>>
    /\ HexPass!Next
    /\ result' = IF hex_pc' = "too_large" THEN "too_large" ELSE result

EmitNext == WriteStep \/ dw_apply_hex_escapes

EmitSpec == EmitInit /\ [][EmitNext]_allvars

(***************************************************************************)
(* Properties                                                              *)
(***************************************************************************)
\* The string is written as one pass of the library would have written it,
\* whichever way it takes (StringWriter).
WritesTheString == hex_pc = "count" => StringWritten

\* The string with those characters in hexadecimal to begin with.
HexedAt(p) ==
    IF HexPass!Special(ByteOf(str, p)) \/ (ByteOf(str, p) = "Q" /\ "quot" \in flags)
    THEN HexPass!Hex(ByteOf(str, p)) ELSE Escaped(str, p)
HexedJson ==
    <<"Q">> \o FlattenSeq([k \in 1..Len(str) |-> IF WholeAt(str, k - 1) THEN HexedAt(k - 1) ELSE <<>>])
            \o <<"Q">>

\* The two passes agree on what is an escape (the assertion at the end of the
\* function); the backward pass never stores over a byte it has still to read
\* nor before the string; the result is the string with those characters in
\* hexadecimal to begin with; and one that would outgrow the buffer leaves all
\* of it as it was.
HexesExactly ==
    /\ hex_pc = "rewrite" =>
          write >= read /\ SubSeq(mem, 1, read) = SubSeq(before \o Json(str), 1, read)
    /\ hex_pc = "done" =>
          (growth > 0 => write = Len(before)) /\ SubSeq(mem, 1, used) = before \o HexedJson
    /\ hex_pc = "too_large" => SubSeq(mem, 1, used) = before \o Json(str)
=============================================================================
