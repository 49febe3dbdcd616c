------------------------------ MODULE ReadError ------------------------------
(***************************************************************************)
(* A document that is refused: what the reader found (Reader) is recorded  *)
(* with its line and column (ErrorLocation), which fastjson_set_read_error *)
(* computes from the offset the reader stopped at.                         *)
(***************************************************************************)
EXTENDS Reader

CONSTANTS WordSize

ASSUME WordAssumption == WordSize \in Nat \ {0}

VARIABLES locate_pc, at, line_count, line_start, line, col

Location == INSTANCE ErrorLocation WITH json <- text, pos <- read_err.pos, pc <- locate_pc, i <- at

locatevars == <<locate_pc, at, line_count, line_start, line, col>>
allvars == <<readvars, locatevars>>

CallInit == ReadInit /\ Location!Init

ReadStep == ReadNext /\ UNCHANGED locatevars

fastjson_set_read_error ==
    /\ pc = "done" /\ ~accepted
    /\ UNCHANGED readvars
    /\ Location!Next

CallNext == ReadStep \/ fastjson_set_read_error

CallSpec == CallInit /\ [][CallNext]_allvars

\* A refused text is reported at its first fault, with the line and column a
\* reader of the text counts there: where the second read stopped if there was
\* one, and never inside a character or on the wrong line because of a byte
\* order mark, a multi-byte character or the end of the text.
ReportsTheFault == ErrorIsTheFirstFault /\ Location!LocatesTheError
=============================================================================
