----------------------------- MODULE MCKeyShare -----------------------------
(* KeyShare on a table of 8 slots with 3 usable entries and 2 probes:      *)
(* three keys collide, so one of them finds no slot before the table is    *)
(* full; one key is numeric, one is too long to share.                     *)
EXTENDS KeyShare

MCKeys == {"a", "b", "c", "7", "long"}
MCLong == {"long"}
MCNumeric == {"7"}
MCHash == [k \in MCKeys |-> IF k = "7" THEN 11 ELSE 15]
=============================================================================
