----------------------------- MODULE MCApiCalls -----------------------------
(* ApiCalls with two fibers and two waiting frames.                        *)
EXTENDS ApiCalls, TLC

MCReadErrs == {[code |-> "INVALID_STRING", pos |-> 0]}
FiberSymmetry == Permutations(Fibers)
=============================================================================
