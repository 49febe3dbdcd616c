----------------------------- MODULE MCMergePatch -----------------------------
(* Targets and patches with repeated keys, nulls and branches of different  *)
(* depth, under both forms of the merge.                                     *)
EXTENDS MergePatch

one == Leaf("num", "1", TRUE)
two == Leaf("num", "2", TRUE)
null == Leaf("null", "null", TRUE)
Parts == {one, null, Arr(<<Arr(<<>>)>>), Obj(<<>>), Obj(<< <<"a", null>>, <<"b", two>> >>)}
PatchParts == {two, null, Obj(<< <<"a", null>>, <<"a", Obj(<<>>)>> >>), Obj(<< <<"b", Arr(<<one>>)>> >>)}
Pairs(keys, S) == {Obj(<< <<j, u>>, <<k, v>> >>) : j, k \in keys, u, v \in S}
MCTargets == {one, Arr(<<one>>), Obj(<<>>)} \cup Pairs({"a", "b"}, Parts)
MCPatches == {Obj(<<>>)} \cup Pairs({"a", "b"}, PatchParts)
             \cup {Obj(<< <<"c", Obj(<< <<"d", null>>, <<"e", p>> >>)>> >>) : p \in PatchParts}
\* Patches that are no objects, with branches of different depth in any order.
Flat == {one, Arr(<<>>), Obj(<< <<"a", one>> >>)}
Wrap(S) == {Arr(<<u, v>>) : u, v \in S}
MCWhole == {null} \cup Wrap(Flat)
           \cup Wrap({Arr(<<u>>) : u \in Wrap(Flat)} \cup {Obj(<< <<"a", Arr(<<one>>)>> >>), one})
MCInputs ==
    [target : MCTargets, patch : MCPatches, depth : 1..4, linear_max : {0, 2}]
    \cup [target : {one}, patch : MCWhole, depth : 1..6, linear_max : {2}]
=============================================================================
