------------------------- MODULE MCDirectWriteNested -------------------------
(* Two encodes whose callbacks interleave: nested, or in two fibers.       *)
EXTENDS MCDirectWrite

NestedShapes ==
  {A("json", <<Plain(n2)>>), A("obj", <<Hook, Plain("inf")>>), A("obj", <<Hook, Plain(n2)>>),
   A("list", <<Plain("inf"), Plain(n2), Plain("bad")>>), A("list", <<Plain(n2), Plain("inf")>>),
   A("assoc", <<Plain(n2), Plain(n1)>>), A("assoc", <<Plain(n2), Bad(n2)>>)}

NestedOthers ==
  {A("json", <<Plain("inf"), Hook>>), A("obj", <<Hook, Plain(n1)>>), A("json", <<Plain(n1)>>),
   A("list", <<Plain(n1), Plain("inf")>>), A("obj", <<Bad("ok"), Hook>>)}

NestedHeaps ==
  {[n \in {n1, n2} |-> IF n = n1 THEN a ELSE b] : a \in NestedShapes, b \in NestedOthers}
=============================================================================
