---------------------------- MODULE MCDirectWrite ----------------------------
(* One encode over every heap of two nodes drawn from a set of shapes.     *)
EXTENDS DirectWrite

CONSTANTS n1, n2

Plain(v) == [key |-> "ok", how |-> "plain", val |-> v]
Bad(v)   == [key |-> "bad", how |-> "plain", val |-> v]
Hook     == [key |-> "ok", how |-> "hook", val |-> "ok"]
Skip     == [key |-> "ok", how |-> "skip", val |-> "ok"]

A(kind, items) == [kind |-> kind, fixed |-> FALSE, items |-> items]

\* up to two items of the given set
UpTo2(S) == {<< >>} \cup {<<a>> : a \in S} \cup {<<a, b>> : a \in S, b \in S}

ListItems == {Plain(v) : v \in {"ok", "inf", "bad", "huge", n1, n2}}
KeyItems  == {Plain("ok"), Plain("inf"), Plain("type"), Plain(n1), Plain(n2), Bad("ok")}
PropItems == {Plain("inf"), Plain("enum"), Plain(n2), Bad("ok"), Hook, Skip}

Shapes ==
  {A("list", it) : it \in UpTo2(ListItems)}
    \cup {A("assoc", it) : it \in UpTo2(KeyItems)}
    \cup {A("obj", it) : it \in UpTo2(PropItems)}
    \cup {A("json", <<Plain("inf")>>), A("json", <<Plain(n2), Hook>>)}

Others ==
  {A("list", <<Plain("inf"), Plain("bad")>>), A("list", <<Plain(n1)>>),
   A("assoc", <<Plain("inf"), Plain("ok")>>), A("bare", << >>),
   [kind |-> "list", fixed |-> TRUE, items |-> <<Plain("ok")>>],
   [kind |-> "obj", fixed |-> TRUE, items |-> <<Plain(n2)>>],
   A("obj", <<Hook>>), A("obj", <<Skip, Plain("inf")>>), A("json", <<Plain(n1)>>),
   A("json", <<Hook, Plain("ok")>>)}

MCHeaps == {[n \in {n1, n2} |-> IF n = n1 THEN a ELSE b] : a \in Shapes, b \in Others}
=============================================================================
