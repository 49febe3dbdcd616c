----------------------------- MODULE MCDecodeWalk -----------------------------
(* Documents with repeated, numeric, NUL-led and malformed keys, and what    *)
(* they are expected to decode to.                                           *)
EXTENDS DecodeWalk, JsonTree

(* The reference: a repeated key keeps its first place and its last value.   *)
SeenAs(k) ==
    LET text == IF walk.utf8 /\ k \in BadKeys THEN Sane[k] ELSE k
    IN <<IF walk.assoc /\ text \in NumericKeys THEN "int" ELSE "string", text>>
RECURSIVE Decoded(_)
Decoded(node) ==
    IF ~IsContainer(node) THEN Scalar(node)
    ELSE LET kids == node.kids
             same(p) == {q \in DOMAIN kids : SeenAs(kids[q].k) = SeenAs(kids[p].k)}
             firsts == SelectSeq([p \in DOMAIN kids |-> p], LAMBDA p : p = Min(same(p)))
             ents == IF node.t = "arr"
                     THEN [p \in DOMAIN kids |-> [k |-> <<"int", "">>, v |-> Decoded(kids[p].v)]]
                     ELSE [n \in DOMAIN firsts |->
                              [k |-> SeenAs(kids[firsts[n]].k),
                               v |-> Decoded(kids[Max(same(firsts[n]))].v)]]
         IN [t |-> CASE node.t = "arr" -> "list" [] walk.assoc -> "array" [] OTHER -> "object",
             tok |-> "", ents |-> ents,
             n |-> 1 + MapThenSumSet(LAMBDA p : ents[p].v.n, DOMAIN ents)]

\* A walk succeeds exactly when the document nests less than $depth, repeated
\* members included, and object mode meets no name that begins with NUL; it
\* then returns the PHP value ext/json's rules give; and the error names the
\* obstacle that is there.
DecodesExactly ==
    mode = "done" =>
        LET shallow == Nesting(walk.doc) < walk.depth
            named == walk.assoc \/ \A k \in KeysOf(walk.doc) : SeenAs(k)[2] \notin NulKeys
        IN /\ ret.ok => shallow /\ named /\ ret.v = Decoded(walk.doc)
           /\ ret.ok <=> err = "NONE"
           /\ err = "DEPTH" => ~shallow \/ overran
           /\ err = "INVALID_PROPERTY_NAME" => ~named

one == Leaf("num", "1", TRUE)
MCKeys == {"a", "1", "x", "N", "y"}
MCBadKeys == {"x", "y"}
MCSane == [k \in MCBadKeys |-> IF k = "x" THEN "a" ELSE "N"]
MCParts == {one, Arr(<<>>), Obj(<< <<"a", Arr(<<one>>)>> >>)}
MCDocs ==
    {one, Arr(<<>>), Obj(<<>>)}
    \cup {Arr(<<u, v>>) : u, v \in MCParts}
    \cup {Obj(<< <<j, u>>, <<k, v>> >>) : j, k \in MCKeys, u, v \in MCParts}
    \cup {Arr(<<one, Obj(<< <<"a", u>>, <<j, v>>, <<"a", one>> >>)>>) : j \in MCKeys, u, v \in MCParts}
MCShapes ==
    {w \in [doc : MCDocs, assoc : BOOLEAN, utf8 : BOOLEAN, depth : 1..5] :
        w.utf8 \/ KeysOf(w.doc) \cap MCBadKeys = {}}

\* Every document with a small number in it, and numbers of all sizes alone.
With(w, x, bigint, bits, type) ==
    [doc |-> w.doc, assoc |-> w.assoc, utf8 |-> w.utf8, depth |-> w.depth,
     bigint |-> bigint, bits |-> bits, number |-> x, val |-> [type |-> type, n |-> Value(x)]]
Small == [neg |-> FALSE, mag |-> 1, fraction |-> FALSE]
Alone == [doc |-> one, assoc |-> TRUE, utf8 |-> FALSE, depth |-> 2]
MCNumbers ==
    {x \in [neg : BOOLEAN, mag : 0..300, fraction : BOOLEAN] : x.neg => x.mag > 0}
MCWalks ==
    {With(w, Small, FALSE, 8, "uint") : w \in MCShapes}
    \cup UNION {{With(Alone, x, bigint, bits, type) : type \in ReaderTypes(x, bigint)} :
                  x \in MCNumbers, bigint \in BOOLEAN, bits \in {4, 8}}
=============================================================================
