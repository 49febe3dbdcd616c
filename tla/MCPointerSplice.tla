--------------------------- MODULE MCPointerSplice ---------------------------
(* Small documents, paths and replacements for PointerSplice, and the       *)
(* mapping under which it implements PointerContract.                       *)
EXTENDS PointerSplice, JsonTree

AnswerOf ==
    LET refusal(s) == [status |-> s, target |-> <<>>, text |-> <<>>]
    IN CASE pc = "done" -> [status |-> "OK",
                            target |-> IF call.op = "set" THEN <<>> ELSE <<current>>,
                            text |-> out]
         [] pc \in {"refused", "failed"} -> refusal(status)
         [] pc = "unencodable" -> refusal("UNENCODABLE")
         [] OTHER -> refusal("PENDING")

Contract == INSTANCE PointerContract WITH answer <- AnswerOf

\* Every call of pointer_set, pointer_get and pointer_exists returns, with the
\* value or the text RFC 6901 gives its pointer, or with a reason it really
\* has: malformed before too deep before ambiguous or unsettable before an
\* unencodable replacement before what the new document itself holds.
AnswersAsPromised == Contract!Spec

one == Leaf("num", "1", TRUE)
huge == Leaf("num", "1e999", FALSE)

MCBadKeys == {"x"}
MCSane == [k \in MCBadKeys |-> "a"]

MCDocs ==
    {one, Obj(<<>>), Arr(<<>>),
     Arr(<<one, Arr(<<>>)>>),
     Arr(<<huge, Obj(<< <<"a", one>> >>)>>),
     Obj(<< <<"a", one>>, <<"b", Leaf("str", "s", TRUE)>> >>),
     Obj(<< <<"a", Obj(<<>>)>>, <<"0", huge>> >>),
     Obj(<< <<"b", one>>, <<"a", Obj(<< <<"a", one>>, <<"b", Arr(<<Arr(<<>>)>>)>> >>)>> >>),
     Obj(<< <<"a", one>>, <<"a", Arr(<<one>>)>>, <<"b", one>> >>),
     Obj(<< <<"a", Obj(<< <<"b", one>>, <<"b", one>> >>)>> >>)}

\* Keys with invalid UTF-8 reach only the lookups that asked for them.
MCBadDocs ==
    {Obj(<< <<"x", one>>, <<"b", one>> >>),
     Obj(<< <<"x", one>>, <<"a", one>> >>)}

MCSegs == {[k |-> "a", idx |-> -1], [k |-> "b", idx |-> -1],
           [k |-> "0", idx |-> 0], [k |-> "1", idx |-> 1]}
MCPaths == UNION {[1..n -> MCSegs] : n \in 0..2}
           \cup {<<[k |-> "a", idx |-> -1], s, [k |-> "b", idx |-> -1]>> : s \in MCSegs}
           \cup {[n \in 1..4 |-> [k |-> "a", idx |-> -1]]}
           \cup {<<[k |-> "x", idx |-> -1]>>,
                 <<[k |-> "a", idx |-> -1], [k |-> "x", idx |-> -1]>>,
                 <<[k |-> "x", idx |-> -1], [k |-> "a", idx |-> -1]>>}
\* $depth and pretty printing of the calls of pointer_set.
MCBudgets == {<<1, FALSE>>, <<2, TRUE>>, <<3, TRUE>>, <<4, TRUE>>, <<4, FALSE>>, <<5, TRUE>>}

Direct(node) == [direct |-> TRUE, encodes |-> TRUE, node |-> node, text |-> [p \in BOOLEAN |-> <<>>]]
Encoded(node, encodes) ==
    [direct |-> FALSE, encodes |-> encodes, node |-> node,
     text |-> [p \in BOOLEAN |-> Text(node, p, 0)]]
MCRepls == {Direct(Leaf("str", "new", TRUE)), Direct(Leaf("str", "bad", FALSE)),
            Encoded(Leaf("num", "2.0", TRUE), TRUE), Encoded(one, FALSE),
            Encoded(Arr(<<>>), TRUE), Encoded(Arr(<<one, Obj(<< <<"c", one>> >>)>>), TRUE)}

SetCalls ==
    {[op |-> "set", doc |-> d, segs |-> p, malformed |-> FALSE, utf8 |-> FALSE,
      depth |-> b[1], pretty |-> b[2],
      repl |-> [direct |-> r.direct, encodes |-> r.encodes, node |-> r.node,
                nest |-> Nesting(r.node), text |-> r.text[b[2]]]] :
        d \in MCDocs, p \in MCPaths, b \in MCBudgets, r \in MCRepls}

GetCalls ==
    {[op |-> o, doc |-> d, segs |-> p, malformed |-> m, utf8 |-> u, depth |-> n, pretty |-> FALSE,
      repl |-> [direct |-> TRUE, encodes |-> TRUE, node |-> one, nest |-> 0, text |-> <<>>]] :
        o \in {"get", "exists"}, d \in MCDocs, p \in MCPaths, m \in BOOLEAN,
        u \in {FALSE}, n \in {1, 3}}
    \cup
    {[op |-> o, doc |-> d, segs |-> p, malformed |-> FALSE, utf8 |-> TRUE, depth |-> 2, pretty |-> FALSE,
      repl |-> [direct |-> TRUE, encodes |-> TRUE, node |-> one, nest |-> 0, text |-> <<>>]] :
        o \in {"get", "exists"}, d \in MCBadDocs, p \in MCPaths}

MCCalls == SetCalls \cup GetCalls

MCKeys == {"", "a", "b", "c", "x", "0", "1"}
\* The documents and replacements are at most four levels high.
WithChildren(S) == S \cup UNION {{x.kids[p].v : p \in DOMAIN x.kids} : x \in S}
MCNodes ==
    WithChildren(WithChildren(WithChildren(MCDocs \cup MCBadDocs \cup {r.node : r \in MCRepls})))
=============================================================================
