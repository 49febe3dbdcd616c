--------------------------- MODULE PointerContract ---------------------------
(***************************************************************************)
(* What the pointer functions promise, whatever way they compute it: one   *)
(* step from a call to an answer the call allows.  Documents, segments and *)
(* calls are as in PointerSplice.                                          *)
(***************************************************************************)
EXTENDS JsonTree, FiniteSets

CONSTANTS Calls, MaxSegments, BadKeys, Sane, Faults

VARIABLES
    call,    \* the call
    fault,   \* the fault of the environment the answer reports, or "none"
    answer   \* Pending, then [status, target: <<>> or <<node>>, text]

cvars == <<call, fault, answer>>

Pending == [status |-> "PENDING", target |-> <<>>, text |-> <<>>]
Refusal(s) == [Pending EXCEPT !.status = s]

\* The members a segment names, after RFC 6901: the value of the key in an
\* object, the element at the index in an array.
Named(node, seg, utf8) ==
    LET seen(k) == IF utf8 /\ k \in BadKeys THEN Sane[k] ELSE k
    IN {p \in DOMAIN node.kids :
           \/ node.t = "obj" /\ seen(node.kids[p].k) = seg.k
           \/ node.t = "arr" /\ p = seg.idx + 1}

\* Where a path leads: a node, "AMBIGUOUS", "SETTABLE_FAIL", or "ADD" where
\* an object lacks the next member.
RECURSIVE Lookup(_, _, _)
Lookup(node, segs, utf8) ==
    IF segs = <<>> THEN [verdict |-> "OK", node |-> <<node>>]
    ELSE LET hits == Named(node, Head(segs), utf8)
             stop(v) == [verdict |-> v, node |-> <<>>]
         IN CASE Cardinality(hits) > 1 -> stop("AMBIGUOUS")
              [] hits = {} -> stop(IF node.t = "obj" THEN "ADD" ELSE "SETTABLE_FAIL")
              [] OTHER -> Lookup(node.kids[CHOOSE p \in hits : TRUE].v, Tail(segs), utf8)

\* The kinds of scalar below a node that have no JSON form; a key is a string.
RECURSIVE Unwritable(_)
Unwritable(node) ==
    (IF node.ok THEN {} ELSE {node.t})
        \cup (IF \E p \in DOMAIN node.kids : node.kids[p].k \in BadKeys THEN {"str"} ELSE {})
        \cup UNION {Unwritable(node.kids[p].v) : p \in DOMAIN node.kids}

Member(k, v) == [k |-> k, v |-> v]

\* The document with the value at the path replaced, or added.
RECURSIVE Put(_, _, _)
Put(node, segs, value) ==
    IF segs = <<>> THEN value
    ELSE LET seg == Head(segs)
             hits == Named(node, seg, FALSE)
         IN IF hits = {}
            THEN Node("obj", 
                     Append(node.kids, Member(seg.k, Put(Obj(<<>>), Tail(segs), value))))
            ELSE LET p == CHOOSE q \in hits : TRUE
                 IN [node EXCEPT !.kids[p].v = Put(@, Tail(segs), value)]

\* The pointer itself: malformed comes before too long.
PointerVerdict(c) ==
    IF c.malformed THEN "SETTABLE_FAIL"
    ELSE IF Len(c.segs) > MaxSegments \/ (c.op # "exists" /\ Len(c.segs) >= c.depth)
    THEN "DEPTH_FAIL" ELSE "OK"

\* get and exists answer with the node; a path that leads nowhere is absent.
Lookups(c) ==
    LET found == Lookup(c.doc, c.segs, c.utf8)
    IN IF found.verdict = "OK"
       THEN [Pending EXCEPT !.status = "OK", !.target = found.node]
       ELSE Refusal(IF found.verdict = "AMBIGUOUS" THEN "AMBIGUOUS" ELSE "SETTABLE_FAIL")

\* Every reason the new document cannot be written.
Obstacles(c) ==
    LET new == Put(c.doc, c.segs, c.repl.node)
    IN (IF Nesting(new) >= c.depth THEN {"DEPTH_FAIL"} ELSE {})
       \cup {IF t = "num" THEN "INF_OR_NAN" ELSE "INVALID_UTF8" : t \in Unwritable(new)}

\* The replacement is refused on its own when it does not fit where it goes.
Unencodable(c) ==
    ~c.repl.direct /\ (~c.repl.encodes \/ Len(c.segs) + Nesting(c.repl.node) >= c.depth)

FaultStatus == [stack |-> "DEPTH_FAIL", size |-> "TOO_LARGE"]

\* set answers with the text of the new document, or with one of the reasons.
Sets(c, f) ==
    LET found == Lookup(c.doc, c.segs, FALSE).verdict
    IN CASE found \in {"AMBIGUOUS", "SETTABLE_FAIL"} -> {Refusal(found)}
         [] Unencodable(c) -> {Refusal("UNENCODABLE")}
         [] f # "none" -> {Refusal(FaultStatus[f])}
         [] Obstacles(c) # {} -> {Refusal(s) : s \in Obstacles(c)}
         [] OTHER -> {[status |-> "OK", target |-> <<>>,
                       text |-> Text(Put(c.doc, c.segs, c.repl.node), c.pretty, 0)]}

Allowed(c, f) ==
    IF PointerVerdict(c) # "OK" THEN {Refusal(PointerVerdict(c))}
    ELSE IF c.op = "set" THEN Sets(c, f) ELSE {Lookups(c)}

Init == call \in Calls /\ fault = "none" /\ answer = Pending

Answer ==
    /\ answer = Pending
    /\ \E f \in {"none"} \cup Faults :
           fault' = f /\ answer' \in Allowed(call, f)
    /\ UNCHANGED call

\* Every call is answered.
Spec == Init /\ [][Answer]_cvars /\ WF_cvars(Answer)
=============================================================================
