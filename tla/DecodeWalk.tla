------------------------------ MODULE DecodeWalk ------------------------------
(***************************************************************************)
(* The walker (fastjson_walk.inc) that turns a parsed document into PHP    *)
(* values, and the end of fastjson_walk_doc_into.  The recursion is an     *)
(* explicit stack; a frame holds the container it fills, which nobody else *)
(* owns until the frame returns it.  What is on trial is the depth count,  *)
(* the order and the replacement of members, and that every container and  *)
(* every sanitized key is released on every way out.  Numbers are          *)
(* converted by module Numbers; the key cache that the walker also drives  *)
(* is module KeyShare.                                                     *)
(***************************************************************************)
EXTENDS Numbers

CONSTANTS
    Walks,        \* the walks: [doc, assoc, utf8, bigint: BOOLEAN, depth,
                  \*  bits: those of a zend_long, number: what its numbers are
                  \*  in the text, val: and as the reader gives them]
    BadKeys,      \* keys with invalid UTF-8, met only when utf8 is set
    Sane,         \* what sanitizing makes of each of them
    NulKeys,      \* keys whose first byte is NUL
    NumericKeys,  \* keys that are canonical integers
    StackFaults   \* whether the native stack may run out

ASSUME WalksAssumption ==
    /\ StackFaults \in BOOLEAN
    /\ \A w \in Walks :
          /\ w.depth \in Nat \ {0} /\ {w.assoc, w.utf8, w.bigint} \subseteq BOOLEAN
          /\ w.bits \in 1..IntBits
          /\ w.val.type \in ReaderTypes(w.number, w.bigint) /\ w.val.n = Value(w.number)

VARIABLES
    walk,    \* the call
    mode,    \* "call", "loop", "return", "done"
    arg,     \* the node and remaining_depth passed to the function being entered
    frames,  \* active calls, innermost last: [node, rem, pos, out]
    ret,     \* what the last call returned: [ok, v]
    live,    \* containers allocated and not freed
    owned,   \* sanitized keys allocated and not freed
    err,     \* last_err_code
    overran  \* whether the native stack ran out

vars == <<walk, mode, arg, frames, ret, live, owned, err, overran>>

\* PHP values: [t, tok, ents: the entries in order, n: the containers held].
Null == [t |-> "null", tok |-> "", ents |-> <<>>, n |-> 0]
Scalar(node) ==
    [t |-> node.t, ents |-> <<>>, n |-> 0,
     tok |-> IF node.t = "num" THEN NumberToZval(walk.val, walk.number, walk.bigint, walk.bits)
             ELSE node.tok]
NewContainer(node) ==
    [t |-> CASE node.t = "arr" -> "list" [] walk.assoc -> "array" [] OTHER -> "object",
     tok |-> "", ents |-> <<>>, n |-> 1]

IsCtn(node) == node.t \in {"arr", "obj"}
Init ==
    /\ walk \in Walks
    /\ mode = "call" /\ arg = [node |-> walk.doc, rem |-> walk.depth]
    /\ frames = <<>> /\ ret = [ok |-> TRUE, v |-> Null]
    /\ live = 0 /\ owned = 0 /\ err = "NONE" /\ overran = FALSE

Return(ok, v) == mode' = "return" /\ ret' = [ok |-> ok, v |-> v]

Fails(code) ==
    /\ Return(FALSE, Null) /\ err' = code
    /\ UNCHANGED <<walk, arg, frames, live, owned>>

(***************************************************************************)
(* Entering the function                                                   *)
(***************************************************************************)
TooDeep == arg.rem <= 0 \/ (IsCtn(arg.node) /\ arg.rem <= 1)

WalkTooDeep == mode = "call" /\ TooDeep /\ Fails("DEPTH") /\ UNCHANGED overran

\* The stack check precedes the depth check of a container; both say DEPTH.
WalkStackOverflows ==
    /\ StackFaults
    /\ mode = "call" /\ IsCtn(arg.node) /\ arg.rem > 0
    /\ Fails("DEPTH") /\ overran' = TRUE

WalkScalar ==
    /\ mode = "call" /\ ~TooDeep /\ ~IsCtn(arg.node)
    /\ Return(TRUE, Scalar(arg.node))
    /\ UNCHANGED <<walk, arg, frames, live, owned, err, overran>>

WalkContainer ==
    /\ mode = "call" /\ ~TooDeep /\ IsCtn(arg.node)
    /\ mode' = "loop"
    /\ frames' = Append(frames, [node |-> arg.node, rem |-> arg.rem, pos |-> 1,
                                 out |-> NewContainer(arg.node)])
    /\ live' = live + 1
    /\ UNCHANGED <<walk, arg, ret, owned, err, overran>>

(***************************************************************************)
(* The loops over elements and members                                     *)
(***************************************************************************)
top == frames[Len(frames)]
Below == SubSeq(frames, 1, Len(frames) - 1)
Kid == top.node.kids[top.pos]
HasKid == top.pos <= Len(top.node.kids)

Sanitizes(key) == walk.utf8 /\ key \in BadKeys
UseKey(key) == IF Sanitizes(key) THEN Sane[key] ELSE key

\* Object mode has no property whose name begins with NUL.
BadName(key) == ~walk.assoc /\ UseKey(key) \in NulKeys

CallKid ==
    /\ mode' = "call"
    /\ arg' = [node |-> Kid.v, rem |-> top.rem - 1]
    /\ UNCHANGED <<walk, frames, ret, live, err, overran>>

NextElement ==
    /\ mode = "loop" /\ HasKid /\ top.node.t = "arr"
    /\ CallKid
    /\ UNCHANGED owned

NextMember ==
    /\ mode = "loop" /\ HasKid /\ top.node.t = "obj" /\ ~BadName(Kid.k)
    /\ CallKid
    /\ owned' = IF Sanitizes(Kid.k) THEN owned + 1 ELSE owned

\* The key is freed again; the object filled so far goes back to the caller.
NextMemberRefused ==
    /\ mode = "loop" /\ HasKid /\ top.node.t = "obj" /\ BadName(Kid.k)
    /\ Return(FALSE, top.out)
    /\ frames' = Below
    /\ err' = "INVALID_PROPERTY_NAME"
    /\ UNCHANGED <<walk, arg, live, owned, overran>>

LoopEnds ==
    /\ mode = "loop" /\ ~HasKid
    /\ Return(TRUE, top.out)
    /\ frames' = Below
    /\ UNCHANGED <<walk, arg, live, owned, err, overran>>

(***************************************************************************)
(* Back from a child                                                       *)
(***************************************************************************)
\* Canonical integers become integer keys of arrays, not of objects.
HashKey(key) ==
    <<IF walk.assoc /\ UseKey(key) \in NumericKeys THEN "int" ELSE "string", UseKey(key)>>

\* zend_hash_update keeps the place of an existing key and frees its value.
Holding(out, key) == {p \in DOMAIN out.ents : out.ents[p].k = key}
Displaced(out, key) ==
    IF Holding(out, key) = {} THEN Null ELSE out.ents[CHOOSE p \in Holding(out, key) : TRUE].v

\* Mutant: a repeated member is appended again.
Updated_Appends(out, key, v) ==
    [out EXCEPT !.ents = Append(@, [k |-> key, v |-> v]), !.n = @ + v.n]

Updated(out, key, v) ==
    [out EXCEPT
        !.ents = IF Holding(out, key) = {} THEN Append(@, [k |-> key, v |-> v])
                 ELSE [p \in DOMAIN @ |-> IF @[p].k = key THEN [k |-> key, v |-> v] ELSE @[p]],
        !.n = @ + v.n - Displaced(out, key).n]

Pushed(out, v) ==
    [out EXCEPT !.ents = Append(@, [k |-> <<"int", "">>, v |-> v]), !.n = @ + v.n]

ReleasesKey == IF top.node.t = "obj" /\ Sanitizes(Kid.k) THEN owned - 1 ELSE owned

StoreChild ==
    /\ mode = "return" /\ frames # <<>> /\ ret.ok
    /\ mode' = "loop"
    /\ LET isobj == top.node.t = "obj"
           key == HashKey(Kid.k)
       IN /\ frames' = Append(Below,
                 [top EXCEPT !.pos = @ + 1,
                             !.out = IF isobj THEN Updated(@, key, ret.v) ELSE Pushed(@, ret.v)])
          /\ live' = IF isobj THEN live - Displaced(top.out, key).n ELSE live
    /\ owned' = ReleasesKey
    /\ UNCHANGED <<walk, arg, ret, err, overran>>

\* Mutant: the child of a failed call is left alone.
ChildFailed_Keeps ==
    /\ mode = "return" /\ frames # <<>> /\ ~ret.ok
    /\ Return(FALSE, top.out)
    /\ frames' = Below
    /\ owned' = ReleasesKey
    /\ UNCHANGED <<walk, arg, err, live, overran>>

\* zval_ptr_dtor(&child), and the container filled so far goes up.
ChildFailed ==
    /\ mode = "return" /\ frames # <<>> /\ ~ret.ok
    /\ live' = live - ret.v.n
    /\ Return(FALSE, top.out)
    /\ frames' = Below
    /\ owned' = ReleasesKey
    /\ UNCHANGED <<walk, arg, err, overran>>

\* fastjson_walk_doc_into: a partial value is destroyed, null is returned.
WalkEnds ==
    /\ mode = "return" /\ frames = <<>>
    /\ mode' = "done"
    /\ live' = IF ret.ok THEN live ELSE live - ret.v.n
    /\ ret' = IF ret.ok THEN ret ELSE [ok |-> FALSE, v |-> Null]
    /\ UNCHANGED <<walk, arg, frames, owned, err, overran>>

Next ==
    \/ WalkTooDeep \/ WalkStackOverflows \/ WalkScalar \/ WalkContainer
    \/ NextElement \/ NextMember \/ NextMemberRefused \/ LoopEnds
    \/ StoreChild \/ ChildFailed \/ WalkEnds

Spec == Init /\ [][Next]_vars

(***************************************************************************)
(* Properties                                                              *)
(***************************************************************************)
\* Once the walk is over, the containers still alive are exactly those of the
\* value returned, none after a failure, and no sanitized key is left: partial
\* arrays and objects, displaced duplicates and keys are freed once each on
\* every path out of the recursion.
NothingLeaks ==
    mode = "done" => live = ret.v.n /\ owned = 0

\* On every build a number of the document keeps its value: it never wraps,
\* changes its sign or loses a digit on its way into a PHP value, and is a
\* float or a string only where it has to be.
NumberKeepsItsValue ==
    mode = "return" /\ ret.ok /\ ret.v.t = "num" =>
        KeepsValue(ret.v.tok, walk.number, walk.bigint, walk.bits)

(***************************************************************************)
(* The inductive strengthening of NothingLeaks                             *)
(***************************************************************************)
\* The sum of a sequence of integers.
Total(s) ==
    LET upto[n \in 0..Len(s)] == IF n = 0 THEN 0 ELSE upto[n - 1] + s[n]
    IN upto[Len(s)]

IsSequence(s) == s \in Seq({s[p] : p \in DOMAIN s})
Counts(ents) == [p \in DOMAIN ents |-> ents[p].v.n]

\* A container under construction counts itself and what its entries hold; a
\* table has one entry for a key.
Sound(f) ==
    /\ DOMAIN f = {"node", "rem", "pos", "out"} /\ DOMAIN f.out = {"t", "tok", "ents", "n"}
    /\ IsSequence(f.out.ents)
    /\ \A p \in DOMAIN f.out.ents : f.out.ents[p].v.n \in Int
    /\ f.out.n = 1 + Total(Counts(f.out.ents))
    /\ f.node.t = "obj" =>
          \A p, q \in DOMAIN f.out.ents : f.out.ents[p].k = f.out.ents[q].k => p = q

\* The sanitized key a call holds while it is in a child.
KeyHeld(f) == IF f.node.t = "obj" /\ Sanitizes(f.node.kids[f.pos].k) THEN 1 ELSE 0
InChild == IF mode = "loop" THEN Len(frames) - 1 ELSE Len(frames)

WalkShape ==
    /\ mode \in {"call", "loop", "return", "done"}
    /\ IsSequence(frames) /\ \A m \in DOMAIN frames : Sound(frames[m])
    /\ mode = "loop" => frames # <<>>
    /\ mode = "done" => frames = <<>>
    /\ ret.v.n \in Int

\* Every live container belongs to one active call or to the value on its way
\* up, every sanitized key to one call that is in a child.
WalkInv ==
    /\ WalkShape
    /\ live = Total([m \in DOMAIN frames |-> frames[m].out.n])
              + (IF mode \in {"return", "done"} THEN ret.v.n ELSE 0)
    /\ owned = Total([m \in 1..InChild |-> KeyHeld(frames[m])])
=============================================================================
