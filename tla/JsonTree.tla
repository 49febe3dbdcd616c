------------------------------- MODULE JsonTree -------------------------------
(***************************************************************************)
(* Parsed documents as values, and the measures of them that the reference *)
(* definitions use.  A node is [t, tok, ok, kids]: its kind, the printed   *)
(* form of a scalar, whether that form is valid JSON, and the members      *)
(* [k: key, v: node] of a container in order, duplicates included.         *)
(***************************************************************************)
EXTENDS Integers, Sequences, FiniteSetsExt

IsContainer(node) == node.t \in {"arr", "obj"}

Leaf(t, tok, ok) == [t |-> t, tok |-> tok, ok |-> ok, kids |-> <<>>]
Node(t, kids) == [t |-> t, tok |-> "", ok |-> TRUE, kids |-> kids]
Arr(items) == Node("arr", [n \in DOMAIN items |-> [k |-> "", v |-> items[n]]])
Obj(members) == Node("obj", [n \in DOMAIN members |-> [k |-> members[n][1], v |-> members[n][2]]])

\* How many containers stand inside one another: 0 for a scalar.
RECURSIVE Nesting(_)
Nesting(node) ==
    IF ~IsContainer(node) THEN 0
    ELSE 1 + Max({0} \cup {Nesting(node.kids[p].v) : p \in DOMAIN node.kids})

\* The keys at or below a node.
RECURSIVE KeysOf(_)
KeysOf(node) ==
    UNION {KeysOf(node.kids[p].v)
           \cup (IF node.t = "obj" THEN {node.kids[p].k} ELSE {}) : p \in DOMAIN node.kids}

\* The tokens of a document's text, line breaks carrying their level.
RECURSIVE Text(_, _, _)
RECURSIVE MemberTexts(_, _, _, _)
Text(node, pretty, level) ==
    IF ~IsContainer(node) THEN << <<node.tok, 0>> >>
    ELSE LET open  == IF node.t = "arr" THEN "[" ELSE "{"
             close == IF node.t = "arr" THEN "]" ELSE "}"
             break == IF pretty /\ node.kids # <<>> THEN << <<"newline", level>> >> ELSE <<>>
         IN << <<open, 0>> >> \o MemberTexts(node, pretty, level + 1, 1) \o break \o << <<close, 0>> >>
MemberTexts(node, pretty, level, p) ==
    IF p > Len(node.kids) THEN <<>>
    ELSE (IF p > 1 THEN << <<",", 0>> >> ELSE <<>>)
         \o (IF pretty THEN << <<"newline", level>> >> ELSE <<>>)
         \o (IF node.t = "arr" THEN <<>>
             ELSE << <<node.kids[p].k, 0>>, <<":", 0>> >>
                  \o (IF pretty THEN << <<" ", 0>> >> ELSE <<>>))
         \o Text(node.kids[p].v, pretty, level)
         \o MemberTexts(node, pretty, level, p + 1)
=============================================================================
