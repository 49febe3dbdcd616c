---------------------------- MODULE PointerSplice ----------------------------
(***************************************************************************)
(* fastjson_pointer_set, _get and _exists once the pointer text is cut     *)
(* into segments: the plan (fj_pointer_walk), the replacement and the      *)
(* writer that copies the document around it (fastjson_pointer_splice.c).  *)
(* The recursion of the writer is an explicit stack of C frames, its       *)
(* output a sequence of tokens.  A node of a document is a record          *)
(*   [t: kind, tok: printed form, ok: BOOLEAN, kids: Seq([k: key, v: node])]*)
(* where ok says that a number is finite or a string valid UTF-8; array    *)
(* elements have the key NoKey.  A segment is [k: key, idx: array index],  *)
(* idx being -1 when the text is no index (module PointerText).            *)
(***************************************************************************)
EXTENDS Integers, Sequences, FiniteSets

CONSTANTS
    Calls,        \* the calls made: see CallShape
    Keys,         \* the keys of members, and the segments as keys
    Nodes,        \* the nodes of all documents and replacements
    MaxSegments,  \* FASTJSON_POINTER_MAX_SEGMENTS
    BadKeys,      \* keys and segments that hold invalid UTF-8
    Sane,         \* what fastjson_sanitize_utf8 makes of each bad key
    Faults        \* environment faults that may happen: "stack", "size"

VARIABLES
    call,     \* the call being served
    pc,       \* "parse", "walk", "build", "write", then how it ended
    i,        \* segments of the plan already followed
    current,  \* the node the walk has reached, the resolved target at the end
    stack,    \* C frames of the writer, innermost first
    out,      \* ctx->buf as tokens
    indent,   \* ctx->indent
    status,   \* fj_splice_status
    fault     \* the environment fault that ended the writer, or "none"

vars == <<call, pc, i, current, stack, out, indent, status, fault>>

Ops == {"get", "exists", "set"}

\* Tokens of the output: a piece of text, and the level of a line break.  The
\* text of a key or a scalar stands for its quoted or printed form, which is
\* never a bracket.
Opening == {"[", "{"}
Closing == {"]", "}"}
Layout == Opening \cup Closing \cup {"newline"}
Pieces == Layout \cup {",", ":", " "} \cup Keys \cup {x.tok : x \in Nodes}
Token == Pieces \X Int

\* How many brackets are open after the first n tokens of a text.
OpenAfter(toks, n) ==
    Cardinality({m \in 1..n : toks[m][1] \in Opening})
        - Cardinality({m \in 1..n : toks[m][1] \in Closing})

\* Before a closing bracket a line break stands one level further out.
LevelAt(toks, n) == OpenAfter(toks, n) - (IF toks[n + 1][1] \in Closing THEN 1 ELSE 0)

NodeShape(x) ==
    /\ x.t \in {"arr", "obj", "num", "str", "lit"} /\ x.ok \in BOOLEAN
    /\ x.tok \notin Layout
    /\ x.kids \in Seq([k : Keys, v : Nodes])

\* An encoded replacement, as the direct writer returns it (module
\* DirectWrite): a value of its own, nesting as deep as it says, its line
\* breaks counted from level zero.
TextShape(toks, nest, pretty) ==
    /\ toks \in Seq(Token) /\ toks # <<>>
    /\ toks[1][1] \notin Closing \cup {"newline"}
    /\ toks[Len(toks)][1] # "newline"
    /\ \A n \in 0..Len(toks) : OpenAfter(toks, n) <= nest
    /\ OpenAfter(toks, Len(toks)) = 0
    /\ \A n \in DOMAIN toks : toks[n][1] = "newline" =>
           pretty /\ toks[n][2] = LevelAt(toks, n)

CallShape(c) ==
    /\ c.op \in Ops /\ c.doc \in Nodes /\ c.repl.node \in Nodes
    /\ c.segs \in Seq([k : Keys, idx : Int])
    /\ c.depth \in Nat \ {0}
    /\ {c.malformed, c.pretty, c.utf8, c.repl.direct, c.repl.encodes} \subseteq BOOLEAN
    /\ c.repl.nest \in Nat
    /\ ~c.repl.direct /\ c.repl.encodes => TextShape(c.repl.text, c.repl.nest, c.pretty)

ASSUME NodesAssumption ==
    Keys \cap Layout = {} /\ \A x \in Nodes : NodeShape(x)
ASSUME CallsAssumption == \A c \in Calls : CallShape(c)
ASSUME FaultsAssumption == Faults \subseteq {"stack", "size"}
ASSUME MaxSegmentsAssumption == MaxSegments \in Nat

(***************************************************************************)
(* Helpers                                                                 *)
(***************************************************************************)
IsCtn(node) == node.t \in {"arr", "obj"}
EmptyObj == [t |-> "obj", tok |-> "", ok |-> TRUE, kids |-> <<>>]
NoKey == ""
nsegs == Len(call.segs)

\* fj_seg_key_eq: a key tagged as invalid is compared in its sanitized form
\* when the call asked for UTF-8 handling.  Only the lookups pass the flags.
fj_seg_key_eq(key, seg, utf8) ==
    IF utf8 /\ key \in BadKeys THEN Sane[key] = seg.k ELSE key = seg.k

\* The positions of a node's members that a segment selects.
Selected(node, seg, utf8) ==
    CASE node.t = "obj" ->
             {p \in DOMAIN node.kids : fj_seg_key_eq(node.kids[p].k, seg, utf8)}
      [] node.t = "arr" ->
             IF seg.idx >= 0 /\ seg.idx < Len(node.kids) THEN {seg.idx + 1} ELSE {}
      [] OTHER -> {}

TheOne(S) == CHOOSE p \in S : TRUE

(***************************************************************************)
(* Parsing verdict, plan and replacement                                   *)
(***************************************************************************)
Init ==
    /\ call \in Calls
    /\ pc = "parse" /\ i = 0
    /\ current = call.doc
    /\ stack = <<>> /\ out = <<>> /\ indent = 0
    /\ status = "OK" /\ fault = "none"

End(how, s) ==
    /\ pc' = how /\ status' = s
    /\ UNCHANGED <<call, i, current, stack, out, indent>>

Fail(s) == End("failed", s) /\ fault' = "none"

\* pointer_exists has no $depth and passes 0.
depth_limit == IF call.op = "exists" THEN 0 ELSE call.depth

fj_pointer_nsegs_ok ==
    /\ nsegs <= MaxSegments
    /\ depth_limit > 0 => nsegs < depth_limit

\* Mutant: the length of the pointer is judged before its syntax.
fj_pointer_parse_GateFirst ==
    /\ pc = "parse"
    /\ IF call.malformed \/ ~fj_pointer_nsegs_ok
       THEN End("refused", IF fj_pointer_nsegs_ok THEN "SETTABLE_FAIL" ELSE "DEPTH_FAIL")
       ELSE /\ pc' = "walk"
            /\ UNCHANGED <<call, i, current, stack, out, indent, status>>
    /\ UNCHANGED fault

fj_pointer_parse ==
    /\ pc = "parse"
    /\ IF call.malformed \/ ~fj_pointer_nsegs_ok
       THEN End("refused", IF call.malformed THEN "SETTABLE_FAIL" ELSE "DEPTH_FAIL")
       ELSE /\ pc' = "walk"
            /\ UNCHANGED <<call, i, current, stack, out, indent, status>>
    /\ UNCHANGED fault

\* Mutant: the plan stops looking at the first member that matches.
WalkSelected_First ==
    LET all == Selected(current, call.segs[i + 1], call.utf8 /\ call.op # "set")
    IN {p \in all : \A q \in all : p <= q}

\* The plan of pointer_set compares the keys as they stand (flags 0).
WalkSelected == Selected(current, call.segs[i + 1], call.utf8 /\ call.op # "set")

WalkEnds ==
    /\ pc = "walk" /\ i = nsegs
    /\ pc' = IF call.op = "set" THEN "build" ELSE "done"
    /\ UNCHANGED <<call, i, current, stack, out, indent, status, fault>>

WalkAmbiguous ==
    /\ pc = "walk" /\ i < nsegs
    /\ Cardinality(WalkSelected) > 1
    /\ End("refused", "AMBIGUOUS")
    /\ UNCHANGED fault

\* A missing member of an object is where pointer_set will add one.
WalkMissing ==
    /\ pc = "walk" /\ i < nsegs
    /\ current.t = "obj" /\ WalkSelected = {} /\ call.op = "set"
    /\ pc' = "build"
    /\ UNCHANGED <<call, i, current, stack, out, indent, status, fault>>

WalkInto ==
    /\ pc = "walk" /\ i < nsegs
    /\ Cardinality(WalkSelected) = 1
    /\ LET child == current.kids[TheOne(WalkSelected)].v IN
       /\ i + 1 < nsegs => IsCtn(child)
       /\ current' = child
    /\ i' = i + 1
    /\ UNCHANGED <<call, pc, stack, out, indent, status, fault>>

WalkBlocked ==
    /\ pc = "walk" /\ i < nsegs
    /\ \/ WalkSelected = {} /\ (current.t = "obj" => call.op # "set")
       \/ /\ Cardinality(WalkSelected) = 1
          /\ i + 1 < nsegs
          /\ ~IsCtn(current.kids[TheOne(WalkSelected)].v)
    /\ End("refused", "SETTABLE_FAIL")
    /\ UNCHANGED fault

\* Mutant: the replacement has the whole $depth to itself.
repl_depth_Whole == call.depth - 1

\* $depth less the containers of the path, never below zero.
repl_depth == LET d == call.depth - nsegs - 1 IN IF d < 0 THEN 0 ELSE d

\* What the direct writer answers (module DirectWrite): it refuses a value
\* that holds more containers inside one another than it was given.
EncodesWithin(d) == call.repl.encodes /\ call.repl.nest <= d

FrameOf(fn, node, seg, rem) ==
    [fn |-> fn, val |-> node, seg |-> seg, rem |-> rem, pos |-> 1, matched |-> FALSE]

fastjson_pointer_build_replacement ==
    /\ pc = "build"
    /\ IF call.repl.direct \/ EncodesWithin(repl_depth)
       THEN /\ pc' = "write"
            /\ stack' = <<IF nsegs = 0
                          THEN FrameOf("repl", EmptyObj, 0, call.depth)
                          ELSE FrameOf("at", call.doc, 1, call.depth)>>
            /\ UNCHANGED <<call, i, current, out, indent, status>>
       ELSE End("unencodable", "OK")
    /\ UNCHANGED fault

(***************************************************************************)
(* The writer                                                              *)
(***************************************************************************)
top == Head(stack)
Writing(fn) == pc = "write" /\ stack # <<>> /\ top.fn = fn
InLoop == Writing("loop") \/ Writing("build")

Tok(s) == <<s, 0>>
Newline(level) == IF call.pretty THEN << <<"newline", level>> >> ELSE <<>>
OpenTok(node) == Tok(IF node.t = "arr" THEN "[" ELSE "{")
CloseTok(node) == Tok(IF node.t = "arr" THEN "]" ELSE "}")
KeyToks(key) == <<Tok(key), Tok(":")>> \o (IF call.pretty THEN <<Tok(" ")>> ELSE <<>>)

Returns(toks) ==
    /\ out' = out \o toks
    /\ stack' = Tail(stack)
    /\ UNCHANGED <<call, pc, i, current, indent, status, fault>>

Becomes(frame) ==
    /\ stack' = <<frame>> \o Tail(stack)
    /\ UNCHANGED <<call, pc, i, current, out, indent, status, fault>>

\* '[' or '{', and the level of indentation of what follows it.
OpensLoop(fn, node, seg, rem) ==
    /\ out' = Append(out, OpenTok(node))
    /\ indent' = IF call.pretty /\ (seg = 0 => node.kids # <<>>) THEN indent + 1 ELSE indent
    /\ stack' = <<FrameOf(fn, node, seg, rem)>> \o Tail(stack)
    /\ UNCHANGED <<call, pc, i, current, status, fault>>

WriteFullTooDeep ==
    /\ Writing("full")
    /\ top.rem = 0 \/ (IsCtn(top.val) /\ top.rem <= 1)
    /\ Fail("DEPTH_FAIL")

WriteScalar ==
    /\ Writing("full") /\ top.rem > 0
    /\ ~IsCtn(top.val) /\ top.val.ok
    /\ Returns(<<Tok(top.val.tok)>>)

WriteBadScalar ==
    /\ Writing("full") /\ top.rem > 0
    /\ ~IsCtn(top.val) /\ ~top.val.ok
    /\ Fail(IF top.val.t = "num" THEN "INF_OR_NAN" ELSE "INVALID_UTF8")

WriteContainer ==
    /\ Writing("full") /\ top.rem > 1
    /\ IsCtn(top.val)
    /\ OpensLoop("loop", top.val, 0, top.rem)

\* fj_splice_write_at into fj_splice_write_object or _array.
Unsettable ==
    \/ ~IsCtn(top.val)
    \/ top.val.t = "arr" /\ Selected(top.val, call.segs[top.seg], FALSE) = {}

WriteAt ==
    /\ Writing("at")
    /\ IF top.rem <= 1 THEN Fail("DEPTH_FAIL")
       ELSE IF Unsettable THEN Fail("SETTABLE_FAIL")
       ELSE OpensLoop("loop", top.val, top.seg, top.rem)

\* The loops over elements and members.  In a container off the path
\* (seg = 0) nothing is the target.
Member == top.val.kids[top.pos]
HasMember == top.pos <= Len(top.val.kids)
OnPath == top.seg > 0
IsTarget == OnPath /\ top.pos \in Selected(top.val, call.segs[top.seg], FALSE)
LastSeg == top.seg = nsegs
Comma == IF top.pos > 1 THEN <<Tok(",")>> ELSE <<>>
Prefix(key) ==
    Comma \o Newline(indent) \o (IF top.val.t = "obj" THEN KeyToks(key) ELSE <<>>)

LoopCalls(key, frame) ==
    /\ out' = out \o Prefix(key)
    /\ stack' = <<frame, [top EXCEPT !.pos = @ + 1, !.matched = @ \/ IsTarget \/ ~HasMember]>>
                  \o Tail(stack)
    /\ UNCHANGED <<call, pc, i, current, indent, status, fault>>

LoopOther ==
    /\ InLoop /\ HasMember /\ ~IsTarget
    /\ LoopCalls(Member.k, FrameOf("full", Member.v, 0, top.rem - 1))

Blocks(node) == ~LastSeg /\ top.val.t = "obj" /\ ~IsCtn(node)

LoopTarget ==
    /\ InLoop /\ HasMember /\ IsTarget
    /\ IF top.matched THEN Fail("AMBIGUOUS")
       ELSE IF Blocks(Member.v) THEN Fail("SETTABLE_FAIL")
       ELSE LoopCalls(Member.k,
                IF LastSeg THEN FrameOf("repl", EmptyObj, 0, top.rem - 1)
                ELSE FrameOf("at", Member.v, top.seg + 1, top.rem - 1))

\* No member matched: add one, and the objects the rest of the path names.
\* The key is the segment itself, which may be no text JSON can hold.
MustAdd == OnPath /\ top.val.t = "obj" /\ ~top.matched

LoopAdd ==
    /\ InLoop /\ ~HasMember /\ MustAdd
    /\ LET fn == IF LastSeg /\ top.fn = "loop" THEN "repl" ELSE "suffix"
           key == call.segs[top.seg].k
       IN IF key \in BadKeys THEN Fail("INVALID_UTF8")
          ELSE LoopCalls(key, FrameOf(fn, EmptyObj, top.seg, top.rem - 1))

LoopCloses ==
    /\ InLoop /\ ~HasMember /\ ~MustAdd
    /\ LET nested == call.pretty /\ (OnPath \/ top.val.kids # <<>>) IN
       /\ indent' = IF nested THEN indent - 1 ELSE indent
       /\ out' = out \o (IF nested THEN Newline(indent - 1) ELSE <<>>) \o <<CloseTok(top.val)>>
    /\ stack' = Tail(stack)
    /\ UNCHANGED <<call, pc, i, current, status, fault>>

BuildSuffix ==
    /\ Writing("suffix")
    /\ IF LastSeg THEN Becomes(FrameOf("repl", EmptyObj, 0, top.rem))
       ELSE IF top.rem <= 1 THEN Fail("DEPTH_FAIL")
       ELSE OpensLoop("build", EmptyObj, top.seg + 1, top.rem)

\* Mutant: the replacement keeps the levels it was encoded with.
Reindented_Not(toks) == toks

\* A scalar goes through write_full; an encoded value is copied, each of its
\* line breaks moved to the level it now stands at.
Reindented(toks) ==
    [n \in DOMAIN toks |->
        IF call.pretty /\ toks[n][1] = "newline"
        THEN <<"newline", toks[n][2] + indent>> ELSE toks[n]]

WriteReplacement ==
    /\ Writing("repl")
    /\ \/ call.repl.direct /\ Becomes(FrameOf("full", call.repl.node, 0, top.rem))
       \/ ~call.repl.direct /\ Returns(Reindented(call.repl.text))

\* fastjson_imut_pointer_set_write returns the buffer.
WriteEnds ==
    /\ pc = "write" /\ stack = <<>>
    /\ End("done", "OK")
    /\ UNCHANGED fault

(***************************************************************************)
(* Environment faults: the native stack runs out where fj_splice_stack_ok  *)
(* looks, the string limit is met where fj_splice_reserve is asked.        *)
(***************************************************************************)
StackOverflows ==
    /\ "stack" \in Faults
    /\ Writing("full") \/ Writing("at") \/ Writing("suffix")
    /\ End("failed", "DEPTH_FAIL") /\ fault' = "stack"

Reserves ==
    \/ Writing("full") /\ top.rem > 0 /\ top.val.t \in {"num", "str"}
       /\ (top.val.t = "num" => top.val.ok)
    \/ Writing("repl") /\ ~call.repl.direct
    \/ InLoop /\ top.val.t = "obj" /\ (HasMember \/ MustAdd)
       /\ (HasMember /\ IsTarget => ~top.matched /\ ~Blocks(Member.v))

TooLarge ==
    /\ "size" \in Faults /\ Reserves
    /\ End("failed", "TOO_LARGE") /\ fault' = "size"

Writer ==
    \/ WriteFullTooDeep \/ WriteScalar \/ WriteBadScalar \/ WriteContainer
    \/ WriteAt \/ LoopOther \/ LoopTarget \/ LoopAdd \/ LoopCloses
    \/ BuildSuffix \/ WriteReplacement \/ WriteEnds
    \/ StackOverflows \/ TooLarge

Next ==
    \/ fj_pointer_parse
    \/ WalkEnds \/ WalkAmbiguous \/ WalkMissing \/ WalkInto \/ WalkBlocked
    \/ fastjson_pointer_build_replacement
    \/ Writer

\* The C code runs on until it returns.
Spec == Init /\ [][Next]_vars /\ WF_vars(Next)

(***************************************************************************)
(* Properties                                                              *)
(***************************************************************************)
\* The writer looks the path up a second time, in the document the plan has
\* already followed.  It must come to the same verdict: once the plan has
\* passed, fj_splice_write_object, _array and _at never find the target
\* missing, blocked or ambiguous (fj_pointer_walk against fj_splice_write_at).
PlanSettlesTheTarget ==
    pc = "failed" => status \notin {"SETTABLE_FAIL", "AMBIGUOUS"}

\* tests/pointer_set_replacement_depth.phpt: "The output must always
\* round-trip at the same $depth."  The decoder refuses nesting >= $depth, so
\* the text pointer_set returns nests strictly less, path, copied branches
\* and the separately encoded replacement together.
RedecodesAtDepth ==
    pc = "done" /\ call.op = "set" =>
        \A n \in DOMAIN out : OpenAfter(out, n) < call.depth

\* A line break stands at the level of the brackets open around it (one less
\* before a closing bracket), in the copied text, the objects the path adds
\* and the replacement, which was encoded on its own from level zero.
LayoutMatchesNesting ==
    pc = "done" =>
        \A n \in DOMAIN out : out[n][1] = "newline" =>
            out[n][2] = LevelAt(out, n)

(***************************************************************************)
(* The inductive invariant                                                 *)
(***************************************************************************)
\* The nodes the pointer of a call leads through, as its plan follows it.
Onward(node, seg) ==
    LET hits == Selected(node, seg, FALSE)
    IN IF hits = {} THEN node ELSE node.kids[TheOne(hits)].v
Reached(c) ==
    LET r[n \in 0..Len(c.segs)] == IF n = 0 THEN c.doc ELSE Onward(r[n - 1], c.segs[n])
    IN r
Hits(c, n) == Selected(Reached(c)[n - 1], c.segs[n], FALSE)

\* The plan of a set found exactly one member for every segment it followed,
\* and an object without the member for the one it stopped at.
PlanInv ==
    call.op = "set" =>
        /\ current = Reached(call)[i]
        /\ \A n \in 1..i : Cardinality(Hits(call, n)) = 1
        /\ pc \notin {"parse", "refused"} => nsegs < call.depth
        /\ pc \notin {"parse", "walk", "refused"} /\ i < nsegs =>
               current.t = "obj" /\ Hits(call, i + 1) = {}

Frame == [fn : {"full", "at", "loop", "build", "suffix", "repl"},
          val : Nodes \cup {EmptyObj}, seg : Nat, rem : Int, pos : Nat \ {0},
          matched : BOOLEAN]

\* A frame that has written its opening bracket and not its closing one, and
\* whether line breaks go between the two.
Looping(f) == f.fn \in {"loop", "build"}
Spread(f) == f.seg > 0 \/ f.val.kids # <<>>

\* A frame level frames above the bottom: its share of $depth, and where on
\* the path it stands.
FrameInv(f, level) ==
    /\ f.rem = call.depth - level
    /\ Looping(f) => f.rem > 1 /\ IsCtn(f.val)
    /\ f.fn = "at" \/ (f.fn = "loop" /\ f.seg > 0) =>
           /\ f.seg = level + 1 /\ f.seg <= nsegs /\ f.seg <= i + 1
           /\ f.val = Reached(call)[f.seg - 1]
    /\ f.fn = "loop" /\ f.seg > 0 /\ f.matched =>
           f.pos > Len(f.val.kids) \/ \E p \in Hits(call, f.seg) : p < f.pos
    /\ f.fn = "build" => f.val = EmptyObj /\ f.seg = level + 1 /\ f.seg <= nsegs
    /\ f.fn = "suffix" => f.seg = level /\ 0 < f.seg /\ f.seg <= nsegs
    /\ f.fn = "repl" => level = nsegs

StackInv ==
    /\ pc \in {"build", "write"} => call.op = "set"
    /\ stack # <<>> => call.op = "set" /\ pc \in {"write", "failed"}
    /\ \A j \in DOMAIN stack :
           /\ FrameInv(stack[j], Len(stack) - j)
           /\ j > 1 => Looping(stack[j]) /\ Spread(stack[j])

\* An encoded replacement is only written where it fits.
ReplacementInv ==
    pc = "write" => call.repl.direct \/ EncodesWithin(repl_depth)

\* The brackets open in the output are those of the looping frames.
OutInv ==
    /\ OpenAfter(out, Len(out)) =
           Len(stack) - (IF stack = <<>> \/ Looping(top) THEN 0 ELSE 1)
    /\ \A n \in 0..Len(out) : OpenAfter(out, n) < call.depth

\* Every line break stands at its level; the last one may still wait for the
\* token after it, which will not be a closing bracket.
Laid(toks) ==
    \A n \in DOMAIN toks : toks[n][1] = "newline" =>
        call.pretty /\ (n < Len(toks) => toks[n][2] = LevelAt(toks, n))
LayoutInv ==
    /\ call.pretty =>
           indent = Len(stack) - (IF stack = <<>> \/ (Looping(top) /\ Spread(top)) THEN 0 ELSE 1)
    /\ Laid(out)
    /\ out # <<>> /\ out[Len(out)][1] = "newline" =>
           /\ out[Len(out)][2] = OpenAfter(out, Len(out))
           /\ stack # <<>> /\ top.fn \in {"full", "at", "repl"}

SpliceType ==
    /\ call \in Calls /\ i \in 0..nsegs /\ current \in Nodes
    /\ stack \in Seq(Frame) /\ out \in Seq(Token) /\ indent \in Int

SpliceInv ==
    /\ SpliceType /\ PlanInv /\ StackInv /\ ReplacementInv /\ OutInv /\ LayoutInv
    /\ PlanSettlesTheTarget
    /\ pc = "done" => stack = <<>>
=============================================================================
