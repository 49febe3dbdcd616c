------------------------------ MODULE DepthScan ------------------------------
(***************************************************************************)
(* fastjson_val_depth_reaches: does a parsed value nest `limit' containers *)
(* or more?  Merge patch asks before it copies a subtree by recursion, so  *)
(* the answer is found with a heap-allocated stack of iterators, which     *)
(* doubles when it is full.                                                *)
(***************************************************************************)
EXTENDS Integers, Sequences

CONSTANTS
    InitialCap   \* 16, the frames allocated at first

ASSUME CapAssumption == InitialCap \in Nat \ {0}

VARIABLES
    scanned, scan_limit,  \* the arguments root and limit
    scan_pc,              \* "start", "scan", "done"
    iterators,            \* the stack: [node, pos], outermost first; top is the last
    cap,                  \* frames allocated
    depth,                \* containers open around the iterator on top
    reached               \* the answer

scanargs == <<scanned, scan_limit>>
scanvars == <<scanned, scan_limit, scan_pc, iterators, cap, depth, reached>>

IsCtnValue(node) == node.t \in {"arr", "obj"}
Iter(node) == [node |-> node, pos |-> 1]
Topmost == iterators[Len(iterators)]

ScanInit ==
    /\ scan_limit \in Nat
    /\ scan_pc = "start" /\ iterators = <<>> /\ cap = 0 /\ depth = 0 /\ reached = FALSE

Answers(b) == scan_pc' = "done" /\ reached' = b

\* The answers that need no scan; otherwise the iterator of the root.
BeginScan ==
    /\ scan_pc = "start"
    /\ IF scan_limit = 0 \/ ~IsCtnValue(scanned) \/ scan_limit = 1
       THEN Answers(scan_limit = 0 \/ IsCtnValue(scanned)) /\ UNCHANGED <<iterators, cap, depth>>
       ELSE /\ scan_pc' = "scan" /\ UNCHANGED reached
            /\ iterators' = <<Iter(scanned)>> /\ cap' = InitialCap /\ depth' = 1
    /\ UNCHANGED scanargs

HasChild == Topmost.pos <= Len(Topmost.node.kids)
Child == Topmost.node.kids[Topmost.pos].v
Stepped == [iterators EXCEPT ![Len(iterators)].pos = @ + 1]

SkipScalar ==
    /\ scan_pc = "scan" /\ HasChild /\ ~IsCtnValue(Child)
    /\ iterators' = Stepped
    /\ UNCHANGED <<scanargs, scan_pc, cap, depth, reached>>

ReachLimit ==
    /\ scan_pc = "scan" /\ HasChild /\ IsCtnValue(Child) /\ depth + 1 >= scan_limit
    /\ Answers(TRUE)
    /\ UNCHANGED <<scanargs, iterators, cap, depth>>

\* Mutant: the stack grows one frame too late.
Grown_Late == IF Len(iterators) > cap THEN 2 * cap ELSE cap

\* ++top == cap doubles the allocation.
Grown == IF Len(iterators) = cap THEN 2 * cap ELSE cap

Descend ==
    /\ scan_pc = "scan" /\ HasChild /\ IsCtnValue(Child) /\ depth + 1 < scan_limit
    /\ cap' = Grown
    /\ iterators' = Append(Stepped, Iter(Child))
    /\ depth' = depth + 1
    /\ UNCHANGED <<scanargs, scan_pc, reached>>

Ascend ==
    /\ scan_pc = "scan" /\ ~HasChild /\ Len(iterators) > 1
    /\ iterators' = SubSeq(iterators, 1, Len(iterators) - 1)
    /\ depth' = depth - 1
    /\ UNCHANGED <<scanargs, scan_pc, cap, reached>>

ScanEnds ==
    /\ scan_pc = "scan" /\ ~HasChild /\ Len(iterators) = 1
    /\ Answers(FALSE)
    /\ UNCHANGED <<scanargs, iterators, cap, depth>>

ScanNext == BeginScan \/ SkipScalar \/ ReachLimit \/ Descend \/ Ascend \/ ScanEnds

ScanSpec == ScanInit /\ [][ScanNext]_scanvars

\* Every iterator lies inside the allocation, also just after it was doubled,
\* and depth counts the open ones, below the limit: the memory used is bounded
\* by $depth and not by the document.
StackInBounds ==
    /\ Len(iterators) <= cap
    /\ scan_pc = "scan" => depth = Len(iterators) /\ depth < scan_limit
=============================================================================
