----------------------------- MODULE PointerProofs -----------------------------
(***************************************************************************)
(* Proofs about pointer_set: the writer agrees with the plan, its output   *)
(* can be read back at the same $depth, and its line breaks stand where    *)
(* they should, for every document, pointer, replacement and limit.  Then  *)
(* about the parser of its pointer, which cuts every text as RFC 6901 says *)
(* and stays within what it allocated.                                     *)
(***************************************************************************)
EXTENDS PointerSplice, PointerText, DataInduction, FiniteSetTheorems, SequenceTheorems

-----------------------------------------------------------------------------
(* Counting brackets.                                                      *)

\* What one token adds to the brackets that are open.
Weight(t) == IF t[1] \in Opening THEN 1 ELSE IF t[1] \in Closing THEN -1 ELSE 0

\* How many of the first n positions are in a set.
CountUpTo(n, P) == Cardinality({m \in 1 .. n : m \in P})

\* Counting one position further.
LEMMA CountOneMore ==
  ASSUME NEW n \in Nat, NEW P
  PROVE  /\ CountUpTo(0, P) = 0
         /\ CountUpTo(n, P) \in Nat
         /\ CountUpTo(n + 1, P) = CountUpTo(n, P) + (IF n + 1 \in P THEN 1 ELSE 0)
<1> USE DEF CountUpTo
<1> DEFINE A == {m \in 1 .. n : m \in P}
           B == {m \in 1 .. n + 1 : m \in P}
<1>1. IsFiniteSet(1 .. n)
  BY FS_Interval
<1>2. IsFiniteSet(A)
  <2>1. A \in SUBSET (1 .. n)
    OBVIOUS
  <2> HIDE DEF A
  <2> QED BY <1>1, <2>1, FS_Subset
<1>3. Cardinality(A) \in Nat
  <2> HIDE DEF A
  <2> QED BY <1>2, FS_CardinalityType
<1>4. {m \in 1 .. 0 : m \in P} = {}
  OBVIOUS
<1>5. CASE n + 1 \in P
  <2>1. B = A \cup {n + 1} /\ n + 1 \notin A
    BY <1>5
  <2>2. Cardinality(A \cup {n + 1}) = Cardinality(A) + 1
    <3> HIDE DEF A, B
    <3> QED BY <2>1, <1>2, FS_AddElement
  <2> QED BY <1>3, <1>4, <1>5, <2>1, <2>2, FS_EmptySet
<1>6. CASE n + 1 \notin P
  <2>1. B = A
    BY <1>6
  <2>2. Cardinality(B) = Cardinality(A) + 0
    BY <1>3, <2>1
  <2> QED BY <1>3, <1>4, <1>6, <2>2, FS_EmptySet
<1> QED BY <1>5, <1>6

\* The brackets open after n + 1 tokens, from those after n.
LEMMA OpenStep ==
  ASSUME NEW s, NEW n \in Nat
  PROVE  /\ OpenAfter(s, 0) = 0
         /\ OpenAfter(s, n) \in Int
         /\ OpenAfter(s, n + 1) = OpenAfter(s, n) + Weight(s[n + 1])
<1> DEFINE U == {m \in 1 .. n + 1 : s[m][1] \in Opening}
           D == {m \in 1 .. n + 1 : s[m][1] \in Closing}
<1>1. /\ {m \in 1 .. n : s[m][1] \in Opening} = {m \in 1 .. n : m \in U}
      /\ {m \in 1 .. n + 1 : s[m][1] \in Opening} = {m \in 1 .. n + 1 : m \in U}
      /\ {m \in 1 .. 0 : s[m][1] \in Opening} = {m \in 1 .. 0 : m \in U}
  OBVIOUS
<1>2. /\ {m \in 1 .. n : s[m][1] \in Closing} = {m \in 1 .. n : m \in D}
      /\ {m \in 1 .. n + 1 : s[m][1] \in Closing} = {m \in 1 .. n + 1 : m \in D}
      /\ {m \in 1 .. 0 : s[m][1] \in Closing} = {m \in 1 .. 0 : m \in D}
  OBVIOUS
<1>3. (n + 1 \in U <=> s[n + 1][1] \in Opening) /\ (n + 1 \in D <=> s[n + 1][1] \in Closing)
  OBVIOUS
<1>4. ~ (s[n + 1][1] \in Opening /\ s[n + 1][1] \in Closing)
  BY DEF Opening, Closing
<1> DEFINE u0 == CountUpTo(n, U)
           u1 == CountUpTo(n + 1, U)
           d0 == CountUpTo(n, D)
           d1 == CountUpTo(n + 1, D)
<1>5. OpenAfter(s, n) = u0 - d0 /\ OpenAfter(s, n + 1) = u1 - d1
  BY <1>1, <1>2 DEF OpenAfter, CountUpTo
<1>6. OpenAfter(s, 0) = CountUpTo(0, U) - CountUpTo(0, D)
  BY <1>1, <1>2 DEF OpenAfter, CountUpTo
<1> HIDE DEF U, D
<1>7. /\ u0 \in Nat /\ u1 = u0 + (IF n + 1 \in U THEN 1 ELSE 0)
      /\ CountUpTo(0, U) = 0
  BY CountOneMore
<1>8. /\ d0 \in Nat /\ d1 = d0 + (IF n + 1 \in D THEN 1 ELSE 0)
      /\ CountUpTo(0, D) = 0
  BY CountOneMore
<1> HIDE DEF u0, u1, d0, d1
<1>9. OpenAfter(s, 0) = 0
  BY <1>6, <1>7, <1>8
<1> DEFINE w == Weight(s[n + 1])
<1>10. w = IF n + 1 \in U THEN 1 ELSE IF n + 1 \in D THEN -1 ELSE 0
  BY <1>3, Zenon DEF Weight
<1> HIDE DEF w
<1>11. ~ (n + 1 \in U /\ n + 1 \in D)
  BY <1>3, <1>4
<1> QED BY <1>5, <1>7, <1>8, <1>9, <1>10, <1>11 DEF w

\* The brackets open in a text depend on the pieces of its first tokens only.
LEMMA OpenSame ==
  ASSUME NEW s, NEW u, NEW n \in Nat, \A m \in 1 .. n : s[m][1] = u[m][1]
  PROVE  OpenAfter(s, n) = OpenAfter(u, n)
<1>1. /\ {m \in 1 .. n : s[m][1] \in Opening} = {m \in 1 .. n : u[m][1] \in Opening}
      /\ {m \in 1 .. n : s[m][1] \in Closing} = {m \in 1 .. n : u[m][1] \in Closing}
  OBVIOUS
<1> QED BY <1>1 DEF OpenAfter

\* The brackets open in a text put together from two.
LEMMA OpenConcat ==
  ASSUME NEW S, NEW a \in Seq(S), NEW b \in Seq(S)
  PROVE  /\ \A n \in 0 .. Len(a) : OpenAfter(a \o b, n) = OpenAfter(a, n)
         /\ \A k \in 0 .. Len(b) :
              OpenAfter(a \o b, Len(a) + k) = OpenAfter(a, Len(a)) + OpenAfter(b, k)
<1> DEFINE c == a \o b
           La == Len(a)
           Lb == Len(b)
<1>1. /\ La \in Nat /\ Lb \in Nat
      /\ \A m \in 1 .. La : c[m] = a[m]
      /\ \A m \in 1 .. Lb : c[La + m] = b[m]
  OBVIOUS
<1> HIDE DEF c, La, Lb
<1>2. ASSUME NEW n \in 0 .. La PROVE OpenAfter(c, n) = OpenAfter(a, n)
  <2>1. n \in Nat /\ \A m \in 1 .. n : c[m][1] = a[m][1]
    BY <1>1
  <2> QED BY <2>1, OpenSame
<1> DEFINE P == {k \in 0 .. Lb : OpenAfter(c, La + k) = OpenAfter(a, La) + OpenAfter(b, k)}
<1>3. 0 \in P
  <2>1. OpenAfter(b, 0) = 0 /\ OpenAfter(a, La) \in Int /\ OpenAfter(c, La) = OpenAfter(a, La)
    BY <1>1, <1>2, OpenStep
  <2> QED BY <1>1, <2>1
<1>4. ASSUME NEW k \in 0 .. Lb - 1, k \in P PROVE k + 1 \in P
  <2>1. /\ La + k \in Nat /\ k \in Nat /\ La + (k + 1) = (La + k) + 1
        /\ k + 1 \in 1 .. Lb /\ k + 1 \in 0 .. Lb
    BY <1>1
  <2>2. c[(La + k) + 1] = b[k + 1]
    BY <1>1, <2>1
  <2>3. OpenAfter(c, (La + k) + 1) = OpenAfter(c, La + k) + Weight(b[k + 1])
    BY <2>1, <2>2, OpenStep
  <2>4. OpenAfter(b, k + 1) = OpenAfter(b, k) + Weight(b[k + 1]) /\ OpenAfter(b, k) \in Int
    BY <2>1, OpenStep
  <2>5. OpenAfter(a, La) \in Int /\ Weight(b[k + 1]) \in Int
    BY <1>1, OpenStep DEF Weight
  <2>6. OpenAfter(c, La + k) = OpenAfter(a, La) + OpenAfter(b, k)
    BY <1>4
  <2>7. OpenAfter(c, La + (k + 1)) = OpenAfter(a, La) + OpenAfter(b, k + 1)
    BY <2>1, <2>3, <2>4, <2>5, <2>6
  <2> QED BY <2>1, <2>7
<1>5. \A k \in 0 .. Lb : k \in P
  <2> HIDE DEF P
  <2> QED BY <1>1, <1>3, <1>4, InductionUpTo
<1> QED BY <1>2, <1>5 DEF c, La, Lb

\* A text without brackets opens none.
LEMMA OpenFlat ==
  ASSUME NEW s, NEW L \in Nat, \A m \in 1 .. L : s[m][1] \notin Opening \cup Closing
  PROVE  \A n \in 0 .. L : OpenAfter(s, n) = 0
<1> DEFINE P == {n \in 0 .. L : OpenAfter(s, n) = 0}
<1>1. 0 \in P
  BY OpenStep
<1>2. ASSUME NEW n \in 0 .. L - 1, n \in P PROVE n + 1 \in P
  <2>1. n \in Nat /\ n + 1 \in 1 .. L /\ n + 1 \in 0 .. L
    OBVIOUS
  <2>2. Weight(s[n + 1]) = 0
    BY <2>1, Zenon DEF Weight
  <2>3. OpenAfter(s, n) = 0
    BY <1>2
  <2>4. OpenAfter(s, n + 1) = OpenAfter(s, n) + Weight(s[n + 1])
    BY <2>1, OpenStep
  <2> QED BY <2>1, <2>2, <2>3, <2>4
<1>3. \A n \in 0 .. L : n \in P
  <2> HIDE DEF P
  <2> QED BY <1>1, <1>2, InductionUpTo
<1> QED BY <1>3

-----------------------------------------------------------------------------
(* Documents and the plan.                                                 *)

Segment == [k : Keys, idx : Int]

\* The empty object that a missing member becomes is a node like any other.
LEMMA ShapeOfNodes ==
  ASSUME NEW x \in Nodes \cup {EmptyObj}
  PROVE  NodeShape(x)
<1>1. NodeShape(EmptyObj)
  <2>1. EmptyObj.ok \in BOOLEAN
    BY Zenon DEF EmptyObj
  <2>2. EmptyObj.t = "obj" /\ EmptyObj.tok = "" /\ EmptyObj.kids = << >>
    BY Zenon DEF EmptyObj
  <2>3. "" \notin Layout
    BY DEF Layout, Opening, Closing
  <2>4. << >> \in Seq([k : Keys, v : Nodes])
    OBVIOUS
  <2> QED BY <2>1, <2>2, <2>3, <2>4 DEF NodeShape
<1> QED BY <1>1, NodesAssumption

\* A segment selects members of a container, finitely many.
LEMMA SelectedTyped ==
  ASSUME NEW x \in Nodes \cup {EmptyObj}, NEW seg \in Segment, NEW u
  PROVE  /\ Selected(x, seg, u) \subseteq 1 .. Len(x.kids)
         /\ Len(x.kids) \in Nat
         /\ IsFiniteSet(Selected(x, seg, u))
         /\ Selected(x, seg, u) # {} => IsCtn(x)
<1>1. x.kids \in Seq([k : Keys, v : Nodes]) /\ x.t \in {"arr", "obj", "num", "str", "lit"}
  BY ShapeOfNodes DEF NodeShape
<1>2. seg.idx \in Int
  BY DEF Segment
<1> DEFINE kids == x.kids
           L == Len(kids)
<1>3. L \in Nat /\ DOMAIN kids = 1 .. L
  BY <1>1
<1> HIDE DEF kids, L
<1>4. Selected(x, seg, u) \subseteq 1 .. L
  <2>1. CASE x.t = "obj"
    <3>1. Selected(x, seg, u) = {p \in DOMAIN kids : fj_seg_key_eq(kids[p].k, seg, u)}
      BY <2>1 DEF Selected, kids
    <3> QED BY <3>1, <1>3
  <2>2. CASE x.t = "arr"
    <3>1. Selected(x, seg, u) = IF seg.idx >= 0 /\ seg.idx < L THEN {seg.idx + 1} ELSE {}
      BY <2>2 DEF Selected, kids, L
    <3> QED BY <3>1, <1>2, <1>3
  <2>3. CASE x.t \notin {"arr", "obj"}
    BY <2>3 DEF Selected
  <2> QED BY <2>1, <2>2, <2>3
<1>5. IsFiniteSet(1 .. L)
  BY <1>3, FS_Interval
<1>6. IsFiniteSet(Selected(x, seg, u))
  BY <1>4, <1>5, FS_Subset
<1>7. Selected(x, seg, u) # {} => IsCtn(x)
  BY DEF Selected, IsCtn
<1> QED BY <1>3, <1>4, <1>6, <1>7 DEF kids, L

\* The one member of a set.
LEMMA TheOneIs ==
  ASSUME NEW S, IsFiniteSet(S), Cardinality(S) = 1
  PROVE  S = {TheOne(S)}
<1>1. PICK p : S = {p}
  BY FS_Singleton
<1>2. TheOne(S) \in S
  BY <1>1 DEF TheOne
<1> QED BY <1>1, <1>2

\* Following a segment leads to a node.
LEMMA OnwardTyped ==
  ASSUME NEW x \in Nodes, NEW seg \in Segment
  PROVE  Onward(x, seg) \in Nodes
<1> DEFINE hits == Selected(x, seg, FALSE)
<1>1. CASE hits = {}
  BY <1>1 DEF Onward
<1>2. CASE hits # {}
  <2>1. TheOne(hits) \in hits
    BY <1>2 DEF TheOne
  <2>2. hits \subseteq 1 .. Len(x.kids)
    BY SelectedTyped
  <2>3. x.kids \in Seq([k : Keys, v : Nodes])
    BY NodesAssumption DEF NodeShape
  <2>4. Onward(x, seg) = x.kids[TheOne(hits)].v
    BY <1>2 DEF Onward
  <2> HIDE DEF hits
  <2>5. TheOne(hits) \in 1 .. Len(x.kids)
    BY <2>1, <2>2, Zenon
  <2>6. x.kids[TheOne(hits)] \in [k : Keys, v : Nodes]
    BY <2>3, <2>5, ElementOfSeq, Zenon
  <2> QED BY <2>4, <2>6
<1> QED BY <1>1, <1>2

\* The nodes along the path: the document, then one segment after the other.
LEMMA ReachedStep ==
  ASSUME NEW c \in Calls
  PROVE  /\ Reached(c) \in [0 .. Len(c.segs) -> Nodes]
         /\ Reached(c)[0] = c.doc
         /\ \A n \in 1 .. Len(c.segs) : Reached(c)[n] = Onward(Reached(c)[n - 1], c.segs[n])
<1> DEFINE s == c.segs
           L == Len(s)
           D == [n \in Nat |-> [x \in Nodes |-> IF n < L THEN Onward(x, s[n + 1]) ELSE x]]
<1>1. c.doc \in Nodes /\ s \in Seq(Segment)
  BY CallsAssumption DEF CallShape, Segment
<1>2. L \in Nat /\ \A n \in 1 .. L : s[n] \in Segment
  BY <1>1
<1>3. \A n \in Nat : \A x \in Nodes : n < L => D[n][x] = Onward(x, s[n + 1])
  OBVIOUS
<1>4. D \in [Nat -> [Nodes -> Nodes]]
  <2>1. ASSUME NEW n \in Nat, NEW x \in Nodes
        PROVE  (IF n < L THEN Onward(x, s[n + 1]) ELSE x) \in Nodes
    <3>1. CASE n < L
      <4>1. s[n + 1] \in Segment
        BY <3>1, <1>2
      <4> QED BY <3>1, <4>1, OnwardTyped
    <3> QED BY <3>1
  <2> QED BY <2>1
<1>5. PICK g : SolvesRecursion(g, Nodes, c.doc, D)
  <2> HIDE DEF D
  <2> QED BY <1>1, <1>4, RecursionExists DEF StepFunctions
<1> HIDE DEF D, L, s
<1> DEFINE Rec(f) == [n \in 0 .. L |-> IF n = 0 THEN c.doc ELSE Onward(f[n - 1], s[n])]
           u == [n \in 0 .. L |-> g[n]]
<1>6. /\ g \in [Nat -> Nodes] /\ g[0] = c.doc
      /\ \A n \in Nat : g[n + 1] = D[n][g[n]]
  BY <1>5 DEF SolvesRecursion
<1>7. ASSUME NEW n \in 1 .. L PROVE g[n] = Onward(g[n - 1], s[n])
  <2>1. n - 1 \in Nat /\ n - 1 < L /\ (n - 1) + 1 = n
    BY <1>2
  <2>2. g[(n - 1) + 1] = D[n - 1][g[n - 1]]
    BY <1>6, <2>1
  <2>3. g[n - 1] \in Nodes
    BY <1>6, <2>1
  <2> QED BY <1>3, <2>1, <2>2, <2>3
<1>8. u = Rec(u)
  <2>1. ASSUME NEW n \in 0 .. L PROVE u[n] = IF n = 0 THEN c.doc ELSE Onward(u[n - 1], s[n])
    <3>1. CASE n = 0
      BY <3>1, <1>6
    <3>2. CASE n # 0
      <4>1. n \in 1 .. L /\ n - 1 \in 0 .. L
        BY <3>2, <1>2
      <4>2. u[n] = g[n] /\ u[n - 1] = g[n - 1]
        BY <4>1
      <4> HIDE DEF u
      <4> QED BY <3>2, <4>1, <4>2, <1>7
    <3> QED BY <3>1, <3>2
  <2> QED BY <2>1
<1> DEFINE f == CHOOSE f : f = Rec(f)
<1>9. f = Rec(f)
  <2> HIDE DEF Rec, u
  <2> QED BY <1>8
<1>10. Reached(c) = f
  BY Zenon DEF Reached, L, s
<1> HIDE DEF f
<1>11. f = [n \in 0 .. L |-> IF n = 0 THEN c.doc ELSE Onward(f[n - 1], s[n])]
  BY <1>9
<1>12. DOMAIN f = 0 .. L /\ \A n \in 0 .. L : f[n] = IF n = 0 THEN c.doc ELSE Onward(f[n - 1], s[n])
  BY <1>11
<1>13. f[0] = c.doc /\ \A n \in 1 .. L : f[n] = Onward(f[n - 1], s[n])
  BY <1>12, <1>2
<1> DEFINE P == {n \in 0 .. L : f[n] \in Nodes}
<1>14. 0 \in P
  BY <1>13, <1>1, <1>2
<1>15. ASSUME NEW n \in 0 .. L - 1, n \in P PROVE n + 1 \in P
  <2>1. n + 1 \in 1 .. L /\ n + 1 \in 0 .. L /\ (n + 1) - 1 = n
    BY <1>2
  <2>2. f[n + 1] = Onward(f[n], s[n + 1])
    BY <2>1, <1>13
  <2>3. f[n] \in Nodes /\ s[n + 1] \in Segment
    BY <1>15, <1>2, <2>1
  <2> QED BY <2>1, <2>2, <2>3, OnwardTyped
<1>16. \A n \in 0 .. L : n \in P
  <2> HIDE DEF P
  <2> QED BY <1>2, <1>14, <1>15, InductionUpTo
<1>17. f \in [0 .. L -> Nodes]
  BY <1>11, <1>12, <1>16
<1> QED BY <1>10, <1>13, <1>17 DEF L, s

-----------------------------------------------------------------------------
(* Adding a piece of text to the output.                                   *)

Ends(toks, piece) == toks # << >> /\ toks[Len(toks)][1] = piece

\* b may follow a: it nests within the depth, its line breaks stand right,
\* and a line break at the end of a is not followed by a closing bracket.
Follows(a, b) ==
  LET open == OpenAfter(a, Len(a))
  IN /\ \A k \in 0 .. Len(b) : open + OpenAfter(b, k) < call.depth
     /\ \A m \in 1 .. Len(b) : b[m][1] = "newline" =>
          call.pretty /\ (m < Len(b) => b[m][2] = open + LevelAt(b, m))
     /\ Ends(a, "newline") /\ b # << >> => a[Len(a)][2] = open /\ b[1][1] \notin Closing

LEMMA TextConcat ==
  ASSUME NEW a \in Seq(Token), NEW b \in Seq(Token), call.depth \in Int,
         \A n \in 0 .. Len(a) : OpenAfter(a, n) < call.depth,
         Laid(a), Follows(a, b)
  PROVE  /\ a \o b \in Seq(Token)
         /\ \A n \in 0 .. Len(a \o b) : OpenAfter(a \o b, n) < call.depth
         /\ OpenAfter(a \o b, Len(a \o b)) = OpenAfter(a, Len(a)) + OpenAfter(b, Len(b))
         /\ Laid(a \o b)
         /\ b # << >> => (a \o b # << >> /\ (a \o b)[Len(a \o b)] = b[Len(b)])
<1> DEFINE c == a \o b
           La == Len(a)
           Lb == Len(b)
           o == OpenAfter(a, La)
<1>1. /\ c \in Seq(Token) /\ La \in Nat /\ Lb \in Nat /\ Len(c) = La + Lb
      /\ \A m \in 1 .. La : c[m] = a[m]
      /\ \A m \in 1 .. Lb : c[La + m] = b[m]
      /\ (b # << >> => Lb > 0) /\ (a # << >> => La > 0)
      /\ (La > 0 => a # << >>) /\ (Lb > 0 => b # << >>)
      /\ DOMAIN c = 1 .. La + Lb /\ DOMAIN a = 1 .. La
  OBVIOUS
<1>2. /\ \A n \in 0 .. La : OpenAfter(c, n) = OpenAfter(a, n)
      /\ \A k \in 0 .. Lb : OpenAfter(c, La + k) = o + OpenAfter(b, k)
  BY OpenConcat
<1>3. o \in Int
  BY <1>1, OpenStep
<1>4. /\ \A n \in 0 .. La : OpenAfter(a, n) < call.depth
      /\ \A n \in 1 .. La : a[n][1] = "newline" =>
           call.pretty /\ (n < La => a[n][2] = LevelAt(a, n))
  BY <1>1 DEF Laid
<1>5. /\ \A k \in 0 .. Lb : o + OpenAfter(b, k) < call.depth
      /\ \A m \in 1 .. Lb : b[m][1] = "newline" =>
           call.pretty /\ (m < Lb => b[m][2] = o + LevelAt(b, m))
      /\ La > 0 /\ a[La][1] = "newline" /\ Lb > 0 => a[La][2] = o /\ b[1][1] \notin Closing
  BY <1>1 DEF Follows, Ends
<1> HIDE DEF c, La, Lb, o
<1>6. ASSUME NEW n \in 0 .. La + Lb PROVE OpenAfter(c, n) < call.depth
  <2>1. CASE n <= La
    <3>1. n \in 0 .. La
      BY <2>1, <1>1
    <3> QED BY <3>1, <1>2, <1>4
  <2>2. CASE n > La
    <3>1. n - La \in 0 .. Lb /\ La + (n - La) = n
      BY <2>2, <1>1
    <3> QED BY <3>1, <1>2, <1>5
  <2> QED BY <2>1, <2>2, <1>1
<1>7. OpenAfter(c, La + Lb) = o + OpenAfter(b, Lb)
  <2>1. Lb \in 0 .. Lb
    BY <1>1
  <2> QED BY <2>1, <1>2
<1>8. ASSUME NEW n \in 1 .. La + Lb, c[n][1] = "newline"
      PROVE  call.pretty /\ (n < La + Lb => c[n][2] = LevelAt(c, n))
  <2>1. CASE n < La
    <3>1. n \in 1 .. La /\ n + 1 \in 1 .. La /\ n \in 0 .. La
      BY <2>1, <1>1
    <3>2. c[n] = a[n] /\ c[n + 1] = a[n + 1] /\ OpenAfter(c, n) = OpenAfter(a, n)
      BY <3>1, <1>1, <1>2
    <3>3. LevelAt(c, n) = LevelAt(a, n)
      BY <3>2 DEF LevelAt
    <3> QED BY <2>1, <1>8, <3>1, <3>2, <3>3, <1>4
  <2>2. CASE n = La
    <3>1. n \in 1 .. La /\ n \in 0 .. La /\ La > 0
      BY <2>2, <1>1
    <3>2. c[n] = a[n] /\ OpenAfter(c, n) = o
      BY <3>1, <2>2, <1>1, <1>2 DEF o
    <3>3. ASSUME n < La + Lb PROVE c[n][2] = LevelAt(c, n)
      <4>1. 1 \in 1 .. Lb /\ Lb > 0
        BY <3>3, <2>2, <1>1
      <4>2. c[n + 1] = b[1]
        BY <4>1, <2>2, <1>1
      <4>3. a[La][2] = o /\ b[1][1] \notin Closing
        BY <1>5, <1>8, <2>2, <3>1, <3>2, <4>1
      <4>4. LevelAt(c, n) = o - 0
        BY <3>2, <4>2, <4>3 DEF LevelAt
      <4> QED BY <2>2, <3>2, <4>3, <4>4, <1>3
    <3> QED BY <1>8, <3>1, <3>2, <3>3, <1>4
  <2>3. CASE n > La
    <3> DEFINE m == n - La
    <3>1. m \in 1 .. Lb /\ La + m = n /\ m \in 0 .. Lb /\ (n < La + Lb => m < Lb)
      BY <2>3, <1>1
    <3> HIDE DEF m
    <3>2. c[n] = b[m] /\ OpenAfter(c, n) = o + OpenAfter(b, m)
      BY <3>1, <1>1, <1>2
    <3>3. ASSUME n < La + Lb PROVE c[n][2] = LevelAt(c, n)
      <4>1. m < Lb /\ m + 1 \in 1 .. Lb /\ La + (m + 1) = n + 1 /\ m \in Nat
        BY <3>1, <3>3, <1>1
      <4>2. c[n + 1] = b[m + 1]
        BY <4>1, <1>1
      <4>3. OpenAfter(b, m) \in Int
        BY <4>1, OpenStep
      <4> DEFINE x == OpenAfter(b, m)
                 e == IF b[m + 1][1] \in Closing THEN 1 ELSE 0
      <4>4. LevelAt(c, n) = (o + x) - e /\ LevelAt(b, m) = x - e
        BY <3>2, <4>2 DEF LevelAt
      <4>5. e \in Int /\ x \in Int
        BY <4>3
      <4> HIDE DEF e, x
      <4>6. (o + x) - e = o + (x - e)
        BY <1>3, <4>5
      <4> QED BY <1>5, <1>8, <3>1, <3>2, <4>1, <4>4, <4>6
    <3> QED BY <1>5, <1>8, <3>1, <3>2, <3>3
  <2> QED BY <2>1, <2>2, <2>3, <1>1
<1>9. Laid(c)
  BY <1>1, <1>8 DEF Laid
<1>10. b # << >> => c # << >> /\ c[La + Lb] = b[Lb]
  <2>1. b # << >> => Lb \in 1 .. Lb /\ Len(c) > 0
    BY <1>1
  <2> QED BY <1>1, <2>1
<1> QED BY <1>1, <1>6, <1>7, <1>9, <1>10 DEF c, La, Lb, o

\* A piece without brackets, all of whose line breaks are at one level.
Plain(b, level) ==
  /\ b \in Seq(Token)
  /\ \A m \in 1 .. Len(b) :
       /\ b[m][1] \notin Opening \cup Closing
       /\ b[m][1] = "newline" => call.pretty /\ b[m][2] = level

LEMMA PlainConcat ==
  ASSUME NEW level, NEW a, NEW b, Plain(a, level), Plain(b, level)
  PROVE  Plain(a \o b, level)
<1> DEFINE c == a \o b
           La == Len(a)
           Lb == Len(b)
<1>0. a \in Seq(Token) /\ b \in Seq(Token)
  BY DEF Plain
<1>1. /\ c \in Seq(Token) /\ La \in Nat /\ Lb \in Nat /\ Len(c) = La + Lb
      /\ \A m \in 1 .. La : c[m] = a[m]
      /\ \A m \in 1 .. Lb : c[La + m] = b[m]
  BY <1>0
<1>2. /\ \A m \in 1 .. La : /\ a[m][1] \notin Opening \cup Closing
                            /\ a[m][1] = "newline" => call.pretty /\ a[m][2] = level
      /\ \A m \in 1 .. Lb : /\ b[m][1] \notin Opening \cup Closing
                            /\ b[m][1] = "newline" => call.pretty /\ b[m][2] = level
  BY DEF Plain
<1> HIDE DEF c, La, Lb
<1>3. ASSUME NEW m \in 1 .. La + Lb
      PROVE  /\ c[m][1] \notin Opening \cup Closing
             /\ c[m][1] = "newline" => call.pretty /\ c[m][2] = level
  <2>1. CASE m <= La
    <3>1. m \in 1 .. La
      BY <2>1, <1>1
    <3> QED BY <3>1, <1>1, <1>2
  <2>2. CASE m > La
    <3>1. m - La \in 1 .. Lb /\ La + (m - La) = m
      BY <2>2, <1>1
    <3> QED BY <3>1, <1>1, <1>2
  <2> QED BY <2>1, <2>2, <1>1
<1>4. Plain(c, level)
  BY <1>1, <1>3 DEF Plain
<1> QED BY <1>4 DEF c

\* Pieces of no token and of one.
LEMMA EmptyPlain ==
  ASSUME NEW level
  PROVE  Plain(<< >>, level)
  BY DEF Plain

LEMMA OnePlain ==
  ASSUME NEW level, NEW t \in Token, t[1] \notin Opening \cup Closing,
         t[1] = "newline" => call.pretty /\ t[2] = level
  PROVE  Plain(<<t>>, level)
<1> DEFINE b == <<t>>
<1>1. b \in Seq(Token) /\ Len(b) = 1 /\ \A m \in 1 .. 1 : b[m] = t
  OBVIOUS
<1> HIDE DEF b
<1>2. Plain(b, level)
  BY <1>1 DEF Plain
<1> QED BY <1>2 DEF b

\* The end of a text is the end of its last part.
LEMMA EndOfConcat ==
  ASSUME NEW S, NEW a \in Seq(S), NEW b \in Seq(S), b # << >>
  PROVE  a \o b # << >> /\ (a \o b)[Len(a \o b)] = b[Len(b)]
<1> DEFINE c == a \o b
<1>1. Len(c) = Len(a) + Len(b) /\ Len(b) \in 1 .. Len(b) /\ Len(a) \in Nat
  OBVIOUS
<1>2. c[Len(a) + Len(b)] = b[Len(b)]
  BY <1>1
<1> QED BY <1>1, <1>2

\* Such a piece may follow a text that has its number of brackets open.
LEMMA PlainFollows ==
  ASSUME NEW a \in Seq(Token), NEW b, call.depth \in Int,
         OpenAfter(a, Len(a)) < call.depth,
         Plain(b, OpenAfter(a, Len(a))),
         Ends(a, "newline") => a[Len(a)][2] = OpenAfter(a, Len(a))
  PROVE  Follows(a, b) /\ OpenAfter(b, Len(b)) = 0
<1> DEFINE o == OpenAfter(a, Len(a))
           Lb == Len(b)
<1>0. b \in Seq(Token)
  BY DEF Plain
<1>1. Lb \in Nat /\ (b # << >> => 1 \in 1 .. Lb)
  BY <1>0
<1>2. o \in Int
  BY OpenStep
<1>3. \A m \in 1 .. Lb : /\ b[m][1] \notin Opening \cup Closing
                         /\ b[m][1] = "newline" => call.pretty /\ b[m][2] = o
  BY DEF Plain
<1>4. o < call.depth /\ (Ends(a, "newline") => a[Len(a)][2] = o)
  OBVIOUS
<1> HIDE DEF o, Lb
<1>5. \A n \in 0 .. Lb : OpenAfter(b, n) = 0
  BY <1>1, <1>3, OpenFlat
<1>6. \A k \in 0 .. Lb : o + OpenAfter(b, k) < call.depth
  BY <1>2, <1>4, <1>5
<1>7. ASSUME NEW m \in 1 .. Lb, b[m][1] = "newline"
      PROVE  call.pretty /\ (m < Lb => b[m][2] = o + LevelAt(b, m))
  <2>1. ASSUME m < Lb PROVE LevelAt(b, m) = 0
    <3>1. m + 1 \in 1 .. Lb /\ m \in 0 .. Lb
      BY <2>1, <1>1
    <3>2. b[m + 1][1] \notin Closing /\ OpenAfter(b, m) = 0
      BY <3>1, <1>3, <1>5
    <3>3. LevelAt(b, m) = 0 - 0
      BY <3>2 DEF LevelAt
    <3> QED BY <3>3
  <2> QED BY <1>2, <1>3, <1>7, <2>1
<1>8. Ends(a, "newline") /\ b # << >> => a[Len(a)][2] = o /\ b[1][1] \notin Closing
  BY <1>1, <1>3, <1>4
<1>9. Lb \in 0 .. Lb
  BY <1>1
<1> QED BY <1>5, <1>6, <1>7, <1>8, <1>9 DEF Follows, o, Lb

\* Pieces of text are tokens.
LEMMA TokTyped ==
  ASSUME NEW s \in Pieces
  PROVE  /\ Tok(s) \in Token /\ Tok(s)[1] = s
         /\ \A level \in Int : <<s, level>> \in Token
  BY DEF Tok, Token

LEMMA TokPlain ==
  ASSUME NEW s \in Pieces, s \notin Layout, NEW level
  PROVE  Plain(<<Tok(s)>>, level)
<1>1. Tok(s) \in Token /\ Tok(s)[1] = s
  BY TokTyped
<1>2. s \notin Opening \cup Closing /\ s # "newline"
  BY DEF Layout
<1> QED BY <1>1, <1>2, OnePlain

\* What stands before a member: a comma, a line break, a key.
LEMMA PrefixPlain ==
  ASSUME NEW key \in Keys, indent \in Int, call.pretty \in BOOLEAN
  PROVE  /\ Plain(Prefix(key), indent)
         /\ top.val.t = "obj" => ~ Ends(Prefix(key), "newline")
<1>1. /\ "," \in Pieces /\ "," \notin Layout /\ ":" \in Pieces /\ ":" \notin Layout
      /\ " " \in Pieces /\ " " \notin Layout /\ "newline" \in Pieces
      /\ "newline" \notin Opening \cup Closing
  BY DEF Pieces, Layout, Opening, Closing
<1>2. key \in Pieces /\ key \notin Layout
  BY NodesAssumption DEF Pieces
<1>3. Plain(Comma, indent)
  <2>1. Plain(<<Tok(",")>>, indent) /\ Plain(<< >>, indent)
    BY <1>1, TokPlain, EmptyPlain
  <2> QED BY <2>1 DEF Comma
<1>4. Plain(Newline(indent), indent)
  <2>1. <<"newline", indent>> \in Token /\ <<"newline", indent>>[1] = "newline"
        /\ <<"newline", indent>>[2] = indent
    BY <1>1, TokTyped
  <2>2. call.pretty => Plain(<< <<"newline", indent>> >>, indent)
    BY <1>1, <2>1, OnePlain
  <2>3. Plain(<< >>, indent)
    BY EmptyPlain
  <2> QED BY <2>2, <2>3 DEF Newline
<1> DEFINE head == <<Tok(key), Tok(":")>>
           space == IF call.pretty THEN <<Tok(" ")>> ELSE << >>
           before == Comma \o Newline(indent)
<1>5. Plain(head, indent)
  <2>1. Plain(<<Tok(key)>>, indent) /\ Plain(<<Tok(":")>>, indent)
    BY <1>1, <1>2, TokPlain
  <2>2. head = <<Tok(key)>> \o <<Tok(":")>>
    OBVIOUS
  <2> QED BY <2>1, <2>2, PlainConcat
<1>6. Plain(space, indent)
  <2>1. Plain(<<Tok(" ")>>, indent) /\ Plain(<< >>, indent)
    BY <1>1, TokPlain, EmptyPlain
  <2> QED BY <2>1
<1>7. KeyToks(key) = head \o space
  BY DEF KeyToks
<1>8. Plain(before, indent)
  BY <1>3, <1>4, PlainConcat
<1>9. Plain(KeyToks(key), indent)
  <2> HIDE DEF head, space
  <2> QED BY <1>5, <1>6, <1>7, PlainConcat
<1>10. Prefix(key) = before \o (IF top.val.t = "obj" THEN KeyToks(key) ELSE << >>)
  BY DEF Prefix
<1>11. Plain(<< >>, indent)
  BY EmptyPlain
<1>12. Plain(Prefix(key), indent)
  <2> HIDE DEF before
  <2>1. CASE top.val.t = "obj"
    BY <2>1, <1>8, <1>9, <1>10, PlainConcat
  <2>2. CASE top.val.t # "obj"
    BY <2>2, <1>8, <1>11, <1>10, PlainConcat
  <2> QED BY <2>1, <2>2
<1>13. ASSUME top.val.t = "obj" PROVE ~ Ends(Prefix(key), "newline")
  <2> DEFINE k == KeyToks(key)
             p == Prefix(key)
  <2>1. k \in Seq(Token) /\ before \in Seq(Token)
    BY <1>8, <1>9 DEF Plain
  <2>2. k # << >> /\ k[Len(k)] \in {Tok(":"), Tok(" ")}
    <3>1. Tok(key) \in Token /\ Tok(":") \in Token /\ Tok(" ") \in Token
      BY <1>1, <1>2, TokTyped
    <3>2. CASE call.pretty
      <4>1. k = head \o <<Tok(" ")>>
        BY <3>2, <1>7
      <4>2. <<Tok(" ")>> \in Seq(Token) /\ <<Tok(" ")>> # << >>
            /\ <<Tok(" ")>>[Len(<<Tok(" ")>>)] = Tok(" ")
        <5>1. ASSUME NEW t \in Token
              PROVE  <<t>> \in Seq(Token) /\ <<t>> # << >> /\ <<t>>[Len(<<t>>)] = t
          OBVIOUS
        <5> QED BY <3>1, <5>1
      <4>3. head \in Seq(Token)
        BY <1>5 DEF Plain
      <4> HIDE DEF k, head
      <4> QED BY <4>1, <4>2, <4>3, EndOfConcat
    <3>3. CASE ~ call.pretty
      <4>1. k = <<Tok(key), Tok(":")>>
        BY <3>3, <1>7
      <4> QED BY <4>1
    <3> QED BY <3>2, <3>3
  <2>3. p = before \o k
    BY <1>10, <1>13
  <2> HIDE DEF k, p, before
  <2>4. p[Len(p)] = k[Len(k)]
    BY <2>1, <2>2, <2>3, EndOfConcat
  <2>5. Tok(":")[1] # "newline" /\ Tok(" ")[1] # "newline"
    BY DEF Tok
  <2>6. ~ Ends(p, "newline")
    BY <2>2, <2>4, <2>5 DEF Ends
  <2> QED BY <2>6 DEF p
<1> QED BY <1>12, <1>13

\* The brackets, as one-token pieces.
LEMMA BracketPieces ==
  ASSUME NEW node
  PROVE  /\ OpenTok(node) \in Token /\ OpenTok(node)[1] \in Opening
         /\ CloseTok(node) \in Token /\ CloseTok(node)[1] \in Closing
         /\ Weight(OpenTok(node)) = 1 /\ Weight(CloseTok(node)) = -1
<1>1. "[" \in Pieces /\ "{" \in Pieces /\ "]" \in Pieces /\ "}" \in Pieces
  BY DEF Pieces, Layout, Opening, Closing
<1>2. OpenTok(node) \in Token /\ OpenTok(node)[1] \in {"[", "{"}
  BY <1>1, TokTyped DEF OpenTok
<1>3. CloseTok(node) \in Token /\ CloseTok(node)[1] \in {"]", "}"}
  BY <1>1, TokTyped DEF CloseTok
<1>4. Weight(OpenTok(node)) = 1
  BY <1>2 DEF Weight, Opening
<1>5. Weight(CloseTok(node)) = -1
  BY <1>3 DEF Weight, Opening, Closing
<1> QED BY <1>2, <1>3, <1>4, <1>5 DEF Opening, Closing

LEMMA OpenFollows ==
  ASSUME NEW a \in Seq(Token), NEW node, call.depth \in Int,
         OpenAfter(a, Len(a)) + 1 < call.depth,
         Ends(a, "newline") => a[Len(a)][2] = OpenAfter(a, Len(a))
  PROVE  /\ <<OpenTok(node)>> \in Seq(Token)
         /\ Follows(a, <<OpenTok(node)>>)
         /\ OpenAfter(<<OpenTok(node)>>, Len(<<OpenTok(node)>>)) = 1
         /\ <<OpenTok(node)>> # << >> /\ ~ Ends(<<OpenTok(node)>>, "newline")
<1> DEFINE t == OpenTok(node)
           b == <<t>>
           o == OpenAfter(a, Len(a))
<1>1. t \in Token /\ t[1] \in Opening /\ Weight(t) = 1
  BY BracketPieces
<1>2. t[1] # "newline" /\ t[1] \notin Closing
  BY <1>1 DEF Opening, Closing
<1> HIDE DEF t
<1>3. b \in Seq(Token) /\ Len(b) = 1 /\ b[1] = t /\ b # << >>
  BY <1>1
<1>4. o \in Int /\ o + 1 < call.depth
  BY OpenStep
<1> HIDE DEF b, o
<1>5. OpenAfter(b, 0) = 0 /\ OpenAfter(b, 0 + 1) = OpenAfter(b, 0) + Weight(b[0 + 1])
  BY OpenStep
<1>6. OpenAfter(b, 1) = 1
  BY <1>1, <1>3, <1>5
<1>7. ASSUME NEW k \in 0 .. Len(b) PROVE o + OpenAfter(b, k) < call.depth
  <2>1. k = 0 \/ k = 1
    BY <1>3
  <2> QED BY <2>1, <1>4, <1>5, <1>6
<1>8. \A m \in 1 .. Len(b) : b[m][1] # "newline"
  BY <1>2, <1>3
<1>9. Follows(a, b)
  BY <1>2, <1>3, <1>7, <1>8 DEF Follows, o
<1>10. ~ Ends(b, "newline")
  BY <1>2, <1>3 DEF Ends
<1> QED BY <1>3, <1>6, <1>9, <1>10 DEF b, t

\* The end of a container: a line break one level further out if it holds
\* any, and the closing bracket.
Closes(node, spread) ==
  (IF spread THEN Newline(indent - 1) ELSE << >>) \o <<CloseTok(node)>>

LEMMA CloseFollows ==
  ASSUME NEW a \in Seq(Token), NEW node, NEW spread \in BOOLEAN, call.depth \in Int, indent \in Int,
         spread => call.pretty,
         OpenAfter(a, Len(a)) < call.depth,
         call.pretty /\ spread => indent = OpenAfter(a, Len(a)),
         ~ Ends(a, "newline")
  PROVE  /\ Closes(node, spread) \in Seq(Token)
         /\ Follows(a, Closes(node, spread))
         /\ OpenAfter(Closes(node, spread), Len(Closes(node, spread))) = -1
         /\ Closes(node, spread) # << >> /\ ~ Ends(Closes(node, spread), "newline")
<1> DEFINE t == CloseTok(node)
           b == Closes(node, spread)
           o == OpenAfter(a, Len(a))
<1>1. t \in Token /\ t[1] \in Closing /\ Weight(t) = -1
  BY BracketPieces
<1>2. t[1] # "newline"
  BY <1>1 DEF Closing
<1>3. o \in Int /\ o < call.depth
  BY OpenStep
<1>4. CASE spread
  <2> DEFINE nl == <<"newline", indent - 1>>
  <2>1. nl[1] = "newline" /\ nl[2] = indent - 1 /\ indent = o /\ call.pretty
    BY <1>4
  <2>2. nl \in Token
    <3>1. "newline" \in Pieces /\ indent - 1 \in Int
      BY DEF Pieces, Layout
    <3> QED BY <3>1, TokTyped
  <2>3. b = <<nl>> \o <<t>>
    BY <1>4, <2>1, Zenon DEF Closes, Newline
  <2>4. Weight(nl) = 0
    BY <2>1 DEF Weight, Opening, Closing
  <2> HIDE DEF nl, t, b
  <2>5. b \in Seq(Token) /\ Len(b) = 2 /\ b[1] = nl /\ b[2] = t /\ b # << >>
    BY <2>2, <2>3, <1>1
  <2>6. /\ OpenAfter(b, 0) = 0
        /\ OpenAfter(b, 0 + 1) = OpenAfter(b, 0) + Weight(b[0 + 1])
        /\ OpenAfter(b, 1 + 1) = OpenAfter(b, 1) + Weight(b[1 + 1])
    BY OpenStep
  <2>7. OpenAfter(b, 0) = 0 /\ OpenAfter(b, 1) = 0 /\ OpenAfter(b, 2) = -1
    BY <2>4, <2>5, <2>6, <1>1
  <2> HIDE DEF o
  <2>8. ASSUME NEW k \in 0 .. Len(b) PROVE o + OpenAfter(b, k) < call.depth
    <3>1. k = 0 \/ k = 1 \/ k = 2
      BY <2>5
    <3> QED BY <3>1, <2>7, <1>3
  <2>9. ASSUME NEW m \in 1 .. Len(b), b[m][1] = "newline"
        PROVE  call.pretty /\ (m < Len(b) => b[m][2] = o + LevelAt(b, m))
    <3>1. m = 1
      BY <2>5, <2>9, <1>2
    <3>2. b[1 + 1][1] \in Closing
      BY <2>5, <1>1
    <3>3. LevelAt(b, 1) = 0 - 1
      BY <2>7, <3>2 DEF LevelAt
    <3> QED BY <3>1, <3>3, <2>1, <2>5, <1>3
  <2>10. Follows(a, b)
    BY <2>8, <2>9 DEF Follows, o
  <2>11. ~ Ends(b, "newline")
    BY <2>5, <1>2 DEF Ends
  <2> QED BY <2>5, <2>7, <2>10, <2>11 DEF b
<1>5. CASE ~ spread
  <2>1. b = <<t>>
    BY <1>1, <1>5 DEF Closes
  <2> HIDE DEF t, b
  <2>2. b \in Seq(Token) /\ Len(b) = 1 /\ b[1] = t /\ b # << >>
    BY <2>1, <1>1
  <2>3. OpenAfter(b, 0) = 0 /\ OpenAfter(b, 0 + 1) = OpenAfter(b, 0) + Weight(b[0 + 1])
    BY OpenStep
  <2>4. OpenAfter(b, 1) = -1
    BY <2>2, <2>3, <1>1
  <2> HIDE DEF o
  <2>5. ASSUME NEW k \in 0 .. Len(b) PROVE o + OpenAfter(b, k) < call.depth
    <3>1. k = 0 \/ k = 1
      BY <2>2
    <3> QED BY <3>1, <2>3, <2>4, <1>3
  <2>6. \A m \in 1 .. Len(b) : b[m][1] # "newline"
    BY <2>2, <1>2
  <2>7. Follows(a, b)
    BY <2>5, <2>6 DEF Follows, o
  <2>8. ~ Ends(b, "newline")
    BY <2>2, <1>2 DEF Ends
  <2> QED BY <2>2, <2>4, <2>7, <2>8 DEF b
<1> QED BY <1>4, <1>5

\* An encoded replacement, its line breaks moved to where it goes.
LEMMA ReplacementFollows ==
  ASSUME NEW a \in Seq(Token), NEW toks, NEW nest \in Int, call.depth \in Int, indent \in Int,
         TextShape(toks, nest, call.pretty),
         OpenAfter(a, Len(a)) + nest < call.depth,
         call.pretty => indent = OpenAfter(a, Len(a)),
         Ends(a, "newline") => a[Len(a)][2] = OpenAfter(a, Len(a))
  PROVE  /\ Reindented(toks) \in Seq(Token)
         /\ Follows(a, Reindented(toks))
         /\ OpenAfter(Reindented(toks), Len(Reindented(toks))) = 0
         /\ Reindented(toks) # << >> /\ ~ Ends(Reindented(toks), "newline")
<1> DEFINE b == Reindented(toks)
           L == Len(toks)
           o == OpenAfter(a, Len(a))
<1>1. /\ toks \in Seq(Token) /\ toks # << >>
      /\ toks[1][1] \notin Closing \cup {"newline"} /\ toks[L][1] # "newline"
      /\ \A n \in 0 .. L : OpenAfter(toks, n) <= nest
      /\ OpenAfter(toks, L) = 0
      /\ \A n \in DOMAIN toks : toks[n][1] = "newline" =>
           call.pretty /\ toks[n][2] = LevelAt(toks, n)
  BY Zenon DEF TextShape
<1>2. L \in Nat /\ L > 0 /\ DOMAIN toks = 1 .. L /\ \A n \in 1 .. L : toks[n] \in Token
  BY <1>1
<1>3. o \in Int /\ o + nest < call.depth /\ (call.pretty => indent = o)
  BY OpenStep
<1> HIDE DEF L, o
<1>4. ASSUME NEW n \in 1 .. L
      PROVE  /\ b[n] \in Token /\ b[n][1] = toks[n][1]
             /\ b[n][1] = "newline" => call.pretty /\ b[n][2] = toks[n][2] + indent
  <2>1. b[n] = IF call.pretty /\ toks[n][1] = "newline"
               THEN <<"newline", toks[n][2] + indent>> ELSE toks[n]
    BY <1>2 DEF Reindented
  <2>2. toks[n] \in Token /\ toks[n][2] \in Int
    BY <1>2 DEF Token
  <2>3. CASE toks[n][1] = "newline"
    <3>1. call.pretty
      BY <1>1, <1>2, <2>3
    <3>2. b[n] = <<"newline", toks[n][2] + indent>>
      BY <2>1, <2>3, <3>1
    <3>3. toks[n][2] + indent \in Int /\ "newline" \in Pieces
      BY <2>2 DEF Pieces, Layout
    <3>4. <<"newline", toks[n][2] + indent>> \in Token
      BY <3>3, TokTyped
    <3> QED BY <2>3, <3>1, <3>2, <3>4
  <2>4. CASE toks[n][1] # "newline"
    BY <2>1, <2>2, <2>4
  <2> QED BY <2>3, <2>4
<1>5. b \in Seq(Token) /\ Len(b) = L
  <2>1. b = [n \in 1 .. L |-> b[n]]
    BY <1>2, Zenon DEF Reindented
  <2> HIDE DEF b
  <2> QED BY <1>2, <1>4, <2>1
<1> HIDE DEF b
<1>6. ASSUME NEW n \in 0 .. L PROVE OpenAfter(b, n) = OpenAfter(toks, n)
  <2>1. n \in Nat /\ \A m \in 1 .. n : b[m][1] = toks[m][1]
    BY <1>2, <1>4
  <2> QED BY <2>1, OpenSame
<1>7. ASSUME NEW k \in 0 .. L PROVE o + OpenAfter(b, k) < call.depth
  <2>1. OpenAfter(b, k) <= nest
    BY <1>1, <1>6
  <2>2. k \in Nat
    BY <1>2
  <2>3. OpenAfter(b, k) \in Int
    BY <2>2, OpenStep
  <2> QED BY <1>3, <2>1, <2>3
<1>8. ASSUME NEW m \in 1 .. L, b[m][1] = "newline"
      PROVE  call.pretty /\ (m < L => b[m][2] = o + LevelAt(b, m))
  <2>0. toks[m][1] = "newline" /\ call.pretty /\ b[m][2] = toks[m][2] + indent
    BY <1>4, <1>8, Zenon
  <2>1. call.pretty /\ toks[m][2] = LevelAt(toks, m) /\ b[m][2] = toks[m][2] + indent
        /\ indent = o
    BY <1>1, <1>2, <1>3, <2>0, Zenon
  <2>2. ASSUME m < L PROVE LevelAt(b, m) = LevelAt(toks, m)
    <3>1. m + 1 \in 1 .. L /\ m \in 0 .. L
      BY <2>2, <1>2
    <3>2. b[m + 1][1] = toks[m + 1][1] /\ OpenAfter(b, m) = OpenAfter(toks, m)
      BY <3>1, <1>4, <1>6
    <3> QED BY <3>2 DEF LevelAt
  <2>3. toks[m][2] \in Int
    BY <1>2 DEF Token
  <2> QED BY <1>3, <2>1, <2>2, <2>3
<1>9. 1 \in 1 .. L /\ L \in 1 .. L /\ L \in 0 .. L
  BY <1>2
<1>10. b # << >> /\ b[1][1] \notin Closing /\ b[L][1] # "newline"
  BY <1>1, <1>4, <1>5, <1>9
<1>11. Follows(a, b)
  BY <1>5, <1>7, <1>8, <1>10 DEF Follows, o
<1>12. OpenAfter(b, L) = 0
  BY <1>1, <1>6, <1>9
<1>13. ~ Ends(b, "newline")
  BY <1>5, <1>10 DEF Ends
<1> QED BY <1>5, <1>10, <1>11, <1>12, <1>13 DEF b

-----------------------------------------------------------------------------
(* Stacks of frames.                                                       *)

Stacked(s) ==
  \A j \in 1 .. Len(s) :
    /\ FrameInv(s[j], Len(s) - j)
    /\ j > 1 => Looping(s[j]) /\ Spread(s[j])

LEMMA PopStacked ==
  ASSUME NEW s \in Seq(Frame), s # << >>, Stacked(s)
  PROVE  /\ Stacked(Tail(s)) /\ Tail(s) \in Seq(Frame) /\ Len(Tail(s)) = Len(s) - 1
         /\ Tail(s) # << >> => Looping(Head(Tail(s))) /\ Spread(Head(Tail(s)))
<1> DEFINE u == Tail(s)
           L == Len(s)
<1>1. /\ u \in Seq(Frame) /\ Len(u) = L - 1 /\ L \in Nat /\ L > 0
      /\ \A j \in 1 .. L - 1 : u[j] = s[j + 1]
      /\ u # << >> => L > 1 /\ Head(u) = u[1]
  OBVIOUS
<1>2. \A j \in 1 .. L : /\ FrameInv(s[j], L - j)
                        /\ j > 1 => Looping(s[j]) /\ Spread(s[j])
  BY DEF Stacked
<1> HIDE DEF u, L
<1>3. ASSUME NEW j \in 1 .. L - 1
      PROVE  FrameInv(u[j], (L - 1) - j) /\ Looping(u[j]) /\ Spread(u[j])
  <2>1. j + 1 \in 1 .. L /\ j + 1 > 1 /\ L - (j + 1) = (L - 1) - j
    BY <1>1
  <2> QED BY <1>1, <1>2, <2>1
<1>4. Stacked(u)
  BY <1>1, <1>3 DEF Stacked
<1>5. u # << >> => Looping(Head(u)) /\ Spread(Head(u))
  <2>1. L > 1 => 1 \in 1 .. L - 1
    BY <1>1
  <2> QED BY <1>1, <1>3, <2>1
<1> QED BY <1>1, <1>4, <1>5 DEF u, L

LEMMA ReplaceStacked ==
  ASSUME NEW s \in Seq(Frame), s # << >>, Stacked(s),
         NEW f \in Frame, FrameInv(f, Len(s) - 1)
  PROVE  /\ Stacked(<<f>> \o Tail(s)) /\ <<f>> \o Tail(s) \in Seq(Frame)
         /\ Len(<<f>> \o Tail(s)) = Len(s) /\ <<f>> \o Tail(s) # << >>
         /\ Head(<<f>> \o Tail(s)) = f
<1> DEFINE u == <<f>> \o Tail(s)
           L == Len(s)
<1>1. /\ u \in Seq(Frame) /\ Len(u) = L /\ L \in Nat /\ L > 0
      /\ u[1] = f /\ Head(u) = f /\ u # << >>
      /\ \A j \in 2 .. L : u[j] = s[j]
  OBVIOUS
<1>2. \A j \in 1 .. L : /\ FrameInv(s[j], L - j)
                        /\ j > 1 => Looping(s[j]) /\ Spread(s[j])
  BY DEF Stacked
<1>3. FrameInv(f, L - 1)
  OBVIOUS
<1> HIDE DEF u, L
<1>4. ASSUME NEW j \in 1 .. L
      PROVE  FrameInv(u[j], L - j) /\ (j > 1 => Looping(u[j]) /\ Spread(u[j]))
  <2>1. CASE j = 1
    BY <2>1, <1>1, <1>3
  <2>2. CASE j \in 2 .. L
    BY <2>2, <1>1, <1>2
  <2> QED BY <2>1, <2>2, <1>1
<1>5. Stacked(u)
  BY <1>1, <1>4 DEF Stacked
<1> QED BY <1>1, <1>5 DEF u, L

LEMMA PushStacked ==
  ASSUME NEW s \in Seq(Frame), s # << >>, Stacked(s),
         NEW f \in Frame, FrameInv(f, Len(s)),
         NEW g \in Frame, FrameInv(g, Len(s) - 1), Looping(g), Spread(g)
  PROVE  /\ Stacked(<<f, g>> \o Tail(s)) /\ <<f, g>> \o Tail(s) \in Seq(Frame)
         /\ Len(<<f, g>> \o Tail(s)) = Len(s) + 1 /\ <<f, g>> \o Tail(s) # << >>
         /\ Head(<<f, g>> \o Tail(s)) = f
<1> DEFINE u == <<f, g>> \o Tail(s)
           L == Len(s)
<1>1. /\ u \in Seq(Frame) /\ Len(u) = L + 1 /\ L \in Nat /\ L > 0
      /\ u[1] = f /\ u[2] = g /\ Head(u) = f /\ u # << >>
      /\ \A j \in 3 .. L + 1 : u[j] = s[j - 1]
  OBVIOUS
<1>2. \A j \in 1 .. L : /\ FrameInv(s[j], L - j)
                        /\ j > 1 => Looping(s[j]) /\ Spread(s[j])
  BY DEF Stacked
<1>3. FrameInv(f, L) /\ FrameInv(g, L - 1)
  OBVIOUS
<1> HIDE DEF u, L
<1>4. ASSUME NEW j \in 1 .. L + 1
      PROVE  FrameInv(u[j], (L + 1) - j) /\ (j > 1 => Looping(u[j]) /\ Spread(u[j]))
  <2>1. CASE j = 1
    <3>1. (L + 1) - j = L
      BY <2>1, <1>1
    <3> QED BY <2>1, <3>1, <1>1, <1>3
  <2>2. CASE j = 2
    <3>1. (L + 1) - j = L - 1
      BY <2>2, <1>1
    <3> QED BY <2>2, <3>1, <1>1, <1>3
  <2>3. CASE j \in 3 .. L + 1
    <3>1. j - 1 \in 1 .. L /\ j - 1 > 1 /\ L - (j - 1) = (L + 1) - j
      BY <2>3, <1>1
    <3> QED BY <2>3, <3>1, <1>1, <1>2
  <2> QED BY <2>1, <2>2, <2>3, <1>1
<1>5. Stacked(u)
  BY <1>1, <1>4 DEF Stacked
<1> QED BY <1>1, <1>5 DEF u, L

-----------------------------------------------------------------------------
(* What a step has to show.                                                *)

\* The shape of a call.
LEMMA CallTyped ==
  ASSUME SpliceType
  PROVE  /\ call \in Calls /\ call.doc \in Nodes /\ call.repl.node \in Nodes
         /\ call.segs \in Seq(Segment) /\ nsegs \in Nat
         /\ \A n \in 1 .. nsegs : call.segs[n] \in Segment
         /\ call.depth \in Nat /\ call.depth > 0
         /\ call.pretty \in BOOLEAN /\ call.repl.direct \in BOOLEAN
         /\ call.repl.encodes \in BOOLEAN /\ call.repl.nest \in Nat
         /\ ~ call.repl.direct /\ call.repl.encodes =>
              TextShape(call.repl.text, call.repl.nest, call.pretty)
<1>1. call \in Calls
  BY DEF SpliceType
<1>2. CallShape(call)
  BY <1>1, CallsAssumption
<1>3. call.segs \in Seq(Segment)
  BY <1>2 DEF CallShape, Segment
<1>4. nsegs \in Nat /\ \A n \in 1 .. nsegs : call.segs[n] \in Segment
  BY <1>3 DEF nsegs
<1>5. call.depth \in Nat /\ call.depth > 0
  BY <1>2 DEF CallShape
<1>6. call.pretty \in BOOLEAN /\ call.repl.direct \in BOOLEAN /\ call.repl.encodes \in BOOLEAN
  BY <1>2 DEF CallShape
<1> QED BY <1>1, <1>2, <1>3, <1>4, <1>5, <1>6 DEF CallShape

\* The output of a step: the brackets still open, and the line breaks.
TextInv(toks, s, lev) ==
  /\ OpenAfter(toks, Len(toks)) = Len(s) - (IF s = << >> \/ Looping(Head(s)) THEN 0 ELSE 1)
  /\ \A n \in 0 .. Len(toks) : OpenAfter(toks, n) < call.depth
  /\ call.pretty =>
       lev = Len(s) - (IF s = << >> \/ (Looping(Head(s)) /\ Spread(Head(s))) THEN 0 ELSE 1)
  /\ Laid(toks)
  /\ Ends(toks, "newline") =>
       /\ toks[Len(toks)][2] = OpenAfter(toks, Len(toks))
       /\ s # << >> /\ Head(s).fn \in {"full", "at", "repl"}

LEMMA TextOfOut == TextInv(out, stack, indent) <=> OutInv /\ LayoutInv
  BY DEF TextInv, OutInv, LayoutInv, Ends, top

LEMMA StackedStack ==
  ASSUME SpliceInv
  PROVE  Stacked(stack) /\ stack \in Seq(Frame)
<1>1. stack \in Seq(Frame)
  BY DEF SpliceInv, SpliceType
<1>2. DOMAIN stack = 1 .. Len(stack)
  BY <1>1
<1> QED BY <1>1, <1>2 DEF SpliceInv, StackInv, Stacked

\* The frames after a step of the writer.
LEMMA StackedNext ==
  ASSUME UNCHANGED <<call, i>>, pc' = "write", call.op = "set",
         stack' \in Seq(Frame), Stacked(stack')
  PROVE  StackInv'
<1>1. DOMAIN stack' = 1 .. Len(stack')
  OBVIOUS
<1> QED BY <1>1, ZenonT(60) DEF StackInv, Stacked, FrameInv, Looping, Spread, nsegs, IsCtn, Hits

\* A step of the writer that goes on.
LEMMA WriterGoesOn ==
  ASSUME SpliceInv, pc = "write", call.op = "set",
         UNCHANGED <<call, pc, i, current, status>>,
         stack' \in Seq(Frame), Stacked(stack'), out' \in Seq(Token), indent' \in Int,
         TextInv(out', stack', indent')
  PROVE  SpliceInv'
<1>1. SpliceType'
  BY DEF SpliceInv, SpliceType, nsegs
<1>2. PlanInv'
  BY DEF SpliceInv, PlanInv, nsegs, Hits
<1>3. StackInv'
  BY StackedNext
<1>4. ReplacementInv'
  BY DEF SpliceInv, ReplacementInv, EncodesWithin, repl_depth, nsegs
<1>5. OutInv' /\ LayoutInv'
  BY DEF TextInv, OutInv, LayoutInv, Ends, top, Laid, Looping, Spread
<1>6. PlanSettlesTheTarget' /\ (pc = "done" => stack = << >>)'
  BY DEF PlanSettlesTheTarget
<1> QED BY <1>1, <1>2, <1>3, <1>4, <1>5, <1>6 DEF SpliceInv

\* A step that only changes pc, status and fault.
LEMMA OnlyTheVerdict ==
  ASSUME SpliceInv, UNCHANGED <<call, i, current, stack, out, indent>>,
         pc' # "write", pc' = "build" => call.op = "set",
         stack # << >> => pc' = "failed",
         pc' = "failed" => status' \notin {"SETTABLE_FAIL", "AMBIGUOUS"},
         call.op = "set" /\ pc' \notin {"parse", "refused"} => nsegs < call.depth,
         call.op = "set" /\ pc' \notin {"parse", "walk", "refused"} /\ i < nsegs =>
           current.t = "obj" /\ Hits(call, i + 1) = {}
  PROVE  SpliceInv'
<1>1. SpliceType'
  BY DEF SpliceInv, SpliceType, nsegs
<1>2. PlanInv'
  BY DEF SpliceInv, PlanInv, nsegs, Hits
<1>3. StackInv'
  <2>1. \A j \in DOMAIN stack :
          /\ FrameInv(stack[j], Len(stack) - j)
          /\ j > 1 => Looping(stack[j]) /\ Spread(stack[j])
    BY DEF SpliceInv, StackInv
  <2>2. stack # << >> => call.op = "set"
    BY DEF SpliceInv, StackInv
  <2> QED BY <2>1, <2>2 DEF StackInv, FrameInv, Looping, Spread, nsegs, IsCtn, Hits
<1>4. ReplacementInv'
  BY DEF ReplacementInv
<1>5. OutInv' /\ LayoutInv'
  BY DEF SpliceInv, OutInv, LayoutInv, top, Laid, Looping, Spread
<1>6. PlanSettlesTheTarget' /\ (pc = "done" => stack = << >>)'
  BY DEF PlanSettlesTheTarget
<1> QED BY <1>1, <1>2, <1>3, <1>4, <1>5, <1>6 DEF SpliceInv

-----------------------------------------------------------------------------
(* The plan.                                                               *)

LEMMA InitSplices ==
  ASSUME Init
  PROVE  SpliceInv
<1>1. call \in Calls /\ CallShape(call)
  BY CallsAssumption DEF Init
<1>2. nsegs \in Nat /\ call.doc \in Nodes /\ call.depth \in Nat \ {0}
  BY <1>1 DEF CallShape, nsegs
<1>3. SpliceType
  BY <1>1, <1>2 DEF Init, SpliceType
<1>4. PlanInv
  <2>1. Reached(call)[0] = call.doc
    BY <1>1, ReachedStep
  <2> QED BY <2>1 DEF Init, PlanInv
<1>5. StackInv /\ ReplacementInv /\ PlanSettlesTheTarget
  BY DEF Init, StackInv, ReplacementInv, PlanSettlesTheTarget
<1>6. OpenAfter(<< >>, 0) = 0
  BY OpenStep
<1>7. OutInv /\ LayoutInv
  BY <1>2, <1>6 DEF Init, OutInv, LayoutInv, Laid
<1> QED BY <1>3, <1>4, <1>5, <1>7 DEF Init, SpliceInv

\* Before the writer starts there is no frame.
LEMMA NoFrameYet ==
  ASSUME SpliceInv, pc \notin {"write", "failed"}
  PROVE  stack = << >>
  BY DEF SpliceInv, StackInv

LEMMA ParseStep ==
  ASSUME SpliceInv, fj_pointer_parse
  PROVE  SpliceInv'
<1>1. pc = "parse" /\ UNCHANGED <<call, i, current, stack, out, indent>> /\ pc' \in {"refused", "walk"}
  BY DEF fj_pointer_parse, End
<1>2. stack = << >>
  BY <1>1, NoFrameYet
<1>3. call.op = "set" /\ pc' # "refused" => nsegs < call.depth
  <2>1. call.depth \in Nat /\ call.depth > 0
    BY CallTyped DEF SpliceInv
  <2> QED BY <2>1 DEF fj_pointer_parse, End, fj_pointer_nsegs_ok, depth_limit
<1> QED BY <1>1, <1>2, <1>3, OnlyTheVerdict

\* What the plan knows while it walks.
LEMMA Walking ==
  ASSUME SpliceInv, pc = "walk"
  PROVE  /\ stack = << >> /\ out \in Seq(Token)
         /\ call \in Calls /\ nsegs \in Nat /\ i \in 0 .. nsegs /\ current \in Nodes
         /\ call.op = "set" =>
              /\ nsegs < call.depth /\ current = Reached(call)[i]
              /\ \A n \in 1 .. i : Cardinality(Hits(call, n)) = 1
         /\ i < nsegs => call.segs[i + 1] \in Segment
         /\ call.op = "set" /\ i < nsegs => WalkSelected = Hits(call, i + 1)
<1>1. stack = << >>
  BY NoFrameYet
<1>2. /\ call \in Calls /\ i \in 0 .. nsegs /\ current \in Nodes /\ out \in Seq(Token)
      /\ nsegs \in Nat /\ \A n \in 1 .. nsegs : call.segs[n] \in Segment
  BY CallTyped DEF SpliceInv, SpliceType
<1>3. call.op = "set" =>
        /\ nsegs < call.depth /\ current = Reached(call)[i]
        /\ \A n \in 1 .. i : Cardinality(Hits(call, n)) = 1
  BY DEF SpliceInv, PlanInv
<1>4. i < nsegs => call.segs[i + 1] \in Segment
  BY <1>2
<1>5. ASSUME call.op = "set", i < nsegs PROVE WalkSelected = Hits(call, i + 1)
  <2>1. (call.utf8 /\ call.op # "set") = FALSE
    BY <1>5
  <2>2. (i + 1) - 1 = i
    BY <1>2
  <2> QED BY <1>3, <1>5, <2>1, <2>2 DEF WalkSelected, Hits
<1> QED BY <1>1, <1>2, <1>3, <1>4, <1>5

LEMMA WalkVerdictStep ==
  ASSUME SpliceInv, WalkEnds \/ WalkAmbiguous \/ WalkMissing \/ WalkBlocked
  PROVE  SpliceInv'
<1>1. pc = "walk" /\ UNCHANGED <<call, i, current, stack, out, indent>>
  BY DEF WalkEnds, WalkAmbiguous, WalkMissing, WalkBlocked, End
<1>2. stack = << >> /\ (call.op = "set" => nsegs < call.depth)
  BY <1>1, Walking
<1>3. CASE WalkEnds
  <2>1. pc' \in {"build", "done"} /\ i = nsegs /\ (pc' = "build" => call.op = "set")
    BY <1>3 DEF WalkEnds
  <2>2. ~ (i < nsegs)
    BY <1>1, <2>1, Walking
  <2> QED BY <1>1, <1>2, <2>1, <2>2, OnlyTheVerdict
<1>4. CASE WalkAmbiguous \/ WalkBlocked
  <2>1. pc' = "refused"
    BY <1>4 DEF WalkAmbiguous, WalkBlocked, End
  <2> QED BY <1>1, <1>2, <2>1, OnlyTheVerdict
<1>5. CASE WalkMissing
  <2>1. pc' = "build" /\ call.op = "set" /\ current.t = "obj" /\ Hits(call, i + 1) = {}
    BY <1>1, <1>5, Walking DEF WalkMissing
  <2> QED BY <1>1, <1>2, <2>1, OnlyTheVerdict
<1> QED BY <1>3, <1>4, <1>5

LEMMA WalkIntoStep ==
  ASSUME SpliceInv, WalkInto
  PROVE  SpliceInv'
<1> DEFINE hits == WalkSelected
<1>1. /\ pc = "walk" /\ pc' = "walk" /\ i < nsegs /\ Cardinality(hits) = 1
      /\ current' = current.kids[TheOne(hits)].v /\ i' = i + 1
      /\ UNCHANGED <<call, stack, out, indent, status>>
  BY DEF WalkInto
<1>2. /\ stack = << >> /\ out \in Seq(Token)
      /\ call \in Calls /\ nsegs \in Nat /\ i \in 0 .. nsegs /\ current \in Nodes
      /\ call.segs[i + 1] \in Segment
  BY <1>1, Walking
<1>3. IsFiniteSet(hits) /\ hits \subseteq 1 .. Len(current.kids)
  BY <1>2, SelectedTyped DEF WalkSelected
<1>4. hits = {TheOne(hits)}
  BY <1>1, <1>3, TheOneIs
<1>5. current' \in Nodes
  <2>1. current.kids \in Seq([k : Keys, v : Nodes])
    BY <1>2, NodesAssumption DEF NodeShape
  <2>2. TheOne(hits) \in 1 .. Len(current.kids)
    BY <1>3, <1>4, Zenon
  <2>3. current.kids[TheOne(hits)] \in [k : Keys, v : Nodes]
    BY <2>1, <2>2, ElementOfSeq, Zenon
  <2> QED BY <1>1, <2>3
<1>6. SpliceType'
  <2>1. i' \in 0 .. nsegs /\ nsegs' = nsegs
    BY <1>1, <1>2 DEF nsegs
  <2> QED BY <1>1, <1>2, <1>5, <2>1 DEF SpliceInv, SpliceType
<1>7. PlanInv'
  <2> SUFFICES ASSUME call.op = "set"
               PROVE  /\ current' = Reached(call)[i + 1]
                      /\ \A n \in 1 .. i + 1 : Cardinality(Hits(call, n)) = 1
                      /\ nsegs < call.depth
    BY <1>1 DEF PlanInv, nsegs, Hits
  <2>1. /\ nsegs < call.depth /\ current = Reached(call)[i]
        /\ \A n \in 1 .. i : Cardinality(Hits(call, n)) = 1
        /\ hits = Hits(call, i + 1)
    BY <1>1, Walking
  <2>2. i + 1 \in 1 .. nsegs /\ (i + 1) - 1 = i
    BY <1>1, <1>2
  <2>3. Reached(call)[i + 1] = Onward(Reached(call)[i], call.segs[i + 1])
    BY <1>2, <2>2, ReachedStep DEF nsegs
  <2>4. Selected(current, call.segs[i + 1], FALSE) = hits
    BY <2>1, <2>2 DEF Hits
  <2>5. Onward(current, call.segs[i + 1]) = current.kids[TheOne(hits)].v
    BY <1>4, <2>4, Zenon DEF Onward
  <2>6. ASSUME NEW n \in 1 .. i + 1 PROVE Cardinality(Hits(call, n)) = 1
    <3>1. n \in 1 .. i \/ n = i + 1
      BY <1>2
    <3> QED BY <3>1, <1>1, <2>1
  <2> QED BY <1>1, <2>1, <2>3, <2>5, <2>6
<1>8. StackInv' /\ ReplacementInv' /\ PlanSettlesTheTarget' /\ (pc = "done" => stack = << >>)'
  BY <1>1, <1>2 DEF StackInv, ReplacementInv, PlanSettlesTheTarget
<1>9. OutInv' /\ LayoutInv'
  BY <1>1, <1>2 DEF SpliceInv, OutInv, LayoutInv, Laid
<1> QED BY <1>6, <1>7, <1>8, <1>9 DEF SpliceInv

-----------------------------------------------------------------------------
(* The writer.                                                             *)

\* A frame as it is when it is pushed.
IsNew(f, fn, node, seg, rem) ==
  /\ f \in Frame /\ f.fn = fn /\ f.val = node /\ f.seg = seg /\ f.rem = rem
  /\ f.pos = 1 /\ f.matched = FALSE

LEMMA NewFrame ==
  ASSUME NEW fn \in {"full", "at", "loop", "build", "suffix", "repl"},
         NEW node \in Nodes \cup {EmptyObj}, NEW seg \in Nat, NEW rem \in Int
  PROVE  IsNew(FrameOf(fn, node, seg, rem), fn, node, seg, rem)
<1> DEFINE f == FrameOf(fn, node, seg, rem)
<1>1. /\ f.fn = fn /\ f.val = node /\ f.seg = seg /\ f.rem = rem /\ f.pos = 1
      /\ f.matched = FALSE
  BY Zenon DEF FrameOf
<1>2. 1 \in Nat \ {0}
  OBVIOUS
<1>3. FALSE \in BOOLEAN
  OBVIOUS
<1>4. f \in Frame
  BY <1>2, <1>3, Zenon DEF FrameOf, Frame
<1> HIDE DEF f
<1>5. IsNew(f, fn, node, seg, rem)
  BY <1>1, <1>4, Zenon DEF IsNew
<1> QED BY <1>5 DEF f

LEMMA BuildStep ==
  ASSUME SpliceInv, fastjson_pointer_build_replacement
  PROVE  SpliceInv'
<1>1. pc = "build" /\ call.op = "set" /\ stack = << >> /\ UNCHANGED <<call, i, current, out, indent>>
  BY NoFrameYet DEF fastjson_pointer_build_replacement, End, SpliceInv, StackInv
<1>2. /\ nsegs \in Nat /\ call.depth \in Nat /\ call.depth > 0 /\ call.doc \in Nodes /\ call \in Calls
      /\ i \in 0 .. nsegs /\ nsegs < call.depth
  BY <1>1, CallTyped DEF SpliceInv, SpliceType, PlanInv
<1>3. CASE pc' = "unencodable"
  <2>1. UNCHANGED stack
    BY <1>3 DEF fastjson_pointer_build_replacement, End
  <2>2. i < nsegs => current.t = "obj" /\ Hits(call, i + 1) = {}
    BY <1>1 DEF SpliceInv, PlanInv
  <2> QED BY <1>1, <1>2, <1>3, <2>1, <2>2, OnlyTheVerdict
<1>4. CASE pc' # "unencodable"
  <2> DEFINE f == IF nsegs = 0 THEN FrameOf("repl", EmptyObj, 0, call.depth)
                  ELSE FrameOf("at", call.doc, 1, call.depth)
  <2>1. /\ pc' = "write" /\ stack' = <<f>>
        /\ call.repl.direct \/ EncodesWithin(repl_depth)
    BY <1>4 DEF fastjson_pointer_build_replacement, End
  <2>2. /\ f \in Frame /\ f.rem = call.depth
        /\ nsegs = 0 => f.fn = "repl"
        /\ nsegs # 0 => f.fn = "at" /\ f.seg = 1 /\ f.val = call.doc
    <3>0. call.doc \in Nodes \cup {EmptyObj} /\ EmptyObj \in Nodes \cup {EmptyObj}
          /\ call.depth \in Int /\ 0 \in Nat /\ 1 \in Nat
      BY <1>2
    <3>1. CASE nsegs = 0
      <4>1. IsNew(f, "repl", EmptyObj, 0, call.depth)
        BY <3>0, <3>1, NewFrame, Zenon
      <4> HIDE DEF f
      <4> QED BY <3>1, <4>1 DEF IsNew
    <3>2. CASE nsegs # 0
      <4>1. IsNew(f, "at", call.doc, 1, call.depth)
        BY <3>0, <3>2, NewFrame, Zenon
      <4> HIDE DEF f
      <4> QED BY <3>2, <4>1 DEF IsNew
    <3> QED BY <3>1, <3>2
  <2>3. Reached(call)[0] = call.doc
    BY <1>2, ReachedStep
  <2>4. f.fn \in {"repl", "at"}
    BY <2>2
  <2> HIDE DEF f
  <2>5. FrameInv(f, 0)
    <3>1. CASE nsegs = 0
      BY <1>2, <2>2, <3>1 DEF FrameInv, Looping
    <3>2. CASE nsegs # 0
      BY <1>2, <2>2, <2>3, <3>2 DEF FrameInv, Looping
    <3> QED BY <3>1, <3>2
  <2>6. stack' \in Seq(Frame) /\ Len(stack') = 1 /\ stack'[1] = f /\ DOMAIN stack' = 1 .. 1
        /\ Head(stack') = f /\ stack' # << >>
    BY <2>1, <2>2
  <2>7. SpliceType'
    BY <1>1, <2>6 DEF SpliceInv, SpliceType, nsegs
  <2>8. PlanInv'
    BY <1>1, <2>1 DEF SpliceInv, PlanInv, nsegs, Hits
  <2>9. StackInv'
    <3>1. \A j \in 1 .. Len(stack') : j = 1 /\ Len(stack') - j = 0
      BY <2>6
    <3>2. Stacked(stack')
      BY <2>5, <2>6, <3>1 DEF Stacked
    <3> QED BY <1>1, <2>1, <2>6, <3>2, StackedNext
  <2>10. ReplacementInv'
    BY <1>1, <2>1 DEF ReplacementInv, EncodesWithin, repl_depth, nsegs
  <2>11. ~ Looping(f)
    BY <2>4 DEF Looping
  <2>12. OutInv' /\ LayoutInv'
    <3>1. /\ OpenAfter(out, Len(out)) = 0 /\ \A n \in 0 .. Len(out) : OpenAfter(out, n) < call.depth
          /\ call.pretty => indent = 0
          /\ Laid(out) /\ ~ (out # << >> /\ out[Len(out)][1] = "newline")
      BY <1>1 DEF SpliceInv, OutInv, LayoutInv
    <3>2. top' = f
      BY <2>6 DEF top
    <3>3. Laid(out)'
      BY <1>1, <3>1 DEF Laid
    <3> QED BY <1>1, <2>6, <2>11, <3>1, <3>2, <3>3 DEF OutInv, LayoutInv, Looping, Spread
  <2>13. PlanSettlesTheTarget' /\ (pc = "done" => stack = << >>)'
    BY <2>1 DEF PlanSettlesTheTarget
  <2> QED BY <2>7, <2>8, <2>9, <2>10, <2>12, <2>13 DEF SpliceInv
<1> QED BY <1>3, <1>4

\* What is known of the top frame while the writer runs.
LEMMA AtTop ==
  ASSUME SpliceInv, pc = "write", stack # << >>
  PROVE  /\ stack \in Seq(Frame) /\ Stacked(stack) /\ Len(stack) \in Nat /\ Len(stack) > 0
         /\ top \in Frame /\ FrameInv(top, Len(stack) - 1)
         /\ call.op = "set" /\ nsegs < call.depth
         /\ out \in Seq(Token) /\ indent \in Int /\ TextInv(out, stack, indent)
<1>1. stack \in Seq(Frame) /\ Stacked(stack)
  BY StackedStack
<1>2. Len(stack) \in Nat /\ Len(stack) > 0 /\ top = stack[1] /\ 1 \in 1 .. Len(stack)
      /\ stack[1] \in Frame
  BY <1>1 DEF top
<1>3. FrameInv(stack[1], Len(stack) - 1)
  BY <1>1, <1>2 DEF Stacked
<1>4. call.op = "set" /\ nsegs < call.depth
  BY DEF SpliceInv, StackInv, PlanInv
<1>5. out \in Seq(Token) /\ indent \in Int
  BY DEF SpliceInv, SpliceType
<1>6. TextInv(out, stack, indent)
  BY TextOfOut DEF SpliceInv
<1> QED BY <1>1, <1>2, <1>3, <1>4, <1>5, <1>6

\* A failure of the writer that is no verdict on the target.
LEMMA FailStep ==
  ASSUME SpliceInv, pc = "write", pc' = "failed",
         UNCHANGED <<call, i, current, stack, out, indent>>,
         status' \notin {"SETTABLE_FAIL", "AMBIGUOUS"}
  PROVE  SpliceInv'
<1>1. /\ call.op = "set" => nsegs < call.depth
      /\ call.op = "set" /\ i < nsegs => current.t = "obj" /\ Hits(call, i + 1) = {}
  BY DEF SpliceInv, PlanInv
<1> QED BY <1>1, OnlyTheVerdict

\* The plan and the writer look the same nodes up: each is a container, an
\* object if the member is missing, and the member is unique.
LEMMA PlanHolds ==
  ASSUME SpliceInv, pc = "write", NEW n \in 1 .. nsegs, n <= i + 1
  PROVE  /\ IsCtn(Reached(call)[n - 1])
         /\ Hits(call, n) = {} => Reached(call)[n - 1].t = "obj"
         /\ \A p, q \in Hits(call, n) : p = q
         /\ Hits(call, n) # {} => n <= i
         /\ Reached(call)[n - 1] \in Nodes
<1>1. /\ call \in Calls /\ nsegs \in Nat /\ i \in 0 .. nsegs /\ call.segs[n] \in Segment
  BY CallTyped DEF SpliceInv, SpliceType
<1>2. /\ current = Reached(call)[i]
      /\ \A k \in 1 .. i : Cardinality(Hits(call, k)) = 1
      /\ i < nsegs => current.t = "obj" /\ Hits(call, i + 1) = {}
  BY DEF SpliceInv, StackInv, PlanInv
<1>3. Reached(call)[n - 1] \in Nodes
  <2>1. n - 1 \in 0 .. nsegs
    BY <1>1
  <2> QED BY <1>1, <2>1, ReachedStep DEF nsegs
<1>4. IsFiniteSet(Hits(call, n)) /\ (Hits(call, n) # {} => IsCtn(Reached(call)[n - 1]))
  BY <1>1, <1>3, SelectedTyped DEF Hits
<1>5. CASE n <= i
  <2>1. Cardinality(Hits(call, n)) = 1
    BY <1>1, <1>2, <1>5
  <2>2. Hits(call, n) = {TheOne(Hits(call, n))}
    BY <1>4, <2>1, TheOneIs
  <2>3. Hits(call, n) # {} /\ \A p, q \in Hits(call, n) : p = q
    BY <2>2, Zenon
  <2> QED BY <1>3, <1>4, <1>5, <2>3
<1>6. CASE n = i + 1
  <2>1. i < nsegs /\ n - 1 = i
    BY <1>1, <1>6
  <2>2. Reached(call)[n - 1].t = "obj" /\ Hits(call, n) = {}
    BY <1>2, <1>6, <2>1
  <2>3. IsCtn(Reached(call)[n - 1])
    BY <2>2 DEF IsCtn
  <2> QED BY <1>3, <2>2, <2>3
<1> QED BY <1>1, <1>5, <1>6

\* A frame that writes its piece and returns.
LEMMA ReturnStep ==
  ASSUME SpliceInv, pc = "write", stack # << >>, ~ Looping(top),
         NEW b \in Seq(Token), Follows(out, b), OpenAfter(b, Len(b)) = 0,
         b # << >>, ~ Ends(b, "newline"), Returns(b)
  PROVE  SpliceInv'
<1>1. /\ stack \in Seq(Frame) /\ Stacked(stack) /\ Len(stack) \in Nat /\ Len(stack) > 0
      /\ call.op = "set" /\ out \in Seq(Token) /\ indent \in Int /\ TextInv(out, stack, indent)
  BY AtTop
<1>2. out' = out \o b /\ stack' = Tail(stack) /\ UNCHANGED <<call, pc, i, current, indent, status>>
  BY DEF Returns
<1> DEFINE o == out \o b
           s == Tail(stack)
           L == Len(stack)
<1>3. /\ OpenAfter(out, Len(out)) = L - 1 /\ Laid(out)
      /\ \A n \in 0 .. Len(out) : OpenAfter(out, n) < call.depth
      /\ call.pretty => indent = L - 1
  BY <1>1 DEF TextInv, top
<1>4. call.depth \in Int
  BY CallTyped DEF SpliceInv
<1>5. /\ o \in Seq(Token) /\ \A n \in 0 .. Len(o) : OpenAfter(o, n) < call.depth
      /\ OpenAfter(o, Len(o)) = OpenAfter(out, Len(out)) + OpenAfter(b, Len(b))
      /\ Laid(o) /\ o # << >> /\ o[Len(o)] = b[Len(b)]
  BY <1>1, <1>3, <1>4, TextConcat
<1>6. /\ Stacked(s) /\ s \in Seq(Frame) /\ Len(s) = L - 1
      /\ s # << >> => Looping(Head(s)) /\ Spread(Head(s))
  BY <1>1, PopStacked
<1>7. ~ Ends(o, "newline")
  BY <1>5 DEF Ends
<1>8. L \in Nat
  BY <1>1
<1> HIDE DEF o, s, L
<1>9. OpenAfter(o, Len(o)) = L - 1
  BY <1>3, <1>5, <1>8
<1>10. TextInv(o, s, indent)
  BY <1>3, <1>5, <1>6, <1>7, <1>8, <1>9 DEF TextInv
<1>11. out' = o /\ stack' = s /\ indent' = indent
  BY <1>2 DEF o, s
<1> QED BY <1>1, <1>2, <1>5, <1>6, <1>10, <1>11, WriterGoesOn

\* A frame that opens its container.
LEMMA OpenStepOf ==
  ASSUME SpliceInv, pc = "write", stack # << >>, ~ Looping(top), top.fn # "loop",
         NEW fn \in {"loop", "build"}, NEW node \in Nodes \cup {EmptyObj}, NEW seg \in Nat,
         top.rem > 1, FrameInv(FrameOf(fn, node, seg, top.rem), Len(stack) - 1),
         OpensLoop(fn, node, seg, top.rem)
  PROVE  SpliceInv'
<1> DEFINE f == FrameOf(fn, node, seg, top.rem)
           b == <<OpenTok(node)>>
           o == out \o b
           s == <<f>> \o Tail(stack)
           L == Len(stack)
<1>1. /\ stack \in Seq(Frame) /\ Stacked(stack) /\ L \in Nat /\ L > 0
      /\ top \in Frame /\ FrameInv(top, L - 1)
      /\ call.op = "set" /\ out \in Seq(Token) /\ indent \in Int /\ TextInv(out, stack, indent)
  BY AtTop
<1>2. top.rem \in Int /\ top.rem = call.depth - (L - 1)
  BY <1>1 DEF Frame, FrameInv
<1>3. IsNew(f, fn, node, seg, top.rem)
  BY <1>2, NewFrame
<1>4. /\ OpenAfter(out, Len(out)) = L - 1 /\ Laid(out)
      /\ \A n \in 0 .. Len(out) : OpenAfter(out, n) < call.depth
      /\ call.pretty => indent = L - 1
      /\ Ends(out, "newline") => out[Len(out)][2] = OpenAfter(out, Len(out))
  BY <1>1 DEF TextInv, top
<1>5. call.depth \in Int /\ call.pretty \in BOOLEAN
  BY CallTyped DEF SpliceInv
<1>6. OpenAfter(out, Len(out)) + 1 < call.depth
  BY <1>1, <1>2, <1>4, <1>5
<1>7. b \in Seq(Token) /\ Follows(out, b) /\ OpenAfter(b, Len(b)) = 1 /\ b # << >> /\ ~ Ends(b, "newline")
  BY <1>1, <1>4, <1>5, <1>6, OpenFollows
<1>8. out' = o
  <2>1. Append(out, OpenTok(node)) = out \o <<OpenTok(node)>>
    <3>1. OpenTok(node) \in Token
      BY BracketPieces
    <3>2. ASSUME NEW t \in Token PROVE Append(out, t) = out \o <<t>>
      BY <1>1
    <3> QED BY <3>1, <3>2
  <2> QED BY <2>1 DEF OpensLoop
<1>9. /\ stack' = s /\ UNCHANGED <<call, pc, i, current, status>>
      /\ indent' = IF call.pretty /\ (seg = 0 => node.kids # << >>) THEN indent + 1 ELSE indent
  BY DEF OpensLoop
<1>10. Looping(f) /\ (Spread(f) <=> (seg = 0 => node.kids # << >>)) /\ f \in Frame
  <2> HIDE DEF f
  <2> QED BY <1>3 DEF IsNew, Looping, Spread
<1> HIDE DEF f, b
<1>11. /\ o \in Seq(Token) /\ \A n \in 0 .. Len(o) : OpenAfter(o, n) < call.depth
       /\ OpenAfter(o, Len(o)) = OpenAfter(out, Len(out)) + OpenAfter(b, Len(b))
       /\ Laid(o) /\ o # << >> /\ o[Len(o)] = b[Len(b)]
  BY <1>1, <1>4, <1>5, <1>7, TextConcat
<1>12. FrameInv(f, Len(stack) - 1)
  BY DEF f
<1>13. Stacked(s) /\ s \in Seq(Frame) /\ Len(s) = L /\ s # << >> /\ Head(s) = f
  BY <1>1, <1>10, <1>12, ReplaceStacked
<1>14. ~ Ends(o, "newline")
  BY <1>7, <1>11 DEF Ends
<1> HIDE DEF o, s, L
<1>15. OpenAfter(o, Len(o)) = L
  BY <1>1, <1>4, <1>7, <1>11
<1>16. indent' \in Int /\ (call.pretty => indent' = L - (IF Spread(f) THEN 0 ELSE 1))
  BY <1>1, <1>4, <1>9, <1>10
<1>17. TextInv(o, s, indent')
  BY <1>1, <1>10, <1>11, <1>13, <1>14, <1>15, <1>16 DEF TextInv
<1> QED BY <1>1, <1>8, <1>9, <1>11, <1>13, <1>16, <1>17, WriterGoesOn

\* A frame that turns into another one without writing.
LEMMA BecomeStep ==
  ASSUME SpliceInv, pc = "write", stack # << >>, ~ Looping(top),
         NEW f \in Frame, f.fn \in {"full", "repl"}, FrameInv(f, Len(stack) - 1),
         Becomes(f)
  PROVE  SpliceInv'
<1> DEFINE s == <<f>> \o Tail(stack)
           L == Len(stack)
<1>1. /\ stack \in Seq(Frame) /\ Stacked(stack) /\ L \in Nat /\ L > 0
      /\ call.op = "set" /\ out \in Seq(Token) /\ indent \in Int /\ TextInv(out, stack, indent)
  BY AtTop
<1>2. stack' = s /\ UNCHANGED <<call, pc, i, current, out, indent, status>>
  BY DEF Becomes
<1>3. Stacked(s) /\ s \in Seq(Frame) /\ Len(s) = L /\ s # << >> /\ Head(s) = f
  BY <1>1, ReplaceStacked
<1>4. ~ Looping(f)
  BY DEF Looping
<1> HIDE DEF s, L
<1>5. TextInv(out, s, indent)
  BY <1>1, <1>3, <1>4 DEF TextInv, top, L
<1>6. out' = out /\ indent' = indent
  BY <1>2
<1> QED BY <1>1, <1>2, <1>3, <1>5, <1>6, WriterGoesOn

\* The frame of a loop, moved on to its next member.
Moved == [top EXCEPT !.pos = @ + 1, !.matched = @ \/ IsTarget \/ ~HasMember]

\* The members of the node a loop stands at.
LEMMA LoopFrame ==
  ASSUME SpliceInv, InLoop
  PROVE  /\ pc = "write" /\ stack # << >> /\ top \in Frame /\ Looping(top)
         /\ top.val \in Nodes \cup {EmptyObj} /\ IsCtn(top.val) /\ top.rem > 1
         /\ top.rem = call.depth - (Len(stack) - 1) /\ Len(stack) \in Nat /\ top.rem \in Int
         /\ top.val.kids \in Seq([k : Keys, v : Nodes]) /\ Len(top.val.kids) \in Nat
         /\ top.pos \in Nat /\ top.pos > 0 /\ top.seg \in Nat /\ top.matched \in BOOLEAN
         /\ HasMember => Member.k \in Keys /\ Member.v \in Nodes /\ top.fn = "loop"
         /\ OnPath => /\ top.seg \in 1 .. nsegs /\ top.seg = Len(stack)
                      /\ top.fn = "loop" => /\ top.seg <= i + 1 /\ top.val = Reached(call)[top.seg - 1]
                                            /\ Selected(top.val, call.segs[top.seg], FALSE) = Hits(call, top.seg)
<1>1. pc = "write" /\ stack # << >> /\ top.fn \in {"loop", "build"}
  BY DEF InLoop, Writing
<1>2. top \in Frame /\ FrameInv(top, Len(stack) - 1) /\ Len(stack) \in Nat
  BY <1>1, AtTop
<1>3. Looping(top)
  BY <1>1 DEF Looping
<1>4. /\ top.val \in Nodes \cup {EmptyObj} /\ top.pos \in Nat /\ top.pos > 0 /\ top.seg \in Nat
      /\ top.rem \in Int
  BY <1>2 DEF Frame
<1>4a. top.matched \in BOOLEAN
  BY <1>2 DEF Frame
<1>5. /\ top.rem = call.depth - (Len(stack) - 1) /\ top.rem > 1 /\ IsCtn(top.val)
      /\ top.fn = "build" => top.val = EmptyObj /\ top.seg = (Len(stack) - 1) + 1 /\ top.seg <= nsegs
      /\ top.fn = "loop" /\ top.seg > 0 =>
           /\ top.seg = (Len(stack) - 1) + 1 /\ top.seg <= nsegs /\ top.seg <= i + 1
           /\ top.val = Reached(call)[top.seg - 1]
  BY <1>2, <1>3 DEF FrameInv
<1>6. top.val.kids \in Seq([k : Keys, v : Nodes])
  BY <1>4, ShapeOfNodes DEF NodeShape
<1>7. Len(top.val.kids) \in Nat
  BY <1>6
<1>8. ASSUME HasMember PROVE Member.k \in Keys /\ Member.v \in Nodes /\ top.fn = "loop"
  <2>1. top.pos \in 1 .. Len(top.val.kids)
    BY <1>4, <1>7, <1>8 DEF HasMember
  <2>2. Member \in [k : Keys, v : Nodes]
    BY <1>6, <2>1, ElementOfSeq, Zenon DEF Member
  <2>3. ASSUME top.fn = "build" PROVE FALSE
    <3>1. EmptyObj.kids = << >>
      BY Zenon DEF EmptyObj
    <3>2. top.val.kids = << >>
      BY <1>5, <2>3, <3>1
    <3> QED BY <2>1, <3>2
  <2> QED BY <1>1, <2>2, <2>3
<1>9. ASSUME OnPath
      PROVE  /\ top.seg \in 1 .. nsegs /\ top.seg = Len(stack)
             /\ top.fn = "loop" => /\ top.seg <= i + 1 /\ top.val = Reached(call)[top.seg - 1]
                                   /\ Selected(top.val, call.segs[top.seg], FALSE) = Hits(call, top.seg)
  <2>1. top.seg > 0
    BY <1>9 DEF OnPath
  <2>2. nsegs \in Nat
    BY CallTyped DEF SpliceInv
  <2>3. top.seg \in 1 .. nsegs /\ top.seg = Len(stack)
    BY <1>1, <1>2, <1>4, <1>5, <2>1, <2>2
  <2>4. top.fn = "loop" => top.seg <= i + 1 /\ top.val = Reached(call)[top.seg - 1]
    BY <1>5, <2>1
  <2> QED BY <2>3, <2>4 DEF Hits
<1> QED BY <1>1, <1>2, <1>3, <1>4, <1>4a, <1>5, <1>6, <1>7, <1>8, <1>9

LEMMA MovedOn ==
  ASSUME SpliceInv, InLoop, Spread(top)
  PROVE  Moved \in Frame /\ FrameInv(Moved, Len(stack) - 1) /\ Looping(Moved) /\ Spread(Moved)
<1> DEFINE g == Moved
           m == top.matched \/ IsTarget \/ ~HasMember
<1>1. /\ top \in Frame /\ Looping(top) /\ FrameInv(top, Len(stack) - 1)
      /\ top.pos \in Nat /\ top.pos > 0 /\ Len(top.val.kids) \in Nat
  BY LoopFrame, AtTop
<1>2. /\ g.fn = top.fn /\ g.val = top.val /\ g.seg = top.seg /\ g.rem = top.rem
      /\ g.pos = top.pos + 1 /\ g.matched = m
  BY <1>1 DEF Moved, Frame
<1>3. g \in Frame
  <2>1. top.pos + 1 \in Nat \ {0} /\ m \in BOOLEAN
    BY <1>1
  <2>2. g = [top EXCEPT !.pos = top.pos + 1, !.matched = m]
    BY DEF Moved
  <2> HIDE DEF m, g
  <2> QED BY <1>1, <2>1, <2>2 DEF Frame
<1> HIDE DEF g
<1>4. ASSUME top.fn = "loop", top.seg > 0, m
      PROVE  top.pos + 1 > Len(top.val.kids) \/ \E p \in Hits(call, top.seg) : p < top.pos + 1
  <2>1. CASE top.matched
    <3>1. top.pos > Len(top.val.kids) \/ \E p \in Hits(call, top.seg) : p < top.pos
      BY <1>1, <1>4, <2>1 DEF FrameInv
    <3>2. CASE top.pos > Len(top.val.kids)
      BY <1>1, <3>2
    <3>3. CASE \E p \in Hits(call, top.seg) : p < top.pos
      <4>1. PICK p \in Hits(call, top.seg) : p < top.pos
        BY <3>3
      <4>2. p \in Int
        <5>0. OnPath
          BY <1>4 DEF OnPath
        <5>1. /\ Selected(top.val, call.segs[top.seg], FALSE) = Hits(call, top.seg)
              /\ top.seg \in 1 .. nsegs /\ top.val \in Nodes \cup {EmptyObj}
          BY <1>4, <5>0, LoopFrame
        <5>2. call.segs[top.seg] \in Segment
          BY <5>1, CallTyped DEF SpliceInv
        <5>3. Hits(call, top.seg) \subseteq 1 .. Len(top.val.kids)
          BY <5>1, <5>2, SelectedTyped
        <5> QED BY <1>1, <4>1, <5>3
      <4>3. p < top.pos + 1
        BY <1>1, <4>1, <4>2
      <4> QED BY <4>3
    <3> QED BY <3>1, <3>2, <3>3
  <2>2. CASE IsTarget
    <3>1. top.pos \in Hits(call, top.seg)
      BY <1>4, <2>2, LoopFrame DEF IsTarget
    <3>2. top.pos < top.pos + 1
      BY <1>1
    <3> QED BY <3>1, <3>2
  <2>3. CASE ~ HasMember
    BY <1>1, <2>3 DEF HasMember
  <2> QED BY <1>4, <2>1, <2>2, <2>3
<1> HIDE DEF m
<1>5. FrameInv(g, Len(stack) - 1)
  BY <1>1, <1>2, <1>4 DEF FrameInv, Looping
<1>6. Looping(g) /\ Spread(g)
  BY <1>1, <1>2 DEF Looping, Spread
<1> QED BY <1>3, <1>5, <1>6 DEF g

\* A loop that writes what stands before a member and calls for its value.
LEMMA LoopCallsStep ==
  ASSUME SpliceInv, InLoop, Spread(top), NEW key \in Keys,
         NEW f \in Frame, f.fn \in {"full", "at", "repl", "suffix"}, FrameInv(f, Len(stack)),
         f.fn = "suffix" => top.val.t = "obj",
         LoopCalls(key, f)
  PROVE  SpliceInv'
<1> DEFINE b == Prefix(key)
           o == out \o b
           g == Moved
           s == <<f, g>> \o Tail(stack)
           L == Len(stack)
<1>1. /\ pc = "write" /\ stack # << >> /\ Looping(top)
      /\ top.fn \in {"loop", "build"}
  BY LoopFrame DEF Looping
<1>2. /\ stack \in Seq(Frame) /\ Stacked(stack) /\ L \in Nat /\ L > 0
      /\ call.op = "set" /\ out \in Seq(Token) /\ indent \in Int /\ TextInv(out, stack, indent)
  BY <1>1, AtTop
<1>3. g \in Frame /\ FrameInv(g, L - 1) /\ Looping(g) /\ Spread(g)
  BY MovedOn
<1>4. out' = o /\ stack' = s /\ UNCHANGED <<call, pc, i, current, indent, status>>
  BY DEF LoopCalls, Moved
<1>5. call.depth \in Int /\ call.pretty \in BOOLEAN
  BY CallTyped DEF SpliceInv
<1>6. Plain(b, indent) /\ (top.val.t = "obj" => ~ Ends(b, "newline"))
  BY <1>2, <1>5, PrefixPlain
<1> HIDE DEF b, g
<1>7. /\ OpenAfter(out, Len(out)) = L /\ Laid(out)
      /\ \A n \in 0 .. Len(out) : OpenAfter(out, n) < call.depth
      /\ call.pretty => indent = L
      /\ ~ Ends(out, "newline")
  BY <1>1, <1>2 DEF TextInv, top
<1>8. Plain(b, OpenAfter(out, Len(out)))
  BY <1>6, <1>7 DEF Plain
<1>9. OpenAfter(out, Len(out)) < call.depth
  <2>1. Len(out) \in 0 .. Len(out)
    BY <1>2
  <2> QED BY <1>7, <2>1
<1>10. Follows(out, b) /\ OpenAfter(b, Len(b)) = 0 /\ b \in Seq(Token)
  BY <1>2, <1>5, <1>7, <1>8, <1>9, PlainFollows DEF Plain
<1>11. /\ o \in Seq(Token) /\ \A n \in 0 .. Len(o) : OpenAfter(o, n) < call.depth
       /\ OpenAfter(o, Len(o)) = OpenAfter(out, Len(out)) + OpenAfter(b, Len(b))
       /\ Laid(o) /\ (b # << >> => o # << >> /\ o[Len(o)] = b[Len(b)])
  BY <1>2, <1>5, <1>7, <1>10, TextConcat
<1>12. Stacked(s) /\ s \in Seq(Frame) /\ Len(s) = L + 1 /\ s # << >> /\ Head(s) = f
  BY <1>2, <1>3, PushStacked
<1>13. ASSUME Ends(o, "newline")
       PROVE  o[Len(o)][2] = L /\ f.fn \in {"full", "at", "repl"}
  <2>1. b # << >>
    <3>1. b = << >> => o = out
      BY <1>2
    <3> QED BY <1>7, <1>13, <3>1
  <2>2. o[Len(o)] = b[Len(b)] /\ Ends(b, "newline")
    BY <1>11, <1>13, <2>1 DEF Ends
  <2>3. Len(b) \in 1 .. Len(b)
    BY <1>10, <2>1
  <2>4. b[Len(b)][2] = OpenAfter(out, Len(out))
    BY <1>8, <2>2, <2>3 DEF Plain, Ends
  <2>5. f.fn # "suffix"
    BY <1>6, <2>2
  <2> QED BY <1>7, <2>2, <2>4, <2>5
<1>14. ~ Looping(f)
  BY DEF Looping
<1> HIDE DEF o, s, L
<1>15. OpenAfter(o, Len(o)) = L
  BY <1>2, <1>7, <1>10, <1>11
<1>16. TextInv(o, s, indent)
  BY <1>2, <1>7, <1>11, <1>12, <1>13, <1>14, <1>15 DEF TextInv
<1>17. indent' = indent
  BY <1>4
<1> QED BY <1>1, <1>2, <1>4, <1>11, <1>12, <1>16, <1>17, WriterGoesOn

\* A loop that writes its closing bracket.
LEMMA LoopClosesStep ==
  ASSUME SpliceInv, LoopCloses
  PROVE  SpliceInv'
<1> DEFINE spread == call.pretty /\ (OnPath \/ top.val.kids # << >>)
           b == Closes(top.val, spread)
           o == out \o b
           s == Tail(stack)
           L == Len(stack)
<1>0. InLoop
  BY DEF LoopCloses
<1>1. pc = "write" /\ stack # << >> /\ Looping(top) /\ top.fn \in {"loop", "build"}
  BY <1>0, LoopFrame DEF Looping
<1>2. /\ stack \in Seq(Frame) /\ Stacked(stack) /\ L \in Nat /\ L > 0
      /\ call.op = "set" /\ out \in Seq(Token) /\ indent \in Int /\ TextInv(out, stack, indent)
  BY <1>1, AtTop
<1>3. call.depth \in Int /\ call.pretty \in BOOLEAN
  BY CallTyped DEF SpliceInv
<1>4. spread \in BOOLEAN /\ (spread <=> call.pretty /\ Spread(top))
  BY DEF Spread, OnPath
<1>5. /\ stack' = s /\ UNCHANGED <<call, pc, i, current, status>>
      /\ indent' = IF spread THEN indent - 1 ELSE indent
      /\ out' = out \o (IF spread THEN Newline(indent - 1) ELSE << >>) \o <<CloseTok(top.val)>>
  BY DEF LoopCloses
<1>6. /\ OpenAfter(out, Len(out)) = L /\ Laid(out)
      /\ \A n \in 0 .. Len(out) : OpenAfter(out, n) < call.depth
      /\ call.pretty => indent = L - (IF Spread(top) THEN 0 ELSE 1)
      /\ ~ Ends(out, "newline")
  BY <1>1, <1>2 DEF TextInv, top
<1>7. OpenAfter(out, Len(out)) < call.depth
  <2>1. Len(out) \in 0 .. Len(out)
    BY <1>2
  <2> QED BY <1>6, <2>1
<1> HIDE DEF spread
<1>8. call.pretty /\ spread => indent = OpenAfter(out, Len(out))
  BY <1>2, <1>4, <1>6
<1>9. b \in Seq(Token) /\ Follows(out, b) /\ OpenAfter(b, Len(b)) = -1 /\ b # << >> /\ ~ Ends(b, "newline")
  BY <1>2, <1>3, <1>4, <1>6, <1>7, <1>8, CloseFollows
<1>10. out' = o
  <2> DEFINE nl == IF spread THEN Newline(indent - 1) ELSE << >>
             c == <<CloseTok(top.val)>>
  <2>1. nl \in Seq(Token)
    <3>1. "newline" \in Pieces /\ indent - 1 \in Int
      BY <1>2 DEF Pieces, Layout
    <3>2. <<"newline", indent - 1>> \in Token
      BY <3>1, TokTyped
    <3>3. Newline(indent - 1) \in Seq(Token)
      BY <3>2 DEF Newline
    <3> QED BY <3>3
  <2>2. c \in Seq(Token)
    <3>1. CloseTok(top.val) \in Token
      BY BracketPieces
    <3>2. ASSUME NEW t \in Token PROVE <<t>> \in Seq(Token)
      OBVIOUS
    <3> QED BY <3>1, <3>2
  <2>3. b = nl \o c /\ out' = (out \o nl) \o c
    BY <1>5 DEF Closes
  <2> HIDE DEF nl, c, b
  <2>4. (out \o nl) \o c = out \o (nl \o c)
    BY <1>2, <2>1, <2>2, ConcatAssociative
  <2> QED BY <2>3, <2>4
<1> HIDE DEF b
<1>11. /\ o \in Seq(Token) /\ \A n \in 0 .. Len(o) : OpenAfter(o, n) < call.depth
       /\ OpenAfter(o, Len(o)) = OpenAfter(out, Len(out)) + OpenAfter(b, Len(b))
       /\ Laid(o) /\ o # << >> /\ o[Len(o)] = b[Len(b)]
  BY <1>2, <1>3, <1>6, <1>9, TextConcat
<1>12. /\ Stacked(s) /\ s \in Seq(Frame) /\ Len(s) = L - 1
       /\ s # << >> => Looping(Head(s)) /\ Spread(Head(s))
  BY <1>1, <1>2, PopStacked
<1>13. ~ Ends(o, "newline")
  BY <1>9, <1>11 DEF Ends
<1> HIDE DEF o, s, L
<1>14. OpenAfter(o, Len(o)) = L - 1
  BY <1>2, <1>6, <1>9, <1>11
<1>15. indent' \in Int /\ (call.pretty => indent' = L - 1)
  BY <1>2, <1>4, <1>5, <1>6
<1>16. TextInv(o, s, indent')
  BY <1>2, <1>11, <1>12, <1>13, <1>14, <1>15 DEF TextInv
<1> QED BY <1>1, <1>2, <1>5, <1>10, <1>11, <1>12, <1>15, <1>16, WriterGoesOn

\* The scalar, the container and the failures of fj_splice_write_full.
LEMMA WriteScalarStep ==
  ASSUME SpliceInv, WriteScalar
  PROVE  SpliceInv'
<1> DEFINE b == <<Tok(top.val.tok)>>
<1>1. /\ pc = "write" /\ stack # << >> /\ top.fn = "full" /\ ~ IsCtn(top.val) /\ Returns(b)
  BY DEF WriteScalar, Writing
<1>2. /\ stack \in Seq(Frame) /\ top \in Frame
      /\ out \in Seq(Token) /\ TextInv(out, stack, indent)
  BY <1>1, AtTop
<1>3. top.val \in Nodes
  <2>1. top.val \in Nodes \cup {EmptyObj}
    BY <1>2 DEF Frame
  <2>2. EmptyObj.t = "obj"
    BY Zenon DEF EmptyObj
  <2> QED BY <1>1, <2>1, <2>2 DEF IsCtn
<1>4. top.val.tok \in Pieces /\ top.val.tok \notin Layout
  BY <1>3, NodesAssumption DEF Pieces, NodeShape
<1>5. Tok(top.val.tok) \in Token /\ Tok(top.val.tok)[1] # "newline"
  BY <1>4, TokTyped DEF Layout
<1>6. Plain(b, OpenAfter(out, Len(out)))
  BY <1>4, TokPlain
<1>7. b \in Seq(Token) /\ b # << >> /\ ~ Ends(b, "newline")
  <2> DEFINE t == Tok(top.val.tok)
  <2>1. t \in Token /\ t[1] # "newline"
    BY <1>5
  <2> HIDE DEF t
  <2>2. <<t>> \in Seq(Token) /\ <<t>> # << >> /\ ~ Ends(<<t>>, "newline")
    BY <2>1 DEF Ends
  <2> QED BY <2>2 DEF t
<1> HIDE DEF b
<1>8. /\ OpenAfter(out, Len(out)) < call.depth
      /\ Ends(out, "newline") => out[Len(out)][2] = OpenAfter(out, Len(out))
  <2>1. Len(out) \in 0 .. Len(out)
    BY <1>2
  <2> QED BY <1>2, <2>1 DEF TextInv
<1>9. call.depth \in Int
  BY CallTyped DEF SpliceInv
<1>10. Follows(out, b) /\ OpenAfter(b, Len(b)) = 0
  BY <1>2, <1>6, <1>8, <1>9, PlainFollows
<1>11. ~ Looping(top)
  BY <1>1 DEF Looping
<1> QED BY <1>1, <1>7, <1>10, <1>11, ReturnStep

LEMMA WriteContainerStep ==
  ASSUME SpliceInv, WriteContainer
  PROVE  SpliceInv'
<1> DEFINE f == FrameOf("loop", top.val, 0, top.rem)
<1>1. /\ pc = "write" /\ stack # << >> /\ top.fn = "full" /\ top.rem > 1 /\ IsCtn(top.val)
      /\ OpensLoop("loop", top.val, 0, top.rem)
  BY DEF WriteContainer, Writing
<1>2. top \in Frame /\ FrameInv(top, Len(stack) - 1)
  BY <1>1, AtTop
<1>3. top.val \in Nodes \cup {EmptyObj} /\ top.rem \in Int /\ 0 \in Nat
  BY <1>2 DEF Frame
<1>4. IsNew(f, "loop", top.val, 0, top.rem)
  BY <1>3, NewFrame, Zenon
<1> HIDE DEF f
<1>5. FrameInv(f, Len(stack) - 1)
  BY <1>1, <1>2, <1>4 DEF IsNew, FrameInv, Looping
<1>6. ~ Looping(top) /\ top.fn # "loop"
  BY <1>1 DEF Looping
<1> QED BY <1>1, <1>3, <1>5, <1>6, OpenStepOf DEF f

LEMMA WriteFullFails ==
  ASSUME SpliceInv, WriteFullTooDeep \/ WriteBadScalar
  PROVE  SpliceInv'
<1>1. /\ pc = "write" /\ pc' = "failed" /\ UNCHANGED <<call, i, current, stack, out, indent>>
      /\ status' \in {"DEPTH_FAIL", "INF_OR_NAN", "INVALID_UTF8"}
  BY DEF WriteFullTooDeep, WriteBadScalar, Writing, Fail, End
<1> QED BY <1>1, FailStep

\* fj_splice_write_at finds what the plan found.
LEMMA WriteAtStep ==
  ASSUME SpliceInv, WriteAt
  PROVE  SpliceInv'
<1> DEFINE f == FrameOf("loop", top.val, top.seg, top.rem)
<1>1. pc = "write" /\ stack # << >> /\ top.fn = "at"
  BY DEF WriteAt, Writing
<1>2. top \in Frame /\ FrameInv(top, Len(stack) - 1) /\ Len(stack) \in Nat /\ Len(stack) > 0
  BY <1>1, AtTop
<1>3. /\ top.val \in Nodes \cup {EmptyObj} /\ top.rem \in Int /\ top.seg \in Nat
  BY <1>2 DEF Frame
<1>4. /\ top.seg = (Len(stack) - 1) + 1 /\ top.seg <= nsegs /\ top.seg <= i + 1
      /\ top.val = Reached(call)[top.seg - 1] /\ top.rem = call.depth - (Len(stack) - 1)
  BY <1>1, <1>2 DEF FrameInv
<1>5. top.seg \in 1 .. nsegs
  <2>1. nsegs \in Nat
    BY CallTyped DEF SpliceInv
  <2> QED BY <1>2, <1>4, <2>1
<1>6. IsCtn(top.val) /\ (Hits(call, top.seg) = {} => top.val.t = "obj")
  BY <1>1, <1>4, <1>5, PlanHolds
<1>7. ~ Unsettable
  <2>1. Selected(top.val, call.segs[top.seg], FALSE) = Hits(call, top.seg)
    BY <1>4 DEF Hits
  <2> QED BY <1>6, <2>1 DEF Unsettable
<1>8. CASE top.rem <= 1
  <2>1. /\ pc' = "failed" /\ UNCHANGED <<call, i, current, stack, out, indent>>
        /\ status' = "DEPTH_FAIL"
    BY <1>8 DEF WriteAt, Fail, End
  <2> QED BY <1>1, <2>1, FailStep
<1>9. CASE ~ (top.rem <= 1)
  <2>1. OpensLoop("loop", top.val, top.seg, top.rem) /\ top.rem > 1
    BY <1>3, <1>7, <1>9 DEF WriteAt
  <2>2. IsNew(f, "loop", top.val, top.seg, top.rem)
    BY <1>3, NewFrame, Zenon
  <2> HIDE DEF f
  <2>3. FrameInv(f, Len(stack) - 1)
    BY <1>2, <1>4, <1>6, <2>1, <2>2 DEF IsNew, FrameInv, Looping
  <2>4. ~ Looping(top) /\ top.fn # "loop"
    BY <1>1 DEF Looping
  <2> QED BY <1>1, <1>3, <2>1, <2>3, <2>4, OpenStepOf DEF f
<1> QED BY <1>8, <1>9

\* The members of the loops.
LEMMA LoopOtherStep ==
  ASSUME SpliceInv, LoopOther
  PROVE  SpliceInv'
<1> DEFINE f == FrameOf("full", Member.v, 0, top.rem - 1)
<1>1. InLoop /\ HasMember /\ LoopCalls(Member.k, f)
  BY DEF LoopOther
<1>2. /\ Member.k \in Keys /\ Member.v \in Nodes /\ Len(stack) \in Nat /\ top.rem \in Int
      /\ top.rem = call.depth - (Len(stack) - 1)
      /\ top.pos \in Nat /\ top.pos > 0 /\ top.val.kids \in Seq([k : Keys, v : Nodes])
  BY <1>1, LoopFrame
<1>3. Spread(top)
  <2>1. top.val.kids # << >>
    BY <1>1, <1>2 DEF HasMember
  <2> QED BY <2>1 DEF Spread
<1>4. Member.v \in Nodes \cup {EmptyObj} /\ top.rem - 1 \in Int /\ 0 \in Nat
  BY <1>2
<1>5. IsNew(f, "full", Member.v, 0, top.rem - 1)
  BY <1>4, NewFrame, Zenon
<1> HIDE DEF f
<1>6. call.depth \in Int
  BY CallTyped DEF SpliceInv
<1>7. top.rem - 1 = call.depth - Len(stack)
  BY <1>2, <1>6
<1>8. f \in Frame /\ f.fn = "full" /\ FrameInv(f, Len(stack))
  BY <1>5, <1>7 DEF IsNew, FrameInv, Looping
<1> QED BY <1>1, <1>2, <1>3, <1>8, LoopCallsStep

LEMMA LoopTargetStep ==
  ASSUME SpliceInv, LoopTarget
  PROVE  SpliceInv'
<1> DEFINE f == IF LastSeg THEN FrameOf("repl", EmptyObj, 0, top.rem - 1)
                ELSE FrameOf("at", Member.v, top.seg + 1, top.rem - 1)
           n == top.seg
<1>1. InLoop /\ HasMember /\ IsTarget /\ OnPath
  BY DEF LoopTarget, IsTarget
<1>2. /\ Member.k \in Keys /\ Member.v \in Nodes /\ Len(stack) \in Nat /\ top.rem \in Int
      /\ top.rem = call.depth - (Len(stack) - 1) /\ top.fn = "loop" /\ pc = "write" /\ stack # << >>
      /\ top.pos \in Nat /\ top.pos > 0 /\ top.val.kids \in Seq([k : Keys, v : Nodes])
      /\ n \in 1 .. nsegs /\ n = Len(stack) /\ n <= i + 1 /\ top.val = Reached(call)[n - 1]
      /\ Selected(top.val, call.segs[n], FALSE) = Hits(call, n)
  BY <1>1, LoopFrame
<1>3. Spread(top)
  <2>1. top.val.kids # << >>
    BY <1>1, <1>2 DEF HasMember
  <2> QED BY <2>1 DEF Spread
<1>4. top.pos \in Hits(call, n)
  BY <1>1, <1>2 DEF IsTarget
<1>5. n <= i /\ \A p, q \in Hits(call, n) : p = q
  BY <1>2, <1>4, PlanHolds
<1>6. ~ top.matched
  <2> SUFFICES ASSUME top.matched PROVE FALSE
    OBVIOUS
  <2>1. FrameInv(top, Len(stack) - 1) /\ top.seg > 0
    BY <1>1, <1>2, AtTop DEF OnPath
  <2>2. top.pos > Len(top.val.kids) \/ \E p \in Hits(call, n) : p < top.pos
    BY <1>2, <2>1 DEF FrameInv
  <2>3. ~ (top.pos > Len(top.val.kids))
    BY <1>1, <1>2 DEF HasMember
  <2>4. PICK p \in Hits(call, n) : p < top.pos
    BY <2>2, <2>3
  <2>5. p = top.pos
    BY <1>4, <1>5, <2>4
  <2> QED BY <1>2, <2>4, <2>5
<1>7. /\ call \in Calls /\ nsegs \in Nat /\ i \in 0 .. nsegs /\ call.segs[n] \in Segment
      /\ call.depth \in Int
  BY <1>2, CallTyped DEF SpliceInv, SpliceType
<1>8. Member.v = Reached(call)[n]
  <2>1. TheOne(Hits(call, n)) \in Hits(call, n)
    BY <1>4 DEF TheOne
  <2>2. TheOne(Hits(call, n)) = top.pos
    BY <1>4, <1>5, <2>1
  <2>3. Reached(call)[n] = Onward(Reached(call)[n - 1], call.segs[n])
    BY <1>2, <1>7, ReachedStep DEF nsegs
  <2>4. Onward(top.val, call.segs[n]) = top.val.kids[TheOne(Hits(call, n))].v
    BY <1>2, <1>4, Zenon DEF Onward
  <2> QED BY <1>2, <2>2, <2>3, <2>4 DEF Member
<1>9. ~ LastSeg => n + 1 \in 1 .. nsegs /\ n + 1 <= i + 1 /\ IsCtn(Member.v)
  <2>1. ~ LastSeg => n + 1 \in 1 .. nsegs /\ n + 1 <= i + 1 /\ (n + 1) - 1 = n
    BY <1>2, <1>5, <1>7 DEF LastSeg
  <2>2. ~ LastSeg => IsCtn(Reached(call)[(n + 1) - 1])
    BY <1>2, <2>1, PlanHolds
  <2> QED BY <1>8, <2>1, <2>2
<1>10. ~ Blocks(Member.v)
  BY <1>9 DEF Blocks
<1>11. LoopCalls(Member.k, f)
  BY <1>6, <1>10 DEF LoopTarget
<1>12. top.rem - 1 \in Int /\ top.rem - 1 = call.depth - Len(stack)
  BY <1>2, <1>7
<1>13. f \in Frame /\ f.fn \in {"at", "repl"} /\ FrameInv(f, Len(stack))
  <2>1. CASE LastSeg
    <3>1. EmptyObj \in Nodes \cup {EmptyObj} /\ 0 \in Nat
      OBVIOUS
    <3>2. IsNew(f, "repl", EmptyObj, 0, top.rem - 1)
      BY <1>12, <2>1, <3>1, NewFrame, Zenon
    <3> HIDE DEF f
    <3>3. Len(stack) = nsegs
      BY <1>2, <2>1 DEF LastSeg
    <3> QED BY <1>12, <3>2, <3>3 DEF IsNew, FrameInv, Looping
  <2>2. CASE ~ LastSeg
    <3>1. Member.v \in Nodes \cup {EmptyObj} /\ top.seg + 1 \in Nat
      BY <1>2, <1>7
    <3>2. IsNew(f, "at", Member.v, top.seg + 1, top.rem - 1)
      BY <1>12, <2>2, <3>1, NewFrame, Zenon
    <3>3. (n + 1) - 1 = n /\ n + 1 <= nsegs
      BY <1>2, <1>7, <1>9, <2>2
    <3> HIDE DEF f
    <3> QED BY <1>2, <1>8, <1>9, <1>12, <2>2, <3>2, <3>3 DEF IsNew, FrameInv, Looping
  <2> QED BY <2>1, <2>2
<1> HIDE DEF f
<1> QED BY <1>1, <1>2, <1>3, <1>11, <1>13, LoopCallsStep

\* The member that was missing.
LEMMA LoopAddStep ==
  ASSUME SpliceInv, LoopAdd
  PROVE  SpliceInv'
<1> DEFINE fn == IF LastSeg /\ top.fn = "loop" THEN "repl" ELSE "suffix"
           key == call.segs[top.seg].k
           f == FrameOf(fn, EmptyObj, top.seg, top.rem - 1)
<1>1. /\ InLoop /\ OnPath /\ top.val.t = "obj"
      /\ IF key \in BadKeys THEN Fail("INVALID_UTF8") ELSE LoopCalls(key, f)
  BY DEF LoopAdd, MustAdd
<1>2. /\ Len(stack) \in Nat /\ top.rem \in Int /\ top.seg \in Nat
      /\ top.rem = call.depth - (Len(stack) - 1) /\ pc = "write" /\ stack # << >>
      /\ top.seg \in 1 .. nsegs /\ top.seg = Len(stack)
  BY <1>1, LoopFrame
<1>3. key \in Keys /\ nsegs \in Nat /\ call.depth \in Int
  <2>1. call.segs[top.seg] \in Segment
    BY <1>2, CallTyped DEF SpliceInv
  <2> QED BY <2>1, CallTyped DEF SpliceInv, Segment
<1>4. CASE key \in BadKeys
  <2>1. /\ pc' = "failed" /\ UNCHANGED <<call, i, current, stack, out, indent>>
        /\ status' = "INVALID_UTF8"
    BY <1>1, <1>4 DEF Fail, End
  <2> QED BY <1>2, <2>1, FailStep
<1>5. CASE key \notin BadKeys
  <2>1. LoopCalls(key, f)
    BY <1>1, <1>5
  <2>2. EmptyObj \in Nodes \cup {EmptyObj} /\ top.rem - 1 \in Int
        /\ fn \in {"full", "at", "loop", "build", "suffix", "repl"}
    BY <1>2
  <2>3. fn \in {"repl", "suffix"} /\ (fn = "repl" => top.seg = nsegs)
    BY DEF LastSeg
  <2> HIDE DEF fn
  <2>4. IsNew(f, fn, EmptyObj, top.seg, top.rem - 1)
    BY <1>2, <2>2, NewFrame, Zenon
  <2> HIDE DEF f
  <2>5. top.rem - 1 = call.depth - Len(stack)
    BY <1>2, <1>3
  <2>6. f \in Frame /\ f.fn \in {"full", "at", "repl", "suffix"} /\ FrameInv(f, Len(stack))
    BY <1>2, <1>3, <2>3, <2>4, <2>5 DEF IsNew, FrameInv, Looping
  <2>7. Spread(top)
    BY <1>2 DEF Spread
  <2> HIDE DEF key
  <2> QED BY <1>1, <1>3, <2>1, <2>6, <2>7, LoopCallsStep
<1> QED BY <1>4, <1>5

LEMMA BuildSuffixStep ==
  ASSUME SpliceInv, BuildSuffix
  PROVE  SpliceInv'
<1>1. pc = "write" /\ stack # << >> /\ top.fn = "suffix"
  BY DEF BuildSuffix, Writing
<1>2. top \in Frame /\ FrameInv(top, Len(stack) - 1) /\ Len(stack) \in Nat /\ Len(stack) > 0
  BY <1>1, AtTop
<1>3. top.rem \in Int /\ top.seg \in Nat /\ EmptyObj \in Nodes \cup {EmptyObj} /\ 0 \in Nat
  BY <1>2 DEF Frame
<1>4. /\ top.seg = Len(stack) - 1 /\ 0 < top.seg /\ top.seg <= nsegs
      /\ top.rem = call.depth - (Len(stack) - 1)
  BY <1>1, <1>2 DEF FrameInv
<1>5. ~ Looping(top) /\ top.fn # "loop" /\ nsegs \in Nat
  BY <1>1, CallTyped DEF Looping, SpliceInv
<1>6. CASE LastSeg
  <2> DEFINE f == FrameOf("repl", EmptyObj, 0, top.rem)
  <2>1. Becomes(f)
    BY <1>6 DEF BuildSuffix
  <2>2. IsNew(f, "repl", EmptyObj, 0, top.rem)
    BY <1>3, NewFrame, Zenon
  <2> HIDE DEF f
  <2>3. f \in Frame /\ f.fn \in {"full", "repl"} /\ FrameInv(f, Len(stack) - 1)
    BY <1>4, <1>6, <2>2 DEF IsNew, FrameInv, Looping, LastSeg
  <2> QED BY <1>1, <1>5, <2>1, <2>3, BecomeStep
<1>7. CASE ~ LastSeg /\ top.rem <= 1
  <2>1. /\ pc' = "failed" /\ UNCHANGED <<call, i, current, stack, out, indent>>
        /\ status' = "DEPTH_FAIL"
    BY <1>7 DEF BuildSuffix, Fail, End
  <2> QED BY <1>1, <2>1, FailStep
<1>8. CASE ~ LastSeg /\ ~ (top.rem <= 1)
  <2> DEFINE f == FrameOf("build", EmptyObj, top.seg + 1, top.rem)
  <2>1. OpensLoop("build", EmptyObj, top.seg + 1, top.rem) /\ top.rem > 1 /\ top.seg + 1 \in Nat
    BY <1>3, <1>8 DEF BuildSuffix
  <2>2. IsNew(f, "build", EmptyObj, top.seg + 1, top.rem)
    BY <1>3, <2>1, NewFrame, Zenon
  <2>3. IsCtn(EmptyObj)
    <3>1. EmptyObj.t = "obj"
      BY Zenon DEF EmptyObj
    <3> QED BY <3>1 DEF IsCtn
  <2>4. top.seg + 1 = (Len(stack) - 1) + 1 /\ top.seg + 1 <= nsegs
    BY <1>3, <1>4, <1>5, <1>8 DEF LastSeg
  <2> HIDE DEF f
  <2>5. FrameInv(f, Len(stack) - 1)
    BY <1>4, <2>1, <2>2, <2>3, <2>4 DEF IsNew, FrameInv, Looping
  <2> QED BY <1>1, <1>3, <1>5, <2>1, <2>5, OpenStepOf DEF f
<1> QED BY <1>6, <1>7, <1>8

\* The replacement, written out like a member or copied as it was encoded.
LEMMA WriteReplacementStep ==
  ASSUME SpliceInv, WriteReplacement
  PROVE  SpliceInv'
<1>1. pc = "write" /\ stack # << >> /\ top.fn = "repl"
  BY DEF WriteReplacement, Writing
<1>2. /\ top \in Frame /\ FrameInv(top, Len(stack) - 1) /\ Len(stack) \in Nat /\ nsegs < call.depth
      /\ out \in Seq(Token) /\ indent \in Int /\ TextInv(out, stack, indent)
  BY <1>1, AtTop
<1>3. top.rem \in Int /\ call.repl.node \in Nodes \cup {EmptyObj} /\ 0 \in Nat
  BY <1>2, CallTyped DEF Frame, SpliceInv
<1>4. ~ Looping(top) /\ Len(stack) - 1 = nsegs /\ top.rem = call.depth - (Len(stack) - 1)
  BY <1>1, <1>2 DEF Looping, FrameInv
<1>5. CASE call.repl.direct
  <2> DEFINE f == FrameOf("full", call.repl.node, 0, top.rem)
  <2>1. Becomes(f)
    BY <1>5 DEF WriteReplacement
  <2>2. IsNew(f, "full", call.repl.node, 0, top.rem)
    BY <1>3, NewFrame, Zenon
  <2> HIDE DEF f
  <2>3. f \in Frame /\ f.fn \in {"full", "repl"} /\ FrameInv(f, Len(stack) - 1)
    BY <1>4, <2>2 DEF IsNew, FrameInv, Looping
  <2> QED BY <1>1, <1>4, <2>1, <2>3, BecomeStep
<1>6. CASE ~ call.repl.direct
  <2> DEFINE b == Reindented(call.repl.text)
             nest == call.repl.nest
  <2>1. Returns(b)
    BY <1>6 DEF WriteReplacement
  <2>2. call.repl.encodes /\ nest <= repl_depth
    BY <1>1, <1>6 DEF SpliceInv, ReplacementInv, EncodesWithin
  <2>3. /\ TextShape(call.repl.text, nest, call.pretty) /\ nest \in Int /\ call.depth \in Int
        /\ nsegs \in Nat
    BY <1>6, <2>2, CallTyped DEF SpliceInv
  <2>4. /\ OpenAfter(out, Len(out)) = nsegs /\ (call.pretty => indent = nsegs)
        /\ Ends(out, "newline") => out[Len(out)][2] = OpenAfter(out, Len(out))
    BY <1>1, <1>2, <1>4 DEF TextInv, top
  <2>5. OpenAfter(out, Len(out)) + nest < call.depth
    BY <1>2, <2>2, <2>3, <2>4 DEF repl_depth
  <2>6. /\ b \in Seq(Token) /\ Follows(out, b) /\ OpenAfter(b, Len(b)) = 0
        /\ b # << >> /\ ~ Ends(b, "newline")
    BY <1>2, <2>3, <2>4, <2>5, ReplacementFollows
  <2> HIDE DEF b
  <2> QED BY <1>1, <1>4, <2>1, <2>6, ReturnStep
<1> QED BY <1>5, <1>6

\* The end, and the faults of the environment.
LEMMA WriterEndStep ==
  ASSUME SpliceInv, WriteEnds \/ StackOverflows \/ TooLarge
  PROVE  SpliceInv'
<1>1. CASE WriteEnds
  <2>1. /\ pc = "write" /\ stack = << >> /\ pc' = "done"
        /\ UNCHANGED <<call, i, current, stack, out, indent>>
    BY <1>1 DEF WriteEnds, End
  <2>2. /\ call.op = "set" => nsegs < call.depth
        /\ call.op = "set" /\ i < nsegs => current.t = "obj" /\ Hits(call, i + 1) = {}
    BY <2>1 DEF SpliceInv, PlanInv
  <2> QED BY <2>1, <2>2, OnlyTheVerdict
<1>2. CASE StackOverflows \/ TooLarge
  <2>1. /\ pc = "write" /\ pc' = "failed" /\ UNCHANGED <<call, i, current, stack, out, indent>>
        /\ status' \in {"DEPTH_FAIL", "TOO_LARGE"}
    BY <1>2 DEF StackOverflows, TooLarge, Reserves, InLoop, Writing, End
  <2> QED BY <2>1, FailStep
<1> QED BY <1>1, <1>2

LEMMA SpliceStutter ==
  ASSUME SpliceInv, UNCHANGED vars
  PROVE  SpliceInv'
<1>1. UNCHANGED <<call, pc, i, current, stack, out, indent, status, fault>>
  BY DEF vars
<1>2. SpliceType' /\ PlanInv' /\ ReplacementInv' /\ PlanSettlesTheTarget'
      /\ (pc = "done" => stack = << >>)'
  BY <1>1 DEF SpliceInv, SpliceType, PlanInv, ReplacementInv, EncodesWithin, repl_depth,
              PlanSettlesTheTarget, nsegs, Hits
<1>3. StackInv'
  BY <1>1 DEF SpliceInv, StackInv, FrameInv, Looping, Spread, nsegs, IsCtn, Hits
<1>4. OutInv' /\ LayoutInv'
  BY <1>1 DEF SpliceInv, OutInv, LayoutInv, top, Laid, Looping, Spread
<1> QED BY <1>2, <1>3, <1>4 DEF SpliceInv

-----------------------------------------------------------------------------
(* Theorems.                                                               *)

(***************************************************************************)
(* The invariant of pointer_set (fj_pointer_walk, then the writer of       *)
(* fastjson_pointer_splice.c): the frames stand on the path the plan       *)
(* followed, each with its share of $depth, and the text written so far    *)
(* nests and is laid out as they say.                                      *)
(***************************************************************************)
THEOREM SpliceInvariant == Spec => []SpliceInv
<1>1. Init => SpliceInv
  BY InitSplices
<1>2. SpliceInv /\ [Next]_vars => SpliceInv'
  <2> SUFFICES ASSUME SpliceInv, [Next]_vars PROVE SpliceInv'
    OBVIOUS
  <2>1. CASE fj_pointer_parse
    BY <2>1, ParseStep
  <2>2. CASE WalkEnds \/ WalkAmbiguous \/ WalkMissing \/ WalkBlocked
    BY <2>2, WalkVerdictStep
  <2>3. CASE WalkInto
    BY <2>3, WalkIntoStep
  <2>4. CASE fastjson_pointer_build_replacement
    BY <2>4, BuildStep
  <2>5. CASE WriteFullTooDeep \/ WriteBadScalar
    BY <2>5, WriteFullFails
  <2>6. CASE WriteScalar
    BY <2>6, WriteScalarStep
  <2>7. CASE WriteContainer
    BY <2>7, WriteContainerStep
  <2>8. CASE WriteAt
    BY <2>8, WriteAtStep
  <2>9. CASE LoopOther
    BY <2>9, LoopOtherStep
  <2>10. CASE LoopTarget
    BY <2>10, LoopTargetStep
  <2>11. CASE LoopAdd
    BY <2>11, LoopAddStep
  <2>12. CASE LoopCloses
    BY <2>12, LoopClosesStep
  <2>13. CASE BuildSuffix
    BY <2>13, BuildSuffixStep
  <2>14. CASE WriteReplacement
    BY <2>14, WriteReplacementStep
  <2>15. CASE WriteEnds \/ StackOverflows \/ TooLarge
    BY <2>15, WriterEndStep
  <2>16. CASE UNCHANGED vars
    BY <2>16, SpliceStutter
  <2> QED BY <2>1, <2>2, <2>3, <2>4, <2>5, <2>6, <2>7, <2>8, <2>9, <2>10, <2>11, <2>12,
             <2>13, <2>14, <2>15, <2>16 DEF Next, Writer
<1> QED BY <1>1, <1>2, PTL DEF Spec

(***************************************************************************)
(* Once the plan has passed, the writer never finds the target missing,    *)
(* blocked or ambiguous: fj_splice_write_at, _object and _array come to    *)
(* the verdict fj_pointer_walk came to, for every document and pointer.    *)
(***************************************************************************)
THEOREM WriterFollowsThePlan == Spec => []PlanSettlesTheTarget
<1>1. SpliceInv => PlanSettlesTheTarget
  BY DEF SpliceInv
<1> QED BY <1>1, SpliceInvariant, PTL

(***************************************************************************)
(* The text pointer_set returns nests less deeply than $depth, so that the *)
(* decoder accepts it at the same $depth, whatever the document and        *)
(* however deep the replacement the direct writer returned.                *)
(***************************************************************************)
THEOREM OutputRedecodes == Spec => []RedecodesAtDepth
<1>1. SpliceInv => RedecodesAtDepth
  <2> SUFFICES ASSUME SpliceInv, NEW n \in DOMAIN out PROVE OpenAfter(out, n) < call.depth
    BY DEF RedecodesAtDepth
  <2>1. out \in Seq(Token)
    BY DEF SpliceInv, SpliceType
  <2>2. n \in 0 .. Len(out)
    BY <2>1
  <2> QED BY <2>2 DEF SpliceInv, OutInv
<1> QED BY <1>1, SpliceInvariant, PTL

(***************************************************************************)
(* Every line break of the text pointer_set returns stands at the level of *)
(* the brackets open around it: in the copied text, in the objects the     *)
(* path adds and in the replacement, which was encoded from level zero.    *)
(***************************************************************************)
THEOREM OutputIsLaidOut == Spec => []LayoutMatchesNesting
<1>1. SpliceInv => LayoutMatchesNesting
  <2> SUFFICES ASSUME SpliceInv, pc = "done", NEW n \in DOMAIN out, out[n][1] = "newline"
               PROVE  out[n][2] = LevelAt(out, n)
    BY DEF LayoutMatchesNesting
  <2>1. out \in Seq(Token) /\ stack = << >>
    BY DEF SpliceInv, SpliceType
  <2>2. Len(out) \in Nat /\ n \in 1 .. Len(out)
    BY <2>1
  <2>3. n # Len(out)
    BY <2>1, <2>2 DEF SpliceInv, LayoutInv
  <2> QED BY <2>2, <2>3 DEF SpliceInv, LayoutInv, Laid
<1> QED BY <1>1, SpliceInvariant, PTL

-----------------------------------------------------------------------------
(* The parser of pointers (PointerText), which shares nothing with the     *)
(* splice writer.                                                          *)

\* Counting the ends of segments one offset further.
LEMMA EndsStep ==
  ASSUME NEW n \in Nat, n >= 1
  PROVE  /\ EndsBefore(1) = 0
         /\ EndsBefore(n) \in Nat
         /\ EndsBefore(n + 1) = EndsBefore(n) + (IF n \in SegmentEnds THEN 1 ELSE 0)
<1>1. n - 1 \in Nat /\ (n - 1) + 1 = n /\ (n + 1) - 1 = n /\ 1 - 1 = 0
  OBVIOUS
<1>2. /\ EndsBefore(1) = CountUpTo(0, SegmentEnds)
      /\ EndsBefore(n) = CountUpTo(n - 1, SegmentEnds)
      /\ EndsBefore(n + 1) = CountUpTo((n - 1) + 1, SegmentEnds)
  BY <1>1, Zenon DEF EndsBefore, CountUpTo
<1> QED BY <1>1, <1>2, CountOneMore

\* No offset has more ends below it than a later one.
LEMMA EndsMonotone ==
  ASSUME NEW m \in Nat, NEW n \in Nat, m <= n
  PROVE  EndsBefore(m) <= EndsBefore(n)
<1> DEFINE A == {p \in 1 .. m - 1 : p \in SegmentEnds}
           B == {p \in 1 .. n - 1 : p \in SegmentEnds}
<1>1. IsFiniteSet(1 .. n - 1)
  BY FS_Interval
<1>2. A \in SUBSET B /\ B \in SUBSET (1 .. n - 1)
  OBVIOUS
<1> HIDE DEF A, B
<1>3. IsFiniteSet(B)
  BY <1>1, <1>2, FS_Subset
<1>4. Cardinality(A) <= Cardinality(B)
  BY <1>2, <1>3, FS_Subset
<1> QED BY <1>4, Zenon DEF A, B, EndsBefore

-----------------------------------------------------------------------------
(* Texts.                                                                  *)

\* The first character of a text.
LEMMA FirstOf ==
  ASSUME NEW S, NEW t \in Seq(S), Len(t) >= 1
  PROVE  SubSeq(t, 1, 1) = <<t[1]>>
<1>1. t[1] \in S
  OBVIOUS
<1>2. SubSeq(t, 1, 1) \in Seq(S) /\ Len(SubSeq(t, 1, 1)) = 1 /\ SubSeq(t, 1, 1)[1] = t[1]
  OBVIOUS
<1> DEFINE u == SubSeq(t, 1, 1)
           w == <<t[1]>>
<1>3. w \in Seq(S) /\ Len(w) = 1 /\ w[1] = t[1]
  BY <1>1
<1> HIDE DEF u, w
<1>4. u = w
  BY <1>2, <1>3, SeqEqual DEF u
<1> QED BY <1>4 DEF u, w

\* One character more.
LEMMA Longer ==
  ASSUME NEW S, NEW t \in Seq(S), NEW n \in 0 .. Len(t) - 1
  PROVE  SubSeq(t, 1, n + 1) = SubSeq(t, 1, n) \o <<t[n + 1]>>
OBVIOUS

\* Two characters more.
LEMMA Longer2 ==
  ASSUME NEW S, NEW t \in Seq(S), NEW n \in 0 .. Len(t) - 2
  PROVE  SubSeq(t, 1, n + 2) = SubSeq(t, 1, n) \o <<t[n + 1], t[n + 2]>>
OBVIOUS

\* The end of a text that grew by one character.
LEMMA Grown ==
  ASSUME NEW S, NEW t \in Seq(S), NEW c \in S, NEW n \in 0 .. Len(t)
  PROVE  SubSeq(Append(t, c), n + 1, Len(t) + 1) = Append(SubSeq(t, n + 1, Len(t)), c)
<1> DEFINE u == SubSeq(t, n + 1, Len(t))
           w == SubSeq(Append(t, c), n + 1, Len(t) + 1)
<1>1. /\ u \in Seq(S) /\ Len(u) = Len(t) - n
      /\ \A k \in 1 .. Len(t) - n : u[k] = t[k + n]
  OBVIOUS
<1>2. /\ w \in Seq(S) /\ Len(w) = Len(t) - n + 1
      /\ \A k \in 1 .. Len(t) - n + 1 : w[k] = Append(t, c)[k + n]
  OBVIOUS
<1>0. Len(t) \in Nat /\ n \in Nat /\ Len(t) - n \in Nat
  OBVIOUS
<1> HIDE DEF u, w
<1>3. Append(u, c) \in Seq(S) /\ Len(Append(u, c)) = Len(w)
  <2>1. Append(u, c) \in Seq(S) /\ Len(Append(u, c)) = Len(u) + 1
    BY <1>1, AppendProperties
  <2> QED BY <1>0, <1>1, <1>2, <2>1
<1>4. ASSUME NEW k \in 1 .. Len(w) PROVE w[k] = Append(u, c)[k]
  <2>1. w[k] = Append(t, c)[k + n]
    BY <1>2
  <2>2. CASE k = Len(w)
    <3>1. k + n = Len(t) + 1 /\ k = Len(u) + 1
      BY <1>1, <1>2, <2>2
    <3> QED BY <1>1, <2>1, <3>1, AppendProperties
  <2>3. CASE k # Len(w)
    <3>1. k + n \in 1 .. Len(t) /\ k \in 1 .. Len(u) /\ k \in 1 .. Len(t) - n
      BY <1>0, <1>1, <1>2, <2>3
    <3>2. Append(t, c)[k + n] = t[k + n] /\ Append(u, c)[k] = u[k] /\ u[k] = t[k + n]
      BY <1>1, <3>1, AppendProperties
    <3> QED BY <2>1, <3>2
  <2> QED BY <2>2, <2>3
<1>5. w = Append(u, c)
  BY <1>2, <1>3, <1>4, SeqEqual
<1> QED BY <1>5 DEF u, w

\* What was in a text before it grew.
LEMMA Kept ==
  ASSUME NEW S, NEW t \in Seq(S), NEW c \in S, NEW m \in Nat, NEW n \in 0 .. Len(t)
  PROVE  SubSeq(Append(t, c), m + 1, n) = SubSeq(t, m + 1, n)
OBVIOUS

\* A text escaped character by character.
LEMMA EscapeAppend ==
  ASSUME PointersAssumption
  PROVE  /\ Escape(<<>>) = <<>>
         /\ \A c \in Chars : EscapeChar(c) \in Seq(Chars)
         /\ \A t \in Seq(Chars) : Escape(t) \in Seq(Chars)
         /\ \A t \in Seq(Chars), c \in Chars : Escape(Append(t, c)) = Escape(t) \o EscapeChar(c)
<1> DEFINE Chunks(t) == [n \in DOMAIN t |-> EscapeChar(t[n])]
<1>1. \A c \in Chars : EscapeChar(c) \in Seq(Chars)
  BY DEF EscapeChar, PointersAssumption
<1>2. ASSUME NEW t \in Seq(Chars) PROVE Chunks(t) \in Seq(Seq(Chars))
  <2>1. DOMAIN t = 1 .. Len(t) /\ Len(t) \in Nat /\ \A n \in 1 .. Len(t) : t[n] \in Chars
    OBVIOUS
  <2>2. \A n \in 1 .. Len(t) : EscapeChar(t[n]) \in Seq(Chars)
    BY <1>1, <2>1
  <2> QED BY <2>1, <2>2
<1>3. ASSUME NEW t \in Seq(Chars), NEW c \in Chars
      PROVE  Chunks(Append(t, c)) = Append(Chunks(t), EscapeChar(c))
  OBVIOUS
<1>4. Chunks(<<>>) = <<>>
  OBVIOUS
<1>5. Escape(<<>>) = <<>>
  BY <1>4, FlattenAppend DEF Escape
<1>6. ASSUME NEW t \in Seq(Chars) PROVE Escape(t) \in Seq(Chars)
  <2>1. Escape(t) = FlattenSeq(Chunks(t))
    BY DEF Escape
  <2> HIDE DEF Chunks
  <2> QED BY <1>2, <2>1, FlattenAppend
<1>7. ASSUME NEW t \in Seq(Chars), NEW c \in Chars
      PROVE  Escape(Append(t, c)) = Escape(t) \o EscapeChar(c)
  <2>1. Escape(t) = FlattenSeq(Chunks(t)) /\ Escape(Append(t, c)) = FlattenSeq(Chunks(Append(t, c)))
    BY DEF Escape
  <2> HIDE DEF Chunks
  <2>2. FlattenSeq(Append(Chunks(t), EscapeChar(c))) = FlattenSeq(Chunks(t)) \o EscapeChar(c)
    BY <1>1, <1>2, FlattenAppend
  <2> QED BY <1>3, <2>1, <2>2
<1> QED BY <1>1, <1>5, <1>6, <1>7

\* The empty segment is spelled by its slash.
LEMMA SpellNothing ==
  ASSUME PointersAssumption
  PROVE  Spelling(<<>>) = <<"/">>
<1>1. Escape(<<>>) = <<>>
  BY EscapeAppend
<1>2. <<"/">> \o <<>> = <<"/">>
  OBVIOUS
<1> QED BY <1>1, <1>2, Zenon DEF Spelling

-----------------------------------------------------------------------------
(* Indexes.                                                                *)

\* Every digit has a value below ten, and "0" has the value zero.
LEMMA DigitValues ==
  /\ \A d \in DOMAIN Digit : Digit[d] \in 0 .. 9
  /\ "0" \in DOMAIN Digit /\ Digit["0"] = 0
<1>1. \A k \in 1 .. 10 : k - 1 \in 0 .. 9 /\ (k - 1) + 1 = k
  OBVIOUS
<1>2. DOMAIN Digit = {Digits[k] : k \in 1 .. 10}
  BY DEF Digit
<1>3. ASSUME NEW d \in DOMAIN Digit PROVE Digit[d] \in 0 .. 9
  <2>1. PICK k \in 1 .. 10 : d = Digits[k]
    BY <1>2
  <2>2. \E n \in 0 .. 9 : Digits[n + 1] = d
    BY <1>1, <2>1
  <2>3. Digit[d] = CHOOSE n \in 0 .. 9 : Digits[n + 1] = d
    BY <1>2 DEF Digit
  <2> QED BY <2>2, <2>3
<1>4. Digits[1] = "0" /\ \A n \in 0 .. 9 : Digits[n + 1] = "0" => n = 0
  BY DEF Digits
<1>5. "0" \in DOMAIN Digit
  BY <1>2, <1>4
<1>6. Digit["0"] = CHOOSE n \in 0 .. 9 : Digits[n + 1] = "0"
  BY <1>2, <1>5 DEF Digit
<1>7. \E n \in 0 .. 9 : Digits[n + 1] = "0"
  <2>1. 0 \in 0 .. 9 /\ 0 + 1 = 1
    OBVIOUS
  <2> QED BY <1>4, <2>1
<1>8. Digit["0"] = 0
  BY <1>4, <1>6, <1>7
<1> QED BY <1>3, <1>5, <1>8

\* One turn of the loop is exact or refuses.
LEMMA IndexStepExact ==
  ASSUME LimitsAssumption, NEW x \in 0 .. SizeMax, NEW d \in 0 .. 9
  PROVE  IndexStep(x, d) = IF x * 10 + d <= SizeMax THEN x * 10 + d ELSE -1
<1>1. SizeMax \in Nat /\ SizeMax >= 9
  BY DEF LimitsAssumption
<1>2. x > (SizeMax - d) \div 10 <=> x * 10 + d > SizeMax
  BY <1>1
<1>3. CASE x * 10 + d <= SizeMax
  <2>1. (x * 10 + d) % (SizeMax + 1) = x * 10 + d
    <3> DEFINE y == x * 10 + d
    <3>1. y \in Nat /\ y < SizeMax + 1 /\ SizeMax + 1 \in Nat
      BY <1>1, <1>3
    <3> HIDE DEF y
    <3>2. y % (SizeMax + 1) = y
      BY <3>1, SMTT(30)
    <3> QED BY <3>2 DEF y
  <2> QED BY <1>2, <1>3, <2>1 DEF IndexStep
<1>4. CASE ~(x * 10 + d <= SizeMax)
  BY <1>1, <1>2, <1>4 DEF IndexStep
<1> QED BY <1>3, <1>4

\* The value of the first digits of a numeral.
LEMMA NumeralSteps ==
  ASSUME NEW str \in Seq(Chars), DigitsOnly(str)
  PROVE  \E N \in [Nat -> Nat] :
            /\ N[0] = 0 /\ Numeral(str) = N[Len(str)]
            /\ \A n \in 1 .. Len(str) : N[n] = N[n - 1] * 10 + Digit[str[n]]
<1> DEFINE L == Len(str)
           Def(f) == [n \in 0 .. L |-> IF n = 0 THEN 0 ELSE f[n - 1] * 10 + Digit[str[n]]]
           D == [n \in Nat |-> [v \in Nat |->
                    IF n + 1 \in 1 .. L THEN v * 10 + Digit[str[n + 1]] ELSE v]]
<1>1. L \in Nat /\ DOMAIN str = 1 .. L
  OBVIOUS
<1>2. \A n \in 1 .. L : Digit[str[n]] \in 0 .. 9
  BY <1>1, DigitValues DEF DigitsOnly
<1> HIDE DEF L
<1>3. D \in StepFunctions(Nat)
  BY <1>1, <1>2 DEF StepFunctions
<1>4. PICK g : SolvesRecursion(g, Nat, 0, D)
  <2> HIDE DEF D
  <2> QED BY <1>3, RecursionExists
<1>5. g \in [Nat -> Nat] /\ g[0] = 0 /\ \A n \in Nat : g[n + 1] = D[n][g[n]]
  BY <1>4, Zenon DEF SolvesRecursion
<1>6. ASSUME NEW n \in 1 .. L PROVE g[n] = g[n - 1] * 10 + Digit[str[n]]
  <2>1. n - 1 \in Nat /\ (n - 1) + 1 = n
    OBVIOUS
  <2>2. g[n] = D[n - 1][g[n - 1]] /\ g[n - 1] \in Nat
    BY <1>5, <2>1
  <2> QED BY <2>1, <2>2
<1> HIDE DEF D
<1> DEFINE h == [n \in 0 .. L |-> g[n]]
<1>7. h = Def(h)
  <2>1. ASSUME NEW n \in 0 .. L
        PROVE  g[n] = IF n = 0 THEN 0 ELSE h[n - 1] * 10 + Digit[str[n]]
    <3>1. CASE n = 0
      BY <1>5, <3>1
    <3>2. CASE n # 0
      <4>1. n \in 1 .. L /\ n - 1 \in 0 .. L
        BY <1>1, <3>2
      <4> QED BY <1>6, <3>2, <4>1
    <3> QED BY <3>1, <3>2
  <2> QED BY <2>1
<1> DEFINE c == CHOOSE f : f = Def(f)
<1>8. c = Def(c)
  <2> HIDE DEF h, Def
  <2> QED BY <1>7
<1>9. Numeral(str) = c[L]
  BY DEF Numeral, L
<1>10. \A n \in 0 .. L : c[n] = IF n = 0 THEN 0 ELSE c[n - 1] * 10 + Digit[str[n]]
  <2> HIDE DEF c
  <2> QED BY <1>8
<1> HIDE DEF c
<1> DEFINE P == {n \in Nat : c[n] = g[n]}
<1>11. 0 \in P
  <2>1. 0 \in 0 .. L /\ 0 \in Nat
    BY <1>1
  <2>2. c[0] = 0
    BY <1>10, <2>1, Zenon
  <2> QED BY <1>5, <2>1, <2>2
<1>12. ASSUME NEW n \in 0 .. L - 1, n \in P PROVE n + 1 \in P
  <2>1. n + 1 \in 1 .. L /\ n + 1 \in 0 .. L /\ n + 1 \in Nat /\ (n + 1) - 1 = n /\ n + 1 # 0
    BY <1>1
  <2>2. c[n + 1] = c[n] * 10 + Digit[str[n + 1]]
    BY <1>10, <2>1
  <2>3. g[n + 1] = g[n] * 10 + Digit[str[n + 1]]
    BY <1>6, <2>1
  <2> QED BY <1>12, <2>1, <2>2, <2>3
<1>13. \A n \in 0 .. L : n \in P
  <2> HIDE DEF P
  <2> QED BY <1>1, <1>11, <1>12, InductionUpTo
<1>14. Numeral(str) = g[L]
  BY <1>1, <1>9, <1>13
<1> QED BY <1>5, <1>6, <1>14 DEF L

\* The loop computes the value of the numeral, or refuses it once it is past
\* the largest size_t; further digits only make it larger.
LEMMA IndexLoop ==
  ASSUME LimitsAssumption, NEW str \in Seq(Chars), DigitsOnly(str),
         str # <<>>, Len(str) <= MaxDigits, str[1] # "0"
  PROVE  /\ Numeral(str) \in Nat
         /\ fj_seg_is_index(str) = IF Numeral(str) <= SizeMax THEN Numeral(str) ELSE -1
<1> DEFINE L == Len(str)
           Def(f) == [n \in 0 .. L |->
                        IF n = 0 THEN 0
                        ELSE IF f[n - 1] = -1 THEN -1
                        ELSE IndexStep(f[n - 1], Digit[str[n]])]
<1>1. L \in Nat /\ DOMAIN str = 1 .. L /\ SizeMax \in Nat
  BY DEF LimitsAssumption
<1>2. \A n \in 1 .. L : Digit[str[n]] \in 0 .. 9
  BY <1>1, DigitValues DEF DigitsOnly
<1>3. PICK N \in [Nat -> Nat] :
         /\ N[0] = 0 /\ Numeral(str) = N[L]
         /\ \A n \in 1 .. L : N[n] = N[n - 1] * 10 + Digit[str[n]]
  BY NumeralSteps
<1> HIDE DEF L
<1> DEFINE Upto(n) == IF N[n] <= SizeMax THEN N[n] ELSE -1
           h == [n \in 0 .. L |-> Upto(n)]
<1>4. ASSUME NEW n \in 1 .. L
      PROVE  Upto(n) = IF Upto(n - 1) = -1 THEN -1 ELSE IndexStep(Upto(n - 1), Digit[str[n]])
  <2> DEFINE x == N[n - 1]
             d == Digit[str[n]]
  <2>0. n - 1 \in Nat /\ n \in Nat
    BY <1>1
  <2>1. x \in Nat /\ d \in 0 .. 9 /\ N[n] = x * 10 + d
    <3>1. N[n] = N[n - 1] * 10 + Digit[str[n]]
      BY <1>3, Zenon
    <3>2. N[n - 1] \in Nat
      BY <2>0
    <3>3. Digit[str[n]] \in 0 .. 9
      BY <1>2
    <3> QED BY <3>1, <3>2, <3>3
  <2> HIDE DEF d
  <2>2. CASE x <= SizeMax
    <3>1. IndexStep(x, d) = IF x * 10 + d <= SizeMax THEN x * 10 + d ELSE -1
      <4>1. x \in 0 .. SizeMax
        BY <1>1, <2>1, <2>2
      <4> HIDE DEF x
      <4> QED BY <2>1, <4>1, IndexStepExact
    <3> QED BY <2>1, <2>2, <3>1 DEF d
  <2>3. CASE ~(x <= SizeMax)
    <3>1. Upto(n - 1) = -1
      BY <2>3
    <3>2. ~(N[n] <= SizeMax)
      <4> HIDE DEF x
      <4>1. x * 10 + d > SizeMax /\ x * 10 + d \in Nat
        BY <1>1, <2>1, <2>3
      <4> QED BY <1>1, <2>1, <4>1
    <3>3. Upto(n) = -1
      BY <3>2
    <3> HIDE DEF Upto
    <3> QED BY <3>1, <3>3
  <2> QED BY <2>2, <2>3
<1> HIDE DEF Upto
<1>5. Upto(0) = 0
  BY <1>1, <1>3 DEF Upto
<1>6. h = Def(h)
  <2>1. ASSUME NEW n \in 0 .. L
        PROVE  Upto(n) = IF n = 0 THEN 0
                         ELSE IF h[n - 1] = -1 THEN -1
                         ELSE IndexStep(h[n - 1], Digit[str[n]])
    <3>1. CASE n = 0
      BY <1>5, <3>1
    <3>2. CASE n # 0
      <4>1. n \in 1 .. L /\ n - 1 \in 0 .. L
        BY <1>1, <3>2
      <4>2. h[n - 1] = Upto(n - 1)
        BY <4>1
      <4> HIDE DEF h
      <4> QED BY <1>4, <3>2, <4>1, <4>2
    <3> QED BY <3>1, <3>2
  <2> QED BY <2>1
<1> DEFINE c == CHOOSE f : f = Def(f)
<1>7. c = Def(c)
  <2> HIDE DEF h, Def
  <2> QED BY <1>6
<1>8. fj_seg_is_index(str) = c[L]
  BY <1>1 DEF fj_seg_is_index, L
<1>9. \A n \in 0 .. L : c[n] = IF n = 0 THEN 0
                               ELSE IF c[n - 1] = -1 THEN -1
                               ELSE IndexStep(c[n - 1], Digit[str[n]])
  <2> HIDE DEF c
  <2> QED BY <1>7
<1> HIDE DEF c
<1> DEFINE P == {n \in Nat : c[n] = Upto(n)}
<1>10. 0 \in P
  <2>1. 0 \in 0 .. L /\ 0 \in Nat
    BY <1>1
  <2>2. c[0] = 0
    BY <1>9, <2>1, Zenon
  <2> QED BY <1>5, <2>1, <2>2
<1>11. ASSUME NEW n \in 0 .. L - 1, n \in P PROVE n + 1 \in P
  <2>1. n + 1 \in 1 .. L /\ n + 1 \in 0 .. L /\ n + 1 \in Nat /\ (n + 1) - 1 = n /\ n + 1 # 0
    BY <1>1
  <2>2. c[n + 1] = IF c[n] = -1 THEN -1 ELSE IndexStep(c[n], Digit[str[n + 1]])
    BY <1>9, <2>1
  <2>3. Upto(n + 1) = IF Upto(n) = -1 THEN -1 ELSE IndexStep(Upto(n), Digit[str[n + 1]])
    BY <1>4, <2>1
  <2> QED BY <1>11, <2>1, <2>2, <2>3
<1>12. \A n \in 0 .. L : n \in P
  <2> HIDE DEF P
  <2> QED BY <1>1, <1>10, <1>11, InductionUpTo
<1>13. fj_seg_is_index(str) = Upto(L)
  BY <1>1, <1>8, <1>12
<1> QED BY <1>1, <1>3, <1>13 DEF Upto

\* fj_seg_is_index: the value of a canonical numeral that fits, or -1.
LEMMA IndexExact ==
  ASSUME LimitsAssumption, NEW str \in Seq(Chars)
  PROVE  fj_seg_is_index(str) =
            IF Canonical(str) /\ Numeral(str) <= SizeMax THEN Numeral(str) ELSE -1
<1>0. Len(str) \in Nat /\ DOMAIN str = 1 .. Len(str) /\ (str # <<>> => Len(str) # 0)
  OBVIOUS
<1>1. CASE str = <<>> \/ Len(str) > MaxDigits
  <2>1. ~Canonical(str)
    BY <1>1 DEF Canonical, LimitsAssumption
  <2> QED BY <1>1, <2>1 DEF fj_seg_is_index
<1>2. CASE ~(str = <<>> \/ Len(str) > MaxDigits) /\ str[1] = "0"
  <2>1. CASE Len(str) > 1
    <3>0. Len(str) # 1
      <4> DEFINE L == Len(str)
      <4>1. L \in Nat /\ L > 1
        BY <1>0, <2>1
      <4> HIDE DEF L
      <4>2. L # 1
        BY <4>1
      <4> QED BY <4>2 DEF L
    <3>1. ~Canonical(str)
      BY <1>2, <3>0, Zenon DEF Canonical
    <3> QED BY <1>2, <2>1, <3>1 DEF fj_seg_is_index
  <2>2. CASE ~(Len(str) > 1)
    <3>1. Len(str) = 1 /\ DOMAIN str = 1 .. 1
      <4>1. Len(str) # 0
        BY <1>0, <1>2, Zenon
      <4> QED BY <1>0, <2>2, <4>1
    <3>2. DigitsOnly(str)
      BY <1>2, <3>1, DigitValues DEF DigitsOnly
    <3>3. Canonical(str)
      BY <1>2, <3>1, <3>2 DEF Canonical, LimitsAssumption
    <3>4. Numeral(str) = 0
      <4>1. PICK N \in [Nat -> Nat] :
               /\ N[0] = 0 /\ Numeral(str) = N[Len(str)]
               /\ \A n \in 1 .. Len(str) : N[n] = N[n - 1] * 10 + Digit[str[n]]
        BY <3>2, NumeralSteps
      <4>2. N[1] = N[0] * 10 + Digit["0"]
        BY <1>2, <3>1, <4>1
      <4> QED BY <3>1, <4>1, <4>2, DigitValues
    <3>5. fj_seg_is_index(str) = 0
      BY <1>2, <2>2 DEF fj_seg_is_index
    <3> QED BY <3>3, <3>4, <3>5 DEF LimitsAssumption
  <2> QED BY <2>1, <2>2
<1>3. CASE ~(str = <<>> \/ Len(str) > MaxDigits) /\ str[1] # "0"
  <2>1. CASE ~DigitsOnly(str)
    BY <1>3, <2>1 DEF fj_seg_is_index, Canonical
  <2>2. CASE DigitsOnly(str)
    <3>1. Canonical(str)
      BY <1>3, <2>2 DEF Canonical, LimitsAssumption
    <3>2. Len(str) <= MaxDigits
      BY <1>3 DEF LimitsAssumption
    <3> QED BY <1>3, <2>2, <3>1, <3>2, IndexLoop
  <2> QED BY <2>1, <2>2
<1> QED BY <1>1, <1>2, <1>3

-----------------------------------------------------------------------------
(* The parser.                                                             *)

\* What the type invariant says of the text.
LEMMA TextType ==
  ASSUME PointersAssumption, ParseInv
  PROVE  /\ pointer \in Seq(Chars) /\ pointer_len \in Nat
         /\ pointer = <<>> <=> pointer_len = 0
         /\ \A n \in 0 .. pointer_len - 1 : At(n) = pointer[n + 1] /\ At(n) \in Chars
         /\ At(pointer_len) = "NUL"
<1>1. pointer \in Seq(Chars)
  BY DEF PointersAssumption, ParseInv, ParseType
<1> QED BY <1>1 DEF pointer_len, At

\* The ends of segments depend on the text only.
LEMMA EndsStay ==
  ASSUME pointer' = pointer
  PROVE  /\ pointer_len' = pointer_len
         /\ \A n : EndsBefore(n)' = EndsBefore(n)
         /\ \A n : EscapesRight(n)' = EscapesRight(n)
         /\ WellFormed' = WellFormed
BY Zenon DEF pointer_len, EndsBefore, SegmentEnds, At, EscapesRight, WellFormed

\* The parser stops with the right answer.
LEMMA FinishStep ==
  ASSUME ParseInv, NEW r, Finish(r), r = Verdict, r = "OK" => SegmentsSpellThePointer
  PROVE  ParseInv'
<1> USE DEF Finish
<1>1. ParseType' /\ Counted'
  BY DEF ParseInv, ParseType, Counted, pointer_len
<1>2. WritesInBounds'
  BY Zenon DEF ParseInv, WritesInBounds, pointer_len
<1>3. phase' = "done" /\ parse_status' = r
  BY Zenon
<1>4. Verdict' = Verdict
  BY Zenon DEF Verdict, WellFormed, EscapesRight, nsegs_ok
<1>5. SegmentsSpellThePointer' <=> SegmentsSpellThePointer
  BY Zenon DEF SegmentsSpellThePointer, Spellings, SegText
<1>6. ParsesThePointer'
  BY <1>3, <1>4, <1>5 DEF ParsesThePointer
<1> HIDE DEF Finish
<1>7. ~(phase \in {"prescan", "fill"})' /\ ~(phase = "fill")'
  BY <1>3
<1> QED BY <1>1, <1>2, <1>6, <1>7, Zenon DEF ParseInv

\* No segments spell the empty text.
LEMMA NoSegments ==
  ASSUME segs = <<>>
  PROVE  Spellings = <<>> /\ FlattenSeq(Spellings) = <<>> /\ SegsLen = 0
<1>1. Spellings = <<>>
  BY DEF Spellings
<1> QED BY <1>1, FlattenAppend DEF SegsLen

\* Start: an empty pointer, one without a leading slash, or the first pass.
LEMMA StartStep ==
  ASSUME PointersAssumption, ParseInv, Start
  PROVE  ParseInv'
<1>1. phase = "start" /\ pos = 1 /\ seg_count = 0 /\ storage = <<>> /\ segs = <<>>
  BY Zenon DEF ParseInv, Counted, Start
<1>2. CASE pointer_len = 0
  <2>1. pointer = <<>>
    BY <1>2, TextType
  <2>2. Verdict = "OK"
    BY <2>1, Zenon DEF Verdict, WellFormed
  <2>3. SegmentsSpellThePointer
    BY <1>1, <2>1, NoSegments DEF SegmentsSpellThePointer
  <2>4. Finish("OK")
    BY <1>2, Zenon DEF Start
  <2> QED BY <2>2, <2>3, <2>4, FinishStep
<1>3. CASE pointer_len # 0 /\ At(0) # "/"
  <2>1. pointer # <<>> /\ pointer[1] # "/"
    BY <1>3, TextType
  <2>2. Verdict = "SETTABLE_FAIL"
    BY <2>1, Zenon DEF Verdict, WellFormed
  <2>3. Finish("SETTABLE_FAIL")
    BY <1>3, Zenon DEF Start
  <2> QED BY <2>2, <2>3, FinishStep
<1>4. CASE pointer_len # 0 /\ At(0) = "/"
  <2>1. pointer # <<>> /\ pointer[1] = "/"
    BY <1>4, TextType
  <2>2. /\ phase' = "count"
        /\ UNCHANGED <<pointer, limit, pos, seg_count, storage, segs, parse_status>>
    BY <1>4, Zenon DEF Start
  <2>3. EndsBefore(1) = 0
    BY EndsStep
  <2>4. EndsBefore(pos)' = EndsBefore(1)
    BY <1>1, <2>2, Zenon DEF EndsBefore, SegmentEnds, At, pointer_len
  <2>5. ParseType'
    BY <2>2 DEF ParseInv, ParseType, pointer_len
  <2>6. Counted'
    BY <1>1, <2>1, <2>2, <2>3, <2>4 DEF Counted
  <2>7. WritesInBounds'
    BY <2>2, Zenon DEF ParseInv, WritesInBounds, pointer_len
  <2>8. ~(phase \in {"prescan", "fill"})' /\ ~(phase = "fill")' /\ ~(phase = "done")'
    BY <2>2
  <2> QED BY <2>5, <2>6, <2>7, <2>8, Zenon DEF ParseInv, ParsesThePointer
<1> QED BY <1>2, <1>3, <1>4

\* fastjson_pointer_count_segments, one offset further.
LEMMA CountSegmentStep ==
  ASSUME PointersAssumption, ParseInv, CountStep
  PROVE  ParseInv'
<1>1. /\ phase = "count" /\ pos <= pointer_len /\ pos' = pos + 1
      /\ seg_count' = IF pos = pointer_len \/ At(pos) = "/" THEN seg_count + 1 ELSE seg_count
      /\ UNCHANGED <<pointer, limit, phase, storage, segs, parse_status>>
  BY Zenon DEF CountStep
<1>2. /\ storage = <<>> /\ segs = <<>> /\ pointer # <<>> /\ pointer[1] = "/"
      /\ seg_count = EndsBefore(pos)
  BY <1>1, Zenon DEF ParseInv, Counted
<1>3. pos \in Nat /\ pos >= 1 /\ pointer_len \in Nat /\ seg_count \in Nat
  BY TextType DEF ParseInv, ParseType
<1>4. pos \in SegmentEnds <=> pos = pointer_len \/ At(pos) = "/"
  BY <1>1, <1>3 DEF SegmentEnds
<1>5. seg_count' = EndsBefore(pos + 1)
  <2>1. EndsBefore(pos + 1) = EndsBefore(pos) + (IF pos \in SegmentEnds THEN 1 ELSE 0)
    BY <1>3, EndsStep
  <2>2. CASE pos \in SegmentEnds
    BY <1>1, <1>2, <1>4, <2>1, <2>2
  <2>3. CASE pos \notin SegmentEnds
    <3>1. seg_count' = seg_count
      BY <1>1, <1>4, <2>3, Zenon
    <3> QED BY <1>2, <1>3, <2>1, <2>3, <3>1
  <2> QED BY <2>2, <2>3
<1>6. EndsBefore(pos)' = EndsBefore(pos + 1)
  BY <1>1, Zenon DEF EndsBefore, SegmentEnds, At, pointer_len
<1>7. seg_count' \in Nat /\ (pos \in 1 .. pointer_len + 1)'
  BY <1>1, <1>3, EndsStay
<1>8. ParseType'
  BY <1>1, <1>7, Zenon DEF ParseInv, ParseType
<1>9. Counted'
  BY <1>1, <1>2, <1>5, <1>6 DEF Counted
<1>10. WritesInBounds'
  <2>1. Len(segs') = 0 /\ Len(storage') = 0 /\ DOMAIN segs' = {}
    BY <1>1, <1>2
  <2> QED BY <1>1, <1>3, <1>7, <2>1, EndsStay DEF WritesInBounds
<1>11. ~(phase \in {"prescan", "fill"})' /\ ~(phase = "fill")' /\ ~(phase = "done")'
  BY <1>1
<1> QED BY <1>8, <1>9, <1>10, <1>11, Zenon DEF ParseInv, ParsesThePointer

\* The segment gate: the second pass starts over with all ends counted.
LEMMA GateStep ==
  ASSUME PointersAssumption, ParseInv, Gate
  PROVE  ParseInv'
<1>1. /\ phase = "count" /\ pos > pointer_len /\ pos' = 1
      /\ phase' = IF nsegs_ok THEN "fill" ELSE "prescan"
      /\ UNCHANGED <<pointer, limit, seg_count, storage, segs, parse_status>>
  BY Zenon DEF Gate
<1>2. /\ storage = <<>> /\ segs = <<>> /\ pointer # <<>> /\ pointer[1] = "/"
      /\ seg_count = EndsBefore(pos)
  BY <1>1, Zenon DEF ParseInv, Counted
<1>3. pos = pointer_len + 1 /\ pointer_len \in Nat /\ pointer_len # 0 /\ seg_count \in Nat
  BY <1>1, <1>2, TextType DEF ParseInv, ParseType
<1>4. nsegs_ok' <=> nsegs_ok
  BY <1>1, Zenon DEF nsegs_ok
<1>5. EndsBefore(1) = 0
  BY EndsStep
<1>6. EndsBefore(pos)' = EndsBefore(1) /\ EndsBefore(pointer_len + 1)' = EndsBefore(pointer_len + 1)
  BY <1>1, Zenon DEF EndsBefore, SegmentEnds, At, pointer_len
<1>7. (pos \in 1 .. pointer_len + 1)' /\ phase' \in {"fill", "prescan"}
  BY <1>1, <1>3, EndsStay
<1>8. ParseType'
  BY <1>1, <1>7 DEF ParseInv, ParseType
<1>9. seg_count' = EndsBefore(pointer_len + 1) /\ Len(segs') = 0
  BY <1>1, <1>2, <1>3
<1>10. Counted'
  BY <1>1, <1>2, <1>4, <1>5, <1>6, <1>9 DEF Counted
<1>11. WritesInBounds'
  BY <1>1, Zenon DEF ParseInv, WritesInBounds, pointer_len
<1>12. Behind' = 1
  BY <1>1, <1>3, EndsStay DEF Behind
<1>13. EscapesRight(Behind)'
  BY <1>1, <1>2, <1>12 DEF EscapesRight
<1>14. Filled'
  <2>1. Spellings' = <<>> /\ FlattenSeq(Spellings)' = <<>> /\ SegsLen' = 0
    <3>1. segs' = <<>>
      BY <1>1, <1>2
    <3>2. Spellings' = <<>>
      BY <3>1 DEF Spellings
    <3> QED BY <3>1, <3>2, FlattenAppend DEF SegsLen
  <2>2. SubSeq(storage', 1, 0) = <<>> /\ Len(storage') = 0
    BY <1>1, <1>2
  <2>3. Spelling(<<>>) = <<"/">>
    BY SpellNothing
  <2>4. SubSeq(pointer, 1, 1) = <<"/">>
    <3>1. pointer \in Seq(Chars) /\ Len(pointer) \in Nat /\ Len(pointer) >= 1
      BY <1>3, TextType DEF pointer_len
    <3>2. SubSeq(pointer, 1, 1) = <<pointer[1]>>
      BY <3>1, FirstOf
    <3> QED BY <1>2, <3>2
  <2>5. ~(pos > pointer_len)'
    BY <1>1, <1>3, EndsStay
  <2>6. SubSeq(pointer, 1, Behind)' = <<"/">>
    BY <1>1, <1>12, <2>4
  <2>7. Spelling(SubSeq(storage, SegsLen + 1, Len(storage)))' = Spelling(<<>>)
    BY <2>1, <2>2 DEF Spelling, Escape
  <2>8. <<>> \o <<"/">> = <<"/">> /\ 0 < 1
    OBVIOUS
  <2> QED BY <1>1, <2>1, <2>2, <2>3, <2>5, <2>6, <2>7, <2>8, Zenon DEF Filled
<1>15. ~(phase = "done")'
  BY <1>7
<1> QED BY <1>8, <1>10, <1>11, <1>13, <1>14, <1>15, Zenon DEF ParseInv, ParsesThePointer

\* A bad escape ahead makes the text malformed.
LEMMA BadEscape ==
  ASSUME PointersAssumption, ParseInv, pos < pointer_len, pos \in Nat,
         At(pos) = "~", ~Escaped(pos + 1)
  PROVE  ~EscapesRight(pointer_len)
<1>1. /\ pointer[pos + 1] = "~" /\ pos + 1 \in 1 .. pointer_len /\ pointer_len = Len(pointer)
      /\ pointer_len \in Nat
  BY TextType DEF pointer_len
<1>2. CASE pos + 1 = pointer_len
  BY <1>1, <1>2 DEF EscapesRight
<1>3. CASE pos + 1 # pointer_len
  <2>1. At(pos + 1) = pointer[(pos + 1) + 1]
    BY <1>1, <1>3, TextType
  <2> QED BY <1>1, <2>1, Zenon DEF EscapesRight, Escaped
<1> QED BY <1>2, <1>3

\* Past a character that is no bad escape, the escapes read are right, and the
\* parser is still within the text.
LEMMA GoodEscape ==
  ASSUME PointersAssumption, ParseInv, pos < pointer_len, pos \in Nat, EscapesRight(pos),
         NEW next, next = pos + (IF At(pos) = "~" THEN 2 ELSE 1),
         At(pos) = "~" => Escaped(pos + 1)
  PROVE  next \in Nat /\ next > pos /\ next <= pointer_len /\ EscapesRight(next)
<1>1. /\ pointer[pos + 1] = At(pos) /\ pos + 1 \in 1 .. pointer_len /\ pointer_len = Len(pointer)
      /\ pointer_len \in Nat
  BY TextType DEF pointer_len
<1>2. CASE At(pos) # "~"
  <2>1. next = pos + 1
    BY <1>2
  <2> QED BY <1>1, <1>2, <2>1 DEF EscapesRight
<1>3. CASE At(pos) = "~"
  <2>1. next = pos + 2 /\ At(pos + 1) \in {"0", "1"}
    BY <1>3 DEF Escaped
  <2>2. pos + 1 < pointer_len
    <3>1. At(pointer_len) = "NUL"
      BY TextType
    <3>2. pos + 1 # pointer_len
      BY <2>1, <3>1
    <3> QED BY <1>1, <3>2
  <2>3. pointer[pos + 2] = At(pos + 1)
    <3>1. pos + 1 \in 0 .. pointer_len - 1 /\ (pos + 1) + 1 = pos + 2
      BY <1>1, <2>2
    <3> QED BY <3>1, TextType
  <2>4. ASSUME NEW m \in 1 .. pos + 2, pointer[m] = "~"
        PROVE  m < Len(pointer) /\ pointer[m + 1] \in {"0", "1"}
    <3>1. CASE m \in 1 .. pos
      BY <2>4, <3>1, Zenon DEF EscapesRight
    <3>2. CASE m = pos + 1
      <4>1. m + 1 = pos + 2 /\ m < Len(pointer)
        BY <1>1, <2>2, <3>2
      <4> QED BY <2>1, <2>3, <4>1
    <3>3. CASE m = pos + 2
      BY <2>1, <2>3, <2>4, <3>3
    <3> QED BY <3>1, <3>2, <3>3
  <2>5. EscapesRight(pos + 2)
    BY <2>4 DEF EscapesRight
  <2> QED BY <1>1, <2>1, <2>2, <2>5
<1> QED BY <1>2, <1>3

\* An entry that was filled.
LEMMA EntryType ==
  ASSUME segs \in Seq([start : Nat, len : Nat]), NEW n \in DOMAIN segs
  PROVE  segs[n].start \in Nat /\ segs[n].len \in Nat
<1> DEFINE R == [start : Nat, len : Nat]
<1>1. segs[n] \in R
  <2>1. segs \in Seq(R) /\ DOMAIN segs = 1 .. Len(segs)
    OBVIOUS
  <2> HIDE DEF R
  <2> QED BY <2>1, ElementOfSeq
<1> QED BY <1>1

\* The entries filled end within the bytes stored.
LEMMA SegsLenFits ==
  ASSUME storage \in Seq(Chars), segs \in Seq([start : Nat, len : Nat]), WritesInBounds
  PROVE  SegsLen \in 0 .. Len(storage)
<1>1. CASE segs = <<>>
  BY <1>1 DEF SegsLen
<1>2. CASE segs # <<>>
  <2>1. Len(segs) \in DOMAIN segs
    BY <1>2
  <2>2. segs[Len(segs)].start + segs[Len(segs)].len <= Len(storage)
    BY <2>1, Zenon DEF WritesInBounds
  <2>3. SegsLen = segs[Len(segs)].start + segs[Len(segs)].len
    BY <1>2, Zenon DEF SegsLen
  <2>4. segs[Len(segs)].start \in Nat /\ segs[Len(segs)].len \in Nat /\ Len(storage) \in Nat
    BY <2>1, EntryType
  <2> DEFINE lo == segs[Len(segs)].start
             by == segs[Len(segs)].len
             size == Len(storage)
  <2>5. SegsLen = lo + by /\ lo + by <= size /\ lo \in Nat /\ by \in Nat /\ size \in Nat
    BY <2>2, <2>3, <2>4, Zenon
  <2> HIDE DEF lo, by, size
  <2>6. SegsLen \in 0 .. size
    BY <2>5
  <2> QED BY <2>6 DEF size
<1> QED BY <1>1, <1>2

\* The spelling of a segment that grows.
LEMMA SpellingAppend ==
  ASSUME PointersAssumption, NEW t \in Seq(Chars)
  PROVE  /\ Spelling(t) \in Seq(Chars)
         /\ \A c \in Chars : Spelling(Append(t, c)) = Spelling(t) \o EscapeChar(c)
<1>1. Escape(t) \in Seq(Chars) /\ <<"/">> \in Seq(Chars)
  BY EscapeAppend DEF PointersAssumption
<1>2. Spelling(t) \in Seq(Chars)
  BY <1>1 DEF Spelling
<1>3. ASSUME NEW c \in Chars PROVE Spelling(Append(t, c)) = Spelling(t) \o EscapeChar(c)
  <2>1. Escape(Append(t, c)) = Escape(t) \o EscapeChar(c) /\ EscapeChar(c) \in Seq(Chars)
    BY EscapeAppend
  <2>2. <<"/">> \o (Escape(t) \o EscapeChar(c)) = (<<"/">> \o Escape(t)) \o EscapeChar(c)
    <3> DEFINE q == <<"/">>
    <3>1. q \in Seq(Chars)
      BY <1>1
    <3> HIDE DEF q
    <3>2. ASSUME NEW v \in Seq(Chars), NEW w \in Seq(Chars)
          PROVE  (q \o v) \o w = q \o (v \o w)
      BY <3>1, ConcatAssociative
    <3>3. PICK v \in Seq(Chars) : v = Escape(t)
      BY <1>1
    <3>4. PICK w \in Seq(Chars) : w = EscapeChar(c)
      BY <2>1
    <3>5. (q \o v) \o w = q \o (v \o w)
      BY <3>2
    <3> QED BY <3>3, <3>4, <3>5, Zenon DEF q
  <2> QED BY <2>1, <2>2, Zenon DEF Spelling
<1> QED BY <1>2, <1>3

\* The same behind other text.
LEMMA SpellingGrows ==
  ASSUME PointersAssumption, NEW u \in Seq(Chars), NEW t \in Seq(Chars), NEW c \in Chars
  PROVE  (u \o Spelling(t)) \o EscapeChar(c) = u \o Spelling(Append(t, c))
<1>1. /\ Spelling(t) \in Seq(Chars) /\ EscapeChar(c) \in Seq(Chars)
      /\ Spelling(Append(t, c)) = Spelling(t) \o EscapeChar(c)
  BY SpellingAppend, EscapeAppend
<1>2. ASSUME NEW v \in Seq(Chars), NEW w \in Seq(Chars)
      PROVE  (u \o v) \o w = u \o (v \o w)
  BY ConcatAssociative
<1>3. PICK v \in Seq(Chars) : v = Spelling(t)
  BY <1>1
<1>4. PICK w \in Seq(Chars) : w = EscapeChar(c)
  BY <1>1
<1>5. (u \o v) \o w = u \o (v \o w)
  BY <1>2
<1>6. v \o w = Spelling(Append(t, c))
  BY <1>1, <1>3, <1>4, Zenon
<1>7. (u \o v) \o w = u \o Spelling(Append(t, c))
  BY <1>5, <1>6, Zenon
<1> QED BY <1>3, <1>4, <1>7, Zenon

\* The text of a segment that was filled.
LEMMA SegTextType ==
  ASSUME storage \in Seq(Chars), segs \in Seq([start : Nat, len : Nat]), WritesInBounds,
         NEW n \in DOMAIN segs
  PROVE  SegText(segs[n]) \in Seq(Chars)
<1>1. segs[n].start \in Nat /\ segs[n].len \in Nat /\ Len(storage) \in Nat
  BY EntryType
<1>2. segs[n].start + segs[n].len <= Len(storage)
  BY Zenon DEF WritesInBounds
<1> DEFINE lo == segs[n].start
           by == segs[n].len
<1>3. SegText(segs[n]) = SubSeq(storage, lo + 1, lo + by)
  BY Zenon DEF SegText
<1>4. lo \in Nat /\ by \in Nat /\ lo + by <= Len(storage)
  BY <1>1, <1>2, Zenon
<1> HIDE DEF lo, by
<1>5. SubSeq(storage, lo + 1, lo + by) \in Seq(Chars)
  BY <1>1, <1>4
<1> QED BY <1>3, <1>5

\* The spellings of the segments filled.
LEMMA SpellingsType ==
  ASSUME PointersAssumption, storage \in Seq(Chars), segs \in Seq([start : Nat, len : Nat]),
         WritesInBounds
  PROVE  Spellings \in Seq(Seq(Chars)) /\ FlattenSeq(Spellings) \in Seq(Chars)
<1>1. \A n \in DOMAIN segs : SegText(segs[n]) \in Seq(Chars)
  BY SegTextType
<1>2. \A n \in DOMAIN segs : Spelling(SegText(segs[n])) \in Seq(Chars)
  BY <1>1, SpellingAppend
<1>3. DOMAIN segs = 1 .. Len(segs) /\ Len(segs) \in Nat
  OBVIOUS
<1>4. Spellings \in Seq(Seq(Chars))
  BY <1>2, <1>3 DEF Spellings
<1> QED BY <1>4, FlattenAppend

\* The prescan of a pointer with too many segments, past one character.
LEMMA PrescanOnStep ==
  ASSUME PointersAssumption, ParseInv, PrescanStep
  PROVE  ParseInv'
<1>1. phase = "prescan" /\ pos < pointer_len
  BY Zenon DEF PrescanStep
<1>2. /\ storage = <<>> /\ segs = <<>> /\ pointer # <<>> /\ pointer[1] = "/"
      /\ ~nsegs_ok /\ EscapesRight(Behind)
  BY <1>1, Zenon DEF ParseInv, Counted
<1>3. pos \in Nat /\ pos >= 1 /\ pointer_len \in Nat /\ Behind = pos
  BY <1>1, TextType DEF ParseInv, ParseType, Behind
<1>4. At(pos) = pointer[pos + 1] /\ EscapesRight(pos)
  BY <1>1, <1>2, <1>3, TextType
<1>5. CASE At(pos) = "~" /\ ~Escaped(pos + 1)
  <2>1. ~EscapesRight(pointer_len)
    BY <1>1, <1>3, <1>4, <1>5, BadEscape
  <2>2. Verdict = "SETTABLE_FAIL"
    BY <1>2, <2>1, Zenon DEF Verdict, WellFormed, pointer_len
  <2>3. Finish("SETTABLE_FAIL")
    BY <1>5, Zenon DEF PrescanStep
  <2> QED BY <2>2, <2>3, FinishStep
<1>6. CASE ~(At(pos) = "~" /\ ~Escaped(pos + 1))
  <2>1. /\ pos' = pos + (IF At(pos) = "~" THEN 2 ELSE 1)
        /\ UNCHANGED <<pointer, limit, phase, seg_count, storage, segs, parse_status>>
    BY <1>6, Zenon DEF PrescanStep
  <2>2. pos' \in Nat /\ pos' >= 1 /\ pos' <= pointer_len /\ EscapesRight(pos')
    BY <1>1, <1>3, <1>4, <1>6, <2>1, GoodEscape
  <2>3. Behind' = pos'
    BY <1>3, <2>1, <2>2, EndsStay DEF Behind
  <2>4. EscapesRight(Behind)'
    BY <2>1, <2>2, <2>3, Zenon DEF EscapesRight
  <2>5. (pos \in 1 .. pointer_len + 1)'
    BY <1>3, <2>1, <2>2, EndsStay
  <2>6. ParseType'
    BY <2>1, <2>5, Zenon DEF ParseInv, ParseType
  <2>7. nsegs_ok' <=> nsegs_ok
    BY <2>1, Zenon DEF nsegs_ok
  <2>8. Counted'
    BY <1>1, <1>2, <2>1, <2>7 DEF Counted
  <2>9. WritesInBounds'
    BY <2>1, Zenon DEF ParseInv, WritesInBounds, pointer_len
  <2>10. ~(phase = "fill")' /\ ~(phase = "done")'
    BY <1>1, <2>1
  <2> QED BY <2>4, <2>6, <2>8, <2>9, <2>10, Zenon DEF ParseInv, ParsesThePointer
<1> QED BY <1>5, <1>6

\* The prescan has met no bad escape.
LEMMA PrescanEndsStep ==
  ASSUME PointersAssumption, ParseInv, PrescanEnds
  PROVE  ParseInv'
<1>1. phase = "prescan" /\ pos >= pointer_len /\ Finish("DEPTH_FAIL")
  BY Zenon DEF PrescanEnds
<1>2. pointer # <<>> /\ pointer[1] = "/" /\ ~nsegs_ok /\ EscapesRight(Behind)
  BY <1>1, Zenon DEF ParseInv, Counted
<1>3. Behind = Len(pointer)
  BY <1>1, TextType DEF ParseInv, ParseType, Behind, pointer_len
<1>4. Verdict = "DEPTH_FAIL"
  BY <1>2, <1>3, Zenon DEF Verdict, WellFormed
<1> QED BY <1>1, <1>4, FinishStep

\* One character more of the segment being filled: the text behind the
\* parser grows by its spelling.
LEMMA FillOn ==
  ASSUME PointersAssumption, ParseInv, phase = "fill", NEW c \in Chars, NEW step \in {1, 2},
         pos + step <= pointer_len,
         SubSeq(pointer, 1, pos + step) = SubSeq(pointer, 1, pos) \o EscapeChar(c),
         EscapesRight(pos + step), EndsBefore(pos + step) = EndsBefore(pos),
         storage' = Append(storage, c), pos' = pos + step,
         UNCHANGED <<pointer, limit, phase, seg_count, segs, parse_status>>
  PROVE  ParseInv'
<1> DEFINE open == SubSeq(storage, SegsLen + 1, Len(storage))
<1>1. /\ pos \in Nat /\ pos >= 1 /\ pointer_len \in Nat /\ pos + step \in Nat
      /\ storage \in Seq(Chars) /\ segs \in Seq([start : Nat, len : Nat])
      /\ pointer_len' = pointer_len
  BY TextType, EndsStay DEF ParseInv, ParseType
<1>2. Counted /\ WritesInBounds /\ Filled
  BY Zenon DEF ParseInv
<1>3. /\ pointer # <<>> /\ pointer[1] = "/" /\ nsegs_ok
      /\ seg_count = EndsBefore(pointer_len + 1) /\ Len(segs) = EndsBefore(pos)
  BY <1>2, Zenon DEF Counted
<1>4. SegsLen \in 0 .. Len(storage)
  BY <1>1, <1>2, SegsLenFits
<1>5. Len(storage') = Len(storage) + 1 /\ Len(storage) \in Nat /\ storage' \in Seq(Chars)
  BY <1>1
<1>6. ParseType'
  <2>1. (pos \in 1 .. pointer_len + 1)'
    BY <1>1
  <2> QED BY <1>5, <2>1, Zenon DEF ParseInv, ParseType
<1>7. EndsBefore(pos)' = EndsBefore(pos + step)
      /\ EndsBefore(pointer_len + 1)' = EndsBefore(pointer_len + 1)
  BY Zenon DEF EndsBefore, SegmentEnds, At, pointer_len
<1>8. nsegs_ok' <=> nsegs_ok
  BY Zenon DEF nsegs_ok
<1>9. Counted'
  BY <1>3, <1>7, <1>8 DEF Counted
<1>10. Len(storage) < pos
  BY <1>2, Zenon DEF Filled
<1>11. WritesInBounds'
  <2>1. Len(storage') <= pointer_len'
    BY <1>1, <1>5, <1>10
  <2>2. ASSUME NEW n \in DOMAIN segs PROVE segs[n].start + segs[n].len <= Len(storage')
    <3>1. segs[n].start \in Nat /\ segs[n].len \in Nat
      BY <1>1, EntryType
    <3>2. segs[n].start + segs[n].len <= Len(storage)
      BY <1>2, Zenon DEF WritesInBounds
    <3> QED BY <1>5, <3>1, <3>2
  <2>3. Len(segs') <= seg_count'
    BY <1>2, Zenon DEF WritesInBounds
  <2> QED BY <2>1, <2>2, <2>3, Zenon DEF WritesInBounds
<1>12. Behind = pos /\ Behind' = pos + step
  BY <1>1 DEF Behind
<1>13. EscapesRight(Behind)'
  BY <1>12, Zenon DEF EscapesRight
<1>14. Spellings' = Spellings
  <2>1. ASSUME NEW n \in DOMAIN segs PROVE SegText(segs[n])' = SegText(segs[n])
    <3>1. segs[n].start \in Nat /\ segs[n].len \in Nat
      BY <1>1, EntryType
    <3>2. segs[n].start + segs[n].len <= Len(storage)
      BY <1>2, Zenon DEF WritesInBounds
    <3>3. segs[n].start + segs[n].len \in 0 .. Len(storage)
      <4> DEFINE lo == segs[n].start
                 hi == segs[n].len
      <4>1. lo \in Nat /\ hi \in Nat /\ lo + hi <= Len(storage)
        BY <3>1, <3>2
      <4> HIDE DEF lo, hi
      <4>2. lo + hi \in 0 .. Len(storage)
        BY <1>5, <4>1
      <4> QED BY <4>2 DEF lo, hi
    <3>4. SubSeq(storage', segs[n].start + 1, segs[n].start + segs[n].len)
            = SubSeq(storage, segs[n].start + 1, segs[n].start + segs[n].len)
      <4> DEFINE lo == segs[n].start
                 hi == segs[n].start + segs[n].len
      <4>1. lo \in Nat /\ hi \in 0 .. Len(storage) /\ storage \in Seq(Chars)
        BY <1>1, <3>1, <3>3
      <4> HIDE DEF lo, hi
      <4>2. SubSeq(Append(storage, c), lo + 1, hi) = SubSeq(storage, lo + 1, hi)
        BY <4>1, Kept
      <4> QED BY <4>2, Zenon DEF lo, hi
    <3> QED BY <3>4, Zenon DEF SegText
  <2> QED BY <2>1 DEF Spellings, Spelling, Escape
<1>15. SegsLen' = SegsLen
  BY Zenon DEF SegsLen
<1>16. SubSeq(storage, SegsLen + 1, Len(storage))' = Append(open, c)
  BY <1>1, <1>4, <1>5, <1>15, Grown
<1>17. open \in Seq(Chars)
  BY <1>1, <1>4
<1>18. Spelling(open) \in Seq(Chars) /\ Spelling(Append(open, c)) = Spelling(open) \o EscapeChar(c)
  <2> HIDE DEF open
  <2> QED BY <1>17, SpellingAppend
<1>19. FlattenSeq(Spellings) \in Seq(Chars)
  BY <1>1, <1>2, SpellingsType
<1>20. EscapeChar(c) \in Seq(Chars)
  BY EscapeAppend
<1>21. SubSeq(pointer, 1, pos) = FlattenSeq(Spellings) \o Spelling(open)
  <2>1. ~(pos > pointer_len)
    BY <1>1
  <2> QED BY <1>2, <1>12, <2>1, Zenon DEF Filled
<1>22. SubSeq(pointer, 1, pos + step)
          = FlattenSeq(Spellings) \o Spelling(Append(open, c))
  <2> HIDE DEF open
  <2>1. (FlattenSeq(Spellings) \o Spelling(open)) \o EscapeChar(c)
           = FlattenSeq(Spellings) \o Spelling(Append(open, c))
    BY <1>17, <1>19, SpellingGrows
  <2> QED BY <1>21, <2>1, Zenon
<1>23. Filled'
  <2>1. ~(pos > pointer_len)' /\ (Len(storage) < pos)'
    BY <1>1, <1>5, <1>10
  <2>2. Spelling(SubSeq(storage, SegsLen + 1, Len(storage)))' = Spelling(Append(open, c))
    <3> HIDE DEF open
    <3> QED BY <1>16, Zenon DEF Spelling, Escape, EscapeChar
  <2>3. SubSeq(pointer, 1, Behind)' = SubSeq(pointer, 1, pos + step)
    BY <1>12, Zenon
  <2>4. FlattenSeq(Spellings)' = FlattenSeq(Spellings)
    BY <1>14, Zenon
  <2> HIDE DEF open
  <2> QED BY <1>22, <2>1, <2>2, <2>3, <2>4, Zenon DEF Filled
<1>24. ~(phase = "done")'
  OBVIOUS
<1> QED BY <1>6, <1>9, <1>11, <1>13, <1>23, <1>24, Zenon DEF ParseInv, ParsesThePointer

\* While a segment is being filled there is room for its next character, and
\* the ends counted do not change within it.
LEMMA WithinSegment ==
  ASSUME PointersAssumption, ParseInv, phase = "fill", pos <= pointer_len, ~SegEnds
  PROVE  /\ pos \in Nat /\ pos >= 1 /\ pos < pointer_len /\ pointer_len \in Nat
         /\ Len(storage) \in Nat /\ ~(Len(storage) + 1 > pointer_len)
         /\ pointer \in Seq(Chars) /\ pointer_len = Len(pointer)
         /\ At(pos) = pointer[pos + 1] /\ At(pos) # "/" /\ At(pos) \in Chars
         /\ EndsBefore(pos + 1) = EndsBefore(pos) /\ EndsBefore(pos) \in Nat
         /\ EscapesRight(pos) /\ pointer # <<>> /\ pointer[1] = "/"
<1>1. pos # pointer_len /\ At(pos) # "/"
  BY Zenon DEF SegEnds
<1>2. /\ pos \in Nat /\ pos >= 1 /\ pos < pointer_len /\ pointer_len \in Nat
      /\ pointer \in Seq(Chars) /\ pointer_len = Len(pointer)
  BY <1>1, TextType DEF ParseInv, ParseType, pointer_len
<1>3. Len(storage) \in Nat /\ ~(Len(storage) + 1 > pointer_len)
  <2>1. Len(storage) \in Nat /\ Len(storage) < pos
    BY DEF ParseInv, ParseType, Filled
  <2> QED BY <1>2, <2>1
<1>4. At(pos) = pointer[pos + 1] /\ At(pos) \in Chars
  BY <1>2, TextType
<1>5. pos \notin SegmentEnds
  BY <1>1, Zenon DEF SegmentEnds
<1>6. EndsBefore(pos + 1) = EndsBefore(pos) /\ EndsBefore(pos) \in Nat
  BY <1>2, <1>5, EndsStep
<1>7. Behind = pos
  BY <1>2 DEF Behind
<1>8. EscapesRight(pos) /\ pointer # <<>> /\ pointer[1] = "/"
  BY <1>7 DEF ParseInv, Counted
<1> QED BY <1>1, <1>2, <1>3, <1>4, <1>6, <1>8

\* fj_pointer_fill_segments stores a character as it is.
LEMMA FillPlainStep ==
  ASSUME PointersAssumption, ParseInv, FillPlain
  PROVE  ParseInv'
<1>1. phase = "fill" /\ pos <= pointer_len /\ ~SegEnds /\ At(pos) # "~"
  BY Zenon DEF FillPlain
<1>2. /\ pos \in Nat /\ pos >= 1 /\ pos < pointer_len /\ pointer_len \in Nat
      /\ ~(Len(storage) + 1 > pointer_len)
      /\ pointer \in Seq(Chars) /\ pointer_len = Len(pointer)
      /\ At(pos) = pointer[pos + 1] /\ At(pos) # "/" /\ At(pos) \in Chars
      /\ EndsBefore(pos + 1) = EndsBefore(pos) /\ EscapesRight(pos)
  BY <1>1, WithinSegment
<1>3. /\ storage' = Append(storage, At(pos)) /\ pos' = pos + 1
      /\ UNCHANGED <<pointer, limit, phase, seg_count, segs, parse_status>>
  BY <1>2, Zenon DEF FillPlain
<1>4. EscapesRight(pos + 1) /\ pos + 1 <= pointer_len
  <2>1. pos + 1 = pos + (IF At(pos) = "~" THEN 2 ELSE 1)
    BY <1>1
  <2> QED BY <1>1, <1>2, <2>1, GoodEscape
<1>5. EscapeChar(At(pos)) = <<At(pos)>>
  BY <1>1, <1>2, Zenon DEF EscapeChar
<1>6. SubSeq(pointer, 1, pos + 1) = SubSeq(pointer, 1, pos) \o EscapeChar(At(pos))
  <2>1. SubSeq(pointer, 1, pos + 1) = SubSeq(pointer, 1, pos) \o <<pointer[pos + 1]>>
    <3>1. pos \in 0 .. Len(pointer) - 1
      BY <1>2
    <3> QED BY <1>2, <3>1, Longer
  <2> QED BY <1>2, <1>5, <2>1, Zenon
<1> QED BY <1>1, <1>2, <1>3, <1>4, <1>6, FillOn

\* fj_pointer_fill_segments stores an escaped character, or meets a bad escape.
LEMMA FillEscapeStep ==
  ASSUME PointersAssumption, ParseInv, FillEscape
  PROVE  ParseInv'
<1>1. phase = "fill" /\ pos <= pointer_len /\ ~SegEnds /\ At(pos) = "~"
  BY Zenon DEF FillEscape
<1>2. /\ pos \in Nat /\ pos >= 1 /\ pos < pointer_len /\ pointer_len \in Nat
      /\ ~(Len(storage) + 1 > pointer_len)
      /\ pointer \in Seq(Chars) /\ pointer_len = Len(pointer)
      /\ At(pos) = pointer[pos + 1] /\ EndsBefore(pos) \in Nat
      /\ EndsBefore(pos + 1) = EndsBefore(pos) /\ EscapesRight(pos)
      /\ pointer # <<>> /\ pointer[1] = "/"
  BY <1>1, WithinSegment
<1>3. CASE ~Escaped(pos + 1)
  <2>1. ~EscapesRight(pointer_len)
    BY <1>1, <1>2, <1>3, BadEscape
  <2>2. Verdict = "SETTABLE_FAIL"
    BY <1>2, <2>1, Zenon DEF Verdict, WellFormed
  <2>3. Finish("SETTABLE_FAIL")
    BY <1>3, Zenon DEF FillEscape
  <2> QED BY <2>2, <2>3, FinishStep
<1>4. CASE Escaped(pos + 1)
  <2> DEFINE c == IF At(pos + 1) = "0" THEN "~" ELSE "/"
  <2>1. /\ storage' = Append(storage, c) /\ pos' = pos + 2
        /\ UNCHANGED <<pointer, limit, phase, seg_count, segs, parse_status>>
    BY <1>2, <1>4, Zenon DEF FillEscape
  <2>2. EscapesRight(pos + 2) /\ pos + 2 <= pointer_len
    <3>1. pos + 2 = pos + (IF At(pos) = "~" THEN 2 ELSE 1)
      BY <1>1
    <3> QED BY <1>1, <1>2, <1>4, <3>1, GoodEscape
  <2>3. At(pos + 1) = pointer[pos + 2]
    <3>1. pos + 1 \in 0 .. pointer_len - 1 /\ (pos + 1) + 1 = pos + 2
      BY <1>2, <2>2
    <3> QED BY <3>1, TextType
  <2>4. c \in Chars /\ EscapeChar(c) = <<"~", At(pos + 1)>>
    <3>1. CASE At(pos + 1) = "0"
      BY <3>1, Zenon DEF EscapeChar, PointersAssumption
    <3>2. CASE At(pos + 1) = "1"
      BY <3>2, Zenon DEF EscapeChar, PointersAssumption
    <3> QED BY <1>4, <3>1, <3>2 DEF Escaped
  <2>5. SubSeq(pointer, 1, pos + 2) = SubSeq(pointer, 1, pos) \o EscapeChar(c)
    <3>1. SubSeq(pointer, 1, pos + 2)
            = SubSeq(pointer, 1, pos) \o <<pointer[pos + 1], pointer[pos + 2]>>
      <4>1. pos \in 0 .. Len(pointer) - 2
        BY <1>2, <2>2
      <4> QED BY <1>2, <4>1, Longer2
    <3> HIDE DEF c
    <3> QED BY <1>1, <1>2, <2>3, <2>4, <3>1, Zenon
  <2>6. EndsBefore(pos + 2) = EndsBefore(pos)
    <3>1. pos + 1 # pointer_len /\ At(pos + 1) # "/"
      BY <1>2, <1>4, <2>2 DEF Escaped
    <3>2. pos + 1 \notin SegmentEnds
      BY <3>1, Zenon DEF SegmentEnds
    <3>3. pos + 1 \in Nat /\ pos + 1 >= 1 /\ (pos + 1) + 1 = pos + 2
      BY <1>2
    <3>4. EndsBefore((pos + 1) + 1) = EndsBefore(pos + 1) + 0
      BY <3>2, <3>3, EndsStep
    <3> QED BY <1>2, <3>3, <3>4
  <2> HIDE DEF c
  <2> QED BY <1>1, <2>1, <2>2, <2>4, <2>5, <2>6, FillOn
<1> QED BY <1>3, <1>4

\* fj_pointer_fill_segments enters a segment.
LEMMA FillSegmentStep ==
  ASSUME PointersAssumption, ParseInv, FillSegment
  PROVE  ParseInv'
<1> DEFINE open == SubSeq(storage, SegsLen + 1, Len(storage))
           entry == [start |-> SegsLen, len |-> Len(storage) - SegsLen]
<1>1. /\ phase = "fill" /\ pos <= pointer_len /\ SegEnds
      /\ segs' = Append(segs, entry) /\ pos' = pos + 1
      /\ UNCHANGED <<pointer, limit, phase, seg_count, storage, parse_status>>
  BY Zenon DEF FillSegment
<1>2. /\ pos \in Nat /\ pos >= 1 /\ pointer_len \in Nat
      /\ pointer \in Seq(Chars) /\ pointer_len = Len(pointer)
      /\ storage \in Seq(Chars) /\ segs \in Seq([start : Nat, len : Nat])
      /\ Len(storage) \in Nat /\ Len(segs) \in Nat
      /\ pointer_len' = pointer_len
  BY <1>1, TextType, EndsStay DEF ParseInv, ParseType, pointer_len
<1>3. Counted /\ WritesInBounds /\ Filled /\ EscapesRight(Behind)
  BY <1>1, Zenon DEF ParseInv
<1>4. /\ pointer # <<>> /\ pointer[1] = "/" /\ nsegs_ok
      /\ seg_count = EndsBefore(pointer_len + 1) /\ Len(segs) = EndsBefore(pos)
  BY <1>1, <1>3, Zenon DEF Counted
<1>5. SegsLen \in 0 .. Len(storage)
  BY <1>2, <1>3, SegsLenFits
<1>6. /\ entry \in [start : Nat, len : Nat] /\ entry.start + entry.len = Len(storage)
      /\ entry.start = SegsLen
  BY <1>2, <1>5
<1>7. /\ segs' \in Seq([start : Nat, len : Nat]) /\ Len(segs') = Len(segs) + 1
      /\ segs' # <<>> /\ segs'[Len(segs) + 1] = entry
      /\ \A n \in 1 .. Len(segs) : segs'[n] = segs[n]
  <2> DEFINE R == [start : Nat, len : Nat]
  <2>1. segs \in Seq(R) /\ entry \in R
    BY <1>2, <1>6
  <2> HIDE DEF R, entry
  <2>2. /\ segs' \in Seq(R) /\ Len(segs') = Len(segs) + 1
        /\ segs' # <<>> /\ segs'[Len(segs) + 1] = entry
        /\ \A n \in 1 .. Len(segs) : segs'[n] = segs[n]
    BY <1>1, <2>1, AppendProperties
  <2> QED BY <2>2 DEF R
<1> HIDE DEF entry
<1>8. ParseType'
  <2>1. (pos \in 1 .. pointer_len + 1)'
    BY <1>1, <1>2
  <2> QED BY <1>1, <1>7, <2>1, Zenon DEF ParseInv, ParseType
<1>9. EndsBefore(pos + 1) = EndsBefore(pos) + 1
  <2>1. pos \in SegmentEnds
    BY <1>1, <1>2 DEF SegmentEnds, SegEnds
  <2> QED BY <1>2, <2>1, EndsStep
<1>10. EndsBefore(pos)' = EndsBefore(pos + 1)
       /\ EndsBefore(pointer_len + 1)' = EndsBefore(pointer_len + 1)
  BY <1>1, Zenon DEF EndsBefore, SegmentEnds, At, pointer_len
<1>11. nsegs_ok' <=> nsegs_ok
  BY <1>1, Zenon DEF nsegs_ok
<1>12. Counted'
  BY <1>1, <1>4, <1>7, <1>9, <1>10, <1>11 DEF Counted
<1>13. WritesInBounds'
  <2>1. Len(segs') <= seg_count'
    <3>1. EndsBefore(pos + 1) <= EndsBefore(pointer_len + 1)
      BY <1>1, <1>2, EndsMonotone
    <3> QED BY <1>1, <1>4, <1>7, <1>9, <3>1
  <2>2. ASSUME NEW n \in DOMAIN segs' PROVE segs'[n].start + segs'[n].len <= Len(storage')
    <3>1. n \in 1 .. Len(segs) + 1
      BY <1>7, <2>2
    <3>2. CASE n = Len(segs) + 1
      BY <1>1, <1>2, <1>6, <1>7, <3>2
    <3>3. CASE n # Len(segs) + 1
      <4>1. n \in DOMAIN segs /\ n \in 1 .. Len(segs)
        <5> DEFINE L == Len(segs)
        <5>1. L \in Nat /\ n \in 1 .. L + 1 /\ n # L + 1 /\ DOMAIN segs = 1 .. L
          BY <1>2, <3>1, <3>3
        <5> HIDE DEF L
        <5>2. n \in 1 .. L
          BY <5>1
        <5> QED BY <5>1, <5>2 DEF L
      <4>2. segs[n].start + segs[n].len <= Len(storage)
        BY <1>3, <4>1, Zenon DEF WritesInBounds
      <4> QED BY <1>1, <1>7, <4>1, <4>2
    <3> QED BY <3>2, <3>3
  <2>3. Len(storage') <= pointer_len'
    BY <1>1, <1>2, <1>3, Zenon DEF WritesInBounds
  <2> QED BY <2>1, <2>2, <2>3, Zenon DEF WritesInBounds
<1>14. Behind = pos
  BY <1>1, <1>2 DEF Behind
<1>15. SegsLen' = Len(storage)
  <2>1. SegsLen' = segs'[Len(segs')].start + segs'[Len(segs')].len
    BY <1>7, Zenon DEF SegsLen
  <2> QED BY <1>6, <1>7, <2>1
<1>16. open \in Seq(Chars) /\ Spelling(open) \in Seq(Chars)
  <2>1. open \in Seq(Chars)
    BY <1>2, <1>5
  <2> HIDE DEF open
  <2> QED BY <2>1, SpellingAppend
<1>17. Spellings \in Seq(Seq(Chars)) /\ FlattenSeq(Spellings) \in Seq(Chars)
  BY <1>2, <1>3, SpellingsType
<1>18. Spellings' = Append(Spellings, Spelling(open))
  <2> DEFINE new == [n \in DOMAIN segs' |-> Spelling(SegText(segs'[n]))]
  <2>1. Spellings' = new
    BY <1>1, Zenon DEF Spellings, SegText, Spelling, Escape, EscapeChar
  <2>2. DOMAIN segs' = 1 .. Len(segs) + 1 /\ DOMAIN segs = 1 .. Len(segs) /\ Len(segs) \in Nat
    BY <1>2, <1>7
  <2>3. SegText(entry) = open
    BY <1>6, Zenon DEF SegText
  <2>4. new[Len(segs) + 1] = Spelling(open)
    <3>1. Len(segs) + 1 \in DOMAIN segs'
      BY <2>2
    <3>2. new[Len(segs) + 1] = Spelling(SegText(segs'[Len(segs) + 1]))
      BY <3>1, Zenon
    <3> HIDE DEF new
    <3> QED BY <1>7, <2>3, <3>2, Zenon
  <2>5. ASSUME NEW n \in 1 .. Len(segs) PROVE new[n] = Spellings[n]
    <3>1. n \in DOMAIN segs' /\ n \in DOMAIN segs /\ segs'[n] = segs[n]
      BY <1>7, <2>2
    <3> QED BY <3>1, Zenon DEF Spellings
  <2>6. DOMAIN new = 1 .. Len(segs) + 1 /\ Len(Spellings) = Len(segs)
    BY <2>2 DEF Spellings
  <2>7. \A n \in 1 .. Len(segs) + 1 : new[n] \in Seq(Chars)
    <3>1. ASSUME NEW n \in 1 .. Len(segs) PROVE new[n] \in Seq(Chars)
      <4>1. Spellings[n] \in Seq(Chars)
        <5> HIDE DEF new
        <5> QED BY <1>17, <2>6, ElementOfSeq
      <4> QED BY <2>5, <4>1
    <3> HIDE DEF new, open
    <3> QED BY <1>16, <2>2, <2>4, <3>1
  <2>8. new \in Seq(Seq(Chars)) /\ Len(new) = Len(segs) + 1
    <3>1. new = [n \in 1 .. Len(segs) + 1 |-> new[n]]
      BY <2>2
    <3> HIDE DEF new
    <3> QED BY <2>2, <2>6, <2>7, <3>1
  <2> HIDE DEF new, open
  <2>9. /\ Append(Spellings, Spelling(open)) \in Seq(Seq(Chars))
        /\ Len(Append(Spellings, Spelling(open))) = Len(segs) + 1
        /\ \A n \in 1 .. Len(segs) : Append(Spellings, Spelling(open))[n] = Spellings[n]
        /\ Append(Spellings, Spelling(open))[Len(segs) + 1] = Spelling(open)
    BY <1>16, <1>17, <2>6, AppendProperties
  <2>10. ASSUME NEW n \in 1 .. Len(segs) + 1
         PROVE  new[n] = Append(Spellings, Spelling(open))[n]
    <3>1. CASE n = Len(segs) + 1
      BY <2>4, <2>9, <3>1
    <3>2. CASE n # Len(segs) + 1
      <4>1. n \in 1 .. Len(segs)
        BY <2>2, <3>2
      <4> QED BY <2>5, <2>9, <4>1
    <3> QED BY <3>1, <3>2
  <2>11. new = Append(Spellings, Spelling(open))
    BY <2>8, <2>9, <2>10, SeqEqual
  <2> QED BY <2>1, <2>11
<1>19. SubSeq(pointer, 1, pos) = FlattenSeq(Spellings) \o Spelling(open)
  <2>1. ~(pos > pointer_len)
    BY <1>1, <1>2
  <2> QED BY <1>3, <1>14, <2>1, Zenon DEF Filled
<1>20. FlattenSeq(Spellings)' = SubSeq(pointer, 1, pos)
  <2> HIDE DEF open
  <2>1. FlattenSeq(Append(Spellings, Spelling(open))) = FlattenSeq(Spellings) \o Spelling(open)
    BY <1>16, <1>17, FlattenAppend
  <2> QED BY <1>18, <1>19, <2>1, Zenon
<1>21. Len(storage) < pos /\ (Len(storage) < pos)'
  <2>1. Len(storage) < pos
    BY <1>3, Zenon DEF Filled
  <2> QED BY <1>1, <1>2, <2>1
<1>22. CASE pos = pointer_len
  <2>1. (pos > pointer_len)' /\ Behind' = pos
    BY <1>1, <1>2, <1>22 DEF Behind
  <2>2. EscapesRight(Behind)'
    BY <1>1, <1>3, <1>14, <2>1, Zenon DEF EscapesRight
  <2>3. SubSeq(pointer, 1, pos) \o <<>> = SubSeq(pointer, 1, pos)
    <3>1. SubSeq(pointer, 1, pos) \in Seq(Chars)
      BY <1>2, <1>22
    <3> QED BY <3>1, ConcatSimplifications
  <2>4. SubSeq(pointer, 1, Behind)' = SubSeq(pointer, 1, pos)
    BY <1>1, <2>1, Zenon
  <2>5. Filled'
    BY <1>20, <1>21, <2>1, <2>3, <2>4, Zenon DEF Filled
  <2>6. ~(phase = "done")'
    BY <1>1
  <2> QED BY <1>8, <1>12, <1>13, <2>2, <2>5, <2>6, Zenon DEF ParseInv, ParsesThePointer
<1>23. CASE pos # pointer_len
  <2>1. pos < pointer_len /\ At(pos) = "/"
    BY <1>1, <1>2, <1>23 DEF SegEnds
  <2>2. ~(pos > pointer_len)' /\ Behind' = pos + 1
    BY <1>1, <1>2, <2>1 DEF Behind
  <2>3. pointer[pos + 1] = "/"
    BY <1>2, <2>1, TextType
  <2>4. EscapesRight(pos + 1)
    <3>1. pos + 1 = pos + (IF At(pos) = "~" THEN 2 ELSE 1) /\ At(pos) # "~"
      BY <2>1
    <3> QED BY <1>2, <1>3, <1>14, <2>1, <3>1, GoodEscape
  <2>5. EscapesRight(Behind)'
    BY <1>1, <2>2, <2>4, Zenon DEF EscapesRight
  <2>6. SubSeq(pointer, 1, pos + 1) = SubSeq(pointer, 1, pos) \o <<"/">>
    <3>1. pos \in 0 .. Len(pointer) - 1
      BY <1>2, <2>1
    <3>2. SubSeq(pointer, 1, pos + 1) = SubSeq(pointer, 1, pos) \o <<pointer[pos + 1]>>
      BY <1>2, <3>1, Longer
    <3> QED BY <2>3, <3>2, Zenon
  <2>7. SubSeq(storage, SegsLen + 1, Len(storage))' = <<>>
    BY <1>1, <1>2, <1>15
  <2>8. Spelling(SubSeq(storage, SegsLen + 1, Len(storage)))' = <<"/">>
    <3>1. Spelling(SubSeq(storage, SegsLen + 1, Len(storage)))' = Spelling(<<>>)
      BY <2>7, Zenon DEF Spelling, Escape, EscapeChar
    <3> QED BY <3>1, SpellNothing
  <2>9. SubSeq(pointer, 1, Behind)' = SubSeq(pointer, 1, pos + 1)
    BY <1>1, <2>2, Zenon
  <2>10. Filled'
    BY <1>20, <1>21, <2>2, <2>6, <2>8, <2>9, Zenon DEF Filled
  <2>11. ~(phase = "done")'
    BY <1>1
  <2> QED BY <1>8, <1>12, <1>13, <2>5, <2>10, <2>11, Zenon DEF ParseInv, ParsesThePointer
<1> QED BY <1>22, <1>23

\* All of the pointer has been filled: the passes have met the same ends.
LEMMA FillEndsStep ==
  ASSUME PointersAssumption, ParseInv, FillEnds
  PROVE  ParseInv'
<1>1. /\ phase = "fill" /\ pos > pointer_len
      /\ Finish(IF Len(segs) = seg_count THEN "OK" ELSE "SETTABLE_FAIL")
  BY Zenon DEF FillEnds
<1>2. /\ pointer # <<>> /\ pointer[1] = "/" /\ nsegs_ok /\ Filled
      /\ seg_count = EndsBefore(pointer_len + 1) /\ Len(segs) = EndsBefore(pos)
      /\ EscapesRight(Behind)
  BY <1>1, Zenon DEF ParseInv, Counted
<1>3. pos = pointer_len + 1 /\ Behind = Len(pointer) /\ pointer \in Seq(Chars)
  BY <1>1, TextType DEF ParseInv, ParseType, Behind, pointer_len
<1>4. Finish("OK")
  BY <1>1, <1>2, <1>3, Zenon
<1>5. Verdict = "OK"
  BY <1>2, <1>3, Zenon DEF Verdict, WellFormed
<1>6. SegmentsSpellThePointer
  <2>1. SubSeq(pointer, 1, Len(pointer)) = pointer
    BY <1>3
  <2>2. FlattenSeq(Spellings) \in Seq(Chars)
    BY SpellingsType DEF ParseInv, ParseType
  <2>3. FlattenSeq(Spellings) \o <<>> = FlattenSeq(Spellings)
    BY <2>2, ConcatSimplifications
  <2> QED BY <1>1, <1>2, <1>3, <2>1, <2>3, Zenon DEF Filled, SegmentsSpellThePointer
<1> QED BY <1>4, <1>5, <1>6, FinishStep

\* The invariant holds when fj_pointer_parse is called.
LEMMA ParseStarts ==
  ASSUME PointersAssumption, LimitsAssumption, ParseInit
  PROVE  ParseInv
<1> USE DEF ParseInit
<1>1. pointer \in Seq(Chars) /\ pointer_len \in Nat
  BY DEF PointersAssumption, pointer_len
<1>2. ParseType
  BY <1>1 DEF ParseType
<1>3. Counted
  BY DEF Counted
<1>4. WritesInBounds
  BY <1>1 DEF WritesInBounds
<1>5. phase = "start"
  OBVIOUS
<1> QED BY <1>2, <1>3, <1>4, <1>5 DEF ParseInv, ParsesThePointer

\* The invariant depends on the parser's state only.
LEMMA ParseStutter ==
  ASSUME ParseInv, UNCHANGED parse_vars
  PROVE  ParseInv'
<1>1. UNCHANGED <<pointer, limit, phase, pos, seg_count, storage, segs, parse_status>>
  BY DEF parse_vars
<1>2. ParseType' /\ Counted'
  BY <1>1, Zenon DEF ParseInv, ParseType, Counted, pointer_len, EndsBefore, SegmentEnds, At,
     nsegs_ok
<1>3. WritesInBounds' /\ (EscapesRight(Behind) <=> EscapesRight(Behind)')
  BY <1>1, Zenon DEF ParseInv, WritesInBounds, EscapesRight, Behind, pointer_len
<1>5. /\ Spellings' = Spellings /\ SegsLen' = SegsLen /\ Behind' = Behind
      /\ pointer_len' = pointer_len
  BY <1>1, Zenon DEF Spellings, SegText, Spelling, Escape, EscapeChar, SegsLen, Behind, pointer_len
<1>6. Filled <=> Filled'
  BY <1>1, <1>5, Zenon DEF Filled, Spelling, Escape, EscapeChar
<1>4. ParsesThePointer'
  BY <1>1, Zenon DEF ParseInv, ParsesThePointer, Verdict, WellFormed, EscapesRight,
     nsegs_ok, SegmentsSpellThePointer, Spellings, SegText
<1> QED BY <1>1, <1>2, <1>3, <1>4, <1>6, Zenon DEF ParseInv

\* Every step keeps the invariant.
LEMMA ParseSteps ==
  ASSUME PointersAssumption, ParseInv, [ParseNext]_parse_vars
  PROVE  ParseInv'
<1>1. CASE ParseNext
  BY <1>1, StartStep, CountSegmentStep, GateStep, PrescanOnStep, PrescanEndsStep,
     FillPlainStep, FillEscapeStep, FillSegmentStep, FillEndsStep, Zenon DEF ParseNext
<1>2. CASE UNCHANGED parse_vars
  BY <1>2, ParseStutter
<1> QED BY <1>1, <1>2

\* The inductive invariant of fj_pointer_parse, for every text over any
\* characters and for every limit on depth and segments.
THEOREM ParseInvariant == ParseSpec => []ParseInv
<1>1. ParseInit => ParseInv
  BY ParseStarts, PointersAssumption, LimitsAssumption
<1>2. ParseInv /\ [ParseNext]_parse_vars => ParseInv'
  BY ParseSteps, PointersAssumption
<1> QED BY <1>1, <1>2, PTL DEF ParseSpec

\* The pass that fills the arrays writes no entry beyond the number the
\* counting pass allocated and no byte beyond the length of the pointer.
THEOREM ParserStaysInBounds == ParseSpec => []WritesInBounds
<1>1. ParseInv => WritesInBounds
  BY Zenon DEF ParseInv
<1> QED BY <1>1, ParseInvariant, PTL

\* fj_pointer_parse answers for every text what RFC 6901 says of it: the
\* segments it spells, or that it is malformed, and DEPTH only where it is
\* well formed.
THEOREM ParserIsExact == ParseSpec => []ParsesThePointer
<1>1. ParseInv => ParsesThePointer
  BY Zenon DEF ParseInv
<1> QED BY <1>1, ParseInvariant, PTL

\* fj_seg_is_index takes a segment for an index exactly when it is a canonical
\* numeral that size_t can hold, and then yields that number: for every
\* number of digits and every size_t.
THEOREM IndexesAreNumerals == ParseSpec => []IndexIsTheNumeral
<1>1. ParseInv => IndexIsTheNumeral
  <2>1. SUFFICES ASSUME ParseInv, NEW n \in DOMAIN segs
                 PROVE  LET str == SegText(segs[n])
                        IN fj_seg_is_index(str) =
                              IF Canonical(str) /\ Numeral(str) <= SizeMax
                              THEN Numeral(str) ELSE -1
    BY Zenon DEF IndexIsTheNumeral
  <2>2. SegText(segs[n]) \in Seq(Chars)
    BY <2>1, SegTextType DEF ParseInv, ParseType
  <2> QED BY <2>2, IndexExact, LimitsAssumption
<1> QED BY <1>1, ParseInvariant, PTL
=============================================================================
