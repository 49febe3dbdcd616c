---------------------------- MODULE DataInduction ----------------------------
(***************************************************************************)
(* Induction and recursion over the naturals, stated with a set of numbers *)
(* and a set-theoretic function where the library's theorems take an       *)
(* operator.  A proof applies them to sets and functions it builds itself. *)
(***************************************************************************)
EXTENDS Integers, SequencesExt, SequenceTheorems, WellFoundedInduction, TLAPS

\* A non-empty set of naturals has a least element.
LEMMA LeastElement ==
  ASSUME NEW T \in SUBSET Nat, T # {}
  PROVE  \E x \in T : \A y \in T : x <= y
<1> DEFINE R == {ss \in Nat \X Nat : ss[1] < ss[2]}
<1>1. IsWellFoundedOn(R, Nat)
  BY NatLessThanWellFounded, Zenon DEF OpToRel
<1>2. T \subseteq Nat
  OBVIOUS
<1> HIDE DEF R
<1>3. \E x \in T : \A y \in T : ~ (<<y, x>> \in R)
  BY <1>1, <1>2, WFMin, Zenon
<1>4. PICK x \in T : \A y \in T : ~ (<<y, x>> \in R)
  BY <1>3
<1>5. ASSUME NEW y \in T PROVE x <= y
  <2>1. x \in Nat /\ y \in Nat
    OBVIOUS
  <2>2. y < x => <<y, x>> \in R
    BY <2>1 DEF R
  <2> QED BY <1>4, <2>1, <2>2
<1> QED BY <1>5

\* Mathematical induction over a set of naturals.
LEMMA SetInduction ==
  ASSUME NEW P, 0 \in P, \A n \in Nat : n \in P => n + 1 \in P
  PROVE  \A n \in Nat : n \in P
<1>1. SUFFICES ASSUME NEW n \in Nat, n \notin P PROVE FALSE
  OBVIOUS
<1> DEFINE T == {m \in Nat : m \notin P}
<1>2. T \in SUBSET Nat /\ T # {}
  BY <1>1
<1>3. PICK x \in T : \A y \in T : x <= y
  BY <1>2, LeastElement
<1>4. x \in Nat /\ x # 0 /\ x \notin P
  OBVIOUS
<1>5. x - 1 \in Nat /\ x - 1 \in P
  BY <1>3, <1>4
<1> QED BY <1>4, <1>5

\* Induction up to a bound.
LEMMA InductionUpTo ==
  ASSUME NEW P, NEW L \in Nat, 0 \in P, \A n \in 0 .. L - 1 : n \in P => n + 1 \in P
  PROVE  \A n \in 0 .. L : n \in P
<1> DEFINE Q == {n \in Nat : n <= L => n \in P}
<1>1. 0 \in Q
  OBVIOUS
<1>2. ASSUME NEW n \in Nat, n \in Q PROVE n + 1 \in Q
  BY <1>2
<1>3. \A n \in Nat : n \in Q
  <2> HIDE DEF Q
  <2> QED BY <1>1, <1>2, SetInduction
<1> QED BY <1>3

\* f starts at f0, and D makes its value at n + 1 out of the one at n.
SolvesRecursion(f, S, f0, D) ==
  /\ f \in [Nat -> S]
  /\ f[0] = f0
  /\ \A n \in Nat : f[n + 1] = D[n][f[n]]

StepFunctions(S) == [Nat -> [S -> S]]

(***************************************************************************)
(* A function defined by primitive recursion exists: its value at 0 is f0, *)
(* and at n + 1 what the step D makes of n and the value at n.             *)
(***************************************************************************)
LEMMA RecursionExists ==
  ASSUME NEW S, NEW f0 \in S, NEW D \in StepFunctions(S)
  PROVE  \E f : SolvesRecursion(f, S, f0, D)
<1> USE DEF StepFunctions
<1> DEFINE Upto(m, g) == /\ g \in [0 .. m -> S]
                         /\ g[0] = f0
                         /\ \A i \in 0 .. m - 1 : g[i + 1] = D[i][g[i]]
           Has == {m \in Nat : \E g \in [0 .. m -> S] : Upto(m, g)}
<1>1. 0 \in Has
  <2> DEFINE z == [i \in 0 .. 0 |-> f0]
  <2>1. z \in [0 .. 0 -> S] /\ Upto(0, z)
    OBVIOUS
  <2> QED BY <2>1
<1>2. ASSUME NEW m \in Nat, m \in Has PROVE m + 1 \in Has
  <2>1. PICK g \in [0 .. m -> S] : Upto(m, g)
    BY <1>2
  <2> DEFINE h == [i \in 0 .. m + 1 |-> IF i <= m THEN g[i] ELSE D[m][g[m]]]
  <2>2. g[m] \in S /\ D[m][g[m]] \in S
    BY <2>1
  <2>3. h \in [0 .. m + 1 -> S]
    BY <2>1, <2>2
  <2>4. ASSUME NEW i \in 0 .. m PROVE h[i + 1] = D[i][h[i]]
    <3>1. CASE i = m
      BY <3>1, <2>1
    <3>2. CASE i < m
      BY <3>2, <2>1
    <3> QED BY <3>1, <3>2
  <2>5. h[0] = f0
    BY <2>1
  <2> HIDE DEF h
  <2>6. m + 1 \in Nat /\ (m + 1) - 1 = m
    OBVIOUS
  <2>7. Upto(m + 1, h)
    BY <2>3, <2>4, <2>5, <2>6
  <2> HIDE DEF Upto
  <2> QED BY <2>3, <2>6, <2>7
<1>3. \A m \in Nat : m \in Has
  <2> HIDE DEF Has
  <2> QED BY <1>1, <1>2, SetInduction
<1> DEFINE pick == [m \in Nat |-> CHOOSE g \in [0 .. m -> S] : Upto(m, g)]
<1>4. \A m \in Nat : Upto(m, pick[m])
  BY <1>3
<1> HIDE DEF pick
<1>5. ASSUME NEW m \in Nat, NEW n \in Nat, m <= n PROVE pick[n][m] = pick[m][m]
  <2> DEFINE Agree == {i \in Nat : i <= m => pick[n][i] = pick[m][i]}
  <2>1. 0 \in Agree
    BY <1>4, <1>5
  <2>2. ASSUME NEW i \in Nat, i \in Agree PROVE i + 1 \in Agree
    <3>1. CASE i + 1 <= m
      <4>1. i \in 0 .. m - 1 /\ i \in 0 .. n - 1
        BY <3>1, <1>5
      <4>2. pick[n][i + 1] = D[i][pick[n][i]]
        BY <4>1, <1>4
      <4>3. pick[m][i + 1] = D[i][pick[m][i]]
        BY <4>1, <1>4
      <4> QED BY <4>1, <4>2, <4>3, <2>2
    <3>2. CASE ~ (i + 1 <= m)
      BY <3>2
    <3> QED BY <3>1, <3>2
  <2>3. \A i \in Nat : i \in Agree
    <3> HIDE DEF Agree
    <3> QED BY <2>1, <2>2, SetInduction
  <2> QED BY <2>3
<1> DEFINE f == [n \in Nat |-> pick[n][n]]
<1>6. f \in [Nat -> S]
  <2>1. ASSUME NEW n \in Nat PROVE pick[n][n] \in S
    BY <1>4
  <2> QED BY <2>1
<1>7. f[0] = f0
  BY <1>4
<1>8. ASSUME NEW n \in Nat PROVE f[n + 1] = D[n][f[n]]
  <2>1. n \in 0 .. (n + 1) - 1 /\ n + 1 \in Nat
    OBVIOUS
  <2>2. pick[n + 1][n + 1] = D[n][pick[n + 1][n]]
    BY <2>1, <1>4
  <2>3. pick[n + 1][n] = pick[n][n]
    BY <1>5, <2>1
  <2> QED BY <2>1, <2>2, <2>3
<1> HIDE DEF f
<1>9. SolvesRecursion(f, S, f0, D)
  BY <1>6, <1>7, <1>8 DEF SolvesRecursion
<1> QED BY <1>9

\* A fold over the first L numbers exists: f starts at f0, and D makes its value
\* at n out of the one before.
LEMMA FoldExists ==
  ASSUME NEW S, NEW f0 \in S, NEW L \in Nat, NEW D \in [1 .. L -> [S -> S]]
  PROVE  \E f \in [0 .. L -> S] : f[0] = f0 /\ \A n \in 1 .. L : f[n] = D[n][f[n - 1]]
<1> DEFINE E == [n \in Nat |-> [b \in S |-> IF n < L THEN D[n + 1][b] ELSE b]]
<1>1. E \in [Nat -> [S -> S]]
  <2>1. ASSUME NEW n \in Nat, NEW b \in S PROVE (IF n < L THEN D[n + 1][b] ELSE b) \in S
    <3>1. CASE n < L
      <4>1. n + 1 \in 1 .. L
        BY <3>1
      <4>2. D[n + 1] \in [S -> S]
        BY <4>1
      <4> QED BY <3>1, <4>2
    <3>2. CASE ~ (n < L)
      BY <3>2
    <3> QED BY <3>1, <3>2
  <2> QED BY <2>1
<1>2. \A n \in Nat : \A b \in S : n < L => E[n][b] = D[n + 1][b]
  OBVIOUS
<1>3. PICK g : SolvesRecursion(g, S, f0, E)
  <2> HIDE DEF E
  <2> QED BY <1>1, RecursionExists DEF StepFunctions
<1> HIDE DEF E
<1>4. g \in [Nat -> S] /\ g[0] = f0 /\ \A n \in Nat : g[n + 1] = E[n][g[n]]
  BY <1>3 DEF SolvesRecursion
<1> DEFINE f == [n \in 0 .. L |-> g[n]]
<1>5. f \in [0 .. L -> S] /\ f[0] = f0
  BY <1>4
<1>6. ASSUME NEW n \in 1 .. L PROVE f[n] = D[n][f[n - 1]]
  <2>1. n - 1 \in Nat /\ n - 1 < L /\ (n - 1) + 1 = n
    OBVIOUS
  <2>2. g[n - 1] \in S /\ g[(n - 1) + 1] = E[n - 1][g[n - 1]]
    BY <1>4, <2>1
  <2>3. E[n - 1][g[n - 1]] = D[(n - 1) + 1][g[n - 1]]
    BY <1>2, <2>1, <2>2
  <2>4. f[n] = g[n] /\ f[n - 1] = g[n - 1]
    OBVIOUS
  <2> HIDE DEF f
  <2> QED BY <2>1, <2>2, <2>3, <2>4
<1> HIDE DEF f
<1> QED BY <1>5, <1>6

-----------------------------------------------------------------------------
(* Sequences put together from pieces.                                     *)

\* The concatenation of pieces, given the concatenations of the first ones.
LEMMA FlattenIs ==
  ASSUME NEW S, NEW ss \in Seq(Seq(S)), NEW g \in [Nat -> Seq(S)], g[0] = <<>>,
         \A n \in 1 .. Len(ss) : g[n] = g[n - 1] \o ss[n]
  PROVE  FlattenSeq(ss) = g[Len(ss)]
<1> DEFINE L == Len(ss)
           Def(f) == [k \in 1 .. L |-> IF k = 1 THEN ss[k] ELSE f[k - 1] \o ss[k]]
           h == [k \in 1 .. L |-> g[k]]
<1>1. L \in Nat
  OBVIOUS
<1>2. CASE L = 0
  <2>1. ss = <<>>
    BY <1>2
  <2> QED BY <1>2, <2>1 DEF FlattenSeq
<1>3. CASE L # 0
  <2>1. ASSUME NEW k \in 1 .. L
        PROVE  g[k] = IF k = 1 THEN ss[k] ELSE h[k - 1] \o ss[k]
    <3>0. ss[k] \in Seq(S)
      OBVIOUS
    <3>1. g[k] = g[k - 1] \o ss[k]
      BY Zenon
    <3>2. CASE k = 1
      <4>1. k - 1 = 0 /\ <<>> \o ss[k] = ss[k]
        BY <3>0, <3>2
      <4>2. g[k] = <<>> \o ss[k]
        BY <3>1, <4>1, Zenon
      <4> QED BY <3>2, <4>1, <4>2, Zenon
    <3>3. CASE k # 1
      <4>1. k - 1 \in 1 .. L
        BY <3>3, <1>1
      <4> QED BY <3>1, <3>3, <4>1
    <3> QED BY <3>2, <3>3
  <2>2. h = Def(h)
    BY <2>1
  <2>3. ASSUME NEW f, f = Def(f) PROVE f[L] = g[L]
    <3> DEFINE P == {k \in Nat : k >= 1 => f[k] = g[k]}
    <3>0. \A k \in 1 .. L : f[k] = IF k = 1 THEN ss[k] ELSE f[k - 1] \o ss[k]
      BY <2>3
    <3>1. 0 \in P
      OBVIOUS
    <3>2. ASSUME NEW k \in 0 .. L - 1, k \in P PROVE k + 1 \in P
      <4>1. /\ k + 1 \in 1 .. L /\ (k + 1) - 1 = k /\ k + 1 \in Nat
            /\ ss[k + 1] \in Seq(S)
        BY <1>1
      <4>4. g[k + 1] = g[k] \o ss[k + 1]
        <5>1. g[k + 1] = g[(k + 1) - 1] \o ss[k + 1]
          BY <4>1, Zenon
        <5> QED BY <4>1, <5>1
      <4>2. CASE k = 0
        <5>1. k + 1 = 1 /\ <<>> \o ss[k + 1] = ss[k + 1]
          BY <4>1, <4>2
        <5>2. g[k + 1] = <<>> \o ss[k + 1]
          BY <4>2, <4>4, Zenon
        <5>3. f[k + 1] = ss[k + 1]
          BY <3>0, <4>1, <5>1, Zenon
        <5>4. f[k + 1] = g[k + 1]
          BY <5>1, <5>2, <5>3, Zenon
        <5> QED BY <4>1, <5>4
      <4>3. CASE k # 0
        <5>1. f[k] = g[k]
          BY <3>2, <4>3
        <5>2. f[k + 1] = f[(k + 1) - 1] \o ss[k + 1]
          <6>1. k + 1 # 1
            BY <4>3
          <6> QED BY <3>0, <4>1, <6>1, Zenon
        <5> QED BY <4>1, <4>4, <5>1, <5>2
      <4> QED BY <4>2, <4>3
    <3>3. \A k \in 0 .. L : k \in P
      <4> HIDE DEF P, L
      <4> QED BY <1>1, <3>1, <3>2, InductionUpTo
    <3> QED BY <1>1, <1>3, <3>3
  <2> DEFINE c == CHOOSE f : f = Def(f)
  <2>4. c = Def(c)
    <3> HIDE DEF h, Def
    <3> QED BY <2>2
  <2>5. FlattenSeq(ss) = c[L]
    BY <1>3 DEF FlattenSeq
  <2> HIDE DEF c, Def
  <2> QED BY <2>3, <2>4, <2>5
<1> QED BY <1>2, <1>3

\* The concatenation of no pieces, and of one piece more.
LEMMA FlattenAppend ==
  ASSUME NEW S
  PROVE  /\ FlattenSeq(<<>>) = <<>>
         /\ \A ss \in Seq(Seq(S)) : FlattenSeq(ss) \in Seq(S)
         /\ \A ss \in Seq(Seq(S)), x \in Seq(S) :
                FlattenSeq(Append(ss, x)) = FlattenSeq(ss) \o x
<1>1. FlattenSeq(<<>>) = <<>>
  BY DEF FlattenSeq
<1>2. ASSUME NEW tt \in Seq(Seq(S))
      PROVE  \E g \in [Nat -> Seq(S)] :
                g[0] = <<>> /\ \A n \in 1 .. Len(tt) : g[n] = g[n - 1] \o tt[n]
  <2> DEFINE D == [n \in Nat |-> [v \in Seq(S) |->
                     IF n + 1 \in 1 .. Len(tt) THEN v \o tt[n + 1] ELSE v]]
  <2>1. <<>> \in Seq(S) /\ D \in StepFunctions(Seq(S))
    BY DEF StepFunctions
  <2>2. PICK g : SolvesRecursion(g, Seq(S), <<>>, D)
    <3> HIDE DEF D
    <3> QED BY <2>1, RecursionExists
  <2>3. g \in [Nat -> Seq(S)] /\ g[0] = <<>> /\ \A n \in Nat : g[n + 1] = D[n][g[n]]
    BY <2>2, Zenon DEF SolvesRecursion
  <2>4. ASSUME NEW n \in 1 .. Len(tt) PROVE g[n] = g[n - 1] \o tt[n]
    <3>1. n - 1 \in Nat /\ (n - 1) + 1 = n
      OBVIOUS
    <3>2. g[n] = D[n - 1][g[n - 1]] /\ g[n - 1] \in Seq(S)
      BY <2>3, <3>1
    <3> QED BY <3>1, <3>2
  <2> QED BY <2>3, <2>4
<1>3. ASSUME NEW ss \in Seq(Seq(S)) PROVE FlattenSeq(ss) \in Seq(S)
  <2>1. PICK g \in [Nat -> Seq(S)] :
           g[0] = <<>> /\ \A n \in 1 .. Len(ss) : g[n] = g[n - 1] \o ss[n]
    BY <1>2
  <2>2. FlattenSeq(ss) = g[Len(ss)]
    BY <2>1, FlattenIs
  <2> QED BY <2>2
<1>4. ASSUME NEW ss \in Seq(Seq(S)), NEW x \in Seq(S)
      PROVE  FlattenSeq(Append(ss, x)) = FlattenSeq(ss) \o x
  <2> DEFINE tt == Append(ss, x)
  <2>1. /\ tt \in Seq(Seq(S)) /\ Len(ss) \in Nat /\ Len(tt) = Len(ss) + 1
        /\ tt[Len(ss) + 1] = x /\ \A n \in 1 .. Len(ss) : tt[n] = ss[n]
    OBVIOUS
  <2> HIDE DEF tt
  <2>2. PICK g \in [Nat -> Seq(S)] :
           g[0] = <<>> /\ \A n \in 1 .. Len(tt) : g[n] = g[n - 1] \o tt[n]
    BY <2>1, <1>2
  <2>3. FlattenSeq(tt) = g[Len(tt)]
    BY <2>1, <2>2, FlattenIs
  <2>4. ASSUME NEW n \in 1 .. Len(ss) PROVE g[n] = g[n - 1] \o ss[n]
    <3>1. n \in 1 .. Len(tt) /\ tt[n] = ss[n]
      BY <2>1
    <3> QED BY <2>2, <3>1, Zenon
  <2>5. FlattenSeq(ss) = g[Len(ss)]
    BY <2>2, <2>4, FlattenIs
  <2>6. g[Len(ss) + 1] = g[Len(ss)] \o x
    <3>1. Len(tt) \in 1 .. Len(tt) /\ Len(tt) - 1 = Len(ss)
      BY <2>1
    <3>2. g[Len(tt)] = g[Len(tt) - 1] \o tt[Len(tt)]
      BY <2>2, <3>1, Zenon
    <3> QED BY <2>1, <3>1, <3>2
  <2> QED BY <2>1, <2>3, <2>5, <2>6 DEF tt
<1> QED BY <1>1, <1>3, <1>4

\* The concatenation of the first n pieces.
Flat(q, n) == FlattenSeq(SubSeq(q, 1, n))

LEMMA FlatSteps ==
  ASSUME NEW S, NEW q \in Seq(Seq(S))
  PROVE  /\ Flat(q, 0) = <<>> /\ FlattenSeq(q) = Flat(q, Len(q))
         /\ \A n \in 0 .. Len(q) : Flat(q, n) \in Seq(S)
         /\ \A n \in 1 .. Len(q) : Flat(q, n) = Flat(q, n - 1) \o q[n]
         /\ \A n \in 1 .. Len(q) : q[n] \in Seq(S)
<1>1. SubSeq(q, 1, 0) = <<>> /\ SubSeq(q, 1, Len(q)) = q
  OBVIOUS
<1>2. \A n \in 0 .. Len(q) : SubSeq(q, 1, n) \in Seq(Seq(S))
  OBVIOUS
<1>3. ASSUME NEW n \in 1 .. Len(q) PROVE SubSeq(q, 1, n) = Append(SubSeq(q, 1, n - 1), q[n])
  OBVIOUS
<1>4. \A n \in 1 .. Len(q) : q[n] \in Seq(S) /\ n - 1 \in 0 .. Len(q)
  OBVIOUS
<1> QED BY <1>1, <1>2, <1>3, <1>4, FlattenAppend, Zenon DEF Flat

LEMMA FlatConcat ==
  ASSUME NEW S, NEW q \in Seq(Seq(S)), NEW r \in Seq(Seq(S))
  PROVE  /\ FlattenSeq(q \o r) = FlattenSeq(q) \o FlattenSeq(r)
         /\ FlattenSeq(q) \in Seq(S)
<1> DEFINE c == q \o r
           lq == Len(q)
           lr == Len(r)
<1>1. c \in Seq(Seq(S)) /\ lq \in Nat /\ lr \in Nat /\ Len(c) = lq + lr
  OBVIOUS
<1>2. /\ \A n \in 1 .. lq : c[n] = q[n]
      /\ \A n \in 1 .. lr : c[lq + n] = r[n]
  OBVIOUS
<1>3. /\ Flat(c, 0) = <<>> /\ FlattenSeq(c) = Flat(c, lq + lr)
      /\ \A n \in 1 .. lq + lr : Flat(c, n) = Flat(c, n - 1) \o c[n]
  <2> HIDE DEF c, lq, lr
  <2> QED BY <1>1, FlatSteps
<1>4. /\ Flat(q, 0) = <<>> /\ FlattenSeq(q) = Flat(q, lq)
      /\ \A n \in 0 .. lq : Flat(q, n) \in Seq(S)
      /\ \A n \in 1 .. lq : Flat(q, n) = Flat(q, n - 1) \o q[n]
  BY FlatSteps
<1>5. /\ Flat(r, 0) = <<>> /\ FlattenSeq(r) = Flat(r, lr)
      /\ \A n \in 0 .. lr : Flat(r, n) \in Seq(S)
      /\ \A n \in 1 .. lr : Flat(r, n) = Flat(r, n - 1) \o r[n] /\ r[n] \in Seq(S)
  BY FlatSteps
<1> HIDE DEF c, lq, lr
<1>6. \A n \in 0 .. lq : Flat(c, n) = Flat(q, n)
  <2> DEFINE P == {n \in Nat : n <= lq => Flat(c, n) = Flat(q, n)}
  <2>1. 0 \in P
    BY <1>3, <1>4
  <2>2. ASSUME NEW n \in 0 .. lq - 1, n \in P PROVE n + 1 \in P
    <3>1. n + 1 \in 1 .. lq /\ n + 1 \in 1 .. lq + lr /\ (n + 1) - 1 = n /\ Flat(c, n) = Flat(q, n)
      BY <1>1, <2>2
    <3>2. Flat(c, n + 1) = Flat(c, n) \o c[n + 1] /\ Flat(q, n + 1) = Flat(q, n) \o q[n + 1]
      BY <1>3, <1>4, <3>1
    <3>3. Flat(c, n + 1) = Flat(q, n + 1)
      BY <1>2, <3>1, <3>2, Zenon
    <3> QED BY <2>2, <3>3
  <2>3. \A n \in 0 .. lq : n \in P
    <3> HIDE DEF P
    <3> QED BY <1>1, <2>1, <2>2, InductionUpTo
  <2> QED BY <2>3
<1>7. \A n \in 0 .. lr : Flat(c, lq + n) = Flat(q, lq) \o Flat(r, n)
  <2> DEFINE P == {n \in Nat : n <= lr => Flat(c, lq + n) = Flat(q, lq) \o Flat(r, n)}
  <2>0. Flat(q, lq) \in Seq(S)
    BY <1>1, <1>4
  <2>1. 0 \in P
    <3>1. lq + 0 = lq /\ lq \in 0 .. lq
      BY <1>1
    <3>2. Flat(q, lq) \o <<>> = Flat(q, lq)
      BY <2>0
    <3> QED BY <1>5, <1>6, <3>1, <3>2
  <2>2. ASSUME NEW n \in 0 .. lr - 1, n \in P PROVE n + 1 \in P
    <3>1. /\ n + 1 \in 1 .. lr /\ lq + (n + 1) \in 1 .. lq + lr /\ (n + 1) - 1 = n
          /\ (lq + (n + 1)) - 1 = lq + n /\ n \in 0 .. lr
          /\ Flat(c, lq + n) = Flat(q, lq) \o Flat(r, n)
      BY <1>1, <2>2
    <3>2. Flat(c, lq + (n + 1)) = Flat(c, lq + n) \o c[lq + (n + 1)]
      BY <1>3, <3>1
    <3>3. Flat(r, n + 1) = Flat(r, n) \o r[n + 1] /\ c[lq + (n + 1)] = r[n + 1]
      BY <1>2, <1>5, <3>1
    <3>4. Flat(r, n) \in Seq(S) /\ r[n + 1] \in Seq(S)
      BY <1>5, <3>1
    <3>5. (Flat(q, lq) \o Flat(r, n)) \o r[n + 1] = Flat(q, lq) \o (Flat(r, n) \o r[n + 1])
      <4> DEFINE x == Flat(q, lq)
                 y == Flat(r, n)
                 z == r[n + 1]
      <4>1. x \in Seq(S) /\ y \in Seq(S) /\ z \in Seq(S)
        BY <2>0, <3>4
      <4> HIDE DEF x, y, z
      <4>2. (x \o y) \o z = x \o (y \o z)
        BY <4>1, ConcatAssociative
      <4> QED BY <4>2 DEF x, y, z
    <3>6. Flat(c, lq + (n + 1)) = Flat(q, lq) \o Flat(r, n + 1)
      BY <3>1, <3>2, <3>3, <3>5, Zenon
    <3> QED BY <2>2, <3>6
  <2>3. \A n \in 0 .. lr : n \in P
    <3> HIDE DEF P
    <3> QED BY <1>1, <2>1, <2>2, InductionUpTo
  <2> QED BY <2>3
<1>8. lr \in 0 .. lr /\ lq \in 0 .. lq
  BY <1>1
<1> QED BY <1>3, <1>4, <1>5, <1>7, <1>8 DEF c

\* How far the first n pieces reach.
Reach(q, n) == Len(Flat(q, n))

\* Two sequences one after the other.
LEMMA JoinedAt ==
  ASSUME NEW S, NEW f \in Seq(S), NEW g \in Seq(S)
  PROVE  /\ f \o g \in Seq(S) /\ Len(f) \in Nat /\ Len(g) \in Nat
         /\ Len(f \o g) = Len(f) + Len(g)
         /\ \A k \in 1 .. Len(f) : (f \o g)[k] = f[k]
         /\ \A k \in 1 .. Len(g) : (f \o g)[Len(f) + k] = g[k]
OBVIOUS

\* Where the n-th piece lies in the whole.
LEMMA PiecePlaced ==
  ASSUME NEW S, NEW q \in Seq(Seq(S)), NEW n \in 1 .. Len(q)
  PROVE  /\ Reach(q, n - 1) \in Nat /\ Reach(q, n) \in Nat /\ Len(q[n]) \in Nat
         /\ FlattenSeq(q) \in Seq(S) /\ Len(FlattenSeq(q)) \in Nat
         /\ Reach(q, n) = Reach(q, n - 1) + Len(q[n]) /\ Reach(q, n) <= Len(FlattenSeq(q))
         /\ \A d \in 1 .. Len(q[n]) : FlattenSeq(q)[Reach(q, n - 1) + d] = q[n][d]
<1> DEFINE f == Flat(q, n - 1)
           g == Flat(q, n)
           p == q[n]
           v == SubSeq(q, 1, n)
           u == SubSeq(q, n + 1, Len(q))
           z == FlattenSeq(u)
           x == FlattenSeq(q)
<1>1. n - 1 \in 0 .. Len(q) /\ Len(q) \in Nat
  OBVIOUS
<1>2. f \in Seq(S) /\ p \in Seq(S) /\ g = f \o p
  BY <1>1, FlatSteps
<1>3. v \in Seq(Seq(S)) /\ u \in Seq(Seq(S)) /\ q = v \o u
  OBVIOUS
<1>4. x = g \o z /\ z \in Seq(S)
  <2>1. FlattenSeq(v \o u) = FlattenSeq(v) \o FlattenSeq(u) /\ FlattenSeq(u) \in Seq(S)
    BY <1>3, FlatConcat
  <2>2. g = FlattenSeq(v)
    BY DEF Flat
  <2> QED BY <1>3, <2>1, <2>2
<1> HIDE DEF f, g, p, v, u, z, x
<1>5. /\ g \in Seq(S) /\ Len(g) = Len(f) + Len(p) /\ Len(f) \in Nat /\ Len(p) \in Nat
      /\ \A k \in 1 .. Len(p) : g[Len(f) + k] = p[k]
  BY <1>2, JoinedAt
<1>6. /\ x \in Seq(S) /\ Len(x) = Len(g) + Len(z) /\ Len(g) \in Nat /\ Len(z) \in Nat
      /\ \A k \in 1 .. Len(g) : x[k] = g[k]
  <2>1. g \in Seq(S)
    BY <1>5
  <2> QED BY <1>4, <2>1, JoinedAt
<1>7. Len(x) \in Nat /\ Len(g) <= Len(x)
  BY <1>6
<1>8. ASSUME NEW d \in 1 .. Len(p) PROVE x[Len(f) + d] = p[d]
  <2>1. Len(f) + d \in 1 .. Len(g)
    BY <1>5
  <2> QED BY <1>5, <1>6, <2>1
<1>9. Reach(q, n - 1) = Len(f) /\ Reach(q, n) = Len(g)
  BY DEF Reach, f, g
<1> QED BY <1>5, <1>6, <1>7, <1>8, <1>9 DEF p, x

\* The first piece begins at the beginning, and the last one ends at the end.
LEMMA PiecesSpan ==
  ASSUME NEW S, NEW q \in Seq(Seq(S))
  PROVE  /\ Reach(q, 0) = 0 /\ Reach(q, Len(q)) = Len(FlattenSeq(q))
         /\ \A n \in 0 .. Len(q) : Reach(q, n) \in Nat
         /\ FlattenSeq(q) \in Seq(S)
<1>1. /\ Flat(q, 0) = <<>> /\ FlattenSeq(q) = Flat(q, Len(q))
      /\ \A n \in 0 .. Len(q) : Flat(q, n) \in Seq(S)
  BY FlatSteps
<1>2. Len(q) \in 0 .. Len(q)
  OBVIOUS
<1>3. ASSUME NEW n \in 0 .. Len(q) PROVE Len(Flat(q, n)) \in Nat
  <2>1. Flat(q, n) \in Seq(S)
    BY <1>1
  <2> QED BY <2>1
<1> QED BY <1>1, <1>2, <1>3 DEF Reach

\* A piece ends before a later one begins.
LEMMA PiecesApart ==
  ASSUME NEW S, NEW q \in Seq(Seq(S)), NEW n \in 0 .. Len(q), NEW m \in 0 .. Len(q), n <= m
  PROVE  Reach(q, n) <= Reach(q, m)
<1> DEFINE L == Len(q)
           r(k) == Reach(q, k)
           P == {k \in Nat : k >= n => r(n) <= r(k)}
<1>1. L \in Nat /\ n \in 0 .. L /\ m \in 0 .. L
  OBVIOUS
<1>2. \A k \in 0 .. L : r(k) \in Nat
  BY PiecesSpan
<1>3. \A k \in 1 .. L : r(k) >= r(k - 1)
  <2>1. SUFFICES ASSUME NEW k \in 1 .. L PROVE r(k) >= r(k - 1)
    OBVIOUS
  <2>2. r(k) = r(k - 1) + Len(q[k]) /\ Len(q[k]) \in Nat /\ r(k) \in Nat /\ r(k - 1) \in Nat
    BY <2>1, PiecePlaced
  <2> HIDE DEF r
  <2> QED BY <2>2
<1> HIDE DEF L, r
<1>4. 0 \in P
  BY <1>1, <1>2
<1>5. ASSUME NEW k \in 0 .. L - 1, k \in P PROVE k + 1 \in P
  <2>1. k + 1 \in 1 .. L /\ (k + 1) - 1 = k /\ k + 1 \in Nat
    BY <1>1
  <2>2. r(k + 1) >= r(k) /\ r(k) \in Nat /\ r(k + 1) \in Nat /\ r(n) \in Nat
    BY <1>1, <1>2, <1>3, <2>1
  <2>3. k >= n => r(n) <= r(k)
    BY <1>5
  <2>4. CASE k >= n
    BY <2>1, <2>2, <2>3, <2>4
  <2>5. CASE k + 1 = n
    BY <2>1, <2>2, <2>5
  <2>6. CASE k + 1 < n
    BY <2>1, <2>6
  <2> QED BY <1>1, <2>1, <2>4, <2>5, <2>6
<1>6. \A k \in 0 .. L : k \in P
  <2> HIDE DEF P
  <2> QED BY <1>1, <1>4, <1>5, InductionUpTo
<1>7. r(n) <= r(m)
  BY <1>1, <1>6
<1> QED BY <1>7 DEF r

\* Every place of the whole lies in some piece.
LEMMA PieceFound ==
  ASSUME NEW S, NEW q \in Seq(Seq(S)), NEW k \in 1 .. Len(FlattenSeq(q))
  PROVE  \E n \in 1 .. Len(q) : Reach(q, n - 1) < k /\ k <= Reach(q, n)
<1> DEFINE L == Len(q)
           r(n) == Reach(q, n)
           T == {n \in 0 .. L : k <= r(n)}
<1>1. L \in Nat /\ r(0) = 0 /\ r(L) = Len(FlattenSeq(q)) /\ \A n \in 0 .. L : r(n) \in Nat
  BY PiecesSpan
<1>2. k \in Nat /\ k >= 1 /\ k <= Len(FlattenSeq(q))
  BY <1>1
<1> HIDE DEF L, r
<1>3. L \in T /\ T \in SUBSET Nat
  BY <1>1, <1>2
<1>4. PICK n \in T : \A x \in T : n <= x
  <2> HIDE DEF T
  <2> QED BY <1>3, LeastElement
<1>5. n \in 0 .. L /\ k <= r(n) /\ n # 0
  BY <1>1, <1>2
<1>6. n \in 1 .. L /\ n - 1 \in 0 .. L /\ n - 1 < n /\ n \in Nat /\ n - 1 \in Nat
  BY <1>1, <1>5
<1>7. n - 1 \notin T
  BY <1>4, <1>6
<1>8. r(n - 1) < k
  BY <1>1, <1>2, <1>6, <1>7
<1> QED BY <1>5, <1>6, <1>8 DEF L, r
=============================================================================
