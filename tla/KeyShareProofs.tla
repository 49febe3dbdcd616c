--------------------------- MODULE KeyShareProofs ---------------------------
(***************************************************************************)
(* For every set of keys, hash function, table size, probe limit and set   *)
(* of stack addresses: the key-sharing cache never reads a dead frame, its *)
(* index list names exactly the occupied slots, no key is resident twice,  *)
(* every reference count is the number of its holders, and a resident key  *)
(* is shared by every later member.                                        *)
(***************************************************************************)
EXTENDS KeyShare, DataInduction, FiniteSetTheorems, SequenceTheorems

\* A probe lands on a slot of the table.
LEMMA ProbeInTable ==
  ASSUME NEW k \in Keys, NEW n \in Nat
  PROVE  ProbeAt(k, n) \in Slots
<1>1. Hash[k] + n \in Nat
  BY KeysAssumption
<1>2. SLOTS \in Nat /\ SLOTS > 0
  BY SizeAssumption
<1>3. \A m \in Nat : m % SLOTS \in 0 .. SLOTS - 1
  BY <1>2
<1> QED
  BY <1>1, <1>3 DEF ProbeAt, Slots

\* An empty table satisfies every part of the invariant about the table.
LEMMA EmptyTable ==
  ASSUME slots' = [i \in Slots |-> NULL], used' = << >>
  PROVE  UsedIsOccupied' /\ Reachable' /\ OneStringPerKey'
BY SizeAssumption DEF UsedIsOccupied, Reachable, OneStringPerKey

\* A frame that dies leaves the variables of the table well typed.
LEMMA DeadFrameTyped ==
  ASSUME FrameDies, key_share' \in Addrs \cup {NULL},
         bailed' \in BOOLEAN, fault' \in BOOLEAN
  PROVE  TypeOK'
<1>1. slots' \in [Slots -> Keys \cup {NULL}] /\ used' \in Seq(Slots)
  BY SizeAssumption DEF FrameDies, Slots
<1>2. full_hits' \in Nat /\ full_misses' \in Nat
  BY DEF FrameDies
<1>3. frame' \in Addrs \cup {NULL} /\ prev' \in Addrs \cup {NULL} /\ off' \in BOOLEAN
  BY Zenon DEF FrameDies
<1> QED
  BY <1>1, <1>2, <1>3, Zenon DEF TypeOK

\* The initial state satisfies the invariant.
LEMMA InitCacheInv == Init => CacheInv
<1> SUFFICES ASSUME Init PROVE CacheInv
  OBVIOUS
<1> USE DEF Init
<1>1. TypeOK
  <2>1. slots \in [Slots -> Keys \cup {NULL}] /\ used \in Seq(Slots)
    BY SizeAssumption DEF Slots
  <2>2. full_hits \in Nat /\ full_misses \in Nat
    OBVIOUS
  <2>3. /\ key_share \in Addrs \cup {NULL} /\ frame \in Addrs \cup {NULL}
        /\ prev \in Addrs \cup {NULL}
        /\ off \in BOOLEAN /\ bailed \in BOOLEAN /\ fault \in BOOLEAN
    BY Zenon
  <2> QED
    BY <2>1, <2>2, <2>3, Zenon DEF TypeOK
<1>2. NoDeadFrame /\ PrevIsClean
  BY DEF NoDeadFrame, PrevIsClean
<1>3. UsedIsOccupied /\ Reachable /\ OneStringPerKey
  BY SizeAssumption DEF UsedIsOccupied, Reachable, OneStringPerKey
<1> QED
  BY <1>1, <1>2, <1>3 DEF CacheInv

(***************************************************************************)
(* Filling the first empty slot of a key's probe sequence keeps the index  *)
(* list exact, every resident reachable and every key single.              *)
(***************************************************************************)
LEMMA InsertKeepsTable ==
  ASSUME CacheInv, NEW k \in Keys, ShareInsert(k)
  PROVE  /\ slots' \in [Slots -> Keys \cup {NULL}]
         /\ used' \in Seq(Slots)
         /\ UsedIsOccupied' /\ Reachable' /\ OneStringPerKey'
<1> USE DEF CacheInv, TypeOK
<1> PICK n \in 0 .. PROBES - 1 : StopsAt(k, n) /\ slots[ProbeAt(k, n)] = NULL /\ FillSlot(k, n)
  BY DEF ShareInsert
<1> DEFINE s == ProbeAt(k, n)
<1>1. s \in Slots
  BY ProbeInTable, SizeAssumption
<1>2. /\ slots' = [slots EXCEPT ![s] = k]
      /\ used' = Append(used, s)
      /\ slots[s] = NULL
      /\ k # NULL
  BY KeysAssumption DEF FillSlot
<1> HIDE DEF s
<1>3. slots' \in [Slots -> Keys \cup {NULL}] /\ used' \in Seq(Slots)
  BY <1>1, <1>2
<1>4. \A i \in Slots : i # s => slots'[i] = slots[i]
  BY <1>2
<1>5. slots'[s] = k
  BY <1>1, <1>2
<1>6. /\ Len(used') = Len(used) + 1
      /\ \A i \in 1 .. Len(used) : used'[i] = used[i]
      /\ used'[Len(used) + 1] = s
  BY <1>1, <1>2
<1>7. Len(used) < KEY_CAP /\ Len(used) \in Nat
  BY SizeAssumption DEF ShareInsert, full
<1>8. \A i \in 1 .. Len(used) : used[i] \in Slots /\ used[i] # s
  BY <1>2 DEF UsedIsOccupied
<1>9. UsedIsOccupied'
  <2>1. Len(used') <= KEY_CAP
    BY <1>6, <1>7, SizeAssumption
  <2>2. \A i \in 1 .. Len(used') : slots'[used'[i]] # NULL
    BY <1>2, <1>4, <1>5, <1>6, <1>7, <1>8 DEF UsedIsOccupied
  <2>3. \A r \in Slots : slots'[r] # NULL => \E i \in 1 .. Len(used') : used'[i] = r
    BY <1>4, <1>6, <1>7 DEF UsedIsOccupied
  <2>4. \A i, j \in 1 .. Len(used') : used'[i] = used'[j] => i = j
    BY <1>6, <1>7, <1>8 DEF UsedIsOccupied
  <2> QED
    BY <2>1, <2>2, <2>3, <2>4, <1>3 DEF UsedIsOccupied
<1>10. \A i \in Slots : slots[i] # NULL => slots'[i] # NULL
  BY <1>2, <1>4, <1>5
<1>11. Reachable'
  <2> SUFFICES ASSUME NEW r \in Slots, slots'[r] # NULL
               PROVE  \E p \in 0 .. PROBES - 1 :
                        /\ r = ProbeAt(slots'[r], p)
                        /\ \A m \in 0 .. p - 1 : slots'[ProbeAt(slots'[r], m)] # NULL
    BY DEF Reachable, ProbeAt
  <2>1. CASE r = s
    <3>1. \A m \in 0 .. n - 1 : ProbeAt(k, m) \in Slots /\ slots[ProbeAt(k, m)] # NULL
      BY ProbeInTable DEF StopsAt
    <3> QED
      BY <2>1, <1>5, <1>10, <3>1 DEF s
  <2>2. CASE r # s
    <3>1. slots'[r] = slots[r] /\ slots[r] \in Keys
      BY <1>4, <2>2
    <3>2. PICK p \in 0 .. PROBES - 1 :
                 /\ r = ProbeAt(slots[r], p)
                 /\ \A m \in 0 .. p - 1 : slots[ProbeAt(slots[r], m)] # NULL
      BY <3>1 DEF Reachable
    <3>3. \A m \in 0 .. p - 1 : ProbeAt(slots[r], m) \in Slots
      BY <3>1, ProbeInTable
    <3> QED
      BY <3>1, <3>2, <3>3, <1>10
  <2> QED
    BY <2>1, <2>2
<1>12. \A i \in Slots : slots[i] # k
  <2> SUFFICES ASSUME NEW i \in Slots, slots[i] = k PROVE FALSE
    OBVIOUS
  <2>1. PICK p \in 0 .. PROBES - 1 :
               /\ i = ProbeAt(k, p)
               /\ \A m \in 0 .. p - 1 : slots[ProbeAt(k, m)] # NULL
    BY <1>2 DEF Reachable
  <2>2. CASE p < n
    BY <2>1, <2>2 DEF StopsAt
  <2>3. CASE p = n
    BY <2>1, <2>3, <1>2 DEF s
  <2>4. CASE p > n
    BY <2>1, <2>4, <1>2 DEF s
  <2> QED
    BY <2>2, <2>3, <2>4, SizeAssumption
<1>13. OneStringPerKey'
  BY <1>4, <1>5, <1>12 DEF OneStringPerKey
<1> QED
  BY <1>3, <1>9, <1>11, <1>13

\* Every step preserves the invariant.
LEMMA NextCacheInv == CacheInv /\ [Next]_vars => CacheInv'
<1> SUFFICES ASSUME CacheInv, [Next]_vars PROVE CacheInv'
  OBVIOUS
<1> USE DEF CacheInv
<1>1. CASE BeginWalk
  <2> PICK a \in Addrs, large \in BOOLEAN : fj_key_share_push(a, large) /\ frame' = a
    BY <1>1 DEF BeginWalk
  <2>1. UNCHANGED <<bailed, fault>> /\ frame = NULL
    BY <1>1 DEF BeginWalk
  <2>2. TypeOK'
    <3>1. slots' \in [Slots -> Keys \cup {NULL}] /\ used' \in Seq(Slots)
      <4>1. CASE large
        <5>1. slots' = [i \in Slots |-> NULL] /\ used' = << >>
          BY <4>1 DEF fj_key_share_push
        <5> QED
          BY <5>1
      <4>2. CASE ~ large
        <5>1. slots' = slots /\ used' = used
          BY <4>2 DEF fj_key_share_push, cache
        <5> QED
          BY <5>1 DEF TypeOK
      <4> QED
        BY <4>1, <4>2
    <3>2. full_hits' \in Nat /\ full_misses' \in Nat
      BY DEF TypeOK, fj_key_share_push, cache
    <3>3. off' \in BOOLEAN
      BY Zenon DEF TypeOK, fj_key_share_push, cache
    <3>4. key_share' \in Addrs \cup {NULL} /\ prev' \in Addrs \cup {NULL}
      BY DEF TypeOK, fj_key_share_push
    <3> QED
      BY <2>1, <3>1, <3>2, <3>3, <3>4, Zenon DEF TypeOK
  <2>3. NoDeadFrame' /\ PrevIsClean'
    BY <2>1, KeysAssumption DEF NoDeadFrame, PrevIsClean, fj_key_share_push
  <2>4. CASE large
    BY <2>2, <2>3, <2>4, EmptyTable DEF fj_key_share_push
  <2>5. CASE ~ large
    <3>1. UNCHANGED <<slots, used>>
      BY <2>5 DEF fj_key_share_push, cache
    <3> QED
      BY <2>2, <2>3, <3>1 DEF UsedIsOccupied, Reachable, OneStringPerKey, ProbeAt
  <2> QED
    BY <2>4, <2>5
<1>2. ASSUME NEW k \in Keys, MemberUnshared(k) PROVE CacheInv'
  <2>1. /\ UNCHANGED <<key_share, frame, prev, cache, bailed>>
        /\ fault' = (fault \/ ReadsDeadFrame(k))
        /\ frame # NULL
    BY <1>2 DEF MemberUnshared, InObject
  <2>2. fault' = fault
    BY <2>1 DEF ReadsDeadFrame, NoDeadFrame, TypeOK
  <2> QED
    BY <2>1, <2>2 DEF cache, TypeOK, NoDeadFrame, PrevIsClean, UsedIsOccupied,
                     Reachable, OneStringPerKey, ProbeAt
<1>3. ASSUME NEW k \in Keys, MemberShared(k) PROVE CacheInv'
  <2>1. UNCHANGED <<key_share, frame, prev, bailed, fault>>
    BY <1>3 DEF MemberShared
  <2>2. NoDeadFrame' /\ PrevIsClean'
    BY <2>1 DEF NoDeadFrame, PrevIsClean
  <2>3. ShareOff \/ ShareInsert(k) \/ ShareHit(k) \/ ShareMiss(k)
    BY <1>3 DEF MemberShared
  <2>4. full_hits' \in Nat /\ full_misses' \in Nat
    BY <2>3 DEF TypeOK, ShareOff, ShareInsert, ShareHit, ShareMiss
  <2>5. off' \in BOOLEAN
    BY <2>3, Zenon DEF TypeOK, ShareOff, ShareInsert, ShareHit, ShareMiss
  <2>6. CASE ShareInsert(k)
    <3>1. /\ slots' \in [Slots -> Keys \cup {NULL}] /\ used' \in Seq(Slots)
          /\ UsedIsOccupied' /\ Reachable' /\ OneStringPerKey'
      BY <2>6, InsertKeepsTable
    <3>2. TypeOK'
      BY <2>1, <2>4, <2>5, <3>1, Zenon DEF TypeOK
    <3> QED
      BY <2>2, <3>1, <3>2
  <2>7. CASE UNCHANGED <<slots, used>>
    <3>1. TypeOK'
      BY <2>1, <2>4, <2>7, <2>5 DEF TypeOK
    <3> QED
      BY <2>2, <2>7, <3>1 DEF UsedIsOccupied, Reachable, OneStringPerKey, ProbeAt
  <2> QED
    BY <2>3, <2>6, <2>7 DEF ShareOff, ShareHit, ShareMiss
<1>4. CASE EndWalk \/ FailWalk
  <2>1. /\ key_share' = prev /\ FrameDies /\ UNCHANGED <<bailed, fault>>
        /\ frame # NULL
    BY <1>4 DEF EndWalk, FailWalk, fj_key_share_pop
  <2>2. TypeOK'
    BY <2>1, DeadFrameTyped, Zenon DEF TypeOK
  <2>3. NoDeadFrame' /\ PrevIsClean'
    BY <2>1 DEF NoDeadFrame, PrevIsClean, FrameDies
  <2> QED
    BY <2>1, <2>2, <2>3, EmptyTable DEF FrameDies
<1>5. CASE Bailout
  <2>1. FrameDies /\ bailed' /\ UNCHANGED <<key_share, fault>>
    BY <1>5 DEF Bailout
  <2>2. TypeOK'
    BY <1>5, <2>1, DeadFrameTyped, Zenon DEF TypeOK, Bailout
  <2>3. NoDeadFrame' /\ PrevIsClean'
    BY <1>5, <2>1 DEF NoDeadFrame, PrevIsClean, FrameDies
  <2> QED
    BY <2>1, <2>2, <2>3, EmptyTable DEF FrameDies
<1>6. CASE NextRequest
  <2>1. /\ key_share' = NULL /\ bailed' = FALSE /\ frame = NULL
        /\ UNCHANGED <<frame, prev, cache, fault>>
    BY <1>6 DEF NextRequest, RequestInit
  <2>2. TypeOK'
    BY <2>1, Zenon DEF TypeOK, cache
  <2>3. NoDeadFrame' /\ PrevIsClean'
    BY <2>1 DEF NoDeadFrame, PrevIsClean
  <2>4. UsedIsOccupied' /\ Reachable' /\ OneStringPerKey'
    BY <2>1 DEF cache, UsedIsOccupied, Reachable, OneStringPerKey, ProbeAt
  <2> QED
    BY <2>2, <2>3, <2>4
<1>7. CASE \/ OpenContainer \/ CloseContainer \/ AppendElement \/ DropResult
           \/ UNCHANGED vars
  <2>1. UNCHANGED <<key_share, frame, prev, cache, bailed, fault>>
    BY <1>7 DEF OpenContainer, CloseContainer, AppendElement, DropResult, vars
  <2> QED
    BY <2>1 DEF cache, TypeOK, NoDeadFrame, PrevIsClean,
                UsedIsOccupied, Reachable, OneStringPerKey, ProbeAt
<1> QED
  BY <1>1, <1>2, <1>3, <1>4, <1>5, <1>6, <1>7 DEF Next

(***************************************************************************)
(* The inductive invariant holds in every behaviour of the cache.          *)
(***************************************************************************)
THEOREM CacheInvariant == Spec => []CacheInv
  BY InitCacheInv, NextCacheInv, PTL DEF Spec

(***************************************************************************)
(* Whatever mix of walks, failures, fatal errors and requests happens, the *)
(* walker never reads a key table whose stack frame is gone.               *)
(***************************************************************************)
THEOREM NeverReadsDeadFrame == Spec => []NoDeadFrame
<1>1. CacheInv => NoDeadFrame
  BY DEF CacheInv
<1> QED
  BY <1>1, CacheInvariant, PTL

(***************************************************************************)
(* fj_key_share_pop releases each resident string exactly once.            *)
(***************************************************************************)
THEOREM PopReleasesEachOnce == Spec => []UsedIsOccupied
<1>1. CacheInv => UsedIsOccupied
  BY DEF CacheInv
<1> QED
  BY <1>1, CacheInvariant, PTL

(***************************************************************************)
(* However keys collide, one walk keeps at most one string per key.        *)
(***************************************************************************)
THEOREM KeysAreShared == Spec => []OneStringPerKey
<1>1. CacheInv => OneStringPerKey
  BY DEF CacheInv
<1> QED
  BY <1>1, CacheInvariant, PTL

-----------------------------------------------------------------------------
(* Sums of bags over the containers under construction.                    *)

\* Bags are closed under the operations on them.
LEMMA BagsClosed ==
  /\ Zero \in Bag
  /\ \A k \in Keys : Only(k) \in Bag
  /\ \A b, c \in Bag : Plus(b, c) \in Bag /\ Minus(b, c) \in Bag
BY DEF Zero, Only, Plus, Minus, Bag

\* The recursive function of TotalRefs exists, and adds table after table.
LEMMA TotalRefsIsSum ==
  ASSUME NEW ts \in Seq(Table)
  PROVE  \E f \in [0 .. Len(ts) -> Bag] :
           /\ f[0] = Zero
           /\ \A n \in 1 .. Len(ts) : f[n] = Plus(f[n - 1], ts[n].refs)
           /\ TotalRefs(ts) = f[Len(ts)]
<1> DEFINE L == Len(ts)
           D == [n \in Nat |-> [b \in Bag |-> IF n < L THEN Plus(b, ts[n + 1].refs) ELSE b]]
<1>1. L \in Nat /\ \A n \in 1 .. L : ts[n].refs \in Bag
  <2>1. \A n \in 1 .. Len(ts) : ts[n] \in Table
    OBVIOUS
  <2> QED BY <2>1 DEF Table
<1>2. ASSUME NEW n \in Nat, NEW b \in Bag
      PROVE  (IF n < L THEN Plus(b, ts[n + 1].refs) ELSE b) \in Bag
  BY <1>1, BagsClosed
<1>3. D \in [Nat -> [Bag -> Bag]]
  BY <1>2
<1>4. \A n \in Nat : \A b \in Bag : n < L => D[n][b] = Plus(b, ts[n + 1].refs)
  OBVIOUS
<1> HIDE DEF L
<1>5. PICK g : SolvesRecursion(g, Bag, Zero, D)
  <2> HIDE DEF D
  <2> QED BY <1>3, BagsClosed, RecursionExists DEF StepFunctions
<1> HIDE DEF D
<1> DEFINE Rec(f) == [n \in 0 .. L |-> IF n = 0 THEN Zero ELSE Plus(f[n - 1], ts[n].refs)]
           u == [n \in 0 .. L |-> g[n]]
<1>15. /\ g \in [Nat -> Bag] /\ g[0] = Zero
       /\ \A n \in Nat : g[n + 1] = D[n][g[n]]
  BY <1>5 DEF SolvesRecursion
<1>6. ASSUME NEW n \in 1 .. L PROVE g[n] = Plus(g[n - 1], ts[n].refs)
  <2>1. n - 1 \in Nat /\ n - 1 < L /\ (n - 1) + 1 = n
    BY <1>1
  <2>2. g[(n - 1) + 1] = D[n - 1][g[n - 1]]
    BY <1>15, <2>1
  <2>3. g[n - 1] \in Bag
    BY <1>15, <2>1
  <2> QED BY <1>4, <2>1, <2>2, <2>3
<1>7. u = Rec(u)
  <2>1. \A n \in 0 .. L : u[n] = IF n = 0 THEN Zero ELSE Plus(u[n - 1], ts[n].refs)
    BY <1>15, <1>6, <1>1
  <2> QED BY <2>1
<1> DEFINE f == CHOOSE f : f = Rec(f)
<1>8. f = Rec(f)
  <2> HIDE DEF Rec, u
  <2> QED BY <1>7
<1>9. TotalRefs(ts) = f[L]
  BY Zenon DEF TotalRefs, L
<1> HIDE DEF f
<1>10. /\ DOMAIN f = 0 .. L /\ f = [n \in 0 .. L |-> f[n]]
       /\ f[0] = Zero
       /\ \A n \in 1 .. L : f[n] = Plus(f[n - 1], ts[n].refs)
  <2>1. f = [n \in 0 .. L |-> IF n = 0 THEN Zero ELSE Plus(f[n - 1], ts[n].refs)]
    BY <1>8
  <2>2. DOMAIN f = 0 .. L /\ \A n \in 0 .. L : f[n] = IF n = 0 THEN Zero ELSE Plus(f[n - 1], ts[n].refs)
    BY <2>1
  <2>3. f = [n \in 0 .. L |-> f[n]]
    BY <2>1, <2>2
  <2>4. f[0] = Zero
    BY <2>2, <1>1
  <2>5. \A n \in 1 .. L : f[n] = Plus(f[n - 1], ts[n].refs)
    BY <2>2, <1>1
  <2> QED BY <2>2, <2>3, <2>4, <2>5
<1> DEFINE P == {n \in 0 .. L : f[n] \in Bag}
<1>11. 0 \in P
  BY <1>10, <1>1, BagsClosed
<1>12. ASSUME NEW n \in 0 .. L - 1, n \in P PROVE n + 1 \in P
  <2>1. n + 1 \in 1 .. L /\ (n + 1) - 1 = n
    BY <1>1
  <2>2. f[n] \in Bag /\ ts[n + 1].refs \in Bag
    BY <2>1, <1>1, <1>12
  <2>3. f[n + 1] = Plus(f[n], ts[n + 1].refs)
    BY <2>1, <1>10
  <2> QED BY <2>1, <2>2, <2>3, BagsClosed
<1>13. \A n \in 0 .. L : n \in P
  <2> HIDE DEF P
  <2> QED BY <1>1, <1>11, <1>12, InductionUpTo
<1>14. f \in [0 .. L -> Bag]
  BY <1>10, <1>13, <1>1
<1> QED BY <1>9, <1>10, <1>14 DEF L

\* A sum is the sum without the last table, and that table's references.
LEMMA TotalRefsLast ==
  ASSUME NEW ts \in Seq(Table), ts # << >>
  PROVE  /\ SubSeq(ts, 1, Len(ts) - 1) \in Seq(Table)
         /\ TotalRefs(ts) = Plus(TotalRefs(SubSeq(ts, 1, Len(ts) - 1)), ts[Len(ts)].refs)
<1> DEFINE L == Len(ts)
           fr == SubSeq(ts, 1, L - 1)
<1>1. L \in Nat /\ L > 0 /\ L - 1 \in Nat
  OBVIOUS
<1>2. fr \in Seq(Table) /\ Len(fr) = L - 1 /\ \A n \in 1 .. L - 1 : fr[n] = ts[n]
  <2>1. \A n \in 1 .. L - 1 : ts[n] \in Table
    BY <1>1
  <2>2. /\ fr \in Seq(Table)
        /\ Len(fr) = IF 1 <= L - 1 THEN (L - 1) - 1 + 1 ELSE 0
        /\ \A n \in 1 .. (L - 1) - 1 + 1 : fr[n] = ts[1 + n - 1]
    BY <1>1, <2>1, SubSeqProperties
  <2> HIDE DEF fr, L
  <2>3. (L - 1) - 1 + 1 = L - 1 /\ \A n \in 1 .. L - 1 : 1 + n - 1 = n
    BY <1>1
  <2>4. Len(fr) = L - 1
    BY <1>1, <2>2
  <2> QED BY <2>2, <2>3, <2>4
<1> HIDE DEF fr
<1>3. PICK f \in [0 .. L -> Bag] :
         /\ f[0] = Zero
         /\ \A n \in 1 .. L : f[n] = Plus(f[n - 1], ts[n].refs)
         /\ TotalRefs(ts) = f[L]
  BY TotalRefsIsSum
<1> HIDE DEF L
<1>4. PICK h \in [0 .. L - 1 -> Bag] :
         /\ h[0] = Zero
         /\ \A n \in 1 .. L - 1 : h[n] = Plus(h[n - 1], fr[n].refs)
         /\ TotalRefs(fr) = h[L - 1]
  BY <1>2, TotalRefsIsSum
<1> DEFINE P == {n \in 0 .. L - 1 : f[n] = h[n]}
<1>5. 0 \in P
  BY <1>1, <1>3, <1>4
<1>6. ASSUME NEW n \in 0 .. (L - 1) - 1, n \in P PROVE n + 1 \in P
  <2>1. n + 1 \in 1 .. L - 1 /\ n + 1 \in 1 .. L /\ (n + 1) - 1 = n
    BY <1>1
  <2>2. f[n + 1] = Plus(f[n], ts[n + 1].refs)
    BY <2>1, <1>3
  <2>3. h[n + 1] = Plus(h[n], ts[n + 1].refs)
    BY <2>1, <1>2, <1>4
  <2> QED BY <1>6, <2>1, <2>2, <2>3
<1>7. \A n \in 0 .. L - 1 : n \in P
  <2> HIDE DEF P
  <2> QED BY <1>1, <1>5, <1>6, InductionUpTo
<1>8. f[L - 1] = h[L - 1]
  BY <1>1, <1>7
<1>9. f[L] = Plus(f[L - 1], ts[L].refs)
  BY <1>1, <1>3
<1> QED BY <1>2, <1>3, <1>4, <1>8, <1>9 DEF L, fr

\* The sum of no table, and the type of a sum.
LEMMA TotalRefsTyped ==
  /\ TotalRefs(<< >>) = Zero
  /\ \A ts \in Seq(Table) : TotalRefs(ts) \in Bag
<1>1. << >> \in Seq(Table) /\ Len(<< >>) = 0
  OBVIOUS
<1>2. TotalRefs(<< >>) = Zero
  BY <1>1, TotalRefsIsSum
<1>3. ASSUME NEW ts \in Seq(Table) PROVE TotalRefs(ts) \in Bag
  <2>1. Len(ts) \in 0 .. Len(ts)
    OBVIOUS
  <2> QED BY <2>1, TotalRefsIsSum
<1> QED BY <1>2, <1>3

\* Pushing a table adds its references, dropping the last one removes them,
\* replacing it exchanges them.
LEMMA TotalRefsPush ==
  ASSUME NEW ts \in Seq(Table), NEW t \in Table
  PROVE  TotalRefs(Append(ts, t)) = Plus(TotalRefs(ts), t.refs)
<1> DEFINE us == Append(ts, t)
<1>1. us \in Seq(Table) /\ us # << >> /\ Len(us) = Len(ts) + 1
  <2>1. us \in Seq(Table) /\ Len(us) = Len(ts) + 1
    OBVIOUS
  <2>2. Len(ts) \in Nat
    OBVIOUS
  <2> HIDE DEF us
  <2> QED BY <2>1, <2>2
<1>2. us[Len(us)] = t /\ SubSeq(us, 1, Len(us) - 1) = ts
  <2>1. \A n \in 1 .. Len(ts) : us[n] = ts[n]
    OBVIOUS
  <2> QED BY <1>1, <2>1
<1> HIDE DEF us
<1>3. TotalRefs(us) = Plus(TotalRefs(ts), t.refs)
  BY <1>1, <1>2, TotalRefsLast
<1> QED BY <1>3 DEF us

LEMMA TotalRefsReplace ==
  ASSUME NEW ts \in Seq(Table), ts # << >>, NEW t \in Table
  PROVE  /\ [ts EXCEPT ![Len(ts)] = t] \in Seq(Table)
         /\ Len([ts EXCEPT ![Len(ts)] = t]) = Len(ts)
         /\ \A k \in Keys : TotalRefs([ts EXCEPT ![Len(ts)] = t])[k]
                              = TotalRefs(ts)[k] - ts[Len(ts)].refs[k] + t.refs[k]
<1> DEFINE us == [ts EXCEPT ![Len(ts)] = t]
           fr == SubSeq(ts, 1, Len(ts) - 1)
<1>1. Len(ts) \in Nat /\ Len(ts) > 0 /\ Len(ts) - 1 \in Nat
  OBVIOUS
<1>2. /\ us \in Seq(Table) /\ us # << >> /\ Len(us) = Len(ts)
      /\ us[Len(ts)] = t /\ \A n \in 1 .. Len(ts) - 1 : us[n] = ts[n]
  BY <1>1
<1> HIDE DEF us
<1>3. SubSeq(us, 1, Len(us) - 1) = fr
  BY <1>1, <1>2
<1>4. TotalRefs(us) = Plus(TotalRefs(fr), t.refs)
  BY <1>2, <1>3, TotalRefsLast
<1>5. fr \in Seq(Table) /\ TotalRefs(ts) = Plus(TotalRefs(fr), ts[Len(ts)].refs)
  BY TotalRefsLast
<1>6. TotalRefs(fr) \in Bag /\ t.refs \in Bag /\ ts[Len(ts)].refs \in Bag
  <2>1. ts[Len(ts)] \in Table
    BY <1>1
  <2> QED BY <1>5, <2>1, TotalRefsTyped DEF Table
<1>7. ASSUME NEW k \in Keys
      PROVE  TotalRefs(us)[k] = TotalRefs(ts)[k] - ts[Len(ts)].refs[k] + t.refs[k]
  <2> HIDE DEF fr
  <2> QED BY <1>4, <1>5, <1>6 DEF Plus, Bag
<1> QED BY <1>2, <1>7 DEF us

-----------------------------------------------------------------------------
(* Reference counts.                                                       *)

\* A sum of four bags, key by key.
LEMMA SumPerKey ==
  ASSUME NEW r \in Bag, NEW a \in Bag, NEW b \in Bag, NEW c \in Bag, NEW d \in Bag
  PROVE  r = Plus(a, Plus(Plus(b, c), d))
           <=> \A k \in Keys : r[k] = a[k] + b[k] + c[k] + d[k]
<1>1. ASSUME NEW k \in Keys
      PROVE  Plus(a, Plus(Plus(b, c), d))[k] = a[k] + b[k] + c[k] + d[k]
  BY DEF Plus, Bag
<1>2. Plus(a, Plus(Plus(b, c), d)) \in Bag
  BY BagsClosed
<1>3. (\A k \in Keys : r[k] = Plus(a, Plus(Plus(b, c), d))[k])
        => r = Plus(a, Plus(Plus(b, c), d))
  BY <1>2 DEF Bag
<1> QED BY <1>1, <1>3

\* The entries of the index list u that name a slot of sl holding k.
Naming(u, sl, k) == {i \in DOMAIN u : sl[u[i]] = k}

LEMMA NamingFinite ==
  ASSUME NEW u \in Seq(Slots), NEW sl, NEW k
  PROVE  IsFiniteSet(Naming(u, sl, k)) /\ Cardinality(Naming(u, sl, k)) \in Nat
<1>1. IsFiniteSet(1 .. Len(u))
  BY FS_Interval
<1>2. Naming(u, sl, k) \subseteq 1 .. Len(u)
  BY DEF Naming
<1>3. IsFiniteSet(Naming(u, sl, k))
  BY <1>1, <1>2, FS_Subset
<1> QED BY <1>3, FS_CardinalityType

\* Filling an empty slot counts its key once more and no other key.
LEMMA InsertCounts ==
  ASSUME NEW u \in Seq(Slots), NEW sl \in [Slots -> Keys \cup {NULL}],
         NEW p \in Slots, NEW k \in Keys, \A i \in DOMAIN u : u[i] # p, NEW j \in Keys
  PROVE  Cardinality(Naming(Append(u, p), [sl EXCEPT ![p] = k], j))
           = Cardinality(Naming(u, sl, j)) + (IF j = k THEN 1 ELSE 0)
<1> DEFINE v == Append(u, p)
           tl == [sl EXCEPT ![p] = k]
           A == Naming(u, sl, j)
           B == Naming(v, tl, j)
<1>1. Len(u) \in Nat /\ DOMAIN u = 1 .. Len(u) /\ \A i \in 1 .. Len(u) : u[i] \in Slots
  OBVIOUS
<1>2. /\ DOMAIN v = 1 .. Len(u) + 1 /\ v[Len(u) + 1] = p
      /\ \A i \in 1 .. Len(u) : v[i] = u[i]
  OBVIOUS
<1>3. tl[p] = k /\ \A i \in 1 .. Len(u) : tl[u[i]] = sl[u[i]]
  BY <1>1
<1>4. IsFiniteSet(A) /\ Cardinality(A) \in Nat
  BY NamingFinite
<1> HIDE DEF v, tl
<1>5. CASE j = k
  <2>1. B = A \cup {Len(u) + 1}
    BY <1>1, <1>2, <1>3, <1>5 DEF Naming
  <2>2. Len(u) + 1 \notin A
    BY <1>1 DEF Naming
  <2>3. Cardinality(B) = Cardinality(A) + 1
    BY <2>1, <2>2, <1>4, FS_AddElement
  <2> QED BY <1>5, <2>3 DEF v, tl
<1>6. CASE j # k
  <2>1. B = A
    BY <1>1, <1>2, <1>3, <1>6 DEF Naming
  <2> QED BY <1>6, <2>1, <1>4 DEF v, tl
<1> QED BY <1>5, <1>6

\* What the slots hold is a bag.
LEMMA ReleasedTyped ==
  ASSUME CacheInv PROVE SlotRefs \in Bag /\ Released \in Bag
<1>1. used \in Seq(Slots)
  BY DEF CacheInv, TypeOK
<1>2. \A k \in Keys : Cardinality(Naming(used, slots, k)) \in Int
  BY <1>1, NamingFinite
<1>3. SlotRefs = [k \in Keys |-> Cardinality(Naming(used, slots, k))]
  BY DEF SlotRefs, Naming
<1>4. SlotRefs \in Bag
  BY <1>2, <1>3 DEF Bag
<1> QED BY <1>4, BagsClosed DEF Released

\* The initial state satisfies the balance.
LEMMA InitBalance == Init => BalanceInv
<1> SUFFICES ASSUME Init PROVE BalanceInv
  OBVIOUS
<1>1. open = << >> /\ child = NULL /\ result = NULL /\ rc = Zero /\ frame = NULL
  BY DEF Init
<1>2. TreeTyped /\ WalkOwnsTree
  BY <1>1, BagsClosed DEF TreeTyped, WalkOwnsTree
<1>3. Zero = Plus(Zero, Plus(Plus(Zero, Zero), Zero))
  BY DEF Zero, Plus
<1>4. RefcountsBalance
  BY <1>1, <1>3, TotalRefsTyped DEF RefcountsBalance, OpenRefs, ChildRefs
<1> QED BY <1>2, <1>4, InitCacheInv DEF BalanceInv

\* The balance of a typed state, key by key.
Balanced ==
  \A k \in Keys : rc[k] = (IF frame # NULL THEN Released[k] ELSE 0) + OpenRefs[k]
                            + (IF child = NULL THEN 0 ELSE child[k])
                            + (IF result = NULL THEN 0 ELSE result[k])

LEMMA BalancePerKey ==
  ASSUME CacheInv, TreeTyped PROVE RefcountsBalance <=> Balanced
<1> DEFINE a == IF frame # NULL THEN Released ELSE Zero
           d == IF result = NULL THEN Zero ELSE result
<1>1. a \in Bag /\ OpenRefs \in Bag /\ ChildRefs \in Bag /\ d \in Bag /\ rc \in Bag
  BY ReleasedTyped, TotalRefsTyped, BagsClosed DEF TreeTyped, OpenRefs, ChildRefs
<1>2. \A k \in Keys :
        /\ a[k] = IF frame # NULL THEN Released[k] ELSE 0
        /\ ChildRefs[k] = IF child = NULL THEN 0 ELSE child[k]
        /\ d[k] = IF result = NULL THEN 0 ELSE result[k]
  BY DEF ChildRefs, Zero
<1>3. RefcountsBalance <=> rc = Plus(a, Plus(Plus(OpenRefs, ChildRefs), d))
  BY DEF RefcountsBalance
<1> HIDE DEF a, d
<1>4. RefcountsBalance <=> \A k \in Keys : rc[k] = a[k] + OpenRefs[k] + ChildRefs[k] + d[k]
  BY <1>1, <1>3, SumPerKey
<1> QED BY <1>2, <1>4 DEF Balanced

LEMMA BalanceIsPerKey == CacheInv /\ TreeTyped => (RefcountsBalance <=> Balanced)
  BY BalancePerKey

\* The innermost container is a table, and the child a bag.
LEMMA TopTyped ==
  ASSUME TreeTyped, open # << >>
  PROVE  /\ Len(open) \in Nat \ {0}
         /\ Top \in Table /\ Top.refs \in Bag /\ ChildRefs \in Bag
         /\ \A k \in Keys : ReplacedRefs(k) \in Bag
         /\ \A k \in Keys : Top.mem[k] # NULL => Top.mem[k].shared \in BOOLEAN
<1>1. Len(open) \in Nat \ {0}
  BY DEF TreeTyped
<1>2. Top \in Table
  BY <1>1 DEF Top, TreeTyped
<1>3. Top.refs \in Bag /\ ChildRefs \in Bag
  BY <1>2, BagsClosed DEF Table, ChildRefs, TreeTyped
<1>4. ASSUME NEW k \in Keys PROVE Top.mem[k] \in Bucket \cup {NULL}
  BY <1>2 DEF Table
<1>5. ASSUME NEW k \in Keys
      PROVE  /\ ReplacedRefs(k) \in Bag
             /\ Top.mem[k] # NULL => Top.mem[k].shared \in BOOLEAN
  BY <1>4, <1>5, BagsClosed DEF ReplacedRefs, TakesKey, Bucket
<1> QED BY <1>1, <1>2, <1>3, <1>5

\* The references one member adds to the innermost table.
LEMMA UpdatedTyped ==
  ASSUME TreeTyped, open # << >>, NEW k \in Keys, NEW shared \in BOOLEAN
  PROVE  /\ UpdatedTable(k, shared) \in Table
         /\ \A j \in Keys :
              UpdatedTable(k, shared).refs[j]
                = Top.refs[j] + ChildRefs[j] - ReplacedRefs(k)[j]
                    + (IF j = k /\ TakesKey(k) /\ shared THEN 1 ELSE 0)
<1> DEFINE keeps == IF TakesKey(k) THEN shared ELSE Top.mem[k].shared
           own == IF TakesKey(k) /\ shared THEN Only(k) ELSE Zero
           refs == Plus(Minus(Plus(Top.refs, ChildRefs), ReplacedRefs(k)), own)
           bucket == [shared |-> keeps, sub |-> ChildRefs]
<1>1. /\ Top \in Table /\ Top.refs \in Bag /\ ChildRefs \in Bag /\ ReplacedRefs(k) \in Bag
      /\ Top.mem[k] # NULL => Top.mem[k].shared \in BOOLEAN
  BY TopTyped
<1>2. own \in Bag
  BY BagsClosed
<1>3. refs \in Bag
  BY <1>1, <1>2, BagsClosed
<1>4. bucket \in Bucket
  BY <1>1 DEF Bucket, TakesKey
<1>5. UpdatedTable(k, shared)
        = [kind |-> Top.kind, mem |-> [Top.mem EXCEPT ![k] = bucket], refs |-> refs]
  BY DEF UpdatedTable
<1>6. Top.kind \in {"obj", "arr"} /\ Top.mem \in [Keys -> Bucket \cup {NULL}]
  BY <1>1 DEF Table
<1> HIDE DEF bucket, refs
<1>8. [Top.mem EXCEPT ![k] = bucket] \in [Keys -> Bucket \cup {NULL}]
  BY <1>4, <1>6
<1>9. UpdatedTable(k, shared) \in Table /\ UpdatedTable(k, shared).refs = refs
  BY <1>3, <1>5, <1>6, <1>8 DEF Table
<1>10. ASSUME NEW j \in Keys
       PROVE refs[j] = Top.refs[j] + ChildRefs[j] - ReplacedRefs(k)[j]
                         + (IF j = k /\ TakesKey(k) /\ shared THEN 1 ELSE 0)
  <2>1. own[j] = IF j = k /\ TakesKey(k) /\ shared THEN 1 ELSE 0
    BY DEF Only, Zero
  <2> HIDE DEF own
  <2> QED BY <1>1, <1>2, <2>1 DEF refs, Plus, Minus, Bag
<1> QED BY <1>9, <1>10

\* What storing a member does to the counts and to the tree.
LEMMA StoreMemberCounts ==
  ASSUME TreeTyped, open # << >>, NEW k \in Keys, NEW created \in BOOLEAN,
         NEW shared \in BOOLEAN, StoreMember(k, created, shared)
  PROVE  /\ open' \in Seq(Table) /\ rc' \in Bag /\ child' = NULL /\ open' # << >>
         /\ \A j \in Keys :
              /\ OpenRefs'[j] = OpenRefs[j] + ChildRefs[j] - ReplacedRefs(k)[j]
                                  + (IF j = k /\ TakesKey(k) /\ shared THEN 1 ELSE 0)
              /\ rc'[j] = rc[j] - ReplacedRefs(k)[j]
                            + (IF j = k /\ TakesKey(k) /\ shared THEN 1 ELSE 0)
                            + (IF j = k /\ created THEN 1 ELSE 0)
<1> DEFINE t == UpdatedTable(k, shared)
<1>1. /\ open' = [open EXCEPT ![Len(open)] = t]
      /\ rc' = Minus(Plus(rc, KeyRefs(k, created, shared)), ReplacedRefs(k))
      /\ child' = NULL
  BY DEF StoreMember
<1>2. /\ t \in Table
      /\ \A j \in Keys : t.refs[j] = Top.refs[j] + ChildRefs[j] - ReplacedRefs(k)[j]
                                       + (IF j = k /\ TakesKey(k) /\ shared THEN 1 ELSE 0)
  BY UpdatedTyped
<1> HIDE DEF t
<1>3. /\ open' \in Seq(Table) /\ Len(open') = Len(open)
      /\ \A j \in Keys : OpenRefs'[j] = OpenRefs[j] - Top.refs[j] + t.refs[j]
  BY <1>1, <1>2, TotalRefsReplace DEF TreeTyped, OpenRefs, Top
<1>4. /\ Len(open) \in Nat \ {0} /\ Top.refs \in Bag /\ ChildRefs \in Bag
      /\ ReplacedRefs(k) \in Bag /\ rc \in Bag /\ OpenRefs \in Bag
  BY TopTyped, TotalRefsTyped DEF TreeTyped, OpenRefs
<1>5. /\ KeyRefs(k, created, shared) \in Bag
      /\ \A j \in Keys : KeyRefs(k, created, shared)[j]
                           = (IF j = k /\ TakesKey(k) /\ shared THEN 1 ELSE 0)
                               + (IF j = k /\ created THEN 1 ELSE 0)
  BY DEF KeyRefs, Scale, Only, Bag
<1>6. rc' \in Bag
  BY <1>1, <1>4, <1>5, BagsClosed
<1>7. ASSUME NEW j \in Keys
      PROVE rc'[j] = rc[j] + KeyRefs(k, created, shared)[j] - ReplacedRefs(k)[j]
  BY <1>1, <1>4, <1>5 DEF Plus, Minus, Bag
<1>8. open' # << >>
  BY <1>3, <1>4
<1>9. ASSUME NEW j \in Keys
      PROVE /\ OpenRefs'[j] = OpenRefs[j] + ChildRefs[j] - ReplacedRefs(k)[j]
                                + (IF j = k /\ TakesKey(k) /\ shared THEN 1 ELSE 0)
            /\ rc'[j] = rc[j] - ReplacedRefs(k)[j]
                          + (IF j = k /\ TakesKey(k) /\ shared THEN 1 ELSE 0)
                          + (IF j = k /\ created THEN 1 ELSE 0)
  <2>1. /\ Top.refs[j] \in Int /\ ChildRefs[j] \in Int /\ ReplacedRefs(k)[j] \in Int
        /\ rc[j] \in Int /\ OpenRefs[j] \in Int
    BY <1>4 DEF Bag
  <2> DEFINE take == IF j = k /\ TakesKey(k) /\ shared THEN 1 ELSE 0
             fresh == IF j = k /\ created THEN 1 ELSE 0
  <2>2. take \in Int /\ fresh \in Int
    OBVIOUS
  <2>3. /\ t.refs[j] = Top.refs[j] + ChildRefs[j] - ReplacedRefs(k)[j] + take
        /\ KeyRefs(k, created, shared)[j] = take + fresh
    BY <1>2, <1>5
  <2> HIDE DEF take, fresh
  <2>4. OpenRefs'[j] = OpenRefs[j] + ChildRefs[j] - ReplacedRefs(k)[j] + take
    BY <2>1, <2>2, <2>3, <1>3
  <2>5. rc'[j] = rc[j] - ReplacedRefs(k)[j] + take + fresh
    BY <2>1, <2>2, <2>3, <1>7
  <2> QED BY <2>4, <2>5 DEF take, fresh
<1> QED BY <1>1, <1>3, <1>6, <1>8, <1>9

\* A member adds to the slots the string it creates, and nothing else.
LEMMA MemberSlots ==
  ASSUME CacheInv, NEW k \in Keys, ShareInsert(k), key_share = frame,
         UNCHANGED <<key_share, frame>>
  PROVE  \A j \in Keys : Released'[j] = Released[j] + (IF j = k THEN 1 ELSE 0)
<1> PICK n \in 0 .. PROBES - 1 : StopsAt(k, n) /\ slots[ProbeAt(k, n)] = NULL /\ FillSlot(k, n)
  BY DEF ShareInsert
<1> DEFINE p == ProbeAt(k, n)
<1>1. p \in Slots
  BY ProbeInTable, SizeAssumption
<1>2. /\ slots' = [slots EXCEPT ![p] = k] /\ used' = Append(used, p) /\ slots[p] = NULL
  BY DEF FillSlot
<1> HIDE DEF p
<1>3. used \in Seq(Slots) /\ slots \in [Slots -> Keys \cup {NULL}]
  BY DEF CacheInv, TypeOK
<1>4. \A i \in DOMAIN used : used[i] # p
  BY <1>2 DEF CacheInv, UsedIsOccupied
<1>5. ASSUME NEW j \in Keys
      PROVE  Cardinality(Naming(used', slots', j))
               = Cardinality(Naming(used, slots, j)) + (IF j = k THEN 1 ELSE 0)
  BY <1>1, <1>2, <1>3, <1>4, InsertCounts
<1>6. /\ Released = [j \in Keys |-> Cardinality(Naming(used, slots, j))]
      /\ Released' = [j \in Keys |-> Cardinality(Naming(used', slots', j))]
  BY DEF Released, SlotRefs, Naming
<1> QED BY <1>5, <1>6

\* While the table does not change, neither does what pop would release.
LEMMA SameSlots ==
  ASSUME UNCHANGED <<slots, used, key_share, frame>>
  PROVE  Released' = Released
BY DEF Released, SlotRefs

\* One member keeps the balance, shared or not.
LEMMA MemberBalance ==
  ASSUME BalanceInv, NEW k \in Keys, MemberUnshared(k) \/ MemberShared(k)
  PROVE  TreeTyped' /\ WalkOwnsTree' /\ Balanced'
<1>1. /\ frame # NULL /\ open # << >> /\ UNCHANGED <<key_share, frame, result>>
      /\ CacheInv /\ TreeTyped /\ WalkOwnsTree /\ result = NULL
  BY DEF MemberUnshared, MemberShared, InObject, BalanceInv, WalkOwnsTree
<1>2. PICK created \in BOOLEAN, shared \in BOOLEAN :
        /\ StoreMember(k, created, shared)
        /\ \A j \in Keys : Released'[j] = Released[j] + (IF j = k /\ created THEN 1 ELSE 0)
  <2>1. Released \in Bag
    BY <1>1, ReleasedTyped
  <2>2. ASSUME UNCHANGED <<slots, used>>
        PROVE  \A j \in Keys : Released'[j] = Released[j] + (IF j = k /\ FALSE THEN 1 ELSE 0)
    BY <1>1, <2>1, <2>2, SameSlots DEF Bag
  <2>3. CASE MemberUnshared(k)
    BY <2>2, <2>3 DEF MemberUnshared, cache
  <2>4. CASE MemberShared(k) /\ ShareInsert(k) /\ StoreMember(k, TRUE, TRUE)
    <3>1. key_share = frame
      BY <2>4 DEF MemberShared, Consults
    <3> QED BY <1>1, <2>4, <3>1, MemberSlots
  <2>5. CASE /\ MemberShared(k)
             /\ ShareOff \/ ShareHit(k) \/ ShareMiss(k)
             /\ StoreMember(k, FALSE, TRUE) \/ StoreMember(k, FALSE, FALSE)
    BY <2>2, <2>5 DEF ShareOff, ShareHit, ShareMiss
  <2> QED BY <2>3, <2>4, <2>5 DEF MemberShared
<1>3. /\ open' \in Seq(Table) /\ rc' \in Bag /\ child' = NULL /\ open' # << >>
      /\ \A j \in Keys :
           /\ OpenRefs'[j] = OpenRefs[j] + ChildRefs[j] - ReplacedRefs(k)[j]
                               + (IF j = k /\ TakesKey(k) /\ shared THEN 1 ELSE 0)
           /\ rc'[j] = rc[j] - ReplacedRefs(k)[j]
                         + (IF j = k /\ TakesKey(k) /\ shared THEN 1 ELSE 0)
                         + (IF j = k /\ created THEN 1 ELSE 0)
  BY <1>1, <1>2, StoreMemberCounts
<1>4. TreeTyped' /\ WalkOwnsTree'
  BY <1>1, <1>3 DEF TreeTyped, WalkOwnsTree
<1>5. Balanced
  BY BalancePerKey DEF BalanceInv
<1>6. ASSUME NEW j \in Keys PROVE rc'[j] = Released'[j] + OpenRefs'[j]
  <2>1. /\ Released[j] \in Int /\ OpenRefs[j] \in Int /\ ChildRefs[j] \in Int
        /\ ReplacedRefs(k)[j] \in Int
    BY <1>1, ReleasedTyped, TotalRefsTyped, TopTyped DEF Bag, OpenRefs, TreeTyped
  <2>2. ChildRefs[j] = IF child = NULL THEN 0 ELSE child[j]
    BY DEF ChildRefs, Zero
  <2>3. rc[j] = Released[j] + OpenRefs[j] + ChildRefs[j]
    BY <1>1, <1>5, <2>1, <2>2 DEF Balanced
  <2> DEFINE take == IF j = k /\ TakesKey(k) /\ shared THEN 1 ELSE 0
             fresh == IF j = k /\ created THEN 1 ELSE 0
  <2>4. take \in Int /\ fresh \in Int
    OBVIOUS
  <2>5. /\ OpenRefs'[j] = OpenRefs[j] + ChildRefs[j] - ReplacedRefs(k)[j] + take
        /\ rc'[j] = rc[j] - ReplacedRefs(k)[j] + take + fresh
        /\ Released'[j] = Released[j] + fresh
    BY <1>2, <1>3
  <2> HIDE DEF take, fresh
  <2> QED BY <2>1, <2>3, <2>4, <2>5
<1>7. ASSUME NEW j \in Keys PROVE Released'[j] \in Int /\ OpenRefs'[j] \in Int
  <2>1. Released[j] \in Int
    BY <1>1, ReleasedTyped DEF Bag
  <2>2. OpenRefs' \in Bag
    BY <1>3, TotalRefsTyped DEF OpenRefs
  <2> QED BY <1>2, <2>1, <2>2 DEF Bag
<1>8. Balanced'
  BY <1>1, <1>3, <1>6, <1>7 DEF Balanced
<1> QED BY <1>4, <1>8

\* A fresh container holds no reference.
LEMMA NewTableTyped ==
  ASSUME NEW kind \in {"obj", "arr"}
  PROVE  NewTable(kind) \in Table /\ NewTable(kind).refs = Zero
BY BagsClosed DEF NewTable, Table, Bucket

\* Every step keeps the balance.
LEMMA NextBalance == BalanceInv /\ [Next]_vars => BalanceInv'
<1> SUFFICES ASSUME BalanceInv, [Next]_vars PROVE BalanceInv'
  OBVIOUS
<1>1. CacheInv /\ TreeTyped /\ WalkOwnsTree /\ Balanced
  BY BalancePerKey DEF BalanceInv
<1>2. CacheInv'
  BY <1>1, NextCacheInv
<1>3. ASSUME NEW k \in Keys PROVE rc[k] \in Int /\ Released[k] \in Int /\ OpenRefs[k] \in Int
  BY <1>1, ReleasedTyped, TotalRefsTyped DEF Bag, OpenRefs, TreeTyped
<1>4. SUFFICES TreeTyped' /\ WalkOwnsTree' /\ Balanced'
  <2>1. (CacheInv /\ TreeTyped => (RefcountsBalance <=> Balanced))'
    BY BalanceIsPerKey, PTL
  <2> QED BY <1>2, <2>1 DEF BalanceInv
<1>5. CASE BeginWalk
  <2>1. PICK a \in Addrs, large \in BOOLEAN, arrays \in BOOLEAN, kind \in {"obj", "arr"} :
          /\ fj_key_share_push(a, large) /\ frame' = a /\ open' = <<NewTable(kind)>>
    BY <1>5 DEF BeginWalk
  <2>2. child' = NULL /\ rc' = Zero /\ result' = NULL /\ frame' # NULL /\ result = NULL
    BY <1>5, <2>1, KeysAssumption DEF BeginWalk
  <2>3. open' \in Seq(Table) /\ OpenRefs' = Zero
    <3>1. << >> \in Seq(Table) /\ <<NewTable(kind)>> = Append(<< >>, NewTable(kind))
      OBVIOUS
    <3>2. TotalRefs(<<NewTable(kind)>>) = Plus(Zero, Zero)
      BY <3>1, NewTableTyped, TotalRefsPush, TotalRefsTyped
    <3>3. Plus(Zero, Zero) = Zero
      BY DEF Plus, Zero
    <3> QED BY <2>1, <3>2, <3>3, NewTableTyped DEF OpenRefs
  <2>4. Released' = Zero
    <3>1. CASE large
      <4>1. used' = << >>
        BY <2>1, <3>1 DEF fj_key_share_push
      <4>2. \A k \in Keys : {i \in DOMAIN used' : slots'[used'[i]] = k} = {}
        BY <4>1
      <4> QED BY <4>2, FS_EmptySet DEF Released, SlotRefs, Zero
    <3>2. CASE ~ large
      BY <2>1, <2>2, <3>2 DEF fj_key_share_push, Released
    <3> QED BY <3>1, <3>2
  <2>5. TreeTyped' /\ WalkOwnsTree'
    BY <2>2, <2>3, BagsClosed DEF TreeTyped, WalkOwnsTree
  <2>6. Balanced'
    BY <2>2, <2>3, <2>4 DEF Balanced, Zero
  <2> QED BY <2>5, <2>6
<1>6. ASSUME NEW k \in Keys, MemberUnshared(k) \/ MemberShared(k)
      PROVE  TreeTyped' /\ WalkOwnsTree' /\ Balanced'
  BY <1>6, MemberBalance
<1>7. CASE OpenContainer
  <2>1. PICK kind \in {"obj", "arr"} : open' = Append(open, NewTable(kind))
    BY <1>7 DEF OpenContainer
  <2>2. UNCHANGED <<key_share, frame, slots, used, rc, child, result>> /\ frame # NULL
    BY <1>7 DEF OpenContainer, cache
  <2>3. open' \in Seq(Table) /\ OpenRefs' = Plus(OpenRefs, Zero)
    BY <1>1, <2>1, NewTableTyped, TotalRefsPush DEF TreeTyped, OpenRefs
  <2>4. TreeTyped' /\ WalkOwnsTree'
    BY <1>1, <2>2, <2>3 DEF TreeTyped, WalkOwnsTree
  <2>5. \A k \in Keys : OpenRefs'[k] = OpenRefs[k]
    BY <1>3, <2>3 DEF Plus, Zero
  <2>6. Released' = Released
    BY <2>2, SameSlots
  <2> QED BY <1>1, <2>2, <2>4, <2>5, <2>6 DEF Balanced
<1>8. CASE CloseContainer
  <2>1. /\ frame # NULL /\ child = NULL /\ Len(open) > 1 /\ open # << >>
        /\ child' = Top.refs /\ open' = SubSeq(open, 1, Len(open) - 1)
        /\ UNCHANGED <<key_share, frame, slots, used, rc, result>>
    BY <1>1, <1>8 DEF CloseContainer, cache, Front, TreeTyped
  <2>2. open' \in Seq(Table) /\ OpenRefs = Plus(OpenRefs', Top.refs)
    BY <1>1, <2>1, TotalRefsLast DEF TreeTyped, OpenRefs, Top
  <2>3. Top.refs \in Bag /\ OpenRefs' \in Bag
    BY <1>1, <2>1, <2>2, TopTyped, TotalRefsTyped DEF OpenRefs
  <2>4. TreeTyped' /\ WalkOwnsTree'
    BY <1>1, <2>1, <2>2, <2>3 DEF TreeTyped, WalkOwnsTree
  <2>5. child' # NULL
    BY <2>1, <2>3, KeysAssumption DEF Bag
  <2>6. Released' = Released
    BY <2>1, SameSlots
  <2>7. ASSUME NEW k \in Keys PROVE OpenRefs[k] = OpenRefs'[k] + child'[k]
    BY <2>1, <2>2 DEF Plus
  <2>8. ASSUME NEW k \in Keys PROVE OpenRefs'[k] \in Int /\ child'[k] \in Int
    BY <2>1, <2>3 DEF Bag
  <2>9. ASSUME NEW k \in Keys
        PROVE  rc'[k] = Released'[k] + OpenRefs'[k] + child'[k] + (IF result' = NULL THEN 0 ELSE result'[k])
    <3>1. result = NULL /\ result' = NULL
      BY <1>1, <2>1 DEF WalkOwnsTree
    <3>2. rc[k] = Released[k] + OpenRefs[k] + 0 + 0
      BY <1>1, <2>1, <3>1 DEF Balanced
    <3> QED BY <1>3, <2>1, <2>6, <2>7, <2>8, <3>1, <3>2
  <2> QED BY <2>1, <2>4, <2>5, <2>9 DEF Balanced
<1>9. CASE AppendElement
  <2>1. /\ frame # NULL /\ child # NULL /\ open # << >> /\ child' = NULL
        /\ open' = [open EXCEPT ![Len(open)].refs = Plus(@, child)]
        /\ UNCHANGED <<key_share, frame, slots, used, rc, result>>
    BY <1>9 DEF AppendElement, cache
  <2> DEFINE t == [Top EXCEPT !.refs = Plus(Top.refs, child)]
  <2>2. Top \in Table /\ Top.refs \in Bag /\ child \in Bag
    BY <1>1, <2>1, TopTyped DEF TreeTyped
  <2>3. t \in Table /\ t.refs = Plus(Top.refs, child)
    <3>1. Plus(Top.refs, child) \in Bag
      BY <2>2, BagsClosed
    <3> QED BY <2>2, <3>1 DEF Table
  <2>4. open' = [open EXCEPT ![Len(open)] = t]
    BY <1>1, <2>1, TopTyped DEF Top, TreeTyped
  <2> HIDE DEF t
  <2>5. /\ open' \in Seq(Table) /\ Len(open') = Len(open)
        /\ \A k \in Keys : OpenRefs'[k] = OpenRefs[k] - Top.refs[k] + t.refs[k]
    <3>1. open # << >> /\ open \in Seq(Table)
      BY <1>1, <2>1 DEF TreeTyped
    <3> QED BY <2>3, <2>4, <3>1, TotalRefsReplace DEF OpenRefs, Top
  <2>6. TreeTyped' /\ WalkOwnsTree'
    BY <1>1, <2>1, <2>5 DEF TreeTyped, WalkOwnsTree
  <2>7. ASSUME NEW k \in Keys PROVE OpenRefs'[k] = OpenRefs[k] + child[k] /\ child[k] \in Int
    <3>1. Top.refs[k] \in Int /\ child[k] \in Int /\ t.refs[k] = Top.refs[k] + child[k]
      BY <2>2, <2>3 DEF Plus, Bag
    <3> QED BY <1>3, <2>5, <3>1
  <2>8. Released' = Released
    BY <2>1, SameSlots
  <2>9. ASSUME NEW k \in Keys PROVE rc'[k] = Released'[k] + OpenRefs'[k] + 0 + 0
    <3>1. result = NULL
      BY <1>1, <2>1 DEF WalkOwnsTree
    <3>2. rc[k] = Released[k] + OpenRefs[k] + child[k] + 0
      BY <1>1, <2>1, <3>1 DEF Balanced
    <3> QED BY <1>3, <2>1, <2>7, <2>8, <3>2
  <2>10. result' = NULL
    BY <1>1, <2>1 DEF WalkOwnsTree
  <2> QED BY <2>1, <2>6, <2>9, <2>10 DEF Balanced
<1>10. CASE EndWalk
  <2>1. /\ frame # NULL /\ child = NULL /\ Len(open) = 1 /\ frame' = NULL
        /\ rc' = Minus(rc, Released) /\ result' = Top.refs
        /\ open' = << >> /\ child' = NULL /\ result = NULL /\ open # << >>
    BY <1>1, <1>10 DEF EndWalk, FrameDies, WalkOwnsTree
  <2>2. OpenRefs = Plus(Zero, Top.refs)
    <3>1. SubSeq(open, 1, Len(open) - 1) = << >>
      BY <2>1
    <3> QED BY <1>1, <2>1, <3>1, TotalRefsLast, TotalRefsTyped DEF TreeTyped, OpenRefs, Top
  <2>3. Top.refs \in Bag /\ Top.refs # NULL
    BY <1>1, <2>1, TopTyped, KeysAssumption DEF Bag
  <2>4. rc' \in Bag
    BY <1>1, <2>1, ReleasedTyped, BagsClosed DEF TreeTyped
  <2>5. TreeTyped' /\ WalkOwnsTree'
    BY <2>1, <2>3, <2>4 DEF TreeTyped, WalkOwnsTree
  <2>6. OpenRefs' = Zero
    BY <2>1, TotalRefsTyped DEF OpenRefs
  <2>7. ASSUME NEW k \in Keys PROVE rc'[k] = 0 + OpenRefs'[k] + 0 + result'[k]
    <3>1. rc[k] = Released[k] + OpenRefs[k] + 0 + 0
      BY <1>1, <2>1 DEF Balanced
    <3>2. OpenRefs[k] = Top.refs[k] /\ Top.refs[k] \in Int /\ OpenRefs'[k] = 0
      BY <2>2, <2>3, <2>6 DEF Plus, Zero, Bag
    <3>3. rc'[k] = rc[k] - Released[k]
      BY <2>1 DEF Minus
    <3> QED BY <1>3, <2>1, <3>1, <3>2, <3>3
  <2> QED BY <2>1, <2>3, <2>5, <2>7 DEF Balanced
<1>11. CASE FailWalk
  <2>1. /\ frame # NULL /\ frame' = NULL /\ open' = << >> /\ child' = NULL
        /\ rc' = Minus(Minus(Minus(rc, ChildRefs), Released), OpenRefs)
        /\ result = NULL /\ result' = NULL
    BY <1>1, <1>11 DEF FailWalk, FrameDies, WalkOwnsTree
  <2>2. ChildRefs \in Bag /\ rc' \in Bag
    BY <1>1, <2>1, ReleasedTyped, TotalRefsTyped, BagsClosed DEF TreeTyped, ChildRefs, OpenRefs
  <2>3. TreeTyped' /\ WalkOwnsTree'
    BY <2>1, <2>2 DEF TreeTyped, WalkOwnsTree
  <2>4. OpenRefs' = Zero
    BY <2>1, TotalRefsTyped DEF OpenRefs
  <2>5. ASSUME NEW k \in Keys PROVE rc'[k] = 0 + OpenRefs'[k] + 0 + 0
    <3>1. ChildRefs[k] \in Int /\ ChildRefs[k] = IF child = NULL THEN 0 ELSE child[k]
      BY <2>2 DEF Bag, ChildRefs, Zero
    <3>2. rc[k] = Released[k] + OpenRefs[k] + ChildRefs[k] + 0
      BY <1>1, <2>1, <3>1 DEF Balanced
    <3>3. rc'[k] = rc[k] - ChildRefs[k] - Released[k] - OpenRefs[k] /\ OpenRefs'[k] = 0
      BY <2>1, <2>4 DEF Minus, Zero
    <3> QED BY <1>3, <3>1, <3>2, <3>3
  <2> QED BY <2>1, <2>3, <2>5 DEF Balanced
<1>12. CASE DropResult
  <2>1. /\ result # NULL /\ rc' = Minus(rc, result) /\ result' = NULL
        /\ UNCHANGED <<frame, open, child>> /\ frame = NULL /\ child = NULL /\ open = << >>
    BY <1>1, <1>12 DEF DropResult, WalkOwnsTree, tree
  <2>2. result \in Bag /\ rc' \in Bag
    BY <1>1, <2>1, BagsClosed DEF TreeTyped
  <2>3. TreeTyped' /\ WalkOwnsTree'
    BY <1>1, <2>1, <2>2 DEF TreeTyped, WalkOwnsTree
  <2>4. OpenRefs' = OpenRefs
    BY <2>1 DEF OpenRefs
  <2>5. ASSUME NEW k \in Keys PROVE rc'[k] = 0 + OpenRefs'[k] + 0 + 0
    <3>1. result[k] \in Int /\ rc'[k] = rc[k] - result[k]
      BY <2>1, <2>2 DEF Bag, Minus
    <3>2. rc[k] = 0 + OpenRefs[k] + 0 + result[k]
      BY <1>1, <2>1 DEF Balanced
    <3> QED BY <1>3, <2>4, <3>1, <3>2
  <2> QED BY <2>1, <2>3, <2>5 DEF Balanced
<1>13. CASE Bailout \/ NextRequest
  <2>1. frame' = NULL /\ open' = << >> /\ child' = NULL /\ result' = NULL /\ rc' = Zero
    BY <1>1, <1>13 DEF Bailout, NextRequest, FrameDies, WalkOwnsTree, tree
  <2>2. TreeTyped' /\ WalkOwnsTree'
    BY <2>1, BagsClosed DEF TreeTyped, WalkOwnsTree
  <2>3. OpenRefs' = Zero
    BY <2>1, TotalRefsTyped DEF OpenRefs
  <2> QED BY <2>1, <2>2, <2>3 DEF Balanced, Zero
<1>14. CASE UNCHANGED vars
  <2>1. UNCHANGED <<frame, open, child, rc, result, key_share, slots, used>>
    BY <1>14 DEF vars, cache, tree
  <2>2. OpenRefs' = OpenRefs /\ Released' = Released
    BY <2>1, SameSlots DEF OpenRefs
  <2> QED BY <1>1, <2>1, <2>2 DEF TreeTyped, WalkOwnsTree, Balanced
<1> QED
  BY <1>5, <1>6, <1>7, <1>8, <1>9, <1>10, <1>11, <1>12, <1>13, <1>14 DEF Next

(***************************************************************************)
(* The reference count of every resident string is what its slot and the   *)
(* buckets hold, through overwritten members, nested containers, failures  *)
(* and fj_key_share_pop, for every document and every table size.          *)
(***************************************************************************)
THEOREM ReferencesBalance == Spec => []RefcountsBalance
<1>1. BalanceInv => RefcountsBalance
  BY DEF BalanceInv
<1> QED
  BY <1>1, InitBalance, NextBalance, PTL DEF Spec

-----------------------------------------------------------------------------
(* Sharing.                                                                *)

\* The probes of a resident key stop at its own slot, and nowhere else.
LEMMA ResidentIsFound ==
  ASSUME CacheInv, NEW k \in Keys, NEW s \in Slots, slots[s] = k
  PROVE  /\ \E n \in 0 .. PROBES - 1 : StopsAt(k, n)
         /\ \A n \in 0 .. PROBES - 1 : StopsAt(k, n) => slots[ProbeAt(k, n)] = k
<1>1. k # NULL
  BY KeysAssumption
<1>2. PICK n \in 0 .. PROBES - 1 :
             /\ s = ProbeAt(k, n)
             /\ \A m \in 0 .. n - 1 : slots[ProbeAt(k, m)] # NULL
  BY <1>1 DEF CacheInv, Reachable
<1> DEFINE T == {m \in 0 .. n : slots[ProbeAt(k, m)] = k}
<1>3. T \in SUBSET Nat /\ T # {}
  BY <1>2
<1>4. PICK m \in T : \A q \in T : m <= q
  BY <1>3, LeastElement
<1>5. m \in 0 .. PROBES - 1 /\ m <= n /\ slots[ProbeAt(k, m)] = k
  BY <1>4, SizeAssumption
<1>6. \A q \in 0 .. m - 1 : slots[ProbeAt(k, q)] \notin {NULL, k}
  BY <1>2, <1>4, <1>5
<1>7. StopsAt(k, m)
  BY <1>5, <1>6 DEF StopsAt
<1>8. ASSUME NEW q \in 0 .. PROBES - 1, StopsAt(k, q) PROVE slots[ProbeAt(k, q)] = k
  <2>1. q = m
    BY <1>5, <1>7, <1>8, SizeAssumption DEF StopsAt
  <2> QED BY <1>5, <2>1
<1> QED BY <1>5, <1>7, <1>8

\* One step of ResidentKeysAreShared.
SharesResident ==
  \A k \in Keys \ LongKeys :
    (/\ frame # NULL /\ key_share = frame /\ ~ off'
     /\ \E s \in Slots : slots[s] = k
     /\ Len(open') = Len(open)
     /\ Top.mem[k] = NULL /\ open'[Len(open)].mem[k] # NULL
     /\ ~ Promoted(k))
    => open'[Len(open)].mem[k].shared

LEMMA StepSharesResident == BalanceInv /\ [Next]_vars => SharesResident
<1> SUFFICES ASSUME BalanceInv, [Next]_vars, NEW k \in Keys \ LongKeys,
                    frame # NULL, key_share = frame, ~ off',
                    NEW s \in Slots, slots[s] = k,
                    Len(open') = Len(open), Top.mem[k] = NULL,
                    open'[Len(open)].mem[k] # NULL, ~ Promoted(k)
             PROVE  open'[Len(open)].mem[k].shared
  BY DEF SharesResident
<1>1. CacheInv /\ TreeTyped /\ WalkOwnsTree
  BY DEF BalanceInv
<1>2. CASE BeginWalk \/ NextRequest
  BY <1>2 DEF BeginWalk, NextRequest
<1>3. ASSUME NEW j \in Keys, InObject, NEW c \in BOOLEAN, NEW sh \in BOOLEAN, StoreMember(j, c, sh)
      PROVE  j = k /\ open'[Len(open)].mem[k].shared = sh
  <2>1. open # << >>
    BY <1>3 DEF InObject
  <2>2. Len(open) \in Nat \ {0} /\ Top \in Table
    BY <1>1, <2>1, TopTyped
  <2>3. open'[Len(open)] = UpdatedTable(j, sh)
    BY <1>1, <1>3, <2>2 DEF StoreMember, TreeTyped
  <2>4. Top.mem \in [Keys -> Bucket \cup {NULL}]
    BY <2>2 DEF Table
  <2> DEFINE b == [shared |-> IF TakesKey(j) THEN sh ELSE Top.mem[j].shared, sub |-> ChildRefs]
  <2>5. UpdatedTable(j, sh).mem = [Top.mem EXCEPT ![j] = b]
    BY DEF UpdatedTable
  <2> HIDE DEF b
  <2>6. j = k
    BY <2>3, <2>4, <2>5
  <2>7. UpdatedTable(j, sh).mem[k] = b
    BY <2>4, <2>5, <2>6
  <2> QED BY <2>3, <2>6, <2>7 DEF b, TakesKey
<1>4. ASSUME NEW j \in Keys, MemberUnshared(j) PROVE FALSE
  <2>1. j = k
    BY <1>3, <1>4 DEF MemberUnshared
  <2>2. off' = off /\ ~ Consults(k)
    BY <1>4, <2>1 DEF MemberUnshared, cache
  <2> QED BY <2>2 DEF Consults
<1>5. ASSUME NEW j \in Keys, MemberShared(j) PROVE open'[Len(open)].mem[k].shared
  <2>1. InObject
    BY <1>5 DEF MemberShared
  <2>2. CASE ShareOff
    BY <2>2 DEF ShareOff
  <2>3. CASE StoreMember(j, TRUE, TRUE) \/ StoreMember(j, FALSE, TRUE)
    <3>1. PICK c \in BOOLEAN : StoreMember(j, c, TRUE)
      BY <2>3
    <3>2. open'[Len(open)].mem[k].shared = TRUE
      BY <1>3, <2>1, <3>1
    <3> QED BY <3>2
  <2>4. CASE ShareMiss(j) /\ StoreMember(j, FALSE, FALSE)
    <3>1. j = k
      BY <1>3, <2>1, <2>4
    <3>2. k # NULL
      BY KeysAssumption
    <3> QED BY <1>1, <2>4, <3>1, <3>2, ResidentIsFound DEF ShareMiss
  <2> QED BY <1>5, <2>2, <2>3, <2>4 DEF MemberShared
<1>6. CASE OpenContainer \/ CloseContainer
  <2>1. Len(open) \in Nat
    BY <1>1 DEF TreeTyped
  <2>2. CASE OpenContainer
    BY <1>1, <2>1, <2>2 DEF OpenContainer, TreeTyped
  <2>3. CASE CloseContainer
    <3>1. open # << >> /\ open' = SubSeq(open, 1, Len(open) - 1) /\ Len(open) > 1
      BY <2>1, <2>3 DEF CloseContainer, Front
    <3>2. \A i \in 1 .. Len(open) - 1 : open[i] \in Table
      BY <1>1 DEF TreeTyped
    <3>3. Len(open') = IF 1 <= Len(open) - 1 THEN (Len(open) - 1) - 1 + 1 ELSE 0
      BY <2>1, <3>1, <3>2, SubSeqProperties
    <3> QED BY <2>1, <3>1, <3>3
  <2> QED BY <1>6, <2>2, <2>3
<1>7. CASE AppendElement
  <2>1. open # << >> /\ open' = [open EXCEPT ![Len(open)].refs = Plus(@, child)]
    BY <1>7 DEF AppendElement
  <2>2. Len(open) \in Nat \ {0} /\ Top \in Table
    BY <1>1, <2>1, TopTyped
  <2>3. open'[Len(open)].mem = Top.mem
    BY <1>1, <2>1, <2>2 DEF TreeTyped, Top, Table
  <2> QED BY <2>3
<1>8. CASE EndWalk \/ FailWalk \/ Bailout
  <2>1. open' = << >>
    BY <1>8 DEF EndWalk, FailWalk, Bailout, FrameDies
  <2>2. open = << >>
    BY <1>1, <2>1 DEF TreeTyped
  <2> QED BY <2>1, <2>2 DEF Top
<1>9. CASE DropResult \/ UNCHANGED vars
  <2>1. open' = open
    BY <1>9 DEF DropResult, vars, tree
  <2> QED BY <2>1 DEF Top
<1> QED
  BY <1>2, <1>4, <1>5, <1>6, <1>7, <1>8, <1>9 DEF Next

(***************************************************************************)
(* Once resident, a key is shared by every later member of the walk: the   *)
(* probe sequence finds it however the table filled up in between.         *)
(***************************************************************************)
THEOREM LaterMembersShare == Spec => ResidentKeysAreShared
<1>1. BalanceInv /\ [Next]_vars => [SharesResident]_vars
  BY StepSharesResident
<1> QED
  BY <1>1, InitBalance, NextBalance, PTL DEF Spec, ResidentKeysAreShared, SharesResident
=============================================================================
