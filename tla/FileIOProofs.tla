---------------------------- MODULE FileIOProofs ----------------------------
(***************************************************************************)
(* Theorems about FileIO for files of any size: the stream is destroyed    *)
(* exactly once, bytes stay in order, success means the whole file, and    *)
(* nothing a callback raised is swallowed.                                 *)
(***************************************************************************)
EXTENDS FileIO, SequenceTheorems, TLAPS

\* The bytes of one transfer follow those already moved.
LEMMA NextBytes ==
  ASSUME NEW n \in Int, NEW s \in Seq(1 .. MaxBytes), io.done \in Nat, Len(s) = io.done,
         \A i \in 1 .. Len(s) : s[i] = i, n > 0 => io.done + n <= MaxBytes
  PROVE  /\ s \o Bytes(n) \in Seq(1 .. MaxBytes)
         /\ Len(s \o Bytes(n)) = io.done + IF n > 0 THEN n ELSE 0
         /\ \A i \in 1 .. Len(s \o Bytes(n)) : (s \o Bytes(n))[i] = i
<1> DEFINE b == Bytes(n)
           m == IF n > 0 THEN n ELSE 0
<1>1. m \in Nat /\ 1 .. n = 1 .. m /\ io.done + m <= MaxBytes
  <2>1. Len(s) <= MaxBytes
    <3>1. CASE Len(s) = 0
      BY <3>1, BytesAssumption
    <3>2. CASE Len(s) > 0
      <4>1. Len(s) \in 1 .. Len(s)
        BY <3>2
      <4> QED
        BY <4>1, BytesAssumption
    <3> QED
      BY <3>1, <3>2
  <2>2. CASE n > 0
    BY <2>2
  <2>3. CASE ~ (n > 0)
    BY <2>1, <2>3
  <2> QED
    BY <2>2, <2>3
<1>2. b = [i \in 1 .. m |-> io.done + i]
  BY <1>1 DEF Bytes
<1> HIDE DEF m, b
<1>3. \A i \in 1 .. m : io.done + i \in 1 .. MaxBytes
  BY <1>1, BytesAssumption
<1>4. b \in Seq(1 .. MaxBytes) /\ Len(b) = m /\ \A i \in 1 .. m : b[i] = io.done + i
  <2>1. b \in [1 .. m -> 1 .. MaxBytes]
    BY <1>2, <1>3
  <2>2. b \in Seq(1 .. MaxBytes)
    BY <1>1, <2>1, SeqDef
  <2> QED
    BY <1>1, <1>2, <2>1, <2>2
<1>5. s \o b \in Seq(1 .. MaxBytes) /\ Len(s \o b) = io.done + m
  <2>1. /\ s \o b \in Seq(1 .. MaxBytes)
        /\ Len(s \o b) = Len(s) + Len(b)
    BY ONLY <1>4, s \in Seq(1 .. MaxBytes), ConcatProperties
  <2> QED
    BY <1>4, <2>1
<1>6. \A i \in 1 .. Len(s \o b) : (s \o b)[i] = i
  <2> SUFFICES ASSUME NEW i \in 1 .. Len(s \o b) PROVE (s \o b)[i] = i
    OBVIOUS
  <2>1. (s \o b)[i] = IF i <= Len(s) THEN s[i] ELSE b[i - Len(s)]
    BY <1>4, <1>5, ConcatProperties
  <2>2. CASE i <= Len(s)
    <3>1. i \in 1 .. Len(s)
      BY <1>5, <1>1, <2>2
    <3> QED
      BY <2>1, <2>2, <3>1
  <2>3. CASE ~ (i <= Len(s))
    <3>1. i - Len(s) \in 1 .. m /\ io.done + (i - Len(s)) = i
      BY <1>1, <1>5, <2>3
    <3> QED
      BY <1>4, <2>1, <2>3, <3>1
  <2> QED
    BY <2>2, <2>3
<1> QED
  BY <1>5, <1>6 DEF m, b

\* A callback cannot close a stream that is in free.
LEMMA HeldStream ==
  ASSUME stream = Marked(FALSE), NEW by
  PROVE  ClosedBy(by) = stream
BY DEF ClosedBy, Marked

LEMMA HeldReturns ==
  ASSUME FileInv, pc \in InLoop, NEW throws \in BOOLEAN, Returns(throws)
  PROVE  stream' = stream /\ exc' \in BOOLEAN /\ outcome' = outcome
<1>1. stream = Marked(FALSE)
  BY DEF FileInv, Holding
<1>2. stream' = stream
  BY <1>1, HeldStream DEF Returns
<1>3. exc' \in BOOLEAN
  BY DEF Returns
<1> QED
  BY <1>2, <1>3 DEF Returns

(***************************************************************************)
(* The step goes on inside the loops: what it has to show of the new       *)
(* locals and bytes.                                                       *)
(***************************************************************************)
LEMMA Continues ==
  ASSUME FileInv, pc \in InLoop, pc' \in InLoop, stream' = stream, exc' \in BOOLEAN,
         outcome' = outcome, moved' \in Seq(1 .. MaxBytes), InOrder',
         io' \in Locals, io'.opened = io.opened, io'.done <= io'.total, Position',
         pc' # "close" => ~ io'.bailed, io'.lost => ~ io'.flushed
  PROVE  FileInv'
<1>1. /\ outcome = NoOutcome /\ stream = Marked(FALSE) /\ io.opened
      /\ stream.closes = 0 /\ stream \in [closes : Nat, in_free : BOOLEAN, no_fclose : BOOLEAN]
  BY DEF FileInv, Running, Holding, InLoop, Marked, TypeOK
<1>2. outcome' = NoOutcome /\ pc' # "idle" /\ pc' # "open"
  BY <1>1 DEF InLoop
<1>3. TypeOK'
  <2>1. io'.done \in 0 .. io'.total
    BY BytesAssumption DEF Locals
  <2> QED
    BY <1>1, <2>1 DEF TypeOK, InLoop
<1>4. ClosedExactlyOnce' /\ SuccessIsWhole' /\ NothingSwallowed'
  BY <1>1, <1>2 DEF ClosedExactlyOnce, SuccessIsWhole, NothingSwallowed
<1>5. Running'
  BY <1>2 DEF Running
<1>6. Holding'
  BY <1>1, <1>2 DEF Holding, Marked
<1> QED
  BY <1>3, <1>4, <1>5, <1>6 DEF FileInv

-----------------------------------------------------------------------------
(* One lemma per action of the loops. *)

\* What the invariant says of a call that is inside the loops.
LEMMA Inside ==
  ASSUME FileInv, pc \in InLoop
  PROVE  /\ io \in Locals /\ io.done \in Nat /\ io.total \in Nat
         /\ io.total <= MaxBytes /\ io.done <= io.total
         /\ moved \in Seq(1 .. MaxBytes)
         /\ \A i \in 1 .. Len(moved) : moved[i] = i
         /\ exc \in BOOLEAN
<1>1. io \in Locals /\ io.done <= io.total
  BY DEF FileInv, Running, InLoop
<1>2. io.done \in Nat /\ io.total \in Nat /\ io.total <= MaxBytes
  BY <1>1, BytesAssumption DEF Locals
<1> QED
  BY <1>1, <1>2 DEF FileInv, TypeOK, InOrder

LEMMA WriteKeeps == ASSUME FileInv, Write PROVE FileInv'
<1>1. pc = "write" /\ pc \in InLoop /\ pc' = "wrote" /\ pc' \in InLoop
  BY DEF Write, InLoop
<1>2. PICK n \in Counts(io.total - io.done), throws \in BOOLEAN :
        /\ Returns(throws)
        /\ moved' = moved \o Bytes(IF n > io.total - io.done THEN io.total - io.done ELSE n)
        /\ io' = [io EXCEPT !.n = n]
  BY DEF Write
<1> DEFINE k == IF n > io.total - io.done THEN io.total - io.done ELSE n
<1>3. /\ io \in Locals /\ io.done \in Nat /\ io.total \in Nat /\ io.total <= MaxBytes
      /\ io.done <= io.total /\ moved \in Seq(1 .. MaxBytes)
      /\ \A i \in 1 .. Len(moved) : moved[i] = i
  BY <1>1, Inside
<1>4. /\ Len(moved) = io.done /\ io.op = "encode" /\ ~ io.bailed /\ (io.lost => ~ io.flushed)
  BY <1>1 DEF FileInv, Position, Running
<1>5. n \in Int
  BY <1>3 DEF Counts
<1>6. k \in Int /\ (k > 0 => io.done + k <= MaxBytes)
  BY <1>3, <1>5, BytesAssumption
<1>7. /\ moved' \in Seq(1 .. MaxBytes) /\ InOrder'
      /\ Len(moved') = io.done + IF k > 0 THEN k ELSE 0
  <2> HIDE DEF k
  <2>1. /\ moved \o Bytes(k) \in Seq(1 .. MaxBytes)
        /\ Len(moved \o Bytes(k)) = io.done + IF k > 0 THEN k ELSE 0
        /\ \A i \in 1 .. Len(moved \o Bytes(k)) : (moved \o Bytes(k))[i] = i
    BY <1>3, <1>4, <1>6, NextBytes
  <2>2. moved' = moved \o Bytes(k)
    BY <1>2 DEF k
  <2> QED
    BY <2>1, <2>2 DEF InOrder
<1>8. /\ io' \in Locals /\ io'.n = n /\ io'.done = io.done /\ io'.total = io.total
      /\ io'.op = io.op /\ io'.bailed = io.bailed /\ io'.opened = io.opened
      /\ io'.lost = io.lost /\ io'.flushed = io.flushed
  BY <1>2, <1>3, <1>5 DEF Locals
<1>9. Len(moved') = IF n <= 0 THEN io.done ELSE IF n >= io.total - io.done THEN io.total ELSE io.done + n
  BY <1>3, <1>5, <1>7
<1>10. Position'
  <2>2. Len(moved') = IF io'.n <= 0 THEN io'.done
                      ELSE IF io'.n >= io'.total - io'.done THEN io'.total ELSE io'.done + io'.n
    BY <1>8, <1>9
  <2> QED
    BY <1>1, <1>4, <1>8, <2>2 DEF Position, Stalls, Progress
<1>11. stream' = stream /\ exc' \in BOOLEAN /\ outcome' = outcome
  BY <1>1, <1>2, HeldReturns
<1> QED
  BY <1>1, <1>3, <1>4, <1>7, <1>8, <1>10, <1>11, Continues

LEMMA WroteKeeps == ASSUME FileInv, Wrote PROVE FileInv'
<1> DEFINE d == IF Stalls(io.n) THEN io.done ELSE Progress(io.n)
<1>1. pc = "wrote" /\ pc \in InLoop
  BY DEF Wrote, InLoop
<1>2. /\ io' = [io EXCEPT !.done = d, !.wrote_all = (d = io.total)]
      /\ pc' = IF ~ Stalls(io.n) /\ d < io.total THEN "write"
               ELSE IF d = io.total /\ io.can_flush /\ ~ exc THEN "flush" ELSE "close"
      /\ UNCHANGED <<stream, moved, exc, outcome>>
  BY DEF Wrote
<1>3. /\ io \in Locals /\ io.done \in Nat /\ io.total \in Nat /\ io.total <= MaxBytes
      /\ io.done <= io.total /\ moved \in Seq(1 .. MaxBytes)
      /\ \A i \in 1 .. Len(moved) : moved[i] = i /\ exc \in BOOLEAN
      /\ exc \in BOOLEAN
  BY <1>1, Inside
<1>4. /\ Len(moved) = d /\ io.op = "encode" /\ ~ io.bailed /\ (io.lost => ~ io.flushed)
  BY <1>1 DEF FileInv, Position, Running
<1>5. d \in Nat /\ d <= io.total /\ io.n \in Int
  BY <1>3 DEF Stalls, Progress, Locals
<1> HIDE DEF d
<1>6. /\ io' \in Locals /\ io'.done = d /\ io'.total = io.total
      /\ (io'.wrote_all <=> d = io.total)
      /\ io'.op = io.op /\ io'.bailed = io.bailed /\ io'.opened = io.opened
      /\ io'.lost = io.lost /\ io'.flushed = io.flushed
  <2> DEFINE w == d = io.total
  <2>1. w \in BOOLEAN /\ io' = [io EXCEPT !.done = d, !.wrote_all = w]
    BY <1>2
  <2>5. w <=> d = io.total
    OBVIOUS
  <2>2. d \in 0 .. MaxBytes
    BY <1>3, <1>5, BytesAssumption
  <2> HIDE DEF w
  <2>3. /\ io' \in Locals /\ io'.done = d /\ io'.wrote_all = w /\ io'.total = io.total
        /\ io'.op = io.op /\ io'.bailed = io.bailed /\ io'.opened = io.opened
        /\ io'.lost = io.lost /\ io'.flushed = io.flushed
    BY <1>3, <2>1, <2>2 DEF Locals
  <2>4. io'.wrote_all <=> d = io.total
    BY <2>3, <2>5, Zenon
  <2> QED
    BY <2>3, <2>4
<1>7. pc' \in {"write", "flush", "close"} /\ pc' \in InLoop
  BY <1>2 DEF InLoop
<1>8. Position'
  BY <1>2, <1>4, <1>6, <1>7 DEF Position
<1>9. InOrder'
  BY <1>2, <1>3 DEF InOrder
<1> QED
  BY <1>1, <1>2, <1>3, <1>4, <1>5, <1>6, <1>7, <1>8, <1>9, Continues

LEMMA FlushKeeps == ASSUME FileInv, Flush PROVE FileInv'
<1>1. pc = "flush" /\ pc \in InLoop /\ pc' = "close" /\ pc' \in InLoop /\ moved' = moved
  BY DEF Flush, InLoop
<1>2. PICK ok \in BOOLEAN, throws \in BOOLEAN :
        Returns(throws) /\ io' = [io EXCEPT !.flushed = ok, !.lost = ~ ok]
  BY DEF Flush, Flushed
<1>3. /\ io \in Locals /\ io.done \in Nat /\ io.total \in Nat /\ io.done <= io.total
      /\ moved \in Seq(1 .. MaxBytes) /\ \A i \in 1 .. Len(moved) : moved[i] = i
  BY <1>1, Inside
<1>4. /\ io' \in Locals /\ io'.done = io.done /\ io'.total = io.total
      /\ io'.op = io.op /\ io'.bailed = io.bailed /\ io'.opened = io.opened
      /\ io'.wrote_all = io.wrote_all /\ io'.read_failed = io.read_failed
      /\ (io'.lost => ~ io'.flushed)
  BY <1>2, <1>3 DEF Locals
<1>5. Position'
  BY <1>1, <1>4 DEF FileInv, Position
<1>6. stream' = stream /\ exc' \in BOOLEAN /\ outcome' = outcome
  BY <1>1, <1>2, HeldReturns
<1>7. InOrder'
  BY <1>1, <1>3 DEF InOrder
<1> QED
  BY <1>1, <1>3, <1>4, <1>5, <1>6, <1>7, Continues

LEMMA ReadStdioKeeps == ASSUME FileInv, ReadStdio PROVE FileInv'
<1>1. pc = "read" /\ pc \in InLoop /\ pc' = "close" /\ pc' \in InLoop /\ io.kind = "stdio"
  BY DEF ReadStdio, InLoop
<1>2. PICK n \in 0 .. io.total, throws \in BOOLEAN :
        /\ Returns(throws) /\ moved' = Bytes(n)
        /\ io' = [io EXCEPT !.done = n, !.read_failed = (n < io.total)]
  BY DEF ReadStdio
<1>3. /\ io \in Locals /\ io.total \in Nat /\ io.total <= MaxBytes
      /\ moved \in Seq(1 .. MaxBytes) /\ Len(moved) = io.done /\ io.done = 0
      /\ io.op = "decode" /\ ~ io.bailed /\ (io.lost => ~ io.flushed)
  BY <1>1, Inside DEF FileInv, Position, Running
<1>4. /\ moved' \in Seq(1 .. MaxBytes) /\ InOrder' /\ Len(moved') = n
  <2> DEFINE e == << >>
  <2>1. /\ e \in Seq(1 .. MaxBytes) /\ Len(e) = io.done /\ io.done \in Nat /\ n \in Int
        /\ (\A i \in 1 .. Len(e) : e[i] = i) /\ (n > 0 => io.done + n <= MaxBytes)
    BY <1>3, BytesAssumption
  <2> HIDE DEF e
  <2>2. /\ e \o Bytes(n) \in Seq(1 .. MaxBytes)
        /\ Len(e \o Bytes(n)) = io.done + IF n > 0 THEN n ELSE 0
        /\ \A i \in 1 .. Len(e \o Bytes(n)) : (e \o Bytes(n))[i] = i
    BY <2>1, NextBytes
  <2>3. e \o Bytes(n) = Bytes(n)
    <3>1. Bytes(n) \in [1 .. n -> Int] /\ n \in Nat
      BY <1>3 DEF Bytes
    <3>2. Bytes(n) \in Seq(Int)
      BY <3>1, SeqDef
    <3> QED
      BY <3>2, ConcatEmptySeq DEF e
  <2> QED
    BY <1>2, <1>3, <2>2, <2>3 DEF InOrder
<1>5. /\ io' \in Locals /\ io'.done = n /\ io'.total = io.total
      /\ io'.op = io.op /\ io'.bailed = io.bailed /\ io'.opened = io.opened
      /\ (io'.read_failed <=> n < io.total)
      /\ io'.lost = io.lost /\ io'.flushed = io.flushed
  <2> DEFINE w == n < io.total
  <2>1. w \in BOOLEAN /\ io' = [io EXCEPT !.done = n, !.read_failed = w]
    BY <1>2
  <2>5. w <=> n < io.total
    OBVIOUS
  <2>2. n \in 0 .. MaxBytes
    BY <1>3, BytesAssumption
  <2> HIDE DEF w
  <2>3. /\ io' \in Locals /\ io'.done = n /\ io'.read_failed = w /\ io'.total = io.total
        /\ io'.op = io.op /\ io'.bailed = io.bailed /\ io'.opened = io.opened
        /\ io'.lost = io.lost /\ io'.flushed = io.flushed
    BY <1>3, <2>1, <2>2 DEF Locals
  <2>4. io'.read_failed <=> n < io.total
    BY <2>3, <2>5, Zenon
  <2> QED
    BY <2>3, <2>4
<1>6. Position'
  BY <1>1, <1>2, <1>3, <1>4, <1>5 DEF Position
<1>7. stream' = stream /\ exc' \in BOOLEAN /\ outcome' = outcome
  BY <1>1, <1>2, HeldReturns
<1>8. io'.done <= io'.total
  BY <1>3, <1>5
<1> QED
  BY <1>1, <1>3, <1>4, <1>5, <1>6, <1>7, <1>8, Continues

LEMMA ReadChunkKeeps == ASSUME FileInv, ReadChunk PROVE FileInv'
<1>1. pc = "read" /\ pc \in InLoop /\ pc' = "got" /\ pc' \in InLoop /\ io.kind = "user"
  BY DEF ReadChunk, InLoop
<1>2. PICK n \in IF exc THEN {-1} ELSE -1 .. io.total - io.done, throws \in BOOLEAN :
        /\ Returns(throws) /\ moved' = moved \o Bytes(n) /\ io' = [io EXCEPT !.n = n]
  BY DEF ReadChunk
<1>3. /\ io \in Locals /\ io.done \in Nat /\ io.total \in Nat /\ io.total <= MaxBytes
      /\ io.done <= io.total /\ moved \in Seq(1 .. MaxBytes)
      /\ \A i \in 1 .. Len(moved) : moved[i] = i
  BY <1>1, Inside
<1>4. /\ Len(moved) = io.done /\ io.op = "decode" /\ ~ io.bailed /\ (io.lost => ~ io.flushed)
  BY <1>1 DEF FileInv, Position, Running
<1>5. n \in Int /\ n <= io.total - io.done /\ (n > 0 => io.done + n <= MaxBytes)
  BY <1>3, BytesAssumption
<1>6. /\ moved' \in Seq(1 .. MaxBytes) /\ InOrder'
      /\ Len(moved') = io.done + IF n > 0 THEN n ELSE 0
  <2>1. /\ moved \o Bytes(n) \in Seq(1 .. MaxBytes)
        /\ Len(moved \o Bytes(n)) = io.done + IF n > 0 THEN n ELSE 0
        /\ \A i \in 1 .. Len(moved \o Bytes(n)) : (moved \o Bytes(n))[i] = i
    BY <1>3, <1>4, <1>5, NextBytes
  <2> QED
    BY <1>2, <2>1 DEF InOrder
<1>7. /\ io' \in Locals /\ io'.n = n /\ io'.done = io.done /\ io'.total = io.total
      /\ io'.op = io.op /\ io'.bailed = io.bailed /\ io'.opened = io.opened
      /\ io'.lost = io.lost /\ io'.flushed = io.flushed /\ io'.kind = io.kind
  BY <1>2, <1>3, <1>5 DEF Locals
<1>8. Position'
  BY <1>1, <1>4, <1>5, <1>6, <1>7 DEF Position
<1>9. stream' = stream /\ exc' \in BOOLEAN /\ outcome' = outcome
  BY <1>1, <1>2, HeldReturns
<1> QED
  BY <1>1, <1>3, <1>4, <1>6, <1>7, <1>8, <1>9, Continues

LEMMA GotBytesKeeps == ASSUME FileInv, GotBytes PROVE FileInv'
<1>1. /\ pc = "got" /\ pc \in InLoop /\ pc' = "read" /\ pc' \in InLoop /\ io.n > 0
      /\ io' = [io EXCEPT !.done = io.done + io.n] /\ UNCHANGED <<stream, moved, exc, outcome>>
  BY DEF GotBytes, InLoop
<1>2. /\ io \in Locals /\ io.done \in Nat /\ io.total \in Nat /\ io.total <= MaxBytes
      /\ moved \in Seq(1 .. MaxBytes) /\ exc \in BOOLEAN
      /\ \A i \in 1 .. Len(moved) : moved[i] = i
  BY <1>1, Inside
<1>3. /\ Len(moved) = io.done + io.n /\ io.n <= io.total - io.done /\ io.kind # "stdio"
      /\ io.op = "decode" /\ ~ io.bailed /\ (io.lost => ~ io.flushed)
  BY <1>1 DEF FileInv, Position, Running
<1>4. io.n \in Int /\ io.done + io.n \in 0 .. MaxBytes /\ io.done + io.n <= io.total
  BY <1>1, <1>2, <1>3, BytesAssumption DEF Locals
<1>5. /\ io' \in Locals /\ io'.done = io.done + io.n /\ io'.total = io.total
      /\ io'.op = io.op /\ io'.bailed = io.bailed /\ io'.opened = io.opened
      /\ io'.lost = io.lost /\ io'.flushed = io.flushed /\ io'.kind = io.kind
  BY <1>1, <1>2, <1>4 DEF Locals
<1>6. Position'
  BY <1>1, <1>3, <1>5 DEF Position
<1>7. InOrder'
  BY <1>1, <1>2 DEF InOrder
<1> QED
  BY <1>1, <1>2, <1>3, <1>4, <1>5, <1>6, <1>7, Continues

LEMMA LocalsAfterEof ==
  ASSUME NEW x \in Locals, NEW w \in BOOLEAN
  PROVE  LET y == [x EXCEPT !.read_failed = w]
         IN  /\ y \in Locals /\ y.read_failed = w /\ y.done = x.done /\ y.total = x.total
             /\ y.op = x.op /\ y.bailed = x.bailed /\ y.opened = x.opened
             /\ y.lost = x.lost /\ y.flushed = x.flushed
BY DEF Locals

LEMMA GotNothingKeeps == ASSUME FileInv, GotNothing PROVE FileInv'
<1>1. /\ pc = "got" /\ pc \in InLoop /\ pc' = "close" /\ pc' \in InLoop /\ io.n <= 0
      /\ moved' = moved
  BY DEF GotNothing, InLoop
<1>2. PICK eof \in BOOLEAN, throws \in BOOLEAN :
        /\ eof /\ io.n = 0 => io.done = io.total
        /\ IF io.n < 0 THEN UNCHANGED <<stream, exc, outcome>> ELSE Returns(throws)
        /\ io' = [io EXCEPT !.read_failed = ReadFails(io.n, eof)]
  BY DEF GotNothing
<1>3. /\ io \in Locals /\ io.done \in Nat /\ io.total \in Nat /\ io.total <= MaxBytes
      /\ io.done <= io.total /\ moved \in Seq(1 .. MaxBytes) /\ exc \in BOOLEAN
      /\ \A i \in 1 .. Len(moved) : moved[i] = i
  BY <1>1, Inside
<1>4. /\ Len(moved) = io.done /\ io.op = "decode" /\ ~ io.bailed /\ (io.lost => ~ io.flushed)
      /\ io.n \in Int
  <2>1. Len(moved) = io.done + (IF io.n > 0 THEN io.n ELSE 0) /\ io.op = "decode"
    BY <1>1 DEF FileInv, Position
  <2>2. ~ io.bailed /\ (io.lost => ~ io.flushed) /\ io.n \in Int
    BY <1>1, <1>3 DEF FileInv, Running, Locals
  <2> QED
    BY <1>1, <1>3, <2>1, <2>2
<1> DEFINE w == ReadFails(io.n, eof)
<1>5. w \in BOOLEAN /\ (~ w => io.done = io.total)
  <2>1. w = (io.n < 0 \/ ~ eof)
    BY DEF ReadFails
  <2>2. ~ (io.n < 0) => io.n = 0
    BY <1>1, <1>4
  <2> QED
    BY <1>2, <2>1, <2>2
<1>6. io' = [io EXCEPT !.read_failed = w]
  BY <1>2
<1> HIDE DEF w
<1>7. /\ io' \in Locals /\ io'.read_failed = w /\ io'.done = io.done /\ io'.total = io.total
      /\ io'.op = io.op /\ io'.bailed = io.bailed /\ io'.opened = io.opened
      /\ io'.lost = io.lost /\ io'.flushed = io.flushed
  BY <1>3, <1>5, <1>6, LocalsAfterEof
<1>8. ~ io'.read_failed => Len(moved') = io'.total
  <2>1. ~ io'.read_failed => io.done = io.total
    BY <1>5, <1>7, Zenon
  <2> QED
    BY <1>1, <1>4, <1>7, <2>1
<1>9. Position'
  BY <1>1, <1>4, <1>7, <1>8 DEF Position
<1>10. stream' = stream /\ exc' \in BOOLEAN /\ outcome' = outcome
  BY <1>1, <1>2, <1>3, HeldReturns
<1>11. InOrder'
  BY <1>1, <1>3 DEF InOrder
<1> QED
  BY <1>1, <1>3, <1>4, <1>7, <1>9, <1>10, <1>11, Continues

LEMMA CallbackBailsKeeps == ASSUME FileInv, CallbackBails PROVE FileInv'
<1>1. /\ pc \in {"write", "flush", "read", "got"} /\ pc \in InLoop
      /\ pc' = "close" /\ pc' \in InLoop
      /\ io' = [io EXCEPT !.bailed = TRUE] /\ UNCHANGED <<moved, exc, outcome>>
  BY DEF CallbackBails, InLoop
<1>2. stream' = stream
  <2>1. stream = Marked(FALSE)
    BY <1>1 DEF FileInv, Holding
  <2> QED
    BY <2>1, HeldStream DEF CallbackBails
<1>3. /\ io \in Locals /\ io.done <= io.total /\ moved \in Seq(1 .. MaxBytes) /\ exc \in BOOLEAN
      /\ \A i \in 1 .. Len(moved) : moved[i] = i
  BY <1>1, Inside
<1>4. io.lost => ~ io.flushed
  BY <1>1 DEF FileInv, Running
<1>5. /\ io' \in Locals /\ io'.done = io.done /\ io'.total = io.total
      /\ io'.bailed /\ io'.opened = io.opened /\ io'.lost = io.lost /\ io'.flushed = io.flushed
  BY <1>1, <1>3 DEF Locals
<1>6. Position'
  BY <1>1, <1>5 DEF Position
<1>7. InOrder'
  BY <1>1, <1>3 DEF InOrder
<1> QED
  BY <1>1, <1>2, <1>3, <1>4, <1>5, <1>6, <1>7, Continues

-----------------------------------------------------------------------------
(* Beginning and ending a call. *)

LEMMA StartKeeps == ASSUME FileInv, Start PROVE FileInv'
<1>1. /\ pc' = "open" /\ moved' = << >> /\ stream' = NoStream /\ exc' = FALSE
      /\ outcome' = NoOutcome
  BY DEF Start
<1>2. PICK op \in {"encode", "decode"}, total \in 0 .. MaxBytes, kind \in Kinds :
        io' = Call(op, total, kind)
  BY DEF Start
<1>3. /\ io' \in Locals /\ io'.done = 0 /\ io'.total = total /\ ~ io'.opened /\ ~ io'.bailed
      /\ ~ io'.lost
  BY <1>2, BytesAssumption DEF Call, Locals
<1>4. TypeOK'
  <2>1. io'.done \in 0 .. io'.total
    BY <1>3, BytesAssumption
  <2>2. stream' \in [closes : Nat, in_free : BOOLEAN, no_fclose : BOOLEAN]
    BY <1>1 DEF NoStream
  <2>3. moved' \in Seq(1 .. MaxBytes)
    BY <1>1
  <2> QED
    BY <1>1, <2>1, <2>2, <2>3 DEF TypeOK
<1>5. InOrder'
  BY <1>1 DEF InOrder
<1>6. ClosedExactlyOnce' /\ SuccessIsWhole' /\ NothingSwallowed'
  BY <1>1 DEF ClosedExactlyOnce, SuccessIsWhole, NothingSwallowed
<1>7. Running' /\ Holding'
  BY <1>1, <1>3 DEF Running, Holding, InLoop
<1>8. Position'
  BY <1>1, <1>3 DEF Position
<1> QED
  BY <1>4, <1>5, <1>6, <1>7, <1>8 DEF FileInv

LEMMA OpenSucceedsKeeps == ASSUME FileInv, OpenSucceeds PROVE FileInv'
<1>1. /\ pc = "open" /\ pc' = IF io.op = "encode" THEN "write" ELSE "read"
      /\ UNCHANGED <<moved, exc, outcome>>
  BY DEF OpenSucceeds
<1>2. PICK no_fclose \in BOOLEAN, can_flush \in BOOLEAN :
        /\ stream' = Marked(no_fclose)
        /\ io' = [io EXCEPT !.opened = TRUE, !.saved_no_fclose = no_fclose,
                            !.can_flush = can_flush]
  BY DEF OpenSucceeds
<1>3. /\ io \in Locals /\ io.done = 0 /\ Len(moved) = io.done /\ io.done <= io.total
      /\ ~ io.bailed /\ (io.lost => ~ io.flushed) /\ outcome = NoOutcome
  BY <1>1 DEF FileInv, Running, Position
<1>4. /\ io' \in Locals /\ io'.opened /\ io'.done = io.done /\ io'.total = io.total
      /\ io'.op = io.op /\ io'.bailed = io.bailed /\ io'.kind = io.kind
      /\ io'.lost = io.lost /\ io'.flushed = io.flushed
  BY <1>2, <1>3 DEF Locals
<1>5. /\ pc' \in {"write", "read"} /\ pc' \in InLoop
      /\ (pc' = "write" => io.op = "encode") /\ (pc' = "read" => io.op = "decode")
  BY <1>1, <1>3 DEF InLoop, Locals
<1>6. stream' = Marked(FALSE) /\ stream'.closes = 0
      /\ stream' \in [closes : Nat, in_free : BOOLEAN, no_fclose : BOOLEAN]
  BY <1>2 DEF Marked
<1>7. TypeOK'
  <2>1. io'.done \in 0 .. io'.total
    BY <1>3, <1>4, BytesAssumption DEF Locals
  <2>2. exc' \in BOOLEAN /\ moved' \in Seq(1 .. MaxBytes)
    BY <1>1 DEF FileInv, TypeOK
  <2> QED
    BY <1>5, <1>6, <2>1, <2>2 DEF TypeOK
<1>8. InOrder'
  BY <1>1 DEF FileInv, InOrder
<1>9. ClosedExactlyOnce' /\ SuccessIsWhole' /\ NothingSwallowed'
  BY <1>1, <1>3, <1>6 DEF ClosedExactlyOnce, SuccessIsWhole, NothingSwallowed
<1>10. Running'
  BY <1>1, <1>3, <1>4 DEF Running
<1>11. Holding'
  BY <1>4, <1>5, <1>6 DEF Holding, Marked
<1>12. Position'
  BY <1>1, <1>3, <1>4, <1>5 DEF Position
<1> QED
  BY <1>7, <1>8, <1>9, <1>10, <1>11, <1>12 DEF FileInv

(***************************************************************************)
(* A call that ends leaves nothing but its outcome behind.                 *)
(***************************************************************************)
LEMMA EndKeeps ==
  ASSUME FileInv, pc' = "idle", moved' = moved, exc' \in BOOLEAN,
         stream' \in [closes : Nat, in_free : BOOLEAN, no_fclose : BOOLEAN],
         outcome'.closes = IF outcome'.opened THEN 1 ELSE 0,
         outcome'.how = "ok" =>
           outcome'.whole /\ (outcome'.op = "encode" => ~ outcome'.lost),
         outcome'.how = "bailout" <=> outcome'.bailed,
         outcome'.how = "throw" <=> outcome'.threw /\ ~ outcome'.bailed
  PROVE  FileInv'
<1>1. TypeOK' /\ InOrder'
  BY DEF FileInv, TypeOK, InOrder
<1>2. ClosedExactlyOnce' /\ SuccessIsWhole' /\ NothingSwallowed'
  BY DEF ClosedExactlyOnce, SuccessIsWhole, NothingSwallowed
<1>3. Running' /\ Holding' /\ Position'
  BY DEF Running, Holding, Position, InLoop
<1> QED
  BY <1>1, <1>2, <1>3 DEF FileInv

LEMMA OpenEndsKeeps == ASSUME FileInv, OpenFails \/ OpenBails PROVE FileInv'
<1>1. /\ pc = "open" /\ pc' = "idle" /\ UNCHANGED <<stream, moved>> /\ exc' \in BOOLEAN
  BY DEF OpenFails, OpenBails, Ends, FileInv, TypeOK
<1>2. io \in Locals /\ ~ io.opened /\ ~ io.bailed /\ stream = NoStream
  BY <1>1 DEF FileInv, Running, Holding
<1>3. stream' \in [closes : Nat, in_free : BOOLEAN, no_fclose : BOOLEAN] /\ stream'.closes = 0
  BY <1>1, <1>2 DEF NoStream
<1>4. CASE OpenFails
  <2>1. /\ outcome'.closes = 0 /\ ~ outcome'.opened /\ ~ outcome'.bailed
        /\ outcome'.how = (IF exc' THEN "throw" ELSE "fail")
        /\ outcome'.threw = exc'
    BY <1>2, <1>3, <1>4 DEF OpenFails, Ends
  <2>2. outcome'.how = "throw" <=> outcome'.threw
    BY <1>1, <2>1
  <2> QED
    BY <1>1, <1>3, <2>1, <2>2, EndKeeps
<1>5. CASE OpenBails
  <2>1. /\ outcome'.closes = 0 /\ ~ outcome'.opened /\ outcome'.bailed
        /\ outcome'.how = "bailout"
    <3>1. io'.bailed
      BY <1>2, <1>5 DEF OpenBails, Locals
    <3> QED
      BY <1>2, <1>3, <1>5, <3>1 DEF OpenBails, Ends
  <2> QED
    BY <1>1, <1>3, <2>1, EndKeeps
<1> QED
  BY <1>4, <1>5

LEMMA CloseKeeps == ASSUME FileInv, Close PROVE FileInv'
<1>1. pc = "close" /\ pc \in InLoop /\ pc' = "idle" /\ moved' = moved
      /\ stream' = Closed(Unmarked)
  BY DEF Close, Ends, InLoop
<1>2. PICK ok \in BOOLEAN, throws \in BOOLEAN :
        /\ io' = [io EXCEPT !.closed = ok, !.lost = @ \/ ~ ok]
        /\ exc' = (exc \/ throws)
        /\ Ends(IF io.bailed THEN "bailout"
                ELSE IF io.op = "encode" THEN EncodeEnds ELSE DecodeEnds)
  BY DEF Close
<1>3. /\ io \in Locals /\ io.opened /\ stream = Marked(FALSE) /\ (io.lost => ~ io.flushed)
  BY <1>1 DEF FileInv, Running, Holding
<1>4. ~ io.bailed =>
        /\ io.op = "encode" /\ io.wrote_all => Len(moved) = io.total
        /\ io.op = "decode" /\ ~ io.read_failed => Len(moved) = io.total
  BY <1>1 DEF FileInv, Position
<1>5. /\ stream' \in [closes : Nat, in_free : BOOLEAN, no_fclose : BOOLEAN]
      /\ stream'.closes = 1
  <2>1. io.saved_no_fclose \in BOOLEAN
    BY <1>3 DEF Locals
  <2>2. stream \in [closes : {0}, in_free : BOOLEAN, no_fclose : BOOLEAN]
    BY <1>3 DEF Marked
  <2>3. /\ Unmarked \in [closes : {0}, in_free : BOOLEAN, no_fclose : BOOLEAN]
        /\ Unmarked.in_free = FALSE
    BY <2>1, <2>2 DEF Unmarked
  <2> DEFINE s == Unmarked
  <2>4. stream' = [s EXCEPT !.closes = @ + 1]
    BY <1>1, <2>3 DEF Closed
  <2> HIDE DEF s
  <2>5. s \in [closes : {0}, in_free : BOOLEAN, no_fclose : BOOLEAN]
    BY <2>3 DEF s
  <2> QED
    BY <2>4, <2>5
<1>6. /\ exc' \in BOOLEAN /\ io'.closed = ok /\ io'.bailed = io.bailed
      /\ (io'.lost => ~ io.flushed \/ ~ ok)
  <2>1. exc' \in BOOLEAN
    BY <1>2
  <2>2. io'.closed = ok /\ io'.bailed = io.bailed
    BY <1>2, <1>3 DEF Locals
  <2>3. io'.lost = (io.lost \/ ~ ok)
    BY <1>2, <1>3 DEF Locals
  <2> QED
    BY <1>3, <2>1, <2>2, <2>3
<1> DEFINE how == IF io.bailed THEN "bailout"
                  ELSE IF io.op = "encode" THEN EncodeEnds ELSE DecodeEnds
<1>7. outcome' = [how |-> how, op |-> io.op, threw |-> exc', bailed |-> io'.bailed,
                  opened |-> io.opened, closes |-> stream'.closes,
                  whole |-> Len(moved) = io.total, lost |-> io'.lost]
  BY <1>2 DEF Ends
<1>8. how = "bailout" <=> io.bailed
  BY DEF EncodeEnds, DecodeEnds
<1>9. how = "throw" <=> exc' /\ ~ io.bailed
  BY <1>6 DEF EncodeEnds, DecodeEnds
<1>10. how = "ok" => /\ ~ io.bailed
                     /\ io.op = "encode" => io.wrote_all /\ io.flushed /\ ok
                     /\ io.op # "encode" => ~ io.read_failed
  BY <1>6 DEF EncodeEnds, DecodeEnds
<1>11. io.op \in {"encode", "decode"}
  BY <1>3 DEF Locals
<1> HIDE DEF how
<1>12. how = "ok" => Len(moved) = io.total /\ (io.op = "encode" => ~ io'.lost)
  BY <1>4, <1>6, <1>10, <1>11
<1>13. /\ outcome'.how = how /\ outcome'.op = io.op /\ outcome'.closes = 1
       /\ outcome'.opened = io.opened /\ outcome'.lost = io'.lost
       /\ outcome'.bailed = io.bailed /\ outcome'.threw = exc'
  BY <1>5, <1>6, <1>7
<1>14. outcome'.whole <=> Len(moved) = io.total
  BY <1>7
<1>15. outcome'.how = "ok" => outcome'.whole /\ (outcome'.op = "encode" => ~ outcome'.lost)
  BY <1>12, <1>13, <1>14
<1>16. /\ outcome'.how = "bailout" <=> outcome'.bailed
       /\ outcome'.how = "throw" <=> outcome'.threw /\ ~ outcome'.bailed
  BY <1>8, <1>9, <1>13
<1>17. outcome'.closes = IF outcome'.opened THEN 1 ELSE 0
  BY <1>3, <1>13
<1> QED
  BY <1>1, <1>5, <1>6, <1>15, <1>16, <1>17, EndKeeps

-----------------------------------------------------------------------------
(* The theorems. *)

LEMMA InitFileInv == Init => FileInv
<1> SUFFICES ASSUME Init PROVE FileInv
  OBVIOUS
<1>1. TypeOK
  <2>1. pc = "idle" /\ io = NoCall /\ stream = NoStream /\ moved = << >> /\ exc = FALSE
    BY DEF Init
  <2>2. stream \in [closes : Nat, in_free : BOOLEAN, no_fclose : BOOLEAN]
    BY <2>1 DEF NoStream
  <2>3. moved \in Seq(1 .. MaxBytes)
    BY <2>1
  <2> QED
    BY <2>1, <2>2, <2>3 DEF TypeOK
<1>2. InOrder
  BY DEF Init, InOrder
<1>3. ClosedExactlyOnce /\ SuccessIsWhole /\ NothingSwallowed
  BY DEF Init, ClosedExactlyOnce, SuccessIsWhole, NothingSwallowed
<1>4. Running /\ Holding /\ Position
  BY DEF Init, Running, Holding, Position, InLoop
<1> QED
  BY <1>1, <1>2, <1>3, <1>4 DEF FileInv

LEMMA NextFileInv == FileInv /\ [Next]_vars => FileInv'
<1> SUFFICES ASSUME FileInv, [Next]_vars PROVE FileInv'
  OBVIOUS
<1>1. CASE UNCHANGED vars
  BY <1>1 DEF vars, FileInv, TypeOK, InOrder, ClosedExactlyOnce, SuccessIsWhole,
              NothingSwallowed, Running, Holding, Position, Progress, Stalls, Marked
<1>2. CASE Write \/ Wrote \/ Flush
  BY <1>2, WriteKeeps, WroteKeeps, FlushKeeps
<1>3. CASE ReadStdio \/ ReadChunk \/ GotBytes \/ GotNothing
  BY <1>3, ReadStdioKeeps, ReadChunkKeeps, GotBytesKeeps, GotNothingKeeps
<1>4. CASE Start \/ OpenFails \/ OpenBails \/ OpenSucceeds \/ CallbackBails \/ Close
  BY <1>4, StartKeeps, OpenEndsKeeps, OpenSucceedsKeeps, CallbackBailsKeeps, CloseKeeps
<1> QED
  BY <1>1, <1>2, <1>3, <1>4 DEF Next, Step

(***************************************************************************)
(* The inductive invariant of the stream loops holds in every behaviour.   *)
(***************************************************************************)
THEOREM FileInvariant == Spec => []FileInv
<1>1. Init => FileInv
  BY InitFileInv
<1>2. FileInv /\ [Next]_vars => FileInv'
  BY NextFileInv
<1> QED
  BY <1>1, <1>2, PTL DEF Spec

(***************************************************************************)
(* Whatever callbacks close, throw or report, file_encode and file_decode  *)
(* never use a destroyed stream and destroy theirs exactly once.           *)
(***************************************************************************)
THEOREM StreamClosedOnce == Spec => []ClosedExactlyOnce
<1>1. FileInv => ClosedExactlyOnce
  BY DEF FileInv
<1> QED
  BY <1>1, FileInvariant, PTL

(***************************************************************************)
(* The write and read loops move the bytes of a file of any size in order, *)
(* none twice and none left out, for every sequence of reported counts.    *)
(***************************************************************************)
THEOREM BytesInOrder == Spec => []InOrder
<1>1. FileInv => InOrder
  BY DEF FileInv
<1> QED
  BY <1>1, FileInvariant, PTL

(***************************************************************************)
(* file_encode succeeds only with the whole file written, flushed and      *)
(* closed; file_decode parses only a file it has read to its end.          *)
(***************************************************************************)
THEOREM SuccessIsComplete == Spec => []SuccessIsWhole
<1>1. FileInv => SuccessIsWhole
  BY DEF FileInv
<1> QED
  BY <1>1, FileInvariant, PTL

(***************************************************************************)
(* An exception or a fatal error raised in any stream callback reaches the *)
(* caller of the file function.                                            *)
(***************************************************************************)
THEOREM CallbackFailuresSurface == Spec => []NothingSwallowed
<1>1. FileInv => NothingSwallowed
  BY DEF FileInv
<1> QED
  BY <1>1, FileInvariant, PTL

=============================================================================
