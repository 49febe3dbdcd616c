----------------------------- MODULE DecodeProofs -----------------------------
(***************************************************************************)
(* Proofs about decoding, for every text and every document.               *)
(*                                                                         *)
(* The reader: the scanner for Inf and NaN literals works on characters    *)
(* and knows no lexemes.  The argument says at which place of which lexeme *)
(* it stands, and in which mode: between lexemes never inside a string, in *)
(* a string exactly as far as its escapes say, and at no literal that it   *)
(* has not seen (Placed).  With that, the second read is made only for     *)
(* texts without one, and the error that remains is the first fault's.     *)
(*                                                                         *)
(* The error's line and column: both functions that look for them count    *)
(* the same line breaks and characters (LocInv).                           *)
(*                                                                         *)
(* The walker: no container and no sanitized key outlives the walk,        *)
(* whatever the document, the limits and the place it fails at.            *)
(*                                                                         *)
(* The scan of a document's depth: its stack stays inside its allocation.  *)
(***************************************************************************)
EXTENDS DecodeWalk, ReadError, DepthScan, DataInduction, FiniteSetTheorems, SequenceTheorems, TLAPS

-----------------------------------------------------------------------------
(* The lexemes of a text and the places of its characters.                 *)

Pieces(r) == [n \in DOMAIN r.lexemes |-> r.lexemes[n].chars]
Spelled(r) == FlattenSeq(Pieces(r))
Count(r) == Len(r.lexemes)
Extent(r) == Len(Spelled(r))
From(r, n) == Reach(Pieces(r), n - 1)
Size(r, n) == Len(Pieces(r)[n])
KindOf(r, n) == r.lexemes[n].kind
CharAt(r, o) == IF o < Extent(r) THEN Spelled(r)[o + 1] ELSE "NUL"

LEMMA LexemesAre ==
  ASSUME NEW r \in Reads
  PROVE  /\ Count(r) \in Nat /\ DOMAIN r.lexemes = 1 .. Count(r)
         /\ Pieces(r) \in Seq(Seq(STRING)) /\ Len(Pieces(r)) = Count(r)
         /\ \A n \in 1 .. Count(r) : /\ Pieces(r)[n] = r.lexemes[n].chars
                                     /\ Pieces(r)[n] \in Seq(STRING)
                                     /\ IsLexeme(r.lexemes[n], n = Count(r))
<1> DEFINE x == r.lexemes
           S == {x[n] : n \in DOMAIN x}
<1>1. x \in Seq(S) /\ \A n \in 1 .. Len(x) : IsLexeme(x[n], n = Len(x))
  BY ReadsAssumption
<1> HIDE DEF S
<1>2. Len(x) \in Nat /\ DOMAIN x = 1 .. Len(x)
  BY <1>1
<1>3. \A n \in 1 .. Len(x) : x[n].chars \in Seq(STRING)
  BY <1>1 DEF IsLexeme
<1> HIDE DEF x
<1>4. Pieces(r) = [n \in 1 .. Len(x) |-> x[n].chars]
  BY <1>2 DEF Pieces, x
<1>5. /\ Pieces(r) \in Seq(Seq(STRING)) /\ Len(Pieces(r)) = Len(x)
      /\ \A n \in 1 .. Len(x) : Pieces(r)[n] = x[n].chars
  BY <1>2, <1>3, <1>4
<1> QED BY <1>1, <1>2, <1>3, <1>5 DEF Count, x

LEMMA LexemePlaced ==
  ASSUME NEW r \in Reads, NEW n \in 1 .. Count(r)
  PROVE  /\ From(r, n) \in Nat /\ Size(r, n) \in Nat /\ Extent(r) \in Nat
         /\ From(r, n) + Size(r, n) <= Extent(r)
         /\ n = Count(r) => From(r, n) + Size(r, n) = Extent(r)
         /\ \A d \in 0 .. Size(r, n) - 1 : /\ From(r, n) + d < Extent(r)
                                          /\ CharAt(r, From(r, n) + d) = Pieces(r)[n][d + 1]
<1> DEFINE q == Pieces(r)
           b == Reach(q, n - 1)
           z == Len(q[n])
           t == FlattenSeq(q)
<1>1. q \in Seq(Seq(STRING)) /\ n \in 1 .. Len(q) /\ Len(q) = Count(r)
  BY LexemesAre
<1>2. /\ b \in Nat /\ Reach(q, n) \in Nat /\ z \in Nat /\ Len(t) \in Nat
      /\ Reach(q, n) = b + z /\ Reach(q, n) <= Len(t)
      /\ \A d \in 1 .. z : t[b + d] = q[n][d]
  BY <1>1, PiecePlaced
<1>3. n = Count(r) => Reach(q, n) = Len(t)
  BY <1>1, PiecesSpan
<1>4. From(r, n) = b /\ Size(r, n) = z /\ Extent(r) = Len(t)
  BY DEF From, Size, Extent, Spelled
<1>5. ASSUME NEW d \in 0 .. z - 1 PROVE b + d < Len(t) /\ CharAt(r, b + d) = q[n][d + 1]
  <2> HIDE DEF b, z
  <2>1. b + d < Len(t) /\ d + 1 \in 1 .. z /\ (b + d) + 1 = b + (d + 1)
    BY <1>2
  <2>2. CharAt(r, b + d) = t[b + (d + 1)]
    BY <1>4, <2>1 DEF CharAt, Spelled
  <2> QED BY <1>2, <2>1, <2>2
<1> HIDE DEF q, b, z, t
<1> QED BY <1>2, <1>3, <1>4, <1>5 DEF q

LEMMA LexemesApart ==
  ASSUME NEW r \in Reads, NEW n \in 1 .. Count(r), NEW m \in 1 .. Count(r), n < m
  PROVE  From(r, n) + Size(r, n) <= From(r, m)
<1> DEFINE q == Pieces(r)
<1>1. q \in Seq(Seq(STRING)) /\ n \in 1 .. Len(q) /\ Len(q) = Count(r) /\ Count(r) \in Nat
  BY LexemesAre
<1>2. n \in 0 .. Len(q) /\ m - 1 \in 0 .. Len(q) /\ n <= m - 1
  BY <1>1
<1> HIDE DEF q
<1>3. Reach(q, n) <= Reach(q, m - 1)
  BY <1>1, <1>2, PiecesApart
<1>4. Reach(q, n) = Reach(q, n - 1) + Len(q[n])
  BY <1>1, PiecePlaced
<1> QED BY <1>3, <1>4 DEF From, Size, q

LEMMA LexemeFound ==
  ASSUME NEW r \in Reads, NEW o \in Nat, o < Extent(r)
  PROVE  \E n \in 1 .. Count(r) : \E d \in 0 .. Size(r, n) - 1 : o = From(r, n) + d
<1> DEFINE q == Pieces(r)
           e == Len(FlattenSeq(q))
<1>1. q \in Seq(Seq(STRING)) /\ Len(q) = Count(r)
  BY LexemesAre
<1>2. Extent(r) = e
  BY DEF Extent, Spelled
<1>3. e \in Nat
  <2>1. FlattenSeq(q) \in Seq(STRING)
    BY <1>1, PiecesSpan
  <2> QED BY <2>1
<1> HIDE DEF q
<1>4. o + 1 \in 1 .. e
  BY <1>2, <1>3
<1>5. PICK n \in 1 .. Len(q) : Reach(q, n - 1) < o + 1 /\ o + 1 <= Reach(q, n)
  <2> QED BY <1>1, <1>4, PieceFound
<1>6. n \in 1 .. Count(r)
  BY <1>1
<1>7. Reach(q, n) = From(r, n) + Size(r, n) /\ Reach(q, n - 1) = From(r, n)
  BY <1>1, PiecePlaced DEF From, Size, q
<1>8. From(r, n) \in Nat /\ Size(r, n) \in Nat
  BY <1>6, LexemePlaced
<1>9. o - From(r, n) \in 0 .. Size(r, n) - 1 /\ o = From(r, n) + (o - From(r, n))
  BY <1>5, <1>7, <1>8
<1> QED BY <1>6, <1>9

\* A place in the text belongs to one lexeme.
LEMMA OnePlace ==
  ASSUME NEW r \in Reads, NEW n \in 1 .. Count(r), NEW m \in 1 .. Count(r),
         NEW d \in 0 .. Size(r, n) - 1, NEW e \in 0 .. Size(r, m) - 1,
         From(r, n) + d = From(r, m) + e
  PROVE  n = m /\ d = e
<1> DEFINE a == From(r, n)
           b == From(r, m)
           y == Size(r, n)
           z == Size(r, m)
<1>1. a \in Nat /\ b \in Nat /\ y \in Nat /\ z \in Nat
  BY LexemePlaced
<1>2. Count(r) \in Nat /\ n \in Nat /\ m \in Nat
  BY LexemesAre
<1>3. n < m => a + y <= b
  BY LexemesApart
<1>4. m < n => b + z <= a
  BY LexemesApart
<1>5. n = m => a = b
  OBVIOUS
<1> HIDE DEF a, b, y, z
<1>6. d \in 0 .. y - 1 /\ e \in 0 .. z - 1 /\ a + d = b + e
  BY DEF a, b, y, z
<1>7. ~ n < m /\ ~ m < n
  BY <1>1, <1>3, <1>4, <1>6
<1>8. n = m
  BY <1>2, <1>7
<1> QED BY <1>1, <1>5, <1>6, <1>8

\* What follows a lexeme is the beginning of a later one.
LEMMA NextPlace ==
  ASSUME NEW r \in Reads, NEW n \in 1 .. Count(r), NEW m \in 1 .. Count(r),
         NEW e \in 0 .. Size(r, m) - 1, From(r, n) + Size(r, n) = From(r, m) + e
  PROVE  e = 0 /\ n < m
<1> DEFINE a == From(r, n)
           b == From(r, m)
           y == Size(r, n)
           z == Size(r, m)
<1>1. a \in Nat /\ b \in Nat /\ y \in Nat /\ z \in Nat
  BY LexemePlaced
<1>2. Count(r) \in Nat /\ n \in Nat /\ m \in Nat
  BY LexemesAre
<1>3. n < m => a + y <= b
  BY LexemesApart
<1>4. m < n => b + z <= a
  BY LexemesApart
<1>5. n = m => a = b /\ y = z
  OBVIOUS
<1> HIDE DEF a, b, y, z
<1>6. e \in 0 .. z - 1 /\ a + y = b + e
  BY DEF a, b, y, z
<1>7. ~ m < n /\ ~ n = m
  BY <1>1, <1>4, <1>5, <1>6
<1>8. n < m
  BY <1>2, <1>7
<1> QED BY <1>1, <1>3, <1>6, <1>8

-----------------------------------------------------------------------------
(* The scanner's place in a lexeme.                                        *)

\* E: the places of the escaped characters of a string.
Escapes(c, E) ==
  \A k \in 2 .. Len(c) - 1 : /\ k + 1 \in E <=> (c[k] = "\\" /\ k \notin E)
                             /\ c[k] = "\"" => k \in E

\* Before the character at offset d of the string c.
Midway(c, d, esc) ==
  \E E \in SUBSET (3 .. Len(c) - 1) : Escapes(c, E) /\ (esc <=> d + 1 \in E)

\* The scanner's modes before the character at offset d of a lexeme.
InsideAt(kind, c, d, str, esc) ==
  \/ str /\ d > 0 /\ Quoted(c) /\ Midway(c, d, esc)
  \/ ~ str /\ ~ esc /\ (d = 0 \/ Bare(c) \/ (kind = "signed" /\ d = 1))

PlacedAt(r, o, str, esc) ==
  \A n \in 1 .. Count(r) : \A d \in 0 .. Size(r, n) - 1 :
     o = From(r, n) + d => InsideAt(KindOf(r, n), Pieces(r)[n], d, str, esc)

\* No literal lies behind the scanner.
NotPassed(r, o) ==
  \A n \in 1 .. Count(r) : /\ KindOf(r, n) = "literal" => o <= From(r, n)
                           /\ KindOf(r, n) = "signed" => o <= From(r, n) + 1

\* What the characters of each kind of lexeme are.
LEMMA KindSpells ==
  ASSUME NEW x \in Kinds, NEW c, NEW last, Spells(x, c, last)
  PROVE  /\ x = "plain" => Bare(c) \/ Quoted(c)
         /\ x = "overflow" => Bare(c)
         /\ x = "literal" => Word(c, 1)
         /\ x = "signed" => c[1] = "-" /\ Word(c, 2)
         /\ x = "comment" => IsLineComment(c, last) \/ IsBlockComment(c)
         /\ x = "badtext" => Quoted(c)
         /\ x \in {"foreign", "broken"} => Bare(c) /\ c # <<>>
         /\ x = "foreign" => c[1] # "0xFF"
         /\ x = "broken" => c[1] = "0xFF"
         /\ x = "bom" => c = <<"0xEF", "0xBB", "0xBF">>
         /\ x = "cut" => c = <<>> /\ last
BY DEF Spells, Kinds

LEMMA WordStarts ==
  ASSUME NEW c, NEW k \in {1, 2}, Word(c, k)
  PROVE  c[k] \notin {"\"", "/", "-"} /\ k + 2 <= Len(c) /\ ~ Bare(c)
<1>1. k + 2 <= Len(c) /\ \/ Lower(c[k]) = "i" /\ Lower(c[k + 1]) = "n"
                         \/ Lower(c[k]) = "n" /\ Lower(c[k + 1]) = "a"
  BY DEF Word
<1>2. c[k] \notin {"\"", "/", "-"}
  BY <1>1 DEF Lower
<1>3. ASSUME Bare(c) PROVE FALSE
  <2>1. CASE k \in 1 .. Len(c)
    <3>1. Lower(c[k]) # "i" /\ (Lower(c[k]) = "n" => c[k + 1] = "u")
      BY <1>3, <2>1 DEF Bare
    <3>2. Lower("u") = "u"
      BY DEF Lower
    <3> QED BY <1>1, <3>1, <3>2
  <2>2. CASE k \notin 1 .. Len(c)
    BY <1>1, <2>2
  <2> QED BY <2>1, <2>2
<1> QED BY <1>1, <1>2, <1>3

\* A byte order mark is bare.
LEMMA MarkIsBare == Bare(<<"0xEF", "0xBB", "0xBF">>)
<1> DEFINE c == <<"0xEF", "0xBB", "0xBF">>
<1>1. SUFFICES ASSUME NEW k \in 1 .. Len(c)
               PROVE  c[k] \notin {"\"", "/"} /\ Lower(c[k]) \notin {"i", "n"}
  BY DEF Bare
<1>2. k \in {1, 2, 3}
  OBVIOUS
<1>3. c[k] \in {"0xEF", "0xBB", "0xBF"}
  BY <1>2
<1> HIDE DEF c
<1> QED BY <1>3 DEF Lower

\* Outside strings a slash opens a comment, a quote a string.
LEMMA OutsideChar ==
  ASSUME NEW x \in Kinds, NEW c, NEW last, Spells(x, c, last), Len(c) \in Nat,
         NEW d \in 0 .. Len(c) - 1, NEW esc, InsideAt(x, c, d, FALSE, esc)
  PROVE  /\ c[d + 1] = "/" => x = "comment" /\ d = 0
         /\ c[d + 1] = "\"" => x \in {"plain", "badtext"} /\ Quoted(c) /\ d = 0
<1>1. d = 0 \/ Bare(c) \/ (x = "signed" /\ d = 1)
  BY DEF InsideAt
<1>2. CASE Bare(c)
  <2>1. d + 1 \in 1 .. Len(c)
    OBVIOUS
  <2> QED BY <1>2, <2>1 DEF Bare
<1>3. CASE x = "signed" /\ d = 1
  <2>1. Word(c, 2)
    BY <1>3, KindSpells
  <2>2. c[2] \notin {"\"", "/", "-"}
    BY <2>1, WordStarts
  <2>3. d + 1 = 2
    BY <1>3
  <2> QED BY <2>2, <2>3
<1>4. CASE d = 0 /\ ~ Bare(c)
  <2>1. x \in {"literal", "signed"} => c[1] \notin {"\"", "/"}
    <3>1. x = "literal" => c[1] \notin {"\"", "/"}
      BY KindSpells, WordStarts
    <3>2. x = "signed" => c[1] = "-"
      BY KindSpells
    <3> QED BY <3>1, <3>2
  <2>2. x = "comment" => c[1] = "/"
    BY KindSpells DEF IsLineComment, IsBlockComment
  <2>3. x \in {"plain", "badtext"} => Quoted(c)
    BY <1>4, KindSpells
  <2>4. Quoted(c) => c[1] = "\""
    BY DEF Quoted
  <2>5. x \notin {"overflow", "foreign", "broken", "bom"}
    BY <1>4, KindSpells, MarkIsBare
  <2>6. x # "cut"
    <3>1. x = "cut" => Len(c) = 0
      BY KindSpells
    <3> QED BY <1>4, <3>1
  <2>7. x \in {"plain", "badtext", "comment", "literal", "signed"}
    BY <2>5, <2>6 DEF Kinds
  <2>8. d + 1 = 1
    BY <1>4
  <2> QED BY <1>4, <2>1, <2>2, <2>3, <2>4, <2>7, <2>8
<1> QED BY <1>1, <1>2, <1>3, <1>4

\* From one character to the next of the same lexeme.
LEMMA StepInside ==
  ASSUME NEW r \in Reads, NEW n \in 1 .. Count(r), NEW d \in 0 .. Size(r, n) - 1,
         d + 1 < Size(r, n), NEW str, NEW esc,
         InsideAt(KindOf(r, n), Pieces(r)[n], d + 1, str, esc)
  PROVE  PlacedAt(r, (From(r, n) + d) + 1, str, esc)
<1>1. SUFFICES ASSUME NEW m \in 1 .. Count(r), NEW e \in 0 .. Size(r, m) - 1,
                      (From(r, n) + d) + 1 = From(r, m) + e
               PROVE  InsideAt(KindOf(r, m), Pieces(r)[m], e, str, esc)
  BY DEF PlacedAt
<1>2. From(r, n) \in Nat /\ Size(r, n) \in Nat
  BY LexemePlaced
<1>3. d + 1 \in 0 .. Size(r, n) - 1 /\ From(r, n) + (d + 1) = From(r, m) + e
  BY <1>1, <1>2
<1>4. n = m /\ d + 1 = e
  BY <1>3, OnePlace
<1> QED BY <1>4

\* From the end of a lexeme to the next.
LEMMA StepOver ==
  ASSUME NEW r \in Reads, NEW n \in 1 .. Count(r), NEW str, NEW esc, ~ str, ~ esc
  PROVE  PlacedAt(r, From(r, n) + Size(r, n), str, esc)
<1>1. SUFFICES ASSUME NEW m \in 1 .. Count(r), NEW e \in 0 .. Size(r, m) - 1,
                      From(r, n) + Size(r, n) = From(r, m) + e
               PROVE  InsideAt(KindOf(r, m), Pieces(r)[m], e, str, esc)
  BY DEF PlacedAt
<1>2. e = 0
  BY <1>1, NextPlace
<1> QED BY <1>2, Zenon DEF InsideAt

LEMMA StepPastEnd ==
  ASSUME NEW r \in Reads, NEW o \in Nat, o >= Extent(r), NEW str, NEW esc
  PROVE  PlacedAt(r, o, str, esc)
<1>1. SUFFICES ASSUME NEW m \in 1 .. Count(r), NEW e \in 0 .. Size(r, m) - 1,
                      o = From(r, m) + e
               PROVE  FALSE
  BY DEF PlacedAt
<1>2. o < Extent(r) /\ Extent(r) \in Nat
  BY <1>1, LexemePlaced
<1> QED BY <1>2

\* Literals are at least three characters long.
LEMMA LiteralSize ==
  ASSUME NEW r \in Reads, NEW n \in 1 .. Count(r)
  PROVE  /\ KindOf(r, n) \in Kinds
         /\ Spells(KindOf(r, n), Pieces(r)[n], n = Count(r))
         /\ Len(Pieces(r)[n]) = Size(r, n) /\ Size(r, n) \in Nat
         /\ KindOf(r, n) = "literal" => Size(r, n) >= 3
         /\ KindOf(r, n) = "signed" => Size(r, n) >= 4
<1> DEFINE c == Pieces(r)[n]
           x == KindOf(r, n)
<1>1. IsLexeme(r.lexemes[n], n = Count(r)) /\ c = r.lexemes[n].chars
  BY LexemesAre
<1>2. x \in Kinds /\ Spells(x, c, n = Count(r))
  BY <1>1 DEF IsLexeme, KindOf
<1>3. Size(r, n) \in Nat /\ Len(c) = Size(r, n)
  BY LexemePlaced DEF Size
<1> HIDE DEF c, x
<1>4. x = "literal" => 1 + 2 <= Len(c)
  BY <1>2, KindSpells, WordStarts
<1>5. x = "signed" => 2 + 2 <= Len(c)
  BY <1>2, KindSpells, WordStarts
<1> QED BY <1>2, <1>3, <1>4, <1>5 DEF c, x

\* One character on, unless a literal begins at this one.
LEMMA NotPassedStep ==
  ASSUME NEW r \in Reads, NEW n \in 1 .. Count(r), NEW d \in 0 .. Size(r, n) - 1,
         NotPassed(r, From(r, n) + d),
         ~ (KindOf(r, n) = "literal" /\ d = 0), ~ (KindOf(r, n) = "signed" /\ d = 1)
  PROVE  NotPassed(r, (From(r, n) + d) + 1)
<1> DEFINE o == From(r, n) + d
<1>1. SUFFICES ASSUME NEW m \in 1 .. Count(r)
               PROVE  /\ KindOf(r, m) = "literal" => o + 1 <= From(r, m)
                      /\ KindOf(r, m) = "signed" => o + 1 <= From(r, m) + 1
  BY DEF NotPassed
<1>2. o \in Nat /\ From(r, m) \in Nat
  BY LexemePlaced
<1>3. /\ KindOf(r, m) = "literal" => o <= From(r, m)
      /\ KindOf(r, m) = "signed" => o <= From(r, m) + 1
  BY DEF NotPassed
<1> HIDE DEF o
<1>4. ASSUME KindOf(r, m) = "literal" PROVE o + 1 <= From(r, m)
  <2>1. 0 \in 0 .. Size(r, m) - 1 /\ From(r, m) + 0 = From(r, m)
    BY <1>2, <1>4, LiteralSize
  <2>2. o # From(r, m)
    <3>1. SUFFICES ASSUME o = From(r, m) + 0 PROVE FALSE
      BY <2>1
    <3>2. n = m /\ d = 0
      BY <2>1, <3>1, OnePlace DEF o
    <3> QED BY <1>4, <3>2
  <2> QED BY <1>2, <1>3, <1>4, <2>2
<1>5. ASSUME KindOf(r, m) = "signed" PROVE o + 1 <= From(r, m) + 1
  <2>1. 1 \in 0 .. Size(r, m) - 1
    BY <1>5, LiteralSize
  <2>2. o # From(r, m) + 1
    <3>1. SUFFICES ASSUME o = From(r, m) + 1 PROVE FALSE
      OBVIOUS
    <3>2. n = m /\ d = 1
      BY <2>1, <3>1, OnePlace DEF o
    <3> QED BY <1>5, <3>2
  <2> QED BY <1>2, <1>3, <1>5, <2>2
<1> QED BY <1>4, <1>5

\* A lexeme that is no literal is left behind.
LEMMA NotPassedOver ==
  ASSUME NEW r \in Reads, NEW n \in 1 .. Count(r), NEW o \in Nat,
         NotPassed(r, From(r, n)), KindOf(r, n) \notin {"literal", "signed"},
         \/ o = From(r, n) + Size(r, n)
         \/ n = Count(r) /\ Size(r, n) > 1
  PROVE  NotPassed(r, o)
<1>1. SUFFICES ASSUME NEW m \in 1 .. Count(r), KindOf(r, m) \in {"literal", "signed"}
               PROVE  o <= From(r, m)
  <2>1. \A m \in 1 .. Count(r) : From(r, m) \in Nat
    BY LexemePlaced
  <2> QED BY <1>1, <2>1 DEF NotPassed
<1>2. /\ From(r, n) \in Nat /\ Size(r, n) \in Nat /\ From(r, m) \in Nat
      /\ Size(r, m) \in Nat /\ Size(r, m) >= 3 /\ Count(r) \in Nat
  BY <1>1, LexemePlaced, LiteralSize, LexemesAre
<1>3. From(r, n) <= From(r, m) + 1
  BY <1>1, <1>2 DEF NotPassed
<1>4. n # m
  BY <1>1
<1>5. m < n => From(r, m) + Size(r, m) <= From(r, n)
  BY LexemesApart
<1>6. ~ m < n
  BY <1>2, <1>3, <1>5
<1>7. n < m
  BY <1>2, <1>4, <1>6
<1>8. From(r, n) + Size(r, n) <= From(r, m) /\ n # Count(r)
  BY <1>2, <1>7, LexemesApart
<1> QED BY <1>8

-----------------------------------------------------------------------------
(* Strings.                                                                *)

LEMMA StringOpens ==
  ASSUME NEW c, NEW x, Quoted(c), Len(c) \in Nat
  PROVE  1 < Len(c) /\ InsideAt(x, c, 1, TRUE, FALSE)
<1> DEFINE L == Len(c)
           T == 3 .. L - 1
<1>1. L \in Nat /\ L >= 2
  BY DEF Quoted
<1>2. 1 + 1 \notin T /\ 1 < L /\ 1 > 0
  <2> HIDE DEF L
  <2> QED BY <1>1
<1> HIDE DEF L, T
<1>3. PICK E \in SUBSET T : Escapes(c, E)
  BY Zenon DEF Quoted, Escapes, L, T
<1>4. Midway(c, 1, FALSE)
  BY <1>2, <1>3, Zenon DEF Midway, L, T
<1> QED BY <1>2, <1>4, Zenon DEF InsideAt, L

\* The modes behind the character at offset d of a string.
StillIn(c, d, esc) == esc \/ c[d + 1] # "\""
Escaping(c, d, esc) == ~ esc /\ c[d + 1] = "\\"

LEMMA StringGoesOn ==
  ASSUME NEW c, NEW x, Len(c) \in Nat, NEW d \in 0 .. Len(c) - 1, NEW esc \in BOOLEAN,
         InsideAt(x, c, d, TRUE, esc)
  PROVE  /\ Quoted(c)
         /\ d + 1 < Len(c) => InsideAt(x, c, d + 1, StillIn(c, d, esc), Escaping(c, d, esc))
         /\ d + 1 = Len(c) => ~ StillIn(c, d, esc) /\ ~ Escaping(c, d, esc)
<1> DEFINE L == Len(c)
           T == 3 .. L - 1
<1>1. Quoted(c) /\ Midway(c, d, esc) /\ d > 0
  BY Zenon DEF InsideAt
<1>2. L \in Nat /\ d \in Nat /\ d <= L - 1 /\ d > 0
  BY <1>1
<1>3. c[L] = "\""
  BY <1>1 DEF Quoted
<1> HIDE DEF L
<1>4. L \notin T /\ d + 1 > 0 /\ (d + 1 < L => d + 1 \in 2 .. L - 1)
  BY <1>2
<1> HIDE DEF T
<1>5. PICK E \in SUBSET T : Escapes(c, E) /\ (esc <=> d + 1 \in E)
  BY <1>1, Zenon DEF Midway, L, T
<1>6. ASSUME d + 1 < L
      PROVE  InsideAt(x, c, d + 1, StillIn(c, d, esc), Escaping(c, d, esc))
  <2>1. /\ (d + 1) + 1 \in E <=> (c[d + 1] = "\\" /\ d + 1 \notin E)
        /\ c[d + 1] = "\"" => d + 1 \in E
    BY <1>4, <1>5, <1>6, Zenon DEF Escapes, L
  <2>2. StillIn(c, d, esc) /\ (Escaping(c, d, esc) <=> (d + 1) + 1 \in E)
    BY <1>5, <2>1, Zenon DEF StillIn, Escaping
  <2>3. Midway(c, d + 1, Escaping(c, d, esc))
    BY <1>5, <2>2, Zenon DEF Midway, L, T
  <2> QED BY <1>1, <1>4, <2>2, <2>3, Zenon DEF InsideAt
<1>7. ASSUME d + 1 = L PROVE ~ StillIn(c, d, esc) /\ ~ Escaping(c, d, esc)
  <2>1. c[d + 1] = "\"" /\ d + 1 \notin E
    BY <1>3, <1>4, <1>5, <1>7, Zenon
  <2>2. ~ esc
    BY <1>5, <2>1, Zenon
  <2>3. "\"" # "\\"
    OBVIOUS
  <2>4. c[d + 1] # "\\"
    BY <2>1, <2>3, Zenon
  <2> QED BY <2>1, <2>2, <2>4, Zenon DEF StillIn, Escaping
<1> QED BY <1>1, <1>6, <1>7, Zenon DEF L

LEMMA QuotedKinds ==
  ASSUME NEW r \in Reads, NEW n \in 1 .. Count(r), Quoted(Pieces(r)[n]) \/ Bare(Pieces(r)[n])
  PROVE  KindOf(r, n) \notin {"literal", "signed"}
<1> DEFINE c == Pieces(r)[n]
           x == KindOf(r, n)
<1>1. x \in Kinds /\ Spells(x, c, n = Count(r))
  BY LiteralSize
<1> HIDE DEF c, x
<1>2. Quoted(c) \/ Bare(c)
  BY DEF c
<1>3. Quoted(c) => c[1] = "\""
  BY DEF Quoted
<1>4. x = "literal" => c[1] # "\"" /\ ~ Bare(c)
  BY <1>1, KindSpells, WordStarts
<1>5. x = "signed" => c[1] = "-" /\ ~ Bare(c)
  BY <1>1, KindSpells, WordStarts
<1> QED BY <1>2, <1>3, <1>4, <1>5 DEF c, x

-----------------------------------------------------------------------------
(* The steps of the scanner.                                               *)

LEMMA TextNames ==
  ASSUME read \in Reads
  PROVE  /\ len = Extent(read) /\ text = Spelled(read) /\ Chars = Pieces(read)
         /\ \A o : s(o) = CharAt(read, o)
         /\ \A n : StartOf(n) = From(read, n)
<1>1. Chars = Pieces(read)
  BY DEF Chars, Pieces
<1>2. text = Spelled(read)
  BY <1>1 DEF text, Spelled
<1>3. len = Extent(read)
  BY <1>2 DEF len, Extent
<1>4. \A o : s(o) = CharAt(read, o)
  BY <1>2, <1>3, Zenon DEF s, CharAt
<1>5. \A n : StartOf(n) = From(read, n)
  BY <1>1, Zenon DEF StartOf, From, Reach, Flat
<1> QED BY <1>1, <1>2, <1>3, <1>4, <1>5

\* The scanner is at offset d of the n-th lexeme.
StandsAt(n, d) ==
  /\ n \in 1 .. Count(read) /\ d \in 0 .. Size(read, n) - 1
  /\ i = From(read, n) + d
  /\ InsideAt(KindOf(read, n), Pieces(read)[n], d, in_str, escape)

Placed == PlacedAt(read, i, in_str, escape) /\ NotPassed(read, i)

ScanTyped == read \in Reads /\ i \in Nat /\ in_str \in BOOLEAN /\ escape \in BOOLEAN

LEMMA PlaceOf ==
  ASSUME ScanTyped, i < len, Placed
  PROVE  \E n, d : StandsAt(n, d)
<1>1. read \in Reads /\ i \in Nat /\ i < Extent(read)
  BY TextNames DEF ScanTyped
<1>2. PICK n \in 1 .. Count(read) : \E d \in 0 .. Size(read, n) - 1 : i = From(read, n) + d
  BY <1>1, LexemeFound
<1>3. PICK d \in 0 .. Size(read, n) - 1 : i = From(read, n) + d
  BY <1>2
<1>4. StandsAt(n, d)
  BY <1>3, Zenon DEF Placed, PlacedAt, StandsAt
<1> QED BY <1>4

\* What the scanner reads there and behind.
LEMMA Standing ==
  ASSUME ScanTyped, NEW n, NEW d, StandsAt(n, d)
  PROVE  LET c == Pieces(read)[n]
         IN  /\ n \in 1 .. Count(read) /\ d \in 0 .. Len(c) - 1 /\ Len(c) = Size(read, n)
             /\ Len(c) \in Nat /\ From(read, n) \in Nat /\ i = From(read, n) + d
             /\ s(i) = c[d + 1]
             /\ d + 1 < Len(c) => s(i + 1) = c[d + 2] /\ i + 1 < len
             /\ d + 2 < Len(c) => s(i + 2) = c[d + 3] /\ i + 2 < len
             /\ KindOf(read, n) \in Kinds /\ Spells(KindOf(read, n), c, n = Count(read))
<1> DEFINE c == Pieces(read)[n]
           b == From(read, n)
           z == Size(read, n)
           L == Len(c)
<1>1. n \in 1 .. Count(read) /\ d \in 0 .. z - 1 /\ i = b + d /\ read \in Reads
  BY DEF StandsAt, ScanTyped
<1>2. /\ b \in Nat /\ z \in Nat /\ L = z
      /\ KindOf(read, n) \in Kinds /\ Spells(KindOf(read, n), c, n = Count(read))
  BY <1>1, LexemePlaced, LiteralSize
<1>3. \A e \in 0 .. z - 1 : s(b + e) = c[e + 1] /\ b + e < len
  BY <1>1, LexemePlaced, TextNames
<1> HIDE DEF b, z, L, c
<1>4. s(i) = c[d + 1]
  BY <1>1, <1>3
<1>5. d + 1 < L => s(i + 1) = c[d + 2] /\ i + 1 < len
  <2>1. SUFFICES ASSUME d + 1 < L PROVE s(i + 1) = c[d + 2] /\ i + 1 < len
    OBVIOUS
  <2>2. d + 1 \in 0 .. z - 1 /\ b + (d + 1) = i + 1 /\ (d + 1) + 1 = d + 2
    BY <1>1, <1>2, <2>1
  <2> QED BY <1>3, <2>2
<1>6. d + 2 < L => s(i + 2) = c[d + 3] /\ i + 2 < len
  <2>1. SUFFICES ASSUME d + 2 < L PROVE s(i + 2) = c[d + 3] /\ i + 2 < len
    OBVIOUS
  <2>2. d + 2 \in 0 .. z - 1 /\ b + (d + 2) = i + 2 /\ (d + 2) + 1 = d + 3
    BY <1>1, <1>2, <2>1
  <2> QED BY <1>3, <2>2
<1>7. d \in 0 .. L - 1 /\ L \in Nat
  BY <1>1, <1>2
<1> QED BY <1>1, <1>2, <1>4, <1>5, <1>6, <1>7 DEF b, z, L, c

\* One character on.
LEMMA PlacedNext ==
  ASSUME ScanTyped, Placed, NEW n, NEW d, StandsAt(n, d), NEW str, NEW esc,
         ~ (KindOf(read, n) = "literal" /\ d = 0), ~ (KindOf(read, n) = "signed" /\ d = 1),
         d + 1 < Len(Pieces(read)[n])
            => InsideAt(KindOf(read, n), Pieces(read)[n], d + 1, str, esc),
         d + 1 = Len(Pieces(read)[n]) => ~ str /\ ~ esc
  PROVE  PlacedAt(read, i + 1, str, esc) /\ NotPassed(read, i + 1)
<1> DEFINE c == Pieces(read)[n]
           b == From(read, n)
           z == Size(read, n)
<1>1. /\ n \in 1 .. Count(read) /\ Len(c) = z /\ z \in Nat /\ b \in Nat
      /\ d \in 0 .. z - 1 /\ i = b + d /\ read \in Reads
  <2>1. /\ n \in 1 .. Count(read) /\ Len(c) = z /\ Len(c) \in Nat /\ b \in Nat
        /\ d \in 0 .. Len(c) - 1 /\ i = b + d
    BY Standing
  <2> HIDE DEF c, b, z
  <2> QED BY <2>1 DEF ScanTyped
<1>2. NotPassed(read, i + 1)
  <2>1. NotPassed(read, b + d)
    BY <1>1 DEF Placed
  <2> QED BY <1>1, <2>1, NotPassedStep
<1>3. CASE d + 1 < z
  <2>1. InsideAt(KindOf(read, n), Pieces(read)[n], d + 1, str, esc)
    BY <1>1, <1>3
  <2>2. PlacedAt(read, (b + d) + 1, str, esc)
    BY <1>1, <1>3, <2>1, StepInside
  <2> QED BY <1>1, <1>2, <2>2
<1>4. CASE d + 1 = z
  <2>1. ~ str /\ ~ esc
    BY <1>1, <1>4, Zenon
  <2>2. PlacedAt(read, b + z, str, esc)
    BY <1>1, <2>1, StepOver, Zenon
  <2>3. b + z = i + 1
    <3> HIDE DEF b, z
    <3> QED BY <1>1, <1>4
  <2> QED BY <1>2, <2>2, <2>3, Zenon
<1>5. d + 1 < z \/ d + 1 = z
  <2> HIDE DEF z, b, c
  <2> QED BY <1>1
<1> QED BY <1>3, <1>4, <1>5

LEMMA InStringStep ==
  ASSUME ScanTyped, Placed, InString
  PROVE  Placed'
<1>1. i < len /\ in_str /\ i' = i + 1 /\ read' = read
  BY DEF InString, ScanTo
<1>2. /\ in_str' = (escape \/ s(i) # "\"")
      /\ escape' = (~ escape /\ s(i) = "\\")
  BY Zenon DEF InString, ScanTo
<1>3. PICK n, d : StandsAt(n, d)
  BY <1>1, PlaceOf
<1> DEFINE c == Pieces(read)[n]
           x == KindOf(read, n)
<1>4. /\ n \in 1 .. Count(read) /\ d \in 0 .. Len(c) - 1 /\ Len(c) \in Nat /\ s(i) = c[d + 1]
      /\ read \in Reads
  BY <1>3, Standing DEF ScanTyped
<1>5. InsideAt(x, c, d, TRUE, escape)
  BY <1>1, <1>3, Zenon DEF StandsAt, InsideAt
<1> HIDE DEF c, x
<1>6. escape \in BOOLEAN
  BY DEF ScanTyped
<1>7. /\ Quoted(c)
      /\ d + 1 < Len(c) => InsideAt(x, c, d + 1, StillIn(c, d, escape), Escaping(c, d, escape))
      /\ d + 1 = Len(c) => ~ StillIn(c, d, escape) /\ ~ Escaping(c, d, escape)
  BY <1>4, <1>5, <1>6, StringGoesOn
<1>8. in_str' = StillIn(c, d, escape) /\ escape' = Escaping(c, d, escape)
  BY <1>2, <1>4, Zenon DEF StillIn, Escaping
<1>9. x \notin {"literal", "signed"}
  BY <1>4, <1>7, QuotedKinds DEF c, x
<1>10. ~ (x = "literal" /\ d = 0) /\ ~ (x = "signed" /\ d = 1)
  BY <1>9
<1>11. d + 1 < Len(c) => InsideAt(x, c, d + 1, in_str', escape')
  BY <1>7, <1>8, Zenon
<1>12. d + 1 = Len(c) => ~ in_str' /\ ~ escape'
  BY <1>7, <1>8, Zenon
<1>13. PlacedAt(read, i + 1, in_str', escape') /\ NotPassed(read, i + 1)
  BY <1>3, <1>10, <1>11, <1>12, PlacedNext DEF c, x
<1> QED BY <1>1, <1>13, Zenon DEF Placed

LEMMA OpenStringStep ==
  ASSUME ScanTyped, Placed, OpenString
  PROVE  Placed'
<1>1. /\ i < len /\ ~ in_str /\ s(i) = "\"" /\ i' = i + 1 /\ read' = read
      /\ in_str' = TRUE /\ escape' = FALSE
  BY DEF OpenString, ScanTo
<1>2. PICK n, d : StandsAt(n, d)
  BY <1>1, PlaceOf
<1> DEFINE c == Pieces(read)[n]
           x == KindOf(read, n)
<1>3. /\ n \in 1 .. Count(read) /\ d \in 0 .. Len(c) - 1 /\ Len(c) \in Nat /\ s(i) = c[d + 1]
      /\ x \in Kinds /\ Spells(x, c, n = Count(read))
  BY <1>2, Standing
<1>4. InsideAt(x, c, d, FALSE, escape)
  BY <1>1, <1>2, Zenon DEF StandsAt, InsideAt
<1> HIDE DEF c, x
<1> DEFINE last == n = Count(read)
<1>5. x \in {"plain", "badtext"} /\ Quoted(c) /\ d = 0
  <2>1. Spells(x, c, last)
    BY <1>3, Zenon
  <2> HIDE DEF last
  <2>2. c[d + 1] = "\""
    BY <1>1, <1>3
  <2> QED BY <1>3, <1>4, <2>1, <2>2, OutsideChar
<1> HIDE DEF last
<1>6. 1 < Len(c) /\ InsideAt(x, c, 1, TRUE, FALSE)
  BY <1>3, <1>5, StringOpens
<1>7. ~ (x = "literal" /\ d = 0) /\ ~ (x = "signed" /\ d = 1)
  BY <1>5
<1>8. d + 1 = 1 /\ d + 1 # Len(c) /\ d + 1 < Len(c)
  <2> DEFINE z == Len(c)
  <2>1. 1 < z /\ d = 0 /\ z \in Nat
    BY <1>3, <1>5, <1>6, Zenon
  <2> HIDE DEF z
  <2>2. d + 1 = 1 /\ d + 1 # z /\ d + 1 < z
    BY <2>1
  <2> QED BY <2>2 DEF z
<1>9. d + 1 < Len(c) => InsideAt(x, c, d + 1, in_str', escape')
  BY <1>1, <1>6, <1>8, Zenon
<1>10. d + 1 = Len(c) => ~ in_str' /\ ~ escape'
  BY <1>8
<1>11. PlacedAt(read, i + 1, in_str', escape') /\ NotPassed(read, i + 1)
  BY <1>2, <1>7, <1>9, <1>10, PlacedNext DEF c, x
<1> QED BY <1>1, <1>11, Zenon DEF Placed

\* Three letters in a text, as they are in its lexeme.
LEMMA WordRead ==
  ASSUME ScanTyped, NEW n, NEW d, StandsAt(n, d), NEW k, k = d + 1,
         Word(Pieces(read)[n], k)
  PROVE  LiteralAt(i)
<1> DEFINE c == Pieces(read)[n]
<1>1. k + 2 <= Len(c)
  BY DEF Word
<1>2. /\ <<Lower(c[k]), Lower(c[k + 1]), Lower(c[k + 2])>>
             \in {<<"i", "n", "f">>, <<"n", "a", "n">>}
  BY Zenon DEF Word
<1>3. /\ d \in 0 .. Len(c) - 1 /\ Len(c) \in Nat /\ s(i) = c[d + 1]
      /\ d + 1 < Len(c) => s(i + 1) = c[d + 2] /\ i + 1 < len
      /\ d + 2 < Len(c) => s(i + 2) = c[d + 3] /\ i + 2 < len
  BY Standing
<1> HIDE DEF c
<1>4. d + 1 < Len(c) /\ d + 2 < Len(c) /\ k + 1 = d + 2 /\ k + 2 = d + 3
  BY <1>1, <1>3
<1>5. s(i) = c[k] /\ s(i + 1) = c[k + 1] /\ s(i + 2) = c[k + 2] /\ i + 2 < len
  BY <1>3, <1>4
<1> QED BY <1>2, <1>5, Zenon DEF LiteralAt

\* Outside strings only a literal spells one.
LEMMA LiteralFound ==
  ASSUME ScanTyped, Placed, i < len, ~ in_str, LiteralAt(i)
  PROVE  \E n \in 1 .. Count(read) : KindOf(read, n) \in {"literal", "signed"}
<1>1. PICK n, d : StandsAt(n, d)
  BY PlaceOf
<1> DEFINE c == Pieces(read)[n]
           x == KindOf(read, n)
<1>2. /\ n \in 1 .. Count(read) /\ d \in 0 .. Len(c) - 1 /\ Len(c) \in Nat /\ s(i) = c[d + 1]
      /\ d + 1 < Len(c) => s(i + 1) = c[d + 2]
      /\ x \in Kinds /\ Spells(x, c, n = Count(read))
  BY <1>1, Standing
<1>3. InsideAt(x, c, d, FALSE, escape)
  BY <1>1, Zenon DEF StandsAt, InsideAt
<1> HIDE DEF c, x
<1>4. \/ Lower(s(i)) = "i"
      \/ Lower(s(i)) = "n" /\ Lower(s(i + 1)) = "a"
  BY DEF LiteralAt
<1>5. Lower("\"") = "\"" /\ Lower("/") = "/" /\ Lower("u") = "u"
  BY Zenon DEF Lower
<1>6. ~ Bare(c)
  <2>1. SUFFICES ASSUME Bare(c) PROVE FALSE
    OBVIOUS
  <2>2. d + 1 \in 1 .. Len(c)
    BY <1>2
  <2>3. Lower(c[d + 1]) # "i" /\ (Lower(c[d + 1]) = "n" => d + 1 < Len(c) /\ c[(d + 1) + 1] = "u")
    BY <2>1, <2>2 DEF Bare
  <2>4. (d + 1) + 1 = d + 2
    BY <1>2
  <2>5. d + 1 < Len(c) /\ c[d + 2] = "u"
    BY <1>2, <1>4, <2>3, <2>4
  <2>6. Lower(s(i + 1)) = "u"
    BY <1>2, <1>5, <2>5
  <2> QED BY <1>2, <1>4, <2>3, <2>6
<1>7. d = 0 \/ x = "signed"
  BY <1>3, <1>6 DEF InsideAt
<1>8. c[d + 1] # "\"" /\ c[d + 1] # "/"
  BY <1>2, <1>4, <1>5
<1>9. CASE d = 0
  <2>0. d + 1 = 1
    BY <1>9
  <2>1. x # "comment"
    <3>1. x = "comment" => c[1] = "/"
      BY <1>2, KindSpells DEF IsLineComment, IsBlockComment
    <3> QED BY <1>8, <2>0, <3>1
  <2>2. x \notin {"plain", "badtext"}
    <3>1. x \in {"plain", "badtext"} => Quoted(c)
      BY <1>2, <1>6, KindSpells
    <3>2. Quoted(c) => c[1] = "\""
      BY DEF Quoted
    <3> QED BY <1>8, <2>0, <3>1, <3>2
  <2>3. x \notin {"overflow", "foreign", "broken", "bom"}
    BY <1>2, <1>6, KindSpells, MarkIsBare
  <2>4. x # "cut"
    <3>1. x = "cut" => Len(c) = 0
      BY <1>2, KindSpells
    <3> QED BY <1>2, <3>1
  <2> QED BY <1>2, <2>1, <2>2, <2>3, <2>4 DEF Kinds, x
<1> QED BY <1>2, <1>7, <1>9 DEF x

\* Every comment of the text is one to the scanner, too.
CommentsSeen(r) == r.relaxed \/ \A n \in 1 .. Count(r) : KindOf(r, n) # "comment"

LEMMA PassCharacterStep ==
  ASSUME ScanTyped, Placed, CommentsSeen(read), PassCharacter
  PROVE  Placed'
<1>1. /\ i < len /\ ~ in_str /\ s(i) # "\"" /\ i' = i + 1 /\ read' = read
      /\ in_str' = FALSE /\ escape' = FALSE /\ ~ LiteralAt(i) /\ ~ Skipped
  BY DEF PassCharacter, ScanTo
<1>2. PICK n, d : StandsAt(n, d)
  BY <1>1, PlaceOf
<1> DEFINE c == Pieces(read)[n]
           x == KindOf(read, n)
           last == n = Count(read)
           z == Len(c)
<1>3. /\ n \in 1 .. Count(read) /\ d \in 0 .. z - 1 /\ z \in Nat /\ s(i) = c[d + 1]
      /\ d + 1 < z => s(i + 1) = c[d + 2] /\ i + 1 < len
      /\ x \in Kinds
  BY <1>2, Standing
<1>4. InsideAt(x, c, d, FALSE, escape)
  BY <1>1, <1>2, Zenon DEF StandsAt, InsideAt
<1>5. Spells(x, c, last)
  BY <1>2, Standing, Zenon
<1>6. read \in Reads
  BY DEF ScanTyped
<1>7. \A k : k = d + 1 => ~ Word(c, k)
  BY <1>1, <1>2, WordRead
<1>8. Bare(c) => x \notin {"literal", "signed"}
  BY <1>3, <1>6, QuotedKinds
<1> HIDE DEF c, x, last, z
<1>9. d = 0 \/ Bare(c) \/ (x = "signed" /\ d = 1)
  BY <1>4 DEF InsideAt
<1>10. x = "literal" => Word(c, 1)
  BY <1>3, <1>5, KindSpells
<1>11. x = "signed" => Word(c, 2)
  BY <1>3, <1>5, KindSpells
<1>12. ~ (x = "literal" /\ d = 0)
  BY <1>7, <1>10
<1>13. ~ (x = "signed" /\ d = 1)
  BY <1>7, <1>11
<1>14. \/ Bare(c)
       \/ x = "signed" /\ d = 0 /\ z >= 4
  <2>1. SUFFICES ASSUME d = 0, ~ Bare(c), x # "signed" PROVE FALSE
    <3>1. x = "signed" => z >= 4
      <4>1. x = "signed" => 2 + 2 <= z
        BY <1>11, WordStarts DEF z
      <4> QED BY <1>3, <4>1
    <3> QED BY <1>9, <1>13, <3>1
  <2>2. d + 1 = 1 /\ d + 2 = 2
    BY <2>1
  <2>3. x # "literal"
    BY <1>12, <2>1
  <2>4. x \notin {"plain", "badtext"}
    <3>1. x \in {"plain", "badtext"} => Quoted(c)
      BY <1>3, <1>5, <2>1, KindSpells
    <3>2. Quoted(c) => c[1] = "\""
      BY DEF Quoted
    <3> QED BY <1>1, <1>3, <2>2, <3>1, <3>2
  <2>5. x \notin {"overflow", "foreign", "broken", "bom"}
    BY <1>3, <1>5, <2>1, KindSpells, MarkIsBare
  <2>6. x # "cut"
    <3>1. x = "cut" => Len(c) = 0
      BY <1>3, <1>5, KindSpells
    <3> QED BY <1>3, <3>1 DEF z
  <2>7. x # "comment"
    <3>1. SUFFICES ASSUME x = "comment" PROVE FALSE
      OBVIOUS
    <3>2. IsLineComment(c, last) \/ IsBlockComment(c)
      BY <1>3, <1>5, <3>1, KindSpells
    <3>3. z >= 2 /\ c[1] = "/" /\ c[2] \in {"/", "*"}
      BY <1>3, <3>2 DEF IsLineComment, IsBlockComment, z
    <3>4. s(i) = "/" /\ s(i + 1) \in {"/", "*"} /\ i + 1 < len
      <4>1. d + 1 < z
        BY <1>3, <2>2, <3>3
      <4> QED BY <1>3, <2>2, <3>3, <4>1
    <3>5. read.relaxed
      BY <1>3, <3>1, Zenon DEF CommentsSeen, x
    <3> QED BY <1>1, <3>4, <3>5 DEF Skipped, LineComment, BlockComment, Comment
  <2> QED BY <1>3, <2>1, <2>3, <2>4, <2>5, <2>6, <2>7 DEF Kinds
<1>15. d + 1 < z => InsideAt(x, c, d + 1, in_str', escape')
  <2>1. CASE Bare(c)
    BY <1>1, <2>1, Zenon DEF InsideAt
  <2>2. CASE x = "signed" /\ d = 0
    <3>1. d + 1 = 1
      BY <2>2
    <3> QED BY <1>1, <2>2, <3>1, Zenon DEF InsideAt
  <2> QED BY <1>14, <2>1, <2>2
<1>16. d + 1 = z => ~ in_str' /\ ~ escape'
  BY <1>1
<1>17. PlacedAt(read, i + 1, in_str', escape') /\ NotPassed(read, i + 1)
  BY <1>2, <1>12, <1>13, <1>15, <1>16, PlacedNext DEF c, x, z
<1> QED BY <1>1, <1>17, Zenon DEF Placed

\* The least element of a set is where one looks for it.
LEMMA LeastIs ==
  ASSUME NEW T \in SUBSET Int, NEW x \in T, \A y \in T : x <= y
  PROVE  Min(T) = x
<1>1. ASSUME NEW m \in T, \A y \in T : m <= y PROVE m = x
  <2>1. m <= x /\ x <= m /\ m \in Int /\ x \in Int
    BY <1>1
  <2> QED BY <2>1
<1>2. \E m \in T : \A y \in T : m <= y
  BY Zenon
<1>3. Min(T) \in T /\ \A y \in T : Min(T) <= y
  BY <1>2, Zenon DEF Min
<1> QED BY <1>1, <1>3, Zenon

\* Where a comment begins, and what the scanner sees of it.
LEMMA CommentStands ==
  ASSUME ScanTyped, Placed, i < len, ~ in_str, Comment
  PROVE  \E n \in 1 .. Count(read) :
           LET c == Pieces(read)[n]
           IN  /\ StandsAt(n, 0) /\ KindOf(read, n) = "comment" /\ i = From(read, n)
               /\ IsLineComment(c, n = Count(read)) \/ IsBlockComment(c)
<1>1. PICK n, d : StandsAt(n, d)
  BY PlaceOf
<1> DEFINE c == Pieces(read)[n]
           x == KindOf(read, n)
           last == n = Count(read)
<1>2. /\ n \in 1 .. Count(read) /\ d \in 0 .. Len(c) - 1 /\ Len(c) \in Nat /\ s(i) = c[d + 1]
      /\ x \in Kinds /\ i = From(read, n) + d /\ From(read, n) \in Nat
  BY <1>1, Standing
<1>3. Spells(x, c, last)
  BY <1>1, Standing, Zenon
<1>4. InsideAt(x, c, d, FALSE, escape)
  BY <1>1, Zenon DEF StandsAt, InsideAt
<1> HIDE DEF c, x, last
<1>5. c[d + 1] = "/"
  BY <1>2 DEF Comment
<1>6. x = "comment" /\ d = 0
  BY <1>2, <1>3, <1>4, <1>5, OutsideChar
<1>7. IsLineComment(c, last) \/ IsBlockComment(c)
  BY <1>2, <1>3, <1>6, KindSpells
<1>8. i = From(read, n)
  BY <1>2, <1>6
<1>9. StandsAt(n, 0)
  BY <1>1, <1>6
<1> QED BY <1>2, <1>6, <1>7, <1>8, <1>9, Zenon DEF c, x, last

\* The characters of a lexeme, as the scanner reads them.
LEMMA ReadsLexeme ==
  ASSUME ScanTyped, NEW n \in 1 .. Count(read)
  PROVE  LET c == Pieces(read)[n]
             b == From(read, n)
         IN  /\ b \in Nat /\ Len(c) \in Nat /\ len \in Nat /\ Len(c) = Size(read, n)
             /\ b + Len(c) <= len
             /\ n = Count(read) => b + Len(c) = len
             /\ \A e \in 0 .. Len(c) - 1 : /\ s(b + e) = c[e + 1] /\ b + e < len
                                           /\ s(b + e) # "NUL"
<1> DEFINE c == Pieces(read)[n]
           b == From(read, n)
           z == Size(read, n)
<1>1. read \in Reads
  BY DEF ScanTyped
<1>2. /\ b \in Nat /\ z \in Nat /\ len \in Nat /\ b + z <= len
      /\ n = Count(read) => b + z = len
      /\ \A e \in 0 .. z - 1 : s(b + e) = c[e + 1] /\ b + e < len
  BY <1>1, LexemePlaced, TextNames
<1>3. Len(c) = z
  BY <1>1, LiteralSize
<1>4. \A k \in 1 .. z : c[k] # "NUL"
  <2>1. IsLexeme(read.lexemes[n], n = Count(read)) /\ c = read.lexemes[n].chars
    BY <1>1, LexemesAre
  <2> HIDE DEF c
  <2>2. \A k \in 1 .. Len(c) : c[k] # "NUL"
    BY <2>1 DEF IsLexeme
  <2> QED BY <1>3, <2>2 DEF c
<1> HIDE DEF b, z, c
<1>5. \A e \in 0 .. z - 1 : e + 1 \in 1 .. z
  BY <1>2
<1>6. \A e \in 0 .. z - 1 : s(b + e) # "NUL"
  BY <1>2, <1>4, <1>5
<1> QED BY <1>2, <1>3, <1>6 DEF b, z, c

LEMMA SkipLineCommentStep ==
  ASSUME ScanTyped, Placed, SkipLineComment
  PROVE  Placed'
<1> DEFINE T == {j \in i + 2 .. len : s(j) \in {"CR", "LF", "NUL"}}
<1>1. /\ i < len /\ ~ in_str /\ Comment /\ s(i + 1) = "/" /\ i + 1 < len
      /\ i' = Min(T) + 1 /\ read' = read /\ in_str' = FALSE /\ escape' = FALSE
  BY DEF SkipLineComment, LineComment, Comment, ScanTo
<1>2. PICK n \in 1 .. Count(read) :
          /\ StandsAt(n, 0) /\ KindOf(read, n) = "comment" /\ i = From(read, n)
          /\ IsLineComment(Pieces(read)[n], n = Count(read)) \/ IsBlockComment(Pieces(read)[n])
  BY <1>1, CommentStands
<1> DEFINE c == Pieces(read)[n]
           last == n = Count(read)
           z == Len(c)
<1>3. /\ i \in Nat /\ z \in Nat /\ len \in Nat /\ z = Size(read, n) /\ i + z <= len
      /\ \A e \in 0 .. z - 1 : s(i + e) = c[e + 1] /\ i + e < len /\ s(i + e) # "NUL"
  BY <1>2, ReadsLexeme
<1>4. last => i + z = len
  BY <1>2, ReadsLexeme
<1>5. NotPassed(read, From(read, n)) /\ read \in Reads
  BY <1>2, Zenon DEF Placed, ScanTyped
<1>6. s(len) = "NUL"
  BY <1>3 DEF s
<1>7. IsLineComment(c, last) \/ IsBlockComment(c)
  BY <1>2, Zenon
<1> HIDE DEF c, last, z
<1>8. z >= 2
  BY <1>7 DEF IsLineComment, IsBlockComment, z
<1>9. c[2] = "/"
  <2>1. 1 \in 0 .. z - 1 /\ 1 + 1 = 2
    BY <1>3, <1>8
  <2> QED BY <1>1, <1>3, <2>1
<1>10. /\ \A k \in 3 .. z - 1 : c[k] \notin LineEnd
       /\ last \/ (z >= 3 /\ c[z] \in LineEnd)
  <2>1. ~ IsBlockComment(c)
    BY <1>9 DEF IsBlockComment
  <2> QED BY <1>7, <2>1 DEF IsLineComment, z
<1>11. \A y \in T : y < i + z => y - i \in 2 .. z - 1 /\ c[(y - i) + 1] \in LineEnd
  <2>1. SUFFICES ASSUME NEW y \in T, y < i + z
                 PROVE  y - i \in 2 .. z - 1 /\ c[(y - i) + 1] \in LineEnd
    OBVIOUS
  <2>2. y \in i + 2 .. len /\ s(y) \in {"CR", "LF", "NUL"}
    OBVIOUS
  <2> HIDE DEF T
  <2>3. y - i \in 2 .. z - 1 /\ y - i \in 0 .. z - 1 /\ i + (y - i) = y
    BY <1>3, <2>1, <2>2
  <2>4. s(y) = c[(y - i) + 1] /\ s(y) # "NUL"
    BY <1>3, <2>3
  <2> QED BY <2>2, <2>3, <2>4 DEF LineEnd
<1>12. T \in SUBSET Int /\ \A y \in T : y \in Nat /\ i + 2 <= y /\ y <= len
  BY <1>3
<1>13. CASE z >= 3 /\ c[z] \in LineEnd
  <2> DEFINE e == i + (z - 1)
  <2>1. e \in i + 2 .. len /\ e < i + z /\ z - 1 \in 0 .. z - 1 /\ (z - 1) + 1 = z
    BY <1>3, <1>13
  <2>2. s(e) \in {"CR", "LF", "NUL"}
    BY <1>3, <1>13, <2>1 DEF LineEnd
  <2>3. e \in T
    BY <2>1, <2>2
  <2>4. ASSUME NEW y \in T PROVE e <= y
    <3>1. SUFFICES ASSUME y < e PROVE FALSE
      BY <1>3, <1>12
    <3> HIDE DEF T
    <3>2. y < i + z /\ y \in Nat
      BY <1>3, <1>12, <3>1
    <3>3. y - i \in 2 .. z - 1 /\ c[(y - i) + 1] \in LineEnd
      BY <1>11, <3>2
    <3>4. (y - i) + 1 \in 3 .. z - 1
      BY <1>3, <3>1, <3>2, <3>3
    <3> QED BY <1>10, <3>3, <3>4
  <2> HIDE DEF T
  <2>5. Min(T) = e
    BY <1>12, <2>3, <2>4, LeastIs
  <2>6. i' = From(read, n) + Size(read, n) /\ i' \in Nat
    BY <1>1, <1>2, <1>3, <2>5
  <2>7. PlacedAt(read, i', in_str', escape')
    BY <1>1, <1>5, <2>6, StepOver
  <2>8. NotPassed(read, i')
    <3>1. KindOf(read, n) \notin {"literal", "signed"}
      BY <1>2
    <3> HIDE DEF T
    <3> QED BY <1>5, <2>6, <3>1, NotPassedOver, Zenon
  <2> QED BY <1>1, <2>7, <2>8, Zenon DEF Placed
<1>14. CASE ~ (z >= 3 /\ c[z] \in LineEnd)
  <2>1. last /\ i + z = len
    BY <1>4, <1>10, <1>14
  <2>2. len \in T
    BY <1>1, <1>3, <1>6
  <2>3. ASSUME NEW y \in T PROVE len <= y
    <3>1. SUFFICES ASSUME y < len PROVE FALSE
      BY <1>3, <1>12
    <3> HIDE DEF T
    <3>2. y < i + z /\ y \in Nat
      BY <1>3, <1>12, <2>1, <3>1
    <3>3. y - i \in 2 .. z - 1 /\ c[(y - i) + 1] \in LineEnd
      BY <1>11, <3>2
    <3>4. (y - i) + 1 \in 3 .. z - 1 \/ (z >= 3 /\ (y - i) + 1 = z)
      BY <1>3, <3>2, <3>3
    <3> QED BY <1>10, <1>14, <3>3, <3>4
  <2> HIDE DEF T
  <2>4. Min(T) = len
    BY <1>12, <2>2, <2>3, LeastIs
  <2>5. i' \in Nat /\ i' >= len
    BY <1>1, <1>3, <2>4
  <2>6. PlacedAt(read, i', in_str', escape')
    <3>1. i' >= Extent(read)
      BY <1>5, <2>5, TextNames
    <3> QED BY <1>5, <2>5, <3>1, StepPastEnd
  <2>7. NotPassed(read, i')
    <3>1. n = Count(read)
      BY <2>1 DEF last
    <3>2. Size(read, n) > 1
      BY <1>3, <1>8
    <3> QED BY <1>2, <1>5, <2>5, <3>1, <3>2, NotPassedOver
  <2> QED BY <1>1, <2>6, <2>7, Zenon DEF Placed
<1> QED BY <1>13, <1>14, Zenon

LEMMA SkipBlockCommentStep ==
  ASSUME ScanTyped, Placed, SkipBlockComment
  PROVE  Placed'
<1> DEFINE T == {j \in i + 2 .. len : s(j) = "*" /\ s(j + 1) = "/"}
<1>1. /\ i < len /\ ~ in_str /\ Comment /\ s(i + 1) = "*" /\ i + 1 < len
      /\ i' = (IF T = {} THEN len ELSE Min(T)) + 2
      /\ read' = read /\ in_str' = FALSE /\ escape' = FALSE
  BY DEF SkipBlockComment, BlockComment, Comment, ScanTo
<1>2. PICK n \in 1 .. Count(read) :
          /\ StandsAt(n, 0) /\ KindOf(read, n) = "comment" /\ i = From(read, n)
          /\ IsLineComment(Pieces(read)[n], n = Count(read)) \/ IsBlockComment(Pieces(read)[n])
  BY <1>1, CommentStands
<1> DEFINE c == Pieces(read)[n]
           last == n = Count(read)
           z == Len(c)
<1>3. /\ i \in Nat /\ z \in Nat /\ len \in Nat /\ z = Size(read, n) /\ i + z <= len
      /\ \A e \in 0 .. z - 1 : s(i + e) = c[e + 1] /\ i + e < len
  BY <1>2, ReadsLexeme
<1>5. NotPassed(read, From(read, n)) /\ read \in Reads
  BY <1>2, Zenon DEF Placed, ScanTyped
<1>7. IsLineComment(c, last) \/ IsBlockComment(c)
  BY <1>2, Zenon
<1> HIDE DEF c, last, z
<1>8. z >= 2
  BY <1>7 DEF IsLineComment, IsBlockComment, z
<1>9. c[2] = "*"
  <2>1. 1 \in 0 .. z - 1 /\ 1 + 1 = 2
    BY <1>3, <1>8
  <2> QED BY <1>1, <1>3, <2>1
<1>10. /\ z >= 4 /\ c[z - 1] = "*" /\ c[z] = "/"
       /\ \A k \in 3 .. z - 2 : ~ (c[k] = "*" /\ c[k + 1] = "/")
  <2>1. ~ IsLineComment(c, last)
    BY <1>9 DEF IsLineComment
  <2> QED BY <1>7, <2>1 DEF IsBlockComment, z
<1>12. T \in SUBSET Int /\ \A y \in T : y \in Nat /\ i + 2 <= y /\ y <= len
  BY <1>3
<1> DEFINE e == i + (z - 2)
<1>13. /\ e \in i + 2 .. len /\ e + 1 = i + (z - 1) /\ z - 2 \in 0 .. z - 1 /\ z - 1 \in 0 .. z - 1
       /\ (z - 2) + 1 = z - 1 /\ (z - 1) + 1 = z
  BY <1>3, <1>10
<1>14. s(e) = "*" /\ s(e + 1) = "/"
  BY <1>3, <1>10, <1>13
<1>15. e \in T
  BY <1>13, <1>14
<1>16. ASSUME NEW y \in T PROVE e <= y
  <2>1. SUFFICES ASSUME y < e PROVE FALSE
    BY <1>3, <1>12
  <2>2. s(y) = "*" /\ s(y + 1) = "/" /\ y \in Nat /\ i + 2 <= y
    BY <1>12
  <2> HIDE DEF T
  <2> DEFINE d == y - i
  <2>3. /\ d \in 0 .. z - 1 /\ d + 1 \in 0 .. z - 1 /\ i + d = y /\ i + (d + 1) = y + 1
        /\ d + 1 \in 3 .. z - 2
    BY <1>3, <2>1, <2>2
  <2> HIDE DEF d, e
  <2>4. s(y) = c[d + 1] /\ s(y + 1) = c[(d + 1) + 1]
    BY <1>3, <2>3
  <2> QED BY <1>10, <2>2, <2>3, <2>4
<1> HIDE DEF T
<1>17. Min(T) = e
  BY <1>12, <1>15, <1>16, LeastIs
<1>18. i' = From(read, n) + Size(read, n) /\ i' \in Nat
  BY <1>1, <1>2, <1>3, <1>15, <1>17
<1>19. PlacedAt(read, i', in_str', escape')
  BY <1>1, <1>5, <1>18, StepOver
<1>20. NotPassed(read, i')
  <2>1. KindOf(read, n) \notin {"literal", "signed"}
    BY <1>2
  <2> QED BY <1>5, <1>18, <2>1, NotPassedOver, Zenon
<1> QED BY <1>1, <1>19, <1>20, Zenon DEF Placed

-----------------------------------------------------------------------------
(* What the parser makes of a text.                                        *)

Literals == {"literal", "signed"}
RefusedBy(r) ==
  {"foreign", "broken", "cut"} \cup (IF r.relaxed THEN {} ELSE {"comment", "bom"})
      \cup (IF r.utf8 THEN {} ELSE {"badtext"})
PlacesOf(r, K) == {n \in 1 .. Count(r) : KindOf(r, n) \in K}
FaultPos(r, n) == From(r, n) + (IF KindOf(r, n) \in {"badtext", "signed"} THEN 1 ELSE 0)

LEMMA ReadNames ==
  ASSUME read \in Reads
  PROVE  /\ Refused = RefusedBy(read)
         /\ \A K : Has(K) <=> PlacesOf(read, K) # {}
         /\ \A K : {n \in DOMAIN read.lexemes : read.lexemes[n].kind \in K} = PlacesOf(read, K)
         /\ \A n : StopAt(n) = FaultPos(read, n)
<1>1. DOMAIN read.lexemes = 1 .. Count(read)
  BY LexemesAre
<1>2. Refused = RefusedBy(read)
  BY Zenon DEF Refused, RefusedBy
<1>3. \A K : {n \in DOMAIN read.lexemes : read.lexemes[n].kind \in K} = PlacesOf(read, K)
  BY <1>1, Zenon DEF PlacesOf, KindOf
<1>4. \A K : Has(K) <=> PlacesOf(read, K) # {}
  BY <1>3 DEF Has
<1>5. \A n : StopAt(n) = FaultPos(read, n)
  BY TextNames, Zenon DEF StopAt, FaultPos, KindOf
<1> QED BY <1>2, <1>3, <1>4, <1>5, Zenon

LEMMA FirstPass ==
  ASSUME NEW x \in Kinds
  PROVE  ~ Accepts(x, FALSE) <=> \/ x \in Literals \cup RefusedBy(read)
                                 \/ x = "overflow" /\ ~ read.bignum
BY Zenon DEF Accepts, Literals, RefusedBy, Kinds

LEMMA SecondPass ==
  ASSUME NEW x \in Kinds
  PROVE  ~ Accepts(x, TRUE) <=> x \in RefusedBy(read)
BY Zenon DEF Accepts, RefusedBy, Kinds

\* A set of places has a first one.
LEMMA LeastOf ==
  ASSUME NEW T \in SUBSET Nat, T # {}
  PROVE  Min(T) \in T /\ \A y \in T : Min(T) <= y
<1>1. PICK m \in T : \A y \in T : m <= y
  BY LeastElement
<1>2. T \in SUBSET Int
  OBVIOUS
<1>3. Min(T) = m
  BY <1>1, <1>2, LeastIs
<1> QED BY <1>1, <1>3

LEMMA FaultInText ==
  ASSUME NEW r \in Reads, NEW n \in 1 .. Count(r)
  PROVE  FaultPos(r, n) \in Nat /\ FaultPos(r, n) <= Extent(r)
<1> DEFINE b == From(r, n)
           z == Size(r, n)
           c == Pieces(r)[n]
           x == KindOf(r, n)
<1>1. b \in Nat /\ z \in Nat /\ Extent(r) \in Nat /\ b + z <= Extent(r)
  BY LexemePlaced
<1>2. /\ x \in Kinds /\ Spells(x, c, n = Count(r)) /\ Len(c) = z
      /\ x = "signed" => z >= 4
  BY LiteralSize
<1> HIDE DEF b, z, c, x
<1>3. x = "badtext" => Quoted(c)
  BY <1>2, KindSpells
<1>4. x = "badtext" => z >= 2
  BY <1>2, <1>3 DEF Quoted
<1> DEFINE k == IF x \in {"badtext", "signed"} THEN 1 ELSE 0
<1>5. k \in Nat /\ k <= z
  BY <1>1, <1>2, <1>4
<1>6. FaultPos(r, n) = b + k
  BY DEF FaultPos, b, x
<1> HIDE DEF k
<1> QED BY <1>1, <1>5, <1>6

LEMMA StopsAre ==
  ASSUME read \in Reads, NEW b
  PROVE  /\ Stops(b) \in SUBSET Nat
         /\ Stops(b) = {n \in 1 .. Count(read) : ~ Accepts(KindOf(read, n), b)}
<1>1. DOMAIN read.lexemes = 1 .. Count(read) /\ Count(read) \in Nat
  BY LexemesAre
<1>2. Stops(b) = {n \in 1 .. Count(read) : ~ Accepts(KindOf(read, n), b)}
  BY <1>1, Zenon DEF Stops, KindOf
<1> QED BY <1>1, <1>2

LEMMA CodesAre ==
  ASSUME NEW x
  PROVE  /\ StopCode(x) # "NONE"
         /\ x \notin {"overflow", "signed"} => StopCode(x) # "INVALID_NUMBER"
         /\ StopCode(x) = "INVALID_STRING" <=> x = "badtext"
<1>1. CASE x \in {"overflow", "signed"}
  <2>1. StopCode(x) = "INVALID_NUMBER"
    BY <1>1, Zenon DEF StopCode
  <2> QED BY <1>1, <2>1
<1>2. CASE x = "badtext"
  <2>1. StopCode(x) = "INVALID_STRING"
    BY <1>2, Zenon DEF StopCode
  <2> QED BY <1>2, <2>1
<1>3. CASE x = "cut"
  <2>1. StopCode(x) = "UNEXPECTED_END"
    BY <1>3, Zenon DEF StopCode
  <2> QED BY <1>3, <2>1
<1>4. CASE x \notin {"overflow", "signed", "badtext", "cut"}
  <2>1. StopCode(x) = "UNEXPECTED_CHARACTER"
    BY <1>4, Zenon DEF StopCode
  <2> QED BY <1>4, <2>1
<1> QED BY <1>1, <1>2, <1>3, <1>4

\* The parser stops at the first lexeme it does not accept.
LEMMA ReadStops ==
  ASSUME read \in Reads, NEW b
  PROVE  LET e == yyjson_read_opts(b)
         IN  /\ e.pos \in Nat /\ e.pos <= Extent(read)
             /\ e = [code |-> e.code, pos |-> e.pos]
             /\ Stops(b) = {} => e = NoErr
             /\ Stops(b) # {} =>
                  LET m == Min(Stops(b))
                  IN  /\ m \in Stops(b) /\ \A y \in Stops(b) : m <= y
                      /\ e.code = StopCode(KindOf(read, m)) /\ e.pos = FaultPos(read, m)
                      /\ e # NoErr
<1> DEFINE T == Stops(b)
           e == yyjson_read_opts(b)
           m == Min(T)
<1>1. T \in SUBSET Nat /\ T \subseteq 1 .. Count(read)
  BY StopsAre
<1>2. CASE T = {}
  <2>1. e = NoErr
    BY <1>2 DEF yyjson_read_opts
  <2>2. Extent(read) \in Nat
    <3>1. Pieces(read) \in Seq(Seq(STRING))
      BY LexemesAre
    <3>2. Spelled(read) \in Seq(STRING)
      BY <3>1, PiecesSpan DEF Spelled
    <3> QED BY <3>2 DEF Extent
  <2> HIDE DEF e, T
  <2>3. e.pos \in Nat /\ e.pos <= Extent(read)
        /\ e = [code |-> e.code, pos |-> e.pos]
    <3>1. NoErr.pos = 0 /\ NoErr = [code |-> NoErr.code, pos |-> NoErr.pos]
      BY DEF NoErr
    <3>2. 0 \in Nat /\ 0 <= Extent(read)
      BY <2>2
    <3> QED BY <2>1, <3>1, <3>2
  <2> QED BY <1>2, <2>1, <2>3 DEF e, T
<1>3. CASE T # {}
  <2>1. m \in T /\ \A y \in T : m <= y
    BY <1>1, <1>3, LeastOf
  <2>2. m \in 1 .. Count(read)
    BY <1>1, <2>1
  <2>3. e = [code |-> StopCode(KindOf(read, m)), pos |-> FaultPos(read, m)]
    BY <1>3, ReadNames, Zenon DEF yyjson_read_opts, KindOf
  <2>4. FaultPos(read, m) \in Nat /\ FaultPos(read, m) <= Extent(read)
    BY <2>2, FaultInText
  <2>5. StopCode(KindOf(read, m)) # "NONE"
    BY CodesAre
  <2> HIDE DEF e, T, m
  <2>6. /\ e.code = StopCode(KindOf(read, m)) /\ e.pos = FaultPos(read, m)
        /\ e = [code |-> e.code, pos |-> e.pos]
    BY <2>3
  <2>7. e # NoErr
    BY <2>5, <2>6 DEF NoErr
  <2> QED BY <1>3, <2>1, <2>4, <2>6, <2>7 DEF e, T, m
<1> QED BY <1>2, <1>3

-----------------------------------------------------------------------------
(* The invariant of the reader.                                            *)

FirstFault(r) == Min(PlacesOf(r, RefusedBy(r)))
Plainly(r) == PlacesOf(r, Literals \cup (RefusedBy(r) \cap {"comment"})) = {}
Unread(r) == PlacesOf(r, Literals \cup RefusedBy(r)) # {}

ErrPlaced(r, e) == e = [code |-> e.code, pos |-> e.pos] /\ e.pos \in Nat /\ e.pos <= Extent(r)
ErrFaulted(r, e) ==
  Plainly(r) => /\ e.pos = FaultPos(r, FirstFault(r))
                /\ e.code = StopCode(KindOf(r, FirstFault(r)))
ErrReported(r, e) ==
  Plainly(r) => /\ e.pos = FaultPos(r, FirstFault(r))
                /\ e.code = "INVALID_STRING" <=> KindOf(r, FirstFault(r)) \in {"badtext", "broken"}

\* The scan can rely on its place only in texts whose comments it skips; the
\* others are refused whatever it finds.
ReadInv ==
  /\ ScanTyped /\ accepted \in BOOLEAN /\ ErrPlaced(read, read_err)
  /\ pc \in {"first", "scan", "classify", "done"}
  /\ pc \in {"first", "scan"} /\ CommentsSeen(read) => Placed
  /\ pc # "done" => ~ accepted
  /\ pc = "classify" => Unread(read) /\ ErrFaulted(read, read_err)
  /\ pc = "done" /\ accepted => ~ Unread(read)
  /\ pc = "done" /\ ~ accepted => Unread(read) /\ ErrReported(read, read_err)

LEMMA ExtentNat ==
  ASSUME NEW r \in Reads
  PROVE  Extent(r) \in Nat
<1>1. Pieces(r) \in Seq(Seq(STRING))
  BY LexemesAre
<1>2. Spelled(r) \in Seq(STRING)
  BY <1>1, PiecesSpan DEF Spelled
<1> QED BY <1>2 DEF Extent

LEMMA ReadStarts ==
  ASSUME ReadInit
  PROVE  ReadInv
<1>1. /\ read \in Reads /\ pc = "first" /\ i = 0 /\ in_str = FALSE /\ escape = FALSE
      /\ accepted = FALSE /\ read_err = NoErr
  BY DEF ReadInit
<1>2. ScanTyped
  BY <1>1 DEF ScanTyped
<1>3. ErrPlaced(read, read_err)
  <2>1. NoErr = [code |-> NoErr.code, pos |-> NoErr.pos] /\ NoErr.pos = 0
    BY DEF NoErr
  <2>2. 0 \in Nat /\ 0 <= Extent(read)
    BY <1>1, ExtentNat
  <2> QED BY <1>1, <2>1, <2>2 DEF ErrPlaced
<1>4. \A n \in 1 .. Count(read) : From(read, n) \in Nat
  BY <1>1, LexemePlaced
<1>5. PlacedAt(read, i, in_str, escape)
  <2>1. SUFFICES ASSUME NEW n \in 1 .. Count(read), NEW d \in 0 .. Size(read, n) - 1,
                        i = From(read, n) + d
                 PROVE  InsideAt(KindOf(read, n), Pieces(read)[n], d, in_str, escape)
    BY DEF PlacedAt
  <2>2. d = 0
    BY <1>1, <1>4, <2>1
  <2> QED BY <1>1, <2>2, Zenon DEF InsideAt
<1>6. NotPassed(read, i)
  BY <1>1, <1>4 DEF NotPassed
<1>7. Placed
  BY <1>5, <1>6 DEF Placed
<1>8. pc = "first" /\ pc # "classify" /\ pc # "done" /\ ~ accepted /\ accepted \in BOOLEAN
      /\ pc \in {"first", "scan", "classify", "done"}
  BY <1>1
<1> QED BY <1>2, <1>3, <1>7, <1>8, Zenon DEF ReadInv

\* Where the parser stops when it stops at no number, the fault is.
LEMMA FaultFound ==
  ASSUME read \in Reads, NEW b, NEW m, m \in Stops(b), \A y \in Stops(b) : m <= y,
         KindOf(read, m) \in Literals \cup RefusedBy(read),
         PlacesOf(read, RefusedBy(read)) \subseteq Stops(b)
  PROVE  Unread(read) /\ (Plainly(read) => FirstFault(read) = m)
<1> DEFINE T == PlacesOf(read, RefusedBy(read))
           k == KindOf(read, m)
<1>1. Stops(b) \in SUBSET Nat /\ m \in 1 .. Count(read)
  BY StopsAre
<1>2. Unread(read)
  BY <1>1, Zenon DEF Unread, PlacesOf
<1>3. ASSUME Plainly(read) PROVE FirstFault(read) = m
  <2>1. k \notin Literals
    BY <1>1, <1>3, Zenon DEF Plainly, PlacesOf
  <2>2. m \in T
    BY <1>1, <2>1, Zenon DEF PlacesOf
  <2>3. T \in SUBSET Int /\ \A y \in T : m <= y
    BY <1>1
  <2> HIDE DEF T
  <2>4. Min(T) = m
    BY <2>2, <2>3, LeastIs
  <2> QED BY <2>4 DEF FirstFault, T
<1> QED BY <1>2, <1>3

LEMMA FirstReadStep ==
  ASSUME ReadInv, FirstRead
  PROVE  ReadInv'
<1> DEFINE b == FALSE
           e == yyjson_read_opts(b)
           T == Stops(b)
           m == Min(T)
<1>1. /\ pc = "first" /\ read_err' = e /\ read' = read /\ i' = i
      /\ in_str' = in_str /\ escape' = escape
  BY DEF FirstRead
<1>2. accepted' = (e = NoErr)
  BY <1>1, Zenon DEF FirstRead
<1>3. pc' = CASE accepted' -> "done" [] e.code = "INVALID_NUMBER" -> "scan" [] OTHER -> "classify"
  BY <1>1, Zenon DEF FirstRead
<1>4. read \in Reads /\ ScanTyped /\ (CommentsSeen(read) => Placed)
  BY <1>1, Zenon DEF ReadInv, ScanTyped
<1>5. \A x \in Kinds : ~ Accepts(x, b) <=> \/ x \in Literals \cup RefusedBy(read)
                                           \/ x = "overflow" /\ ~ read.bignum
  BY FirstPass
<1> HIDE DEF b
<1>6. /\ e.pos \in Nat /\ e.pos <= Extent(read) /\ e = [code |-> e.code, pos |-> e.pos]
      /\ T = {} => e = NoErr
      /\ T # {} => /\ m \in T /\ \A y \in T : m <= y
                   /\ e.code = StopCode(KindOf(read, m)) /\ e.pos = FaultPos(read, m)
                   /\ e # NoErr
  BY <1>4, ReadStops
<1>7. T = {n \in 1 .. Count(read) : ~ Accepts(KindOf(read, n), b)}
  BY <1>4, StopsAre
<1>8. \A n \in 1 .. Count(read) : KindOf(read, n) \in Kinds
  BY <1>4, LiteralSize
<1>9. PlacesOf(read, Literals \cup RefusedBy(read)) \subseteq T
  BY <1>5, <1>7, <1>8, Zenon DEF PlacesOf
<1>10. PlacesOf(read, RefusedBy(read)) \subseteq T
  <2>1. PlacesOf(read, RefusedBy(read)) \subseteq PlacesOf(read, Literals \cup RefusedBy(read))
    BY Zenon DEF PlacesOf
  <2> QED BY <1>9, <2>1
<1> HIDE DEF e, T, m
<1>11. ScanTyped' /\ ErrPlaced(read', read_err') /\ accepted' \in BOOLEAN
  <2>1. ScanTyped'
    BY <1>1, <1>4 DEF ScanTyped
  <2>2. ErrPlaced(read', read_err')
    BY <1>1, <1>6 DEF ErrPlaced
  <2>3. accepted' \in BOOLEAN
    BY <1>2, Zenon
  <2> QED BY <2>1, <2>2, <2>3
<1>12. CommentsSeen(read') => Placed'
  BY <1>1, <1>4, Zenon DEF Placed
<1>13. CASE T = {}
  <2>1. accepted'
    BY <1>2, <1>6, <1>13, Zenon
  <2>2. pc' = "done"
    <3>1. e.code # "INVALID_NUMBER"
      BY <1>6, <1>13 DEF NoErr
    <3> QED BY <1>3, <2>1, <3>1, Zenon
  <2>3. ~ Unread(read')
    BY <1>1, <1>9, <1>13 DEF Unread
  <2>4. pc' \in {"first", "scan", "classify", "done"} /\ pc' \notin {"first", "scan", "classify"}
    BY <2>2
  <2> QED BY <1>11, <2>1, <2>2, <2>3, <2>4, Zenon DEF ReadInv
<1>14. CASE T # {}
  <2>1. ~ accepted'
    BY <1>2, <1>6, <1>14, Zenon
  <2>2. CASE e.code = "INVALID_NUMBER"
    <3>1. pc' = "scan"
      BY <1>3, <2>1, <2>2, Zenon
    <3>2. pc' \in {"first", "scan", "classify", "done"} /\ pc' # "classify" /\ pc' # "done"
      BY <3>1
    <3> QED BY <1>11, <1>12, <2>1, <3>2, Zenon DEF ReadInv
  <2>3. CASE e.code # "INVALID_NUMBER"
    <3>1. pc' = "classify"
      BY <1>3, <2>1, <2>3, Zenon
    <3>2. KindOf(read, m) # "overflow" /\ m \in 1 .. Count(read) /\ m \in T
      <4>1. m \in T /\ e.code = StopCode(KindOf(read, m))
        BY <1>6, <1>14
      <4>2. KindOf(read, m) = "overflow" => StopCode(KindOf(read, m)) = "INVALID_NUMBER"
        BY Zenon DEF StopCode
      <4>3. KindOf(read, m) # "overflow"
        BY <2>3, <4>1, <4>2, Zenon
      <4> QED BY <1>7, <4>1, <4>3
    <3>3. KindOf(read, m) \in Literals \cup RefusedBy(read)
      BY <1>5, <1>7, <1>8, <3>2, Zenon
    <3>4. m \in Stops(b) /\ \A y \in Stops(b) : m <= y
      BY <1>6, <1>14, Zenon DEF T
    <3>5. PlacesOf(read, RefusedBy(read)) \subseteq Stops(b)
      BY <1>10, Zenon DEF T
    <3>6. Unread(read) /\ (Plainly(read) => FirstFault(read) = m)
      BY <1>4, <3>3, <3>4, <3>5, FaultFound, Zenon
    <3>7. ErrFaulted(read', read_err')
      BY <1>1, <1>6, <1>14, <3>6, Zenon DEF ErrFaulted
    <3>8. Unread(read')
      BY <1>1, <3>6, Zenon
    <3>9. pc' \in {"first", "scan", "classify", "done"} /\ pc' \notin {"first", "scan", "done"}
      BY <3>1
    <3> QED BY <1>11, <2>1, <3>7, <3>8, <3>9, Zenon DEF ReadInv
  <2> QED BY <2>2, <2>3
<1> QED BY <1>13, <1>14

LEMMA SecondReadStep ==
  ASSUME ReadInv, SecondRead
  PROVE  ReadInv'
<1> DEFINE b == TRUE
           e == yyjson_read_opts(b)
           T == Stops(b)
           m == Min(T)
<1>1. /\ pc = "scan" /\ read_err' = e /\ read' = read /\ i' = i /\ i >= len
      /\ in_str' = in_str /\ escape' = escape
  BY DEF SecondRead
<1>2. accepted' = (e = NoErr)
  BY <1>1, Zenon DEF SecondRead
<1>3. pc' = IF accepted' THEN "done" ELSE "classify"
  BY <1>1, Zenon DEF SecondRead
<1>4. read \in Reads /\ ScanTyped /\ (CommentsSeen(read) => Placed)
  BY <1>1, Zenon DEF ReadInv, ScanTyped
<1>5. \A x \in Kinds : ~ Accepts(x, b) <=> x \in RefusedBy(read)
  BY SecondPass
<1> HIDE DEF b
<1>6. /\ e.pos \in Nat /\ e.pos <= Extent(read) /\ e = [code |-> e.code, pos |-> e.pos]
      /\ T = {} => e = NoErr
      /\ T # {} => /\ m \in T /\ \A y \in T : m <= y
                   /\ e.code = StopCode(KindOf(read, m)) /\ e.pos = FaultPos(read, m)
                   /\ e # NoErr
  BY <1>4, ReadStops
<1>7. T = {n \in 1 .. Count(read) : ~ Accepts(KindOf(read, n), b)}
  BY <1>4, StopsAre
<1>8. \A n \in 1 .. Count(read) : KindOf(read, n) \in Kinds
  BY <1>4, LiteralSize
<1>9. PlacesOf(read, RefusedBy(read)) = T
  BY <1>5, <1>7, <1>8, Zenon DEF PlacesOf
<1> HIDE DEF e, T, m
<1>11. ScanTyped' /\ ErrPlaced(read', read_err') /\ accepted' \in BOOLEAN
  <2>1. ScanTyped'
    BY <1>1, <1>4 DEF ScanTyped
  <2>2. ErrPlaced(read', read_err')
    BY <1>1, <1>6 DEF ErrPlaced
  <2>3. accepted' \in BOOLEAN
    BY <1>2, Zenon
  <2> QED BY <2>1, <2>2, <2>3
<1>13. CASE T = {}
  <2>1. accepted'
    BY <1>2, <1>6, <1>13, Zenon
  <2>2. pc' = "done"
    BY <1>3, <2>1, Zenon
  <2>3. CommentsSeen(read)
    <3>1. SUFFICES ASSUME ~ CommentsSeen(read) PROVE FALSE
      OBVIOUS
    <3>2. ~ read.relaxed /\ \E n \in 1 .. Count(read) : KindOf(read, n) = "comment"
      BY <3>1, Zenon DEF CommentsSeen
    <3>3. "comment" \in RefusedBy(read)
      BY <3>2 DEF RefusedBy
    <3> QED BY <1>9, <1>13, <3>2, <3>3 DEF PlacesOf
  <2>4. \A n \in 1 .. Count(read) : KindOf(read, n) \notin Literals
    <3>1. SUFFICES ASSUME NEW n \in 1 .. Count(read), KindOf(read, n) \in Literals PROVE FALSE
      OBVIOUS
    <3>2. NotPassed(read, i) /\ len = Extent(read) /\ i \in Nat
      BY <1>4, <2>3, TextNames DEF Placed, ScanTyped
    <3>3. /\ From(read, n) \in Nat /\ Size(read, n) \in Nat /\ Extent(read) \in Nat
          /\ From(read, n) + Size(read, n) <= Extent(read) /\ Size(read, n) >= 3
      <4>1. Size(read, n) \in Nat /\ Size(read, n) >= 3
        BY <1>4, <3>1, LiteralSize DEF Literals
      <4> QED BY <1>4, <4>1, LexemePlaced
    <3>4. i <= From(read, n) + 1
      BY <3>1, <3>2, <3>3 DEF NotPassed, Literals
    <3> QED BY <1>1, <3>2, <3>3, <3>4
  <2>5. ~ Unread(read')
    <3>1. PlacesOf(read, Literals \cup RefusedBy(read)) = {}
      BY <1>9, <1>13, <2>4 DEF PlacesOf
    <3> QED BY <1>1, <3>1 DEF Unread
  <2>6. pc' \in {"first", "scan", "classify", "done"} /\ pc' \notin {"first", "scan", "classify"}
    BY <2>2
  <2> QED BY <1>11, <2>1, <2>2, <2>5, <2>6, Zenon DEF ReadInv
<1>14. CASE T # {}
  <2>1. ~ accepted'
    BY <1>2, <1>6, <1>14, Zenon
  <2>2. pc' = "classify"
    BY <1>3, <2>1, Zenon
  <2>3. m \in Stops(b) /\ \A y \in Stops(b) : m <= y
    BY <1>6, <1>14, Zenon DEF T
  <2>4. KindOf(read, m) \in Literals \cup RefusedBy(read)
    BY <1>6, <1>9, <1>14 DEF PlacesOf
  <2>5. PlacesOf(read, RefusedBy(read)) \subseteq Stops(b)
    BY <1>9 DEF T
  <2>6. Unread(read) /\ (Plainly(read) => FirstFault(read) = m)
    BY <1>4, <2>3, <2>4, <2>5, FaultFound, Zenon
  <2>7. ErrFaulted(read', read_err')
    BY <1>1, <1>6, <1>14, <2>6, Zenon DEF ErrFaulted
  <2>8. Unread(read')
    BY <1>1, <2>6, Zenon
  <2>9. pc' \in {"first", "scan", "classify", "done"} /\ pc' \notin {"first", "scan", "done"}
    BY <2>2
  <2> QED BY <1>11, <2>1, <2>7, <2>8, <2>9, Zenon DEF ReadInv
<1> QED BY <1>13, <1>14

LEMMA FindLiteralStep ==
  ASSUME ReadInv, FindLiteral
  PROVE  ReadInv'
<1>1. /\ pc = "scan" /\ pc' = "classify" /\ i < len /\ ~ in_str /\ LiteralAt(i)
      /\ read' = read /\ i' = i /\ in_str' = in_str /\ escape' = escape
      /\ accepted' = accepted /\ read_err' = read_err
  BY DEF FindLiteral
<1>2. ScanTyped /\ ErrPlaced(read, read_err) /\ (CommentsSeen(read) => Placed)
  BY <1>1, Zenon DEF ReadInv
<1>3. ~ accepted /\ accepted \in BOOLEAN
  <2>1. pc # "done"
    BY <1>1
  <2> QED BY <2>1, Zenon DEF ReadInv
<1>4. Unread(read) /\ ~ Plainly(read)
  <2>1. CASE CommentsSeen(read)
    <3>1. PICK n \in 1 .. Count(read) : KindOf(read, n) \in Literals
      BY <1>1, <1>2, <2>1, LiteralFound DEF Literals
    <3> QED BY <3>1 DEF Unread, Plainly, PlacesOf
  <2>2. CASE ~ CommentsSeen(read)
    <3>1. ~ read.relaxed /\ \E n \in 1 .. Count(read) : KindOf(read, n) = "comment"
      BY <2>2, Zenon DEF CommentsSeen
    <3>2. "comment" \in RefusedBy(read)
      BY <3>1 DEF RefusedBy
    <3> QED BY <3>1, <3>2 DEF Unread, Plainly, PlacesOf
  <2> QED BY <2>1, <2>2
<1>5. ScanTyped'
  BY <1>1, <1>2 DEF ScanTyped
<1>6. ErrFaulted(read', read_err') /\ Unread(read') /\ ErrPlaced(read', read_err')
  BY <1>1, <1>2, <1>4, Zenon DEF ErrFaulted
<1>7. pc' \in {"first", "scan", "classify", "done"} /\ pc' \notin {"first", "scan", "done"}
  BY <1>1
<1>8. ~ accepted' /\ accepted' \in BOOLEAN
  BY <1>1, <1>3, Zenon
<1> QED BY <1>5, <1>6, <1>7, <1>8, Zenon DEF ReadInv

LEMMA ScanStep ==
  ASSUME ReadInv,
         InString \/ SkipLineComment \/ SkipBlockComment \/ OpenString \/ PassCharacter
  PROVE  ReadInv'
<1>1. /\ pc = "scan" /\ pc' = pc /\ read' = read /\ accepted' = accepted /\ read_err' = read_err
  <2>1. ASSUME NEW o, NEW str, NEW esc, ScanTo(o, str, esc)
        PROVE  read' = read /\ pc' = pc /\ accepted' = accepted /\ read_err' = read_err
    BY <2>1 DEF ScanTo
  <2> QED BY <2>1, Zenon DEF InString, SkipLineComment, SkipBlockComment, OpenString, PassCharacter
<1>2. ScanTyped /\ ErrPlaced(read, read_err) /\ (CommentsSeen(read) => Placed)
  BY <1>1, Zenon DEF ReadInv
<1>3. ~ accepted /\ accepted \in BOOLEAN
  <2>1. pc # "done"
    BY <1>1
  <2> QED BY <2>1, Zenon DEF ReadInv
<1>4. CommentsSeen(read') => Placed'
  <2>1. SUFFICES ASSUME CommentsSeen(read) PROVE Placed'
    BY <1>1, Zenon
  <2>2. Placed
    BY <1>2, <2>1
  <2>3. CASE InString
    BY <1>2, <2>2, <2>3, InStringStep
  <2>4. CASE SkipLineComment
    BY <1>2, <2>2, <2>4, SkipLineCommentStep
  <2>5. CASE SkipBlockComment
    BY <1>2, <2>2, <2>5, SkipBlockCommentStep
  <2>6. CASE OpenString
    BY <1>2, <2>2, <2>6, OpenStringStep
  <2>7. CASE PassCharacter
    BY <1>2, <2>1, <2>2, <2>7, PassCharacterStep
  <2> QED BY <2>3, <2>4, <2>5, <2>6, <2>7, Zenon
<1>5. ScanTyped'
  <2>1. read \in Reads /\ i \in Nat /\ in_str \in BOOLEAN /\ escape \in BOOLEAN
    BY <1>2 DEF ScanTyped
  <2>2. len \in Nat
    BY <2>1, TextNames, ExtentNat
  <2>3. i + 1 \in Nat /\ len + 1 \in Nat /\ len + 2 \in Nat
    BY <2>1, <2>2
  <2>4. CASE InString
    <3>1. i' = i + 1
      BY <2>4 DEF InString, ScanTo
    <3>2. in_str' = (escape \/ s(i) # "\"") /\ escape' = (~ escape /\ s(i) = "\\")
      BY <2>4, Zenon DEF InString, ScanTo
    <3>3. in_str' \in BOOLEAN /\ escape' \in BOOLEAN
      BY <3>2, Zenon
    <3> QED BY <1>1, <2>1, <2>3, <3>1, <3>3 DEF ScanTyped
  <2>5. CASE OpenString \/ PassCharacter
    <3>1. i' = i + 1 /\ in_str' \in BOOLEAN /\ escape' \in BOOLEAN
      BY <2>5 DEF OpenString, PassCharacter, ScanTo
    <3> QED BY <1>1, <2>1, <2>3, <3>1 DEF ScanTyped
  <2>6. CASE SkipLineComment
    <3> DEFINE T == {j \in i + 2 .. len : s(j) \in {"CR", "LF", "NUL"}}
    <3>1. /\ i' = Min(T) + 1 /\ in_str' = FALSE /\ escape' = FALSE /\ i + 1 < len
      BY <2>6 DEF SkipLineComment, LineComment, Comment, ScanTo
    <3>2. s(len) = "NUL" /\ len \in i + 2 .. len
      BY <2>1, <2>2, <3>1 DEF s
    <3>3. T \in SUBSET Nat /\ T # {}
      BY <2>1, <2>2, <3>2
    <3> HIDE DEF T
    <3>4. Min(T) \in Nat
      BY <3>3, LeastOf
    <3>5. i' \in Nat
      BY <3>1, <3>4
    <3> QED BY <1>1, <2>1, <3>1, <3>5 DEF ScanTyped
  <2>7. CASE SkipBlockComment
    <3> DEFINE T == {j \in i + 2 .. len : s(j) = "*" /\ s(j + 1) = "/"}
    <3>1. i' = (IF T = {} THEN len ELSE Min(T)) + 2 /\ in_str' = FALSE /\ escape' = FALSE
      BY <2>7 DEF SkipBlockComment, ScanTo
    <3>2. T \in SUBSET Nat
      BY <2>1, <2>2
    <3> HIDE DEF T
    <3>3. T # {} => Min(T) \in Nat
      BY <3>2, LeastOf
    <3>4. i' \in Nat
      BY <2>3, <3>1, <3>3
    <3> QED BY <1>1, <2>1, <3>1, <3>4 DEF ScanTyped
  <2> QED BY <2>4, <2>5, <2>6, <2>7, Zenon
<1>6. pc' = "scan" /\ pc' # "done" /\ pc' # "classify"
      /\ pc' \in {"first", "scan", "classify", "done"}
  BY <1>1
<1>7. ~ accepted' /\ accepted' \in BOOLEAN /\ ErrPlaced(read', read_err')
  BY <1>1, <1>2, <1>3, Zenon
<1> QED BY <1>4, <1>5, <1>6, <1>7, Zenon DEF ReadInv

\* The byte at the first fault is malformed UTF-8 exactly if the lexeme is.
LEMMA FaultByte ==
  ASSUME ScanTyped, NEW n \in 1 .. Count(read),
         KindOf(read, n) \in {"foreign", "broken", "cut", "bom"}
  PROVE  /\ FaultPos(read, n) = From(read, n)
         /\ (From(read, n) < len /\ MalformedAt(From(read, n))) <=> KindOf(read, n) = "broken"
<1> DEFINE c == Pieces(read)[n]
           b == From(read, n)
           x == KindOf(read, n)
           last == n = Count(read)
           z == Len(c)
<1>1. /\ b \in Nat /\ z \in Nat /\ len \in Nat
      /\ \A e \in 0 .. z - 1 : s(b + e) = c[e + 1] /\ b + e < len
  BY ReadsLexeme
<1>2. last => b + z = len
  BY ReadsLexeme
<1>3. x \in Kinds /\ Spells(x, c, last)
  BY LiteralSize, Zenon DEF ScanTyped
<1>4. FaultPos(read, n) = b
  <2>1. x \notin {"badtext", "signed"}
    OBVIOUS
  <2>2. FaultPos(read, n) = b + 0
    BY <2>1, Zenon DEF FaultPos
  <2> QED BY <1>1, <2>2
<1>5. x \in {"foreign", "broken", "cut", "bom"}
  OBVIOUS
<1> HIDE DEF c, b, x, last, z
<1>6. z > 0 => s(b) = c[1] /\ b < len
  <2>1. SUFFICES ASSUME z > 0 PROVE s(b) = c[1] /\ b < len
    OBVIOUS
  <2>2. 0 \in 0 .. z - 1 /\ b + 0 = b /\ 0 + 1 = 1
    BY <1>1, <2>1
  <2> QED BY <1>1, <2>2
<1>7. x \in {"foreign", "broken"} => c # <<>> /\ (c[1] = "0xFF" <=> x = "broken")
  <2>1. x \in {"foreign", "broken"} => c # <<>>
    BY <1>3, KindSpells
  <2>2. x = "foreign" => c[1] # "0xFF"
    BY <1>3, KindSpells
  <2>3. x = "broken" => c[1] = "0xFF"
    BY <1>3, KindSpells
  <2>4. "foreign" # "broken"
    OBVIOUS
  <2> QED BY <2>1, <2>2, <2>3, <2>4
<1>8. x \in {"foreign", "broken"} => z > 0
  <2>1. read \in Reads
    BY DEF ScanTyped
  <2>2. c \in Seq(STRING)
    BY <2>1, LexemesAre DEF c
  <2>3. c # <<>> => z # 0
    BY <2>2 DEF z
  <2> QED BY <1>1, <1>7, <2>3
<1>9. x = "bom" => z > 0 /\ c[1] = "0xEF"
  <2>1. x = "bom" => c = <<"0xEF", "0xBB", "0xBF">>
    BY <1>3, KindSpells
  <2> QED BY <2>1 DEF z
<1>10. x = "cut" => b = len
  <2>1. x = "cut" => c = <<>> /\ last
    BY <1>3, KindSpells
  <2>2. c = <<>> => z = 0
    BY DEF z
  <2>3. x = "cut" => b + z = len /\ z = 0
    BY <1>2, <2>1, <2>2
  <2> QED BY <1>1, <2>3
<1>11. CASE x = "foreign"
  <2>1. s(b) = c[1] /\ c[1] # "0xFF"
    BY <1>6, <1>7, <1>8, <1>11
  <2> QED BY <1>4, <1>11, <2>1 DEF MalformedAt, b, x
<1>12. CASE x = "broken"
  <2>1. s(b) = c[1] /\ c[1] = "0xFF" /\ b < len
    BY <1>6, <1>7, <1>8, <1>12
  <2> QED BY <1>4, <1>12, <2>1 DEF MalformedAt, b, x
<1>13. CASE x = "bom"
  <2>1. s(b) # "0xFF"
    BY <1>6, <1>9, <1>13
  <2> QED BY <1>4, <1>13, <2>1 DEF MalformedAt, b, x
<1>14. CASE x = "cut"
  <2>1. ~ b < len
    BY <1>1, <1>10, <1>14
  <2> QED BY <1>4, <1>14, <2>1 DEF b, x
<1> QED BY <1>5, <1>11, <1>12, <1>13, <1>14

LEMMA FirstFaultIs ==
  ASSUME ScanTyped, Unread(read), Plainly(read)
  PROVE  /\ FirstFault(read) \in 1 .. Count(read)
         /\ KindOf(read, FirstFault(read)) \in {"foreign", "broken", "cut", "bom", "badtext"}
<1> DEFINE T == PlacesOf(read, RefusedBy(read))
           f == FirstFault(read)
<1>1. Count(read) \in Nat
  BY LexemesAre DEF ScanTyped
<1>2. T \in SUBSET Nat /\ T \subseteq 1 .. Count(read)
  BY <1>1 DEF PlacesOf
<1>3. T # {}
  BY Zenon DEF Unread, Plainly, PlacesOf
<1>4. f \in T
  <2> HIDE DEF T
  <2>1. Min(T) \in T
    BY <1>2, <1>3, LeastOf
  <2> QED BY <2>1 DEF FirstFault, T
<1>5. f \in 1 .. Count(read) /\ KindOf(read, f) \in RefusedBy(read)
  BY <1>4 DEF PlacesOf
<1> HIDE DEF f
<1>6. KindOf(read, f) # "comment"
  BY <1>5 DEF Plainly, PlacesOf
<1>7. KindOf(read, f) \in {"foreign", "broken", "cut", "bom", "badtext"}
  BY <1>5, <1>6 DEF RefusedBy
<1> QED BY <1>5, <1>7 DEF f

LEMMA ClassifyStep ==
  ASSUME ReadInv, Classify
  PROVE  ReadInv'
<1>1. /\ pc = "classify" /\ pc' = "done" /\ read' = read /\ i' = i
      /\ in_str' = in_str /\ escape' = escape /\ accepted' = accepted
  BY DEF Classify
<1>2. read_err' = IF Reclassifies THEN [read_err EXCEPT !.code = "INVALID_STRING"] ELSE read_err
  BY DEF Classify
<1>3. /\ ScanTyped /\ ErrPlaced(read, read_err) /\ Unread(read) /\ ErrFaulted(read, read_err)
      /\ ~ accepted /\ accepted \in BOOLEAN
  <2>1. pc # "done"
    BY <1>1
  <2> QED BY <1>1, <2>1, Zenon DEF ReadInv
<1>4. /\ read_err'.pos = read_err.pos /\ ErrPlaced(read, read_err')
      /\ Reclassifies => read_err'.code = "INVALID_STRING"
      /\ ~ Reclassifies => read_err'.code = read_err.code
  <2>1. read_err = [code |-> read_err.code, pos |-> read_err.pos]
    BY <1>3 DEF ErrPlaced
  <2>2. CASE Reclassifies
    <3>1. read_err' = [code |-> "INVALID_STRING", pos |-> read_err.pos]
      BY <1>2, <2>1, <2>2
    <3> QED BY <1>3, <2>2, <3>1 DEF ErrPlaced
  <2>3. CASE ~ Reclassifies
    BY <1>2, <1>3, <2>3
  <2> QED BY <2>2, <2>3
<1>5. ErrReported(read, read_err')
  <2>1. SUFFICES ASSUME Plainly(read)
                 PROVE  /\ read_err'.pos = FaultPos(read, FirstFault(read))
                        /\ read_err'.code = "INVALID_STRING"
                             <=> KindOf(read, FirstFault(read)) \in {"badtext", "broken"}
    BY Zenon DEF ErrReported
  <2> DEFINE f == FirstFault(read)
             x == KindOf(read, f)
  <2>2. f \in 1 .. Count(read) /\ x \in {"foreign", "broken", "cut", "bom", "badtext"}
    BY <1>3, <2>1, FirstFaultIs
  <2>3. read_err.pos = FaultPos(read, f) /\ read_err.code = StopCode(x)
    BY <1>3, <2>1, Zenon DEF ErrFaulted
  <2>4. StopCode(x) = "INVALID_STRING" <=> x = "badtext"
    BY CodesAre
  <2>5. x # "badtext" => (Reclassifies <=> x = "broken")
    <3>1. SUFFICES ASSUME x # "badtext" PROVE Reclassifies <=> x = "broken"
      OBVIOUS
    <3>2. x \in {"foreign", "broken", "cut", "bom"}
      BY <2>2, <3>1
    <3>3. /\ FaultPos(read, f) = From(read, f)
          /\ (From(read, f) < len /\ MalformedAt(From(read, f))) <=> x = "broken"
      BY <1>3, <2>2, <3>2, FaultByte
    <3>4. read_err.pos = From(read, f)
      BY <2>3, <3>3
    <3> QED BY <3>3, <3>4, Zenon DEF Reclassifies
  <2> HIDE DEF f, x
  <2>6. read_err'.pos = FaultPos(read, f)
    BY <1>4, <2>3, Zenon
  <2>7. CASE x = "badtext"
    <3>1. read_err'.code = "INVALID_STRING"
      BY <1>4, <2>3, <2>4, <2>7, Zenon
    <3> QED BY <2>6, <2>7, <3>1 DEF f, x
  <2>8. CASE x = "broken"
    <3>1. read_err'.code = "INVALID_STRING"
      <4>1. x # "badtext"
        BY <2>8
      <4> QED BY <1>4, <2>5, <2>8, <4>1, Zenon
    <3> QED BY <2>6, <2>8, <3>1 DEF f, x
  <2>9. CASE x \notin {"badtext", "broken"}
    <3>1. ~ Reclassifies
      BY <2>5, <2>9
    <3>2. read_err'.code # "INVALID_STRING"
      <4>1. x # "badtext"
        BY <2>9
      <4> QED BY <1>4, <2>3, <2>4, <3>1, <4>1, Zenon
    <3> QED BY <2>6, <2>9, <3>2 DEF f, x
  <2> QED BY <2>7, <2>8, <2>9
<1>6. ScanTyped'
  BY <1>1, <1>3 DEF ScanTyped
<1>7. ErrReported(read', read_err') /\ Unread(read') /\ ErrPlaced(read', read_err')
      /\ ~ accepted' /\ accepted' \in BOOLEAN
  BY <1>1, <1>3, <1>4, <1>5, Zenon
<1>8. pc' \in {"first", "scan", "classify", "done"} /\ pc' \notin {"first", "scan", "classify"}
  BY <1>1
<1> QED BY <1>6, <1>7, <1>8, Zenon DEF ReadInv

LEMMA ReaderKeepsInv ==
  ASSUME ReadInv, [ReadNext]_readvars
  PROVE  ReadInv'
<1>1. CASE FirstRead
  BY <1>1, FirstReadStep
<1>2. CASE InString \/ SkipLineComment \/ SkipBlockComment \/ OpenString \/ PassCharacter
  BY <1>2, ScanStep
<1>3. CASE FindLiteral
  BY <1>3, FindLiteralStep
<1>4. CASE SecondRead
  BY <1>4, SecondReadStep
<1>5. CASE Classify
  BY <1>5, ClassifyStep
<1>6. CASE UNCHANGED readvars
  <2>1. /\ read' = read /\ pc' = pc /\ i' = i /\ in_str' = in_str /\ escape' = escape
        /\ accepted' = accepted /\ read_err' = read_err
    BY <1>6 DEF readvars
  <2>2. ScanTyped' = ScanTyped
    BY <2>1, Zenon DEF ScanTyped
  <2>3. Placed' = Placed
    BY <2>1, Zenon DEF Placed
  <2> QED BY <2>1, <2>2, <2>3, Zenon DEF ReadInv
<1> QED BY <1>1, <1>2, <1>3, <1>4, <1>5, <1>6, Zenon DEF ReadNext

LEMMA ReaderIsRight ==
  ASSUME ReadInv
  PROVE  AcceptsExactly /\ ErrorIsTheFirstFault
<1>1. /\ Refused = RefusedBy(read)
      /\ \A K : Has(K) <=> PlacesOf(read, K) # {}
      /\ \A K : {n \in DOMAIN read.lexemes : read.lexemes[n].kind \in K} = PlacesOf(read, K)
      /\ \A n : StopAt(n) = FaultPos(read, n)
  BY ReadNames, Zenon DEF ReadInv, ScanTyped
<1>2. AcceptsExactly
  <2>1. Has({"literal", "signed"} \cup Refused) <=> Unread(read)
    BY <1>1, Zenon DEF Unread, Literals
  <2> QED BY <2>1, Zenon DEF AcceptsExactly, ReadInv
<1>3. ErrorIsTheFirstFault
  <2>1. Has({"literal", "signed"} \cup (Refused \cap {"comment"})) <=> ~ Plainly(read)
    BY <1>1, Zenon DEF Plainly, Literals
  <2>2. Min({n \in DOMAIN read.lexemes : read.lexemes[n].kind \in Refused}) = FirstFault(read)
    BY <1>1, Zenon DEF FirstFault
  <2>3. \A n : read.lexemes[n].kind = KindOf(read, n)
    BY DEF KindOf
  <2> QED BY <1>1, <2>1, <2>2, <2>3, Zenon DEF ErrorIsTheFirstFault, ReadInv, ErrReported
<1> QED BY <1>2, <1>3

-----------------------------------------------------------------------------
(* The characters and the line breaks of a text.                           *)

LEMMA FollowsInText ==
  ASSUME NEW r \in Reads, NEW x, NEW y,
         \A n \in 1 .. Count(r) : Follows(Pieces(r)[n], x, y)
  PROVE  Follows(Spelled(r), x, y)
<1> DEFINE t == Spelled(r)
           L == Extent(r)
<1>1. SUFFICES ASSUME NEW k \in 1 .. L
               PROVE  /\ t[k] = x => k < L /\ t[k + 1] = y
                      /\ t[k] = y => k > 1 /\ t[k - 1] = x
  <2>1. Len(t) = L
    BY DEF Extent
  <2> HIDE DEF t, L
  <2> QED BY <1>1, <2>1 DEF Follows, t
<1>2. L \in Nat
  BY ExtentNat
<1> HIDE DEF t, L
<1>3. k - 1 \in Nat /\ k - 1 < L
  BY <1>2
<1>4. PICK n \in 1 .. Count(r) : \E d \in 0 .. Size(r, n) - 1 : k - 1 = From(r, n) + d
  BY <1>3, LexemeFound DEF L
<1>5. PICK d \in 0 .. Size(r, n) - 1 : k - 1 = From(r, n) + d
  BY <1>4
<1> DEFINE b == From(r, n)
           z == Size(r, n)
           c == Pieces(r)[n]
<1>6. /\ b \in Nat /\ z \in Nat /\ b + z <= L /\ Len(c) = z
      /\ \A e \in 0 .. z - 1 : b + e < L /\ CharAt(r, b + e) = c[e + 1]
  BY LexemePlaced, LiteralSize DEF L
<1>7. \A e \in Nat : e < L => CharAt(r, e) = t[e + 1]
  BY DEF CharAt, L, t
<1>8. d \in 0 .. z - 1 /\ k - 1 = b + d
  BY <1>5
<1>9. Follows(c, x, y)
  OBVIOUS
<1> HIDE DEF b, z, c
<1>10. \A e \in 0 .. z - 1 : b + e + 1 <= L /\ t[b + e + 1] = c[e + 1]
  <2>1. SUFFICES ASSUME NEW e \in 0 .. z - 1
                 PROVE  b + e + 1 <= L /\ t[b + e + 1] = c[e + 1]
    OBVIOUS
  <2>2. b + e < L /\ CharAt(r, b + e) = c[e + 1] /\ b + e \in Nat
    BY <1>6
  <2>3. CharAt(r, b + e) = t[(b + e) + 1]
    BY <1>7, <2>2
  <2> QED BY <1>2, <2>2, <2>3
<1>11. t[k] = c[d + 1] /\ d + 1 \in 1 .. Len(c)
  <2>1. b + d + 1 = k
    BY <1>6, <1>8
  <2> QED BY <1>6, <1>8, <1>10, <2>1
<1>12. ASSUME t[k] = x PROVE k < L /\ t[k + 1] = y
  <2>1. d + 1 < z /\ c[(d + 1) + 1] = y
    BY <1>6, <1>9, <1>11, <1>12 DEF Follows
  <2>2. d + 1 \in 0 .. z - 1 /\ b + (d + 1) + 1 = k + 1
    BY <1>6, <1>8, <2>1
  <2>3. k + 1 <= L /\ t[k + 1] = c[(d + 1) + 1]
    BY <1>10, <2>2
  <2> QED BY <1>2, <2>1, <2>3
<1>13. ASSUME t[k] = y PROVE k > 1 /\ t[k - 1] = x
  <2>1. d + 1 > 1 /\ c[(d + 1) - 1] = x
    BY <1>6, <1>9, <1>11, <1>13 DEF Follows
  <2>2. d - 1 \in 0 .. z - 1 /\ b + (d - 1) + 1 = k - 1 /\ (d - 1) + 1 = (d + 1) - 1 /\ k > 1
    BY <1>6, <1>8, <2>1
  <2>3. t[k - 1] = c[(d - 1) + 1]
    BY <1>10, <2>2
  <2> QED BY <2>1, <2>2, <2>3
<1> QED BY <1>12, <1>13

LEMMA TextWhole ==
  ASSUME NEW r \in Reads
  PROVE  WholeCharacters(Spelled(r))
<1>1. \A n \in 1 .. Count(r) : WholeCharacters(Pieces(r)[n])
  <2>1. SUFFICES ASSUME NEW n \in 1 .. Count(r) PROVE WholeCharacters(Pieces(r)[n])
    OBVIOUS
  <2>2. IsLexeme(r.lexemes[n], n = Count(r)) /\ Pieces(r)[n] = r.lexemes[n].chars
    BY LexemesAre
  <2> QED BY <2>2 DEF IsLexeme
<1> QED BY <1>1, FollowsInText DEF WholeCharacters

Greatest(S) == CHOOSE j \in S : \A k \in S : k <= j

LEMMA GreatestIs ==
  ASSUME NEW S \in SUBSET Int, NEW x \in S, \A y \in S : y <= x
  PROVE  Greatest(S) = x
<1>1. ASSUME NEW m \in S, \A y \in S : y <= m PROVE m = x
  <2>1. m <= x /\ x <= m /\ m \in Int /\ x \in Int
    BY <1>1
  <2> QED BY <2>1
<1>2. Greatest(S) \in S /\ \A y \in S : y <= Greatest(S)
  <2>1. \E m \in S : \A y \in S : y <= m
    BY Zenon
  <2> QED BY <2>1, Zenon DEF Greatest
<1> QED BY <1>1, <1>2, Zenon

LEMMA GreatestOf ==
  ASSUME NEW b \in Nat, NEW S \in SUBSET (0 .. b), S # {}
  PROVE  Greatest(S) \in S /\ \A y \in S : y <= Greatest(S)
<1> DEFINE T == {b - y : y \in S}
<1>1. T \in SUBSET Nat /\ T # {}
  <2>1. \A y \in S : b - y \in Nat
    OBVIOUS
  <2>2. T \subseteq Nat
    BY <2>1, Zenon
  <2>3. PICK y \in S : TRUE
    OBVIOUS
  <2>4. b - y \in T
    BY Zenon
  <2> QED BY <2>2, <2>4, Zenon
<1>2. PICK m \in T : \A y \in T : m <= y
  <2> HIDE DEF T
  <2> QED BY <1>1, LeastElement
<1>3. PICK x \in S : m = b - x
  BY <1>2
<1>4. ASSUME NEW y \in S PROVE y <= x
  <2>1. b - x <= b - y
    BY <1>2, <1>3
  <2> QED BY <2>1
<1>5. Greatest(S) = x
  BY <1>4, GreatestIs
<1> QED BY <1>4, <1>5

Breaks(t, a, b) == {j \in a .. b - 1 : t[j + 1] = "LF"}
LineFrom(t, a, b) == IF Breaks(t, a, b) = {} THEN a ELSE Greatest(Breaks(t, a, b)) + 1

LEMMA LineBegins ==
  ASSUME NEW t, NEW a \in Nat, NEW b \in Nat, a <= b
  PROVE  /\ LineFrom(t, a, b) \in Nat /\ a <= LineFrom(t, a, b) /\ LineFrom(t, a, b) <= b
         /\ IsFiniteSet(Breaks(t, a, b)) /\ Cardinality(Breaks(t, a, b)) \in Nat
<1> DEFINE S == Breaks(t, a, b)
<1>1. S \in SUBSET (0 .. b) /\ \A y \in S : a <= y /\ y < b
  BY DEF Breaks
<1>2. IsFiniteSet(S) /\ Cardinality(S) \in Nat
  <2>1. IsFiniteSet(0 .. b)
    BY FS_Interval
  <2> HIDE DEF S
  <2>2. IsFiniteSet(S)
    BY <1>1, <2>1, FS_Subset
  <2> QED BY <2>2, FS_CardinalityType
<1> HIDE DEF S
<1>3. CASE S = {}
  BY <1>2, <1>3 DEF LineFrom, S
<1>4. CASE S # {}
  <2>1. Greatest(S) \in S
    BY <1>1, <1>4, GreatestOf
  <2>2. LineFrom(t, a, b) = Greatest(S) + 1
    BY <1>4 DEF LineFrom, S
  <2>3. Greatest(S) \in 0 .. b /\ a <= Greatest(S) /\ Greatest(S) < b
    BY <1>1, <2>1
  <2> QED BY <1>2, <2>2, <2>3 DEF S
<1> QED BY <1>3, <1>4

\* Counting goes on where it stopped.
LEMMA BreaksGoOn ==
  ASSUME NEW t, NEW a \in Nat, NEW m \in Nat, NEW b \in Nat, a <= m, m <= b
  PROVE  LET found == Breaks(t, m, b)
         IN  /\ Cardinality(Breaks(t, a, b)) = Cardinality(Breaks(t, a, m)) + Cardinality(found)
             /\ LineFrom(t, a, b) = IF found = {} THEN LineFrom(t, a, m) ELSE Greatest(found) + 1
<1> DEFINE F == Breaks(t, m, b)
           E == Breaks(t, a, m)
           S == Breaks(t, a, b)
<1>1. /\ S = E \cup F /\ E \cap F = {}
      /\ F \in SUBSET (0 .. b) /\ S \in SUBSET Int
      /\ \A y \in E : \A x \in F : y <= x
  BY DEF Breaks
<1>2. IsFiniteSet(E) /\ IsFiniteSet(F) /\ Cardinality(E) \in Nat /\ Cardinality(F) \in Nat
  BY LineBegins
<1> HIDE DEF E, F, S
<1>3. Cardinality(S) = Cardinality(E) + Cardinality(F)
  <2>1. Cardinality(E \cup F) = Cardinality(E) + Cardinality(F) - Cardinality(E \cap F)
    BY <1>2, FS_Union
  <2>2. Cardinality(E \cap F) = 0
    BY <1>1, FS_EmptySet
  <2> QED BY <1>1, <1>2, <2>1, <2>2
<1>4. CASE F = {}
  <2>1. S = E
    BY <1>1, <1>4
  <2>2. LineFrom(t, a, b) = LineFrom(t, a, m)
    BY <2>1 DEF LineFrom, S, E
  <2> QED BY <1>3, <1>4, <2>2 DEF E, F, S
<1>5. CASE F # {}
  <2>1. Greatest(F) \in F /\ \A y \in F : y <= Greatest(F)
    BY <1>1, <1>5, GreatestOf
  <2>2. Greatest(S) = Greatest(F)
    <3>1. Greatest(F) \in S /\ \A y \in S : y <= Greatest(F)
      BY <1>1, <2>1
    <3> QED BY <1>1, <3>1, GreatestIs
  <2>3. LineFrom(t, a, b) = Greatest(F) + 1
    <3>1. S # {}
      BY <1>1, <1>5
    <3> QED BY <2>2, <3>1 DEF LineFrom, S
  <2> QED BY <1>3, <1>5, <2>3 DEF E, F, S
<1> QED BY <1>4, <1>5

-----------------------------------------------------------------------------
(* The line and column of the error.                                       *)

ErrPos == read_err.pos
Base == Location!Start

\* Up to the offset reached, the lines are counted and no byte is high.
LocInv ==
  /\ locate_pc \in {"start", "words", "bytes", "chars", "done"}
  /\ locate_pc # "start" => pc = "done" /\ ~ accepted
  /\ locate_pc = "start" => line_count = 0
  /\ locate_pc \in {"words", "bytes"} =>
       /\ at \in Nat /\ Base <= at /\ at <= ErrPos
       /\ \A j \in Base .. at - 1 : text[j + 1] \notin Location!High
       /\ line_count = Cardinality(Breaks(text, Base, at))
       /\ line_start = LineFrom(text, Base, at)
  /\ locate_pc = "done" => Location!LocatesTheError

LEMMA TextKnown ==
  ASSUME ReadInv
  PROVE  /\ ErrPos \in Nat /\ ErrPos <= Len(text) /\ Len(text) \in Nat
         /\ Base \in {0, 3} /\ Base <= ErrPos /\ WholeCharacters(text)
         /\ Base = 3 => text[3] = "0xBF"
<1>1. read \in Reads /\ ErrPlaced(read, read_err)
  BY Zenon DEF ReadInv, ScanTyped
<1>2. text = Spelled(read) /\ Extent(read) \in Nat /\ Extent(read) = Len(text)
  BY <1>1, TextNames, ExtentNat DEF Extent
<1>3. ErrPos \in Nat /\ ErrPos <= Len(text)
  BY <1>1, <1>2 DEF ErrPlaced, ErrPos
<1>4. WholeCharacters(text)
  BY <1>1, <1>2, TextWhole
<1>5. CASE Location!HasBOM
  <2>1. Base = 3 /\ ErrPos >= 3 /\ SubSeq(text, 1, 3) = <<"0xEF", "0xBB", "0xBF">>
    BY <1>5 DEF Location!HasBOM, Location!BOM, Location!Start, Base, ErrPos
  <2>2. SubSeq(text, 1, 3)[3] = text[3]
    <3>1. SubSeq(text, 1, 3) = [k \in 1 .. 3 - 1 + 1 |-> text[k + 1 - 1]]
      OBVIOUS
    <3>2. 3 \in 1 .. 3 - 1 + 1 /\ 3 + 1 - 1 = 3
      OBVIOUS
    <3> QED BY <3>1, <3>2
  <2>3. text[3] = "0xBF"
    <3> DEFINE q == SubSeq(text, 1, 3)
    <3>1. q = <<"0xEF", "0xBB", "0xBF">> /\ q[3] = text[3]
      BY <2>1, <2>2
    <3> HIDE DEF q
    <3> QED BY <3>1
  <2>4. Base \in {0, 3} /\ Base <= ErrPos
    BY <1>3, <2>1
  <2> QED BY <1>2, <1>3, <1>4, <2>3, <2>4
<1>6. CASE ~ Location!HasBOM
  <2>1. Base = 0
    BY <1>6 DEF Location!Start, Base
  <2> QED BY <1>2, <1>3, <1>4, <2>1
<1> QED BY <1>5, <1>6

LEMMA BreaksNamed ==
  /\ \A S : Location!LastOf(S) = Greatest(S)
  /\ \A S : Location!Cardinality(S) = Cardinality(S)
  /\ \A o : Location!At(o) = text[o + 1]
  /\ \A a, b : Location!Newlines(a .. b - 1) = Breaks(text, a, b)
<1>1. \A S : Location!LastOf(S) = Greatest(S)
  BY Zenon DEF Location!LastOf, Greatest
<1>2. \A o : Location!At(o) = text[o + 1]
  BY Zenon DEF Location!At
<1>3. \A a, b : Location!Newlines(a .. b - 1) = Breaks(text, a, b)
  BY <1>2, Zenon DEF Location!Newlines, Breaks
<1>4. \A S : Location!Cardinality(S) = Cardinality(S)
  BY Zenon DEF Location!Cardinality, Cardinality
<1> QED BY <1>1, <1>2, <1>3, <1>4

\* The bytes that begin a character.
Leads(a, b) == {j \in a .. b - 1 : text[j + 1] \notin {"0xA9", "0xBB", "0xBF"}}

LEMMA ErrorNamed ==
  Location!LocatesTheError <=>
    (locate_pc = "done" =>
        /\ line = Cardinality(Breaks(text, Base, ErrPos)) + 1
        /\ col = Cardinality(Leads(LineFrom(text, Base, ErrPos), ErrPos)) + 1)
<1>1. {j \in Base .. ErrPos - 1 : Location!At(j) = "LF"} = Breaks(text, Base, ErrPos)
  BY BreaksNamed, Zenon DEF Breaks
<1>2. \A a : {j \in a .. ErrPos - 1 : Location!At(j) \notin {"0xA9", "0xBB", "0xBF"}} = Leads(a, ErrPos)
  BY BreaksNamed, Zenon DEF Leads
<1>3. Location!LastOf(Breaks(text, Base, ErrPos)) = Greatest(Breaks(text, Base, ErrPos))
  BY BreaksNamed
<1>4. \A S : Location!Cardinality(S) = Cardinality(S)
  BY BreaksNamed
<1> QED BY <1>1, <1>2, <1>3, <1>4, Zenon DEF Location!LocatesTheError, LineFrom, Base, ErrPos

\* Characters begin at the bytes that continue none.
LEMMA CharactersBegin ==
  ASSUME ReadInv, NEW j \in Base .. ErrPos - 1
  PROVE  j \in Location!CharStarts(Base, ErrPos)
            <=> text[j + 1] \notin {"0xA9", "0xBB", "0xBF"}
<1> DEFINE t == text
           L == Len(text)
           p == ErrPos
           b == Base
<1>1. /\ p \in Nat /\ p <= L /\ L \in Nat /\ b \in {0, 3} /\ b <= p
      /\ WholeCharacters(t) /\ (b = 3 => t[3] = "0xBF")
  BY TextKnown
<1>2. /\ \A k \in 1 .. L : t[k] = "0xC3" => k < L /\ t[k + 1] = "0xA9"
      /\ \A k \in 1 .. L : t[k] = "0xEF" => k < L /\ t[k + 1] = "0xBB"
      /\ \A k \in 1 .. L : t[k] = "0xBB" => k < L /\ t[k + 1] = "0xBF"
      /\ \A k \in 1 .. L : t[k] = "0xA9" => k > 1 /\ t[k - 1] = "0xC3"
      /\ \A k \in 1 .. L : t[k] = "0xBB" => k > 1 /\ t[k - 1] = "0xEF"
      /\ \A k \in 1 .. L : t[k] = "0xBF" => k > 1 /\ t[k - 1] = "0xBB"
  <2>1. Follows(t, "0xC3", "0xA9") /\ Follows(t, "0xEF", "0xBB") /\ Follows(t, "0xBB", "0xBF")
    BY <1>1 DEF WholeCharacters
  <2> QED BY <2>1 DEF Follows
<1>3. j \in Location!CharStarts(Base, ErrPos) <=>
         /\ ~ (j > b /\ Location!At(j - 1) = "0xC3")
         /\ ~ (j > b /\ Location!At(j - 1) = "0xEF")
         /\ ~ (j > b + 1 /\ Location!At(j - 2) = "0xEF")
  BY Zenon DEF Location!CharStarts
<1>4. j \in b .. p - 1
  OBVIOUS
<1> HIDE DEF t, L, p, b
<1>5. Location!At(j - 1) = t[j] /\ Location!At(j - 2) = t[j - 1]
  <2>1. (j - 1) + 1 = j /\ (j - 2) + 1 = j - 1
    BY <1>1, <1>4
  <2> QED BY <2>1, BreaksNamed DEF t
<1>6. j \in Nat /\ j + 1 \in 1 .. L /\ b <= j /\ b \in Nat
  BY <1>1, <1>4
<1>7. ASSUME t[j + 1] \notin {"0xA9", "0xBB", "0xBF"}
      PROVE  /\ ~ (j > b /\ t[j] = "0xC3") /\ ~ (j > b /\ t[j] = "0xEF")
             /\ ~ (j > b + 1 /\ t[j - 1] = "0xEF")
  <2>1. j > b => j \in 1 .. L
    BY <1>1, <1>6
  <2>2. j > b + 1 => j - 1 \in 1 .. L /\ (j - 1) + 1 = j /\ j \in 1 .. L
    BY <1>1, <1>6
  <2>3. ~ (j > b /\ t[j] = "0xC3") /\ ~ (j > b /\ t[j] = "0xEF")
    BY <1>2, <1>7, <2>1
  <2>4. ~ (j > b + 1 /\ t[j - 1] = "0xEF")
    <3>1. SUFFICES ASSUME j > b + 1, t[j - 1] = "0xEF" PROVE FALSE
      OBVIOUS
    <3>2. t[j] = "0xBB"
      BY <1>2, <2>2, <3>1
    <3>3. t[j + 1] = "0xBF"
      BY <1>2, <2>2, <3>1, <3>2
    <3> QED BY <1>7, <3>3
  <2> QED BY <2>3, <2>4
<1>8. ASSUME t[j + 1] = "0xA9" PROVE j > b /\ t[j] = "0xC3"
  <2>1. j + 1 > 1 /\ t[(j + 1) - 1] = "0xC3"
    BY <1>2, <1>6, <1>8
  <2>2. t[j] = "0xC3" /\ j > 0
    BY <1>6, <2>1
  <2>3. b = 3 => j # 3
    BY <1>1, <2>2
  <2> QED BY <1>1, <1>6, <2>2, <2>3
<1>9. ASSUME t[j + 1] = "0xBB" PROVE j > b /\ t[j] = "0xEF"
  <2>1. j + 1 > 1 /\ t[(j + 1) - 1] = "0xEF"
    BY <1>2, <1>6, <1>9
  <2>2. t[j] = "0xEF" /\ j > 0
    BY <1>6, <2>1
  <2>3. b = 3 => j # 3
    BY <1>1, <2>2
  <2> QED BY <1>1, <1>6, <2>2, <2>3
<1>10. ASSUME t[j + 1] = "0xBF" PROVE j > b + 1 /\ t[j - 1] = "0xEF"
  <2>1. j + 1 > 1 /\ t[(j + 1) - 1] = "0xBB"
    BY <1>2, <1>6, <1>10
  <2>2. t[j] = "0xBB" /\ j > 0 /\ j \in 1 .. L
    BY <1>1, <1>6, <2>1
  <2>3. j > 1 /\ t[j - 1] = "0xEF"
    BY <1>2, <2>2
  <2>4. b = 3 => j # 3
    BY <1>1, <2>2
  <2>5. b = 3 => j # 4
    <3>1. SUFFICES ASSUME b = 3, j = 4 PROVE FALSE
      OBVIOUS
    <3>2. j - 1 = 3
      BY <3>1
    <3> QED BY <1>1, <2>3, <3>1, <3>2
  <2> QED BY <1>1, <1>6, <2>3, <2>4, <2>5
<1> QED BY <1>3, <1>5, <1>7, <1>8, <1>9, <1>10 DEF t, b

LEMMA TextStays ==
  ASSUME UNCHANGED readvars
  PROVE  /\ text' = text /\ ErrPos' = ErrPos /\ Base' = Base /\ read' = read
         /\ pc' = pc /\ accepted' = accepted
<1>1. read' = read /\ read_err' = read_err /\ pc' = pc /\ accepted' = accepted
  BY DEF readvars
<1>2. Chars' = Chars
  BY <1>1 DEF Chars
<1>3. text' = text
  BY <1>2 DEF text
<1>4. ErrPos' = ErrPos
  BY <1>1 DEF ErrPos
<1>5. Base' = Base
  BY <1>1, <1>3, Zenon DEF Base, Location!Start, Location!HasBOM, Location!BOM
<1> QED BY <1>1, <1>3, <1>4, <1>5

Counting(a) ==
  /\ a \in Nat /\ Base <= a /\ a <= ErrPos
  /\ \A j \in Base .. a - 1 : text[j + 1] \notin Location!High

\* What is counted up to a is right.
LEMMA CountGoesOn ==
  ASSUME ReadInv, LocInv, locate_pc \in {"words", "bytes"}, UNCHANGED readvars,
         NEW b \in Nat, at <= b, b <= ErrPos,
         \A j \in at .. b - 1 : text[j + 1] \notin Location!High,
         Location!Counted(Location!Newlines(at .. b - 1), b)
  PROVE  LocInv'
<1> DEFINE F == Breaks(text, at, b)
<1>1. /\ at \in Nat /\ Base <= at /\ at <= ErrPos
      /\ \A j \in Base .. at - 1 : text[j + 1] \notin Location!High
      /\ line_count = Cardinality(Breaks(text, Base, at))
      /\ line_start = LineFrom(text, Base, at)
  BY DEF LocInv
<1>2. pc = "done" /\ ~ accepted /\ locate_pc # "start" /\ locate_pc # "done"
  <2>1. locate_pc # "start" /\ locate_pc # "done"
    OBVIOUS
  <2> QED BY <2>1, Zenon DEF LocInv
<1>3. /\ text' = text /\ ErrPos' = ErrPos /\ Base' = Base /\ pc' = pc /\ accepted' = accepted
  BY TextStays
<1>4. /\ at' = b /\ line_count' = line_count + Cardinality(F)
      /\ line_start' = (IF F = {} THEN line_start ELSE Greatest(F) + 1)
      /\ locate_pc' = locate_pc
  <2>1. Location!Newlines(at .. b - 1) = F
    BY BreaksNamed
  <2>2. Location!LastOf(F) = Greatest(F) /\ Location!Cardinality(F) = Cardinality(F)
    BY BreaksNamed
  <2> HIDE DEF F
  <2>3. Location!Counted(F, b)
    BY <2>1
  <2> QED BY <2>2, <2>3 DEF Location!Counted
<1>5. Base \in Nat
  BY TextKnown
<1>6. /\ Cardinality(Breaks(text, Base, b)) = Cardinality(Breaks(text, Base, at)) + Cardinality(F)
      /\ LineFrom(text, Base, b) = IF F = {} THEN LineFrom(text, Base, at) ELSE Greatest(F) + 1
  BY <1>1, <1>5, BreaksGoOn
<1>7. \A j \in Base .. b - 1 : text[j + 1] \notin Location!High
  <2>1. SUFFICES ASSUME NEW j \in Base .. b - 1 PROVE text[j + 1] \notin Location!High
    OBVIOUS
  <2>2. j \in Base .. at - 1 \/ j \in at .. b - 1
    BY <1>1, <1>5
  <2> QED BY <1>1, <2>2
<1> HIDE DEF F
<1>8. /\ at' \in Nat /\ Base' <= at' /\ at' <= ErrPos'
      /\ \A j \in Base' .. at' - 1 : text'[j + 1] \notin Location!High
      /\ line_count' = Cardinality(Breaks(text', Base', at'))
      /\ line_start' = LineFrom(text', Base', at')
  <2>1. Base <= b
    BY <1>1, <1>5
  <2>2. line_count' = Cardinality(Breaks(text, Base, b))
    BY <1>1, <1>4, <1>6
  <2>3. line_start' = LineFrom(text, Base, b)
    BY <1>1, <1>4, <1>6
  <2> QED BY <1>3, <1>4, <1>7, <2>1, <2>2, <2>3
<1>9. locate_pc' \in {"words", "bytes"} /\ locate_pc' # "start" /\ locate_pc' # "done"
      /\ locate_pc' \in {"start", "words", "bytes", "chars", "done"}
  BY <1>2, <1>4
<1>10. Location!High' = Location!High
  BY DEF Location!High
<1> QED BY <1>2, <1>3, <1>8, <1>9, <1>10, Zenon DEF LocInv

LEMMA BeginStep ==
  ASSUME ReadInv, LocInv, pc = "done", ~ accepted, UNCHANGED readvars, Location!Begin
  PROVE  LocInv'
<1>1. /\ locate_pc = "start" /\ at' = Base /\ line_start' = Base /\ locate_pc' = "words"
      /\ line_count' = line_count
  BY DEF Location!Begin, Base
<1>2. line_count = 0
  BY <1>1, Zenon DEF LocInv
<1>3. /\ text' = text /\ ErrPos' = ErrPos /\ Base' = Base /\ pc' = pc /\ accepted' = accepted
  BY TextStays
<1>4. Base \in Nat /\ Base <= ErrPos /\ ErrPos \in Nat
  BY TextKnown
<1>5. Breaks(text, Base, Base) = {}
  BY <1>4 DEF Breaks
<1>6. Cardinality(Breaks(text, Base, Base)) = 0 /\ LineFrom(text, Base, Base) = Base
  BY <1>5, FS_EmptySet DEF LineFrom
<1>7. /\ at' \in Nat /\ Base' <= at' /\ at' <= ErrPos'
      /\ \A j \in Base' .. at' - 1 : text'[j + 1] \notin Location!High
      /\ line_count' = Cardinality(Breaks(text', Base', at'))
      /\ line_start' = LineFrom(text', Base', at')
  BY <1>1, <1>2, <1>3, <1>4, <1>6
<1>8. locate_pc' # "start" /\ locate_pc' # "done"
      /\ locate_pc' \in {"start", "words", "bytes", "chars", "done"}
  BY <1>1
<1>9. Location!High' = Location!High
  BY DEF Location!High
<1> QED BY <1>3, <1>7, <1>8, <1>9, Zenon DEF LocInv

\* At the first high byte the count is given up.
LEMMA GiveUpStep ==
  ASSUME LocInv, locate_pc \in {"words", "bytes"}, UNCHANGED readvars, Location!GiveUp
  PROVE  LocInv'
<1>1. locate_pc' = "chars"
  BY DEF Location!GiveUp
<1>2. /\ locate_pc' \notin {"start", "words", "bytes", "done"}
      /\ locate_pc' \in {"start", "words", "bytes", "chars", "done"}
  BY <1>1
<1>3. pc = "done" /\ ~ accepted
  <2>1. locate_pc # "start"
    OBVIOUS
  <2> QED BY <2>1, Zenon DEF LocInv
<1>4. pc' = pc /\ accepted' = accepted
  BY TextStays
<1>5. locate_pc' # "start" /\ locate_pc' # "done" /\ locate_pc' \notin {"words", "bytes"}
  BY <1>1
<1> QED BY <1>2, <1>3, <1>4, <1>5, Zenon DEF LocInv

LEMMA WordStepStep ==
  ASSUME ReadInv, LocInv, UNCHANGED readvars, Location!WordStep
  PROVE  LocInv'
<1> DEFINE b == at + WordSize
<1>1. locate_pc = "words" /\ b <= ErrPos
  BY DEF Location!WordStep, ErrPos
<1>2. at \in Nat /\ WordSize \in Nat
  <2>1. locate_pc \in {"words", "bytes"}
    BY <1>1
  <2> QED BY <2>1, WordAssumption DEF LocInv
<1>3. Location!Word = at .. b - 1
  BY <1>2 DEF Location!Word
<1>4. b \in Nat /\ at <= b
  BY <1>2
<1>5. locate_pc \in {"words", "bytes"}
  BY <1>1
<1> HIDE DEF b
<1>6. CASE \E j \in at .. b - 1 : Location!At(j) \in Location!High
  <2>1. Location!GiveUp
    BY <1>3, <1>6, Zenon DEF Location!WordStep
  <2> QED BY <1>5, <2>1, GiveUpStep
<1>7. CASE ~ \E j \in at .. b - 1 : Location!At(j) \in Location!High
  <2>1. Location!Counted(Location!Newlines(at .. b - 1), b)
    BY <1>3, <1>7, Zenon DEF Location!WordStep, b
  <2>2. \A j \in at .. b - 1 : text[j + 1] \notin Location!High
    BY <1>7, BreaksNamed, Zenon
  <2> QED BY <1>1, <1>4, <1>5, <2>1, <2>2, CountGoesOn
<1> QED BY <1>6, <1>7

LEMMA ByteStepStep ==
  ASSUME ReadInv, LocInv, UNCHANGED readvars, Location!ByteStep
  PROVE  LocInv'
<1> DEFINE b == at + 1
<1>1. locate_pc = "bytes" /\ at < ErrPos
  BY DEF Location!ByteStep, ErrPos
<1>2. locate_pc \in {"words", "bytes"}
  BY <1>1
<1>3. at \in Nat /\ ErrPos \in Nat
  BY <1>2, TextKnown DEF LocInv
<1>4. b \in Nat /\ at <= b /\ b <= ErrPos /\ {at} = at .. b - 1
  BY <1>1, <1>3
<1> HIDE DEF b
<1>5. CASE Location!At(at) \in Location!High
  <2>1. Location!GiveUp
    BY <1>5, Zenon DEF Location!ByteStep
  <2> QED BY <1>2, <2>1, GiveUpStep
<1>6. CASE Location!At(at) \notin Location!High
  <2>1. Location!Counted(Location!Newlines({at}), b)
    BY <1>6, Zenon DEF Location!ByteStep, b
  <2>2. Location!Counted(Location!Newlines(at .. b - 1), b)
    BY <1>4, <2>1, Zenon
  <2>3. \A j \in at .. b - 1 : text[j + 1] \notin Location!High
    <3>1. \A j \in {at} : text[j + 1] \notin Location!High
      BY <1>6, BreaksNamed, Zenon
    <3> QED BY <1>4, <3>1, Zenon
  <2> QED BY <1>2, <1>4, <2>2, <2>3, CountGoesOn
<1> QED BY <1>5, <1>6

LEMMA WordsEndStep ==
  ASSUME LocInv, UNCHANGED readvars, Location!WordsEnd
  PROVE  LocInv'
<1>1. /\ locate_pc = "words" /\ locate_pc' = "bytes" /\ at' = at
      /\ line_count' = line_count /\ line_start' = line_start
  BY DEF Location!WordsEnd
<1>2. /\ text' = text /\ ErrPos' = ErrPos /\ Base' = Base /\ pc' = pc /\ accepted' = accepted
  BY TextStays
<1>3. locate_pc \in {"words", "bytes"} /\ locate_pc # "start"
  BY <1>1
<1>4. /\ locate_pc' # "start" /\ locate_pc' # "done"
      /\ locate_pc' \in {"start", "words", "bytes", "chars", "done"}
  BY <1>1
<1>5. Location!High' = Location!High
  BY DEF Location!High
<1> QED BY <1>1, <1>2, <1>3, <1>4, <1>5, Zenon DEF LocInv

LEMMA ErrorNamedNext ==
  Location!LocatesTheError' <=>
    (locate_pc = "done" =>
        /\ line = Cardinality(Breaks(text, Base, ErrPos)) + 1
        /\ col = Cardinality(Leads(LineFrom(text, Base, ErrPos), ErrPos)) + 1)'
BY ErrorNamed, PTL

\* The answer stands once the location is done.
LEMMA Located ==
  ASSUME UNCHANGED readvars, pc = "done", ~ accepted, locate_pc' = "done",
         line' = Cardinality(Breaks(text, Base, ErrPos)) + 1,
         col' = Cardinality(Leads(LineFrom(text, Base, ErrPos), ErrPos)) + 1
  PROVE  LocInv'
<1>1. /\ text' = text /\ ErrPos' = ErrPos /\ Base' = Base /\ pc' = pc /\ accepted' = accepted
  BY TextStays
<1>2. \A a, b : Leads(a, b)' = Leads(a, b)
  BY <1>1, Zenon DEF Leads
<1>3. Location!LocatesTheError'
  <2>1. (locate_pc = "done" =>
           /\ line = Cardinality(Breaks(text, Base, ErrPos)) + 1
           /\ col = Cardinality(Leads(LineFrom(text, Base, ErrPos), ErrPos)) + 1)'
    BY <1>1, Zenon DEF Leads
  <2> QED BY <2>1, ErrorNamedNext, Zenon
<1>4. /\ locate_pc' \notin {"words", "bytes"} /\ locate_pc' # "start"
      /\ locate_pc' \in {"start", "words", "bytes", "chars", "done"}
  OBVIOUS
<1> QED BY <1>1, <1>3, <1>4, Zenon DEF LocInv

LEMMA BytesEndStep ==
  ASSUME ReadInv, LocInv, UNCHANGED readvars, Location!BytesEnd
  PROVE  LocInv'
<1>1. /\ locate_pc = "bytes" /\ at >= ErrPos /\ locate_pc' = "done"
      /\ line' = line_count + 1 /\ col' = ErrPos - line_start + 1
  BY DEF Location!BytesEnd, ErrPos
<1>2. locate_pc \in {"words", "bytes"} /\ locate_pc # "start"
  BY <1>1
<1>3. /\ at \in Nat /\ Base <= at /\ at <= ErrPos
      /\ \A j \in Base .. at - 1 : text[j + 1] \notin Location!High
      /\ line_count = Cardinality(Breaks(text, Base, at))
      /\ line_start = LineFrom(text, Base, at)
  BY <1>2, Zenon DEF LocInv
<1>4. pc = "done" /\ ~ accepted
  BY <1>2, Zenon DEF LocInv
<1>5. ErrPos \in Nat /\ Base \in Nat
  BY TextKnown
<1>6. at = ErrPos
  BY <1>1, <1>3, <1>5
<1> DEFINE f == LineFrom(text, Base, ErrPos)
           S == Leads(f, ErrPos)
<1>7. f \in Nat /\ Base <= f /\ f <= ErrPos
  BY <1>3, <1>5, <1>6, LineBegins
<1>8. S = f .. ErrPos - 1
  <2>1. \A j \in Base .. ErrPos - 1 : text[j + 1] \notin {"0xA9", "0xBB", "0xBF"}
    BY <1>3, <1>6 DEF Location!High
  <2> HIDE DEF f
  <2>2. \A j \in f .. ErrPos - 1 : j \in Base .. ErrPos - 1
    BY <1>5, <1>7
  <2> QED BY <2>1, <2>2, Zenon DEF Leads
<1> HIDE DEF f, S
<1>9. Cardinality(S) = ErrPos - f
  <2>1. Cardinality(f .. ErrPos - 1) = IF f > ErrPos - 1 THEN 0 ELSE (ErrPos - 1) - f + 1
    BY <1>5, <1>7, FS_Interval
  <2>2. (IF f > ErrPos - 1 THEN 0 ELSE (ErrPos - 1) - f + 1) = ErrPos - f
    BY <1>5, <1>7
  <2> QED BY <1>8, <2>1, <2>2
<1>10. line' = Cardinality(Breaks(text, Base, ErrPos)) + 1
  BY <1>1, <1>3, <1>6
<1>11. col' = Cardinality(Leads(f, ErrPos)) + 1
  <2>1. line_start = f
    BY <1>3, <1>6 DEF f
  <2> QED BY <1>1, <1>9, <2>1 DEF S
<1> QED BY <1>1, <1>4, <1>10, <1>11, Located DEF f

LEMMA CharactersStep ==
  ASSUME ReadInv, LocInv, pc = "done", ~ accepted, UNCHANGED readvars, Location!yyjson_locate_pos
  PROVE  LocInv'
<1> DEFINE S == Location!CharStarts(Base, ErrPos)
           B == Breaks(text, Base, ErrPos)
           f == LineFrom(text, Base, ErrPos)
<1>1. ErrPos \in Nat /\ Base \in Nat /\ Base <= ErrPos
  BY TextKnown
<1>2. f \in Nat /\ Base <= f
  BY <1>1, LineBegins
<1>3. S \subseteq Base .. ErrPos - 1
  BY Zenon DEF Location!CharStarts
<1>4. \A j \in Base .. ErrPos - 1 : j \in S <=> text[j + 1] \notin {"0xA9", "0xBB", "0xBF"}
  BY CharactersBegin
<1>5. Location!Newlines(S) = B
  <2>1. Location!Newlines(S) = {j \in S : text[j + 1] = "LF"}
    BY BreaksNamed, Zenon DEF Location!Newlines
  <2>2. B = {j \in Base .. ErrPos - 1 : text[j + 1] = "LF"}
    BY DEF Breaks
  <2> HIDE DEF S, B
  <2> QED BY <1>3, <1>4, <2>1, <2>2
<1>6. {j \in S : j >= f} = Leads(f, ErrPos)
  <2>1. \A j \in f .. ErrPos - 1 : j \in Base .. ErrPos - 1
    BY <1>1, <1>2
  <2>2. \A j \in Base .. ErrPos - 1 : j >= f => j \in f .. ErrPos - 1
    BY <1>1, <1>2
  <2>3. \A j \in f .. ErrPos - 1 : j >= f
    BY <1>1, <1>2
  <2> HIDE DEF S, f
  <2> QED BY <1>3, <1>4, <2>1, <2>2, <2>3, Zenon DEF Leads
<1>7. /\ \A X : Location!LastOf(X) = Greatest(X)
      /\ \A X : Location!Cardinality(X) = Cardinality(X)
  BY BreaksNamed
<1>8. (IF B = {} THEN Base ELSE Location!LastOf(B) + 1) = f
  BY <1>7, Zenon DEF LineFrom
<1>9. /\ locate_pc' = "done" /\ line' = Location!Cardinality(B) + 1
      /\ col' = Location!Cardinality({j \in S : j >= f}) + 1
  <2>1. locate_pc' = "done"
    BY DEF Location!yyjson_locate_pos
  <2>2. /\ line' = Location!Cardinality(Location!Newlines(S)) + 1
        /\ col' = Location!Cardinality({j \in S :
             j >= IF Location!Newlines(S) = {} THEN Base
                  ELSE Location!LastOf(Location!Newlines(S)) + 1}) + 1
    BY Zenon DEF Location!yyjson_locate_pos, Base, ErrPos
  <2> HIDE DEF S, B, f
  <2> QED BY <1>5, <1>8, <2>1, <2>2, Zenon
<1>10. line' = Cardinality(B) + 1 /\ col' = Cardinality(Leads(f, ErrPos)) + 1
  BY <1>6, <1>7, <1>9, Zenon
<1> QED BY <1>9, <1>10, Located

LEMMA CallStarts ==
  ASSUME CallInit
  PROVE  ReadInv /\ LocInv
<1>1. ReadInit /\ locate_pc = "start" /\ line_count = 0
  BY DEF CallInit, Location!Init
<1>2. ReadInv
  BY <1>1, ReadStarts
<1>3. /\ locate_pc \notin {"words", "bytes"} /\ locate_pc # "done"
      /\ locate_pc \in {"start", "words", "bytes", "chars", "done"}
  BY <1>1
<1>4. LocInv
  BY <1>1, <1>3, Zenon DEF LocInv, Location!LocatesTheError
<1> QED BY <1>2, <1>4

LEMMA CallKeepsInv ==
  ASSUME ReadInv, LocInv, [CallNext]_allvars
  PROVE  ReadInv' /\ LocInv'
<1>1. CASE ReadStep
  <2>1. ReadNext /\ UNCHANGED locatevars
    BY <1>1 DEF ReadStep
  <2>2. ReadInv'
    BY <2>1, ReaderKeepsInv
  <2>3. pc # "done"
    BY <2>1 DEF ReadNext, FirstRead, InString, SkipLineComment, SkipBlockComment, OpenString,
                FindLiteral, PassCharacter, SecondRead, Classify
  <2>4. locate_pc = "start" /\ line_count = 0
    BY <2>3, Zenon DEF LocInv
  <2>5. locate_pc' = "start" /\ line_count' = 0
    BY <2>1, <2>4 DEF locatevars
  <2>6. /\ locate_pc' \notin {"words", "bytes"} /\ locate_pc' # "done"
        /\ locate_pc' \in {"start", "words", "bytes", "chars", "done"}
    BY <2>5
  <2>7. Location!LocatesTheError'
    BY <2>6, Zenon DEF Location!LocatesTheError
  <2> QED BY <2>2, <2>5, <2>6, <2>7, Zenon DEF LocInv
<1>2. CASE fastjson_set_read_error
  <2>1. pc = "done" /\ ~ accepted /\ UNCHANGED readvars /\ Location!Next
    BY <1>2 DEF fastjson_set_read_error
  <2>2. ReadInv'
    BY <2>1, ReaderKeepsInv
  <2>3. CASE Location!Begin
    BY <2>1, <2>2, <2>3, BeginStep
  <2>4. CASE Location!WordStep
    BY <2>1, <2>2, <2>4, WordStepStep
  <2>5. CASE Location!WordsEnd
    BY <2>1, <2>2, <2>5, WordsEndStep
  <2>6. CASE Location!ByteStep
    BY <2>1, <2>2, <2>6, ByteStepStep
  <2>7. CASE Location!BytesEnd
    BY <2>1, <2>2, <2>7, BytesEndStep
  <2>8. CASE Location!yyjson_locate_pos
    BY <2>1, <2>2, <2>8, CharactersStep
  <2> QED BY <2>1, <2>2, <2>3, <2>4, <2>5, <2>6, <2>7, <2>8, Zenon DEF Location!Next
<1>3. CASE UNCHANGED allvars
  <2>1. UNCHANGED readvars /\ UNCHANGED locatevars
    BY <1>3 DEF allvars
  <2>2. ReadInv'
    BY <2>1, ReaderKeepsInv
  <2>3. /\ text' = text /\ ErrPos' = ErrPos /\ Base' = Base /\ pc' = pc /\ accepted' = accepted
    BY <2>1, TextStays
  <2>4. /\ locate_pc' = locate_pc /\ at' = at /\ line_count' = line_count
        /\ line_start' = line_start /\ line' = line /\ col' = col
    BY <2>1 DEF locatevars
  <2>5. Location!High' = Location!High
    BY DEF Location!High
  <2>6. CASE locate_pc = "done"
    <3>1. /\ line = Cardinality(Breaks(text, Base, ErrPos)) + 1
          /\ col = Cardinality(Leads(LineFrom(text, Base, ErrPos), ErrPos)) + 1
      BY <2>6, ErrorNamed, Zenon DEF LocInv
    <3>2. pc = "done" /\ ~ accepted
      <4>1. locate_pc # "start"
        BY <2>6
      <4> QED BY <4>1, Zenon DEF LocInv
    <3>3. locate_pc' = "done"
      BY <2>4, <2>6
    <3>4. /\ line' = Cardinality(Breaks(text, Base, ErrPos)) + 1
          /\ col' = Cardinality(Leads(LineFrom(text, Base, ErrPos), ErrPos)) + 1
      BY <2>4, <3>1, Zenon
    <3> QED BY <2>1, <2>2, <3>2, <3>3, <3>4, Located
  <2>7. CASE locate_pc # "done"
    <3>1. Location!LocatesTheError'
      BY <2>4, <2>7, Zenon DEF Location!LocatesTheError
    <3> QED BY <2>2, <2>3, <2>4, <2>5, <2>7, <3>1, Zenon DEF LocInv
  <2> QED BY <2>6, <2>7
<1> QED BY <1>1, <1>2, <1>3, Zenon DEF CallNext

\* The scanner's place and what the parser and the locators have found stay as
\* ReadInv and LocInv describe them, through every step of a call.
THEOREM ReadInvariant == CallSpec => [](ReadInv /\ LocInv)
<1>1. CallInit => ReadInv /\ LocInv
  BY CallStarts
<1>2. (ReadInv /\ LocInv) /\ [CallNext]_allvars => (ReadInv /\ LocInv)'
  BY CallKeepsInv
<1> QED BY <1>1, <1>2, PTL DEF CallSpec

\* A text of any length is accepted exactly when each of its lexemes is JSON under
\* the flags of the call: the retry lets overflowing numbers through, and the
\* scanner is never led astray (fastjson_read_doc_ex).
THEOREM AcceptsExactlyTheJson == CallSpec => []AcceptsExactly
<1>1. ReadInv /\ LocInv => AcceptsExactly
  BY ReaderIsRight
<1> QED BY <1>1, ReadInvariant, PTL

\* A refused text is reported at its first fault, at the line and column a reader
\* of the text counts there, whatever the size of a word (fastjson_set_read_error).
THEOREM ErrorIsReportedAtTheFault == CallSpec => []ReportsTheFault
<1>1. ReadInv /\ LocInv => ReportsTheFault
  <2>1. SUFFICES ASSUME ReadInv, LocInv PROVE ReportsTheFault
    OBVIOUS
  <2>2. ErrorIsTheFirstFault
    BY <2>1, ReaderIsRight
  <2>3. Location!LocatesTheError
    BY <2>1, Zenon DEF LocInv, Location!LocatesTheError
  <2> QED BY <2>2, <2>3 DEF ReportsTheFault
<1> QED BY <1>1, ReadInvariant, PTL

-----------------------------------------------------------------------------
(* Sums.                                                                   *)

\* The recursive function of Total exists, and adds number after number.
LEMMA TotalIsSum ==
  ASSUME NEW xs \in Seq(Int)
  PROVE  \E f \in [0 .. Len(xs) -> Int] :
           /\ f[0] = 0
           /\ \A n \in 1 .. Len(xs) : f[n] = f[n - 1] + xs[n]
           /\ Total(xs) = f[Len(xs)]
<1> DEFINE L == Len(xs)
           D == [n \in Nat |-> [b \in Int |-> IF n < L THEN b + xs[n + 1] ELSE b]]
<1>1. L \in Nat /\ \A n \in 1 .. L : xs[n] \in Int
  OBVIOUS
<1>2. D \in [Nat -> [Int -> Int]]
  BY <1>1
<1>3. \A n \in Nat : \A b \in Int : n < L => D[n][b] = b + xs[n + 1]
  OBVIOUS
<1> HIDE DEF L
<1>4. PICK g : SolvesRecursion(g, Int, 0, D)
  <2> HIDE DEF D
  <2>1. 0 \in Int
    OBVIOUS
  <2> QED BY <1>2, <2>1, RecursionExists DEF StepFunctions
<1> HIDE DEF D
<1> DEFINE Rec(f) == [n \in 0 .. L |-> IF n = 0 THEN 0 ELSE f[n - 1] + xs[n]]
           u == [n \in 0 .. L |-> g[n]]
<1>5. /\ g \in [Nat -> Int] /\ g[0] = 0
      /\ \A n \in Nat : g[n + 1] = D[n][g[n]]
  BY <1>4 DEF SolvesRecursion
<1>6. ASSUME NEW n \in 1 .. L PROVE g[n] = g[n - 1] + xs[n]
  <2>1. n - 1 \in Nat /\ n - 1 < L /\ (n - 1) + 1 = n
    BY <1>1
  <2>2. g[(n - 1) + 1] = D[n - 1][g[n - 1]]
    BY <1>5, <2>1
  <2>3. g[n - 1] \in Int
    BY <1>5, <2>1
  <2> QED BY <1>3, <2>1, <2>2, <2>3
<1>7. u = Rec(u)
  <2>1. ASSUME NEW n \in 0 .. L PROVE u[n] = IF n = 0 THEN 0 ELSE u[n - 1] + xs[n]
    <3>1. CASE n = 0
      BY <3>1, <1>5
    <3>2. CASE n # 0
      <4>1. n \in 1 .. L /\ n - 1 \in 0 .. L
        BY <3>2, <1>1
      <4>2. u[n] = g[n] /\ u[n - 1] = g[n - 1]
        BY <4>1
      <4> HIDE DEF u
      <4> QED BY <3>2, <4>1, <4>2, <1>6
    <3> QED BY <3>1, <3>2
  <2> QED BY <2>1
<1> DEFINE f == CHOOSE f : f = Rec(f)
<1>8. f = Rec(f)
  <2> HIDE DEF Rec, u
  <2> QED BY <1>7
<1>9. Total(xs) = f[L]
  BY Zenon DEF Total, L
<1> HIDE DEF f
<1>10. f = [n \in 0 .. L |-> IF n = 0 THEN 0 ELSE f[n - 1] + xs[n]]
  BY <1>8
<1>11. DOMAIN f = 0 .. L /\ \A n \in 0 .. L : f[n] = IF n = 0 THEN 0 ELSE f[n - 1] + xs[n]
  BY <1>10
<1>12. f[0] = 0 /\ \A n \in 1 .. L : f[n] = f[n - 1] + xs[n]
  BY <1>11, <1>1
<1> DEFINE P == {n \in 0 .. L : f[n] \in Int}
<1>13. 0 \in P
  BY <1>12, <1>1
<1>14. ASSUME NEW n \in 0 .. L - 1, n \in P PROVE n + 1 \in P
  <2>1. n + 1 \in 1 .. L /\ n + 1 \in 0 .. L /\ (n + 1) - 1 = n
    BY <1>1
  <2>2. f[n + 1] = f[n] + xs[n + 1]
    BY <2>1, <1>12
  <2>3. f[n] \in Int /\ xs[n + 1] \in Int
    BY <1>14, <1>1, <2>1
  <2> QED BY <2>1, <2>2, <2>3
<1>15. \A n \in 0 .. L : n \in P
  <2> HIDE DEF P
  <2> QED BY <1>1, <1>13, <1>14, InductionUpTo
<1>16. f \in [0 .. L -> Int]
  BY <1>10, <1>11, <1>15
<1> QED BY <1>9, <1>12, <1>16 DEF L

\* The sum of nothing, and the type of a sum.
LEMMA TotalTyped ==
  /\ Total(<< >>) = 0
  /\ \A xs \in Seq(Int) : Total(xs) \in Int
<1>1. << >> \in Seq(Int) /\ Len(<< >>) = 0
  OBVIOUS
<1>2. Total(<< >>) = 0
  BY <1>1, TotalIsSum
<1>3. ASSUME NEW xs \in Seq(Int) PROVE Total(xs) \in Int
  <2>1. Len(xs) \in 0 .. Len(xs)
    OBVIOUS
  <2> QED BY <2>1, TotalIsSum
<1> QED BY <1>2, <1>3

\* One number more.
LEMMA TotalStep ==
  ASSUME NEW xs \in Seq(Int), NEW u \in Seq(Int), Len(u) = Len(xs) + 1,
         \A n \in 1 .. Len(xs) : u[n] = xs[n]
  PROVE  Total(u) = Total(xs) + u[Len(u)]
<1> DEFINE L == Len(xs)
<1>1. L \in Nat
  OBVIOUS
<1>2. PICK h \in [0 .. L -> Int] :
         /\ h[0] = 0
         /\ \A n \in 1 .. L : h[n] = h[n - 1] + xs[n]
         /\ Total(xs) = h[L]
  BY TotalIsSum
<1>3. Len(u) = L + 1 /\ \A n \in 1 .. L : u[n] = xs[n]
  OBVIOUS
<1>4. PICK f \in [0 .. L + 1 -> Int] :
         /\ f[0] = 0
         /\ \A n \in 1 .. L + 1 : f[n] = f[n - 1] + u[n]
         /\ Total(u) = f[L + 1]
  BY <1>3, TotalIsSum
<1> HIDE DEF L
<1> DEFINE P == {n \in 0 .. L : f[n] = h[n]}
<1>5. 0 \in P
  BY <1>1, <1>2, <1>4
<1>6. ASSUME NEW n \in 0 .. L - 1, n \in P PROVE n + 1 \in P
  <2>1. n + 1 \in 1 .. L /\ n + 1 \in 1 .. L + 1 /\ n + 1 \in 0 .. L /\ (n + 1) - 1 = n
    BY <1>1
  <2>2. f[n + 1] = f[n] + xs[n + 1]
    BY <2>1, <1>3, <1>4
  <2>3. h[n + 1] = h[n] + xs[n + 1]
    BY <2>1, <1>2
  <2> QED BY <1>6, <2>1, <2>2, <2>3
<1>7. \A n \in 0 .. L : n \in P
  <2> HIDE DEF P
  <2> QED BY <1>1, <1>5, <1>6, InductionUpTo
<1>8. f[L] = h[L]
  BY <1>1, <1>7
<1>9. f[L + 1] = f[L] + u[L + 1]
  <2>1. L + 1 \in 1 .. L + 1 /\ (L + 1) - 1 = L
    BY <1>1
  <2> QED BY <2>1, <1>4
<1> QED BY <1>2, <1>3, <1>4, <1>8, <1>9

\* One number exchanged.
LEMMA TotalReplace ==
  ASSUME NEW xs \in Seq(Int), NEW u \in Seq(Int), Len(u) = Len(xs),
         NEW p \in 1 .. Len(xs),
         \A n \in 1 .. Len(xs) : n # p => u[n] = xs[n]
  PROVE  Total(u) = Total(xs) - xs[p] + u[p]
<1> DEFINE L == Len(xs)
<1>1. L \in Nat /\ p \in 1 .. L /\ \A n \in 1 .. L : xs[n] \in Int
  OBVIOUS
<1>2. PICK h \in [0 .. L -> Int] :
         /\ h[0] = 0
         /\ \A n \in 1 .. L : h[n] = h[n - 1] + xs[n]
         /\ Total(xs) = h[L]
  BY TotalIsSum
<1>3. Len(u) = L /\ (\A n \in 1 .. L : n # p => u[n] = xs[n]) /\ u[p] \in Int
  OBVIOUS
<1>4. PICK f \in [0 .. L -> Int] :
         /\ f[0] = 0
         /\ \A n \in 1 .. L : f[n] = f[n - 1] + u[n]
         /\ Total(u) = f[L]
  BY <1>3, TotalIsSum
<1> HIDE DEF L
<1> DEFINE P == {n \in 0 .. L : f[n] = h[n] + (IF n < p THEN 0 ELSE u[p] - xs[p])}
<1>5. 0 \in P
  BY <1>1, <1>2, <1>4
<1>6. ASSUME NEW n \in 0 .. L - 1, n \in P PROVE n + 1 \in P
  <2>1. n \in Nat /\ n + 1 \in 1 .. L /\ n + 1 \in 0 .. L /\ n \in 0 .. L /\ (n + 1) - 1 = n
    BY <1>1
  <2>2. f[n + 1] = f[n] + u[n + 1]
    BY <2>1, <1>4
  <2>3. h[n + 1] = h[n] + xs[n + 1]
    BY <2>1, <1>2
  <2>4. f[n] \in Int /\ h[n] \in Int /\ xs[n + 1] \in Int /\ xs[p] \in Int
    BY <1>1, <1>2, <1>4, <2>1
  <2>5. f[n] = h[n] + (IF n < p THEN 0 ELSE u[p] - xs[p])
    BY <1>6
  <2>6. f[n + 1] = h[n + 1] + (IF n + 1 < p THEN 0 ELSE u[p] - xs[p])
    <3>1. CASE n + 1 = p
      <4>1. f[n] = h[n] /\ ~ (n + 1 < p)
        BY <3>1, <2>1, <2>4, <2>5
      <4>2. f[n + 1] = h[n] + u[p] /\ h[n + 1] = h[n] + xs[p]
        BY <3>1, <4>1, <2>2, <2>3
      <4> QED BY <4>1, <4>2, <2>4, <1>3
    <3>2. CASE n + 1 # p
      <4>1. u[n + 1] = xs[n + 1]
        BY <2>1, <3>2, <1>3
      <4>2. n < p <=> n + 1 < p
        BY <3>2, <2>1, <1>1
      <4>3. f[n + 1] = (h[n] + (IF n < p THEN 0 ELSE u[p] - xs[p])) + xs[n + 1]
        BY <4>1, <2>2, <2>5
      <4>4. CASE n < p
        BY <4>2, <4>3, <4>4, <2>3, <2>4
      <4>5. CASE ~ (n < p)
        <5>1. f[n + 1] = (h[n] + (u[p] - xs[p])) + xs[n + 1] /\ ~ (n + 1 < p)
          BY <4>2, <4>3, <4>5
        <5>2. (h[n] + (u[p] - xs[p])) + xs[n + 1] = (h[n] + xs[n + 1]) + (u[p] - xs[p])
          <6>2. h[n] \in Int /\ u[p] \in Int /\ xs[p] \in Int /\ xs[n + 1] \in Int
            BY <2>4, <1>3
          <6> HIDE DEF P
          <6> QED BY ONLY <6>2, SMTT(60)
        <5> QED BY <5>1, <5>2, <2>3
      <4> QED BY <4>4, <4>5
    <3> QED BY <3>1, <3>2
  <2> QED BY <2>6, <2>1
<1>7. \A n \in 0 .. L : n \in P
  <2> HIDE DEF P
  <2> QED BY <1>1, <1>5, <1>6, InductionUpTo
<1>8. f[L] = h[L] + (u[p] - xs[p]) /\ h[L] \in Int /\ xs[p] \in Int
  BY <1>1, <1>2, <1>7
<1> QED BY <1>2, <1>3, <1>4, <1>8
-----------------------------------------------------------------------------
(* Sequences of anything.                                                  *)

LEMMA EmptySequence == IsSequence(<< >>)
BY DEF IsSequence

LEMMA SequenceFacts ==
  ASSUME NEW xs, IsSequence(xs)
  PROVE  Len(xs) \in Nat /\ DOMAIN xs = 1 .. Len(xs) /\ (xs = << >> <=> Len(xs) = 0)
BY DEF IsSequence

LEMMA SequenceOf ==
  ASSUME NEW n \in Nat, NEW u, u = [p \in 1 .. n |-> u[p]]
  PROVE  IsSequence(u) /\ Len(u) = n
<1> DEFINE R == {u[p] : p \in DOMAIN u}
<1>1. DOMAIN u = 1 .. n
  OBVIOUS
<1>2. \A p \in 1 .. n : u[p] \in R
  BY <1>1
<1> HIDE DEF R
<1>3. u \in [1 .. n -> R]
  BY <1>2
<1>4. u \in Seq(R) /\ Len(u) = n
  BY <1>3
<1> QED BY <1>4 DEF R, IsSequence

LEMMA SequencePush ==
  ASSUME NEW xs, IsSequence(xs), NEW x
  PROVE  /\ IsSequence(Append(xs, x)) /\ Len(Append(xs, x)) = Len(xs) + 1
         /\ Append(xs, x)[Len(xs) + 1] = x
         /\ \A n \in 1 .. Len(xs) : Append(xs, x)[n] = xs[n]
<1> DEFINE S == {xs[p] : p \in DOMAIN xs} \cup {x}
           u == Append(xs, x)
<1>1. xs \in Seq({xs[p] : p \in DOMAIN xs}) /\ Len(xs) \in Nat /\ DOMAIN xs = 1 .. Len(xs)
  BY SequenceFacts DEF IsSequence
<1>2. \A n \in 1 .. Len(xs) : xs[n] \in S
  BY <1>1
<1>3. xs \in Seq(S)
  <2> HIDE DEF S
  <2>1. xs = [n \in 1 .. Len(xs) |-> xs[n]]
    BY <1>1
  <2> QED BY <1>1, <1>2, <2>1
<1>4. x \in S
  OBVIOUS
<1> HIDE DEF S
<1>5. u \in Seq(S) /\ Len(u) = Len(xs) + 1 /\ u[Len(xs) + 1] = x /\ \A n \in 1 .. Len(xs) : u[n] = xs[n]
  BY <1>3, <1>4, AppendProperties
<1> HIDE DEF u
<1>6. DOMAIN u = 1 .. Len(u) /\ Len(u) \in Nat /\ u = [n \in 1 .. Len(u) |-> u[n]]
  BY <1>5
<1> DEFINE R == {u[p] : p \in DOMAIN u}
<1>7. \A n \in 1 .. Len(u) : u[n] \in R
  BY <1>6
<1> HIDE DEF R
<1>8. u \in Seq(R)
  BY <1>6, <1>7
<1> QED BY <1>5, <1>8 DEF u, R, IsSequence

LEMMA SequenceFront ==
  ASSUME NEW xs, IsSequence(xs), xs # << >>
  PROVE  /\ IsSequence(SubSeq(xs, 1, Len(xs) - 1)) /\ Len(SubSeq(xs, 1, Len(xs) - 1)) = Len(xs) - 1
         /\ \A n \in 1 .. Len(xs) - 1 : SubSeq(xs, 1, Len(xs) - 1)[n] = xs[n]
<1> DEFINE S == {xs[p] : p \in DOMAIN xs}
           L == Len(xs)
           fr == SubSeq(xs, 1, L - 1)
<1>1. xs \in Seq(S) /\ L \in Nat /\ DOMAIN xs = 1 .. L /\ L > 0
  BY SequenceFacts DEF IsSequence
<1>2. \A n \in 1 .. L : xs[n] \in S
  BY <1>1
<1> HIDE DEF S, L
<1>3. /\ fr \in Seq(S)
      /\ Len(fr) = IF 1 <= L - 1 THEN (L - 1) - 1 + 1 ELSE 0
      /\ \A n \in 1 .. (L - 1) - 1 + 1 : fr[n] = xs[1 + n - 1]
  BY <1>1, <1>2, SubSeqProperties DEF L
<1> HIDE DEF fr
<1>4. (L - 1) - 1 + 1 = L - 1 /\ \A n \in 1 .. L - 1 : 1 + n - 1 = n
  BY <1>1
<1>5. Len(fr) = L - 1 /\ \A n \in 1 .. L - 1 : fr[n] = xs[n]
  BY <1>1, <1>3, <1>4
<1>6. DOMAIN fr = 1 .. L - 1 /\ L - 1 \in Nat
  BY <1>1, <1>3, <1>5
<1> DEFINE R == {fr[p] : p \in DOMAIN fr}
<1>7. \A n \in 1 .. L - 1 : fr[n] \in R
  BY <1>6
<1>8. fr = [n \in 1 .. L - 1 |-> fr[n]]
  BY <1>3, <1>5
<1> HIDE DEF R
<1>9. fr \in Seq(R)
  BY <1>6, <1>7, <1>8
<1> QED BY <1>5, <1>9 DEF fr, R, L, IsSequence
-----------------------------------------------------------------------------
(* The entries of a container.                                             *)

LEMMA CountsTyped ==
  ASSUME NEW ents, IsSequence(ents), \A p \in DOMAIN ents : ents[p].v.n \in Int
  PROVE  /\ Counts(ents) \in Seq(Int) /\ Len(Counts(ents)) = Len(ents)
         /\ \A p \in 1 .. Len(ents) : Counts(ents)[p] = ents[p].v.n
<1>1. Len(ents) \in Nat /\ DOMAIN ents = 1 .. Len(ents)
  BY SequenceFacts
<1>2. Counts(ents) = [p \in 1 .. Len(ents) |-> ents[p].v.n]
  BY <1>1 DEF Counts
<1>3. Counts(ents) \in [1 .. Len(ents) -> Int]
  BY <1>1, <1>2
<1> QED BY <1>1, <1>2, <1>3

LEMMA SoundTyped ==
  ASSUME NEW f, Sound(f)
  PROVE  f.out.n \in Int
<1>1. Counts(f.out.ents) \in Seq(Int)
  BY CountsTyped DEF Sound
<1> QED BY <1>1, TotalTyped DEF Sound

LEMMA EntsPush ==
  ASSUME NEW ents, IsSequence(ents), \A p \in DOMAIN ents : ents[p].v.n \in Int,
         NEW e, e.v.n \in Int
  PROVE  /\ IsSequence(Append(ents, e))
         /\ \A p \in DOMAIN Append(ents, e) : Append(ents, e)[p].v.n \in Int
         /\ Total(Counts(Append(ents, e))) = Total(Counts(ents)) + e.v.n
<1> DEFINE u == Append(ents, e)
<1>1. /\ IsSequence(u) /\ Len(u) = Len(ents) + 1
      /\ u[Len(ents) + 1] = e /\ \A n \in 1 .. Len(ents) : u[n] = ents[n]
  BY SequencePush
<1>2. Len(ents) \in Nat /\ DOMAIN ents = 1 .. Len(ents)
  BY SequenceFacts
<1> HIDE DEF u
<1>3. DOMAIN u = 1 .. Len(ents) + 1
  BY <1>1, SequenceFacts
<1>4. ASSUME NEW p \in DOMAIN u PROVE u[p].v.n \in Int
  BY <1>1, <1>2, <1>3
<1>5. /\ Counts(u) \in Seq(Int) /\ Len(Counts(u)) = Len(ents) + 1
      /\ \A p \in 1 .. Len(ents) + 1 : Counts(u)[p] = u[p].v.n
  BY <1>1, <1>4, CountsTyped
<1>6. /\ Counts(ents) \in Seq(Int) /\ Len(Counts(ents)) = Len(ents)
      /\ \A p \in 1 .. Len(ents) : Counts(ents)[p] = ents[p].v.n
  BY CountsTyped
<1>7. ASSUME NEW n \in 1 .. Len(ents) PROVE Counts(u)[n] = Counts(ents)[n]
  <2>1. n \in 1 .. Len(ents) + 1 /\ u[n] = ents[n]
    BY <1>1, <1>2
  <2>2. Counts(u)[n] = u[n].v.n /\ Counts(ents)[n] = ents[n].v.n
    BY <2>1, <1>5, <1>6
  <2> QED BY <2>1, <2>2
<1>8. Counts(u)[Len(ents) + 1] = e.v.n
  BY <1>1, <1>2, <1>5
<1>9. Total(Counts(u)) = Total(Counts(ents)) + e.v.n
  BY <1>5, <1>6, <1>7, <1>8, TotalStep
<1> QED BY <1>1, <1>4, <1>9 DEF u

\* Storing a value in the place of another, found under its key.
LEMMA EntsReplace ==
  ASSUME NEW ents, IsSequence(ents), \A p \in DOMAIN ents : ents[p].v.n \in Int,
         NEW u, IsSequence(u), Len(u) = Len(ents), NEW q \in DOMAIN ents, u[q].v.n \in Int,
         \A p \in DOMAIN ents : p # q => u[p] = ents[p]
  PROVE  /\ \A p \in DOMAIN u : u[p].v.n \in Int
         /\ Total(Counts(u)) = Total(Counts(ents)) + u[q].v.n - ents[q].v.n
<1>1. Len(ents) \in Nat /\ DOMAIN ents = 1 .. Len(ents) /\ DOMAIN u = 1 .. Len(ents)
  BY SequenceFacts
<1>2. ASSUME NEW p \in DOMAIN u PROVE u[p].v.n \in Int
  BY <1>1, <1>2
<1>3. /\ Counts(u) \in Seq(Int) /\ Len(Counts(u)) = Len(ents)
      /\ \A p \in 1 .. Len(ents) : Counts(u)[p] = u[p].v.n
  BY <1>2, CountsTyped
<1>4. /\ Counts(ents) \in Seq(Int) /\ Len(Counts(ents)) = Len(ents)
      /\ \A p \in 1 .. Len(ents) : Counts(ents)[p] = ents[p].v.n
  BY CountsTyped
<1>5. \A n \in 1 .. Len(ents) : n # q => Counts(u)[n] = Counts(ents)[n]
  BY <1>1, <1>3, <1>4
<1>6. Total(Counts(u)) = Total(Counts(ents)) - Counts(ents)[q] + Counts(u)[q]
  BY <1>1, <1>3, <1>4, <1>5, TotalReplace
<1>7. Counts(ents)[q] = ents[q].v.n /\ Counts(u)[q] = u[q].v.n
  BY <1>1, <1>3, <1>4
<1>8. Total(Counts(ents)) \in Int /\ ents[q].v.n \in Int
  BY <1>4, TotalTyped
<1> QED BY <1>2, <1>6, <1>7, <1>8
-----------------------------------------------------------------------------
(* Storing a child.                                                        *)

\* An element goes to the end of a list.
LEMMA PushedSound ==
  ASSUME NEW f, Sound(f), f.node.t # "obj", NEW v, v.n \in Int,
         NEW g, g = [f EXCEPT !.pos = @ + 1, !.out = Pushed(@, v)]
  PROVE  Sound(g) /\ g.out.n = f.out.n + v.n
<1> DEFINE e == [k |-> <<"int", "">>, v |-> v]
           o == Pushed(f.out, v)
<1>1. /\ DOMAIN f = {"node", "rem", "pos", "out"} /\ DOMAIN f.out = {"t", "tok", "ents", "n"}
      /\ IsSequence(f.out.ents) /\ \A p \in DOMAIN f.out.ents : f.out.ents[p].v.n \in Int
      /\ f.out.n = 1 + Total(Counts(f.out.ents))
  BY DEF Sound
<1>2. e.v = v /\ e.v.n \in Int
  OBVIOUS
<1>3. /\ DOMAIN g = DOMAIN f /\ g.node = f.node /\ g.out = o
  BY <1>1
<1>4. DOMAIN o = DOMAIN f.out /\ o.ents = Append(f.out.ents, e) /\ o.n = f.out.n + v.n
  BY <1>1 DEF Pushed
<1> HIDE DEF o, e
<1>5. /\ IsSequence(o.ents) /\ \A p \in DOMAIN o.ents : o.ents[p].v.n \in Int
      /\ Total(Counts(o.ents)) = Total(Counts(f.out.ents)) + v.n
  BY <1>1, <1>2, <1>4, EntsPush
<1>6. Total(Counts(f.out.ents)) \in Int
  BY <1>1, CountsTyped, TotalTyped
<1>7. o.n = 1 + Total(Counts(o.ents))
  BY <1>1, <1>4, <1>5, <1>6
<1> QED BY <1>1, <1>3, <1>4, <1>5, <1>7 DEF Sound

\* zend_hash_update: the value of an existing entry is exchanged, else an entry
\* is added.
LEMMA UpdatedSound ==
  ASSUME NEW f, Sound(f), f.node.t = "obj", NEW key, NEW v, v.n \in Int,
         NEW g, g = [f EXCEPT !.pos = @ + 1, !.out = Updated(@, key, v)]
  PROVE  /\ Sound(g) /\ Displaced(f.out, key).n \in Int
         /\ g.out.n = f.out.n + v.n - Displaced(f.out, key).n
<1> DEFINE e == [k |-> key, v |-> v]
           ents == f.out.ents
           o == Updated(f.out, key, v)
           d == Displaced(f.out, key)
<1>1. /\ DOMAIN f = {"node", "rem", "pos", "out"} /\ DOMAIN f.out = {"t", "tok", "ents", "n"}
      /\ IsSequence(ents) /\ \A p \in DOMAIN ents : ents[p].v.n \in Int
      /\ f.out.n = 1 + Total(Counts(ents))
      /\ \A p, q \in DOMAIN ents : ents[p].k = ents[q].k => p = q
  BY DEF Sound
<1>2. e.v = v /\ e.v.n \in Int /\ e.k = key
  OBVIOUS
<1>3. DOMAIN g = DOMAIN f /\ g.node = f.node /\ g.out = o
  BY <1>1
<1>4. /\ DOMAIN o = DOMAIN f.out
      /\ o.ents = IF Holding(f.out, key) = {} THEN Append(ents, e)
                  ELSE [p \in DOMAIN ents |-> IF ents[p].k = key THEN e ELSE ents[p]]
      /\ o.n = f.out.n + v.n - d.n
  BY <1>1 DEF Updated
<1>5. Total(Counts(ents)) \in Int /\ f.out.n \in Int
  BY <1>1, CountsTyped, TotalTyped
<1>6. Len(ents) \in Nat /\ DOMAIN ents = 1 .. Len(ents)
  BY <1>1, SequenceFacts
<1> HIDE DEF o, e
<1>7. CASE Holding(f.out, key) = {}
  <2>1. d.n = 0
    BY <1>7 DEF Displaced, Null
  <2>2. o.ents = Append(ents, e)
    BY <1>4, <1>7
  <2>3. /\ IsSequence(o.ents) /\ \A p \in DOMAIN o.ents : o.ents[p].v.n \in Int
        /\ Total(Counts(o.ents)) = Total(Counts(ents)) + v.n
    BY <1>1, <1>2, <2>2, EntsPush
  <2>4. \A p \in DOMAIN ents : ents[p].k # key
    BY <1>7 DEF Holding
  <2>5. /\ Len(o.ents) = Len(ents) + 1 /\ o.ents[Len(ents) + 1] = e
        /\ \A n \in 1 .. Len(ents) : o.ents[n] = ents[n]
    BY <1>1, <2>2, SequencePush
  <2>6. DOMAIN o.ents = 1 .. Len(ents) + 1
    BY <2>3, <2>5, SequenceFacts
  <2>7. ASSUME NEW p \in DOMAIN o.ents, NEW q \in DOMAIN o.ents, o.ents[p].k = o.ents[q].k
        PROVE  p = q
    <3>1. CASE p \in 1 .. Len(ents) /\ q \in 1 .. Len(ents)
      BY <3>1, <2>5, <2>7, <1>1, <1>6
    <3>2. CASE p = Len(ents) + 1 /\ q \in 1 .. Len(ents)
      BY <3>2, <2>4, <2>5, <2>7, <1>2, <1>6
    <3>3. CASE q = Len(ents) + 1 /\ p \in 1 .. Len(ents)
      BY <3>3, <2>4, <2>5, <2>7, <1>2, <1>6
    <3> QED BY <3>1, <3>2, <3>3, <2>6, <1>6
  <2>8. d.n \in Int /\ o.n = f.out.n + v.n - d.n /\ o.n = 1 + Total(Counts(o.ents))
    <3> HIDE DEF d, ents
    <3> QED BY <1>1, <1>4, <1>5, <2>1, <2>3
  <2> QED BY <1>1, <1>3, <1>4, <2>3, <2>7, <2>8, ZenonT(60) DEF Sound
<1>8. CASE Holding(f.out, key) # {}
  <2> DEFINE h == CHOOSE p \in Holding(f.out, key) : TRUE
  <2>1. h \in DOMAIN ents /\ ents[h].k = key
    BY <1>8 DEF Holding
  <2>2. d = ents[h].v
    BY <1>8 DEF Displaced
  <2> HIDE DEF h, d
  <2>3. \A p \in DOMAIN ents : p # h => ents[p].k # key
    BY <1>1, <2>1
  <2>4. o.ents = [p \in DOMAIN ents |-> IF ents[p].k = key THEN e ELSE ents[p]]
    BY <1>4, <1>8
  <2>5. /\ DOMAIN o.ents = DOMAIN ents /\ o.ents[h] = e
        /\ \A p \in DOMAIN ents : p # h => o.ents[p] = ents[p]
    BY <2>1, <2>3, <2>4
  <2>6. IsSequence(o.ents) /\ Len(o.ents) = Len(ents)
    <3>1. o.ents = [p \in 1 .. Len(ents) |-> o.ents[p]]
      BY <2>4, <2>5, <1>6
    <3> QED BY <3>1, <1>6, SequenceOf
  <2>7. /\ \A p \in DOMAIN o.ents : o.ents[p].v.n \in Int
        /\ Total(Counts(o.ents)) = Total(Counts(ents)) + v.n - d.n
    <3>1. o.ents[h].v.n \in Int /\ o.ents[h].v.n = v.n /\ ents[h].v.n = d.n
      BY <1>2, <2>2, <2>5
    <3> DEFINE w == o.ents
    <3>2. /\ IsSequence(w) /\ Len(w) = Len(ents) /\ w[h].v.n \in Int
          /\ \A p \in DOMAIN ents : p # h => w[p] = ents[p]
      BY <2>5, <2>6, <3>1
    <3> HIDE DEF ents, w
    <3>3. IsSequence(ents) /\ (\A p \in DOMAIN ents : ents[p].v.n \in Int) /\ h \in DOMAIN ents
      BY <1>1, <2>1
    <3>4. /\ \A p \in DOMAIN w : w[p].v.n \in Int
          /\ Total(Counts(w)) = Total(Counts(ents)) + w[h].v.n - ents[h].v.n
      BY <3>2, <3>3, EntsReplace, Zenon
    <3> QED BY <3>1, <3>4 DEF w
  <2>8. ASSUME NEW p \in DOMAIN o.ents, NEW q \in DOMAIN o.ents, o.ents[p].k = o.ents[q].k
        PROVE  p = q
    <3>1. o.ents[p].k = ents[p].k /\ o.ents[q].k = ents[q].k
      BY <2>1, <2>5, <1>2
    <3> QED BY <3>1, <2>5, <2>8, <1>1
  <2>9. d.n \in Int
    BY <1>1, <2>1, <2>2
  <2>10. o.n = f.out.n + v.n - d.n /\ o.n = 1 + Total(Counts(o.ents))
    <3> HIDE DEF ents
    <3> QED BY <1>1, <1>4, <1>5, <2>7, <2>9
  <2> QED BY <1>1, <1>3, <1>4, <2>6, <2>7, <2>8, <2>9, <2>10 DEF Sound, d
<1> QED BY <1>7, <1>8
-----------------------------------------------------------------------------
(* The active calls.                                                       *)

Outs(fs) == [m \in DOMAIN fs |-> fs[m].out.n]
Stack(fs) == IsSequence(fs) /\ \A m \in DOMAIN fs : Sound(fs[m])

\* One call more holds one container more.
LEMMA OutsStep ==
  ASSUME NEW fs, Stack(fs), NEW gs, Stack(gs), Len(gs) = Len(fs) + 1,
         \A m \in 1 .. Len(fs) : gs[m] = fs[m]
  PROVE  /\ Total(Outs(fs)) \in Int /\ gs[Len(gs)].out.n \in Int
         /\ Total(Outs(gs)) = Total(Outs(fs)) + gs[Len(gs)].out.n
<1>1. /\ Len(fs) \in Nat /\ DOMAIN fs = 1 .. Len(fs)
      /\ Len(gs) \in Nat /\ DOMAIN gs = 1 .. Len(gs)
  BY SequenceFacts DEF Stack
<1>2. \A m \in 1 .. Len(fs) : fs[m].out.n \in Int
  BY <1>1, SoundTyped DEF Stack
<1>3. \A m \in 1 .. Len(gs) : gs[m].out.n \in Int
  BY <1>1, SoundTyped DEF Stack
<1> DEFINE xs == Outs(fs)
           u == Outs(gs)
<1>4. xs = [m \in 1 .. Len(fs) |-> fs[m].out.n] /\ u = [m \in 1 .. Len(gs) |-> gs[m].out.n]
  BY <1>1 DEF Outs
<1>5. xs \in Seq(Int) /\ Len(xs) = Len(fs) /\ \A m \in 1 .. Len(fs) : xs[m] = fs[m].out.n
  BY <1>1, <1>2, <1>4
<1>6. u \in Seq(Int) /\ Len(u) = Len(gs) /\ \A m \in 1 .. Len(gs) : u[m] = gs[m].out.n
  BY <1>1, <1>3, <1>4
<1> HIDE DEF xs, u
<1>7. ASSUME NEW m \in 1 .. Len(xs) PROVE u[m] = xs[m]
  <2>1. m \in 1 .. Len(fs) /\ m \in 1 .. Len(gs)
    BY <1>1, <1>5
  <2> QED BY <2>1, <1>5, <1>6
<1>8. Len(u) = Len(xs) + 1 /\ Len(gs) \in 1 .. Len(gs)
  BY <1>1, <1>5, <1>6
<1>9. Total(u) = Total(xs) + u[Len(u)]
  BY <1>5, <1>6, <1>7, <1>8, TotalStep
<1>10. u[Len(u)] = gs[Len(gs)].out.n
  BY <1>6, <1>8
<1>11. Total(xs) \in Int
  BY <1>5, TotalTyped
<1> QED BY <1>3, <1>8, <1>9, <1>10, <1>11 DEF xs, u

\* Entering and leaving a call.
LEMMA StackPush ==
  ASSUME NEW fs, Stack(fs), NEW f, Sound(f)
  PROVE  /\ Stack(Append(fs, f)) /\ Len(Append(fs, f)) = Len(fs) + 1
         /\ Append(fs, f)[Len(fs) + 1] = f
         /\ \A m \in 1 .. Len(fs) : Append(fs, f)[m] = fs[m]
         /\ Total(Outs(fs)) \in Int
         /\ Total(Outs(Append(fs, f))) = Total(Outs(fs)) + f.out.n
<1> DEFINE gs == Append(fs, f)
<1>1. /\ IsSequence(gs) /\ Len(gs) = Len(fs) + 1
      /\ gs[Len(fs) + 1] = f /\ \A m \in 1 .. Len(fs) : gs[m] = fs[m]
  BY SequencePush DEF Stack
<1>2. Len(fs) \in Nat /\ DOMAIN fs = 1 .. Len(fs)
  BY SequenceFacts DEF Stack
<1> HIDE DEF gs
<1>3. DOMAIN gs = 1 .. Len(fs) + 1
  BY <1>1, SequenceFacts
<1>4. ASSUME NEW m \in DOMAIN gs PROVE Sound(gs[m])
  <2>1. CASE m \in 1 .. Len(fs)
    BY <2>1, <1>1, <1>2 DEF Stack
  <2>2. CASE m = Len(fs) + 1
    BY <2>2, <1>1
  <2> QED BY <2>1, <2>2, <1>2, <1>3
<1>5. Stack(gs)
  BY <1>1, <1>4 DEF Stack
<1>6. Total(Outs(fs)) \in Int /\ Total(Outs(gs)) = Total(Outs(fs)) + gs[Len(gs)].out.n
  BY <1>1, <1>5, OutsStep
<1> QED BY <1>1, <1>5, <1>6 DEF gs

LEMMA StackPop ==
  ASSUME NEW fs, Stack(fs), fs # << >>, NEW gs, gs = SubSeq(fs, 1, Len(fs) - 1)
  PROVE  /\ Stack(gs) /\ Len(gs) = Len(fs) - 1 /\ Len(fs) \in Nat \ {0}
         /\ \A m \in 1 .. Len(fs) - 1 : gs[m] = fs[m]
         /\ Sound(fs[Len(fs)])
         /\ Total(Outs(gs)) \in Int /\ fs[Len(fs)].out.n \in Int
         /\ Total(Outs(fs)) = Total(Outs(gs)) + fs[Len(fs)].out.n
<1>1. /\ IsSequence(gs) /\ Len(gs) = Len(fs) - 1
      /\ \A m \in 1 .. Len(fs) - 1 : gs[m] = fs[m]
  BY SequenceFront DEF Stack
<1>2. Len(fs) \in Nat \ {0} /\ DOMAIN fs = 1 .. Len(fs)
  BY SequenceFacts DEF Stack
<1>3. DOMAIN gs = 1 .. Len(fs) - 1
  BY <1>1, SequenceFacts
<1>4. ASSUME NEW m \in DOMAIN gs PROVE Sound(gs[m])
  <2>1. m \in 1 .. Len(fs) - 1 /\ m \in DOMAIN fs
    BY <1>2, <1>3
  <2> QED BY <2>1, <1>1 DEF Stack
<1>5. Stack(gs)
  BY <1>1, <1>4 DEF Stack
<1>6. Len(fs) = Len(gs) + 1 /\ \A m \in 1 .. Len(gs) : fs[m] = gs[m]
  BY <1>1, <1>2
<1>7. /\ Total(Outs(gs)) \in Int /\ fs[Len(fs)].out.n \in Int
      /\ Total(Outs(fs)) = Total(Outs(gs)) + fs[Len(fs)].out.n
  BY <1>5, <1>6, OutsStep
<1>8. Sound(fs[Len(fs)])
  BY <1>2 DEF Stack
<1> QED BY <1>1, <1>2, <1>5, <1>7, <1>8

\* The keys held by the first n calls.
KeysOf(fs, n) == [m \in 1 .. n |-> KeyHeld(fs[m])]

LEMMA KeysStep ==
  ASSUME NEW fs, NEW n \in Nat
  PROVE  /\ Total(KeysOf(fs, n)) \in Int
         /\ Total(KeysOf(fs, n + 1)) = Total(KeysOf(fs, n)) + KeyHeld(fs[n + 1])
<1>1. \A m \in 1 .. n + 1 : KeyHeld(fs[m]) \in Int
  BY DEF KeyHeld
<1> DEFINE xs == KeysOf(fs, n)
           u == KeysOf(fs, n + 1)
<1>2. xs \in [1 .. n -> Int] /\ \A m \in 1 .. n : xs[m] = KeyHeld(fs[m])
  BY <1>1 DEF KeysOf
<1>3. u \in [1 .. n + 1 -> Int] /\ \A m \in 1 .. n + 1 : u[m] = KeyHeld(fs[m])
  BY <1>1 DEF KeysOf
<1> HIDE DEF xs, u
<1>4. xs \in Seq(Int) /\ Len(xs) = n
  BY <1>2
<1>5. u \in Seq(Int) /\ Len(u) = n + 1
  BY <1>3
<1>6. \A m \in 1 .. n : u[m] = xs[m]
  BY <1>2, <1>3
<1>7. Total(u) = Total(xs) + u[Len(u)]
  BY <1>4, <1>5, <1>6, TotalStep
<1>8. u[n + 1] = KeyHeld(fs[n + 1])
  BY <1>3
<1>9. Total(xs) \in Int
  BY <1>4, TotalTyped
<1> QED BY <1>5, <1>7, <1>8, <1>9 DEF xs, u

LEMMA KeysSame ==
  ASSUME NEW fs, NEW gs, NEW n \in Nat, \A m \in 1 .. n : gs[m] = fs[m]
  PROVE  KeysOf(gs, n) = KeysOf(fs, n)
BY DEF KeysOf
-----------------------------------------------------------------------------
(* The invariant.                                                          *)

Pending == IF mode \in {"return", "done"} THEN ret.v.n ELSE 0

LEMMA WalkInvIs ==
  WalkInv <=> /\ WalkShape
              /\ live = Total(Outs(frames)) + Pending
              /\ owned = Total(KeysOf(frames, InChild))
BY DEF WalkInv, Outs, KeysOf, Pending

\* A step leaves the call alone, so a key is sanitized before it if after.
LEMMA WalkInvNext ==
  ASSUME walk' = walk, WalkShape',
         live' = Total(Outs(frames')) + Pending',
         owned' = Total(KeysOf(frames', InChild'))
  PROVE  WalkInv'
<1>1. KeysOf(frames', InChild') = [m \in 1 .. InChild' |-> KeyHeld(frames[m])']
  BY DEF KeysOf, KeyHeld, Sanitizes
<1>2. [m \in 1 .. InChild |-> KeyHeld(frames[m])]' = [m \in 1 .. InChild' |-> KeyHeld(frames[m])']
  OBVIOUS
<1> QED BY <1>1, <1>2 DEF WalkInv, Outs, Pending

LEMMA ShapeStack == WalkShape <=> /\ mode \in {"call", "loop", "return", "done"}
                                  /\ Stack(frames)
                                  /\ mode = "loop" => frames # << >>
                                  /\ mode = "done" => frames = << >>
                                  /\ ret.v.n \in Int
BY DEF WalkShape, Stack

LEMMA InitWalkInv == Init => WalkInv
<1> SUFFICES ASSUME Init PROVE WalkInv
  OBVIOUS
<1>1. frames = << >> /\ mode = "call" /\ ret.v.n = 0 /\ live = 0 /\ owned = 0
  BY DEF Init, Null
<1>2. DOMAIN frames = {} /\ Len(frames) = 0
  BY <1>1
<1>3. IsSequence(frames)
  BY <1>1, EmptySequence
<1>4. Outs(frames) = << >> /\ KeysOf(frames, InChild) = << >>
  BY <1>1, <1>2 DEF Outs, KeysOf, InChild
<1>5. WalkShape
  BY <1>1, <1>2, <1>3 DEF WalkShape
<1> QED BY <1>1, <1>4, <1>5, TotalTyped, WalkInvIs DEF Pending
\* A call that fails or converts a scalar hands nothing up.
LEMMA ReturnsNothing ==
  ASSUME WalkInv, mode = "call", mode' = "return", ret'.v.n = 0,
         UNCHANGED <<walk, frames, live, owned>>
  PROVE  WalkInv'
<1>1. WalkShape'
  BY ShapeStack DEF WalkInv, WalkShape
<1>2. /\ WalkShape /\ live = Total(Outs(frames)) + Pending
      /\ owned = Total(KeysOf(frames, InChild))
  BY WalkInvIs
<1>3. Pending = 0 /\ Pending' = 0 /\ InChild' = InChild
  BY DEF Pending, InChild
<1> QED BY <1>1, <1>2, <1>3, WalkInvNext

LEMMA NewContainerSound ==
  ASSUME NEW node, NEW rem
  PROVE  LET f == [node |-> node, rem |-> rem, pos |-> 1, out |-> NewContainer(node)]
         IN  Sound(f) /\ f.out.n = 1
<1> DEFINE f == [node |-> node, rem |-> rem, pos |-> 1, out |-> NewContainer(node)]
<1>1. /\ DOMAIN f = {"node", "rem", "pos", "out"} /\ DOMAIN f.out = {"t", "tok", "ents", "n"}
      /\ f.out.n = 1 /\ f.out.ents = << >>
  BY DEF NewContainer
<1> HIDE DEF f
<1>2. Counts(f.out.ents) = << >> /\ DOMAIN f.out.ents = {}
  BY <1>1 DEF Counts
<1>3. Sound(f)
  BY <1>1, <1>2, TotalTyped, EmptySequence DEF Sound
<1> QED BY <1>1, <1>3 DEF f

\* Entering a container.
LEMMA ContainerStep == WalkInv /\ WalkContainer => WalkInv'
<1> SUFFICES ASSUME WalkInv, WalkContainer PROVE WalkInv'
  OBVIOUS
<1>1. /\ WalkShape /\ live = Total(Outs(frames)) + Pending
      /\ owned = Total(KeysOf(frames, InChild))
  BY WalkInvIs
<1>2. /\ mode = "call" /\ mode' = "loop" /\ walk' = walk /\ ret' = ret /\ owned' = owned
      /\ live' = live + 1
  BY DEF WalkContainer
<1> DEFINE f == [node |-> arg.node, rem |-> arg.rem, pos |-> 1, out |-> NewContainer(arg.node)]
<1>3. frames' = Append(frames, f)
  BY DEF WalkContainer
<1>4. Sound(f) /\ f.out.n = 1
  BY NewContainerSound
<1> HIDE DEF f
<1>5. Stack(frames) /\ ret.v.n \in Int
  BY <1>1, ShapeStack
<1>6. /\ Stack(frames') /\ Len(frames') = Len(frames) + 1
      /\ \A m \in 1 .. Len(frames) : frames'[m] = frames[m]
      /\ Total(Outs(frames)) \in Int
      /\ Total(Outs(frames')) = Total(Outs(frames)) + 1
  BY <1>3, <1>4, <1>5, StackPush
<1>7. Len(frames) \in Nat
  BY <1>5, SequenceFacts DEF Stack
<1>8. frames' # << >>
  BY <1>6, <1>7
<1>9. WalkShape'
  BY <1>2, <1>5, <1>6, <1>8 DEF WalkShape, Stack
<1>10. InChild = Len(frames) /\ InChild' = Len(frames)
  BY <1>2, <1>6, <1>7 DEF InChild
<1>11. KeysOf(frames', Len(frames)) = KeysOf(frames, Len(frames))
  BY <1>6, <1>7, KeysSame
<1>12. Pending = 0 /\ Pending' = 0
  BY <1>2 DEF Pending
<1> QED BY <1>1, <1>2, <1>6, <1>9, <1>10, <1>11, <1>12, WalkInvNext

\* Going into a child: the call now holds the key it sanitized.
LEMMA CallStep ==
  ASSUME WalkInv, mode = "loop", mode' = "call",
         UNCHANGED <<walk, frames, ret, live>>, owned' = owned + KeyHeld(top)
  PROVE  WalkInv'
<1>1. /\ WalkShape /\ live = Total(Outs(frames)) + Pending
      /\ owned = Total(KeysOf(frames, InChild))
  BY WalkInvIs
<1>2. Stack(frames) /\ frames # << >>
  BY <1>1, ShapeStack
<1>3. Len(frames) \in Nat \ {0}
  BY <1>2, SequenceFacts DEF Stack
<1>4. InChild = Len(frames) - 1 /\ InChild' = Len(frames) /\ Len(frames) - 1 \in Nat
  BY <1>3 DEF InChild
<1>5. Total(KeysOf(frames, (Len(frames) - 1) + 1))
        = Total(KeysOf(frames, Len(frames) - 1)) + KeyHeld(top)
  <2>1. (Len(frames) - 1) + 1 = Len(frames)
    BY <1>3
  <2>2. Total(KeysOf(frames, (Len(frames) - 1) + 1))
        = Total(KeysOf(frames, Len(frames) - 1)) + KeyHeld(frames[(Len(frames) - 1) + 1])
    BY <1>4, KeysStep
  <2> QED BY <2>1, <2>2 DEF top
<1>6. Pending = 0 /\ Pending' = 0
  BY DEF Pending
<1>7. WalkShape'
  BY <1>1 DEF WalkShape
<1>8. owned' = Total(KeysOf(frames', InChild'))
  <2>1. (Len(frames) - 1) + 1 = Len(frames)
    BY <1>3
  <2> QED BY <1>1, <1>4, <1>5, <2>1
<1> QED BY <1>1, <1>6, <1>7, <1>8, WalkInvNext

\* Leaving the loop: the container goes up as it is.
LEMMA LeaveStep ==
  ASSUME WalkInv, mode = "loop", mode' = "return", ret'.v = top.out, frames' = Below,
         UNCHANGED <<walk, live, owned>>
  PROVE  WalkInv'
<1>1. /\ WalkShape /\ live = Total(Outs(frames)) + Pending
      /\ owned = Total(KeysOf(frames, InChild))
  BY WalkInvIs
<1>2. Stack(frames) /\ frames # << >>
  BY <1>1, ShapeStack
<1>3. /\ Stack(frames') /\ Len(frames') = Len(frames) - 1 /\ Len(frames) \in Nat \ {0}
      /\ \A m \in 1 .. Len(frames) - 1 : frames'[m] = frames[m]
      /\ Total(Outs(frames')) \in Int /\ top.out.n \in Int
      /\ Total(Outs(frames)) = Total(Outs(frames')) + top.out.n
  BY <1>2, StackPop DEF Below, top
<1>4. Pending = 0 /\ Pending' = top.out.n
  BY DEF Pending
<1>5. WalkShape'
  BY <1>3 DEF WalkShape, Stack
<1>6. InChild = Len(frames) - 1 /\ InChild' = Len(frames) - 1 /\ Len(frames) - 1 \in Nat
  BY <1>3 DEF InChild
<1>7. KeysOf(frames', Len(frames) - 1) = KeysOf(frames, Len(frames) - 1)
  BY <1>3, <1>6, KeysSame
<1> QED BY <1>1, <1>3, <1>4, <1>5, <1>6, <1>7, WalkInvNext
\* Back in a call: what its key costs, and what is left when it returns too.
LEMMA BackInCall ==
  ASSUME WalkInv, mode = "return", frames # << >>
  PROVE  /\ Stack(Below) /\ Len(Below) = Len(frames) - 1 /\ Len(frames) - 1 \in Nat
         /\ \A m \in 1 .. Len(frames) - 1 : Below[m] = frames[m]
         /\ Sound(top) /\ top.out.n \in Int /\ ret.v.n \in Int
         /\ Total(Outs(Below)) \in Int
         /\ live = Total(Outs(Below)) + top.out.n + ret.v.n
         /\ ReleasesKey = Total(KeysOf(Below, Len(frames) - 1))
<1>1. /\ WalkShape /\ live = Total(Outs(frames)) + Pending
      /\ owned = Total(KeysOf(frames, InChild))
  BY WalkInvIs
<1>2. Stack(frames) /\ ret.v.n \in Int
  BY <1>1, ShapeStack
<1>3. /\ Stack(Below) /\ Len(Below) = Len(frames) - 1 /\ Len(frames) \in Nat \ {0}
      /\ \A m \in 1 .. Len(frames) - 1 : Below[m] = frames[m]
      /\ Sound(top) /\ Total(Outs(Below)) \in Int /\ top.out.n \in Int
      /\ Total(Outs(frames)) = Total(Outs(Below)) + top.out.n
  BY <1>2, StackPop DEF Below, top
<1>4. Pending = ret.v.n
  BY DEF Pending
<1>5. InChild = Len(frames) /\ Len(frames) - 1 \in Nat /\ (Len(frames) - 1) + 1 = Len(frames)
  BY <1>3 DEF InChild
<1>6. /\ Total(KeysOf(frames, Len(frames) - 1)) \in Int
      /\ Total(KeysOf(frames, (Len(frames) - 1) + 1))
           = Total(KeysOf(frames, Len(frames) - 1)) + KeyHeld(frames[(Len(frames) - 1) + 1])
  BY <1>5, KeysStep
<1>7. owned = Total(KeysOf(frames, Len(frames) - 1)) + KeyHeld(top)
  BY <1>1, <1>5, <1>6 DEF top
<1>8. KeyHeld(top) = IF top.node.t = "obj" /\ Sanitizes(Kid.k) THEN 1 ELSE 0
  BY DEF KeyHeld, Kid
<1>9. ReleasesKey = Total(KeysOf(frames, Len(frames) - 1))
  BY <1>6, <1>7, <1>8 DEF ReleasesKey
<1>10. KeysOf(Below, Len(frames) - 1) = KeysOf(frames, Len(frames) - 1)
  BY <1>3, <1>5, KeysSame
<1> QED BY <1>1, <1>2, <1>3, <1>4, <1>5, <1>9, <1>10

\* The child is stored; a value it displaces is freed.
LEMMA StoreStep == WalkInv /\ StoreChild => WalkInv'
<1> SUFFICES ASSUME WalkInv, StoreChild PROVE WalkInv'
  OBVIOUS
<1> DEFINE isobj == top.node.t = "obj"
           key == HashKey(Kid.k)
           f == [top EXCEPT !.pos = @ + 1,
                            !.out = IF isobj THEN Updated(@, key, ret.v) ELSE Pushed(@, ret.v)]
           freed == IF isobj THEN Displaced(top.out, key).n ELSE 0
<1>1. /\ mode = "return" /\ frames # << >> /\ mode' = "loop"
      /\ walk' = walk /\ ret' = ret /\ owned' = ReleasesKey
      /\ frames' = Append(Below, f)
      /\ live' = IF isobj THEN live - Displaced(top.out, key).n ELSE live
  BY DEF StoreChild
<1>2. /\ Stack(Below) /\ Len(Below) = Len(frames) - 1 /\ Len(frames) - 1 \in Nat
      /\ \A m \in 1 .. Len(frames) - 1 : Below[m] = frames[m]
      /\ Sound(top) /\ top.out.n \in Int /\ ret.v.n \in Int
      /\ Total(Outs(Below)) \in Int
      /\ live = Total(Outs(Below)) + top.out.n + ret.v.n
      /\ ReleasesKey = Total(KeysOf(Below, Len(frames) - 1))
  BY <1>1, BackInCall
<1>3. Sound(f) /\ freed \in Int /\ f.out.n = top.out.n + ret.v.n - freed
  <2>1. CASE isobj
    <3>1. f = [top EXCEPT !.pos = @ + 1, !.out = Updated(@, key, ret.v)]
      BY <2>1
    <3> HIDE DEF f, key
    <3>2. /\ Sound(f) /\ Displaced(top.out, key).n \in Int
          /\ f.out.n = top.out.n + ret.v.n - Displaced(top.out, key).n
      BY <2>1, <3>1, <1>2, UpdatedSound, ZenonT(60)
    <3> QED BY <2>1, <3>2
  <2>2. CASE ~ isobj
    <3>1. f = [top EXCEPT !.pos = @ + 1, !.out = Pushed(@, ret.v)]
      BY <2>2
    <3> HIDE DEF f, key
    <3>2. Sound(f) /\ f.out.n = top.out.n + ret.v.n
      BY <2>2, <3>1, <1>2, PushedSound, ZenonT(60)
    <3> QED BY <2>2, <3>2, <1>2
  <2> QED BY <2>1, <2>2
<1>4. live' = live - freed
  <2>1. live \in Int
    BY <1>2
  <2> HIDE DEF f, key
  <2> QED BY <1>1, <2>1
<1> HIDE DEF f, freed, key, isobj
<1>5. /\ Stack(frames') /\ Len(frames') = Len(frames)
      /\ \A m \in 1 .. Len(frames) - 1 : frames'[m] = Below[m]
      /\ Total(Outs(frames')) = Total(Outs(Below)) + f.out.n
  <2>1. /\ Stack(frames') /\ Len(frames') = Len(Below) + 1
        /\ \A m \in 1 .. Len(Below) : frames'[m] = Below[m]
        /\ Total(Outs(frames')) = Total(Outs(Below)) + f.out.n
    <3>1. frames' = Append(Below, f) /\ Stack(Below) /\ Sound(f)
      BY <1>1, <1>2, <1>3
    <3> HIDE DEF f
    <3> QED BY ONLY <3>1, StackPush, Zenon
  <2>2. Len(frames) \in Int
    BY <1>1, ShapeStack, SequenceFacts DEF Stack, WalkInv
  <2> QED BY <2>1, <2>2, <1>2
<1>6. Len(frames) \in Nat \ {0}
  <2>1. Len(frames) \in Nat
    BY <1>1, ShapeStack, SequenceFacts DEF Stack, WalkInv
  <2> QED BY <2>1, <1>2
<1>7. frames' # << >>
  BY <1>5, <1>6
<1>8. WalkShape'
  BY <1>1, <1>2, <1>5, <1>7 DEF WalkShape, Stack
<1>9. InChild' = Len(frames) - 1 /\ Pending' = 0
  BY <1>1, <1>5 DEF InChild, Pending
<1>10. KeysOf(frames', Len(frames) - 1) = KeysOf(Below, Len(frames) - 1)
  BY <1>2, <1>5, KeysSame
<1>11. live' = Total(Outs(frames')) + Pending'
  <2> DEFINE a == Total(Outs(Below))
             b == top.out.n
             c == ret.v.n
  <2>1. /\ a \in Int /\ b \in Int /\ c \in Int /\ freed \in Int
        /\ live' = a + b + c - freed
        /\ Total(Outs(frames')) = a + (b + c - freed)
    BY <1>2, <1>3, <1>4, <1>5, SMTT(60)
  <2> HIDE DEF a, b, c
  <2> QED BY <2>1, <1>9
<1>12. owned' = Total(KeysOf(frames', InChild'))
  BY <1>1, <1>2, <1>9, <1>10
<1> QED BY <1>1, <1>8, <1>11, <1>12, WalkInvNext

\* The child is freed, and the container filled so far goes up.
LEMMA FailedStep == WalkInv /\ ChildFailed => WalkInv'
<1> SUFFICES ASSUME WalkInv, ChildFailed PROVE WalkInv'
  OBVIOUS
<1>1. /\ mode = "return" /\ frames # << >> /\ mode' = "return" /\ walk' = walk
      /\ ret'.v = top.out /\ frames' = Below
      /\ owned' = ReleasesKey /\ live' = live - ret.v.n
  BY DEF ChildFailed, Return
<1>2. /\ Stack(Below) /\ Len(Below) = Len(frames) - 1 /\ Len(frames) - 1 \in Nat
      /\ top.out.n \in Int /\ ret.v.n \in Int /\ Total(Outs(Below)) \in Int
      /\ live = Total(Outs(Below)) + top.out.n + ret.v.n
      /\ ReleasesKey = Total(KeysOf(Below, Len(frames) - 1))
  BY <1>1, BackInCall
<1>3. WalkShape'
  BY <1>1, <1>2 DEF WalkShape, Stack
<1>4. InChild' = Len(frames) - 1 /\ Pending' = top.out.n
  BY <1>1, <1>2 DEF InChild, Pending
<1>5. live' = Total(Outs(frames')) + Pending'
  BY <1>1, <1>2, <1>4
<1>6. owned' = Total(KeysOf(frames', InChild'))
  BY <1>1, <1>2, <1>4
<1> QED BY <1>1, <1>3, <1>5, <1>6, WalkInvNext

\* With no call left, what lives is the value returned.
LEMMA OutermostHoldsNothing ==
  ASSUME WalkInv, frames = << >>, mode \in {"return", "done"}
  PROVE  live = ret.v.n /\ owned = 0 /\ ret.v.n \in Int
<1>1. /\ WalkShape /\ live = Total(Outs(frames)) + Pending
      /\ owned = Total(KeysOf(frames, InChild))
  BY WalkInvIs
<1>2. ret.v.n \in Int /\ Pending = ret.v.n
  BY <1>1 DEF WalkShape, Pending
<1>3. DOMAIN frames = {} /\ Len(frames) = 0
  OBVIOUS
<1>4. Outs(frames) = << >> /\ KeysOf(frames, InChild) = << >>
  BY <1>3 DEF Outs, KeysOf, InChild
<1> QED BY <1>1, <1>2, <1>4, TotalTyped

LEMMA EndsStep == WalkInv /\ WalkEnds => WalkInv'
<1> SUFFICES ASSUME WalkInv, WalkEnds PROVE WalkInv'
  OBVIOUS
<1>1. /\ mode = "return" /\ frames = << >> /\ mode' = "done"
      /\ UNCHANGED <<walk, frames, owned>>
      /\ live' = (IF ret.ok THEN live ELSE live - ret.v.n)
      /\ ret' = (IF ret.ok THEN ret ELSE [ok |-> FALSE, v |-> Null])
  BY DEF WalkEnds
<1>2. live = ret.v.n /\ owned = 0 /\ ret.v.n \in Int
  BY <1>1, OutermostHoldsNothing
<1>3. live' = ret'.v.n /\ ret'.v.n \in Int
  <2>1. CASE ret.ok
    BY <2>1, <1>1, <1>2
  <2>2. CASE ~ ret.ok
    <3>1. live' = live - ret.v.n /\ ret'.v = Null
      BY <2>2, <1>1
    <3>2. live' = 0
      BY <3>1, <1>2
    <3>3. Null.n = 0
      BY DEF Null
    <3>4. ret'.v.n = 0
      BY <3>1, <3>3, Zenon
    <3> QED BY <3>2, <3>4
  <2> QED BY <2>1, <2>2
<1>4. WalkShape'
  BY <1>1, <1>3 DEF WalkShape, WalkInv
<1>5. DOMAIN frames = {} /\ Len(frames) = 0
  BY <1>1
<1>6. Outs(frames') = << >> /\ KeysOf(frames', InChild') = << >>
  BY <1>1, <1>5 DEF Outs, KeysOf, InChild
<1>7. Pending' = ret'.v.n
  BY <1>1 DEF Pending
<1> QED BY <1>1, <1>2, <1>3, <1>4, <1>6, <1>7, TotalTyped, WalkInvNext

LEMMA NextWalkInv == WalkInv /\ [Next]_vars => WalkInv'
<1> SUFFICES ASSUME WalkInv, [Next]_vars PROVE WalkInv'
  OBVIOUS
<1>1. CASE WalkTooDeep
  BY <1>1, ReturnsNothing DEF WalkTooDeep, Fails, Return, Null
<1>2. CASE WalkStackOverflows
  BY <1>2, ReturnsNothing DEF WalkStackOverflows, Fails, Return, Null
<1>3. CASE WalkScalar
  BY <1>3, ReturnsNothing DEF WalkScalar, Return, Scalar
<1>4. CASE WalkContainer
  BY <1>4, ContainerStep
<1>5. CASE NextElement
  <2>1. top.node.t # "obj"
    BY <1>5 DEF NextElement
  <2>2. KeyHeld(top) = 0
    BY <2>1 DEF KeyHeld
  <2>3. owned \in Int
    <3>1. Len(frames) \in Nat \ {0}
      BY <1>5, ShapeStack, SequenceFacts DEF Stack, WalkInv, NextElement
    <3>2. InChild \in Nat
      BY <3>1 DEF InChild
    <3> QED BY <3>2, KeysStep, WalkInvIs
  <2> QED BY <1>5, <2>2, <2>3, CallStep DEF NextElement, CallKid
<1>6. CASE NextMember
  <2>1. top.node.t = "obj"
    BY <1>6 DEF NextMember
  <2>2. KeyHeld(top) = IF Sanitizes(Kid.k) THEN 1 ELSE 0
    BY <2>1 DEF KeyHeld, Kid
  <2>3. owned \in Int
    <3>1. Len(frames) \in Nat \ {0}
      BY <1>6, ShapeStack, SequenceFacts DEF Stack, WalkInv, NextMember
    <3>2. InChild \in Nat
      BY <3>1 DEF InChild
    <3> QED BY <3>2, KeysStep, WalkInvIs
  <2>4. owned' = owned + KeyHeld(top)
    BY <1>6, <2>2, <2>3 DEF NextMember
  <2> QED BY <1>6, <2>4, CallStep DEF NextMember, CallKid
<1>7. CASE NextMemberRefused
  BY <1>7, LeaveStep DEF NextMemberRefused, Return
<1>8. CASE LoopEnds
  BY <1>8, LeaveStep DEF LoopEnds, Return
<1>9. CASE StoreChild
  BY <1>9, StoreStep
<1>10. CASE ChildFailed
  BY <1>10, FailedStep
<1>11. CASE WalkEnds
  BY <1>11, EndsStep
<1>12. CASE UNCHANGED vars
  BY <1>12 DEF vars, WalkInv, WalkShape, InChild, KeyHeld, Sanitizes
<1> QED BY <1>1, <1>2, <1>3, <1>4, <1>5, <1>6, <1>7, <1>8, <1>9, <1>10, <1>11, <1>12 DEF Next

(***************************************************************************)
(* At every moment of a walk each live container belongs to one active     *)
(* call or to the value on its way up, each sanitized key to one call that *)
(* is in a child: fj_walk_* and fastjson_walk_doc_into for every document, *)
(* every depth limit and wherever the native stack gives out.              *)
(***************************************************************************)
THEOREM WalkInvariant == Spec => []WalkInv
BY InitWalkInv, NextWalkInv, PTL DEF Spec

(***************************************************************************)
(* No container and no sanitized key is lost or freed twice: what is alive *)
(* when fastjson_walk_doc_into returns is what it returned.                *)
(***************************************************************************)
THEOREM WalkFreesEverything == Spec => []NothingLeaks
<1>1. WalkInv => NothingLeaks
  <2> SUFFICES ASSUME WalkInv, mode = "done" PROVE live = ret.v.n /\ owned = 0
    BY DEF NothingLeaks
  <2>1. frames = << >>
    BY DEF WalkInv, WalkShape
  <2> QED BY <2>1, OutermostHoldsNothing
<1> QED BY <1>1, WalkInvariant, PTL

-----------------------------------------------------------------------------
(* The scan of a document's depth.                                         *)

ScanInv ==
  /\ scan_limit \in Nat /\ scan_pc \in {"start", "scan", "done"}
  /\ \E S : iterators \in Seq(S)
  /\ cap \in Nat /\ Len(iterators) <= cap
  /\ scan_pc = "start" => iterators = <<>>
  /\ scan_pc = "scan" => Len(iterators) > 0 /\ depth = Len(iterators) /\ depth < scan_limit

\* A sequence stays one when its last element is replaced.
LEMMA LastReplaced ==
  ASSUME NEW S, NEW q \in Seq(S), NEW x
  PROVE  LET u == [q EXCEPT ![Len(q)] = x]
         IN  u \in Seq(S \cup {x}) /\ Len(u) = Len(q)
<1> DEFINE u == [q EXCEPT ![Len(q)] = x]
           L == Len(q)
<1>1. L \in Nat /\ DOMAIN q = 1 .. L /\ \A k \in 1 .. L : q[k] \in S
  OBVIOUS
<1>2. u = [k \in 1 .. L |-> IF k = L THEN x ELSE q[k]]
  BY <1>1
<1> HIDE DEF L, u
<1>3. u \in Seq(S \cup {x}) /\ Len(u) = L
  BY <1>1, <1>2
<1> QED BY <1>3 DEF u, L

LEMMA ScanStarts ==
  ASSUME ScanInit
  PROVE  ScanInv
<1>1. scan_limit \in Nat /\ scan_pc = "start" /\ iterators = <<>> /\ cap = 0
  BY DEF ScanInit
<1>2. \E S : iterators \in Seq(S)
  <2>1. <<>> \in Seq({})
    OBVIOUS
  <2> QED BY <1>1, <2>1
<1>3. Len(iterators) = 0
  BY <1>1
<1> QED BY <1>1, <1>2, <1>3 DEF ScanInv

LEMMA ScanKeepsInv ==
  ASSUME ScanInv, [ScanNext]_scanvars
  PROVE  ScanInv'
<1> DEFINE L == Len(iterators)
<1>1. PICK S : iterators \in Seq(S)
  BY DEF ScanInv
<1>2. /\ scan_limit \in Nat /\ scan_pc \in {"start", "scan", "done"}
      /\ cap \in Nat /\ L \in Nat /\ L <= cap
      /\ scan_pc = "scan" => L > 0 /\ depth = L /\ depth < scan_limit
  BY <1>1 DEF ScanInv
<1>3. /\ \E T : Stepped \in Seq(T)
      /\ Len(Stepped) = L
  <2> DEFINE x == [iterators[L] EXCEPT !.pos = @ + 1]
  <2>1. Stepped = [iterators EXCEPT ![L] = x]
    BY DEF Stepped
  <2> HIDE DEF x
  <2>2. Stepped \in Seq(S \cup {x}) /\ Len(Stepped) = L
    BY <1>1, <2>1, LastReplaced
  <2> QED BY <2>2
<1>4. CASE BeginScan
  <2>1. /\ scan_limit' = scan_limit /\ scan_pc' \in {"scan", "done"} /\ scan_pc = "start"
        /\ \/ iterators' = iterators /\ cap' = cap /\ scan_pc' = "done"
           \/ /\ scan_limit \notin {0, 1} /\ cap' = InitialCap /\ depth' = 1
              /\ iterators' = <<Iter(scanned)>>
    BY <1>4 DEF BeginScan, Answers, scanargs
  <2>2. CASE iterators' = iterators /\ cap' = cap /\ scan_pc' = "done"
    BY <1>1, <1>2, <2>1, <2>2 DEF ScanInv
  <2>3. CASE /\ scan_limit \notin {0, 1} /\ cap' = InitialCap /\ depth' = 1
             /\ iterators' = <<Iter(scanned)>>
    <3>1. Len(iterators') = 1 /\ iterators' \in Seq({Iter(scanned)})
      BY <2>3
    <3>2. 1 < scan_limit
      BY <1>2, <2>3
    <3>3. \E T : iterators' \in Seq(T)
      BY <3>1
    <3> QED BY CapAssumption, <1>2, <2>1, <2>3, <3>1, <3>2, <3>3 DEF ScanInv
  <2> QED BY <2>1, <2>2, <2>3
<1>5. CASE SkipScalar
  <2>1. /\ scan_pc = "scan" /\ scan_pc' = "scan" /\ scan_limit' = scan_limit
        /\ iterators' = Stepped /\ cap' = cap /\ depth' = depth
    BY <1>5 DEF SkipScalar, scanargs
  <2> QED BY <1>2, <1>3, <2>1 DEF ScanInv
<1>6. CASE Descend
  <2>1. /\ scan_pc = "scan" /\ scan_pc' = "scan" /\ scan_limit' = scan_limit
        /\ cap' = Grown /\ depth' = depth + 1 /\ depth + 1 < scan_limit
        /\ iterators' = Append(Stepped, Iter(Child))
    BY <1>6 DEF Descend, scanargs
  <2>2. Grown \in Nat /\ L + 1 <= Grown
    BY <1>2, <2>1 DEF Grown
  <2>3. Len(iterators') = L + 1 /\ \E T : iterators' \in Seq(T)
    <3> DEFINE y == Iter(Child)
               q == Stepped
    <3>1. PICK T : q \in Seq(T)
      BY <1>3
    <3>2. Len(q) = L /\ iterators' = Append(q, y)
      BY <1>3, <2>1
    <3> HIDE DEF y, q
    <3>3. q \in Seq(T \cup {y}) /\ y \in T \cup {y}
      BY <3>1
    <3>4. Append(q, y) \in Seq(T \cup {y}) /\ Len(Append(q, y)) = Len(q) + 1
      BY <3>3
    <3> QED BY <3>2, <3>4
  <2> QED BY <1>2, <2>1, <2>2, <2>3 DEF ScanInv
<1>7. CASE Ascend
  <2>1. /\ scan_pc = "scan" /\ scan_pc' = "scan" /\ scan_limit' = scan_limit
        /\ cap' = cap /\ depth' = depth - 1 /\ L > 1
        /\ iterators' = SubSeq(iterators, 1, L - 1)
    BY <1>7 DEF Ascend, scanargs
  <2>2. Len(iterators') = L - 1 /\ \E T : iterators' \in Seq(T)
    <3>1. SubSeq(iterators, 1, L - 1) \in Seq(S) /\ Len(SubSeq(iterators, 1, L - 1)) = L - 1
      BY <1>1, <1>2, <2>1
    <3> QED BY <2>1, <3>1
  <2>3. L \in Nat /\ depth = L /\ depth < scan_limit /\ L <= cap /\ L > 1
    BY <1>2, <2>1
  <2> HIDE DEF L
  <2>4. Len(iterators') > 0 /\ depth' = Len(iterators') /\ depth' < scan_limit
        /\ Len(iterators') <= cap
    BY <1>2, <2>1, <2>2, <2>3
  <2> QED BY <1>2, <2>1, <2>2, <2>4 DEF ScanInv
<1>8. CASE ReachLimit \/ ScanEnds
  <2>1. /\ scan_pc' = "done" /\ scan_limit' = scan_limit
        /\ iterators' = iterators /\ cap' = cap
    BY <1>8 DEF ReachLimit, ScanEnds, Answers, scanargs
  <2> QED BY <1>1, <1>2, <2>1 DEF ScanInv
<1>9. CASE UNCHANGED scanvars
  <2>1. /\ scan_pc' = scan_pc /\ scan_limit' = scan_limit
        /\ iterators' = iterators /\ cap' = cap /\ depth' = depth
    BY <1>9 DEF scanvars, scanargs
  <2> QED BY <2>1 DEF ScanInv
<1> QED BY <1>4, <1>5, <1>6, <1>7, <1>8, <1>9 DEF ScanNext

\* The scan of a merge patch's depth stays inside its allocation, whatever the
\* document, the limit and the allocation it starts with.
THEOREM ScanStaysInBounds == ScanSpec => []StackInBounds
<1>1. ScanInit => ScanInv
  BY ScanStarts
<1>2. ScanInv /\ [ScanNext]_scanvars => ScanInv'
  BY ScanKeepsInv
<1>3. ScanInv => StackInBounds
  BY DEF ScanInv, StackInBounds
<1> QED BY <1>1, <1>2, <1>3, PTL DEF ScanSpec
===============================================================================
