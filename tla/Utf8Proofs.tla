----------------------------- MODULE Utf8Proofs -----------------------------
(***************************************************************************)
(* The readers of UTF-8 recognise the standard's characters, and only      *)
(* those, in every byte string, and the sanitizer keeps exactly them.  A   *)
(* string is written, whichever way it takes, as one pass of the library   *)
(* would have written it, and within the capacity that was reserved; the   *)
(* hexadecimal escapes are put in as if it had been written with them.     *)
(***************************************************************************)
EXTENDS Utf8, StringEmit, DataInduction, SequenceTheorems

-----------------------------------------------------------------------------
(* One character *)

LEMMA OffsetIs ==
  ASSUME NEW t \in Text, NEW p \in Offsets(t)
  PROVE  Len(t) \in Nat /\ p \in Nat /\ p < Len(t) /\ p + 1 <= Len(t)
BY DEF Text, Offsets

LEMMA ByteAt ==
  ASSUME NEW t \in Text, NEW p \in Offsets(t)
  PROVE  At(t, p) \in Byte /\ At(t, p) \in 0..255
<1>1. p + 1 \in 1 .. Len(t)
  BY OffsetIs
<1>2. \A k \in 1 .. Len(t) : t[k] \in Byte
  BY DEF Text
<1>3. At(t, p) \in Byte
  BY <1>1, <1>2 DEF At
<1> QED BY <1>3 DEF Byte

\* A row of the table, by its length.
LEMMA RowSpelled ==
  ASSUME NEW t \in Text, NEW p \in Offsets(t), NEW r1, NEW b, NEW c, NEW d
  PROVE  /\ Spelled(t, p, <<r1>>) <=> At(t, p) \in r1
         /\ Spelled(t, p, <<r1, b>>) <=>
              p + 2 <= Len(t) /\ At(t, p) \in r1 /\ At(t, p + 1) \in b
         /\ Spelled(t, p, <<r1, b, c>>) <=>
              /\ p + 3 <= Len(t)
              /\ At(t, p) \in r1 /\ At(t, p + 1) \in b /\ At(t, p + 2) \in c
         /\ Spelled(t, p, <<r1, b, c, d>>) <=>
              /\ p + 4 <= Len(t)
              /\ At(t, p) \in r1 /\ At(t, p + 1) \in b /\ At(t, p + 2) \in c
              /\ At(t, p + 3) \in d
<1>1. Len(t) \in Nat /\ p \in Int /\ p + 1 <= Len(t)
  BY OffsetIs
<1>2. /\ p + 1 - 1 = p /\ p + 2 - 1 = p + 1 /\ p + 3 - 1 = p + 2 /\ p + 4 - 1 = p + 3
  BY <1>1
<1>3. Spelled(t, p, <<r1>>) <=> At(t, p) \in r1
  <2>1. Len(<<r1>>) = 1 /\ <<r1>>[1] = r1 /\ 1 .. 1 = {1}
    OBVIOUS
  <2> QED BY <1>1, <1>2, <2>1 DEF Spelled
<1>4. Spelled(t, p, <<r1, b>>) <=> p + 2 <= Len(t) /\ At(t, p) \in r1 /\ At(t, p + 1) \in b
  <2> DEFINE r == <<r1, b>>
  <2>1. Len(r) = 2 /\ r[1] = r1 /\ r[2] = b /\ 1 .. 2 = {1, 2}
    OBVIOUS
  <2> HIDE DEF r
  <2>2. Spelled(t, p, r) <=> p + 2 <= Len(t) /\ At(t, p + 1 - 1) \in r[1] /\ At(t, p + 2 - 1) \in r[2]
    BY <2>1 DEF Spelled
  <2> QED BY <1>2, <2>1, <2>2 DEF r
<1>5. Spelled(t, p, <<r1, b, c>>) <=>
        /\ p + 3 <= Len(t)
        /\ At(t, p) \in r1 /\ At(t, p + 1) \in b /\ At(t, p + 2) \in c
  <2> DEFINE r == <<r1, b, c>>
  <2>1. Len(r) = 3 /\ r[1] = r1 /\ r[2] = b /\ r[3] = c /\ 1 .. 3 = {1, 2, 3}
    OBVIOUS
  <2> HIDE DEF r
  <2>2. Spelled(t, p, r) <=>
          /\ p + 3 <= Len(t) /\ At(t, p + 1 - 1) \in r[1]
          /\ At(t, p + 2 - 1) \in r[2] /\ At(t, p + 3 - 1) \in r[3]
    BY <2>1 DEF Spelled
  <2> QED BY <1>2, <2>1, <2>2 DEF r
<1>6. Spelled(t, p, <<r1, b, c, d>>) <=>
        /\ p + 4 <= Len(t)
        /\ At(t, p) \in r1 /\ At(t, p + 1) \in b /\ At(t, p + 2) \in c /\ At(t, p + 3) \in d
  <2> DEFINE r == <<r1, b, c, d>>
  <2>1. /\ Len(r) = 4 /\ r[1] = r1 /\ r[2] = b /\ r[3] = c /\ r[4] = d
        /\ 1 .. 4 = {1, 2, 3, 4}
    OBVIOUS
  <2> HIDE DEF r
  <2>2. Spelled(t, p, r) <=>
          /\ p + 4 <= Len(t) /\ At(t, p + 1 - 1) \in r[1] /\ At(t, p + 2 - 1) \in r[2]
          /\ At(t, p + 3 - 1) \in r[3] /\ At(t, p + 4 - 1) \in r[4]
    BY <2>1 DEF Spelled
  <2> QED BY <1>2, <2>1, <2>2 DEF r
<1> QED BY <1>3, <1>4, <1>5, <1>6

\* The bytes of a character of n bytes, row by row of the table.
Spells(t, p, n) ==
  /\ p + n <= Len(t)
  /\ \/ n = 1 /\ At(t, p) \in 0..127
     \/ n = 2 /\ At(t, p) \in 194..223 /\ Trail(At(t, p + 1))
     \/ /\ n = 3 /\ At(t, p) \in 224..239
        /\ Trail(At(t, p + 1)) /\ Trail(At(t, p + 2))
        /\ At(t, p) = 224 => At(t, p + 1) >= 160
        /\ At(t, p) = 237 => At(t, p + 1) < 160
     \/ /\ n = 4 /\ At(t, p) \in 240..244
        /\ Trail(At(t, p + 1)) /\ Trail(At(t, p + 2)) /\ Trail(At(t, p + 3))
        /\ At(t, p) = 240 => At(t, p + 1) >= 144
        /\ At(t, p) = 244 => At(t, p + 1) < 144

LEMMA AnnouncedIs ==
  /\ \A c \in 0..127 : Announced(c) = 1
  /\ \A c \in 128..193 : Announced(c) = 0
  /\ \A c \in 194..223 : Announced(c) = 2
  /\ \A c \in 224..239 : Announced(c) = 3
  /\ \A c \in 240..244 : Announced(c) = 4
  /\ \A c \in 245..255 : Announced(c) = 0
BY DEF Announced

\* What a row of each length has in its columns.
Row1(r1) == \A x \in r1 : x \in 0..127
Row2(r1, b) == (\A x \in r1 : x \in 194..223) /\ \A x \in b : Trail(x)
Row3(r1, b, c) ==
  /\ \A x \in r1 : x \in 224..239
  /\ \A x \in b : Trail(x)
  /\ \A x \in c : Trail(x)
  /\ 224 \in r1 => \A x \in b : x >= 160
  /\ 237 \in r1 => \A x \in b : x < 160
Row4(r1, b, c) ==
  /\ \A x \in r1 : x \in 240..244
  /\ \A x \in b : Trail(x)
  /\ \A x \in c : Trail(x)
  /\ 240 \in r1 => \A x \in b : x >= 144
  /\ 244 \in r1 => \A x \in b : x < 144

LEMMA Rows ==
  ASSUME NEW row \in Sequences3_7
  PROVE  \/ \E r1 : row = <<r1>> /\ Row1(r1)
         \/ \E r1, b : row = <<r1, b>> /\ Row2(r1, b)
         \/ \E r1, b, c : row = <<r1, b, c>> /\ Row3(r1, b, c)
         \/ \E r1, b, c : row = <<r1, b, c, c>> /\ Row4(r1, b, c)
<1>1. Row1(0..127) /\ Row2(194..223, 128..191)
  BY DEF Row1, Row2, Trail
<1>2. Row3({224}, 160..191, 128..191) /\ Row3(225..236, 128..191, 128..191)
  BY DEF Row3, Trail
<1>3. Row3({237}, 128..159, 128..191) /\ Row3(238..239, 128..191, 128..191)
  BY DEF Row3, Trail
<1>4. /\ Row4({240}, 144..191, 128..191) /\ Row4(241..243, 128..191, 128..191)
      /\ Row4({244}, 128..143, 128..191)
  BY DEF Row4, Trail
<1> DEFINE kind == \/ \E r1 : row = <<r1>> /\ Row1(r1)
                   \/ \E r1, b : row = <<r1, b>> /\ Row2(r1, b)
                   \/ \E r1, b, c : row = <<r1, b, c>> /\ Row3(r1, b, c)
                   \/ \E r1, b, c : row = <<r1, b, c, c>> /\ Row4(r1, b, c)
<1>5. row = <<0..127>> => kind
  BY <1>1, ZenonT(60)
<1>6. row = <<194..223, 128..191>> => kind
  BY <1>1, ZenonT(60)
<1>7. row = <<{224}, 160..191, 128..191>> => kind
  BY <1>2, ZenonT(60)
<1>8. row = <<225..236, 128..191, 128..191>> => kind
  BY <1>2, ZenonT(60)
<1>9. row = <<{237}, 128..159, 128..191>> => kind
  BY <1>3, ZenonT(60)
<1>10. row = <<238..239, 128..191, 128..191>> => kind
  BY <1>3, ZenonT(60)
<1>11. row = <<{240}, 144..191, 128..191, 128..191>> => kind
  <2> SUFFICES ASSUME row = <<{240}, 144..191, 128..191, 128..191>>
               PROVE  \E r1, b, c : row = <<r1, b, c, c>> /\ Row4(r1, b, c)
    OBVIOUS
  <2> WITNESS {240}, 144..191, 128..191
  <2> QED BY <1>4, ZenonT(60)
<1>12. row = <<241..243, 128..191, 128..191, 128..191>> => kind
  <2> SUFFICES ASSUME row = <<241..243, 128..191, 128..191, 128..191>>
               PROVE  \E r1, b, c : row = <<r1, b, c, c>> /\ Row4(r1, b, c)
    OBVIOUS
  <2> WITNESS 241..243, 128..191, 128..191
  <2> QED BY <1>4, ZenonT(60)
<1>13. row = <<{244}, 128..143, 128..191, 128..191>> => kind
  <2> SUFFICES ASSUME row = <<{244}, 128..143, 128..191, 128..191>>
               PROVE  \E r1, b, c : row = <<r1, b, c, c>> /\ Row4(r1, b, c)
    OBVIOUS
  <2> WITNESS {244}, 128..143, 128..191
  <2> QED BY <1>4, ZenonT(60)
<1>14. kind
  <2> HIDE DEF kind
  <2>1. \/ row = <<0..127>>
        \/ row = <<194..223, 128..191>>
        \/ row = <<{224}, 160..191, 128..191>>
        \/ row = <<225..236, 128..191, 128..191>>
        \/ row = <<{237}, 128..159, 128..191>>
        \/ row = <<238..239, 128..191, 128..191>>
        \/ row = <<{240}, 144..191, 128..191, 128..191>>
        \/ row = <<241..243, 128..191, 128..191, 128..191>>
        \/ row = <<{244}, 128..143, 128..191, 128..191>>
    BY ZenonT(60) DEF Sequences3_7
  <2> QED BY ONLY <1>5, <1>6, <1>7, <1>8, <1>9, <1>10, <1>11, <1>12, <1>13, <2>1, ZenonT(60)
<1> QED BY <1>14

LEMMA RowSpells ==
  ASSUME NEW t \in Text, NEW p \in Offsets(t), NEW row \in Sequences3_7, Spelled(t, p, row)
  PROVE  Len(row) \in 1..4 /\ Spells(t, p, Len(row)) /\ Len(row) = Announced(At(t, p))
<1> DEFINE ok(n) == n \in 1..4 /\ Spells(t, p, n) /\ n = Announced(At(t, p))
<1>1. Len(t) \in Nat /\ p \in Nat /\ p + 1 <= Len(t)
  BY OffsetIs
<1>2. ASSUME NEW r1, row = <<r1>>, Row1(r1) PROVE ok(Len(row))
  <2>1. At(t, p) \in r1 /\ Len(row) = 1
    BY <1>2, RowSpelled
  <2>2. At(t, p) \in 0..127
    BY <1>2, <2>1 DEF Row1
  <2>3. ok(1)
    <3>1. Announced(At(t, p)) = 1
      BY <2>2, AnnouncedIs
    <3>2. Spells(t, p, 1)
      BY <1>1, <2>2 DEF Spells
    <3> QED BY <3>1, <3>2
  <2> HIDE DEF ok
  <2> QED BY <2>1, <2>3
<1>3. ASSUME NEW r1, NEW b, row = <<r1, b>>, Row2(r1, b) PROVE ok(Len(row))
  <2>1. p + 2 <= Len(t) /\ At(t, p) \in r1 /\ At(t, p + 1) \in b /\ Len(row) = 2
    BY <1>3, RowSpelled
  <2>2. At(t, p) \in 194..223 /\ Trail(At(t, p + 1))
    BY <1>3, <2>1 DEF Row2
  <2>3. ok(2)
    <3>1. Announced(At(t, p)) = 2
      BY <2>2, AnnouncedIs
    <3>2. Spells(t, p, 2)
      BY <1>1, <2>1, <2>2 DEF Spells
    <3> QED BY <3>1, <3>2
  <2> HIDE DEF ok
  <2> QED BY <2>1, <2>3
<1>4. ASSUME NEW r1, NEW b, NEW c, row = <<r1, b, c>>, Row3(r1, b, c) PROVE ok(Len(row))
  <2>1. /\ p + 3 <= Len(t) /\ At(t, p) \in r1 /\ At(t, p + 1) \in b
        /\ At(t, p + 2) \in c /\ Len(row) = 3
    BY <1>4, RowSpelled
  <2>2. /\ At(t, p) \in 224..239 /\ Trail(At(t, p + 1)) /\ Trail(At(t, p + 2))
        /\ At(t, p) = 224 => At(t, p + 1) >= 160
        /\ At(t, p) = 237 => At(t, p + 1) < 160
    BY <1>4, <2>1 DEF Row3
  <2>3. ok(3)
    <3>1. Announced(At(t, p)) = 3
      BY <2>2, AnnouncedIs
    <3>2. Spells(t, p, 3)
      BY <1>1, <2>1, <2>2 DEF Spells
    <3> QED BY <3>1, <3>2
  <2> HIDE DEF ok
  <2> QED BY <2>1, <2>3
<1>5. ASSUME NEW r1, NEW b, NEW c, row = <<r1, b, c, c>>, Row4(r1, b, c) PROVE ok(Len(row))
  <2>1. /\ p + 4 <= Len(t) /\ At(t, p) \in r1 /\ At(t, p + 1) \in b
        /\ At(t, p + 2) \in c /\ At(t, p + 3) \in c /\ Len(row) = 4
    BY <1>5, RowSpelled
  <2>2. /\ At(t, p) \in 240..244
        /\ Trail(At(t, p + 1)) /\ Trail(At(t, p + 2)) /\ Trail(At(t, p + 3))
        /\ At(t, p) = 240 => At(t, p + 1) >= 144
        /\ At(t, p) = 244 => At(t, p + 1) < 144
    BY <1>5, <2>1 DEF Row4
  <2>3. ok(4)
    <3>1. Announced(At(t, p)) = 4
      BY <2>2, AnnouncedIs
    <3>2. Spells(t, p, 4)
      BY <1>1, <2>1, <2>2 DEF Spells
    <3> QED BY <3>1, <3>2
  <2> HIDE DEF ok
  <2> QED BY <2>1, <2>3
<1>6. ok(Len(row))
  <2> HIDE DEF ok
  <2> QED BY <1>2, <1>3, <1>4, <1>5, Rows
<1> QED BY <1>6

\* And the other way: a character by Spells is one of the table.
LEMMA SpellsChar ==
  ASSUME NEW t \in Text, NEW p \in Offsets(t), NEW n, Spells(t, p, n)
  PROVE  CharAt(t, p)
<1> DEFINE c == At(t, p)
           d == At(t, p + 1)
           tail == 128..191
<1>1. c \in 0..255 /\ Len(t) \in Nat /\ p \in Nat
  BY OffsetIs, ByteAt
<1>2. ASSUME NEW row \in Sequences3_7, Spelled(t, p, row) PROVE CharAt(t, p)
  BY <1>2 DEF CharAt
<1>3. \A x : Trail(x) => x \in tail
  BY DEF Trail
<1>4. CASE n = 1 /\ c \in 0..127
  <2> DEFINE r1 == 0..127
  <2>1. <<r1>> \in Sequences3_7
    BY ZenonT(60) DEF Sequences3_7
  <2>2. c \in r1
    BY <1>4
  <2> HIDE DEF r1
  <2> QED BY <1>2, <2>1, <2>2, RowSpelled
<1>5. CASE n = 2 /\ p + 2 <= Len(t) /\ c \in 194..223 /\ Trail(d)
  <2> DEFINE r1 == 194..223
  <2>1. <<r1, tail>> \in Sequences3_7
    BY ZenonT(60) DEF Sequences3_7
  <2>2. c \in r1 /\ d \in tail
    BY <1>3, <1>5
  <2> HIDE DEF r1, tail
  <2> QED BY <1>2, <1>5, <2>1, <2>2, RowSpelled
<1>6. CASE /\ n = 3 /\ p + 3 <= Len(t) /\ c \in 224..239 /\ Trail(d) /\ Trail(At(t, p + 2))
           /\ c = 224 => d >= 160
           /\ c = 237 => d < 160
  <2>1. c \in 224..239 /\ d \in 128..191 /\ (c = 224 => d >= 160) /\ (c = 237 => d < 160)
    BY <1>6 DEF Trail
  <2>2. \/ c \in {224} /\ d \in 160..191
        \/ c \in 225..236 /\ d \in 128..191
        \/ c \in {237} /\ d \in 128..159
        \/ c \in 238..239 /\ d \in 128..191
    BY <2>1
  <2>3. At(t, p + 2) \in tail
    BY <1>3, <1>6
  <2>4. ASSUME NEW r1, NEW b, c \in r1 /\ d \in b, <<r1, b, tail>> \in Sequences3_7
        PROVE  CharAt(t, p)
    <3> HIDE DEF tail
    <3> QED BY <1>2, <1>6, <2>3, <2>4, RowSpelled
  <2>5. /\ <<{224}, 160..191, tail>> \in Sequences3_7
        /\ <<225..236, 128..191, tail>> \in Sequences3_7
        /\ <<{237}, 128..159, tail>> \in Sequences3_7
        /\ <<238..239, 128..191, tail>> \in Sequences3_7
    BY DEF Sequences3_7
  <2> HIDE DEF c, d, tail
  <2>6. c \in {224} /\ d \in 160..191 => CharAt(t, p)
    BY <2>4, <2>5, ZenonT(60)
  <2>7. c \in 225..236 /\ d \in 128..191 => CharAt(t, p)
    BY <2>4, <2>5, ZenonT(60)
  <2>8. c \in {237} /\ d \in 128..159 => CharAt(t, p)
    BY <2>4, <2>5, ZenonT(60)
  <2>9. c \in 238..239 /\ d \in 128..191 => CharAt(t, p)
    BY <2>4, <2>5, ZenonT(60)
  <2> QED BY <2>2, <2>6, <2>7, <2>8, <2>9, ZenonT(60)
<1>7. CASE /\ n = 4 /\ p + 4 <= Len(t) /\ c \in 240..244
           /\ Trail(d) /\ Trail(At(t, p + 2)) /\ Trail(At(t, p + 3))
           /\ c = 240 => d >= 144
           /\ c = 244 => d < 144
  <2>1. c \in 240..244 /\ d \in 128..191 /\ (c = 240 => d >= 144) /\ (c = 244 => d < 144)
    BY <1>7 DEF Trail
  <2>2. \/ c \in {240} /\ d \in 144..191
        \/ c \in 241..243 /\ d \in 128..191
        \/ c \in {244} /\ d \in 128..143
    BY <2>1
  <2>3. At(t, p + 2) \in tail /\ At(t, p + 3) \in tail
    BY <1>3, <1>7
  <2>4. ASSUME NEW r1, NEW b, c \in r1 /\ d \in b, <<r1, b, tail, tail>> \in Sequences3_7
        PROVE  CharAt(t, p)
    <3> HIDE DEF tail
    <3> QED BY <1>2, <1>7, <2>3, <2>4, RowSpelled
  <2>5. /\ <<{240}, 144..191, tail, tail>> \in Sequences3_7
        /\ <<241..243, 128..191, tail, tail>> \in Sequences3_7
        /\ <<{244}, 128..143, tail, tail>> \in Sequences3_7
    BY DEF Sequences3_7
  <2> HIDE DEF c, d, tail
  <2>6. c \in {240} /\ d \in 144..191 => CharAt(t, p)
    BY <2>4, <2>5, ZenonT(60)
  <2>7. c \in 241..243 /\ d \in 128..191 => CharAt(t, p)
    BY <2>4, <2>5, ZenonT(60)
  <2>8. c \in {244} /\ d \in 128..143 => CharAt(t, p)
    BY <2>4, <2>5, ZenonT(60)
  <2> QED BY <2>2, <2>6, <2>7, <2>8, ZenonT(60)
<1> QED BY <1>4, <1>5, <1>6, <1>7 DEF Spells

LEMMA CharIsSpells ==
  ASSUME NEW t \in Text, NEW p \in Offsets(t)
  PROVE  /\ CharAt(t, p) <=> Spells(t, p, Announced(At(t, p)))
         /\ CharAt(t, p) => SizeAt(t, p) = Announced(At(t, p))
<1>1. ASSUME CharAt(t, p)
      PROVE  Spells(t, p, Announced(At(t, p))) /\ SizeAt(t, p) = Announced(At(t, p))
  <2> DEFINE row == CHOOSE row \in Sequences3_7 : Spelled(t, p, row)
  <2>1. row \in Sequences3_7 /\ Spelled(t, p, row) /\ SizeAt(t, p) = Len(row)
    BY <1>1 DEF CharAt, SizeAt
  <2> HIDE DEF row
  <2> QED BY <2>1, RowSpells
<1> QED BY <1>1, SpellsChar

LEMMA StartIsSpells ==
  ASSUME NEW t \in Text, NEW p \in Offsets(t)
  PROVE  fastjson_byte_is_valid_utf8_start(t, p) <=> Spells(t, p, Announced(At(t, p)))
<1> DEFINE c == At(t, p)
           start == fastjson_byte_is_valid_utf8_start(t, p)
<1>1. Len(t) \in Nat /\ p \in Nat /\ p < Len(t)
  BY OffsetIs
<1>9. c \in 0..255
  BY ByteAt
<1>2. CASE Announced(c) = 0
  BY <1>2 DEF fastjson_byte_is_valid_utf8_start, Spells
<1>3. CASE c \in 0..127
  <2>1. Announced(c) = 1
    BY <1>9, <1>3, AnnouncedIs
  <2>2. Spells(t, p, 1)
    BY <1>1, <1>3 DEF Spells
  <2>3. start
    <3>1. 1 .. 1 - 1 = {} /\ 1 > 0 /\ c # 224 /\ c # 237 /\ c # 240 /\ c # 244
      BY <1>3
    <3>2. p < Len(t) /\ p + 1 <= Len(t)
      BY <1>1
    <3> HIDE DEF c
    <3>3. c = At(t, p)
      BY DEF c
    <3> QED BY <2>1, <3>1, <3>2, <3>3, ZenonT(60) DEF fastjson_byte_is_valid_utf8_start
  <2> QED BY <2>1, <2>2, <2>3
<1>4. ASSUME NEW n \in {2, 3, 4}, Announced(c) = n
      PROVE  start <=> /\ p + n <= Len(t)
                       /\ \A k \in 1 .. n - 1 : Trail(At(t, p + k))
                       /\ ~(c = 224 /\ At(t, p + 1) < 160) /\ ~(c = 237 /\ At(t, p + 1) >= 160)
                       /\ ~(c = 240 /\ At(t, p + 1) < 144) /\ ~(c = 244 /\ At(t, p + 1) >= 144)
  <2>1. p < Len(t) /\ n > 0
    BY <1>1
  <2> QED BY <1>4, <2>1, ZenonT(60) DEF fastjson_byte_is_valid_utf8_start
<1>5. CASE c \in 194..223
  <2>1. Announced(c) = 2 /\ 1 .. 2 - 1 = {1} /\ 2 \in {2, 3, 4}
    <3>1. Announced(c) = 2
      BY <1>5, <1>9, AnnouncedIs
    <3> QED BY <3>1
  <2>2. c # 224 /\ c # 237 /\ c # 240 /\ c # 244
    BY <1>5
  <2>3. start <=> p + 2 <= Len(t) /\ Trail(At(t, p + 1))
    <3> HIDE DEF start, c
    <3> QED BY <1>4, <2>1, <2>2
  <2>4. Spells(t, p, 2) <=> p + 2 <= Len(t) /\ Trail(At(t, p + 1))
    BY <1>5 DEF Spells
  <2> QED BY <2>1, <2>3, <2>4
<1>6. CASE c \in 224..239
  <2> DEFINE d == At(t, p + 1)
  <2>1. Announced(c) = 3 /\ 1 .. 3 - 1 = {1, 2} /\ 3 \in {2, 3, 4}
    <3>1. Announced(c) = 3
      BY <1>6, <1>9, AnnouncedIs
    <3> QED BY <3>1
  <2>2. c # 240 /\ c # 244
    BY <1>6
  <2>3. start <=> /\ p + 3 <= Len(t) /\ Trail(d) /\ Trail(At(t, p + 2))
                  /\ ~(c = 224 /\ d < 160) /\ ~(c = 237 /\ d >= 160)
    <3> HIDE DEF start, c
    <3> QED BY <1>4, <2>1, <2>2
  <2>4. Spells(t, p, 3) <=> /\ p + 3 <= Len(t) /\ Trail(d) /\ Trail(At(t, p + 2))
                            /\ c = 224 => d >= 160
                            /\ c = 237 => d < 160
    BY <1>6 DEF Spells
  <2>5. Trail(d) => d \in 128..191
    BY DEF Trail
  <2>6. Trail(d) => ((c = 224 => d >= 160) <=> ~(c = 224 /\ d < 160))
                 /\ ((c = 237 => d < 160) <=> ~(c = 237 /\ d >= 160))
    BY <2>5
  <2> QED BY <2>1, <2>3, <2>4, <2>6, ZenonT(60)
<1>7. CASE c \in 240..244
  <2> DEFINE d == At(t, p + 1)
  <2>1. Announced(c) = 4 /\ 1 .. 4 - 1 = {1, 2, 3} /\ 4 \in {2, 3, 4}
    <3>1. Announced(c) = 4
      BY <1>7, <1>9, AnnouncedIs
    <3> QED BY <3>1
  <2>2. c # 224 /\ c # 237
    BY <1>7
  <2>3. start <=> /\ p + 4 <= Len(t)
                  /\ Trail(d) /\ Trail(At(t, p + 2)) /\ Trail(At(t, p + 3))
                  /\ ~(c = 240 /\ d < 144) /\ ~(c = 244 /\ d >= 144)
    <3> HIDE DEF start, c
    <3> QED BY <1>4, <2>1, <2>2
  <2>4. Spells(t, p, 4) <=> /\ p + 4 <= Len(t)
                            /\ Trail(d) /\ Trail(At(t, p + 2)) /\ Trail(At(t, p + 3))
                            /\ c = 240 => d >= 144
                            /\ c = 244 => d < 144
    BY <1>7 DEF Spells
  <2>5. Trail(d) => d \in 128..191
    BY DEF Trail
  <2>6. Trail(d) => ((c = 240 => d >= 144) <=> ~(c = 240 /\ d < 144))
                 /\ ((c = 244 => d < 144) <=> ~(c = 244 /\ d >= 144))
    BY <2>5
  <2> QED BY <2>1, <2>3, <2>4, <2>6, ZenonT(60)
<1>8. CASE c \in 128..193 \/ c \in 245..255
  <2>1. Announced(c) = 0
    BY <1>8, <1>9, AnnouncedIs
  <2> QED BY <1>2, <2>1
<1> QED BY <1>9, <1>3, <1>5, <1>6, <1>7, <1>8

Cp2(c, d) == 64 * (c % 32) + (d % 64)
Cp3(c, d, e) == 4096 * (c % 16) + 64 * (d % 64) + (e % 64)
Cp4(c, d, e, f) == 262144 * (c % 8) + 4096 * (d % 64) + 64 * (e % 64) + (f % 64)

LEMMA OneInRange == \A x : InRange(x, 1)
BY SMT DEF InRange

LEMMA InRangeIs ==
  ASSUME NEW x \in Int
  PROVE  /\ InRange(x, 2) <=> x >= 128
         /\ InRange(x, 3) <=> x >= 2048 /\ ~ (55296 <= x /\ x <= 57343)
         /\ InRange(x, 4) <=> 65536 <= x /\ x <= 1114111
BY SMT DEF InRange

\* The low bits of a byte, and what the code points of two, three and four
\* bytes say of those bytes.
LEMMA LowBits ==
  /\ \A d \in 128..191 : d % 64 = d - 128
  /\ \A c \in 194..223 : c % 32 = c - 192
  /\ \A c \in 224..239 : c % 16 = c - 224
  /\ \A c \in 240..244 : c % 8 = c - 240
BY SMT

LEMMA InRange2 ==
  ASSUME NEW c \in 194..223, NEW d \in 128..191
  PROVE  InRange(Cp2(c, d), 2)
<1> DEFINE x == 64 * (c - 192) + (d - 128)
<1>1. Cp2(c, d) = x
  BY LowBits, SMT DEF Cp2
<1>2. x \in Int /\ x >= 128
  BY SMT
<1> HIDE DEF x
<1> QED BY <1>1, <1>2, InRangeIs, SMT

LEMMA InRange3 ==
  ASSUME NEW c \in 224..239, NEW d \in 128..191, NEW e \in 128..191
  PROVE  InRange(Cp3(c, d, e), 3) <=> (c = 224 => d >= 160) /\ (c = 237 => d < 160)
<1> DEFINE x == 4096 * (c - 224) + 64 * (d - 128) + (e - 128)
<1>1. Cp3(c, d, e) = x
  BY LowBits, SMT DEF Cp3
<1>2. /\ x \in Int
      /\ x >= 2048 /\ ~ (55296 <= x /\ x <= 57343)
           <=> (c = 224 => d >= 160) /\ (c = 237 => d < 160)
  BY SMT
<1> HIDE DEF x
<1> QED BY <1>1, <1>2, InRangeIs, SMT

LEMMA InRange4 ==
  ASSUME NEW c \in 240..244, NEW d \in 128..191, NEW e \in 128..191, NEW f \in 128..191
  PROVE  InRange(Cp4(c, d, e, f), 4) <=> (c = 240 => d >= 144) /\ (c = 244 => d < 144)
<1> DEFINE x == 262144 * (c - 240) + 4096 * (d - 128) + 64 * (e - 128) + (f - 128)
<1>1. Cp4(c, d, e, f) = x
  BY LowBits, SMT DEF Cp4
<1>2. /\ x \in Int
      /\ 65536 <= x /\ x <= 1114111 <=> (c = 240 => d >= 144) /\ (c = 244 => d < 144)
  BY SMT
<1> HIDE DEF x
<1> QED BY <1>1, <1>2, InRangeIs, SMT

LEMMA GoodIsSpells ==
  ASSUME NEW t \in Text, NEW p \in Offsets(t)
  PROVE  Good(t, p) <=> Spells(t, p, Announced(At(t, p)))
<1> DEFINE c == At(t, p)
           d == At(t, p + 1)
           e == At(t, p + 2)
           f == At(t, p + 3)
<1>1. c \in 0..255
  BY ByteAt
<1>2. CASE Announced(c) = 0
  BY <1>2 DEF Good, Spells
<1>3. \A x : Trail(x) <=> x \in 128..191
  BY DEF Trail
<1>4. CASE c \in 0..127
  <2>1. Announced(c) = 1 /\ 1 > 0 /\ 1 .. 1 - 1 = {}
    <3>1. Announced(c) = 1
      BY <1>1, <1>4, AnnouncedIs
    <3> QED BY <3>1
  <2>2. p + 1 <= Len(t)
    BY OffsetIs
  <2>3. Spells(t, p, 1)
    BY <1>4, <2>2 DEF Spells
  <2>4. InRange(CodePoint(t, p, 1), 1)
    BY OneInRange
  <2> QED BY <2>1, <2>2, <2>3, <2>4, ZenonT(60) DEF Good, AllTrail
<1>5. CASE c \in 194..223
  <2>1. Announced(c) = 2 /\ 2 > 0 /\ 1 .. 2 - 1 = {1}
    <3>1. Announced(c) = 2
      BY <1>1, <1>5, AnnouncedIs
    <3> QED BY <3>1
  <2>2. AllTrail(t, p, 2) <=> p + 2 <= Len(t) /\ Trail(d)
    BY <2>1 DEF AllTrail
  <2>3. CodePoint(t, p, 2) = Cp2(c, d)
    BY SMT DEF CodePoint, Cp2
  <2>4. Trail(d) => InRange(CodePoint(t, p, 2), 2)
    <3>1. Trail(d) => InRange(Cp2(c, d), 2)
      BY <1>3, <1>5, InRange2, ZenonT(60)
    <3> QED BY <2>3, <3>1, SMT
  <2>5. Spells(t, p, 2) <=> p + 2 <= Len(t) /\ Trail(d)
    BY <1>5 DEF Spells
  <2> QED BY <2>1, <2>2, <2>4, <2>5, ZenonT(60) DEF Good
<1>6. CASE c \in 224..239
  <2>1. Announced(c) = 3 /\ 3 > 0 /\ 1 .. 3 - 1 = {1, 2}
    <3>1. Announced(c) = 3
      BY <1>1, <1>6, AnnouncedIs
    <3> QED BY <3>1
  <2>2. AllTrail(t, p, 3) <=> p + 3 <= Len(t) /\ Trail(d) /\ Trail(e)
    BY <2>1 DEF AllTrail
  <2> DEFINE fits == (c = 224 => d >= 160) /\ (c = 237 => d < 160)
  <2>3. CodePoint(t, p, 3) = Cp3(c, d, e)
    BY SMT DEF CodePoint, Cp3
  <2>4. Trail(d) /\ Trail(e) => (InRange(CodePoint(t, p, 3), 3) <=> fits)
    <3>1. ASSUME Trail(d), Trail(e) PROVE InRange(Cp3(c, d, e), 3) <=> fits
      <4>1. d \in 128..191 /\ e \in 128..191
        BY <1>3, <3>1
      <4> QED BY <1>6, <4>1, InRange3, ZenonT(60)
    <3> HIDE DEF fits
    <3> QED BY <2>3, <3>1, SMT
  <2>5. Spells(t, p, 3) <=> p + 3 <= Len(t) /\ Trail(d) /\ Trail(e) /\ fits
    BY <1>6 DEF Spells
  <2> HIDE DEF fits
  <2> QED BY <2>1, <2>2, <2>4, <2>5, ZenonT(60) DEF Good
<1>7. CASE c \in 240..244
  <2>1. Announced(c) = 4 /\ 4 > 0 /\ 1 .. 4 - 1 = {1, 2, 3}
    <3>1. Announced(c) = 4
      BY <1>1, <1>7, AnnouncedIs
    <3> QED BY <3>1
  <2>2. AllTrail(t, p, 4) <=> p + 4 <= Len(t) /\ Trail(d) /\ Trail(e) /\ Trail(f)
    BY <2>1 DEF AllTrail
  <2> DEFINE fits == (c = 240 => d >= 144) /\ (c = 244 => d < 144)
  <2>3. CodePoint(t, p, 4) = Cp4(c, d, e, f)
    BY SMT DEF CodePoint, Cp4
  <2>4. Trail(d) /\ Trail(e) /\ Trail(f) => (InRange(CodePoint(t, p, 4), 4) <=> fits)
    <3>1. ASSUME Trail(d), Trail(e), Trail(f) PROVE InRange(Cp4(c, d, e, f), 4) <=> fits
      <4>1. d \in 128..191 /\ e \in 128..191 /\ f \in 128..191
        BY <1>3, <3>1
      <4> QED BY <1>7, <4>1, InRange4, ZenonT(60)
    <3> HIDE DEF fits
    <3> QED BY <2>3, <3>1, SMT
  <2>5. Spells(t, p, 4) <=> p + 4 <= Len(t) /\ Trail(d) /\ Trail(e) /\ Trail(f) /\ fits
    BY <1>7 DEF Spells
  <2> HIDE DEF fits
  <2> QED BY <2>1, <2>2, <2>4, <2>5, ZenonT(60) DEF Good
<1>8. CASE c \in 128..193 \/ c \in 245..255
  <2>1. Announced(c) = 0
    BY <1>1, <1>8, AnnouncedIs
  <2> QED BY <1>2, <2>1
<1> QED BY <1>1, <1>4, <1>5, <1>6, <1>7, <1>8

-----------------------------------------------------------------------------
(* Characters in a text *)

LEMMA SpellsFacts ==
  ASSUME NEW t \in Text, NEW p \in Offsets(t), NEW n, Spells(t, p, n)
  PROVE  /\ n \in 1..4 /\ p + n <= Len(t) /\ ~ Trail(At(t, p)) /\ Lead(At(t, p))
         /\ \A k \in 1 .. n - 1 : Trail(At(t, p + k))
<1>1. p + n <= Len(t)
  BY DEF Spells
<1>2. CASE n = 1 /\ At(t, p) \in 0..127
  <2>1. n \in 1..4 /\ ~ Trail(At(t, p)) /\ Lead(At(t, p))
    BY <1>2 DEF Trail, Lead
  <2>2. 1 .. 1 - 1 = {}
    OBVIOUS
  <2> QED BY <1>1, <1>2, <2>1, <2>2, ZenonT(60)
<1>3. CASE n = 2 /\ At(t, p) \in 194..223 /\ Trail(At(t, p + 1))
  <2>1. n \in 1..4 /\ ~ Trail(At(t, p)) /\ Lead(At(t, p))
    BY <1>3 DEF Trail, Lead
  <2>2. 1 .. 2 - 1 = {1}
    OBVIOUS
  <2> QED BY <1>1, <1>3, <2>1, <2>2, ZenonT(60)
<1>4. CASE n = 3 /\ At(t, p) \in 224..239 /\ Trail(At(t, p + 1)) /\ Trail(At(t, p + 2))
  <2>1. n \in 1..4 /\ ~ Trail(At(t, p)) /\ Lead(At(t, p))
    BY <1>4 DEF Trail, Lead
  <2>2. 1 .. 3 - 1 = {1, 2}
    OBVIOUS
  <2> QED BY <1>1, <1>4, <2>1, <2>2, ZenonT(60)
<1>5. CASE /\ n = 4 /\ At(t, p) \in 240..244
           /\ Trail(At(t, p + 1)) /\ Trail(At(t, p + 2)) /\ Trail(At(t, p + 3))
  <2>1. n \in 1..4 /\ ~ Trail(At(t, p)) /\ Lead(At(t, p))
    BY <1>5 DEF Trail, Lead
  <2>2. 1 .. 4 - 1 = {1, 2, 3}
    OBVIOUS
  <2> QED BY <1>1, <1>5, <2>1, <2>2, ZenonT(60)
<1> QED BY <1>2, <1>3, <1>4, <1>5 DEF Spells

\* A character ends in the text, and only its first byte can start one.
LEMMA CharFacts ==
  ASSUME NEW t \in Text, NEW p \in Offsets(t), CharAt(t, p)
  PROVE  /\ SizeAt(t, p) \in 1..4 /\ p + SizeAt(t, p) <= Len(t)
         /\ SizeAt(t, p) = Announced(At(t, p))
         /\ ~ Trail(At(t, p)) /\ Lead(At(t, p))
         /\ \A k \in 1 .. SizeAt(t, p) - 1 : Trail(At(t, p + k))
BY CharIsSpells, SpellsFacts

\* Characters do not overlap.
LEMMA Apart ==
  ASSUME NEW t \in Text, NEW p \in Offsets(t), NEW q \in Offsets(t),
         CharAt(t, p), CharAt(t, q), q < p
  PROVE  q + SizeAt(t, q) <= p
<1>1. SizeAt(t, q) \in 1..4 /\ p \in Nat /\ q \in Nat
  BY CharFacts, OffsetIs
<1>2. \A k \in 1 .. SizeAt(t, q) - 1 : Trail(At(t, q + k))
  BY CharFacts
<1>3. ~ Trail(At(t, p))
  BY CharFacts
<1> DEFINE n == SizeAt(t, q)
<1> HIDE DEF n
<1>4. SUFFICES ASSUME p < q + n PROVE FALSE
  BY <1>1 DEF n
<1>5. p - q \in 1 .. n - 1 /\ q + (p - q) = p
  BY <1>1, <1>4 DEF n
<1>6. Trail(At(t, q + (p - q)))
  BY <1>2, <1>5 DEF n
<1> QED BY <1>3, <1>5, <1>6

\* x lies in a character; no character reaches across p.
Covered(t, x) == \E p \in Offsets(t) : CharAt(t, p) /\ p <= x /\ x < p + SizeAt(t, p)
Boundary(t, p) == \A q \in Offsets(t) : CharAt(t, q) /\ q < p => q + SizeAt(t, q) <= p

LEMMA OutsideIs ==
  ASSUME NEW t \in Text
  PROVE  Outside(t) = {x \in Offsets(t) : ~ Covered(t, x)}
<1>1. ASSUME NEW x \in Offsets(t)
      PROVE  x \in UNION {p .. p + SizeAt(t, p) - 1 : p \in Characters(t)} <=> Covered(t, x)
  <2>1. Characters(t) = {p \in Offsets(t) : CharAt(t, p)}
    BY DEF Characters
  <2>2. ASSUME NEW p \in Characters(t)
        PROVE  x \in p .. p + SizeAt(t, p) - 1 <=> p <= x /\ x < p + SizeAt(t, p)
    <3>1. p \in Nat /\ x \in Nat
      BY <2>1, OffsetIs
    <3>2. SizeAt(t, p) \in 1..4
      BY <2>1, CharFacts
    <3> QED BY <3>1, <3>2
  <2>3. x \in UNION {p .. p + SizeAt(t, p) - 1 : p \in Characters(t)}
          <=> \E p \in Characters(t) : x \in p .. p + SizeAt(t, p) - 1
    BY ZenonT(60)
  <2> QED BY <2>1, <2>2, <2>3, ZenonT(60) DEF Covered
<1> QED BY <1>1 DEF Outside

\* At a boundary, a covered byte starts its character, and its end is the
\* next boundary.
LEMMA BoundaryStep ==
  ASSUME NEW t \in Text, NEW p \in Offsets(t), Boundary(t, p)
  PROVE  /\ Covered(t, p) => CharAt(t, p)
         /\ CharAt(t, p) => Boundary(t, p + SizeAt(t, p))
<1>1. ASSUME Covered(t, p) PROVE CharAt(t, p)
  <2>1. PICK q \in Offsets(t) : CharAt(t, q) /\ q <= p /\ p < q + SizeAt(t, q)
    BY <1>1 DEF Covered
  <2>2. q \in Nat /\ p \in Nat /\ SizeAt(t, q) \in 1..4
    BY <2>1, OffsetIs, CharFacts
  <2>3. ~ (q < p)
    <3>1. SUFFICES ASSUME q < p PROVE FALSE
      OBVIOUS
    <3>2. q + SizeAt(t, q) <= p
      BY <2>1, <3>1 DEF Boundary
    <3> QED BY <2>1, <2>2, <3>2
  <2>4. q = p
    BY <2>1, <2>2, <2>3
  <2> QED BY <2>1, <2>4
<1>2. ASSUME CharAt(t, p) PROVE Boundary(t, p + SizeAt(t, p))
  <2> SUFFICES ASSUME NEW q \in Offsets(t), CharAt(t, q), q < p + SizeAt(t, p)
               PROVE  q + SizeAt(t, q) <= p + SizeAt(t, p)
    BY DEF Boundary
  <2>1. q \in Nat /\ p \in Nat /\ SizeAt(t, q) \in 1..4 /\ SizeAt(t, p) \in 1..4
    BY <1>2, OffsetIs, CharFacts
  <2>2. CASE q = p
    BY <2>1, <2>2
  <2>3. CASE q < p
    <3>1. q + SizeAt(t, q) <= p
      BY <2>3 DEF Boundary
    <3> QED BY <2>1, <3>1
  <2>4. CASE p < q
    <3>1. p + SizeAt(t, p) <= q
      BY <1>2, <2>4, Apart
    <3> QED BY <2>1, <3>1
  <2> QED BY <2>1, <2>2, <2>3, <2>4
<1> QED BY <1>1, <1>2

-----------------------------------------------------------------------------
(* fastjson_utf8_well_formed *)

After(t, p) == p + Announced(At(t, p))

\* The recursive function exists: the loop gets to the end from p exactly if
\* p is in a set of offsets each of which leads on to another, or is the end.
LEMMA GoodFromIs ==
  ASSUME NEW t \in Text
  PROVE  \A p \in 0 .. Len(t) :
           GoodFrom(t)[p] <=> p = Len(t) \/ (Good(t, p) /\ GoodFrom(t)[After(t, p)])
<1> DEFINE L == Len(t)
           I == 0 .. L
           Chain(G) == \A q \in G : q = L \/ (Good(t, q) /\ After(t, q) \in G)
           Rec(f) == [p \in I |-> p = L \/ (Good(t, p) /\ f[p + Announced(At(t, p))])]
           u == [p \in I |-> \E G \in SUBSET I : p \in G /\ Chain(G)]
<1>1. L \in Nat /\ L \in I
  <2>1. L \in Nat
    BY DEF Text
  <2> QED BY <2>1
<1>2. ASSUME NEW p \in I, p # L, Good(t, p) PROVE After(t, p) \in I
  <2>1. p \in Offsets(t)
    BY <1>1, <1>2 DEF Offsets
  <2>2. Spells(t, p, Announced(At(t, p)))
    BY <1>2, <2>1, GoodIsSpells
  <2>3. Announced(At(t, p)) \in 1..4 /\ p + Announced(At(t, p)) <= L
    BY <2>1, <2>2, SpellsFacts
  <2>4. p \in Nat
    BY <2>1, OffsetIs
  <2> DEFINE n == Announced(At(t, p))
  <2> HIDE DEF n
  <2>5. n \in 1..4 /\ p + n <= L
    BY <2>3 DEF n
  <2>6. p + n \in I
    BY <1>1, <2>4, <2>5
  <2> QED BY <2>6 DEF n, After
<1> HIDE DEF L, I
<1>3. ASSUME NEW p \in I
      PROVE  u[p] <=> p = L \/ (Good(t, p) /\ u[After(t, p)])
  <2>1. u[p] <=> \E G \in SUBSET I : p \in G /\ Chain(G)
    OBVIOUS
  <2>2. CASE p = L
    <3>1. {L} \in SUBSET I /\ L \in {L} /\ Chain({L})
      BY <1>1
    <3> HIDE DEF Chain
    <3>2. \E G \in SUBSET I : p \in G /\ Chain(G)
      BY <2>2, <3>1
    <3> QED BY <2>1, <2>2, <3>2
  <2>3. CASE p # L
    <3>1. ASSUME Good(t, p) PROVE u[After(t, p)] <=> \E G \in SUBSET I : After(t, p) \in G /\ Chain(G)
      <4>1. After(t, p) \in I
        BY <1>2, <2>3, <3>1
      <4> HIDE DEF Chain
      <4> QED BY <4>1
    <3>2. ASSUME NEW G \in SUBSET I, p \in G, Chain(G)
          PROVE  Good(t, p) /\ After(t, p) \in G
      BY <2>3, <3>2
    <3>3. ASSUME NEW G \in SUBSET I, After(t, p) \in G, Chain(G), Good(t, p)
          PROVE  \E H \in SUBSET I : p \in H /\ Chain(H)
      <4> DEFINE H == G \cup {p}
      <4>1. H \in SUBSET I /\ p \in H
        OBVIOUS
      <4>2. Chain(H)
        BY <3>3
      <4> HIDE DEF H, Chain
      <4> QED BY <4>1, <4>2
    <3> HIDE DEF Chain, u
    <3> QED BY <2>1, <2>3, <3>1, <3>2, <3>3
  <2> QED BY <2>2, <2>3
<1>4. u = Rec(u)
  <2> DEFINE v == Rec(u)
  <2>1. DOMAIN u = I /\ DOMAIN v = I
    OBVIOUS
  <2>2. ASSUME NEW p \in I PROVE u[p] = v[p]
    <3>1. v[p] = (p = L \/ (Good(t, p) /\ u[p + Announced(At(t, p))]))
      BY DEF v
    <3>2. u[p] \in BOOLEAN
      OBVIOUS
    <3> HIDE DEF u, v
    <3> QED BY <1>3, <3>1, <3>2 DEF After
  <2>3. u = [p \in I |-> u[p]] /\ v = [p \in I |-> v[p]]
    OBVIOUS
  <2> HIDE DEF u, v
  <2>4. u = v
    BY <2>1, <2>2, <2>3
  <2> QED BY <2>4 DEF v
<1> DEFINE f == CHOOSE f : f = Rec(f)
<1>5. f = Rec(f)
  <2> HIDE DEF Rec, u
  <2> QED BY <1>4
<1>6. GoodFrom(t) = f
  BY ZenonT(60) DEF GoodFrom, I, L
<1> HIDE DEF f
<1>7. ASSUME NEW p \in I PROVE f[p] <=> p = L \/ (Good(t, p) /\ f[After(t, p)])
  <2>1. f[p] = (p = L \/ (Good(t, p) /\ f[p + Announced(At(t, p))]))
    BY <1>5
  <2> QED BY <2>1 DEF After
<1> QED BY <1>6, <1>7 DEF I, L

\* Every byte from p on lies in a character.
CoveredFrom(t, p) == \A x \in Offsets(t) : p <= x => Covered(t, x)

LEMMA ReadsFrom ==
  ASSUME NEW t \in Text
  PROVE  \A p \in 0 .. Len(t) : Boundary(t, p) => (GoodFrom(t)[p] <=> CoveredFrom(t, p))
<1> DEFINE L == Len(t)
           Reads(p) == Boundary(t, p) => (GoodFrom(t)[p] <=> CoveredFrom(t, p))
           P == {k \in 0 .. L : \A j \in 0 .. k : Reads(L - j)}
<1>1. L \in Nat
  BY DEF Text
<1>2. \A p \in 0 .. L : GoodFrom(t)[p] <=> p = L \/ (Good(t, p) /\ GoodFrom(t)[After(t, p)])
  BY GoodFromIs
<1> HIDE DEF L
<1>3. Reads(L)
  <2>1. GoodFrom(t)[L]
    BY <1>1, <1>2
  <2>2. CoveredFrom(t, L)
    <3> SUFFICES ASSUME NEW x \in Offsets(t), L <= x PROVE FALSE
      BY DEF CoveredFrom
    <3> QED BY OffsetIs DEF L
  <2> QED BY <2>1, <2>2
<1>4. 0 \in P
  <2>1. 0 .. 0 = {0} /\ L - 0 = L /\ 0 \in 0 .. L
    BY <1>1
  <2> HIDE DEF Reads
  <2> QED BY <1>3, <2>1
<1>5. ASSUME NEW p \in Offsets(t), \A q \in 0 .. L : p < q => Reads(q) PROVE Reads(p)
  <2> SUFFICES ASSUME Boundary(t, p) PROVE GoodFrom(t)[p] <=> CoveredFrom(t, p)
    OBVIOUS
  <2>1. p \in Nat /\ p < L /\ p # L /\ p \in 0 .. L
    BY OffsetIs, <1>1 DEF L
  <2>2. CASE CharAt(t, p)
    <3> DEFINE q == p + SizeAt(t, p)
    <3>1. /\ SizeAt(t, p) \in 1..4 /\ p + SizeAt(t, p) <= L
          /\ SizeAt(t, p) = Announced(At(t, p)) /\ Good(t, p)
      BY <2>2, CharFacts, CharIsSpells, GoodIsSpells DEF L
    <3>2. After(t, p) = q
      BY <3>1 DEF After
    <3>3. q \in 0 .. L /\ p < q
      BY <1>1, <2>1, <3>1
    <3>4. Boundary(t, q)
      BY <2>2, BoundaryStep
    <3>5. GoodFrom(t)[q] <=> CoveredFrom(t, q)
      <4> HIDE DEF q
      <4> QED BY <1>5, <3>3, <3>4
    <3>6. GoodFrom(t)[p] <=> GoodFrom(t)[q]
      BY <1>2, <2>1, <3>1, <3>2
    <3>7. CoveredFrom(t, p) <=> CoveredFrom(t, q)
      <4>1. ASSUME NEW x \in Offsets(t), p <= x, x < q PROVE Covered(t, x)
        BY <2>2, <4>1 DEF Covered
      <4>2. ASSUME NEW x \in Offsets(t) PROVE (p <= x <=> q <= x \/ (p <= x /\ x < q))
        <5>1. x \in Nat /\ q \in Nat
          BY <3>3, OffsetIs
        <5> HIDE DEF q
        <5> QED BY <2>1, <3>3, <5>1
      <4> HIDE DEF q
      <4> QED BY <4>1, <4>2 DEF CoveredFrom
    <3> QED BY <3>5, <3>6, <3>7
  <2>3. CASE ~ CharAt(t, p)
    <3>1. ~ Good(t, p)
      BY <2>3, CharIsSpells, GoodIsSpells
    <3>2. ~ GoodFrom(t)[p]
      BY <1>2, <2>1, <3>1
    <3>3. ~ Covered(t, p)
      BY <2>3, BoundaryStep
    <3>4. p <= p
      BY <2>1
    <3>5. ~ CoveredFrom(t, p)
      BY <3>3, <3>4 DEF CoveredFrom
    <3> QED BY <3>2, <3>5
  <2> QED BY <2>2, <2>3
<1>6. ASSUME NEW k \in 0 .. L - 1, k \in P PROVE k + 1 \in P
  <2> DEFINE p == L - (k + 1)
  <2>1. p \in Offsets(t) /\ k + 1 \in 0 .. L
    BY <1>1 DEF Offsets, L
  <2>2. ASSUME NEW q \in 0 .. L, p < q PROVE Reads(q)
    <3>1. L - q \in 0 .. k /\ L - (L - q) = q
      BY <1>1, <2>2
    <3> HIDE DEF Reads
    <3> QED BY <1>6, <3>1
  <2>3. Reads(p)
    <3> HIDE DEF Reads, p
    <3> QED BY <1>5, <2>1, <2>2
  <2>4. ASSUME NEW j \in 0 .. k + 1 PROVE Reads(L - j)
    <3>1. CASE j = k + 1
      BY <2>3, <3>1
    <3>2. CASE j # k + 1
      <4>1. j \in 0 .. k
        BY <1>1, <3>2
      <4> HIDE DEF Reads
      <4> QED BY <1>6, <4>1
    <3> QED BY <3>1, <3>2
  <2> HIDE DEF Reads
  <2> QED BY <2>1, <2>4
<1>7. \A k \in 0 .. L : k \in P
  <2> HIDE DEF P
  <2> QED BY <1>1, <1>4, <1>6, InductionUpTo
<1>8. ASSUME NEW p \in 0 .. L PROVE Reads(p)
  <2>1. L \in P /\ L - p \in 0 .. L /\ L - (L - p) = p
    BY <1>1, <1>7
  <2> HIDE DEF Reads
  <2> QED BY <2>1
<1> QED BY <1>8 DEF L

LEMMA WordsFit ==
  ASSUME NEW n \in Nat, NEW size \in Nat \ {0}, NEW k \in 0 .. n \div size
  PROVE  size * k \in Nat /\ size * k <= n /\ size * k = k * size
<1>1. n \div size \in Nat /\ size * (n \div size) <= n
  OBVIOUS
<1> DEFINE q == n \div size
<1>2. q \in Nat /\ size * q <= n
  BY <1>1
<1> HIDE DEF q
<1>3. k \in Nat /\ k <= q
  BY <1>1, <1>2 DEF q
<1>4. size * k \in Nat /\ size * k <= size * q
  BY <1>2, <1>3
<1>5. size * q \in Nat /\ size * k = k * size
  BY <1>2, <1>3
<1> QED BY <1>2, <1>4, <1>5

\* The words skipped are whole words of the text, and ASCII.
LEMMA AsciiWordsAre ==
  ASSUME NEW t \in Text
  PROVE  /\ AsciiWords(t) \in 0 .. Len(t)
         /\ \A p \in Offsets(t) : p < AsciiWords(t) => At(t, p) < 128
<1> DEFINE L == Len(t)
           N == L \div WordSize
           clean == {k \in 0 .. N : \A p \in 0 .. k * WordSize - 1 : At(t, p) < 128}
           left == {N - k : k \in clean}
           k0 == CHOOSE k \in clean : \A j \in clean : j <= k
<1>1. L \in Nat /\ WordSize \in Nat \ {0} /\ N \in Nat
  <2>1. L \in Nat /\ WordSize \in Nat \ {0}
    BY WordAssumption DEF Text
  <2> QED BY <2>1
<1> HIDE DEF N
<1>2. 0 \in clean
  <2>1. 0 \in 0 .. N /\ 0 .. 0 * WordSize - 1 = {}
    BY <1>1
  <2> QED BY <2>1
<1>3. clean \subseteq 0 .. N
  OBVIOUS
<1>4. \E k \in clean : \A j \in clean : j <= k
  <2> HIDE DEF clean
  <2>1. left \in SUBSET Nat /\ left # {}
    BY <1>1, <1>2, <1>3
  <2>2. PICK x \in left : \A y \in left : x <= y
    <3> HIDE DEF left
    <3> QED BY <2>1, LeastElement
  <2>3. PICK k \in clean : x = N - k
    OBVIOUS
  <2>4. ASSUME NEW j \in clean PROVE j <= k
    <3>1. N - j \in left
      OBVIOUS
    <3>2. N - k <= N - j
      BY <2>2, <2>3, <3>1
    <3>3. j \in Nat /\ k \in Nat
      BY <1>1, <1>3
    <3> QED BY <1>1, <3>2, <3>3
  <2> QED BY <2>4
<1>5. k0 \in clean
  BY <1>4
<1>6. AsciiWords(t) = WordSize * k0
  BY DEF AsciiWords, N
<1> HIDE DEF k0
<1>7. k0 \in 0 .. N /\ \A p \in 0 .. k0 * WordSize - 1 : At(t, p) < 128
  BY <1>5
<1>8. WordSize * k0 \in Nat /\ WordSize * k0 <= L /\ WordSize * k0 = k0 * WordSize
  BY <1>1, <1>7, WordsFit DEF N
<1> DEFINE r1 == WordSize * k0
<1> HIDE DEF r1
<1>9. r1 \in Nat /\ r1 <= L /\ \A p \in 0 .. r1 - 1 : At(t, p) < 128
  BY <1>7, <1>8 DEF r1
<1>10. AsciiWords(t) = r1
  BY <1>6 DEF r1
<1>11. r1 \in 0 .. L
  BY <1>1, <1>9
<1>12. ASSUME NEW p \in Offsets(t), p < r1 PROVE At(t, p) < 128
  <2>1. p \in 0 .. r1 - 1
    BY <1>9, <1>12, OffsetIs
  <2> QED BY <1>9, <2>1
<1> QED BY <1>10, <1>11, <1>12

LEMMA AsciiChar ==
  ASSUME NEW t \in Text, NEW p \in Offsets(t), At(t, p) < 128
  PROVE  CharAt(t, p) /\ SizeAt(t, p) = 1
<1>1. At(t, p) \in 0..255
  BY ByteAt
<1>2. At(t, p) \in 0..127
  BY <1>1
<1>3. Announced(At(t, p)) = 1
  BY <1>2, AnnouncedIs
<1>4. p + 1 <= Len(t)
  BY OffsetIs
<1>5. Spells(t, p, 1)
  BY <1>2, <1>4 DEF Spells
<1> QED BY <1>3, <1>5, CharIsSpells

\* The words skipped are characters of one byte, so reading starts at a boundary.
LEMMA WellFormedIs ==
  ASSUME NEW t \in Text
  PROVE  fastjson_utf8_well_formed(t) <=> Outside(t) = {}
<1> DEFINE r1 == AsciiWords(t)
<1>1. r1 \in 0 .. Len(t) /\ \A p \in Offsets(t) : p < r1 => At(t, p) < 128
  BY AsciiWordsAre
<1>2. r1 \in Nat
  <2>1. Len(t) \in Nat
    BY DEF Text
  <2> QED BY <1>1, <2>1
<1> HIDE DEF r1
<1>3. Boundary(t, r1)
  <2> SUFFICES ASSUME NEW q \in Offsets(t), q < r1 PROVE q + SizeAt(t, q) <= r1
    BY DEF Boundary
  <2>1. SizeAt(t, q) = 1 /\ q \in Nat
    BY <1>1, AsciiChar, OffsetIs
  <2> QED BY <1>2, <2>1
<1>4. GoodFrom(t)[r1] <=> CoveredFrom(t, r1)
  BY <1>1, <1>3, ReadsFrom
<1>5. ASSUME NEW x \in Offsets(t), ~ (r1 <= x) PROVE Covered(t, x)
  <2>1. x \in Nat
    BY OffsetIs
  <2>2. CharAt(t, x) /\ SizeAt(t, x) = 1
    BY <1>1, <1>2, <1>5, <2>1, AsciiChar
  <2>3. x <= x /\ x < x + 1
    BY <2>1
  <2> QED BY <2>2, <2>3 DEF Covered
<1>6. CoveredFrom(t, r1) <=> Outside(t) = {}
  <2>1. CoveredFrom(t, r1) <=> \A x \in Offsets(t) : Covered(t, x)
    BY <1>5 DEF CoveredFrom
  <2> QED BY <2>1, OutsideIs
<1>7. fastjson_utf8_well_formed(t) <=> GoodFrom(t)[r1]
  BY DEF fastjson_utf8_well_formed, r1
<1> QED BY <1>4, <1>6, <1>7

LEMMA TextStays ==
  ASSUME s \in Texts, [Next]_vars
  PROVE  s' \in Texts
BY DEF Next, CopyGood, ReplaceBad, DropBad, End, Step, vars

(***************************************************************************)
(* In every byte string, whatever the texts and the word size are: the     *)
(* one-character test, the validator and the sanitizer accept the same     *)
(* characters, the standard's, and the validator passes exactly the texts  *)
(* those characters cover.                                                 *)
(***************************************************************************)
THEOREM ReadersAgree == Spec => []ValidatorsAgree
<1>1. Init => s \in Texts
  BY DEF Init
<1>2. ASSUME s \in Texts, [Next]_vars PROVE (s \in Texts)'
  BY <1>2, TextStays
<1>3. ASSUME s \in Texts PROVE ValidatorsAgree
  <2>1. s \in Text
    BY <1>3, TextsAssumption
  <2>2. ASSUME NEW p \in Offsets(s)
        PROVE  /\ fastjson_byte_is_valid_utf8_start(s, p) <=> CharAt(s, p)
               /\ Classify(s, p).good <=> CharAt(s, p)
    <3>1. Classify(s, p).good = Good(s, p)
      BY DEF Classify
    <3> QED BY <2>1, <3>1, StartIsSpells, GoodIsSpells, CharIsSpells
  <2>3. fastjson_utf8_well_formed(s) <=> Outside(s) = {}
    BY <2>1, WellFormedIs
  <2> QED BY <2>2, <2>3 DEF ValidatorsAgree
<1> QED BY <1>1, <1>2, <1>3, PTL DEF Spec

-----------------------------------------------------------------------------
(* fastjson_sanitize_utf8 *)

LEMMA AnnouncedRange == \A c \in 0..255 : Announced(c) \in 0..4
<1> SUFFICES ASSUME NEW c \in 0..255 PROVE Announced(c) \in 0..4
  OBVIOUS
<1>1. \/ c \in 0..127 \/ c \in 128..193 \/ c \in 194..223 \/ c \in 224..239
      \/ c \in 240..244 \/ c \in 245..255
  OBVIOUS
<1> QED BY <1>1, AnnouncedIs

\* A malformed sequence is passed over up to the next byte that can start a
\* character, and no further than the text goes.
LEMMA AdvanceFacts ==
  ASSUME NEW t \in Text, NEW p \in Offsets(t), NEW n \in 1..4
  PROVE  /\ Advance(t, p, n) \in 1 .. n /\ p + Advance(t, p, n) <= Len(t)
         /\ \A k \in 1 .. Advance(t, p, n) - 1 : ~ Lead(At(t, p + k))
<1> DEFINE L == Len(t)
           stops == {k \in 1 .. n - 1 : p + k >= L \/ Lead(At(t, p + k))}
           m == CHOOSE k \in stops : \A j \in stops : k <= j
<1>1. L \in Nat /\ p \in Nat /\ p < L
  BY OffsetIs
<1>2. Advance(t, p, n) = IF stops = {} THEN n ELSE m
  BY DEF Advance
<1> HIDE DEF L
<1>3. ASSUME NEW k \in 1 .. n - 1, k \notin stops
      PROVE  p + k < L /\ ~ Lead(At(t, p + k))
  BY <1>1, <1>3
<1>4. stops \subseteq 1 .. n - 1
  OBVIOUS
<1> HIDE DEF stops
<1>5. ASSUME NEW r1 \in 1 .. n, \A k \in 1 .. r1 - 1 : k \in 1 .. n - 1 /\ k \notin stops
      PROVE  r1 \in 1 .. n /\ p + r1 <= L /\ \A k \in 1 .. r1 - 1 : ~ Lead(At(t, p + k))
  <2>1. p + r1 <= L
    <3>1. CASE r1 = 1
      BY <1>1, <3>1
    <3>2. CASE r1 # 1
      <4>1. r1 - 1 \in 1 .. r1 - 1
        BY <3>2
      <4>2. p + (r1 - 1) < L
        BY <1>3, <1>5, <4>1
      <4> QED BY <1>1, <4>2
    <3> QED BY <3>1, <3>2
  <2> QED BY <1>3, <1>5, <2>1
<1>6. CASE stops = {}
  <2>1. \A k \in 1 .. n - 1 : k \in 1 .. n - 1 /\ k \notin stops
    BY <1>6
  <2>2. n \in 1 .. n
    OBVIOUS
  <2> QED BY <1>2, <1>5, <1>6, <2>1, <2>2 DEF L
<1>7. CASE stops # {}
  <2>1. stops \in SUBSET Nat
    BY <1>4
  <2>2. \E k \in stops : \A j \in stops : k <= j
    BY <1>7, <2>1, LeastElement
  <2>3. m \in stops /\ \A j \in stops : m <= j
    BY <2>2
  <2> HIDE DEF m
  <2>4. m \in 1 .. n - 1 /\ m \in 1 .. n
    <3>1. m \in 1 .. n - 1
      BY <1>4, <2>3
    <3> QED BY <3>1
  <2>5. ASSUME NEW k \in 1 .. m - 1 PROVE k \in 1 .. n - 1 /\ k \notin stops
    <3>1. k \in 1 .. n - 1 /\ k \in Nat /\ ~ (m <= k)
      BY <2>4
    <3> QED BY <2>3, <3>1
  <2> QED BY <1>2, <1>5, <1>7, <2>4, <2>5 DEF L
<1> QED BY <1>6, <1>7

LEMMA ClassifyFacts ==
  ASSUME NEW t \in Text, NEW p \in Offsets(t)
  PROVE  /\ Classify(t, p).good <=> CharAt(t, p)
         /\ Classify(t, p).adv \in 1..4 /\ p + Classify(t, p).adv <= Len(t)
         /\ CharAt(t, p) => Classify(t, p).adv = SizeAt(t, p)
         /\ ~ CharAt(t, p) =>
              /\ mode = "decode" => Classify(t, p).adv = 1
              /\ \A x \in Offsets(t) : p <= x /\ x < p + Classify(t, p).adv => ~ CharAt(t, x)
<1> DEFINE n == Announced(At(t, p))
           r1 == Classify(t, p).adv
<1>1. /\ Classify(t, p).good = Good(t, p)
      /\ r1 = IF Good(t, p) THEN n
             ELSE IF n = 0 \/ mode = "decode" THEN 1 ELSE Advance(t, p, n)
  BY DEF Classify
<1>2. Good(t, p) <=> CharAt(t, p)
  BY GoodIsSpells, CharIsSpells
<1>3. p \in Nat /\ Len(t) \in Nat /\ p + 1 <= Len(t) /\ n \in 0..4
  BY OffsetIs, ByteAt, AnnouncedRange
<1>4. CASE CharAt(t, p)
  <2>1. r1 = n /\ n = SizeAt(t, p) /\ SizeAt(t, p) \in 1..4 /\ p + SizeAt(t, p) <= Len(t)
    BY <1>1, <1>2, <1>4, CharFacts
  <2> QED BY <1>1, <1>2, <1>4, <2>1
<1>5. CASE ~ CharAt(t, p)
  <2>1. /\ r1 \in 1..4 /\ p + r1 <= Len(t) /\ (mode = "decode" => r1 = 1)
        /\ r1 = 1 \/ \A k \in 1 .. r1 - 1 : ~ Lead(At(t, p + k))
    <3>1. CASE n = 0 \/ mode = "decode"
      <4>1. r1 = 1
        BY <1>1, <1>2, <1>5, <3>1
      <4> HIDE DEF r1
      <4> QED BY <1>3, <4>1
    <3>2. CASE n # 0 /\ mode # "decode"
      <4>1. r1 = Advance(t, p, n)
        BY <1>1, <1>2, <1>5, <3>2
      <4>2. n \in 1..4
        BY <1>3, <3>2
      <4> HIDE DEF r1, n
      <4>3. r1 \in 1 .. n /\ p + r1 <= Len(t) /\ \A k \in 1 .. r1 - 1 : ~ Lead(At(t, p + k))
        BY <4>1, <4>2, AdvanceFacts
      <4>4. r1 \in 1..4
        BY <4>2, <4>3
      <4> QED BY <3>2, <4>3, <4>4
    <3> QED BY <3>1, <3>2
  <2> HIDE DEF r1, n
  <2>2. ASSUME NEW x \in Offsets(t), p <= x, x < p + r1 PROVE ~ CharAt(t, x)
    <3>1. x \in Nat
      BY OffsetIs
    <3>2. CASE x = p
      BY <1>5, <3>2
    <3>3. CASE x # p
      <4>1. r1 # 1 /\ x - p \in 1 .. r1 - 1 /\ p + (x - p) = x
        BY <1>3, <2>1, <2>2, <3>1, <3>3
      <4>2. ~ Lead(At(t, x))
        BY <2>1, <4>1
      <4> QED BY <4>2, CharFacts
    <3> QED BY <3>2, <3>3
  <2> QED BY <1>1, <1>2, <1>5, <2>1, <2>2 DEF r1
<1> QED BY <1>4, <1>5

\* Bytes from a boundary on in which no character starts lie in none.
LEMMA Skipped ==
  ASSUME NEW t \in Text, NEW p \in Offsets(t), NEW n \in Nat, Boundary(t, p),
         \A x \in Offsets(t) : p <= x /\ x < p + n => ~ CharAt(t, x)
  PROVE  /\ Boundary(t, p + n)
         /\ \A x \in Offsets(t) : p <= x /\ x < p + n => ~ Covered(t, x)
<1>1. p \in Nat
  BY OffsetIs
<1>2. ASSUME NEW q \in Offsets(t), CharAt(t, q), q < p + n
      PROVE  q + SizeAt(t, q) <= p /\ q \in Nat /\ SizeAt(t, q) \in 1..4
  <2>1. q \in Nat /\ SizeAt(t, q) \in 1..4
    BY <1>2, OffsetIs, CharFacts
  <2>2. q < p
    BY <1>1, <1>2, <2>1
  <2> QED BY <1>2, <2>1, <2>2 DEF Boundary
<1>3. Boundary(t, p + n)
  <2> SUFFICES ASSUME NEW q \in Offsets(t), CharAt(t, q), q < p + n
               PROVE  q + SizeAt(t, q) <= p + n
    BY DEF Boundary
  <2> QED BY <1>1, <1>2
<1>4. ASSUME NEW x \in Offsets(t), p <= x, x < p + n, Covered(t, x) PROVE FALSE
  <2>1. PICK q \in Offsets(t) : CharAt(t, q) /\ q <= x /\ x < q + SizeAt(t, q)
    BY <1>4 DEF Covered
  <2>2. x \in Nat /\ q \in Nat
    BY OffsetIs
  <2>3. q < p + n
    BY <1>1, <1>4, <2>1, <2>2
  <2>4. q + SizeAt(t, q) <= p /\ SizeAt(t, q) \in 1..4
    BY <1>2, <2>1, <2>3
  <2> QED BY <1>1, <1>4, <2>1, <2>2, <2>4
<1> QED BY <1>3, <1>4

LEMMA Sets ==
  ASSUME NEW t \in Text
  PROVE  /\ \A p : p \in Characters(t) <=> p \in Offsets(t) /\ CharAt(t, p)
         /\ \A p : p \in Outside(t) <=> p \in Offsets(t) /\ ~ Covered(t, p)
BY OutsideIs DEF Characters

\* Nothing is due between n and m: what was faithful up to n is up to m.
LEMMA FaithfulSkip ==
  ASSUME NEW t \in Text, NEW o \in Seq(Writes), NEW n \in Nat, NEW b \in Nat, n <= b,
         NEW m, NEW subs, Faithful(t, o, n, m, subs),
         \A x \in Offsets(t) : n <= x /\ x < b => ~ Due(t, x, m, subs)
  PROVE  Faithful(t, o, b, m, subs)
<1>1. \A k \in 1 .. Len(o) : o[k].from \in Nat
  <2>1. \A k \in 1 .. Len(o) : o[k] \in Writes
    OBVIOUS
  <2> QED BY <2>1 DEF Writes
<1>2. \A k \in 1 .. Len(o) : o[k].from < n => o[k].from < b
  BY <1>1
<1>3. \A x \in Offsets(t) : x < b => x < n \/ (n <= x /\ x < b)
  BY OffsetIs
<1> QED BY <1>2, <1>3 DEF Faithful

LEMMA FaithfulWrite ==
  ASSUME NEW t \in Text, NEW o \in Seq(Writes), NEW n \in Offsets(t), NEW u \in Writes,
         NEW m, NEW subs, Faithful(t, o, n, m, subs), u.from = n,
         n \in Characters(t) => u.bytes = Slice(t, n, SizeAt(t, n)),
         n \notin Characters(t) => u.bytes = Replacement /\ subs /\ n \in Outside(t)
  PROVE  Append(o, u) \in Seq(Writes) /\ Faithful(t, Append(o, u), n + 1, m, subs)
<1> DEFINE q == Append(o, u)
           L == Len(o)
<1>1. L \in Nat /\ n \in Nat
  BY OffsetIs
<1>2. /\ q \in Seq(Writes) /\ Len(q) = L + 1 /\ q[L + 1] = u
      /\ \A k \in 1 .. L : q[k] = o[k]
  BY <1>1
<1>3. \A k \in 1 .. L : o[k].from \in Nat
  <2>1. \A k \in 1 .. L : o[k] \in Writes
    OBVIOUS
  <2> QED BY <2>1 DEF Writes
<1> HIDE DEF q
<1> DEFINE At1(v, b) == /\ v.from \in Offsets(t) /\ v.from < b
                        /\ v.from \in Characters(t) =>
                             v.bytes = Slice(t, v.from, SizeAt(t, v.from))
                        /\ v.from \notin Characters(t) =>
                             v.bytes = Replacement /\ subs /\ v.from \in Outside(t)
<1>4. \A k \in 1 .. L : At1(o[k], n)
  BY DEF Faithful, L
<1>5. At1(u, n + 1)
  BY <1>1
<1>6. \A k \in 1 .. L : At1(o[k], n + 1)
  BY <1>1, <1>3, <1>4
<1>7. \A k \in 1 .. L + 1 : At1(q[k], n + 1)
  <2> SUFFICES ASSUME NEW k \in 1 .. L + 1 PROVE At1(q[k], n + 1)
    OBVIOUS
  <2> HIDE DEF At1
  <2>1. CASE k = L + 1
    BY <1>2, <1>5, <2>1
  <2>2. CASE k # L + 1
    <3>1. k \in 1 .. L
      BY <1>1, <2>2
    <3> QED BY <1>2, <1>6, <3>1
  <2> QED BY <2>1, <2>2
<1>8. \A k \in 2 .. L + 1 : q[k - 1].from < q[k].from
  <2> SUFFICES ASSUME NEW k \in 2 .. L + 1 PROVE q[k - 1].from < q[k].from
    OBVIOUS
  <2>1. CASE k = L + 1
    <3>1. k - 1 \in 1 .. L
      BY <1>1, <2>1
    <3>2. q[k - 1] = o[k - 1] /\ q[k] = u
      BY <1>2, <2>1, <3>1
    <3> QED BY <1>4, <3>1, <3>2
  <2>2. CASE k # L + 1
    <3>1. k - 1 \in 1 .. L /\ k \in 1 .. L /\ k \in 2 .. L
      BY <1>1, <2>2
    <3>2. o[k - 1].from < o[k].from
      BY <3>1 DEF Faithful, L
    <3> QED BY <1>2, <3>1, <3>2
  <2> QED BY <2>1, <2>2
<1>9. ASSUME NEW p \in Offsets(t), p < n + 1, Due(t, p, m, subs)
      PROVE  \E k \in 1 .. L + 1 : q[k].from = p
  <2>1. p \in Nat
    BY OffsetIs
  <2>2. CASE p = n
    <3>1. L + 1 \in 1 .. L + 1 /\ q[L + 1].from = n
      BY <1>1, <1>2
    <3> QED BY <2>2, <3>1
  <2>3. CASE p # n
    <3>1. p < n
      BY <1>1, <1>9, <2>1, <2>3
    <3>2. PICK k \in 1 .. L : o[k].from = p
      BY <1>9, <3>1 DEF Faithful, L
    <3>3. k \in 1 .. L + 1
      BY <1>1
    <3> QED BY <1>2, <3>2, <3>3
  <2> QED BY <2>2, <2>3
<1>10. Faithful(t, q, n + 1, m, subs)
  BY <1>2, <1>7, <1>8, <1>9 DEF Faithful
<1> QED BY <1>2, <1>10 DEF q

LEMMA SliceIs ==
  ASSUME NEW t \in Text, NEW p \in Offsets(t), NEW n \in 1..4, p + n <= Len(t)
  PROVE  Slice(t, p, n) \in Text /\ Len(Slice(t, p, n)) = n
<1>1. p \in Nat /\ Len(t) \in Nat
  BY OffsetIs
<1>2. p + 1 \in 1 .. Len(t) + 1 /\ p + n \in p + 1 - 1 .. Len(t)
      /\ (p + n) - (p + 1) + 1 = n /\ p + 1 <= p + n
  BY <1>1
<1>3. SubSeq(t, p + 1, p + n) \in Seq(Byte) /\ Len(SubSeq(t, p + 1, p + n)) = n
  BY <1>1, <1>2, SubSeqProperties DEF Text
<1> QED BY <1>3 DEF Slice, Text

LEMMA ReplacementIs == Replacement \in Text /\ Len(Replacement) = 3
<1>1. 239 \in Byte /\ 191 \in Byte /\ 189 \in Byte
  BY DEF Byte
<1> QED BY <1>1 DEF Replacement, Text

\* What a step of the loop starts from.
LEMMA StepFacts ==
  ASSUME SanitizeInv, NEW good \in BOOLEAN, Step(good)
  PROVE  /\ s \in Text /\ i \in Offsets(s) /\ Boundary(s, i) /\ (CharAt(s, i) <=> good)
         /\ s' = s /\ mode' = mode /\ pc' = pc /\ pc # "done"
         /\ Substitutes' = Substitutes
         /\ Classify(s, i).adv \in 1..4 /\ i' = i + Classify(s, i).adv
         /\ i + Classify(s, i).adv <= Len(s)
<1>1. s \in Text
  BY TextsAssumption DEF SanitizeInv
<1>2. i \in Offsets(s)
  <2>1. Len(s) \in Nat /\ i \in 0 .. Len(s) /\ i < Len(s)
    BY <1>1 DEF SanitizeInv, Step, Text
  <2> QED BY <2>1 DEF Offsets
<1>3. Boundary(s, i)
  BY <1>1, Sets DEF SanitizeInv, Boundary
<1>4. /\ s' = s /\ mode' = mode /\ pc' = pc /\ ignore' = ignore /\ subst' = subst
      /\ pc # "done" /\ i' = i + Classify(s, i).adv /\ Classify(s, i).good = good
  BY DEF Step
<1>5. Substitutes' = Substitutes
  BY <1>4 DEF Substitutes
<1> QED BY <1>1, <1>2, <1>3, <1>4, <1>5, ClassifyFacts

\* What it has to end in.
LEMMA StepKeepsInv ==
  ASSUME SanitizeInv, NEW good \in BOOLEAN, Step(good),
         Boundary(s, i'), w' \in Nat, w' <= (IF Substitutes THEN 3 * i' ELSE i'),
         out' \in Seq(Writes), Faithful(s, out', i', mode, Substitutes)
  PROVE  SanitizeInv'
<1> DEFINE r1 == Classify(s, i).adv
<1>1. /\ s \in Text /\ i \in Offsets(s)
      /\ s' = s /\ mode' = mode /\ pc' = pc /\ pc # "done"
      /\ Substitutes' = Substitutes
      /\ r1 \in 1..4 /\ i' = i + r1 /\ i + r1 <= Len(s)
  BY StepFacts
<1> HIDE DEF r1
<1>2. i' \in 0 .. Len(s)
  BY <1>1, OffsetIs
<1>3. \A p \in Characters(s) : p < i' => p + SizeAt(s, p) <= i'
  BY <1>1, Sets DEF Boundary
<1>4. (\A p \in Characters(s) : p < i => p + SizeAt(s, p) <= i)'
  BY <1>1, <1>3
<1>5. (i \in 0 .. Len(s))' /\ (w \in Nat)' /\ (out \in Seq(Writes))'
  BY <1>1, <1>2 DEF Writes, Text, Byte
<1>6. (w <= (IF Substitutes THEN 3 * i ELSE i))'
  <2>1. w' <= (IF Substitutes' THEN 3 * i' ELSE i')
    BY <1>1
  <2> QED BY <2>1
<1>7. Faithful(s', out', i', mode', Substitutes')
  BY <1>1
<1>8. (s \in Texts /\ mode \in {"encode", "decode"})' /\ (pc = "done" => i = Len(s))'
  BY <1>1 DEF SanitizeInv
<1> QED BY <1>4, <1>5, <1>6, <1>7, <1>8 DEF SanitizeInv

LEMMA CopyKeeps ==
  ASSUME SanitizeInv, CopyGood
  PROVE  SanitizeInv'
<1> DEFINE r1 == Classify(s, i).adv
           u == [from |-> i, bytes |-> Slice(s, i, r1)]
<1>1. Step(TRUE) /\ out' = Append(out, u) /\ w' = w + Len(Slice(s, i, r1))
  BY DEF CopyGood, Write
<1>2. /\ s \in Text /\ i \in Offsets(s) /\ Boundary(s, i) /\ CharAt(s, i)
      /\ r1 \in 1..4 /\ i' = i + r1 /\ i + r1 <= Len(s)
  BY <1>1, StepFacts
<1>3. r1 = SizeAt(s, i)
  BY <1>2, ClassifyFacts
<1> HIDE DEF r1
<1>4. i \in Nat /\ w \in Nat /\ out \in Seq(Writes)
      /\ w <= (IF Substitutes THEN 3 * i ELSE i)
      /\ Faithful(s, out, i, mode, Substitutes)
  BY <1>2, OffsetIs DEF SanitizeInv
<1>5. Slice(s, i, r1) \in Text /\ Len(Slice(s, i, r1)) = r1
  BY <1>2, SliceIs
<1>6. w' \in Nat /\ w' <= (IF Substitutes THEN 3 * i' ELSE i')
  BY <1>1, <1>2, <1>4, <1>5
<1>7. Boundary(s, i')
  BY <1>2, <1>3, BoundaryStep
<1>8. u \in Writes /\ u.from = i /\ u.bytes = Slice(s, i, SizeAt(s, i)) /\ i \in Characters(s)
  BY <1>2, <1>3, <1>4, <1>5, Sets DEF Writes
<1> HIDE DEF u
<1>9. out' \in Seq(Writes) /\ Faithful(s, out', i + 1, mode, Substitutes)
  BY <1>1, <1>2, <1>4, <1>8, FaithfulWrite
<1>10. ASSUME NEW x \in Offsets(s), i + 1 <= x, x < i' PROVE ~ Due(s, x, mode, Substitutes)
  <2>1. x \in Nat /\ i <= x /\ i < x /\ x < i + SizeAt(s, i)
    BY <1>2, <1>3, <1>4, <1>10, OffsetIs
  <2>2. Covered(s, x)
    BY <1>2, <2>1 DEF Covered
  <2>3. ~ CharAt(s, x)
    <3>1. SUFFICES ASSUME CharAt(s, x) PROVE FALSE
      OBVIOUS
    <3>2. i + SizeAt(s, i) <= x
      BY <1>2, <2>1, <3>1, Apart
    <3> QED BY <1>2, <1>3, <1>4, <2>1, <3>2
  <2> QED BY <1>2, <2>2, <2>3, Sets DEF Due
<1>11. i + 1 \in Nat /\ i' \in Nat /\ i + 1 <= i'
  BY <1>2, <1>4
<1>12. Faithful(s, out', i', mode, Substitutes)
  BY <1>2, <1>9, <1>10, <1>11, FaithfulSkip
<1> QED BY <1>1, <1>6, <1>7, <1>9, <1>12, StepKeepsInv

\* After a malformed byte: the bytes passed over are outside every character.
LEMMA BadFacts ==
  ASSUME SanitizeInv, Step(FALSE)
  PROVE  /\ Boundary(s, i') /\ i \in Outside(s) /\ i \notin Characters(s)
         /\ \A x \in Offsets(s) : i <= x /\ x < i' =>
              /\ x \in Outside(s) /\ x \notin Characters(s)
              /\ i < x => mode # "decode" /\ x - 1 \in Outside(s)
<1> DEFINE r1 == Classify(s, i).adv
<1>1. /\ s \in Text /\ i \in Offsets(s) /\ Boundary(s, i) /\ ~ CharAt(s, i)
      /\ r1 \in 1..4 /\ i' = i + r1 /\ i + r1 <= Len(s)
  BY StepFacts
<1>2. /\ mode = "decode" => r1 = 1
      /\ \A x \in Offsets(s) : i <= x /\ x < i + r1 => ~ CharAt(s, x)
  BY <1>1, ClassifyFacts
<1> HIDE DEF r1
<1>3. i \in Nat /\ Len(s) \in Nat
  BY <1>1, OffsetIs
<1>4. r1 \in Nat
  BY <1>1
<1>5. /\ Boundary(s, i + r1)
      /\ \A x \in Offsets(s) : i <= x /\ x < i + r1 => ~ Covered(s, x)
  BY <1>1, <1>2, <1>4, Skipped
<1>6. \A x \in Offsets(s) : i <= x /\ x < i' => x \in Outside(s) /\ x \notin Characters(s)
  BY <1>1, <1>2, <1>5, Sets
<1>7. i <= i /\ i < i'
  BY <1>1, <1>3
<1>8. ASSUME NEW x \in Offsets(s), i <= x, x < i', i < x
      PROVE  mode # "decode" /\ x - 1 \in Outside(s)
  <2>1. x \in Nat
    BY <1>1, OffsetIs
  <2>2. x - 1 \in Offsets(s) /\ i <= x - 1 /\ x - 1 < i'
    <3>1. x < Len(s)
      BY <1>1, OffsetIs
    <3> QED BY <1>1, <1>3, <1>8, <2>1, <3>1 DEF Offsets
  <2>3. r1 # 1
    BY <1>1, <1>3, <1>8, <2>1
  <2> QED BY <1>2, <1>6, <2>2, <2>3
<1> QED BY <1>1, <1>5, <1>6, <1>7, <1>8

LEMMA ReplaceKeeps ==
  ASSUME SanitizeInv, ReplaceBad
  PROVE  SanitizeInv'
<1> DEFINE r1 == Classify(s, i).adv
           u == [from |-> i, bytes |-> Replacement]
<1>1. Step(FALSE) /\ Substitutes /\ out' = Append(out, u) /\ w' = w + Len(Replacement)
  BY DEF ReplaceBad, Write
<1>2. s \in Text /\ i \in Offsets(s) /\ r1 \in 1..4 /\ i' = i + r1
  BY <1>1, StepFacts
<1> HIDE DEF r1
<1>3. i \in Nat /\ w \in Nat /\ out \in Seq(Writes) /\ w <= 3 * i
      /\ Faithful(s, out, i, mode, Substitutes)
  BY <1>1, <1>2, OffsetIs DEF SanitizeInv
<1>4. w' \in Nat /\ w' <= (IF Substitutes THEN 3 * i' ELSE i')
  BY <1>1, <1>2, <1>3, ReplacementIs
<1>5. u \in Writes /\ u.from = i /\ u.bytes = Replacement
  BY <1>3, ReplacementIs DEF Writes
<1> HIDE DEF u
<1>6. out' \in Seq(Writes) /\ Faithful(s, out', i + 1, mode, Substitutes)
  BY <1>1, <1>2, <1>3, <1>5, BadFacts, FaithfulWrite
<1>7. ASSUME NEW x \in Offsets(s), i + 1 <= x, x < i' PROVE ~ Due(s, x, mode, Substitutes)
  <2>1. x \in Nat /\ i <= x /\ i < x
    BY <1>2, <1>3, <1>7, OffsetIs
  <2> QED BY <1>1, <1>7, <2>1, BadFacts DEF Due
<1>8. i + 1 \in Nat /\ i' \in Nat /\ i + 1 <= i'
  BY <1>2, <1>3
<1>9. Faithful(s, out', i', mode, Substitutes)
  BY <1>2, <1>6, <1>7, <1>8, FaithfulSkip
<1>10. Boundary(s, i')
  BY <1>1, BadFacts
<1> QED BY <1>1, <1>4, <1>6, <1>9, <1>10, StepKeepsInv

LEMMA DropKeeps ==
  ASSUME SanitizeInv, DropBad
  PROVE  SanitizeInv'
<1> DEFINE r1 == Classify(s, i).adv
<1>1. Step(FALSE) /\ ~ Substitutes /\ out' = out /\ w' = w
  BY DEF DropBad
<1>2. s \in Text /\ i \in Offsets(s) /\ r1 \in 1..4 /\ i' = i + r1
  BY <1>1, StepFacts
<1> HIDE DEF r1
<1>3. i \in Nat /\ w \in Nat /\ out \in Seq(Writes) /\ w <= i
      /\ Faithful(s, out, i, mode, Substitutes)
  BY <1>1, <1>2, OffsetIs DEF SanitizeInv
<1>4. w' \in Nat /\ w' <= (IF Substitutes THEN 3 * i' ELSE i')
  BY <1>1, <1>2, <1>3
<1>5. ASSUME NEW x \in Offsets(s), i <= x, x < i' PROVE ~ Due(s, x, mode, Substitutes)
  BY <1>1, <1>5, BadFacts DEF Due
<1>6. i' \in Nat /\ i <= i'
  BY <1>2, <1>3
<1>7. Faithful(s, out', i', mode, Substitutes)
  BY <1>1, <1>2, <1>3, <1>5, <1>6, FaithfulSkip
<1>8. Boundary(s, i')
  BY <1>1, BadFacts
<1> QED BY <1>1, <1>3, <1>4, <1>7, <1>8, StepKeepsInv

LEMMA InitSanitizeInv == Init => SanitizeInv
<1> SUFFICES ASSUME Init PROVE SanitizeInv
  OBVIOUS
<1>1. s \in Texts /\ s \in Text /\ mode \in {"encode", "decode"} /\ i = 0 /\ out = << >>
      /\ w = 0 /\ pc = "loop"
  BY TextsAssumption DEF Init
<1>2. Len(s) \in Nat /\ i \in 0 .. Len(s)
  <2>1. Len(s) \in Nat
    BY <1>1 DEF Text
  <2> QED BY <1>1, <2>1
<1>3. \A p \in Offsets(s) : ~ (p < i)
  BY <1>1, OffsetIs
<1>4. out \in Seq(Writes) /\ Len(out) = 0 /\ 1 .. 0 = {} /\ 2 .. 0 = {}
  BY <1>1
<1>5. Faithful(s, out, i, mode, Substitutes)
  BY <1>3, <1>4 DEF Faithful
<1>6. \A p \in Characters(s) : ~ (p < i)
  BY <1>1, <1>3, Sets
<1>7. w \in Nat /\ w <= (IF Substitutes THEN 3 * i ELSE i)
  BY <1>1
<1> QED BY <1>1, <1>2, <1>4, <1>5, <1>6, <1>7 DEF SanitizeInv

LEMMA EndKeeps ==
  ASSUME SanitizeInv, End \/ UNCHANGED vars
  PROVE  SanitizeInv'
<1>1. /\ s' = s /\ mode' = mode /\ i' = i /\ out' = out /\ w' = w
      /\ ignore' = ignore /\ subst' = subst
      /\ pc' = "done" => pc = "done" \/ i >= Len(s)
  BY DEF End, vars
<1>2. Substitutes' = Substitutes
  BY <1>1 DEF Substitutes
<1>3. i \in 0 .. Len(s) /\ Len(s) \in Nat
  <2>1. s \in Text
    BY TextsAssumption DEF SanitizeInv
  <2> QED BY <2>1 DEF SanitizeInv, Text
<1>4. pc' = "done" => i = Len(s)
  BY <1>1, <1>3 DEF SanitizeInv
<1>5. (\A p \in Characters(s) : p < i => p + SizeAt(s, p) <= i)'
  BY <1>1 DEF SanitizeInv
<1>6. (w <= (IF Substitutes THEN 3 * i ELSE i))'
  BY <1>1, <1>2 DEF SanitizeInv
<1>7. Faithful(s', out', i', mode', Substitutes')
  BY <1>1, <1>2 DEF SanitizeInv
<1>8. (s \in Texts)' /\ (mode \in {"encode", "decode"})' /\ (i \in 0 .. Len(s))' /\ (w \in Nat)'
      /\ (out \in Seq(Writes))' /\ (pc = "done" => i = Len(s))'
  BY <1>1, <1>4 DEF SanitizeInv, Writes
<1> QED BY <1>5, <1>6, <1>7, <1>8 DEF SanitizeInv

(***************************************************************************)
(* Write by write: what is behind the read offset of the sanitizer is      *)
(* accounted for, and the write offset never outruns it.                   *)
(***************************************************************************)
THEOREM SanitizeInvariant == Spec => []SanitizeInv
<1>1. ASSUME SanitizeInv, [Next]_vars PROVE SanitizeInv'
  BY <1>1, CopyKeeps, ReplaceKeeps, DropKeeps, EndKeeps DEF Next
<1> QED BY <1>1, InitSanitizeInv, PTL DEF Spec

LEMMA FaithfulIsSanitized ==
  ASSUME SanitizeInv, i = Len(s)
  PROVE  SanitizedUpTo(Len(s))
<1> DEFINE n == Len(s)
           written == {out[k] : k \in 1 .. Len(out)}
           kept == {u \in written : u.from \in Characters(s)}
           marks == {u.from : u \in written \ kept}
           outside == {p \in Outside(s) : p < n}
           Copy(p) == [from |-> p, bytes |-> Slice(s, p, SizeAt(s, p))]
<1>1. /\ s \in Text /\ out \in Seq(Writes) /\ Faithful(s, out, n, mode, Substitutes)
      /\ mode \in {"encode", "decode"}
  BY TextsAssumption DEF SanitizeInv
<1>2. \A k \in 1 .. Len(out) : out[k] \in Writes
  BY <1>1
<1>3. /\ \A p \in Characters(s) : p \in Offsets(s) /\ p < n
      /\ \A p \in Outside(s) : p \in Offsets(s) /\ p < n
  BY <1>1, Sets, OffsetIs
<1>4. ASSUME NEW u \in written
      PROVE  /\ u \in Writes
             /\ u.from \in Characters(s) => u.bytes = Slice(s, u.from, SizeAt(s, u.from))
             /\ u.from \notin Characters(s) =>
                  u.bytes = Replacement /\ Substitutes /\ u.from \in Outside(s)
  <2>1. PICK k \in 1 .. Len(out) : u = out[k]
    OBVIOUS
  <2> QED BY <1>1, <1>2, <2>1 DEF Faithful
<1>5. ASSUME NEW p \in Offsets(s), Due(s, p, mode, Substitutes)
      PROVE  \E u \in written : u.from = p
  <2>1. p < n
    BY <1>1, OffsetIs
  <2>2. PICK k \in 1 .. Len(out) : out[k].from = p
    BY <1>1, <1>5, <2>1 DEF Faithful
  <2> QED BY <2>2
<1>6. \A k \in 2 .. Len(out) : out[k - 1].from < out[k].from
  BY <1>1 DEF Faithful
<1> HIDE DEF n, written
<1>7. kept = {Copy(p) : p \in {q \in Characters(s) : q < n}}
  <2>1. ASSUME NEW u \in kept
        PROVE  \E p \in {q \in Characters(s) : q < n} : u = Copy(p)
    <3>1. u \in written /\ u \in Writes /\ u.from \in Characters(s)
          /\ u.bytes = Slice(s, u.from, SizeAt(s, u.from))
      BY <1>4
    <3>2. u = Copy(u.from)
      BY <3>1 DEF Writes
    <3> HIDE DEF Copy
    <3> QED BY <1>3, <3>1, <3>2
  <2>2. ASSUME NEW p \in Characters(s), p < n PROVE Copy(p) \in kept
    <3>1. PICK u \in written : u.from = p
      BY <1>3, <1>5 DEF Due
    <3>2. u \in Writes /\ u.bytes = Slice(s, p, SizeAt(s, p))
      BY <1>4, <3>1
    <3>3. u = Copy(p)
      BY <3>1, <3>2 DEF Writes
    <3> HIDE DEF Copy
    <3> QED BY <3>1, <3>3
  <2> HIDE DEF Copy, kept
  <2> QED BY <2>1, <2>2
<1>8. \A u \in written \ kept : u.bytes = Replacement /\ Substitutes /\ u.from \in Outside(s)
  BY <1>4
<1>9. marks \subseteq outside /\ (~ Substitutes => marks = {})
  BY <1>3, <1>8
<1>10. ASSUME NEW p \in Outside(s), Due(s, p, mode, Substitutes) PROVE p \in marks
  <2>1. PICK u \in written : u.from = p
    BY <1>3, <1>5, <1>10
  <2>2. p \notin Characters(s)
    <3>1. SUFFICES ASSUME CharAt(s, p) PROVE FALSE
      BY <1>1, Sets
    <3>2. p \in Offsets(s) /\ p \in Nat /\ ~ Covered(s, p)
      BY <1>1, <1>3, Sets, OffsetIs
    <3>3. SizeAt(s, p) \in 1..4
      BY <1>1, <3>1, <3>2, CharFacts
    <3>4. p <= p /\ p < p + SizeAt(s, p)
      BY <3>2, <3>3
    <3> QED BY <3>1, <3>2, <3>4 DEF Covered
  <2> QED BY <2>1, <2>2
<1>11. Substitutes /\ mode = "decode" => outside \subseteq marks
  BY <1>10 DEF Due
<1>12. Substitutes /\ mode = "encode" =>
         {p \in outside : p - 1 \notin Outside(s)} \subseteq marks
  BY <1>10 DEF Due
<1> HIDE DEF kept, outside
<1>13. Substitutes /\ mode = "decode" => marks = outside
  <2> HIDE DEF marks
  <2> QED BY <1>9, <1>11
<1> QED
  BY <1>6, <1>7, <1>8, <1>9, <1>12, <1>13, ZenonT(60)
     DEF SanitizedUpTo, n, written, kept, outside

(***************************************************************************)
(* For every byte string, both modes and all flags: the sanitizer stays in *)
(* its buffer, and its result is the characters of the text, in order and  *)
(* unchanged, with replacements only for bytes outside of them.            *)
(***************************************************************************)
THEOREM SanitizerIsExact == Spec => []SanitizesExactly
<1>1. ASSUME SanitizeInv PROVE SanitizesExactly
  <2>1. Len(s) \in Nat /\ i \in 0 .. Len(s) /\ w \in Nat
    <3>1. s \in Text
      BY <1>1, TextsAssumption DEF SanitizeInv
    <3> QED BY <1>1, <3>1 DEF SanitizeInv, Text
  <2>2. w <= (IF Substitutes THEN 3 * i ELSE i)
    BY <1>1 DEF SanitizeInv
  <2>3. w <= BufferSize
    BY <2>1, <2>2 DEF BufferSize
  <2>4. pc = "done" => SanitizedUpTo(Len(s))
    BY <1>1, FaithfulIsSanitized DEF SanitizeInv
  <2> QED BY <2>3, <2>4 DEF SanitizesExactly
<1> QED BY <1>1, SanitizeInvariant, PTL

-----------------------------------------------------------------------------
(* Strings written out: the tokens *)

Tok == STRING \cup {"Q", "/", "\\", "ctl", "L2", "L3", "L4", "T", "X", "u", "h", "high", "low",
                    "null", "hex", "0", "unset"}

LEMMA TokFacts ==
  /\ "Q" \in Tok /\ "/" \in Tok /\ "\\" \in Tok /\ "ctl" \in Tok /\ "L2" \in Tok /\ "L3" \in Tok
  /\ "L4" \in Tok /\ "T" \in Tok /\ "X" \in Tok /\ "u" \in Tok /\ "h" \in Tok /\ "high" \in Tok
  /\ "low" \in Tok /\ "null" \in Tok /\ "hex" \in Tok /\ "0" \in Tok /\ "unset" \in Tok
BY DEF Tok

LEMMA SizeIs == ASSUME NEW c PROVE Size(c) \in 1 .. 4
BY DEF Size

LEMMA SizeOfAscii == ASSUME NEW c, c \notin {"L2", "L3", "L4", "X"} PROVE Size(c) = 1
BY DEF Size

LEMMA Joined ==
  ASSUME NEW S, NEW x \in Seq(S), NEW y \in Seq(S)
  PROVE  /\ x \o y \in Seq(S) /\ Len(x \o y) = Len(x) + Len(y)
         /\ \A k \in 1 .. Len(x) : (x \o y)[k] = x[k]
         /\ \A k \in 1 .. Len(y) : (x \o y)[Len(x) + k] = y[k]
         /\ \A k \in Len(x) + 1 .. Len(x) + Len(y) : (x \o y)[k] = y[k - Len(x)]
OBVIOUS

LEMMA JoinedOf ==
  ASSUME NEW S, NEW x \in Seq(S), NEW y \in Seq(S), NEW p, NEW n, Len(x) = p, Len(y) = n
  PROVE  /\ x \o y \in Seq(S) /\ Len(x \o y) = p + n
         /\ \A k \in 1 .. p : (x \o y)[k] = x[k]
         /\ \A k \in p + 1 .. p + n : (x \o y)[k] = y[k - p]
BY Joined

LEMMA PieceIs ==
  ASSUME NEW S, NEW t \in Seq(S), NEW p \in Nat, NEW n \in Nat, p + n <= Len(t)
  PROVE  /\ Piece(t, p, n) \in Seq(S) /\ Len(Piece(t, p, n)) = n
         /\ \A k \in 1 .. n : Piece(t, p, n)[k] = t[p + k]
BY DEF Piece

LEMMA StoreIs ==
  ASSUME NEW t \in Seq(Tok), NEW p \in 0 .. Len(t), NEW what \in Seq(Tok)
  PROVE  /\ Store(t, p, what) \in Seq(Tok)
         /\ Len(Store(t, p, what)) = Most(Len(t), p + Len(what))
         /\ \A k \in 1 .. p : Store(t, p, what)[k] = t[k]
         /\ \A k \in 1 .. Len(what) : Store(t, p, what)[p + k] = what[k]
         /\ \A k \in p + Len(what) + 1 .. Len(t) : Store(t, p, what)[k] = t[k]
<1>1. Len(t) \in Nat /\ Len(what) \in Nat /\ p \in Nat /\ p <= Len(t)
  OBVIOUS
<1> DEFINE L == Most(Len(t), p + Len(what))
<1>2. L \in Nat /\ L >= Len(t) /\ L >= p + Len(what) /\ (L = Len(t) \/ L = p + Len(what))
  BY <1>1 DEF Most
<1> HIDE DEF L
<1> DEFINE v == [k \in 1 .. L |-> IF k \in p + 1 .. p + Len(what) THEN what[k - p] ELSE t[k]]
<1>3. Store(t, p, what) = v
  BY DEF Store, L
<1>4. ASSUME NEW k \in 1 .. L PROVE v[k] \in Tok
  <2>1. CASE k \in p + 1 .. p + Len(what)
    <3>1. k - p \in 1 .. Len(what)
      BY <2>1, <1>1
    <3> QED BY <3>1, <2>1
  <2>2. CASE k \notin p + 1 .. p + Len(what)
    <3>1. k \in 1 .. Len(t)
      BY <2>2, <1>1, <1>2
    <3> QED BY <3>1, <2>2
  <2> QED BY <2>1, <2>2
<1>5. v \in Seq(Tok) /\ Len(v) = L
  BY <1>2, <1>4, IsASeq
<1>6. \A k \in 1 .. p : v[k] = t[k]
  BY <1>1, <1>2
<1>7. ASSUME NEW k \in 1 .. Len(what) PROVE v[p + k] = what[k]
  <2>1. p + k \in 1 .. L /\ p + k \in p + 1 .. p + Len(what) /\ (p + k) - p = k
    BY <1>1, <1>2
  <2> QED BY <2>1
<1>8. ASSUME NEW k \in p + Len(what) + 1 .. Len(t) PROVE v[k] = t[k]
  <2>1. k \in 1 .. L /\ k \notin p + 1 .. p + Len(what)
    BY <1>1, <1>2
  <2> QED BY <2>1
<1> HIDE DEF v
<1> QED BY <1>3, <1>5, <1>6, <1>7, <1>8 DEF L

-----------------------------------------------------------------------------
(* Characters *)

LEMMA WholeIs ==
  ASSUME NEW S, NEW t \in Seq(S), NEW p \in 0 .. Len(t) - 1, WholeAt(t, p)
  PROVE  /\ ByteOf(t, p) # "T" /\ ByteOf(t, p) # "X" /\ p + Size(ByteOf(t, p)) \in 1 .. Len(t)
         /\ Size(ByteOf(t, p)) \in 1 .. 4
         /\ \A q \in p + 1 .. p + Size(ByteOf(t, p)) - 1 : ByteOf(t, q) = "T" /\ ~ WholeAt(t, q)
<1>1. Size(ByteOf(t, p)) \in 1 .. 4
  BY SizeIs
<1>2. ASSUME NEW q \in p + 1 .. p + Size(ByteOf(t, p)) - 1
      PROVE  ByteOf(t, q) = "T" /\ ~ WholeAt(t, q)
  <2>1. q - p \in 1 .. Size(ByteOf(t, p)) - 1 /\ p + (q - p) = q
    BY <1>1
  <2>2. ByteOf(t, q) = "T"
    BY <2>1 DEF WholeAt
  <2> QED BY <2>2 DEF WholeAt
<1> QED BY <1>1, <1>2 DEF WholeAt

\* No character begins before the offset and ends behind it.
Parted(t, p) == \A q \in Starts(t) : q < p => q + Size(ByteOf(t, q)) <= p

LEMMA PartedIs ==
  ASSUME NEW S, NEW t \in Seq(S)
  PROVE  /\ Parted(t, 0) /\ Parted(t, Len(t))
         /\ \A p \in 0 .. Len(t) - 1 : ByteOf(t, p) # "T" => Parted(t, p)
         /\ \A p \in 0 .. Len(t) - 1 :
               Parted(t, p) /\ WholeAt(t, p) => Parted(t, p + Size(ByteOf(t, p)))
         /\ \A p \in 0 .. Len(t) - 1 : p \in Stray(t) => Parted(t, p) /\ Parted(t, p + 1)
<1>1. \A q \in Starts(t) : /\ q \in 0 .. Len(t) - 1 /\ WholeAt(t, q)
                           /\ Size(ByteOf(t, q)) \in 1 .. 4
                           /\ q + Size(ByteOf(t, q)) <= Len(t)
  BY SizeIs DEF Starts, WholeAt
<1>2. Parted(t, 0) /\ Parted(t, Len(t))
  BY <1>1 DEF Parted
<1>3. ASSUME NEW p \in 0 .. Len(t) - 1, ByteOf(t, p) # "T" PROVE Parted(t, p)
  <2>1. ASSUME NEW q \in Starts(t), q < p PROVE q + Size(ByteOf(t, q)) <= p
    <3>1. q \in 0 .. Len(t) - 1 /\ WholeAt(t, q) /\ Size(ByteOf(t, q)) \in 1 .. 4
      BY <1>1
    <3>2. CASE p \in q + 1 .. q + Size(ByteOf(t, q)) - 1
      BY <3>1, <3>2, <1>3, WholeIs
    <3>3. CASE p \notin q + 1 .. q + Size(ByteOf(t, q)) - 1
      BY <3>1, <3>3, <2>1
    <3> QED BY <3>2, <3>3
  <2> QED BY <2>1 DEF Parted
<1>4. ASSUME NEW p \in 0 .. Len(t) - 1, Parted(t, p), WholeAt(t, p)
      PROVE  Parted(t, p + Size(ByteOf(t, p)))
  <2>0. Size(ByteOf(t, p)) \in 1 .. 4
    BY SizeIs
  <2>1. ASSUME NEW q \in Starts(t), q < p + Size(ByteOf(t, p))
        PROVE  q + Size(ByteOf(t, q)) <= p + Size(ByteOf(t, p))
    <3>1. q \in 0 .. Len(t) - 1 /\ WholeAt(t, q) /\ Size(ByteOf(t, q)) \in 1 .. 4
      BY <1>1
    <3>2. CASE q < p
      <4>1. q + Size(ByteOf(t, q)) <= p
        BY <1>4, <3>2 DEF Parted
      <4> QED BY <4>1, <2>0, <3>1
    <3>3. CASE q = p
      BY <3>3, <2>0
    <3>4. CASE q > p
      <4>1. q \in p + 1 .. p + Size(ByteOf(t, p)) - 1
        BY <3>4, <2>0, <2>1, <3>1
      <4> QED BY <4>1, <1>4, <3>1, WholeIs
    <3> QED BY <3>1, <3>2, <3>3, <3>4
  <2> QED BY <2>1 DEF Parted
<1>5. ASSUME NEW p \in 0 .. Len(t) - 1, p \in Stray(t) PROVE Parted(t, p) /\ Parted(t, p + 1)
  <2>1. ASSUME NEW q \in Starts(t), q < p + 1
        PROVE  q + Size(ByteOf(t, q)) <= p
    <3>1. q \in 0 .. Len(t) - 1 /\ Size(ByteOf(t, q)) \in 1 .. 4
      BY <1>1
    <3>2. p \notin q .. q + Size(ByteOf(t, q)) - 1
      BY <1>5 DEF Stray
    <3> QED BY <3>1, <3>2, <2>1
  <2>2. \A q \in Starts(t) : q + Size(ByteOf(t, q)) \in Int /\ q \in Int
    BY <1>1
  <2> QED BY <2>1, <2>2 DEF Parted
<1> QED BY <1>2, <1>3, <1>4, <1>5

\* The bytes of a character; every other is stray.
LEMMA StrayIs ==
  ASSUME NEW S, NEW t \in Seq(S), NEW p \in 0 .. Len(t) - 1
  PROVE  /\ p \notin Stray(t) => \E q \in 0 .. p : /\ WholeAt(t, q) /\ q \in Starts(t)
                                                   /\ q < Len(t) /\ p < q + Size(ByteOf(t, q))
         /\ WholeAt(t, p) => \A k \in p .. p + Size(ByteOf(t, p)) - 1 : k \notin Stray(t)
         /\ p \notin Stray(t) /\ ~ WholeAt(t, p) => ByteOf(t, p) = "T" /\ ~ Parted(t, p)
<1>1. \A q \in Starts(t) : q \in 0 .. Len(t) - 1 /\ WholeAt(t, q) /\ Size(ByteOf(t, q)) \in 1 .. 4
  BY SizeIs DEF Starts
<1>2. ASSUME p \notin Stray(t)
      PROVE  \E q \in 0 .. p : /\ WholeAt(t, q) /\ q \in Starts(t)
                               /\ q < Len(t) /\ p < q + Size(ByteOf(t, q))
  <2>1. PICK q \in Starts(t) : p \in q .. q + Size(ByteOf(t, q)) - 1
    BY <1>2 DEF Stray
  <2> QED BY <1>1, <2>1
<1>3. ASSUME WholeAt(t, p), NEW k \in p .. p + Size(ByteOf(t, p)) - 1 PROVE k \notin Stray(t)
  <2>1. p \in Starts(t)
    BY <1>3 DEF Starts
  <2> QED BY <1>3, <2>1 DEF Stray
<1>4. ASSUME p \notin Stray(t), ~ WholeAt(t, p) PROVE ByteOf(t, p) = "T" /\ ~ Parted(t, p)
  <2>1. PICK q \in 0 .. p : WholeAt(t, q) /\ q \in Starts(t) /\ q < Len(t) /\ p < q + Size(ByteOf(t, q))
    BY <1>2, <1>4
  <2>2. q < p /\ Size(ByteOf(t, q)) \in 1 .. 4
    BY <2>1, <1>1, <1>4
  <2>3. ByteOf(t, p) = "T"
    <3>1. q \in 0 .. Len(t) - 1 /\ p \in q + 1 .. q + Size(ByteOf(t, q)) - 1
      BY <2>1, <2>2
    <3> QED BY <3>1, <2>1, WholeIs
  <2>4. ~ Parted(t, p)
    BY <2>1, <2>2 DEF Parted
  <2> QED BY <2>3, <2>4
<1> QED BY <1>2, <1>3, <1>4

-----------------------------------------------------------------------------
(* A string made of two *)

LEMMA JoinBytes ==
  ASSUME NEW S, NEW x \in Seq(S), NEW y \in Seq(S)
  PROVE  LET c == x \o y
         IN  /\ c \in Seq(S) /\ Len(c) = Len(x) + Len(y) /\ Len(x) \in Nat /\ Len(y) \in Nat
             /\ \A p \in 0 .. Len(x) - 1 : ByteOf(c, p) = ByteOf(x, p)
             /\ \A p \in 0 .. Len(y) - 1 : ByteOf(c, Len(x) + p) = ByteOf(y, p)
             /\ \A p, n \in Nat : p + n <= Len(x) => Piece(c, p, n) = Piece(x, p, n)
             /\ \A p, n \in Nat : p + n <= Len(y) => Piece(c, Len(x) + p, n) = Piece(y, p, n)
<1> DEFINE c == x \o y
<1>1. /\ c \in Seq(S) /\ Len(c) = Len(x) + Len(y) /\ Len(x) \in Nat /\ Len(y) \in Nat
      /\ \A k \in 1 .. Len(x) : c[k] = x[k]
      /\ \A k \in 1 .. Len(y) : c[Len(x) + k] = y[k]
  OBVIOUS
<1> HIDE DEF c
<1>2. ASSUME NEW p \in 0 .. Len(x) - 1 PROVE ByteOf(c, p) = ByteOf(x, p)
  <2>1. p + 1 \in 1 .. Len(x)
    BY <1>1
  <2> QED BY <1>1, <2>1 DEF ByteOf
<1>3. ASSUME NEW p \in 0 .. Len(y) - 1 PROVE ByteOf(c, Len(x) + p) = ByteOf(y, p)
  <2>1. p + 1 \in 1 .. Len(y) /\ Len(x) + (p + 1) = (Len(x) + p) + 1
    BY <1>1
  <2>2. c[Len(x) + (p + 1)] = y[p + 1]
    BY <1>1, <2>1
  <2> QED BY <2>1, <2>2 DEF ByteOf
<1>4. ASSUME NEW p \in Nat, NEW n \in Nat, p + n <= Len(x) PROVE Piece(c, p, n) = Piece(x, p, n)
  <2>1. p + n <= Len(c)
    BY <1>1, <1>4
  <2>2. \A k \in 1 .. n : p + k \in 1 .. Len(x)
    BY <1>1, <1>4
  <2>3. ASSUME NEW k \in 1 .. n PROVE Piece(c, p, n)[k] = Piece(x, p, n)[k]
    <3>0. c \in Seq(S)
      BY <1>1
    <3>1. Piece(c, p, n)[k] = c[p + k]
      BY <3>0, <2>1, PieceIs
    <3>2. Piece(x, p, n)[k] = x[p + k]
      BY <1>4, PieceIs
    <3> QED BY <1>1, <2>2, <3>1, <3>2
  <2>4. /\ Piece(c, p, n) \in Seq(S) /\ Piece(x, p, n) \in Seq(S)
        /\ Len(Piece(c, p, n)) = n /\ Len(Piece(x, p, n)) = n
    BY <1>1, <1>4, <2>1, PieceIs
  <2> QED BY <2>3, <2>4, SeqEqual
<1>5. ASSUME NEW p \in Nat, NEW n \in Nat, p + n <= Len(y)
      PROVE  Piece(c, Len(x) + p, n) = Piece(y, p, n)
  <2>1. Len(x) + p \in Nat /\ (Len(x) + p) + n <= Len(c)
    BY <1>1, <1>5
  <2>2. \A k \in 1 .. n : p + k \in 1 .. Len(y) /\ (Len(x) + p) + k = Len(x) + (p + k)
    BY <1>1, <1>5
  <2>3. ASSUME NEW k \in 1 .. n PROVE Piece(c, Len(x) + p, n)[k] = Piece(y, p, n)[k]
    <3>0. c \in Seq(S)
      BY <1>1
    <3>1. Piece(c, Len(x) + p, n)[k] = c[(Len(x) + p) + k]
      BY <3>0, <2>1, PieceIs
    <3>2. Piece(y, p, n)[k] = y[p + k]
      BY <1>5, PieceIs
    <3> QED BY <1>1, <2>2, <3>1, <3>2
  <2>4. /\ Piece(c, Len(x) + p, n) \in Seq(S) /\ Piece(y, p, n) \in Seq(S)
        /\ Len(Piece(c, Len(x) + p, n)) = n /\ Len(Piece(y, p, n)) = n
    BY <1>1, <1>5, <2>1, PieceIs
  <2> QED BY <2>3, <2>4, SeqEqual
<1>6. /\ c \in Seq(S) /\ Len(c) = Len(x) + Len(y) /\ Len(x) \in Nat /\ Len(y) \in Nat
      /\ \A p \in 0 .. Len(x) - 1 : ByteOf(c, p) = ByteOf(x, p)
      /\ \A p \in 0 .. Len(y) - 1 : ByteOf(c, Len(x) + p) = ByteOf(y, p)
      /\ \A p, n \in Nat : p + n <= Len(x) => Piece(c, p, n) = Piece(x, p, n)
      /\ \A p, n \in Nat : p + n <= Len(y) => Piece(c, Len(x) + p, n) = Piece(y, p, n)
  BY <1>1, <1>2, <1>3, <1>4, <1>5
<1> QED BY <1>6 DEF c

LEMMA JoinChars ==
  ASSUME NEW S, NEW x \in Seq(S), NEW y \in Seq(S)
  PROVE  LET c == x \o y
         IN  /\ \A p \in 0 .. Len(x) - 1 : WholeAt(x, p) => WholeAt(c, p)
             /\ Parted(c, Len(x)) => \A p \in 0 .. Len(x) - 1 : WholeAt(c, p) => WholeAt(x, p)
             /\ \A p \in 0 .. Len(y) - 1 : WholeAt(c, Len(x) + p) <=> WholeAt(y, p)
             /\ Valid(x) => Parted(c, Len(x))
<1> DEFINE c == x \o y
<1>1. /\ c \in Seq(S) /\ Len(c) = Len(x) + Len(y) /\ Len(x) \in Nat /\ Len(y) \in Nat
      /\ \A p \in 0 .. Len(x) - 1 : ByteOf(c, p) = ByteOf(x, p)
      /\ \A p \in 0 .. Len(y) - 1 : ByteOf(c, Len(x) + p) = ByteOf(y, p)
  BY JoinBytes
<1> HIDE DEF c
<1>2. ASSUME NEW p \in 0 .. Len(x) - 1, WholeAt(x, p) PROVE WholeAt(c, p)
  <2> DEFINE z == Size(ByteOf(x, p))
  <2>1. z \in 1 .. 4 /\ p + z <= Len(x) /\ ByteOf(c, p) = ByteOf(x, p)
    BY <1>1, <1>2, SizeIs DEF WholeAt
  <2>2. \A k \in 1 .. z - 1 : ByteOf(x, p + k) = "T"
    BY <1>2 DEF WholeAt
  <2>3. ASSUME NEW k \in 1 .. z - 1 PROVE ByteOf(c, p + k) = "T"
    <3>1. p + k \in 0 .. Len(x) - 1
      BY <2>1, <1>1
    <3> QED BY <3>1, <1>1, <2>2
  <2>4. p + z <= Len(c)
    BY <1>1, <2>1
  <2> QED BY <1>2, <2>1, <2>3, <2>4 DEF WholeAt
<1>3. ASSUME Parted(c, Len(x)), NEW p \in 0 .. Len(x) - 1, WholeAt(c, p) PROVE WholeAt(x, p)
  <2> DEFINE z == Size(ByteOf(c, p))
  <2>1. z \in 1 .. 4 /\ ByteOf(c, p) = ByteOf(x, p) /\ p \in 0 .. Len(c) - 1
    BY <1>1, SizeIs
  <2>2. p + z <= Len(x)
    BY <1>1, <1>3, <2>1 DEF Parted, Starts
  <2>3. \A k \in 1 .. z - 1 : ByteOf(c, p + k) = "T"
    BY <1>3 DEF WholeAt
  <2>4. ASSUME NEW k \in 1 .. z - 1 PROVE ByteOf(x, p + k) = "T"
    <3>1. p + k \in 0 .. Len(x) - 1
      BY <2>1, <2>2, <1>1
    <3> QED BY <3>1, <1>1, <2>3
  <2> QED BY <1>3, <2>1, <2>2, <2>4 DEF WholeAt
<1>4. ASSUME NEW p \in 0 .. Len(y) - 1 PROVE WholeAt(c, Len(x) + p) <=> WholeAt(y, p)
  <2> DEFINE z == Size(ByteOf(y, p))
  <2>1. z \in 1 .. 4 /\ ByteOf(c, Len(x) + p) = ByteOf(y, p)
    BY <1>1, SizeIs
  <2>2. (Len(x) + p) + z <= Len(c) <=> p + z <= Len(y)
    BY <1>1, <2>1
  <2>3. ASSUME p + z <= Len(y), NEW k \in 1 .. z - 1
        PROVE  ByteOf(c, (Len(x) + p) + k) = ByteOf(y, p + k)
    <3>1. p + k \in 0 .. Len(y) - 1 /\ (Len(x) + p) + k = Len(x) + (p + k)
      BY <1>1, <2>1, <2>3
    <3>2. ByteOf(c, Len(x) + (p + k)) = ByteOf(y, p + k)
      BY <1>1, <3>1
    <3> QED BY <3>1, <3>2
  <2> QED BY <2>1, <2>2, <2>3 DEF WholeAt
<1>5. ASSUME Valid(x) PROVE Parted(c, Len(x))
  <2>1. ASSUME NEW q \in Starts(c), q < Len(x) PROVE q + Size(ByteOf(c, q)) <= Len(x)
    <3>1. q \in 0 .. Len(x) - 1 /\ WholeAt(c, q)
      BY <1>1, <2>1 DEF Starts
    <3>2. q \notin Stray(x)
      BY <1>5 DEF Valid
    <3>3. ByteOf(x, q) # "T"
      BY <3>1, <1>1 DEF WholeAt
    <3>4. WholeAt(x, q)
      BY <3>1, <3>2, <3>3, StrayIs
    <3>5. q + Size(ByteOf(x, q)) <= Len(x)
      BY <3>4 DEF WholeAt
    <3> QED BY <3>1, <3>5, <1>1
  <2> QED BY <2>1 DEF Parted
<1>6. /\ \A p \in 0 .. Len(x) - 1 : WholeAt(x, p) => WholeAt(c, p)
      /\ Parted(c, Len(x)) => \A p \in 0 .. Len(x) - 1 : WholeAt(c, p) => WholeAt(x, p)
      /\ \A p \in 0 .. Len(y) - 1 : WholeAt(c, Len(x) + p) <=> WholeAt(y, p)
      /\ Valid(x) => Parted(c, Len(x))
  BY <1>2, <1>3, <1>4, <1>5
<1> QED BY <1>6 DEF c

\* Two strings that meet between two characters are valid together if each is.
LEMMA JoinValid ==
  ASSUME NEW S, NEW x \in Seq(S), NEW y \in Seq(S), Parted(x \o y, Len(x))
  PROVE  Valid(x \o y) <=> Valid(x) /\ Valid(y)
<1> DEFINE c == x \o y
<1>1. /\ c \in Seq(S) /\ Len(c) = Len(x) + Len(y) /\ Len(x) \in Nat /\ Len(y) \in Nat
      /\ \A p \in 0 .. Len(x) - 1 : ByteOf(c, p) = ByteOf(x, p)
      /\ \A p \in 0 .. Len(y) - 1 : ByteOf(c, Len(x) + p) = ByteOf(y, p)
  BY JoinBytes
<1>2. /\ \A p \in 0 .. Len(x) - 1 : WholeAt(c, p) <=> WholeAt(x, p)
      /\ \A p \in 0 .. Len(y) - 1 : WholeAt(c, Len(x) + p) <=> WholeAt(y, p)
  BY JoinChars
<1>3. Parted(c, Len(x))
  OBVIOUS
<1> HIDE DEF c
<1>4. \A q \in Starts(c) : /\ q \in 0 .. Len(c) - 1 /\ Size(ByteOf(c, q)) \in 1 .. 4
                           /\ q < Len(x) => q + Size(ByteOf(c, q)) <= Len(x)
  BY <1>3, SizeIs DEF Starts, Parted
<1>5. ASSUME NEW p \in 0 .. Len(x) - 1 PROVE p \in Stray(c) <=> p \in Stray(x)
  <2>1. p \in 0 .. Len(c) - 1
    BY <1>1
  <2>2. ASSUME p \notin Stray(c) PROVE p \notin Stray(x)
    <3>1. PICK q \in 0 .. p : WholeAt(c, q) /\ p < q + Size(ByteOf(c, q))
      BY <2>1, <2>2, <1>1, StrayIs
    <3>2. q \in 0 .. Len(x) - 1 /\ WholeAt(x, q) /\ ByteOf(c, q) = ByteOf(x, q)
      BY <3>1, <1>1, <1>2
    <3>3. p \in q .. q + Size(ByteOf(x, q)) - 1
      BY <3>1, <3>2, SizeIs
    <3> QED BY <3>2, <3>3, StrayIs
  <2>3. ASSUME p \notin Stray(x) PROVE p \notin Stray(c)
    <3>1. PICK q \in 0 .. p : WholeAt(x, q) /\ p < q + Size(ByteOf(x, q))
      BY <2>3, StrayIs
    <3>2. q \in 0 .. Len(c) - 1 /\ WholeAt(c, q) /\ ByteOf(c, q) = ByteOf(x, q)
      BY <3>1, <1>1, <1>2
    <3>3. p \in q .. q + Size(ByteOf(c, q)) - 1
      BY <3>1, <3>2, SizeIs
    <3> QED BY <3>2, <3>3, <1>1, StrayIs
  <2> QED BY <2>2, <2>3
<1>6. ASSUME NEW p \in 0 .. Len(y) - 1 PROVE Len(x) + p \in Stray(c) <=> p \in Stray(y)
  <2>1. Len(x) + p \in 0 .. Len(c) - 1
    BY <1>1
  <2>2. ASSUME Len(x) + p \notin Stray(c) PROVE p \notin Stray(y)
    <3>1. PICK q \in 0 .. Len(x) + p : /\ WholeAt(c, q) /\ q \in Starts(c)
                                      /\ Len(x) + p < q + Size(ByteOf(c, q))
      BY <2>1, <2>2, <1>1, StrayIs
    <3>0. /\ q \in Nat /\ Size(ByteOf(c, q)) \in 1 .. 4
          /\ q < Len(x) => q + Size(ByteOf(c, q)) <= Len(x)
      BY <3>1, <1>4
    <3>2. q - Len(x) \in 0 .. p /\ q = Len(x) + (q - Len(x))
      BY <3>0, <3>1, <1>1
    <3>3. q - Len(x) \in 0 .. Len(y) - 1
      BY <3>2, <1>1
    <3>4. WholeAt(y, q - Len(x)) /\ ByteOf(c, q) = ByteOf(y, q - Len(x))
      BY <3>1, <3>2, <3>3, <1>1, <1>2
    <3>5. p \in q - Len(x) .. (q - Len(x)) + Size(ByteOf(y, q - Len(x))) - 1
      BY <3>1, <3>2, <3>4, <1>1, SizeIs
    <3> QED BY <3>3, <3>4, <3>5, StrayIs
  <2>3. ASSUME p \notin Stray(y) PROVE Len(x) + p \notin Stray(c)
    <3>1. PICK q \in 0 .. p : WholeAt(y, q) /\ p < q + Size(ByteOf(y, q))
      BY <2>3, StrayIs
    <3>2. /\ q \in 0 .. Len(y) - 1 /\ Len(x) + q \in 0 .. Len(c) - 1
          /\ WholeAt(c, Len(x) + q) /\ ByteOf(c, Len(x) + q) = ByteOf(y, q)
      BY <3>1, <1>1, <1>2
    <3>0. Size(ByteOf(y, q)) \in 1 .. 4
      BY SizeIs
    <3>3. Len(x) + p \in Len(x) + q .. (Len(x) + q) + Size(ByteOf(c, Len(x) + q)) - 1
      BY <3>0, <3>1, <3>2, <1>1
    <3> QED BY <3>2, <3>3, <1>1, StrayIs
  <2> QED BY <2>2, <2>3
<1>7. ASSUME Valid(c) PROVE Valid(x) /\ Valid(y)
  <2>1. Stray(x) \subseteq 0 .. Len(x) - 1 /\ Stray(y) \subseteq 0 .. Len(y) - 1
    BY DEF Stray
  <2> QED BY <1>5, <1>6, <1>7, <2>1 DEF Valid
<1>8. ASSUME Valid(x), Valid(y) PROVE Valid(c)
  <2>1. ASSUME NEW p \in 0 .. Len(c) - 1 PROVE p \notin Stray(c)
    <3>1. CASE p < Len(x)
      <4>1. p \in 0 .. Len(x) - 1
        BY <3>1, <1>1
      <4> QED BY <4>1, <1>5, <1>8 DEF Valid
    <3>2. CASE p >= Len(x)
      <4>1. p - Len(x) \in 0 .. Len(y) - 1 /\ Len(x) + (p - Len(x)) = p
        BY <3>2, <1>1
      <4>2. p - Len(x) \notin Stray(y)
        BY <1>8 DEF Valid
      <4> QED BY <4>1, <4>2, <1>6
    <3> QED BY <3>1, <3>2, <1>1
  <2>2. Stray(c) \subseteq 0 .. Len(c) - 1
    BY DEF Stray
  <2> QED BY <2>1, <2>2 DEF Valid
<1>9. Valid(c) <=> Valid(x) /\ Valid(y)
  BY <1>7, <1>8
<1> QED BY <1>9 DEF c

-----------------------------------------------------------------------------
(* What is written for a string *)

LEMMA UnitIs == ASSUME NEW c \in Tok PROVE Unit(c) \in Seq(Tok) /\ Len(Unit(c)) = 6
<1>1. "\\" \in Tok /\ "u" \in Tok /\ "h" \in Tok
  BY TokFacts
<1> QED BY <1>1 DEF Unit

LEMMA LenJoined ==
  ASSUME NEW S, NEW x, NEW y, x \in Seq(S), y \in Seq(S), Len(x) = 6, Len(y) = 6
  PROVE  x \o y \in Seq(S) /\ Len(x \o y) = 12
<1>1. x \o y \in Seq(S) /\ Len(x \o y) = Len(x) + Len(y)
  BY Joined
<1> QED BY <1>1

LEMMA PairOfUnits ==
  Unit("high") \o Unit("low") \in Seq(Tok) /\ Len(Unit("high") \o Unit("low")) = 12
<1>1. "high" \in Tok /\ "low" \in Tok
  BY TokFacts
<1>2. /\ Unit("high") \in Seq(Tok) /\ Len(Unit("high")) = 6
      /\ Unit("low") \in Seq(Tok) /\ Len(Unit("low")) = 6
  BY <1>1, UnitIs
<1> QED BY <1>2, LenJoined

LEMMA PairIs == ASSUME NEW c \in Tok PROVE Pair(c) \in Seq(Tok) /\ Len(Pair(c)) = 2
<1>1. "\\" \in Tok
  BY TokFacts
<1> QED BY <1>1 DEF Pair

LEMMA EscapedSame ==
  ASSUME NEW t, NEW v, NEW p, NEW q, ByteOf(t, p) = ByteOf(v, q),
         Piece(t, p, Size(ByteOf(t, p))) = Piece(v, q, Size(ByteOf(t, p)))
  PROVE  Escaped(t, p) = Escaped(v, q)
BY DEF Escaped

LEMMA EscapedIs ==
  ASSUME NEW t \in Seq(Tok), NEW p \in 0 .. Len(t) - 1, WholeAt(t, p)
  PROVE  /\ Escaped(t, p) \in Seq(Tok)
         /\ Len(Escaped(t, p)) \in 1 .. 12
         /\ ByteOf(t, p) # "L4" => Len(Escaped(t, p)) <= 6
         /\ ~ NeedsEscape(ByteOf(t, p)) => Escaped(t, p) = <<ByteOf(t, p)>>
<1> DEFINE c == ByteOf(t, p)
<1>1. p + 1 \in 1 .. Len(t) /\ c = t[p + 1]
  BY DEF ByteOf
<1>2. c \in Tok
  BY <1>1
<1>3. p \in Nat /\ Size(c) \in 1 .. 4 /\ p + Size(c) <= Len(t)
  BY SizeIs DEF WholeAt
<1>4. /\ Piece(t, p, Size(c)) \in Seq(Tok) /\ Len(Piece(t, p, Size(c))) = Size(c)
      /\ \A k \in 1 .. Size(c) : Piece(t, p, Size(c))[k] = t[p + k]
  <2> DEFINE n == Size(c)
  <2>1. n \in Nat /\ p \in Nat /\ p + n <= Len(t)
    BY <1>3
  <2> HIDE DEF n
  <2>2. /\ Piece(t, p, n) \in Seq(Tok) /\ Len(Piece(t, p, n)) = n
        /\ \A k \in 1 .. n : Piece(t, p, n)[k] = t[p + k]
    BY <2>1, PieceIs
  <2> QED BY <2>2 DEF n
<1> DEFINE e == Escaped(t, p)
<1> SUFFICES /\ e \in Seq(Tok) /\ Len(e) \in 1 .. 12 /\ (c # "L4" => Len(e) <= 6)
             /\ (~ NeedsEscape(c) => e = <<c>>)
  OBVIOUS
<1> HIDE DEF c, e
<1>5. CASE c \in {"Q", "\\"} \/ (c = "/" /\ "slashes" \in flags)
  <2>0. Size(c) = 1 /\ c # "ctl"
    BY <1>5, SizeOfAscii
  <2>1. e = Pair(c)
    BY <1>5, <2>0 DEF Escaped, c, e
  <2>2. NeedsEscape(c)
    BY <1>5 DEF NeedsEscape
  <2>3. Pair(c) \in Seq(Tok) /\ Len(Pair(c)) = 2
    BY <1>2, PairIs
  <2>4. e \in Seq(Tok) /\ Len(e) = 2
    BY <2>1, <2>3
  <2>5. Len(e) \in 1 .. 12 /\ Len(e) <= 6
    BY <2>4
  <2> QED BY <2>2, <2>4, <2>5
<1>7. CASE c = "ctl"
  <2>0. ~ (c \in {"Q", "\\"} \/ (c = "/" /\ "slashes" \in flags))
    BY <1>7
  <2>1. e = Unit(c)
    BY <1>7, <2>0 DEF Escaped, c, e
  <2>3. NeedsEscape(c)
    BY <1>7 DEF NeedsEscape
  <2>4. e \in Seq(Tok) /\ Len(e) = 6
    BY <1>2, <2>1, UnitIs
  <2>5. Len(e) \in 1 .. 12 /\ Len(e) <= 6
    BY <2>4
  <2> QED BY <2>3, <2>4, <2>5
<1>8. CASE c \notin {"Q", "\\", "ctl"} /\ ~ (c = "/" /\ "slashes" \in flags)
  <2>1. CASE Size(c) > 1 /\ "unicode" \in flags
    <3>1. e = IF c = "L4" THEN Unit("high") \o Unit("low") ELSE Unit(c)
      BY <1>8, <2>1 DEF Escaped, c, e
    <3>2. "high" \in Tok /\ "low" \in Tok
      BY TokFacts
    <3>3. /\ Unit("high") \in Seq(Tok) /\ Len(Unit("high")) = 6
          /\ Unit("low") \in Seq(Tok) /\ Len(Unit("low")) = 6
          /\ Unit(c) \in Seq(Tok) /\ Len(Unit(c)) = 6
      BY <1>2, <3>2, UnitIs
    <3>4. NeedsEscape(c)
      BY <2>1, SizeOfAscii DEF NeedsEscape
    <3>5. Unit("high") \o Unit("low") \in Seq(Tok) /\ Len(Unit("high") \o Unit("low")) = 12
      BY PairOfUnits
    <3>6. CASE c = "L4"
      <4>1. e \in Seq(Tok) /\ Len(e) = 12
        BY <3>1, <3>5, <3>6
      <4> QED BY <3>4, <3>6, <4>1
    <3>7. CASE c # "L4"
      <4>1. e \in Seq(Tok) /\ Len(e) = 6
        BY <3>1, <3>3, <3>7
      <4>2. Len(e) \in 1 .. 12 /\ Len(e) <= 6
        BY <4>1
      <4> QED BY <3>4, <4>1, <4>2
    <3> QED BY <3>6, <3>7
  <2>2. CASE ~ (Size(c) > 1 /\ "unicode" \in flags)
    <3>1. e = Piece(t, p, Size(c))
      BY <1>8, <2>2 DEF Escaped, c, e
    <3>2. ASSUME ~ NeedsEscape(c) PROVE Piece(t, p, Size(c)) = <<c>>
      <4>1. Size(c) = 1
        BY <3>2, SizeOfAscii DEF NeedsEscape
      <4> QED BY <4>1, <1>1, <1>4
    <3> QED BY <3>1, <3>2, <1>3, <1>4
  <2> QED BY <2>1, <2>2
<1> QED BY <1>5, <1>7, <1>8

\* What each byte of a string adds.
Units(t) == [k \in 1 .. Len(t) |-> IF WholeAt(t, k - 1) THEN Escaped(t, k - 1) ELSE <<>>]

LEMMA UnitsAre ==
  ASSUME NEW t \in Seq(Tok)
  PROVE  /\ Units(t) \in Seq(Seq(Tok)) /\ Len(Units(t)) = Len(t) /\ Len(t) \in Nat
         /\ Body(t) = FlattenSeq(Units(t))
         /\ Body(t) \in Seq(Tok)
<1>1. Len(t) \in Nat
  OBVIOUS
<1>2. ASSUME NEW k \in 1 .. Len(t)
      PROVE  (IF WholeAt(t, k - 1) THEN Escaped(t, k - 1) ELSE <<>>) \in Seq(Tok)
  <2>1. k - 1 \in 0 .. Len(t) - 1
    BY <1>1
  <2>2. WholeAt(t, k - 1) => Escaped(t, k - 1) \in Seq(Tok)
    BY <2>1, EscapedIs
  <2> QED BY <2>2
<1>3. Units(t) \in Seq(Seq(Tok)) /\ Len(Units(t)) = Len(t)
  BY <1>1, <1>2, IsASeq DEF Units
<1>4. Body(t) = FlattenSeq(Units(t))
  BY DEF Body, Units
<1> QED BY <1>1, <1>3, <1>4, FlattenAppend

LEMMA JoinBody ==
  ASSUME NEW x \in Seq(Tok), NEW y \in Seq(Tok), Parted(x \o y, Len(x))
  PROVE  Body(x \o y) = Body(x) \o Body(y)
<1> DEFINE c == x \o y
<1>1. /\ c \in Seq(Tok) /\ Len(c) = Len(x) + Len(y) /\ Len(x) \in Nat /\ Len(y) \in Nat
      /\ \A p \in 0 .. Len(x) - 1 : ByteOf(c, p) = ByteOf(x, p)
      /\ \A p \in 0 .. Len(y) - 1 : ByteOf(c, Len(x) + p) = ByteOf(y, p)
      /\ \A p, n \in Nat : p + n <= Len(x) => Piece(c, p, n) = Piece(x, p, n)
      /\ \A p, n \in Nat : p + n <= Len(y) => Piece(c, Len(x) + p, n) = Piece(y, p, n)
  BY JoinBytes
<1>2. /\ \A p \in 0 .. Len(x) - 1 : WholeAt(c, p) <=> WholeAt(x, p)
      /\ \A p \in 0 .. Len(y) - 1 : WholeAt(c, Len(x) + p) <=> WholeAt(y, p)
  BY JoinChars
<1> HIDE DEF c
<1>3. ASSUME NEW k \in 1 .. Len(x) PROVE Units(c)[k] = Units(x)[k]
  <2>1. k - 1 \in 0 .. Len(x) - 1 /\ k - 1 \in Nat /\ k \in 1 .. Len(c)
    BY <1>1
  <2>2. WholeAt(c, k - 1) <=> WholeAt(x, k - 1)
    BY <1>2, <2>1
  <2>3. ASSUME WholeAt(x, k - 1) PROVE Escaped(c, k - 1) = Escaped(x, k - 1)
    <3>1. Size(ByteOf(x, k - 1)) \in Nat /\ (k - 1) + Size(ByteOf(x, k - 1)) <= Len(x)
      BY <2>3, SizeIs DEF WholeAt
    <3>2. ByteOf(c, k - 1) = ByteOf(x, k - 1)
      BY <1>1, <2>1
    <3>3. Piece(c, k - 1, Size(ByteOf(x, k - 1))) = Piece(x, k - 1, Size(ByteOf(x, k - 1)))
      BY <1>1, <2>1, <3>1
    <3> QED BY <3>2, <3>3, EscapedSame
  <2> QED BY <2>1, <2>2, <2>3 DEF Units
<1>4. ASSUME NEW k \in 1 .. Len(y) PROVE Units(c)[Len(x) + k] = Units(y)[k]
  <2>1. /\ k - 1 \in 0 .. Len(y) - 1 /\ k - 1 \in Nat /\ Len(x) + k \in 1 .. Len(c)
        /\ (Len(x) + k) - 1 = Len(x) + (k - 1)
    BY <1>1
  <2>2. WholeAt(c, Len(x) + (k - 1)) <=> WholeAt(y, k - 1)
    BY <1>2, <2>1
  <2>3. ASSUME WholeAt(y, k - 1) PROVE Escaped(c, Len(x) + (k - 1)) = Escaped(y, k - 1)
    <3>1. Size(ByteOf(y, k - 1)) \in Nat /\ (k - 1) + Size(ByteOf(y, k - 1)) <= Len(y)
      BY <2>3, SizeIs DEF WholeAt
    <3>2. ByteOf(c, Len(x) + (k - 1)) = ByteOf(y, k - 1)
      BY <1>1, <2>1
    <3>3. Piece(c, Len(x) + (k - 1), Size(ByteOf(y, k - 1)))
            = Piece(y, k - 1, Size(ByteOf(y, k - 1)))
      BY <1>1, <2>1, <3>1
    <3> QED BY <3>2, <3>3, EscapedSame
  <2>4. Units(c)[Len(x) + k]
          = IF WholeAt(c, Len(x) + (k - 1)) THEN Escaped(c, Len(x) + (k - 1)) ELSE <<>>
    BY <2>1 DEF Units
  <2>5. Units(y)[k] = IF WholeAt(y, k - 1) THEN Escaped(y, k - 1) ELSE <<>>
    BY DEF Units
  <2> QED BY <2>2, <2>3, <2>4, <2>5
<1> DEFINE uc == Units(c)
           ux == Units(x)
           uy == Units(y)
<1>5. /\ uc \in Seq(Seq(Tok)) /\ ux \in Seq(Seq(Tok)) /\ uy \in Seq(Seq(Tok))
      /\ Len(uc) = Len(x) + Len(y) /\ Len(ux) = Len(x) /\ Len(uy) = Len(y)
  BY <1>1, UnitsAre
<1>6. uc = ux \o uy
  <2> HIDE DEF uc, ux, uy
  <2>0. /\ ux \o uy \in Seq(Seq(Tok)) /\ Len(ux \o uy) = Len(ux) + Len(uy)
        /\ \A k \in 1 .. Len(ux) : (ux \o uy)[k] = ux[k]
        /\ \A k \in Len(ux) + 1 .. Len(ux) + Len(uy) : (ux \o uy)[k] = uy[k - Len(ux)]
    <3>1. ux \in Seq(Seq(Tok)) /\ uy \in Seq(Seq(Tok))
      BY <1>5
    <3> QED BY <3>1, Joined
  <2>1. ux \o uy \in Seq(Seq(Tok)) /\ Len(ux \o uy) = Len(uc)
    BY <1>1, <1>5, <2>0
  <2>2. ASSUME NEW k \in 1 .. Len(uc) PROVE uc[k] = (ux \o uy)[k]
    <3>1. CASE k <= Len(x)
      <4>1. k \in 1 .. Len(x) /\ (ux \o uy)[k] = ux[k]
        BY <3>1, <1>1, <1>5, <2>0
      <4> QED BY <4>1, <1>3 DEF uc, ux
    <3>2. CASE k > Len(x)
      <4>0. k \in Len(ux) + 1 .. Len(ux) + Len(uy)
        BY <3>2, <1>1, <1>5
      <4>1. /\ k - Len(x) \in 1 .. Len(y) /\ Len(x) + (k - Len(x)) = k
            /\ (ux \o uy)[k] = uy[k - Len(x)]
        BY <4>0, <1>1, <1>5, <2>0
      <4>2. uc[Len(x) + (k - Len(x))] = uy[k - Len(x)]
        BY <4>1, <1>4 DEF uc, uy
      <4> QED BY <4>1, <4>2
    <3> QED BY <3>1, <3>2, <1>1, <1>5
  <2> QED BY <2>1, <2>2, <1>5, SeqEqual
<1>7. FlattenSeq(ux \o uy) = FlattenSeq(ux) \o FlattenSeq(uy)
  <2> HIDE DEF ux, uy
  <2> QED BY <1>5, FlatConcat
<1>8. Body(c) = FlattenSeq(uc) /\ Body(x) = FlattenSeq(ux) /\ Body(y) = FlattenSeq(uy)
  BY <1>1, UnitsAre
<1> HIDE DEF uc, ux, uy
<1>9. Body(c) = Body(x) \o Body(y)
  BY <1>6, <1>7, <1>8
<1> QED BY <1>9 DEF c

\* What the bytes of a string before an offset have added.
LEMMA SoFar ==
  ASSUME NEW t \in Seq(Tok)
  PROVE  LET f(n) == Flat(Units(t), n)
         IN  /\ f(0) = <<>> /\ f(Len(t)) = Body(t) /\ Len(t) \in Nat
             /\ \A n \in 0 .. Len(t) : f(n) \in Seq(Tok) /\ Len(f(n)) \in Nat
             /\ \A n \in 0 .. Len(t) - 1 :
                  /\ WholeAt(t, n) => f(n + 1) = f(n) \o Escaped(t, n)
                  /\ ~ WholeAt(t, n) => f(n + 1) = f(n)
<1> DEFINE q == Units(t)
<1>1. q \in Seq(Seq(Tok)) /\ Len(q) = Len(t) /\ Len(t) \in Nat /\ Body(t) = FlattenSeq(q)
  BY UnitsAre
<1>2. \A k \in 1 .. Len(t) : q[k] = IF WholeAt(t, k - 1) THEN Escaped(t, k - 1) ELSE <<>>
  BY DEF Units
<1> HIDE DEF q
<1>3. /\ Flat(q, 0) = <<>> /\ FlattenSeq(q) = Flat(q, Len(q))
      /\ \A n \in 0 .. Len(q) : Flat(q, n) \in Seq(Tok)
      /\ \A n \in 1 .. Len(q) : Flat(q, n) = Flat(q, n - 1) \o q[n]
  BY <1>1, FlatSteps
<1>4. ASSUME NEW n \in 0 .. Len(t) PROVE Flat(q, n) \in Seq(Tok) /\ Len(Flat(q, n)) \in Nat
  BY <1>1, <1>3
<1>5. ASSUME NEW n \in 0 .. Len(t) - 1
      PROVE  /\ WholeAt(t, n) => Flat(q, n + 1) = Flat(q, n) \o Escaped(t, n)
             /\ ~ WholeAt(t, n) => Flat(q, n + 1) = Flat(q, n)
  <2>1. n + 1 \in 1 .. Len(q) /\ n + 1 \in 1 .. Len(t) /\ (n + 1) - 1 = n /\ n \in 0 .. Len(t)
    BY <1>1
  <2>2. Flat(q, n + 1) = Flat(q, n) \o q[n + 1]
    BY <1>3, <2>1
  <2>3. q[n + 1] = IF WholeAt(t, n) THEN Escaped(t, n) ELSE <<>>
    BY <1>2, <2>1
  <2>4. Flat(q, n) \in Seq(Tok)
    BY <1>4, <2>1
  <2>5. Flat(q, n) \o <<>> = Flat(q, n)
    BY <2>4
  <2> QED BY <2>2, <2>3, <2>5
<1>6. /\ Flat(q, 0) = <<>> /\ Flat(q, Len(t)) = Body(t) /\ Len(t) \in Nat
      /\ \A n \in 0 .. Len(t) : Flat(q, n) \in Seq(Tok) /\ Len(Flat(q, n)) \in Nat
      /\ \A n \in 0 .. Len(t) - 1 :
           /\ WholeAt(t, n) => Flat(q, n + 1) = Flat(q, n) \o Escaped(t, n)
           /\ ~ WholeAt(t, n) => Flat(q, n + 1) = Flat(q, n)
  BY <1>1, <1>3, <1>4, <1>5
<1> QED BY <1>6 DEF q

\* Six bytes of output for a byte of the string are enough: of the four a
\* character takes that is written as twelve, three add nothing.
LEMMA BodyBound ==
  ASSUME NEW t \in Seq(Tok)
  PROVE  /\ Body(t) \in Seq(Tok) /\ Len(Body(t)) \in Nat /\ Len(t) \in Nat
         /\ Len(Body(t)) <= 6 * Len(t)
<1> DEFINE f(n) == Flat(Units(t), n)
           L == Len(t)
           Wide(n) == WholeAt(t, n - 1) /\ ByteOf(t, n - 1) = "L4"
           P == {n \in Nat : \/ Len(f(n)) <= 6 * n
                             \/ n > 0 /\ Wide(n) /\ Len(f(n)) <= 6 * n + 6}
<1>1. /\ f(0) = <<>> /\ f(L) = Body(t) /\ L \in Nat
      /\ \A n \in 0 .. L : f(n) \in Seq(Tok) /\ Len(f(n)) \in Nat
      /\ \A n \in 0 .. L - 1 :
           /\ WholeAt(t, n) => f(n + 1) = f(n) \o Escaped(t, n)
           /\ ~ WholeAt(t, n) => f(n + 1) = f(n)
  BY SoFar
<1> HIDE DEF f
<1>2. 0 \in P
  <2>1. Len(f(0)) = 0
    BY <1>1
  <2> QED BY <2>1
<1>3. ASSUME NEW n \in 0 .. L - 1, n \in P PROVE n + 1 \in P
  <2>0. n \in 0 .. L /\ n + 1 \in 0 .. L /\ (n + 1) - 1 = n /\ n \in Nat /\ n + 1 \in Nat
    BY <1>1
  <2>1. f(n) \in Seq(Tok) /\ Len(f(n)) \in Nat /\ Len(f(n + 1)) \in Nat
    BY <1>1, <2>0
  <2>2. CASE ~ WholeAt(t, n)
    <3>1. Len(f(n + 1)) = Len(f(n))
      BY <1>1, <2>2
    <3>2. Len(f(n)) <= 6 * n + 6
      BY <1>3, <2>0, <2>1
    <3> QED BY <2>0, <2>1, <3>1, <3>2
  <2>3. CASE WholeAt(t, n)
    <3>1. Len(f(n)) <= 6 * n
      <4>1. ASSUME n > 0, Wide(n) PROVE FALSE
        <5>1. n - 1 \in 0 .. Len(t) - 1 /\ Size("L4") = 4
          BY <4>1, <1>1 DEF Size
        <5>2. n \in (n - 1) + 1 .. (n - 1) + Size(ByteOf(t, n - 1)) - 1
          BY <4>1, <5>1, <2>0
        <5> QED BY <4>1, <5>1, <5>2, <2>3, WholeIs
      <4> QED BY <1>3, <4>1
    <3>2. /\ Escaped(t, n) \in Seq(Tok) /\ Len(Escaped(t, n)) \in 1 .. 12
          /\ ByteOf(t, n) # "L4" => Len(Escaped(t, n)) <= 6
      BY <2>3, EscapedIs
    <3>3. Len(f(n + 1)) = Len(f(n)) + Len(Escaped(t, n))
      <4>1. f(n + 1) = f(n) \o Escaped(t, n)
        BY <1>1, <2>3
      <4> QED BY <4>1, <2>1, <3>2, Joined
    <3>4. CASE ByteOf(t, n) = "L4"
      <4>1. Len(f(n + 1)) <= 6 * (n + 1) + 6
        <5>1. Len(Escaped(t, n)) \in Nat /\ Len(Escaped(t, n)) <= 12
          <6> DEFINE k == Len(Escaped(t, n))
          <6>1. k \in 1 .. 12
            BY <2>3, EscapedIs
          <6> HIDE DEF k
          <6>2. k \in Nat /\ k <= 12
            BY <6>1
          <6> QED BY <6>2 DEF k
        <5> QED BY <5>1, <2>0, <2>1, <3>1, <3>3
      <4>2. Wide(n + 1)
        BY <2>0, <2>3, <3>4, Zenon
      <4> QED BY <4>1, <4>2, <2>0
    <3>5. CASE ByteOf(t, n) # "L4"
      <4>1. Len(f(n + 1)) <= 6 * (n + 1)
        BY <2>0, <2>1, <3>1, <3>2, <3>3, <3>5
      <4> QED BY <4>1, <2>0
    <3> QED BY <3>4, <3>5
  <2> QED BY <2>2, <2>3
<1>4. \A n \in 0 .. L : n \in P
  <2> HIDE DEF P, L
  <2> QED BY <1>1, <1>2, <1>3, InductionUpTo
<1>5. L \in P /\ L \in 0 .. L
  BY <1>1, <1>4
<1>6. ASSUME L > 0, Wide(L) PROVE FALSE
  <2>1. L - 1 \in 0 .. Len(t) - 1 /\ Size("L4") = 4
    BY <1>6, <1>1 DEF Size
  <2> QED BY <1>6, <2>1, WholeIs
<1>7. Len(f(L)) <= 6 * L
  BY <1>5, <1>6
<1> QED BY <1>1, <1>5, <1>7

\* The characters of a string that needs no escape are its bytes.
LEMMA CleanIs ==
  ASSUME NEW t \in Seq(Tok), \A p \in 0 .. Len(t) - 1 : ~ NeedsEscape(ByteOf(t, p))
  PROVE  Valid(t) /\ Body(t) = t
<1> DEFINE f(n) == Flat(Units(t), n)
           L == Len(t)
           P == {n \in Nat : n <= L => f(n) = SubSeq(t, 1, n)}
<1>1. /\ f(0) = <<>> /\ f(L) = Body(t) /\ L \in Nat
      /\ \A n \in 0 .. L : f(n) \in Seq(Tok) /\ Len(f(n)) \in Nat
      /\ \A n \in 0 .. L - 1 :
           /\ WholeAt(t, n) => f(n + 1) = f(n) \o Escaped(t, n)
           /\ ~ WholeAt(t, n) => f(n + 1) = f(n)
  BY SoFar
<1> HIDE DEF f
<1>2. ASSUME NEW n \in 0 .. L - 1 PROVE WholeAt(t, n) /\ Escaped(t, n) = <<ByteOf(t, n)>>
  <2>1. ByteOf(t, n) \notin {"L2", "L3", "L4", "T", "X"}
    BY DEF NeedsEscape
  <2>2. Size(ByteOf(t, n)) = 1
    BY <2>1, SizeOfAscii
  <2>3. WholeAt(t, n)
    BY <1>1, <2>1, <2>2 DEF WholeAt
  <2> QED BY <2>3, EscapedIs
<1>3. 0 \in P
  BY <1>1
<1>4. ASSUME NEW n \in 0 .. L - 1, n \in P PROVE n + 1 \in P
  <2>1. n + 1 \in 1 .. L /\ n \in Nat /\ f(n) = SubSeq(t, 1, n)
    BY <1>1, <1>4
  <2>2. f(n + 1) = SubSeq(t, 1, n) \o <<t[n + 1]>>
    BY <1>1, <1>2, <2>1 DEF ByteOf
  <2>3. SubSeq(t, 1, n) \o <<t[n + 1]>> = SubSeq(t, 1, n + 1)
    BY <2>1
  <2>4. f(n + 1) = SubSeq(t, 1, n + 1)
    BY <2>2, <2>3
  <2> QED BY <2>1, <2>4
<1>5. \A n \in 0 .. L : n \in P
  <2> HIDE DEF P, L
  <2> QED BY <1>1, <1>3, <1>4, InductionUpTo
<1>6. f(L) = SubSeq(t, 1, L) /\ SubSeq(t, 1, L) = t
  BY <1>1, <1>5
<1>7. ASSUME NEW p \in Stray(t) PROVE FALSE
  <2>1. p \in 0 .. Len(t) - 1
    BY DEF Stray
  <2>2. WholeAt(t, p)
    BY <1>2, <2>1
  <2>3. p \in p .. p + Size(ByteOf(t, p)) - 1
    BY <2>1, SizeIs
  <2> QED BY <2>1, <2>2, <2>3, StrayIs
<1>8. Valid(t)
  BY <1>7 DEF Valid
<1> QED BY <1>1, <1>6, <1>8

\* A character adds what is written for it.
LEMMA CharAdds ==
  ASSUME NEW t \in Seq(Tok), NEW p \in 0 .. Len(t) - 1, WholeAt(t, p)
  PROVE  Flat(Units(t), p + Size(ByteOf(t, p))) = Flat(Units(t), p) \o Escaped(t, p)
<1> DEFINE f(n) == Flat(Units(t), n)
           z == Size(ByteOf(t, p))
<1>1. /\ Len(t) \in Nat
      /\ \A n \in 0 .. Len(t) - 1 :
           /\ WholeAt(t, n) => f(n + 1) = f(n) \o Escaped(t, n)
           /\ ~ WholeAt(t, n) => f(n + 1) = f(n)
  BY SoFar
<1> HIDE DEF f
<1>2. /\ z \in 1 .. 4 /\ p + z <= Len(t) /\ p \in Nat
      /\ \A q \in p + 1 .. p + z - 1 : ~ WholeAt(t, q)
  BY WholeIs
<1> HIDE DEF z
<1> DEFINE P == {k \in Nat : k + 1 <= z => f(p + (k + 1)) = f(p) \o Escaped(t, p)}
<1>3. 0 \in P
  <2>1. f(p + 1) = f(p) \o Escaped(t, p)
    BY <1>1
  <2> QED BY <2>1
<1>4. ASSUME NEW k \in Nat, k \in P PROVE k + 1 \in P
  <2>1. CASE (k + 1) + 1 <= z
    <3>1. /\ p + (k + 1) \in p + 1 .. p + z - 1 /\ p + (k + 1) \in 0 .. Len(t) - 1
          /\ (p + (k + 1)) + 1 = p + ((k + 1) + 1)
      BY <1>1, <1>2, <2>1
    <3>2. f((p + (k + 1)) + 1) = f(p + (k + 1))
      BY <1>1, <1>2, <3>1
    <3>3. f(p + (k + 1)) = f(p) \o Escaped(t, p)
      BY <1>2, <1>4, <2>1
    <3> QED BY <3>1, <3>2, <3>3
  <2>2. CASE ~ ((k + 1) + 1 <= z)
    BY <2>2
  <2> QED BY <2>1, <2>2
<1>5. \A k \in Nat : k \in P
  <2> HIDE DEF P
  <2> QED BY <1>3, <1>4, SetInduction
<1>6. z - 1 \in Nat /\ (z - 1) + 1 = z
  BY <1>2
<1>7. f(p + z) = f(p) \o Escaped(t, p)
  <2>1. z - 1 \in P
    BY <1>5, <1>6
  <2> QED BY <1>2, <1>6, <2>1
<1> QED BY <1>7 DEF f, z

-----------------------------------------------------------------------------
(* Where a string is cut *)

LEMMA CutIs ==
  ASSUME NEW S, NEW t \in Seq(S), NEW p \in Nat, NEW n \in Nat, p + n <= Len(t)
  PROVE  /\ Piece(t, 0, p) \in Seq(S) /\ Len(Piece(t, 0, p)) = p
         /\ Piece(t, p, n) \in Seq(S) /\ Len(Piece(t, p, n)) = n
         /\ Piece(t, 0, p + n) = Piece(t, 0, p) \o Piece(t, p, n)
         /\ Piece(t, 0, Len(t)) = t
<1>0. 0 \in Nat /\ 0 + p = p /\ p <= Len(t) /\ p + n \in Nat /\ 0 + (p + n) <= Len(t)
  OBVIOUS
<1> DEFINE x == Piece(t, 0, p)
           y == Piece(t, p, n)
           c == Piece(t, 0, p + n)
<1>1. x \in Seq(S) /\ Len(x) = p /\ \A k \in 1 .. p : x[k] = t[k]
  <2>1. \A k \in 1 .. p : 0 + k = k
    OBVIOUS
  <2>2. x \in Seq(S) /\ Len(x) = p /\ \A k \in 1 .. p : x[k] = t[0 + k]
    BY <1>0, PieceIs
  <2> QED BY <2>1, <2>2
<1>2. y \in Seq(S) /\ Len(y) = n /\ \A k \in 1 .. n : y[k] = t[p + k]
  BY PieceIs
<1>3. c \in Seq(S) /\ Len(c) = p + n /\ \A k \in 1 .. p + n : c[k] = t[k]
  <2>1. \A k \in 1 .. p + n : 0 + k = k
    OBVIOUS
  <2>2. c \in Seq(S) /\ Len(c) = p + n /\ \A k \in 1 .. p + n : c[k] = t[0 + k]
    BY <1>0, PieceIs
  <2> QED BY <2>1, <2>2
<1>4. Piece(t, 0, Len(t)) = t
  BY DEF Piece
<1> HIDE DEF x, y, c
<1>5. /\ x \o y \in Seq(S) /\ Len(x \o y) = p + n
      /\ \A k \in 1 .. p : (x \o y)[k] = x[k]
      /\ \A k \in p + 1 .. p + n : (x \o y)[k] = y[k - p]
  <2>1. x \in Seq(S) /\ y \in Seq(S) /\ Len(x) = p /\ Len(y) = n
    BY <1>1, <1>2
  <2>2. \A u1, v1 \in Seq(S) : Len(u1) = p /\ Len(v1) = n =>
          /\ u1 \o v1 \in Seq(S) /\ Len(u1 \o v1) = p + n
          /\ \A k \in 1 .. p : (u1 \o v1)[k] = u1[k]
          /\ \A k \in p + 1 .. p + n : (u1 \o v1)[k] = v1[k - p]
    BY JoinedOf
  <2> QED BY <2>1, <2>2, Zenon
<1>6. ASSUME NEW k \in 1 .. p + n PROVE c[k] = (x \o y)[k]
  <2>1. CASE k \in 1 .. p
    BY <2>1, <1>1, <1>3, <1>5
  <2>2. CASE k \in p + 1 .. p + n
    <3>1. k - p \in 1 .. n /\ p + (k - p) = k
      BY <2>2
    <3>2. y[k - p] = t[k]
      BY <1>2, <3>1
    <3>3. (x \o y)[k] = y[k - p]
      BY <2>2, <1>5, Zenon
    <3>4. c[k] = t[k]
      BY <1>3, Zenon
    <3> QED BY <3>2, <3>3, <3>4, Zenon
  <2>3. k \in 1 .. p \/ k \in p + 1 .. p + n
    OBVIOUS
  <2> QED BY <2>1, <2>2, <2>3, Zenon
<1>7. c = x \o y
  BY <1>3, <1>5, <1>6, SeqEqual
<1> QED BY <1>1, <1>2, <1>4, <1>7 DEF x, y, c

LEMMA CutTokens ==
  ASSUME NEW t \in Seq(Tok), NEW p \in Nat, NEW n \in Nat, p + n <= Len(t)
  PROVE  /\ Piece(t, 0, p) \in Seq(Tok) /\ Len(Piece(t, 0, p)) = p
         /\ Piece(t, p, n) \in Seq(Tok) /\ Len(Piece(t, p, n)) = n
         /\ Piece(t, 0, p + n) = Piece(t, 0, p) \o Piece(t, p, n)
         /\ Piece(t, 0, Len(t)) = t
BY CutIs

\* What is written of a string, up to a boundary and beyond.
LEMMA PieceBody ==
  ASSUME NEW t \in Seq(Tok), NEW p \in Nat, NEW n \in Nat, p + n <= Len(t), Parted(t, p)
  PROVE  /\ Valid(Piece(t, 0, p + n)) <=> Valid(Piece(t, 0, p)) /\ Valid(Piece(t, p, n))
         /\ Body(Piece(t, 0, p + n)) = Body(Piece(t, 0, p)) \o Body(Piece(t, p, n))
<1> DEFINE x == Piece(t, 0, p)
           y == Piece(t, p, n)
           c == Piece(t, 0, p + n)
           z == Piece(t, p + n, Len(t) - (p + n))
<1>0. p + n \in Nat /\ Len(t) - (p + n) \in Nat /\ (p + n) + (Len(t) - (p + n)) = Len(t)
  OBVIOUS
<1>1. x \in Seq(Tok) /\ y \in Seq(Tok) /\ Len(x) = p /\ c = x \o y
  BY CutIs
<1>2. /\ c \in Seq(Tok) /\ z \in Seq(Tok) /\ Len(c) = p + n
      /\ Piece(t, 0, (p + n) + (Len(t) - (p + n))) = c \o z /\ Piece(t, 0, Len(t)) = t
  <2> DEFINE k == p + n
             m == Len(t) - k
  <2>1. k \in Nat /\ m \in Nat /\ k + m <= Len(t)
    BY <1>0
  <2> HIDE DEF k, m
  <2>2. /\ Piece(t, 0, k) \in Seq(Tok) /\ Piece(t, k, m) \in Seq(Tok) /\ Len(Piece(t, 0, k)) = k
        /\ Piece(t, 0, k + m) = Piece(t, 0, k) \o Piece(t, k, m) /\ Piece(t, 0, Len(t)) = t
    BY <2>1, CutIs
  <2> QED BY <2>2 DEF k, m
<1>3. t = c \o z
  BY <1>0, <1>2
<1> HIDE DEF x, y, c, z
<1>9. c \in Seq(Tok) /\ z \in Seq(Tok)
  BY <1>2
<1>4. /\ \A k \in 0 .. Len(c) - 1 : ByteOf(t, k) = ByteOf(c, k)
      /\ \A k \in 0 .. Len(c) - 1 : WholeAt(c, k) => WholeAt(t, k)
      /\ Len(t) = Len(c) + Len(z)
  <2>1. /\ Len(c \o z) = Len(c) + Len(z)
        /\ \A k \in 0 .. Len(c) - 1 : ByteOf(c \o z, k) = ByteOf(c, k)
    BY <1>9, JoinBytes
  <2>2. \A k \in 0 .. Len(c) - 1 : WholeAt(c, k) => WholeAt(c \o z, k)
    BY <1>9, JoinChars
  <2> QED BY <1>3, <2>1, <2>2
<1>5. Parted(c, p)
  <2>1. ASSUME NEW q \in Starts(c), q < p PROVE q + Size(ByteOf(c, q)) <= p
    <3>1. q \in 0 .. Len(c) - 1 /\ WholeAt(c, q)
      BY DEF Starts
    <3>2. q \in 0 .. Len(t) - 1 /\ WholeAt(t, q) /\ ByteOf(t, q) = ByteOf(c, q)
      BY <3>1, <1>0, <1>2, <1>4
    <3>3. q \in Starts(t)
      BY <3>2 DEF Starts
    <3> QED BY <2>1, <3>2, <3>3 DEF Parted
  <2> QED BY <2>1 DEF Parted
<1>6. Parted(x \o y, Len(x))
  BY <1>1, <1>5
<1>7. (Valid(c) <=> Valid(x) /\ Valid(y)) /\ Body(c) = Body(x) \o Body(y)
  BY <1>1, <1>6, JoinValid, JoinBody
<1> QED BY <1>7 DEF x, y, c

\* A valid string up to a boundary is valid, and one that is valid ends at one.
LEMMA PieceParted ==
  ASSUME NEW t \in Seq(Tok), NEW p \in 0 .. Len(t)
  PROVE  /\ Valid(Piece(t, 0, p)) => Parted(t, p)
         /\ Valid(t) /\ Parted(t, p) => Valid(Piece(t, 0, p))
<1> DEFINE n == Len(t) - p
           x == Piece(t, 0, p)
           y == Piece(t, p, n)
<1>1. p \in Nat /\ n \in Nat /\ p + n = Len(t) /\ p + n <= Len(t)
  OBVIOUS
<1>2. /\ x \in Seq(Tok) /\ y \in Seq(Tok) /\ Len(x) = p /\ Piece(t, 0, p + n) = x \o y
      /\ Piece(t, 0, Len(t)) = t
  <2>1. p \in Nat /\ n \in Nat /\ p + n <= Len(t)
    BY <1>1
  <2> HIDE DEF n
  <2>3. t \in Seq(Tok)
    OBVIOUS
  <2>2. /\ Piece(t, 0, p) \in Seq(Tok) /\ Piece(t, p, n) \in Seq(Tok) /\ Len(Piece(t, 0, p)) = p
        /\ Piece(t, 0, p + n) = Piece(t, 0, p) \o Piece(t, p, n) /\ Piece(t, 0, Len(t)) = t
    BY <2>1, <2>3, CutTokens, Zenon
  <2> QED BY <2>2
<1>3. t = x \o y
  BY <1>1, <1>2
<1>4. Valid(x) => Parted(t, p)
  <2> HIDE DEF x, y
  <2> QED BY <1>2, <1>3, JoinChars
<1>5. ASSUME Valid(t), Parted(t, p) PROVE Valid(x)
  <2> HIDE DEF n
  <2> QED BY <1>1, <1>2, <1>3, <1>5, PieceBody
<1> QED BY <1>4, <1>5

LEMMA PieceBytes ==
  ASSUME NEW t \in Seq(Tok), NEW p \in Nat, NEW n \in Nat, p + n <= Len(t)
  PROVE  \A k \in 0 .. n - 1 : ByteOf(Piece(t, p, n), k) = ByteOf(t, p + k)
<1>1. \A k \in 1 .. n : Piece(t, p, n)[k] = t[p + k]
  BY PieceIs
<1>2. ASSUME NEW k \in 0 .. n - 1 PROVE ByteOf(Piece(t, p, n), k) = ByteOf(t, p + k)
  <2>1. k + 1 \in 1 .. n /\ p + (k + 1) = (p + k) + 1
    OBVIOUS
  <2> QED BY <1>1, <2>1 DEF ByteOf
<1> QED BY <1>2

LEMMA FirstDirtyIs ==
  ASSUME str \in Seq(Tok)
  PROVE  /\ FirstDirty \in 0 .. len /\ len \in Nat /\ CleanTo(FirstDirty)
         /\ FirstDirty = len \/ NeedsEscape(ByteOf(str, FirstDirty))
<1>1. len \in Nat
  BY DEF len
<1> DEFINE Ends(n) == n = len \/ NeedsEscape(ByteOf(str, n))
           D == {n \in Nat : n <= len /\ Ends(n)}
<1>2. PICK x \in D : \A y \in D : x <= y
  <2>1. len \in D
    BY <1>1
  <2>2. D \in SUBSET Nat /\ D # {}
    BY <2>1
  <2> HIDE DEF D
  <2> QED BY <2>2, LeastElement
<1>3. x \in 0 .. len /\ Ends(x)
  BY <1>1, <1>2
<1>4. ASSUME NEW p \in 0 .. x - 1 PROVE ~ NeedsEscape(ByteOf(str, p))
  <2>1. p \in Nat /\ p <= len /\ ~ (x <= p)
    BY <1>1, <1>3
  <2>2. p \notin D
    BY <1>2, <2>1
  <2> QED BY <2>1, <2>2
<1>5. CleanTo(x)
  BY <1>4 DEF CleanTo
<1> HIDE DEF D
<1>6. \E n \in 0 .. len : CleanTo(n) /\ (n = len \/ NeedsEscape(ByteOf(str, n)))
  BY <1>3, <1>5
<1>7. /\ FirstDirty \in 0 .. len
      /\ CleanTo(FirstDirty) /\ (FirstDirty = len \/ NeedsEscape(ByteOf(str, FirstDirty)))
  <2> DEFINE Q(n) == CleanTo(n) /\ (n = len \/ NeedsEscape(ByteOf(str, n)))
  <2>1. \E n \in 0 .. len : Q(n)
    BY <1>6
  <2>2. FirstDirty = CHOOSE n \in 0 .. len : Q(n)
    BY DEF FirstDirty
  <2> HIDE DEF Q
  <2>3. FirstDirty \in 0 .. len /\ Q(FirstDirty)
    BY <2>1, <2>2
  <2> QED BY <2>3 DEF Q
<1> QED BY <1>1, <1>7

\* The prefix copied whole needs no escape.
LEMMA PrefixIs ==
  ASSUME str \in Seq(Tok)
  PROVE  /\ prefix_len \in 0 .. len /\ len \in Nat
         /\ \A p \in 0 .. prefix_len - 1 : ~ NeedsEscape(ByteOf(str, p))
         /\ copyable_ascii => \A p \in 0 .. Len(str) - 1 : ~ NeedsEscape(ByteOf(str, p))
<1>1. FirstDirty \in 0 .. len /\ len \in Nat /\ CleanTo(FirstDirty)
  BY FirstDirtyIs
<1>2. CleanWords \in 0 .. FirstDirty
  <2> DEFINE n == FirstDirty
  <2>1. n \in Nat
    BY <1>1
  <2>2. WORD \in Nat \ {0}
    BY SizesAssumption
  <2>3. n \div WORD \in Nat
    <3> HIDE DEF n
    <3> QED BY <2>1, <2>2
  <2> DEFINE k == n \div WORD
  <2>4. k \in 0 .. n \div WORD
    BY <2>3
  <2> HIDE DEF n
  <2>5. WORD * k \in Nat /\ WORD * k <= n
    <3> HIDE DEF k
    <3> QED BY <2>1, <2>2, <2>4, WordsFit DEF k
  <2> QED BY <2>1, <2>5 DEF CleanWords, n
<1>3. prefix_len \in 0 .. FirstDirty
  BY <1>1, <1>2 DEF prefix_len
<1>4. \A p \in 0 .. FirstDirty - 1 : ~ NeedsEscape(ByteOf(str, p))
  BY <1>1 DEF CleanTo
<1>5. prefix_len \in 0 .. len /\ \A p \in 0 .. prefix_len - 1 : p \in 0 .. FirstDirty - 1
  BY <1>1, <1>3
<1> QED BY <1>1, <1>4, <1>5 DEF copyable_ascii, len

\* The offsets from which on only continuations are left before m.
Trails(m) == {q \in pos .. m : \A k \in q .. m - 1 : ByteOf(str, k) = "T"}

LEMMA LeadIs ==
  ASSUME pos \in Nat, NEW m \in Nat, pos <= m
  PROVE  /\ LeadBefore(m) \in Int /\ LeadBefore(m) + 1 \in Trails(m)
         /\ \A x \in Trails(m) : LeadBefore(m) + 1 <= x
<1> DEFINE least == CHOOSE x \in Trails(m) : \A y \in Trails(m) : x <= y
<1>1. LeadBefore(m) = least - 1
  BY DEF LeadBefore, Trails
<1>2. m \in Trails(m) /\ Trails(m) \in SUBSET Nat
  BY DEF Trails
<1>3. least \in Trails(m) /\ \A x \in Trails(m) : least <= x
  BY <1>2, LeastElement
<1>4. least \in Nat
  BY <1>2, <1>3
<1> HIDE DEF least
<1>5. LeadBefore(m) \in Int /\ LeadBefore(m) + 1 = least
  BY <1>1, <1>4
<1> QED BY <1>3, <1>5

\* A chunk is not empty and fits in the string; where the string is valid, one
\* that starts between two characters ends between two.
LEMMA ChunkIs ==
  ASSUME str \in Seq(Tok), pos \in Nat, pos < len
  PROVE  /\ fastjson_json_chunk_len \in 1 .. len - pos /\ len \in Nat
         /\ Valid(str) /\ Parted(str, pos) => Parted(str, pos + fastjson_json_chunk_len)
<1> DEFINE n == Least(CHUNK, len - pos)
           back == Trails(pos + n)
           lead == LeadBefore(pos + n)
           need == Size(ByteOf(str, lead))
           r == fastjson_json_chunk_len
<1>1. len \in Nat /\ CHUNK \in Nat \ {0} /\ len = Len(str)
  BY SizesAssumption DEF len
<1>2. n \in Nat /\ 1 <= n /\ n <= len - pos
  BY <1>1 DEF Least
<1> HIDE DEF n
<1> DEFINE q == lead + 1
<1>3. q \in back /\ (\A x \in back : q <= x) /\ lead \in Int /\ lead = q - 1
  <2>1. pos + n \in Nat /\ pos <= pos + n
    BY <1>2
  <2>2. lead \in Int /\ q \in back /\ \A x \in back : q <= x
    BY <2>1, LeadIs
  <2> HIDE DEF back, lead
  <2>3. lead = q - 1
    BY <2>2
  <2> QED BY <2>2, <2>3
<1>4. lead \in Int /\ lead = q - 1
  BY <1>3
<1> HIDE DEF q
<1>5. /\ q \in pos .. pos + n /\ \A k \in q .. (pos + n) - 1 : ByteOf(str, k) = "T"
      /\ lead \in Int /\ lead <= (pos + n) - 1 /\ lead >= pos - 1
  <2>1. q \in pos .. pos + n /\ \A k \in q .. (pos + n) - 1 : ByteOf(str, k) = "T"
    BY <1>3 DEF Trails
  <2> HIDE DEF lead
  <2> QED BY <2>1, <1>2, <1>4
<1>6. lead >= pos => ByteOf(str, lead) # "T" /\ lead \in 0 .. Len(str) - 1
  <2> SUFFICES ASSUME lead >= pos PROVE ByteOf(str, lead) # "T" /\ lead \in 0 .. Len(str) - 1
    OBVIOUS
  <2>1. lead \in pos .. pos + n /\ ~ (q <= lead)
    BY <1>2, <1>4, <1>5
  <2>2. ASSUME ByteOf(str, lead) = "T" PROVE FALSE
    <3>1. \A k \in lead .. (pos + n) - 1 : k = lead \/ k \in q .. (pos + n) - 1
      BY <1>2, <1>4, <1>5
    <3>2. \A k \in lead .. (pos + n) - 1 : ByteOf(str, k) = "T"
      BY <2>2, <3>1, <1>5
    <3>3. lead \in back
      BY <2>1, <3>2 DEF Trails
    <3> HIDE DEF back
    <3> QED BY <2>1, <3>3, <1>3
  <2> QED BY <2>1, <2>2, <1>1, <1>2, <1>5
<1> HIDE DEF back
<1>7. need \in 1 .. 4
  BY SizeIs
<1>8. r = IF pos + n >= len \/ lead < pos \/ pos + n - lead >= need THEN n
          ELSE IF lead > pos THEN lead - pos
          ELSE IF pos + need <= len THEN need
          ELSE n
  BY DEF fastjson_json_chunk_len, n
<1> HIDE DEF lead, need, r
<1>9. r \in 1 .. len - pos
  BY <1>1, <1>2, <1>5, <1>7, <1>8
<1>10. ASSUME Valid(str), Parted(str, pos) PROVE Parted(str, pos + r)
  <2>0. \A p \in 0 .. Len(str) - 1 : p \notin Stray(str)
    BY <1>10 DEF Valid
  <2>1. lead >= pos
    <3> SUFFICES ASSUME lead < pos PROVE FALSE
      BY <1>5
    <3>1. q = pos
      BY <1>4, <1>5
    <3>2. pos \in q .. (pos + n) - 1 /\ pos \in 0 .. Len(str) - 1
      BY <1>1, <1>2, <3>1
    <3>3. ByteOf(str, pos) = "T"
      BY <1>5, <3>2
    <3>4. ~ WholeAt(str, pos)
      BY <3>3 DEF WholeAt
    <3> QED BY <2>0, <3>2, <3>4, <1>10, StrayIs
  <2>2. ByteOf(str, lead) # "T" /\ lead \in 0 .. Len(str) - 1
    BY <1>6, <2>1
  <2>3. WholeAt(str, lead)
    BY <2>0, <2>2, StrayIs
  <2>4. Parted(str, lead)
    BY <2>2, PartedIs
  <2>5. lead + need \in 1 .. Len(str) /\ Parted(str, lead + need)
    BY <2>2, <2>3, <2>4, PartedIs, WholeIs DEF need
  <2>6. ASSUME r = n, pos + n >= len \/ pos + n - lead >= need PROVE Parted(str, pos + n)
    <3>1. CASE pos + n >= len
      <4>1. pos + n = Len(str)
        BY <3>1, <1>1, <1>2
      <4> QED BY <4>1, PartedIs
    <3>2. CASE pos + n < len /\ pos + n - lead >= need
      <4>1. CASE lead + need = pos + n
        BY <4>1, <2>5
      <4>2. CASE lead + need < pos + n
        \* Every byte from behind the character on is a continuation.
        <5>1. lead + need \in q .. (pos + n) - 1 /\ lead + need \in 0 .. Len(str) - 1
          BY <4>2, <1>1, <1>2, <1>4, <1>5, <1>7, <2>5, <3>2
        <5>2. ByteOf(str, lead + need) = "T"
          BY <1>5, <5>1
        <5>3. ~ WholeAt(str, lead + need)
          BY <5>2 DEF WholeAt
        <5> QED BY <2>0, <2>5, <5>1, <5>3, StrayIs
      <4> QED BY <4>1, <4>2, <3>2, <1>2, <1>5, <1>7
    <3> QED BY <2>6, <3>1, <3>2, <1>1, <1>2
  <2>7. CASE pos + n >= len \/ pos + n - lead >= need
    <3>1. r = n
      BY <2>7, <1>8
    <3> QED BY <2>6, <2>7, <3>1
  <2>8. CASE ~ (pos + n >= len \/ pos + n - lead >= need)
    <3>1. CASE lead > pos
      <4>1. r = lead - pos /\ pos + r = lead
        BY <3>1, <2>1, <2>8, <1>5, <1>8
      <4> QED BY <4>1, <2>4
    <3>2. CASE lead = pos
      <4>1. pos + need <= len
        BY <2>5, <3>2, <1>1
      <4>2. r = need
        BY <3>2, <2>1, <2>8, <4>1, <1>5, <1>8
      <4> QED BY <4>2, <2>5, <3>2
    <3> QED BY <3>1, <3>2, <2>1, <1>5
  <2> QED BY <2>7, <2>8
<1> QED BY <1>1, <1>9, <1>10 DEF r

-----------------------------------------------------------------------------
(* The size computed before writing *)

LEMMA SizeOfIs ==
  ASSUME str \in Seq(Tok), NEW p \in 0 .. Len(str) - 1, WholeAt(str, p)
  PROVE  SizeOf(p) = Len(Escaped(str, p)) /\ SizeOf(p) \in Nat
<1> DEFINE c == ByteOf(str, p)
           e == Escaped(str, p)
<1>1. c \in Tok
  <2>1. p + 1 \in 1 .. Len(str)
    OBVIOUS
  <2> QED BY <2>1 DEF ByteOf
<1>2. c # "X" /\ c # "T" /\ Size(c) \in 1 .. 4 /\ p \in Nat /\ p + Size(c) <= Len(str)
  BY SizeIs DEF WholeAt
<1>3. Len(Piece(str, p, Size(c))) = Size(c)
  BY <1>2, PieceIs
<1>4. /\ Len(Pair(c)) = 2 /\ Len(Unit(c)) = 6
      /\ Len(Unit("high") \o Unit("low")) = 12
  BY <1>1, PairIs, UnitIs, PairOfUnits
<1>5. CASE c \in {"Q", "\\"} \/ (c = "/" /\ "slashes" \in flags)
  <2>1. Size(c) = 1 /\ c # "ctl"
    BY <1>5, SizeOfAscii
  <2>2. e = Pair(c)
    BY <1>5, <2>1 DEF Escaped
  <2>3. SizeOf(p) = 2
    BY <1>5, <2>1 DEF SizeOf
  <2> QED BY <2>2, <2>3, <1>4
<1>6. CASE c = "ctl"
  <2>1. Size(c) = 1
    BY <1>6, SizeOfAscii
  <2>2. e = Unit(c)
    BY <1>6, <2>1 DEF Escaped
  <2>3. SizeOf(p) = 6
    BY <1>6, <2>1 DEF SizeOf
  <2> QED BY <2>2, <2>3, <1>4
<1>7. CASE c \notin {"Q", "\\", "ctl"} /\ ~ (c = "/" /\ "slashes" \in flags)
  <2>1. CASE Size(c) > 1 /\ "unicode" \in flags
    <3>1. CASE c = "L4"
      <4>1. e = Unit("high") \o Unit("low")
        BY <1>7, <2>1, <3>1 DEF Escaped
      <4>2. SizeOf(p) = 12
        BY <1>7, <2>1, <3>1 DEF SizeOf
      <4> HIDE DEF e
      <4> QED BY <4>1, <4>2, <1>4 DEF e
    <3>2. CASE c # "L4"
      <4>1. e = Unit(c)
        BY <1>7, <2>1, <3>2 DEF Escaped
      <4>2. SizeOf(p) = 6
        BY <1>7, <2>1, <3>2 DEF SizeOf
      <4> QED BY <4>1, <4>2, <1>4
    <3> QED BY <3>1, <3>2
  <2>2. CASE ~ (Size(c) > 1 /\ "unicode" \in flags)
    <3>1. e = Piece(str, p, Size(c))
      BY <1>7, <2>2 DEF Escaped
    <3>2. SizeOf(p) = Size(c)
      BY <1>7, <2>2 DEF SizeOf
    <3> QED BY <3>1, <3>2, <1>2, <1>3
  <2> QED BY <2>1, <2>2
<1> QED BY <1>5, <1>6, <1>7

SizeStates == [status : {"ok", "utf8", "too_large"}, out_len : Nat, i : Nat]
SizeStart == [status |-> "ok", out_len |-> 2, i |-> 0]

LEMMA SizeStepTyped ==
  ASSUME str \in Seq(Tok), NEW was \in SizeStates, NEW n \in 1 .. len
  PROVE  SizeStep(was, n - 1) \in SizeStates
<1> DEFINE p == n - 1
<1>1. p \in 0 .. Len(str) - 1 /\ len \in Nat /\ p \in 0 .. len
  BY DEF len
<1>2. /\ [status |-> "utf8", out_len |-> 0, i |-> p] \in SizeStates
      /\ [status |-> "too_large", out_len |-> 0, i |-> p] \in SizeStates
  BY <1>1 DEF SizeStates
<1>3. ASSUME WholeAt(str, p)
      PROVE  [status |-> "ok", out_len |-> was.out_len + SizeOf(p), i |-> p + Size(ByteOf(str, p))]
                \in SizeStates
  <2>1. SizeOf(p) \in Nat
    BY <1>1, <1>3, SizeOfIs
  <2>2. p + Size(ByteOf(str, p)) \in 0 .. len
    BY <1>1, <1>3, WholeIs DEF len
  <2>3. was.out_len \in Nat
    BY DEF SizeStates
  <2>4. was.out_len + SizeOf(p) \in Nat
    BY <2>1, <2>3
  <2> QED BY <2>2, <2>4 DEF SizeStates
<1> HIDE DEF p
<1> QED BY <1>2, <1>3, Zenon DEF SizeStep, p

LEMMA SizeFolds ==
  \A l \in Nat : \A d \in [1 .. l -> [SizeStates -> SizeStates]] :
    \E f \in [0 .. l -> SizeStates] : f[0] = SizeStart /\ \A n \in 1 .. l : f[n] = d[n][f[n - 1]]
<1>1. SizeStart \in SizeStates
  BY DEF SizeStart, SizeStates
<1> QED BY <1>1, FoldExists

\* The states of the loop.
LEMMA SizeIsFold ==
  ASSUME str \in Seq(Tok)
  PROVE  \E f \in [0 .. len -> SizeStates] :
            /\ f[0] = SizeStart /\ fastjson_json_string_size = f[len]
            /\ \A n \in 1 .. len : f[n] = SizeStep(f[n - 1], n - 1)
<1> DEFINE L == len
           D == [n \in 1 .. L |-> [b \in SizeStates |-> SizeStep(b, n - 1)]]
<1>1. L \in Nat
  BY DEF len
<1>2. D \in [1 .. L -> [SizeStates -> SizeStates]]
  BY SizeStepTyped
<1> HIDE DEF L
<1>4. PICK g \in [0 .. L -> SizeStates] :
         g[0] = SizeStart /\ \A n \in 1 .. L : g[n] = D[n][g[n - 1]]
  <2> HIDE DEF D
  <2> QED BY <1>1, <1>2, SizeFolds, Zenon
<1>5. ASSUME NEW n \in 1 .. L PROVE g[n] = SizeStep(g[n - 1], n - 1)
  <2>1. n - 1 \in 0 .. L
    BY <1>1
  <2>2. g[n - 1] \in SizeStates
    BY <2>1, <1>4
  <2> QED BY <2>2, <1>4
<1> HIDE DEF D
<1> DEFINE Rec(f) == [n \in 0 .. L |-> IF n = 0 THEN SizeStart ELSE SizeStep(f[n - 1], n - 1)]
<1>6. g = Rec(g)
  <2>1. ASSUME NEW n \in 0 .. L
        PROVE  g[n] = IF n = 0 THEN SizeStart ELSE SizeStep(g[n - 1], n - 1)
    <3>1. n # 0 => n \in 1 .. L
      BY <1>1
    <3> QED BY <3>1, <1>4, <1>5
  <2> QED BY <2>1
<1> DEFINE f == CHOOSE f : f = Rec(f)
<1>7. f = Rec(f)
  <2> HIDE DEF Rec
  <2> QED BY <1>6
<1>8. fastjson_json_string_size = f[L]
  BY Zenon DEF fastjson_json_string_size, SizeStart, L
<1> HIDE DEF f
<1>9. /\ f = [n \in 0 .. L |-> f[n]]
      /\ f[0] = SizeStart
      /\ \A n \in 1 .. L : f[n] = SizeStep(f[n - 1], n - 1)
  <2>1. \A n \in 0 .. L : f[n] = IF n = 0 THEN SizeStart ELSE SizeStep(f[n - 1], n - 1)
    BY <1>7
  <2>2. \A n \in 1 .. L : n \in 0 .. L /\ n # 0
    BY <1>1
  <2>3. 0 \in 0 .. L
    BY <1>1
  <2>4. f = [n \in 0 .. L |-> f[n]]
    BY <1>7
  <2> QED BY <2>1, <2>2, <2>3, <2>4
<1> DEFINE P == {n \in 0 .. L : f[n] = g[n]}
<1>10. 0 \in P
  BY <1>1, <1>4, <1>9
<1>11. ASSUME NEW n \in 0 .. L - 1, n \in P PROVE n + 1 \in P
  <2>1. n + 1 \in 1 .. L /\ n + 1 \in 0 .. L /\ (n + 1) - 1 = n
    BY <1>1
  <2>2. f[n + 1] = SizeStep(f[n], n) /\ g[n + 1] = SizeStep(g[n], n)
    BY <2>1, <1>5, <1>9
  <2> QED BY <2>1, <2>2, <1>11
<1>12. \A n \in 0 .. L : n \in P
  <2> HIDE DEF P
  <2> QED BY <1>1, <1>10, <1>11, InductionUpTo
<1>13. L \in 0 .. L
  BY <1>1
<1> QED BY <1>4, <1>5, <1>8, <1>12, <1>13 DEF L

LEMMA TokenLen == \A t \in Seq(Tok) : Len(t) \in Nat
OBVIOUS

LEMMA TokensJoin ==
  \A x, y \in Seq(Tok) : x \o y \in Seq(Tok) /\ Len(x \o y) = Len(x) + Len(y)
BY Joined

LEMMA TokensAssociate ==
  \A x, y, z \in Seq(Tok) : (x \o y) \o z = x \o (y \o z)
BY ConcatAssociative

LEMMA TokensJoined ==
  ASSUME NEW x \in Seq(Tok), NEW y \in Seq(Tok)
  PROVE  /\ x \o y \in Seq(Tok) /\ Len(x \o y) = Len(x) + Len(y)
         /\ \A k \in 1 .. Len(x) : (x \o y)[k] = x[k]
         /\ \A k \in 1 .. Len(y) : (x \o y)[Len(x) + k] = y[k]
BY Joined

LEMMA SameTokens ==
  ASSUME NEW x \in Seq(Tok), NEW y \in Seq(Tok), Len(x) = Len(y),
         \A k \in 1 .. Len(x) : x[k] = y[k]
  PROVE  x = y
OBVIOUS

LEMMA JsonIs ==
  ASSUME NEW t \in Seq(Tok)
  PROVE  Json(t) \in Seq(Tok) /\ Len(Json(t)) = Len(Body(t)) + 2 /\ Len(Body(t)) \in Nat
<1> DEFINE b == Body(t)
<1>1. b \in Seq(Tok) /\ Len(b) \in Nat
  BY BodyBound
<1> HIDE DEF b
<1>2. <<"Q">> \in Seq(Tok) /\ Len(<<"Q">>) = 1
  BY TokFacts
<1> DEFINE q == <<"Q">>
           now == q \o b
<1>3. q \in Seq(Tok) /\ Len(q) = 1
  BY <1>2
<1> HIDE DEF q
<1>4. now \in Seq(Tok) /\ Len(now) = Len(q) + Len(b)
  BY <1>1, <1>3, TokensJoin
<1> HIDE DEF now
<1>5. now \o q \in Seq(Tok) /\ Len(now \o q) = Len(now) + Len(q)
  BY <1>3, <1>4, TokensJoin
<1> QED BY <1>1, <1>3, <1>4, <1>5 DEF Json, now, q, b

\* The answer covers the characters before the offset it has reached.
Measured(e) ==
  /\ e.status = "ok" =>
       /\ e.i <= len /\ Parted(str, e.i)
       /\ e.out_len = 2 + Len(Flat(Units(str), e.i))
       /\ \A k \in 0 .. e.i - 1 : k \notin Stray(str)
  /\ e.status = "utf8" => ~ Valid(str)

LEMMA MeasuresOne ==
  ASSUME str \in Seq(Tok), NEW e \in SizeStates, NEW p \in 0 .. len - 1, Measured(e),
         e.status = "ok" => p <= e.i
  PROVE  /\ Measured(SizeStep(e, p))
         /\ SizeStep(e, p).status = "ok" => p + 1 <= SizeStep(e, p).i
<1>1. len \in Nat /\ len = Len(str) /\ p \in 0 .. Len(str) - 1 /\ p \in Nat /\ e.i \in Nat
  BY DEF len, SizeStates
<1> DEFINE more == p + Size(ByteOf(str, p))
           sum == e.out_len + SizeOf(p)
<1>2. CASE e.status # "ok" \/ e.i # p
  <2>1. SizeStep(e, p) = e
    BY <1>2 DEF SizeStep
  <2> QED BY <1>1, <1>2, <2>1
<1>3. CASE e.status = "ok" /\ e.i = p /\ ~ WholeAt(str, p)
  <2>1. SizeStep(e, p) = [status |-> "utf8", out_len |-> 0, i |-> p]
    BY <1>3 DEF SizeStep
  <2>2. Parted(str, p)
    BY <1>3 DEF Measured
  <2>3. p \in Stray(str)
    BY <1>1, <1>3, <2>2, StrayIs
  <2>4. ~ Valid(str)
    BY <2>3 DEF Valid
  <2> QED BY <2>1, <2>4 DEF Measured
<1>4. CASE e.status = "ok" /\ e.i = p /\ WholeAt(str, p) /\ SizeOf(p) > ZSTR_MAX_LEN - e.out_len
  <2>1. SizeStep(e, p) = [status |-> "too_large", out_len |-> 0, i |-> p]
    BY <1>4 DEF SizeStep
  <2> QED BY <2>1 DEF Measured
<1>5. CASE /\ e.status = "ok" /\ e.i = p /\ WholeAt(str, p)
           /\ ~ (SizeOf(p) > ZSTR_MAX_LEN - e.out_len)
  <2>1. SizeStep(e, p) = [status |-> "ok", out_len |-> sum, i |-> more]
    BY <1>5 DEF SizeStep
  <2>2. more \in 1 .. Len(str) /\ Size(ByteOf(str, p)) \in 1 .. 4
    BY <1>1, <1>5, WholeIs
  <2>3. Parted(str, more)
    BY <1>1, <1>5, PartedIs DEF Measured
  <2>4. /\ SizeOf(p) = Len(Escaped(str, p)) /\ SizeOf(p) \in Nat
        /\ Flat(Units(str), more) = Flat(Units(str), p) \o Escaped(str, p)
        /\ Escaped(str, p) \in Seq(Tok)
    BY <1>1, <1>5, SizeOfIs, CharAdds, EscapedIs
  <2>5. Flat(Units(str), p) \in Seq(Tok)
    <3>1. p \in 0 .. Len(str)
      BY <1>1
    <3> QED BY <3>1, SoFar
  <2>6. Len(Flat(Units(str), more)) = Len(Flat(Units(str), p)) + SizeOf(p)
    <3> DEFINE x == Flat(Units(str), p)
               y == Escaped(str, p)
    <3>1. x \in Seq(Tok) /\ y \in Seq(Tok)
      BY <2>4, <2>5
    <3> HIDE DEF x, y
    <3>2. Len(x \o y) = Len(x) + Len(y)
      BY <3>1
    <3> QED BY <3>2, <2>4 DEF x, y
  <2>7. e.out_len = 2 + Len(Flat(Units(str), p)) /\ Len(Flat(Units(str), p)) \in Nat
    BY <1>5, <2>5 DEF Measured
  <2>8. sum = 2 + Len(Flat(Units(str), more))
    <3> DEFINE x == Len(Flat(Units(str), p))
               y == Len(Flat(Units(str), more))
    <3>1. e.out_len = 2 + x /\ x \in Nat /\ y = x + SizeOf(p) /\ SizeOf(p) \in Nat
      BY <2>4, <2>6, <2>7
    <3> HIDE DEF x, y
    <3>2. sum = 2 + y
      BY <3>1
    <3> QED BY <3>2 DEF y
  <2>9. \A k \in 0 .. more - 1 : k \notin Stray(str)
    <3> TAKE k \in 0 .. more - 1
    <3>1. CASE k < p
      <4>1. k \in 0 .. p - 1
        BY <3>1, <1>1
      <4> QED BY <4>1, <1>5 DEF Measured
    <3>2. CASE k >= p
      <4>1. k \in p .. p + Size(ByteOf(str, p)) - 1
        <5> DEFINE z == Size(ByteOf(str, p))
        <5>1. z \in 1 .. 4 /\ more = p + z /\ k \in 0 .. more - 1
          BY <2>2
        <5> HIDE DEF z, more
        <5>2. k \in p .. p + z - 1
          BY <5>1, <3>2, <1>1
        <5> QED BY <5>2 DEF z
      <4> QED BY <4>1, <1>1, <1>5, StrayIs
    <3> QED BY <3>1, <3>2, <1>1
  <2>10. more <= len /\ p + 1 <= more
    BY <1>1, <2>2
  <2> HIDE DEF more, sum
  <2> QED BY <2>1, <2>3, <2>8, <2>9, <2>10 DEF Measured
<1> QED BY <1>2, <1>3, <1>4, <1>5

\* The measured size is that of the output, and only a malformed string is
\* reported as such.
LEMMA SizeIsRight ==
  ASSUME str \in Seq(Tok)
  PROVE  LET e == fastjson_json_string_size
         IN  /\ e.status \in {"ok", "utf8", "too_large"} /\ e.out_len \in Nat
             /\ e.status = "ok" => Valid(str) /\ e.out_len = Len(Json(str))
             /\ e.status = "utf8" => ~ Valid(str)
<1>1. PICK f \in [0 .. len -> SizeStates] :
         /\ f[0] = SizeStart /\ fastjson_json_string_size = f[len]
         /\ \A n \in 1 .. len : f[n] = SizeStep(f[n - 1], n - 1)
  BY SizeIsFold
<1>2. len \in Nat /\ len = Len(str)
  BY DEF len
<1> DEFINE P == {n \in 0 .. len : Measured(f[n]) /\ (f[n].status = "ok" => n <= f[n].i)}
<1>3. 0 \in P
  <2>1. Parted(str, 0) /\ Flat(Units(str), 0) = <<>>
    BY PartedIs, SoFar
  <2>2. Len(<<>>) = 0
    OBVIOUS
  <2>3. Measured(SizeStart)
    BY <1>2, <2>1, <2>2 DEF Measured, SizeStart
  <2> QED BY <1>1, <1>2, <2>3 DEF SizeStart
<1>4. ASSUME NEW n \in 0 .. len - 1, n \in P PROVE n + 1 \in P
  <2>1. n + 1 \in 1 .. len /\ n + 1 \in 0 .. len /\ (n + 1) - 1 = n /\ n \in 0 .. len
    BY <1>2
  <2>2. f[n + 1] = SizeStep(f[n], n) /\ f[n] \in SizeStates
    BY <1>1, <2>1
  <2>3. Measured(f[n]) /\ (f[n].status = "ok" => n <= f[n].i)
    BY <1>4
  <2>4. Measured(f[n + 1]) /\ (f[n + 1].status = "ok" => n + 1 <= f[n + 1].i)
    BY <2>2, <2>3, MeasuresOne
  <2> QED BY <2>1, <2>4
<1>5. \A n \in 0 .. len : n \in P
  <2> HIDE DEF P
  <2> QED BY <1>2, <1>3, <1>4, InductionUpTo
<1> DEFINE e == f[len]
<1>6. Measured(e) /\ (e.status = "ok" => len <= e.i) /\ e \in SizeStates
  BY <1>1, <1>2, <1>5
<1> HIDE DEF e
<1>7. ASSUME e.status = "ok" PROVE Valid(str) /\ e.out_len = Len(Json(str))
  <2>1. e.i = len
    BY <1>2, <1>6, <1>7 DEF Measured, SizeStates
  <2>2. \A k \in 0 .. Len(str) - 1 : k \notin Stray(str)
    BY <1>2, <1>6, <1>7, <2>1 DEF Measured
  <2>3. Stray(str) \subseteq 0 .. Len(str) - 1
    BY DEF Stray
  <2>4. Valid(str)
    BY <2>2, <2>3 DEF Valid
  <2>5. e.out_len = 2 + Len(Body(str))
    BY <1>2, <1>6, <1>7, <2>1, SoFar DEF Measured
  <2> QED BY <2>4, <2>5, JsonIs
<1> QED BY <1>1, <1>6, <1>7 DEF Measured, SizeStates, e

-----------------------------------------------------------------------------
(* A sanitized string is well formed *)

LEMMA ValidJoin ==
  ASSUME NEW x \in Seq(Tok), NEW y \in Seq(Tok), Valid(x), Valid(y)
  PROVE  Valid(x \o y)
<1>1. Parted(x \o y, Len(x))
  BY JoinChars
<1> QED BY <1>1, JoinValid

LEMMA NothingIsValid == Valid(<<>>)
<1>1. Len(<<>>) = 0 /\ 0 .. 0 - 1 = {}
  OBVIOUS
<1> QED BY <1>1 DEF Valid, Stray

LEMMA CharIsValid ==
  ASSUME NEW t \in Seq(Tok), NEW p \in 0 .. Len(t) - 1, WholeAt(t, p)
  PROVE  Valid(Piece(t, p, Size(ByteOf(t, p))))
<1> DEFINE z == Size(ByteOf(t, p))
           v == Piece(t, p, z)
<1>1. /\ z \in 1 .. 4 /\ p + z <= Len(t) /\ p \in Nat
      /\ ByteOf(t, p) # "T" /\ ByteOf(t, p) # "X"
      /\ \A q \in p + 1 .. p + z - 1 : ByteOf(t, q) = "T"
  BY WholeIs
<1>2. v \in Seq(Tok) /\ Len(v) = z /\ \A k \in 0 .. z - 1 : ByteOf(v, k) = ByteOf(t, p + k)
  <2>1. z \in Nat
    BY <1>1
  <2> HIDE DEF z
  <2>2. Piece(t, p, z) \in Seq(Tok) /\ Len(Piece(t, p, z)) = z
    <3>1. p \in Nat /\ p + z <= Len(t)
      BY <1>1
    <3> QED BY <2>1, <3>1, PieceIs
  <2>3. \A k \in 0 .. z - 1 : ByteOf(Piece(t, p, z), k) = ByteOf(t, p + k)
    BY <1>1, <2>1, PieceBytes
  <2> QED BY <2>2, <2>3
<1> HIDE DEF v
<1>3. ByteOf(v, 0) = ByteOf(t, p)
  BY <1>1, <1>2
<1>4. Size(ByteOf(v, 0)) = z
  BY <1>3
<1> HIDE DEF z
<1>5. WholeAt(v, 0)
  <2>1. ASSUME NEW k \in 1 .. z - 1 PROVE ByteOf(v, 0 + k) = "T"
    <3>1. k \in 0 .. z - 1 /\ p + k \in p + 1 .. p + z - 1 /\ 0 + k = k
      BY <1>1
    <3> QED BY <3>1, <1>1, <1>2
  <2> QED BY <2>1, <1>1, <1>2, <1>3, <1>4 DEF WholeAt
<1>6. \A k \in 0 .. z - 1 : k \notin Stray(v)
  <2>1. 0 \in 0 .. Len(v) - 1 /\ 0 + z - 1 = z - 1
    BY <1>1, <1>2
  <2> QED BY <2>1, <1>2, <1>4, <1>5, StrayIs
<1>7. Stray(v) \subseteq 0 .. z - 1
  BY <1>2 DEF Stray
<1> QED BY <1>6, <1>7 DEF Valid, v, z

LEMMA MarkIsValid == ReplacementChar \in Seq(Tok) /\ Valid(ReplacementChar)
<1> DEFINE v == ReplacementChar
<1>1. v \in Seq(Tok) /\ Len(v) = 3 /\ v[1] = "L3" /\ v[2] = "T" /\ v[3] = "T"
  BY TokFacts DEF ReplacementChar
<1> HIDE DEF v
<1>2. ByteOf(v, 0) = "L3" /\ ByteOf(v, 0 + 1) = "T" /\ ByteOf(v, 0 + 2) = "T"
  BY <1>1 DEF ByteOf
<1>3. Size(ByteOf(v, 0)) = 3
  BY <1>2 DEF Size
<1>4. WholeAt(v, 0)
  <2>1. \A k \in 1 .. 3 - 1 : k = 1 \/ k = 2
    OBVIOUS
  <2> QED BY <2>1, <1>1, <1>2, <1>3 DEF WholeAt
<1>5. Valid(Piece(v, 0, 3))
  <2>1. 0 \in 0 .. Len(v) - 1
    BY <1>1
  <2> QED BY <2>1, <1>1, <1>3, <1>4, CharIsValid
<1>6. Piece(v, 0, 3) = v
  <2>1. 0 \in Nat /\ 0 + 0 <= Len(v)
    BY <1>1
  <2>2. Piece(v, 0, Len(v)) = v
    BY <1>1, <2>1, CutTokens, Zenon
  <2> QED BY <1>1, <2>2
<1> QED BY <1>1, <1>5, <1>6 DEF v

Kepts(t, marks) == [k \in 1 .. Len(t) |-> Kept(t, marks, k - 1)]

LEMMA KeptsAre ==
  ASSUME NEW t \in Seq(Tok), NEW marks \in SUBSET Stray(t)
  PROVE  LET f(n) == Flat(Kepts(t, marks), n)
         IN  /\ f(0) = <<>> /\ Len(t) \in Nat /\ Repaired(t, marks) = f(Len(t))
             /\ \A n \in 0 .. Len(t) : f(n) \in Seq(Tok)
             /\ \A n \in 0 .. Len(t) - 1 :
                  /\ f(n + 1) = f(n) \o Kept(t, marks, n) /\ Kept(t, marks, n) \in Seq(Tok)
                  /\ n \in Stray(t) => Valid(Kept(t, marks, n))
                  /\ n \notin Stray(t) => Kept(t, marks, n) = <<ByteOf(t, n)>>
<1> DEFINE q == Kepts(t, marks)
<1>0. Len(t) \in Nat
  OBVIOUS
<1>1. ASSUME NEW n \in 0 .. Len(t) - 1
      PROVE  /\ Kept(t, marks, n) \in Seq(Tok)
             /\ n \in Stray(t) => Valid(Kept(t, marks, n))
             /\ n \notin Stray(t) => Kept(t, marks, n) = <<ByteOf(t, n)>>
  <2>1. ByteOf(t, n) \in Tok
    <3>1. n + 1 \in 1 .. Len(t)
      BY <1>0
    <3> QED BY <3>1 DEF ByteOf
  <2>2. <<ByteOf(t, n)>> \in Seq(Tok) /\ <<>> \in Seq(Tok)
    BY <2>1
  <2>3. Kept(t, marks, n) = ReplacementChar \/ Kept(t, marks, n) = <<>>
          \/ Kept(t, marks, n) = <<ByteOf(t, n)>>
    BY DEF Kept
  <2>4. n \in Stray(t) => Kept(t, marks, n) = ReplacementChar \/ Kept(t, marks, n) = <<>>
    BY DEF Kept
  <2>5. n \notin Stray(t) => Kept(t, marks, n) = <<ByteOf(t, n)>>
    BY DEF Kept
  <2> QED BY <2>2, <2>3, <2>4, <2>5, MarkIsValid, NothingIsValid, Zenon
<1>2. q \in Seq(Seq(Tok)) /\ Len(q) = Len(t)
  <2>1. ASSUME NEW k \in 1 .. Len(t) PROVE Kept(t, marks, k - 1) \in Seq(Tok)
    <3>1. k - 1 \in 0 .. Len(t) - 1
      BY <1>0
    <3> QED BY <3>1, <1>1
  <2> QED BY <1>0, <2>1, IsASeq DEF Kepts
<1>3. \A n \in 0 .. Len(t) - 1 : n + 1 \in 1 .. Len(t) /\ q[n + 1] = Kept(t, marks, n)
  BY <1>0 DEF Kepts
<1>4. Repaired(t, marks) = FlattenSeq(q)
  BY DEF Repaired, Kepts
<1> HIDE DEF q
<1>5. /\ Flat(q, 0) = <<>> /\ FlattenSeq(q) = Flat(q, Len(q))
      /\ \A n \in 0 .. Len(q) : Flat(q, n) \in Seq(Tok)
      /\ \A n \in 1 .. Len(q) : Flat(q, n) = Flat(q, n - 1) \o q[n]
  BY <1>2, FlatSteps
<1>6. ASSUME NEW n \in 0 .. Len(t) - 1
      PROVE  Flat(q, n + 1) = Flat(q, n) \o Kept(t, marks, n)
  <2>1. n + 1 \in 1 .. Len(q) /\ (n + 1) - 1 = n
    BY <1>0, <1>2
  <2> QED BY <2>1, <1>3, <1>5
<1> QED BY <1>0, <1>1, <1>2, <1>4, <1>5, <1>6 DEF q

\* The bytes of a character are kept.
LEMMA KeepsChar ==
  ASSUME NEW t \in Seq(Tok), NEW marks \in SUBSET Stray(t),
         NEW p \in 0 .. Len(t) - 1, WholeAt(t, p)
  PROVE  LET f(n) == Flat(Kepts(t, marks), n)
             z == Size(ByteOf(t, p))
         IN  f(p + z) = f(p) \o Piece(t, p, z)
<1> DEFINE f(n) == Flat(Kepts(t, marks), n)
           z == Size(ByteOf(t, p))
           P == {k \in 0 .. z : f(p + k) = f(p) \o Piece(t, p, k)}
<1>1. /\ Len(t) \in Nat /\ \A n \in 0 .. Len(t) : f(n) \in Seq(Tok)
      /\ \A n \in 0 .. Len(t) - 1 :
           /\ f(n + 1) = f(n) \o Kept(t, marks, n)
           /\ n \notin Stray(t) => Kept(t, marks, n) = <<ByteOf(t, n)>>
  BY KeptsAre
<1>2. z \in 1 .. 4 /\ p + z <= Len(t) /\ p \in Nat
  BY WholeIs
<1>3. \A k \in p .. p + z - 1 : k \notin Stray(t)
  BY StrayIs
<1> HIDE DEF f, z
<1>4. 0 \in P
  <2>1. Piece(t, p, 0) = <<>>
    <3>1. Piece(t, p, 0) \in Seq(Tok) /\ Len(Piece(t, p, 0)) = 0
      <4>1. p + 0 <= Len(t) /\ 0 \in Nat
        BY <1>2
      <4> QED BY <4>1, <1>2, CutTokens
    <3> QED BY <3>1
  <2>2. f(p) \in Seq(Tok)
    BY <1>1, <1>2
  <2>3. f(p) \o <<>> = f(p)
    BY <2>2
  <2>4. p + 0 = p
    BY <1>2
  <2>5. 0 \in 0 .. z
    BY <1>2
  <2> QED BY <2>1, <2>3, <2>4, <2>5, Zenon
<1>5. ASSUME NEW k \in 0 .. z - 1, k \in P PROVE k + 1 \in P
  <2>1. /\ p + k \in 0 .. Len(t) - 1 /\ p + k \in p .. p + z - 1 /\ (p + k) + 1 = p + (k + 1)
        /\ k \in Nat /\ k + 1 \in 0 .. z
    BY <1>1, <1>2
  <2>2. f(p + (k + 1)) = f(p + k) \o <<ByteOf(t, p + k)>>
    BY <2>1, <1>1, <1>3
  <2>3. Piece(t, p, k + 1) = Piece(t, p, k) \o <<ByteOf(t, p + k)>>
    <3> DEFINE x == Piece(t, p, k)
               y == <<ByteOf(t, p + k)>>
               v == Piece(t, p, k + 1)
    <3>1. ByteOf(t, p + k) \in Tok
      <4>1. (p + k) + 1 \in 1 .. Len(t)
        BY <2>1, <1>1
      <4> QED BY <4>1 DEF ByteOf
    <3>2. /\ x \in Seq(Tok) /\ Len(x) = k /\ \A j \in 1 .. k : x[j] = t[p + j]
          /\ v \in Seq(Tok) /\ Len(v) = k + 1 /\ \A j \in 1 .. k + 1 : v[j] = t[p + j]
      <4>1. p + k <= Len(t) /\ p + (k + 1) <= Len(t) /\ k \in Nat /\ k + 1 \in Nat
        BY <2>1, <1>1, <1>2
      <4>2. /\ x \in Seq(Tok) /\ Len(x) = k /\ \A j \in 1 .. k : x[j] = t[p + j]
        BY <4>1, <1>2, PieceIs
      <4>3. /\ v \in Seq(Tok) /\ Len(v) = k + 1 /\ \A j \in 1 .. k + 1 : v[j] = t[p + j]
        BY <4>1, <1>2, PieceIs
      <4> QED BY <4>2, <4>3
    <3>3. y \in Seq(Tok) /\ Len(y) = 1 /\ y[1] = t[p + (k + 1)]
      BY <3>1, <2>1 DEF ByteOf
    <3> HIDE DEF x, y, v
    <3>4. /\ x \o y \in Seq(Tok) /\ Len(x \o y) = k + 1
          /\ \A j \in 1 .. k : (x \o y)[j] = x[j]
          /\ (x \o y)[k + 1] = y[1]
      <4>1. x \in Seq(Tok) /\ Len(x) = k /\ y \in Seq(Tok) /\ Len(y) = 1 /\ 1 \in 1 .. 1
        BY <3>2, <3>3
      <4>2. /\ x \o y \in Seq(Tok) /\ Len(x \o y) = Len(x) + Len(y)
            /\ \A j \in 1 .. Len(x) : (x \o y)[j] = x[j]
            /\ \A j \in 1 .. Len(y) : (x \o y)[Len(x) + j] = y[j]
        BY <4>1, TokensJoined, Zenon
      <4> DEFINE c == x \o y
      <4> HIDE DEF c
      <4>3. c \in Seq(Tok) /\ Len(c) = k + 1 /\ (\A j \in 1 .. k : c[j] = x[j]) /\ c[k + 1] = y[1]
        BY <4>1, <4>2 DEF c
      <4> QED BY <4>3 DEF c
    <3>5. \A j \in 1 .. k + 1 : (x \o y)[j] = v[j]
      <4> TAKE j \in 1 .. k + 1
      <4>1. CASE j \in 1 .. k
        BY <4>1, <3>2, <3>4
      <4>2. CASE j \notin 1 .. k
        <5>1. j = k + 1
          BY <4>2, <2>1
        <5> QED BY <5>1, <3>2, <3>3, <3>4
      <4> QED BY <4>1, <4>2
    <3>6. x \o y = v
      BY <3>2, <3>4, <3>5, SameTokens, Zenon
    <3> QED BY <3>6 DEF x, y, v
  <2>4. f(p) \in Seq(Tok) /\ Piece(t, p, k) \in Seq(Tok) /\ <<ByteOf(t, p + k)>> \in Seq(Tok)
    <3>1. (p + k) + 1 \in 1 .. Len(t) /\ p \in 0 .. Len(t)
      BY <2>1, <1>1, <1>2
    <3>2. ByteOf(t, p + k) \in Tok
      BY <3>1 DEF ByteOf
    <3>3. p + k <= Len(t)
      BY <2>1, <1>1
    <3>4. Piece(t, p, k) \in Seq(Tok)
      BY <3>3, <2>1, <1>2, CutTokens
    <3> QED BY <3>1, <3>2, <3>4, <1>1
  <2>5. (f(p) \o Piece(t, p, k)) \o <<ByteOf(t, p + k)>>
          = f(p) \o (Piece(t, p, k) \o <<ByteOf(t, p + k)>>)
    BY <2>4, TokensAssociate
  <2>6. f(p + k) = f(p) \o Piece(t, p, k)
    BY <1>5
  <2>7. f(p + (k + 1)) = f(p) \o Piece(t, p, k + 1)
    BY <2>2, <2>3, <2>5, <2>6, Zenon
  <2> QED BY <2>1, <2>7
<1>6. \A k \in 0 .. z : k \in P
  <2>1. z \in Nat
    BY <1>2
  <2> HIDE DEF P
  <2> QED BY <2>1, <1>4, <1>5, InductionUpTo
<1>7. f(p + z) = f(p) \o Piece(t, p, z)
  <2>1. z \in 0 .. z
    BY <1>2
  <2>2. z \in P
    <3> HIDE DEF P
    <3> QED BY <1>6, <2>1
  <2> QED BY <2>2, Zenon
<1> QED BY <1>7 DEF f, z

\* Whatever strays are marked and the others dropped, the result is well formed.
LEMMA RepairedIsValid ==
  ASSUME NEW t \in Seq(Tok), NEW marks \in SUBSET Stray(t)
  PROVE  Repaired(t, marks) \in Seq(Tok) /\ Valid(Repaired(t, marks))
<1> DEFINE f(n) == Flat(Kepts(t, marks), n)
           P == {n \in 0 .. Len(t) : \A m \in 0 .. n : Parted(t, m) => Valid(f(m))}
<1>1. /\ f(0) = <<>> /\ Len(t) \in Nat /\ Repaired(t, marks) = f(Len(t))
      /\ \A n \in 0 .. Len(t) : f(n) \in Seq(Tok)
      /\ \A n \in 0 .. Len(t) - 1 :
           /\ f(n + 1) = f(n) \o Kept(t, marks, n) /\ Kept(t, marks, n) \in Seq(Tok)
           /\ n \in Stray(t) => Valid(Kept(t, marks, n))
  BY KeptsAre
<1>2. \A p \in 0 .. Len(t) - 1 : WholeAt(t, p) =>
        f(p + Size(ByteOf(t, p))) = f(p) \o Piece(t, p, Size(ByteOf(t, p)))
  BY KeepsChar
<1> HIDE DEF f
<1>3. 0 \in P
  BY <1>1, NothingIsValid
<1>4. ASSUME NEW n \in 0 .. Len(t) - 1, n \in P PROVE n + 1 \in P
  <2>1. n + 1 \in 0 .. Len(t) /\ n \in 0 .. Len(t) /\ n \in Nat
    BY <1>1
  <2>2. ASSUME Parted(t, n + 1) PROVE Valid(f(n + 1))
    <3>1. CASE n \in Stray(t)
      <4>1. Parted(t, n)
        BY <3>1, PartedIs
      <4>2. Valid(f(n)) /\ f(n) \in Seq(Tok)
        BY <4>1, <2>1, <1>1, <1>4
      <4>3. Valid(Kept(t, marks, n)) /\ Kept(t, marks, n) \in Seq(Tok)
        BY <3>1, <1>1
      <4>4. Valid(f(n) \o Kept(t, marks, n))
        BY <4>2, <4>3, ValidJoin
      <4> QED BY <4>4, <1>1
    <3>2. CASE n \notin Stray(t)
      <4>1. PICK q \in 0 .. n : /\ WholeAt(t, q) /\ q \in Starts(t)
                                /\ q < Len(t) /\ n < q + Size(ByteOf(t, q))
        BY <3>2, StrayIs
      <4> DEFINE z == Size(ByteOf(t, q))
                 v == Piece(t, q, z)
      <4>2. q \in 0 .. Len(t) - 1 /\ q < n + 1 /\ q \in Nat /\ z \in Nat
        <5>1. Size(ByteOf(t, q)) \in 1 .. 4
          BY SizeIs
        <5>2. q \in 0 .. Len(t) - 1 /\ q < n + 1 /\ q \in Nat
          BY <4>1, <1>1
        <5> QED BY <5>1, <5>2
      <4>3. q + z <= n + 1
        BY <4>1, <4>2, <2>2 DEF Parted
      <4>4. q + z = n + 1
        <5> HIDE DEF z
        <5> QED BY <4>1, <4>2, <4>3 DEF z
      <4>5. f(n + 1) = f(q) \o v
        BY <4>1, <4>2, <4>4, <1>2
      <4>6. Valid(v) /\ v \in Seq(Tok)
        <5>1. q + z <= Len(t)
          BY <4>4, <1>1
        <5>2. v \in Seq(Tok)
          <6> HIDE DEF z
          <6> QED BY <5>1, <4>2, CutTokens
        <5> QED BY <5>2, <4>1, <4>2, CharIsValid
      <4>7. Parted(t, q)
        BY <4>1, <4>2, WholeIs, PartedIs
      <4>8. Valid(f(q)) /\ f(q) \in Seq(Tok)
        BY <4>2, <4>7, <1>1, <1>4
      <4> HIDE DEF v
      <4> QED BY <4>5, <4>6, <4>8, ValidJoin
    <3> QED BY <3>1, <3>2
  <2>3. \A m \in 0 .. n + 1 : m = n + 1 \/ m \in 0 .. n
    BY <2>1
  <2> QED BY <2>1, <2>2, <2>3, <1>4
<1>5. \A n \in 0 .. Len(t) : n \in P
  <2> HIDE DEF P
  <2> QED BY <1>1, <1>3, <1>4, InductionUpTo
<1>6. Parted(t, Len(t)) /\ Len(t) \in 0 .. Len(t)
  BY <1>1, PartedIs
<1> QED BY <1>1, <1>5, <1>6

LEMMA SanitizedIsValid ==
  ASSUME NEW t \in Seq(Tok), NEW v \in Sanitized(t)
  PROVE  v \in Seq(Tok) /\ Valid(v)
<1> DEFINE first == {p \in Stray(t) : p - 1 \notin Stray(t)}
<1>1. {} \in SUBSET Stray(t) /\ first \in SUBSET Stray(t) /\ Stray(t) \in SUBSET Stray(t)
  OBVIOUS
<1>2. v = Repaired(t, {}) \/ v = Repaired(t, first) \/ v = Repaired(t, Stray(t))
  BY Zenon DEF Sanitized
<1> HIDE DEF first
<1> QED BY <1>1, <1>2, RepairedIsValid, Zenon

-----------------------------------------------------------------------------
(* What a store leaves in the buffer *)

LEMMA HeadIs ==
  ASSUME NEW t \in Seq(Tok), NEW n \in 0 .. Len(t)
  PROVE  /\ SubSeq(t, 1, n) \in Seq(Tok) /\ Len(SubSeq(t, 1, n)) = n
         /\ \A k \in 1 .. n : SubSeq(t, 1, n)[k] = t[k]
OBVIOUS

LEMMA SameHead ==
  ASSUME NEW t \in Seq(Tok), NEW v \in Seq(Tok), NEW n \in 0 .. Len(t), n <= Len(v),
         \A k \in 1 .. n : v[k] = t[k]
  PROVE  SubSeq(v, 1, n) = SubSeq(t, 1, n)
<1>1. n \in 0 .. Len(v)
  OBVIOUS
<1> DEFINE x == SubSeq(t, 1, n)
           y == SubSeq(v, 1, n)
<1>2. /\ x \in Seq(Tok) /\ Len(x) = n /\ \A k \in 1 .. n : x[k] = t[k]
      /\ y \in Seq(Tok) /\ Len(y) = n /\ \A k \in 1 .. n : y[k] = v[k]
  BY <1>1, HeadIs
<1> HIDE DEF x, y
<1>3. y = x
  BY <1>2, SameTokens
<1> QED BY <1>3 DEF x, y

\* A text that starts with x and goes on with y.
LEMMA HeadJoin ==
  ASSUME NEW v \in Seq(Tok), NEW x \in Seq(Tok), NEW y \in Seq(Tok), Len(x) + Len(y) <= Len(v),
         \A k \in 1 .. Len(x) : v[k] = x[k],
         \A k \in 1 .. Len(y) : v[Len(x) + k] = y[k]
  PROVE  SubSeq(v, 1, Len(x) + Len(y)) = x \o y
<1> DEFINE lx == Len(x)
           ly == Len(y)
           c == x \o y
           u == SubSeq(v, 1, lx + ly)
<1>1. lx \in Nat /\ ly \in Nat /\ lx + ly \in 0 .. Len(v)
  OBVIOUS
<1>2. /\ c \in Seq(Tok) /\ Len(c) = lx + ly
      /\ \A k \in 1 .. lx : c[k] = x[k]
      /\ \A k \in 1 .. ly : c[lx + k] = y[k]
  BY TokensJoined
<1>3. /\ \A k \in 1 .. lx : v[k] = x[k]
      /\ \A k \in 1 .. ly : v[lx + k] = y[k]
  OBVIOUS
<1> HIDE DEF lx, ly, c
<1>4. u \in Seq(Tok) /\ Len(u) = lx + ly /\ \A k \in 1 .. lx + ly : u[k] = v[k]
  BY <1>1, HeadIs
<1> HIDE DEF u
<1>5. ASSUME NEW k \in 1 .. lx + ly PROVE u[k] = c[k]
  <2>1. CASE k <= lx
    <3>1. k \in 1 .. lx
      BY <2>1, <1>1
    <3> QED BY <3>1, <1>2, <1>3, <1>4
  <2>2. CASE k > lx
    <3>1. k - lx \in 1 .. ly /\ lx + (k - lx) = k
      BY <2>2, <1>1
    <3>2. c[lx + (k - lx)] = y[k - lx] /\ v[lx + (k - lx)] = y[k - lx]
      BY <3>1, <1>2, <1>3
    <3> QED BY <3>1, <3>2, <1>4
  <2> QED BY <2>1, <2>2, <1>1
<1>6. u = c
  BY <1>2, <1>4, <1>5, SameTokens
<1> QED BY <1>6 DEF u, c, lx, ly

LEMMA StoreLays ==
  ASSUME NEW t \in Seq(Tok), NEW p \in 0 .. Len(t), NEW what \in Seq(Tok)
  PROVE  LET v == Store(t, p, what)
         IN  /\ v \in Seq(Tok) /\ Len(v) = Most(Len(t), p + Len(what))
             /\ Len(v) >= Len(t) /\ Len(v) >= p + Len(what)
             /\ \A n \in 0 .. p : SubSeq(v, 1, n) = SubSeq(t, 1, n)
             /\ SubSeq(v, 1, p + Len(what)) = SubSeq(t, 1, p) \o what
<1> DEFINE v == Store(t, p, what)
<1>1. Len(t) \in Nat /\ Len(what) \in Nat /\ p \in Nat /\ p <= Len(t)
  OBVIOUS
<1>2. /\ v \in Seq(Tok) /\ Len(v) = Most(Len(t), p + Len(what))
      /\ \A k \in 1 .. p : v[k] = t[k]
      /\ \A k \in 1 .. Len(what) : v[p + k] = what[k]
  BY StoreIs, Zenon
<1> HIDE DEF v
<1>3. Len(v) >= Len(t) /\ Len(v) >= p + Len(what)
  BY <1>1, <1>2 DEF Most
<1>4. ASSUME NEW n \in 0 .. p PROVE SubSeq(v, 1, n) = SubSeq(t, 1, n)
  <2>1. n \in 0 .. Len(t) /\ n <= Len(v) /\ \A k \in 1 .. n : k \in 1 .. p
    BY <1>1, <1>3
  <2>2. \A k \in 1 .. n : v[k] = t[k]
    BY <2>1, <1>2
  <2> QED BY <2>1, <2>2, <1>2, SameHead
<1> DEFINE x == SubSeq(t, 1, p)
<1>5. x \in Seq(Tok) /\ Len(x) = p /\ \A k \in 1 .. p : x[k] = t[k]
  BY HeadIs
<1> HIDE DEF x
<1>6. SubSeq(v, 1, p + Len(what)) = x \o what
  <2>1. Len(x) + Len(what) <= Len(v)
    BY <1>3, <1>5
  <2>2. \A k \in 1 .. Len(x) : v[k] = x[k]
    BY <1>2, <1>5
  <2>3. \A k \in 1 .. Len(what) : v[Len(x) + k] = what[k]
    BY <1>2, <1>5
  <2>4. SubSeq(v, 1, Len(x) + Len(what)) = x \o what
    BY <1>2, <1>5, <2>1, <2>2, <2>3, HeadJoin
  <2> QED BY <2>4, <1>5
<1> QED BY <1>2, <1>3, <1>4, <1>6 DEF v, x

LEMMA AddedIs ==
  ASSUME NEW v \in Seq(Tok), NEW x \in Seq(Tok), NEW y \in Seq(Tok), NEW u,
         u = Len(x) + Len(y), u <= Len(v), SubSeq(v, 1, u) = x \o y
  PROVE  SubSeq(v, Len(x) + 1, u) = y /\ SubSeq(v, 1, Len(x)) = x
<1> DEFINE lx == Len(x)
           ly == Len(y)
           c == x \o y
           b == SubSeq(v, lx + 1, u)
<1>1. lx \in Nat /\ ly \in Nat /\ u \in 0 .. Len(v) /\ u = lx + ly /\ Len(v) \in Nat
  OBVIOUS
<1>2. /\ c \in Seq(Tok) /\ Len(c) = lx + ly
      /\ \A k \in 1 .. lx : c[k] = x[k]
      /\ \A k \in 1 .. ly : c[lx + k] = y[k]
  BY TokensJoined
<1>3. /\ SubSeq(v, 1, u) \in Seq(Tok) /\ Len(SubSeq(v, 1, u)) = u
      /\ \A k \in 1 .. u : SubSeq(v, 1, u)[k] = v[k]
  BY <1>1, HeadIs
<1>4. SubSeq(v, 1, u) = c
  OBVIOUS
<1> HIDE DEF lx, ly, c
<1>5. /\ \A k \in 1 .. lx : v[k] = x[k]
      /\ \A k \in 1 .. ly : v[lx + k] = y[k]
  <2>1. \A k \in 1 .. u : c[k] = v[k]
    BY <1>3, <1>4
  <2>2. ASSUME NEW k \in 1 .. lx PROVE v[k] = x[k]
    <3>1. k \in 1 .. u
      BY <1>1
    <3> QED BY <3>1, <2>1, <1>2
  <2>3. ASSUME NEW k \in 1 .. ly PROVE v[lx + k] = y[k]
    <3>1. lx + k \in 1 .. u
      BY <1>1
    <3> QED BY <3>1, <2>1, <1>2
  <2> QED BY <2>2, <2>3
<1>6. b \in Seq(Tok) /\ Len(b) = ly /\ \A k \in 1 .. ly : b[k] = v[lx + k]
  <2>1. lx + ly <= Len(v)
    BY <1>1
  <2>2. /\ Piece(v, lx, ly) \in Seq(Tok) /\ Len(Piece(v, lx, ly)) = ly
        /\ \A k \in 1 .. ly : Piece(v, lx, ly)[k] = v[lx + k]
    BY <1>1, <2>1, PieceIs
  <2>3. Piece(v, lx, ly) = b
    BY <1>1 DEF Piece
  <2> HIDE DEF b
  <2> QED BY <2>2, <2>3
<1> HIDE DEF b
<1>7. b = y
  BY <1>5, <1>6, SameTokens DEF ly
<1>8. SubSeq(v, 1, lx) = x
  <2>1. lx \in 0 .. Len(v)
    BY <1>1
  <2>2. /\ SubSeq(v, 1, lx) \in Seq(Tok) /\ Len(SubSeq(v, 1, lx)) = lx
        /\ \A k \in 1 .. lx : SubSeq(v, 1, lx)[k] = v[k]
    BY <2>1, HeadIs
  <2>3. \A k \in 1 .. lx : SubSeq(v, 1, lx)[k] = x[k]
    BY <2>2, <1>5
  <2> QED BY <2>2, <2>3, SameTokens DEF lx
<1> QED BY <1>7, <1>8 DEF b, lx

LEMMA JsonBytes ==
  ASSUME NEW t \in Seq(Tok)
  PROVE  /\ Json(t)[1] = "Q" /\ Json(t)[Len(Body(t)) + 2] = "Q"
         /\ \A k \in 1 .. Len(Body(t)) : Json(t)[1 + k] = Body(t)[k]
<1> DEFINE b == Body(t)
           q == <<"Q">>
           h == q \o b
           n == Len(b)
           c == h \o q
<1>1. b \in Seq(Tok) /\ n \in Nat
  BY BodyBound
<1>2. q \in Seq(Tok) /\ Len(q) = 1 /\ q[1] = "Q"
  BY TokFacts
<1> HIDE DEF b, q
<1>3. /\ h \in Seq(Tok) /\ Len(h) = Len(q) + Len(b)
      /\ \A k \in 1 .. Len(q) : h[k] = q[k]
      /\ \A k \in 1 .. Len(b) : h[Len(q) + k] = b[k]
  BY <1>1, <1>2, TokensJoined, Zenon
<1>4. /\ h \in Seq(Tok) /\ Len(h) = 1 + n /\ h[1] = "Q"
      /\ \A k \in 1 .. n : h[1 + k] = b[k]
  <2> HIDE DEF h
  <2> QED BY <1>1, <1>2, <1>3
<1> HIDE DEF h
<1>5. /\ c \in Seq(Tok) /\ Len(c) = Len(h) + Len(q)
      /\ \A k \in 1 .. Len(h) : c[k] = h[k]
      /\ \A k \in 1 .. Len(q) : c[Len(h) + k] = q[k]
  BY <1>2, <1>4, TokensJoined, Zenon
<1>6. Json(t) = c
  BY DEF Json, b, c, h, q
<1> HIDE DEF c, n
<1>7. c[1] = "Q"
  BY <1>1, <1>4, <1>5
<1>8. c[n + 2] = "Q"
  <2>1. Len(h) + 1 = n + 2 /\ 1 \in 1 .. Len(q)
    BY <1>1, <1>2, <1>4
  <2> QED BY <2>1, <1>2, <1>5
<1>9. ASSUME NEW k \in 1 .. n PROVE c[1 + k] = b[k]
  <2>1. 1 + k \in 1 .. Len(h)
    BY <1>1, <1>4
  <2> QED BY <2>1, <1>4, <1>5
<1> QED BY <1>6, <1>7, <1>8, <1>9 DEF n, b

-----------------------------------------------------------------------------
(* The invariant of the writer *)

Early == {"emit", "sized", "invalid", "tail", "exact", "chunks"}
Stages == Early \cup {"chunk", "done"}

Substitute == IF "partial" \notin flags THEN <<>>
              ELSE IF "key" \in flags THEN <<"Q", "Q">> ELSE <<"null">>

\* Between two chunks: the opening quote and the characters before offset p.
ChunkAt(t, m, u, p) ==
    LET done == Piece(t, 0, p)
    IN  /\ p <= Len(t) /\ Valid(done)
        /\ u = Len(before) + 1 + Len(Body(done))
        /\ SubSeq(m, 1, u) = (before \o <<"Q">>) \o Body(done)

\* What was appended when the call ends with r.
DoneAt(t, m, u, r) ==
    /\ r \in {"ok", "utf8", "too_large"}
    /\ r = "ok" => Valid(t) /\ u = Len(before) + Len(Json(t)) /\ SubSeq(m, 1, u) = before \o Json(t)
    /\ r = "too_large" => u = Len(before)
    /\ r = "utf8" => u = Len(before) + Len(Substitute) /\ SubSeq(m, 1, u) = before \o Substitute

Laid(st, t, m, u, c, p, r) ==
    /\ st \in Stages /\ t \in Seq(Tok) /\ m \in Seq(Tok) /\ u \in Nat /\ c \in Nat /\ p \in Nat
    /\ Len(before) <= u /\ u <= Len(m) /\ Len(m) <= c
    /\ SubSeq(m, 1, Len(before)) = before
    /\ st \in Early => u = Len(before)
    /\ st = "chunk" => ChunkAt(t, m, u, p) /\ u + 1 <= c
    /\ st = "done" => DoneAt(t, m, u, r)

StringInv ==
    /\ before \in Seq(Tok) /\ sane \in BOOLEAN
    /\ sane => Valid(str)
    /\ stage = "invalid" => ~ sane /\ ~ Valid(str)
    /\ Laid(stage, str, mem, used, a, pos, result)

LEMMA BodyNext ==
  ASSUME flags' = flags, NEW t
  PROVE  (Body(t))' = Body(t)
BY DEF Body, Escaped

LEMMA LaidNext ==
  ASSUME flags' = flags, before' = before,
         Laid(stage', str', mem', used', a', pos', result')
  PROVE  (Laid(stage, str, mem, used, a, pos, result))'
<1>1. (Substitute)' = Substitute
  BY DEF Substitute
<1>2. (ChunkAt(str, mem, used, pos))' = ChunkAt(str', mem', used', pos')
  BY DEF ChunkAt, Piece, Body, Escaped, Valid, Stray, Starts, WholeAt
<1>3. (Json(str))' = Json(str')
  BY DEF Json, Body, Escaped
<1>4. (DoneAt(str, mem, used, result))' = DoneAt(str', mem', used', result')
  BY <1>1, <1>3 DEF DoneAt, Valid, Stray, Starts, WholeAt
<1> QED BY <1>2, <1>4 DEF Laid

LEMMA Alloc ==
  ASSUME used \in Nat, a \in Nat, NEW n \in Nat
  PROVE  /\ smart_str_alloc(n) \in Nat /\ smart_str_alloc(n) >= a
         /\ smart_str_alloc(n) >= used + n
BY DEF smart_str_alloc

LEMMA InvTypes ==
  ASSUME StringInv
  PROVE  /\ stage \in Stages /\ str \in Seq(Tok) /\ mem \in Seq(Tok) /\ before \in Seq(Tok)
         /\ used \in Nat /\ a \in Nat /\ pos \in Nat /\ Len(before) \in Nat /\ Len(mem) \in Nat
         /\ Len(before) <= used /\ used <= Len(mem) /\ Len(mem) <= a /\ used <= a
         /\ SubSeq(mem, 1, Len(before)) = before
         /\ stage \in Early => used = Len(before)
         /\ len \in Nat /\ len = Len(str)
<1>1. /\ stage \in Stages /\ str \in Seq(Tok) /\ mem \in Seq(Tok) /\ before \in Seq(Tok)
      /\ used \in Nat /\ a \in Nat /\ pos \in Nat
      /\ Len(before) <= used /\ used <= Len(mem) /\ Len(mem) <= a
      /\ SubSeq(mem, 1, Len(before)) = before
      /\ stage \in Early => used = Len(before)
  BY Zenon DEF StringInv, Laid
<1>2. Len(before) \in Nat /\ Len(mem) \in Nat /\ Len(str) \in Nat
  BY <1>1, TokenLen, Zenon
<1>3. len \in Nat /\ len = Len(str)
  BY <1>2, Zenon DEF len
<1>4. used <= a
  <2> DEFINE l == Len(mem)
  <2>1. used \in Nat /\ l \in Nat /\ a \in Nat /\ used <= l /\ l <= a
    BY <1>1, <1>2, Zenon
  <2> HIDE DEF l
  <2> QED BY <2>1
<1> QED BY <1>1, <1>2, <1>3, <1>4, Zenon

\* Going on, or giving up, with nothing appended.
LEMMA LaidMoves ==
  ASSUME StringInv, stage \in Early, NEW m \in Seq(Tok), NEW c \in Nat,
         SubSeq(m, 1, Len(before)) = before, used <= Len(m), Len(m) <= c
  PROVE  /\ \A l \in Early : Laid(l, str, m, used, c, pos, result)
         /\ Laid("done", str, m, used, c, pos, "too_large")
<1>1. used = Len(before) /\ str \in Seq(Tok) /\ used \in Nat /\ pos \in Nat
  BY InvTypes
<1>2. \A l \in Early : l \in Stages /\ l # "chunk" /\ l # "done"
  BY DEF Early, Stages
<1>3. "done" \in Stages /\ "done" \notin Early /\ "done" # "chunk"
  BY DEF Early, Stages
<1>4. DoneAt(str, m, used, "too_large")
  BY <1>1 DEF DoneAt
<1> QED BY <1>1, <1>2, <1>3, <1>4 DEF Laid

LEMMA MemMoves ==
  ASSUME StringInv, stage \in Early, NEW c \in Nat, c >= a
  PROVE  /\ \A l \in Early : Laid(l, str, mem, used, c, pos, result)
         /\ Laid("done", str, mem, used, c, pos, "too_large")
<1>1. /\ mem \in Seq(Tok) /\ SubSeq(mem, 1, Len(before)) = before
      /\ used <= Len(mem) /\ Len(mem) <= a /\ a \in Nat /\ Len(mem) \in Nat
  BY InvTypes
<1>2. Len(mem) <= c
  BY <1>1
<1> QED BY <1>1, <1>2, LaidMoves

\* The string appended.
LEMMA LaidWritten ==
  ASSUME StringInv, stage \in Early \cup {"chunk"}, Valid(str), NEW m \in Seq(Tok), NEW c \in Nat, NEW u,
         u = Len(before) + Len(Json(str)), SubSeq(m, 1, u) = before \o Json(str),
         u <= Len(m), Len(m) <= c
  PROVE  Laid("done", str, m, u, c, pos, "ok")
<1>1. str \in Seq(Tok) /\ pos \in Nat /\ before \in Seq(Tok) /\ Len(before) \in Nat
  BY InvTypes
<1>2. Json(str) \in Seq(Tok) /\ Len(Json(str)) \in Nat
  BY <1>1, JsonIs
<1>3. SubSeq(m, 1, Len(before)) = before
  BY <1>1, <1>2, AddedIs
<1>4. u \in Nat /\ Len(before) <= u
  BY <1>1, <1>2
<1>5. "done" \in Stages /\ "done" \notin Early /\ "done" # "chunk"
  BY DEF Early, Stages
<1>6. DoneAt(str, m, u, "ok")
  BY DEF DoneAt
<1> QED BY <1>1, <1>3, <1>4, <1>5, <1>6, Zenon DEF Laid

\* ... by one store at the length.
LEMMA LaidStored ==
  ASSUME StringInv, stage \in Early, Valid(str), NEW m \in Seq(Tok), NEW c \in Nat,
         SubSeq(m, 1, Len(before)) = before, used <= Len(m), Len(m) <= c,
         used + Len(Json(str)) <= c
  PROVE  Laid("done", str, Store(m, used, Json(str)), used + Len(Json(str)), c, pos, "ok")
<1>1. used = Len(before) /\ used \in Nat /\ str \in Seq(Tok)
  BY InvTypes
<1> DEFINE j == Json(str)
           v == Store(m, used, j)
           u == used + Len(j)
<1>2. j \in Seq(Tok) /\ Len(j) \in Nat
  BY <1>1, JsonIs
<1>3. used \in 0 .. Len(m) /\ Len(m) \in Nat
  BY <1>1
<1> HIDE DEF j
<1>4. /\ v \in Seq(Tok) /\ Len(v) = Most(Len(m), u) /\ Len(v) >= u
      /\ SubSeq(v, 1, u) = SubSeq(m, 1, used) \o j
  BY <1>2, <1>3, StoreLays, Zenon
<1>5. SubSeq(v, 1, u) = before \o j
  BY <1>1, <1>4
<1> HIDE DEF v, u
<1>6. Len(v) <= c
  BY <1>2, <1>3, <1>4 DEF Most, u, j
<1>7. u = Len(before) + Len(Json(str)) /\ u <= Len(v)
  <2>1. u \in Nat /\ Len(v) \in Nat
    BY <1>1, <1>2, <1>4 DEF u
  <2> QED BY <2>1, <1>1, <1>4 DEF u, j
<1>8. Laid("done", str, v, u, c, pos, "ok")
  BY <1>4, <1>5, <1>6, <1>7, LaidWritten DEF j
<1> QED BY <1>8 DEF v, u, j

-----------------------------------------------------------------------------
(* The steps of the writer *)

LEMMA InvNext ==
  ASSUME StringInv, UNCHANGED call, UNCHANGED <<str, sane>>,
         stage' = "invalid" => ~ Valid(str),
         Laid(stage', str, mem', used', a', pos', result')
  PROVE  StringInv'
<1>1. flags' = flags /\ before' = before
  BY DEF call
<1>2. Laid(stage', str', mem', used', a', pos', result')
  OBVIOUS
<1>3. (Laid(stage, str, mem, used, a, pos, result))'
  BY <1>1, <1>2, LaidNext
<1>4. (Valid(str))' <=> Valid(str)
  BY DEF Valid, Stray, Starts, WholeAt
<1>5. before \in Seq(Tok) /\ sane \in BOOLEAN /\ (sane => Valid(str))
  BY DEF StringInv
<1> QED BY <1>1, <1>3, <1>4, <1>5 DEF StringInv

LEMMA GotoKeeps ==
  ASSUME StringInv, stage \in Early, NEW l \in Early \ {"invalid"}, Goto(l)
  PROVE  StringInv'
<1>1. UNCHANGED call /\ UNCHANGED <<str, sane>> /\ stage' = l
      /\ mem' = mem /\ used' = used /\ a' = a /\ pos' = pos /\ result' = result
  BY DEF Goto
<1>2. a \in Nat /\ a >= a
  BY InvTypes
<1>3. Laid(stage', str, mem', used', a', pos', result')
  BY <1>1, <1>2, MemMoves
<1> QED BY <1>1, <1>3, InvNext

LEMMA TooLargeKeeps ==
  ASSUME StringInv, stage \in Early, TooLarge
  PROVE  StringInv'
<1>1. UNCHANGED call /\ UNCHANGED <<str, sane>> /\ stage' = "done" /\ result' = "too_large"
      /\ mem' = mem /\ used' = used /\ a' = a /\ pos' = pos
  BY DEF TooLarge, Finish
<1>2. a \in Nat /\ a >= a
  BY InvTypes
<1>3. Laid(stage', str, mem', used', a', pos', result')
  BY <1>1, <1>2, MemMoves
<1> QED BY <1>1, <1>3, InvNext

LEMMA InvalidKeeps ==
  ASSUME StringInv, stage \in Early, ~ Valid(str), NEW n \in Nat, Invalid, a' = smart_str_alloc(n)
  PROVE  StringInv'
<1>1. UNCHANGED call /\ UNCHANGED <<str, sane>> /\ stage' = "invalid" /\ result' = result
      /\ mem' = mem /\ used' = used /\ pos' = pos
  BY DEF Invalid
<1>2. a' \in Nat /\ a' >= a
  BY InvTypes, Alloc
<1>3. "invalid" \in Early
  BY DEF Early
<1>4. Laid(stage', str, mem', used', a', pos', result')
  BY <1>1, <1>2, <1>3, MemMoves
<1> QED BY <1>1, <1>4, InvNext

LEMMA AppendedKeeps ==
  ASSUME StringInv, stage \in Early, Valid(str), NEW what, what = Json(str),
         NEW n \in Nat, Len(Json(str)) <= n, Appended(what, n)
  PROVE  StringInv'
<1>1. UNCHANGED call /\ UNCHANGED <<str, sane>> /\ stage' = "done" /\ result' = "ok"
      /\ mem' = Store(mem, used, Json(str)) /\ used' = used + Len(Json(str)) /\ pos' = pos
      /\ a' = smart_str_alloc(n)
  BY DEF Appended, Finish
<1>2. a' \in Nat /\ a' >= a /\ a' >= used + n
  BY <1>1, InvTypes, Alloc
<1>3. /\ mem \in Seq(Tok) /\ SubSeq(mem, 1, Len(before)) = before
      /\ used <= Len(mem) /\ Len(mem) <= a /\ a \in Nat /\ Len(mem) \in Nat /\ used \in Nat
      /\ str \in Seq(Tok)
  BY InvTypes
<1>4. Len(Json(str)) \in Nat
  BY <1>3, JsonIs
<1>5. Len(mem) <= a' /\ used + Len(Json(str)) <= a'
  BY <1>2, <1>3, <1>4
<1>6. Laid(stage', str, mem', used', a', pos', result')
  BY <1>1, <1>2, <1>3, <1>5, LaidStored
<1> QED BY <1>1, <1>6, InvNext

\* The library never writes more than six bytes for one, and two quotes.
LEMMA JsonBound ==
  ASSUME NEW t \in Seq(Tok)
  PROVE  /\ Len(Json(t)) \in Nat /\ Len(Json(t)) <= Len(t) * 6 + 2
         /\ Len(t) * 6 + 2 \in Nat
<1> DEFINE b == Len(Body(t))
           n == Len(t)
           j == Len(Json(t))
<1>1. b \in Nat /\ n \in Nat /\ b <= 6 * n /\ j = b + 2
  BY BodyBound, JsonIs
<1> HIDE DEF b, n, j
<1>2. j \in Nat /\ j <= n * 6 + 2 /\ n * 6 + 2 \in Nat
  BY <1>1
<1> QED BY <1>2 DEF b, n, j

LEMMA EmitKeeps ==
  ASSUME StringInv, EmitSized \/ EmitOnePass
  PROVE  StringInv'
<1>1. "emit" \in Early /\ "sized" \in Early \ {"invalid"}
  BY DEF Early
<1>2. CASE EmitSized
  <2>1. stage = "emit" /\ Goto("sized")
    BY <1>2 DEF EmitSized
  <2> QED BY <1>1, <2>1, GotoKeeps
<1>3. CASE EmitOnePass
  <2>1. stage = "emit"
    BY <1>3 DEF EmitOnePass
  <2>2. /\ len * 6 + 2 \in Nat /\ Len(Json(str)) <= len * 6 + 2
    BY InvTypes, JsonBound DEF len
  <2>3. \/ TooLarge
        \/ Valid(str) /\ Appended(Json(str), len * 6 + 2)
        \/ ~ Valid(str) /\ Invalid /\ a' = smart_str_alloc(len * 6 + 2)
    BY <1>3 DEF EmitOnePass
  <2>4. CASE TooLarge
    BY <2>1, <2>4, <1>1, TooLargeKeeps
  <2>5. CASE Valid(str) /\ Appended(Json(str), len * 6 + 2)
    BY <2>1, <2>2, <2>5, <1>1, AppendedKeeps
  <2>6. CASE ~ Valid(str) /\ Invalid /\ a' = smart_str_alloc(len * 6 + 2)
    BY <2>1, <2>2, <2>6, <1>1, InvalidKeeps
  <2> QED BY <2>3, <2>4, <2>5, <2>6
<1> QED BY <1>2, <1>3

LEMMA CopyableIs ==
  ASSUME str \in Seq(Tok), copyable_ascii
  PROVE  Valid(str) /\ <<"Q">> \o str \o <<"Q">> = Json(str) /\ Len(Json(str)) = len + 2
<1>1. \A p \in 0 .. Len(str) - 1 : ~ NeedsEscape(ByteOf(str, p))
  BY PrefixIs
<1>2. Valid(str) /\ Body(str) = str
  BY <1>1, CleanIs
<1> QED BY <1>2, JsonIs DEF Json, len

LEMMA LargeKeeps ==
  ASSUME StringInv, Large
  PROVE  StringInv'
<1>1. stage = "sized" /\ stage \in Early
  BY DEF Large, Early
<1>2. {"exact", "tail", "chunks"} \subseteq Early \ {"invalid"}
  BY DEF Early
<1>3. \/ TooLarge
      \/ copyable_ascii /\ Appended(<<"Q">> \o str \o <<"Q">>, len + 2)
      \/ Goto("exact") \/ Goto("tail") \/ Goto("chunks")
  BY DEF Large
<1>4. CASE copyable_ascii /\ Appended(<<"Q">> \o str \o <<"Q">>, len + 2)
  <2>1. Valid(str) /\ <<"Q">> \o str \o <<"Q">> = Json(str) /\ Len(Json(str)) = len + 2
    BY <1>4, InvTypes, CopyableIs
  <2>2. len + 2 \in Nat /\ Len(Json(str)) <= len + 2
    BY <2>1, InvTypes
  <2> QED BY <1>1, <1>4, <2>1, <2>2, AppendedKeeps
<1> QED BY <1>1, <1>2, <1>3, <1>4, TooLargeKeeps, GotoKeeps

\* What the clean prefix of a string is worth.
LEMMA CleanPrefix ==
  ASSUME str \in Seq(Tok), NEW n \in 0 .. len, \A p \in 0 .. n - 1 : ~ NeedsEscape(ByteOf(str, p))
  PROVE  LET x == Piece(str, 0, n)
             y == Piece(str, n, len - n)
         IN  /\ x \in Seq(Tok) /\ Len(x) = n /\ y \in Seq(Tok) /\ Len(y) = len - n
             /\ Valid(str) <=> Valid(y)
             /\ Body(str) = x \o Body(y)
<1> DEFINE x == Piece(str, 0, n)
           y == Piece(str, n, len - n)
<1>1. len \in Nat /\ len = Len(str) /\ n \in Nat /\ len - n \in Nat /\ n + (len - n) = Len(str)
      /\ n + (len - n) <= Len(str) /\ n \in 0 .. Len(str) /\ 0 \in Nat /\ 0 + n <= Len(str)
  BY DEF len
<1>2. /\ x \in Seq(Tok) /\ Len(x) = n /\ y \in Seq(Tok) /\ Len(y) = len - n
      /\ Piece(str, 0, Len(str)) = str
  <2> DEFINE m == len - n
  <2>1. m \in Nat /\ n + m <= Len(str) /\ n \in Nat
    BY <1>1
  <2> HIDE DEF m
  <2>2. /\ Piece(str, 0, n) \in Seq(Tok) /\ Len(Piece(str, 0, n)) = n
        /\ Piece(str, n, m) \in Seq(Tok) /\ Len(Piece(str, n, m)) = m
        /\ Piece(str, 0, Len(str)) = str
    BY <2>1, CutTokens
  <2> QED BY <2>2 DEF m
<1>3. \A p \in 0 .. n - 1 : ByteOf(x, p) = ByteOf(str, p)
  <2>1. \A p \in 0 .. n - 1 : ByteOf(x, p) = ByteOf(str, 0 + p)
    BY <1>1, PieceBytes, Zenon
  <2>2. \A p \in 0 .. n - 1 : 0 + p = p
    BY <1>1
  <2> QED BY <2>1, <2>2, Zenon
<1>4. \A p \in 0 .. Len(x) - 1 : ~ NeedsEscape(ByteOf(x, p))
  BY <1>2, <1>3, Zenon
<1>5. Valid(x) /\ Body(x) = x
  BY <1>2, <1>4, CleanIs, Zenon
<1>6. Parted(str, n)
  BY <1>1, <1>5, PieceParted, Zenon
<1>7. /\ Valid(Piece(str, 0, n + (len - n))) <=> Valid(x) /\ Valid(y)
      /\ Body(Piece(str, 0, n + (len - n))) = Body(x) \o Body(y)
  BY <1>1, <1>6, PieceBody, Zenon
<1> QED BY <1>1, <1>2, <1>5, <1>7, Zenon

LEMMA TailJson ==
  ASSUME NEW t \in Seq(Tok)
  PROVE  Tail(Json(t)) = Body(t) \o <<"Q">> /\ Tail(Json(t)) \in Seq(Tok)
         /\ Len(Tail(Json(t))) = Len(Json(t)) - 1
<1> DEFINE j == Json(t)
           b == Body(t)
           q == <<"Q">>
           v == Tail(j)
           c == b \o q
           n == Len(b)
<1>1. /\ j \in Seq(Tok) /\ Len(j) = n + 2 /\ n \in Nat /\ j[n + 2] = "Q"
      /\ \A k \in 1 .. n : j[1 + k] = b[k]
  BY JsonIs, JsonBytes
<1>2. b \in Seq(Tok) /\ q \in Seq(Tok) /\ Len(q) = 1 /\ q[1] = "Q"
  BY BodyBound, TokFacts
<1> HIDE DEF b, q, j
<1>3. v \in Seq(Tok) /\ Len(v) = n + 1 /\ \A k \in 1 .. n + 1 : v[k] = j[k + 1]
  <2> HIDE DEF n
  <2> QED BY <1>1
<1>4. /\ c \in Seq(Tok) /\ Len(c) = Len(b) + Len(q)
      /\ \A k \in 1 .. Len(b) : c[k] = b[k]
      /\ \A k \in 1 .. Len(q) : c[Len(b) + k] = q[k]
  BY <1>2, TokensJoined, Zenon
<1>5. Len(c) = n + 1 /\ (\A k \in 1 .. n : c[k] = b[k]) /\ c[n + 1] = "Q"
  <2>1. 1 \in 1 .. Len(q)
    BY <1>2
  <2> HIDE DEF c
  <2> QED BY <2>1, <1>2, <1>4
<1> HIDE DEF v, c, n
<1>6. ASSUME NEW k \in 1 .. n + 1 PROVE v[k] = c[k]
  <2>1. CASE k \in 1 .. n
    BY <2>1, <1>1, <1>3, <1>5
  <2>2. CASE k = n + 1
    BY <2>2, <1>1, <1>3, <1>5
  <2> QED BY <2>1, <2>2, <1>1
<1>7. v = c
  BY <1>3, <1>4, <1>5, <1>6, SameTokens
<1> QED BY <1>1, <1>3, <1>7 DEF v, c, b, q, j, n

\* The two ways to put a string together from a clean prefix and its tail.
LEMMA Associates ==
  ASSUME NEW x \in Seq(Tok), NEW y \in Seq(Tok), NEW z \in Seq(Tok)
  PROVE  (x \o y) \o z = x \o (y \o z)
BY TokensAssociate

Regroups(x, q, p, b) == (x \o (q \o p)) \o (b \o q) = x \o ((q \o (p \o b)) \o q)

LEMMA Regroup ==
  ASSUME NEW x \in Seq(Tok), NEW q \in Seq(Tok), NEW p \in Seq(Tok), NEW b \in Seq(Tok)
  PROVE  Regroups(x, q, p, b)
<1> DEFINE qp == q \o p
           bq == b \o q
           pb == p \o b
<1>1. qp \in Seq(Tok) /\ bq \in Seq(Tok) /\ pb \in Seq(Tok)
  BY TokensJoin
<1>2. qp \o b = q \o pb
  BY Associates
<1>3. qp \o bq = (qp \o b) \o q
  <2> HIDE DEF qp
  <2> QED BY <1>1, Associates
<1> HIDE DEF qp, bq, pb
<1>4. (x \o qp) \o bq = x \o (qp \o bq)
  BY <1>1, TokensAssociate, Zenon
<1>5. (x \o qp) \o bq = x \o ((q \o pb) \o q)
  BY <1>2, <1>3, <1>4, Zenon
<1> QED BY <1>5 DEF qp, bq, pb, Regroups

LEMMA HeadPiece ==
  ASSUME NEW t \in Seq(Tok), NEW n \in Nat, 0 + n <= Len(t)
  PROVE  Piece(t, 0, n) \in Seq(Tok) /\ Len(Piece(t, 0, n)) = n
BY PieceIs

LEMMA ExactKeeps ==
  ASSUME StringInv, WriteExact
  PROVE  StringInv'
<1> DEFINE e == fastjson_json_string_size
           x == Piece(str, 0, FirstDirty)
           what == <<"Q">> \o x
           copied == Store(mem, used, what)
           room == smart_str_alloc(len + 2)
           wide == smart_str_alloc(e.out_len)
<1>1. stage = "exact" /\ stage \in Early /\ "invalid" \in Early
  BY DEF WriteExact, Early
<1>2. /\ str \in Seq(Tok) /\ mem \in Seq(Tok) /\ used \in Nat /\ a \in Nat /\ pos \in Nat
      /\ used = Len(before) /\ Len(before) \in Nat /\ Len(mem) \in Nat
      /\ used <= Len(mem) /\ Len(mem) <= a /\ SubSeq(mem, 1, Len(before)) = before
      /\ len \in Nat /\ len = Len(str)
  BY <1>1, InvTypes, Zenon
<1>3. /\ e.status \in {"ok", "utf8", "too_large"} /\ e.out_len \in Nat
      /\ e.status = "ok" => Valid(str) /\ e.out_len = Len(Json(str))
      /\ e.status = "utf8" => ~ Valid(str)
  BY <1>2, SizeIsRight, Zenon
<1> HIDE DEF e
<1>4. FirstDirty \in 0 .. len
  BY <1>2, FirstDirtyIs
<1>5. x \in Seq(Tok) /\ Len(x) = FirstDirty
  <2> DEFINE n == FirstDirty
  <2>1. n \in Nat /\ 0 \in Nat /\ 0 + n <= Len(str)
    BY <1>2, <1>4
  <2> HIDE DEF n
  <2>2. Piece(str, 0, n) \in Seq(Tok) /\ Len(Piece(str, 0, n)) = n
    BY <2>1, <1>2, HeadPiece
  <2> QED BY <2>2 DEF n
<1> HIDE DEF x
<1>6. what \in Seq(Tok) /\ Len(what) = 1 + FirstDirty /\ Len(what) \in Nat
  <2> DEFINE q == <<"Q">>
  <2>1. q \in Seq(Tok) /\ Len(q) = 1
    BY TokFacts
  <2> HIDE DEF q
  <2>2. q \o x \in Seq(Tok) /\ Len(q \o x) = 1 + FirstDirty
    BY <2>1, <1>5, TokensJoin
  <2> QED BY <2>2, <1>2, <1>4 DEF q
<1> HIDE DEF what
<1>7. /\ copied \in Seq(Tok) /\ Len(copied) = Most(Len(mem), used + Len(what))
      /\ Len(copied) >= Len(mem) /\ \A n \in 0 .. used : SubSeq(copied, 1, n) = SubSeq(mem, 1, n)
  <2>1. used \in 0 .. Len(mem)
    BY <1>2
  <2> QED BY <2>1, <1>2, <1>6, StoreLays, Zenon
<1>8. SubSeq(copied, 1, Len(before)) = before
  <2>1. Len(before) \in 0 .. used
    BY <1>2
  <2> QED BY <2>1, <1>2, <1>7, Zenon
<1> HIDE DEF copied
<1>9. room \in Nat /\ room >= a /\ room >= used + (len + 2)
      /\ wide \in Nat /\ wide >= a /\ wide >= used + e.out_len
  <2>1. len + 2 \in Nat
    BY <1>2
  <2> QED BY <2>1, <1>2, <1>3, Alloc
<1> HIDE DEF room, wide
<1>10. Len(copied) \in Nat /\ used <= Len(copied) /\ Len(copied) <= room
  <2> DEFINE lc == Len(copied)
             lw == Len(what)
             lm == Len(mem)
             fd == FirstDirty
  <2>1. lw = 1 + fd /\ fd \in 0 .. len /\ lm \in Nat /\ used <= lm /\ lm <= a /\ lc = Most(lm, used + lw)
    BY <1>2, <1>4, <1>6, <1>7
  <2>0. /\ used \in Nat /\ a \in Nat /\ len \in Nat /\ room \in Nat /\ room >= a
        /\ room >= used + (len + 2)
    BY <1>2, <1>9
  <2> HIDE DEF lc, lw, lm, fd
  <2>3. (lc = lm \/ lc = used + lw) /\ lc >= lm
    BY <2>0, <2>1 DEF Most
  <2>2. lc \in Nat /\ used <= lc /\ lc <= room
    BY <2>0, <2>1, <2>3
  <2> QED BY <2>2 DEF lc
<1>11. UNCHANGED call /\ UNCHANGED <<str, sane>> /\ pos' = pos
  BY Zenon DEF WriteExact, Finish
<1>12. \/ /\ e.status = "utf8" /\ mem' = copied /\ a' = room /\ used' = used
          /\ stage' = "invalid" /\ result' = result
       \/ /\ mem' = copied /\ a' = room /\ used' = used
          /\ stage' = "done" /\ result' = "too_large"
       \/ /\ e.status = "ok" /\ mem' = Store(copied, used, Json(str)) /\ used' = used + Len(Json(str))
          /\ a' = Most(room, wide) /\ stage' = "done" /\ result' = "ok"
  BY Zenon DEF WriteExact, Finish, e, x, what, copied, room, wide
<1>13. CASE /\ e.status = "utf8" /\ mem' = copied /\ a' = room /\ used' = used
            /\ stage' = "invalid" /\ result' = result
  <2>1. Laid("invalid", str, copied, used, room, pos, result)
    BY <1>1, <1>7, <1>8, <1>9, <1>10, LaidMoves
  <2> QED BY <2>1, <1>3, <1>11, <1>13, InvNext
<1>14. CASE /\ mem' = copied /\ a' = room /\ used' = used
            /\ stage' = "done" /\ result' = "too_large"
  <2>1. Laid("done", str, copied, used, room, pos, "too_large")
    BY <1>1, <1>7, <1>8, <1>9, <1>10, LaidMoves
  <2> QED BY <2>1, <1>11, <1>14, InvNext
<1>15. CASE /\ e.status = "ok" /\ mem' = Store(copied, used, Json(str)) /\ used' = used + Len(Json(str))
            /\ a' = Most(room, wide) /\ stage' = "done" /\ result' = "ok"
  <2>1. Valid(str) /\ e.out_len = Len(Json(str))
    BY <1>3, <1>15
  <2>2. a' \in Nat /\ Len(copied) <= a' /\ used + Len(Json(str)) <= a'
    BY <2>1, <1>2, <1>3, <1>9, <1>10, <1>15 DEF Most
  <2>3. Laid("done", str, Store(copied, used, Json(str)), used + Len(Json(str)), a', pos, "ok")
    BY <2>1, <2>2, <1>1, <1>7, <1>8, <1>10, LaidStored
  <2> QED BY <2>3, <1>11, <1>15, InvNext
<1> QED BY <1>12, <1>13, <1>14, <1>15

LEMMA QuoteIs == <<"Q">> \in Seq(Tok) /\ Len(<<"Q">>) = 1
BY TokFacts

\* The buffer m, at least up to its first p bytes, which are x, in a capacity c.
Holds(m, x, p, c) ==
    /\ m \in Seq(Tok) /\ x \in Seq(Tok) /\ p = Len(x) /\ c \in Nat
    /\ p <= Len(m) /\ Len(m) <= c /\ SubSeq(m, 1, p) = x

\* A store that starts where the text so far ends goes on with it.
LEMMA StoreExtends ==
  ASSUME NEW t, NEW x, NEW p, NEW c, Holds(t, x, p, c),
         NEW what \in Seq(Tok), p + Len(what) <= c
  PROVE  /\ Holds(Store(t, p, what), x, p, c)
         /\ Holds(Store(t, p, what), x \o what, p + Len(what), c)
<1>0. /\ t \in Seq(Tok) /\ x \in Seq(Tok) /\ p = Len(x) /\ c \in Nat
      /\ p <= Len(t) /\ Len(t) <= c /\ SubSeq(t, 1, p) = x
  BY DEF Holds
<1> DEFINE v == Store(t, p, what)
           now == Len(what)
           lt == Len(t)
           lv == Len(v)
<1>1. p \in Nat /\ now \in Nat /\ lt \in Nat /\ p <= lt /\ p \in 0 .. lt /\ p \in 0 .. p
      /\ lt <= c /\ p + now <= c
  BY <1>0
<1>2. /\ v \in Seq(Tok) /\ lv = Most(lt, p + now) /\ lv >= lt /\ lv >= p + now
      /\ SubSeq(v, 1, p) = SubSeq(t, 1, p)
      /\ SubSeq(v, 1, p + now) = SubSeq(t, 1, p) \o what
  BY <1>0, <1>1, StoreLays, Zenon
<1> HIDE DEF now, lt, lv
<1>3. lv \in Nat /\ lv <= c
  <2>1. lv = lt \/ lv = p + now
    BY <1>2 DEF Most
  <2>2. p + now \in Nat /\ p + now <= c /\ lt \in Nat /\ lt <= c
    BY <1>1
  <2> QED BY <2>1, <2>2
<1>4. p + now <= lv /\ p <= lv
  BY <1>1, <1>2, <1>3
<1>5. x \o what \in Seq(Tok) /\ Len(x \o what) = p + now
  BY <1>0, TokensJoin DEF now
<1>6. v \in Seq(Tok) /\ SubSeq(v, 1, p) = x /\ SubSeq(v, 1, p + now) = x \o what
  BY <1>0, <1>2
<1> HIDE DEF v
<1>7. Holds(v, x, p, c) /\ Holds(v, x \o what, p + now, c)
  BY <1>0, <1>3, <1>4, <1>5, <1>6 DEF Holds, lv
<1> QED BY <1>7 DEF now, v

LEMMA TailKeeps ==
  ASSUME StringInv, WriteTail
  PROVE  StringInv'
<1> DEFINE n == prefix_len
           z == len - n
           y == Piece(str, n, z)
           x == Piece(str, 0, n)
           room == n + z * 6 + 3
           q == <<"Q">>
           b == Body(y)
           at == used + n + 1
           m1 == Store(mem, used, q \o x)
           m2 == Store(m1, at, Json(y))
           m3 == Store(m2, at, Tail(Json(y)))
           u == at + Len(Json(y)) - 1
<1>1. stage = "tail" /\ stage \in Early /\ stage \in Early \cup {"chunk"}
  BY DEF WriteTail, Early
<1>2. \/ TooLarge
      \/ ~ Valid(y) /\ Invalid /\ a' = smart_str_alloc(room)
      \/ /\ Valid(y) /\ mem' = m3 /\ used' = u /\ a' = smart_str_alloc(room)
         /\ Finish("ok") /\ UNCHANGED <<call, str, sane, pos>>
  BY Zenon DEF WriteTail
<1>3. /\ str \in Seq(Tok) /\ mem \in Seq(Tok) /\ used \in Nat /\ a \in Nat /\ pos \in Nat
      /\ before \in Seq(Tok) /\ used = Len(before) /\ Len(before) \in Nat /\ Len(mem) \in Nat
      /\ used <= Len(mem) /\ Len(mem) <= a /\ SubSeq(mem, 1, Len(before)) = before
      /\ len \in Nat /\ len = Len(str)
  BY <1>1, InvTypes, Zenon
<1>4. n \in 0 .. len /\ \A p \in 0 .. n - 1 : ~ NeedsEscape(ByteOf(str, p))
  BY <1>3, PrefixIs
<1> HIDE DEF n
<1>5. /\ x \in Seq(Tok) /\ Len(x) = n /\ y \in Seq(Tok) /\ Len(y) = z
      /\ (Valid(str) <=> Valid(y)) /\ Body(str) = x \o b
  BY <1>3, <1>4, CleanPrefix
<1>6. n \in Nat /\ z \in Nat /\ room \in Nat
  BY <1>3, <1>4
<1>7. /\ Json(y) \in Seq(Tok) /\ Len(Json(y)) \in Nat /\ Len(Json(y)) = Len(b) + 2
      /\ Len(b) \in Nat /\ Len(Json(y)) <= z * 6 + 2
      /\ Tail(Json(y)) \in Seq(Tok) /\ Tail(Json(y)) = b \o q
      /\ Len(Tail(Json(y))) = Len(Json(y)) - 1
  <2>1. /\ Json(y) \in Seq(Tok) /\ Len(Json(y)) = Len(b) + 2 /\ Len(b) \in Nat
    BY <1>5, JsonIs, Zenon
  <2>2. Len(Json(y)) \in Nat /\ Len(Json(y)) <= Len(y) * 6 + 2
    BY <1>5, JsonBound, Zenon
  <2>3. /\ Tail(Json(y)) \in Seq(Tok) /\ Tail(Json(y)) = b \o q
        /\ Len(Tail(Json(y))) = Len(Json(y)) - 1
    BY <1>5, TailJson, Zenon
  <2> QED BY <2>1, <2>2, <2>3, <1>5, Zenon
<1>8. b \in Seq(Tok)
  BY <1>5, BodyBound
<1>9. smart_str_alloc(room) \in Nat /\ smart_str_alloc(room) >= a
      /\ smart_str_alloc(room) >= used + room
  BY <1>3, <1>6, Alloc
<1>10. CASE TooLarge
  BY <1>1, <1>10, TooLargeKeeps
<1>11. CASE ~ Valid(y) /\ Invalid /\ a' = smart_str_alloc(room)
  BY <1>1, <1>5, <1>6, <1>11, InvalidKeeps
<1>12. CASE /\ Valid(y) /\ mem' = m3 /\ used' = u /\ a' = smart_str_alloc(room)
            /\ Finish("ok") /\ UNCHANGED <<call, str, sane, pos>>
  <2> DEFINE c == smart_str_alloc(room)
             qx == q \o x
             j == Json(y)
             tj == Tail(Json(y))
  <2>1. q \in Seq(Tok) /\ Len(q) = 1
    BY QuoteIs
  <2>2. qx \in Seq(Tok) /\ Len(qx) = 1 + n
    <3> HIDE DEF q, x
    <3> QED BY <2>1, <1>5, TokensJoin
  <2>3. /\ c \in Nat /\ Len(mem) <= c /\ used + Len(qx) = at /\ at \in Nat /\ at <= c
        /\ at + Len(j) <= c /\ at + Len(tj) <= c /\ u = at + Len(tj)
    <3> DEFINE lm == Len(mem)
               lj == Len(j)
               lt == Len(tj)
               lq == Len(qx)
    <3>1. lm \in Nat /\ lm <= a /\ lj \in Nat /\ lj <= z * 6 + 2 /\ lt = lj - 1 /\ lq = 1 + n
      BY <1>3, <1>7, <2>2
    <3>2. c \in Nat /\ c >= a /\ c >= used + room
      BY <1>9
    <3>3. u = at + lj - 1
      OBVIOUS
    <3> HIDE DEF lm, lj, lt, lq, c, z, u
    <3>4. /\ lm <= c /\ used + lq = at /\ at \in Nat /\ at <= c
          /\ at + lj <= c /\ at + lt <= c /\ u = at + lt
      BY <3>1, <3>2, <3>3, <1>3, <1>6
    <3> QED BY <3>2, <3>4 DEF lm, lj, lt, lq
  <2> HIDE DEF c, q, x, y, u, b, j, tj, qx
  <2>4. Holds(m1, before \o qx, at, c)
    <3>1. Holds(mem, before, used, c) /\ qx \in Seq(Tok) /\ used + Len(qx) <= c
      BY <1>3, <2>2, <2>3 DEF Holds
    <3>2. Holds(Store(mem, used, qx), before \o qx, used + Len(qx), c)
      BY <3>1, StoreExtends
    <3> QED BY <3>2, <2>3 DEF qx
  <2> HIDE DEF m1
  <2>5. Holds(m2, before \o qx, at, c)
    <3>1. j \in Seq(Tok) /\ at + Len(j) <= c
      BY <1>7, <2>3 DEF j
    <3>2. Holds(Store(m1, at, j), before \o qx, at, c)
      BY <3>1, <2>4, StoreExtends
    <3> QED BY <3>2 DEF j
  <2> HIDE DEF m2
  <2>6. Holds(m3, (before \o qx) \o tj, u, c)
    <3>1. tj \in Seq(Tok) /\ at + Len(tj) <= c
      BY <1>7, <2>3 DEF tj
    <3>2. Holds(Store(m2, at, tj), (before \o qx) \o tj, at + Len(tj), c)
      BY <3>1, <2>5, StoreExtends
    <3> QED BY <3>2, <2>3 DEF tj
  <2>7. /\ m3 \in Seq(Tok) /\ u <= Len(m3) /\ Len(m3) <= c
        /\ SubSeq(m3, 1, u) = (before \o qx) \o tj
    BY <2>6 DEF Holds
  <2> HIDE DEF m3
  <2>8. (before \o qx) \o tj = before \o Json(str)
    <3>1. tj = b \o q /\ qx = q \o x /\ b \in Seq(Tok) /\ x \in Seq(Tok)
      BY <1>5, <1>7, <1>8 DEF tj, qx, b
    <3>2. (before \o (q \o x)) \o (b \o q) = before \o ((q \o (x \o b)) \o q)
      <4>1. before \in Seq(Tok) /\ q \in Seq(Tok) /\ x \in Seq(Tok) /\ b \in Seq(Tok)
        BY <3>1, <2>1, <1>3
      <4>2. Regroups(before, q, x, b)
        BY <4>1, Regroup
      <4> QED BY <4>2, Zenon DEF Regroups
    <3>3. Json(str) = (q \o (x \o b)) \o q
      BY <1>5 DEF Json, q, x, b
    <3> QED BY <3>1, <3>2, <3>3, Zenon
  <2>9. u = Len(before) + Len(Json(str))
    <3>1. Len(Json(str)) = Len(Body(str)) + 2
      BY <1>3, JsonIs
    <3>2. Len(Body(str)) = n + Len(b)
      <4>1. Body(str) = x \o b /\ Len(x) = n /\ x \in Seq(Tok) /\ b \in Seq(Tok)
        BY <1>5, <1>8 DEF x, b
      <4>2. Len(x \o b) = Len(x) + Len(b)
        BY <4>1, TokensJoin
      <4> QED BY <4>1, <4>2
    <3>3. u = at + (Len(b) + 1)
      <4> DEFINE l == Len(b)
      <4>1. Len(tj) = (l + 2) - 1 /\ l \in Nat
        BY <1>7 DEF tj, b
      <4> HIDE DEF l
      <4>2. u = at + (l + 1)
        BY <4>1, <2>3
      <4> QED BY <4>2 DEF l
    <3> DEFINE l == Len(b)
               k == Len(Json(str))
               e == Len(Body(str))
               h == Len(before)
    <3>4. k = e + 2 /\ e = n + l /\ u = at + (l + 1) /\ l \in Nat /\ h = used
      BY <3>1, <3>2, <3>3, <1>3, <1>7 DEF b
    <3> HIDE DEF l, k, e, h
    <3>5. u = h + k
      BY <3>4, <1>3, <1>6
    <3> QED BY <3>5 DEF h, k
  <2>10. Valid(str)
    BY <1>5, <1>12 DEF y
  <2>11. SubSeq(m3, 1, u) = before \o Json(str)
    BY <2>7, <2>8, Zenon
  <2>12. c \in Nat
    BY <2>3
  <2>13. Laid("done", str, m3, u, c, pos, "ok")
    BY <1>1, <2>7, <2>9, <2>10, <2>11, <2>12, LaidWritten
  <2>14. /\ UNCHANGED call /\ UNCHANGED <<str, sane>> /\ stage' = "done" /\ result' = "ok"
         /\ mem' = m3 /\ used' = u /\ a' = c /\ pos' = pos
    BY <1>12 DEF Finish, m3, u, c, m2, m1, y, x, q, j, tj, qx
  <2> QED BY <2>13, <2>14, InvNext
<1> QED BY <1>2, <1>10, <1>11, <1>12

-----------------------------------------------------------------------------
(* Chunk by chunk *)

LEMMA EmptyPiece ==
  ASSUME NEW t \in Seq(Tok)
  PROVE  Piece(t, 0, 0) = <<>> /\ Body(<<>>) = <<>> /\ Valid(<<>>)
<1>1. Piece(t, 0, 0) \in Seq(Tok) /\ Len(Piece(t, 0, 0)) = 0
  <2>1. 0 \in Nat /\ 0 + 0 <= Len(t)
    OBVIOUS
  <2> QED BY <2>1, HeadPiece
<1>2. Body(<<>>) \in Seq(Tok) /\ Len(Body(<<>>)) = 0
  <2>1. <<>> \in Seq(Tok) /\ Len(<<>>) = 0
    OBVIOUS
  <2>2. Body(<<>>) \in Seq(Tok) /\ Len(Body(<<>>)) \in Nat /\ Len(Body(<<>>)) <= 6 * Len(<<>>)
    BY <2>1, BodyBound
  <2> QED BY <2>1, <2>2
<1> DEFINE x == Piece(t, 0, 0)
           y == Body(<<>>)
<1>3. x \in Seq(Tok) /\ Len(x) = 0 /\ y \in Seq(Tok) /\ Len(y) = 0
  BY <1>1, <1>2
<1> HIDE DEF x, y
<1>4. x = <<>> /\ y = <<>>
  BY <1>3
<1> QED BY <1>4, NothingIsValid DEF x, y

\* What has been written of a string when p bytes of it have been read.
SoMuch(p) == (before \o <<"Q">>) \o Body(Piece(str, 0, p))

LEMMA LaidChunk ==
  ASSUME StringInv, NEW m, NEW c, NEW p \in Nat, NEW u,
         Holds(m, SoMuch(p), u, c), p <= len, Valid(Piece(str, 0, p)), u + 1 <= c
  PROVE  Laid("chunk", str, m, u, c, p, result)
<1> DEFINE q == <<"Q">>
           d == Body(Piece(str, 0, p))
           y == q \o d
<1>1. str \in Seq(Tok) /\ before \in Seq(Tok) /\ Len(before) \in Nat /\ len = Len(str) /\ len \in Nat
  BY InvTypes
<1>2. d \in Seq(Tok) /\ Len(d) \in Nat
  <2>1. 0 + p <= Len(str)
    BY <1>1
  <2>2. Piece(str, 0, p) \in Seq(Tok)
    BY <1>1, <2>1, HeadPiece
  <2> QED BY <2>2, BodyBound
<1>3. q \in Seq(Tok) /\ Len(q) = 1
  BY QuoteIs
<1>4. SoMuch(p) = (before \o q) \o d
  BY DEF SoMuch
<1> HIDE DEF q, d
<1>5. (before \o q) \o d = before \o y
  BY <1>1, <1>2, <1>3, Associates
<1>6. y \in Seq(Tok) /\ Len(y) = 1 + Len(d)
  BY <1>2, <1>3, TokensJoin
<1> HIDE DEF y
<1>7. Len(before \o y) = Len(before) + Len(y)
  BY <1>1, <1>6, TokensJoin
<1>8. /\ m \in Seq(Tok) /\ u = Len(before) + Len(y) /\ c \in Nat /\ u <= Len(m) /\ Len(m) <= c
      /\ SubSeq(m, 1, u) = before \o y
  BY <1>4, <1>5, <1>7 DEF Holds
<1>9. SubSeq(m, 1, Len(before)) = before
  BY <1>1, <1>6, <1>8, AddedIs
<1>10. u \in Nat /\ Len(before) <= u /\ u = Len(before) + 1 + Len(d)
  <2> DEFINE l == Len(before)
             k == Len(y)
             h == Len(d)
  <2>1. l \in Nat /\ k = 1 + h /\ h \in Nat /\ u = l + k
    BY <1>1, <1>2, <1>6, <1>8
  <2> HIDE DEF l, k, h
  <2>2. u \in Nat /\ l <= u /\ u = l + 1 + h
    BY <2>1
  <2> QED BY <2>2 DEF l, h
<1>11. ChunkAt(str, m, u, p)
  BY <1>1, <1>4, <1>5, <1>8, <1>10 DEF ChunkAt, q, d
<1>12. "chunk" \in Stages /\ "chunk" \notin Early /\ "chunk" # "done"
  BY DEF Stages, Early
<1> QED BY <1>1, <1>8, <1>9, <1>10, <1>11, <1>12, Zenon DEF Laid

LEMMA ChunkBeginKeeps ==
  ASSUME StringInv, ChunkBegin
  PROVE  StringInv'
<1> DEFINE q == <<"Q">>
           room == len + 2 + CHUNK * 6
<1>1. stage = "chunks" /\ stage \in Early
  BY DEF ChunkBegin, Early
<1>2. CASE TooLarge
  BY <1>1, <1>2, TooLargeKeeps
<1>3. CASE ~ TooLarge
  <2>1. /\ a' = smart_str_alloc(room) /\ mem' = Store(mem, used, q) /\ used' = used + 1
        /\ pos' = 0 /\ stage' = "chunk" /\ result' = result
        /\ UNCHANGED call /\ UNCHANGED <<str, sane>>
    BY <1>3, Zenon DEF ChunkBegin
  <2>2. /\ str \in Seq(Tok) /\ mem \in Seq(Tok) /\ used \in Nat /\ a \in Nat
        /\ before \in Seq(Tok) /\ used = Len(before) /\ Len(mem) \in Nat
        /\ used <= Len(mem) /\ Len(mem) <= a /\ SubSeq(mem, 1, Len(before)) = before
        /\ len \in Nat
    BY <1>1, InvTypes, Zenon
  <2>3. room \in Nat /\ room >= 2
    <3>1. CHUNK \in Nat
      BY SizesAssumption
    <3> QED BY <3>1, <2>2
  <2> HIDE DEF room
  <2>4. a' \in Nat /\ a' >= a /\ a' >= used + room
    BY <2>1, <2>2, <2>3, Alloc
  <2>5. Len(mem) <= a' /\ used + 1 <= a' /\ used + 1 + 1 <= a'
    BY <2>2, <2>3, <2>4
  <2>6. q \in Seq(Tok) /\ Len(q) = 1
    BY QuoteIs
  <2> HIDE DEF q
  <2>7. Holds(mem, before, used, a')
    BY <2>2, <2>4, <2>5 DEF Holds
  <2>8. Holds(Store(mem, used, q), before \o q, used + 1, a')
    <3>1. used + Len(q) <= a'
      BY <2>5, <2>6
    <3>2. Holds(Store(mem, used, q), before \o q, used + Len(q), a')
      BY <3>1, <2>6, <2>7, StoreExtends
    <3> QED BY <3>2, <2>6
  <2>9. SoMuch(0) = before \o q /\ Valid(Piece(str, 0, 0))
    <3>1. Piece(str, 0, 0) = <<>> /\ Body(<<>>) = <<>> /\ Valid(<<>>)
      BY <2>2, EmptyPiece
    <3>2. SoMuch(0) = (before \o q) \o <<>>
      BY <3>1 DEF SoMuch, q
    <3>3. before \o q \in Seq(Tok)
      BY <2>2, <2>6, TokensJoin
    <3> DEFINE now == before \o q
    <3>4. now \in Seq(Tok)
      BY <3>3
    <3> HIDE DEF now
    <3>5. now \o <<>> = now
      BY <3>4
    <3> QED BY <3>1, <3>2, <3>5 DEF now
  <2>10. Laid("chunk", str, mem', used + 1, a', 0, result)
    <3>1. 0 \in Nat /\ 0 <= len /\ Holds(mem', SoMuch(0), used + 1, a')
      <4>1. mem' = Store(mem, used, q) /\ SoMuch(0) = before \o q
        BY <2>1, <2>9
      <4>2. Holds(mem', SoMuch(0), used + 1, a')
        BY <4>1, <2>8, Zenon
      <4>3. 0 \in Nat /\ 0 <= len
        BY <2>2
      <4> QED BY <4>2, <4>3
    <3> QED BY <3>1, <2>5, <2>9, LaidChunk
  <2> QED BY <2>1, <2>10, InvNext
<1> QED BY <1>2, <1>3

LEMMA GivesUp ==
  ASSUME StringInv, NEW c \in Nat, c >= a
  PROVE  /\ Laid("invalid", str, mem, Len(before), c, pos, result)
         /\ Laid("done", str, mem, Len(before), c, pos, "too_large")
<1>1. /\ str \in Seq(Tok) /\ mem \in Seq(Tok) /\ a \in Nat /\ pos \in Nat /\ used \in Nat
      /\ Len(before) \in Nat /\ Len(mem) \in Nat
      /\ Len(before) <= used /\ used <= Len(mem) /\ Len(mem) <= a
      /\ SubSeq(mem, 1, Len(before)) = before
  BY InvTypes, Zenon
<1> DEFINE l == Len(before)
           k == Len(mem)
<1>2. l <= k /\ k <= c /\ l <= l /\ l \in Nat
  <2>1. l \in Nat /\ k \in Nat /\ l <= used /\ used <= k /\ k <= a
    BY <1>1
  <2> HIDE DEF l, k
  <2> QED BY <2>1, <1>1
<1>3. /\ "invalid" \in Stages /\ "invalid" # "chunk" /\ "invalid" # "done"
      /\ "done" \in Stages /\ "done" \notin Early /\ "done" # "chunk"
  BY DEF Early, Stages
<1>4. DoneAt(str, mem, Len(before), "too_large")
  BY DEF DoneAt
<1> QED BY <1>1, <1>2, <1>3, <1>4, Zenon DEF Laid

LEMMA ChunkEndsKeeps ==
  ASSUME StringInv, ChunkEnds
  PROVE  StringInv'
<1> DEFINE q == <<"Q">>
           b == Body(str)
           x == (before \o q) \o b
<1>1. /\ stage = "chunk" /\ pos >= len /\ mem' = Store(mem, used, q) /\ used' = used + 1
      /\ stage' = "done" /\ result' = "ok" /\ UNCHANGED call /\ UNCHANGED <<str, sane>>
      /\ a' = a /\ pos' = pos
  BY Zenon DEF ChunkEnds, Finish
<1>2. /\ str \in Seq(Tok) /\ mem \in Seq(Tok) /\ used \in Nat /\ a \in Nat /\ pos \in Nat
      /\ before \in Seq(Tok) /\ Len(before) \in Nat /\ Len(mem) \in Nat
      /\ used <= Len(mem) /\ Len(mem) <= a /\ len \in Nat /\ len = Len(str)
  BY InvTypes, Zenon
<1>3. ChunkAt(str, mem, used, pos) /\ used + 1 <= a
  BY <1>1, Zenon DEF StringInv, Laid
<1>4. pos = len /\ Piece(str, 0, pos) = str
  <2>1. pos = len
    BY <1>1, <1>2, <1>3 DEF ChunkAt
  <2>2. Piece(str, 0, Len(str)) = str
    <3>1. 0 \in Nat /\ 0 + 0 <= Len(str)
      BY <1>2
    <3> QED BY <3>1, <1>2, CutTokens
  <2> QED BY <2>1, <2>2, <1>2
<1>5. Valid(str) /\ used = Len(before) + 1 + Len(b) /\ SubSeq(mem, 1, used) = x
  BY <1>3, <1>4, Zenon DEF ChunkAt
<1>6. b \in Seq(Tok) /\ Len(b) \in Nat
  BY <1>2, BodyBound
<1>7. q \in Seq(Tok) /\ Len(q) = 1
  BY QuoteIs
<1>8. Json(str) = (q \o b) \o q
  BY DEF Json
<1>9. Len(Json(str)) = Len(b) + 2
  BY <1>2, JsonIs
<1> HIDE DEF q, b
<1>10. x \in Seq(Tok) /\ Len(x) = used
  <2> DEFINE now == before \o q
  <2>1. now \in Seq(Tok) /\ Len(now) = Len(before) + 1
    BY <1>2, <1>7, TokensJoin
  <2> HIDE DEF now
  <2>2. now \o b \in Seq(Tok) /\ Len(now \o b) = Len(now) + Len(b)
    BY <2>1, <1>6, TokensJoin
  <2> QED BY <2>1, <2>2, <1>5 DEF now
<1>11. x \o q = before \o Json(str)
  <2> DEFINE qb == q \o b
  <2>1. qb \in Seq(Tok)
    BY <1>6, <1>7, TokensJoin
  <2>2. x = before \o qb
    BY <1>2, <1>6, <1>7, Associates
  <2> HIDE DEF qb
  <2>3. (before \o qb) \o q = before \o (qb \o q)
    BY <2>1, <1>2, <1>7, Associates
  <2>4. Json(str) = qb \o q
    BY <1>8 DEF qb
  <2> HIDE DEF x
  <2> QED BY <2>2, <2>3, <2>4, Zenon
<1> HIDE DEF x
<1>12. Holds(mem, x, used, a)
  BY <1>2, <1>5, <1>10 DEF Holds
<1>13. Holds(Store(mem, used, q), x \o q, used + Len(q), a)
  <2>1. used + Len(q) <= a
    BY <1>3, <1>7
  <2> QED BY <2>1, <1>7, <1>12, StoreExtends
<1>14. Holds(mem', before \o Json(str), used', a)
  BY <1>1, <1>7, <1>11, <1>13
<1>15. used' = Len(before) + Len(Json(str))
  <2> DEFINE h == Len(before)
             l == Len(b)
  <2>1. used = h + 1 + l /\ Len(Json(str)) = l + 2 /\ h \in Nat /\ l \in Nat /\ used' = used + 1
    BY <1>1, <1>2, <1>5, <1>6, <1>9
  <2> HIDE DEF h, l
  <2>2. used' = h + (l + 2)
    BY <2>1
  <2> QED BY <2>1, <2>2 DEF h
<1>16. Laid("done", str, mem', used', a, pos, "ok")
  <2>1. stage \in Early \cup {"chunk"}
    BY <1>1
  <2>2. /\ mem' \in Seq(Tok) /\ used' <= Len(mem') /\ Len(mem') <= a
        /\ SubSeq(mem', 1, used') = before \o Json(str)
    BY <1>14 DEF Holds
  <2> QED BY <2>1, <2>2, <1>2, <1>5, <1>15, LaidWritten
<1> QED BY <1>1, <1>16, InvNext

\* A chunk's quotes fall on the last byte before it, which is put back, and
\* on the byte behind it, which is not counted.
LEMMA InPlaceIs ==
  ASSUME NEW m, NEW x, NEW u, NEW c, NEW d, Holds(m, x, u, d), 1 <= u,
         NEW t \in Seq(Tok), c \in Nat, d <= c, u + Len(Body(t)) + 1 <= c
  PROVE  Holds(InPlace(m, u - 1, Json(t)), x \o Body(t), u + Len(Body(t)), c)
<1> DEFINE b == Body(t)
           j == Json(t)
           n == Len(b)
           lm == Len(m)
           v == Store(m, u - 1, j)
           o == ByteOf(m, u - 1)
           now == Store(v, u - 1, <<o>>)
<1>1. /\ m \in Seq(Tok) /\ x \in Seq(Tok) /\ u = Len(x) /\ d \in Nat
      /\ u <= lm /\ lm <= d /\ SubSeq(m, 1, u) = x /\ u \in Nat /\ lm \in Nat
  BY DEF Holds
<1>2. /\ b \in Seq(Tok) /\ n \in Nat /\ j \in Seq(Tok) /\ Len(j) = n + 2
      /\ \A k \in 1 .. n : j[1 + k] = b[k]
  <2>1. b \in Seq(Tok)
    BY BodyBound
  <2>2. j \in Seq(Tok) /\ Len(j) = n + 2 /\ n \in Nat
    BY JsonIs
  <2>3. \A k \in 1 .. n : j[1 + k] = b[k]
    BY JsonBytes
  <2> QED BY <2>1, <2>2, <2>3
<1>3. u + n + 1 <= c
  OBVIOUS
<1>4. \A k \in 1 .. u : m[k] = x[k]
  <2>1. u \in 0 .. Len(m)
    BY <1>1
  <2>2. \A k \in 1 .. u : SubSeq(m, 1, u)[k] = m[k]
    BY <2>1, <1>1, HeadIs
  <2> QED BY <2>2, <1>1
<1> DEFINE p == u - 1
<1>5. p \in Nat /\ p + 1 = u /\ p \in 0 .. lm
  BY <1>1
<1>6. o \in Tok /\ o = m[u]
  <2>1. u \in 1 .. Len(m)
    BY <1>1
  <2>2. o = m[u]
    BY <1>1 DEF ByteOf
  <2> QED BY <2>1, <2>2, <1>1
<1> HIDE DEF b, j, n, o
<1>7. /\ v \in Seq(Tok) /\ Len(v) = Most(lm, p + (n + 2))
      /\ \A k \in 1 .. p : v[k] = m[k]
      /\ \A k \in 1 .. n + 2 : v[p + k] = j[k]
  <2> HIDE DEF p
  <2>1. /\ Store(m, p, j) \in Seq(Tok) /\ Len(Store(m, p, j)) = Most(Len(m), p + Len(j))
        /\ \A k \in 1 .. p : Store(m, p, j)[k] = m[k]
        /\ \A k \in 1 .. Len(j) : Store(m, p, j)[p + k] = j[k]
    <3>1. m \in Seq(Tok) /\ j \in Seq(Tok) /\ p \in 0 .. Len(m)
      BY <1>1, <1>2, <1>5
    <3> QED BY <3>1, StoreIs, Zenon
  <2> QED BY <2>1, <1>2 DEF p
<1> HIDE DEF v
<1> DEFINE lv == Len(v)
<1>8. lv \in Nat /\ lv <= c /\ u + n <= lv /\ p + 1 <= lv
  <2>1. lv = lm \/ lv = p + (n + 2)
    BY <1>7 DEF Most
  <2>2. lv >= p + (n + 2)
    BY <1>1, <1>2, <1>5, <1>7 DEF Most
  <2> HIDE DEF lv, lm, p
  <2> QED BY <2>1, <2>2, <1>1, <1>2, <1>3, <1>5
<1>9. /\ now \in Seq(Tok) /\ Len(now) = Most(lv, p + 1)
      /\ \A k \in 1 .. p : now[k] = v[k]
      /\ now[p + 1] = o
      /\ \A k \in p + 2 .. lv : now[k] = v[k]
  <2> DEFINE e == <<o>>
  <2>1. e \in Seq(Tok) /\ Len(e) = 1 /\ e[1] = o
    BY <1>6
  <2> HIDE DEF e, p, lv
  <2>2. p \in 0 .. Len(v)
    BY <1>5, <1>8 DEF lv
  <2>3. /\ Store(v, p, e) \in Seq(Tok) /\ Len(Store(v, p, e)) = Most(Len(v), p + Len(e))
        /\ \A k \in 1 .. p : Store(v, p, e)[k] = v[k]
        /\ \A k \in 1 .. Len(e) : Store(v, p, e)[p + k] = e[k]
        /\ \A k \in p + Len(e) + 1 .. Len(v) : Store(v, p, e)[k] = v[k]
    BY <1>7, <2>1, <2>2, StoreIs
  <2>4. now = Store(v, p, e)
    BY DEF e, p
  <2>5. p + Len(e) + 1 = p + 2 /\ 1 \in 1 .. Len(e)
    BY <2>1, <1>5
  <2> HIDE DEF now
  <2> QED BY <2>1, <2>3, <2>4, <2>5 DEF lv
<1>10. Len(now) = lv
  <2> HIDE DEF now, lv, p
  <2> QED BY <1>5, <1>8, <1>9 DEF Most
<1> HIDE DEF now, lv, lm, p
<1>11. ASSUME NEW k \in 1 .. Len(x) PROVE now[k] = x[k]
  <2>1. k \in 1 .. u
    BY <1>1
  <2>2. CASE k \in 1 .. p
    BY <2>1, <2>2, <1>4, <1>7, <1>9
  <2>3. CASE k \notin 1 .. p
    <3>1. k = p + 1 /\ k = u
      BY <2>1, <2>3, <1>5
    <3> QED BY <3>1, <2>1, <1>4, <1>6, <1>9
  <2> QED BY <2>2, <2>3
<1>12. ASSUME NEW k \in 1 .. Len(b) PROVE now[Len(x) + k] = b[k]
  <2>1. k \in 1 .. n
    BY DEF n
  <2>2. u + k \in p + 2 .. lv /\ u + k = p + (1 + k) /\ 1 + k \in 1 .. n + 2
    <3>1. /\ u \in Nat /\ n \in Nat /\ p \in Nat /\ p + 1 = u /\ lv \in Nat
          /\ u + n <= lv /\ k \in 1 .. n
      BY <2>1, <1>1, <1>2, <1>5, <1>8
    <3> QED BY <3>1
  <2>3. now[u + k] = v[p + (1 + k)]
    BY <2>2, <1>9
  <2>4. v[p + (1 + k)] = j[1 + k]
    BY <2>2, <1>7
  <2> QED BY <2>1, <2>3, <2>4, <1>1, <1>2
<1>13. Len(x) + Len(b) <= Len(now)
  BY <1>1, <1>8, <1>10 DEF n
<1>14. SubSeq(now, 1, Len(x) + Len(b)) = x \o b
  <2>1. now \in Seq(Tok) /\ x \in Seq(Tok) /\ b \in Seq(Tok)
    BY <1>1, <1>2, <1>9
  <2> QED BY <2>1, <1>11, <1>12, <1>13, HeadJoin, Zenon
<1>15. x \o b \in Seq(Tok) /\ Len(x \o b) = u + n
  BY <1>1, <1>2, TokensJoin DEF n
<1>16. u + n = Len(x) + Len(b)
  BY <1>1 DEF n
<1>17. Holds(now, x \o b, u + n, c)
  <2>1. SubSeq(now, 1, u + n) = x \o b
    BY <1>14, <1>16
  <2>2. u + n <= Len(now) /\ Len(now) <= c /\ c \in Nat /\ now \in Seq(Tok)
    BY <1>8, <1>9, <1>10
  <2> QED BY <2>1, <2>2, <1>15 DEF Holds
<1>18. InPlace(m, u - 1, Json(t)) = now
  BY DEF InPlace, now, v, o, j
<1> QED BY <1>17, <1>18 DEF b, n

LEMMA Products ==
  ASSUME NEW x \in Nat, NEW y \in Nat
  PROVE  x * y \in Nat
OBVIOUS

LEMMA Quotients ==
  ASSUME NEW x \in Nat, NEW y \in Nat \ {0}
  PROVE  x \div y \in Nat
OBVIOUS

\* What is left never counts for less than nothing, so the projection never
\* falls below the chunk's worst case.
LEMMA ProjectedIs ==
  ASSUME used \in Nat, Len(before) \in Nat, Len(before) <= used, pos \in Nat, len \in Nat,
         NEW n \in Nat, pos + n <= len, ChunkNeed(n) <= ZSTR_MAX_LEN - used
  PROVE  Projected(n) \in Nat /\ Projected(n) >= ChunkNeed(n) /\ ChunkNeed(n) = n * 6 + 2
<1> DEFINE left == len - pos - n
           so_far == used - Len(before)
           rest == IF pos = 0 THEN (left * 9) \div 8 ELSE (left * so_far * 9) \div (pos * 8)
<1>1. left \in Nat /\ so_far \in Nat
  OBVIOUS
<1>2. rest \in Nat
  <2> HIDE DEF left, so_far
  <2>1. left * 9 \in Nat /\ left * so_far \in Nat
    BY <1>1, Products
  <2> DEFINE z == left * so_far
  <2>2. z * 9 \in Nat
    BY <2>1
  <2> HIDE DEF z
  <2>3. (left * 9) \div 8 \in Nat
    <3> DEFINE y == left * 9
    <3>1. y \in Nat
      BY <2>1
    <3> HIDE DEF y
    <3>2. y \div 8 \in Nat
      BY <3>1
    <3> QED BY <3>2 DEF y
  <2>4. CASE pos # 0
    <3> DEFINE y == z * 9
               r == pos * 8
    <3>1. y \in Nat /\ r \in Nat \ {0}
      BY <2>2, <2>4
    <3> HIDE DEF y, r
    <3>2. y \div r \in Nat
      BY <3>1, Quotients
    <3> QED BY <3>2, <2>4 DEF y, r, z
  <2> QED BY <2>3, <2>4
<1>3. ChunkNeed(n) = n * 6 + 2 /\ n * 6 + 2 \in Nat
  BY DEF ChunkNeed
<1>4. Projected(n) = Least(ChunkNeed(n) + Least(rest, left * 6), ZSTR_MAX_LEN - used)
  BY DEF Projected
<1> HIDE DEF rest, left
<1>5. Least(rest, left * 6) \in Nat
  BY <1>1, <1>2 DEF Least
<1> DEFINE more == Least(rest, left * 6)
           need == ChunkNeed(n)
<1>6. more \in Nat /\ need \in Nat /\ need <= ZSTR_MAX_LEN - used /\ ZSTR_MAX_LEN \in Nat
      /\ Projected(n) = Least(need + more, ZSTR_MAX_LEN - used)
  BY <1>3, <1>4, <1>5, SizesAssumption
<1> HIDE DEF more, need
<1>7. Projected(n) \in Nat /\ Projected(n) >= need
  BY <1>6 DEF Least
<1> QED BY <1>3, <1>7 DEF need

LEMMA ChunkStepKeeps ==
  ASSUME StringInv, ChunkStep
  PROVE  StringInv'
<1> DEFINE n == fastjson_json_chunk_len
           y == Piece(str, pos, n)
           room == IF a - used < ChunkNeed(n) THEN smart_str_alloc(Projected(n)) ELSE a
           x == SoMuch(pos)
           b == Body(y)
           u == used + Len(b)
           p == pos + n
           m == InPlace(mem, used - 1, Json(y))
<1>1. /\ stage = "chunk" /\ pos < len
      /\ \/ /\ used' = Len(before) /\ stage' = "done" /\ result' = "too_large" /\ a' = a
            /\ mem' = mem /\ pos' = pos /\ UNCHANGED call /\ UNCHANGED <<str, sane>>
         \/ /\ ~ (ChunkNeed(n) > ZSTR_MAX_LEN - used)
            /\ ~ Valid(y) /\ used' = Len(before) /\ stage' = "invalid" /\ result' = "" /\ a' = room
            /\ mem' = mem /\ pos' = pos /\ UNCHANGED call /\ UNCHANGED <<str, sane>>
         \/ /\ ~ (ChunkNeed(n) > ZSTR_MAX_LEN - used)
            /\ Valid(y) /\ used' = u /\ stage' = stage /\ result' = result /\ a' = room
            /\ mem' = m /\ pos' = p /\ UNCHANGED call /\ UNCHANGED <<str, sane>>
  <2>0. stage = "chunk" /\ pos < len
    BY Zenon DEF ChunkStep
  <2>1. CASE ChunkNeed(n) > ZSTR_MAX_LEN - used
    <3>1. GiveUpChunks("done", "too_large") /\ UNCHANGED a
      BY <2>1, Zenon DEF ChunkStep
    <3> QED BY <2>0, <3>1, Zenon DEF GiveUpChunks
  <2>2. CASE ~ (ChunkNeed(n) > ZSTR_MAX_LEN - used) /\ ~ Valid(y)
    <3>1. GiveUpChunks("invalid", "") /\ a' = room
      BY <2>2, Zenon DEF ChunkStep
    <3> QED BY <2>0, <2>2, <3>1, Zenon DEF GiveUpChunks
  <2>3. CASE ~ (ChunkNeed(n) > ZSTR_MAX_LEN - used) /\ Valid(y)
    <3>1. /\ a' = room /\ mem' = m /\ used' = u /\ pos' = p
          /\ UNCHANGED <<call, str, sane, stage, result>>
      BY <2>3, Zenon DEF ChunkStep
    <3> QED BY <2>0, <2>3, <3>1, Zenon
  <2> QED BY <2>1, <2>2, <2>3, Zenon
<1>2. /\ str \in Seq(Tok) /\ mem \in Seq(Tok) /\ used \in Nat /\ a \in Nat /\ pos \in Nat
      /\ before \in Seq(Tok) /\ Len(before) \in Nat /\ Len(mem) \in Nat
      /\ Len(before) <= used /\ used <= Len(mem) /\ Len(mem) <= a /\ len \in Nat /\ len = Len(str)
  BY InvTypes, Zenon
<1>3. ChunkAt(str, mem, used, pos) /\ used + 1 <= a
  BY <1>1, Zenon DEF StringInv, Laid
<1>4. n \in 1 .. len - pos /\ (Valid(str) /\ Parted(str, pos) => Parted(str, p))
  <2>1. pos < len
    BY <1>1, Zenon
  <2> QED BY <2>1, <1>2, ChunkIs, Zenon
<1> HIDE DEF n
<1>5. n \in Nat /\ p \in Nat /\ p <= len /\ pos + n <= Len(str) /\ p \in 0 .. Len(str)
      /\ pos \in 0 .. Len(str) /\ 0 + pos <= Len(str)
  <2>1. n \in 1 .. len - pos /\ pos < len
    BY <1>1, <1>4, Zenon
  <2>2. pos \in Nat /\ len \in Nat
    BY <1>2, Zenon
  <2>3. /\ n \in Nat /\ p \in Nat /\ p <= len /\ pos + n <= len /\ p \in 0 .. len
        /\ pos \in 0 .. len /\ 0 + pos <= len
    BY <2>1, <2>2
  <2>4. len = Len(str)
    BY <1>2, Zenon
  <2> QED BY <2>3, <2>4, Zenon
<1>6. Valid(Piece(str, 0, pos)) /\ used = Len(before) + 1 + Len(Body(Piece(str, 0, pos)))
      /\ SubSeq(mem, 1, used) = x
  BY <1>3, Zenon DEF ChunkAt, SoMuch
<1>7. Parted(str, pos)
  BY <1>2, <1>5, <1>6, PieceParted
<1>8. /\ Valid(Piece(str, 0, p)) <=> Valid(Piece(str, 0, pos)) /\ Valid(y)
      /\ Body(Piece(str, 0, p)) = Body(Piece(str, 0, pos)) \o b
  BY <1>2, <1>5, <1>7, PieceBody
<1>9. y \in Seq(Tok) /\ Len(y) = n
  <2>1. str \in Seq(Tok) /\ pos \in Nat /\ n \in Nat /\ pos + n <= Len(str)
    BY <1>2, <1>5, Zenon
  <2> QED BY <2>1, CutTokens
<1>10. ASSUME ~ (ChunkNeed(n) > ZSTR_MAX_LEN - used)
       PROVE  room \in Nat /\ room >= a /\ room >= used + (n * 6 + 2)
  <2> DEFINE pr == Projected(n)
             al == smart_str_alloc(pr)
             need == ChunkNeed(n)
  <2>1. need <= ZSTR_MAX_LEN - used /\ need = n * 6 + 2
    <3>1. need = n * 6 + 2 /\ need \in Nat /\ ZSTR_MAX_LEN \in Nat
      BY <1>5, SizesAssumption DEF ChunkNeed
    <3> HIDE DEF need
    <3> QED BY <3>1, <1>2, <1>10 DEF need
  <2>2. pr \in Nat /\ pr >= need
    <3>1. pos + n <= len
      BY <1>5
    <3> QED BY <2>1, <3>1, <1>2, <1>5, ProjectedIs
  <2>3. al \in Nat /\ al >= a /\ al >= used + pr
    <3> HIDE DEF pr
    <3> QED BY <2>2, <1>2, Alloc
  <2>4. room = (IF a - used < need THEN al ELSE a)
    OBVIOUS
  <2> HIDE DEF pr, al, need, room
  <2> QED BY <2>1, <2>2, <2>3, <2>4, <1>2, <1>5
<1> HIDE DEF room
<1>11. CASE /\ used' = Len(before) /\ stage' = "done" /\ result' = "too_large" /\ a' = a
            /\ mem' = mem /\ pos' = pos /\ UNCHANGED call /\ UNCHANGED <<str, sane>>
  <2>1. Laid("done", str, mem, Len(before), a, pos, "too_large")
    BY <1>2, GivesUp
  <2> QED BY <2>1, <1>11, InvNext
<1>12. CASE /\ ~ (ChunkNeed(n) > ZSTR_MAX_LEN - used)
            /\ ~ Valid(y) /\ used' = Len(before) /\ stage' = "invalid" /\ result' = "" /\ a' = room
            /\ mem' = mem /\ pos' = pos /\ UNCHANGED call /\ UNCHANGED <<str, sane>>
  <2>1. Laid("invalid", str, mem, Len(before), room, pos, result)
    <3>1. room \in Nat /\ room >= a
      BY <1>10, <1>12, Zenon
    <3> QED BY <3>1, GivesUp
  <2>2. Laid("invalid", str, mem, Len(before), room, pos, "")
    <3>1. "invalid" # "done"
      OBVIOUS
    <3> QED BY <2>1, <3>1, Zenon DEF Laid
  <2>3. ~ Valid(str)
    <3>1. ASSUME Valid(str) PROVE FALSE
      <4>1. Parted(str, p)
        BY <3>1, <1>4, <1>7
      <4>2. Valid(Piece(str, 0, p))
        BY <3>1, <4>1, <1>2, <1>5, PieceParted
      <4> QED BY <4>2, <1>8, <1>12, Zenon
    <3> QED BY <3>1
  <2>4. Laid(stage', str, mem', used', a', pos', result')
    BY <2>2, <1>12, Zenon
  <2>5. UNCHANGED call /\ UNCHANGED <<str, sane>>
    BY <1>12, Zenon
  <2> QED BY <2>3, <2>4, <2>5, InvNext, Zenon
<1>13. CASE /\ ~ (ChunkNeed(n) > ZSTR_MAX_LEN - used)
            /\ Valid(y) /\ used' = u /\ stage' = stage /\ result' = result /\ a' = room
            /\ mem' = m /\ pos' = p /\ UNCHANGED call /\ UNCHANGED <<str, sane>>
  <2>1. b \in Seq(Tok) /\ Len(b) \in Nat /\ Len(b) <= 6 * n
    BY <1>9, BodyBound
  <2>2. u + 1 <= room /\ 1 <= used
    <3> DEFINE l == Len(b)
               h == Len(before)
               k == Len(Body(Piece(str, 0, pos)))
    <3>1. l \in Nat /\ l <= 6 * n /\ room \in Nat /\ room >= used + (n * 6 + 2)
      BY <2>1, <1>10, <1>13
    <3>2. k \in Nat
      <4>1. Piece(str, 0, pos) \in Seq(Tok)
        BY <1>2, <1>5, HeadPiece
      <4> QED BY <4>1, BodyBound
    <3>3. h \in Nat /\ used = h + 1 + k
      BY <1>2, <1>6
    <3> HIDE DEF l, h, k
    <3>4. used + l + 1 <= room
      BY <3>1, <1>2, <1>5
    <3>5. 1 <= used
      BY <3>2, <3>3
    <3> QED BY <3>4, <3>5 DEF l
  <2>3. x \in Seq(Tok) /\ Len(x) = used
    <3>1. SubSeq(mem, 1, used) \in Seq(Tok) /\ Len(SubSeq(mem, 1, used)) = used
      <4>1. used \in 0 .. Len(mem)
        BY <1>2
      <4> QED BY <4>1, <1>2, HeadIs
    <3> QED BY <3>1, <1>6, Zenon
  <2>4. Holds(mem, x, used, a)
    BY <2>3, <1>2, <1>6, Zenon DEF Holds
  <2>5. Holds(m, x \o b, u, room)
    <3>1. room \in Nat /\ a <= room /\ used + Len(Body(y)) + 1 <= room
      <4>1. room \in Nat /\ room >= a
        BY <1>10, <1>13, Zenon
      <4>2. a <= room
        BY <4>1, <1>2
      <4>3. used + Len(Body(y)) + 1 <= room
        BY <2>2, Zenon
      <4> QED BY <4>1, <4>2, <4>3, Zenon
    <3> HIDE DEF x, y
    <3>2. y \in Seq(Tok)
      BY <1>9 DEF y
    <3> QED BY <3>1, <3>2, <2>2, <2>4, InPlaceIs
  <2>6. x \o b = SoMuch(p)
    <3> DEFINE now == before \o <<"Q">>
               d == Body(Piece(str, 0, pos))
    <3>1. now \in Seq(Tok)
      BY <1>2, QuoteIs, TokensJoin
    <3>2. d \in Seq(Tok)
      <4>1. Piece(str, 0, pos) \in Seq(Tok)
        BY <1>2, <1>5, HeadPiece
      <4> QED BY <4>1, BodyBound
    <3>3. x = now \o d
      BY DEF SoMuch
    <3>4. SoMuch(p) = now \o (d \o b)
      BY <1>8, Zenon DEF SoMuch
    <3> HIDE DEF now, d, x, b
    <3>5. (now \o d) \o b = now \o (d \o b)
      BY <3>1, <3>2, <2>1, Associates
    <3> QED BY <3>3, <3>4, <3>5, Zenon
  <2>7. Valid(Piece(str, 0, p))
    BY <1>6, <1>8, <1>13
  <2>8. Laid("chunk", str, m, u, room, p, result)
    <3>1. Holds(m, SoMuch(p), u, room)
      BY <2>5, <2>6, Zenon
    <3> HIDE DEF m, u, p, x, b, y
    <3> QED BY <3>1, <2>2, <2>7, <1>5, LaidChunk
  <2>9. Laid(stage', str, mem', used', a', pos', result')
    <3> HIDE DEF m, u, p
    <3> QED BY <2>8, <1>1, <1>13, Zenon
  <2>10. stage' = "invalid" => ~ Valid(str)
    BY <1>1, <1>13
  <2>11. UNCHANGED call /\ UNCHANGED <<str, sane>>
    BY <1>13, Zenon
  <2> QED BY <2>9, <2>10, <2>11, InvNext, Zenon
<1> QED BY <1>1, <1>11, <1>12, <1>13, Zenon

LEMMA SubstituteIs == Substitute \in Seq(Tok) /\ Len(Substitute) \in Nat
<1>1. <<>> \in Seq(Tok) /\ <<"Q", "Q">> \in Seq(Tok) /\ <<"null">> \in Seq(Tok)
  BY TokFacts
<1>2. Substitute \in Seq(Tok)
  BY <1>1, Zenon DEF Substitute
<1> QED BY <1>2, TokenLen

LEMMA SanitizeKeeps ==
  ASSUME StringInv, Sanitize
  PROVE  StringInv'
<1>1. /\ stage = "invalid" /\ stage \in Early /\ str' \in Sanitized(str) /\ sane' = TRUE
      /\ stage' = "emit" /\ flags' = flags /\ before' = before
      /\ mem' = mem /\ used' = used /\ a' = a /\ pos' = pos /\ result' = result
  BY DEF Sanitize, call, Early
<1>2. str' \in Seq(Tok) /\ Valid(str')
  BY <1>1, InvTypes, SanitizedIsValid
<1>3. Laid("emit", str, mem, used, a, pos, result)
  <2>1. "emit" \in Early /\ a \in Nat /\ a >= a
    BY InvTypes DEF Early
  <2> QED BY <2>1, <1>1, MemMoves
<1>4. Laid("emit", str', mem, used, a, pos, result)
  <2>1. "emit" # "chunk" /\ "emit" # "done"
    OBVIOUS
  <2> QED BY <2>1, <1>2, <1>3, Zenon DEF Laid
<1>5. Laid(stage', str', mem', used', a', pos', result')
  BY <1>1, <1>4, Zenon
<1>6. (Laid(stage, str, mem, used, a, pos, result))'
  BY <1>1, <1>5, LaidNext
<1>7. (Valid(str))'
  BY <1>2 DEF Valid, Stray, Starts, WholeAt
<1>8. before \in Seq(Tok)
  BY InvTypes
<1> QED BY <1>1, <1>6, <1>7, <1>8 DEF StringInv

LEMMA MalformedKeeps ==
  ASSUME StringInv, Malformed
  PROVE  StringInv'
<1> DEFINE now == Substitute
           m == Store(mem, used, now)
           u == used + Len(now)
           c == smart_str_alloc(Len(now))
<1>1. /\ stage = "invalid" /\ stage' = "done" /\ result' = "utf8" /\ mem' = m /\ used' = u
      /\ a' = c /\ pos' = pos /\ UNCHANGED call /\ UNCHANGED <<str, sane>>
  BY Zenon DEF Malformed, Finish, Substitute
<1>2. /\ str \in Seq(Tok) /\ mem \in Seq(Tok) /\ used \in Nat /\ a \in Nat /\ pos \in Nat
      /\ before \in Seq(Tok) /\ used = Len(before) /\ Len(before) \in Nat /\ Len(mem) \in Nat
      /\ used <= Len(mem) /\ Len(mem) <= a /\ SubSeq(mem, 1, Len(before)) = before
  <2>1. stage \in Early
    BY <1>1 DEF Early
  <2> QED BY <2>1, InvTypes, Zenon
<1>3. now \in Seq(Tok) /\ Len(now) \in Nat
  BY SubstituteIs
<1> HIDE DEF now
<1>4. c \in Nat /\ c >= a /\ c >= used + Len(now)
  BY <1>2, <1>3, Alloc
<1> HIDE DEF c
<1>5. Holds(mem, before, used, c)
  <2>1. Len(mem) <= c
    BY <1>2, <1>4
  <2> QED BY <2>1, <1>2, <1>4 DEF Holds
<1>6. Holds(m, before, used, c) /\ Holds(m, before \o now, u, c)
  <2>1. used + Len(now) <= c
    BY <1>2, <1>3, <1>4
  <2> QED BY <2>1, <1>3, <1>5, StoreExtends
<1> HIDE DEF m
<1>7. u \in Nat /\ Len(before) <= u /\ u = Len(before) + Len(now)
  BY <1>2, <1>3
<1>8. /\ m \in Seq(Tok) /\ u <= Len(m) /\ Len(m) <= c /\ SubSeq(m, 1, u) = before \o now
      /\ SubSeq(m, 1, Len(before)) = before
  BY <1>2, <1>6, Zenon DEF Holds
<1> HIDE DEF u
<1>9. DoneAt(str, m, u, "utf8")
  <2>1. "utf8" # "ok" /\ "utf8" # "too_large" /\ "utf8" \in {"ok", "utf8", "too_large"}
    OBVIOUS
  <2> QED BY <2>1, <1>7, <1>8, Zenon DEF DoneAt, now
<1>10. "done" \in Stages /\ "done" \notin Early /\ "done" # "chunk"
  BY DEF Stages, Early
<1>11. Laid("done", str, m, u, c, pos, "utf8")
  BY <1>2, <1>4, <1>7, <1>8, <1>9, <1>10, Zenon DEF Laid
<1>12. Laid(stage', str, mem', used', a', pos', result')
  BY <1>1, <1>11, Zenon
<1>13. stage' = "invalid" => ~ Valid(str)
  BY <1>1
<1> QED BY <1>1, <1>12, <1>13, InvNext, Zenon

\* A text given is a text of tokens.
LEMMA GivenIs ==
  ASSUME NEW t \in Seq(STRING)
  PROVE  t \in Seq(Tok) /\ Len(t) \in Nat /\ SubSeq(t, 1, Len(t)) = t
<1>1. STRING \subseteq Tok
  BY DEF Tok
<1>2. /\ Len(t) \in Nat /\ t = [k \in 1 .. Len(t) |-> t[k]] /\ \A k \in 1 .. Len(t) : t[k] \in STRING
  OBVIOUS
<1>3. \A k \in 1 .. Len(t) : t[k] \in Tok
  BY <1>1, <1>2, Zenon
<1> DEFINE n == Len(t)
           v == [k \in 1 .. n |-> t[k]]
<1>4. v \in Seq(Tok) /\ t = v /\ n \in Nat
  <2>1. n \in Nat /\ \A k \in 1 .. n : t[k] \in Tok
    BY <1>2, <1>3
  <2> HIDE DEF n
  <2>2. v \in Seq(Tok)
    BY <2>1, IsASeq
  <2> QED BY <2>1, <2>2, <1>2, Zenon DEF n
<1>5. t \in Seq(Tok)
  BY <1>4, Zenon
<1>6. Piece(t, 0, Len(t)) = t
  <2>1. 0 \in Nat /\ 0 + 0 <= Len(t)
    BY <1>2
  <2> QED BY <2>1, <1>5, CutTokens
<1>7. SubSeq(t, 1, Len(t)) = t
  <2>1. 0 + 1 = 1 /\ 0 + Len(t) = Len(t)
    BY <1>2
  <2> QED BY <2>1, <1>6 DEF Piece
<1> QED BY <1>2, <1>5, <1>7

LEMMA InitKeeps ==
  ASSUME WriterInit
  PROVE  StringInv
<1>1. PICK j \in Jobs : /\ input = j.text /\ flags = j.flags
                        /\ before = j.buffer.bytes /\ mem = j.buffer.bytes
                        /\ used = Len(j.buffer.bytes) /\ a = Len(j.buffer.bytes) + j.buffer.spare
  BY Zenon DEF WriterInit
<1>2. str = input /\ sane = FALSE /\ pos = 0 /\ stage = "emit" /\ result = ""
  BY Zenon DEF WriterInit
<1> DEFINE b == j.buffer.bytes
           r == j.buffer.spare
<1>3. j.text \in Seq(STRING) /\ b \in Seq(STRING) /\ r \in Nat
  BY JobsAssumption, Zenon
<1>4. before = b /\ mem = b /\ used = Len(b) /\ a = Len(b) + r /\ str = j.text
  BY <1>1, <1>2, Zenon
<1> HIDE DEF b, r
<1>5. b \in Seq(Tok) /\ Len(b) \in Nat /\ SubSeq(b, 1, Len(b)) = b /\ str \in Seq(Tok)
  BY <1>3, <1>4, GivenIs
<1>6. used \in Nat /\ a \in Nat /\ used = Len(before) /\ Len(mem) <= a /\ used <= Len(mem)
  BY <1>3, <1>4, <1>5
<1>7. mem \in Seq(Tok) /\ before \in Seq(Tok) /\ SubSeq(mem, 1, Len(before)) = before
  BY <1>4, <1>5
<1>8. /\ stage \in Stages /\ stage \in Early /\ stage # "chunk" /\ stage # "done" /\ stage # "invalid"
      /\ pos \in Nat /\ Len(before) <= used /\ sane = FALSE
  <2>1. stage = "emit" /\ pos = 0 /\ sane = FALSE
    BY <1>2, Zenon
  <2> QED BY <2>1, <1>6 DEF Stages, Early
<1>9. Laid(stage, str, mem, used, a, pos, result)
  BY <1>5, <1>6, <1>7, <1>8, Zenon DEF Laid
<1>10. sane \in BOOLEAN /\ ~ sane
  BY <1>8
<1> QED BY <1>7, <1>8, <1>9, <1>10, Zenon DEF StringInv

LEMMA WriterKeeps ==
  ASSUME StringInv, WriterNext
  PROVE  StringInv'
<1>1. \/ EmitSized \/ EmitOnePass \/ Large \/ WriteTail \/ WriteExact
      \/ ChunkBegin \/ ChunkStep \/ ChunkEnds \/ Sanitize \/ Malformed
  BY Zenon DEF WriterNext
<1> QED BY <1>1, EmitKeeps, LargeKeeps, TailKeeps, ExactKeeps, ChunkBeginKeeps, ChunkStepKeeps,
           ChunkEndsKeeps, SanitizeKeeps, MalformedKeeps, Zenon

\* What the invariant says of the buffer.
LEMMA InvCapacity ==
  ASSUME StringInv
  PROVE  StaysInCapacity
<1>1. used <= a /\ Len(mem) <= a /\ Len(mem) \in Nat /\ a \in Nat /\ Len(before) \in Nat
  BY InvTypes
<1> DEFINE l == Len(before)
           k == Len(mem)
<1>2. k <= a /\ a \in Nat /\ l \in Nat /\ k \in Nat
  BY <1>1
<1> HIDE DEF l, k
<1>3. k <= Most(a, l)
  BY <1>2 DEF Most
<1> QED BY <1>1, <1>3 DEF StaysInCapacity, l, k

LEMMA InvWritten ==
  ASSUME StringInv
  PROVE  StringWritten
<1> DEFINE added == SubSeq(mem, Len(before) + 1, used)
<1>1. /\ str \in Seq(Tok) /\ mem \in Seq(Tok) /\ used \in Nat
      /\ before \in Seq(Tok) /\ Len(before) \in Nat /\ Len(mem) \in Nat
      /\ used <= Len(mem) /\ SubSeq(mem, 1, Len(before)) = before
      /\ stage \in Early => used = Len(before)
  BY InvTypes, Zenon
<1>2. stage \in {"emit", "sized", "invalid", "tail", "exact", "chunks"} => used = Len(before)
  BY <1>1, Zenon DEF Early
<1>3. stage = "invalid" => ~ sane /\ ~ Valid(str)
  BY DEF StringInv
<1>4. SizeIsExact
  BY <1>1, SizeIsRight, Zenon DEF SizeIsExact
<1>5. stage = "done" => DoneAt(str, mem, used, result)
  BY Zenon DEF StringInv, Laid
<1>6. ASSUME stage = "done", result = "ok" PROVE added = Json(str) /\ Valid(str)
  <2>1. Valid(str) /\ used = Len(before) + Len(Json(str)) /\ SubSeq(mem, 1, used) = before \o Json(str)
    BY <1>5, <1>6, Zenon DEF DoneAt
  <2>2. Json(str) \in Seq(Tok)
    BY <1>1, JsonIs, Zenon
  <2>3. added = Json(str)
    <3> DEFINE y == Json(str)
    <3>1. /\ mem \in Seq(Tok) /\ before \in Seq(Tok) /\ y \in Seq(Tok)
          /\ used = Len(before) + Len(y) /\ used <= Len(mem) /\ SubSeq(mem, 1, used) = before \o y
      BY <2>1, <2>2, <1>1, Zenon
    <3> HIDE DEF y
    <3>2. SubSeq(mem, Len(before) + 1, used) = y
      BY <3>1, AddedIs
    <3> QED BY <3>2 DEF y
  <2> QED BY <2>1, <2>3
<1>7. ASSUME stage = "done", result = "too_large" PROVE added = <<>>
  <2>1. used = Len(before)
    BY <1>5, <1>7, Zenon DEF DoneAt
  <2> DEFINE l == Len(before)
  <2>2. l \in Nat /\ used = l
    BY <2>1, <1>1
  <2> HIDE DEF l
  <2>3. SubSeq(mem, l + 1, l) = <<>>
    <3>1. mem \in Seq(Tok) /\ l + 0 <= Len(mem) /\ 0 \in Nat /\ l + 0 = l
      <4>1. used <= Len(mem) /\ Len(mem) \in Nat /\ mem \in Seq(Tok)
        BY <1>1, Zenon
      <4> QED BY <4>1, <2>2
    <3> DEFINE e == Piece(mem, l, 0)
    <3>2. e \in Seq(Tok) /\ Len(e) = 0
      BY <3>1, <2>2, CutTokens
    <3>3. e = SubSeq(mem, l + 1, l)
      BY <3>1 DEF Piece
    <3> HIDE DEF e
    <3>4. e = <<>>
      BY <3>2
    <3> QED BY <3>3, <3>4
  <2> QED BY <2>2, <2>3 DEF l
<1>8. ASSUME stage = "done", result = "utf8" PROVE added = Substitute
  <2>1. used = Len(before) + Len(Substitute) /\ SubSeq(mem, 1, used) = before \o Substitute
    <3>1. DoneAt(str, mem, used, "utf8")
      BY <1>5, <1>8, Zenon
    <3> QED BY <3>1, Zenon DEF DoneAt
  <2> DEFINE y == Substitute
  <2>2. /\ mem \in Seq(Tok) /\ before \in Seq(Tok) /\ y \in Seq(Tok)
        /\ used = Len(before) + Len(y) /\ used <= Len(mem) /\ SubSeq(mem, 1, used) = before \o y
    BY <2>1, <1>1, SubstituteIs, Zenon
  <2> HIDE DEF y
  <2>3. SubSeq(mem, Len(before) + 1, used) = y
    BY <2>2, AddedIs
  <2> QED BY <2>3 DEF y
<1>9. stage = "done" => result \in {"ok", "utf8", "too_large"}
  BY <1>5, Zenon DEF DoneAt
<1>10. stage = "done" =>
         CASE result = "ok" -> added = Json(str) /\ Valid(str)
           [] result = "too_large" -> added = <<>>
           [] result = "utf8" -> added = Substitute
  <2> HIDE DEF added
  <2> QED BY <1>6, <1>7, <1>8, <1>9
<1> HIDE DEF added
<1> QED BY <1>1, <1>2, <1>3, <1>4, <1>10, Zenon DEF StringWritten, Substitute, added

-----------------------------------------------------------------------------
(* The whole of dw_emit_string_ex *)

HexStages == {"count", "rewrite", "done", "too_large"}

EmitInv ==
    /\ hex_pc \in HexStages /\ growth \in Nat
    /\ hex_pc = "count" => StringInv
    /\ hex_pc # "count" => /\ stage = "done" /\ used \in Nat /\ a \in Nat /\ used <= a
                           /\ before \in Seq(Tok) /\ Len(mem) \in Nat /\ Len(mem) <= a
    /\ hex_pc = "rewrite" => used + growth <= a

\* A step of the forward pass leaves the buffer alone, up to its last.
LEMMA HexCounts ==
  ASSUME growth \in Nat,
         HexPass!CountEscapedQuote \/ HexPass!CountEscape \/ HexPass!CountByte
  PROVE  /\ hex_pc = "count" /\ (hex_pc' = "count" \/ hex_pc' = "too_large") /\ growth' \in Nat
         /\ mem' = mem /\ used' = used /\ a' = a
<1>1. CASE HexPass!CountEscapedQuote
  BY <1>1 DEF HexPass!CountEscapedQuote, HexPass!Grow, HexPass!Count, HexPass!TooLarge, HexPass!buf
<1>2. CASE HexPass!CountEscape
  BY <1>2 DEF HexPass!CountEscape, HexPass!Count, HexPass!buf
<1>3. CASE HexPass!CountByte
  BY <1>3 DEF HexPass!CountByte, HexPass!Grow, HexPass!Count, HexPass!TooLarge, HexPass!buf
<1> QED BY <1>1, <1>2, <1>3

LEMMA HexEnds ==
  ASSUME HexPass!CountEnds
  PROVE  /\ hex_pc = "count" /\ growth' = growth /\ used' = used /\ hex_i' = hex_i
         /\ hex_i >= HexPass!orig_len
         /\ \/ growth = 0 /\ hex_pc' = "done" /\ UNCHANGED <<mem, a, read, write>>
            \/ hex_pc' = "too_large" /\ UNCHANGED <<mem, a, read, write>>
            \/ /\ growth # 0 /\ hex_pc' = "rewrite"
               /\ a' = (IF used + growth >= a THEN used + growth ELSE a)
               /\ mem' = SubSeq(mem, 1, used) \o [k \in 1 .. growth |-> "unset"]
               /\ read' = used /\ write' = used + growth
BY DEF HexPass!CountEnds, HexPass!buf

LEMMA HexRewrites ==
  ASSUME HexPass!RewriteStep
  PROVE  /\ hex_pc = "rewrite" /\ hex_pc' = "rewrite" /\ growth' = growth /\ used' = used /\ a' = a
         /\ \E what, n : HexPass!Rewrite(what, n)
BY DEF HexPass!RewriteStep, HexPass!Rewrite

LEMMA HexRewriteLen ==
  ASSUME Len(mem) \in Nat, NEW what, NEW n, HexPass!Rewrite(what, n)
  PROVE  Len(mem') = Len(mem)
<1> DEFINE l == Len(mem)
           v == [k \in 1 .. l |-> IF k \in write - Len(what) + 1 .. write
                                  THEN what[k - write + Len(what)] ELSE mem[k]]
<1>1. mem' = v
  BY DEF HexPass!Rewrite
<1>2. l \in Nat
  OBVIOUS
<1> HIDE DEF l
<1>3. Len(v) = l
  BY <1>2
<1> QED BY <1>1, <1>3 DEF l

LEMMA NotDone ==
  ASSUME WriterNext
  PROVE  stage # "done"
<1>1. stage \in {"emit", "sized", "tail", "exact", "chunks", "chunk", "invalid"}
  <2>1. CASE EmitSized \/ EmitOnePass
    BY <2>1, Zenon DEF EmitSized, EmitOnePass
  <2>2. CASE Large \/ WriteTail \/ WriteExact
    BY <2>2, Zenon DEF Large, WriteTail, WriteExact
  <2>3. CASE ChunkBegin \/ ChunkStep \/ ChunkEnds
    BY <2>3, Zenon DEF ChunkBegin, ChunkStep, ChunkEnds
  <2>4. CASE Sanitize \/ Malformed
    BY <2>4, Zenon DEF Sanitize, Malformed
  <2> QED BY <2>1, <2>2, <2>3, <2>4, Zenon DEF WriterNext
<1> QED BY <1>1

LEMMA EmitKeepsInv ==
  ASSUME EmitInv, [EmitNext]_allvars
  PROVE  EmitInv'
<1>1. CASE WriteStep
  <2>1. UNCHANGED hexvars /\ WriterNext
    BY <1>1 DEF WriteStep
  <2>2. stage # "done"
    BY <2>1, NotDone
  <2>3. hex_pc = "count" /\ StringInv
    BY <2>2 DEF EmitInv
  <2>4. StringInv'
    BY <2>1, <2>3, WriterKeeps
  <2>5. hex_pc' = hex_pc /\ growth' = growth
    BY <2>1 DEF hexvars
  <2> QED BY <2>3, <2>4, <2>5 DEF EmitInv
<1>2. CASE dw_apply_hex_escapes
  <2>1. stage = "done" /\ UNCHANGED <<call, str, sane, pos, stage>> /\ HexPass!Next
    BY <1>2 DEF dw_apply_hex_escapes
  <2>2. stage' = "done" /\ growth \in Nat /\ before' = before /\ before \in Seq(Tok)
    <3>1. before \in Seq(Tok)
      BY InvTypes, Zenon DEF EmitInv
    <3> QED BY <2>1, <3>1 DEF EmitInv, call
  <2>3. CASE HexPass!CountEscapedQuote \/ HexPass!CountEscape \/ HexPass!CountByte
    <3>1. /\ hex_pc = "count" /\ (hex_pc' = "count" \/ hex_pc' = "too_large") /\ growth' \in Nat
          /\ mem' = mem /\ used' = used /\ a' = a
      BY <2>2, <2>3, HexCounts, Zenon
    <3>2. StringInv
      BY <3>1 DEF EmitInv
    <3>3. result' = IF hex_pc' = "too_large" THEN "too_large" ELSE result
      BY <1>2, Zenon DEF dw_apply_hex_escapes
    <3>4. CASE hex_pc' = "count"
      <4>1. result' = result
        BY <3>3, <3>4
      <4>2. StringInv'
        <5>1. Laid(stage', str, mem', used', a', pos', result')
          <6>1. stage' = stage /\ pos' = pos
            BY <2>1
          <6>2. Laid(stage, str, mem, used, a, pos, result)
            BY <3>2 DEF StringInv
          <6> QED BY <6>1, <6>2, <3>1, <4>1, Zenon
        <5>2. stage' = "invalid" => ~ Valid(str)
          BY <2>2
        <5>3. UNCHANGED call /\ UNCHANGED <<str, sane>>
          BY <2>1
        <5> QED BY <5>1, <5>2, <5>3, <3>2, InvNext, Zenon
      <4> QED BY <3>1, <3>4, <4>2 DEF EmitInv, HexStages
    <3>5. CASE hex_pc' = "too_large"
      <4>1. used \in Nat /\ a \in Nat /\ used <= a /\ Len(mem) \in Nat /\ Len(mem) <= a
        BY <3>2, InvTypes, Zenon
      <4> QED BY <2>2, <3>1, <3>5, <4>1 DEF EmitInv, HexStages
    <3> QED BY <3>1, <3>4, <3>5
  <2>4. CASE HexPass!CountEnds
    <3>1. hex_pc = "count" /\ StringInv
      BY <2>4, HexEnds DEF EmitInv
    <3>2. /\ used \in Nat /\ a \in Nat /\ used <= a /\ Len(mem) \in Nat /\ Len(mem) <= a
          /\ used <= Len(mem) /\ mem \in Seq(Tok)
      BY <3>1, InvTypes, Zenon
    <3>3. /\ growth' = growth /\ used' = used
          /\ \/ hex_pc' = "done" /\ UNCHANGED <<mem, a, read, write>>
             \/ hex_pc' = "too_large" /\ UNCHANGED <<mem, a, read, write>>
             \/ /\ hex_pc' = "rewrite"
                /\ a' = (IF used + growth >= a THEN used + growth ELSE a)
                /\ mem' = SubSeq(mem, 1, used) \o [k \in 1 .. growth |-> "unset"]
                /\ read' = used /\ write' = used + growth
      BY <2>4, HexEnds, Zenon
    <3>4. CASE (hex_pc' = "done" \/ hex_pc' = "too_large") /\ mem' = mem /\ a' = a
      BY <2>2, <3>2, <3>3, <3>4 DEF EmitInv, HexStages
    <3>5. CASE /\ hex_pc' = "rewrite"
               /\ a' = (IF used + growth >= a THEN used + growth ELSE a)
               /\ mem' = SubSeq(mem, 1, used) \o [k \in 1 .. growth |-> "unset"]
      <4> DEFINE x == SubSeq(mem, 1, used)
                 y == [k \in 1 .. growth |-> "unset"]
      <4>1. x \in Seq(Tok) /\ Len(x) = used
        <5>1. used \in 0 .. Len(mem)
          BY <3>2
        <5> QED BY <5>1, <3>2, HeadIs
      <4>2. y \in Seq(Tok) /\ Len(y) = growth
        <5>1. \A k \in 1 .. growth : "unset" \in Tok
          BY TokFacts
        <5> QED BY <5>1, <2>2
      <4> HIDE DEF x, y
      <4>3. Len(x \o y) = used + growth
        BY <4>1, <4>2, TokensJoin
      <4>4. Len(mem') = used + growth
        BY <3>5, <4>3 DEF x, y
      <4>5. a' \in Nat /\ used + growth <= a' /\ used <= a'
        BY <2>2, <3>2, <3>5
      <4>6. Len(mem') \in Nat /\ Len(mem') <= a'
        BY <2>2, <3>2, <4>4, <4>5
      <4> QED BY <2>2, <3>2, <3>3, <3>5, <4>5, <4>6 DEF EmitInv, HexStages
    <3> QED BY <3>3, <3>4, <3>5
  <2>5. CASE HexPass!RewriteStep
    <3>1. /\ hex_pc = "rewrite" /\ hex_pc' = "rewrite" /\ growth' = growth /\ used' = used /\ a' = a
      BY <2>5, HexRewrites
    <3>2. /\ used \in Nat /\ a \in Nat /\ used <= a /\ Len(mem) \in Nat /\ Len(mem) <= a
          /\ used + growth <= a
      BY <3>1 DEF EmitInv
    <3>3. Len(mem') = Len(mem)
      BY <2>5, <3>2, HexRewrites, HexRewriteLen
    <3> QED BY <2>2, <3>1, <3>2, <3>3 DEF EmitInv, HexStages
  <2>6. CASE HexPass!RewriteEnds
    <3>1. /\ hex_pc = "rewrite" /\ hex_pc' = "done" /\ growth' = growth
          /\ used' = used + growth /\ a' = a /\ mem' = mem
      BY <2>6 DEF HexPass!RewriteEnds
    <3>2. /\ used \in Nat /\ a \in Nat /\ used <= a /\ Len(mem) \in Nat /\ Len(mem) <= a
          /\ used + growth <= a
      BY <3>1 DEF EmitInv
    <3>3. used' \in Nat /\ used' <= a'
      BY <2>2, <3>1, <3>2
    <3> QED BY <2>2, <3>1, <3>2, <3>3 DEF EmitInv, HexStages
  <2>7. \/ HexPass!CountEscapedQuote \/ HexPass!CountEscape \/ HexPass!CountByte
        \/ HexPass!CountEnds \/ HexPass!RewriteStep \/ HexPass!RewriteEnds
    BY <2>1, Zenon DEF HexPass!Next
  <2> QED BY <2>3, <2>4, <2>5, <2>6, <2>7, Zenon
<1>3. CASE UNCHANGED allvars
  <2>1. /\ hex_pc' = hex_pc /\ growth' = growth /\ stage' = stage /\ used' = used /\ a' = a
        /\ mem' = mem /\ UNCHANGED call /\ UNCHANGED <<str, sane>> /\ pos' = pos /\ result' = result
        /\ before' = before
    BY <1>3 DEF allvars, hexvars, writervars, call
  <2>2. StringInv => StringInv'
    <3>1. ASSUME StringInv PROVE StringInv'
      <4>1. Laid(stage', str, mem', used', a', pos', result')
        BY <2>1, <3>1, Zenon DEF StringInv
      <4>2. stage' = "invalid" => ~ Valid(str)
        BY <2>1, <3>1, Zenon DEF StringInv
      <4>3. UNCHANGED call /\ UNCHANGED <<str, sane>>
        BY <2>1
      <4> QED BY <3>1, <4>1, <4>2, <4>3, InvNext, Zenon
    <3> QED BY <3>1
  <2> QED BY <2>1, <2>2 DEF EmitInv
<1> QED BY <1>1, <1>2, <1>3 DEF EmitNext

LEMMA EmitStarts ==
  ASSUME EmitInit
  PROVE  EmitInv
<1>1. WriterInit /\ hex_pc = "count" /\ growth = 0
  BY DEF EmitInit, HexPass!Init
<1> QED BY <1>1, InitKeeps DEF EmitInv, HexStages

LEMMA EmitAlways == EmitSpec => []EmitInv
<1>1. EmitInit => EmitInv
  BY EmitStarts
<1>2. EmitInv /\ [EmitNext]_allvars => EmitInv'
  BY EmitKeepsInv
<1> QED BY <1>1, <1>2, PTL DEF EmitSpec

(***************************************************************************)
(* For every string, buffer and threshold: whichever estimate the room was *)
(* taken from (six times the string, the prefix and six times the tail,    *)
(* the projection made between two chunks, the exact size), nothing is     *)
(* stored outside of it.                                                   *)
(***************************************************************************)
THEOREM StringStaysInCapacity == EmitSpec => []StaysInCapacity
<1>1. EmitInv => StaysInCapacity
  <2>1. CASE hex_pc = "count"
    BY <2>1, InvCapacity DEF EmitInv
  <2>2. CASE hex_pc # "count" /\ EmitInv
    <3> DEFINE l == Len(before)
               k == Len(mem)
    <3>1. used <= a /\ k <= a /\ a \in Nat /\ k \in Nat
      BY <2>2 DEF EmitInv
    <3>2. l \in Nat
      <4>1. before \in Seq(Tok)
        BY <2>2 DEF EmitInv
      <4> QED BY <4>1, TokenLen
    <3> HIDE DEF l, k
    <3>3. k <= Most(a, l)
      BY <3>1, <3>2 DEF Most
    <3> QED BY <3>1, <3>3 DEF StaysInCapacity, l, k
  <2> QED BY <2>1, <2>2
<1> QED BY <1>1, EmitAlways, PTL

(***************************************************************************)
(* For every string, buffer and threshold: however a string is written     *)
(* (in one pass, copied, as a prefix and a tail, measured first, chunk by  *)
(* chunk in place, or again once sanitized), the buffer ends up as one     *)
(* pass of the library would have left it, earlier output is untouched     *)
(* throughout, and a string that fails leaves the length where it was.     *)
(***************************************************************************)
THEOREM StringIsWritten == EmitSpec => []WritesTheString
<1>1. EmitInv => WritesTheString
  BY InvWritten DEF EmitInv, WritesTheString
<1> QED BY <1>1, EmitAlways, PTL

-----------------------------------------------------------------------------
(* The hexadecimal escapes: what is written for a character *)

Glyphs ==
    {<<c>> : c \in Tok \ {"Q", "\\"}} \cup {Pair(c) : c \in {"Q", "\\", "/"}}
    \cup {Unit(c) : c \in {"ctl", "L2", "L3", "high", "low"}}
Shapes == Glyphs \cup {<<"Q">>}

\* What becomes of one of them.
HexOf(g) ==
    IF g = Pair("Q") /\ "quot" \in flags THEN HexPass!Hex("Q")
    ELSE IF Len(g) = 1 /\ HexPass!Special(g[1]) THEN HexPass!Hex(g[1])
    ELSE g
Hexes(v) == [k \in 1 .. Len(v) |-> HexOf(v[k])]

LEMMA SpecialIs ==
  ASSUME NEW c, HexPass!Special(c)
  PROVE  c \in {"<", ">", "&", "'"}
BY DEF HexPass!Special

LEMMA HexIs ==
  ASSUME NEW c \in Tok
  PROVE  HexPass!Hex(c) \in Seq(Tok) /\ Len(HexPass!Hex(c)) = 6
<1>1. "\\" \in Tok /\ "u" \in Tok /\ "0" \in Tok /\ "hex" \in Tok
  BY TokFacts
<1> QED BY <1>1 DEF HexPass!Hex

\* The glyphs by what stands in them.
LEMMA ShapeIs ==
  ASSUME NEW g \in Shapes
  PROVE  \/ g = <<"Q">>
         \/ \E c \in Tok : c # "Q" /\ c # "\\" /\ g = <<c>>
         \/ \E c \in {"Q", "\\", "/"} : g = <<"\\", c>>
         \/ \E c \in {"ctl", "L2", "L3", "high", "low"} : g = <<"\\", "u", "h", "h", "h", c>>
BY DEF Shapes, Glyphs, Pair, Unit

LEMMA ShapeTyped ==
  ASSUME NEW g \in Shapes
  PROVE  g \in Seq(Tok) /\ Len(g) \in {1, 2, 6}
<1>1. CASE g = <<"Q">>
  BY <1>1, TokFacts
<1>2. ASSUME NEW c \in Tok, g = <<c>> PROVE g \in Seq(Tok) /\ Len(g) = 1
  BY <1>2
<1>3. ASSUME NEW c \in {"Q", "\\", "/"}, g = <<"\\", c>> PROVE g \in Seq(Tok) /\ Len(g) = 2
  BY <1>3, TokFacts
<1>4. ASSUME NEW c \in {"ctl", "L2", "L3", "high", "low"}, g = <<"\\", "u", "h", "h", "h", c>>
      PROVE  g \in Seq(Tok) /\ Len(g) = 6
  BY <1>4, TokFacts
<1> QED BY <1>1, <1>2, <1>3, <1>4, ShapeIs

\* What each becomes: a pair with a quote, a single special character, itself.
LEMMA HexOfIs ==
  ASSUME NEW g \in Shapes
  PROVE  /\ HexOf(g) \in Seq(Tok)
         /\ HexOf(g) = g \/ (Len(HexOf(g)) = 6 /\ Len(g) \in {1, 2})
         /\ g = <<"\\", "Q">> =>
               HexOf(g) = IF "quot" \in flags THEN HexPass!Hex("Q") ELSE g
         /\ \A c \in Tok : g = <<c>> =>
               HexOf(g) = IF HexPass!Special(c) THEN HexPass!Hex(c) ELSE g
         /\ Len(g) # 1 /\ (g # <<"\\", "Q">> \/ "quot" \notin flags) => HexOf(g) = g
<1>1. g \in Seq(Tok) /\ Len(g) \in {1, 2, 6}
  BY ShapeTyped
<1>2. Pair("Q") = <<"\\", "Q">> /\ Len(<<"\\", "Q">>) = 2
  BY DEF Pair
<1>3. CASE g = Pair("Q") /\ "quot" \in flags
  <2>1. HexOf(g) = HexPass!Hex("Q")
    BY <1>3 DEF HexOf
  <2>2. "Q" \in Tok
    BY TokFacts
  <2>3. HexOf(g) \in Seq(Tok) /\ Len(HexOf(g)) = 6
    BY <2>1, <2>2, HexIs
  <2>4. Len(g) = 2
    BY <1>2, <1>3
  <2>5. \A c \in Tok : g # <<c>>
    BY <2>4
  <2> QED BY <1>2, <1>3, <2>1, <2>3, <2>4, <2>5
<1>4. CASE ~ (g = Pair("Q") /\ "quot" \in flags) /\ Len(g) = 1 /\ HexPass!Special(g[1])
  <2>1. HexOf(g) = HexPass!Hex(g[1])
    BY <1>4, Zenon DEF HexOf
  <2>2. g[1] \in Tok
    BY <1>1, <1>4
  <2>3. HexOf(g) \in Seq(Tok) /\ Len(HexOf(g)) = 6
    BY <2>1, <2>2, HexIs
  <2>4. g # <<"\\", "Q">>
    BY <1>2, <1>4
  <2>5. ASSUME NEW c \in Tok, g = <<c>> PROVE g[1] = c
    BY <2>5
  <2> QED BY <1>4, <2>1, <2>3, <2>4, <2>5
<1>5. CASE ~ (g = Pair("Q") /\ "quot" \in flags) /\ ~ (Len(g) = 1 /\ HexPass!Special(g[1]))
  <2>1. HexOf(g) = g
    BY <1>5, Zenon DEF HexOf
  <2>2. g = <<"\\", "Q">> => "quot" \notin flags
    BY <1>2, <1>5
  <2>3. ASSUME NEW c \in Tok, g = <<c>> PROVE ~ HexPass!Special(c)
    <3>1. Len(g) = 1 /\ g[1] = c
      BY <2>3
    <3> QED BY <1>5, <3>1
  <2> QED BY <1>1, <2>1, <2>2, <2>3
<1> QED BY <1>3, <1>4, <1>5

\* A byte tells what glyph it is in, if it is one of those that matter.
LEMMA ByteInShape ==
  ASSUME NEW g \in Shapes, NEW d \in 1 .. Len(g)
  PROVE  /\ g[d] = "Q" => g = <<"Q">> \/ (g = <<"\\", "Q">> /\ d = 2)
         /\ HexPass!Special(g[d]) => g = <<g[d]>>
         /\ g[d] \in Tok
         /\ g[1] = "\\" <=> Len(g) > 1
         /\ Len(g) = 2 => g[2] # "u" /\ (g[2] = "Q" <=> g = <<"\\", "Q">>)
         /\ Len(g) = 6 => g[2] = "u"
<1> DEFINE Goal == 
         /\ g[d] = "Q" => g = <<"Q">> \/ (g = <<"\\", "Q">> /\ d = 2)
         /\ HexPass!Special(g[d]) => g = <<g[d]>>
         /\ g[d] \in Tok
         /\ g[1] = "\\" <=> Len(g) > 1
         /\ Len(g) = 2 => g[2] # "u" /\ (g[2] = "Q" <=> g = <<"\\", "Q">>)
         /\ Len(g) = 6 => g[2] = "u"
<1>0. \A c : HexPass!Special(c) => c \in {"<", ">", "&", "'"}
  BY SpecialIs
<1>1. CASE g = <<"Q">>
  <2>1. d = 1 /\ Len(g) = 1 /\ g[1] = "Q"
    BY <1>1
  <2>2. "Q" \in Tok /\ "Q" # "\\"
    BY TokFacts
  <2> QED BY <1>0, <1>1, <2>1, <2>2
<1>2. ASSUME NEW c \in Tok, c # "Q", c # "\\", g = <<c>> PROVE Goal
  <2>1. d = 1 /\ Len(g) = 1 /\ g[1] = c
    BY <1>2
  <2> QED BY <1>2, <2>1
<1>3. ASSUME NEW c \in {"Q", "\\", "/"}, g = <<"\\", c>> PROVE Goal
  <2>1. d \in {1, 2} /\ Len(g) = 2 /\ g[1] = "\\" /\ g[2] = c
    BY <1>3
  <2>2. c \in Tok /\ "\\" \in Tok /\ c # "u" /\ "\\" # "Q"
    BY TokFacts
  <2> QED BY <1>0, <1>3, <2>1, <2>2
<1>4. ASSUME NEW c \in {"ctl", "L2", "L3", "high", "low"}, g = <<"\\", "u", "h", "h", "h", c>>
      PROVE  Goal
  <2>1. /\ d \in {1, 2, 3, 4, 5, 6} /\ Len(g) = 6 /\ g[1] = "\\" /\ g[2] = "u" /\ g[3] = "h"
        /\ g[4] = "h" /\ g[5] = "h" /\ g[6] = c
    BY <1>4
  <2>2. c \in Tok /\ "\\" \in Tok /\ "u" \in Tok /\ "h" \in Tok
    BY TokFacts
  <2>3. g[d] \in {"\\", "u", "h", c}
    BY <2>1
  <2> QED BY <1>0, <2>1, <2>2, <2>3
<1> QED BY <1>1, <1>2, <1>3, <1>4, ShapeIs

-----------------------------------------------------------------------------
(* The glyphs of a string *)

LEMMA FlatFew ==
  ASSUME NEW S, NEW x \in Seq(S), NEW y \in Seq(S)
  PROVE  FlattenSeq(<<x>>) = x /\ FlattenSeq(<<x, y>>) = x \o y
<1>1. /\ <<>> \in Seq(Seq(S)) /\ <<x>> \in Seq(Seq(S))
      /\ <<x>> = Append(<<>>, x) /\ <<x, y>> = Append(<<x>>, y)
  OBVIOUS
<1>2. FlattenSeq(<<>>) = <<>> /\ <<>> \o x = x
  BY FlattenAppend
<1>3. FlattenSeq(<<x>>) = <<>> \o x
  BY <1>1, <1>2, FlattenAppend
<1>4. FlattenSeq(<<x, y>>) = FlattenSeq(<<x>>) \o y
  BY <1>1, FlattenAppend
<1> QED BY <1>2, <1>3, <1>4

LEMMA FlatSingles ==
  ASSUME NEW S, NEW x \in Seq(S)
  PROVE  FlattenSeq([k \in 1 .. Len(x) |-> <<x[k]>>]) = x
<1> DEFINE q == [k \in 1 .. Len(x) |-> <<x[k]>>]
           l == Len(x)
<1>1. q \in Seq(Seq(S)) /\ Len(q) = l /\ l \in Nat /\ \A k \in 1 .. l : q[k] = <<x[k]>>
  <2>1. l \in Nat /\ \A k \in 1 .. l : <<x[k]>> \in Seq(S)
    OBVIOUS
  <2> QED BY <2>1
<1> HIDE DEF q, l
<1>2. /\ Flat(q, 0) = <<>> /\ FlattenSeq(q) = Flat(q, l)
      /\ \A n \in 1 .. l : Flat(q, n) = Flat(q, n - 1) \o q[n]
  BY <1>1, FlatSteps
<1>3. \A n \in 0 .. l : Flat(q, n) = SubSeq(x, 1, n)
  <2> DEFINE P == {n \in 0 .. l : Flat(q, n) = SubSeq(x, 1, n)}
  <2>1. 0 \in P
    <3>1. SubSeq(x, 1, 0) = <<>> /\ 0 \in 0 .. l
      BY <1>1
    <3> QED BY <1>2, <3>1
  <2>2. ASSUME NEW n \in 0 .. l - 1, n \in P PROVE n + 1 \in P
    <3>1. n + 1 \in 1 .. l /\ (n + 1) - 1 = n /\ n + 1 \in 0 .. l
      BY <1>1
    <3>2. Flat(q, n + 1) = Flat(q, n) \o q[n + 1]
      BY <1>2, <3>1
    <3>3. Flat(q, n) = SubSeq(x, 1, n) /\ q[n + 1] = <<x[n + 1]>>
      BY <1>1, <2>2, <3>1
    <3>4. SubSeq(x, 1, n + 1) = SubSeq(x, 1, n) \o <<x[n + 1]>>
      <4>1. n + 1 \in 1 .. Len(x)
        BY <3>1 DEF l
      <4> QED BY <4>1
    <3> QED BY <3>1, <3>2, <3>3, <3>4
  <2> HIDE DEF P
  <2>3. \A n \in 0 .. l : n \in P
    BY <1>1, <2>1, <2>2, InductionUpTo
  <2> QED BY <2>3 DEF P
<1>4. SubSeq(x, 1, l) = x /\ l \in 0 .. l
  BY <1>1 DEF l
<1>5. FlattenSeq(q) = x
  BY <1>2, <1>3, <1>4
<1> QED BY <1>5 DEF q, l

\* A glyph kept, or escaped.
Glyphed(v, x, y) == v \in Seq(Glyphs) /\ FlattenSeq(v) = x /\ FlattenSeq(Hexes(v)) = y

LEMMA GlyphedOne ==
  ASSUME NEW g \in Glyphs
  PROVE  Glyphed(<<g>>, g, HexOf(g))
<1>1. g \in Shapes
  BY DEF Shapes
<1>2. g \in Seq(Tok) /\ HexOf(g) \in Seq(Tok)
  BY <1>1, ShapeTyped, HexOfIs
<1>3. Hexes(<<g>>) = <<HexOf(g)>>
  <2>1. Len(<<g>>) = 1 /\ <<g>>[1] = g
    OBVIOUS
  <2> DEFINE h == HexOf(g)
  <2>2. \A k \in 1 .. 1 : HexOf(<<g>>[k]) = h
    BY <2>1
  <2>3. Hexes(<<g>>) = [k \in 1 .. 1 |-> HexOf(<<g>>[k])]
    BY <2>1 DEF Hexes
  <2> HIDE DEF h
  <2>4. Hexes(<<g>>) = [k \in 1 .. 1 |-> h]
    BY <2>2, <2>3
  <2>5. [k \in 1 .. 1 |-> h] = <<h>>
    OBVIOUS
  <2> QED BY <2>4, <2>5 DEF h
<1>4. FlattenSeq(<<g>>) = g /\ FlattenSeq(<<HexOf(g)>>) = HexOf(g)
  BY <1>2, FlatFew
<1>5. <<g>> \in Seq(Glyphs)
  OBVIOUS
<1> QED BY <1>3, <1>4, <1>5 DEF Glyphed

LEMMA HexesAre ==
  ASSUME NEW v \in Seq(Shapes)
  PROVE  /\ v \in Seq(Seq(Tok)) /\ Hexes(v) \in Seq(Seq(Tok)) /\ Len(Hexes(v)) = Len(v)
         /\ Len(v) \in Nat /\ \A k \in 1 .. Len(v) : v[k] \in Shapes /\ Hexes(v)[k] = HexOf(v[k])
<1>1. Len(v) \in Nat /\ \A k \in 1 .. Len(v) : v[k] \in Shapes
  OBVIOUS
<1>2. \A k \in 1 .. Len(v) : v[k] \in Seq(Tok) /\ HexOf(v[k]) \in Seq(Tok)
  BY <1>1, ShapeTyped, HexOfIs
<1> DEFINE l == Len(v)
<1>3. l \in Nat /\ v \in Seq(Shapes) /\ \A k \in 1 .. l : v[k] \in Seq(Tok) /\ HexOf(v[k]) \in Seq(Tok)
  BY <1>1, <1>2
<1>4. v \in Seq(Seq(Tok))
  BY <1>2
<1>5. Hexes(v) = [k \in 1 .. l |-> HexOf(v[k])]
  BY DEF Hexes
<1> HIDE DEF l
<1>6. Hexes(v) \in Seq(Seq(Tok)) /\ Len(Hexes(v)) = l /\ \A k \in 1 .. l : Hexes(v)[k] = HexOf(v[k])
  BY <1>3, <1>5, IsASeq
<1> QED BY <1>1, <1>4, <1>6 DEF l

LEMMA HexesJoin ==
  ASSUME NEW v \in Seq(Shapes), NEW u \in Seq(Shapes)
  PROVE  Hexes(v \o u) = Hexes(v) \o Hexes(u) /\ v \o u \in Seq(Shapes)
<1>0. v \o u \in Seq(Shapes)
  OBVIOUS
<1> DEFINE lv == Len(v)
           lu == Len(u)
           c == v \o u
           hv == Hexes(v)
           hu == Hexes(u)
           hc == Hexes(c)
<1>1. /\ lv \in Nat /\ lu \in Nat /\ Len(c) = lv + lu
      /\ \A k \in 1 .. lv : c[k] = v[k]
      /\ \A k \in lv + 1 .. lv + lu : c[k] = u[k - lv]
  BY Joined
<1>2. /\ hv \in Seq(Seq(Tok)) /\ Len(hv) = lv /\ \A k \in 1 .. lv : hv[k] = HexOf(v[k])
      /\ hu \in Seq(Seq(Tok)) /\ Len(hu) = lu /\ \A k \in 1 .. lu : hu[k] = HexOf(u[k])
      /\ hc \in Seq(Seq(Tok)) /\ Len(hc) = Len(c) /\ \A k \in 1 .. Len(c) : hc[k] = HexOf(c[k])
  BY <1>0, HexesAre
<1> HIDE DEF lv, lu, c, hv, hu, hc
<1>3. /\ hv \o hu \in Seq(Seq(Tok)) /\ Len(hv \o hu) = lv + lu
      /\ \A k \in 1 .. lv : (hv \o hu)[k] = hv[k]
      /\ \A k \in lv + 1 .. lv + lu : (hv \o hu)[k] = hu[k - lv]
  BY <1>2, JoinedOf
<1> DEFINE j == hv \o hu
<1>4. \A k \in 1 .. lv + lu : hc[k] = j[k]
  <2>1. ASSUME NEW k \in 1 .. lv PROVE hc[k] = j[k]
    <3>1. k \in 1 .. Len(c)
      BY <1>1
    <3> QED BY <3>1, <1>1, <1>2, <1>3
  <2>2. ASSUME NEW k \in lv + 1 .. lv + lu PROVE hc[k] = j[k]
    <3>1. k \in 1 .. Len(c) /\ k - lv \in 1 .. lu
      BY <1>1
    <3> QED BY <3>1, <1>1, <1>2, <1>3
  <2>3. \A k \in 1 .. lv + lu : k \in 1 .. lv \/ k \in lv + 1 .. lv + lu
    BY <1>1
  <2> QED BY <2>1, <2>2, <2>3
<1>5. j \in Seq(Seq(Tok)) /\ Len(j) = lv + lu /\ hc \in Seq(Seq(Tok)) /\ Len(hc) = lv + lu
  BY <1>1, <1>2, <1>3
<1> HIDE DEF j
<1>6. hc = j
  <2> DEFINE n == lv + lu
  <2>1. hc = [k \in 1 .. n |-> hc[k]] /\ j = [k \in 1 .. n |-> j[k]]
    BY <1>5
  <2>2. \A k \in 1 .. n : hc[k] = j[k]
    BY <1>4
  <2> HIDE DEF n
  <2> QED BY <2>1, <2>2
<1> QED BY <1>0, <1>6 DEF hc, c, j, hv, hu

LEMMA GlyphedJoin ==
  ASSUME NEW v, NEW x, NEW y, NEW u, NEW p, NEW q, Glyphed(v, x, y), Glyphed(u, p, q)
  PROVE  Glyphed(v \o u, x \o p, y \o q)
<1>1. v \in Seq(Glyphs) /\ u \in Seq(Glyphs)
  BY DEF Glyphed
<1>2. v \in Seq(Shapes) /\ u \in Seq(Shapes) /\ v \o u \in Seq(Shapes) /\ v \o u \in Seq(Glyphs)
  <2>1. \A g \in Glyphs : g \in Shapes
    BY DEF Shapes
  <2>2. v \in Seq(Shapes) /\ u \in Seq(Shapes)
    BY <1>1, <2>1
  <2> QED BY <1>1, <2>2
<1>3. /\ v \in Seq(Seq(Tok)) /\ u \in Seq(Seq(Tok)) /\ Hexes(v) \in Seq(Seq(Tok))
      /\ Hexes(u) \in Seq(Seq(Tok))
  BY <1>2, HexesAre
<1>4. Hexes(v \o u) = Hexes(v) \o Hexes(u)
  BY <1>2, HexesJoin
<1>5. FlattenSeq(v \o u) = FlattenSeq(v) \o FlattenSeq(u)
  BY <1>3, FlatConcat
<1>6. FlattenSeq(Hexes(v) \o Hexes(u)) = FlattenSeq(Hexes(v)) \o FlattenSeq(Hexes(u))
  BY <1>3, FlatConcat
<1> QED BY <1>2, <1>4, <1>5, <1>6 DEF Glyphed

LEMMA HexedIs ==
  ASSUME NEW p
  PROVE  HexedAt(p) = IF HexPass!Special(ByteOf(str, p)) \/ (ByteOf(str, p) = "Q" /\ "quot" \in flags)
                      THEN HexPass!Hex(ByteOf(str, p)) ELSE Escaped(str, p)
BY DEF HexedAt

\* Every character of a string is written as one or a few glyphs, and written in
\* hexadecimal to begin with as what becomes of them.
LEMMA CharSpelled ==
  ASSUME str \in Seq(Tok), NEW p \in 0 .. Len(str) - 1, WholeAt(str, p)
  PROVE  \E v : Glyphed(v, Escaped(str, p), HexedAt(p))
<1> DEFINE c == ByteOf(str, p)
           e == Escaped(str, p)
           h == HexedAt(p)
           n == Size(c)
<1>1. p + 1 \in 1 .. Len(str) /\ c = str[p + 1] /\ Len(str) \in Nat
  BY DEF ByteOf
<1>2. c \in Tok /\ c # "T" /\ c # "X"
  BY <1>1 DEF WholeAt
<1>3. n \in 1 .. 4 /\ p + n <= Len(str) /\ \A k \in 1 .. n - 1 : ByteOf(str, p + k) = "T"
  BY SizeIs DEF WholeAt
<1>4. h = IF HexPass!Special(c) \/ (c = "Q" /\ "quot" \in flags) THEN HexPass!Hex(c) ELSE e
  BY HexedIs
<1>5. \A b : HexPass!Special(b) => b \in {"<", ">", "&", "'"}
  BY SpecialIs
<1>6. Piece(str, p, n) \in Seq(Tok) /\ Len(Piece(str, p, n)) = n
      /\ \A k \in 1 .. n : Piece(str, p, n)[k] = str[p + k]
  <2>1. n \in Nat /\ p \in Nat /\ p + n <= Len(str)
    BY <1>3
  <2> HIDE DEF n
  <2> QED BY <2>1, PieceIs
<1>7. e = CASE c \in {"Q", "\\"} \/ (c = "/" /\ "slashes" \in flags) -> Pair(c)
            [] c = "ctl" -> Unit(c)
            [] n > 1 /\ "unicode" \in flags ->
                 IF c = "L4" THEN Unit("high") \o Unit("low") ELSE Unit(c)
            [] OTHER -> Piece(str, p, n)
  BY DEF Escaped
<1>8. n > 1 => c \in {"L2", "L3", "L4"}
  BY <1>2, SizeOfAscii
<1>9. c \in {"Q", "\\", "/", "ctl"} => n = 1
  BY SizeOfAscii
<1> HIDE DEF c, e, h, n
<1> SUFFICES \E v : Glyphed(v, e, h)
  BY DEF e, h
<1>10. ASSUME NEW g \in Glyphs, e = g, h = HexOf(g) PROVE \E v : Glyphed(v, e, h)
  BY <1>10, GlyphedOne
<1>11. CASE c \in {"Q", "\\"} \/ (c = "/" /\ "slashes" \in flags)
  <2>1. e = Pair(c) /\ c \in {"Q", "\\", "/"}
    BY <1>7, <1>9, <1>11
  <2>2. Pair(c) \in Glyphs
    BY <2>1 DEF Glyphs
  <2>3. Pair(c) \in Shapes /\ Pair(c) = <<"\\", c>> /\ Len(Pair(c)) = 2
    BY <2>2 DEF Shapes, Pair
  <2>4. h = HexOf(Pair(c))
    <3>1. ~ HexPass!Special(c)
      BY <1>5, <2>1
    <3>2. CASE c = "Q"
      <4>1. Pair(c) = <<"\\", "Q">>
        BY <2>3, <3>2
      <4>2. HexOf(Pair(c)) = IF "quot" \in flags THEN HexPass!Hex("Q") ELSE Pair(c)
        BY <2>3, <4>1, HexOfIs
      <4> QED BY <1>4, <2>1, <3>1, <3>2, <4>2
    <3>3. CASE c # "Q"
      <4>1. Pair(c) # <<"\\", "Q">>
        BY <2>3, <3>3
      <4>2. HexOf(Pair(c)) = Pair(c)
        <5> DEFINE g == Pair(c)
        <5>1. g \in Shapes /\ Len(g) # 1 /\ g # <<"\\", "Q">>
          BY <2>3, <4>1
        <5> HIDE DEF g
        <5>2. HexOf(g) = g
          BY <5>1, HexOfIs
        <5> QED BY <5>2 DEF g
      <4> QED BY <1>4, <2>1, <3>1, <3>3, <4>2
    <3> QED BY <3>2, <3>3
  <2> QED BY <1>10, <2>1, <2>2, <2>4
<1>12. ASSUME NEW b \in {"ctl", "L2", "L3", "high", "low"}
       PROVE  Unit(b) \in Glyphs /\ HexOf(Unit(b)) = Unit(b)
  <2>1. Unit(b) \in Glyphs
    BY DEF Glyphs
  <2>2. Unit(b) \in Shapes /\ Len(Unit(b)) = 6 /\ Len(<<"\\", "Q">>) = 2
    BY <2>1 DEF Shapes, Unit
  <2>3. Unit(b) # <<"\\", "Q">> /\ Len(Unit(b)) # 1
    <3> DEFINE g == Unit(b)
               z == <<"\\", "Q">>
    <3>1. Len(g) = 6 /\ Len(z) = 2
      BY <2>2
    <3> HIDE DEF g, z
    <3>0. 6 # 2 /\ 6 # 1
      OBVIOUS
    <3>2. g # z /\ Len(g) # 1
      BY <3>0, <3>1, Zenon
    <3> QED BY <3>2 DEF g, z
  <2> QED BY <2>1, <2>2, <2>3, HexOfIs
<1>13. CASE c = "ctl"
  <2>1. e = Unit(c)
    BY <1>7, <1>13
  <2>2. h = e
    BY <1>4, <1>5, <1>13
  <2> QED BY <1>10, <1>12, <1>13, <2>1, <2>2
<1>14. CASE n > 1 /\ "unicode" \in flags
  <2>1. c \in {"L2", "L3", "L4"}
    BY <1>8, <1>14
  <2>2. e = IF c = "L4" THEN Unit("high") \o Unit("low") ELSE Unit(c)
    BY <1>7, <1>14, <2>1
  <2>3. h = e
    BY <1>4, <1>5, <2>1
  <2>4. CASE c = "L4"
    <3>1. Glyphed(<<Unit("high")>>, Unit("high"), Unit("high"))
      BY <1>12, GlyphedOne
    <3>2. Glyphed(<<Unit("low")>>, Unit("low"), Unit("low"))
      BY <1>12, GlyphedOne
    <3>3. e = Unit("high") \o Unit("low")
      BY <2>2, <2>4
    <3> QED BY <2>3, <3>1, <3>2, <3>3, GlyphedJoin
  <2>5. CASE c # "L4"
    <3>1. e = Unit(c) /\ c \in {"ctl", "L2", "L3", "high", "low"}
      BY <2>1, <2>2, <2>5
    <3> QED BY <1>10, <1>12, <2>3, <3>1
  <2> QED BY <2>4, <2>5
<1>15. CASE /\ ~ (c \in {"Q", "\\"} \/ (c = "/" /\ "slashes" \in flags)) /\ c # "ctl"
            /\ ~ (n > 1 /\ "unicode" \in flags)
  <2> DEFINE x == Piece(str, p, n)
  <2>1. e = x
    BY <1>7, <1>15
  <2>2. x[1] = c
    BY <1>1, <1>3, <1>6
  <2>3. CASE n = 1
    <3>1. x = <<c>>
      BY <1>6, <2>2, <2>3
    <3>2. <<c>> \in Glyphs
      BY <1>2, <1>15 DEF Glyphs
    <3>3. HexOf(<<c>>) = IF HexPass!Special(c) THEN HexPass!Hex(c) ELSE <<c>>
      BY <1>2, <3>2, HexOfIs DEF Shapes
    <3>4. h = HexOf(<<c>>)
      BY <1>4, <1>15, <2>1, <3>1, <3>3
    <3> QED BY <1>10, <2>1, <3>1, <3>2, <3>4
  <2>4. CASE n # 1
    <3>1. n > 1 /\ c \in {"L2", "L3", "L4"}
      BY <1>3, <1>8, <2>4
    <3>2. h = e
      BY <1>4, <1>5, <3>1
    <3>3. ASSUME NEW k \in 1 .. n PROVE x[k] \in {"L2", "L3", "L4", "T"}
      <4>1. CASE k = 1
        BY <2>2, <3>1, <4>1
      <4>2. CASE k # 1
        <5>1. k - 1 \in 1 .. n - 1 /\ (p + (k - 1)) + 1 = p + k
          BY <1>3, <4>2
        <5>2. ByteOf(str, p + (k - 1)) = "T"
          BY <1>3, <5>1
        <5>3. str[p + k] = "T"
          BY <5>1, <5>2 DEF ByteOf
        <5> QED BY <1>6, <5>3
      <4> QED BY <4>1, <4>2
    <3> DEFINE v == [k \in 1 .. n |-> <<x[k]>>]
    <3>4. ASSUME NEW k \in 1 .. n
          PROVE  <<x[k]>> \in Glyphs /\ HexOf(<<x[k]>>) = <<x[k]>>
      <4>1. x[k] \in {"L2", "L3", "L4", "T"}
        BY <3>3
      <4> DEFINE b == x[k]
      <4> HIDE DEF b
      <4>2. b \in Tok \ {"Q", "\\"} /\ ~ HexPass!Special(b)
        BY <1>5, <4>1, TokFacts DEF b
      <4>3. <<b>> \in Glyphs
        BY <4>2 DEF Glyphs
      <4>4. HexOf(<<b>>) = <<b>>
        BY <4>2, <4>3, HexOfIs DEF Shapes
      <4> QED BY <4>3, <4>4 DEF b
    <3>5. v \in Seq(Glyphs) /\ Hexes(v) = v
      <4>1. n \in Nat /\ v \in Seq(Glyphs) /\ Len(v) = n
        <5>1. n \in Nat
          BY <1>3
        <5> HIDE DEF x
        <5>2. \A k \in 1 .. n : <<x[k]>> \in Glyphs
          BY <3>4
        <5> QED BY <5>1, <5>2, IsASeq
      <4>2. Hexes(v) = [k \in 1 .. n |-> HexOf(v[k])]
        BY <4>1 DEF Hexes
      <4>3. \A k \in 1 .. n : HexOf(v[k]) = <<x[k]>>
        BY <3>4
      <4>4. Hexes(v) = [k \in 1 .. n |-> <<x[k]>>]
        <5> HIDE DEF v, x
        <5> QED BY <4>2, <4>3
      <4> QED BY <4>1, <4>4
    <3>6. FlattenSeq(v) = x
      <4>1. x \in Seq(Tok) /\ Len(x) = n
        BY <1>6
      <4> HIDE DEF x
      <4> QED BY <4>1, FlatSingles
    <3> HIDE DEF v
    <3> QED BY <2>1, <3>2, <3>5, <3>6 DEF Glyphed
  <2> QED BY <2>3, <2>4
<1> QED BY <1>11, <1>13, <1>14, <1>15

HexUnits == [k \in 1 .. Len(str) |-> IF WholeAt(str, k - 1) THEN HexedAt(k - 1) ELSE <<>>]

LEMMA GlyphedTyped ==
  ASSUME NEW v, NEW x, NEW y, Glyphed(v, x, y)
  PROVE  x \in Seq(Tok) /\ y \in Seq(Tok)
<1>1. \A g \in Glyphs : g \in Shapes
  BY DEF Shapes
<1>2. v \in Seq(Shapes)
  BY <1>1 DEF Glyphed
<1>3. v \in Seq(Seq(Tok)) /\ Hexes(v) \in Seq(Seq(Tok))
  BY <1>2, HexesAre
<1> QED BY <1>3, FlattenAppend DEF Glyphed

LEMMA GlyphedNone == Glyphed(<<>>, <<>>, <<>>)
<1>1. <<>> \in Seq(Glyphs) /\ Len(<<>>) = 0
  OBVIOUS
<1>2. Hexes(<<>>) = <<>>
  <2>1. Hexes(<<>>) = [k \in 1 .. 0 |-> HexOf(<<>>[k])]
    BY <1>1 DEF Hexes
  <2> QED BY <2>1
<1>3. FlattenSeq(<<>>) = <<>>
  BY FlattenAppend
<1> QED BY <1>1, <1>2, <1>3 DEF Glyphed

LEMMA BodySpelled ==
  ASSUME str \in Seq(Tok)
  PROVE  \E v : Glyphed(v, Body(str), FlattenSeq(HexUnits))
<1> DEFINE l == Len(str)
           b == Units(str)
           h == HexUnits
<1>1. /\ b \in Seq(Seq(Tok)) /\ Len(b) = l /\ l \in Nat /\ Body(str) = FlattenSeq(b)
  BY UnitsAre
<1>2. \A k \in 1 .. l : /\ b[k] = IF WholeAt(str, k - 1) THEN Escaped(str, k - 1) ELSE <<>>
                        /\ h[k] = IF WholeAt(str, k - 1) THEN HexedAt(k - 1) ELSE <<>>
  BY DEF Units, HexUnits
<1>3. ASSUME NEW k \in 1 .. l PROVE \E v : Glyphed(v, b[k], h[k])
  <2>1. k - 1 \in 0 .. Len(str) - 1
    BY <1>1
  <2>2. CASE WholeAt(str, k - 1)
    <3>1. \E v : Glyphed(v, Escaped(str, k - 1), HexedAt(k - 1))
      BY <2>1, <2>2, CharSpelled
    <3>2. b[k] = Escaped(str, k - 1) /\ h[k] = HexedAt(k - 1)
      BY <1>2, <2>2, Zenon
    <3> QED BY <3>1, <3>2, Zenon
  <2>3. CASE ~ WholeAt(str, k - 1)
    <3>1. b[k] = <<>> /\ h[k] = <<>>
      BY <1>2, <2>3, Zenon
    <3> QED BY <3>1, GlyphedNone, Zenon
  <2> QED BY <2>2, <2>3
<1>4. h \in Seq(Seq(Tok)) /\ Len(h) = l
  <2>1. \A k \in 1 .. l : h[k] \in Seq(Tok)
    BY <1>3, GlyphedTyped
  <2>2. h = [k \in 1 .. l |-> h[k]]
    BY DEF HexUnits
  <2> HIDE DEF h
  <2> QED BY <1>1, <2>1, <2>2, IsASeq
<1> HIDE DEF l, b, h
<1>5. /\ Flat(b, 0) = <<>> /\ FlattenSeq(b) = Flat(b, l)
      /\ \A n \in 1 .. l : Flat(b, n) = Flat(b, n - 1) \o b[n]
  BY <1>1, FlatSteps
<1>6. /\ Flat(h, 0) = <<>> /\ FlattenSeq(h) = Flat(h, l)
      /\ \A n \in 1 .. l : Flat(h, n) = Flat(h, n - 1) \o h[n]
  BY <1>4, FlatSteps
<1> DEFINE P == {n \in 0 .. l : \E v : Glyphed(v, Flat(b, n), Flat(h, n))}
<1>7. 0 \in P
  <2>1. 0 \in 0 .. l
    BY <1>1
  <2> QED BY <1>5, <1>6, <2>1, GlyphedNone
<1>8. ASSUME NEW n \in 0 .. l - 1, n \in P PROVE n + 1 \in P
  <2>1. n + 1 \in 1 .. l /\ (n + 1) - 1 = n /\ n + 1 \in 0 .. l
    BY <1>1
  <2>2. PICK v : Glyphed(v, Flat(b, n), Flat(h, n))
    BY <1>8
  <2>3. PICK u : Glyphed(u, b[n + 1], h[n + 1])
    BY <1>3, <2>1
  <2>4. Glyphed(v \o u, Flat(b, n) \o b[n + 1], Flat(h, n) \o h[n + 1])
    BY <2>2, <2>3, GlyphedJoin, Zenon
  <2>5. Flat(b, n + 1) = Flat(b, n) \o b[n + 1] /\ Flat(h, n + 1) = Flat(h, n) \o h[n + 1]
    BY <1>5, <1>6, <2>1
  <2> QED BY <2>1, <2>4, <2>5
<1> HIDE DEF P
<1>9. l \in P
  <2>1. \A n \in 0 .. l : n \in P
    BY <1>1, <1>7, <1>8, InductionUpTo
  <2> QED BY <1>1, <2>1
<1>10. \E v : Glyphed(v, FlattenSeq(b), FlattenSeq(h))
  BY <1>5, <1>6, <1>9 DEF P
<1> QED BY <1>1, <1>10 DEF h

\* The glyphs of a string, its quotes included, and what becomes of them.
Spelling(v, x, y) ==
    /\ v \in Seq(Shapes) /\ Len(v) >= 2 /\ v[1] = <<"Q">> /\ v[Len(v)] = <<"Q">>
    /\ \A k \in 2 .. Len(v) - 1 : v[k] # <<"Q">>
    /\ FlattenSeq(v) = x /\ FlattenSeq(Hexes(v)) = y

LEMMA JsonSpelled ==
  ASSUME str \in Seq(Tok)
  PROVE  \E v : Spelling(v, Json(str), HexedJson)
<1> DEFINE q == <<"Q">>
           h == FlattenSeq(HexUnits)
           b == Body(str)
<1>1. PICK v : Glyphed(v, b, h)
  BY BodySpelled
<1>2. v \in Seq(Glyphs) /\ FlattenSeq(v) = b /\ FlattenSeq(Hexes(v)) = h
  BY <1>1 DEF Glyphed
<1>3. Json(str) = (q \o b) \o q
  BY DEF Json
<1>4. HexedJson = (q \o h) \o q
  BY DEF HexedJson, HexUnits
<1>5. q \in Shapes /\ q \in Seq(Tok) /\ HexOf(q) = q /\ q \notin Glyphs
  <2>1. q \in Shapes
    BY DEF Shapes
  <2>2. q \in Seq(Tok) /\ Len(q) = 1 /\ "Q" \in Tok
    BY TokFacts
  <2>3. ~ HexPass!Special("Q")
    BY SpecialIs
  <2>4. HexOf(q) = q
    BY <2>1, <2>2, <2>3, HexOfIs
  <2>5. ASSUME NEW c, q = <<c>> PROVE c = "Q"
    BY <2>5
  <2>6. ASSUME NEW c PROVE q # Pair(c) /\ q # Unit(c)
    <3>1. Len(Pair(c)) = 2 /\ Len(Unit(c)) = 6
      BY DEF Pair, Unit
    <3> HIDE DEF q
    <3>2. 1 # 2 /\ 1 # 6
      OBVIOUS
    <3> QED BY <2>2, <3>1, <3>2, Zenon
  <2>7. q \notin Glyphs
    <3> HIDE DEF q
    <3> QED BY <2>5, <2>6 DEF Glyphs
  <2> QED BY <2>1, <2>2, <2>4, <2>7
<1> HIDE DEF q, h, b
<1> DEFINE o == <<q>>
           z == (o \o v) \o o
           n == Len(v)
<1>6. /\ v \in Seq(Shapes) /\ o \in Seq(Shapes) /\ Len(o) = 1 /\ o[1] = q /\ n \in Nat
      /\ \A k \in 1 .. n : v[k] # q
  <2>1. \A g \in Glyphs : g \in Shapes
    BY DEF Shapes
  <2> QED BY <1>2, <1>5, <2>1
<1>7. FlattenSeq(o) = q /\ Hexes(o) = o
  <2>1. FlattenSeq(o) = q
    BY <1>5, FlatFew
  <2>2. Hexes(o) = [k \in 1 .. 1 |-> HexOf(o[k])]
    BY <1>6 DEF Hexes
  <2>3. \A k \in 1 .. 1 : HexOf(o[k]) = q
    BY <1>5, <1>6
  <2>4. o = [k \in 1 .. 1 |-> q]
    OBVIOUS
  <2> HIDE DEF o
  <2>5. Hexes(o) = o
    BY <2>2, <2>3, <2>4
  <2> QED BY <2>1, <2>5
<1> HIDE DEF o, n
<1>8. /\ z \in Seq(Shapes) /\ Len(z) = n + 2
      /\ z[1] = q /\ z[n + 2] = q
      /\ \A k \in 2 .. (n + 2) - 1 : z[k] # q
  <2> DEFINE y == o \o v
             m == Len(y)
  <2>0. o \in Seq(Shapes) /\ v \in Seq(Shapes)
    BY <1>6
  <2>1. /\ y \in Seq(Shapes) /\ Len(y) = Len(o) + Len(v)
        /\ \A k \in 1 .. Len(o) : y[k] = o[k]
        /\ \A k \in Len(o) + 1 .. Len(o) + Len(v) : y[k] = v[k - Len(o)]
    BY <2>0, Joined
  <2>2. /\ m = 1 + n /\ \A k \in 1 .. 1 : y[k] = o[k]
        /\ \A k \in 1 + 1 .. 1 + n : y[k] = v[k - 1]
    BY <1>6, <2>1 DEF n
  <2>3. y \in Seq(Shapes)
    BY <2>1
  <2>4. z = y \o o
    OBVIOUS
  <2> HIDE DEF y, z
  <2>5. /\ z \in Seq(Shapes) /\ Len(z) = Len(y) + Len(o)
        /\ \A k \in 1 .. Len(y) : z[k] = y[k]
        /\ \A k \in Len(y) + 1 .. Len(y) + Len(o) : z[k] = o[k - Len(y)]
    BY <2>0, <2>3, <2>4, Joined
  <2>6. /\ Len(z) = m + 1 /\ \A k \in 1 .. m : z[k] = y[k]
        /\ \A k \in m + 1 .. m + 1 : z[k] = o[k - m]
    BY <1>6, <2>5
  <2> HIDE DEF m
  <2>7. Len(z) = n + 2
    BY <1>6, <2>2, <2>6
  <2>8. z[1] = q
    <3>1. 1 \in 1 .. m
      BY <1>6, <2>2
    <3> QED BY <1>6, <2>2, <2>6, <3>1
  <2>9. z[n + 2] = q
    <3>1. n + 2 \in m + 1 .. m + 1 /\ (n + 2) - m = 1
      BY <1>6, <2>2
    <3>2. z[n + 2] = o[(n + 2) - m]
      BY <2>6, <3>1
    <3> QED BY <1>6, <3>1, <3>2
  <2>10. ASSUME NEW k \in 2 .. (n + 2) - 1 PROVE z[k] # q
    <3>1. k \in 1 .. m /\ k \in 1 + 1 .. 1 + n /\ k - 1 \in 1 .. n
      BY <1>6, <2>2
    <3>2. z[k] = y[k] /\ y[k] = v[k - 1]
      BY <2>2, <2>6, <3>1
    <3> QED BY <1>6, <3>1, <3>2
  <2> QED BY <2>5, <2>7, <2>8, <2>9, <2>10
<1>9. FlattenSeq(z) = (q \o b) \o q
  <2>1. o \in Seq(Seq(Tok)) /\ v \in Seq(Seq(Tok))
    BY <1>6, HexesAre
  <2>2. o \o v \in Seq(Seq(Tok))
    BY <2>1, Joined
  <2>3. FlattenSeq(o \o v) = FlattenSeq(o) \o FlattenSeq(v)
    BY <2>1, FlatConcat
  <2>4. FlattenSeq(z) = FlattenSeq(o \o v) \o FlattenSeq(o)
    BY <2>1, <2>2, FlatConcat
  <2> QED BY <1>2, <1>7, <2>3, <2>4
<1>10. FlattenSeq(Hexes(z)) = (q \o h) \o q
  <2> DEFINE y == Hexes(v)
  <2>1. o \in Seq(Seq(Tok)) /\ y \in Seq(Seq(Tok))
    BY <1>6, HexesAre
  <2>2. Hexes(o \o v) = o \o y /\ o \o v \in Seq(Shapes)
    BY <1>6, <1>7, HexesJoin
  <2>3. Hexes(z) = (o \o y) \o o
    BY <1>6, <1>7, <2>2, HexesJoin
  <2>4. FlattenSeq(y) = h
    BY <1>2
  <2> HIDE DEF y
  <2>5. o \o y \in Seq(Seq(Tok))
    BY <2>1, Joined
  <2>6. FlattenSeq(o \o y) = FlattenSeq(o) \o FlattenSeq(y)
    BY <2>1, FlatConcat
  <2>7. FlattenSeq((o \o y) \o o) = FlattenSeq(o \o y) \o FlattenSeq(o)
    BY <2>1, <2>5, FlatConcat
  <2> QED BY <1>7, <2>3, <2>4, <2>6, <2>7
<1> HIDE DEF z
<1>11. Len(z) >= 2
  BY <1>6, <1>8
<1>12. Spelling(z, Json(str), HexedJson)
  BY <1>3, <1>4, <1>8, <1>9, <1>10, <1>11 DEF Spelling, q
<1> QED BY <1>12

-----------------------------------------------------------------------------
(* Where the glyphs stand *)

\* The n-th glyph in a text, and what becomes of it in the other.
LEMMA GlyphAt ==
  ASSUME NEW v, NEW x, NEW y, Spelling(v, x, y), NEW n \in 1 .. Len(v)
  PROVE  /\ v[n] \in Shapes /\ v[n] \in Seq(Tok) /\ Len(v[n]) \in {1, 2, 6}
         /\ Reach(v, n - 1) \in Nat /\ Reach(Hexes(v), n - 1) \in Nat
         /\ Reach(v, n) = Reach(v, n - 1) + Len(v[n]) /\ Reach(v, n) <= Len(x)
         /\ Reach(Hexes(v), n) = Reach(Hexes(v), n - 1) + Len(HexOf(v[n]))
         /\ Reach(Hexes(v), n) <= Len(y)
         /\ \A d \in 1 .. Len(v[n]) : x[Reach(v, n - 1) + d] = v[n][d]
         /\ \A d \in 1 .. Len(HexOf(v[n])) : y[Reach(Hexes(v), n - 1) + d] = HexOf(v[n])[d]
<1> DEFINE h == Hexes(v)
<1>1. v \in Seq(Shapes) /\ FlattenSeq(v) = x /\ FlattenSeq(h) = y
  BY DEF Spelling
<1>2. /\ v \in Seq(Seq(Tok)) /\ h \in Seq(Seq(Tok)) /\ Len(h) = Len(v)
      /\ v[n] \in Shapes /\ h[n] = HexOf(v[n])
  BY <1>1, HexesAre
<1>3. v[n] \in Seq(Tok) /\ Len(v[n]) \in {1, 2, 6}
  BY <1>2, ShapeTyped
<1> HIDE DEF h
<1>4. n \in 1 .. Len(h)
  BY <1>2
<1>5. /\ Reach(v, n - 1) \in Nat
      /\ Reach(v, n) = Reach(v, n - 1) + Len(v[n]) /\ Reach(v, n) <= Len(FlattenSeq(v))
      /\ \A d \in 1 .. Len(v[n]) : FlattenSeq(v)[Reach(v, n - 1) + d] = v[n][d]
  BY <1>2, PiecePlaced
<1>6. /\ Reach(h, n - 1) \in Nat
      /\ Reach(h, n) = Reach(h, n - 1) + Len(h[n]) /\ Reach(h, n) <= Len(FlattenSeq(h))
      /\ \A d \in 1 .. Len(h[n]) : FlattenSeq(h)[Reach(h, n - 1) + d] = h[n][d]
  BY <1>2, <1>4, PiecePlaced
<1> QED BY <1>1, <1>2, <1>3, <1>5, <1>6 DEF h

LEMMA ReachEnds ==
  ASSUME NEW v, NEW x, NEW y, Spelling(v, x, y)
  PROVE  /\ Len(v) \in Nat /\ Len(v) >= 2 /\ x \in Seq(Tok) /\ y \in Seq(Tok)
         /\ Len(x) \in Nat /\ Len(y) \in Nat
         /\ Reach(v, 0) = 0 /\ Reach(Hexes(v), 0) = 0
         /\ Reach(v, Len(v)) = Len(x) /\ Reach(Hexes(v), Len(v)) = Len(y)
         /\ \A n \in 0 .. Len(v) :
               /\ Reach(v, n) \in Nat /\ Reach(Hexes(v), n) \in Nat
               /\ Reach(Hexes(v), n) >= Reach(v, n)
               /\ n # 0 => Reach(v, n) >= 1
               /\ n # Len(v) => Reach(v, n) < Len(x)
         /\ Len(x) = Len(y) => x = y
<1> DEFINE h == Hexes(v)
           l == Len(v)
<1>1. v \in Seq(Shapes) /\ FlattenSeq(v) = x /\ FlattenSeq(h) = y /\ l >= 2
  BY DEF Spelling
<1>2. /\ v \in Seq(Seq(Tok)) /\ h \in Seq(Seq(Tok)) /\ Len(h) = l /\ l \in Nat
      /\ \A k \in 1 .. l : v[k] \in Shapes /\ h[k] = HexOf(v[k])
  BY <1>1, HexesAre
<1>3. ASSUME NEW n \in 1 .. l
      PROVE  /\ v[n] \in Shapes /\ Len(v[n]) \in {1, 2, 6}
             /\ Reach(v, n - 1) \in Nat /\ Reach(h, n - 1) \in Nat
             /\ Reach(v, n) = Reach(v, n - 1) + Len(v[n]) /\ Reach(v, n) <= Len(x)
             /\ Reach(h, n) = Reach(h, n - 1) + Len(HexOf(v[n]))
  BY GlyphAt
<1> HIDE DEF h, l
<1>4. /\ Flat(v, 0) = <<>> /\ x = Flat(v, l)
      /\ \A n \in 1 .. l : Flat(v, n) = Flat(v, n - 1) \o v[n]
  BY <1>1, <1>2, FlatSteps DEF l
<1>5. /\ Flat(h, 0) = <<>> /\ y = Flat(h, l)
      /\ \A n \in 1 .. l : Flat(h, n) = Flat(h, n - 1) \o h[n]
  BY <1>1, <1>2, FlatSteps
<1>6. x \in Seq(Tok) /\ y \in Seq(Tok) /\ Len(x) \in Nat /\ Len(y) \in Nat
  <2>1. x \in Seq(Tok) /\ y \in Seq(Tok)
    BY <1>1, <1>2, FlattenAppend
  <2> QED BY <2>1, TokenLen
<1>7. Reach(v, 0) = 0 /\ Reach(h, 0) = 0 /\ Reach(v, l) = Len(x) /\ Reach(h, l) = Len(y)
  BY <1>4, <1>5 DEF Reach
<1> DEFINE P == {n \in 0 .. l : /\ Reach(v, n) \in Nat /\ Reach(h, n) \in Nat
                                /\ Reach(h, n) >= Reach(v, n)
                                /\ Reach(h, n) = Reach(v, n) => Flat(h, n) = Flat(v, n)}
<1>8. 0 \in P
  <2>1. 0 \in 0 .. l
    BY <1>2
  <2> QED BY <1>4, <1>5, <1>7, <2>1
<1>9. ASSUME NEW n \in 0 .. l - 1, n \in P PROVE n + 1 \in P
  <2>1. n + 1 \in 1 .. l /\ (n + 1) - 1 = n /\ n + 1 \in 0 .. l
    BY <1>2
  <2>2. /\ v[n + 1] \in Shapes /\ Len(v[n + 1]) \in {1, 2, 6}
        /\ Reach(v, n + 1) = Reach(v, n) + Len(v[n + 1])
        /\ Reach(h, n + 1) = Reach(h, n) + Len(HexOf(v[n + 1]))
    BY <1>3, <2>1
  <2>3. \/ HexOf(v[n + 1]) = v[n + 1]
        \/ Len(HexOf(v[n + 1])) = 6 /\ Len(v[n + 1]) \in {1, 2}
    BY <2>2, HexOfIs
  <2>4. /\ Flat(v, n + 1) = Flat(v, n) \o v[n + 1]
        /\ Flat(h, n + 1) = Flat(h, n) \o HexOf(v[n + 1])
    BY <1>2, <1>4, <1>5, <2>1
  <2>5. /\ Reach(v, n) \in Nat /\ Reach(h, n) \in Nat
        /\ Reach(h, n) >= Reach(v, n)
        /\ Reach(h, n) = Reach(v, n) => Flat(h, n) = Flat(v, n)
    BY <1>9
  <2> DEFINE g == v[n + 1]
             e == HexOf(g)
  <2>6. CASE e = g
    <3>1. /\ Reach(v, n + 1) \in Nat /\ Reach(h, n + 1) \in Nat
          /\ Reach(h, n + 1) >= Reach(v, n + 1)
          /\ Reach(h, n + 1) = Reach(v, n + 1) => Reach(h, n) = Reach(v, n)
      BY <2>2, <2>5, <2>6
    <3> QED BY <2>1, <2>4, <2>5, <2>6, <3>1
  <2>7. CASE Len(e) = 6 /\ Len(g) \in {1, 2}
    <3>1. /\ Reach(v, n + 1) \in Nat /\ Reach(h, n + 1) \in Nat
          /\ Reach(h, n + 1) > Reach(v, n + 1)
      <4> DEFINE r == Reach(v, n)
                 z == Reach(h, n)
                 rr == Reach(v, n + 1)
                 ss == Reach(h, n + 1)
                 k == Len(g)
      <4>1. r \in Nat /\ z \in Nat /\ z >= r /\ k \in {1, 2} /\ rr = r + k /\ ss = z + 6
        BY <2>2, <2>5, <2>7
      <4> HIDE DEF r, z, rr, ss, k
      <4>2. rr \in Nat /\ ss \in Nat /\ ss > rr
        BY <4>1
      <4> QED BY <4>2 DEF rr, ss
    <3> QED BY <2>1, <3>1
  <2> QED BY <2>3, <2>6, <2>7
<1>10. \A n \in 0 .. l : n \in P
  <2> HIDE DEF P
  <2> QED BY <1>2, <1>8, <1>9, InductionUpTo
<1>11. ASSUME NEW n \in 0 .. l, n # 0 PROVE Reach(v, n) >= 1
  <2>1. n \in 1 .. l
    BY <1>2, <1>11
  <2> DEFINE r == Reach(v, n - 1)
             rr == Reach(v, n)
             k == Len(v[n])
  <2>2. r \in Nat /\ k \in {1, 2, 6} /\ rr = r + k
    BY <1>3, <2>1
  <2> HIDE DEF r, rr, k
  <2>3. rr >= 1
    BY <2>2
  <2> QED BY <2>3 DEF rr
<1>12. ASSUME NEW n \in 0 .. l, n # l PROVE Reach(v, n) < Len(x)
  <2>1. n + 1 \in 1 .. l /\ (n + 1) - 1 = n
    BY <1>2, <1>12
  <2>2. /\ Len(v[n + 1]) \in {1, 2, 6} /\ Reach(v, n) \in Nat
        /\ Reach(v, n + 1) = Reach(v, n) + Len(v[n + 1]) /\ Reach(v, n + 1) <= Len(x)
    BY <1>3, <2>1
  <2> DEFINE r == Reach(v, n)
             rr == Reach(v, n + 1)
             k == Len(v[n + 1])
             m == Len(x)
  <2>3. r \in Nat /\ k \in {1, 2, 6} /\ rr = r + k /\ rr <= m /\ m \in Nat
    BY <1>6, <2>2
  <2> HIDE DEF r, rr, k, m
  <2>4. r < m
    BY <2>3
  <2> QED BY <2>4 DEF r, m
<1>13. l \in 0 .. l
  BY <1>2
<1>14. Len(x) = Len(y) => x = y
  BY <1>4, <1>5, <1>7, <1>10, <1>13
<1> QED BY <1>1, <1>2, <1>6, <1>7, <1>10, <1>11, <1>12, <1>14 DEF h, l

-----------------------------------------------------------------------------
(* The forward pass *)

\* The text x follows the earlier output in the buffer.
InBuffer(x) ==
    /\ mem \in Seq(Tok) /\ before \in Seq(Tok) /\ x \in Seq(Tok)
    /\ used = Len(before) + Len(x) /\ used <= Len(mem) /\ SubSeq(mem, 1, used) = before \o x

LEMMA BufferRead ==
  ASSUME NEW x, InBuffer(x)
  PROVE  /\ HexPass!orig_len = Len(x) /\ Len(x) \in Nat /\ Len(before) \in Nat /\ used \in Nat
         /\ \A k \in 1 .. used : mem[k] = (before \o x)[k]
         /\ \A k \in 1 .. Len(x) : /\ mem[Len(before) + k] = x[k]
                                   /\ HexPass!Src(k - 1) = x[k]
<1> DEFINE l == Len(before)
           n == Len(x)
           c == before \o x
<1>1. l \in Nat /\ n \in Nat /\ used = l + n /\ used \in 0 .. Len(mem) /\ mem \in Seq(Tok)
  BY DEF InBuffer
<1>2. HexPass!orig_len = n
  <2>1. HexPass!orig_len = used - l
    BY DEF HexPass!orig_len
  <2> HIDE DEF l, n
  <2> QED BY <1>1, <2>1
<1>3. SubSeq(mem, 1, used) = c /\ before \in Seq(Tok) /\ x \in Seq(Tok)
  BY DEF InBuffer
<1>4. /\ c \in Seq(Tok) /\ Len(c) = l + n
      /\ \A k \in 1 .. n : c[l + k] = x[k]
  BY <1>3, TokensJoined
<1>5. \A k \in 1 .. used : SubSeq(mem, 1, used)[k] = mem[k]
  BY <1>1, HeadIs
<1> HIDE DEF l, n, c
<1>6. \A k \in 1 .. used : mem[k] = c[k]
  BY <1>3, <1>5
<1>7. ASSUME NEW k \in 1 .. n PROVE mem[l + k] = x[k] /\ HexPass!Src(k - 1) = x[k]
  <2>1. l + k \in 1 .. used /\ (l + (k - 1)) + 1 = l + k
    BY <1>1
  <2>2. mem[l + k] = x[k]
    BY <1>4, <1>6, <2>1
  <2>3. HexPass!Src(k - 1) = mem[(l + (k - 1)) + 1]
    BY DEF HexPass!Src, HexPass!At, l
  <2> QED BY <2>1, <2>2, <2>3
<1> QED BY <1>1, <1>2, <1>6, <1>7 DEF l, n, c

\* What the forward pass sees where a glyph begins.
LEMMA GlyphSeen ==
  ASSUME NEW v, NEW x, NEW y, Spelling(v, x, y), InBuffer(x),
         NEW n \in 0 .. Len(v), hex_i = Reach(v, n), hex_i < HexPass!orig_len
  PROVE  /\ n + 1 \in 1 .. Len(v) /\ (n + 1) - 1 = n
         /\ HexPass!Src(hex_i) = v[n + 1][1]
         /\ HexPass!AtEscape <=> Len(v[n + 1]) > 1
         /\ HexPass!EscapedQuote <=> v[n + 1] = <<"\\", "Q">> /\ "quot" \in flags
         /\ Len(v[n + 1]) > 1 =>
               (HexPass!Src(hex_i + 1) = "u" /\ hex_i + 5 < HexPass!orig_len <=> Len(v[n + 1]) = 6)
<1> DEFINE g == v[n + 1]
           r == Reach(v, n)
           l == Len(x)
<1>1. HexPass!orig_len = l /\ l \in Nat /\ \A k \in 1 .. l : HexPass!Src(k - 1) = x[k]
  BY BufferRead
<1>2. Len(v) \in Nat /\ Reach(v, Len(v)) = l
  BY ReachEnds
<1>3. n + 1 \in 1 .. Len(v) /\ (n + 1) - 1 = n
  <2>1. n # Len(v)
    BY <1>1, <1>2
  <2> QED BY <1>2, <2>1
<1>4. /\ g \in Shapes /\ Len(g) \in {1, 2, 6} /\ r \in Nat /\ r + Len(g) <= l
      /\ \A d \in 1 .. Len(g) : x[r + d] = g[d]
  <2> DEFINE m == n + 1
  <2>1. m \in 1 .. Len(v) /\ m - 1 = n
    BY <1>3
  <2> HIDE DEF m
  <2>2. /\ v[m] \in Shapes /\ Len(v[m]) \in {1, 2, 6} /\ Reach(v, m - 1) \in Nat
        /\ Reach(v, m) = Reach(v, m - 1) + Len(v[m]) /\ Reach(v, m) <= Len(x)
        /\ \A d \in 1 .. Len(v[m]) : x[Reach(v, m - 1) + d] = v[m][d]
    BY <2>1, GlyphAt
  <2> QED BY <2>1, <2>2 DEF m
<1>5. hex_i = r
  OBVIOUS
<1> HIDE DEF g, r, l
<1>6. \A d \in 1 .. Len(g) : HexPass!Src(r + (d - 1)) = g[d]
  <2>1. ASSUME NEW d \in 1 .. Len(g) PROVE HexPass!Src(r + (d - 1)) = g[d]
    <3>1. r + d \in 1 .. l /\ (r + d) - 1 = r + (d - 1)
      BY <1>1, <1>4
    <3>2. HexPass!Src((r + d) - 1) = x[r + d]
      BY <1>1, <3>1
    <3> QED BY <1>4, <3>1, <3>2
  <2> QED BY <2>1
<1>13. 1 \in 1 .. Len(g)
  <2> DEFINE m == Len(g)
  <2>1. m \in {1, 2, 6}
    BY <1>4
  <2> HIDE DEF m
  <2>2. 1 \in 1 .. m
    BY <2>1
  <2> QED BY <2>2 DEF m
<1>7. HexPass!Src(r) = g[1]
  <2>1. 1 \in 1 .. Len(g) /\ r + (1 - 1) = r
    BY <1>4, <1>13
  <2> QED BY <1>6, <2>1
<1>8. Len(g) > 1 => HexPass!Src(r + 1) = g[2] /\ r + 1 < l
  <2>1. ASSUME Len(g) > 1 PROVE 2 \in 1 .. Len(g) /\ r + (2 - 1) = r + 1 /\ r + 1 < l
    BY <1>1, <1>4, <2>1
  <2> QED BY <1>6, <2>1
<1>9. /\ g[1] = "\\" <=> Len(g) > 1
      /\ Len(g) = 2 => g[2] # "u" /\ (g[2] = "Q" <=> g = <<"\\", "Q">>)
      /\ Len(g) = 6 => g[2] = "u"
  <2> QED BY <1>4, <1>13, ByteInShape
<1>10. HexPass!AtEscape <=> Len(g) > 1
  <2>1. HexPass!AtEscape <=> HexPass!Src(r) = "\\" /\ r + 1 < l
    BY <1>1, <1>5 DEF HexPass!AtEscape
  <2> QED BY <1>7, <1>8, <1>9, <2>1
<1>11. HexPass!EscapedQuote <=> g = <<"\\", "Q">> /\ "quot" \in flags
  <2>1. HexPass!EscapedQuote <=> HexPass!AtEscape /\ "quot" \in flags /\ HexPass!Src(r + 1) = "Q"
    BY <1>5 DEF HexPass!EscapedQuote
  <2>2. g = <<"\\", "Q">> => Len(g) = 2
    OBVIOUS
  <2>3. Len(g) = 6 => g[2] # "Q"
    BY <1>9
  <2>4. Len(g) > 1 => Len(g) = 2 \/ Len(g) = 6
    BY <1>4
  <2>5. Len(g) = 2 => Len(g) > 1
    BY <1>4
  <2> QED BY <1>8, <1>9, <1>10, <2>1, <2>2, <2>3, <2>4, <2>5, Zenon
<1>12. Len(g) > 1 => (HexPass!Src(r + 1) = "u" /\ r + 5 < HexPass!orig_len <=> Len(g) = 6)
  <2>1. Len(g) = 6 => r + 5 < l
    BY <1>1, <1>4
  <2> QED BY <1>1, <1>4, <1>8, <1>9, <2>1
<1> QED BY <1>3, <1>5, <1>7, <1>10, <1>11, <1>12 DEF g

\* The forward pass stands at the beginning of a glyph, and has counted what
\* those before it will grow by.
CountedTo(v, p, gr) ==
    \E n \in 0 .. Len(v) : p = Reach(v, n) /\ gr = Reach(Hexes(v), n) - Reach(v, n)

LEMMA CountMoves ==
  ASSUME NEW v, NEW x, NEW y, Spelling(v, x, y), NEW n \in 0 .. Len(v) - 1,
         NEW p, p = Reach(v, n) + Len(v[n + 1]),
         NEW gr, gr = (Reach(Hexes(v), n) - Reach(v, n)) + (Len(HexOf(v[n + 1])) - Len(v[n + 1]))
  PROVE  CountedTo(v, p, gr)
<1> DEFINE m == n + 1
           h == Hexes(v)
<1>1. Len(v) \in Nat
  BY ReachEnds
<1>2. m \in 1 .. Len(v) /\ m - 1 = n /\ m \in 0 .. Len(v)
  BY <1>1
<1>3. p = Reach(v, n) + Len(v[m]) /\ gr = (Reach(h, n) - Reach(v, n)) + (Len(HexOf(v[m])) - Len(v[m]))
  OBVIOUS
<1> HIDE DEF m
<1>4. /\ v[m] \in Shapes /\ Len(v[m]) \in {1, 2, 6}
      /\ Reach(v, m - 1) \in Nat /\ Reach(h, m - 1) \in Nat
      /\ Reach(v, m) = Reach(v, m - 1) + Len(v[m])
      /\ Reach(h, m) = Reach(h, m - 1) + Len(HexOf(v[m]))
  BY <1>2, GlyphAt
<1>5. Len(HexOf(v[m])) \in Nat
  BY <1>4, HexOfIs, TokenLen
<1> HIDE DEF h
<1> DEFINE r == Reach(v, n)
           z == Reach(h, n)
           k == Len(v[m])
           e == Len(HexOf(v[m]))
           rr == Reach(v, m)
           ss == Reach(h, m)
<1>6. r \in Nat /\ z \in Nat /\ k \in Nat /\ e \in Nat
  <2>1. r \in Nat /\ z \in Nat
    BY <1>2, <1>4, Zenon
  <2>2. k \in Nat
    <3>1. k \in {1, 2, 6}
      BY <1>4
    <3> HIDE DEF k
    <3> QED BY <3>1
  <2> QED BY <1>5, <2>1, <2>2
<1>8. rr = r + k /\ ss = z + e /\ p = r + k /\ gr = (z - r) + (e - k)
  BY <1>2, <1>3, <1>4
<1> HIDE DEF r, z, k, e, rr, ss
<1>9. (z - r) + (e - k) = (z + e) - (r + k)
  BY <1>6
<1>7. p = rr /\ gr = ss - rr
  BY <1>8, <1>9, Zenon
<1> QED BY <1>2, <1>7 DEF CountedTo, rr, ss, h

LEMMA CountKeeps ==
  ASSUME NEW v, NEW x, NEW y, Spelling(v, x, y), InBuffer(x), CountedTo(v, hex_i, growth),
         HexPass!CountEscapedQuote \/ HexPass!CountEscape \/ HexPass!CountByte
  PROVE  hex_pc' = "too_large" \/ CountedTo(v, hex_i', growth')
<1>1. PICK n \in 0 .. Len(v) : hex_i = Reach(v, n) /\ growth = Reach(Hexes(v), n) - Reach(v, n)
  BY DEF CountedTo
<1>2. hex_i < HexPass!orig_len
  BY DEF HexPass!CountEscapedQuote, HexPass!CountEscape, HexPass!CountByte
<1> DEFINE g == v[n + 1]
           k == Len(g)
           e == HexOf(g)
<1>3. /\ n + 1 \in 1 .. Len(v) /\ (n + 1) - 1 = n
      /\ HexPass!Src(hex_i) = g[1]
      /\ HexPass!AtEscape <=> k > 1
      /\ HexPass!EscapedQuote <=> g = <<"\\", "Q">> /\ "quot" \in flags
      /\ k > 1 =>
            (HexPass!Src(hex_i + 1) = "u" /\ hex_i + 5 < HexPass!orig_len <=> k = 6)
  BY <1>1, <1>2, GlyphSeen
<1>4. n \in 0 .. Len(v) - 1
  BY <1>3
<1>5. g \in Shapes /\ k \in {1, 2, 6} /\ g \in Seq(Tok)
  <2> DEFINE m == n + 1
  <2>1. m \in 1 .. Len(v)
    BY <1>3
  <2> HIDE DEF m
  <2>2. v[m] \in Shapes /\ Len(v[m]) \in {1, 2, 6} /\ v[m] \in Seq(Tok)
    BY <2>1, GlyphAt
  <2> QED BY <2>2 DEF m
<1> HIDE DEF g, k, e
<1>6. hex_i \in Nat /\ growth \in Int
  <2>1. Reach(v, n) \in Nat /\ Reach(Hexes(v), n) \in Nat
    BY ReachEnds
  <2> DEFINE r == Reach(v, n)
             z == Reach(Hexes(v), n)
  <2>2. r \in Nat /\ z \in Nat /\ hex_i = r /\ growth = z - r
    BY <1>1, <2>1
  <2> HIDE DEF r, z
  <2> QED BY <2>2
<1>7. ASSUME hex_i' = hex_i + k, growth' = growth + (Len(e) - k) PROVE CountedTo(v, hex_i', growth')
  <2>1. /\ hex_i' = Reach(v, n) + Len(v[n + 1])
        /\ growth' = (Reach(Hexes(v), n) - Reach(v, n)) + (Len(HexOf(v[n + 1])) - Len(v[n + 1]))
    BY <1>1, <1>7 DEF e, k, g
  <2> QED BY <1>4, <2>1, CountMoves
<1>8. CASE HexPass!CountEscapedQuote
  <2>1. g = <<"\\", "Q">> /\ "quot" \in flags
    BY <1>3, <1>8 DEF HexPass!CountEscapedQuote
  <2>2. k = 2
    BY <2>1 DEF k
  <2>3. Len(e) = 6
    <3>1. e = HexPass!Hex("Q") /\ "Q" \in Tok
      BY <1>5, <2>1, HexOfIs, TokFacts DEF e
    <3> QED BY <3>1, HexIs
  <2>4. hex_pc' = "too_large" \/ (growth' = growth + 4 /\ hex_i' = hex_i + 2)
    BY <1>8 DEF HexPass!CountEscapedQuote, HexPass!Grow, HexPass!Count, HexPass!TooLarge
  <2> QED BY <1>7, <2>2, <2>3, <2>4
<1>9. CASE HexPass!CountEscape
  <2>1. k > 1 /\ (g # <<"\\", "Q">> \/ "quot" \notin flags)
    BY <1>3, <1>9 DEF HexPass!CountEscape
  <2>2. k # 1
    BY <1>5, <2>1
  <2>3. e = g
    BY <1>5, <2>1, <2>2, HexOfIs DEF e, k
  <2>4. growth' = growth + 0 /\ hex_i' = hex_i + (IF HexPass!Src(hex_i + 1) = "u" /\ hex_i + 5 < HexPass!orig_len
                                                  THEN 6 ELSE 2)
    BY <1>9 DEF HexPass!CountEscape, HexPass!Count
  <2>5. hex_i' = hex_i + k
    <3>1. CASE k = 6
      BY <1>3, <2>1, <2>4, <3>1
    <3>2. CASE k # 6
      <4>1. k = 2
        BY <1>5, <2>2, <3>2
      <4> QED BY <1>3, <2>1, <2>4, <3>2, <4>1
    <3> QED BY <3>1, <3>2
  <2>6. growth' = growth + (Len(e) - k)
    <3>1. Len(e) = k /\ k \in Int
      BY <1>5, <2>3 DEF k
    <3> QED BY <1>6, <2>4, <3>1
  <2> QED BY <1>7, <2>5, <2>6
<1>10. CASE HexPass!CountByte
  <2>1. k = 1
    <3>1. ~ (k > 1)
      BY <1>3, <1>10 DEF HexPass!CountByte
    <3> QED BY <1>5, <3>1
  <2>2. g = <<g[1]>> /\ g[1] \in Tok
    BY <1>5, <2>1 DEF k
  <2>3. e = IF HexPass!Special(g[1]) THEN HexPass!Hex(g[1]) ELSE g
    BY <1>5, <2>2, HexOfIs DEF e
  <2>4. Len(e) = IF HexPass!Special(g[1]) THEN 6 ELSE 1
    BY <2>1, <2>2, <2>3, HexIs DEF k
  <2>5. \/ hex_pc' = "too_large"
        \/ HexPass!Special(g[1]) /\ growth' = growth + 5 /\ hex_i' = hex_i + 1
        \/ ~ HexPass!Special(g[1]) /\ growth' = growth + 0 /\ hex_i' = hex_i + 1
    BY <1>3, <1>10 DEF HexPass!CountByte, HexPass!Grow, HexPass!Count, HexPass!TooLarge
  <2>6. CASE HexPass!Special(g[1]) /\ growth' = growth + 5 /\ hex_i' = hex_i + 1
    BY <1>7, <2>1, <2>4, <2>6
  <2>7. CASE ~ HexPass!Special(g[1]) /\ growth' = growth + 0 /\ hex_i' = hex_i + 1
    BY <1>7, <2>1, <2>4, <2>7
  <2> QED BY <2>5, <2>6, <2>7
<1> QED BY <1>8, <1>9, <1>10

-----------------------------------------------------------------------------
(* The backward pass *)

\* It stands behind d bytes of a glyph that stays as it is, or between two.
BackTo(v, r, t) ==
    \E n \in 0 .. Len(v), d \in Nat :
        /\ d > 0 => n < Len(v) /\ d < Len(v[n + 1]) /\ HexOf(v[n + 1]) = v[n + 1]
        /\ r = (Len(before) + Reach(v, n)) + d
        /\ t = (Len(before) + Reach(Hexes(v), n)) + d

\* What has not been read is the text x, what has been written the end of y.
Rewrote(v, x, y, m, r, t) ==
    /\ m \in Seq(Tok) /\ before \in Seq(Tok) /\ BackTo(v, r, t)
    /\ used = Len(before) + Len(x) /\ growth = Len(y) - Len(x) /\ Len(m) = Len(before) + Len(y)
    /\ \A k \in 1 .. r : m[k] = (before \o x)[k]
    /\ \A k \in t + 1 .. Len(m) : m[k] = (before \o y)[k]

LEMMA BackBegins ==
  ASSUME NEW v, NEW x, NEW y, Spelling(v, x, y), InBuffer(x), CountedTo(v, hex_i, growth),
         hex_i >= HexPass!orig_len
  PROVE  /\ growth = Len(y) - Len(x) /\ growth \in Nat
         /\ growth = 0 => x = y
         /\ Rewrote(v, x, y, SubSeq(mem, 1, used) \o [k \in 1 .. growth |-> "unset"],
                    used, used + growth)
<1> DEFINE h == Hexes(v)
           l == Len(before)
           lx == Len(x)
           ly == Len(y)
           u == [k \in 1 .. growth |-> "unset"]
           b == SubSeq(mem, 1, used)
           m == b \o u
<1>1. PICK n \in 0 .. Len(v) : hex_i = Reach(v, n) /\ growth = Reach(h, n) - Reach(v, n)
  BY DEF CountedTo
<1>2. /\ Len(v) \in Nat /\ x \in Seq(Tok) /\ y \in Seq(Tok) /\ lx \in Nat /\ ly \in Nat
      /\ Reach(v, Len(v)) = lx /\ Reach(h, Len(v)) = ly
      /\ Reach(h, Len(v)) >= Reach(v, Len(v))
      /\ n # Len(v) => Reach(v, n) < lx
      /\ lx = ly => x = y
  <2>1. Len(v) \in Nat
    BY ReachEnds
  <2>2. Len(v) \in 0 .. Len(v)
    BY <2>1
  <2> QED BY <2>1, <2>2, ReachEnds
<1>3. /\ HexPass!orig_len = lx /\ l \in Nat /\ used \in Nat
      /\ \A k \in 1 .. used : mem[k] = (before \o x)[k]
  BY BufferRead
<1>4. n = Len(v)
  <2>1. Reach(v, n) >= lx
    BY <1>1, <1>3
  <2>2. Reach(v, n) \in Nat
    BY ReachEnds
  <2> DEFINE r == Reach(v, n)
  <2> HIDE DEF r, lx
  <2>3. ~ (r < lx)
    BY <1>2, <2>1, <2>2 DEF r
  <2> QED BY <1>2, <2>3 DEF r, lx
<1>5. growth = ly - lx /\ ly >= lx
  BY <1>1, <1>2, <1>4
<1>6. /\ mem \in Seq(Tok) /\ before \in Seq(Tok) /\ used = l + lx /\ used <= Len(mem)
      /\ b = before \o x
  BY DEF InBuffer
<1> HIDE DEF h, l, lx, ly
<1>7. growth \in Nat
  BY <1>2, <1>5
<1>8. b \in Seq(Tok) /\ Len(b) = used
  <2>1. Len(before \o x) = l + lx /\ before \o x \in Seq(Tok)
    BY <1>2, <1>6, TokensJoin DEF l, lx
  <2> HIDE DEF b
  <2> QED BY <1>6, <2>1
<1>9. u \in Seq(Tok) /\ Len(u) = growth
  <2>1. \A k \in 1 .. growth : "unset" \in Tok
    BY TokFacts
  <2> QED BY <1>7, <2>1
<1> HIDE DEF b, u
<1>10. /\ m \in Seq(Tok) /\ Len(m) = used + growth
       /\ \A k \in 1 .. used : m[k] = b[k]
  BY <1>8, <1>9, TokensJoined
<1> HIDE DEF m
<1>11. Len(m) = l + ly
  BY <1>2, <1>3, <1>5, <1>6, <1>10
<1>12. BackTo(v, used, used + growth)
  <2> DEFINE d == 0
             e == Len(v)
  <2>1. used = (l + Reach(v, e)) + d /\ used + growth = (l + Reach(h, e)) + d
    BY <1>2, <1>3, <1>5, <1>6
  <2>2. e \in 0 .. Len(v) /\ d \in Nat /\ ~ (d > 0)
    BY <1>2
  <2> HIDE DEF d, e
  <2> QED BY <2>1, <2>2 DEF BackTo, l, h
<1>13. \A k \in 1 .. used : m[k] = (before \o x)[k]
  BY <1>6, <1>10
<1>14. \A k \in (used + growth) + 1 .. Len(m) : m[k] = (before \o y)[k]
  BY <1>3, <1>7, <1>10
<1>15. Rewrote(v, x, y, m, used, used + growth)
  BY <1>5, <1>6, <1>10, <1>11, <1>12, <1>13, <1>14 DEF Rewrote, l, lx, ly
<1>16. growth = 0 => x = y
  BY <1>2, <1>5
<1> QED BY <1>5, <1>7, <1>15, <1>16 DEF m, b, u, lx, ly

\* The byte the backward pass reads next, by the glyph it is in.
BackAt(v, n, d) ==
    /\ n \in 1 .. Len(v) /\ d \in 1 .. Len(v[n])
    /\ read = (Len(before) + Reach(v, n - 1)) + d
    /\ \/ HexOf(v[n]) = v[n] /\ write = (Len(before) + Reach(Hexes(v), n - 1)) + d
       \/ /\ HexOf(v[n]) # v[n] /\ d = Len(v[n])
          /\ write = (Len(before) + Reach(Hexes(v), n - 1)) + Len(HexOf(v[n]))

LEMMA BackSeen ==
  ASSUME NEW v, NEW x, NEW y, Spelling(v, x, y), before \in Seq(Tok), BackTo(v, read, write),
         read > Len(before)
  PROVE  \E n, d : BackAt(v, n, d)
<1> DEFINE h == Hexes(v)
           l == Len(before)
<1>1. PICK n \in 0 .. Len(v), d \in Nat :
        /\ d > 0 => n < Len(v) /\ d < Len(v[n + 1]) /\ HexOf(v[n + 1]) = v[n + 1]
        /\ read = (l + Reach(v, n)) + d
        /\ write = (l + Reach(h, n)) + d
  BY DEF BackTo
<1>2. Len(v) \in Nat /\ l \in Nat /\ Reach(v, 0) = 0 /\ Reach(v, n) \in Nat /\ Reach(h, n) \in Nat
  BY ReachEnds, TokenLen
<1> HIDE DEF h, l
<1>3. CASE d > 0
  <2> DEFINE m == n + 1
  <2>1. m \in 1 .. Len(v) /\ m - 1 = n
    BY <1>1, <1>2, <1>3
  <2>2. d < Len(v[m]) /\ HexOf(v[m]) = v[m]
    BY <1>1, <1>3
  <2> HIDE DEF m
  <2>3. d \in 1 .. Len(v[m])
    <3>1. Len(v[m]) \in {1, 2, 6}
      BY <2>1, GlyphAt
    <3> DEFINE k == Len(v[m])
    <3>2. k \in {1, 2, 6} /\ d < k
      BY <2>2, <3>1
    <3> HIDE DEF k
    <3>3. d \in 1 .. k
      BY <1>3, <3>2
    <3> QED BY <3>3 DEF k
  <2>4. read = (l + Reach(v, m - 1)) + d /\ write = (l + Reach(h, m - 1)) + d
    BY <1>1, <2>1
  <2>5. BackAt(v, m, d)
    BY <2>1, <2>2, <2>3, <2>4 DEF BackAt, h, l
  <2> QED BY <2>5
<1>4. CASE d = 0
  <2>1. n # 0
    BY <1>1, <1>2, <1>4 DEF l
  <2>2. n \in 1 .. Len(v)
    BY <1>2, <2>1
  <2>3. /\ Len(v[n]) \in {1, 2, 6} /\ v[n] \in Shapes
        /\ Reach(v, n - 1) \in Nat /\ Reach(h, n - 1) \in Nat
        /\ Reach(v, n) = Reach(v, n - 1) + Len(v[n])
        /\ Reach(h, n) = Reach(h, n - 1) + Len(HexOf(v[n]))
    BY <2>2, GlyphAt DEF h
  <2>4. Len(HexOf(v[n])) \in Nat
    BY <2>3, HexOfIs, TokenLen
  <2> DEFINE r == Reach(v, n - 1)
             z == Reach(h, n - 1)
             k == Len(v[n])
             e == Len(HexOf(v[n]))
  <2>5. r \in Nat /\ z \in Nat /\ e \in Nat /\ l \in Nat
    BY <1>2, <2>3, <2>4
  <2>6. k \in {1, 2, 6}
    BY <2>3
  <2>7. read = (l + (r + k)) + d /\ write = (l + (z + e)) + d
    BY <1>1, <2>3
  <2>8. HexOf(v[n]) = v[n] => e = k
    OBVIOUS
  <2> HIDE DEF r, z, k, e
  <2>9. k \in Nat /\ k \in 1 .. k
    BY <2>6
  <2>10. (l + (r + k)) + d = (l + r) + k /\ (l + (z + e)) + d = (l + z) + e
    BY <1>4, <2>5, <2>9
  <2>11. read = (l + r) + k /\ write = (l + z) + e
    BY <2>7, <2>10, Zenon
  <2>12. BackAt(v, n, k)
    BY <2>2, <2>8, <2>9, <2>11 DEF BackAt, r, z, k, e, h, l
  <2> QED BY <2>12
<1> QED BY <1>3, <1>4

\* What it reads there, and whether it takes that for an escaped quote.
LEMMA BackReads ==
  ASSUME NEW v, NEW x, NEW y, Spelling(v, x, y), Rewrote(v, x, y, mem, read, write),
         NEW n, NEW d, BackAt(v, n, d)
  PROVE  /\ v[n] \in Shapes /\ HexPass!At(read - 1) = v[n][d]
         /\ HexPass!QuoteAt(read - 1) <=> v[n] = <<"\\", "Q">> /\ d = 2 /\ "quot" \in flags
<1> DEFINE l == Len(before)
           r == Reach(v, n - 1)
           k == Len(v[n])
           lx == Len(x)
           g == v[n]
<1>1. n \in 1 .. Len(v) /\ d \in 1 .. k /\ read = (l + r) + d
  BY DEF BackAt
<1>2. /\ before \in Seq(Tok) /\ used = l + lx
      /\ \A j \in 1 .. read : mem[j] = (before \o x)[j]
  BY DEF Rewrote
<1>3. /\ g \in Shapes /\ k \in {1, 2, 6} /\ r \in Nat /\ Reach(v, n) = r + k /\ Reach(v, n) <= lx
      /\ \A e \in 1 .. k : x[r + e] = g[e]
  BY <1>1, GlyphAt
<1>4. /\ Len(v) \in Nat /\ x \in Seq(Tok) /\ lx \in Nat /\ Reach(v, 0) = 0 /\ Reach(v, Len(v)) = lx
      /\ n # Len(v) => Reach(v, n) < lx
  <2>1. n \in 0 .. Len(v)
    BY <1>1
  <2> QED BY <2>1, ReachEnds
<1>5. /\ v[1] = <<"Q">> /\ v[Len(v)] = <<"Q">>
      /\ \A j \in 2 .. Len(v) - 1 : v[j] # <<"Q">>
  BY DEF Spelling
<1>6. l \in Nat /\ \A j \in 1 .. lx : (before \o x)[l + j] = x[j]
  BY <1>2, <1>4, TokensJoined, TokenLen
<1>7. /\ g[d] = "Q" => g = <<"Q">> \/ (g = <<"\\", "Q">> /\ d = 2)
      /\ g[1] = "\\" <=> k > 1
  BY <1>1, <1>3, ByteInShape
<1>8. \A j : HexPass!At(j) = mem[j + 1]
  BY DEF HexPass!At
<1>9. HexPass!QuoteAt(read - 1) <=>
        /\ "quot" \in flags /\ HexPass!At(read - 1) = "Q"
        /\ read - 1 > l /\ (read - 1) + 1 < l + (used - l)
        /\ HexPass!At((read - 1) - 1) = "\\"
  BY DEF HexPass!QuoteAt, HexPass!orig_len, l
<1>10. g = <<"\\", "Q">> => k = 2 /\ g[2] = "Q" /\ g # <<"Q">>
  <2>1. Len(<<"\\", "Q">>) = 2 /\ <<"\\", "Q">>[2] = "Q"
    OBVIOUS
  <2>2. <<"\\", "Q">> # <<"Q">>
    OBVIOUS
  <2> QED BY <2>1, <2>2, Zenon
<1>11. g = <<"Q">> => k = 1
  OBVIOUS
<1> HIDE DEF l, r, k, lx, g
<1>12. d \in Nat /\ d >= 1 /\ d <= k /\ k \in Nat
  BY <1>1, <1>3
<1>13. ASSUME NEW j \in 1 .. lx, j <= r + d PROVE mem[l + j] = x[j]
  <2>1. l + j \in 1 .. read
    BY <1>1, <1>3, <1>4, <1>6, <1>12, <1>13
  <2> QED BY <1>2, <1>6, <2>1
<1>14. r + d \in 1 .. lx /\ r + d <= r + d
  BY <1>3, <1>4, <1>12
<1>15. HexPass!At(read - 1) = g[d]
  <2>1. mem[l + (r + d)] = x[r + d]
    BY <1>13, <1>14
  <2>2. (read - 1) + 1 = l + (r + d)
    BY <1>1, <1>3, <1>6, <1>12
  <2> QED BY <1>1, <1>3, <1>8, <2>1, <2>2
<1>16. ASSUME HexPass!QuoteAt(read - 1) PROVE g = <<"\\", "Q">> /\ d = 2 /\ "quot" \in flags
  <2>1. "quot" \in flags /\ g[d] = "Q" /\ read - 1 > l /\ (read - 1) + 1 < l + (used - l)
    BY <1>9, <1>15, <1>16
  <2>2. g # <<"Q">>
    <3> SUFFICES ASSUME g = <<"Q">> PROVE FALSE
      OBVIOUS
    <3>1. k = 1
      BY <1>11
    <3>2. d = 1
      BY <1>12, <3>1
    <3>3. n = 1 \/ n = Len(v)
      BY <1>1, <1>4, <1>5 DEF g
    <3>4. CASE n = 1
      <4>1. r = 0
        BY <1>4, <3>4 DEF r
      <4> QED BY <1>1, <1>6, <2>1, <3>2, <4>1
    <3>5. CASE n = Len(v)
      <4>1. r + 1 = lx
        BY <1>3, <1>4, <3>1, <3>5, Zenon
      <4>2. read = l + lx
        BY <1>1, <1>3, <1>6, <3>2, <4>1
      <4> QED BY <1>2, <1>4, <1>6, <2>1, <4>2
    <3> QED BY <3>3, <3>4, <3>5
  <2> QED BY <1>7, <2>1, <2>2
<1>17. ASSUME g = <<"\\", "Q">>, d = 2, "quot" \in flags PROVE HexPass!QuoteAt(read - 1)
  <2>1. k = 2 /\ g[2] = "Q" /\ g # <<"Q">>
    BY <1>10, <1>17
  <2>2. n # Len(v)
    BY <1>5, <2>1, Zenon DEF g
  <2>3. r + 2 < lx
    BY <1>3, <1>4, <2>1, <2>2, Zenon
  <2>4. read = (l + r) + 2
    BY <1>1, <1>17
  <2>5. read - 1 > l /\ (read - 1) + 1 < l + (used - l) /\ ((read - 1) - 1) + 1 = l + (r + 1)
    BY <1>2, <1>3, <1>4, <1>6, <2>3, <2>4
  <2>6. HexPass!At((read - 1) - 1) = "\\"
    <3>1. r + 1 \in 1 .. lx /\ r + 1 <= r + d /\ 1 \in 1 .. k
      BY <1>3, <1>4, <1>17, <2>1, <2>3
    <3>2. mem[l + (r + 1)] = x[r + 1]
      BY <1>13, <3>1
    <3>3. x[r + 1] = g[1]
      BY <1>3, <3>1
    <3>4. g[1] = "\\"
      BY <1>7, <2>1
    <3> QED BY <1>8, <2>5, <3>2, <3>3, <3>4
  <2>7. HexPass!At(read - 1) = "Q"
    BY <1>15, <1>17, <2>1
  <2> QED BY <1>9, <1>17, <2>5, <2>6, <2>7
<1> QED BY <1>3, <1>15, <1>16, <1>17 DEF g

LEMMA BackOrdered ==
  ASSUME NEW v, NEW x, NEW y, Spelling(v, x, y), before \in Seq(Tok), NEW r, NEW t, BackTo(v, r, t)
  PROVE  r \in Nat /\ t \in Nat /\ r <= t /\ r <= Len(before) + Len(x) /\ t <= Len(before) + Len(y)
<1> DEFINE h == Hexes(v)
           l == Len(before)
           lx == Len(x)
           ly == Len(y)
<1>1. PICK n \in 0 .. Len(v), d \in Nat :
        /\ d > 0 => n < Len(v) /\ d < Len(v[n + 1]) /\ HexOf(v[n + 1]) = v[n + 1]
        /\ r = (l + Reach(v, n)) + d
        /\ t = (l + Reach(h, n)) + d
  BY DEF BackTo
<1> DEFINE f == Reach(v, n)
           z == Reach(h, n)
<1>2. /\ Len(v) \in Nat /\ l \in Nat /\ lx \in Nat /\ ly \in Nat
      /\ f \in Nat /\ z \in Nat /\ z >= f
      /\ Reach(v, Len(v)) = lx /\ Reach(h, Len(v)) = ly
  BY ReachEnds, TokenLen
<1>3. f + d <= lx /\ z + d <= ly
  <2>1. CASE d > 0
    <3> DEFINE m == n + 1
    <3>1. m \in 1 .. Len(v) /\ m - 1 = n
      BY <1>1, <1>2, <2>1
    <3>2. d < Len(v[m]) /\ HexOf(v[m]) = v[m]
      BY <1>1, <2>1
    <3> HIDE DEF m
    <3>3. /\ Len(v[m]) \in {1, 2, 6}
          /\ Reach(v, m) = Reach(v, m - 1) + Len(v[m]) /\ Reach(v, m) <= Len(x)
          /\ Reach(h, m) = Reach(h, m - 1) + Len(HexOf(v[m])) /\ Reach(h, m) <= Len(y)
      BY <3>1, GlyphAt DEF h
    <3> DEFINE k == Len(v[m])
    <3>4. k \in {1, 2, 6} /\ d < k /\ f + k <= lx /\ z + k <= ly
      BY <3>1, <3>2, <3>3
    <3> HIDE DEF k, f, z, lx, ly
    <3> QED BY <1>2, <3>4
  <2>2. CASE ~ (d > 0)
    <3>1. d = 0
      BY <2>2
    <3>2. f <= lx /\ z <= ly
      <4>1. CASE n = Len(v)
        <5>1. f = lx /\ z = ly
          BY <1>2, <4>1
        <5> HIDE DEF f, z, lx, ly
        <5> QED BY <1>2, <5>1
      <4>2. CASE n # Len(v)
        <5> DEFINE m == n + 1
        <5>1. m \in 1 .. Len(v) /\ m - 1 = n
          BY <1>2, <4>2
        <5> HIDE DEF m
        <5>2. /\ Len(v[m]) \in {1, 2, 6} /\ v[m] \in Shapes
              /\ Reach(v, m) = Reach(v, m - 1) + Len(v[m]) /\ Reach(v, m) <= Len(x)
              /\ Reach(h, m) = Reach(h, m - 1) + Len(HexOf(v[m])) /\ Reach(h, m) <= Len(y)
          BY <5>1, GlyphAt DEF h
        <5>3. Len(HexOf(v[m])) \in Nat
          BY <5>2, HexOfIs, TokenLen
        <5> DEFINE k == Len(v[m])
                   e == Len(HexOf(v[m]))
        <5>4. k \in {1, 2, 6} /\ e \in Nat /\ f + k <= lx /\ z + e <= ly
          BY <5>1, <5>2, <5>3
        <5> HIDE DEF k, f, z, e, lx, ly
        <5> QED BY <1>2, <5>4
      <4> QED BY <4>1, <4>2
    <3> HIDE DEF f, z, lx, ly
    <3> QED BY <1>2, <3>1, <3>2
  <2> QED BY <2>1, <2>2
<1>4. r = (l + f) + d /\ t = (l + z) + d
  BY <1>1
<1> HIDE DEF f, z, l, lx, ly
<1>5. r \in Nat /\ t \in Nat /\ r <= t /\ r <= l + lx /\ t <= l + ly
  BY <1>2, <1>3, <1>4
<1> QED BY <1>5 DEF l, lx, ly

SameTo(m, b, r) == SubSeq(m, 1, r) = SubSeq(b, 1, r)

LEMMA RewroteShows ==
  ASSUME NEW v, NEW x, NEW y, Spelling(v, x, y), NEW m, NEW r, NEW t, Rewrote(v, x, y, m, r, t)
  PROVE  t >= r /\ SameTo(m, before \o x, r)
<1>1. /\ m \in Seq(Tok) /\ before \in Seq(Tok) /\ BackTo(v, r, t) /\ Len(m) = Len(before) + Len(y)
      /\ \A k \in 1 .. r : m[k] = (before \o x)[k]
  BY DEF Rewrote
<1>2. /\ r \in Nat /\ t \in Nat /\ r <= t /\ r <= Len(before) + Len(x)
      /\ t <= Len(before) + Len(y)
  BY <1>1, BackOrdered
<1>3. x \in Seq(Tok)
  BY ReachEnds
<1>4. before \o x \in Seq(Tok) /\ Len(before \o x) = Len(before) + Len(x)
  BY <1>1, <1>3, TokensJoin
<1>5. Len(m) \in Nat /\ Len(before \o x) \in Nat
  BY <1>1, <1>4, TokenLen
<1> DEFINE b == before \o x
           lb == Len(b)
           lm == Len(m)
<1>6. r \in Nat /\ t \in Nat /\ r <= t /\ r <= lb /\ t <= lm /\ lm \in Nat /\ lb \in Nat
  BY <1>1, <1>2, <1>4, <1>5
<1>7. \A k \in 1 .. r : m[k] = b[k]
  BY <1>1
<1> HIDE DEF b
<1>8. b \in Seq(Tok)
  BY <1>4 DEF b
<1> HIDE DEF lb, lm
<1>9. r \in 0 .. lb /\ r <= lm /\ t >= r
  BY <1>6
<1>10. SubSeq(m, 1, r) = SubSeq(b, 1, r)
  BY <1>1, <1>7, <1>8, <1>9, SameHead DEF lb, lm
<1> QED BY <1>9, <1>10 DEF b, SameTo

\* A piece stands in a text behind its first t bytes.
StandsIn(what, e, t) == \A k \in 1 .. Len(what) : e[t + k] = what[k]

\* A piece of y written where it belongs, c bytes of x behind.
LEMMA RewriteMoves ==
  ASSUME NEW v, NEW x, NEW y, Spelling(v, x, y), Rewrote(v, x, y, mem, read, write),
         NEW what \in Seq(Tok), NEW c \in Nat, NEW r, NEW t, BackTo(v, r, t),
         read = r + c, write = t + Len(what),
         StandsIn(what, before \o y, t), HexPass!Rewrite(what, c), before' = before
  PROVE  /\ Rewrote(v, x, y, mem', read', write') /\ write' >= read'
         /\ SubSeq(mem', 1, read') = SubSeq(before \o x, 1, read')
<1> DEFINE lw == Len(what)
           lm == Len(mem)
           b == before \o x
           e == before \o y
<1>1. /\ mem \in Seq(Tok) /\ before \in Seq(Tok) /\ lm = Len(before) + Len(y)
      /\ used = Len(before) + Len(x) /\ growth = Len(y) - Len(x)
      /\ \A k \in 1 .. read : mem[k] = b[k]
      /\ \A k \in write + 1 .. lm : mem[k] = e[k]
  BY DEF Rewrote
<1>2. /\ mem' = [k \in 1 .. lm |-> IF k \in (write - lw) + 1 .. write THEN what[(k - write) + lw] ELSE mem[k]]
      /\ used' = used /\ growth' = growth
  BY DEF HexPass!Rewrite
<1>16. write' = write - lw /\ read' = read - c
  BY DEF HexPass!Rewrite
<1>3. r \in Nat /\ t \in Nat /\ r <= t
  BY <1>1, BackOrdered
<1>4. BackTo(v, read, write)
  BY DEF Rewrote
<1>5. read \in Nat /\ write \in Nat /\ write <= lm
  BY <1>1, <1>4, BackOrdered
<1>6. lw \in Nat /\ lm \in Nat
  BY <1>1, TokenLen
<1>7. /\ \A k \in 1 .. lw : e[t + k] = what[k]
      /\ \A k \in 1 .. lw : what[k] \in Tok
      /\ \A k \in 1 .. lm : mem[k] \in Tok
  <2>1. \A k \in 1 .. lw : what[k] \in Tok
    OBVIOUS
  <2>2. \A k \in 1 .. lm : mem[k] \in Tok
    BY <1>1
  <2> QED BY <2>1, <2>2 DEF StandsIn
<1> HIDE DEF lw, lm, b, e
<1>8. write = t + lw /\ read = r + c
  BY DEF lw
<1>9. write' = t /\ read' = r
  BY <1>3, <1>6, <1>8, <1>16
<1> DEFINE m == [k \in 1 .. lm |-> IF k \in (write - lw) + 1 .. write THEN what[(k - write) + lw] ELSE mem[k]]
<1>10. ASSUME NEW k \in 1 .. lm
       PROVE  m[k] \in Tok /\ (k > t => m[k] = e[k]) /\ (k <= t => m[k] = mem[k])
  <2>1. k \in (write - lw) + 1 .. write <=> k > t /\ k <= write
    BY <1>3, <1>6, <1>8
  <2>2. CASE k > t /\ k <= write
    <3>1. (k - write) + lw \in 1 .. lw /\ t + ((k - write) + lw) = k /\ ~ (k <= t)
      <4>1. k \in Nat /\ t \in Nat /\ lw \in Nat /\ write = t + lw /\ k > t /\ k <= t + lw
        BY <1>3, <1>6, <1>8, <2>2
      <4>2. (k - write) + lw = k - t
        BY <4>1
      <4> QED BY <4>1, <4>2
    <3>2. m[k] = what[(k - write) + lw]
      BY <2>1, <2>2
    <3> QED BY <1>7, <3>1, <3>2
  <2>3. CASE ~ (k > t /\ k <= write)
    <3>1. m[k] = mem[k]
      BY <2>1, <2>3
    <3>2. k > t => k \in write + 1 .. lm
      BY <1>5, <2>3
    <3> QED BY <1>1, <1>7, <3>1, <3>2
  <2> QED BY <2>2, <2>3
<1>11. m \in Seq(Tok) /\ Len(m) = lm /\ DOMAIN m = 1 .. lm
  <2>1. m = [k \in 1 .. lm |-> m[k]]
    OBVIOUS
  <2> HIDE DEF m
  <2>2. m \in [1 .. lm -> Tok]
    BY <1>10, <2>1
  <2> QED BY <1>6, <2>2, IsASeq
<1> HIDE DEF m
<1>12. \A k \in 1 .. r : m[k] = b[k]
  <2>1. ASSUME NEW k \in 1 .. r PROVE m[k] = b[k]
    <3>1. k \in 1 .. lm /\ k <= t /\ k \in 1 .. read
      BY <1>3, <1>5, <1>6, <1>8
    <3> QED BY <1>1, <1>10, <3>1
  <2> QED BY <2>1
<1>13. \A k \in t + 1 .. Len(m) : m[k] = e[k]
  <2>1. ASSUME NEW k \in t + 1 .. lm PROVE m[k] = e[k]
    <3>1. k \in 1 .. lm /\ k > t
      BY <1>3, <1>6
    <3> QED BY <1>10, <3>1
  <2> QED BY <1>11, <2>1
<1>14. mem' = m
  BY <1>2 DEF m
<1>15. Rewrote(v, x, y, mem', read', write')
  BY <1>1, <1>9, <1>11, <1>12, <1>13, <1>14 DEF Rewrote, b, e, lm
<1>17. SubSeq(mem', 1, read') = SubSeq(before \o x, 1, read')
  <2>1. Rewrote(v, x, y, m, r, t)
    BY <1>1, <1>11, <1>12, <1>13 DEF Rewrote, b, e, lm
  <2>2. SameTo(m, before \o x, r)
    BY <2>1, RewroteShows, Zenon
  <2> QED BY <1>9, <1>14, <2>2 DEF SameTo
<1> QED BY <1>3, <1>9, <1>15, <1>17

\* A step of the backward pass writes what becomes of the glyph it is in, or
\* the byte of one that stays.
LEMMA RewriteKeeps ==
  ASSUME NEW v, NEW x, NEW y, Spelling(v, x, y), Rewrote(v, x, y, mem, read, write),
         HexPass!RewriteStep, before' = before
  PROVE  /\ Rewrote(v, x, y, mem', read', write') /\ write' >= read'
         /\ SubSeq(mem', 1, read') = SubSeq(before \o x, 1, read')
<1>1. read > Len(before) /\ before \in Seq(Tok) /\ BackTo(v, read, write)
  BY DEF HexPass!RewriteStep, Rewrote
<1>2. PICK n, d : BackAt(v, n, d)
  BY <1>1, BackSeen
<1> DEFINE h == Hexes(v)
           l == Len(before)
           g == v[n]
           k == Len(g)
           q == HexPass!QuoteAt(read - 1)
           c == HexPass!At(read - 1)
           f == l + Reach(v, n - 1)
           z == l + Reach(h, n - 1)
<1>3. /\ n \in 1 .. Len(v) /\ d \in 1 .. k /\ read = f + d
      /\ \/ HexOf(g) = g /\ write = z + d
         \/ HexOf(g) # g /\ d = k /\ write = z + Len(HexOf(g))
  BY <1>2 DEF BackAt
<1>4. g \in Shapes /\ c = g[d] /\ (q <=> g = <<"\\", "Q">> /\ d = 2 /\ "quot" \in flags)
  BY <1>2, BackReads
<1>5. /\ k \in {1, 2, 6} /\ g \in Seq(Tok) /\ Reach(v, n - 1) \in Nat /\ Reach(h, n - 1) \in Nat
      /\ Reach(h, n) = Reach(h, n - 1) + Len(HexOf(g)) /\ Reach(h, n) <= Len(y)
      /\ \A e \in 1 .. Len(HexOf(g)) : y[Reach(h, n - 1) + e] = HexOf(g)[e]
  BY <1>3, GlyphAt
<1>6. Len(v) \in Nat /\ y \in Seq(Tok) /\ Len(y) \in Nat /\ l \in Nat /\ f \in Nat /\ z \in Nat
  BY <1>1, <1>5, ReachEnds, TokenLen
<1>7. n - 1 \in 0 .. Len(v) /\ n - 1 < Len(v) /\ (n - 1) + 1 = n
  <2> DEFINE lv == Len(v)
  <2>1. n \in 1 .. lv /\ lv \in Nat
    BY <1>3, <1>6
  <2> HIDE DEF lv
  <2>2. n - 1 \in 0 .. lv /\ n - 1 < lv /\ (n - 1) + 1 = n
    BY <2>1
  <2> QED BY <2>2 DEF lv
<1>8. d \in Nat /\ d >= 1 /\ d <= k /\ k \in Nat
  BY <1>3, <1>5
<1>9. HexOf(g) \in Seq(Tok) /\ Len(HexOf(g)) \in Nat
  BY <1>4, HexOfIs, TokenLen
<1>10. \A e \in 1 .. Len(HexOf(g)) : (before \o y)[z + e] = HexOf(g)[e]
  <2>1. ASSUME NEW e \in 1 .. Len(HexOf(g)) PROVE (before \o y)[z + e] = HexOf(g)[e]
    <3> DEFINE j == Reach(h, n - 1) + e
    <3>1. j \in 1 .. Len(y)
      <4> DEFINE m == Len(HexOf(g))
                 b == Reach(h, n - 1)
                 ly == Len(y)
      <4>1. e \in 1 .. m /\ b \in Nat /\ m \in Nat /\ b + m <= ly /\ ly \in Nat
        BY <1>5, <1>6, <1>9
      <4> HIDE DEF m, b, ly
      <4>2. b + e \in 1 .. ly
        BY <4>1
      <4> QED BY <4>2 DEF b, ly
    <3>2. (before \o y)[l + j] = y[j]
      BY <1>1, <1>6, <3>1, TokensJoined
    <3>3. z + e = l + j
      <4> DEFINE b == Reach(h, n - 1)
      <4>1. b \in Nat /\ e \in Nat /\ l \in Nat
        BY <1>5, <1>6
      <4> HIDE DEF b, l
      <4>2. (l + b) + e = l + (b + e)
        BY <4>1
      <4> QED BY <4>2 DEF b
    <3> QED BY <1>5, <3>2, <3>3
  <2> QED BY <2>1
<1>11. \/ q /\ HexPass!Rewrite(HexPass!Hex("Q"), 2)
       \/ ~ q /\ HexPass!Special(c) /\ HexPass!Rewrite(HexPass!Hex(c), 1)
       \/ ~ q /\ ~ HexPass!Special(c) /\ HexPass!Rewrite(<<c>>, 1)
  BY DEF HexPass!RewriteStep
<1>12. BackTo(v, f, z)
  <2> DEFINE m == n - 1
             e == 0
  <2>1. m \in 0 .. Len(v) /\ e \in Nat /\ ~ (e > 0)
    BY <1>7
  <2>2. f = f + e /\ z = z + e
    BY <1>6
  <2>3. f + e = (Len(before) + Reach(v, m)) + e /\ z + e = (Len(before) + Reach(Hexes(v), m)) + e
    OBVIOUS
  <2>4. f = (Len(before) + Reach(v, m)) + e /\ z = (Len(before) + Reach(Hexes(v), m)) + e
    BY <2>2, <2>3, Zenon
  <2> HIDE DEF m, e, f, z
  <2> QED BY <2>1, <2>4 DEF BackTo
<1> HIDE DEF h, l, g, k, q, c, f, z
<1>13. CASE q /\ HexPass!Rewrite(HexPass!Hex("Q"), 2)
  <2>1. g = <<"\\", "Q">> /\ d = 2 /\ "quot" \in flags
    BY <1>4, <1>13
  <2>2. HexOf(g) = HexPass!Hex("Q") /\ "Q" \in Tok
    BY <1>4, <2>1, HexOfIs, TokFacts
  <2>3. Len(HexOf(g)) = 6
    BY <2>2, HexIs
  <2>4. Len(<<"\\", "Q">>) # 6
    OBVIOUS
  <2>5. HexOf(g) # g
    BY <2>1, <2>3, <2>4
  <2>6. read = f + 2 /\ write = z + Len(HexOf(g))
    BY <1>3, <2>1, <2>5
  <2>7. StandsIn(HexOf(g), before \o y, z)
    BY <1>10 DEF StandsIn
  <2>8. HexPass!Rewrite(HexOf(g), 2)
    BY <1>13, <2>2
  <2> QED BY <1>9, <1>12, <2>6, <2>7, <2>8, RewriteMoves
<1>14. CASE ~ q /\ HexPass!Special(c) /\ HexPass!Rewrite(HexPass!Hex(c), 1)
  <2>1. g = <<c>> /\ c \in Tok
    BY <1>3, <1>4, <1>14, ByteInShape DEF k
  <2>2. HexOf(g) = HexPass!Hex(c)
    BY <1>4, <1>14, <2>1, HexOfIs
  <2>3. Len(HexOf(g)) = 6
    BY <2>1, <2>2, HexIs
  <2>4. k = 1
    BY <2>1 DEF k
  <2>5. HexOf(g) # g
    BY <2>3, <2>4 DEF k
  <2>6. d = 1
    BY <1>8, <2>4
  <2>7. read = f + 1 /\ write = z + Len(HexOf(g))
    BY <1>3, <2>5, <2>6
  <2>8. StandsIn(HexOf(g), before \o y, z)
    BY <1>10 DEF StandsIn
  <2>9. HexPass!Rewrite(HexOf(g), 1)
    BY <1>14, <2>2
  <2> QED BY <1>9, <1>12, <2>7, <2>8, <2>9, RewriteMoves
<1>15. CASE ~ q /\ ~ HexPass!Special(c) /\ HexPass!Rewrite(<<c>>, 1)
  <2>1. HexOf(g) = g
    <3> SUFFICES ASSUME HexOf(g) # g PROVE FALSE
      OBVIOUS
    <3>1. \/ g = Pair("Q") /\ "quot" \in flags
          \/ Len(g) = 1 /\ HexPass!Special(g[1])
      BY Zenon DEF HexOf
    <3>2. d = k
      BY <1>3
    <3>3. CASE g = Pair("Q") /\ "quot" \in flags
      <4>1. g = <<"\\", "Q">>
        BY <3>3 DEF Pair
      <4>2. k = 2
        BY <4>1 DEF k
      <4> QED BY <1>4, <1>15, <3>2, <3>3, <4>1, <4>2
    <3>4. CASE Len(g) = 1 /\ HexPass!Special(g[1])
      BY <1>4, <1>15, <3>2, <3>4 DEF k
    <3> QED BY <3>1, <3>3, <3>4
  <2>2. c \in Tok
    BY <1>3, <1>4, ByteInShape DEF k
  <2>3. Len(<<c>>) = 1 /\ <<c>>[1] = c /\ <<c>> \in Seq(Tok)
    BY <2>2
  <2> DEFINE b == d - 1
             r == f + b
             t == z + b
  <2>4. read = r + 1 /\ write = t + 1
    <3>1. write = z + d
      BY <1>3, <2>1
    <3> QED BY <1>3, <1>6, <1>8, <3>1
  <2>5. BackTo(v, r, t)
    <3> DEFINE m == n - 1
    <3>1. m \in 0 .. Len(v) /\ m < Len(v) /\ m + 1 = n
      BY <1>7
    <3>2. b \in Nat /\ b < k
      BY <1>8
    <3>3. r = (Len(before) + Reach(v, m)) + b /\ t = (Len(before) + Reach(Hexes(v), m)) + b
      BY DEF f, z, l, h
    <3>4. v[m + 1] = g
      BY <3>1 DEF g
    <3> HIDE DEF m, b, r, t
    <3> QED BY <2>1, <3>1, <3>2, <3>3, <3>4 DEF BackTo, k
  <2>6. (before \o y)[t + 1] = c
    <3>1. t + 1 = z + d /\ d \in 1 .. k
      BY <1>3, <1>6, <1>8
    <3>2. (before \o y)[z + d] = g[d]
      BY <1>10, <2>1, <3>1 DEF k
    <3> QED BY <1>4, <3>1, <3>2
  <2> HIDE DEF b, r, t
  <2>7. StandsIn(<<c>>, before \o y, t)
    <3>1. ASSUME NEW e \in 1 .. Len(<<c>>) PROVE (before \o y)[t + e] = <<c>>[e]
      <4>1. e = 1
        BY <2>3, <3>1
      <4> QED BY <2>3, <2>6, <4>1
    <3> QED BY <3>1 DEF StandsIn
  <2>8. write = t + Len(<<c>>)
    BY <2>3, <2>4
  <2> QED BY <1>15, <2>3, <2>4, <2>5, <2>7, <2>8, RewriteMoves
<1> QED BY <1>11, <1>13, <1>14, <1>15

LEMMA RewroteEnds ==
  ASSUME NEW v, NEW x, NEW y, Spelling(v, x, y), Rewrote(v, x, y, mem, read, write),
         read <= Len(before)
  PROVE  write = Len(before) /\ used + growth = Len(mem) /\ SubSeq(mem, 1, Len(mem)) = before \o y
<1> DEFINE l == Len(before)
           lx == Len(x)
           ly == Len(y)
           lm == Len(mem)
           b == before \o x
           e == before \o y
<1>1. /\ mem \in Seq(Tok) /\ before \in Seq(Tok) /\ BackTo(v, read, write)
      /\ used = l + lx /\ growth = ly - lx /\ lm = l + ly
      /\ \A k \in 1 .. read : mem[k] = b[k]
      /\ \A k \in write + 1 .. lm : mem[k] = e[k]
  BY DEF Rewrote
<1>2. PICK n \in 0 .. Len(v), d \in Nat :
        /\ read = (l + Reach(v, n)) + d
        /\ write = (l + Reach(Hexes(v), n)) + d
  BY <1>1 DEF BackTo
<1>3. /\ x \in Seq(Tok) /\ y \in Seq(Tok) /\ lx \in Nat /\ ly \in Nat /\ l \in Nat
      /\ Reach(Hexes(v), 0) = 0 /\ Reach(v, n) \in Nat
      /\ n # 0 => Reach(v, n) >= 1
  BY <1>1, ReachEnds, TokenLen
<1> HIDE DEF l, lx, ly, lm
<1>4. read <= l
  BY DEF l
<1>5. Reach(v, n) = 0 /\ d = 0
  <2> DEFINE f == Reach(v, n)
  <2>1. f \in Nat /\ read = (l + f) + d /\ l \in Nat /\ d \in Nat
    BY <1>2, <1>3
  <2> HIDE DEF f
  <2>2. f = 0 /\ d = 0
    BY <1>4, <2>1
  <2> QED BY <2>2 DEF f
<1>6. n = 0
  <2>1. ~ (0 >= 1)
    OBVIOUS
  <2> QED BY <1>3, <1>5, <2>1
<1>7. read = l /\ write = l
  BY <1>2, <1>3, <1>5, <1>6
<1>8. used + growth = lm
  BY <1>1, <1>3
<1>9. /\ b \in Seq(Tok) /\ e \in Seq(Tok) /\ Len(e) = l + ly
      /\ \A k \in 1 .. l : b[k] = before[k] /\ e[k] = before[k]
  <2>1. b \in Seq(Tok) /\ \A k \in 1 .. l : b[k] = before[k]
    BY <1>1, <1>3, TokensJoined DEF l
  <2>2. e \in Seq(Tok) /\ Len(e) = l + ly /\ \A k \in 1 .. l : e[k] = before[k]
    BY <1>1, <1>3, TokensJoined DEF l, ly
  <2> QED BY <2>1, <2>2
<1> HIDE DEF b, e
<1>10. \A k \in 1 .. lm : mem[k] = e[k]
  <2>1. ASSUME NEW k \in 1 .. lm PROVE mem[k] = e[k]
    <3>1. k \in 1 .. l \/ k \in l + 1 .. lm
      BY <1>1, <1>3
    <3> QED BY <1>1, <1>7, <1>9, <3>1
  <2> QED BY <2>1
<1>11. mem = e
  <2>1. Len(mem) = Len(e)
    BY <1>1, <1>9 DEF lm
  <2> QED BY <1>1, <1>9, <1>10, <2>1, SameTokens DEF lm
<1>12. SubSeq(mem, 1, Len(mem)) = mem
  BY <1>1
<1> QED BY <1>7, <1>8, <1>11, <1>12 DEF l, lm, e

-----------------------------------------------------------------------------
(* The invariant of the hexadecimal escapes *)

Counting == \E v : Spelling(v, Json(str), HexedJson) /\ CountedTo(v, hex_i, growth)
Rewriting ==
    \E v : Spelling(v, Json(str), HexedJson)
           /\ Rewrote(v, Json(str), HexedJson, mem, read, write)

HexInv ==
    /\ hex_pc = "count" =>
          (hex_i = 0 /\ growth = 0) \/ (stage = "done" /\ result = "ok" /\ Counting)
    /\ hex_pc = "rewrite" => Rewriting
    /\ HexesExactly

LEMMA SpellingNext ==
  ASSUME flags' = flags, str' = str
  PROVE  /\ (Json(str))' = Json(str) /\ HexedJson' = HexedJson
         /\ \A v : (Hexes(v))' = Hexes(v)
         /\ \A v, x, y : (Spelling(v, x, y))' = Spelling(v, x, y)
<1>1. (Json(str))' = Json(str)
  BY DEF Json, Body, Escaped
<1>2. HexedJson' = HexedJson
  BY DEF HexedJson, HexedAt, Escaped, HexPass!Special, HexPass!Hex
<1>3. \A v : (Hexes(v))' = Hexes(v)
  BY DEF Hexes, HexOf, HexPass!Special, HexPass!Hex
<1>4. \A v, x, y : (Spelling(v, x, y))' = Spelling(v, x, y)
  BY <1>3 DEF Spelling
<1> QED BY <1>1, <1>2, <1>3, <1>4

LEMMA CountingNext ==
  ASSUME flags' = flags, str' = str, NEW v,
         Spelling(v, Json(str), HexedJson), CountedTo(v, hex_i', growth')
  PROVE  Counting'
<1>1. (Spelling(v, Json(str), HexedJson))'
  BY SpellingNext DEF Spelling
<1>2. (CountedTo(v, hex_i, growth))'
  BY SpellingNext DEF CountedTo, Reach
<1> QED BY <1>1, <1>2 DEF Counting

LEMMA RewritingNext ==
  ASSUME flags' = flags, str' = str, before' = before, used' = used, growth' = growth, NEW v,
         Spelling(v, Json(str), HexedJson), Rewrote(v, Json(str), HexedJson, mem', read', write')
  PROVE  Rewriting'
<1>1. (Spelling(v, Json(str), HexedJson))'
  BY SpellingNext DEF Spelling
<1>2. (Rewrote(v, Json(str), HexedJson, mem, read, write))'
  BY SpellingNext DEF Rewrote, BackTo, Reach, HexOf, HexPass!Special, HexPass!Hex
<1> QED BY <1>1, <1>2 DEF Rewriting

LEMMA HexBegins ==
  ASSUME EmitInv, HexInv, hex_pc = "count", stage = "done", result = "ok"
  PROVE  /\ InBuffer(Json(str)) /\ SubSeq(mem, 1, used) = before \o Json(str)
         /\ \E v : Spelling(v, Json(str), HexedJson) /\ CountedTo(v, hex_i, growth)
<1>1. StringInv
  BY DEF EmitInv
<1>2. /\ str \in Seq(Tok) /\ mem \in Seq(Tok) /\ before \in Seq(Tok) /\ used <= Len(mem)
  BY <1>1, InvTypes
<1>3. DoneAt(str, mem, used, "ok")
  BY <1>1, Zenon DEF StringInv, Laid
<1>4. used = Len(before) + Len(Json(str)) /\ SubSeq(mem, 1, used) = before \o Json(str)
  BY <1>3, Zenon DEF DoneAt
<1>5. Json(str) \in Seq(Tok)
  BY <1>2, JsonIs, Zenon
<1>6. InBuffer(Json(str))
  BY <1>2, <1>4, <1>5 DEF InBuffer
<1>7. CASE hex_i = 0 /\ growth = 0
  <2>1. PICK v : Spelling(v, Json(str), HexedJson)
    BY <1>2, JsonSpelled
  <2>2. /\ Len(v) \in Nat /\ Reach(v, 0) = 0 /\ Reach(Hexes(v), 0) = 0
    BY <2>1, ReachEnds
  <2>3. 0 \in 0 .. Len(v)
    BY <2>2
  <2>4. hex_i = Reach(v, 0) /\ growth = Reach(Hexes(v), 0) - Reach(v, 0)
    BY <1>7, <2>2
  <2>5. CountedTo(v, hex_i, growth)
    BY <2>3, <2>4 DEF CountedTo
  <2> QED BY <1>4, <1>6, <2>1, <2>5
<1>8. CASE ~ (hex_i = 0 /\ growth = 0)
  BY <1>4, <1>6, <1>8 DEF HexInv, Counting
<1> QED BY <1>7, <1>8

\* What stays when the escapes are written.
LEMMA HexFrame ==
  ASSUME dw_apply_hex_escapes
  PROVE  /\ stage = "done" /\ result = "ok" /\ stage' = "done" /\ HexPass!Next
         /\ flags' = flags /\ before' = before /\ str' = str
         /\ result' = (IF hex_pc' = "too_large" THEN "too_large" ELSE result)
         /\ (Json(str))' = Json(str) /\ HexedJson' = HexedJson
<1>1. /\ stage = "done" /\ result = "ok" /\ stage' = "done" /\ HexPass!Next
      /\ flags' = flags /\ before' = before /\ str' = str
      /\ result' = (IF hex_pc' = "too_large" THEN "too_large" ELSE result)
  BY DEF dw_apply_hex_escapes, call
<1>2. (Json(str))' = Json(str) /\ HexedJson' = HexedJson
  BY <1>1, SpellingNext
<1> QED BY <1>1, <1>2

LEMMA HexCountKeeps ==
  ASSUME EmitInv, HexInv, dw_apply_hex_escapes,
         HexPass!CountEscapedQuote \/ HexPass!CountEscape \/ HexPass!CountByte
  PROVE  HexInv'
<1>1. growth \in Nat
  BY DEF EmitInv
<1>2. /\ hex_pc = "count" /\ (hex_pc' = "count" \/ hex_pc' = "too_large")
      /\ mem' = mem /\ used' = used
  BY <1>1, HexCounts
<1>3. /\ stage = "done" /\ result = "ok" /\ stage' = "done"
      /\ flags' = flags /\ before' = before /\ str' = str
      /\ result' = (IF hex_pc' = "too_large" THEN "too_large" ELSE result)
      /\ (Json(str))' = Json(str)
  BY HexFrame
<1>4. InBuffer(Json(str)) /\ SubSeq(mem, 1, used) = before \o Json(str)
  BY <1>2, <1>3, HexBegins
<1>5. PICK v : Spelling(v, Json(str), HexedJson) /\ CountedTo(v, hex_i, growth)
  BY <1>2, <1>3, HexBegins
<1>6. CASE hex_pc' = "too_large"
  <2>1. (hex_pc # "count" /\ hex_pc # "rewrite" /\ hex_pc # "done")'
    BY <1>6
  <2>2. SubSeq(mem', 1, used') = before' \o (Json(str))'
    BY <1>2, <1>3, <1>4
  <2> QED BY <2>1, <2>2 DEF HexInv, HexesExactly
<1>7. CASE hex_pc' = "count"
  <2>1. CountedTo(v, hex_i', growth')
    <3>1. hex_pc' # "too_large"
      BY <1>7
    <3> QED BY <1>4, <1>5, <3>1, CountKeeps
  <2>2. Counting'
    BY <1>3, <1>5, <2>1, CountingNext
  <2>3. stage' = "done" /\ result' = "ok"
    BY <1>3, <1>7
  <2>4. (hex_pc # "rewrite" /\ hex_pc # "done" /\ hex_pc # "too_large")'
    BY <1>7
  <2> QED BY <2>2, <2>3, <2>4 DEF HexInv, HexesExactly
<1> QED BY <1>2, <1>6, <1>7

LEMMA HexEndsKeeps ==
  ASSUME EmitInv, HexInv, dw_apply_hex_escapes, HexPass!CountEnds
  PROVE  HexInv'
<1>1. /\ hex_pc = "count" /\ growth' = growth /\ used' = used /\ hex_i >= HexPass!orig_len
      /\ \/ growth = 0 /\ hex_pc' = "done" /\ mem' = mem
         \/ hex_pc' = "too_large" /\ mem' = mem
         \/ /\ hex_pc' = "rewrite"
            /\ mem' = SubSeq(mem, 1, used) \o [k \in 1 .. growth |-> "unset"]
            /\ read' = used /\ write' = used + growth
  BY HexEnds
<1>2. /\ stage = "done" /\ result = "ok"
      /\ flags' = flags /\ before' = before /\ str' = str
      /\ (Json(str))' = Json(str) /\ HexedJson' = HexedJson
  BY HexFrame
<1>3. InBuffer(Json(str)) /\ SubSeq(mem, 1, used) = before \o Json(str)
  BY <1>1, <1>2, HexBegins
<1>4. PICK v : Spelling(v, Json(str), HexedJson) /\ CountedTo(v, hex_i, growth)
  BY <1>1, <1>2, HexBegins
<1>5. /\ growth = 0 => Json(str) = HexedJson
      /\ Rewrote(v, Json(str), HexedJson, SubSeq(mem, 1, used) \o [k \in 1 .. growth |-> "unset"],
                 used, used + growth)
  BY <1>1, <1>3, <1>4, BackBegins
<1>6. CASE growth = 0 /\ hex_pc' = "done" /\ mem' = mem
  <2>1. (hex_pc # "count" /\ hex_pc # "rewrite" /\ hex_pc # "too_large")'
    BY <1>6
  <2>2. SubSeq(mem', 1, used') = before' \o HexedJson'
    BY <1>1, <1>2, <1>3, <1>5, <1>6
  <2>3. ~ (growth' > 0)
    BY <1>1, <1>6
  <2> QED BY <2>1, <2>2, <2>3 DEF HexInv, HexesExactly
<1>7. CASE hex_pc' = "too_large" /\ mem' = mem
  <2>1. (hex_pc # "count" /\ hex_pc # "rewrite" /\ hex_pc # "done")'
    BY <1>7
  <2>2. SubSeq(mem', 1, used') = before' \o (Json(str))'
    BY <1>1, <1>2, <1>3, <1>7
  <2> QED BY <2>1, <2>2 DEF HexInv, HexesExactly
<1>8. CASE /\ hex_pc' = "rewrite"
           /\ mem' = SubSeq(mem, 1, used) \o [k \in 1 .. growth |-> "unset"]
           /\ read' = used /\ write' = used + growth
  <2>1. (hex_pc # "count" /\ hex_pc # "done" /\ hex_pc # "too_large")'
    BY <1>8
  <2>2. Rewrote(v, Json(str), HexedJson, mem', read', write')
    BY <1>5, <1>8
  <2>3. Rewriting'
    BY <1>1, <1>2, <1>4, <2>2, RewritingNext
  <2>4. write' >= read' /\ SubSeq(mem', 1, read') = SubSeq(before \o Json(str), 1, read')
    <3> DEFINE x == Json(str)
               y == HexedJson
               m == SubSeq(mem, 1, used) \o [k \in 1 .. growth |-> "unset"]
               r == used
               t == used + growth
    <3>1. Spelling(v, x, y) /\ Rewrote(v, x, y, m, r, t)
      BY <1>4, <1>5
    <3>2. mem' = m /\ read' = r /\ write' = t
      BY <1>8
    <3> HIDE DEF x, y, m, r, t
    <3>3. t >= r /\ SameTo(m, before \o x, r)
      BY <3>1, RewroteShows, Zenon
    <3> QED BY <3>2, <3>3 DEF SameTo, x
  <2>5. (write >= read /\ SubSeq(mem, 1, read) = SubSeq(before \o Json(str), 1, read))'
    BY <1>2, <2>4
  <2> QED BY <2>1, <2>3, <2>5 DEF HexInv, HexesExactly
<1> QED BY <1>1, <1>6, <1>7, <1>8

LEMMA HexStepKeeps ==
  ASSUME EmitInv, HexInv, dw_apply_hex_escapes, HexPass!RewriteStep
  PROVE  HexInv'
<1>1. hex_pc = "rewrite" /\ hex_pc' = "rewrite" /\ growth' = growth /\ used' = used
  BY HexRewrites
<1>2. flags' = flags /\ before' = before /\ str' = str /\ (Json(str))' = Json(str)
  BY HexFrame
<1>3. PICK v : /\ Spelling(v, Json(str), HexedJson)
               /\ Rewrote(v, Json(str), HexedJson, mem, read, write)
  BY <1>1 DEF HexInv, Rewriting
<1>4. /\ Rewrote(v, Json(str), HexedJson, mem', read', write') /\ write' >= read'
      /\ SubSeq(mem', 1, read') = SubSeq(before \o Json(str), 1, read')
  BY <1>2, <1>3, RewriteKeeps
<1>5. Rewriting'
  BY <1>1, <1>2, <1>3, <1>4, RewritingNext
<1>7. (write >= read /\ SubSeq(mem, 1, read) = SubSeq(before \o Json(str), 1, read))'
  BY <1>2, <1>4
<1>8. (hex_pc # "count" /\ hex_pc # "done" /\ hex_pc # "too_large")'
  BY <1>1
<1> QED BY <1>5, <1>7, <1>8 DEF HexInv, HexesExactly

LEMMA HexLastKeeps ==
  ASSUME EmitInv, HexInv, dw_apply_hex_escapes, HexPass!RewriteEnds
  PROVE  HexInv'
<1>1. /\ hex_pc = "rewrite" /\ hex_pc' = "done" /\ read <= Len(before) /\ used' = used + growth
      /\ mem' = mem /\ write' = write
  BY DEF HexPass!RewriteEnds
<1>2. before' = before /\ HexedJson' = HexedJson
  BY HexFrame
<1>3. PICK v : /\ Spelling(v, Json(str), HexedJson)
               /\ Rewrote(v, Json(str), HexedJson, mem, read, write)
  BY <1>1 DEF HexInv, Rewriting
<1>4. /\ write = Len(before) /\ used + growth = Len(mem)
      /\ SubSeq(mem, 1, Len(mem)) = before \o HexedJson
  BY <1>1, <1>3, RewroteEnds
<1>5. write' = Len(before') /\ SubSeq(mem', 1, used') = before' \o HexedJson'
  BY <1>1, <1>2, <1>4
<1>6. (hex_pc # "count" /\ hex_pc # "rewrite" /\ hex_pc # "too_large")'
  BY <1>1
<1> QED BY <1>5, <1>6 DEF HexInv, HexesExactly

LEMMA HexKeepsInv ==
  ASSUME EmitInv, HexInv, [EmitNext]_allvars
  PROVE  HexInv'
<1>1. CASE WriteStep
  <2>1. UNCHANGED hexvars /\ WriterNext
    BY <1>1 DEF WriteStep
  <2>2. stage # "done"
    BY <2>1, NotDone
  <2>3. hex_pc = "count" /\ hex_i = 0 /\ growth = 0
    BY <2>2 DEF EmitInv, EmitInv, HexStages, HexInv
  <2>4. (hex_pc = "count" /\ hex_i = 0 /\ growth = 0)'
    BY <2>1, <2>3 DEF hexvars
  <2> QED BY <2>4 DEF HexInv, HexesExactly
<1>2. CASE dw_apply_hex_escapes
  <2>1. HexPass!Next
    BY <1>2, HexFrame
  <2>2. CASE HexPass!CountEscapedQuote \/ HexPass!CountEscape \/ HexPass!CountByte
    BY <1>2, <2>2, HexCountKeeps
  <2>3. CASE HexPass!CountEnds
    BY <1>2, <2>3, HexEndsKeeps
  <2>4. CASE HexPass!RewriteStep
    BY <1>2, <2>4, HexStepKeeps
  <2>5. CASE HexPass!RewriteEnds
    BY <1>2, <2>5, HexLastKeeps
  <2> QED BY <2>1, <2>2, <2>3, <2>4, <2>5, Zenon DEF HexPass!Next
<1>3. CASE UNCHANGED allvars
  <2>1. /\ flags' = flags /\ str' = str /\ before' = before /\ mem' = mem /\ used' = used
        /\ stage' = stage /\ result' = result /\ hex_pc' = hex_pc /\ hex_i' = hex_i
        /\ growth' = growth /\ read' = read /\ write' = write
    BY <1>3 DEF allvars, writervars, hexvars
  <2>2. (Json(str))' = Json(str) /\ HexedJson' = HexedJson
    BY <2>1, SpellingNext
  <2>3. HexesExactly'
    <3>1. HexesExactly
      BY DEF HexInv
    <3> QED BY <2>1, <2>2, <3>1 DEF HexesExactly
  <2>4. Counting => Counting'
    <3>1. ASSUME Counting PROVE Counting'
      <4>1. PICK v : Spelling(v, Json(str), HexedJson) /\ CountedTo(v, hex_i, growth)
        BY <3>1 DEF Counting
      <4> QED BY <2>1, <4>1, CountingNext
    <3> QED BY <3>1
  <2>5. Rewriting => Rewriting'
    <3>1. ASSUME Rewriting PROVE Rewriting'
      <4>1. PICK v : /\ Spelling(v, Json(str), HexedJson)
                     /\ Rewrote(v, Json(str), HexedJson, mem, read, write)
        BY <3>1 DEF Rewriting
      <4> QED BY <2>1, <4>1, RewritingNext
    <3> QED BY <3>1
  <2> QED BY <2>1, <2>3, <2>4, <2>5 DEF HexInv
<1> QED BY <1>1, <1>2, <1>3 DEF EmitNext

(***************************************************************************)
(* For every string, buffer and set of flags: dw_apply_hex_escapes leaves  *)
(* the string as it would be with those characters in hexadecimal to begin *)
(* with, in the buffer it was written in.  The backward pass agrees with   *)
(* the forward one on what is an escape, stores over no byte it has still  *)
(* to read, and one that would outgrow the buffer leaves all of it alone.  *)
(***************************************************************************)
THEOREM StringIsHexed == EmitSpec => []HexesExactly
<1>1. EmitInit => HexInv
  <2>1. EmitInit => hex_pc = "count" /\ hex_i = 0 /\ growth = 0
    BY DEF EmitInit, HexPass!Init
  <2> QED BY <2>1 DEF HexInv, HexesExactly
<1>2. EmitInv /\ HexInv /\ [EmitNext]_allvars => HexInv'
  BY HexKeepsInv
<1>3. HexInv => HexesExactly
  BY DEF HexInv
<1>4. EmitSpec => []EmitInv
  BY EmitAlways
<1> QED BY <1>1, <1>2, <1>3, <1>4, PTL DEF EmitSpec
=============================================================================
