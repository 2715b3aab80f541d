-------------------------- MODULE ChunkResumeProofs --------------------------
(***************************************************************************)
(* What is proved of ChunkResume for every file size, all chunk sizes and  *)
(* any number of crashes:                                                  *)
(*                                                                         *)
(*   - TypeCorrect: TypeOK;                                                *)
(*   - NoByteTwice: FilesDisjoint;                                         *)
(*   - PlansAreExact, SuccessIsWhole: PlanIsExact and DoneIsWhole, if no   *)
(*     chunk size leaves a single byte over (NoSingleByte). addRange makes *)
(*     no range for such a byte: run resume_single_byte shows what then    *)
(*     becomes of the output file.                                         *)
(*                                                                         *)
(* First what addRange and CalRange return. PlanIs says it of all temp     *)
(* files that share no byte, PlanTiles of those that lie between joints,   *)
(* the places where a chunk may end. A list of ranges Tiles a stretch of   *)
(* the file if it covers each byte of it once. Then the inductive          *)
(* invariants: RInv, that the temp files and the ranges of a run are in    *)
(* step, and SInv, that the output file ends where what is left begins.    *)
(* CalRange is a recursive function of the byte it has got to: what holds  *)
(* at every byte is proved from the least one at which it would not        *)
(* (lemma Least).                                                          *)
(***************************************************************************)
EXTENDS ChunkResume, TLAPS, WellFoundedInduction

\* The bytes of the remote file, ranges and temp files.
Places == 0..(Total - 1)
RangeSet == [start : Places, end : Places, completed : BOOLEAN]
FileSet == [start : Places, end : Places, size : 0..Total]

------------------------------------------------------------------------------
(* Lists of ranges. *)

\* One after the other, each of two bytes or more.
Listed(rs) ==
    /\ rs \in Seq(RangeSet)
    /\ \A i \in DOMAIN rs : rs[i].start < rs[i].end
    /\ \A i, j \in DOMAIN rs : i < j => rs[i].end < rs[j].start

\* All that a list covers is before m; not before m.
Before(rs, m) == \A i \in DOMAIN rs : rs[i].end < m
From(rs, m) == \A i \in DOMAIN rs : m <= rs[i].start

\* None of it is there yet.
Missing(rs) == \A i \in DOMAIN rs : ~rs[i].completed

\* It covers exactly the bytes from a to b - 1.
Tiles(rs, a, b) ==
    IF rs = <<>> THEN a = b
    ELSE /\ rs[1].start = a /\ rs[Len(rs)].end + 1 = b
         /\ \A i \in 1..(Len(rs) - 1) : rs[i + 1].start = rs[i].end + 1

\* A list of what is before a byte and one of what is not make a list.
LEMMA ListsJoin ==
  ASSUME NEW a, NEW b, NEW m \in Nat, Listed(a), Listed(b), Before(a, m), From(b, m)
  PROVE  Listed(a \o b)
<1> DEFINE c == a \o b
<1>1. a \in Seq(RangeSet) /\ b \in Seq(RangeSet)
  BY DEF Listed
<1>2. /\ c \in Seq(RangeSet) /\ Len(c) = Len(a) + Len(b) /\ Len(a) \in Nat /\ Len(b) \in Nat
      /\ DOMAIN a = 1..Len(a) /\ DOMAIN b = 1..Len(b) /\ DOMAIN c = 1..Len(c)
      /\ \A i \in 1..Len(a) : c[i] = a[i]
      /\ \A i \in (Len(a) + 1)..Len(c) : c[i] = b[i - Len(a)] /\ i - Len(a) \in 1..Len(b)
  BY <1>1
<1> HIDE DEF c
<1>3. ASSUME NEW i \in DOMAIN c
      PROVE  /\ i \in DOMAIN a => c[i] = a[i]
             /\ i \notin DOMAIN a => i - Len(a) \in DOMAIN b /\ c[i] = b[i - Len(a)]
  BY <1>2, SMTT(60)
<1>4. \A i \in DOMAIN c : c[i].start < c[i].end
  BY <1>3 DEF Listed
<1>5. ASSUME NEW i \in DOMAIN c, NEW j \in DOMAIN c, i < j
      PROVE  c[i].end < c[j].start
  <2>1. i \in Nat /\ j \in Nat
    BY <1>2
  <2>2. CASE j \in DOMAIN a
    <3>1. i \in DOMAIN a
      BY <1>2, <1>5, <2>1, <2>2
    <3> QED BY <1>2, <1>5, <2>2, <3>1 DEF Listed
  <2>3. CASE i \in DOMAIN a /\ j \notin DOMAIN a
    <3>1. a[i].end < m /\ m <= b[j - Len(a)].start /\ c[i] = a[i] /\ c[j] = b[j - Len(a)]
      BY <1>3, <2>3 DEF Before, From
    <3>2. a[i] \in RangeSet /\ b[j - Len(a)] \in RangeSet
      BY <1>1, <1>3, <2>3
    <3> QED BY <3>1, <3>2, ResumeParameters DEF RangeSet, Places
  <2>4. CASE i \notin DOMAIN a /\ j \notin DOMAIN a
    <3>1. i - Len(a) < j - Len(a)
      BY <1>2, <1>5, <2>1
    <3> QED BY <1>3, <2>4, <3>1 DEF Listed
  <2>5. i \notin DOMAIN a => j \notin DOMAIN a
    BY <1>2, <1>5, <2>1
  <2> QED BY <2>2, <2>3, <2>4, <2>5
<1> QED BY <1>2, <1>4, <1>5 DEF Listed, c

\* Two stretches that meet are one stretch.
LEMMA TilesJoin ==
  ASSUME NEW a \in Seq(RangeSet), NEW b \in Seq(RangeSet), NEW m, NEW n, NEW k,
         Tiles(a, m, n), Tiles(b, n, k)
  PROVE  Tiles(a \o b, m, k)
<1> DEFINE c == a \o b
<1>1. /\ c \in Seq(RangeSet) /\ Len(c) = Len(a) + Len(b) /\ Len(a) \in Nat /\ Len(b) \in Nat
      /\ \A i \in 1..Len(a) : c[i] = a[i]
      /\ \A i \in (Len(a) + 1)..Len(c) : c[i] = b[i - Len(a)]
      /\ (a = <<>> <=> Len(a) = 0) /\ (b = <<>> <=> Len(b) = 0) /\ (c = <<>> <=> Len(c) = 0)
      /\ (a = <<>> => c = b) /\ (b = <<>> => c = a)
  BY SMTT(60)
<1> HIDE DEF c
<1>2. CASE a = <<>>
  BY <1>1, <1>2 DEF Tiles, c
<1>3. CASE b = <<>>
  BY <1>1, <1>3 DEF Tiles, c
<1>4. CASE a # <<>> /\ b # <<>>
  <2> DEFINE l == Len(a)  h == Len(b)
  <2>1. l \in Nat \ {0} /\ h \in Nat \ {0} /\ Len(c) = l + h
    BY <1>1, <1>4
  <2>2. c[1] = a[1] /\ c[l] = a[l] /\ c[l + 1] = b[1] /\ c[l + h] = b[h]
    <3>1. /\ 1 \in 1..l /\ l \in 1..l /\ l + 1 \in (l + 1)..Len(c) /\ l + h \in (l + 1)..Len(c)
          /\ (l + 1) - l = 1 /\ (l + h) - l = h
      BY <2>1
    <3> QED BY <1>1, <3>1, SMTT(60)
  <2>3. ASSUME NEW i \in 1..(Len(c) - 1) PROVE c[i + 1].start = c[i].end + 1
    <3>1. CASE i < l
      <4>1. i \in 1..l /\ i + 1 \in 1..l /\ i \in 1..(l - 1)
        BY <2>1, <3>1
      <4> QED BY <1>1, <1>4, <4>1 DEF Tiles
    <3>2. CASE i = l
      BY <1>4, <2>2, <3>2 DEF Tiles
    <3>3. CASE i > l
      <4>1. /\ i \in (l + 1)..Len(c) /\ i + 1 \in (l + 1)..Len(c) /\ i - l \in 1..(h - 1)
            /\ (i + 1) - l = (i - l) + 1
        BY <2>1, <3>3
      <4> QED BY <1>1, <1>4, <4>1, ZenonT(60) DEF Tiles
    <3> QED BY <2>1, <3>1, <3>2, <3>3
  <2> QED BY <1>1, <1>4, <2>1, <2>2, <2>3, SMTT(60) DEF Tiles, c
<1> QED BY <1>2, <1>3, <1>4
------------------------------------------------------------------------------
(* addRange *)

\* The loop of addRange: round i covers chunk bytes, the last one what is left.
Rounds(rs, s, e, c, full, rest) ==
    /\ e + 1 - s = full * c + rest
    /\ rs \in Seq(RangeSet) /\ Len(rs) = IF rest > 1 THEN full + 1 ELSE full
    /\ \A i \in DOMAIN rs :
          /\ ~rs[i].completed /\ s <= rs[i].start /\ rs[i].start < rs[i].end /\ rs[i].end <= e
          /\ rs[i].start = s + (i - 1) * c
          /\ i <= full => rs[i].end + 1 = s + i * c
          /\ i > full => rs[i].end = e

\* addRange makes the rounds that fit, and one more for what is left, if that is two
\* bytes or more.
LEMMA RoundsAre ==
  ASSUME NEW s \in Nat, NEW e \in Places, s <= e, NEW c \in Nat \ {0, 1}
  PROVE  \E full \in Nat, rest \in 0..(c - 1) : Rounds(AddRange(s, e, c), s, e, c, full, rest)
<1> DEFINE b == e + 1 - s
           full == b \div c
           rest == b % c
           n == IF rest > 1 THEN full + 1 ELSE full
           rs == AddRange(s, e, c)
           top == full * c
<1>1. b \in Nat /\ c \in Nat /\ c >= 2 /\ e \in Nat /\ e <= Total - 1 /\ Total \in Nat
  BY ResumeParameters DEF Places
<1>2. full \in Nat /\ rest \in 0..(c - 1) /\ b = full * c + rest
  <2> HIDE DEF b
  <2>1. \A x \in Nat, y \in Nat \ {0} :
          x \div y \in Nat /\ (x % y) \in 0..(y - 1) /\ x = ((x \div y) * y) + (x % y)
    OBVIOUS
  <2> QED BY <1>1, <2>1
<1>3. rs = [i \in 1..n |-> [start |-> s + (i - 1) * c, end |-> Smaller(s + i * c - 1, e),
                          completed |-> FALSE]]
  BY DEF AddRange, Cut
<1> HIDE DEF full, rest, rs
<1>4. n \in Nat /\ top \in Nat /\ top + rest = e + 1 - s /\ rest \in Nat /\ rest < c
  BY <1>1, <1>2
<1>5. DOMAIN rs = 1..n
  BY <1>3
<1>6. ASSUME NEW i \in 1..n
      PROVE  /\ rs[i] \in RangeSet /\ ~rs[i].completed
             /\ s <= rs[i].start /\ rs[i].start < rs[i].end /\ rs[i].end <= e
             /\ rs[i].start = s + (i - 1) * c
             /\ i <= full => rs[i].end + 1 = s + i * c
             /\ i > full => rs[i].end = e
  <2> DEFINE low == (i - 1) * c  high == i * c  r == rs[i]
  <2>1. r = [start |-> s + low, end |-> Smaller(s + high - 1, e), completed |-> FALSE]
    BY <1>3
  <2>2. i \in Nat /\ 1 <= i /\ i <= full + 1 /\ (rest <= 1 => i <= full)
    BY <1>2, <1>4
  <2>3. low \in Nat /\ high \in Nat /\ high = low + c
    BY <1>1, <2>2
  <2>4. i <= full => high <= top
    BY <1>1, <1>2, <2>2
  <2>5. i > full => i = full + 1 /\ low = top /\ rest > 1
    BY <1>2, <2>2
  <2> DEFINE Good == /\ r \in RangeSet /\ ~r.completed
                     /\ s <= r.start /\ r.start < r.end /\ r.end <= e
                     /\ r.start = s + low
                     /\ i <= full => r.end + 1 = s + high
                     /\ i > full => r.end = e
  <2> HIDE DEF low, high, r, top, n, b
  <2>6. ASSUME i <= full PROVE Good
    <3>1. Smaller(s + high - 1, e) = s + high - 1
      BY <1>1, <1>4, <2>3, <2>4, <2>6 DEF Smaller
    <3>2. /\ s + low \in Places /\ s + high - 1 \in Places
          /\ s + low < s + high - 1 /\ s + high - 1 <= e
      BY <1>1, <1>4, <2>3, <2>4, <2>6 DEF Places
    <3>3. s + low >= s /\ (s + high - 1) + 1 = s + high
      BY <2>3
    <3> QED BY <2>1, <2>2, <2>6, <3>1, <3>2, <3>3, <1>2 DEF RangeSet
  <2>7. ASSUME i > full PROVE Good
    <3>1. Smaller(s + high - 1, e) = e
      BY <1>1, <1>4, <2>3, <2>5, <2>7 DEF Smaller
    <3>2. s + low \in Places /\ s + low < e /\ s + low >= s
      BY <1>1, <1>4, <2>3, <2>5, <2>7 DEF Places
    <3> QED BY <1>1, <1>2, <2>1, <2>2, <2>7, <3>1, <3>2 DEF RangeSet
  <2>8. Good
    BY <1>2, <2>2, <2>6, <2>7
  <2> HIDE DEF Good
  <2> QED BY <2>8 DEF Good, r, low, high
<1>7. rs \in Seq(RangeSet) /\ Len(rs) = n
  <2>1. rs = [i \in 1..n |-> rs[i]]
    BY <1>3
  <2> HIDE DEF n
  <2> QED BY <1>4, <1>6, <2>1
<1>8. Rounds(rs, s, e, c, full, rest)
  <2>1. e + 1 - s = full * c + rest
    BY <1>2
  <2> QED BY <1>5, <1>6, <1>7, <2>1 DEF Rounds
<1> QED BY <1>2, <1>8 DEF rs

\* What addRange appends is a list of ranges between the two places.
LEMMA AddRangeLists ==
  ASSUME NEW s \in Nat, NEW e \in Places, s <= e, NEW c \in Nat \ {0, 1}
  PROVE  LET rs == AddRange(s, e, c)
         IN Listed(rs) /\ From(rs, s) /\ Before(rs, e + 1) /\ Missing(rs)
<1> DEFINE rs == AddRange(s, e, c)  n == Len(rs)
<1>1. PICK full \in Nat, rest \in 0..(c - 1) : Rounds(rs, s, e, c, full, rest)
  BY RoundsAre
<1> HIDE DEF rs
<1>2. rs \in Seq(RangeSet) /\ n \in Nat /\ DOMAIN rs = 1..n /\ n <= full + 1
  BY <1>1 DEF Rounds
<1>4. ASSUME NEW i \in 1..n
      PROVE  /\ rs[i] \in RangeSet /\ s <= rs[i].start /\ rs[i].start < rs[i].end /\ rs[i].end <= e
             /\ rs[i].start = s + (i - 1) * c
             /\ i <= full => rs[i].end + 1 = s + i * c
  <2>1. i \in DOMAIN rs
    BY <1>2
  <2>2. rs[i] \in RangeSet
    BY <1>2, <2>1
  <2> HIDE DEF n
  <2> QED BY <1>1, <2>1, <2>2, Zenon DEF Rounds
<1> HIDE DEF n
<1>6. ASSUME NEW i \in 1..n, NEW j \in 1..n, i < j
      PROVE  rs[i].end < rs[j].start
  <2>1. i \in Nat /\ j \in Nat /\ i <= full /\ i <= j - 1 /\ j - 1 \in Nat /\ c \in Nat
    BY <1>2, <1>6
  <2>2. i * c <= (j - 1) * c /\ i * c \in Nat /\ (j - 1) * c \in Nat
    BY <2>1
  <2>3. rs[i].end + 1 = s + i * c /\ rs[j].start = s + (j - 1) * c /\ rs[i].end \in Nat
    BY <1>4, <2>1, ResumeParameters DEF RangeSet, Places
  <2> QED BY <2>2, <2>3
<1>7. From(rs, s) /\ Before(rs, e + 1)
  <2>1. \A i \in 1..n : rs[i].end < e + 1
    BY <1>4, ResumeParameters DEF RangeSet, Places
  <2> QED BY <1>2, <1>4, <2>1 DEF From, Before
<1>8. Missing(rs)
  BY <1>1 DEF Missing, Rounds
<1> QED BY <1>2, <1>4, <1>6, <1>7, <1>8 DEF Listed, rs

------------------------------------------------------------------------------
(* No single bytes. *)

Mult(d, x) == \E k \in Nat : x = k * d

\* Where a range may begin, and the one before it end.
Joint(d, x) == Mult(d, x) \/ x = Total

Joints(d, rs) == \A i \in DOMAIN rs : Mult(d, rs[i].start) /\ Joint(d, rs[i].end + 1)

\* Every chunk size is a multiple of d, and the remote file not of a byte more than one.
NoByteLeft(d) ==
    /\ d \in Nat \ {0, 1}
    /\ ~ \E k \in Nat : Total = k * d + 1
    /\ \A c \in ChunkSizes : Mult(d, c)

\* A multiple and one that is a byte more are never both multiples.
LEMMA NotBoth ==
  ASSUME NEW d \in Nat \ {0, 1}, NEW k \in Nat, NEW m \in Nat
  PROVE  k * d # m * d + 1
<1>1. k * d \in Nat /\ m * d \in Nat /\ d >= 2
  OBVIOUS
<1>2. CASE k <= m
  <2>1. k * d <= m * d
    BY <1>2
  <2> QED BY <1>1, <2>1
<1>3. CASE k > m
  <2>1. k >= m + 1 /\ (m + 1) * d = m * d + d
    BY <1>3
  <2>2. k * d >= (m + 1) * d
    BY <2>1
  <2> QED BY <1>1, <2>1, <2>2
<1> QED BY <1>2, <1>3

\* A multiple of d and some multiples of another are a multiple of d.
LEMMA Mults ==
  ASSUME NEW d \in Nat, NEW x, Mult(d, x), NEW y, Mult(d, y), NEW n \in Nat
  PROVE  Mult(d, x + n * y) /\ x \in Nat /\ y \in Nat
<1>1. PICK k \in Nat : x = k * d
  BY DEF Mult
<1>2. PICK m \in Nat : y = m * d
  BY DEF Mult
<1>3. x + n * y = (k + n * m) * d /\ k + n * m \in Nat
  BY <1>1, <1>2
<1> QED BY <1>1, <1>2, <1>3 DEF Mult

\* Between joints addRange leaves nothing out.
LEMMA AddRangeTiles ==
  ASSUME NEW d, NoByteLeft(d), NEW s \in Nat, NEW e \in Places, s <= e, NEW c \in Nat \ {0, 1},
         Mult(d, c), Mult(d, s), Joint(d, e + 1)
  PROVE  LET rs == AddRange(s, e, c) IN Tiles(rs, s, e + 1) /\ Joints(d, rs)
<1> DEFINE rs == AddRange(s, e, c)  n == Len(rs)
<1>1. PICK full \in Nat, rest \in 0..(c - 1) : Rounds(rs, s, e, c, full, rest)
  BY RoundsAre
<1> HIDE DEF rs
<1>2. /\ rs \in Seq(RangeSet) /\ n \in Nat /\ DOMAIN rs = 1..n
      /\ n = IF rest > 1 THEN full + 1 ELSE full
      /\ e + 1 - s = full * c + rest
  BY <1>1 DEF Rounds
<1> HIDE DEF n
<1>3. ASSUME NEW i \in 1..n
      PROVE  /\ rs[i] \in RangeSet /\ s <= rs[i].start /\ rs[i].start < rs[i].end /\ rs[i].end <= e
             /\ rs[i].start = s + (i - 1) * c
             /\ i <= full => rs[i].end + 1 = s + i * c
             /\ i > full => rs[i].end = e
  <2>1. i \in DOMAIN rs
    BY <1>2
  <2>2. rs[i] \in RangeSet
    BY <1>2, <2>1
  <2> QED BY <1>1, <2>1, <2>2, Zenon DEF Rounds
<1>4. e \in Nat /\ Total \in Nat /\ full * c \in Nat /\ rest \in Nat /\ e + 1 = s + full * c + rest
  <2>1. full * c \in Nat /\ e \in Nat
    BY ResumeParameters DEF Places
  <2> HIDE DEF Rounds
  <2> QED BY <1>2, <2>1, ResumeParameters
<1>5. Mult(d, s + full * c) /\ d \in Nat \ {0, 1}
  BY Mults DEF NoByteLeft
<1>6. rest # 1
  <2> SUFFICES ASSUME rest = 1 PROVE FALSE
    OBVIOUS
  <2>1. PICK k \in Nat : s + full * c = k * d
    BY <1>5 DEF Mult
  <2>2. e + 1 = k * d + 1
    BY <1>4, <2>1
  <2>3. CASE e + 1 = Total
    BY <2>2, <2>3 DEF NoByteLeft
  <2>4. CASE Mult(d, e + 1)
    <3>1. PICK m \in Nat : e + 1 = m * d
      BY <2>4 DEF Mult
    <3> QED BY <1>5, <2>2, <3>1, NotBoth
  <2> QED BY <2>3, <2>4 DEF Joint
<1>7. n # 0 /\ rs # <<>>
  <2>1. full = 0 => full * c = 0
    OBVIOUS
  <2>2. n # 0
    BY <1>2, <1>4, <1>6, <2>1
  <2> QED BY <1>2, <2>2
<1>8. \A i \in 1..n : i < n => i <= full
  BY <1>2
<1>9. rs[1].start = s
  <2>1. 1 \in 1..n /\ (1 - 1) * c = 0
    BY <1>2, <1>7
  <2> QED BY <1>3, <2>1
<1>10. rs[n].end = e
  <2>1. n \in 1..n
    BY <1>2, <1>7
  <2>2. CASE n > full
    BY <1>3, <2>1, <2>2
  <2>3. CASE n = full
    <3>1. rest = 0
      BY <1>2, <1>6, <2>3
    <3>2. rs[n].end + 1 = e + 1 /\ rs[n].end \in Nat
      BY <1>3, <1>4, <2>1, <2>3, <3>1, ResumeParameters DEF RangeSet, Places
    <3> QED BY <1>4, <3>2
  <2> QED BY <1>2, <2>2, <2>3
<1>11. ASSUME NEW i \in 1..(n - 1) PROVE rs[i + 1].start = rs[i].end + 1
  <2>1. i \in 1..n /\ i + 1 \in 1..n /\ i <= full /\ (i + 1) - 1 = i
    BY <1>2, <1>8
  <2> QED BY <1>3, <2>1
<1>12. ASSUME NEW i \in 1..n PROVE Mult(d, rs[i].start) /\ Joint(d, rs[i].end + 1)
  <2>1. i - 1 \in Nat /\ i \in Nat
    OBVIOUS
  <2>2. Mult(d, s + (i - 1) * c) /\ Mult(d, s + i * c)
    BY <1>5, <2>1, Mults
  <2>3. CASE i <= full
    BY <1>3, <2>2, <2>3 DEF Joint
  <2>4. CASE i > full
    BY <1>3, <2>2, <2>4
  <2> QED BY <2>1, <2>3, <2>4
<1>13. Tiles(rs, s, e + 1)
  BY <1>7, <1>9, <1>10, <1>11 DEF Tiles, n
<1> QED BY <1>2, <1>12, <1>13 DEF Joints, rs

------------------------------------------------------------------------------
(* CalRange *)

\* A set of naturals has a least element: induction, in the form these proofs use it.
LEMMA Least ==
  ASSUME NEW T \in SUBSET Nat, T # {}
  PROVE  \E x \in T : \A y \in T : x <= y
<1> DEFINE R == {p \in Nat \X Nat : p[1] < p[2]}
<1>1. IsWellFoundedOn(R, Nat)
  BY NatLessThanWellFounded DEF OpToRel
<1>2. \E x \in T : \A y \in T : ~ (<<y, x>> \in R)
  <2> HIDE DEF R
  <2> QED BY <1>1, WFMin
<1>3. \A x, y \in Nat : <<y, x>> \in R <=> y < x
  OBVIOUS
<1> HIDE DEF R
<1>4. PICK x \in T : \A y \in T : ~ (<<y, x>> \in R)
  BY <1>2
<1>5. ASSUME NEW y \in T PROVE x <= y
  <2>1. x \in Nat /\ y \in Nat /\ ~ (<<y, x>> \in R)
    BY <1>4
  <2>2. ~ (y < x)
    BY <2>1, <1>3, Zenon
  <2> QED BY <2>1, <2>2
<1> QED BY <1>5

Acc == [start : Nat, ranges : Seq(RangeSet)]

Disjoint(fs) == \A f, g \in fs : f # g => f.end < g.start \/ g.end < f.start

\* The temp file CalRange finds at a byte.
At(fs, n) == {f \in fs : Usable(f) /\ f.start = n}

Found(fs, acc, n, c) ==
    IF At(fs, n) # {} THEN Take(acc, CHOOSE f \in At(fs, n) : TRUE, c) ELSE acc

\* The gap before a temp file.
Gap(acc, f, c) == IF f.start > acc.start THEN AddRange(acc.start, f.start - 1, c) ELSE <<>>
Done(f) == [start |-> f.start, end |-> f.end, completed |-> TRUE]

\* The ranges before a temp file lie between what is planned and the file.
LEMMA GapIs ==
  ASSUME NEW acc \in Acc, NEW f \in FileSet, NEW c \in Nat \ {0, 1}
  PROVE  LET g == Gap(acc, f, c)
         IN Listed(g) /\ From(g, acc.start) /\ Before(g, f.start) /\ Missing(g)
<1>1. /\ acc.start \in Nat /\ f.start \in Nat /\ f.start <= Total - 1 /\ Total \in Nat
  BY ResumeParameters DEF Acc, FileSet, Places
<1>2. CASE f.start > acc.start
  <2>1. f.start - 1 \in Places /\ acc.start <= f.start - 1 /\ (f.start - 1) + 1 = f.start
    BY <1>1, <1>2 DEF Places
  <2>2. LET rs == AddRange(acc.start, f.start - 1, c)
        IN Listed(rs) /\ From(rs, acc.start) /\ Before(rs, (f.start - 1) + 1) /\ Missing(rs)
    BY <1>1, <2>1, AddRangeLists
  <2> QED BY <1>2, <2>1, <2>2 DEF Gap
<1>3. CASE ~(f.start > acc.start)
  BY <1>3 DEF Gap, Listed, From, Before, Missing
<1> QED BY <1>2, <1>3

\* A temp file is planned after the gap before it.
LEMMA TakeIs ==
  ASSUME NEW acc \in Acc, NEW f \in FileSet, NEW c \in Nat \ {0, 1}
  PROVE  /\ Take(acc, f, c) = [start |-> f.end + 1,
                                ranges |-> acc.ranges \o Gap(acc, f, c) \o <<Done(f)>>]
         /\ Take(acc, f, c) \in Acc
         /\ Done(f) \in RangeSet /\ <<Done(f)>> \in Seq(RangeSet)
<1>1. Take(acc, f, c) = [start |-> f.end + 1,
                         ranges |-> acc.ranges \o Gap(acc, f, c) \o <<Done(f)>>]
  BY DEF Take, Gap, Done
<1>2. Done(f) \in RangeSet
  BY DEF Done, RangeSet, FileSet
<1>3. Gap(acc, f, c) \in Seq(RangeSet)
  BY GapIs DEF Listed
<1>4. acc.ranges \in Seq(RangeSet) /\ f.end + 1 \in Nat
  BY ResumeParameters DEF Acc, FileSet, Places
<1> HIDE DEF Gap, Done, RangeSet
<1>5. acc.ranges \o Gap(acc, f, c) \o <<Done(f)>> \in Seq(RangeSet)
  BY <1>2, <1>3, <1>4
<1> QED BY <1>1, <1>2, <1>4, <1>5 DEF Acc

\* Looking for a temp file at a byte keeps the types.
LEMMA FoundIs ==
  ASSUME NEW fs \in SUBSET FileSet, NEW acc \in Acc, NEW n, NEW c \in Nat \ {0, 1}
  PROVE  Found(fs, acc, n, c) \in Acc
<1>1. CASE At(fs, n) # {}
  <2>1. (CHOOSE f \in At(fs, n) : TRUE) \in FileSet
    BY <1>1 DEF At
  <2> QED BY <1>1, <2>1, TakeIs DEF Found
<1>2. CASE At(fs, n) = {}
  BY <1>2 DEF Found
<1> QED BY <1>1, <1>2

\* Where CalRange has got to after each byte.
Stages(fs, a, n, c) ==
    \E h \in [0..n -> Acc] : h[0] = a /\ \A i \in 1..n : h[i] = Found(fs, h[i - 1], i - 1, c)

\* Going over the bytes one by one is a function of the byte.
LEMMA StagesAre ==
  ASSUME NEW fs \in SUBSET FileSet, NEW a \in Acc, NEW n \in Nat, NEW c \in Nat \ {0, 1}
  PROVE  Stages(fs, a, n, c)
<1> DEFINE Upto(k, h) == /\ h \in [0..k -> Acc] /\ h[0] = a
                         /\ \A i \in 1..k : h[i] = Found(fs, h[i - 1], i - 1, c)
           bad == {k \in 0..n : ~ \E h : Upto(k, h)}
<1>1. \E h : Upto(0, h)
  <2> DEFINE h == [i \in 0..0 |-> a]
  <2>1. Upto(0, h)
    OBVIOUS
  <2> QED BY <2>1
<1>2. ASSUME NEW k \in 1..n, NEW h, Upto(k - 1, h) PROVE \E g : Upto(k, g)
  <2> DEFINE g == [i \in 0..k |-> IF i = k THEN Found(fs, h[k - 1], k - 1, c) ELSE h[i]]
  <2>1. k \in Nat /\ k - 1 \in Nat /\ k - 1 \in 0..(k - 1) /\ k # 0 /\ k \in 1..n
    OBVIOUS
  <2>2. h[k - 1] \in Acc
    BY <1>2, <2>1
  <2>3. Found(fs, h[k - 1], k - 1, c) \in Acc
    BY <2>2, FoundIs
  <2>4. \A i \in 0..k : i # k => i \in 0..(k - 1)
    BY <2>1
  <2>5. g \in [0..k -> Acc] /\ g[0] = a
    BY <1>2, <2>1, <2>3, <2>4
  <2>6. ASSUME NEW i \in 1..k PROVE g[i] = Found(fs, g[i - 1], i - 1, c)
    <3>1. i \in 0..k /\ i - 1 \in 0..k /\ i - 1 # k /\ g[i - 1] = h[i - 1]
      BY <2>1
    <3>2. CASE i = k
      BY <3>1, <3>2
    <3>3. CASE i # k
      <4>1. i \in 1..(k - 1)
        BY <2>1, <3>3
      <4> QED BY <1>2, <3>1, <3>3, <4>1
    <3> QED BY <3>2, <3>3
  <2>7. Upto(k, g)
    BY <2>5, <2>6
  <2> QED BY <2>7
<1>3. ASSUME bad # {} PROVE FALSE
  <2>1. bad \in SUBSET Nat
    OBVIOUS
  <2>2. PICK k \in bad : \A m \in bad : k <= m
    <3> HIDE DEF bad
    <3> QED BY <1>3, <2>1, Least
  <2>3. k \in 1..n /\ k - 1 \in 0..n /\ ~ (k <= k - 1)
    <3> HIDE DEF Upto
    <3> QED BY <1>1, <2>2
  <2>4. k - 1 \notin bad
    BY <2>2, <2>3
  <2>5. \E h : Upto(k - 1, h)
    <3> HIDE DEF Upto
    <3> QED BY <2>3, <2>4
  <2>6. \E g : Upto(k, g)
    <3> HIDE DEF Upto
    <3> QED BY <1>2, <2>3, <2>5
  <2> HIDE DEF Upto
  <2> QED BY <2>2, <2>6
<1>4. n \notin bad
  BY <1>3
<1>5. \E h : Upto(n, h)
  <2> HIDE DEF Upto
  <2> QED BY <1>4
<1> QED BY <1>5 DEF Stages

\* CalRange goes over the bytes of the remote file, and cuts what is left after that.
Rest(acc, c) == IF acc.start < Total THEN AddRange(acc.start, Total - 1, c) ELSE <<>>
Course(fs, size, c) ==
    \E u \in [0..Total -> Acc] :
      /\ u[0] = [start |-> size, ranges |-> <<>>]
      /\ \A i \in 1..Total : u[i] = Found(fs, u[i - 1], i - 1, c)
      /\ CalRange(fs, size, Total, c) = u[Total].ranges \o Rest(u[Total], c)

\* And CalRange is what that function ends with.
LEMMA CourseIs ==
  ASSUME NEW fs \in SUBSET FileSet, NEW size \in Nat, NEW c \in Nat \ {0, 1}
  PROVE  Course(fs, size, c)
<1> DEFINE a == [start |-> size, ranges |-> <<>>]
           Is(u) == u = [n \in 0..Total |->
                           IF n = 0 THEN [start |-> size, ranges |-> <<>>]
                           ELSE IF \E f \in fs : Usable(f) /\ f.start = n - 1
                           THEN Take(u[n - 1], CHOOSE f \in fs : Usable(f) /\ f.start = n - 1, c)
                           ELSE u[n - 1]]
           v == CHOOSE u : Is(u)
<1>1. a \in Acc /\ Total \in Nat
  BY ResumeParameters DEF Acc
<1>2. Stages(fs, a, Total, c)
  <2> HIDE DEF a
  <2> QED BY <1>1, StagesAre
<1>3. PICK h \in [0..Total -> Acc] :
         h[0] = a /\ \A i \in 1..Total : h[i] = Found(fs, h[i - 1], i - 1, c)
  BY <1>2 DEF Stages
<1>4. ASSUME NEW n, NEW acc
      PROVE  Found(fs, acc, n, c) =
               IF \E f \in fs : Usable(f) /\ f.start = n
               THEN Take(acc, CHOOSE f \in fs : Usable(f) /\ f.start = n, c)
               ELSE acc
  BY DEF Found, At
<1>5. \A i \in 1..Total : h[i] = Found(fs, h[i - 1], i - 1, c)
  BY <1>3
<1>6. Is(h)
  <2> DEFINE k == [n \in 0..Total |->
                     IF n = 0 THEN [start |-> size, ranges |-> <<>>]
                     ELSE IF \E f \in fs : Usable(f) /\ f.start = n - 1
                     THEN Take(h[n - 1], CHOOSE f \in fs : Usable(f) /\ f.start = n - 1, c)
                     ELSE h[n - 1]]
  <2>1. \A n \in 0..Total : h[n] = k[n]
    <3>1. k[0] = h[0]
      BY <1>1, <1>3
    <3>2. \A n \in 1..Total : n \in 0..Total /\ n # 0
      OBVIOUS
    <3>3. ASSUME NEW n \in 1..Total PROVE h[n] = k[n]
      <4>1. k[n] = IF \E f \in fs : Usable(f) /\ f.start = n - 1
                   THEN Take(h[n - 1], CHOOSE f \in fs : Usable(f) /\ f.start = n - 1, c)
                   ELSE h[n - 1]
        BY <3>2
      <4>2. h[n] = IF \E f \in fs : Usable(f) /\ f.start = n - 1
                   THEN Take(h[n - 1], CHOOSE f \in fs : Usable(f) /\ f.start = n - 1, c)
                   ELSE h[n - 1]
        BY <1>4, <1>5, Zenon
      <4> HIDE DEF k
      <4> QED BY <4>1, <4>2
    <3> HIDE DEF k
    <3> QED BY <1>1, <3>1, <3>3
  <2>2. h = k
    <3> HIDE DEF a
    <3>1. h = [n \in 0..Total |-> h[n]]
      BY <1>3
    <3> QED BY <2>1, <3>1
  <2> QED BY <2>2
<1>7. Is(v)
  <2> HIDE DEF Is
  <2> QED BY <1>6
<1>8. v = h
  <2>1. \A n \in 1..Total : v[n] = Found(fs, v[n - 1], n - 1, c)
    <3>1. ASSUME NEW n \in 1..Total
          PROVE  v[n] = IF \E f \in fs : Usable(f) /\ f.start = n - 1
                        THEN Take(v[n - 1], CHOOSE f \in fs : Usable(f) /\ f.start = n - 1, c)
                        ELSE v[n - 1]
      <4>1. n \in 0..Total /\ n # 0
        OBVIOUS
      <4> HIDE DEF v
      <4> QED BY <1>7, <4>1
    <3> HIDE DEF v, Is
    <3> QED BY <1>4, <3>1, ZenonT(60)
  <2>2. v[0] = h[0] /\ v = [n \in 0..Total |-> v[n]]
    <3> HIDE DEF v
    <3> QED BY <1>1, <1>3, <1>7
  <2> DEFINE bad == {n \in 0..Total : v[n] # h[n]}
  <2> HIDE DEF v, Is
  <2>3. ASSUME bad # {} PROVE FALSE
    <3>1. bad \in SUBSET Nat
      OBVIOUS
    <3>2. PICK n \in bad : \A m \in bad : n <= m
      <4> HIDE DEF bad
      <4> QED BY <2>3, <3>1, Least
    <3>3. n \in 1..Total /\ n - 1 \in 0..Total /\ ~ (n <= n - 1)
      <4>1. n \in 0..Total /\ v[n] # h[n]
        BY <3>2
      <4>2. n # 0
        BY <2>2, <4>1
      <4> QED BY <1>1, <4>1, <4>2
    <3>4. v[n - 1] = h[n - 1]
      BY <3>2, <3>3
    <3> QED BY <1>5, <2>1, <3>2, <3>3, <3>4
  <2>4. h = [n \in 0..Total |-> h[n]]
    BY <1>3
  <2> QED BY <2>2, <2>3, <2>4
<1>9. CalRange(fs, size, Total, c) = v[Total].ranges \o Rest(v[Total], c)
  BY DEF CalRange, Rest
<1> HIDE DEF v, Is
<1> QED BY <1>3, <1>5, <1>8, <1>9 DEF Course

\* What is marked completed is there.
Known(fs, rs) == \A i \in DOMAIN rs : rs[i].completed =>
                   \E f \in fs : Usable(f) /\ SameName(f, rs[i])

\* What is planned once CalRange has looked for temp files that begin before byte n.
Planned(fs, acc, n) ==
    /\ acc \in Acc /\ Listed(acc.ranges) /\ Before(acc.ranges, acc.start)
    /\ acc.ranges # <<>> =>
         \E f \in fs : Usable(f) /\ f.start < n /\ acc.start = f.end + 1
    /\ \A f \in fs : Usable(f) /\ f.start < n =>
         \E i \in DOMAIN acc.ranges : SameName(f, acc.ranges[i])
    /\ Known(fs, acc.ranges)

\* A temp file found at a byte is planned after the files that begin before that byte.
LEMMA TakePlanned ==
  ASSUME NEW fs \in SUBSET FileSet, Disjoint(fs), NEW acc, NEW n \in Nat, Planned(fs, acc, n),
         NEW c \in Nat \ {0, 1}, NEW f \in fs, Usable(f), f.start = n
  PROVE  Planned(fs, Take(acc, f, c), n + 1)
<1> DEFINE g == Gap(acc, f, c)  a == acc.ranges  d == <<Done(f)>>  b == a \o g  new == b \o d
<1>1. /\ acc \in Acc /\ f \in FileSet /\ Listed(a) /\ Before(a, acc.start)
      /\ a \in Seq(RangeSet) /\ acc.start \in Nat
  BY DEF Planned, Acc
<1>2. /\ f.start \in Nat /\ f.end \in Nat /\ f.start < f.end
  BY <1>1, ResumeParameters DEF FileSet, Places, Usable
<1>3. Listed(g) /\ From(g, acc.start) /\ Before(g, f.start) /\ Missing(g)
  BY <1>1, GapIs
<1>4. /\ Take(acc, f, c) = [start |-> f.end + 1, ranges |-> new] /\ Take(acc, f, c) \in Acc
      /\ d \in Seq(RangeSet)
  BY <1>1, TakeIs
<1>5. Before(a, f.start)
  <2>1. CASE a = <<>>
    BY <2>1 DEF Before
  <2>2. CASE a # <<>>
    <3>1. PICK e \in fs : Usable(e) /\ e.start < n /\ acc.start = e.end + 1
      BY <2>2 DEF Planned
    <3>2. /\ e \in FileSet /\ e.start \in Nat /\ e.end \in Nat
      BY <3>1, ResumeParameters DEF FileSet, Places
    <3>3. e # f /\ ~(f.end < e.start)
      BY <1>2, <3>1, <3>2
    <3>4. e.end < f.start
      BY <3>1, <3>3 DEF Disjoint
    <3>5. \A i \in DOMAIN a : a[i].end \in Int
      <4> HIDE DEF a
      <4>1. \A i \in DOMAIN a : a[i] \in RangeSet
        BY <1>1
      <4> QED BY <4>1, ResumeParameters DEF RangeSet, Places
    <3> QED BY <1>1, <1>2, <3>1, <3>2, <3>4, <3>5 DEF Before
  <2> QED BY <2>1, <2>2
<1>6. Listed(b)
  BY <1>1, <1>3, ListsJoin
<1>7. /\ DOMAIN a = 1..Len(a) /\ DOMAIN g = 1..Len(g) /\ DOMAIN b = 1..(Len(a) + Len(g))
      /\ Len(a) \in Nat /\ Len(g) \in Nat
      /\ \A i \in 1..Len(a) : b[i] = a[i]
      /\ \A i \in 1..(Len(a) + Len(g)) :
            i \notin 1..Len(a) => b[i] = g[i - Len(a)] /\ i - Len(a) \in 1..Len(g)
  <2>1. g \in Seq(RangeSet)
    BY <1>3 DEF Listed
  <2> HIDE DEF a, g
  <2> QED BY <1>1, <2>1
<1>8. Before(b, f.start)
  <2> HIDE DEF a, g, b
  <2> QED BY <1>3, <1>5, <1>7 DEF Before
<1>9. Listed(d) /\ From(d, f.start) /\ d[1] = Done(f) /\ DOMAIN d = 1..1
  <2>1. DOMAIN d = 1..1 /\ d[1] = Done(f) /\ d[1].start = f.start /\ d[1].end = f.end
    BY DEF Done
  <2> HIDE DEF d
  <2>2. \A i \in 1..1 : i = 1
    OBVIOUS
  <2> QED BY <1>2, <1>4, <2>1, <2>2 DEF Listed, From
<1>10. Listed(new)
  <2> HIDE DEF b, d
  <2> QED BY <1>2, <1>6, <1>8, <1>9, ListsJoin
<1>11. /\ Len(b) \in Nat /\ DOMAIN b = 1..Len(b) /\ DOMAIN new = 1..(Len(b) + 1)
       /\ \A i \in 1..Len(b) : new[i] = b[i]
       /\ new[Len(b) + 1] = Done(f)
  <2>1. b \in Seq(RangeSet)
    BY <1>6 DEF Listed
  <2> HIDE DEF b
  <2> QED BY <1>4, <2>1
<1>12. Before(new, f.end + 1)
  <2>1. new \in Seq(RangeSet)
    BY <1>10 DEF Listed
  <2> HIDE DEF new, b
  <2>2. ASSUME NEW i \in 1..Len(b) PROVE new[i].end < f.end + 1
    <3>1. b[i].end < f.start /\ i \in DOMAIN new
      BY <1>8, <1>11 DEF Before
    <3>2. new[i] \in RangeSet
      BY <2>1, <3>1
    <3> QED BY <1>2, <1>11, <3>1, <3>2, ResumeParameters, SMTT(60) DEF RangeSet, Places
  <2>3. new[Len(b) + 1].end < f.end + 1
    BY <1>2, <1>11 DEF Done
  <2> QED BY <1>11, <2>2, <2>3 DEF Before
<1>13. ASSUME NEW e \in fs, Usable(e), e.start < n + 1
       PROVE  \E i \in DOMAIN new : SameName(e, new[i])
  <2>1. CASE e = f
    <3>1. SameName(f, Done(f)) /\ Len(b) + 1 \in DOMAIN new
      BY <1>11 DEF SameName, Done
    <3> HIDE DEF new, b
    <3> QED BY <1>11, <2>1, <3>1
  <2>2. CASE e # f
    <3>1. e \in FileSet /\ e.start \in Nat /\ e.end \in Nat /\ e.start < e.end
      BY <1>13, ResumeParameters DEF FileSet, Places, Usable
    <3>2. e.start # n
      BY <1>2, <2>2, <3>1 DEF Disjoint
    <3>3. PICK i \in DOMAIN a : SameName(e, a[i])
      <4>1. e.start < n
        BY <1>13, <3>1, <3>2
      <4> QED BY <1>13, <4>1 DEF Planned
    <3>4. i \in 1..Len(b) /\ b[i] = a[i] /\ i \in DOMAIN new
      <4> HIDE DEF a, b, g, new
      <4> QED BY <1>7, <1>11, <3>3
    <3> HIDE DEF new, b, a
    <3> QED BY <1>11, <3>3, <3>4
  <2> QED BY <2>1, <2>2
<1>14. new # <<>>
  <2> HIDE DEF new, b
  <2> QED BY <1>11
<1>15. Known(fs, new)
  <2>1. ASSUME NEW i \in 1..Len(b), b[i].completed
        PROVE  \E e \in fs : Usable(e) /\ SameName(e, b[i])
    <3>1. CASE i \in 1..Len(a)
      <4>1. b[i] = a[i] /\ i \in DOMAIN a
        <5> HIDE DEF a, b, g
        <5> QED BY <1>7, <3>1
      <4> HIDE DEF a, b
      <4>2. Known(fs, a)
        BY DEF Planned, a
      <4> QED BY <2>1, <4>1, <4>2 DEF Known
    <3>2. CASE i \notin 1..Len(a)
      <4> HIDE DEF a, b, g
      <4>1. b[i] = g[i - Len(a)] /\ i - Len(a) \in DOMAIN g
        BY <1>7, <1>11, <3>2
      <4> QED BY <1>3, <2>1, <4>1 DEF Missing
    <3> QED BY <3>1, <3>2
  <2>2. SameName(f, Done(f))
    BY DEF SameName, Done
  <2> HIDE DEF new, b
  <2> QED BY <1>11, <2>1, <2>2 DEF Known
<1> HIDE DEF new
<1>16. f.start < n + 1
  OBVIOUS
<1> QED BY <1>4, <1>10, <1>12, <1>13, <1>14, <1>15, <1>16 DEF Planned

\* The plan CalRange returns: ranges one after the other, those marked completed being
\* usable temp files, and every usable temp file one of them.
Plan(fs, rs) ==
    /\ Listed(rs) /\ Known(fs, rs)
    /\ \A f \in fs : Usable(f) => \E i \in DOMAIN rs : SameName(f, rs[i])

\* One list after another.
LEMMA JoinIs ==
  ASSUME NEW a \in Seq(RangeSet), NEW b \in Seq(RangeSet)
  PROVE  /\ \A i \in DOMAIN a : i \in DOMAIN (a \o b) /\ (a \o b)[i] = a[i]
         /\ \A i \in DOMAIN b : \E j \in DOMAIN (a \o b) : (a \o b)[j] = b[i]
         /\ \A i \in DOMAIN (a \o b) :
               \/ i \in DOMAIN a /\ (a \o b)[i] = a[i]
               \/ \E j \in DOMAIN b : (a \o b)[i] = b[j]
<1> DEFINE c == a \o b
<1>1. /\ DOMAIN a = 1..Len(a) /\ DOMAIN b = 1..Len(b) /\ DOMAIN c = 1..(Len(a) + Len(b))
      /\ Len(a) \in Nat /\ Len(b) \in Nat
      /\ \A i \in 1..Len(a) : c[i] = a[i]
      /\ \A i \in (Len(a) + 1)..(Len(a) + Len(b)) : c[i] = b[i - Len(a)]
  OBVIOUS
<1> HIDE DEF c
<1>2. \A i \in DOMAIN a : i \in DOMAIN c /\ c[i] = a[i]
  BY <1>1
<1>3. ASSUME NEW i \in DOMAIN b PROVE \E j \in DOMAIN c : c[j] = b[i]
  <2>1. /\ i + Len(a) \in DOMAIN c /\ i + Len(a) \in (Len(a) + 1)..(Len(a) + Len(b))
        /\ (i + Len(a)) - Len(a) = i
    BY <1>1
  <2> QED BY <1>1, <2>1
<1>4. ASSUME NEW i \in DOMAIN c, i \notin DOMAIN a PROVE \E j \in DOMAIN b : c[i] = b[j]
  <2>1. i - Len(a) \in DOMAIN b /\ i \in (Len(a) + 1)..(Len(a) + Len(b))
    BY <1>1, <1>4
  <2> QED BY <1>1, <2>1
<1> QED BY <1>2, <1>3, <1>4 DEF c

\* What is left after the last temp file is cut into ranges after it.
LEMMA RestIs ==
  ASSUME NEW acc \in Acc, NEW c \in Nat \ {0, 1}
  PROVE  LET r == Rest(acc, c) IN Listed(r) /\ From(r, acc.start) /\ Missing(r)
<1>1. acc.start \in Nat /\ Total \in Nat
  BY ResumeParameters DEF Acc
<1>2. CASE acc.start < Total
  <2>1. Total - 1 \in Places /\ acc.start <= Total - 1
    BY <1>1, <1>2 DEF Places
  <2>2. LET rs == AddRange(acc.start, Total - 1, c)
        IN Listed(rs) /\ From(rs, acc.start) /\ Before(rs, (Total - 1) + 1) /\ Missing(rs)
    BY <1>1, <2>1, AddRangeLists
  <2> QED BY <1>2, <2>2 DEF Rest
<1>3. CASE ~(acc.start < Total)
  BY <1>3 DEF Rest, Listed, From, Missing
<1> QED BY <1>2, <1>3

\* A byte at which CalRange finds no temp file changes nothing.
LEMMA FoundPlanned ==
  ASSUME NEW fs \in SUBSET FileSet, Disjoint(fs), NEW acc, NEW n \in Nat, Planned(fs, acc, n),
         NEW c \in Nat \ {0, 1}
  PROVE  Planned(fs, Found(fs, acc, n, c), n + 1)
<1>1. CASE At(fs, n) # {}
  <2> DEFINE f == CHOOSE f \in At(fs, n) : TRUE
  <2>1. f \in At(fs, n)
    BY <1>1
  <2>2. f \in fs /\ Usable(f) /\ f.start = n
    <3> HIDE DEF f
    <3> QED BY <2>1 DEF At
  <2>3. Found(fs, acc, n, c) = Take(acc, f, c)
    BY <1>1 DEF Found
  <2> HIDE DEF f
  <2> QED BY <2>2, <2>3, TakePlanned
<1>2. CASE At(fs, n) = {}
  <2>1. \A f \in fs : f.start \in Nat
    BY ResumeParameters DEF FileSet, Places
  <2>2. \A f \in fs : Usable(f) => f.start # n
    BY <1>2 DEF At
  <2>3. \A f \in fs : Usable(f) /\ f.start < n + 1 => f.start < n
    BY <2>1, <2>2
  <2>4. \A f \in fs : f.start < n => f.start < n + 1
    BY <2>1
  <2> QED BY <1>2, <2>3, <2>4 DEF Found, Planned
<1> QED BY <1>1, <1>2

\* CalRange returns a plan, for any temp files that share no byte.
LEMMA PlanIs ==
  ASSUME NEW fs \in SUBSET FileSet, Disjoint(fs), NEW size \in Nat, NEW c \in Nat \ {0, 1}
  PROVE  Plan(fs, CalRange(fs, size, Total, c))
<1>1. Total \in Nat
  BY ResumeParameters
<1>2. PICK u \in [0..Total -> Acc] :
         /\ u[0] = [start |-> size, ranges |-> <<>>]
         /\ \A i \in 1..Total : u[i] = Found(fs, u[i - 1], i - 1, c)
         /\ CalRange(fs, size, Total, c) = u[Total].ranges \o Rest(u[Total], c)
  <2>1. Course(fs, size, c)
    BY CourseIs
  <2> QED BY <2>1 DEF Course
<1> DEFINE bad == {n \in 0..Total : ~Planned(fs, u[n], n)}
<1>3. Planned(fs, u[0], 0)
  <2>1. u[0] \in Acc
    BY <1>1, <1>2
  <2>2. \A f \in fs : ~(f.start < 0)
    BY ResumeParameters DEF FileSet, Places
  <2> QED BY <1>2, <2>1, <2>2 DEF Planned, Listed, Before, Known
<1>4. bad = {}
  <2> SUFFICES ASSUME bad # {} PROVE FALSE
    OBVIOUS
  <2>1. bad \in SUBSET Nat
    OBVIOUS
  <2>2. PICK n \in bad : \A m \in bad : n <= m
    <3> HIDE DEF bad
    <3> QED BY <2>1, Least
  <2>3. n \in 1..Total /\ n - 1 \in 0..Total /\ ~ (n <= n - 1) /\ n - 1 \in Nat /\ (n - 1) + 1 = n
    <3>1. n \in 0..Total /\ n # 0
      BY <1>3, <2>2
    <3> QED BY <1>1, <3>1
  <2>4. Planned(fs, u[n - 1], n - 1)
    BY <2>2, <2>3
  <2>5. u[n] = Found(fs, u[n - 1], n - 1, c)
    BY <1>2, <2>3
  <2>6. Planned(fs, Found(fs, u[n - 1], n - 1, c), (n - 1) + 1)
    BY <2>3, <2>4, FoundPlanned
  <2> QED BY <2>2, <2>3, <2>5, <2>6
<1>5. Planned(fs, u[Total], Total)
  BY <1>1, <1>4
<1> DEFINE acc == u[Total]  a == acc.ranges  r == Rest(acc, c)  rs == a \o r
<1>6. /\ acc \in Acc /\ acc.start \in Nat /\ a \in Seq(RangeSet)
      /\ Listed(a) /\ Before(a, acc.start) /\ Known(fs, a)
      /\ \A f \in fs : Usable(f) => \E i \in DOMAIN a : SameName(f, a[i])
  <2>1. \A f \in fs : f.start < Total
    BY ResumeParameters DEF FileSet, Places
  <2> HIDE DEF bad
  <2> QED BY <1>5, <2>1 DEF Planned, Acc
<1> HIDE DEF acc
<1>7. Listed(r) /\ From(r, acc.start) /\ Missing(r) /\ r \in Seq(RangeSet)
  BY <1>6, RestIs DEF Listed
<1> HIDE DEF a, r
<1>8. Listed(rs)
  BY <1>6, <1>7, ListsJoin
<1>9. /\ \A i \in DOMAIN a : i \in DOMAIN rs /\ rs[i] = a[i]
      /\ \A i \in DOMAIN rs : \/ i \in DOMAIN a /\ rs[i] = a[i]
                              \/ \E j \in DOMAIN r : rs[i] = r[j]
  BY <1>6, <1>7, JoinIs
<1>10. CalRange(fs, size, Total, c) = rs
  BY <1>2 DEF rs, a, r, acc
<1> HIDE DEF rs
<1>11. Known(fs, rs)
  BY <1>6, <1>7, <1>9 DEF Known, Missing
<1>12. \A f \in fs : Usable(f) => \E i \in DOMAIN rs : SameName(f, rs[i])
  BY <1>6, <1>9
<1> QED BY <1>8, <1>10, <1>11, <1>12 DEF Plan

\* Temp files lie where the output file ends or after it, between joints.
Fits(d, fs, size) ==
    \A f \in fs : size <= f.start /\ Mult(d, f.start) /\ Joint(d, f.end + 1)

\* What is planned so far leaves no byte out.
Exact(d, fs, size, acc, n) ==
    /\ Planned(fs, acc, n)
    /\ Tiles(acc.ranges, size, acc.start) /\ Joints(d, acc.ranges)
    /\ Joint(d, acc.start) /\ size <= acc.start

\* Lists between joints make a list between joints.
LEMMA JointsJoin ==
  ASSUME NEW d, NEW a \in Seq(RangeSet), NEW b \in Seq(RangeSet), Joints(d, a), Joints(d, b)
  PROVE  Joints(d, a \o b)
<1> DEFINE c == a \o b
<1>1. \A i \in DOMAIN c : \/ i \in DOMAIN a /\ c[i] = a[i]
                          \/ \E j \in DOMAIN b : c[i] = b[j]
  BY JoinIs
<1> HIDE DEF c
<1>2. Joints(d, c)
  BY <1>1 DEF Joints
<1> QED BY <1>2 DEF c

\* A temp file and the gap before it continue what is planned without a hole.
LEMMA TakeExact ==
  ASSUME NEW fs \in SUBSET FileSet, Disjoint(fs), NEW acc, NEW n \in Nat, NEW d, NoByteLeft(d),
         NEW size \in Nat, Fits(d, fs, size), Exact(d, fs, size, acc, n),
         NEW c \in Nat \ {0, 1}, Mult(d, c), NEW f \in fs, Usable(f), f.start = n
  PROVE  Exact(d, fs, size, Take(acc, f, c), n + 1)
<1> DEFINE g == Gap(acc, f, c)  a == acc.ranges  h == <<Done(f)>>  new == a \o g \o h
<1>1. /\ acc \in Acc /\ f \in FileSet /\ a \in Seq(RangeSet) /\ acc.start \in Nat
      /\ Planned(fs, acc, n)
  BY DEF Planned, Acc, Exact
<1>2. /\ f.start \in Places /\ f.end \in Places /\ f.start \in Nat /\ f.end \in Nat
      /\ f.start < f.end
      /\ Total \in Nat
  BY <1>1, ResumeParameters DEF FileSet, Places, Usable
<1>3. /\ size <= f.start /\ Mult(d, f.start) /\ Joint(d, f.end + 1)
  BY DEF Fits
<1>4. /\ Take(acc, f, c) = [start |-> f.end + 1, ranges |-> new]
      /\ Done(f) \in RangeSet /\ h \in Seq(RangeSet)
  BY <1>1, TakeIs
<1>5. Planned(fs, Take(acc, f, c), n + 1)
  BY <1>1, TakePlanned
<1>6. acc.start <= f.start
  <2>1. CASE a = <<>>
    BY <1>3, <2>1 DEF Exact, Tiles
  <2>2. CASE a # <<>>
    <3>1. PICK e \in fs : Usable(e) /\ e.start < n /\ acc.start = e.end + 1
      BY <1>1, <2>2 DEF Planned
    <3>2. /\ e \in FileSet /\ e.start \in Nat /\ e.end \in Nat
      BY <3>1, ResumeParameters DEF FileSet, Places
    <3>3. e # f /\ ~(f.end < e.start)
      BY <1>2, <3>1, <3>2
    <3>4. e.end < f.start
      BY <3>1, <3>3 DEF Disjoint
    <3> QED BY <1>2, <3>1, <3>2, <3>4
  <2> QED BY <2>1, <2>2
<1>7. g \in Seq(RangeSet)
  BY <1>1, GapIs DEF Listed
<1>8. Tiles(g, acc.start, f.start) /\ Joints(d, g)
  <2>1. CASE f.start > acc.start
    <3>1. f.start - 1 \in Places /\ acc.start <= f.start - 1 /\ (f.start - 1) + 1 = f.start
      BY <1>1, <1>2, <2>1 DEF Places
    <3>2. acc.start # Total
      BY <1>1, <1>2, <2>1, ResumeParameters DEF Places
    <3>3. Mult(d, acc.start) /\ Joint(d, (f.start - 1) + 1)
      BY <1>3, <3>1, <3>2 DEF Exact, Joint
    <3>4. LET rs == AddRange(acc.start, f.start - 1, c)
          IN Tiles(rs, acc.start, (f.start - 1) + 1) /\ Joints(d, rs)
      BY <1>1, <3>1, <3>3, AddRangeTiles
    <3> QED BY <2>1, <3>1, <3>4 DEF Gap
  <2>2. CASE ~(f.start > acc.start)
    <3>1. f.start = acc.start
      BY <1>1, <1>2, <1>6, <2>2
    <3> QED BY <2>2, <3>1 DEF Gap, Tiles, Joints
  <2> QED BY <2>1, <2>2
<1>9. Tiles(h, f.start, f.end + 1) /\ Joints(d, h)
  <2>1. /\ Len(h) = 1 /\ DOMAIN h = 1..1 /\ h[1] = Done(f) /\ h # <<>>
        /\ h[1].start = f.start /\ h[1].end = f.end
    BY DEF Done
  <2> HIDE DEF h
  <2>2. \A i \in 1..1 : i = 1
    OBVIOUS
  <2> QED BY <1>3, <2>1, <2>2 DEF Tiles, Joints
<1>10. Tiles(new, size, f.end + 1) /\ Joints(d, new)
  <2>1. Tiles(a, size, acc.start) /\ Joints(d, a)
    BY DEF Exact
  <2> HIDE DEF a, g, h
  <2>2. Tiles(a \o g, size, f.start) /\ Joints(d, a \o g) /\ a \o g \in Seq(RangeSet)
    BY <1>1, <1>7, <1>8, <2>1, TilesJoin, JointsJoin
  <2> QED BY <1>4, <1>9, <2>2, TilesJoin, JointsJoin
<1>11. size <= f.end + 1
  BY <1>2, <1>3
<1> HIDE DEF new
<1> QED BY <1>3, <1>4, <1>5, <1>10, <1>11 DEF Exact

\* So does every byte that CalRange goes over.
LEMMA FoundExact ==
  ASSUME NEW fs \in SUBSET FileSet, Disjoint(fs), NEW acc, NEW n \in Nat, NEW d, NoByteLeft(d),
         NEW size \in Nat, Fits(d, fs, size), Exact(d, fs, size, acc, n),
         NEW c \in Nat \ {0, 1}, Mult(d, c)
  PROVE  Exact(d, fs, size, Found(fs, acc, n, c), n + 1)
<1>1. CASE At(fs, n) # {}
  <2> DEFINE f == CHOOSE f \in At(fs, n) : TRUE
  <2>1. f \in At(fs, n)
    BY <1>1
  <2>2. f \in fs /\ Usable(f) /\ f.start = n
    <3> HIDE DEF f
    <3> QED BY <2>1 DEF At
  <2>3. Found(fs, acc, n, c) = Take(acc, f, c)
    BY <1>1 DEF Found
  <2> HIDE DEF f
  <2> QED BY <2>2, <2>3, TakeExact
<1>2. CASE At(fs, n) = {}
  <2>1. Found(fs, acc, n, c) = acc
    BY <1>2 DEF Found
  <2>2. Planned(fs, Found(fs, acc, n, c), n + 1)
    BY FoundPlanned DEF Exact
  <2> QED BY <2>1, <2>2 DEF Exact
<1> QED BY <1>1, <1>2

\* CalRange plans every byte after the output file, once.
LEMMA PlanTiles ==
  ASSUME NEW fs \in SUBSET FileSet, Disjoint(fs), NEW d, NoByteLeft(d),
         NEW size \in Nat, size <= Total, Joint(d, size), Fits(d, fs, size),
         NEW c \in Nat \ {0, 1}, Mult(d, c)
  PROVE  LET rs == CalRange(fs, size, Total, c) IN Tiles(rs, size, Total) /\ Joints(d, rs)
<1>1. Total \in Nat
  BY ResumeParameters
<1>2. PICK u \in [0..Total -> Acc] :
         /\ u[0] = [start |-> size, ranges |-> <<>>]
         /\ \A i \in 1..Total : u[i] = Found(fs, u[i - 1], i - 1, c)
         /\ CalRange(fs, size, Total, c) = u[Total].ranges \o Rest(u[Total], c)
  <2>1. Course(fs, size, c)
    BY CourseIs
  <2> QED BY <2>1 DEF Course
<1> DEFINE bad == {n \in 0..Total : ~Exact(d, fs, size, u[n], n)}
<1>3. Exact(d, fs, size, u[0], 0)
  <2>1. u[0] \in Acc
    BY <1>1, <1>2
  <2>2. \A f \in fs : ~(f.start < 0)
    BY ResumeParameters DEF FileSet, Places
  <2>3. Planned(fs, u[0], 0)
    BY <1>2, <2>1, <2>2 DEF Planned, Listed, Before, Known
  <2> QED BY <1>2, <2>3 DEF Exact, Tiles, Joints
<1>4. bad = {}
  <2> SUFFICES ASSUME bad # {} PROVE FALSE
    OBVIOUS
  <2>1. bad \in SUBSET Nat
    OBVIOUS
  <2>2. PICK n \in bad : \A m \in bad : n <= m
    <3> HIDE DEF bad
    <3> QED BY <2>1, Least
  <2>3. n \in 1..Total /\ n - 1 \in 0..Total /\ ~ (n <= n - 1) /\ n - 1 \in Nat /\ (n - 1) + 1 = n
    <3>1. n \in 0..Total /\ n # 0
      BY <1>3, <2>2
    <3> QED BY <1>1, <3>1
  <2>4. Exact(d, fs, size, u[n - 1], n - 1)
    BY <2>2, <2>3
  <2>5. u[n] = Found(fs, u[n - 1], n - 1, c)
    BY <1>2, <2>3
  <2>6. Exact(d, fs, size, Found(fs, u[n - 1], n - 1, c), (n - 1) + 1)
    BY <2>3, <2>4, FoundExact
  <2> QED BY <2>2, <2>3, <2>5, <2>6
<1>5. Exact(d, fs, size, u[Total], Total)
  BY <1>1, <1>4
<1> DEFINE acc == u[Total]  a == acc.ranges  r == Rest(acc, c)
<1>6. /\ acc \in Acc /\ acc.start \in Nat /\ a \in Seq(RangeSet)
      /\ Tiles(a, size, acc.start) /\ Joints(d, a) /\ Joint(d, acc.start) /\ size <= acc.start
  <2> HIDE DEF bad
  <2> QED BY <1>5 DEF Planned, Acc, Exact
<1>7. acc.start <= Total
  <2>1. CASE a = <<>>
    BY <1>6, <2>1 DEF Tiles
  <2>2. CASE a # <<>>
    <3>1. PICK e \in fs : acc.start = e.end + 1
      BY <1>5, <2>2 DEF Planned, Exact
    <3> QED BY <3>1, ResumeParameters DEF FileSet, Places
  <2> QED BY <2>1, <2>2
<1> HIDE DEF acc
<1>8. r \in Seq(RangeSet)
  BY <1>6, RestIs DEF Listed
<1>9. Tiles(r, acc.start, Total) /\ Joints(d, r)
  <2>1. CASE acc.start < Total
    <3>1. Total - 1 \in Places /\ acc.start <= Total - 1 /\ (Total - 1) + 1 = Total
      BY <1>1, <1>6, <2>1 DEF Places
    <3>2. Mult(d, acc.start) /\ Joint(d, (Total - 1) + 1)
      BY <1>1, <1>6, <2>1, <3>1 DEF Joint
    <3>3. LET rs == AddRange(acc.start, Total - 1, c)
          IN Tiles(rs, acc.start, (Total - 1) + 1) /\ Joints(d, rs)
      BY <1>6, <3>1, <3>2, AddRangeTiles
    <3> QED BY <2>1, <3>1, <3>3 DEF Rest
  <2>2. CASE ~(acc.start < Total)
    <3>1. acc.start = Total
      BY <1>1, <1>6, <1>7, <2>2
    <3> QED BY <2>2, <3>1 DEF Rest, Tiles, Joints
  <2> QED BY <2>1, <2>2
<1>10. CalRange(fs, size, Total, c) = a \o r
  BY <1>2 DEF a, r, acc
<1> HIDE DEF a, r
<1>11. Tiles(a \o r, size, Total) /\ Joints(d, a \o r)
  BY <1>6, <1>8, <1>9, TilesJoin, JointsJoin
<1> QED BY <1>10, <1>11

------------------------------------------------------------------------------
(* What a list of ranges adds to the output file. *)

\* A section and the one that follows it are one section.
LEMMA BytesJoin ==
  ASSUME NEW a \in Nat, NEW m \in Nat, NEW n \in Nat
  PROVE  /\ Bytes(a, m) \o Bytes(a + m, n) = Bytes(a, m + n)
         /\ Bytes(a, m) \in Seq(Nat) /\ Len(Bytes(a, m)) = m
BY DEF Bytes

\* Ranges that cover a stretch once add exactly its bytes, in order.
LEMMA BytesOfIs ==
  ASSUME NEW rs \in Seq(RangeSet), \A i \in DOMAIN rs : rs[i].start < rs[i].end,
         NEW a \in Nat, NEW b \in Nat, Tiles(rs, a, b)
  PROVE  BytesOf(rs) = Bytes(a, b - a) /\ a <= b
<1> DEFINE n == Len(rs)
           Piece(k) == [j \in 1..(rs[k].end - rs[k].start + 1) |-> rs[k].start + j - 1]
           Is(u) == u = [k \in 0..n |-> IF k = 0 THEN <<>> ELSE u[k - 1] \o Piece(k)]
           v == CHOOSE u : Is(u)
           w == [k \in 0..n |-> IF k = 0 THEN <<>> ELSE Bytes(a, (rs[k].end + 1) - a)]
<1>1. /\ n \in Nat /\ DOMAIN rs = 1..n
      /\ \A i \in 1..n : /\ rs[i].start \in Nat /\ rs[i].end \in Nat /\ rs[i].start < rs[i].end
                         /\ Piece(i) = Bytes(rs[i].start, (rs[i].end + 1) - rs[i].start)
  <2>1. n \in Nat /\ DOMAIN rs = 1..n
    OBVIOUS
  <2>2. ASSUME NEW i \in 1..n
        PROVE  /\ rs[i].start \in Nat /\ rs[i].end \in Nat /\ rs[i].start < rs[i].end
               /\ Piece(i) = Bytes(rs[i].start, (rs[i].end + 1) - rs[i].start)
    <3>1. rs[i] \in RangeSet /\ rs[i].start < rs[i].end
      <4> HIDE DEF n
      <4>1. i \in DOMAIN rs
        BY <2>1
      <4> QED BY <4>1
    <3> HIDE DEF n
    <3>2. rs[i].start \in Nat /\ rs[i].end \in Nat /\ rs[i].start < rs[i].end
      BY <2>1, <3>1, ResumeParameters DEF RangeSet, Places
    <3>3. rs[i].end - rs[i].start + 1 = (rs[i].end + 1) - rs[i].start
      BY <3>2, SMTT(60)
    <3> QED BY <3>2, <3>3 DEF Bytes
  <2> QED BY <2>1, <2>2
<1> HIDE DEF n, Piece
\* The list goes on without a gap, so it never falls back behind its beginning.
<1>2. \A i \in 1..n : /\ i = 1 => rs[i].start = a
                      /\ i # 1 => rs[i].start = rs[i - 1].end + 1
                      /\ i = n => rs[i].end + 1 = b
  <2>1. ASSUME NEW i \in 1..n
        PROVE  /\ i = 1 => rs[i].start = a
               /\ i # 1 => rs[i].start = rs[i - 1].end + 1
               /\ i = n => rs[i].end + 1 = b
    <3>1. rs # <<>>
      BY <1>1 DEF n
    <3>2. i # 1 => i - 1 \in 1..(n - 1) /\ (i - 1) + 1 = i
      BY <1>1
    <3> QED BY <3>1, <3>2 DEF Tiles, n
  <2> QED BY <2>1
<1>3. \A i \in 1..n : a <= rs[i].start
  <2> DEFINE bad == {i \in 1..n : ~ (a <= rs[i].start)}
  <2>1. ASSUME bad # {} PROVE FALSE
    <3>1. bad \in SUBSET Nat
      BY <1>1
    <3>2. PICK i \in bad : \A j \in bad : i <= j
      <4> HIDE DEF bad
      <4> QED BY <2>1, <3>1, Least
    <3>3. i \in 1..n /\ i # 1
      BY <1>2, <3>2
    <3>4. i - 1 \in 1..n /\ ~ (i <= i - 1)
      BY <1>1, <3>3
    <3>5. a <= rs[i - 1].start
      BY <3>2, <3>4
    <3>6. rs[i].start = rs[i - 1].end + 1 /\ rs[i - 1].start < rs[i - 1].end
      BY <1>1, <1>2, <3>3, <3>4
    <3> QED BY <1>1, <3>2, <3>3, <3>4, <3>5, <3>6
  <2> QED BY <2>1
<1>4. w[0] = <<>> /\ w = [k \in 0..n |-> w[k]]
  BY <1>1
<1>5. ASSUME NEW k \in 1..n PROVE w[k] = w[k - 1] \o Piece(k)
  <2>1. /\ k \in 0..n /\ k # 0 /\ k - 1 \in 0..n /\ k \in Nat
        /\ a <= rs[k].start /\ rs[k].start \in Nat /\ rs[k].end \in Nat /\ rs[k].start < rs[k].end
        /\ Piece(k) = Bytes(rs[k].start, (rs[k].end + 1) - rs[k].start)
    BY <1>1, <1>3
  <2> DEFINE s == rs[k].start  e == rs[k].end
  <2>2. w[k] = Bytes(a, (e + 1) - a)
    BY <2>1
  <2>3. w[k - 1] = Bytes(a, s - a)
    <3>1. CASE k = 1
      <4>1. s - a = 0 /\ k - 1 = 0
        BY <1>2, <2>1, <3>1
      <4>2. w[k - 1] = <<>>
        BY <1>4, <4>1
      <4>3. Bytes(a, s - a) = <<>>
        BY <4>1 DEF Bytes
      <4> HIDE DEF w, s
      <4> QED BY <4>2, <4>3
    <3>2. CASE k # 1
      <4>1. k - 1 # 0 /\ s = rs[k - 1].end + 1
        BY <1>2, <2>1, <3>2
      <4>2. w[k - 1] = Bytes(a, (rs[k - 1].end + 1) - a)
        BY <2>1, <4>1
      <4> HIDE DEF w, s
      <4> QED BY <4>1, <4>2
    <3> QED BY <3>1, <3>2
  <2>7. s \in Nat /\ e \in Nat /\ a <= s /\ s < e
    BY <2>1
  <2> HIDE DEF w, s, e
  <2>4. /\ s - a \in Nat /\ (e + 1) - s \in Nat /\ a + (s - a) = s
        /\ (s - a) + ((e + 1) - s) = (e + 1) - a
    BY <2>7
  <2>5. Bytes(a, s - a) \o Bytes(a + (s - a), (e + 1) - s) = Bytes(a, (s - a) + ((e + 1) - s))
    BY <2>4, BytesJoin, ZenonT(60)
  <2>6. Piece(k) = Bytes(s, (e + 1) - s)
    BY <2>1 DEF s, e
  <2> QED BY <2>2, <2>3, <2>4, <2>5, <2>6
<1>6. Is(w)
  <2> DEFINE z == [k \in 0..n |-> IF k = 0 THEN <<>> ELSE w[k - 1] \o Piece(k)]
  <2>1. ASSUME NEW k \in 0..n PROVE w[k] = z[k]
    <3>1. CASE k = 0
      BY <1>1, <1>4, <3>1
    <3>2. CASE k # 0
      <4>1. k \in 1..n
        BY <1>1, <3>2
      <4> HIDE DEF w
      <4> QED BY <1>5, <3>2, <4>1
    <3> QED BY <3>1, <3>2
  <2>2. w = z
    <3> HIDE DEF w
    <3> QED BY <1>4, <2>1
  <2> QED BY <2>2
<1>7. Is(v)
  <2> HIDE DEF Is
  <2> QED BY <1>6
<1>8. ASSUME NEW k \in 1..n PROVE v[k] = v[k - 1] \o Piece(k)
  <2>1. k \in 0..n /\ k # 0
    BY <1>1
  <2> HIDE DEF v
  <2> QED BY <1>7, <2>1
<1>9. v[0] = <<>>
  <2>1. 0 \in 0..n
    BY <1>1
  <2> HIDE DEF v
  <2> QED BY <1>7, <2>1
<1> HIDE DEF v, Is
<1>10. v[n] = w[n]
  <2> HIDE DEF w
  <2> DEFINE bad == {k \in 0..n : v[k] # w[k]}
  <2>1. ASSUME bad # {} PROVE FALSE
    <3>1. bad \in SUBSET Nat
      OBVIOUS
    <3>2. PICK k \in bad : \A m \in bad : k <= m
      <4> HIDE DEF bad
      <4> QED BY <2>1, <3>1, Least
    <3>3. k \in 1..n /\ k - 1 \in 0..n /\ ~ (k <= k - 1)
      <4>1. k \in 0..n /\ k # 0
        BY <1>4, <1>9, <3>2
      <4> QED BY <1>1, <4>1
    <3>4. v[k - 1] = w[k - 1]
      BY <3>2, <3>3
    <3> QED BY <1>5, <1>8, <3>2, <3>3, <3>4
  <2> QED BY <1>1, <2>1
<1>11. BytesOf(rs) = v[n]
  BY DEF BytesOf, v, Is, n, Piece
<1>12. CASE n = 0
  <2>1. rs = <<>> /\ a = b
    BY <1>12 DEF Tiles, n
  <2>2. b - a = 0 /\ a <= b
    BY <2>1
  <2>3. Bytes(a, b - a) = <<>>
    BY <2>2 DEF Bytes
  <2> HIDE DEF w
  <2> QED BY <1>4, <1>10, <1>11, <1>12, <2>2, <2>3
<1>13. CASE n # 0
  <2>1. n \in 1..n /\ n \in 0..n
    BY <1>1, <1>13
  <2>2. /\ rs[n].end + 1 = b /\ a <= rs[n].start /\ rs[n].start < rs[n].end
        /\ rs[n].start \in Nat /\ rs[n].end \in Nat
    BY <1>1, <1>2, <1>3, <2>1
  <2>3. w[n] = Bytes(a, b - a)
    BY <1>13, <2>1, <2>2
  <2>4. a <= b
    BY <2>2, SMTT(60)
  <2> HIDE DEF w
  <2> QED BY <1>10, <1>11, <2>3, <2>4
<1> QED BY <1>12, <1>13

\* What is left of a list that leaves nothing out, and after one more range.
LEMMA SuffixTiles ==
  ASSUME NEW rs \in Seq(RangeSet), NEW k \in 1..Len(rs), NEW a, NEW b,
         Tiles(SubSeq(rs, k, Len(rs)), a, b)
  PROVE  /\ rs[k].start = a
         /\ Tiles(SubSeq(rs, k + 1, Len(rs)), rs[k].end + 1, b)
<1> DEFINE n == Len(rs)  s == SubSeq(rs, k, n)  t == SubSeq(rs, k + 1, n)  l == n - k
<1>1. k \in Nat /\ n \in Nat /\ l \in Nat /\ k <= n
  OBVIOUS
<1>2. Len(s) = l + 1 /\ s # <<>> /\ \A i \in 1..(l + 1) : s[i] = rs[k + i - 1]
  <2>1. s \in Seq(RangeSet) /\ Len(s) = l + 1
    BY <1>1
  <2>2. \A i \in 1..(l + 1) : s[i] = rs[k + i - 1]
    BY <1>1
  <2> HIDE DEF s, l
  <2> QED BY <1>1, <2>1, <2>2
<1>3. Len(t) = l /\ (l = 0 => t = <<>>) /\ (l # 0 => t # <<>>) /\ \A i \in 1..l : t[i] = rs[k + i]
  <2>1. t \in Seq(RangeSet) /\ Len(t) = l
    BY <1>1
  <2>2. \A i \in 1..l : t[i] = rs[k + i]
    BY <1>1
  <2> HIDE DEF t, l
  <2> QED BY <2>1, <2>2
<1>4. s[1].start = a /\ s[l + 1].end + 1 = b /\ \A i \in 1..l : s[i + 1].start = s[i].end + 1
  <2>1. (l + 1) - 1 = l
    BY <1>1
  <2> HIDE DEF s, l
  <2> QED BY <1>2, <2>1 DEF Tiles, s
<1> HIDE DEF n, s, t, l
<1>5. s[1] = rs[k] /\ \A i \in 1..l : s[i + 1] = t[i]
  <2>1. 1 \in 1..(l + 1) /\ k + 1 - 1 = k
    BY <1>1
  <2>2. \A i \in 1..l : i + 1 \in 1..(l + 1) /\ k + (i + 1) - 1 = k + i
    BY <1>1
  <2> QED BY <1>2, <1>3, <2>1, <2>2, SMTT(60)
<1>6. CASE l = 0
  <2>1. t = <<>> /\ s[1].end + 1 = b
    BY <1>3, <1>4, <1>6
  <2>2. Tiles(t, rs[k].end + 1, b)
    BY <1>5, <2>1 DEF Tiles
  <2> QED BY <1>4, <1>5, <2>2 DEF t, n
<1>7. CASE l # 0
  <2>1. 1 \in 1..l /\ l \in 1..l
    BY <1>1, <1>7
  <2>2. t[1].start = rs[k].end + 1 /\ t[l].end + 1 = b
    BY <1>4, <1>5, <2>1
  <2>3. ASSUME NEW i \in 1..(l - 1) PROVE t[i + 1].start = t[i].end + 1
    <3>1. i \in 1..l /\ i + 1 \in 1..l
      BY <1>1
    <3> QED BY <1>4, <1>5, <3>1
  <2>4. Tiles(t, rs[k].end + 1, b)
    BY <1>3, <1>7, <2>2, <2>3 DEF Tiles
  <2> QED BY <1>4, <1>5, <2>4 DEF t, n
<1> QED BY <1>4, <1>5, <1>6, <1>7

------------------------------------------------------------------------------
(* The inductive invariants. *)

\* The temp files of a run are named after the ranges it has yet to merge, and those of
\* ranges marked completed are whole.
InStep ==
    /\ Listed(ranges)
    /\ \A f \in files : \E k \in next..Len(ranges) : SameName(f, ranges[k])
    /\ \A k \in next..Len(ranges) : ranges[k].completed =>
          \E f \in files : SameName(f, ranges[k]) /\ Usable(f)

RInv ==
    /\ TypeOK
    /\ Disjoint(files)
    /\ \A f \in files : f.start < f.end /\ f.size <= f.end - f.start + 1
    /\ pc = "copied" => next <= Len(ranges)
    /\ pc \in {"run", "copied"} => InStep

\* The ranges from k on.
Left(k) == SubSeq(ranges, k, Len(ranges))

\* Where no crash tore the output file.
WholeSoFar(d) ==
    /\ output = Bytes(0, Len(output)) /\ Len(output) <= Total
    /\ pc = "idle" => Fits(d, files, Len(output)) /\ Joint(d, Len(output))
    /\ pc = "run" => Joints(d, ranges) /\ Tiles(Left(next), Len(output), Total)
    /\ pc = "copied" => /\ Joints(d, ranges) /\ Tiles(Left(next + 1), Len(output), Total)
                        /\ ranges[next].end + 1 = Len(output)
    /\ pc = "done" => Len(output) = Total /\ files = {}

SInv(d) == ~torn => WholeSoFar(d)

\* What RInv says of the types, element by element.
LEMMA TypesAre ==
  ASSUME RInv
  PROVE  /\ output \in Seq(Places) /\ files \in SUBSET FileSet /\ ranges \in Seq(RangeSet)
         /\ next \in Nat /\ next >= 1 /\ next <= Len(ranges) + 1 /\ Len(ranges) \in Nat
         /\ DOMAIN ranges = 1..Len(ranges) /\ Total \in Nat /\ Total > 0
         /\ \A f \in files : /\ f.start \in Nat /\ f.end \in Nat /\ f.size \in Nat
                             /\ f.start < f.end /\ f.end < Total
                             /\ f.size <= f.end - f.start + 1
         /\ \A k \in DOMAIN ranges : /\ ranges[k] \in RangeSet
                                     /\ ranges[k].start \in Nat /\ ranges[k].end \in Nat
                                     /\ ranges[k].end < Total
<1>1. /\ output \in Seq(Places) /\ files \in SUBSET FileSet /\ ranges \in Seq(RangeSet)
      /\ next \in 1..(Len(ranges) + 1) /\ Len(ranges) \in Nat /\ DOMAIN ranges = 1..Len(ranges)
  BY DEF RInv, TypeOK, FileSet, RangeSet, Places
<1>2. Total \in Nat /\ Total > 0
  BY ResumeParameters
<1>3. ASSUME NEW f \in files
      PROVE  /\ f.start \in Nat /\ f.end \in Nat /\ f.size \in Nat /\ f.end < Total
             /\ f.start < f.end /\ f.size <= f.end - f.start + 1
  <2>1. f \in FileSet
    BY <1>1
  <2> QED BY <1>2, <2>1 DEF RInv, FileSet, Places
<1>4. ASSUME NEW k \in DOMAIN ranges
      PROVE  /\ ranges[k] \in RangeSet
             /\ ranges[k].start \in Nat /\ ranges[k].end \in Nat /\ ranges[k].end < Total
  <2>1. ranges[k] \in RangeSet
    BY <1>1
  <2> QED BY <1>2, <2>1 DEF RangeSet, Places
<1> QED BY <1>1, <1>2, <1>3, <1>4

\* Two ranges of a plan have not the same name.
LEMMA NamesDiffer ==
  ASSUME RInv, Listed(ranges), NEW j \in DOMAIN ranges, NEW k \in DOMAIN ranges, j # k,
         NEW f \in files, SameName(f, ranges[j])
  PROVE  ~SameName(f, ranges[k])
<1>1. /\ ranges[j].start \in Nat /\ ranges[k].start \in Nat
      /\ ranges[j].end \in Nat /\ ranges[k].end \in Nat
      /\ ranges[j].start < ranges[j].end /\ ranges[k].start < ranges[k].end
      /\ j \in Nat /\ k \in Nat
  BY TypesAre DEF Listed
<1>2. j < k \/ k < j
  BY <1>1
<1>3. ranges[j].end < ranges[k].start \/ ranges[k].end < ranges[j].start
  BY <1>2 DEF Listed
<1> QED BY <1>1, <1>3 DEF SameName

\* Appending a part of the remote file to the output file.
LEMMA Appended ==
  ASSUME RInv, NEW f \in files, NEW n \in 0..f.size
  PROVE  output \o Bytes(f.start, n) \in Seq(Places)
<1>1. /\ f.start \in Nat /\ f.end \in Nat /\ f.size \in Nat /\ f.end < Total
      /\ f.size <= f.end - f.start + 1 /\ output \in Seq(Places)
  BY TypesAre
<1>2. n \in Nat /\ f.start + n <= Total
  BY <1>1, ResumeParameters, SMTT(60)
<1>3. Bytes(f.start, n) \in Seq(Places)
  BY <1>1, <1>2, ResumeParameters, SMTT(60) DEF Bytes, Places
<1> QED BY <1>1, <1>3

\* With nothing on disk RInv holds.
LEMMA InitRuns == Init => RInv
<1> SUFFICES ASSUME Init PROVE RInv
  OBVIOUS
<1>1. TypeOK
  <2>1. /\ <<>> \in Seq(0..(Total - 1)) /\ Len(<<>>) = 0 /\ 1 \in 1..(0 + 1) /\ 0 \in 0..MaxCrashes
        /\ <<>> \in Seq([start : 0..(Total - 1), end : 0..(Total - 1), completed : BOOLEAN])
    BY ResumeParameters
  <2> QED BY <2>1 DEF Init, TypeOK
<1>2. RInv
  BY <1>1 DEF Init, RInv, Disjoint
<1> QED BY <1>2

\* A file that is there already is left alone.
LEMMA SkipRuns == RInv /\ Skip => RInv'
<1> SUFFICES ASSUME RInv, Skip PROVE RInv'
  OBVIOUS
<1>1. TypeOK'
  BY DEF RInv, TypeOK, Skip
<1> QED BY <1>1 DEF RInv, Skip

\* The file is asked for once more.
LEMMA AgainRuns == RInv /\ Again => RInv'
<1> SUFFICES ASSUME RInv, Again PROVE RInv'
  OBVIOUS
<1>1. TypeOK'
  BY DEF RInv, TypeOK, Again
<1> QED BY <1>1 DEF RInv, Again

\* A crash leaves the temp files, and adds to the output file only bytes of one of them.
LEMMA CrashRuns == RInv /\ Crash => RInv'
<1> SUFFICES ASSUME RInv, Crash PROVE RInv'
  OBVIOUS
<1>1. crashes' \in 0..MaxCrashes /\ torn' \in BOOLEAN
  <2>1. crashes' = crashes + 1 /\ crashes < MaxCrashes /\ (torn' = TRUE \/ torn' = torn)
    BY DEF Crash
  <2>2. crashes \in 0..MaxCrashes /\ torn \in BOOLEAN
    BY DEF RInv, TypeOK
  <2>3. crashes' \in 0..MaxCrashes
    BY <2>1, <2>2, ResumeParameters
  <2>4. torn' \in BOOLEAN
    BY <2>1, <2>2, Zenon
  <2> QED BY <2>3, <2>4
<1>2. output' \in Seq(Places)
  <2>1. CASE UNCHANGED output
    BY <2>1, TypesAre
  <2>2. CASE \E f \in files : \E n \in 1..f.size : output' = output \o Bytes(f.start, n)
    <3>0. PICK f \in files : \E n \in 1..f.size : output' = output \o Bytes(f.start, n)
      BY <2>2
    <3>1. PICK n \in 1..f.size : output' = output \o Bytes(f.start, n)
      BY <3>0
    <3>2. n \in 0..f.size
      BY TypesAre
    <3> QED BY <3>1, <3>2, Appended
  <2> QED BY <2>1, <2>2 DEF Crash
<1>3. TypeOK'
  BY <1>1, <1>2 DEF RInv, TypeOK, Crash, Places
<1> QED BY <1>3 DEF RInv, Crash

\* A temp file is appended and still there.
LEMMA CopyRuns == RInv /\ Copy => RInv'
<1> SUFFICES ASSUME RInv, Copy PROVE RInv'
  OBVIOUS
<1>1. PICK f \in files : /\ pc = "run" /\ Popped(f) /\ pc' = "copied"
                         /\ output' = output \o Bytes(f.start, f.size)
                         /\ UNCHANGED <<files, ranges, next, crashes, torn>>
  BY DEF Copy
<1>2. output' \in Seq(Places)
  <2>1. f.size \in 0..f.size
    BY TypesAre
  <2> QED BY <1>1, <2>1, Appended
<1>3. TypeOK'
  BY <1>1, <1>2 DEF RInv, TypeOK, Places
<1>4. next <= Len(ranges)
  BY <1>1 DEF Popped
<1> QED BY <1>1, <1>3, <1>4 DEF RInv, InStep

\* The next chunk is done with: the temp files that are left are those of later ranges.
LEMMA RemoveRuns == RInv /\ RemoveTemp => RInv'
<1> SUFFICES ASSUME RInv, RemoveTemp PROVE RInv'
  OBVIOUS
<1>1. /\ pc = "copied" /\ next <= Len(ranges) /\ InStep /\ next' = next + 1
      /\ UNCHANGED <<output, ranges, crashes, torn>>
  BY DEF RInv, RemoveTemp
<1>2. files' \in SUBSET files /\ pc' \in {"run", "done"}
  BY DEF RemoveTemp
<1>3. next' \in 1..(Len(ranges) + 1)
  BY <1>1, TypesAre
<1>4. TypeOK'
  BY <1>1, <1>2, <1>3 DEF RInv, TypeOK
<1>5. ASSUME pc' = "run" PROVE InStep'
  <2>1. files' = {f \in files : ~SameName(f, ranges[next])}
    BY <1>5 DEF RemoveTemp
  <2>2. next \in DOMAIN ranges /\ \A k \in next..Len(ranges) : k \in DOMAIN ranges
    BY <1>1, TypesAre
  <2>3. \A k \in next..Len(ranges) : k # next <=> k \in next'..Len(ranges)
    BY <1>1, TypesAre
  <2>4. \A k \in next'..Len(ranges) : k \in next..Len(ranges)
    BY <1>1, TypesAre
  <2>5. ASSUME NEW f \in files' PROVE \E k \in next'..Len(ranges) : SameName(f, ranges[k])
    <3>1. f \in files /\ ~SameName(f, ranges[next])
      BY <2>1
    <3>2. PICK k \in next..Len(ranges) : SameName(f, ranges[k])
      BY <1>1, <3>1 DEF InStep
    <3> QED BY <2>3, <3>1, <3>2
  <2>6. ASSUME NEW k \in next'..Len(ranges), ranges[k].completed
        PROVE  \E f \in files' : SameName(f, ranges[k]) /\ Usable(f)
    <3>1. k \in next..Len(ranges) /\ k \in DOMAIN ranges /\ k # next
      BY <2>2, <2>3, <2>4
    <3>2. PICK f \in files : SameName(f, ranges[k]) /\ Usable(f)
      BY <1>1, <2>6, <3>1 DEF InStep
    <3>3. ~SameName(f, ranges[next])
      BY <1>1, <2>2, <3>1, <3>2, NamesDiffer DEF InStep
    <3> QED BY <2>1, <3>2, <3>3
  <2> QED BY <1>1, <2>5, <2>6 DEF InStep
<1> QED BY <1>2, <1>4, <1>5 DEF RInv, Disjoint

\* What CalRange plans is in step with the temp files it keeps.
LEMMA BeginRuns ==
  ASSUME RInv, NEW c \in ChunkSizes, Begin(c)
  PROVE  RInv'
<1> DEFINE found == IF Len(output) = Total THEN <<>> ELSE output
<1>1. /\ output' = found /\ files' = {f \in files : Usable(f)}
      /\ ranges' = CalRange(files, Len(found), Total, c)
      /\ next' = 1 /\ pc' = "run" /\ UNCHANGED <<crashes, torn>>
  BY DEF Begin
<1>2. found \in Seq(Places) /\ Len(found) \in Nat
  BY TypesAre
<1> HIDE DEF found
<1>3. c \in Nat \ {0, 1} /\ files \in SUBSET FileSet /\ Disjoint(files)
  BY TypesAre, ResumeParameters DEF RInv
<1>4. Plan(files, ranges')
  BY <1>1, <1>2, <1>3, PlanIs
<1>5. /\ ranges' \in Seq(RangeSet) /\ Len(ranges') \in Nat /\ DOMAIN ranges' = 1..Len(ranges')
      /\ next' \in 1..(Len(ranges') + 1)
  BY <1>1, <1>4 DEF Plan, Listed
<1>6. TypeOK'
  BY <1>1, <1>2, <1>5 DEF RInv, TypeOK, RangeSet, Places
<1>7. InStep'
  BY <1>1, <1>4, <1>5 DEF InStep, Plan, Known
<1> QED BY <1>1, <1>6, <1>7 DEF RInv, Disjoint

\* A request writes the temp file of a range that no other temp file shares a byte with.
LEMMA FetchRuns ==
  ASSUME RInv, NEW k \in DOMAIN ranges,
         NEW size \in 0..(ranges[k].end - ranges[k].start + 1), Fetch(k, size)
  PROVE  RInv'
<1> DEFINE r == FileOf(ranges[k], size)  old == {f \in files : ~SameName(f, ranges[k])}
<1>1. /\ pc \in {"run", "copied"} /\ InStep /\ next <= k /\ ~ranges[k].completed
      /\ files' = old \union {r}
      /\ UNCHANGED <<output, pc, ranges, next, crashes, torn>>
  BY DEF Fetch, RInv
<1>2. /\ ranges[k] \in RangeSet /\ ranges[k].start \in Nat /\ ranges[k].end \in Nat
      /\ ranges[k].end < Total /\ ranges[k].start < ranges[k].end /\ Total \in Nat
  BY <1>1, TypesAre DEF InStep, Listed
<1>3. /\ r.start = ranges[k].start /\ r.end = ranges[k].end /\ r.size = size
      /\ SameName(r, ranges[k])
  BY DEF FileOf, SameName
<1>4. r \in FileSet /\ r.start < r.end /\ r.size <= r.end - r.start + 1
  <2>1. size \in 0..Total /\ size <= ranges[k].end - ranges[k].start + 1
    BY <1>2
  <2>2. r \in FileSet
    BY <1>2, <2>1 DEF FileOf, FileSet, Places
  <2> QED BY <1>2, <1>3, <2>1, <2>2
<1> HIDE DEF r
<1>5. \A j \in next..Len(ranges) : j \in DOMAIN ranges
  BY TypesAre
<1>6. k \in next..Len(ranges)
  BY <1>1, TypesAre
<1>7. ASSUME NEW f \in old PROVE f.end < r.start \/ r.end < f.start
  <2>1. PICK j \in next..Len(ranges) : SameName(f, ranges[j])
    BY <1>1 DEF InStep
  <2>2. j # k /\ j \in DOMAIN ranges /\ j \in Nat /\ k \in Nat
    BY <1>5, <2>1, TypesAre
  <2>3. j < k \/ k < j
    BY <2>2
  <2>4. ranges[j].end < ranges[k].start \/ ranges[k].end < ranges[j].start
    BY <1>1, <2>2, <2>3 DEF InStep, Listed
  <2> QED BY <1>3, <2>1, <2>4 DEF SameName
<1>8. Disjoint(files')
  <2>1. Disjoint(old)
    BY DEF RInv, Disjoint
  <2> HIDE DEF old
  <2> QED BY <1>1, <1>7, <2>1 DEF Disjoint
<1>9. TypeOK'
  BY <1>1, <1>4 DEF RInv, TypeOK, FileSet, Places
<1>10. \A f \in files' : f.start < f.end /\ f.size <= f.end - f.start + 1
  BY <1>1, <1>4 DEF RInv
<1>11. \A f \in files' : \E j \in next..Len(ranges) : SameName(f, ranges[j])
  BY <1>1, <1>3, <1>6 DEF InStep
<1>12. ASSUME NEW j \in next..Len(ranges), ranges[j].completed
       PROVE  \E f \in files' : SameName(f, ranges[j]) /\ Usable(f)
  <2>1. PICK f \in files : SameName(f, ranges[j]) /\ Usable(f)
    BY <1>1, <1>12 DEF InStep
  <2>2. j # k /\ j \in DOMAIN ranges
    BY <1>1, <1>5, <1>12
  <2>3. ~SameName(f, ranges[k])
    BY <1>1, <2>1, <2>2, NamesDiffer DEF InStep
  <2> QED BY <1>1, <2>1, <2>3
<1>13. InStep'
  BY <1>1, <1>11, <1>12 DEF InStep
<1> QED BY <1>1, <1>8, <1>9, <1>10, <1>13 DEF RInv

\* Every step keeps RInv.
LEMMA NextRuns == RInv /\ [Next]_vars => RInv'
<1> SUFFICES ASSUME RInv, [Next]_vars PROVE RInv'
  OBVIOUS
<1>1. ASSUME NEW k \in DOMAIN ranges, FetchWhole(k) PROVE RInv'
  <2>1. ranges[k].end - ranges[k].start + 1 \in 0..(ranges[k].end - ranges[k].start + 1)
    <3>1. pc \in {"run", "copied"}
      BY <1>1 DEF FetchWhole, Fetch
    <3>2. ranges[k].start < ranges[k].end
      BY <3>1 DEF RInv, InStep, Listed
    <3> QED BY <3>2, TypesAre, SMTT(60)
  <2> QED BY <1>1, <2>1, FetchRuns DEF FetchWhole
<1>2. ASSUME NEW k \in DOMAIN ranges, FetchPart(k) PROVE RInv'
  <2>1. PICK size \in 0..(ranges[k].end - ranges[k].start) : Fetch(k, size)
    BY <1>2 DEF FetchPart
  <2>2. size \in 0..(ranges[k].end - ranges[k].start + 1)
    BY TypesAre
  <2> QED BY <2>1, <2>2, FetchRuns
<1>3. CASE UNCHANGED vars
  <2>1. TypeOK'
    BY <1>3 DEF RInv, TypeOK, vars
  <2> QED BY <1>3, <2>1 DEF RInv, InStep, vars
<1> QED BY <1>1, <1>2, <1>3, SkipRuns, AgainRuns, CrashRuns, CopyRuns, RemoveRuns,
             BeginRuns DEF Next

\* Temp files and ranges are in step, wherever runs are cut off.
THEOREM RunInvariance == Spec => []RInv
BY InitRuns, NextRuns, PTL DEF Spec

------------------------------------------------------------------------------
(* Where no crash hit mergeFile and chunks end at joints. *)

\* The ranges from k on are a list of ranges too.
LEMMA LeftIs ==
  ASSUME RInv, NEW k \in Nat, k >= 1
  PROVE  /\ Left(k) \in Seq(RangeSet)
         /\ k > Len(ranges) => Left(k) = <<>>
         /\ InStep => \A i \in DOMAIN Left(k) : Left(k)[i].start < Left(k)[i].end
<1>1. ranges \in Seq(RangeSet) /\ Len(ranges) \in Nat
  BY TypesAre
<1>2. Left(k) \in Seq(RangeSet) /\ (k > Len(ranges) => Left(k) = <<>>)
  BY <1>1 DEF Left
<1>3. ASSUME InStep, NEW i \in DOMAIN Left(k) PROVE Left(k)[i].start < Left(k)[i].end
  <2>1. k + i - 1 \in DOMAIN ranges /\ Left(k)[i] = ranges[k + i - 1]
    BY <1>1 DEF Left
  <2> QED BY <1>3, <2>1 DEF InStep, Listed
<1> QED BY <1>2, <1>3

\* The range to be merged next begins where the output file ends.
LEMMA NextIs ==
  ASSUME RInv, NEW d, WholeSoFar(d), pc = "run", next <= Len(ranges)
  PROVE  /\ next \in DOMAIN ranges /\ ranges[next].start = Len(output)
         /\ Tiles(Left(next + 1), ranges[next].end + 1, Total)
<1>1. next \in 1..Len(ranges) /\ next \in DOMAIN ranges /\ ranges \in Seq(RangeSet)
  BY TypesAre
<1>2. Tiles(SubSeq(ranges, next, Len(ranges)), Len(output), Total)
  BY DEF WholeSoFar, Left
<1> QED BY <1>1, <1>2, SuffixTiles DEF Left

\* A run that is cut off leaves temp files after the end of the output file.
LEMMA RunFits ==
  ASSUME RInv, NEW d, NoByteLeft(d), WholeSoFar(d), pc = "run"
  PROVE  Fits(d, files, Len(output)) /\ Joint(d, Len(output))
<1>1. InStep /\ Joints(d, ranges) /\ Tiles(Left(next), Len(output), Total)
  BY DEF RInv, WholeSoFar
<1>2. CASE next > Len(ranges)
  <2>1. files = {}
    BY <1>1, <1>2, TypesAre DEF InStep
  <2>2. Left(next) = <<>>
    BY <1>2, LeftIs, TypesAre
  <2> QED BY <1>1, <2>1, <2>2 DEF Fits, Joint, Tiles
<1>3. CASE next <= Len(ranges)
  <2>1. next \in DOMAIN ranges /\ ranges[next].start = Len(output)
    BY <1>3, NextIs
  <2>2. ASSUME NEW f \in files
        PROVE  Len(output) <= f.start /\ Mult(d, f.start) /\ Joint(d, f.end + 1)
    <3>1. PICK k \in next..Len(ranges) : SameName(f, ranges[k])
      BY <1>1 DEF InStep
    <3>2. /\ k \in DOMAIN ranges /\ k \in Nat /\ next \in Nat /\ (k = next \/ next < k)
          /\ ranges[k].start \in Nat /\ ranges[next].start \in Nat /\ ranges[next].end \in Nat
      BY <2>1, TypesAre
    <3>3. ranges[next].start < ranges[next].end
      BY <1>1, <2>1 DEF InStep, Listed
    <3>4. CASE k = next
      BY <1>1, <2>1, <3>1, <3>2, <3>4 DEF SameName, Joints
    <3>5. CASE next < k
      <4>1. ranges[next].end < ranges[k].start
        BY <1>1, <2>1, <3>2, <3>5 DEF InStep, Listed
      <4>2. Len(output) <= ranges[k].start
        BY <2>1, <3>2, <3>3, <4>1
      <4> QED BY <1>1, <3>1, <3>2, <4>2 DEF SameName, Joints
    <3> QED BY <3>2, <3>4, <3>5
  <2> QED BY <1>1, <2>1, <2>2 DEF Fits, Joint, Joints
<1>4. next > Len(ranges) \/ next <= Len(ranges)
  BY TypesAre
<1> QED BY <1>2, <1>3, <1>4

\* Nothing is a beginning of the remote file.
LEMMA InitWhole ==
  ASSUME Init, NEW d \in Nat
  PROVE  SInv(d)
<1>1. 0 = 0 * d
  OBVIOUS
<1>2. Joint(d, 0)
  BY <1>1 DEF Joint, Mult
<1>3. <<>> = Bytes(0, 0) /\ Len(<<>>) = 0 /\ 0 <= Total
  BY ResumeParameters DEF Bytes
<1> QED BY <1>2, <1>3 DEF Init, SInv, WholeSoFar, Fits

\* A file of the right size leaves no room for temp files.
LEMMA SkipWhole ==
  ASSUME RInv, NEW d, SInv(d), Skip
  PROVE  SInv(d)'
<1> SUFFICES ASSUME ~torn PROVE WholeSoFar(d)'
  BY DEF SInv, Skip
<1>1. WholeSoFar(d)
  BY DEF SInv
<1>2. \A f \in files : Total <= f.start /\ f.start < f.end /\ f.end < Total
  BY <1>1, TypesAre DEF WholeSoFar, Fits, Skip
<1>3. \A f \in files : f.start \in Nat /\ f.end \in Nat /\ Total \in Nat
  BY TypesAre
<1>4. files = {}
  BY <1>2, <1>3
<1> QED BY <1>1, <1>4 DEF WholeSoFar, Skip

\* After success there are no temp files, so another run finds a whole file.
LEMMA AgainWhole ==
  ASSUME RInv, NEW d, SInv(d), Again
  PROVE  SInv(d)'
BY DEF SInv, WholeSoFar, Again, Fits, Joint

\* A crash outside mergeFile leaves the output file and what comes after it.
LEMMA CrashWhole ==
  ASSUME RInv, NEW d, NoByteLeft(d), SInv(d), Crash
  PROVE  SInv(d)'
<1> SUFFICES ASSUME torn' # TRUE PROVE WholeSoFar(d)'
  BY DEF SInv
<1>1. pc = "run" /\ pc' = "idle" /\ UNCHANGED <<output, files, ranges, next, torn>>
  BY DEF Crash
<1>2. WholeSoFar(d)
  <2>1. torn \in BOOLEAN /\ torn # TRUE
    BY <1>1 DEF RInv, TypeOK
  <2> QED BY <2>1 DEF SInv
<1>3. Fits(d, files, Len(output)) /\ Joint(d, Len(output))
  BY <1>1, <1>2, RunFits
<1> QED BY <1>1, <1>2, <1>3 DEF WholeSoFar

\* The temp file of the next range holds all of it, so copying it continues the output.
LEMMA CopyWhole ==
  ASSUME RInv, NEW d, SInv(d), Copy
  PROVE  SInv(d)'
<1>1. PICK f \in files : /\ pc = "run" /\ Popped(f) /\ pc' = "copied"
                         /\ output' = output \o Bytes(f.start, f.size)
                         /\ UNCHANGED <<files, ranges, next, crashes, torn>>
  BY DEF Copy
<1> SUFFICES ASSUME ~torn PROVE WholeSoFar(d)'
  BY <1>1 DEF SInv
<1>2. WholeSoFar(d) /\ InStep
  BY <1>1 DEF SInv, RInv
<1>3. next <= Len(ranges) /\ SameName(f, ranges[next])
  BY <1>1 DEF Popped
<1>4. /\ next \in DOMAIN ranges /\ ranges[next].start = Len(output)
      /\ Tiles(Left(next + 1), ranges[next].end + 1, Total)
  BY <1>1, <1>2, <1>3, NextIs
<1>5. /\ f.start \in Nat /\ f.end \in Nat /\ f.size \in Nat /\ f.start < f.end /\ f.end < Total
      /\ Total \in Nat /\ next \in next..Len(ranges)
  BY <1>3, TypesAre
<1>6. f.size = f.end - f.start + 1
  <2>1. CASE ranges[next].completed
    <3>1. PICK g \in files : SameName(g, ranges[next]) /\ Usable(g)
      BY <1>2, <1>5, <2>1 DEF InStep
    <3>2. g = f
      <4> SUFFICES ASSUME g # f PROVE FALSE
        OBVIOUS
      <4>1. f.end < g.start \/ g.end < f.start
        BY DEF RInv, Disjoint
      <4>2. f.start = g.start /\ f.end = g.end
        BY <1>3, <3>1 DEF SameName
      <4> QED BY <1>5, <4>1, <4>2
    <3> QED BY <3>1, <3>2 DEF Usable
  <2>2. CASE ~ranges[next].completed
    BY <1>1, <2>2 DEF Popped
  <2> QED BY <2>1, <2>2
<1> DEFINE len == Len(output)
<1>7. len = f.start /\ ranges[next].end = f.end /\ len + f.size = f.end + 1 /\ f.end + 1 <= Total
  <2>1. len = f.start /\ ranges[next].end = f.end
    BY <1>3, <1>4 DEF SameName
  <2> QED BY <1>5, <1>6, <2>1, SMTT(60)
<1>8. output' = Bytes(0, f.end + 1) /\ Len(output') = f.end + 1
  <2>1. output = Bytes(0, len)
    BY <1>2 DEF WholeSoFar
  <2> HIDE DEF len
  <2>2. 0 + len = f.start
    BY <1>5, <1>7
  <2>3. Bytes(0, len) \o Bytes(0 + len, f.size) = Bytes(0, len + f.size)
    BY <1>5, <1>7, BytesJoin, ZenonT(60)
  <2>4. f.end + 1 \in Nat
    BY <1>5
  <2>5. Len(Bytes(0, f.end + 1)) = f.end + 1
    BY <2>4, BytesJoin
  <2> QED BY <1>1, <1>7, <2>1, <2>2, <2>3, <2>5
<1>9. Joints(d, ranges)
  BY <1>1, <1>2 DEF WholeSoFar
<1> QED BY <1>1, <1>4, <1>7, <1>8, <1>9 DEF WholeSoFar, Left

\* The last range ends with the remote file.
LEMMA RemoveWhole ==
  ASSUME RInv, NEW d, SInv(d), RemoveTemp
  PROVE  SInv(d)'
<1>1. pc = "copied" /\ next' = next + 1 /\ UNCHANGED <<output, ranges, crashes, torn>>
  BY DEF RemoveTemp
<1> SUFFICES ASSUME ~torn PROVE WholeSoFar(d)'
  BY <1>1 DEF SInv
<1>2. /\ output = Bytes(0, Len(output)) /\ Len(output) <= Total
      /\ Joints(d, ranges) /\ Tiles(Left(next + 1), Len(output), Total)
  BY <1>1 DEF SInv, WholeSoFar
<1>3. CASE next = Len(ranges)
  <2>1. pc' = "done" /\ files' = {}
    BY <1>3 DEF RemoveTemp
  <2>2. Left(next + 1) = <<>>
    <3>1. next + 1 \in Nat /\ next + 1 >= 1 /\ next + 1 > Len(ranges)
      BY <1>3, TypesAre
    <3> QED BY <3>1, LeftIs
  <2>3. Len(output) = Total
    BY <1>2, <2>2 DEF Tiles
  <2> QED BY <1>1, <1>2, <2>1, <2>3 DEF WholeSoFar
<1>4. CASE next # Len(ranges)
  <2>1. pc' = "run"
    BY <1>4 DEF RemoveTemp
  <2> QED BY <1>1, <1>2, <2>1 DEF WholeSoFar, Left
<1> QED BY <1>3, <1>4

\* CalRange plans all that is missing.
LEMMA BeginWhole ==
  ASSUME RInv, NEW d, NoByteLeft(d), SInv(d), NEW c \in ChunkSizes, Begin(c), RInv'
  PROVE  SInv(d)'
<1> DEFINE found == IF Len(output) = Total THEN <<>> ELSE output
           size == Len(found)
<1>1. /\ pc = "idle" /\ output' = found /\ ranges' = CalRange(files, size, Total, c)
      /\ next' = 1 /\ pc' = "run" /\ torn' = torn
  BY DEF Begin
<1> SUFFICES ASSUME ~torn PROVE WholeSoFar(d)'
  BY <1>1 DEF SInv
<1>2. WholeSoFar(d)
  BY DEF SInv
<1>3. /\ found = Bytes(0, size) /\ size \in Nat /\ size <= Total
      /\ Joint(d, size) /\ Fits(d, files, size)
  <2>1. CASE Len(output) = Total
    <3>1. found = <<>> /\ size = 0
      BY <2>1
    <3>2. 0 = 0 * d /\ <<>> = Bytes(0, 0)
      BY DEF NoByteLeft, Bytes
    <3>3. \A f \in files : 0 <= f.start
      BY TypesAre
    <3>4. \A f \in files : Mult(d, f.start) /\ Joint(d, f.end + 1)
      BY <1>1, <1>2 DEF WholeSoFar, Fits
    <3>5. 0 <= Total /\ Joint(d, 0)
      BY <3>2, ResumeParameters DEF Joint, Mult
    <3> HIDE DEF found, size
    <3> QED BY <3>1, <3>2, <3>3, <3>4, <3>5 DEF Fits
  <2>2. CASE Len(output) # Total
    <3>1. found = output /\ size = Len(output) /\ size \in Nat
      BY <2>2, TypesAre
    <3> HIDE DEF found, size
    <3> QED BY <1>1, <1>2, <3>1 DEF WholeSoFar
  <2> QED BY <2>1, <2>2
<1>4. c \in Nat \ {0, 1} /\ files \in SUBSET FileSet /\ Disjoint(files) /\ Mult(d, c)
  BY TypesAre, ResumeParameters DEF RInv, NoByteLeft
<1> HIDE DEF found, size
<1>5. LET rs == CalRange(files, size, Total, c) IN Tiles(rs, size, Total) /\ Joints(d, rs)
  BY <1>3, <1>4, PlanTiles
<1>6. Tiles(ranges', size, Total) /\ Joints(d, ranges')
  BY <1>1, <1>5
<1>7. ranges' \in Seq(RangeSet)
  BY DEF RInv, TypeOK, RangeSet, Places
<1>8. SubSeq(ranges', 1, Len(ranges')) = ranges'
  BY <1>7
<1>9. Len(output') = size
  BY <1>1 DEF size
<1> QED BY <1>1, <1>3, <1>6, <1>8, <1>9 DEF WholeSoFar, Left

\* Every step keeps SInv.
LEMMA NextWhole ==
  ASSUME NEW d, NoByteLeft(d)
  PROVE  RInv /\ RInv' /\ SInv(d) /\ [Next]_vars => SInv(d)'
<1> SUFFICES ASSUME RInv, RInv', SInv(d), [Next]_vars PROVE SInv(d)'
  OBVIOUS
<1>1. ASSUME NEW k \in DOMAIN ranges, NEW size, Fetch(k, size) PROVE SInv(d)'
  BY <1>1 DEF SInv, WholeSoFar, Fetch, Left
<1>2. CASE UNCHANGED vars
  BY <1>2 DEF SInv, WholeSoFar, Left, vars
<1> QED BY <1>1, <1>2, SkipWhole, AgainWhole, CrashWhole, CopyWhole, RemoveWhole, BeginWhole
        DEF Next, FetchWhole, FetchPart

\* No crash outside mergeFile is ever the reason that a byte is missing or there twice.
LEMMA WholeInvariance ==
  ASSUME NEW CONSTANT d, NoByteLeft(d)
  PROVE  Spec => []SInv(d)
<1>1. Init => SInv(d)
  BY InitWhole DEF NoByteLeft
<1>2. RInv /\ RInv' /\ SInv(d) /\ [Next]_vars => SInv(d)'
  BY NextWhole
<1> QED BY <1>1, <1>2, RunInvariance, PTL DEF Spec

\* The plan and the bytes that are there make the remote file.
LEMMA ExactPlan ==
  ASSUME RInv, NEW d, SInv(d)
  PROVE  PlanIsExact
<1> SUFFICES ASSUME pc = "run", ~torn
             PROVE  output \o BytesOf(SubSeq(ranges, next, Len(ranges))) = Whole
  BY DEF PlanIsExact
<1> DEFINE left == Left(next)  len == Len(output)
<1>1. /\ output = Bytes(0, len) /\ Tiles(left, len, Total) /\ InStep
  BY DEF SInv, WholeSoFar, RInv
<1>2. len \in Nat /\ Total \in Nat /\ next \in Nat /\ next >= 1
  BY TypesAre
<1>3. left \in Seq(RangeSet) /\ \A i \in DOMAIN left : left[i].start < left[i].end
  BY <1>1, <1>2, LeftIs
<1> HIDE DEF left, len
<1>4. BytesOf(left) = Bytes(len, Total - len) /\ len <= Total
  BY <1>1, <1>2, <1>3, BytesOfIs
<1>5. Total - len \in Nat /\ 0 + len = len /\ len + (Total - len) = Total
  BY <1>2, <1>4
<1>6. Bytes(0, len) \o Bytes(0 + len, Total - len) = Bytes(0, len + (Total - len))
  BY <1>2, <1>5, BytesJoin, ZenonT(60)
<1> QED BY <1>1, <1>4, <1>5, <1>6 DEF Whole, left, Left

\* One byte more than a multiple of c leaves the remainder 1.
LEMMA ModIs ==
  ASSUME NEW k \in Nat, NEW c \in Nat \ {0, 1}
  PROVE  (k * c + 1) % c = 1
<1> DEFINE x == k * c + 1  q == x \div c  r == x % c
<1>1. x \in Nat /\ k * c \in Nat
  OBVIOUS
<1>2. q \in Nat /\ r \in 0..(c - 1) /\ k * c + 1 = q * c + r
  <2> HIDE DEF x
  <2>1. \A y \in Nat, z \in Nat \ {0} :
          y \div z \in Nat /\ (y % z) \in 0..(z - 1) /\ y = ((y \div z) * z) + (y % z)
    OBVIOUS
  <2>2. q \in Nat /\ r \in 0..(c - 1) /\ x = q * c + r
    BY <1>1, <2>1
  <2> QED BY <2>2 DEF x
<1> HIDE DEF q, r
<1>3. CASE k < q
  <2>1. (k + 1) * c <= q * c /\ (k + 1) * c = k * c + c
    BY <1>2, <1>3
  <2> QED BY <1>1, <1>2, <2>1
<1>4. CASE k > q
  <2>1. (q + 1) * c <= k * c /\ (q + 1) * c = q * c + c /\ q * c \in Nat
    BY <1>2, <1>4
  <2> QED BY <1>1, <1>2, <2>1
<1>5. CASE k = q
  <2>1. r = 1
    BY <1>1, <1>2, <1>5
  <2> QED BY <2>1 DEF r, x
<1> QED BY <1>2, <1>3, <1>4, <1>5

------------------------------------------------------------------------------
(* The theorems. *)

\* No chunk size leaves a single byte over: all are multiples of some number of which the
\* remote file is not a byte longer than a multiple. It is so for one chunk size, unless
\* the remote file is one byte longer than a multiple of it, and for even sizes.
NoSingleByte ==
    \E d \in Nat \ {0, 1} : Total % d # 1 /\ \A c \in ChunkSizes : c % d = 0

\* The hypothesis in the form the lemmas use.
LEMMA NoneLeft ==
  ASSUME NEW d \in Nat \ {0, 1}, Total % d # 1, \A c \in ChunkSizes : c % d = 0
  PROVE  NoByteLeft(d)
<1>1. ASSUME NEW c \in ChunkSizes PROVE Mult(d, c)
  <2>1. \A y \in Nat, z \in Nat \ {0} : y \div z \in Nat /\ y = ((y \div z) * z) + (y % z)
    OBVIOUS
  <2>2. c \in Nat /\ c % d = 0
    BY ResumeParameters
  <2>3. c \div d \in Nat /\ c = ((c \div d) * d) + (c % d)
    BY <2>1, <2>2
  <2> DEFINE q == c \div d
  <2> HIDE DEF q
  <2>4. q \in Nat /\ c = q * d
    <3>1. q \in Nat /\ c = (q * d) + 0
      BY <2>2, <2>3 DEF q
    <3>2. q * d \in Nat
      BY <3>1
    <3> QED BY <3>1, <3>2
  <2> QED BY <2>4 DEF Mult
<1>2. ASSUME NEW k \in Nat, Total = k * d + 1 PROVE FALSE
  BY <1>2, ModIs
<1> QED BY <1>1, <1>2 DEF NoByteLeft

\* Every variable keeps its type, for all parameters: temp files and ranges stay within the
\* remote file.
THEOREM TypeCorrect == Spec => []TypeOK
<1>1. RInv => TypeOK
  BY DEF RInv
<1> QED BY <1>1, RunInvariance, PTL

\* No byte is ever in two temp files, whatever the chunk sizes of the runs and wherever they
\* are cut off, in mergeFile too: a plan has a place for every usable temp file, and requests
\* write only temp files of the plan's ranges.
THEOREM NoByteTwice == Spec => []FilesDisjoint
<1>1. RInv => FilesDisjoint
  BY DEF RInv, Disjoint, FilesDisjoint
<1> QED BY <1>1, RunInvariance, PTL

\* The ranges a run has yet to merge follow the output file without a gap, to the end of the
\* remote file, where no crash hit mergeFile and chunks leave no single byte over.
THEOREM PlansAreExact ==
  ASSUME NoSingleByte
  PROVE  Spec => []PlanIsExact
<1>1. PICK d \in Nat \ {0, 1} : Total % d # 1 /\ \A c \in ChunkSizes : c % d = 0
  BY DEF NoSingleByte
<1>2. NoByteLeft(d)
  BY <1>1, NoneLeft
<1>3. Spec => []SInv(d)
  BY <1>2, WholeInvariance
<1>4. RInv /\ SInv(d) => PlanIsExact
  BY ExactPlan
<1> QED BY <1>3, <1>4, RunInvariance, PTL

\* And so a download that reports success has produced the remote file.
THEOREM SuccessIsWhole ==
  ASSUME NoSingleByte
  PROVE  Spec => []DoneIsWhole
<1>1. PICK d \in Nat \ {0, 1} : Total % d # 1 /\ \A c \in ChunkSizes : c % d = 0
  BY DEF NoSingleByte
<1>2. NoByteLeft(d)
  BY <1>1, NoneLeft
<1>3. Spec => []SInv(d)
  BY <1>2, WholeInvariance
<1>4. SInv(d) => DoneIsWhole
  BY DEF SInv, WholeSoFar, DoneIsWhole, Whole
<1> QED BY <1>3, <1>4, PTL
==============================================================================
