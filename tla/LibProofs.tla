----------------------------- MODULE LibProofs ------------------------------
(***************************************************************************)
(* Proofs about Qsort, quicksort stays in its range, sorts with any pivot  *)
(* and loses nothing, and bsearch finds in the result what is there, and   *)
(* about Containers: the environment and the hash table are dictionaries,  *)
(* the directory stream is a cursor, and putenv reallocates only its own   *)
(* arrays.                                                                 *)
(*                                                                         *)
(* SortRight speaks of the end.  On the way the inductive invariant says   *)
(* that two elements out of order are both in one range that is still to   *)
(* be sorted (Ordered), and, for every loop, which parts of the running    *)
(* range are already below, above or equal to the pivot.                   *)
(***************************************************************************)
EXTENDS Qsort, Containers, FiniteSetTheorems, SequenceTheorems, WellFoundedInduction,
        NaturalsInduction, TLAPS

-----------------------------------------------------------------------------
(* qsort: the invariant.                                                   *)

Array(b) == b \in [0 .. nmemb - 1 -> Elem \X (0 .. nmemb - 1)]

(* Every element of the beginning is still there. *)
Complete(b) == \A x \in 0 .. nmemb - 1 : \E k \in 0 .. nmemb - 1 : b[k][2] = x

Within(x, l, r) == l <= x /\ x <= r

(* The two are in a range that is still to be sorted. *)
Together(x, y) ==
  \/ phase # "call" /\ Within(x, s.l, s.r) /\ Within(y, s.l, s.r)
  \/ \E a \in 1 .. Len(todo) : Within(x, todo[a][1], todo[a][2]) /\ Within(y, todo[a][1], todo[a][2])

(* All others are in order. *)
Ordered(b) ==
  \A x, y \in 0 .. nmemb - 1 : x < y => Together(x, y) \/ b[x][1] <= b[y][1]

Sound(b) == Array(b) /\ Complete(b) /\ Ordered(b)

Indices == [l : Int, r : Int, i : Int, j : Int, p : Int, q : Int, k : Int]

(* The ranges lie in the array, one after the other. *)
RangesApart ==
  /\ \A a \in 1 .. Len(todo) : 0 <= todo[a][1] /\ todo[a][2] < nmemb
  /\ \A a, b \in 1 .. Len(todo) : a < b => todo[a][2] < todo[b][1]
  /\ phase # "call" => /\ 0 <= s.l /\ s.l < s.r /\ s.r < nmemb
                       /\ \A a \in 1 .. Len(todo) : s.r < todo[a][1]

Frame ==
  /\ nmemb \in Nat /\ s \in Indices /\ todo \in Seq(Int \X Int)
  /\ phase \in {"call", "up", "down", "test", "place", "left", "right"}
  /\ RangesApart /\ Sound(base)

AllLess(b, l, r, x) == \A y \in l .. r : b[y][1] <= x
AllMore(b, l, r, x) == \A y \in l .. r : b[y][1] >= x
AllSame(b, l, r, x) == \A y \in l .. r : b[y][1] = x

UpInv ==
  LET x == base[s.r][1]
  IN  /\ s.l - 1 <= s.p /\ s.p <= s.i /\ s.i < s.j /\ s.l < s.j /\ s.j <= s.q /\ s.q <= s.r
      /\ AllSame(base, s.l, s.p, x) /\ AllLess(base, s.l, s.i, x)
      /\ AllMore(base, s.j, s.r - 1, x) /\ AllSame(base, s.q, s.r - 1, x)

DownInv ==
  LET x == base[s.r][1]
  IN  /\ s.l - 1 <= s.p /\ s.p < s.i /\ s.i <= s.j /\ s.l < s.j /\ s.j <= s.q /\ s.q <= s.r
      /\ AllSame(base, s.l, s.p, x) /\ AllLess(base, s.l, s.i - 1, x)
      /\ s.i = s.r \/ base[s.i][1] >= x
      /\ AllMore(base, s.j, s.r - 1, x) /\ AllSame(base, s.q, s.r - 1, x)

TestInv ==
  LET x == base[s.r][1]
  IN  /\ s.l - 1 <= s.p /\ s.p < s.i /\ s.i - 1 <= s.j /\ s.l <= s.j /\ s.j < s.q /\ s.q <= s.r
      /\ s.i <= s.q
      /\ AllSame(base, s.l, s.p, x) /\ AllLess(base, s.l, s.i - 1, x)
      /\ s.i = s.r \/ base[s.i][1] >= x
      /\ s.j = s.l \/ base[s.j][1] <= x
      /\ AllMore(base, s.j + 1, s.r - 1, x) /\ AllSame(base, s.q, s.r - 1, x)

PlaceInv ==
  LET x == base[s.r][1]
  IN  /\ s.l - 1 <= s.p /\ s.p < s.i /\ s.i <= s.q /\ s.q <= s.r
      /\ AllSame(base, s.l, s.p, x) /\ AllLess(base, s.l, s.i - 1, x)
      /\ AllMore(base, s.i, s.r - 1, x) /\ AllSame(base, s.q, s.r - 1, x)

LeftInv ==
  LET x == base[s.i - 1][1]
  IN  /\ s.l - 1 <= s.p /\ s.p <= s.i - 2 /\ s.i - 1 <= s.q /\ s.q <= s.r
      /\ s.l <= s.k /\ s.k <= s.p + 1 /\ s.j + s.k = s.i - 2 + s.l
      /\ AllLess(base, s.l, s.i - 1, x) /\ AllMore(base, s.i, s.r, x)
      /\ AllSame(base, s.k, s.p, x) /\ AllSame(base, s.j + 1, s.i - 1, x)
      /\ \A y \in s.l .. s.k - 1 : s.j + s.k - y <= s.p => base[y][1] = x
      /\ AllSame(base, s.q, s.r - 1, x)

RightInv ==
  LET x == base[s.j + 1][1]
  IN  /\ s.l - 1 <= s.j /\ s.j + 2 <= s.i /\ s.j + 1 <= s.q /\ s.q <= s.r
      /\ s.q - 1 <= s.k /\ s.k <= s.r - 1 /\ s.i + s.k <= s.q + s.r
      /\ AllLess(base, s.l, s.j, x) /\ AllMore(base, s.i, s.r, x)
      /\ AllSame(base, s.j + 1, s.i - 1, x) /\ AllSame(base, s.q, s.k, x)
      /\ \A y \in s.k + 1 .. s.r - 1 : s.i + s.k - y >= s.q => base[y][1] = x

QInv ==
  /\ Frame
  /\ phase = "up" => UpInv
  /\ phase = "down" => DownInv
  /\ phase = "test" => TestInv
  /\ phase = "place" => PlaceInv
  /\ phase = "left" => LeftInv
  /\ phase = "right" => RightInv

(* What an exchange does. *)
LEMMA ExchIs ==
  ASSUME nmemb \in Nat, NEW b, Array(b), NEW x \in 0 .. nmemb - 1, NEW y \in 0 .. nmemb - 1
  PROVE  /\ Array(exch(b, x, y))
         /\ \A z \in 0 .. nmemb - 1 :
              exch(b, x, y)[z] = IF z = y THEN b[x] ELSE IF z = x THEN b[y] ELSE b[z]
BY DEF Array, exch

(* An exchange inside the range of the running call keeps the elements and *)
(* the order of the rest.                                                  *)
LEMMA ExchSound ==
  ASSUME nmemb \in Nat, s \in Indices, todo \in Seq(Int \X Int), RangesApart, phase # "call",
         NEW b, Sound(b), NEW x, NEW y, x \in s.l .. s.r, y \in s.l .. s.r
  PROVE  Sound(exch(b, x, y))
<1> DEFINE c == exch(b, x, y)
           Other(z) == IF z = y THEN x ELSE IF z = x THEN y ELSE z
           D == 0 .. nmemb - 1
<1>1. /\ s.l \in Int /\ s.r \in Int /\ 0 <= s.l /\ s.l < s.r /\ s.r < nmemb
      /\ x \in D /\ y \in D
  BY DEF Indices, RangesApart
<1>2. Array(b) /\ Array(c) /\ \A z \in D : c[z] = b[Other(z)]
  <2>1. Array(b)
    BY DEF Sound
  <2>2. Array(c) /\ \A z \in D : c[z] = IF z = y THEN b[x] ELSE IF z = x THEN b[y] ELSE b[z]
    BY <1>1, <2>1, ExchIs
  <2>3. QED
    BY <2>1, <2>2
<1>3. \A z \in D : Other(z) \in D /\ Other(Other(z)) = z
  BY <1>1
<1>4. Complete(c)
  <2> SUFFICES ASSUME NEW e \in D PROVE \E k \in D : c[k][2] = e
    BY DEF Complete
  <2>1. PICK k \in D : b[k][2] = e
    BY DEF Sound, Complete
  <2>2. Other(k) \in D /\ c[Other(k)] = b[k]
    BY <1>2, <1>3
  <2>3. QED
    BY <2>1, <2>2
<1>5. Ordered(c)
  <2> SUFFICES ASSUME NEW e \in D, NEW f \in D, e < f, ~Together(e, f) PROVE c[e][1] <= c[f][1]
    BY DEF Ordered
  <2>0. \A a \in 1 .. Len(todo) : todo[a][1] \in Int /\ todo[a][2] \in Int /\ s.r < todo[a][1]
    BY DEF RangesApart
  <2>1. /\ \A z \in D : Within(z, s.l, s.r) => Within(Other(z), s.l, s.r)
        /\ \A z \in D : ~Within(z, s.l, s.r) => Other(z) = z
    BY <1>1 DEF Within
  <2>2. ~(Within(e, s.l, s.r) /\ Within(f, s.l, s.r))
    BY DEF Together
  <2>3. Other(e) < Other(f)
    BY <1>1, <1>3, <2>1, <2>2 DEF Within
  <2>4. ~Together(Other(e), Other(f))
    <3>1. CASE Within(e, s.l, s.r) \/ Within(f, s.l, s.r)
      <4>1. /\ Within(Other(e), s.l, s.r) \/ Within(Other(f), s.l, s.r)
            /\ ~(Within(Other(e), s.l, s.r) /\ Within(Other(f), s.l, s.r))
        BY <2>1, <2>2, <3>1
      <4>2. Other(e) \in Int /\ Other(f) \in Int
        BY <1>1, <1>3
      <4>3. ASSUME NEW a \in 1 .. Len(todo), Within(Other(e), todo[a][1], todo[a][2]),
                   Within(Other(f), todo[a][1], todo[a][2])
            PROVE  FALSE
        <5> HIDE DEF Other
        <5>1. todo[a][1] \in Int /\ s.r < todo[a][1]
          BY <2>0
        <5>2. todo[a][1] <= Other(e) /\ todo[a][1] <= Other(f)
          BY <4>3 DEF Within
        <5>3. Other(e) <= s.r \/ Other(f) <= s.r
          BY <4>1 DEF Within
        <5>4. s.r \in Int
          BY <1>1
        <5>5. ASSUME NEW g \in Int, NEW h \in Int, NEW m \in Int, h <= g, m < h PROVE ~(g <= m)
          BY <5>5
        <5>6. ~(Other(e) <= s.r) /\ ~(Other(f) <= s.r)
          BY <4>2, <5>1, <5>2, <5>4, <5>5
        <5>7. QED
          BY <5>3, <5>6
      <4>4. QED
        BY <4>1, <4>3 DEF Together
    <3>2. CASE ~Within(e, s.l, s.r) /\ ~Within(f, s.l, s.r)
      BY <2>1, <3>2
    <3>3. QED
      BY <3>1, <3>2
  <2>5. b[Other(e)][1] <= b[Other(f)][1]
    BY <1>3, <2>3, <2>4 DEF Sound, Ordered
  <2>6. QED
    BY <1>2, <2>5
<1>6. QED
  BY <1>2, <1>4, <1>5 DEF Sound

(* A step of the running call. *)
LEMMA Inside ==
  ASSUME Frame, phase # "call", phase' \in {"up", "down", "test", "place", "left", "right"},
         todo' = todo, s' \in Indices, s'.l = s.l, s'.r = s.r,
         NEW b, Sound(b), base' = b
  PROVE  Frame' /\ nmemb' = nmemb
<1>1. nmemb' = nmemb
  <2>1. DOMAIN base' = DOMAIN base
    BY DEF Frame, Sound, Array
  <2>2. QED
    BY <2>1 DEF nmemb
<1>2. RangesApart'
  BY <1>1 DEF Frame, RangesApart
<1>3. \A x, y : Together(x, y)' <=> Together(x, y)
  BY DEF Together
<1>4. Sound(base)'
  BY <1>1, <1>3 DEF Sound, Array, Complete, Ordered
<1>5. QED
  BY <1>1, <1>2, <1>4 DEF Frame

(* What is compared are numbers. *)
LEMMA Values ==
  ASSUME nmemb \in Nat, NEW b, Array(b)
  PROVE  \A z \in 0 .. nmemb - 1 : b[z][1] \in Int /\ b[z][2] \in 0 .. nmemb - 1
BY QsortAssumption DEF Array

(* The running call. *)
LEMMA Running ==
  ASSUME Frame, phase # "call"
  PROVE  /\ nmemb \in Nat /\ Array(base) /\ Sound(base)
         /\ s \in Indices /\ s.l \in Int /\ s.r \in Int /\ s.i \in Int /\ s.j \in Int
         /\ s.p \in Int /\ s.q \in Int /\ s.k \in Int
         /\ 0 <= s.l /\ s.l < s.r /\ s.r < nmemb
         /\ \A z \in s.l .. s.r : z \in 0 .. nmemb - 1 /\ base[z][1] \in Int
<1>1. nmemb \in Nat /\ Array(base) /\ Sound(base) /\ s \in Indices
  BY DEF Frame, Sound
<1>2. /\ s.l \in Int /\ s.r \in Int /\ s.i \in Int /\ s.j \in Int
      /\ s.p \in Int /\ s.q \in Int /\ s.k \in Int
  BY <1>1 DEF Indices
<1>3. 0 <= s.l /\ s.l < s.r /\ s.r < nmemb
  BY DEF Frame, RangesApart
<1>4. \A z \in s.l .. s.r : z \in 0 .. nmemb - 1
  BY <1>1, <1>2, <1>3
<1>5. QED
  BY <1>1, <1>2, <1>3, <1>4, Values

(* The scan from the left. *)
LEMMA UpKeeps ==
  ASSUME QInv, Up
  PROVE  QInv'
<1> DEFINE x == base[s.r][1]
<1>1. Frame /\ UpInv /\ phase = "up"
  BY DEF QInv, Up
<1>2. /\ nmemb \in Nat /\ Sound(base) /\ s \in Indices
      /\ s.l \in Int /\ s.r \in Int /\ s.i \in Int /\ s.j \in Int
      /\ s.p \in Int /\ s.q \in Int /\ s.k \in Int
      /\ 0 <= s.l /\ s.l < s.r /\ s.r < nmemb
      /\ \A z \in s.l .. s.r : z \in 0 .. nmemb - 1 /\ base[z][1] \in Int
  BY <1>1, Running
<1>3. /\ s' \in Indices /\ s'.l = s.l /\ s'.r = s.r /\ s'.j = s.j /\ s'.p = s.p /\ s'.q = s.q
      /\ s'.i = s.i + 1 /\ base' = base /\ todo' = todo
  BY <1>2 DEF Up, Indices
<1>4. Frame' /\ nmemb' = nmemb
  <2>1. phase' \in {"up", "down", "test", "place", "left", "right"}
    BY DEF Up
  <2>2. QED
    BY <1>1, <1>2, <1>3, <2>1, Inside
<1>5. /\ s.l - 1 <= s.p /\ s.p <= s.i /\ s.i < s.j /\ s.l < s.j /\ s.j <= s.q /\ s.q <= s.r
      /\ \A y \in s.l .. s.p : base[y][1] = x
      /\ \A y \in s.l .. s.i : base[y][1] <= x
      /\ \A y \in s.j .. s.r - 1 : base[y][1] >= x
      /\ \A y \in s.q .. s.r - 1 : base[y][1] = x
  BY <1>1 DEF UpInv, AllSame, AllLess, AllMore
<1>6. x \in Int /\ s.i + 1 \in s.l .. s.r /\ base[s.i + 1][1] \in Int
  BY <1>2, <1>5
<1>7. CASE s.i + 1 # s.r /\ base[s.i + 1][1] < x
  <2>1. phase' = "up"
    BY <1>6, <1>7 DEF Up, compar, v
  <2>2. s.i + 1 < s.j
    <3>1. s.i + 1 # s.j
      BY <1>2, <1>5, <1>6, <1>7
    <3>2. QED
      BY <1>2, <1>5, <3>1
  <2>3. \A y \in s.l .. s.i + 1 : base[y][1] <= x
    <3>1. \A y \in s.l .. s.i + 1 : y \in s.l .. s.i \/ y = s.i + 1
      BY <1>2
    <3>2. QED
      BY <1>5, <1>6, <1>7, <3>1
  <2>4. UpInv'
    BY <1>2, <1>3, <1>5, <2>2, <2>3 DEF UpInv, AllSame, AllLess, AllMore
  <2>5. QED
    BY <1>4, <2>1, <2>4 DEF QInv
<1>8. CASE ~(s.i + 1 # s.r /\ base[s.i + 1][1] < x)
  <2>1. phase' = "down"
    BY <1>6, <1>8 DEF Up, compar, v
  <2>2. s.i + 1 = s.r \/ base[s.i + 1][1] >= x
    BY <1>6, <1>8
  <2>3. (s.i + 1) - 1 = s.i /\ s.p < s.i + 1 /\ s.i + 1 <= s.j
    BY <1>2, <1>5
  <2>4. DownInv'
    BY <1>2, <1>3, <1>5, <2>2, <2>3 DEF DownInv, AllSame, AllLess, AllMore
  <2>5. QED
    BY <1>4, <2>1, <2>4 DEF QInv
<1>9. QED
  BY <1>7, <1>8

(* The scan from the right. *)
LEMMA DownKeeps ==
  ASSUME QInv, Down
  PROVE  QInv'
<1> DEFINE x == base[s.r][1]
<1>1. Frame /\ DownInv /\ phase = "down"
  BY DEF QInv, Down
<1>2. /\ nmemb \in Nat /\ Sound(base) /\ s \in Indices
      /\ s.l \in Int /\ s.r \in Int /\ s.i \in Int /\ s.j \in Int
      /\ s.p \in Int /\ s.q \in Int /\ s.k \in Int
      /\ 0 <= s.l /\ s.l < s.r /\ s.r < nmemb
      /\ \A z \in s.l .. s.r : z \in 0 .. nmemb - 1 /\ base[z][1] \in Int
  BY <1>1, Running
<1>3. /\ s' \in Indices /\ s'.l = s.l /\ s'.r = s.r /\ s'.i = s.i /\ s'.p = s.p /\ s'.q = s.q
      /\ s'.j = s.j - 1 /\ base' = base /\ todo' = todo
  BY <1>2 DEF Down, Indices
<1>4. Frame' /\ nmemb' = nmemb
  <2>1. phase' \in {"up", "down", "test", "place", "left", "right"}
    BY DEF Down
  <2>2. QED
    BY <1>1, <1>2, <1>3, <2>1, Inside
<1>5. /\ s.l - 1 <= s.p /\ s.p < s.i /\ s.i <= s.j /\ s.l < s.j /\ s.j <= s.q /\ s.q <= s.r
      /\ \A y \in s.l .. s.p : base[y][1] = x
      /\ \A y \in s.l .. s.i - 1 : base[y][1] <= x
      /\ s.i = s.r \/ base[s.i][1] >= x
      /\ \A y \in s.j .. s.r - 1 : base[y][1] >= x
      /\ \A y \in s.q .. s.r - 1 : base[y][1] = x
  BY <1>1 DEF DownInv, AllSame, AllLess, AllMore
<1>6. x \in Int /\ s.j - 1 \in s.l .. s.r /\ base[s.j - 1][1] \in Int
  BY <1>2, <1>5
<1>7. CASE x < base[s.j - 1][1] /\ s.j - 1 # s.l
  <2>1. phase' = "down"
    BY <1>6, <1>7 DEF Down, compar, v
  <2>2. s.i <= s.j - 1 /\ s.l < s.j - 1
    <3>1. s.j - 1 # s.i - 1
      BY <1>2, <1>5, <1>6, <1>7
    <3>2. QED
      BY <1>2, <1>5, <1>6, <1>7, <3>1
  <2>3. \A y \in s.j - 1 .. s.r - 1 : base[y][1] >= x
    <3>1. \A y \in s.j - 1 .. s.r - 1 : y \in s.j .. s.r - 1 \/ y = s.j - 1
      BY <1>2
    <3>2. QED
      BY <1>5, <1>6, <1>7, <3>1
  <2>4. s.j - 1 <= s.q
    BY <1>2, <1>5
  <2>5. DownInv'
    BY <1>2, <1>3, <1>5, <2>2, <2>3, <2>4 DEF DownInv, AllSame, AllLess, AllMore
  <2>6. QED
    BY <1>4, <2>1, <2>5 DEF QInv
<1>8. CASE ~(x < base[s.j - 1][1] /\ s.j - 1 # s.l)
  <2>1. phase' = "test"
    BY <1>6, <1>8 DEF Down, compar, v
  <2>2. s.j - 1 = s.l \/ base[s.j - 1][1] <= x
    BY <1>6, <1>8
  <2>3. s.i - 1 <= s.j - 1 /\ s.l <= s.j - 1 /\ s.j - 1 < s.q /\ s.i <= s.q /\ (s.j - 1) + 1 = s.j
    BY <1>2, <1>5
  <2>4. TestInv'
    BY <1>2, <1>3, <1>5, <2>2, <2>3 DEF TestInv, AllSame, AllLess, AllMore
  <2>5. QED
    BY <1>4, <2>1, <2>4 DEF QInv
<1>9. QED
  BY <1>7, <1>8

(* The scans have met. *)
LEMMA TestEnds ==
  ASSUME QInv, Test, s.i >= s.j
  PROVE  QInv'
<1> DEFINE x == base[s.r][1]
<1>1. Frame /\ TestInv /\ phase = "test" /\ phase' = "place" /\ UNCHANGED <<base, s, todo>>
  BY DEF QInv, Test
<1>2. /\ nmemb \in Nat /\ Sound(base) /\ s \in Indices
      /\ s.l \in Int /\ s.r \in Int /\ s.i \in Int /\ s.j \in Int
  BY <1>1, Running
<1>3. Frame'
  BY <1>1, <1>2, Inside
<1>4. AllMore(base, s.i, s.r - 1, x)
  <2> SUFFICES ASSUME NEW y \in s.i .. s.r - 1 PROVE base[y][1] >= x
    BY DEF AllMore
  <2>1. y = s.i \/ y \in s.j + 1 .. s.r - 1
    BY <1>2
  <2>2. s.i # s.r
    BY <1>2
  <2>3. QED
    BY <1>1, <2>1, <2>2 DEF TestInv, AllMore
<1>5. PlaceInv'
  BY <1>1, <1>4 DEF TestInv, PlaceInv, AllSame, AllLess, AllMore
<1>6. QED
  BY <1>1, <1>3, <1>5 DEF QInv

(* They have not: an exchange, and the equal ones go to the ends. *)
LEMMA TestGoesOn ==
  ASSUME QInv, Test, ~(s.i >= s.j)
  PROVE  QInv'
<1> DEFINE x == base[s.r][1]
           b1 == exch(base, s.i, s.j)
           p1 == IF compar(b1[s.i], v) = 0 THEN s.p + 1 ELSE s.p
           b2 == IF p1 > s.p THEN exch(b1, p1, s.i) ELSE b1
           q1 == IF compar(v, b2[s.j]) = 0 THEN s.q - 1 ELSE s.q
           b3 == IF q1 < s.q THEN exch(b2, s.j, q1) ELSE b2
<1>1. Frame /\ TestInv /\ phase = "test" /\ phase' = "up" /\ todo' = todo
  BY DEF QInv, Test
<1>2. /\ nmemb \in Nat /\ Sound(base) /\ Array(base) /\ s \in Indices
      /\ s.l \in Int /\ s.r \in Int /\ s.i \in Int /\ s.j \in Int
      /\ s.p \in Int /\ s.q \in Int /\ s.k \in Int
      /\ 0 <= s.l /\ s.l < s.r /\ s.r < nmemb
      /\ \A z \in s.l .. s.r : z \in 0 .. nmemb - 1 /\ base[z][1] \in Int
  BY <1>1, Running
<1>3. base' = b3 /\ s' = [s EXCEPT !.p = p1, !.q = q1]
  BY DEF Test
<1>4. /\ s.l - 1 <= s.p /\ s.p < s.i /\ s.i < s.j /\ s.j < s.q /\ s.q <= s.r
      /\ \A y \in s.l .. s.p : base[y][1] = x
      /\ \A y \in s.l .. s.i - 1 : base[y][1] <= x
      /\ base[s.i][1] >= x /\ base[s.j][1] <= x
      /\ \A y \in s.j + 1 .. s.r - 1 : base[y][1] >= x
      /\ \A y \in s.q .. s.r - 1 : base[y][1] = x
  BY <1>1, <1>2 DEF TestInv, AllSame, AllLess, AllMore
<1>5. /\ x \in Int /\ s.i \in s.l .. s.r /\ s.j \in s.l .. s.r /\ s.r \in s.l .. s.r
      /\ todo \in Seq(Int \X Int) /\ RangesApart /\ phase # "call"
  <2>1. s.i \in s.l .. s.r /\ s.j \in s.l .. s.r /\ s.r \in s.l .. s.r
    BY <1>2, <1>4
  <2>2. todo \in Seq(Int \X Int) /\ RangesApart /\ phase # "call"
    BY <1>1 DEF Frame
  <2>3. QED
    BY <1>2, <2>1, <2>2
<1>6. /\ Sound(b1) /\ Array(b1)
      /\ \A z \in s.l .. s.r : b1[z] = IF z = s.j THEN base[s.i] ELSE IF z = s.i THEN base[s.j] ELSE base[z]
  <2>1. Sound(b1)
    BY <1>2, <1>5, ExchSound
  <2>2. s.i \in 0 .. nmemb - 1 /\ s.j \in 0 .. nmemb - 1
    BY <1>2, <1>5
  <2>3. /\ Array(b1)
        /\ \A z \in 0 .. nmemb - 1 : b1[z] = IF z = s.j THEN base[s.i] ELSE IF z = s.i THEN base[s.j] ELSE base[z]
    <3>1. nmemb \in Nat /\ Array(base)
      BY <1>2
    <3>2. QED
      BY <2>2, <3>1 DEF Array, exch
  <2>4. QED
    BY <1>2, <2>1, <2>3
<1> HIDE DEF b1
<1>7. b1[s.i][1] \in Int /\ b1[s.i][1] <= x /\ b1[s.j][1] >= x
  BY <1>2, <1>4, <1>5, <1>6
<1>8. /\ p1 \in Int /\ s.p <= p1 /\ p1 <= s.i
      /\ p1 > s.p => b1[s.i][1] = x /\ p1 = s.p + 1
      /\ ~(p1 > s.p) => p1 = s.p
  <2>1. compar(b1[s.i], v) = b1[s.i][1] - x
    BY DEF compar, v
  <2>2. CASE b1[s.i][1] = x
    <3>1. p1 = s.p + 1
      BY <1>5, <2>1, <2>2
    <3>2. QED
      BY <1>2, <1>4, <2>2, <3>1
  <2>3. CASE b1[s.i][1] # x
    <3>1. p1 = s.p
      BY <1>5, <1>7, <2>1, <2>3
    <3>2. QED
      BY <1>2, <1>4, <3>1
  <2>4. QED
    BY <2>2, <2>3
<1> HIDE DEF p1
<1>9. /\ Sound(b2) /\ Array(b2)
      /\ \A y \in s.l .. p1 : b2[y][1] = x
      /\ \A y \in s.l .. s.i : b2[y][1] <= x
      /\ \A y \in s.j .. s.r : b2[y] = b1[y]
  <2>1. CASE ~(p1 > s.p)
    <3>1. b2 = b1 /\ p1 = s.p
      BY <1>8, <2>1
    <3>2. \A y \in s.l .. s.p : b1[y][1] = x
      <4>1. \A y \in s.l .. s.p : y \in s.l .. s.r /\ y # s.i /\ y # s.j
        BY <1>2, <1>4
      <4>2. QED
        BY <1>4, <1>6, <4>1
    <3>3. \A y \in s.l .. s.i : b1[y][1] <= x
      <4>1. \A y \in s.l .. s.i : y = s.i \/ (y \in s.l .. s.i - 1 /\ y # s.j /\ y \in s.l .. s.r)
        BY <1>2, <1>4
      <4>2. QED
        BY <1>4, <1>6, <1>7, <4>1
    <3>4. QED
      BY <1>6, <3>1, <3>2, <3>3
  <2>2. CASE p1 > s.p
    <3>1. b2 = exch(b1, p1, s.i) /\ p1 = s.p + 1 /\ b1[s.i][1] = x /\ p1 \in s.l .. s.i
      BY <1>2, <1>4, <1>8, <2>2
    <3>2. p1 \in s.l .. s.r /\ p1 \in 0 .. nmemb - 1 /\ s.i \in 0 .. nmemb - 1
      BY <1>2, <1>5, <3>1, SMTT(30)
    <3>3. Sound(b2)
      BY <1>2, <1>5, <1>6, <3>1, <3>2, ExchSound
    <3>4. /\ Array(b2)
          /\ \A z \in 0 .. nmemb - 1 : b2[z] = IF z = s.i THEN b1[p1] ELSE IF z = p1 THEN b1[s.i] ELSE b1[z]
      <4>1. nmemb \in Nat /\ Array(b1)
        BY <1>2, <1>6
      <4>2. QED
        BY <3>1, <3>2, <4>1 DEF Array, exch
    <3>5. \A y \in s.l .. s.i - 1 : y # s.j /\ y # s.i /\ y \in s.l .. s.r /\ y \in 0 .. nmemb - 1 /\ b1[y] = base[y]
      BY <1>2, <1>4, <1>6
    <3> HIDE DEF b2
    <3>6. \A y \in s.l .. p1 : b2[y][1] = x
      <4> SUFFICES ASSUME NEW y \in s.l .. p1 PROVE b2[y][1] = x
        OBVIOUS
      <4>1. y \in 0 .. nmemb - 1 /\ (y = p1 \/ (y \in s.l .. s.p /\ y \in s.l .. s.i - 1))
        BY <1>2, <1>4, <3>1, <3>2
      <4>2. CASE y = p1
        BY <3>1, <3>2, <3>4, <4>2
      <4>3. CASE y \in s.l .. s.p /\ y \in s.l .. s.i - 1
        <5>1. y # p1 /\ y # s.i
          BY <1>2, <3>1, <4>3
        <5>2. b2[y] = b1[y] /\ b1[y] = base[y]
          BY <3>4, <3>5, <4>1, <4>3, <5>1
        <5>3. QED
          BY <1>4, <4>3, <5>2
      <4>4. QED
        BY <4>1, <4>2, <4>3
    <3>7. \A y \in s.l .. s.i : b2[y][1] <= x
      <4> SUFFICES ASSUME NEW y \in s.l .. s.i PROVE b2[y][1] <= x
        OBVIOUS
      <4>1. y \in 0 .. nmemb - 1 /\ (y = s.i \/ y \in s.l .. s.i - 1) /\ (p1 = s.i \/ p1 \in s.l .. s.i - 1)
        BY <1>2, <1>5, <3>1, SMTT(30)
      <4>2. b1[p1][1] <= x
        BY <1>4, <1>7, <3>5, <4>1
      <4>3. CASE y = s.i
        BY <3>4, <4>1, <4>2, <4>3
      <4>4. CASE y \in s.l .. s.i - 1
        <5>1. y # s.i /\ b1[y][1] <= x
          BY <1>4, <3>5, <4>4
        <5>2. QED
          BY <1>7, <3>4, <4>1, <5>1
      <4>5. QED
        BY <4>1, <4>3, <4>4
    <3>8. \A y \in s.j .. s.r : b2[y] = b1[y]
      <4>1. s.r \in Int /\ s.j \in Int /\ s.i \in Int /\ p1 \in Int /\ nmemb \in Nat
        BY <1>2, <1>5, <3>1
      <4>2. 0 <= s.i /\ s.i < s.j /\ p1 <= s.i /\ s.r <= nmemb - 1
        BY <1>2, <1>4, <1>5, <3>1, SMTT(30)
      <4>3. \A y \in s.j .. s.r : y \in 0 .. nmemb - 1 /\ y # s.i /\ y # p1
        BY <4>1, <4>2
      <4>4. QED
        BY <3>4, <4>3
    <3>9. QED
      BY <3>3, <3>4, <3>6, <3>7, <3>8
  <2>3. QED
    BY <2>1, <2>2
<1> HIDE DEF b2
<1>10. /\ b2[s.j][1] \in Int /\ b2[s.j][1] >= x
       /\ \A y \in s.j + 1 .. s.r : b2[y] = base[y]
  <2>1. b2[s.j] = base[s.i] /\ base[s.i][1] \in Int
    <3>1. s.j \in s.j .. s.r
      BY <1>2, <1>4
    <3>2. QED
      BY <1>2, <1>5, <1>6, <1>9, <3>1
  <2>2. \A y \in s.j + 1 .. s.r : y \in s.j .. s.r /\ y \in s.l .. s.r /\ y # s.i /\ y # s.j
    BY <1>2, <1>4
  <2>3. QED
    BY <1>4, <1>6, <1>9, <2>1, <2>2
<1>11. /\ q1 \in Int /\ s.j <= q1 /\ q1 <= s.q
       /\ q1 < s.q => b2[s.j][1] = x /\ q1 = s.q - 1
       /\ ~(q1 < s.q) => q1 = s.q
  <2>1. compar(v, b2[s.j]) = x - b2[s.j][1]
    BY DEF compar, v
  <2>2. CASE b2[s.j][1] = x
    <3>1. q1 = s.q - 1
      BY <1>5, <2>1, <2>2
    <3>2. QED
      BY <1>2, <1>4, <2>2, <3>1
  <2>3. CASE b2[s.j][1] # x
    <3>1. q1 = s.q
      BY <1>5, <1>10, <2>1, <2>3
    <3>2. QED
      BY <1>2, <1>4, <3>1
  <2>4. QED
    BY <2>2, <2>3
<1> HIDE DEF q1
<1>12. /\ Sound(b3)
       /\ \A y \in s.l .. s.i : b3[y] = b2[y]
       /\ \A y \in s.j .. s.r - 1 : b3[y][1] >= x
       /\ \A y \in q1 .. s.r - 1 : b3[y][1] = x
       /\ b3[s.r] = base[s.r]
  <2>0. s.r \in s.j + 1 .. s.r
    BY <1>2, <1>4
  <2>1. CASE ~(q1 < s.q)
    <3>1. b3 = b2 /\ q1 = s.q
      BY <1>11, <2>1
    <3>2. \A y \in s.j .. s.r - 1 : b2[y][1] >= x
      <4>1. \A y \in s.j .. s.r - 1 : y = s.j \/ (y \in s.j + 1 .. s.r - 1 /\ y \in s.j + 1 .. s.r)
        BY <1>2
      <4>2. QED
        BY <1>4, <1>10, <4>1
    <3>3. \A y \in s.q .. s.r - 1 : b2[y][1] = x
      <4>1. \A y \in s.q .. s.r - 1 : y \in s.j + 1 .. s.r
        BY <1>2, <1>4
      <4>2. QED
        BY <1>4, <1>10, <4>1
    <3>4. QED
      BY <1>9, <1>10, <2>0, <3>1, <3>2, <3>3
  <2>2. CASE q1 < s.q
    <3>1. b3 = exch(b2, s.j, q1) /\ q1 = s.q - 1 /\ b2[s.j][1] = x
      BY <1>11, <2>2
    <3>2. q1 \in s.j .. s.r - 1 /\ q1 \in s.l .. s.r /\ q1 \in 0 .. nmemb - 1 /\ s.j \in 0 .. nmemb - 1
      <4>1. q1 \in s.j .. s.r - 1
        BY <1>2, <1>4, <1>11, <3>1
      <4>2. q1 \in s.l .. s.r
        BY <1>2, <1>4, <4>1
      <4>3. QED
        BY <1>2, <1>5, <4>1, <4>2
    <3>3. Sound(b3)
      BY <1>2, <1>5, <1>9, <3>1, <3>2, ExchSound
    <3>4. \A z \in 0 .. nmemb - 1 : b3[z] = IF z = q1 THEN b2[s.j] ELSE IF z = s.j THEN b2[q1] ELSE b2[z]
      <4>1. nmemb \in Nat /\ Array(b2)
        BY <1>2, <1>9
      <4>2. QED
        BY <3>1, <3>2, <4>1 DEF Array, exch
    <3> HIDE DEF b3
    <3>5. \A y \in s.l .. s.i : b3[y] = b2[y]
      <4>1. \A y \in s.l .. s.i : y \in 0 .. nmemb - 1 /\ y # s.j /\ y # q1
        BY <1>2, <1>4, <1>5, <3>2, SMTT(30)
      <4>2. QED
        BY <3>4, <4>1
    <3>6. \A y \in s.j .. s.r - 1 : b2[y][1] >= x
      <4>1. \A y \in s.j .. s.r - 1 : y = s.j \/ (y \in s.j + 1 .. s.r - 1 /\ y \in s.j + 1 .. s.r)
        BY <1>2
      <4>2. QED
        BY <1>4, <1>10, <4>1
    <3>7. \A y \in s.j .. s.r - 1 : b3[y][1] >= x
      <4>1. \A y \in s.j .. s.r - 1 : y \in 0 .. nmemb - 1
        BY <1>2, <1>5
      <4>2. QED
        BY <1>10, <3>2, <3>4, <3>6, <4>1
    <3>8. \A y \in q1 .. s.r - 1 : b3[y][1] = x
      <4> SUFFICES ASSUME NEW y \in q1 .. s.r - 1 PROVE b3[y][1] = x
        OBVIOUS
      <4>1. y \in 0 .. nmemb - 1 /\ (y = q1 \/ (y \in s.q .. s.r - 1 /\ y \in s.j + 1 .. s.r /\ y # s.j /\ y # q1))
        BY <1>2, <1>4, <3>1, <3>2
      <4>2. QED
        BY <1>4, <1>10, <3>1, <3>4, <4>1
    <3>9. b3[s.r] = base[s.r]
      <4>1. s.r \in 0 .. nmemb - 1 /\ s.r # q1 /\ s.r # s.j
        BY <1>2, <1>4, <3>2
      <4>2. QED
        BY <1>10, <2>0, <3>4, <4>1
    <3>10. QED
      BY <3>3, <3>5, <3>7, <3>8, <3>9
  <2>3. QED
    BY <2>1, <2>2
<1> HIDE DEF b3
<1>13. /\ s' \in Indices /\ s'.l = s.l /\ s'.r = s.r /\ s'.i = s.i /\ s'.j = s.j
       /\ s'.p = p1 /\ s'.q = q1
  BY <1>2, <1>3, <1>8, <1>11 DEF Indices
<1>14. Frame'
  BY <1>1, <1>3, <1>12, <1>13, Inside
<1>15. /\ s.l - 1 <= p1 /\ p1 <= s.i /\ s.i < s.j /\ s.l < s.j /\ s.j <= q1 /\ q1 <= s.r
  BY <1>2, <1>4, <1>8, <1>11
<1>16. /\ \A y \in s.l .. p1 : b3[y][1] = x
       /\ \A y \in s.l .. s.i : b3[y][1] <= x
  <2>1. \A y \in s.l .. p1 : y \in s.l .. s.i
    BY <1>2, <1>8
  <2>2. QED
    BY <1>9, <1>12, <2>1
<1>17. UpInv'
  BY <1>3, <1>12, <1>13, <1>15, <1>16 DEF UpInv, AllSame, AllLess, AllMore
<1>18. QED
  BY <1>1, <1>14, <1>17 DEF QInv

(* The pivot goes to its place. *)
LEMMA PivotKeeps ==
  ASSUME QInv, Pivot
  PROVE  QInv'
<1> DEFINE x == base[s.r][1]
           b == exch(base, s.i, s.r)
<1>1. Frame /\ PlaceInv /\ phase = "place" /\ phase' = "left" /\ todo' = todo /\ base' = b
  BY DEF QInv, Pivot
<1>2. /\ nmemb \in Nat /\ Sound(base) /\ Array(base) /\ s \in Indices
      /\ s.l \in Int /\ s.r \in Int /\ s.i \in Int /\ s.j \in Int
      /\ s.p \in Int /\ s.q \in Int /\ s.k \in Int
      /\ 0 <= s.l /\ s.l < s.r /\ s.r < nmemb
      /\ \A z \in s.l .. s.r : z \in 0 .. nmemb - 1 /\ base[z][1] \in Int
  BY <1>1, Running
<1>3. /\ s' \in Indices /\ s'.l = s.l /\ s'.r = s.r /\ s'.p = s.p /\ s'.q = s.q
      /\ s'.i = s.i + 1 /\ s'.j = s.i - 1 /\ s'.k = s.l
  <2>1. s' = [l |-> s.l, r |-> s.r, i |-> s.i + 1, j |-> s.i - 1, p |-> s.p, q |-> s.q, k |-> s.l]
    BY <1>2 DEF Pivot, Indices
  <2>2. s.i + 1 \in Int /\ s.i - 1 \in Int
    BY <1>2
  <2>3. QED
    BY <1>2, <2>1, <2>2 DEF Indices
<1>4. /\ s.l - 1 <= s.p /\ s.p < s.i /\ s.i <= s.q /\ s.q <= s.r
      /\ \A y \in s.l .. s.p : base[y][1] = x
      /\ \A y \in s.l .. s.i - 1 : base[y][1] <= x
      /\ \A y \in s.i .. s.r - 1 : base[y][1] >= x
      /\ \A y \in s.q .. s.r - 1 : base[y][1] = x
  BY <1>1 DEF PlaceInv, AllSame, AllLess, AllMore
<1>5. s.i \in s.l .. s.r /\ s.r \in s.l .. s.r /\ s.i \in 0 .. nmemb - 1 /\ s.r \in 0 .. nmemb - 1 /\ x \in Int
  BY <1>2, <1>4
<1>6. Sound(b)
  <2>1. todo \in Seq(Int \X Int) /\ RangesApart /\ phase # "call"
    BY <1>1 DEF Frame
  <2>2. QED
    BY <1>2, <1>5, <2>1, ExchSound
<1>7. \A z \in 0 .. nmemb - 1 : b[z] = IF z = s.r THEN base[s.i] ELSE IF z = s.i THEN base[s.r] ELSE base[z]
  <2>1. nmemb \in Nat /\ Array(base)
    BY <1>2
  <2>2. QED
    BY <1>5, <2>1 DEF Array, exch
<1> HIDE DEF b
<1>8. Frame'
  BY <1>1, <1>3, <1>6, Inside
<1>9. b[s.i][1] = x
  BY <1>5, <1>7
<1>10. \A y \in s.l .. s.i : b[y][1] <= x
  <2>1. \A y \in s.l .. s.i : y = s.i \/ (y \in s.l .. s.i - 1 /\ y \in 0 .. nmemb - 1 /\ y # s.r /\ y # s.i)
    BY <1>2, <1>5
  <2>2. QED
    BY <1>4, <1>5, <1>7, <1>9, <2>1
<1>11. \A y \in s.i + 1 .. s.r : b[y][1] >= x
  <2> SUFFICES ASSUME NEW y \in s.i + 1 .. s.r PROVE b[y][1] >= x
    OBVIOUS
  <2>1. y \in 0 .. nmemb - 1 /\ y # s.i /\ s.i \in s.i .. s.r - 1 /\ (y = s.r \/ y \in s.i .. s.r - 1)
    BY <1>2, <1>5
  <2>2. QED
    BY <1>4, <1>7, <2>1
<1>12. \A y \in s.l .. s.p : b[y][1] = x
  <2>1. \A y \in s.l .. s.p : y \in 0 .. nmemb - 1 /\ y # s.i /\ y # s.r
    BY <1>2, <1>4
  <2>2. QED
    BY <1>4, <1>7, <2>1
<1>13. \A y \in s.q .. s.r - 1 : b[y][1] = x
  <2>1. \A y \in s.q .. s.r - 1 : y \in 0 .. nmemb - 1 /\ y # s.r
    BY <1>2, <1>4
  <2>2. QED
    BY <1>4, <1>7, <2>1
<1>14. /\ (s.i + 1) - 1 = s.i /\ (s.i - 1) + 1 = s.i /\ s.p <= (s.i + 1) - 2 /\ s.l <= s.p + 1
       /\ (s.i - 1) + s.l = (s.i + 1) - 2 + s.l
       /\ \A y \in s.i .. s.i : y = s.i
       /\ s.l .. s.l - 1 = {}
  BY <1>2, <1>4
<1>15. LeftInv'
  BY <1>1, <1>2, <1>3, <1>4, <1>9, <1>10, <1>11, <1>12, <1>13, <1>14 DEF LeftInv, AllSame, AllLess, AllMore
<1>16. QED
  BY <1>1, <1>8, <1>15 DEF QInv

(* What LeftInv says. *)
LEMMA LeftFacts ==
  ASSUME Frame, LeftInv, phase = "left"
  PROVE  LET x == base[s.i - 1][1]
         IN  /\ s.l - 1 <= s.p /\ s.p <= s.i - 2 /\ s.i - 1 <= s.q /\ s.q <= s.r
             /\ s.l <= s.k /\ s.k <= s.p + 1 /\ s.j + s.k = s.i - 2 + s.l
             /\ s.l - 1 <= s.j /\ s.j <= s.i - 2
             /\ x \in Int
             /\ \A y \in s.l .. s.i - 1 : base[y][1] <= x
             /\ \A y \in s.i .. s.r : base[y][1] >= x
             /\ \A y \in s.k .. s.p : base[y][1] = x
             /\ \A y \in s.j + 1 .. s.i - 1 : base[y][1] = x
             /\ \A y \in s.l .. s.k - 1 : s.j + s.k - y <= s.p => base[y][1] = x
             /\ \A y \in s.q .. s.r - 1 : base[y][1] = x
<1>1. /\ s.l \in Int /\ s.r \in Int /\ s.i \in Int /\ s.j \in Int
      /\ s.p \in Int /\ s.q \in Int /\ s.k \in Int
      /\ \A z \in s.l .. s.r : base[z][1] \in Int
  BY Running
<1>2. /\ s.l - 1 <= s.p /\ s.p <= s.i - 2 /\ s.i - 1 <= s.q /\ s.q <= s.r
      /\ s.l <= s.k /\ s.k <= s.p + 1 /\ s.j + s.k = s.i - 2 + s.l
  BY DEF LeftInv
<1>3. s.l - 1 <= s.j /\ s.j <= s.i - 2 /\ s.i - 1 \in s.l .. s.r
  BY <1>1, <1>2
<1>4. QED
  BY <1>1, <1>2, <1>3 DEF LeftInv, AllSame, AllLess, AllMore

(* The equal ones of the left end go to the middle. *)
LEMMA LeftMoves ==
  ASSUME QInv, Left, s.k < s.p
  PROVE  QInv'
<1> DEFINE x == base[s.i - 1][1]
           b == exch(base, s.k, s.j)
<1>1. /\ Frame /\ LeftInv /\ phase = "left" /\ phase' = "left" /\ todo' = todo /\ base' = b
      /\ s' = [s EXCEPT !.k = @ + 1, !.j = @ - 1]
  BY DEF QInv, Left
<1>2. /\ nmemb \in Nat /\ Sound(base) /\ Array(base) /\ s \in Indices
      /\ s.l \in Int /\ s.r \in Int /\ s.i \in Int /\ s.j \in Int
      /\ s.p \in Int /\ s.q \in Int /\ s.k \in Int
      /\ 0 <= s.l /\ s.l < s.r /\ s.r < nmemb
      /\ \A z \in s.l .. s.r : z \in 0 .. nmemb - 1 /\ base[z][1] \in Int
  BY <1>1, Running
<1>3. /\ s' \in Indices /\ s'.l = s.l /\ s'.r = s.r /\ s'.p = s.p /\ s'.q = s.q /\ s'.i = s.i
      /\ s'.j = s.j - 1 /\ s'.k = s.k + 1
  <2>1. s' = [l |-> s.l, r |-> s.r, i |-> s.i, j |-> s.j - 1, p |-> s.p, q |-> s.q, k |-> s.k + 1]
    BY <1>1, <1>2 DEF Indices
  <2>2. s.j - 1 \in Int /\ s.k + 1 \in Int
    BY <1>2
  <2>3. QED
    BY <1>2, <2>1, <2>2 DEF Indices
<1>4. /\ s.l - 1 <= s.p /\ s.p <= s.i - 2 /\ s.i - 1 <= s.q /\ s.q <= s.r
      /\ s.l <= s.k /\ s.k <= s.p + 1 /\ s.j + s.k = s.i - 2 + s.l
      /\ s.l - 1 <= s.j /\ s.j <= s.i - 2
      /\ x \in Int
      /\ \A y \in s.l .. s.i - 1 : base[y][1] <= x
      /\ \A y \in s.i .. s.r : base[y][1] >= x
      /\ \A y \in s.k .. s.p : base[y][1] = x
      /\ \A y \in s.j + 1 .. s.i - 1 : base[y][1] = x
      /\ \A y \in s.l .. s.k - 1 : s.j + s.k - y <= s.p => base[y][1] = x
      /\ \A y \in s.q .. s.r - 1 : base[y][1] = x
  BY <1>1, LeftFacts
<1>5. /\ s.k \in s.l .. s.r /\ s.j \in s.l .. s.r /\ s.k \in s.k .. s.p
      /\ s.k \in 0 .. nmemb - 1 /\ s.j \in 0 .. nmemb - 1 /\ s.j \in s.l .. s.i - 1
  <2>1. s.k \in s.l .. s.r /\ s.j \in s.l .. s.r /\ s.k \in s.k .. s.p /\ s.j \in s.l .. s.i - 1
    BY <1>2, <1>4
  <2>2. QED
    BY <1>2, <2>1
<1>6. Sound(b)
  <2>1. todo \in Seq(Int \X Int) /\ RangesApart /\ phase # "call"
    BY <1>1 DEF Frame
  <2>2. QED
    BY <1>2, <1>5, <2>1, ExchSound
<1>7. \A z \in 0 .. nmemb - 1 : b[z] = IF z = s.j THEN base[s.k] ELSE IF z = s.k THEN base[s.j] ELSE base[z]
  <2>1. nmemb \in Nat /\ Array(base)
    BY <1>2
  <2>2. QED
    BY <1>5, <2>1 DEF Array, exch
<1> HIDE DEF b
<1>8. Frame'
  BY <1>1, <1>3, <1>6, Inside
<1>9. base[s.k][1] = x /\ base[s.j][1] <= x
  BY <1>4, <1>5
<1>10. s.j <= s.p => base[s.j][1] = x
  <2>1. CASE s.j >= s.k
    BY <1>2, <1>4, <2>1
  <2>2. CASE s.j < s.k
    <3>1. s.j \in s.l .. s.k - 1 /\ s.j + s.k - s.j <= s.p
      BY <1>2, <1>5, <2>2
    <3>2. QED
      BY <1>4, <3>1
  <2>3. QED
    BY <1>2, <2>1, <2>2
<1>11. \A y \in s.l .. s.i - 1 : b[y][1] <= x
  <2>1. \A y \in s.l .. s.i - 1 : y \in 0 .. nmemb - 1
    BY <1>2, <1>4
  <2>2. QED
    BY <1>4, <1>7, <1>9, <2>1
<1>12. /\ \A y \in s.i .. s.r : b[y][1] >= x
       /\ b[s.i - 1][1] = x
  <2>1. \A y \in s.i - 1 .. s.r : y \in 0 .. nmemb - 1 /\ y # s.j /\ y # s.k
    BY <1>2, <1>4
  <2>2. s.i - 1 \in s.i - 1 .. s.r /\ \A y \in s.i .. s.r : y \in s.i - 1 .. s.r
    BY <1>2, <1>4
  <2>3. QED
    BY <1>4, <1>7, <2>1, <2>2
<1>13. \A y \in s.k + 1 .. s.p : b[y][1] = x
  <2>1. \A y \in s.k + 1 .. s.p : y \in 0 .. nmemb - 1 /\ y # s.k /\ y \in s.k .. s.p
    BY <1>2, <1>4
  <2>2. QED
    BY <1>4, <1>7, <1>9, <2>1
<1>14. \A y \in (s.j - 1) + 1 .. s.i - 1 : b[y][1] = x
  <2> SUFFICES ASSUME NEW y \in (s.j - 1) + 1 .. s.i - 1 PROVE b[y][1] = x
    OBVIOUS
  <2>1. y \in 0 .. nmemb - 1 /\ (y = s.j \/ y \in s.j + 1 .. s.i - 1)
    BY <1>2, <1>4, <1>5
  <2>2. y = s.k /\ y # s.j => s.j <= s.p
    BY <1>2, <1>4, <2>1
  <2>3. QED
    BY <1>4, <1>7, <1>9, <1>10, <2>1, <2>2
<1>15. \A y \in s.l .. (s.k + 1) - 1 : (s.j - 1) + (s.k + 1) - y <= s.p => b[y][1] = x
  <2> SUFFICES ASSUME NEW y \in s.l .. (s.k + 1) - 1, (s.j - 1) + (s.k + 1) - y <= s.p PROVE b[y][1] = x
    OBVIOUS
  <2>1. y \in 0 .. nmemb - 1 /\ (y = s.k \/ (y # s.k /\ y \in s.l .. s.k - 1 /\ s.j + s.k - y <= s.p))
    BY <1>2, <1>4, <1>5
  <2>2. y = s.k => s.j <= s.p
    BY <1>2
  <2>3. QED
    BY <1>4, <1>7, <1>9, <1>10, <2>1, <2>2
<1>16. \A y \in s.q .. s.r - 1 : b[y][1] = x
  <2>1. \A y \in s.q .. s.r - 1 : y \in 0 .. nmemb - 1 /\ y # s.j /\ y # s.k
    BY <1>2, <1>4
  <2>2. QED
    BY <1>4, <1>7, <2>1
<1>17. s.l <= s.k + 1 /\ s.k + 1 <= s.p + 1 /\ (s.j - 1) + (s.k + 1) = s.i - 2 + s.l
  BY <1>2, <1>4
<1>18. LeftInv'
  BY <1>1, <1>3, <1>4, <1>11, <1>12, <1>13, <1>14, <1>15, <1>16, <1>17 DEF LeftInv, AllSame, AllLess, AllMore
<1>19. QED
  BY <1>1, <1>8, <1>18 DEF QInv

(* The first swapping loop ends. *)
LEMMA LeftEnds ==
  ASSUME QInv, Left, ~(s.k < s.p)
  PROVE  QInv'
<1> DEFINE x == base[s.i - 1][1]
<1>1. /\ Frame /\ LeftInv /\ phase = "left" /\ phase' = "right" /\ todo' = todo /\ base' = base
      /\ s' = [s EXCEPT !.k = s.r - 1]
  BY DEF QInv, Left
<1>2. /\ nmemb \in Nat /\ Sound(base) /\ s \in Indices
      /\ s.l \in Int /\ s.r \in Int /\ s.i \in Int /\ s.j \in Int
      /\ s.p \in Int /\ s.q \in Int /\ s.k \in Int
  BY <1>1, Running
<1>3. /\ s' \in Indices /\ s'.l = s.l /\ s'.r = s.r /\ s'.p = s.p /\ s'.q = s.q /\ s'.i = s.i
      /\ s'.j = s.j /\ s'.k = s.r - 1
  BY <1>1, <1>2 DEF Indices
<1>4. Frame'
  BY <1>1, <1>2, <1>3, Inside
<1>5. /\ s.l - 1 <= s.p /\ s.p <= s.i - 2 /\ s.i - 1 <= s.q /\ s.q <= s.r
      /\ s.l <= s.k /\ s.k <= s.p + 1 /\ s.j + s.k = s.i - 2 + s.l
      /\ s.l - 1 <= s.j /\ s.j <= s.i - 2
      /\ x \in Int
      /\ \A y \in s.l .. s.i - 1 : base[y][1] <= x
      /\ \A y \in s.i .. s.r : base[y][1] >= x
      /\ \A y \in s.j + 1 .. s.i - 1 : base[y][1] = x
      /\ \A y \in s.q .. s.r - 1 : base[y][1] = x
  BY <1>1, LeftFacts
<1>6. /\ s.j + 2 <= s.i /\ s.j + 1 <= s.q /\ s.q - 1 <= s.r - 1 /\ s.r - 1 <= s.r - 1
      /\ s.i + (s.r - 1) <= s.q + s.r /\ s.j + 1 \in s.j + 1 .. s.i - 1
      /\ \A y \in s.l .. s.j : y \in s.l .. s.i - 1
      /\ (s.r - 1) + 1 .. s.r - 1 = {}
  BY <1>2, <1>5
<1>7. base[s.j + 1][1] = x
  BY <1>5, <1>6
<1>8. RightInv'
  BY <1>1, <1>3, <1>5, <1>6, <1>7 DEF RightInv, AllSame, AllLess, AllMore
<1>9. QED
  BY <1>1, <1>4, <1>8 DEF QInv

(* What RightInv says. *)
LEMMA RightFacts ==
  ASSUME Frame, RightInv, phase = "right"
  PROVE  LET x == base[s.j + 1][1]
         IN  /\ s.l - 1 <= s.j /\ s.j + 2 <= s.i /\ s.j + 1 <= s.q /\ s.q <= s.r
             /\ s.q - 1 <= s.k /\ s.k <= s.r - 1 /\ s.i + s.k <= s.q + s.r
             /\ s.i <= s.r + 1
             /\ x \in Int
             /\ \A y \in s.l .. s.j : base[y][1] <= x
             /\ \A y \in s.i .. s.r : base[y][1] >= x
             /\ \A y \in s.j + 1 .. s.i - 1 : base[y][1] = x
             /\ \A y \in s.q .. s.k : base[y][1] = x
             /\ \A y \in s.k + 1 .. s.r - 1 : s.i + s.k - y >= s.q => base[y][1] = x
<1>1. /\ s.l \in Int /\ s.r \in Int /\ s.i \in Int /\ s.j \in Int
      /\ s.p \in Int /\ s.q \in Int /\ s.k \in Int
      /\ \A z \in s.l .. s.r : base[z][1] \in Int
  BY Running
<1>2. /\ s.l - 1 <= s.j /\ s.j + 2 <= s.i /\ s.j + 1 <= s.q /\ s.q <= s.r
      /\ s.q - 1 <= s.k /\ s.k <= s.r - 1 /\ s.i + s.k <= s.q + s.r
  BY DEF RightInv
<1>3. s.i <= s.r + 1 /\ s.j + 1 \in s.l .. s.r
  BY <1>1, <1>2
<1>4. QED
  BY <1>1, <1>2, <1>3 DEF RightInv, AllSame, AllLess, AllMore

(* The equal ones of the right end go to the middle. *)
LEMMA RightMoves ==
  ASSUME QInv, Right, s.k > s.q
  PROVE  QInv'
<1> DEFINE x == base[s.j + 1][1]
           b == exch(base, s.i, s.k)
<1>1. /\ Frame /\ RightInv /\ phase = "right" /\ phase' = "right" /\ todo' = todo /\ base' = b
      /\ s' = [s EXCEPT !.k = @ - 1, !.i = @ + 1]
  BY DEF QInv, Right
<1>2. /\ nmemb \in Nat /\ Sound(base) /\ Array(base) /\ s \in Indices
      /\ s.l \in Int /\ s.r \in Int /\ s.i \in Int /\ s.j \in Int
      /\ s.p \in Int /\ s.q \in Int /\ s.k \in Int
      /\ 0 <= s.l /\ s.l < s.r /\ s.r < nmemb
      /\ \A z \in s.l .. s.r : z \in 0 .. nmemb - 1 /\ base[z][1] \in Int
  BY <1>1, Running
<1>3. /\ s' \in Indices /\ s'.l = s.l /\ s'.r = s.r /\ s'.p = s.p /\ s'.q = s.q /\ s'.j = s.j
      /\ s'.i = s.i + 1 /\ s'.k = s.k - 1
  <2>1. s' = [l |-> s.l, r |-> s.r, i |-> s.i + 1, j |-> s.j, p |-> s.p, q |-> s.q, k |-> s.k - 1]
    BY <1>1, <1>2 DEF Indices
  <2>2. s.i + 1 \in Int /\ s.k - 1 \in Int
    BY <1>2
  <2>3. QED
    BY <1>2, <2>1, <2>2 DEF Indices
<1>4. /\ s.l - 1 <= s.j /\ s.j + 2 <= s.i /\ s.j + 1 <= s.q /\ s.q <= s.r
      /\ s.q - 1 <= s.k /\ s.k <= s.r - 1 /\ s.i + s.k <= s.q + s.r
      /\ x \in Int
      /\ \A y \in s.l .. s.j : base[y][1] <= x
      /\ \A y \in s.i .. s.r : base[y][1] >= x
      /\ \A y \in s.j + 1 .. s.i - 1 : base[y][1] = x
      /\ \A y \in s.q .. s.k : base[y][1] = x
      /\ \A y \in s.k + 1 .. s.r - 1 : s.i + s.k - y >= s.q => base[y][1] = x
  BY <1>1, RightFacts
<1>5. /\ s.k \in s.l .. s.r /\ s.i \in s.l .. s.r /\ s.k \in s.q .. s.k /\ s.i <= s.r - 1
      /\ s.k \in 0 .. nmemb - 1 /\ s.i \in 0 .. nmemb - 1 /\ s.i \in s.i .. s.r
  <2>1. s.k \in s.l .. s.r /\ s.i <= s.r - 1 /\ s.k \in s.q .. s.k
    BY <1>2, <1>4
  <2>2. s.i \in s.l .. s.r /\ s.i \in s.i .. s.r
    BY <1>2, <1>4, <2>1
  <2>3. QED
    BY <1>2, <2>1, <2>2
<1>6. Sound(b)
  <2>1. todo \in Seq(Int \X Int) /\ RangesApart /\ phase # "call"
    BY <1>1 DEF Frame
  <2>2. QED
    BY <1>2, <1>5, <2>1, ExchSound
<1>7. \A z \in 0 .. nmemb - 1 : b[z] = IF z = s.k THEN base[s.i] ELSE IF z = s.i THEN base[s.k] ELSE base[z]
  <2>1. nmemb \in Nat /\ Array(base)
    BY <1>2
  <2>2. QED
    BY <1>5, <2>1 DEF Array, exch
<1> HIDE DEF b
<1>8. Frame'
  BY <1>1, <1>3, <1>6, Inside
<1>9. base[s.k][1] = x /\ base[s.i][1] >= x
  BY <1>4, <1>5
<1>10. s.i >= s.q => base[s.i][1] = x
  <2>1. CASE s.i <= s.k
    BY <1>2, <1>4, <2>1
  <2>2. CASE s.i > s.k
    <3>1. s.i \in s.k + 1 .. s.r - 1 /\ s.i + s.k - s.i >= s.q
      BY <1>2, <1>5, <2>2
    <3>2. QED
      BY <1>4, <3>1
  <2>3. QED
    BY <1>2, <2>1, <2>2
<1>11. \A y \in s.i + 1 .. s.r : b[y][1] >= x
  <2>1. \A y \in s.i + 1 .. s.r : y \in 0 .. nmemb - 1 /\ y \in s.i .. s.r /\ y # s.i
    BY <1>2, <1>4, <1>5
  <2>2. QED
    BY <1>4, <1>7, <1>9, <2>1
<1>12. /\ \A y \in s.l .. s.j : b[y][1] <= x
       /\ b[s.j + 1][1] = x
  <2>1. \A y \in s.l .. s.j + 1 : y \in 0 .. nmemb - 1 /\ y # s.i /\ y # s.k
    BY <1>2, <1>4
  <2>2. s.j + 1 \in s.l .. s.j + 1 /\ \A y \in s.l .. s.j : y \in s.l .. s.j + 1
    BY <1>2, <1>4
  <2>3. QED
    BY <1>4, <1>7, <2>1, <2>2
<1>13. \A y \in s.q .. s.k - 1 : b[y][1] = x
  <2>1. \A y \in s.q .. s.k - 1 : y \in 0 .. nmemb - 1 /\ y # s.k /\ y \in s.q .. s.k
    BY <1>2, <1>4
  <2>2. QED
    BY <1>4, <1>7, <1>9, <2>1
<1>14. \A y \in s.j + 1 .. (s.i + 1) - 1 : b[y][1] = x
  <2> SUFFICES ASSUME NEW y \in s.j + 1 .. (s.i + 1) - 1 PROVE b[y][1] = x
    OBVIOUS
  <2>1. y \in 0 .. nmemb - 1 /\ (y = s.i \/ y \in s.j + 1 .. s.i - 1)
    BY <1>2, <1>4, <1>5, SMTT(30)
  <2>2. y = s.k => s.i >= s.q
    BY <1>2, <1>4, <2>1
  <2>3. QED
    BY <1>4, <1>7, <1>9, <1>10, <2>1, <2>2
<1>15. \A y \in (s.k - 1) + 1 .. s.r - 1 : (s.i + 1) + (s.k - 1) - y >= s.q => b[y][1] = x
  <2> SUFFICES ASSUME NEW y \in (s.k - 1) + 1 .. s.r - 1, (s.i + 1) + (s.k - 1) - y >= s.q PROVE b[y][1] = x
    OBVIOUS
  <2>1. y \in 0 .. nmemb - 1 /\ (y = s.k \/ (y # s.k /\ y \in s.k + 1 .. s.r - 1 /\ s.i + s.k - y >= s.q))
    BY <1>2, <1>4, <1>5
  <2>2. y = s.k => s.i >= s.q
    BY <1>2
  <2>3. QED
    BY <1>4, <1>7, <1>9, <1>10, <2>1, <2>2
<1>16. /\ s.j + 2 <= s.i + 1 /\ s.q - 1 <= s.k - 1 /\ s.k - 1 <= s.r - 1
       /\ (s.i + 1) + (s.k - 1) <= s.q + s.r
  BY <1>2, <1>4
<1>17. RightInv'
  BY <1>1, <1>3, <1>4, <1>11, <1>12, <1>13, <1>14, <1>15, <1>16 DEF RightInv, AllSame, AllLess, AllMore
<1>18. QED
  BY <1>1, <1>8, <1>17 DEF QInv

(* The recursive calls: what is left to be sorted is on either side of the *)
(* elements equal to the pivot.                                            *)
LEMMA RightEnds ==
  ASSUME QInv, Right, ~(s.k > s.q)
  PROVE  QInv'
<1> DEFINE x == base[s.j + 1][1]
           n == Len(todo)
<1>1. /\ Frame /\ RightInv /\ phase = "right" /\ phase' = "call" /\ base' = base /\ s' = s
      /\ todo' = << <<s.l, s.j>>, <<s.i, s.r>> >> \o todo
  BY DEF QInv, Right
<1>2. /\ nmemb \in Nat /\ Sound(base) /\ Array(base) /\ s \in Indices
      /\ s.l \in Int /\ s.r \in Int /\ s.i \in Int /\ s.j \in Int
      /\ 0 <= s.l /\ s.l < s.r /\ s.r < nmemb
      /\ \A z \in s.l .. s.r : z \in 0 .. nmemb - 1 /\ base[z][1] \in Int
  BY <1>1, Running
<1>3. /\ s.l - 1 <= s.j /\ s.j + 2 <= s.i /\ s.i <= s.r + 1
      /\ x \in Int
      /\ \A y \in s.l .. s.j : base[y][1] <= x
      /\ \A y \in s.i .. s.r : base[y][1] >= x
      /\ \A y \in s.j + 1 .. s.i - 1 : base[y][1] = x
  <2>1. s.q \in Int /\ s.j + 1 <= s.q /\ s.q <= s.r
    BY <1>1, Running DEF RightInv
  <2>2. QED
    BY <1>1, RightFacts
<1>4. todo \in Seq(Int \X Int) /\ n \in Nat /\ RangesApart
  BY <1>1 DEF Frame
<1>5. /\ todo' \in Seq(Int \X Int) /\ Len(todo') = n + 2
      /\ todo'[1] = <<s.l, s.j>> /\ todo'[2] = <<s.i, s.r>>
      /\ \A a \in 3 .. n + 2 : a - 2 \in 1 .. n /\ todo'[a] = todo[a - 2]
  <2> DEFINE two == << <<s.l, s.j>>, <<s.i, s.r>> >>
  <2>1. two \in Seq(Int \X Int) /\ Len(two) = 2 /\ two[1] = <<s.l, s.j>> /\ two[2] = <<s.i, s.r>>
    BY <1>2
  <2> HIDE DEF two
  <2>2. todo' = two \o todo
    BY <1>1 DEF two
  <2>3. /\ two \o todo \in Seq(Int \X Int) /\ Len(two \o todo) = Len(two) + Len(todo)
        /\ \A a \in 1 .. Len(two) + Len(todo) :
             (two \o todo)[a] = IF a <= Len(two) THEN two[a] ELSE todo[a - Len(two)]
    BY <1>4, <2>1, ConcatProperties, Zenon
  <2>4. \A a \in 3 .. n + 2 : a - 2 \in 1 .. n /\ a \in 1 .. 2 + n /\ ~(a <= 2)
    BY <1>4
  <2>5. 1 \in 1 .. 2 + n /\ 2 \in 1 .. 2 + n
    BY <1>4
  <2>6. QED
    BY <1>4, <2>1, <2>2, <2>3, <2>4, <2>5, SMTT(30)
<1>6. nmemb' = nmemb
  BY <1>1 DEF nmemb
<1>7. RangesApart'
  <2>1. ASSUME NEW a \in 1 .. n + 2 PROVE 0 <= todo'[a][1] /\ todo'[a][2] < nmemb
    <3>1. a = 1 \/ a = 2 \/ a \in 3 .. n + 2
      BY <1>4
    <3>2. CASE a = 1 \/ a = 2
      BY <1>2, <1>3, <1>5, <3>2, SMTT(30)
    <3>3. CASE a \in 3 .. n + 2
      BY <1>4, <1>5, <3>3 DEF RangesApart
    <3>4. QED
      BY <3>1, <3>2, <3>3
  <2>2. ASSUME NEW a \in 1 .. n + 2, NEW c \in 1 .. n + 2, a < c PROVE todo'[a][2] < todo'[c][1]
    <3>1. (a = 1 \/ a = 2 \/ a \in 3 .. n + 2) /\ (c = 2 \/ c \in 3 .. n + 2) /\ (c = 2 => a = 1)
      BY <1>4, <2>2
    <3>2. CASE c = 2
      BY <1>2, <1>3, <1>5, <3>1, <3>2
    <3>3. CASE c \in 3 .. n + 2 /\ (a = 1 \/ a = 2)
      <4>1. s.r < todo[c - 2][1] /\ c - 2 \in 1 .. n /\ todo[c - 2][1] \in Int
        <5>1. \A d \in 1 .. n : todo[d][1] \in Int /\ s.r < todo[d][1]
          BY <1>1, <1>4 DEF RangesApart
        <5>2. c - 2 \in 1 .. n
          BY <1>5, <3>3
        <5>3. QED
          BY <5>1, <5>2
      <4>2. todo'[c][1] = todo[c - 2][1]
        BY <1>5, <3>3
      <4>3. todo'[a][2] \in Int /\ todo'[a][2] <= s.r
        <5>1. s.j <= s.r /\ s.r <= s.r
          BY <1>2, <1>3, SMTT(30)
        <5>2. CASE a = 1
          <6>1. todo'[a][2] = s.j
            BY <1>5, <5>2
          <6>2. QED
            BY <1>2, <5>1, <6>1
        <5>3. CASE a = 2
          <6>1. todo'[a][2] = s.r
            BY <1>5, <5>3
          <6>2. QED
            BY <1>2, <5>1, <6>1
        <5>4. QED
          BY <3>3, <5>2, <5>3
      <4>4. QED
        BY <1>2, <4>1, <4>2, <4>3
    <3>4. CASE c \in 3 .. n + 2 /\ a \in 3 .. n + 2
      <4>1. a - 2 \in 1 .. n /\ c - 2 \in 1 .. n /\ a - 2 < c - 2
        BY <1>5, <2>2, <3>4
      <4>2. QED
        BY <1>4, <1>5, <3>4, <4>1 DEF RangesApart
    <3>5. QED
      BY <3>1, <3>2, <3>3, <3>4
  <2>3. QED
    BY <1>1, <1>5, <1>6, <2>1, <2>2 DEF RangesApart
<1>8. \A y, z \in 0 .. nmemb - 1 : y < z => Together(y, z)' \/ base[y][1] <= base[z][1]
  <2> SUFFICES ASSUME NEW y \in 0 .. nmemb - 1, NEW z \in 0 .. nmemb - 1, y < z, ~Together(y, z)'
               PROVE  base[y][1] <= base[z][1]
    OBVIOUS
  <2>1. /\ ~(Within(y, s.l, s.j) /\ Within(z, s.l, s.j))
        /\ ~(Within(y, s.i, s.r) /\ Within(z, s.i, s.r))
    <3>1. 1 \in 1 .. Len(todo') /\ 2 \in 1 .. Len(todo')
      BY <1>4, <1>5
    <3>2. QED
      BY <1>5, <3>1 DEF Together
  <2>2. CASE Within(y, s.l, s.r) /\ Within(z, s.l, s.r)
    <3>1. y \in s.l .. s.j \/ y \in s.j + 1 .. s.i - 1
      BY <1>2, <1>3, <2>1, <2>2 DEF Within
    <3>2. z \in s.i .. s.r \/ z \in s.j + 1 .. s.i - 1
      BY <1>2, <1>3, <2>1, <2>2 DEF Within
    <3>3. base[y][1] <= x /\ base[z][1] >= x
      BY <1>3, <3>1, <3>2
    <3>4. base[y][1] \in Int /\ base[z][1] \in Int
      BY <1>2, Values
    <3>5. QED
      BY <1>3, <3>3, <3>4
  <2>3. CASE ~(Within(y, s.l, s.r) /\ Within(z, s.l, s.r))
    <3>1. ASSUME NEW a \in 1 .. n, Within(y, todo[a][1], todo[a][2]), Within(z, todo[a][1], todo[a][2])
          PROVE  FALSE
      <4>1. a + 2 \in 3 .. n + 2 /\ (a + 2) - 2 = a /\ a + 2 \in 1 .. Len(todo')
        BY <1>4, <1>5
      <4>2. todo'[a + 2] = todo[a]
        BY <1>5, <4>1
      <4>3. QED
        BY <3>1, <4>1, <4>2 DEF Together
    <3>2. ~Together(y, z)
      BY <2>3, <3>1 DEF Together
    <3>3. QED
      BY <1>2, <3>2 DEF Sound, Ordered
  <2>4. QED
    BY <2>2, <2>3
<1>9. Sound(base)'
  <2>1. Array(base)' /\ Complete(base)'
    BY <1>1, <1>2, <1>6 DEF Sound, Array, Complete
  <2>2. Ordered(base)'
    BY <1>1, <1>6, <1>8 DEF Ordered
  <2>3. QED
    BY <2>1, <2>2 DEF Sound
<1>10. Frame'
  BY <1>1, <1>2, <1>5, <1>6, <1>7, <1>9 DEF Frame
<1>11. QED
  BY <1>1, <1>10 DEF QInv

(* The next range: a random element goes to its end as the pivot. *)
LEMMA BeginKeeps ==
  ASSUME QInv, Begin
  PROVE  QInv'
<1> DEFINE l == Head(todo)[1]
           r == Head(todo)[2]
           n == Len(todo)
<1>1. Frame /\ phase = "call" /\ todo # <<>> /\ todo' = Tail(todo)
  BY DEF QInv, Begin
<1>2. /\ nmemb \in Nat /\ Sound(base) /\ Array(base) /\ s \in Indices
      /\ todo \in Seq(Int \X Int) /\ n \in Nat /\ RangesApart
  BY <1>1 DEF Frame, Sound
<1>3. /\ todo' \in Seq(Int \X Int) /\ Len(todo') = n - 1 /\ n >= 1
      /\ \A a \in 1 .. n - 1 : a + 1 \in 1 .. n /\ todo'[a] = todo[a + 1]
      /\ l = todo[1][1] /\ r = todo[1][2] /\ l \in Int /\ r \in Int /\ 1 \in 1 .. n
  BY <1>1, <1>2
<1> HIDE DEF l, r
<1>4. /\ 0 <= l /\ r < nmemb
      /\ \A a \in 1 .. n - 1 : /\ 0 <= todo'[a][1] /\ todo'[a][2] < nmemb /\ r < todo'[a][1]
                               /\ todo'[a][1] \in Int /\ todo'[a][2] \in Int
      /\ \A a, c \in 1 .. n - 1 : a < c => todo'[a][2] < todo'[c][1]
  <2>1. 0 <= l /\ r < nmemb
    BY <1>2, <1>3 DEF RangesApart
  <2>2. ASSUME NEW a \in 1 .. n - 1
        PROVE  /\ 0 <= todo'[a][1] /\ todo'[a][2] < nmemb /\ r < todo'[a][1]
               /\ todo'[a][1] \in Int /\ todo'[a][2] \in Int
    <3>1. a + 1 \in 1 .. n /\ todo'[a] = todo[a + 1] /\ 1 < a + 1
      BY <1>2, <1>3
    <3>2. todo[a + 1][1] \in Int /\ todo[a + 1][2] \in Int
      BY <1>2, <3>1, SMTT(30)
    <3>3. QED
      BY <1>2, <1>3, <3>1, <3>2 DEF RangesApart
  <2>3. ASSUME NEW a \in 1 .. n - 1, NEW c \in 1 .. n - 1, a < c PROVE todo'[a][2] < todo'[c][1]
    <3>1. a + 1 \in 1 .. n /\ c + 1 \in 1 .. n /\ a + 1 < c + 1
      BY <1>2, <2>3
    <3>2. todo'[a] = todo[a + 1] /\ todo'[c] = todo[c + 1]
      BY <1>3
    <3>3. QED
      BY <1>2, <3>1, <3>2 DEF RangesApart
  <2>4. QED
    BY <2>1, <2>2, <2>3
<1>5. ASSUME NEW y \in 0 .. nmemb - 1, NEW z \in 0 .. nmemb - 1, Together(y, z)
      PROVE  \/ Within(y, l, r) /\ Within(z, l, r)
             \/ \E a \in 1 .. n - 1 : Within(y, todo'[a][1], todo'[a][2]) /\ Within(z, todo'[a][1], todo'[a][2])
  <2>1. PICK a \in 1 .. n : Within(y, todo[a][1], todo[a][2]) /\ Within(z, todo[a][1], todo[a][2])
    BY <1>1, <1>5 DEF Together
  <2>2. CASE a = 1
    BY <1>3, <2>1, <2>2
  <2>3. CASE a # 1
    <3>1. a - 1 \in 1 .. n - 1 /\ (a - 1) + 1 = a
      BY <1>2, <2>3
    <3>2. todo'[a - 1] = todo[a]
      BY <1>3, <3>1
    <3>3. QED
      BY <2>1, <3>1, <3>2
  <2>4. QED
    BY <2>2, <2>3
<1>6. CASE r <= l
  <2>1. UNCHANGED <<base, s, phase>>
    BY <1>6 DEF Begin, l, r
  <2>2. nmemb' = nmemb
    BY <2>1 DEF nmemb
  <2>3. RangesApart'
    BY <1>1, <1>3, <1>4, <2>1, <2>2 DEF RangesApart
  <2>4. Ordered(base)'
    <3>1. \A y, z \in 0 .. nmemb - 1 : y < z => Together(y, z)' \/ base[y][1] <= base[z][1]
      <4> SUFFICES ASSUME NEW y \in 0 .. nmemb - 1, NEW z \in 0 .. nmemb - 1, y < z, ~Together(y, z)'
                   PROVE  base[y][1] <= base[z][1]
        OBVIOUS
      <4>1. ~(Within(y, l, r) /\ Within(z, l, r))
        BY <1>2, <1>3, <1>6 DEF Within
      <4>2. ~Together(y, z)
        BY <1>3, <1>5, <4>1 DEF Together
      <4>3. QED
        BY <1>2, <4>2 DEF Sound, Ordered
    <3>2. QED
      BY <2>1, <2>2, <3>1 DEF Ordered
  <2>5. Sound(base)'
    BY <1>2, <2>1, <2>2, <2>4 DEF Sound, Array, Complete
  <2>6. Frame'
    BY <1>1, <1>2, <1>3, <2>1, <2>2, <2>3, <2>5 DEF Frame
  <2>7. QED
    BY <1>1, <2>1, <2>6 DEF QInv
<1>7. CASE ~(r <= l)
  <2>1. /\ \E x \in l .. r - 1 : base' = exch(base, x, r)
        /\ s' = [l |-> l, r |-> r, i |-> l - 1, j |-> r, p |-> l - 1, q |-> r, k |-> 0]
        /\ phase' = "up"
    BY <1>7 DEF Begin, l, r
  <2>2. PICK x \in l .. r - 1 : base' = exch(base, x, r)
    BY <2>1
  <2>3. /\ s' \in Indices /\ s'.l = l /\ s'.r = r /\ s'.i = l - 1 /\ s'.j = r /\ s'.p = l - 1 /\ s'.q = r
    BY <1>3, <2>1 DEF Indices
  <2>4. x \in 0 .. nmemb - 1 /\ r \in 0 .. nmemb - 1 /\ l < r
    BY <1>2, <1>3, <1>4, <1>7
  <2> DEFINE b == exch(base, x, r)
             Other(z) == IF z = r THEN x ELSE IF z = x THEN r ELSE z
             D == 0 .. nmemb - 1
  <2>5. Array(b) /\ \A z \in D : b[z] = base[Other(z)]
    <3>1. nmemb \in Nat /\ Array(base)
      BY <1>2
    <3>2. QED
      BY <2>4, <3>1 DEF Array, exch
  <2> HIDE DEF b
  <2>6. nmemb' = nmemb
    <3>1. DOMAIN base' = DOMAIN base
      BY <1>2, <2>2, <2>5 DEF Array, b
    <3>2. QED
      BY <3>1 DEF nmemb
  <2>7. RangesApart'
    BY <1>3, <1>4, <2>1, <2>3, <2>4, <2>6 DEF RangesApart
  <2>8. \A z \in D : Other(z) \in D /\ Other(Other(z)) = z
    BY <2>4
  <2>9. Complete(b)
    <3> SUFFICES ASSUME NEW e \in D PROVE \E k \in D : b[k][2] = e
      BY DEF Complete
    <3>1. PICK k \in D : base[k][2] = e
      BY <1>2 DEF Sound, Complete
    <3>2. Other(k) \in D /\ b[Other(k)] = base[k]
      BY <2>5, <2>8
    <3>3. QED
      BY <3>1, <3>2
  <2>10. ASSUME NEW e \in D, NEW f \in D, e < f, ~Together(e, f)' PROVE b[e][1] <= b[f][1]
    <3>1. /\ ~(Within(e, l, r) /\ Within(f, l, r))
          /\ ~\E a \in 1 .. n - 1 : Within(e, todo'[a][1], todo'[a][2]) /\ Within(f, todo'[a][1], todo'[a][2])
      BY <1>3, <2>1, <2>3, <2>10 DEF Together
    <3>2. /\ \A z \in D : Within(z, l, r) => Within(Other(z), l, r)
          /\ \A z \in D : ~Within(z, l, r) => Other(z) = z
      <4>1. l <= x /\ x <= r /\ l <= r /\ r <= r
        BY <1>3, <2>4
      <4>2. Within(x, l, r) /\ Within(r, l, r)
        BY <4>1 DEF Within
      <4>3. QED
        BY <4>2
    <3>3. Other(e) < Other(f) /\ Other(e) \in D /\ Other(f) \in D
      BY <1>3, <2>4, <2>8, <2>10, <3>1, <3>2, SMTT(30) DEF Within
    <3>4. ~Together(Other(e), Other(f))
      <4>1. ~(Within(Other(e), l, r) /\ Within(Other(f), l, r))
        BY <2>8, <3>1, <3>2
      <4>2. ASSUME NEW a \in 1 .. n - 1, Within(Other(e), todo'[a][1], todo'[a][2]),
                   Within(Other(f), todo'[a][1], todo'[a][2])
            PROVE  FALSE
        <5>1. todo'[a][1] \in Int /\ r < todo'[a][1]
          BY <1>4
        <5>2. ~Within(Other(e), l, r) /\ ~Within(Other(f), l, r)
          <6> HIDE DEF Other
          <6>1. Other(e) \in Int /\ Other(f) \in Int /\ todo'[a][1] <= Other(e) /\ todo'[a][1] <= Other(f)
            BY <3>3, <4>2 DEF Within
          <6>2. ASSUME NEW c, NEW d, c \in Int, d \in Int, d <= c, r < d PROVE ~(c <= r)
            BY <1>3, <6>2, SMTT(30)
          <6>3. ~(Other(e) <= r) /\ ~(Other(f) <= r)
            BY <5>1, <6>1, <6>2
          <6>4. QED
            BY <6>3 DEF Within
        <5>3. Other(e) = e /\ Other(f) = f
          BY <3>2, <5>2
        <5>4. QED
          BY <3>1, <4>2, <5>3
      <4>3. QED
        BY <1>5, <3>3, <4>1, <4>2
    <3>5. base[Other(e)][1] <= base[Other(f)][1]
      BY <1>2, <3>3, <3>4 DEF Sound, Ordered
    <3>6. QED
      BY <2>5, <3>5
  <2>11. Sound(base)'
    <3>1. Array(base)' /\ Complete(base)'
      BY <2>2, <2>5, <2>6, <2>9 DEF Array, Complete, b
    <3>2. Ordered(base)'
      BY <2>2, <2>6, <2>10 DEF Ordered, b
    <3>3. QED
      BY <3>1, <3>2 DEF Sound
  <2>12. Frame'
    BY <1>2, <1>3, <2>1, <2>3, <2>6, <2>7, <2>11 DEF Frame
  <2>13. UpInv'
    <3>1. /\ l .. l - 1 = {} /\ r .. r - 1 = {} /\ l - 1 <= l - 1 /\ l - 1 < r /\ l < r /\ r <= r
      BY <1>3, <2>4, SMTT(30)
    <3>2. QED
      BY <2>3, <3>1 DEF UpInv, AllSame, AllLess, AllMore
  <2>14. QED
    BY <2>1, <2>12, <2>13 DEF QInv
<1>8. QED
  BY <1>6, <1>7

-----------------------------------------------------------------------------
(* bsearch.                                                                *)

(* A set of numbers has a least one. *)
LEMMA LeastExists ==
  ASSUME NEW T \in SUBSET Nat, T # {}
  PROVE  \E x \in T : \A y \in T : x <= y
<1>1. PICK x \in T : \A y \in T : ~(<<y, x>> \in OpToRel(<, Nat))
  BY NatLessThanWellFounded, WFMin, Zenon
<1>2. ASSUME NEW y \in T PROVE x <= y
  <2>1. x \in Nat /\ y \in Nat
    OBVIOUS
  <2>2. ~(<<y, x>>[1] < <<y, x>>[2])
    BY <1>1, <2>1, Zenon DEF OpToRel
  <2>3. QED
    BY <2>1, <2>2
<1>3. QED
  BY <1>2

(* One turn of the loop, and the function that bsearch defines by it. *)
Turn(g, x, w) ==
  LET n == w[1]
      b == w[2]
      m == n \div 2
  IN  IF n = 0 THEN -1
      ELSE IF x < base[b + m][1] THEN g[<<m, b>>]
      ELSE IF x > base[b + m][1] THEN g[<<n - m - 1, b + m + 1>>]
      ELSE b + m

Search(x) == CHOOSE g : g = [w \in Nat \X Nat |-> Turn(g, x, w)]

(* bsearch is the value of the recursive function Search. *)
LEMMA BsearchIs ==
  ASSUME NEW x PROVE bsearch(x) = Search(x)[<<nmemb, 0>>]
BY Zenon DEF bsearch, Search, Turn

(* A turn looks at what is found in less elements only. *)
LEMMA TurnLess ==
  ASSUME NEW x, NEW g, NEW h, NEW w \in Nat \X Nat,
         \A z \in Nat \X Nat : z[1] < w[1] => g[z] = h[z]
  PROVE  Turn(g, x, w) = Turn(h, x, w)
<1> DEFINE n == w[1]
           b == w[2]
           m == n \div 2
<1>1. n \in Nat /\ b \in Nat
  OBVIOUS
<1>2. CASE n # 0
  <2>1. m \in Nat /\ m < n /\ n - m - 1 \in Nat /\ n - m - 1 < n /\ b + m + 1 \in Nat
    BY <1>1, <1>2
  <2>2. g[<<m, b>>] = h[<<m, b>>] /\ g[<<n - m - 1, b + m + 1>>] = h[<<n - m - 1, b + m + 1>>]
    BY <1>1, <2>1
  <2>3. QED
    BY <1>2, <2>2 DEF Turn
<1>3. CASE n = 0
  BY <1>3 DEF Turn
<1>4. QED
  BY <1>2, <1>3

(* g is what the loop finds when at most n elements are left. *)
Finds(g, x, n) == \A w \in Nat \X Nat : w[1] <= n => g[w] = Turn(g, x, w)

(* Two functions that satisfy it agree. *)
LEMMA FindsOne ==
  ASSUME NEW x, NEW n \in Nat, NEW g, NEW h, Finds(g, x, n), Finds(h, x, n)
  PROVE  \A w \in Nat \X Nat : w[1] <= n => g[w] = h[w]
<1> DEFINE Differ(k) == \E w \in Nat \X Nat : w[1] = k /\ k <= n /\ g[w] # h[w]
           T == {k \in Nat : Differ(k)}
<1>1. ASSUME T # {} PROVE FALSE
  <2>1. T \in SUBSET Nat
    OBVIOUS
  <2> HIDE DEF T
  <2>2. PICK k \in T : \A y \in T : k <= y
    BY <1>1, <2>1, LeastExists
  <2>3. k \in Nat /\ Differ(k)
    BY <2>2 DEF T
  <2>4. PICK w \in Nat \X Nat : w[1] = k /\ k <= n /\ g[w] # h[w]
    BY <2>3
  <2>5. ASSUME NEW z \in Nat \X Nat, z[1] < w[1], g[z] # h[z] PROVE FALSE
    <3>1. z[1] \in Nat /\ z[1] <= n /\ z[1] < k
      BY <2>3, <2>4, <2>5
    <3>2. z[1] \in T
      BY <2>5, <3>1 DEF T
    <3>3. QED
      BY <2>2, <2>3, <3>1, <3>2
  <2>6. Turn(g, x, w) = Turn(h, x, w)
    BY <2>5, TurnLess
  <2>7. QED
    BY <2>4, <2>6 DEF Finds
<1>2. ASSUME NEW w \in Nat \X Nat, w[1] <= n, g[w] # h[w] PROVE FALSE
  <2>1. w[1] \in Nat /\ Differ(w[1])
    BY <1>2
  <2>2. w[1] \in T
    BY <2>1
  <2>3. QED
    BY <1>1, <2>2
<1>3. QED
  BY <1>2

(* There is one. *)
LEMMA FindsSome ==
  ASSUME NEW x, NEW n \in Nat
  PROVE  \E g : Finds(g, x, n)
<1> DEFINE T == {k \in Nat : ~\E g : Finds(g, x, k)}
<1>1. ASSUME T # {} PROVE FALSE
  <2>1. T \in SUBSET Nat
    OBVIOUS
  <2> HIDE DEF T
  <2>2. PICK k \in T : \A y \in T : k <= y
    BY <1>1, <2>1, LeastExists
  <2>3. k \in Nat /\ ~\E g : Finds(g, x, k)
    BY <2>2 DEF T
  <2>4. CASE k = 0
    <3> DEFINE h == [w \in Nat \X Nat |-> -1]
    <3>1. ASSUME NEW w \in Nat \X Nat, w[1] <= 0 PROVE h[w] = Turn(h, x, w)
      <4>1. w[1] = 0 /\ h[w] = -1
        BY <3>1
      <4>2. QED
        BY <4>1 DEF Turn
    <3>2. Finds(h, x, 0)
      BY <3>1 DEF Finds
    <3>3. QED
      BY <2>3, <2>4, <3>2
  <2>5. CASE k # 0
    <3>1. k - 1 \in Nat /\ ~(k <= k - 1)
      BY <2>3, <2>5
    <3>2. ~(k - 1 \in T)
      BY <2>2, <3>1
    <3>3. PICK g : Finds(g, x, k - 1)
      BY <3>1, <3>2 DEF T
    <3> DEFINE h == [w \in Nat \X Nat |-> IF w[1] <= k - 1 THEN g[w] ELSE Turn(g, x, w)]
    <3>4. ASSUME NEW w \in Nat \X Nat, w[1] <= k PROVE h[w] = Turn(h, x, w)
      <4>1. h[w] = Turn(g, x, w)
        BY <3>3 DEF Finds
      <4>2. ASSUME NEW z \in Nat \X Nat, z[1] < w[1] PROVE g[z] = h[z]
        <5>1. z[1] <= k - 1
          BY <2>3, <3>4, <4>2
        <5>2. QED
          BY <5>1
      <4> HIDE DEF h
      <4>3. Turn(g, x, w) = Turn(h, x, w)
        BY <4>2, TurnLess
      <4>4. QED
        BY <4>1, <4>3
    <3>5. Finds(h, x, k)
      BY <3>4 DEF Finds
    <3>6. QED
      BY <2>3, <3>5
  <2>6. QED
    BY <2>4, <2>5
<1>2. QED
  BY <1>1

(* The loop defines a function: it ends. *)
LEMMA SearchTurns ==
  ASSUME NEW x
  PROVE  \A w \in Nat \X Nat : Search(x)[w] = Turn(Search(x), x, w)
<1> DEFINE A(n) == CHOOSE g : Finds(g, x, n)
           f == [w \in Nat \X Nat |-> A(w[1])[w]]
<1>1. \A n \in Nat : Finds(A(n), x, n)
  BY FindsSome
<1> HIDE DEF A
<1>2. ASSUME NEW w \in Nat \X Nat PROVE f[w] = Turn(f, x, w)
  <2>1. w[1] \in Nat
    OBVIOUS
  <2>2. f[w] = Turn(A(w[1]), x, w)
    BY <1>1, <2>1 DEF Finds
  <2>3. ASSUME NEW z \in Nat \X Nat, z[1] < w[1] PROVE A(w[1])[z] = f[z]
    <3>1. z[1] \in Nat /\ z[1] <= z[1]
      OBVIOUS
    <3>2. Finds(A(w[1]), x, z[1])
      <4>1. \A y \in Nat \X Nat : y[1] <= z[1] => y[1] <= w[1]
        BY <2>1, <2>3, <3>1
      <4>2. QED
        BY <1>1, <2>1, <4>1 DEF Finds
    <3>3. Finds(A(z[1]), x, z[1])
      BY <1>1, <3>1
    <3>4. A(w[1])[z] = A(z[1])[z]
      BY <3>1, <3>2, <3>3, FindsOne
    <3>5. QED
      BY <3>4
  <2> HIDE DEF f
  <2>4. Turn(A(w[1]), x, w) = Turn(f, x, w)
    BY <2>3, TurnLess
  <2>5. QED
    BY <2>2, <2>4
<1>3. f = [w \in Nat \X Nat |-> Turn(f, x, w)]
  BY <1>2, Zenon
<1> HIDE DEF f
<1>4. Search(x) = [w \in Nat \X Nat |-> Turn(Search(x), x, w)]
  BY <1>3, Zenon DEF Search
<1>5. QED
  BY <1>4, Zenon

Sorted == \A a, c \in 0 .. nmemb - 1 : a <= c => base[a][1] <= base[c][1]

(* What bsearch finds in the w[1] elements from base[w[2]]. *)
FoundIn(x, w, k) ==
  LET R == w[2] .. w[2] + w[1] - 1
  IN  \/ k = -1 /\ \A a \in R : base[a][1] # x
      \/ k \in R /\ base[k][1] = x

(* In a sorted array every turn keeps the half in which the key is. *)
LEMMA SearchRight ==
  ASSUME nmemb \in Nat, Array(base), Sorted, NEW x \in Int,
         NEW u \in Nat \X Nat, u[1] + u[2] <= nmemb
  PROVE  FoundIn(x, u, Search(x)[u])
<1> DEFINE f == Search(x)
           W == {w \in Nat \X Nat : w[1] + w[2] <= nmemb}
           T == {k \in Nat : \E w \in W : w[1] = k /\ ~FoundIn(x, w, f[w])}
<1>1. \A w \in W : f[w] = Turn(f, x, w)
  BY SearchTurns
<1>2. \A a \in 0 .. nmemb - 1 : base[a][1] \in Int
  BY Values
<1>3. \A a, c \in 0 .. nmemb - 1 : a <= c => base[a][1] <= base[c][1]
  BY DEF Sorted
<1> HIDE DEF f
<1>4. ASSUME T # {} PROVE FALSE
  <2>1. T \in SUBSET Nat
    OBVIOUS
  <2> HIDE DEF T
  <2>2. PICK k \in T : \A y \in T : k <= y
    BY <1>4, <2>1, LeastExists
  <2>3. PICK w \in W : w[1] = k /\ k \in Nat /\ ~FoundIn(x, w, f[w])
    BY <2>2 DEF T
  <2>4. ASSUME NEW z \in W, z[1] < k PROVE FoundIn(x, z, f[z])
    <3>1. z[1] \in Nat /\ ~(k <= z[1])
      BY <2>3, <2>4
    <3>2. z[1] \notin T
      BY <2>2, <3>1
    <3>3. QED
      BY <3>1, <3>2 DEF T
  <2> DEFINE n == w[1]
             b == w[2]
             m == n \div 2
  <2>5. /\ n \in Nat /\ b \in Nat /\ n + b <= nmemb
        /\ f[w] = IF n = 0 THEN -1
                  ELSE IF x < base[b + m][1] THEN f[<<m, b>>]
                  ELSE IF x > base[b + m][1] THEN f[<<n - m - 1, b + m + 1>>]
                  ELSE b + m
    BY <1>1, <2>3 DEF Turn
  <2>6. CASE n = 0
    <3>1. f[w] = -1 /\ b .. b + n - 1 = {}
      BY <2>5, <2>6
    <3>2. QED
      BY <2>3, <3>1 DEF FoundIn
  <2>7. CASE n # 0
    <3>1. m \in Nat /\ m < n /\ n - m - 1 \in Nat /\ n - m - 1 < n /\ b + m + 1 \in Nat
      BY <2>5, <2>7
    <3>2. /\ b + m \in b .. b + n - 1
          /\ \A a \in b .. b + n - 1 : a \in 0 .. nmemb - 1
          /\ <<m, b>> \in W /\ <<n - m - 1, b + m + 1>> \in W
      BY <2>5, <3>1
    <3>3. base[b + m][1] \in Int
      BY <1>2, <3>2
    <3>4. CASE x < base[b + m][1]
      <4>1. f[w] = f[<<m, b>>] /\ FoundIn(x, <<m, b>>, f[<<m, b>>])
        BY <2>3, <2>4, <2>5, <2>7, <3>1, <3>2, <3>4
      <4>2. \A a \in b .. b + n - 1 : a \in b .. b + m - 1 \/ base[a][1] # x
        <5> SUFFICES ASSUME NEW a \in b .. b + n - 1, ~(a \in b .. b + m - 1) PROVE base[a][1] # x
          OBVIOUS
        <5>1. b + m <= a
          BY <2>5, <3>1
        <5>2. base[b + m][1] <= base[a][1] /\ base[a][1] \in Int
          BY <1>2, <1>3, <3>2, <5>1
        <5>3. QED
          BY <3>3, <3>4, <5>2
      <4>3. b .. b + m - 1 \subseteq b .. b + n - 1
        BY <2>5, <3>1
      <4>4. FoundIn(x, w, f[w])
        BY <4>1, <4>2, <4>3 DEF FoundIn
      <4>5. QED
        BY <2>3, <4>4
    <3>5. CASE x > base[b + m][1]
      <4> DEFINE z == <<n - m - 1, b + m + 1>>
      <4>1. f[w] = f[z] /\ FoundIn(x, z, f[z])
        <5>1. ~(x < base[b + m][1])
          BY <3>3, <3>5
        <5>2. z \in W /\ z[1] < k
          BY <2>3, <3>1, <3>2
        <5>3. QED
          BY <2>4, <2>5, <2>7, <3>5, <5>1, <5>2
      <4>2. \A a \in b .. b + n - 1 : a \in b + m + 1 .. b + n - 1 \/ base[a][1] # x
        <5> SUFFICES ASSUME NEW a \in b .. b + n - 1, ~(a \in b + m + 1 .. b + n - 1) PROVE base[a][1] # x
          OBVIOUS
        <5>1. a <= b + m
          BY <2>5, <3>1
        <5>2. base[a][1] <= base[b + m][1] /\ base[a][1] \in Int
          BY <1>2, <1>3, <3>2, <5>1
        <5>3. QED
          BY <3>3, <3>5, <5>2
      <4>3. b + m + 1 .. b + n - 1 \subseteq b .. b + n - 1
        BY <2>5, <3>1
      <4>4. (b + m + 1) + (n - m - 1) - 1 = b + n - 1
        BY <2>5, <3>1
      <4>5. FoundIn(x, w, f[w])
        <5>1. z[2] .. z[2] + z[1] - 1 = b + m + 1 .. b + n - 1
          BY <4>4
        <5> HIDE DEF z
        <5>2. QED
          BY <4>1, <4>2, <4>3, <5>1 DEF FoundIn
      <4>6. QED
        BY <2>3, <4>5
    <3>6. CASE ~(x < base[b + m][1]) /\ ~(x > base[b + m][1])
      <4>1. f[w] = b + m /\ base[b + m][1] = x
        BY <2>5, <2>7, <3>3, <3>6
      <4>2. FoundIn(x, w, f[w])
        BY <3>2, <4>1 DEF FoundIn
      <4>3. QED
        BY <2>3, <4>2
    <3>7. QED
      BY <3>4, <3>5, <3>6
  <2>8. QED
    BY <2>6, <2>7
<1>5. u \in W /\ u[1] \in Nat
  OBVIOUS
<1>6. ASSUME ~FoundIn(x, u, f[u]) PROVE FALSE
  <2>1. u[1] \in T
    BY <1>5, <1>6
  <2>2. QED
    BY <1>4, <2>1
<1>7. QED
  BY <1>6 DEF f

-----------------------------------------------------------------------------
(* The invariant is inductive, and implies what the run checks.            *)

(* Any array, not yet touched. *)
LEMMA InitQInv == QInit => QInv
<1> SUFFICES ASSUME QInit PROVE QInv
  OBVIOUS
<1>1. PICK given \in Numbers : base = [k \in DOMAIN given |-> <<given[k], k>>]
  BY DEF QInit
<1>2. PICK n \in 0 .. MaxMemb : given \in [0 .. n - 1 -> Elem]
  BY DEF Numbers
<1>3. n \in Nat /\ DOMAIN given = 0 .. n - 1 /\ DOMAIN base = 0 .. n - 1
  BY <1>1, <1>2, QsortAssumption
<1>4. nmemb = n
  <2>1. 0 \in Int /\ n - 1 \in Int
    BY <1>3
  <2>2. Cardinality(0 .. n - 1) = IF 0 > n - 1 THEN 0 ELSE n - 1 - 0 + 1
    BY <2>1, FS_Interval
  <2>3. QED
    BY <1>3, <2>2 DEF nmemb
<1>5. \A k \in 0 .. n - 1 : base[k] = <<given[k], k>>
  BY <1>1, <1>3
<1>6. Array(base)
  <2>1. \A k \in 0 .. n - 1 : base[k] \in Elem \X (0 .. n - 1)
    <3> DEFINE R == 0 .. n - 1
    <3>1. \A k \in R : given[k] \in Elem /\ base[k] = <<given[k], k>>
      BY <1>2, <1>5
    <3> HIDE DEF R
    <3>2. \A k \in R : base[k] \in Elem \X R
      BY <3>1
    <3>3. QED
      BY <3>2 DEF R
  <2>2. base = [k \in 0 .. n - 1 |-> base[k]]
    BY <1>1, <1>3
  <2>3. QED
    BY <1>4, <2>1, <2>2 DEF Array
<1>7. Complete(base)
  BY <1>4, <1>5 DEF Complete
<1>8. /\ phase = "call" /\ s \in Indices
      /\ todo = IF nmemb > 1 THEN << <<0, nmemb - 1>> >> ELSE <<>>
  BY DEF QInit, Indices
<1>9. CASE nmemb > 1
  <2>1. todo = << <<0, nmemb - 1>> >>
    BY <1>8, <1>9
  <2>2. /\ todo \in Seq(Int \X Int) /\ Len(todo) = 1 /\ todo[1][1] = 0 /\ todo[1][2] = nmemb - 1
    BY <1>3, <1>4, <2>1
  <2>3. \A a \in 1 .. Len(todo) : a = 1
    BY <2>2
  <2>4. RangesApart
    <3>1. ~(1 < 1) /\ 0 <= 0 /\ nmemb - 1 < nmemb
      BY <1>3, <1>4
    <3>2. QED
      BY <1>8, <2>2, <2>3, <3>1 DEF RangesApart
  <2>5. Ordered(base)
    <3>1. 1 \in 1 .. Len(todo)
      BY <2>2
    <3>2. \A y \in 0 .. nmemb - 1 : Within(y, todo[1][1], todo[1][2])
      BY <1>3, <1>4, <2>2 DEF Within
    <3>3. QED
      BY <3>1, <3>2 DEF Ordered, Together
  <2>6. QED
    BY <1>3, <1>4, <1>6, <1>7, <1>8, <2>2, <2>4, <2>5 DEF QInv, Frame, Sound
<1>10. CASE ~(nmemb > 1)
  <2>1. todo = <<>> /\ todo \in Seq(Int \X Int) /\ Len(todo) = 0 /\ 1 .. Len(todo) = {}
    BY <1>8, <1>10
  <2>2. RangesApart
    BY <1>8, <2>1 DEF RangesApart
  <2>3. \A y, z \in 0 .. nmemb - 1 : ~(y < z)
    BY <1>3, <1>4, <1>10
  <2>4. Ordered(base)
    BY <2>3 DEF Ordered
  <2>5. QED
    BY <1>3, <1>4, <1>6, <1>7, <1>8, <2>1, <2>2, <2>4 DEF QInv, Frame, Sound
<1>11. QED
  BY <1>9, <1>10

(* Every step of quicksort. *)
LEMMA NextQInv == QInv /\ [QNext]_qvars => QInv'
<1> SUFFICES ASSUME QInv, [QNext]_qvars PROVE QInv'
  OBVIOUS
<1>1. CASE Begin
  BY <1>1, BeginKeeps
<1>2. CASE Up
  BY <1>2, UpKeeps
<1>3. CASE Down
  BY <1>3, DownKeeps
<1>4. CASE Test
  BY <1>4, TestEnds, TestGoesOn
<1>5. CASE Pivot
  BY <1>5, PivotKeeps
<1>6. CASE Left
  BY <1>6, LeftMoves, LeftEnds
<1>7. CASE Right
  BY <1>7, RightMoves, RightEnds
<1>8. CASE UNCHANGED qvars
  BY <1>8 DEF qvars, QInv, Frame, nmemb, RangesApart, Sound, Array, Complete, Ordered, Together,
              UpInv, DownInv, TestInv, PlaceInv, LeftInv, RightInv, AllLess, AllMore, AllSame
<1>9. QED
  BY <1>1, <1>2, <1>3, <1>4, <1>5, <1>6, <1>7, <1>8 DEF QNext

(* No index leaves the range of the running call. *)
LEMMA InvInRange == QInv => InRange
<1> SUFFICES ASSUME QInv PROVE InRange
  OBVIOUS
<1>1. s \in Indices /\ s.l \in Int /\ s.r \in Int /\ s.i \in Int /\ s.j \in Int /\ s.p \in Int /\ s.q \in Int /\ s.k \in Int
  BY DEF QInv, Frame, Indices
<1>2. ASSUME phase = "up" PROVE s.i + 1 \in s.l .. s.r
  <2>1. s.l - 1 <= s.p /\ s.p <= s.i /\ s.i < s.j /\ s.j <= s.q /\ s.q <= s.r
    BY <1>2 DEF QInv, UpInv
  <2>2. QED
    BY <1>1, <2>1
<1>3. ASSUME phase = "down" PROVE s.j - 1 \in s.l .. s.r
  <2>1. s.l < s.j /\ s.j <= s.q /\ s.q <= s.r
    BY <1>3 DEF QInv, DownInv
  <2>2. QED
    BY <1>1, <2>1
<1>4. ASSUME phase = "left", s.k < s.p PROVE {s.k, s.j} \subseteq s.l .. s.r
  <2>1. /\ s.l - 1 <= s.p /\ s.p <= s.i - 2 /\ s.i - 1 <= s.q /\ s.q <= s.r
        /\ s.l <= s.k /\ s.k <= s.p + 1 /\ s.j + s.k = s.i - 2 + s.l
    BY <1>4 DEF QInv, LeftInv
  <2>2. s.k \in s.l .. s.r /\ s.j \in s.l .. s.r
    BY <1>1, <1>4, <2>1
  <2>3. QED
    BY <2>2
<1>5. ASSUME phase = "right", s.k > s.q PROVE {s.k, s.i} \subseteq s.l .. s.r
  <2>1. /\ s.l - 1 <= s.j /\ s.j + 2 <= s.i /\ s.j + 1 <= s.q /\ s.q <= s.r
        /\ s.q - 1 <= s.k /\ s.k <= s.r - 1 /\ s.i + s.k <= s.q + s.r
    BY <1>5 DEF QInv, RightInv
  <2>2. s.k \in s.l .. s.r /\ s.i \in s.l .. s.r
    BY <1>1, <1>5, <2>1
  <2>3. QED
    BY <2>2
<1>6. QED
  BY <1>2, <1>3, <1>4, <1>5 DEF InRange

(* Nothing is left to be sorted: everything is in order. *)
LEMMA InvSorted == QInv /\ Done => Sorted
<1> SUFFICES ASSUME QInv, Done, NEW a \in 0 .. nmemb - 1, NEW c \in 0 .. nmemb - 1, a <= c
             PROVE  base[a][1] <= base[c][1]
  BY DEF Sorted
<1>1. nmemb \in Nat /\ Array(base) /\ Ordered(base)
  BY DEF QInv, Frame, Sound
<1>2. base[a][1] \in Int
  BY <1>1, Values
<1>3. ~Together(a, c)
  <2>1. phase = "call" /\ Len(todo) = 0
    BY DEF Done
  <2>2. 1 .. Len(todo) = {}
    BY <2>1
  <2>3. QED
    BY <2>1, <2>2 DEF Together
<1>4. CASE a = c
  BY <1>2, <1>4
<1>5. CASE a # c
  <2>1. a < c
    BY <1>5
  <2>2. QED
    BY <1>1, <1>3, <2>1 DEF Ordered
<1>6. QED
  BY <1>4, <1>5

(* With nothing left to sort the array is in order. *)
LEMMA InvSortedAtEnd == QInv => SortedAtEnd
<1> SUFFICES ASSUME QInv, Done
             PROVE  /\ \A a, c \in DOMAIN base : a <= c => compar(base[a], base[c]) <= 0
                    /\ {base[k][2] : k \in DOMAIN base} = DOMAIN base
  BY DEF SortedAtEnd
<1>1. nmemb \in Nat /\ Array(base) /\ Complete(base) /\ Sorted
  BY InvSorted DEF QInv, Frame, Sound
<1>2. DOMAIN base = 0 .. nmemb - 1
  BY <1>1 DEF Array
<1>3. ASSUME NEW a \in 0 .. nmemb - 1, NEW c \in 0 .. nmemb - 1, a <= c PROVE compar(base[a], base[c]) <= 0
  <2>1. base[a][1] \in Int /\ base[c][1] \in Int
    BY <1>1, Values
  <2>2. base[a][1] <= base[c][1]
    BY <1>1, <1>3 DEF Sorted
  <2>3. QED
    BY <2>1, <2>2 DEF compar
<1>4. \A k \in 0 .. nmemb - 1 : base[k][2] \in 0 .. nmemb - 1
  BY <1>1 DEF Array
<1>5. {base[k][2] : k \in 0 .. nmemb - 1} = 0 .. nmemb - 1
  BY <1>1, <1>4 DEF Complete
<1>6. QED
  BY <1>2, <1>3, <1>5

(* In an array in order bsearch finds the key that is there. *)
LEMMA InvSearchFinds == QInv => SearchFinds
<1> SUFFICES ASSUME QInv, Done, NEW x \in Elem
             PROVE  IF \E k \in DOMAIN base : base[k][1] = x
                    THEN bsearch(x) \in DOMAIN base /\ base[bsearch(x)][1] = x
                    ELSE bsearch(x) = -1
  BY DEF SearchFinds
<1>1. nmemb \in Nat /\ Array(base) /\ Sorted /\ x \in Int
  BY InvSorted, QsortAssumption DEF QInv, Frame, Sound
<1>2. DOMAIN base = 0 .. nmemb - 1
  BY <1>1 DEF Array
<1> DEFINE u == <<nmemb, 0>>
           k == Search(x)[u]
<1>3. u \in Nat \X Nat /\ u[1] + u[2] <= nmemb
  BY <1>1
<1>4. FoundIn(x, u, k)
  BY <1>1, <1>3, SearchRight
<1>5. bsearch(x) = k
  BY BsearchIs
<1>6. u[2] .. u[2] + u[1] - 1 = 0 .. nmemb - 1
  BY <1>1
<1> HIDE DEF k, u
<1>7. \/ k = -1 /\ \A a \in 0 .. nmemb - 1 : base[a][1] # x
      \/ k \in 0 .. nmemb - 1 /\ base[k][1] = x
  <2> DEFINE R == u[2] .. u[2] + u[1] - 1
  <2>1. \/ k = -1 /\ \A a \in R : base[a][1] # x
        \/ k \in R /\ base[k][1] = x
    BY <1>4, Zenon DEF FoundIn
  <2>2. R = 0 .. nmemb - 1
    BY <1>6
  <2> HIDE DEF R
  <2>3. QED
    BY <2>1, <2>2
<1>8. QED
  BY <1>2, <1>5, <1>7

(* qsort stays in the array, sorts it whatever elements are chosen as      *)
(* pivots and keeps every element; bsearch finds in the result what is     *)
(* there: for arrays of any length.                                        *)
THEOREM SortIsRight == QSpec => []SortRight
<1>1. QInv => SortRight
  BY InvInRange, InvSortedAtEnd, InvSearchFinds DEF SortRight
<1>2. QED
  BY <1>1, InitQInv, NextQInv, PTL DEF QSpec

-----------------------------------------------------------------------------
(* The environment.                                                        *)

(* No two entries of an array have the same name. *)
OneEach(e) ==
  /\ e \in Seq(Entries)
  /\ \A i, j \in 1 .. Len(e) : e[i].name = e[j].name => i = j

EnvInv ==
  /\ OneEach(environ) /\ where \in {"orig", "none", "first", "later"}
  /\ where = "orig" => origenv \in {"none", "orig"}

(* What the array e says of n. *)
IndexOf(e, n) ==
  LET hits == {i \in DOMAIN e : e[i].name = n}
  IN  IF hits = {} THEN 0 ELSE CHOOSE i \in hits : \A j \in hits : i <= j

ValueOf(e, n) == IF IndexOf(e, n) > 0 THEN e[IndexOf(e, n)].val ELSE ENone

(* Absent(e, n): n has no entry; Present(e, n, i): it is entry i. *)
Absent(e, n) == \A i \in 1 .. Len(e) : e[i].name # n
Present(e, n, i) == i \in 1 .. Len(e) /\ e[i].name = n

(* What the array says of a name that it does not have, or has at i. *)
LEMMA ValueIs ==
  ASSUME NEW e, OneEach(e), NEW n
  PROVE  /\ Absent(e, n) => IndexOf(e, n) = 0 /\ ValueOf(e, n) = ENone
         /\ \A i : Present(e, n, i) => IndexOf(e, n) = i /\ ValueOf(e, n) = e[i].val
<1> DEFINE hits == {i \in DOMAIN e : e[i].name = n}
<1>0. DOMAIN e = 1 .. Len(e) /\ e \in Seq(Entries) /\ Len(e) \in Nat
  BY DEF OneEach
<1>1. ASSUME Absent(e, n) PROVE IndexOf(e, n) = 0 /\ ValueOf(e, n) = ENone
  <2>1. hits = {}
    BY <1>0, <1>1 DEF Absent
  <2>2. IndexOf(e, n) = 0
    BY <2>1 DEF IndexOf
  <2>3. QED
    BY <2>2 DEF ValueOf
<1>2. ASSUME NEW i, Present(e, n, i) PROVE IndexOf(e, n) = i /\ ValueOf(e, n) = e[i].val
  <2>1. i \in hits /\ \A j \in hits : j = i
    BY <1>0, <1>2 DEF Present, OneEach
  <2>2. \A j \in hits : i <= j
    BY <1>0, <1>2, <2>1 DEF Present
  <2>3. IndexOf(e, n) = CHOOSE j \in hits : \A k \in hits : j <= k
    BY <2>1 DEF IndexOf
  <2> HIDE DEF hits
  <2>4. (CHOOSE j \in hits : \A k \in hits : j <= k) \in hits
    BY <2>1, <2>2, Zenon
  <2>5. IndexOf(e, n) = i
    BY <2>1, <2>3, <2>4
  <2>6. i > 0
    BY <1>0, <1>2 DEF Present
  <2>7. QED
    BY <2>5, <2>6 DEF ValueOf
<1>3. QED
  BY <1>1, <1>2

(* A name is in the array or it is not. *)
LEMMA PresentOrAbsent ==
  ASSUME NEW e, NEW n
  PROVE  Absent(e, n) \/ \E i : Present(e, n, i)
BY DEF Absent, Present

(* An array after which n has the value w, and all others have theirs. *)
Says(e, f, n, w) == \A m \in Name : ValueOf(f, m) = IF m = n THEN w ELSE ValueOf(e, m)

(* An entry is added. *)
LEMMA AppendSays ==
  ASSUME NEW e, OneEach(e), NEW n \in Name, NEW w \in EValue, Absent(e, n)
  PROVE  /\ OneEach(Append(e, [name |-> n, val |-> w]))
         /\ Says(e, Append(e, [name |-> n, val |-> w]), n, w)
<1> DEFINE x == [name |-> n, val |-> w]
           f == Append(e, x)
<1>1. x \in Entries /\ x.name = n /\ x.val = w
  BY DEF Entries
<1> HIDE DEF x
<1>2. e \in Seq(Entries) /\ Len(e) \in Nat
  BY DEF OneEach
<1>3. f \in Seq(Entries) /\ Len(f) = Len(e) + 1 /\ f[Len(e) + 1] = x /\ \A i \in 1 .. Len(e) : f[i] = e[i]
  BY <1>1, <1>2, AppendProperties
<1> HIDE DEF f
<1>4. OneEach(f)
  <2> SUFFICES ASSUME NEW i \in 1 .. Len(f), NEW j \in 1 .. Len(f), f[i].name = f[j].name PROVE i = j
    BY <1>3 DEF OneEach
  <2>1. /\ i \in 1 .. Len(e) \/ i = Len(e) + 1
        /\ j \in 1 .. Len(e) \/ j = Len(e) + 1
    BY <1>2, <1>3
  <2>2. QED
    BY <1>1, <1>3, <2>1 DEF OneEach, Absent
<1>5. Says(e, f, n, w)
  <2> SUFFICES ASSUME NEW m \in Name PROVE ValueOf(f, m) = IF m = n THEN w ELSE ValueOf(e, m)
    BY DEF Says
  <2>1. CASE m = n
    <3>1. Present(f, n, Len(e) + 1)
      BY <1>1, <1>2, <1>3 DEF Present
    <3>2. QED
      BY <1>1, <1>3, <1>4, <2>1, <3>1, ValueIs
  <2>2. CASE m # n /\ Absent(e, m)
    <3>1. \A i \in 1 .. Len(f) : i \in 1 .. Len(e) \/ i = Len(e) + 1
      BY <1>2, <1>3
    <3>2. Absent(f, m)
      BY <1>1, <1>3, <2>2, <3>1 DEF Absent
    <3>3. QED
      BY <1>4, <2>2, <3>2, ValueIs
  <2>3. ASSUME m # n, NEW i, Present(e, m, i) PROVE ValueOf(f, m) = ValueOf(e, m)
    <3>1. Present(f, m, i) /\ f[i] = e[i]
      BY <1>2, <1>3, <2>3 DEF Present
    <3>2. QED
      BY <1>4, <2>3, <3>1, ValueIs
  <2>4. QED
    BY <2>1, <2>2, <2>3, PresentOrAbsent
<1>6. QED
  BY <1>4, <1>5 DEF f, x

(* An entry is written over. *)
LEMMA SetSays ==
  ASSUME NEW e, OneEach(e), NEW n \in Name, NEW w \in EValue, NEW k, Present(e, n, k)
  PROVE  OneEach([e EXCEPT ![k].val = w]) /\ Says(e, [e EXCEPT ![k].val = w], n, w)
<1> DEFINE x == [e[k] EXCEPT !.val = w]
           f == [e EXCEPT ![k].val = w]
<1>1. e \in Seq(Entries) /\ Len(e) \in Nat /\ k \in 1 .. Len(e) /\ e[k] \in Entries /\ e[k].name = n
  BY ElementOfSeq DEF OneEach, Present
<1>2. x \in Entries /\ x.name = n /\ x.val = w
  BY <1>1 DEF Entries
<1>3. f = [e EXCEPT ![k] = x]
  OBVIOUS
<1> HIDE DEF f, x
<1>4. f \in Seq(Entries) /\ Len(f) = Len(e) /\ \A i \in 1 .. Len(e) : f[i] = IF i = k THEN x ELSE e[i]
  BY <1>1, <1>2, <1>3, ExceptSeq
<1>5. \A i \in 1 .. Len(e) : f[i].name = e[i].name
  BY <1>1, <1>2, <1>4
<1>6. OneEach(f)
  BY <1>4, <1>5 DEF OneEach
<1>7. Says(e, f, n, w)
  <2> SUFFICES ASSUME NEW m \in Name PROVE ValueOf(f, m) = IF m = n THEN w ELSE ValueOf(e, m)
    BY DEF Says
  <2>1. CASE m = n
    <3>1. Present(f, n, k) /\ f[k] = x
      BY <1>1, <1>2, <1>4 DEF Present
    <3>2. QED
      BY <1>2, <1>6, <2>1, <3>1, ValueIs
  <2>2. CASE m # n /\ Absent(e, m)
    <3>1. Absent(f, m)
      BY <1>4, <1>5, <2>2 DEF Absent
    <3>2. QED
      BY <1>6, <2>2, <3>1, ValueIs
  <2>3. ASSUME m # n, NEW i, Present(e, m, i) PROVE ValueOf(f, m) = ValueOf(e, m)
    <3>1. Present(f, m, i) /\ f[i] = e[i]
      BY <1>1, <1>4, <2>3 DEF Present
    <3>2. QED
      BY <1>6, <2>3, <3>1, ValueIs
  <2>4. QED
    BY <2>1, <2>2, <2>3, PresentOrAbsent
<1>8. QED
  BY <1>6, <1>7 DEF f

(* Entry k is taken out. *)
Removed(e, k) == SubSeq(e, 1, k - 1) \o SubSeq(e, k + 1, Len(e))

(* The array without its entry k. *)
LEMMA RemovedIs ==
  ASSUME NEW e \in Seq(Entries), NEW k \in 1 .. Len(e)
  PROVE  /\ Removed(e, k) \in Seq(Entries) /\ Len(Removed(e, k)) = Len(e) - 1
         /\ \A i \in 1 .. Len(e) - 1 : Removed(e, k)[i] = e[IF i < k THEN i ELSE i + 1]
<1>0. Len(e) \in Nat /\ k \in Nat /\ k >= 1 /\ k <= Len(e)
  OBVIOUS
<1>a. \A i \in 1 .. Len(e) : e[i] \in Entries
  BY ElementOfSeq
<1> DEFINE a == SubSeq(e, 1, k - 1)
           b == SubSeq(e, k + 1, Len(e))
<1>1. a \in Seq(Entries) /\ Len(a) = k - 1 /\ \A i \in 1 .. k - 1 : a[i] = e[i]
  <2>1. /\ a \in Seq(Entries)
        /\ Len(a) = IF 1 <= k - 1 THEN (k - 1) - 1 + 1 ELSE 0
        /\ \A i \in 1 .. (k - 1) - 1 + 1 : a[i] = e[1 + i - 1]
    <3>1. \A i \in 1 .. k - 1 : e[i] \in Entries
      BY <1>0, <1>a
    <3>2. 1 \in Int /\ k - 1 \in Int
      BY <1>0
    <3>3. QED
      BY <3>1, <3>2, SubSeqProperties
  <2>2. QED
    BY <1>0, <2>1
<1>2. b \in Seq(Entries) /\ Len(b) = Len(e) - k /\ \A i \in 1 .. Len(e) - k : b[i] = e[k + i]
  <2>1. /\ b \in Seq(Entries)
        /\ Len(b) = IF k + 1 <= Len(e) THEN Len(e) - (k + 1) + 1 ELSE 0
        /\ \A i \in 1 .. Len(e) - (k + 1) + 1 : b[i] = e[(k + 1) + i - 1]
    <3>1. \A i \in k + 1 .. Len(e) : e[i] \in Entries
      BY <1>0, <1>a
    <3>2. k + 1 \in Int /\ Len(e) \in Int
      BY <1>0
    <3>3. QED
      BY <3>1, <3>2, SubSeqProperties
  <2>2. QED
    BY <1>0, <2>1
<1> HIDE DEF a, b
<1>3. a \o b \in Seq(Entries) /\ Len(a \o b) = Len(a) + Len(b)
      /\ \A i \in 1 .. Len(a) + Len(b) : (a \o b)[i] = IF i <= Len(a) THEN a[i] ELSE b[i - Len(a)]
  BY <1>1, <1>2, ConcatProperties
<1>4. Len(a) + Len(b) = Len(e) - 1
  BY <1>0, <1>1, <1>2
<1>5. \A i \in 1 .. Len(e) - 1 : (a \o b)[i] = e[IF i < k THEN i ELSE i + 1]
  <2> SUFFICES ASSUME NEW i \in 1 .. Len(e) - 1 PROVE (a \o b)[i] = e[IF i < k THEN i ELSE i + 1]
    OBVIOUS
  <2>1. CASE i < k
    <3>1. i \in 1 .. k - 1 /\ i <= Len(a) /\ i \in 1 .. Len(a) + Len(b)
      BY <1>0, <1>1, <1>4, <2>1
    <3>2. QED
      BY <1>1, <1>3, <2>1, <3>1
  <2>2. CASE ~(i < k)
    <3>1. i - (k - 1) \in 1 .. Len(e) - k /\ ~(i <= Len(a)) /\ k + (i - (k - 1)) = i + 1 /\ i \in 1 .. Len(a) + Len(b)
      BY <1>0, <1>1, <1>4, <2>2
    <3>2. QED
      BY <1>1, <1>2, <1>3, <2>2, <3>1
  <2>3. QED
    BY <2>1, <2>2
<1>6. QED
  BY <1>3, <1>4, <1>5 DEF Removed, a, b

(* unsetenv takes away one name and keeps the others. *)
LEMMA RemoveSays ==
  ASSUME NEW e, OneEach(e), NEW n \in Name, NEW k, Present(e, n, k)
  PROVE  OneEach(Removed(e, k)) /\ Absent(Removed(e, k), n) /\ Says(e, Removed(e, k), n, ENone)
<1> DEFINE f == Removed(e, k)
           at(i) == IF i < k THEN i ELSE i + 1
<1>1. e \in Seq(Entries) /\ Len(e) \in Nat /\ k \in 1 .. Len(e) /\ e[k].name = n
  BY DEF OneEach, Present
<1>2. f \in Seq(Entries) /\ Len(f) = Len(e) - 1 /\ \A i \in 1 .. Len(e) - 1 : f[i] = e[at(i)]
  BY <1>1, RemovedIs
<1> HIDE DEF f
<1>3. \A i \in 1 .. Len(e) - 1 : at(i) \in 1 .. Len(e) /\ at(i) # k
  BY <1>1
<1>4. \A i, j \in 1 .. Len(e) - 1 : at(i) = at(j) => i = j
  BY <1>1
<1>5. OneEach(f)
  <2> SUFFICES ASSUME NEW i \in 1 .. Len(e) - 1, NEW j \in 1 .. Len(e) - 1, f[i].name = f[j].name PROVE i = j
    BY <1>2 DEF OneEach
  <2> HIDE DEF at
  <2>1. at(i) = at(j)
    BY <1>2, <1>3 DEF OneEach
  <2>2. QED
    BY <1>4, <2>1
<1>6. Absent(f, n)
  <2> SUFFICES ASSUME NEW i \in 1 .. Len(e) - 1, f[i].name = n PROVE FALSE
    BY <1>2 DEF Absent
  <2> HIDE DEF at
  <2>1. QED
    BY <1>1, <1>2, <1>3 DEF OneEach
<1>7. Says(e, f, n, ENone)
  <2> SUFFICES ASSUME NEW m \in Name PROVE ValueOf(f, m) = IF m = n THEN ENone ELSE ValueOf(e, m)
    BY DEF Says
  <2>1. CASE m = n
    BY <1>5, <1>6, <2>1, ValueIs
  <2>2. CASE m # n /\ Absent(e, m)
    <3>1. Absent(f, m)
      <4> HIDE DEF at
      <4>1. QED
        BY <1>2, <1>3, <2>2 DEF Absent
    <3>2. QED
      BY <1>5, <2>2, <3>1, ValueIs
  <2>3. ASSUME m # n, NEW i, Present(e, m, i) PROVE ValueOf(f, m) = ValueOf(e, m)
    <3> DEFINE j == IF i < k THEN i ELSE i - 1
    <3>1. i \in 1 .. Len(e) /\ i # k
      BY <1>1, <2>3 DEF Present
    <3>2. j \in 1 .. Len(e) - 1 /\ at(j) = i
      BY <1>1, <3>1
    <3> HIDE DEF j, at
    <3>3. Present(f, m, j) /\ f[j] = e[i]
      BY <1>2, <2>3, <3>2 DEF Present
    <3>4. QED
      BY <1>5, <2>3, <3>3, ValueIs
  <2>4. QED
    BY <2>1, <2>2, <2>3, PresentOrAbsent
<1>8. QED
  BY <1>5, <1>6, <1>7 DEF f

(* The definitions of the specification in these terms. *)
LEMMA IndexIs ==
  \A n : /\ Index(n) = IndexOf(environ, n) /\ Index(n)' = IndexOf(environ', n)
         /\ \A i : Without(i) = Removed(environ, i)
BY DEF Index, IndexOf, Without, Removed

(* The program's own array. *)
LEMMA EnvInitInv == EInit => EnvInv
<1> SUFFICES ASSUME EInit PROVE EnvInv
  OBVIOUS
<1>1. PICK n \in 0 .. 2 : environ \in [1 .. n -> Entries]
  BY DEF EInit
<1>2. environ \in Seq(Entries) /\ DOMAIN environ = 1 .. Len(environ)
  <2>1. n \in Nat
    OBVIOUS
  <2>2. environ \in Seq(Entries)
    BY <1>1, <2>1, IsASeq
  <2>3. QED
    BY <2>2
<1>3. QED
  BY <1>2 DEF EInit, EnvInv, OneEach

(* What putenv does to the array e: it grows, or there is no memory. *)
LEMMA GrowKeeps ==
  ASSUME NEW e, OneEach(e), NEW n \in Name, NEW w \in EValue, Absent(e, n), Grow(e, [name |-> n, val |-> w])
  PROVE  OneEach(environ') /\ (Says(e, environ', n, w) \/ environ' = e)
BY AppendSays DEF Grow

(* Each call changes at most the variable that it names. *)
EnvStep ==
  \/ UNCHANGED answer /\ \E n \in Name : Says(environ, environ', n, ENone)
  \/ UNCHANGED answer /\ \E n \in Name, w \in EValue : Says(environ, environ', n, w)
  \/ UNCHANGED answer /\ \A m \in Name : ValueOf(environ', m) = ENone
  \/ \E n \in Name : answer' = ValueOf(environ, n) /\ UNCHANGED environ
  \/ UNCHANGED <<answer, environ>>

(* putenv is a step of the dictionary. *)
LEMMA PutEnvStep ==
  ASSUME EnvInv, NEW n \in Name, NEW w \in EValue, PutEnv(n, w)
  PROVE  OneEach(environ') /\ EnvStep
<1>0. OneEach(environ) /\ UNCHANGED answer /\ Index(n) = IndexOf(environ, n)
  BY IndexIs DEF EnvInv, PutEnv
<1>1. ASSUME NEW k, Present(environ, n, k) PROVE OneEach(environ') /\ EnvStep
  <2>1. Index(n) = k /\ k > 0
    <3>1. Index(n) = k
      BY <1>0, <1>1, ValueIs
    <3>2. k > 0
      BY <1>0, <1>1 DEF Present, OneEach
    <3>3. QED
      BY <3>1, <3>2
  <2>2. environ' = [environ EXCEPT ![k].val = w]
    BY <2>1 DEF PutEnv
  <2>3. OneEach(environ') /\ Says(environ, environ', n, w)
    BY <1>0, <1>1, <2>2, SetSays
  <2>4. QED
    BY <1>0, <2>3 DEF EnvStep
<1>2. ASSUME Absent(environ, n) PROVE OneEach(environ') /\ EnvStep
  <2>1. Index(n) = 0
    BY <1>0, <1>2, ValueIs
  <2>2. Grow(environ, [name |-> n, val |-> w])
    BY <2>1 DEF PutEnv
  <2>3. OneEach(environ') /\ (Says(environ, environ', n, w) \/ environ' = environ)
    BY <1>0, <1>2, <2>2, GrowKeeps
  <2>4. QED
    BY <1>0, <2>3 DEF EnvStep
<1>3. QED
  BY <1>1, <1>2, PresentOrAbsent

(* So is unsetenv. *)
LEMMA UnsetEnvStep ==
  ASSUME EnvInv, NEW n \in Name, UnsetEnv(n)
  PROVE  OneEach(environ') /\ EnvStep
<1>0. OneEach(environ) /\ UNCHANGED answer /\ Index(n) = IndexOf(environ, n)
  BY IndexIs DEF EnvInv, UnsetEnv
<1>1. ASSUME NEW k, Present(environ, n, k) PROVE OneEach(environ') /\ EnvStep
  <2>1. Index(n) = k
    BY <1>0, <1>1, ValueIs
  <2>2. k > 0
    BY <1>0, <1>1 DEF Present, OneEach
  <2>3. environ' = Removed(environ, k)
    BY <2>1, <2>2, IndexIs DEF UnsetEnv
  <2>4. OneEach(environ') /\ Says(environ, environ', n, ENone)
    BY <1>0, <1>1, <2>3, RemoveSays
  <2>5. QED
    BY <1>0, <2>4 DEF EnvStep
<1>2. ASSUME Absent(environ, n) PROVE OneEach(environ') /\ EnvStep
  <2>1. Index(n) = 0
    BY <1>0, <1>2, ValueIs
  <2>2. environ' = environ
    BY <2>1 DEF UnsetEnv
  <2>3. QED
    BY <1>0, <2>2 DEF EnvStep
<1>3. QED
  BY <1>1, <1>2, PresentOrAbsent

(* So is setenv. *)
LEMMA SetEnvStep ==
  ASSUME EnvInv, NEW n \in Name, NEW w \in EValue, NEW o \in BOOLEAN, SetEnv(n, w, o)
  PROVE  OneEach(environ') /\ EnvStep
<1>0. OneEach(environ) /\ UNCHANGED answer /\ Index(n) = IndexOf(environ, n)
  BY IndexIs DEF EnvInv, SetEnv
<1> DEFINE x == [name |-> n, val |-> w]
<1>1. ASSUME NEW k, Present(environ, n, k) PROVE OneEach(environ') /\ EnvStep
  <2>1. Index(n) = k
    BY <1>0, <1>1, ValueIs
  <2>2. k > 0
    BY <1>0, <1>1 DEF Present, OneEach
  <2>3. CASE ~o
    <3>1. environ' = environ
      BY <2>1, <2>2, <2>3 DEF SetEnv
    <3>2. QED
      BY <1>0, <3>1 DEF EnvStep
  <2>4. CASE o
    <3> DEFINE e == Removed(environ, k)
    <3>1. Grow(e, x)
      BY <2>1, <2>2, <2>4, IndexIs DEF SetEnv
    <3>2. OneEach(e) /\ Absent(e, n) /\ Says(environ, e, n, ENone)
      BY <1>0, <1>1, RemoveSays
    <3> HIDE DEF e
    <3>3. OneEach(environ') /\ (Says(e, environ', n, w) \/ environ' = e)
      BY <3>1, <3>2, GrowKeeps
    <3>4. Says(environ, environ', n, w) \/ Says(environ, environ', n, ENone)
      BY <3>2, <3>3 DEF Says
    <3>5. QED
      BY <1>0, <3>3, <3>4 DEF EnvStep
  <2>5. QED
    BY <2>3, <2>4
<1>2. ASSUME Absent(environ, n) PROVE OneEach(environ') /\ EnvStep
  <2>1. Index(n) = 0
    BY <1>0, <1>2, ValueIs
  <2>2. Grow(environ, x)
    BY <2>1 DEF SetEnv
  <2>3. OneEach(environ') /\ (Says(environ, environ', n, w) \/ environ' = environ)
    BY <1>0, <1>2, <2>2, GrowKeeps
  <2>4. QED
    BY <1>0, <2>3 DEF EnvStep
<1>3. QED
  BY <1>1, <1>2, PresentOrAbsent

(* Every call keeps the invariant. *)
LEMMA EnvNextStep ==
  ASSUME EnvInv, [ENext]_evars
  PROVE  EnvInv' /\ EnvStep
<1>0. OneEach(environ)
  BY DEF EnvInv
<1>1. /\ where' \in {"orig", "none", "first", "later"}
      /\ where' = "orig" => origenv' \in {"none", "orig"}
  BY DEF EnvInv, ENext, evars, GetEnv, UnsetEnv, PutEnv, SetEnv, ClearEnv, Grow, Orig
<1>2. OneEach(environ') /\ EnvStep
  <2>1. ASSUME NEW n \in Name, GetEnv(n) PROVE OneEach(environ') /\ EnvStep
    <3>1. environ' = environ /\ answer' = ValueOf(environ, n)
      BY <2>1, IndexIs DEF GetEnv, ValueOf
    <3>2. QED
      BY <1>0, <3>1 DEF EnvStep
  <2>2. CASE ClearEnv
    <3>1. environ' = <<>> /\ answer' = answer
      BY <2>2 DEF ClearEnv
    <3>2. OneEach(environ') /\ \A m : Absent(environ', m)
      BY <3>1 DEF OneEach, Absent
    <3>3. \A m \in Name : ValueOf(environ', m) = ENone
      BY <3>2, ValueIs
    <3>4. QED
      BY <3>1, <3>2, <3>3 DEF EnvStep
  <2>3. CASE UNCHANGED evars
    BY <1>0, <2>3 DEF evars, EnvStep
  <2>4. QED
    BY <2>1, <2>2, <2>3, PutEnvStep, UnsetEnvStep, SetEnvStep DEF ENext
<1>3. QED
  BY <1>1, <1>2 DEF EnvInv

(* ReallocOwn.  putenv never gives realloc an array that it did not make:  *)
(* origenv is set before environ can have become another array.            *)
THEOREM ReallocsOwn == ESpec => []ReallocOwn
<1>1. EnvInv /\ [ENext]_evars => EnvInv'
  BY EnvNextStep
<1>2. EnvInv => ReallocOwn
  BY DEF EnvInv, ReallocOwn, Reallocated, Orig
<1>3. QED
  BY <1>1, <1>2, EnvInitInv, PTL DEF ESpec

(* ImplementsEnvironment.  putenv, setenv, unsetenv and getenv on the      *)
(* array are the operations of a dictionary, for any set of names and      *)
(* values and any length of the array, with failing allocations.           *)
THEOREM EnvironmentIsADictionary == ESpec => ImplementsEnvironment
<1> DEFINE d == [n \in Name |-> IF Index(n) > 0 THEN environ[Index(n)].val ELSE ENone]
<1>1. EInit => EnvDict!DictInit
  <2> SUFFICES ASSUME EInit PROVE d \in [Name -> EValue \cup {ENone}] /\ answer = ENone
    BY DEF EnvDict!DictInit
  <2>1. OneEach(environ)
    BY EnvInitInv DEF EnvInv
  <2> SUFFICES ASSUME NEW n \in Name PROVE ValueOf(environ, n) \in EValue \cup {ENone}
    BY IndexIs DEF EInit, ValueOf
  <2>2. ASSUME NEW i, Present(environ, n, i) PROVE ValueOf(environ, n) \in EValue
    <3>1. environ[i] \in Entries
      BY <2>1, <2>2, ElementOfSeq DEF OneEach, Present
    <3>2. QED
      BY <2>1, <2>2, <3>1, ValueIs DEF Entries
  <2>3. QED
    BY <2>1, <2>2, PresentOrAbsent, ValueIs
<1>2. EnvInv /\ [ENext]_evars => EnvInv' /\ [EnvDict!DictNext]_<<d, answer>>
  <2> SUFFICES ASSUME EnvInv, [ENext]_evars PROVE [EnvDict!DictNext]_<<d, answer>>
    BY EnvNextStep
  <2>1. EnvStep
    BY EnvNextStep
  <2>2. d = [m \in Name |-> ValueOf(environ, m)] /\ d' = [m \in Name |-> ValueOf(environ', m)]
    BY IndexIs DEF ValueOf
  <2> HIDE DEF d
  <2>3. ASSUME NEW n \in Name, NEW w, Says(environ, environ', n, w) PROVE d' = [d EXCEPT ![n] = w]
    BY <2>2, <2>3 DEF Says
  <2>4. ASSUME NEW n \in Name, NEW w \in EValue, Says(environ, environ', n, w), UNCHANGED answer
        PROVE  EnvDict!DictNext
    BY <2>3, <2>4, Zenon DEF EnvDict!DictNext, EnvDict!Change, d
  <2>5. ASSUME NEW n \in Name, Says(environ, environ', n, ENone), UNCHANGED answer
        PROVE  EnvDict!DictNext
    BY <2>3, <2>5, Zenon DEF EnvDict!DictNext, EnvDict!Change, d
  <2>6. ASSUME \A m \in Name : ValueOf(environ', m) = ENone, UNCHANGED answer
        PROVE  EnvDict!DictNext
    <3>1. d' = [m \in Name |-> ENone]
      BY <2>2, <2>6
    <3>2. QED
      BY <2>6, <3>1, Zenon DEF EnvDict!DictNext, EnvDict!Empty, d
  <2>7. ASSUME NEW n \in Name, answer' = ValueOf(environ, n), UNCHANGED environ
        PROVE  EnvDict!DictNext
    <3>1. d' = d /\ answer' = d[n]
      BY <2>2, <2>7
    <3>2. QED
      BY <3>1, Zenon DEF EnvDict!DictNext, EnvDict!Lookup, d
  <2>8. ASSUME UNCHANGED <<answer, environ>> PROVE UNCHANGED <<d, answer>>
    BY <2>2, <2>8
  <2>9. QED
    BY <2>1, <2>4, <2>5, <2>6, <2>7, <2>8 DEF EnvStep
<1>3. QED
  BY <1>1, <1>2, EnvInitInv, PTL DEF ESpec, ImplementsEnvironment, EnvDict!DictSpec

-----------------------------------------------------------------------------
(* readdir.  The buffer holds the entries from some place to the kernel's, *)
(* record after record, and d->cur is at one of them or behind the last;   *)
(* without a buffer, what seekdir has left is the kernel's place.          *)

DirLen == Len(Reclen)

(* The units that the first k entries take. *)
Total == CHOOSE g : g = [k \in 0 .. DirLen |-> IF k = 0 THEN 0 ELSE g[k - 1] + Reclen[k]]

(* Every record has a length and fits. *)
LEMMA DirConstants ==
  /\ DirLen \in Nat /\ BufSize \in Nat
  /\ \A k \in 1 .. DirLen : Reclen[k] \in 1 .. BufSize
BY DirAssumption DEF DirLen

(* What holds at first and after every turn holds at the end. *)
LEMMA AllTurns ==
  ASSUME NEW n \in Nat, NEW S, 0 \in S, \A k \in 1 .. n : k - 1 \in S => k \in S
  PROVE  n \in S
<1> DEFINE T == {k \in 0 .. n : k \notin S}
<1>1. T = {}
  <2> SUFFICES ASSUME T # {} PROVE FALSE
    OBVIOUS
  <2>1. T \in SUBSET Nat
    OBVIOUS
  <2>2. PICK x \in T : \A y \in T : x <= y
    BY <2>1, LeastExists
  <2>3. x \in 0 .. n /\ x \notin S
    OBVIOUS
  <2>4. x # 0 /\ x \in 1 .. n
    BY <2>3
  <2>5. x - 1 \notin S
    BY <2>3, <2>4
  <2>6. x - 1 \in T
    BY <2>4, <2>5
  <2> HIDE DEF T
  <2>7. x <= x - 1
    BY <2>2, <2>6
  <2>8. QED
    BY <2>4, <2>7
<1>2. n \in 0 .. n
  OBVIOUS
<1>3. QED
  BY <1>1, <1>2

(* The sums exist. *)
LEMMA TotalIs ==
  /\ Total[0] = 0
  /\ \A k \in 1 .. DirLen : Total[k] = Total[k - 1] + Reclen[k]
<1> DEFINE Next1(q, k) == IF k = 0 THEN 0 ELSE q[k - 1] + Reclen[k]
           Run(q, m) == q = [k \in 0 .. m |-> Next1(q, k)]
           T == {m \in Nat : ~ \E q : Run(q, m)}
<1>1. DirLen \in Nat
  BY DirConstants
<1>2. T = {}
  <2> SUFFICES ASSUME T # {} PROVE FALSE
    OBVIOUS
  <2>1. PICK m \in T : \A y \in T : m <= y
    BY LeastExists
  <2>2. m \in Nat /\ ~ \E q : Run(q, m)
    OBVIOUS
  <2>3. CASE m = 0
    <3> DEFINE q == [k \in 0 .. 0 |-> 0]
    <3>1. \A k \in 0 .. 0 : k = 0
      OBVIOUS
    <3>2. Run(q, 0)
      BY <3>1, Zenon
    <3>3. QED
      BY <2>2, <2>3, <3>2, Zenon
  <2>4. CASE m # 0
    <3>1. m - 1 \in Nat /\ ~(m <= m - 1)
      BY <2>2, <2>4
    <3>2. PICK p : Run(p, m - 1)
      BY <2>1, <3>1
    <3> DEFINE q == [k \in 0 .. m |-> IF k = m THEN p[m - 1] + Reclen[m] ELSE p[k]]
    <3>3. ASSUME NEW k \in 0 .. m PROVE q[k] = Next1(q, k)
      <4>1. CASE k = m
        <5>1. m - 1 \in 0 .. m /\ m - 1 # m
          BY <2>2, <2>4, <3>1
        <5>2. q[m - 1] = p[m - 1]
          BY <5>1
        <5>3. QED
          BY <2>4, <4>1, <5>2, Zenon
      <4>2. CASE k # m
        <5>1. k \in 0 .. m - 1 /\ (k # 0 => k - 1 \in 0 .. m /\ k - 1 # m)
          BY <2>2, <4>2
        <5>2. p[k] = Next1(p, k) /\ q[k] = p[k]
          BY <3>2, <4>2, <5>1, Zenon
        <5>3. k # 0 => q[k - 1] = p[k - 1]
          BY <5>1
        <5>4. QED
          BY <5>2, <5>3, Zenon
      <4>3. QED
        BY <4>1, <4>2, Zenon
    <3> HIDE DEF Next1
    <3>4. q = [k \in 0 .. m |-> q[k]]
      BY Zenon
    <3> HIDE DEF q
    <3>5. Run(q, m)
      BY <3>3, <3>4, Zenon
    <3>6. QED
      BY <2>2, <3>5, Zenon
  <2>5. QED
    BY <2>3, <2>4
<1>3. Run(Total, DirLen)
  <2>1. \E q : Run(q, DirLen)
    BY <1>1, <1>2
  <2>2. QED
    BY <2>1, Zenon DEF Total
<1>4. 0 \in 0 .. DirLen /\ \A k \in 1 .. DirLen : k \in 0 .. DirLen /\ k # 0
  BY <1>1
<1>5. \A k \in 0 .. DirLen : Total[k] = Next1(Total, k)
  BY <1>3, Zenon
<1>6. QED
  BY <1>4, <1>5, Zenon

(* They grow with every entry. *)
LEMMA TotalGrows ==
  /\ \A k \in 0 .. DirLen : Total[k] \in Nat
  /\ \A a, k \in 0 .. DirLen : a < k => Total[a] < Total[k]
<1> DEFINE S == {k \in Nat : k <= DirLen => Total[k] \in Nat /\ \A a \in 0 .. k - 1 : Total[a] \in Nat /\ Total[a] < Total[k]}
<1>1. 0 \in S
  BY TotalIs, DirConstants
<1>2. ASSUME NEW n \in 0 .. DirLen PROVE n \in S
  <2>1. ASSUME NEW k \in 1 .. n, k - 1 \in S PROVE k \in S
    <3>1. k \in Nat /\ k - 1 \in Nat /\ k - 1 <= DirLen /\ k \in 1 .. DirLen
      BY DirConstants
    <3>2. Total[k - 1] \in Nat /\ \A a \in 0 .. (k - 1) - 1 : Total[a] \in Nat /\ Total[a] < Total[k - 1]
      BY <2>1, <3>1
    <3>3. Total[k] = Total[k - 1] + Reclen[k] /\ Reclen[k] \in Nat /\ Reclen[k] > 0
      BY <3>1, TotalIs, DirConstants
    <3>4. Total[k] \in Nat /\ Total[k - 1] < Total[k]
      BY <3>2, <3>3
    <3>5. ASSUME NEW a \in 0 .. k - 1 PROVE Total[a] \in Nat /\ Total[a] < Total[k]
      <4>1. CASE a = k - 1
        BY <3>2, <3>4, <4>1
      <4>2. CASE a # k - 1
        <5>1. a \in 0 .. (k - 1) - 1
          BY <3>1, <4>2
        <5>2. Total[a] \in Nat /\ Total[a] < Total[k - 1]
          BY <3>2, <5>1
        <5>3. QED
          BY <3>2, <3>4, <5>2
      <4>3. QED
        BY <4>1, <4>2
    <3>6. QED
      BY <3>1, <3>4, <3>5
  <2> HIDE DEF S
  <2>2. n \in Nat
    BY DirConstants
  <2>3. QED
    BY <1>1, <2>1, <2>2, AllTurns
<1>3. QED
  BY <1>2, DirConstants

(* The units of the entries after a up to k. *)
LEMMA SpanIs ==
  ASSUME NEW a \in 0 .. DirLen, NEW k \in 0 .. DirLen
  PROVE  Span1(a + 1, k) = Total[k] - Total[a]
<1>1. (a + 1) - 1 = a
  BY DirConstants
<1>2. Span1(a + 1, k) = Total[k] - Total[(a + 1) - 1]
  BY Zenon DEF Span1, Total, DirLen
<1>3. QED
  BY <1>1, <1>2

(* The buffer bf of nm units holds the entries from a + 1 to kp, and dc is *)
(* where a record begins or the last one ends.                             *)
Window(a, kp, nm, bf, dc) ==
  /\ a \in 0 .. kp - 1 /\ nm = Total[kp] - Total[a]
  /\ \A k \in a + 1 .. kp : bf[Total[k - 1] - Total[a]] = k
  /\ \E k \in a .. kp : dc = Total[k] - Total[a]

(* The invariant: with a buffer the window, without one the place of seekdir. *)
DirInv ==
  /\ kpos \in 0 .. DirLen /\ buf \in [Units -> 0 .. DirLen] /\ num \in 0 .. BufSize /\ dcur \in 0 .. BufSize
  /\ got \in 0 .. DirLen /\ mark \in 0 .. DirLen /\ off0 \in -1 .. DirLen
  /\ num = 0 => dcur = 0 /\ (kpos = 0 \/ off0 = kpos)
  /\ num > 0 => off0 = -1 /\ \E a \in 0 .. DirLen : Window(a, kpos, num, buf, dcur)

(* The place of Cursor. *)
PlaceAt(kp, nm, bf, dc) == IF nm > 0 /\ dc < nm THEN bf[dc] ELSE kp

(* It is what the refinement maps to. *)
LEMMA PlaceIs ==
  /\ (IF num > 0 /\ dcur < num THEN buf[dcur] ELSE kpos) = PlaceAt(kpos, num, buf, dcur)
  /\ (IF num > 0 /\ dcur < num THEN buf[dcur] ELSE kpos)' = PlaceAt(kpos', num', buf', dcur')
BY DEF PlaceAt

(* d->cur is at the record of k. *)
Record(a, kp, nm, bf, dc, k) ==
  /\ bf[dc] = k /\ dc < nm /\ dc + Reclen[k] = Total[k] - Total[a]
  /\ dc + Reclen[k] <= nm
  /\ k = kp => dc + Reclen[k] = nm
  /\ k < kp => /\ dc + Reclen[k] < nm /\ bf[dc + Reclen[k]] = k + 1
               /\ dc + Reclen[k] \in 0 .. BufSize

(* Where d->cur is in the window. *)
LEMMA InWindow ==
  ASSUME NEW kp \in 0 .. DirLen, NEW nm \in 1 .. BufSize, NEW bf, NEW dc \in 0 .. BufSize,
         NEW a \in 0 .. DirLen, Window(a, kp, nm, bf, dc)
  PROVE  \/ dc = nm
         \/ \E k \in a + 1 .. kp : Record(a, kp, nm, bf, dc, k)
<1>1. /\ a \in 0 .. kp - 1 /\ nm = Total[kp] - Total[a]
      /\ \A k \in a + 1 .. kp : bf[Total[k - 1] - Total[a]] = k
  BY DEF Window
<1>2. PICK x \in a .. kp : dc = Total[x] - Total[a]
  BY DEF Window
<1>3. CASE x = kp
  BY <1>1, <1>2, <1>3
<1>4. CASE x # kp
  <2> DEFINE k == x + 1
  <2>1. /\ k \in a + 1 .. kp /\ k - 1 = x /\ k \in 1 .. DirLen /\ x \in 0 .. DirLen /\ k \in 0 .. DirLen
        /\ kp \in 0 .. DirLen
    BY <1>1, <1>2, <1>4, DirConstants
  <2>2. Total[k] = Total[x] + Reclen[k] /\ Reclen[k] \in 1 .. BufSize
    BY <2>1, TotalIs, DirConstants
  <2>3. Total[x] \in Nat /\ Total[k] \in Nat /\ Total[a] \in Nat /\ Total[kp] \in Nat
    BY <2>1, TotalGrows
  <2>4. bf[dc] = k
    BY <1>1, <1>2, <2>1
  <2>5. dc + Reclen[k] = Total[k] - Total[a]
    BY <1>2, <2>2, <2>3, DirConstants
  <2>6. k < kp => Total[k] < Total[kp]
    BY <2>1, TotalGrows
  <2>7. x < kp
    BY <1>2, <1>4, <2>1, DirConstants
  <2>8. Total[x] < Total[kp]
    BY <2>1, <2>7, TotalGrows
  <2>9. dc < nm
    BY <1>1, <1>2, <2>3, <2>8
  <2>10. ASSUME k < kp PROVE bf[Total[k] - Total[a]] = k + 1
    <3>1. k + 1 \in a + 1 .. kp /\ (k + 1) - 1 = k
      BY <2>1, <2>10, DirConstants
    <3>2. QED
      BY <1>1, <3>1
  <2> HIDE DEF k
  <2>11. k <= kp /\ k \in Nat
    BY <2>1, DirConstants
  <2>12. k = kp => dc + Reclen[k] = nm
    BY <1>1, <2>5
  <2>13. k < kp => dc + Reclen[k] < nm /\ bf[dc + Reclen[k]] = k + 1
    BY <1>1, <2>3, <2>5, <2>6, <2>10
  <2>14. dc + Reclen[k] \in Nat
    BY <2>2, DirConstants
  <2>15. dc + Reclen[k] <= nm
    BY <2>1, <2>11, <2>12, <2>13, <2>14, DirConstants
  <2>16. k < kp => dc + Reclen[k] \in 0 .. BufSize
    BY <2>14, <2>15, DirConstants
  <2>17. QED
    BY <2>1, <2>4, <2>5, <2>9, <2>12, <2>13, <2>15, <2>16 DEF Record
<1>5. QED
  BY <1>3, <1>4

(* A step keeps the invariant and is a step of the cursor. *)
DirStep ==
  /\ DirInv'
  /\ LET p == PlaceAt(kpos, num, buf, dcur)
         q == PlaceAt(kpos', num', buf', dcur')
     IN  \/ p < DirLen /\ got' = p + 1 /\ q = p + 1 /\ mark' = mark
         \/ got' = 0 /\ q = p /\ mark' = mark
         \/ mark' = p /\ q = p /\ got' = got
         \/ q \in {0, mark} /\ got' = got /\ mark' = mark
         \/ q = p /\ got' = got /\ mark' = mark

(* Where the buffer is used up the next entry is the kernel's. *)
LEMMA UsedUp ==
  ASSUME DirInv, ~(num > 0 /\ Advanced < num)
  PROVE  /\ PlaceAt(kpos, num, buf, dcur) = kpos
         /\ num = 0 => Advanced = dcur
         /\ num > 0 => Advanced = num
<1>1. CASE num = 0
  BY <1>1 DEF DirInv, PlaceAt, Advanced
<1>2. CASE num # 0
  <2>1. num \in 1 .. BufSize /\ num > 0 /\ kpos \in 0 .. DirLen /\ dcur \in 0 .. BufSize
    BY <1>2, DirConstants DEF DirInv
  <2>2. PICK a \in 0 .. DirLen : Window(a, kpos, num, buf, dcur)
    BY <2>1 DEF DirInv
  <2>3. CASE dcur = num
    BY <2>1, <2>3, DirConstants DEF PlaceAt, Advanced
  <2>4. CASE dcur # num
    <3>1. PICK k \in a + 1 .. kpos : Record(a, kpos, num, buf, dcur, k)
      BY <2>1, <2>2, <2>4, InWindow
    <3>2. Advanced = dcur + Reclen[k]
      BY <2>1, <3>1, DirConstants DEF Advanced, Record
    <3>3. k = kpos
      BY <2>1, <3>1, <3>2, DirConstants DEF Record
    <3>4. QED
      BY <2>1, <3>1, <3>2, <3>3 DEF PlaceAt, Record
  <2>5. QED
    BY <2>3, <2>4
<1>3. QED
  BY <1>1, <1>2

(* The next record of the buffer. *)
LEMMA ReadsBuffer ==
  ASSUME DirInv, num > 0 /\ Advanced < num, got' = buf[Advanced], dcur' = Advanced,
         UNCHANGED <<kpos, buf, num, off0, mark>>
  PROVE  DirStep
<1>1. num \in 1 .. BufSize /\ kpos \in 0 .. DirLen /\ dcur \in 0 .. BufSize
  BY DirConstants DEF DirInv
<1>2. PICK a \in 0 .. DirLen : Window(a, kpos, num, buf, dcur)
  BY DEF DirInv
<1>3. dcur # num
  BY <1>1, DirConstants DEF Advanced
<1>4. PICK k \in a + 1 .. kpos : Record(a, kpos, num, buf, dcur, k)
  BY <1>1, <1>2, <1>3, InWindow
<1>5. Advanced = dcur + Reclen[k]
  BY <1>1, <1>4, DirConstants DEF Advanced, Record
<1>6. k < kpos /\ k \in Nat /\ kpos <= DirLen /\ kpos \in Nat
  BY <1>1, <1>4, <1>5, DirConstants DEF Record
<1>7. got' = k + 1 /\ dcur' = Total[k] - Total[a] /\ dcur' < num /\ dcur' \in 0 .. BufSize /\ buf[dcur'] = k + 1
  BY <1>4, <1>5, <1>6 DEF Record
<1>8. Window(a, kpos, num, buf, dcur')
  <2>1. k \in a .. kpos
    BY <1>1, <1>4, DirConstants
  <2>2. QED
    BY <1>2, <1>7, <2>1 DEF Window
<1>9. got' \in 0 .. DirLen
  BY <1>6, <1>7, DirConstants
<1>10. Window(a, kpos', num', buf', dcur')
  BY <1>8
<1>11. DirInv'
  BY <1>1, <1>7, <1>9, <1>10 DEF DirInv
<1>12. PlaceAt(kpos, num, buf, dcur) = k /\ PlaceAt(kpos', num', buf', dcur') = k + 1
  BY <1>4, <1>7 DEF PlaceAt, Record
<1>13. k < DirLen
  BY <1>6, DirConstants
<1>14. QED
  BY <1>7, <1>11, <1>12, <1>13 DEF DirStep

(* The kernel has no more entries, or fails. *)
LEMMA ReadsNothing ==
  ASSUME DirInv, ~(num > 0 /\ Advanced < num), got' = 0, dcur' = Advanced,
         UNCHANGED <<kpos, buf, num, off0, mark>>
  PROVE  DirStep
<1>1. /\ PlaceAt(kpos, num, buf, dcur) = kpos
      /\ num = 0 => Advanced = dcur
      /\ num > 0 => Advanced = num
  BY UsedUp
<1>2. num \in 0 .. BufSize /\ kpos \in 0 .. DirLen /\ num \in Nat
  BY DirConstants DEF DirInv
<1>3. PlaceAt(kpos', num', buf', dcur') = kpos
  BY <1>1, <1>2 DEF PlaceAt
<1>4. DirInv'
  <2>1. dcur' \in 0 .. BufSize
    BY <1>1, <1>2 DEF DirInv
  <2>2. ASSUME num > 0 PROVE \E a \in 0 .. DirLen : Window(a, kpos, num, buf, dcur')
    <3>1. PICK a \in 0 .. DirLen : Window(a, kpos, num, buf, dcur)
      BY <2>2 DEF DirInv
    <3>2. kpos \in a .. kpos /\ dcur' = Total[kpos] - Total[a]
      BY <1>1, <1>2, <2>2, <3>1, DirConstants DEF Window
    <3>3. Window(a, kpos, num, buf, dcur')
      BY <3>1, <3>2 DEF Window
    <3>4. QED
      BY <3>3
  <2>3. 0 \in 0 .. DirLen
    BY DirConstants
  <2>4. QED
    BY <1>1, <1>2, <2>1, <2>2, <2>3 DEF DirInv
<1>5. QED
  BY <1>1, <1>3, <1>4 DEF DirStep

(* The kernel fills the buffer. *)
LEMMA ReadsKernel ==
  ASSUME DirInv, ~(num > 0 /\ Advanced < num), UNCHANGED mark,
         NEW n \in 1 .. DirLen - kpos, Span1(kpos + 1, kpos + n) <= BufSize, kpos' = kpos + n,
         buf' = [c \in Units |->
                   IF \E k \in kpos + 1 .. kpos + n : Span1(kpos + 1, k - 1) = c
                   THEN CHOOSE k \in kpos + 1 .. kpos + n : Span1(kpos + 1, k - 1) = c
                   ELSE buf[c]],
         num' = Span1(kpos + 1, kpos + n), off0' = -1, got' = kpos + 1, dcur' = 0
  PROVE  DirStep
<1>1. PlaceAt(kpos, num, buf, dcur) = kpos
  BY UsedUp
<1>2. kpos \in 0 .. DirLen /\ buf \in [Units -> 0 .. DirLen] /\ mark \in 0 .. DirLen /\ kpos < DirLen
  BY DirConstants DEF DirInv
<1>3. kpos + n \in 0 .. DirLen /\ kpos < kpos + n
  BY <1>2, DirConstants
<1> DEFINE S(k) == Total[k] - Total[kpos]
<1>4. num' = S(kpos + n)
  BY <1>2, <1>3, SpanIs
<1>5. \A k \in 0 .. DirLen : Total[k] \in Nat
  BY TotalGrows
<1>6. num' \in 1 .. BufSize
  <2>1. Total[kpos] < Total[kpos + n]
    BY <1>2, <1>3, TotalGrows
  <2>2. S(kpos + n) <= BufSize
    BY <1>2, <1>3, SpanIs
  <2>3. QED
    BY <1>2, <1>3, <1>4, <1>5, <2>1, <2>2, DirConstants
<1>7. \A k \in kpos + 1 .. kpos + n : /\ k - 1 \in 0 .. DirLen /\ k \in 0 .. DirLen
                                      /\ Span1(kpos + 1, k - 1) = S(k - 1)
  <2>1. \A k \in kpos + 1 .. kpos + n : k - 1 \in 0 .. DirLen /\ k \in 0 .. DirLen
    BY <1>2, <1>3, DirConstants
  <2>2. QED
    BY <1>2, <2>1, SpanIs
<1>8. ASSUME NEW k \in kpos + 1 .. kpos + n PROVE S(k - 1) \in Units
  <2>1. k - 1 \in 0 .. DirLen /\ kpos <= k - 1 /\ k - 1 < kpos + n
    BY <1>2, <1>3, <1>7, DirConstants
  <2>2. Total[k - 1] < Total[kpos + n] /\ Total[kpos] <= Total[k - 1]
    BY <1>2, <1>3, <1>5, <2>1, TotalGrows
  <2>3. Total[k - 1] \in Nat /\ Total[kpos] \in Nat /\ Total[kpos + n] \in Nat
    BY <1>2, <1>3, <1>5, <2>1
  <2>4. QED
    BY <1>4, <1>6, <2>2, <2>3, DirConstants, SMTT(30) DEF Units
<1>9. ASSUME NEW k \in kpos + 1 .. kpos + n, NEW m \in kpos + 1 .. kpos + n, S(k - 1) = S(m - 1)
      PROVE  k = m
  <2>1. k - 1 \in 0 .. DirLen /\ m - 1 \in 0 .. DirLen
    BY <1>7
  <2>2. Total[k - 1] = Total[m - 1]
    BY <1>2, <1>5, <1>9, <2>1
  <2>3. ~(k - 1 < m - 1) /\ ~(m - 1 < k - 1)
    BY <1>5, <2>1, <2>2, TotalGrows
  <2>4. QED
    BY <1>2, <1>3, <2>3, DirConstants
<1> DEFINE At(c, k) == k \in kpos + 1 .. kpos + n /\ S(k - 1) = c
<1>10. buf' = [c \in Units |->
                 IF \E k \in kpos + 1 .. kpos + n : Span1(kpos + 1, k - 1) = c
                 THEN CHOOSE k \in kpos + 1 .. kpos + n : Span1(kpos + 1, k - 1) = c
                 ELSE buf[c]]
  OBVIOUS
<1> HIDE DEF S
<1>11. ASSUME NEW k \in kpos + 1 .. kpos + n PROVE buf'[S(k - 1)] = k
  <2> DEFINE j == CHOOSE m \in kpos + 1 .. kpos + n : Span1(kpos + 1, m - 1) = S(k - 1)
  <2>1. Span1(kpos + 1, k - 1) = S(k - 1)
    BY <1>7
  <2>2. buf'[S(k - 1)] = j
    BY <1>8, <1>10, <2>1, Zenon
  <2>3. j \in kpos + 1 .. kpos + n /\ Span1(kpos + 1, j - 1) = S(k - 1)
    BY <2>1, Zenon
  <2> HIDE DEF j
  <2>4. S(j - 1) = S(k - 1)
    BY <1>7, <2>3
  <2>5. QED
    BY <1>9, <2>2, <2>3, <2>4
<1>12. buf' \in [Units -> 0 .. DirLen]
  <2>1. ASSUME NEW c \in Units PROVE buf'[c] \in 0 .. DirLen
    <3>1. CASE \E k \in kpos + 1 .. kpos + n : Span1(kpos + 1, k - 1) = c
      <4>1. PICK k \in kpos + 1 .. kpos + n : Span1(kpos + 1, k - 1) = c
        BY <3>1
      <4>2. c = S(k - 1)
        BY <1>7, <4>1
      <4>3. buf'[c] = k
        BY <1>11, <4>2
      <4>4. QED
        BY <1>7, <4>3
    <3>2. CASE ~ \E k \in kpos + 1 .. kpos + n : Span1(kpos + 1, k - 1) = c
      <4>1. buf'[c] = buf[c]
        BY <1>10, <3>2, Zenon
      <4>2. QED
        BY <1>2, <4>1
    <3>3. QED
      BY <3>1, <3>2
  <2>2. QED
    BY <1>10, <2>1
<1>13. Window(kpos, kpos', num', buf', dcur')
  <2>1. \A k \in kpos + 1 .. kpos' : buf'[Total[k - 1] - Total[kpos]] = k
    BY <1>11 DEF S
  <2>2. kpos \in 0 .. kpos' - 1 /\ kpos \in kpos .. kpos'
    BY <1>2, <1>3, DirConstants
  <2>3. dcur' = Total[kpos] - Total[kpos]
    BY <1>2, <1>5
  <2>4. num' = Total[kpos'] - Total[kpos]
    BY <1>4 DEF S
  <2>5. QED
    BY <2>1, <2>2, <2>3, <2>4 DEF Window
<1>14. DirInv'
  <2>1. got' \in 0 .. DirLen /\ kpos' \in 0 .. DirLen /\ num' \in 0 .. BufSize /\ num' # 0 /\ dcur' \in 0 .. BufSize
        /\ mark' \in 0 .. DirLen /\ off0' \in -1 .. DirLen
    BY <1>2, <1>3, <1>6, DirConstants
  <2>2. QED
    BY <1>2, <1>12, <1>13, <2>1 DEF DirInv
<1>15. PlaceAt(kpos', num', buf', dcur') = kpos + 1
  <2>1. num' > 0 /\ dcur' < num' /\ kpos + 1 \in kpos + 1 .. kpos + n /\ (kpos + 1) - 1 = kpos
    BY <1>2, <1>3, <1>6, DirConstants
  <2>2. S(kpos) = 0
    BY <1>2, <1>5 DEF S
  <2>3. buf'[0] = kpos + 1
    BY <1>11, <2>1, <2>2
  <2>4. QED
    BY <2>1, <2>3 DEF PlaceAt
<1>16. QED
  BY <1>1, <1>2, <1>14, <1>15 DEF DirStep

(* Every call keeps the invariant and moves the cursor. *)
LEMMA DirNextStep ==
  ASSUME DirInv, [DirNext]_dirvars
  PROVE  DirStep
<1>1. CASE ReadDir
  <2>1. CASE num > 0 /\ Advanced < num
    BY <1>1, <2>1, ReadsBuffer DEF ReadDir
  <2>2. CASE ~(num > 0 /\ Advanced < num)
    <3>1. CASE Getdents /\ dcur' = IF kpos' = kpos THEN Advanced ELSE 0
      <4>1. PICK n \in 0 .. DirLen - kpos :
              /\ Span1(kpos + 1, kpos + n) <= BufSize
              /\ kpos' = kpos + n
              /\ IF n = 0 THEN got' = 0 /\ UNCHANGED <<buf, num, off0>>
                 ELSE /\ buf' = [c \in Units |->
                                   IF \E k \in kpos + 1 .. kpos + n : Span1(kpos + 1, k - 1) = c
                                   THEN CHOOSE k \in kpos + 1 .. kpos + n : Span1(kpos + 1, k - 1) = c
                                   ELSE buf[c]]
                      /\ num' = Span1(kpos + 1, kpos + n) /\ off0' = -1 /\ got' = kpos + 1
        BY <3>1, Zenon DEF Getdents, DirLen
      <4>2. kpos \in Nat /\ mark' = mark
        BY <1>1, DirConstants DEF DirInv, ReadDir
      <4>3. CASE n = 0
        <5>1. got' = 0 /\ dcur' = Advanced /\ UNCHANGED <<kpos, buf, num, off0, mark>>
          BY <3>1, <4>1, <4>2, <4>3
        <5>2. QED
          BY <2>2, <5>1, ReadsNothing
      <4>4. CASE n # 0
        <5>1. n \in 1 .. DirLen - kpos /\ dcur' = 0
          BY <3>1, <4>1, <4>2, <4>4, DirConstants
        <5>2. QED
          BY <2>2, <4>1, <4>2, <4>4, <5>1, ReadsKernel, Zenon
      <4>5. QED
        BY <4>3, <4>4
    <3>2. CASE got' = 0 /\ dcur' = Advanced /\ UNCHANGED <<kpos, buf, num, off0>>
      BY <1>1, <2>2, <3>2, ReadsNothing DEF ReadDir
    <3>3. QED
      BY <1>1, <2>2, <3>1, <3>2 DEF ReadDir
  <2>3. QED
    BY <2>1, <2>2
<1>2. CASE TellDir
  <2> DEFINE p == PlaceAt(kpos, num, buf, dcur)
  <2>1. mark' = p /\ p \in 0 .. DirLen
    <3>1. CASE num = 0
      <4>1. p = kpos /\ kpos \in 0 .. DirLen
        BY <3>1 DEF DirInv, PlaceAt
      <4>2. mark' = kpos
        BY <1>2, <3>1, DirConstants DEF TellDir, DirInv
      <4>3. QED
        BY <4>1, <4>2
    <3>2. CASE num # 0
      <4>1. num \in 1 .. BufSize /\ num > 0 /\ kpos \in 0 .. DirLen /\ dcur \in 0 .. BufSize /\ dcur < num
        BY <1>2, <3>2, DirConstants DEF DirInv, TellDir
      <4>2. PICK a \in 0 .. DirLen : Window(a, kpos, num, buf, dcur)
        BY <4>1 DEF DirInv
      <4>3. kpos # 0 /\ off0 = -1
        BY <4>1, <4>2, DirConstants DEF Window, DirInv
      <4>4. mark' = buf[dcur] /\ p = buf[dcur]
        BY <1>2, <4>1, <4>3 DEF TellDir, PlaceAt
      <4>5. dcur \in Units
        BY <4>1, DirConstants DEF Units
      <4>6. QED
        BY <4>4, <4>5 DEF DirInv
    <3>3. QED
      BY <3>1, <3>2
  <2>2. DirInv'
    BY <1>2, <2>1 DEF TellDir, DirInv
  <2>3. PlaceAt(kpos', num', buf', dcur') = p /\ got' = got
    BY <1>2 DEF TellDir
  <2> HIDE DEF p
  <2>4. QED
    BY <2>1, <2>2, <2>3 DEF DirStep, p
<1>3. CASE SeekDir
  <2>1. DirInv'
    BY <1>3, DirConstants DEF SeekDir, DirInv
  <2>2. PlaceAt(kpos', num', buf', dcur') = mark
    BY <1>3 DEF SeekDir, PlaceAt
  <2>3. QED
    BY <1>3, <2>1, <2>2 DEF SeekDir, DirStep
<1>4. CASE RewindDir
  <2>1. DirInv'
    BY <1>4, DirConstants DEF RewindDir, DirInv
  <2>2. PlaceAt(kpos', num', buf', dcur') = 0
    BY <1>4 DEF RewindDir, PlaceAt
  <2>3. QED
    BY <1>4, <2>1, <2>2 DEF RewindDir, DirStep
<1>5. CASE UNCHANGED dirvars
  <2>1. UNCHANGED <<kpos, buf, num, dcur, off0, got, mark>>
    BY <1>5 DEF dirvars
  <2>2. DirInv'
    BY <2>1 DEF DirInv
  <2>3. PlaceAt(kpos', num', buf', dcur') = PlaceAt(kpos, num, buf, dcur)
    BY <2>1
  <2>4. QED
    BY <2>1, <2>2, <2>3 DEF DirStep
<1>6. QED
  BY <1>1, <1>2, <1>3, <1>4, <1>5 DEF DirNext

(* opendir. *)
LEMMA DirInitInv == DirInit => DirInv
BY DirConstants DEF DirInit, DirInv, Units

(* ImplementsCursor.  readdir, telldir, seekdir and rewinddir move a       *)
(* cursor over the entries, whatever their lengths, the size of the buffer *)
(* and the failures of getdents: every entry is read once, in its place,   *)
(* and telldir tells that place.                                           *)
THEOREM DirectoryIsACursor == DirSpec => ImplementsCursor
<1> DEFINE place == IF num > 0 /\ dcur < num THEN buf[dcur] ELSE kpos
<1>1. DirInit => Cursor!CursorInit
  BY DEF DirInit, Cursor!CursorInit
<1>2. DirInv /\ [DirNext]_dirvars => DirInv' /\ [Cursor!Read \/ Cursor!Tell \/ Cursor!Seek]_<<place, got, mark>>
  <2> SUFFICES ASSUME DirInv, [DirNext]_dirvars
               PROVE  [Cursor!Read \/ Cursor!Tell \/ Cursor!Seek]_<<place, got, mark>>
    BY DirNextStep DEF DirStep
  <2>1. DirStep
    BY DirNextStep
  <2>2. place = PlaceAt(kpos, num, buf, dcur) /\ place' = PlaceAt(kpos', num', buf', dcur')
    BY PlaceIs
  <2> HIDE DEF place
  <2>3. \/ place < DirLen /\ got' = place + 1 /\ place' = place + 1 /\ mark' = mark
        \/ got' = 0 /\ place' = place /\ mark' = mark
        \/ mark' = place /\ place' = place /\ got' = got
        \/ place' \in {0, mark} /\ got' = got /\ mark' = mark
        \/ place' = place /\ got' = got /\ mark' = mark
    BY <2>1, <2>2 DEF DirStep
  <2>4. CASE place < DirLen /\ got' = place + 1 /\ place' = place + 1 /\ mark' = mark
    BY <2>4, Zenon DEF Cursor!Read, place, DirLen
  <2>5. CASE got' = 0 /\ place' = place /\ mark' = mark
    BY <2>5, Zenon DEF Cursor!Read, place, DirLen
  <2>6. CASE mark' = place /\ place' = place /\ got' = got
    BY <2>6, Zenon DEF Cursor!Tell, place
  <2>7. CASE place' \in {0, mark} /\ got' = got /\ mark' = mark
    BY <2>7, Zenon DEF Cursor!Seek, place
  <2>8. CASE place' = place /\ got' = got /\ mark' = mark
    BY <2>8
  <2>9. QED
    BY <2>3, <2>4, <2>5, <2>6, <2>7, <2>8
<1>3. QED
  BY <1>1, <1>2, DirInitInv, PTL DEF DirSpec, ImplementsCursor, Cursor!CursorSpec

-----------------------------------------------------------------------------
(* hsearch.  A table holds a set of entries when each is in the bucket of  *)
(* its hash, once, and no bucket has another; growing moves the entries    *)
(* but keeps the set.                                                      *)

HEntry == [key : HKey, val : HValue]

(* Bucket, for hashes h. *)
Home(h, k, n) == (h[k] % n) + 1

(* The table t of n buckets holds the entries E. *)
Holds(t, h, n, E) ==
  /\ t \in [1 .. n -> Seq(HEntry)] /\ E \subseteq HEntry
  /\ \A b \in 1 .. n : \A x \in 1 .. Len(t[b]) : t[b][x] \in E /\ Home(h, t[b][x].key, n) = b
  /\ \A e \in E : \E x \in 1 .. Len(t[Home(h, e.key, n)]) : t[Home(h, e.key, n)][x] = e
  /\ \A b \in 1 .. n : \A x, y \in 1 .. Len(t[b]) : t[b][x].key = t[b][y].key => x = y

HashType(h) == h \in [HKey -> Nat]

(* The bucket is one of the table. *)
LEMMA HomeIs ==
  ASSUME NEW h, HashType(h), NEW k \in HKey, NEW n \in Nat \ {0}
  PROVE  Home(h, k, n) \in 1 .. n
<1>1. h[k] \in Nat
  BY DEF HashType
<1>2. h[k] % n \in 0 .. n - 1
  BY <1>1
<1>3. QED
  BY <1>2 DEF Home

(* A table is a sequence of buckets. *)
LEMMA TableIs ==
  ASSUME NEW t, NEW h, NEW n \in Nat \ {0}, NEW E, Holds(t, h, n, E)
  PROVE  /\ t \in Seq(Seq(HEntry)) /\ Len(t) = n /\ t # <<>> /\ DOMAIN t = 1 .. n
         /\ \A b \in 1 .. n : t[b] \in Seq(HEntry) /\ Len(t[b]) \in Nat
<1>1. t \in [1 .. n -> Seq(HEntry)]
  BY DEF Holds
<1>2. t \in Seq(Seq(HEntry)) /\ Len(t) = n
  BY <1>1
<1>3. \A b \in 1 .. n : t[b] \in Seq(HEntry)
  BY <1>1
<1>4. \A b \in 1 .. n : Len(t[b]) \in Nat
  BY <1>3, LenProperties
<1>5. t # <<>>
  BY <1>2
<1>6. QED
  BY <1>1, <1>2, <1>3, <1>4, <1>5

(* An entry put anywhere into the list of its bucket. *)
LEMMA InsertHolds ==
  ASSUME NEW t, NEW h, HashType(h), NEW n \in Nat \ {0}, NEW E, Holds(t, h, n, E),
         NEW e \in HEntry, \A d \in E : d.key # e.key,
         NEW u \in Seq(HEntry), Len(u) = Len(t[Home(h, e.key, n)]) + 1, NEW c \in 1 .. Len(u),
         \A x \in 1 .. Len(u) : u[x] = IF x < c THEN t[Home(h, e.key, n)][x] ELSE IF x = c THEN e
                                       ELSE t[Home(h, e.key, n)][x - 1]
  PROVE  Holds([t EXCEPT ![Home(h, e.key, n)] = u], h, n, E \cup {e})
<1> DEFINE b0 == Home(h, e.key, n)
           w == [t EXCEPT ![b0] = u]
           o == t[b0]
<1>1. e.key \in HKey /\ b0 \in 1 .. n
  BY HomeIs DEF HEntry
<1>2. /\ t \in [1 .. n -> Seq(HEntry)] /\ E \subseteq HEntry
      /\ \A b \in 1 .. n : \A x \in 1 .. Len(t[b]) : t[b][x] \in E /\ Home(h, t[b][x].key, n) = b
      /\ \A d \in E : \E x \in 1 .. Len(t[Home(h, d.key, n)]) : t[Home(h, d.key, n)][x] = d
      /\ \A b \in 1 .. n : \A x, y \in 1 .. Len(t[b]) : t[b][x].key = t[b][y].key => x = y
  BY DEF Holds
<1>3. /\ w \in [1 .. n -> Seq(HEntry)] /\ w[b0] = u
      /\ \A b \in 1 .. n : b # b0 => w[b] = t[b]
  BY <1>1, <1>2
<1>4. o \in Seq(HEntry) /\ Len(o) \in Nat /\ Len(u) = Len(o) + 1
  BY <1>1, TableIs
<1>5. /\ \A x \in 1 .. Len(o) : o[x] \in E /\ Home(h, o[x].key, n) = b0 /\ o[x].key # e.key
      /\ \A x, y \in 1 .. Len(o) : o[x].key = o[y].key => x = y
  BY <1>1, <1>2
<1>6. \A x \in 1 .. Len(u) : u[x] = IF x < c THEN o[x] ELSE IF x = c THEN e ELSE o[x - 1]
  OBVIOUS
<1> HIDE DEF w, o, b0
<1> DEFINE At(x) == IF x < c THEN x ELSE x - 1
<1>7. \A x \in 1 .. Len(u) : x # c => At(x) \in 1 .. Len(o) /\ u[x] = o[At(x)]
  BY <1>4, <1>6
<1>8. u[c] = e
  BY <1>6
<1>9. \A x, y \in 1 .. Len(u) : x # c /\ y # c /\ At(x) = At(y) => x = y
  BY <1>4
<1> HIDE DEF At
<1>10. ASSUME NEW b \in 1 .. n, NEW x \in 1 .. Len(w[b])
       PROVE  w[b][x] \in E \cup {e} /\ Home(h, w[b][x].key, n) = b
  <2>1. CASE b # b0
    BY <1>2, <1>3, <1>10, <2>1
  <2>2. CASE b = b0 /\ x = c
    BY <1>3, <1>8, <2>2 DEF b0
  <2>3. CASE b = b0 /\ x # c
    <3>1. w[b] = u /\ x \in 1 .. Len(u)
      BY <1>3, <1>10, <2>3
    <3>2. At(x) \in 1 .. Len(o) /\ u[x] = o[At(x)]
      BY <1>7, <2>3, <3>1
    <3>3. o[At(x)] \in E /\ Home(h, o[At(x)].key, n) = b0
      BY <1>5, <3>2
    <3>4. QED
      BY <2>3, <3>1, <3>2, <3>3
  <2>4. QED
    BY <2>1, <2>2, <2>3
<1>11. ASSUME NEW d \in E \cup {e}
       PROVE  \E x \in 1 .. Len(w[Home(h, d.key, n)]) : w[Home(h, d.key, n)][x] = d
  <2>1. CASE d = e
    BY <1>3, <1>8, <2>1 DEF b0
  <2>2. CASE d \in E
    <3> DEFINE b == Home(h, d.key, n)
    <3>1. PICK x \in 1 .. Len(t[b]) : t[b][x] = d
      BY <1>2, <2>2
    <3>2. b \in 1 .. n
      BY <1>2, <2>2, HomeIs DEF HEntry
    <3> HIDE DEF b
    <3>3. CASE b # b0
      BY <1>3, <3>1, <3>2, <3>3 DEF b
    <3>4. CASE b = b0
      <4>1. x \in 1 .. Len(o) /\ o[x] = d
        BY <3>1, <3>4 DEF o
      <4> DEFINE y == IF x < c THEN x ELSE x + 1
      <4>2. y \in 1 .. Len(u) /\ u[y] = o[x]
        BY <1>4, <1>6, <4>1
      <4>3. w[b] = u
        BY <1>3, <3>4
      <4> HIDE DEF y
      <4>4. QED
        BY <4>1, <4>2, <4>3 DEF b
    <3>5. QED
      BY <3>3, <3>4
  <2>3. QED
    BY <2>1, <2>2
<1>12. ASSUME NEW b \in 1 .. n, NEW x \in 1 .. Len(w[b]), NEW y \in 1 .. Len(w[b]), w[b][x].key = w[b][y].key
       PROVE  x = y
  <2>1. CASE b # b0
    <3>1. w[b] = t[b]
      BY <1>3, <2>1
    <3>2. QED
      BY <1>2, <1>12, <3>1
  <2>2. CASE b = b0
    <3>1. x \in 1 .. Len(u) /\ y \in 1 .. Len(u) /\ u[x].key = u[y].key
      BY <1>3, <1>12, <2>2
    <3>2. CASE x = c /\ y # c
      BY <1>5, <1>7, <1>8, <3>1, <3>2
    <3>3. CASE x # c /\ y = c
      BY <1>5, <1>7, <1>8, <3>1, <3>3
    <3>4. CASE x # c /\ y # c
      <4>1. At(x) = At(y)
        <5>1. At(x) \in 1 .. Len(o) /\ u[x] = o[At(x)] /\ At(y) \in 1 .. Len(o) /\ u[y] = o[At(y)]
          BY <1>7, <3>1, <3>4
        <5>2. o[At(x)].key = o[At(y)].key
          BY <3>1, <5>1
        <5>3. QED
          BY <1>5, <5>1, <5>2
      <4>2. QED
        BY <1>9, <3>1, <3>4, <4>1
    <3>5. QED
      BY <3>2, <3>3, <3>4
  <2>3. QED
    BY <2>1, <2>2
<1>13. E \cup {e} \subseteq HEntry
  BY <1>2
<1>14. Holds(w, h, n, E \cup {e})
  BY <1>3, <1>10, <1>11, <1>12, <1>13 DEF Holds
<1>15. QED
  BY <1>14 DEF w, b0

(* ENTER puts it at the end. *)
LEMMA AppendHolds ==
  ASSUME NEW t, NEW h, HashType(h), NEW n \in Nat \ {0}, NEW E, Holds(t, h, n, E),
         NEW e \in HEntry, \A d \in E : d.key # e.key
  PROVE  Holds([t EXCEPT ![Home(h, e.key, n)] = Append(@, e)], h, n, E \cup {e})
<1> DEFINE o == t[Home(h, e.key, n)]
           u == Append(o, e)
<1>1. o \in Seq(HEntry) /\ Len(o) \in Nat
  BY HomeIs, TableIs DEF HEntry
<1>2. u \in Seq(HEntry) /\ Len(u) = Len(o) + 1 /\ Len(o) + 1 \in 1 .. Len(u)
  BY <1>1, AppendProperties
<1>3. \A x \in 1 .. Len(u) : u[x] = IF x < Len(o) + 1 THEN o[x] ELSE IF x = Len(o) + 1 THEN e ELSE o[x - 1]
  BY <1>1, <1>2, AppendProperties
<1> HIDE DEF u
<1>4. Holds([t EXCEPT ![Home(h, e.key, n)] = u], h, n, E \cup {e})
  BY <1>2, <1>3, InsertHolds
<1>5. QED
  BY <1>4 DEF u

(* Rehash puts it in front. *)
LEMMA FrontHolds ==
  ASSUME NEW t, NEW h, HashType(h), NEW n \in Nat \ {0}, NEW E, Holds(t, h, n, E),
         NEW e \in HEntry, \A d \in E : d.key # e.key
  PROVE  Holds([t EXCEPT ![Home(h, e.key, n)] = <<e>> \o @], h, n, E \cup {e})
<1> DEFINE o == t[Home(h, e.key, n)]
           u == <<e>> \o o
<1>1. o \in Seq(HEntry) /\ Len(o) \in Nat
  BY HomeIs, TableIs DEF HEntry
<1>2. <<e>> \in Seq(HEntry) /\ Len(<<e>>) = 1 /\ <<e>>[1] = e
  OBVIOUS
<1>3. /\ u \in Seq(HEntry) /\ Len(u) = 1 + Len(o)
      /\ \A x \in 1 .. Len(<<e>>) + Len(o) : u[x] = IF x <= Len(<<e>>) THEN <<e>>[x] ELSE o[x - Len(<<e>>)]
  BY <1>1, <1>2, ConcatProperties
<1>4. Len(u) = Len(o) + 1 /\ 1 \in 1 .. Len(u)
  BY <1>1, <1>3
<1>5. \A x \in 1 .. Len(u) : u[x] = IF x < 1 THEN o[x] ELSE IF x = 1 THEN e ELSE o[x - 1]
  BY <1>1, <1>2, <1>3
<1> HIDE DEF u
<1>6. Holds([t EXCEPT ![Home(h, e.key, n)] = u], h, n, E \cup {e})
  BY <1>3, <1>4, <1>5, InsertHolds
<1>7. QED
  BY <1>6 DEF u

(* The loop of Rehash over one bucket. *)
PlaceAll(t, old) ==
  LET each[i \in 0 .. Len(old)] == IF i = 0 THEN t ELSE Place(each[i - 1], old[i])
  IN  each[Len(old)]

(* It has its turns. *)
LEMMA PlaceAllRuns ==
  ASSUME NEW t, NEW old, Len(old) \in Nat
  PROVE  \E q : /\ PlaceAll(t, old) = q[Len(old)] /\ q[0] = t
                /\ \A k \in 1 .. Len(old) : q[k] = Place(q[k - 1], old[k])
<1> DEFINE Next1(q, k) == IF k = 0 THEN t ELSE Place(q[k - 1], old[k])
           Run(q, m) == q = [k \in 0 .. m |-> Next1(q, k)]
           T == {m \in Nat : ~ \E q : Run(q, m)}
<1>2. T = {}
  <2> SUFFICES ASSUME T # {} PROVE FALSE
    OBVIOUS
  <2>1. PICK m \in T : \A y \in T : m <= y
    BY LeastExists
  <2>2. m \in Nat /\ ~ \E q : Run(q, m)
    OBVIOUS
  <2>3. CASE m = 0
    <3> DEFINE q == [k \in 0 .. 0 |-> t]
    <3>1. \A k \in 0 .. 0 : k = 0
      OBVIOUS
    <3>2. Run(q, 0)
      BY <3>1, Zenon
    <3>3. QED
      BY <2>2, <2>3, <3>2, Zenon
  <2>4. CASE m # 0
    <3>1. m - 1 \in Nat /\ ~(m <= m - 1)
      BY <2>2, <2>4
    <3>2. PICK p : Run(p, m - 1)
      BY <2>1, <3>1
    <3> DEFINE q == [k \in 0 .. m |-> IF k = m THEN Place(p[m - 1], old[m]) ELSE p[k]]
    <3>3. ASSUME NEW k \in 0 .. m PROVE q[k] = Next1(q, k)
      <4>1. CASE k = m
        <5>1. m - 1 \in 0 .. m /\ m - 1 # m
          BY <2>2, <2>4, <3>1
        <5>2. q[m - 1] = p[m - 1]
          BY <5>1
        <5>3. QED
          BY <2>4, <4>1, <5>2, Zenon
      <4>2. CASE k # m
        <5>1. k \in 0 .. m - 1 /\ (k # 0 => k - 1 \in 0 .. m /\ k - 1 # m)
          BY <2>2, <4>2
        <5>2. p[k] = Next1(p, k) /\ q[k] = p[k]
          BY <3>2, <4>2, <5>1, Zenon
        <5>3. k # 0 => q[k - 1] = p[k - 1]
          BY <5>1
        <5>4. QED
          BY <5>2, <5>3, Zenon
      <4>3. QED
        BY <4>1, <4>2, Zenon
    <3> HIDE DEF Next1
    <3>4. q = [k \in 0 .. m |-> q[k]]
      BY Zenon
    <3> HIDE DEF q
    <3>5. Run(q, m)
      BY <3>3, <3>4, Zenon
    <3>6. QED
      BY <2>2, <3>5, Zenon
  <2>5. QED
    BY <2>3, <2>4
<1> DEFINE f0 == CHOOSE q : Run(q, Len(old))
<1>3. Run(f0, Len(old))
  <2>1. \E q : Run(q, Len(old))
    BY <1>2
  <2> HIDE DEF Run
  <2>2. QED
    BY <2>1, Zenon
<1>4. PlaceAll(t, old) = f0[Len(old)]
  BY Zenon DEF PlaceAll
<1> HIDE DEF f0
<1>5. 0 \in 0 .. Len(old) /\ \A k \in 1 .. Len(old) : k \in 0 .. Len(old) /\ k # 0
  OBVIOUS
<1>6. \A k \in 0 .. Len(old) : f0[k] = Next1(f0, k)
  BY <1>3, Zenon
<1>7. f0[0] = t /\ \A k \in 1 .. Len(old) : f0[k] = Place(f0[k - 1], old[k])
  BY <1>5, <1>6, Zenon
<1>8. QED
  BY <1>4, <1>7, Zenon

(* The loop over the buckets. *)
LEMMA RehashRuns ==
  ASSUME NEW n, Len(htab) \in Nat
  PROVE  \E q : /\ Rehash(n) = q[Len(htab)] /\ q[0] = [c \in 1 .. n |-> <<>>]
                /\ \A k \in 1 .. Len(htab) : q[k] = PlaceAll(q[k - 1], htab[k])
<1> DEFINE t == [c \in 1 .. n |-> <<>>]
           Next1(q, k) == IF k = 0 THEN t ELSE PlaceAll(q[k - 1], htab[k])
           Run(q, m) == q = [k \in 0 .. m |-> Next1(q, k)]
           T == {m \in Nat : ~ \E q : Run(q, m)}
<1>2. T = {}
  <2> SUFFICES ASSUME T # {} PROVE FALSE
    OBVIOUS
  <2>1. PICK m \in T : \A y \in T : m <= y
    BY LeastExists
  <2>2. m \in Nat /\ ~ \E q : Run(q, m)
    OBVIOUS
  <2>3. CASE m = 0
    <3> DEFINE q == [k \in 0 .. 0 |-> t]
    <3>1. \A k \in 0 .. 0 : k = 0
      OBVIOUS
    <3> HIDE DEF t
    <3>2. Run(q, 0)
      BY <3>1, Zenon
    <3>3. QED
      BY <2>2, <2>3, <3>2, Zenon
  <2>4. CASE m # 0
    <3>1. m - 1 \in Nat /\ ~(m <= m - 1)
      BY <2>2, <2>4
    <3>2. PICK p : Run(p, m - 1)
      BY <2>1, <3>1
    <3> DEFINE q == [k \in 0 .. m |-> IF k = m THEN PlaceAll(p[m - 1], htab[m]) ELSE p[k]]
    <3>3. ASSUME NEW k \in 0 .. m PROVE q[k] = Next1(q, k)
      <4>1. CASE k = m
        <5>1. m - 1 \in 0 .. m /\ m - 1 # m
          BY <2>2, <2>4, <3>1
        <5>2. q[m - 1] = p[m - 1]
          BY <5>1
        <5>3. QED
          BY <2>4, <4>1, <5>2, Zenon
      <4>2. CASE k # m
        <5>1. k \in 0 .. m - 1 /\ (k # 0 => k - 1 \in 0 .. m /\ k - 1 # m)
          BY <2>2, <4>2
        <5>2. p[k] = Next1(p, k) /\ q[k] = p[k]
          BY <3>2, <4>2, <5>1, Zenon
        <5>3. k # 0 => q[k - 1] = p[k - 1]
          BY <5>1
        <5>4. QED
          BY <5>2, <5>3, Zenon
      <4>3. QED
        BY <4>1, <4>2, Zenon
    <3> HIDE DEF Next1
    <3>4. q = [k \in 0 .. m |-> q[k]]
      BY Zenon
    <3> HIDE DEF q
    <3>5. Run(q, m)
      BY <3>3, <3>4, Zenon
    <3>6. QED
      BY <2>2, <3>5, Zenon
  <2>5. QED
    BY <2>3, <2>4
<1> DEFINE f0 == CHOOSE q : Run(q, Len(htab))
<1>3. Run(f0, Len(htab))
  <2>1. \E q : Run(q, Len(htab))
    BY <1>2
  <2> HIDE DEF Run
  <2>2. QED
    BY <2>1, Zenon
<1>4. Rehash(n) = f0[Len(htab)]
  BY Zenon DEF Rehash, PlaceAll
<1> HIDE DEF f0
<1>5. 0 \in 0 .. Len(htab) /\ \A k \in 1 .. Len(htab) : k \in 0 .. Len(htab) /\ k # 0
  OBVIOUS
<1>6. \A k \in 0 .. Len(htab) : f0[k] = Next1(f0, k)
  BY <1>3, Zenon
<1>7. f0[0] = t /\ \A k \in 1 .. Len(htab) : f0[k] = PlaceAll(f0[k - 1], htab[k])
  BY <1>5, <1>6, Zenon
<1>8. QED
  BY <1>4, <1>7, Zenon

(* One turn of the loop of Rehash. *)
LEMMA PlaceHolds ==
  ASSUME HashType(hv), NEW t, NEW n \in Nat \ {0}, NEW E, Holds(t, hv, n, E),
         NEW e \in HEntry, \A d \in E : d.key # e.key
  PROVE  Holds(Place(t, e), hv, n, E \cup {e})
<1>1. Len(t) = n
  BY TableIs
<1>2. Place(t, e) = [t EXCEPT ![Home(hv, e.key, n)] = <<e>> \o @]
  BY <1>1 DEF Place, Bucket, Home
<1>3. Holds([t EXCEPT ![Home(hv, e.key, n)] = <<e>> \o @], hv, n, E \cup {e})
  BY FrontHolds
<1>4. QED
  BY <1>2, <1>3, Zenon

(* The entries of a list with other keys than those there. *)
LEMMA PlaceAllHolds ==
  ASSUME HashType(hv), NEW t, NEW n \in Nat \ {0}, NEW E, Holds(t, hv, n, E),
         NEW old \in Seq(HEntry), \A x \in 1 .. Len(old) : \A d \in E : d.key # old[x].key,
         \A x, y \in 1 .. Len(old) : old[x].key = old[y].key => x = y
  PROVE  Holds(PlaceAll(t, old), hv, n, E \cup {old[x] : x \in 1 .. Len(old)})
<1>1. Len(old) \in Nat /\ \A x \in 1 .. Len(old) : old[x] \in HEntry
  BY ElementOfSeq, LenProperties
<1>2. PICK q : /\ PlaceAll(t, old) = q[Len(old)] /\ q[0] = t
               /\ \A k \in 1 .. Len(old) : q[k] = Place(q[k - 1], old[k])
  BY <1>1, PlaceAllRuns
<1> DEFINE D(k) == E \cup {old[x] : x \in 1 .. k}
           S == {k \in 0 .. Len(old) : Holds(q[k], hv, n, D(k))}
<1>3. 0 \in S
  <2>1. D(0) = E /\ 0 \in 0 .. Len(old)
    BY <1>1
  <2>2. QED
    BY <1>2, <2>1
<1>4. ASSUME NEW k \in 1 .. Len(old), k - 1 \in S PROVE k \in S
  <2>1. Holds(q[k - 1], hv, n, D(k - 1))
    BY <1>4
  <2>2. \A d \in D(k - 1) : d.key # old[k].key
    <3>1. ASSUME NEW x \in 1 .. k - 1 PROVE old[x].key # old[k].key
      <4>1. x \in 1 .. Len(old) /\ x # k
        BY <1>1
      <4>2. QED
        BY <4>1
    <3>2. QED
      BY <3>1
  <2>3. D(k) = D(k - 1) \cup {old[k]}
    <3>1. 1 .. k = (1 .. k - 1) \cup {k}
      BY <1>1
    <3>2. QED
      BY <3>1
  <2>4. old[k] \in HEntry /\ k \in 0 .. Len(old)
    BY <1>1
  <2> HIDE DEF D
  <2>5. Holds(Place(q[k - 1], old[k]), hv, n, D(k - 1) \cup {old[k]})
    BY <2>1, <2>2, <2>4, PlaceHolds
  <2>6. Holds(q[k], hv, n, D(k))
    BY <1>2, <2>3, <2>5
  <2>7. QED
    BY <2>4, <2>6
<1> HIDE DEF S
<1>5. Len(old) \in S
  BY <1>1, <1>3, <1>4, AllTurns
<1>6. QED
  BY <1>2, <1>5 DEF S

(* calloc makes a table of nothing. *)
LEMMA EmptyHolds ==
  ASSUME NEW h, NEW n \in Nat \ {0}
  PROVE  Holds([b \in 1 .. n |-> <<>>], h, n, {})
BY DEF Holds

(* Growing keeps what the table holds. *)
LEMMA RehashHolds ==
  ASSUME HashType(hv), NEW n \in Nat \ {0}, NEW E, Len(htab) \in Nat \ {0}, Holds(htab, hv, Len(htab), E)
  PROVE  Holds(Rehash(n), hv, n, E)
<1> DEFINE Size == Len(htab)
           D(k) == {d \in E : Home(hv, d.key, Size) <= k}
<1>1. PICK q : /\ Rehash(n) = q[Size] /\ q[0] = [c \in 1 .. n |-> <<>>]
               /\ \A k \in 1 .. Size : q[k] = PlaceAll(q[k - 1], htab[k])
  BY RehashRuns
<1> DEFINE S == {k \in 0 .. Size : Holds(q[k], hv, n, D(k))}
<1>2. \A d \in E : d \in HEntry /\ d.key \in HKey /\ Home(hv, d.key, Size) \in 1 .. Size
  BY HomeIs DEF Holds, HEntry
<1>3. Size \in Nat \ {0}
  OBVIOUS
<1> HIDE DEF Size
<1>4. 0 \in S
  <2>1. D(0) = {} /\ 0 \in 0 .. Size
    BY <1>2, <1>3
  <2> HIDE DEF D
  <2>2. Holds(q[0], hv, n, D(0))
    BY <1>1, <2>1, EmptyHolds
  <2>3. QED
    BY <2>1, <2>2
<1>5. ASSUME NEW k \in 1 .. Size, k - 1 \in S PROVE k \in S
  <2> DEFINE old == htab[k]
  <2>1. Holds(q[k - 1], hv, n, D(k - 1))
    BY <1>5
  <2>2. old \in Seq(HEntry) /\ k \in 0 .. Size /\ Len(old) \in Nat
    BY <1>3, TableIs DEF Size
  <2>3. /\ \A x \in 1 .. Len(old) : old[x] \in E /\ Home(hv, old[x].key, Size) = k
        /\ \A x, y \in 1 .. Len(old) : old[x].key = old[y].key => x = y
        /\ \A e \in E : Home(hv, e.key, Size) = k => \E x \in 1 .. Len(old) : old[x] = e
    BY DEF Holds, Size
  <2>4. ASSUME NEW x \in 1 .. Len(old), NEW d \in D(k - 1) PROVE d.key # old[x].key
    <3>1. Home(hv, d.key, Size) <= k - 1 /\ Home(hv, d.key, Size) \in 1 .. Size
      BY <1>2
    <3>2. Home(hv, d.key, Size) # k
      BY <1>3, <3>1
    <3>3. QED
      BY <2>3, <3>2
  <2>5. D(k) = D(k - 1) \cup {old[x] : x \in 1 .. Len(old)}
    <3>1. ASSUME NEW d \in D(k) PROVE d \in D(k - 1) \cup {old[x] : x \in 1 .. Len(old)}
      <4>1. d \in E /\ Home(hv, d.key, Size) <= k /\ Home(hv, d.key, Size) \in 1 .. Size
        BY <1>2
      <4>2. CASE Home(hv, d.key, Size) = k
        BY <2>3, <4>1, <4>2
      <4>3. CASE Home(hv, d.key, Size) # k
        BY <1>3, <4>1, <4>3
      <4>4. QED
        BY <4>2, <4>3
    <3>2. ASSUME NEW d \in D(k - 1) PROVE d \in D(k)
      <4>1. d \in E /\ Home(hv, d.key, Size) <= k - 1 /\ Home(hv, d.key, Size) \in 1 .. Size
        BY <1>2
      <4>2. QED
        BY <1>3, <4>1
    <3>3. ASSUME NEW x \in 1 .. Len(old) PROVE old[x] \in D(k)
      <4>1. old[x] \in E /\ Home(hv, old[x].key, Size) = k
        BY <2>3
      <4>2. QED
        BY <1>3, <4>1
    <3>4. QED
      BY <3>1, <3>2, <3>3
  <2> HIDE DEF D, old
  <2>6. Holds(PlaceAll(q[k - 1], old), hv, n, D(k - 1) \cup {old[x] : x \in 1 .. Len(old)})
    <3> DEFINE F == D(k - 1)
               t == q[k - 1]
    <3>1. Holds(t, hv, n, F) /\ old \in Seq(HEntry)
      BY <2>1, <2>2
    <3>2. \A x \in 1 .. Len(old) : \A d \in F : d.key # old[x].key
      BY <2>4
    <3>3. \A x, y \in 1 .. Len(old) : old[x].key = old[y].key => x = y
      BY <2>3
    <3> HIDE DEF F, t
    <3>4. Holds(PlaceAll(t, old), hv, n, F \cup {old[x] : x \in 1 .. Len(old)})
      BY <3>1, <3>2, <3>3, PlaceAllHolds
    <3>5. QED
      BY <3>4 DEF F, t
  <2>7. q[k] = PlaceAll(q[k - 1], old)
    BY <1>1 DEF old
  <2>8. Holds(q[k], hv, n, D(k))
    BY <2>5, <2>6, <2>7
  <2>9. QED
    BY <2>2, <2>8
<1> HIDE DEF S
<1>6. Size \in S
  BY <1>3, <1>4, <1>5, AllTurns
<1>7. D(Size) = E
  BY <1>2, <1>3
<1> HIDE DEF D
<1>8. QED
  BY <1>1, <1>6, <1>7 DEF S

(* The size it grows to. *)
LEMMA LargerIs ==
  ASSUME Len(htab) \in Nat, Len(htab) < Primes[Len(Primes)]
  PROVE  Larger \in Nat \ {0}
<1>1. /\ \A x \in 1 .. Len(Primes) : Primes[x] \in Nat \ {0}
      /\ Len(Primes) \in 1 .. Len(Primes)
  BY HsearchAssumption
<1> DEFINE P == {Primes[x] : x \in 1 .. Len(Primes)}
           T == {p \in P : p > Len(htab)}
<1>2. P \subseteq Nat \ {0} /\ T \in SUBSET Nat /\ T # {}
  BY <1>1
<1>3. PICK p \in T : \A y \in T : p <= y
  BY <1>2, LeastExists
<1> DEFINE Good(r) == r \in P /\ r > Len(htab) /\ \A x \in 1 .. Len(Primes) : Primes[x] > Len(htab) => r <= Primes[x]
<1>4. Good(p)
  BY <1>3
<1>5. Larger = CHOOSE r \in P : r > Len(htab) /\ \A x \in 1 .. Len(Primes) : Primes[x] > Len(htab) => r <= Primes[x]
  BY Zenon DEF Larger
<1> HIDE DEF P
<1>6. Larger \in P
  BY <1>4, <1>5, Zenon
<1>7. QED
  BY <1>2, <1>6

(* What a table says of a key. *)
HitsIn(t, h, k) == {x \in 1 .. Len(t[Home(h, k, Len(t))]) : t[Home(h, k, Len(t))][x].key = k}
EntryIn(t, h, k) ==
  IF t = <<>> \/ HitsIn(t, h, k) = {} THEN HNone
  ELSE t[Home(h, k, Len(t))][CHOOSE x \in HitsIn(t, h, k) : \A y \in HitsIn(t, h, k) : x <= y].val

(* It is what the refinement maps to. *)
LEMMA EntryView ==
  /\ \A k : Matches(k) = HitsIn(htab, hv, k)
  /\ \A k : Entry(k) = EntryIn(htab, hv, k) /\ Entry(k)' = EntryIn(htab', hv', k)
<1>1. /\ \A k : Matches(k) = HitsIn(htab, hv, k)
      /\ \A k : Matches(k)' = HitsIn(htab', hv', k)
  BY DEF Matches, HitsIn, Bucket, Home
<1>2. /\ \A k : Entry(k) = EntryIn(htab, hv, k)
      /\ \A k : Entry(k)' = EntryIn(htab', hv', k)
  BY DEF Entry, EntryIn, Matches, HitsIn, Bucket, Home
<1>3. QED
  BY <1>1, <1>2

(* It finds the entry of the key, and only that. *)
LEMMA EntryFound ==
  ASSUME NEW t, NEW h, HashType(h), NEW n \in Nat \ {0}, NEW E, Holds(t, h, n, E), NEW e \in E
  PROVE  /\ HitsIn(t, h, e.key) # {} /\ EntryIn(t, h, e.key) = e.val
         /\ \A x \in HitsIn(t, h, e.key) : t[Home(h, e.key, Len(t))][x].val = e.val
<1> DEFINE k == e.key
           o == t[Home(h, k, n)]
<1>1. Len(t) = n /\ t # <<>>
  BY TableIs
<1>2. e \in HEntry /\ k \in HKey
  BY DEF Holds, HEntry
<1>3. Home(h, k, n) \in 1 .. n
  BY <1>2, HomeIs
<1>4. PICK c \in 1 .. Len(o) : o[c] = e
  BY DEF Holds
<1>5. Len(o) \in Nat /\ \A x, y \in 1 .. Len(o) : o[x].key = o[y].key => x = y
  BY <1>3, TableIs DEF Holds
<1> DEFINE M == HitsIn(t, h, k)
<1>6. M = {x \in 1 .. Len(o) : o[x].key = k}
  BY <1>1 DEF HitsIn
<1> HIDE DEF o
<1>7. M = {c}
  BY <1>4, <1>5, <1>6
<1> HIDE DEF M
<1> DEFINE x0 == CHOOSE x \in M : \A y \in M : x <= y
<1>8. c \in Nat /\ c <= c
  BY <1>5
<1>9. x0 = c
  <2>1. \E x \in M : \A y \in M : x <= y
    BY <1>7, <1>8
  <2>2. x0 \in M
    BY <2>1, Zenon
  <2>3. QED
    BY <1>7, <2>2
<1>10. EntryIn(t, h, k) = o[x0].val
  BY <1>1, <1>7, Zenon DEF EntryIn, M, o
<1>11. QED
  BY <1>1, <1>4, <1>7, <1>9, <1>10 DEF M, o

(* The value of an entry that is held. *)
LEMMA EntryValue ==
  ASSUME NEW t, NEW h, HashType(h), NEW n \in Nat \ {0}, NEW E, Holds(t, h, n, E), NEW e \in E, NEW k, k = e.key
  PROVE  EntryIn(t, h, k) = e.val
<1>1. EntryIn(t, h, e.key) = e.val
  BY EntryFound
<1>2. QED
  BY <1>1

(* There is none for a key that no entry has. *)
LEMMA EntryMissing ==
  ASSUME NEW t, NEW h, HashType(h), NEW n \in Nat \ {0}, NEW E, Holds(t, h, n, E),
         NEW k \in HKey, \A e \in E : e.key # k
  PROVE  HitsIn(t, h, k) = {} /\ EntryIn(t, h, k) = HNone
<1>1. Len(t) = n /\ Home(h, k, n) \in 1 .. n
  BY TableIs, HomeIs
<1>2. \A x \in 1 .. Len(t[Home(h, k, n)]) : t[Home(h, k, n)][x].key # k
  BY <1>1 DEF Holds
<1>3. HitsIn(t, h, k) = {}
  BY <1>1, <1>2 DEF HitsIn
<1>4. QED
  BY <1>3 DEF EntryIn

(* Tables that hold the same say the same. *)
LEMMA SameEntries ==
  ASSUME NEW t, NEW h, HashType(h), NEW n \in Nat \ {0}, NEW E, Holds(t, h, n, E),
         NEW w, NEW m \in Nat \ {0}, Holds(w, h, m, E), NEW k \in HKey
  PROVE  EntryIn(w, h, k) = EntryIn(t, h, k)
<1>1. CASE \E e \in E : e.key = k
  <2>1. PICK e \in E : e.key = k
    BY <1>1
  <2>2. EntryIn(w, h, k) = e.val
    BY <2>1, EntryValue, Zenon
  <2>3. EntryIn(t, h, k) = e.val
    BY <2>1, EntryValue, Zenon
  <2>4. QED
    BY <2>2, <2>3
<1>2. CASE ~ \E e \in E : e.key = k
  <2>1. EntryIn(w, h, k) = HNone
    BY <1>2, EntryMissing, Zenon
  <2>2. EntryIn(t, h, k) = HNone
    BY <1>2, EntryMissing, Zenon
  <2>3. QED
    BY <2>1, <2>2
<1>3. QED
  BY <1>1, <1>2

(* What one more entry changes. *)
LEMMA OneMoreEntry ==
  ASSUME NEW t, NEW h, HashType(h), NEW n \in Nat \ {0}, NEW E, Holds(t, h, n, E), NEW e \in HEntry,
         NEW w, NEW m \in Nat \ {0}, Holds(w, h, m, E \cup {e}), NEW k \in HKey
  PROVE  EntryIn(w, h, k) = IF k = e.key THEN e.val ELSE EntryIn(t, h, k)
<1>1. CASE k = e.key
  <2>1. e \in E \cup {e}
    OBVIOUS
  <2>2. EntryIn(w, h, k) = e.val
    BY <1>1, <2>1, EntryValue, ZenonT(40)
  <2>3. QED
    BY <1>1, <2>2
<1>2. CASE k # e.key /\ \E d \in E : d.key = k
  <2>1. PICK d \in E : d.key = k
    BY <1>2
  <2>2. EntryIn(t, h, k) = d.val
    BY <2>1, EntryValue, Zenon
  <2>3. EntryIn(w, h, k) = d.val
    <3>1. d \in E \cup {e}
      OBVIOUS
    <3>2. QED
      BY <2>1, <3>1, EntryValue, Zenon
  <2>4. QED
    BY <1>2, <2>2, <2>3
<1>3. CASE k # e.key /\ ~ \E d \in E : d.key = k
  <2>1. EntryIn(t, h, k) = HNone
    BY <1>3, EntryMissing, Zenon
  <2>2. \A d \in E \cup {e} : d.key # k
    BY <1>3
  <2>3. EntryIn(w, h, k) = HNone
    BY <2>2, EntryMissing, Zenon
  <2>4. QED
    BY <1>3, <2>1, <2>3
<1>4. QED
  BY <1>1, <1>2, <1>3

(* The table, when there is one, holds some set of entries. *)
HInv ==
  /\ HashType(hv) /\ filled \in Nat
  /\ htab = <<>> \/ (Len(htab) \in Nat \ {0} /\ \E E : Holds(htab, hv, Len(htab), E))

(* What a call does to the dictionary. *)
HStep ==
  LET Was(k) == EntryIn(htab, hv, k)
      Is(k) == EntryIn(htab', hv', k)
  IN  \/ \E k \in HKey : found' = Was(k) /\ \A m \in HKey : Is(m) = Was(m)
      \/ found' = found /\ \A m \in HKey : Is(m) = Was(m)
      \/ found' = found /\ \A m \in HKey : Is(m) = HNone
      \/ \E k \in HKey, w \in HValue :
           Was(k) = HNone /\ found' = w /\ \A m \in HKey : Is(m) = IF m = k THEN w ELSE Was(m)

(* hcreate, or its failure. *)
LEMMA HCreateStep ==
  ASSUME HInv, NEW count \in Counts, HCreate(count)
  PROVE  HInv' /\ HStep
<1>1. count \in Nat \ {0} /\ HashType(hv)
  BY HsearchAssumption DEF HInv
<1>2. htab' = [b \in 1 .. count |-> <<>>] /\ filled' = 0 /\ hv' = hv /\ found' = found
  BY DEF HCreate
<1>3. Holds(htab', hv', count, {})
  BY <1>1, <1>2, EmptyHolds
<1>4. Len(htab') = count
  BY <1>1, <1>3, TableIs
<1>5. HInv'
  BY <1>1, <1>2, <1>3, <1>4 DEF HInv
<1>6. ASSUME NEW m \in HKey PROVE EntryIn(htab', hv', m) = HNone
  BY <1>1, <1>2, <1>3, EntryMissing
<1>7. ASSUME NEW m \in HKey PROVE EntryIn(htab, hv, m) = HNone
  <2>1. CASE htab = <<>>
    BY <2>1 DEF EntryIn
  <2>2. CASE htab # <<>>
    <3>1. PICK E : Len(htab) \in Nat \ {0} /\ Holds(htab, hv, Len(htab), E)
      BY <2>2 DEF HInv
    <3>2. \A b \in 1 .. Len(htab) : htab[b] = <<>>
      BY <3>1, TableIs DEF HCreate
    <3>3. Home(hv, m, Len(htab)) \in 1 .. Len(htab)
      BY <1>1, <3>1, HomeIs
    <3>4. HitsIn(htab, hv, m) = {}
      BY <3>2, <3>3 DEF HitsIn
    <3>5. QED
      BY <3>4 DEF EntryIn
  <2>3. QED
    BY <2>1, <2>2
<1>8. QED
  BY <1>2, <1>5, <1>6, <1>7 DEF HStep

(* FIND, and ENTER of a key that is there. *)
LEMMA HFindStep ==
  ASSUME HInv, NEW k \in HKey, Found(k) \/ FindFails(k)
  PROVE  HInv' /\ HStep
<1>1. htab' = htab /\ filled' = filled /\ hv' = hv /\ htab # <<>>
  BY DEF Found, FindFails
<1>2. HInv'
  BY <1>1 DEF HInv
<1>3. PICK E : Len(htab) \in Nat \ {0} /\ Holds(htab, hv, Len(htab), E) /\ HashType(hv)
  BY <1>1 DEF HInv
<1>4. found' = EntryIn(htab, hv, k)
  <2>1. CASE \E e \in E : e.key = k
    <3>1. PICK e \in E : e.key = k
      BY <2>1
    <3>2. /\ HitsIn(htab, hv, k) # {} /\ EntryIn(htab, hv, k) = e.val
          /\ \A x \in HitsIn(htab, hv, k) : htab[Home(hv, k, Len(htab))][x].val = e.val
      BY <1>3, <3>1, EntryFound
    <3>3. Matches(k) = HitsIn(htab, hv, k)
      BY EntryView
    <3>4. Found(k)
      BY <3>2, <3>3 DEF FindFails
    <3>5. PICK x \in Matches(k) : found' = htab[Bucket(k, Len(htab))][x].val
      BY <3>4, Zenon DEF Found
    <3>6. QED
      BY <3>2, <3>3, <3>5 DEF Bucket, Home
  <2>2. CASE ~ \E e \in E : e.key = k
    <3>1. HitsIn(htab, hv, k) = {} /\ EntryIn(htab, hv, k) = HNone
      BY <1>3, <2>2, EntryMissing
    <3>2. FindFails(k)
      BY <3>1, EntryView DEF Found
    <3>3. QED
      BY <3>1, <3>2 DEF FindFails
  <2>3. QED
    BY <2>1, <2>2
<1>5. \A m \in HKey : EntryIn(htab', hv', m) = EntryIn(htab, hv, m)
  BY <1>1
<1>6. QED
  BY <1>2, <1>4, <1>5 DEF HStep

(* ENTER of a new key, with the table grown before or not, and its failures. *)
LEMMA HEnterStep ==
  ASSUME HInv, NEW k \in HKey, NEW w \in HValue, EnterNew(k, w)
  PROVE  HInv' /\ HStep
<1>1. htab # <<>> /\ Matches(k) = {} /\ hv' = hv
  BY DEF EnterNew
<1>2. PICK E : Len(htab) \in Nat \ {0} /\ Holds(htab, hv, Len(htab), E) /\ HashType(hv)
  BY <1>1 DEF HInv
<1>3. \A d \in E : d.key # k
  BY <1>1, <1>2, EntryFound, EntryView
<1>4. EntryIn(htab, hv, k) = HNone
  BY <1>2, <1>3, EntryMissing
<1> DEFINE e == [key |-> k, val |-> w]
<1>5. PICK table \in Tables :
        \/ /\ htab' = [table EXCEPT ![Bucket(k, Len(table))] = Append(@, e)]
           /\ filled' = filled + 1 /\ found' = w
        \/ htab' = table /\ found' = HNone /\ UNCHANGED filled
  BY DEF EnterNew
<1>6. e \in HEntry /\ e.key = k /\ e.val = w
  BY DEF HEntry
<1> HIDE DEF e
<1>7. PICK n \in Nat \ {0} : Holds(table, hv, n, E)
  <2>1. CASE table = htab
    BY <1>2, <2>1
  <2>2. CASE table # htab
    <3>1. table = Rehash(Larger) /\ Len(htab) < Primes[Len(Primes)]
      BY <2>2 DEF Tables
    <3>2. Larger \in Nat \ {0}
      BY <1>2, <3>1, LargerIs
    <3>3. Holds(Rehash(Larger), hv, Larger, E)
      BY <1>2, <3>2, RehashHolds
    <3>4. QED
      BY <3>1, <3>2, <3>3
  <2>3. QED
    BY <2>1, <2>2
<1>8. Len(table) = n
  BY <1>7, TableIs
<1>9. CASE htab' = [table EXCEPT ![Bucket(k, Len(table))] = Append(@, e)] /\ filled' = filled + 1 /\ found' = w
  <2>1. Holds([table EXCEPT ![Home(hv, e.key, n)] = Append(@, e)], hv, n, E \cup {e})
    BY <1>2, <1>3, <1>6, <1>7, AppendHolds
  <2>2. htab' = [table EXCEPT ![Home(hv, e.key, n)] = Append(@, e)]
    BY <1>6, <1>8, <1>9 DEF Bucket, Home
  <2>3. Holds(htab', hv', n, E \cup {e})
    BY <1>1, <2>1, <2>2, Zenon
  <2>4. Len(htab') = n
    BY <1>7, <2>3, TableIs
  <2>5. HInv'
    BY <1>1, <1>2, <1>7, <1>9, <2>3, <2>4 DEF HInv
  <2>6. ASSUME NEW m \in HKey PROVE EntryIn(htab', hv', m) = IF m = k THEN w ELSE EntryIn(htab, hv, m)
    BY <1>1, <1>2, <1>6, <1>7, <2>3, OneMoreEntry
  <2>7. QED
    BY <1>4, <1>9, <2>5, <2>6 DEF HStep
<1>10. CASE htab' = table /\ found' = HNone /\ UNCHANGED filled
  <2>1. HInv'
    BY <1>1, <1>2, <1>7, <1>8, <1>10 DEF HInv
  <2>2. ASSUME NEW m \in HKey PROVE EntryIn(htab', hv', m) = EntryIn(htab, hv, m)
    BY <1>1, <1>2, <1>7, <1>10, SameEntries
  <2>3. QED
    BY <1>4, <1>10, <2>1, <2>2 DEF HStep
<1>11. QED
  BY <1>5, <1>9, <1>10

(* hdestroy. *)
LEMMA HDestroyStep ==
  ASSUME HInv, HDestroy
  PROVE  HInv' /\ HStep
<1>1. htab # <<>> /\ htab' = [b \in 1 .. Len(htab) |-> <<>>] /\ UNCHANGED <<filled, hv, found>>
  BY DEF HDestroy
<1>2. Len(htab) \in Nat \ {0} /\ HashType(hv)
  BY <1>1 DEF HInv
<1>3. Holds(htab', hv', Len(htab), {})
  BY <1>1, <1>2, EmptyHolds
<1>4. Len(htab') = Len(htab)
  BY <1>2, <1>3, TableIs
<1>5. HInv'
  BY <1>1, <1>2, <1>3, <1>4 DEF HInv
<1>6. ASSUME NEW m \in HKey PROVE EntryIn(htab', hv', m) = HNone
  BY <1>1, <1>2, <1>3, EntryMissing
<1>7. QED
  BY <1>1, <1>5, <1>6 DEF HStep

(* ImplementsDict.  hcreate, hsearch and hdestroy on the buckets are the   *)
(* operations of a dictionary, for any hashes and sizes and with failing   *)
(* allocations: a table that grows moves every entry, once, to where it    *)
(* will be looked for.                                                     *)
THEOREM TableIsADictionary == HSpec => ImplementsDict
<1> DEFINE d == [k \in HKey |-> Entry(k)]
<1>1. HInit => HInv
  <2> SUFFICES ASSUME HInit PROVE HInv
    OBVIOUS
  <2>1. hv \in [HKey -> Nat] /\ filled \in Nat /\ htab = <<>>
    BY HsearchAssumption DEF HInit
  <2>2. QED
    BY <2>1 DEF HInv, HashType
<1>2. HInit => TableDict!DictInit
  <2> SUFFICES ASSUME HInit PROVE d \in [HKey -> HValue \cup {HNone}] /\ found = HNone
    BY DEF TableDict!DictInit
  <2>1. \A k \in HKey : Entry(k) = HNone
    BY DEF HInit, Entry
  <2>2. QED
    BY <2>1 DEF HInit
<1>3. HInv /\ [HNext]_hvars => HInv' /\ [TableDict!DictNext]_<<d, found>>
  <2> SUFFICES ASSUME HInv, [HNext]_hvars PROVE HInv' /\ [TableDict!DictNext]_<<d, found>>
    OBVIOUS
  <2>1. HInv' /\ HStep
    <3>1. CASE UNCHANGED hvars
      <4>1. UNCHANGED <<htab, filled, hv, found>>
        BY <3>1 DEF hvars
      <4>2. HInv'
        BY <4>1 DEF HInv
      <4>3. \A m \in HKey : EntryIn(htab', hv', m) = EntryIn(htab, hv, m)
        BY <4>1
      <4>4. QED
        BY <4>1, <4>2, <4>3 DEF HStep
    <3>2. QED
      BY <3>1, HCreateStep, HFindStep, HEnterStep, HDestroyStep DEF HNext
  <2>2. d = [m \in HKey |-> EntryIn(htab, hv, m)] /\ d' = [m \in HKey |-> EntryIn(htab', hv', m)]
    BY EntryView
  <2> HIDE DEF d
  <2>3. \A m \in HKey : d[m] = EntryIn(htab, hv, m) /\ d'[m] = EntryIn(htab', hv', m)
    BY <2>2
  <2>4. ASSUME \A m \in HKey : d'[m] = d[m] PROVE d' = d
    BY <2>2, <2>4
  <2>5. ASSUME NEW k \in HKey, NEW w, \A m \in HKey : d'[m] = IF m = k THEN w ELSE d[m]
        PROVE  d' = [d EXCEPT ![k] = w]
    BY <2>2, <2>5
  <2>6. ASSUME \A m \in HKey : d'[m] = HNone PROVE d' = [k \in HKey |-> HNone]
    BY <2>2, <2>6
  <2>7. \/ \E k \in HKey : found' = d[k] /\ d' = d
        \/ found' = found /\ d' = d
        \/ found' = found /\ d' = [k \in HKey |-> HNone]
        \/ \E k \in HKey, w \in HValue : d[k] = HNone /\ found' = w /\ d' = [d EXCEPT ![k] = w]
    BY <2>1, <2>3, <2>4, <2>5, <2>6 DEF HStep
  <2>8. [TableDict!DictNext]_<<d, found>>
    <3>1. CASE \E k \in HKey : found' = d[k] /\ d' = d
      BY <3>1, Zenon DEF TableDict!DictNext, TableDict!Lookup, d
    <3>2. CASE found' = found /\ d' = d
      BY <3>2
    <3>3. CASE found' = found /\ d' = [k \in HKey |-> HNone]
      BY <3>3, Zenon DEF TableDict!DictNext, TableDict!Empty, d
    <3>4. CASE \E k \in HKey, w \in HValue : d[k] = HNone /\ found' = w /\ d' = [d EXCEPT ![k] = w]
      BY <3>4, Zenon DEF TableDict!DictNext, TableDict!Enter, d
    <3>5. QED
      BY <2>7, <3>1, <3>2, <3>3, <3>4
  <2>9. QED
    BY <2>1, <2>8
<1>4. QED
  BY <1>1, <1>2, <1>3, PTL DEF HSpec, ImplementsDict, TableDict!DictSpec

(* ContainersImplemented.  The three containers of the library, each with  *)
(* its own state, do what their abstract specifications say, whatever is   *)
(* allocated, collides, grows or fails, and putenv reallocates only what   *)
(* is its own.                                                             *)
THEOREM ContainersAreRight == HSpec /\ ESpec /\ DirSpec => ContainersImplemented
BY TableIsADictionary, EnvironmentIsADictionary, DirectoryIsACursor, ReallocsOwn, PTL
   DEF ContainersImplemented

=============================================================================
