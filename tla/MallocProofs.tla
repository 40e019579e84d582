---------------------------- MODULE MallocProofs ----------------------------
(***************************************************************************)
(* Proofs about the allocator (Malloc).                                    *)
(*                                                                         *)
(* The invariant says that there are a division of the mapped memory into  *)
(* blocks, z, and for each size class a sequence of blocks, c, such that   *)
(* the blocks tile the memory (Tiles), the header of a block that the      *)
(* program holds gives its size (Headed), each free list runs through its  *)
(* sequence (Chained) and every block is held or in a list (NoneLost).     *)
(* Each operation is first a step on memory, free lists, z and c           *)
(* (MapStep, UnmapStep, CarveStep, TakeStep, PutStep, WriteStep), then a   *)
(* lemma about the function of alloc.c that is made of such steps          *)
(* (LibcMallocIs, LibcFreeIs, LibcReallocIs), then an action.              *)
(***************************************************************************)
EXTENDS Malloc, FiniteSetTheorems, FunctionTheorems, SequenceTheorems,
        NaturalsInduction, WellFoundedInduction, TLAPS

-----------------------------------------------------------------------------
(* Sizes.                                                                  *)

(* The sizes of small blocks, and the index of each. *)
SmallSize(i, n) ==
  \/ i = 0 /\ n = 1
  \/ i = 1 /\ n = 2
  \/ i = 2 /\ n = 4
  \/ i = 3 /\ n = 8
  \/ i = 4 /\ n = 16
  \/ i = 5 /\ n = 32
  \/ i = 6 /\ n = 64
  \/ i = 7 /\ n = 128

LEMMA PowerIs ==
  ASSUME NEW i \in 0..7
  PROVE  SmallSize(i, 2 ^ i)
<1>0. CASE i = 0
  BY <1>0 DEF SmallSize
<1>1. CASE i = 1
  BY <1>1 DEF SmallSize
<1>2. CASE i = 2
  BY <1>2 DEF SmallSize
<1>3. CASE i = 3
  BY <1>3 DEF SmallSize
<1>4. CASE i = 4
  BY <1>4 DEF SmallSize
<1>5. CASE i = 5
  BY <1>5 DEF SmallSize
<1>6. CASE i = 6
  BY <1>6 DEF SmallSize
<1>7. CASE i = 7
  BY <1>7 DEF SmallSize
<1>8. QED
  BY <1>0, <1>1, <1>2, <1>3, <1>4, <1>5, <1>6, <1>7

LEMMA PagesAre ==
  /\ \E i \in 0..7 : SmallSize(i, MaxSmall) /\ PageSize = 2 * MaxSmall
  /\ Pages \in Nat /\ Pages > 0
  /\ SizeMod \in Nat /\ SizeMod > (Pages + 1) * PageSize /\ SizeMod % PageSize = 0
<1>1. PICK k \in 1..8 : PageSize = 2 ^ k
  BY MallocAssumption
<1>2. \/ PageSize = 2 \/ PageSize = 4 \/ PageSize = 8 \/ PageSize = 16
      \/ PageSize = 32 \/ PageSize = 64 \/ PageSize = 128 \/ PageSize = 256
  <2>1. CASE k = 1
    BY <1>1, <2>1
  <2>2. CASE k = 2
    BY <1>1, <2>2
  <2>3. CASE k = 3
    BY <1>1, <2>3
  <2>4. CASE k = 4
    BY <1>1, <2>4
  <2>5. CASE k = 5
    BY <1>1, <2>5
  <2>6. CASE k = 6
    BY <1>1, <2>6
  <2>7. CASE k = 7
    BY <1>1, <2>7
  <2>8. CASE k = 8
    BY <1>1, <2>8
  <2>9. QED
    BY <2>1, <2>2, <2>3, <2>4, <2>5, <2>6, <2>7, <2>8
<1>3. \E i \in 0..7 : SmallSize(i, MaxSmall) /\ PageSize = 2 * MaxSmall
  BY <1>2 DEF SmallSize, MaxSmall
<1>4. QED
  BY <1>3, MallocAssumption

LEMMA ShiftsIs ==
  ASSUME NEW n \in Nat, NEW i \in 0..7, NEW s, SmallSize(i, s),
         n < s, i = 0 \/ s <= 2 * n
  PROVE  Shifts(n) = i
<1> DEFINE S == {j \in 0..8 : n \div 2 ^ j = 0}
<1>0. s = 2 ^ i /\ s \in Nat /\ s > 0 /\ n \div s = 0
  <2>1. SmallSize(i, 2 ^ i)
    BY PowerIs
  <2>2. s = 2 ^ i /\ s \in Nat /\ s > 0
    BY <2>1 DEF SmallSize
  <2>3. n \div s = 0
    BY DEF SmallSize
  <2>4. QED
    BY <2>2, <2>3
<1>1. i \in S
  <2>1. i \in 0..8
    OBVIOUS
  <2>2. QED
    BY <1>0, <2>1
<1>2. \A j \in S : i <= j
  <2> SUFFICES ASSUME NEW j \in 0..8, ~(i <= j), n \div (2 ^ j) = 0 PROVE FALSE
    OBVIOUS
  <2>1. j \in 0..7 /\ j < i
    OBVIOUS
  <2>2. SmallSize(j, 2 ^ j)
    BY <2>1, PowerIs
  <2>3. PICK t : t = 2 ^ j
    OBVIOUS
  <2>4. SmallSize(j, t) /\ n \div t = 0
    BY <2>2, <2>3
  <2>5. t \in Nat /\ t > 0 /\ t <= n
    BY <2>1, <2>4 DEF SmallSize
  <2>6. QED
    BY <2>4, <2>5 DEF SmallSize
<1>3. \A j \in S : j \in Int
  OBVIOUS
<1>4. Shifts(n) = CHOOSE x \in S : \A y \in S : x <= y
  BY DEF Shifts, Min
<1> HIDE DEF S
<1> DEFINE m == CHOOSE x \in S : \A y \in S : x <= y
<1>5. m \in S /\ \A y \in S : m <= y
  BY <1>1, <1>2, Zenon
<1> HIDE DEF m
<1>6. m = i
  BY <1>1, <1>2, <1>3, <1>5
<1>7. QED
  BY <1>4, <1>6 DEF m

(* What GET_SIZE and get_index give for a small size. *)
LEMMA IndexIs ==
  ASSUME NEW n \in Nat, n >= 1, n <= MaxSmall
  PROVE  \E i \in 0..7, s \in Nat :
           /\ SmallSize(i, s) /\ n <= s /\ s <= MaxSmall
           /\ get_index(n) = i /\ GetSize(n) = s /\ get_index(s) = i
<1>1. MaxSmall \in Nat /\ PageSize \in Nat /\ MaxSmall < PageSize /\ \E k \in 0..7 : SmallSize(k, MaxSmall)
  BY PagesAre DEF SmallSize
<1>2. PICK i \in 0..7, s \in Nat : SmallSize(i, s) /\ n <= s /\ (i = 0 \/ s <= 2 * (n - 1))
  <2>1. n <= 128
    BY <1>1 DEF SmallSize
  <2>2. \/ n = 1 \/ n = 2 \/ n \in 3..4 \/ n \in 5..8 \/ n \in 9..16 \/ n \in 17..32 \/ n \in 33..64 \/ n \in 65..128
    BY <2>1
  <2>3. CASE n = 1
    BY <2>3 DEF SmallSize
  <2>4. CASE n = 2
    BY <2>4 DEF SmallSize
  <2>5. CASE n \in 3..4
    <3>1. SmallSize(2, 4)
      BY DEF SmallSize
    <3>2. QED
      BY <2>5, <3>1
  <2>6. CASE n \in 5..8
    <3>1. SmallSize(3, 8)
      BY DEF SmallSize
    <3>2. QED
      BY <2>6, <3>1
  <2>7. CASE n \in 9..16
    <3>1. SmallSize(4, 16)
      BY DEF SmallSize
    <3>2. QED
      BY <2>7, <3>1
  <2>8. CASE n \in 17..32
    <3>1. SmallSize(5, 32)
      BY DEF SmallSize
    <3>2. QED
      BY <2>8, <3>1
  <2>9. CASE n \in 33..64
    <3>1. SmallSize(6, 64)
      BY DEF SmallSize
    <3>2. QED
      BY <2>9, <3>1
  <2>10. CASE n \in 65..128
    <3>1. SmallSize(7, 128)
      BY DEF SmallSize
    <3>2. QED
      BY <2>10, <3>1
  <2>11. QED
    BY <2>2, <2>3, <2>4, <2>5, <2>6, <2>7, <2>8, <2>9, <2>10
<1>3. s <= MaxSmall
  BY <1>1, <1>2 DEF SmallSize
<1>4. (n - 1) % PageSize = n - 1 /\ (s - 1) % PageSize = s - 1 /\ s >= 1
  BY <1>1, <1>2, <1>3, PagesAre DEF SmallSize
<1>5. get_index(n) = i
  <2>1. Shifts(n - 1) = i
    BY <1>2, ShiftsIs
  <2>2. QED
    BY <1>4, <2>1 DEF get_index
<1>6. get_index(s) = i
  <2>1. s - 1 \in Nat /\ s - 1 < s /\ (i = 0 \/ s <= 2 * (s - 1))
    BY <1>2 DEF SmallSize
  <2>2. Shifts(s - 1) = i
    BY <1>2, <2>1, ShiftsIs
  <2>3. QED
    BY <1>4, <2>2 DEF get_index
<1>7. GetSize(n) = s
  <2>1. SmallSize(i, 2 ^ i)
    BY PowerIs
  <2>2. s = 2 ^ i
    BY <1>2, <2>1 DEF SmallSize
  <2>3. QED
    BY <1>5, <2>2 DEF GetSize
<1>8. QED
  BY <1>2, <1>3, <1>5, <1>6, <1>7

(* PAGE_ALIGN gives 0 when the sum overflows, and else a size of at least  *)
(* a page in which the argument fits.                                      *)
LEMMA PageAlignIs ==
  ASSUME NEW n \in Nat, n < SizeMod
  PROVE  /\ PageAlign(n) \in Nat
         /\ PageAlign(n) # 0 => n <= PageAlign(n) /\ MaxSmall < PageAlign(n)
         /\ PageAlign(n) < SizeMod /\ (n = 0 => PageAlign(n) = 0)
<1>1. \/ PageSize = 2 \/ PageSize = 4 \/ PageSize = 8 \/ PageSize = 16
      \/ PageSize = 32 \/ PageSize = 64 \/ PageSize = 128 \/ PageSize = 256
  BY PagesAre DEF SmallSize
<1>2. PageSize = 2 * MaxSmall /\ MaxSmall \in Nat /\ MaxSmall > 0 /\ SizeMod \in Nat /\ SizeMod > PageSize
  <2>1. (Pages + 1) * PageSize >= PageSize
    BY <1>1, PagesAre
  <2>2. QED
    BY <1>1, <2>1, PagesAre DEF SmallSize
<1> DEFINE s == n + PageSize - 1
           m == s % SizeMod
<1>3. m \in Nat /\ m < SizeMod /\ (m = s \/ m < PageSize)
  <2>1. CASE s < SizeMod
    BY <1>2, <2>1
  <2>2. CASE s >= SizeMod
    <3>1. s - SizeMod \in Nat /\ s - SizeMod < PageSize /\ s - SizeMod < SizeMod
      BY <1>2, <2>2
    <3>2. s % SizeMod = s - SizeMod
      BY <1>2, <2>2, <3>1
    <3>3. QED
      BY <3>1, <3>2
  <2>3. QED
    BY <1>2, <2>1, <2>2
<1> HIDE DEF m
<1>4. PageAlign(n) = (m \div PageSize) * PageSize
  BY DEF PageAlign, m
<1>5. /\ (m \div PageSize) * PageSize \in Nat
      /\ m < PageSize => (m \div PageSize) * PageSize = 0
      /\ (m \div PageSize) * PageSize # 0 => (m \div PageSize) * PageSize >= PageSize
      /\ (m \div PageSize) * PageSize + PageSize > m /\ (m \div PageSize) * PageSize <= m
  <2>1. CASE PageSize = 2
    BY <1>3, <2>1
  <2>2. CASE PageSize = 4
    BY <1>3, <2>2
  <2>3. CASE PageSize = 8
    BY <1>3, <2>3
  <2>4. CASE PageSize = 16
    BY <1>3, <2>4
  <2>5. CASE PageSize = 32
    BY <1>3, <2>5
  <2>6. CASE PageSize = 64
    BY <1>3, <2>6
  <2>7. CASE PageSize = 128
    BY <1>3, <2>7
  <2>8. CASE PageSize = 256
    BY <1>3, <2>8
  <2>9. QED
    BY <1>1, <2>1, <2>2, <2>3, <2>4, <2>5, <2>6, <2>7, <2>8
<1> DEFINE r == (m \div PageSize) * PageSize
<1> HIDE DEF r
<1>6. /\ r \in Nat /\ (m < PageSize => r = 0) /\ (r # 0 => r >= PageSize) /\ r + PageSize > m /\ r <= m
      /\ PageAlign(n) = r
  BY <1>4, <1>5 DEF r
<1>7. QED
  BY <1>2, <1>3, <1>6

-----------------------------------------------------------------------------
(* How a page is cut into blocks of the same size.                         *)

Times(j, s) == j * s

(* The multiples of a size. *)
Multiples(s) ==
  /\ Times(0, s) = 0 /\ s \in Nat /\ s >= 1 /\ PageSize \in Nat
  /\ PageSize \div s \in Nat /\ PageSize = Times(PageSize \div s, s)
  /\ \A j \in Nat : Times(j, s) \in Nat /\ Times(j + 1, s) = Times(j, s) + s /\ Times(j, s) % s = 0
  /\ \A j, k \in Nat : j < k => Times(j, s) + s <= Times(k, s)
  /\ \A x \in Nat : x \div s \in Nat /\ x % s \in Nat /\ x % s < s /\ x = Times(x \div s, s) + (x % s)

LEMMA MultiplesAre ==
  ASSUME NEW i \in 0..7, NEW s \in Nat, SmallSize(i, s), s <= MaxSmall
  PROVE  Multiples(s)
<1>1. \/ PageSize = 2 \/ PageSize = 4 \/ PageSize = 8 \/ PageSize = 16
      \/ PageSize = 32 \/ PageSize = 64 \/ PageSize = 128 \/ PageSize = 256
  BY PagesAre DEF SmallSize
<1>2. 2 * s <= PageSize
  BY <1>1, PagesAre DEF SmallSize
<1>3. CASE s = 1
  BY <1>1, <1>2, <1>3 DEF Multiples, Times
<1>4. CASE s = 2
  BY <1>1, <1>2, <1>4 DEF Multiples, Times
<1>5. CASE s = 4
  <2>1. Times(0, 4) = 0 /\ PageSize \in Nat /\ PageSize \div 4 \in Nat /\ PageSize = Times(PageSize \div 4, 4)
    BY <1>1, <1>2, <1>5 DEF Times
  <2>2. \A j \in Nat : Times(j, 4) \in Nat /\ Times(j + 1, 4) = Times(j, 4) + 4 /\ Times(j, 4) % 4 = 0
    BY DEF Times
  <2>3. \A j, k \in Nat : j < k => Times(j, 4) + 4 <= Times(k, 4)
    BY DEF Times
  <2>4. \A x \in Nat : x \div 4 \in Nat /\ x % 4 \in Nat /\ x % 4 < 4 /\ x = Times(x \div 4, 4) + (x % 4)
    BY DEF Times
  <2>5. QED
    BY <1>5, <2>1, <2>2, <2>3, <2>4 DEF Multiples
<1>6. CASE s = 8
  BY <1>1, <1>2, <1>6 DEF Multiples, Times
<1>7. CASE s = 16
  BY <1>1, <1>2, <1>7 DEF Multiples, Times
<1>8. CASE s = 32
  BY <1>1, <1>2, <1>8 DEF Multiples, Times
<1>9. CASE s = 64
  BY <1>1, <1>2, <1>9 DEF Multiples, Times
<1>10. CASE s = 128
  BY <1>1, <1>2, <1>10 DEF Multiples, Times
<1>11. QED
  BY <1>3, <1>4, <1>5, <1>6, <1>7, <1>8, <1>9, <1>10 DEF SmallSize

(* The number of blocks and the j-th. *)
CutNo(s) == PageSize \div s
CutAt(a, s, j) == a + Times(j - 1, s)

CutFacts(a, s) ==
  /\ CutNo(s) \in Nat /\ CutNo(s) >= 1 /\ s \in Nat /\ s >= 1 /\ PageSize \in Nat
  /\ CutAt(a, s, 1) = a
  /\ \A j \in 1..CutNo(s) :
       /\ CutAt(a, s, j) \in Nat /\ CutAt(a, s, j) >= a /\ CutAt(a, s, j) + s <= a + PageSize
       /\ (CutAt(a, s, j) - a) % s = 0
       /\ CutAt(a, s, j) + s < a + PageSize <=> j < CutNo(s)
       /\ CutAt(a, s, j) + s = CutAt(a, s, j + 1)
  /\ \A j, k \in 1..CutNo(s) : j < k => CutAt(a, s, j) + s <= CutAt(a, s, k)
  /\ \A x \in a..(a + PageSize - 1) : \E j \in 1..CutNo(s) :
       /\ CutAt(a, s, j) <= x /\ x < CutAt(a, s, j) + s
       /\ (x - a) % s = 0 => x = CutAt(a, s, j)

LEMMA CutIs ==
  ASSUME NEW s, Multiples(s), NEW a \in Nat
  PROVE  CutFacts(a, s)
<1> DEFINE nr == CutNo(s)
<1>1. nr \in Nat /\ PageSize = Times(nr, s) /\ s \in Nat /\ s >= 1 /\ PageSize \in Nat
  BY DEF Multiples, CutNo
<1>0. PageSize >= 1
  BY PagesAre DEF SmallSize
<1>2. nr >= 1
  BY <1>0, <1>1 DEF Multiples
<1> HIDE DEF nr
<1>3. CutAt(a, s, 1) = a
  <2>1. 1 - 1 = 0
    OBVIOUS
  <2>2. QED
    BY <2>1 DEF Multiples, CutAt
<1>4. ASSUME NEW j \in 1..nr
      PROVE  /\ CutAt(a, s, j) \in Nat /\ CutAt(a, s, j) >= a /\ CutAt(a, s, j) + s <= a + PageSize
             /\ (CutAt(a, s, j) - a) % s = 0
             /\ CutAt(a, s, j) + s < a + PageSize <=> j < nr
             /\ CutAt(a, s, j) + s = CutAt(a, s, j + 1)
  <2>1. j - 1 \in Nat /\ j \in Nat /\ (j - 1) + 1 = j /\ (j + 1) - 1 = j /\ j - 1 < nr /\ (j < nr \/ j = nr)
    BY <1>1
  <2>2. Times(j - 1, s) \in Nat /\ Times(j, s) = Times(j - 1, s) + s /\ Times(j - 1, s) % s = 0
    BY <2>1 DEF Multiples
  <2>3. Times(j - 1, s) + s <= PageSize /\ (j < nr => Times(j, s) + s <= PageSize)
    BY <1>1, <2>1 DEF Multiples
  <2>4. (a + Times(j - 1, s)) - a = Times(j - 1, s)
    BY <2>2
  <2>5. CutAt(a, s, j) = a + Times(j - 1, s) /\ CutAt(a, s, j + 1) = a + Times(j, s)
    BY <2>1 DEF CutAt
  <2>6. QED
    BY <1>1, <2>1, <2>2, <2>3, <2>4, <2>5
<1>5. ASSUME NEW j \in 1..nr, NEW k \in 1..nr, j < k PROVE CutAt(a, s, j) + s <= CutAt(a, s, k)
  <2>1. j - 1 \in Nat /\ k - 1 \in Nat /\ j - 1 < k - 1
    BY <1>1, <1>5
  <2>2. Times(j - 1, s) + s <= Times(k - 1, s) /\ Times(j - 1, s) \in Nat /\ Times(k - 1, s) \in Nat
    BY <2>1 DEF Multiples
  <2>3. QED
    BY <1>1, <2>2 DEF CutAt
<1>6. ASSUME NEW x \in a..(a + PageSize - 1)
      PROVE  \E j \in 1..nr :
               /\ CutAt(a, s, j) <= x /\ x < CutAt(a, s, j) + s
               /\ (x - a) % s = 0 => x = CutAt(a, s, j)
  <2> DEFINE y == x - a
             d == y \div s
  <2>1. y \in Nat /\ y < PageSize /\ x = a + y
    BY <1>1
  <2> HIDE DEF y
  <2>2. d \in Nat /\ y % s \in Nat /\ y % s < s /\ y = Times(d, s) + (y % s) /\ Times(d, s) \in Nat
    BY <2>1 DEF Multiples
  <2> HIDE DEF d
  <2>3. d < nr
    <3> SUFFICES ASSUME ~(d < nr) PROVE FALSE
      OBVIOUS
    <3>1. d = nr \/ nr < d
      BY <1>1, <2>2
    <3>2. Times(nr, s) <= Times(d, s)
      BY <1>1, <2>2, <3>1 DEF Multiples
    <3>3. QED
      BY <1>1, <2>1, <2>2, <3>2
  <2>4. d + 1 \in 1..nr /\ (d + 1) - 1 = d
    BY <1>1, <2>2, <2>3
  <2>5. CutAt(a, s, d + 1) = a + Times(d, s)
    BY <2>4 DEF CutAt
  <2>6. /\ CutAt(a, s, d + 1) <= x /\ x < CutAt(a, s, d + 1) + s
        /\ y % s = 0 => x = CutAt(a, s, d + 1)
    BY <1>1, <2>1, <2>2, <2>5
  <2>7. QED
    BY <2>4, <2>6 DEF y
<1>7. QED
  BY <1>1, <1>2, <1>3, <1>4, <1>5, <1>6 DEF nr, CutFacts

-----------------------------------------------------------------------------
(* The invariant, for a memory m with the heads sm and the held blocks H:  *)
(* z gives the size of every block, c[i] is the list of the free ones of   *)
(* class i.                                                                *)

Node(q, j) == IF j \in 1..Len(q) THEN q[j] ELSE 0

(* The blocks cover the mapped cells, each cell once. *)
Tiles(m, z) ==
  /\ DOMAIN z \subseteq DOMAIN m
  /\ \A p \in DOMAIN z : z[p] \in Nat /\ z[p] >= 1 /\ Cells(p, z[p]) \subseteq DOMAIN m
  /\ \A x \in DOMAIN m : \E p \in DOMAIN z : x \in Cells(p, z[p])
  /\ \A p, q \in DOMAIN z : p # q => Cells(p, z[p]) \cap Cells(q, z[q]) = {}

(* The header of a held block has its size. *)
Headed(m, z, H) ==
  \A p \in H :
    /\ p \in DOMAIN z /\ m[p] \in Headers /\ m[p].size = z[p]
    /\ z[p] > MaxSmall \/ \E i \in 0..7 : SmallSize(i, z[p])

(* The block p of class i is free, with the link l. *)
FreeBlock(m, z, H, p, i, l) ==
  /\ p \in DOMAIN z /\ p \notin H /\ SmallSize(i, z[p]) /\ z[p] <= MaxSmall
  /\ m[p] = Header(l, 0)
  /\ \A x \in Cells(p, z[p]) : x # p => m[x] = Zero

Chain(m, z, H, q, i) ==
  /\ q \in Seq(Arena)
  /\ \A j, k \in 1..Len(q) : q[j] = q[k] => j = k
  /\ \A j \in 1..Len(q) : FreeBlock(m, z, H, q[j], i, Node(q, j + 1))

(* A block that is not held is in a list. *)
NoneLost(c, z, H) ==
  \A p \in DOMAIN z : p \in H \/ \E i \in 0..7 : \E j \in 1..Len(c[i]) : p = c[i][j]

Typed(m, sm) ==
  /\ DOMAIN m \subseteq Arena
  /\ \A x \in DOMAIN m : m[x] \in Tags \cup Headers
  /\ sm \in [0..7 -> {0} \cup Arena]

Chained(m, sm, c, z, H) ==
  /\ c \in [0..7 -> Seq(Arena)]
  /\ \A i \in 0..7 : sm[i] = Node(c[i], 1) /\ Chain(m, z, H, c[i], i)

Good(m, sm, c, z, H) ==
  /\ Typed(m, sm)
  /\ Tiles(m, z)
  /\ Headed(m, z, H)
  /\ Chained(m, sm, c, z, H)
  /\ NoneLost(c, z, H)

LEMMA ArenaIs == Arena \subseteq Nat /\ 0 \notin Arena /\ MaxSmall \in Nat /\ PageSize \in Nat /\ \A x \in Arena : x \in Int
<1>1. PageSize \in Nat /\ PageSize > 0 /\ MaxSmall \in Nat
  BY PagesAre DEF SmallSize
<1>2. QED
  BY <1>1 DEF Arena

(* Only the cells of the blocks of a list matter to it. *)
LEMMA ChainFrame ==
  ASSUME NEW m, NEW z, NEW H, NEW q, NEW i, Chain(m, z, H, q, i),
         NEW n, NEW y, NEW G,
         \A j \in 1..Len(q) : /\ q[j] \in DOMAIN y /\ y[q[j]] = z[q[j]] /\ q[j] \notin G
                              /\ n[q[j]] = m[q[j]]
                              /\ \A x \in Cells(q[j], z[q[j]]) : n[x] = m[x]
  PROVE  Chain(n, y, G, q, i)
<1> SUFFICES ASSUME NEW j \in 1..Len(q) PROVE FreeBlock(n, y, G, q[j], i, Node(q, j + 1))
  BY DEF Chain
<1>1. FreeBlock(m, z, H, q[j], i, Node(q, j + 1))
  BY DEF Chain
<1>2. QED
  BY <1>1 DEF FreeBlock

(* A held block is filled, but for its header. *)
LEMMA WriteStep ==
  ASSUME NEW m, NEW sm, NEW c, NEW z, NEW H, Good(m, sm, c, z, H),
         NEW p \in H, NEW n,
         DOMAIN n = DOMAIN m, \A x \in DOMAIN m : n[x] \in Tags \cup Headers,
         \A x \in DOMAIN m : x = p \/ x \notin Cells(p, m[p].size) => n[x] = m[x]
  PROVE  Good(n, sm, c, z, H)
<1>1. p \in DOMAIN z /\ z[p] = m[p].size /\ p \in DOMAIN m
  BY DEF Good, Headed, Tiles
<1>2. \A q \in DOMAIN z : q # p => \A x \in Cells(q, z[q]) : n[x] = m[x] /\ x \in DOMAIN m
  BY <1>1 DEF Good, Tiles
<1>3. \A q \in DOMAIN z : n[q] = m[q]
  <2>1. \A q \in DOMAIN z : q \in Cells(q, z[q])
    <3>1. \A q \in DOMAIN z : q \in Int /\ z[q] \in Nat /\ z[q] >= 1
      BY ArenaIs DEF Good, Tiles, Typed
    <3>2. QED
      BY <3>1 DEF Cells
  <2>2. QED
    BY <1>1, <1>2, <2>1
<1>4. Typed(n, sm)
  BY DEF Good, Typed
<1>5. Tiles(n, z)
  BY DEF Good, Tiles
<1>6. Headed(n, z, H)
  BY <1>3 DEF Good, Headed
<1>7. Chained(n, sm, c, z, H)
  <2> SUFFICES ASSUME NEW i \in 0..7 PROVE Chain(n, z, H, c[i], i)
    BY DEF Good, Chained
  <2>1. Chain(m, z, H, c[i], i)
    BY DEF Good, Chained
  <2>2. \A j \in 1..Len(c[i]) : c[i][j] \in DOMAIN z /\ c[i][j] \notin H
    BY <2>1 DEF Chain, FreeBlock
  <2>3. QED
    BY <1>2, <1>3, <2>1, <2>2, ChainFrame
<1>8. QED
  BY <1>4, <1>5, <1>6, <1>7 DEF Good

LEMMA BlocksAre ==
  ASSUME NEW m, NEW sm, NEW z, Typed(m, sm), Tiles(m, z)
  PROVE  \A q \in DOMAIN z : /\ q \in DOMAIN m /\ q \in Arena /\ q \in Int /\ q # 0
                             /\ z[q] \in Nat /\ z[q] >= 1 /\ q \in Cells(q, z[q])
<1>1. \A q \in DOMAIN z : /\ q \in DOMAIN m /\ q \in Arena /\ q \in Int /\ q # 0
                          /\ z[q] \in Nat /\ z[q] >= 1
  BY ArenaIs DEF Typed, Tiles
<1>2. QED
  BY <1>1 DEF Cells

(* A large block is mapped, and held. *)
NewBlock(m, n, a, k) ==
  /\ a \in Arena /\ k \in Nat /\ k > MaxSmall
  /\ Cells(a, k) \subseteq Arena /\ \A x \in Cells(a, k) : x \notin DOMAIN m
  /\ DOMAIN n = DOMAIN m \cup Cells(a, k) /\ \A x \in DOMAIN m : n[x] = m[x]
  /\ \A x \in Cells(a, k) : n[x] \in Tags \cup Headers
  /\ n[a] \in Headers /\ n[a].size = k

LEMMA MapStep ==
  ASSUME NEW m, NEW sm, NEW c, NEW z, NEW H, Good(m, sm, c, z, H),
         NEW n, NEW a, NEW k, NewBlock(m, n, a, k)
  PROVE  a \notin H /\ Good(n, sm, c, With(z, a, k), H \cup {a})
<1> DEFINE y == With(z, a, k)
<1> USE DEF NewBlock
<1>0. \A q \in DOMAIN z : /\ q \in DOMAIN m /\ q \in Arena /\ q \in Int /\ q # 0
                          /\ z[q] \in Nat /\ z[q] >= 1 /\ q \in Cells(q, z[q])
  BY BlocksAre DEF Good
<1>1. a \in Cells(a, k) /\ a \notin DOMAIN z /\ k >= 1
  <2>1. MaxSmall \in Nat /\ a \in Int
    BY ArenaIs
  <2>2. a \in Cells(a, k) /\ k >= 1
    BY <2>1 DEF Cells
  <2>3. QED
    BY <1>0, <2>2
<1>2. DOMAIN y = DOMAIN z \cup {a} /\ y[a] = k /\ \A q \in DOMAIN z : y[q] = z[q]
  BY <1>1 DEF With
<1> HIDE DEF y
<1>3. a \notin H
  BY <1>1 DEF Good, Headed
<1>4. Typed(n, sm)
  BY DEF Good, Typed
<1>5. Tiles(n, y)
  <2>1. DOMAIN y \subseteq DOMAIN n
    BY <1>0, <1>1, <1>2
  <2>2. \A p \in DOMAIN y : y[p] \in Nat /\ y[p] >= 1 /\ Cells(p, y[p]) \subseteq DOMAIN n
    BY <1>0, <1>1, <1>2 DEF Good, Tiles
  <2>3. \A x \in DOMAIN n : \E p \in DOMAIN y : x \in Cells(p, y[p])
    BY <1>0, <1>1, <1>2 DEF Good, Tiles
  <2>4. ASSUME NEW p \in DOMAIN y, NEW q \in DOMAIN y, p # q PROVE Cells(p, y[p]) \cap Cells(q, y[q]) = {}
    <3>1. \A r \in DOMAIN z : Cells(r, z[r]) \subseteq DOMAIN m
      BY DEF Good, Tiles
    <3>2. CASE p \in DOMAIN z /\ q \in DOMAIN z
      BY <1>2, <2>4, <3>2 DEF Good, Tiles
    <3>3. CASE p = a
      <4>1. q \in DOMAIN z
        BY <1>2, <2>4, <3>3
      <4>2. QED
        BY <1>2, <3>1, <3>3, <4>1
    <3>4. CASE q = a
      <4>1. p \in DOMAIN z
        BY <1>2, <2>4, <3>4
      <4>2. QED
        BY <1>2, <3>1, <3>4, <4>1
    <3>5. QED
      BY <1>2, <3>2, <3>3, <3>4
  <2>5. QED
    BY <2>1, <2>2, <2>3, <2>4 DEF Tiles
<1>6. Headed(n, y, H \cup {a})
  BY <1>0, <1>1, <1>2 DEF Good, Headed
<1>7. Chained(n, sm, c, y, H \cup {a})
  <2> SUFFICES ASSUME NEW i \in 0..7 PROVE Chain(n, y, H \cup {a}, c[i], i)
    BY DEF Good, Chained
  <2>1. Chain(m, z, H, c[i], i)
    BY DEF Good, Chained
  <2>2. \A j \in 1..Len(c[i]) : c[i][j] \in DOMAIN z /\ c[i][j] \notin H
    BY <2>1 DEF Chain, FreeBlock
  <2>3. \A q \in DOMAIN z : \A x \in Cells(q, z[q]) : n[x] = m[x]
    BY DEF Good, Tiles
  <2>4. \A j \in 1..Len(c[i]) : /\ c[i][j] \in DOMAIN y /\ y[c[i][j]] = z[c[i][j]] /\ c[i][j] \notin H \cup {a}
                                /\ n[c[i][j]] = m[c[i][j]]
                                /\ \A x \in Cells(c[i][j], z[c[i][j]]) : n[x] = m[x]
    BY <1>0, <1>1, <1>2, <2>2, <2>3
  <2>5. QED
    BY <2>1, <2>4, ChainFrame
<1>8. NoneLost(c, y, H \cup {a})
  BY <1>2 DEF Good, NoneLost
<1>9. QED
  BY <1>3, <1>4, <1>5, <1>6, <1>7, <1>8 DEF Good, y

(* A held block is unmapped. *)
LEMMA UnmapStep ==
  ASSUME NEW m, NEW sm, NEW c, NEW z, NEW H, Good(m, sm, c, z, H), NEW p \in H
  PROVE  Good([x \in DOMAIN m \ Cells(p, m[p].size) |-> m[x]], sm, c,
              [q \in DOMAIN z \ {p} |-> z[q]], H \ {p})
<1> DEFINE y == [q \in DOMAIN z \ {p} |-> z[q]]
           n == [x \in DOMAIN m \ Cells(p, m[p].size) |-> m[x]]
<1>0. \A q \in DOMAIN z : /\ q \in DOMAIN m /\ q \in Arena /\ q \in Int /\ q # 0
                          /\ z[q] \in Nat /\ z[q] >= 1 /\ q \in Cells(q, z[q])
  BY BlocksAre DEF Good
<1>1. p \in DOMAIN z /\ m[p].size = z[p]
  BY DEF Good, Headed
<1>2. DOMAIN y = DOMAIN z \ {p} /\ \A q \in DOMAIN y : y[q] = z[q]
  OBVIOUS
<1>3. DOMAIN n = DOMAIN m \ Cells(p, z[p]) /\ \A x \in DOMAIN n : n[x] = m[x]
  BY <1>1
<1> HIDE DEF y, n
<1>4. \A q \in DOMAIN y : Cells(q, z[q]) \subseteq DOMAIN n /\ q \in DOMAIN n
  BY <1>0, <1>1, <1>2, <1>3 DEF Good, Tiles
<1>5. Typed(n, sm)
  BY <1>3 DEF Good, Typed
<1>6. Tiles(n, y)
  BY <1>0, <1>1, <1>2, <1>3, <1>4 DEF Good, Tiles
<1>7. Headed(n, y, H \ {p})
  BY <1>1, <1>2, <1>3, <1>4 DEF Good, Headed
<1>8. Chained(n, sm, c, y, H \ {p})
  <2> SUFFICES ASSUME NEW i \in 0..7 PROVE Chain(n, y, H \ {p}, c[i], i)
    BY DEF Good, Chained
  <2>1. Chain(m, z, H, c[i], i)
    BY DEF Good, Chained
  <2>2. \A j \in 1..Len(c[i]) : c[i][j] \in DOMAIN z /\ c[i][j] \notin H
    BY <2>1 DEF Chain, FreeBlock
  <2>3. \A j \in 1..Len(c[i]) : /\ c[i][j] \in DOMAIN y /\ y[c[i][j]] = z[c[i][j]] /\ c[i][j] \notin H \ {p}
                                /\ n[c[i][j]] = m[c[i][j]]
                                /\ \A x \in Cells(c[i][j], z[c[i][j]]) : n[x] = m[x]
    BY <1>2, <1>3, <1>4, <2>2
  <2>4. QED
    BY <2>1, <2>3, ChainFrame
<1>9. NoneLost(c, y, H \ {p})
  BY <1>2 DEF Good, NoneLost
<1>10. QED
  BY <1>5, <1>6, <1>7, <1>8, <1>9 DEF Good, y, n

LEMMA SizesFit ==
  /\ \A n \in Nat : n <= MaxSmall => n \in 0..(Pages * PageSize)
  /\ \A a \in Arena, n \in Nat : n >= 1 /\ Cells(a, n) \subseteq Arena => n \in 0..(Pages * PageSize)
<1>1. Pages \in Nat /\ Pages >= 1 /\ PageSize \in Nat /\ MaxSmall \in Nat /\ MaxSmall <= PageSize
  BY PagesAre DEF SmallSize
<1> DEFINE t == Pages * PageSize
<1>2. t \in Nat /\ t >= PageSize /\ (Pages + 1) * PageSize = t + PageSize
  BY <1>1
<1> HIDE DEF t
<1>3. Arena = PageSize..(t + PageSize - 1)
  <2>1. (Pages + 1) * PageSize - 1 = t + PageSize - 1
    BY <1>1, <1>2
  <2>2. QED
    BY <2>1, Zenon DEF Arena
<1>4. ASSUME NEW a \in Arena, NEW n \in Nat, n >= 1, Cells(a, n) \subseteq Arena PROVE n \in 0..t
  <2>1. a \in Nat /\ a >= PageSize /\ a + n - 1 \in Cells(a, n)
    BY <1>1, <1>2, <1>3, <1>4 DEF Cells
  <2>2. a + n - 1 <= t + PageSize - 1
    BY <1>1, <1>2, <1>3, <1>4, <2>1
  <2>3. QED
    BY <1>1, <1>2, <2>1, <2>2
<1>5. QED
  BY <1>1, <1>2, <1>4 DEF t

(* A list without its first block, and with another before it. *)
Rest(q) == [j \in 1..(Len(q) - 1) |-> q[j + 1]]
Cons(p, q) == [j \in 1..(Len(q) + 1) |-> IF j = 1 THEN p ELSE q[j - 1]]

LEMMA RestIs ==
  ASSUME NEW q \in Seq(Arena), Len(q) >= 1
  PROVE  /\ Rest(q) \in Seq(Arena) /\ Len(Rest(q)) = Len(q) - 1
         /\ \A j \in 1..(Len(q) - 1) : Rest(q)[j] = q[j + 1]
         /\ \A j \in Nat : j >= 1 => Node(Rest(q), j) = Node(q, j + 1)
<1>1. Len(q) - 1 \in Nat /\ Len(q) \in Nat
  OBVIOUS
<1>2. \A j \in 1..(Len(q) - 1) : q[j + 1] \in Arena
  BY <1>1, ElementOfSeq
<1>3. Rest(q) \in Seq(Arena) /\ Len(Rest(q)) = Len(q) - 1 /\ \A j \in 1..(Len(q) - 1) : Rest(q)[j] = q[j + 1]
  BY <1>1, <1>2, IsASeq DEF Rest
<1>4. QED
  BY <1>1, <1>3 DEF Node

LEMMA ConsIs ==
  ASSUME NEW q \in Seq(Arena), NEW p \in Arena
  PROVE  /\ Cons(p, q) \in Seq(Arena) /\ Len(Cons(p, q)) = Len(q) + 1 /\ Cons(p, q)[1] = p
         /\ \A j \in 1..Len(q) : Cons(p, q)[j + 1] = q[j]
         /\ Node(Cons(p, q), 1) = p
         /\ \A j \in Nat : j >= 1 => Node(Cons(p, q), j + 1) = Node(q, j)
<1>1. Len(q) + 1 \in Nat /\ Len(q) \in Nat
  OBVIOUS
<1> DEFINE e(j) == IF j = 1 THEN p ELSE q[j - 1]
<1>2. \A j \in 1..(Len(q) + 1) : e(j) \in Arena
  BY <1>1, ElementOfSeq
<1>3. Cons(p, q) \in Seq(Arena) /\ Len(Cons(p, q)) = Len(q) + 1 /\ \A j \in 1..(Len(q) + 1) : Cons(p, q)[j] = e(j)
  <2>1. Cons(p, q) = [j \in 1..(Len(q) + 1) |-> e(j)]
    BY DEF Cons
  <2> HIDE DEF e
  <2>2. QED
    BY <1>1, <1>2, <2>1, IsASeq
<1>4. Cons(p, q)[1] = p /\ \A j \in 1..Len(q) : Cons(p, q)[j + 1] = q[j]
  BY <1>1, <1>3
<1>5. QED
  BY <1>1, <1>3, <1>4 DEF Node

LEMMA HeaderIs ==
  ASSUME NEW l, NEW s
  PROVE  /\ Header(l, s).next = l /\ Header(l, s).size = s
         /\ l \in {0} \cup Arena /\ s \in 0..(Pages * PageSize) => Header(l, s) \in Headers
BY DEF Header, Headers

LEMMA NodeIs ==
  ASSUME NEW q \in Seq(Arena)
  PROVE  /\ \A j : Node(q, j) \in {0} \cup Arena
         /\ Node(q, 1) # 0 <=> Len(q) >= 1
         /\ Len(q) >= 1 => Node(q, 1) = q[1]
<1>1. \A j \in 1..Len(q) : q[j] \in Arena
  BY ElementOfSeq
<1>2. Len(q) \in Nat /\ (Len(q) >= 1 => 1 \in 1..Len(q)) /\ (1 \in 1..Len(q) => Len(q) >= 1)
  OBVIOUS
<1>3. QED
  BY <1>1, <1>2, ArenaIs DEF Node

(* The first block p of list i is taken: n and sn are what m and sm become. *)
Taken(m, sm, i, p, n, sn, s) ==
  /\ DOMAIN n = DOMAIN m /\ n[p] = Header(0, s)
  /\ \A x \in DOMAIN m : x # p => n[x] = m[x]
  /\ sn = [sm EXCEPT ![i] = m[p].next]

LEMMA FirstIs ==
  ASSUME NEW m, NEW sm, NEW c, NEW z, NEW H, Good(m, sm, c, z, H),
         NEW i \in 0..7, sm[i] # 0
  PROVE  FreeBlock(m, z, H, sm[i], i, m[sm[i]].next) /\ sm[i] \in DOMAIN m /\ sm[i] \in DOMAIN z
<1>1. Chain(m, z, H, c[i], i) /\ sm[i] = Node(c[i], 1) /\ c[i] \in Seq(Arena)
  BY DEF Good, Chained
<1>2. Len(c[i]) >= 1 /\ sm[i] = c[i][1] /\ Len(c[i]) \in Nat /\ 1 + 1 = 2
  BY <1>1, NodeIs
<1>3. FreeBlock(m, z, H, sm[i], i, Node(c[i], 2))
  BY <1>1, <1>2 DEF Chain
<1>4. m[sm[i]].next = Node(c[i], 2)
  BY <1>3, HeaderIs DEF FreeBlock
<1>5. sm[i] \in DOMAIN z /\ sm[i] \in DOMAIN m
  BY <1>3 DEF FreeBlock, Good, Tiles
<1>6. QED
  BY <1>3, <1>4, <1>5

LEMMA TakeStep ==
  ASSUME NEW m, NEW sm, NEW c, NEW z, NEW H, Good(m, sm, c, z, H),
         NEW i \in 0..7, NEW p, sm[i] = p, p # 0,
         NEW n, NEW sn, Taken(m, sm, i, p, n, sn, z[p])
  PROVE  Good(n, sn, [c EXCEPT ![i] = Rest(c[i])], z, H \cup {p})
<1> DEFINE q == c[i]
           d == [c EXCEPT ![i] = Rest(c[i])]
<1>a. /\ DOMAIN n = DOMAIN m /\ n[p] = Header(0, z[p])
      /\ \A x \in DOMAIN m : x # p => n[x] = m[x]
      /\ sn = [sm EXCEPT ![i] = m[p].next]
  BY DEF Taken
<1>0. \A r \in DOMAIN z : /\ r \in DOMAIN m /\ r \in Arena /\ r \in Int /\ r # 0
                          /\ z[r] \in Nat /\ z[r] >= 1 /\ r \in Cells(r, z[r])
  BY BlocksAre DEF Good
<1>1. q \in Seq(Arena) /\ Len(q) >= 1 /\ p = q[1] /\ Chain(m, z, H, q, i) /\ c \in [0..7 -> Seq(Arena)]
      /\ 1 \in 1..Len(q) /\ Len(q) \in Nat
  <2>1. q \in Seq(Arena) /\ Node(q, 1) = p /\ Chain(m, z, H, q, i) /\ c \in [0..7 -> Seq(Arena)]
    BY DEF Good, Chained
  <2>2. QED
    BY <2>1, NodeIs
<1>2. FreeBlock(m, z, H, p, i, Node(q, 2)) /\ m[p].next = Node(q, 2) /\ Node(q, 2) \in {0} \cup Arena
  <2>1. 1 + 1 = 2
    OBVIOUS
  <2>2. FreeBlock(m, z, H, p, i, Node(q, 2))
    BY <1>1, <2>1 DEF Chain
  <2>3. QED
    BY <1>1, <2>2, NodeIs, HeaderIs DEF FreeBlock
<1>3. p \in DOMAIN z /\ p \notin H /\ p \in DOMAIN m /\ z[p] \in Nat /\ SmallSize(i, z[p]) /\ z[p] <= MaxSmall
  BY <1>0, <1>2 DEF FreeBlock
<1>4. n[p] \in Headers /\ n[p].size = z[p]
  BY <1>a, <1>3, HeaderIs, SizesFit
<1>5. \A r \in DOMAIN z : r # p => \A x \in Cells(r, z[r]) : n[x] = m[x]
  BY <1>a, <1>0, <1>3 DEF Good, Tiles
<1>6. Typed(n, sn)
  BY <1>a, <1>2, <1>4 DEF Good, Typed
<1>7. Tiles(n, z)
  BY <1>a DEF Good, Tiles
<1>8. Headed(n, z, H \cup {p})
  BY <1>a, <1>0, <1>3, <1>4, <1>5 DEF Good, Headed
<1>9. Rest(q) \in Seq(Arena) /\ Len(Rest(q)) = Len(q) - 1
      /\ (\A j \in 1..(Len(q) - 1) : Rest(q)[j] = q[j + 1])
      /\ \A j \in Nat : j >= 1 => Node(Rest(q), j) = Node(q, j + 1)
  BY <1>1, RestIs
<1>10. Chain(n, z, H \cup {p}, Rest(q), i)
  <2>1. ASSUME NEW j \in 1..Len(Rest(q)), NEW k \in 1..Len(Rest(q)), Rest(q)[j] = Rest(q)[k] PROVE j = k
    <3>1. j + 1 \in 1..Len(q) /\ k + 1 \in 1..Len(q) /\ q[j + 1] = q[k + 1]
      BY <1>1, <1>9, <2>1
    <3>2. j + 1 = k + 1
      BY <1>1, <3>1 DEF Chain
    <3>3. QED
      BY <1>1, <1>9, <3>2
  <2>2. ASSUME NEW j \in 1..Len(Rest(q)) PROVE FreeBlock(n, z, H \cup {p}, Rest(q)[j], i, Node(Rest(q), j + 1))
    <3>1. j + 1 \in 1..Len(q) /\ j + 1 # 1 /\ Rest(q)[j] = q[j + 1] /\ Node(Rest(q), j + 1) = Node(q, (j + 1) + 1)
      <4>1. j \in 1..(Len(q) - 1) /\ j + 1 \in Nat /\ j + 1 >= 1
        BY <1>1, <1>9
      <4>2. j + 1 \in 1..Len(q) /\ j + 1 # 1
        BY <1>1, <4>1
      <4>3. QED
        BY <1>9, <4>1, <4>2
    <3>2. FreeBlock(m, z, H, q[j + 1], i, Node(q, (j + 1) + 1))
      BY <1>1, <3>1 DEF Chain
    <3>3. q[j + 1] # p
      BY <1>1, <3>1 DEF Chain
    <3>4. QED
      BY <1>0, <1>5, <3>1, <3>2, <3>3 DEF FreeBlock
  <2>3. QED
    BY <1>9, <2>1, <2>2 DEF Chain
<1>11. Chained(n, sn, d, z, H \cup {p})
  <2>1. d \in [0..7 -> Seq(Arena)]
    BY <1>1, <1>9
  <2>2. ASSUME NEW k \in 0..7, k # i PROVE sn[k] = Node(d[k], 1) /\ Chain(n, z, H \cup {p}, d[k], k)
    <3>1. d[k] = c[k] /\ sn[k] = sm[k] /\ sm[k] = Node(c[k], 1) /\ Chain(m, z, H, c[k], k)
      BY <1>a, <1>1, <2>2 DEF Good, Chained, Typed
    <3>2. \A j \in 1..Len(c[k]) : c[k][j] \in DOMAIN z /\ c[k][j] \notin H /\ SmallSize(k, z[c[k][j]])
      BY <3>1 DEF Chain, FreeBlock
    <3>3. \A s : ~(SmallSize(i, s) /\ SmallSize(k, s))
      BY <2>2 DEF SmallSize
    <3>4. \A j \in 1..Len(c[k]) : c[k][j] # p
      BY <1>3, <3>2, <3>3
    <3>5. Chain(n, z, H \cup {p}, c[k], k)
      BY <1>0, <1>5, <3>1, <3>2, <3>4, ChainFrame, SMTT(30)
    <3>6. QED
      BY <3>1, <3>5
  <2>3. sn[i] = Node(d[i], 1) /\ Chain(n, z, H \cup {p}, d[i], i)
    <3>1. d[i] = Rest(q) /\ sn[i] = m[p].next
      BY <1>a, <1>1 DEF Good, Typed
    <3>2. Node(Rest(q), 1) = Node(q, 1 + 1) /\ 1 + 1 = 2
      BY <1>9
    <3>3. QED
      BY <1>2, <1>10, <3>1, <3>2
  <2>4. QED
    BY <2>1, <2>2, <2>3 DEF Chained
<1>12. NoneLost(d, z, H \cup {p})
  <2> SUFFICES ASSUME NEW r \in DOMAIN z, r \notin H, r # p
               PROVE  \E k \in 0..7 : \E j \in 1..Len(d[k]) : r = d[k][j]
    BY DEF NoneLost
  <2>1. PICK k \in 0..7 : \E j \in 1..Len(c[k]) : r = c[k][j]
    BY DEF Good, NoneLost
  <2>2. PICK j \in 1..Len(c[k]) : r = c[k][j]
    BY <2>1
  <2>3. CASE k # i
    <3>1. d[k] = c[k]
      BY <1>1, <2>3
    <3>2. QED
      BY <2>2, <3>1
  <2>4. CASE k = i
    <3>1. d[i] = Rest(q)
      BY <1>1
    <3>2. j # 1 /\ j - 1 \in 1..(Len(q) - 1) /\ (j - 1) + 1 = j
      <4>1. j \in 1..Len(q) /\ q[j] = r
        BY <2>2, <2>4
      <4>2. j # 1
        BY <1>1, <4>1
      <4>3. QED
        BY <1>1, <4>1, <4>2
    <3>3. j - 1 \in 1..Len(d[i]) /\ d[i][j - 1] = r
      BY <1>9, <2>2, <2>4, <3>1, <3>2
    <3>4. QED
      BY <2>4, <3>3
  <2>5. QED
    BY <2>3, <2>4
<1>13. QED
  BY <1>6, <1>7, <1>8, <1>11, <1>12 DEF Good

(* A small block is put before its list, and zeroed. *)
LEMMA PutStep ==
  ASSUME NEW m, NEW sm, NEW c, NEW z, NEW H, Good(m, sm, c, z, H),
         NEW i \in 0..7, NEW p \in H, SmallSize(i, z[p]), z[p] <= MaxSmall,
         NEW n, DOMAIN n = DOMAIN m, n[p] = Header(sm[i], 0),
         \A x \in Cells(p, z[p]) : x # p => n[x] = Zero,
         \A x \in DOMAIN m : x \notin Cells(p, z[p]) => n[x] = m[x]
  PROVE  Good(n, [sm EXCEPT ![i] = p], [c EXCEPT ![i] = Cons(p, c[i])], z, H \ {p})
<1> DEFINE q == c[i]
           d == [c EXCEPT ![i] = Cons(p, c[i])]
           sn == [sm EXCEPT ![i] = p]
<1>0. \A r \in DOMAIN z : /\ r \in DOMAIN m /\ r \in Arena /\ r \in Int /\ r # 0
                          /\ z[r] \in Nat /\ z[r] >= 1 /\ r \in Cells(r, z[r])
  BY BlocksAre DEF Good
<1>1. p \in DOMAIN z /\ p \in Arena
  BY <1>0 DEF Good, Headed
<1>2. q \in Seq(Arena) /\ Chain(m, z, H, q, i) /\ c \in [0..7 -> Seq(Arena)] /\ sm[i] = Node(q, 1)
      /\ sm \in [0..7 -> {0} \cup Arena] /\ Len(q) \in Nat
  BY DEF Good, Chained, Typed
<1>3. \A r \in DOMAIN z : r # p => \A x \in Cells(r, z[r]) : n[x] = m[x]
  BY <1>0, <1>1 DEF Good, Tiles
<1>4. Zero \in Headers /\ n[p] \in Headers
  <2>1. 0 \in 0..(Pages * PageSize)
    BY ArenaIs, SizesFit
  <2>2. Header(0, 0) \in Headers
    BY <2>1, HeaderIs
  <2>3. Header(sm[i], 0) \in Headers
    BY <1>2, <2>1, HeaderIs
  <2>4. QED
    BY <2>2, <2>3 DEF Zero
<1>5. Typed(n, sn)
  <2>1. \A x \in DOMAIN m : n[x] \in Tags \cup Headers
    BY <1>4 DEF Good, Typed
  <2>2. sn \in [0..7 -> {0} \cup Arena]
    BY <1>1, <1>2
  <2>3. QED
    BY <2>1, <2>2 DEF Good, Typed
<1>6. Tiles(n, z)
  BY DEF Good, Tiles
<1>7. Headed(n, z, H \ {p})
  BY <1>0, <1>3 DEF Good, Headed
<1>8. /\ Cons(p, q) \in Seq(Arena) /\ Len(Cons(p, q)) = Len(q) + 1 /\ Cons(p, q)[1] = p
      /\ \A j \in 1..Len(q) : Cons(p, q)[j + 1] = q[j]
      /\ Node(Cons(p, q), 1) = p
      /\ \A j \in Nat : j >= 1 => Node(Cons(p, q), j + 1) = Node(q, j)
  BY <1>1, <1>2, ConsIs
<1>9. ASSUME NEW k \in 0..7 PROVE Chain(n, z, H \ {p}, c[k], k) /\ \A j \in 1..Len(c[k]) : c[k][j] # p
  <2>1. Chain(m, z, H, c[k], k)
    BY DEF Good, Chained
  <2>2. \A j \in 1..Len(c[k]) : c[k][j] \in DOMAIN z /\ c[k][j] \notin H
    BY <2>1 DEF Chain, FreeBlock
  <2>3. \A j \in 1..Len(c[k]) : c[k][j] # p
    BY <2>2
  <2>4. QED
    BY <1>0, <1>3, <2>1, <2>2, <2>3, ChainFrame
<1>10. Chain(n, z, H \ {p}, Cons(p, q), i)
  <2> DEFINE w == Cons(p, q)
  <2>0. \A j \in 1..Len(w) : j = 1 \/ (j - 1 \in 1..Len(q) /\ (j - 1) + 1 = j /\ j \in Nat)
    BY <1>2, <1>8
  <2>a. \A j \in 1..Len(w) : j = 1 \/ (j - 1 \in 1..Len(q) /\ w[j] = q[j - 1] /\ w[j] # p)
    <3> SUFFICES ASSUME NEW j \in 1..Len(w), j # 1 PROVE j - 1 \in 1..Len(q) /\ w[j] = q[j - 1] /\ w[j] # p
      OBVIOUS
    <3>1. j - 1 \in 1..Len(q) /\ (j - 1) + 1 = j
      BY <2>0
    <3>2. w[(j - 1) + 1] = q[j - 1]
      BY <1>8, <3>1
    <3>3. q[j - 1] # p
      BY <1>9, <3>1
    <3>4. QED
      BY <3>1, <3>2, <3>3
  <2>1. ASSUME NEW j \in 1..Len(w), NEW k \in 1..Len(w), w[j] = w[k] PROVE j = k
    <3>1. CASE j = 1
      BY <1>8, <2>a, <2>1, <3>1
    <3>2. CASE k = 1
      BY <1>8, <2>a, <2>1, <3>2
    <3>3. CASE j # 1 /\ k # 1
      <4>1. j - 1 \in 1..Len(q) /\ k - 1 \in 1..Len(q) /\ q[j - 1] = q[k - 1]
        BY <2>a, <2>1, <3>3
      <4>2. j - 1 = k - 1
        BY <1>2, <4>1 DEF Chain
      <4>3. QED
        BY <2>0, <3>3, <4>2
    <3>4. QED
      BY <3>1, <3>2, <3>3
  <2>2. ASSUME NEW j \in 1..Len(w) PROVE FreeBlock(n, z, H \ {p}, w[j], i, Node(w, j + 1))
    <3>1. CASE j = 1
      <4>1. Node(w, 1 + 1) = Node(q, 1)
        BY <1>8
      <4>2. QED
        BY <1>1, <1>2, <1>8, <3>1, <4>1 DEF FreeBlock
    <3>2. CASE j # 1
      <4>1. j - 1 \in 1..Len(q) /\ w[j] = q[j - 1] /\ (j - 1) + 1 = j /\ j \in Nat /\ j >= 1
        BY <2>0, <2>a, <3>2
      <4>2. Node(w, j + 1) = Node(q, (j - 1) + 1)
        BY <1>8, <4>1
      <4>3. QED
        BY <1>9, <4>1, <4>2 DEF Chain
    <3>3. QED
      BY <3>1, <3>2
  <2>3. QED
    BY <1>8, <2>1, <2>2 DEF Chain
<1>11. Chained(n, sn, d, z, H \ {p})
  <2>1. d \in [0..7 -> Seq(Arena)]
    BY <1>2, <1>8
  <2>2. ASSUME NEW k \in 0..7, k # i PROVE sn[k] = Node(d[k], 1) /\ Chain(n, z, H \ {p}, d[k], k)
    <3>1. d[k] = c[k] /\ sn[k] = sm[k] /\ sm[k] = Node(c[k], 1)
      BY <1>2, <2>2 DEF Good, Chained
    <3>2. QED
      BY <1>9, <3>1
  <2>3. sn[i] = Node(d[i], 1) /\ Chain(n, z, H \ {p}, d[i], i)
    <3>1. d[i] = Cons(p, q) /\ sn[i] = p
      BY <1>2
    <3>2. QED
      BY <1>8, <1>10, <3>1
  <2>4. QED
    BY <2>1, <2>2, <2>3 DEF Chained
<1>12. NoneLost(d, z, H \ {p})
  <2> SUFFICES ASSUME NEW r \in DOMAIN z, r \notin H \/ r = p
               PROVE  \E k \in 0..7 : \E j \in 1..Len(d[k]) : r = d[k][j]
    BY DEF NoneLost
  <2>0. d[i] = Cons(p, q)
    BY <1>2
  <2>1. CASE r = p
    <3>1. 1 \in 1..Len(d[i]) /\ d[i][1] = p
      BY <1>2, <1>8, <2>0
    <3>2. QED
      BY <2>1, <3>1
  <2>2. CASE r \notin H
    <3>1. PICK k \in 0..7 : \E j \in 1..Len(c[k]) : r = c[k][j]
      BY <2>2 DEF Good, NoneLost
    <3>2. PICK j \in 1..Len(c[k]) : r = c[k][j]
      BY <3>1
    <3>3. CASE k # i
      <4>1. d[k] = c[k]
        BY <1>2, <3>3
      <4>2. QED
        BY <3>2, <4>1
    <3>4. CASE k = i
      <4>1. j \in 1..Len(q) /\ r = q[j]
        BY <3>2, <3>4
      <4>2. j + 1 \in 1..Len(d[i]) /\ d[i][j + 1] = r
        BY <1>2, <1>8, <2>0, <4>1
      <4>3. QED
        BY <4>2
    <3>5. QED
      BY <3>3, <3>4
  <2>3. QED
    BY <2>1, <2>2
<1>13. QED
  BY <1>5, <1>6, <1>7, <1>11, <1>12 DEF Good

(* A page is cut into the blocks of an empty list. *)
LEMMA CarveStep ==
  ASSUME NEW m, NEW sm, NEW c, NEW z, NEW H, Good(m, sm, c, z, H),
         NEW i \in 0..7, NEW s \in Nat, SmallSize(i, s), s <= MaxSmall, sm[i] = 0,
         NEW a \in Arena, Cells(a, PageSize) \subseteq Arena,
         \A x \in Cells(a, PageSize) : x \notin DOMAIN m,
         NEW n, DOMAIN n = DOMAIN m \cup Cells(a, PageSize), \A x \in DOMAIN m : n[x] = m[x],
         \A x \in Cells(a, PageSize) :
           n[x] = IF (x - a) % s = 0 /\ x + s < a + PageSize THEN Header(x + s, 0) ELSE Zero
  PROVE  \E d, y : Good(n, [sm EXCEPT ![i] = a], d, y, H)
<1> DEFINE nr == CutNo(s)
           at(j) == CutAt(a, s, j)
           q == [j \in 1..nr |-> at(j)]
           St == {at(j) : j \in 1..nr}
           y == [x \in DOMAIN z \cup St |-> IF x \in St THEN s ELSE z[x]]
           d == [c EXCEPT ![i] = q]
           sn == [sm EXCEPT ![i] = a]
           P == Cells(a, PageSize)
<1>0. \A r \in DOMAIN z : /\ r \in DOMAIN m /\ r \in Arena /\ r \in Int /\ r # 0
                          /\ z[r] \in Nat /\ z[r] >= 1 /\ r \in Cells(r, z[r])
  BY BlocksAre DEF Good
<1>1. CutFacts(a, s) /\ a \in Nat
  BY MultiplesAre, CutIs, ArenaIs
<1>2. /\ nr \in Nat /\ nr >= 1 /\ s \in Nat /\ s >= 1 /\ PageSize \in Nat /\ at(1) = a /\ a \in Nat
      /\ \A j \in 1..nr : /\ at(j) \in Nat /\ at(j) >= a /\ at(j) + s <= a + PageSize
                          /\ (at(j) - a) % s = 0
                          /\ at(j) + s < a + PageSize <=> j < nr
                          /\ at(j) + s = at(j + 1)
      /\ \A j, k \in 1..nr : j < k => at(j) + s <= at(k)
      /\ \A x \in a..(a + PageSize - 1) : \E j \in 1..nr :
           at(j) <= x /\ x < at(j) + s /\ ((x - a) % s = 0 => x = at(j))
  BY <1>1 DEF CutFacts
<1> HIDE DEF nr, at
<1>3. \A j \in 1..nr : at(j) \in Cells(at(j), s) /\ Cells(at(j), s) \subseteq P /\ at(j) \in P
  BY <1>2 DEF Cells
<1>4. \A j \in 1..nr : at(j) \in Arena /\ at(j) \notin DOMAIN z /\ at(j) \notin DOMAIN m
  BY <1>0, <1>3
<1>5. /\ DOMAIN y = DOMAIN z \cup St /\ \A r \in DOMAIN z : y[r] = z[r]
      /\ \A j \in 1..nr : at(j) \in DOMAIN y /\ y[at(j)] = s
      /\ \A r \in St : \E j \in 1..nr : r = at(j)
  BY <1>4
<1> HIDE DEF y, St
<1>6. \A j, k \in 1..nr : at(j) = at(k) => j = k
  BY <1>2
<1>7. \A j, k \in 1..nr : j # k => Cells(at(j), s) \cap Cells(at(k), s) = {}
  <2> SUFFICES ASSUME NEW j \in 1..nr, NEW k \in 1..nr, j < k
               PROVE  Cells(at(j), s) \cap Cells(at(k), s) = {}
    BY <1>2
  <2>1. at(j) + s <= at(k) /\ at(j) \in Nat /\ at(k) \in Nat
    BY <1>2
  <2>2. QED
    BY <1>2, <2>1 DEF Cells
<1>8. \A x \in P : \E j \in 1..nr : x \in Cells(at(j), s)
  <2> SUFFICES ASSUME NEW x \in P PROVE \E j \in 1..nr : x \in Cells(at(j), s)
    OBVIOUS
  <2>1. x \in a..(a + PageSize - 1) /\ x \in Int
    BY <1>2 DEF Cells
  <2>2. PICK j \in 1..nr : at(j) <= x /\ x < at(j) + s
    BY <1>2, <2>1
  <2>3. QED
    BY <1>2, <2>1, <2>2 DEF Cells
<1>9. 0 \in 0..(Pages * PageSize) /\ Zero \in Headers
  <2>1. 0 \in 0..(Pages * PageSize)
    BY ArenaIs, SizesFit
  <2>2. QED
    BY <2>1, HeaderIs DEF Zero
<1>10. q \in Seq(Arena) /\ Len(q) = nr /\ \A j \in 1..nr : q[j] = at(j)
  <2>1. \A j \in 1..nr : at(j) \in Arena
    BY <1>4
  <2>2. QED
    BY <1>2, <2>1, IsASeq
<1>11. \A j \in 1..nr : n[at(j)] = Header(Node(q, j + 1), 0)
  <2> SUFFICES ASSUME NEW j \in 1..nr PROVE n[at(j)] = Header(Node(q, j + 1), 0)
    OBVIOUS
  <2>1. n[at(j)] = IF at(j) + s < a + PageSize THEN Header(at(j) + s, 0) ELSE Zero
    BY <1>2, <1>3
  <2>2. CASE j < nr
    <3>1. j + 1 \in 1..nr
      BY <1>2, <2>2
    <3>2. Node(q, j + 1) = at(j + 1)
      BY <1>10, <3>1 DEF Node
    <3>3. QED
      BY <1>2, <2>1, <2>2, <3>2
  <2>3. CASE ~(j < nr)
    <3>1. j + 1 \notin 1..nr
      BY <1>2, <2>3
    <3>2. Node(q, j + 1) = 0
      BY <1>10, <3>1 DEF Node
    <3>3. QED
      BY <1>2, <2>1, <2>3, <3>2 DEF Zero
  <2>4. QED
    BY <2>2, <2>3
<1>12. \A j \in 1..nr : \A x \in Cells(at(j), s) : x # at(j) => n[x] = Zero
  <2> SUFFICES ASSUME NEW j \in 1..nr, NEW x \in Cells(at(j), s), x # at(j), n[x] # Zero PROVE FALSE
    OBVIOUS
  <2>1. x \in P /\ x \in a..(a + PageSize - 1)
    BY <1>3 DEF Cells
  <2>2. (x - a) % s = 0
    BY <2>1
  <2>3. PICK k \in 1..nr : x = at(k)
    BY <1>2, <2>1, <2>2
  <2>4. QED
    BY <1>3, <1>7, <2>3
<1>13. \A x \in P : n[x] \in Headers
  <2> SUFFICES ASSUME NEW x \in P PROVE n[x] \in Headers
    OBVIOUS
  <2>1. PICK j \in 1..nr : x \in Cells(at(j), s)
    BY <1>8
  <2>2. CASE x # at(j)
    BY <1>9, <1>12, <2>1, <2>2
  <2>3. CASE x = at(j)
    <3>1. Node(q, j + 1) \in {0} \cup Arena
      BY <1>10, NodeIs
    <3>2. QED
      BY <1>9, <1>11, <2>3, <3>1, HeaderIs
  <2>4. QED
    BY <2>2, <2>3
<1>14. Typed(n, sn)
  <2>1. sn \in [0..7 -> {0} \cup Arena]
    BY DEF Good, Typed
  <2>2. QED
    BY <1>13, <2>1 DEF Good, Typed
<1>15. Tiles(n, y)
  <2>1. DOMAIN y \subseteq DOMAIN n
    BY <1>0, <1>3, <1>5
  <2>2. ASSUME NEW r \in DOMAIN y PROVE y[r] \in Nat /\ y[r] >= 1 /\ Cells(r, y[r]) \subseteq DOMAIN n
    <3>1. CASE r \in DOMAIN z
      BY <1>0, <1>5, <3>1 DEF Good, Tiles
    <3>2. CASE r \in St
      BY <1>2, <1>3, <1>5, <3>2
    <3>3. QED
      BY <1>5, <3>1, <3>2
  <2>3. ASSUME NEW x \in DOMAIN n PROVE \E r \in DOMAIN y : x \in Cells(r, y[r])
    <3>1. CASE x \in DOMAIN m
      BY <1>5, <3>1 DEF Good, Tiles
    <3>2. CASE x \in P
      BY <1>5, <1>8, <3>2
    <3>3. QED
      BY <3>1, <3>2
  <2>4. ASSUME NEW r \in DOMAIN y, NEW t \in DOMAIN y, r # t PROVE Cells(r, y[r]) \cap Cells(t, y[t]) = {}
    <3>0. \A u \in DOMAIN z : Cells(u, z[u]) \subseteq DOMAIN m
      BY DEF Good, Tiles
    <3>1. CASE r \in DOMAIN z /\ t \in DOMAIN z
      BY <1>5, <2>4, <3>1 DEF Good, Tiles
    <3>2. CASE r \in DOMAIN z /\ t \in St
      BY <1>3, <1>5, <3>0, <3>2
    <3>3. CASE r \in St /\ t \in DOMAIN z
      BY <1>3, <1>5, <3>0, <3>3
    <3>4. CASE r \in St /\ t \in St
      BY <1>5, <1>7, <2>4, <3>4
    <3>5. QED
      BY <1>5, <3>1, <3>2, <3>3, <3>4
  <2>5. QED
    BY <2>1, <2>2, <2>3, <2>4 DEF Tiles
<1>16. Headed(n, y, H)
  BY <1>0, <1>5 DEF Good, Headed
<1>17. Chain(n, y, H, q, i)
  <2>1. ASSUME NEW j \in 1..nr PROVE FreeBlock(n, y, H, q[j], i, Node(q, j + 1))
    <3>1. q[j] = at(j) /\ at(j) \in DOMAIN y /\ y[at(j)] = s /\ at(j) \notin H
      BY <1>4, <1>5, <1>10 DEF Good, Headed
    <3>2. QED
      BY <1>11, <1>12, <3>1 DEF FreeBlock
  <2>2. QED
    BY <1>6, <1>10, <2>1 DEF Chain
<1> HIDE DEF q
<1>18. c \in [0..7 -> Seq(Arena)] /\ sm \in [0..7 -> {0} \cup Arena] /\ c[i] \in Seq(Arena) /\ Len(c[i]) = 0
  <2>1. c \in [0..7 -> Seq(Arena)] /\ sm \in [0..7 -> {0} \cup Arena] /\ sm[i] = Node(c[i], 1)
    BY DEF Good, Chained, Typed
  <2>2. c[i] \in Seq(Arena) /\ Len(c[i]) \in Nat /\ ~(Len(c[i]) >= 1)
    BY <2>1, NodeIs, SMTT(30)
  <2>3. QED
    BY <2>1, <2>2
<1>19. Chained(n, sn, d, y, H)
  <2>1. d \in [0..7 -> Seq(Arena)]
    BY <1>10, <1>18
  <2>2. ASSUME NEW k \in 0..7, k # i PROVE sn[k] = Node(d[k], 1) /\ Chain(n, y, H, d[k], k)
    <3>1. d[k] = c[k] /\ sn[k] = sm[k] /\ sm[k] = Node(c[k], 1) /\ Chain(m, z, H, c[k], k)
      BY <1>18, <2>2 DEF Good, Chained
    <3>2. \A j \in 1..Len(c[k]) : c[k][j] \in DOMAIN z /\ c[k][j] \notin H
      BY <3>1 DEF Chain, FreeBlock
    <3>3. \A u \in DOMAIN z : \A x \in Cells(u, z[u]) : n[x] = m[x]
      BY DEF Good, Tiles
    <3>4. Chain(n, y, H, c[k], k)
      BY <1>0, <1>5, <3>1, <3>2, <3>3, ChainFrame
    <3>5. QED
      BY <3>1, <3>4
  <2>3. sn[i] = Node(d[i], 1) /\ Chain(n, y, H, d[i], i)
    <3>1. d[i] = q /\ sn[i] = a
      BY <1>18
    <3>2. 1 \in 1..nr
      BY <1>2
    <3>3. Node(q, 1) = a
      BY <1>2, <1>10, <3>2 DEF Node
    <3>4. QED
      BY <1>17, <3>1, <3>3
  <2>4. QED
    BY <2>1, <2>2, <2>3 DEF Chained
<1>20. NoneLost(d, y, H)
  <2> SUFFICES ASSUME NEW r \in DOMAIN y, r \notin H
               PROVE  \E k \in 0..7 : \E j \in 1..Len(d[k]) : r = d[k][j]
    BY DEF NoneLost
  <2>0. d[i] = q
    BY <1>18
  <2>1. CASE r \in St
    BY <1>5, <1>10, <2>0, <2>1
  <2>2. CASE r \in DOMAIN z
    <3>1. PICK k \in 0..7 : \E j \in 1..Len(c[k]) : r = c[k][j]
      BY <2>2 DEF Good, NoneLost
    <3>2. k # i
      BY <1>18, <3>1
    <3>3. d[k] = c[k]
      BY <1>18, <3>2
    <3>4. QED
      BY <3>1, <3>3
  <2>3. QED
    BY <1>5, <2>1, <2>2
<1>21. QED
  <2>1. Good(n, sn, d, y, H)
    BY <1>14, <1>15, <1>16, <1>19, <1>20 DEF Good
  <2> HIDE DEF d
  <2>2. QED
    BY <2>1

-----------------------------------------------------------------------------
(* malloc.                                                                 *)

SoundHeap(m, sm, H) == \E c, z : Good(m, sm, c, z, H)

(* The cells of the blocks in Q are in n what they are in m. *)
Keeps(m, n, Q) ==
  \A q \in Q : n[q] = m[q] /\ \A x \in Cells(q, m[q].size) : n[x] = m[x]

Outcome(m, sm, p) == [mem |-> m, small |-> sm, ptr |-> p]

(* r is the heap h after a block for req has been found. *)
Found(h, r, H, req) ==
  /\ r = Outcome(r.mem, r.small, r.ptr) /\ r.ptr \in Arena /\ r.ptr \notin H
  /\ SoundHeap(r.mem, r.small, H \cup {r.ptr})
  /\ Keeps(h.mem, r.mem, H)
  /\ req < r.mem[r.ptr].size
  /\ \A x \in Cells(r.ptr, r.mem[r.ptr].size) : x # r.ptr => r.mem[x] = Zero

Sized(r, s) == [r EXCEPT !.mem[r.ptr].size = s]

LEMMA SizedIs ==
  ASSUME NEW m, NEW sm, NEW p \in DOMAIN m, m[p] = Header(0, 0), NEW s,
         NEW n, n = Sized(Outcome(m, sm, p), s)
  PROVE  /\ n.small = sm /\ n.ptr = p /\ DOMAIN n.mem = DOMAIN m /\ n = Outcome(n.mem, n.small, n.ptr)
         /\ n.mem[p] = Header(0, s)
         /\ \A x \in DOMAIN m : x # p => n.mem[x] = m[x]
<1> DEFINE r == Outcome(m, sm, p)
           b == [m EXCEPT ![p].size = s]
<1>1. r.mem = m /\ r.small = sm /\ r.ptr = p
  BY DEF Outcome
<1>2. Sized(r, s) = Outcome(b, sm, p)
  <2>1. Sized(r, s) = [r EXCEPT !.mem = [r.mem EXCEPT ![r.ptr].size = s]]
    BY DEF Sized
  <2>2. Sized(r, s) = [r EXCEPT !.mem = b]
    BY <1>1, <2>1, Zenon
  <2> HIDE DEF b
  <2>3. QED
    BY <2>2 DEF Outcome
<1>3. b = [m EXCEPT ![p] = [m[p] EXCEPT !.size = s]]
  OBVIOUS
<1>4. [m[p] EXCEPT !.size = s] = Header(0, s)
  BY DEF Header
<1> HIDE DEF b
<1>5. DOMAIN b = DOMAIN m /\ b[p] = Header(0, s) /\ \A x \in DOMAIN m : x # p => b[x] = m[x]
  BY <1>3, <1>4
<1>6. Sized(r, s).mem = b /\ Sized(r, s).small = sm /\ Sized(r, s).ptr = p
  BY <1>2 DEF Outcome
<1>7. QED
  BY <1>2, <1>5, <1>6

(* Held blocks have a size and their cells are mapped. *)
LEMMA HeldIs ==
  ASSUME NEW m, NEW sm, NEW H, SoundHeap(m, sm, H)
  PROVE  /\ \A q \in H : /\ q \in DOMAIN m /\ q \in Arena /\ q \in Int /\ q # 0 /\ m[q] \in Headers
                         /\ m[q].size \in Nat /\ m[q].size >= 1 /\ q \in Cells(q, m[q].size)
                         /\ Cells(q, m[q].size) \subseteq DOMAIN m
         /\ \A p, q \in H : p # q => Cells(p, m[p].size) \cap Cells(q, m[q].size) = {}
         /\ Typed(m, sm)
<1>1. PICK c, z : Good(m, sm, c, z, H)
  BY DEF SoundHeap
<1>2. \A q \in H : q \in DOMAIN z /\ m[q].size = z[q] /\ m[q] \in Headers
  BY <1>1 DEF Good, Headed
<1>3. Typed(m, sm) /\ Tiles(m, z)
  BY <1>1 DEF Good
<1>4. QED
  BY <1>2, <1>3, BlocksAre DEF Tiles

LEMMA TakeFirstIs ==
  ASSUME NEW h, NEW H, SoundHeap(h.mem, h.small, H),
         NEW i \in 0..7, NEW s \in Nat, SmallSize(i, s), get_index(s) = i, h.small[i] # 0,
         NEW req \in Nat, req < s
  PROVE  TakeFirst(h, s).ptr # 0 /\ Found(h, Sized(TakeFirst(h, s), s), H, req)
<1> DEFINE m == h.mem
           sm == h.small
           p == sm[i]
           b == [m EXCEPT ![p].next = 0]
           sn == [sm EXCEPT ![i] = m[p].next]
           n == Sized(TakeFirst(h, s), s)
<1>1. PICK c, z : Good(m, sm, c, z, H)
  BY DEF SoundHeap
<1>2. TakeFirst(h, s) = Outcome(b, sn, p)
  BY DEF TakeFirst, Outcome
<1> HIDE DEF n
<1>3. /\ FreeBlock(m, z, H, p, i, m[p].next) /\ p \in DOMAIN m /\ p \in Arena /\ z[p] = s
      /\ Cells(p, z[p]) \subseteq DOMAIN m
  <2>1. FreeBlock(m, z, H, p, i, m[p].next) /\ p \in DOMAIN m
    BY <1>1, FirstIs
  <2>2. z[p] = s
    BY <2>1 DEF FreeBlock, SmallSize
  <2>3. QED
    BY <1>1, <2>1, <2>2 DEF Good, Typed, Tiles, FreeBlock
<1>4. m[p] = Header(m[p].next, 0)
  BY <1>3 DEF FreeBlock
<1>5. DOMAIN b = DOMAIN m /\ b[p] = Header(0, 0) /\ \A x \in DOMAIN m : x # p => b[x] = m[x]
  <2>1. b = [m EXCEPT ![p] = [m[p] EXCEPT !.next = 0]]
    OBVIOUS
  <2>2. [m[p] EXCEPT !.next = 0] = Header(0, 0)
    BY <1>4 DEF Header
  <2> HIDE DEF b
  <2>3. QED
    BY <1>3, <2>1, <2>2
<1> HIDE DEF b, sn
<1>6. /\ n.small = sn /\ n.ptr = p /\ DOMAIN n.mem = DOMAIN m /\ n = Outcome(n.mem, n.small, n.ptr)
      /\ n.mem[p] = Header(0, s)
      /\ \A x \in DOMAIN m : x # p => n.mem[x] = m[x]
  <2>1. n = Sized(Outcome(b, sn, p), s) /\ p \in DOMAIN b
    BY <1>2, <1>3, <1>5 DEF n
  <2>2. QED
    BY <1>5, <2>1, SizedIs
<1>7. Good(n.mem, sn, [c EXCEPT ![i] = Rest(c[i])], z, H \cup {p})
  <2>1. Taken(m, sm, i, p, n.mem, sn, z[p])
    BY <1>3, <1>6 DEF Taken, sn
  <2>2. QED
    BY <1>1, <2>1, TakeStep
<1>8. SoundHeap(n.mem, n.small, H \cup {n.ptr})
  <2> DEFINE d == [c EXCEPT ![i] = Rest(c[i])]
  <2>1. Good(n.mem, n.small, d, z, H \cup {n.ptr})
    BY <1>6, <1>7
  <2> HIDE DEF d
  <2>2. QED
    BY <2>1 DEF SoundHeap
<1>9. p \notin H
  BY <1>3 DEF FreeBlock
<1>10. Keeps(m, n.mem, H)
  <2>1. \A q \in H : q \in DOMAIN z /\ m[q].size = z[q]
    BY <1>1 DEF Good, Headed
  <2>2. \A q \in DOMAIN z : q \in DOMAIN m /\ q \in Cells(q, z[q])
    BY <1>1, BlocksAre DEF Good
  <2>3. \A q \in H : \A x \in Cells(q, z[q]) : x \in DOMAIN m /\ x # p
    BY <1>1, <1>3, <1>9, <2>1, <2>2 DEF Good, Tiles, FreeBlock
  <2>4. QED
    BY <1>6, <2>1, <2>2, <2>3 DEF Keeps
<1>11. n.mem[p].size = s
  BY <1>6, HeaderIs
<1>12. \A x \in Cells(p, s) : x # p => n.mem[x] = Zero
  BY <1>3, <1>6 DEF FreeBlock
<1>13. Found(h, n, H, req)
  BY <1>3, <1>6, <1>8, <1>9, <1>10, <1>11, <1>12 DEF Found
<1>14. TakeFirst(h, s).ptr # 0
  BY <1>2 DEF Outcome
<1>15. QED
  BY <1>13, <1>14 DEF n

LEMMA UnmappedIs ==
  ASSUME NEW h, NEW n \in Nat, n >= 1, NEW a \in Unmapped(h, n)
  PROVE  /\ a \in Arena /\ a \in Int /\ a # 0 /\ a \in Cells(a, n)
         /\ Cells(a, n) \subseteq Arena /\ \A x \in Cells(a, n) : x \notin DOMAIN h.mem
<1>1. a \in Int
  <2>1. PICK i \in 1..Pages : a = i * PageSize
    BY DEF Unmapped, PageStarts
  <2>2. i \in Int /\ PageSize \in Int
    BY ArenaIs
  <2>3. QED
    BY <2>1, <2>2
<1>2. a \in Cells(a, n)
  BY <1>1 DEF Cells
<1>3. Cells(a, n) \subseteq Arena /\ \A x \in Cells(a, n) : x \notin DOMAIN h.mem
  BY DEF Unmapped
<1>4. QED
  BY <1>1, <1>2, <1>3, ArenaIs

LEMMA KeepsBoth ==
  ASSUME NEW m, NEW k, NEW n, NEW Q, Keeps(m, k, Q), Keeps(k, n, Q)
  PROVE  Keeps(m, n, Q)
BY DEF Keeps

(* Mapping more memory changes no block. *)
LEMMA KeepsMapped ==
  ASSUME NEW m, NEW sm, NEW H, SoundHeap(m, sm, H), NEW n, \A x \in DOMAIN m : n[x] = m[x]
  PROVE  Keeps(m, n, H)
<1>1. \A q \in H : q \in DOMAIN m /\ Cells(q, m[q].size) \subseteq DOMAIN m
  BY HeldIs
<1>2. QED
  BY <1>1 DEF Keeps

LEMMA CarvedIs ==
  ASSUME NEW h, NEW H, SoundHeap(h.mem, h.small, H),
         NEW i \in 0..7, NEW s \in Nat, SmallSize(i, s), s <= MaxSmall, get_index(s) = i,
         h.small[i] = 0, NEW a \in Unmapped(h, PageSize)
  PROVE  /\ SoundHeap(Carve(h, a, s).mem, Carve(h, a, s).small, H)
         /\ Keeps(h.mem, Carve(h, a, s).mem, H)
         /\ Carve(h, a, s).small[i] # 0
<1> DEFINE m == h.mem
           sm == h.small
           n == Carve(h, a, s).mem
           P == Cells(a, PageSize)
<1>0. PageSize \in Nat /\ PageSize >= 1
  BY PagesAre DEF SmallSize
<1>1. a \in Arena /\ P \subseteq Arena /\ a # 0 /\ \A x \in P : x \notin DOMAIN m
  BY <1>0, UnmappedIs
<1>2. PICK c, z : Good(m, sm, c, z, H)
  BY DEF SoundHeap
<1>3. Carve(h, a, s).small = [sm EXCEPT ![i] = a]
  BY DEF Carve
<1>4. n = [x \in DOMAIN m \cup P |->
             IF x \in P THEN IF (x - a) % s = 0 /\ x + s < a + PageSize THEN Header(x + s, 0) ELSE Zero
             ELSE m[x]]
  BY DEF Carve, Mapped
<1>5. /\ DOMAIN n = DOMAIN m \cup P /\ \A x \in DOMAIN m : n[x] = m[x]
      /\ \A x \in P : n[x] = IF (x - a) % s = 0 /\ x + s < a + PageSize THEN Header(x + s, 0) ELSE Zero
  BY <1>1, <1>4
<1> HIDE DEF n
<1>6. \E d, y : Good(n, [sm EXCEPT ![i] = a], d, y, H)
  BY <1>1, <1>2, <1>5, CarveStep
<1>7. SoundHeap(n, Carve(h, a, s).small, H)
  BY <1>3, <1>6 DEF SoundHeap
<1>8. Keeps(m, n, H)
  BY <1>5, KeepsMapped
<1>9. Carve(h, a, s).small[i] # 0
  BY <1>1, <1>2, <1>3 DEF Good, Typed
<1>10. QED
  BY <1>7, <1>8, <1>9 DEF n

LEMMA SmallMallocIs ==
  ASSUME NEW h, NEW H, SoundHeap(h.mem, h.small, H),
         NEW i \in 0..7, NEW s \in Nat, SmallSize(i, s), s <= MaxSmall, get_index(s) = i,
         NEW req \in Nat, req < s, NEW r \in SmallMalloc(h, s)
  PROVE  r = Failed(h) \/ (r.ptr # 0 /\ Found(h, Sized(r, s), H, req))
<1>1. CASE h.small[i] # 0
  <2>1. r = TakeFirst(h, s)
    BY <1>1 DEF SmallMalloc
  <2>2. QED
    BY <1>1, <2>1, TakeFirstIs
<1>2. ASSUME h.small[i] = 0, r # Failed(h) PROVE r.ptr # 0 /\ Found(h, Sized(r, s), H, req)
  <2>1. PICK a \in Unmapped(h, PageSize) : r = TakeFirst(Carve(h, a, s), s)
    BY <1>2 DEF SmallMalloc
  <2> DEFINE g == Carve(h, a, s)
  <2>2. SoundHeap(g.mem, g.small, H) /\ Keeps(h.mem, g.mem, H) /\ g.small[i] # 0
    BY <1>2, CarvedIs
  <2>3. r = TakeFirst(g, s)
    BY <2>1
  <2> HIDE DEF g
  <2>4. r.ptr # 0 /\ Found(g, Sized(r, s), H, req)
    BY <2>2, <2>3, TakeFirstIs
  <2>5. QED
    BY <2>2, <2>4, KeepsBoth DEF Found
<1>3. QED
  BY <1>1, <1>2

LEMMA ZeroIs == Zero = Header(0, 0) /\ Zero \in Headers
<1>1. 0 \in 0..(Pages * PageSize)
  BY ArenaIs, SizesFit
<1>2. QED
  BY <1>1, HeaderIs DEF Zero

(* do_mmap for a large block. *)
LEMMA MmapIs ==
  ASSUME NEW h, NEW H, SoundHeap(h.mem, h.small, H),
         NEW k \in Nat, k > MaxSmall, NEW req \in Nat, req < k, NEW r \in Mmap(h, k)
  PROVE  r = Failed(h) \/ (r.ptr # 0 /\ Found(h, Sized(r, k), H, req))
<1> SUFFICES ASSUME r # Failed(h) PROVE r.ptr # 0 /\ Found(h, Sized(r, k), H, req)
  OBVIOUS
<1> DEFINE m == h.mem
           sm == h.small
           b == r.mem
           n == Sized(r, k)
<1>0. k >= 1
  BY ArenaIs
<1>1. PICK a \in Unmapped(h, k) : r = Outcome([x \in DOMAIN m \cup Cells(a, k) |-> IF x \in Cells(a, k) THEN Zero ELSE m[x]], sm, a)
  BY DEF Mmap, Mapped, Outcome
<1>2. /\ a \in Arena /\ a # 0 /\ a \in Cells(a, k) /\ Cells(a, k) \subseteq Arena
      /\ \A x \in Cells(a, k) : x \notin DOMAIN m
  BY <1>0, UnmappedIs
<1>3. b = [x \in DOMAIN m \cup Cells(a, k) |-> IF x \in Cells(a, k) THEN Zero ELSE m[x]] /\ r = Outcome(b, sm, a) /\ r.ptr = a
  BY <1>1 DEF Outcome
<1>4. /\ DOMAIN b = DOMAIN m \cup Cells(a, k) /\ \A x \in DOMAIN m : b[x] = m[x]
      /\ \A x \in Cells(a, k) : b[x] = Zero
  BY <1>2, <1>3
<1> HIDE DEF b, n
<1>5. /\ n.small = sm /\ n.ptr = a /\ DOMAIN n.mem = DOMAIN b /\ n.mem[a] = Header(0, k)
      /\ n = Outcome(n.mem, n.small, n.ptr)
      /\ \A x \in DOMAIN b : x # a => n.mem[x] = b[x]
  <2>1. a \in DOMAIN b /\ b[a] = Header(0, 0) /\ n = Sized(Outcome(b, sm, a), k)
    BY <1>2, <1>3, <1>4, ZeroIs DEF n
  <2>2. QED
    BY <2>1, SizedIs
<1>6. n.mem[a] \in Headers /\ n.mem[a].size = k
  BY <1>0, <1>2, <1>5, HeaderIs, SizesFit
<1>7. /\ DOMAIN n.mem = DOMAIN m \cup Cells(a, k) /\ \A x \in DOMAIN m : n.mem[x] = m[x]
      /\ \A x \in Cells(a, k) : n.mem[x] \in Tags \cup Headers
      /\ \A x \in Cells(a, k) : x # a => n.mem[x] = Zero
  BY <1>2, <1>4, <1>5, <1>6, ZeroIs
<1>8. PICK c, z : Good(m, sm, c, z, H)
  BY DEF SoundHeap
<1>9. a \notin H /\ Good(n.mem, sm, c, With(z, a, k), H \cup {a})
  <2>1. NewBlock(m, n.mem, a, k)
    BY <1>2, <1>6, <1>7 DEF NewBlock
  <2>2. QED
    BY <1>8, <2>1, MapStep
<1>10. a \notin H /\ SoundHeap(n.mem, n.small, H \cup {n.ptr})
  BY <1>5, <1>9 DEF SoundHeap
<1>11. Keeps(m, n.mem, H)
  BY <1>7, KeepsMapped
<1>12. Found(h, n, H, req)
  BY <1>2, <1>5, <1>6, <1>7, <1>10, <1>11 DEF Found
<1>13. QED
  BY <1>2, <1>3, <1>12 DEF n

(* The sizes with which malloc and realloc ask for memory. *)
Need(size) == IF size <= MaxSmall THEN GetSize(size) ELSE PageAlign(size)

LEMMA NeedIs ==
  ASSUME NEW req \in Nat, req < SizeMod
  PROVE  LET size == (req + 1) % SizeMod
         IN  /\ size \in Nat /\ size < SizeMod /\ (size < 1 \/ size = req + 1)
             /\ size >= 1 => /\ Need(size) \in Nat /\ (Need(size) # 0 => req < Need(size))
                             /\ size > MaxSmall /\ Need(size) # 0 => Need(size) > MaxSmall
                             /\ size <= MaxSmall => /\ Need(size) <= MaxSmall /\ Need(size) # 0
                                                    /\ \E i \in 0..7 : SmallSize(i, Need(size)) /\ get_index(Need(size)) = i
<1> DEFINE size == (req + 1) % SizeMod
<1>0. SizeMod \in Nat /\ SizeMod > 0 /\ MaxSmall \in Nat
  BY ArenaIs, PagesAre
<1>1. size \in Nat /\ size < SizeMod /\ (size = 0 \/ size = req + 1)
  <2>1. CASE req + 1 < SizeMod
    BY <1>0, <2>1
  <2>2. CASE req + 1 = SizeMod
    BY <1>0, <2>2
  <2>3. QED
    BY <1>0, <2>1, <2>2
<1> HIDE DEF size
<1>2. ASSUME size >= 1, size <= MaxSmall
      PROVE  /\ Need(size) \in Nat /\ Need(size) # 0 /\ req < Need(size) /\ Need(size) <= MaxSmall
             /\ \E i \in 0..7 : SmallSize(i, Need(size)) /\ get_index(Need(size)) = i
  <2>1. PICK i \in 0..7, s \in Nat : /\ SmallSize(i, s) /\ size <= s /\ s <= MaxSmall
                                     /\ GetSize(size) = s /\ get_index(s) = i
    BY <1>1, <1>2, IndexIs
  <2>2. Need(size) = s
    BY <1>2, <2>1 DEF Need
  <2>3. s # 0 /\ req < s
    BY <1>1, <1>2, <2>1
  <2>4. QED
    BY <2>1, <2>2, <2>3
<1>3. ASSUME size >= 1, size > MaxSmall
      PROVE  Need(size) \in Nat /\ (Need(size) # 0 => req < Need(size) /\ Need(size) > MaxSmall)
  <2>1. Need(size) = PageAlign(size)
    BY <1>0, <1>1, <1>3 DEF Need
  <2>2. /\ PageAlign(size) \in Nat
        /\ PageAlign(size) # 0 => size <= PageAlign(size) /\ MaxSmall < PageAlign(size)
    BY <1>1, PageAlignIs
  <2>3. QED
    BY <1>0, <1>1, <1>3, <2>1, <2>2
<1>4. size <= MaxSmall \/ size > MaxSmall
  BY <1>0, <1>1
<1>5. /\ size \in Nat /\ size < SizeMod /\ (size < 1 \/ size = req + 1)
      /\ size >= 1 => /\ Need(size) \in Nat /\ (Need(size) # 0 => req < Need(size))
                      /\ size > MaxSmall /\ Need(size) # 0 => Need(size) > MaxSmall
                      /\ size <= MaxSmall => /\ Need(size) <= MaxSmall /\ Need(size) # 0
                                             /\ \E i \in 0..7 : SmallSize(i, Need(size)) /\ get_index(Need(size)) = i
  BY <1>0, <1>1, <1>2, <1>3, <1>4
<1>6. QED
  BY <1>5 DEF size

(* malloc fails and changes nothing, or finds a new block that is zero. *)
LEMMA LibcMallocIs ==
  ASSUME NEW h, NEW H, SoundHeap(h.mem, h.small, H),
         NEW req \in Nat, req < SizeMod, NEW r \in LibcMalloc(h, req)
  PROVE  r = Failed(h) \/ (r.ptr # 0 /\ Found(h, r, H, req))
<1> SUFFICES ASSUME r # Failed(h) PROVE r.ptr # 0 /\ Found(h, r, H, req)
  OBVIOUS
<1> DEFINE size == (req + 1) % SizeMod
           need == Need(size)
           found == IF size <= MaxSmall THEN SmallMalloc(h, need) ELSE Mmap(h, need)
<1>1. /\ size \in Nat /\ size < SizeMod /\ (size < 1 \/ size = req + 1)
      /\ size >= 1 => /\ need \in Nat /\ (need # 0 => req < need)
                      /\ size > MaxSmall /\ need # 0 => need > MaxSmall
                      /\ size <= MaxSmall => /\ need <= MaxSmall /\ need # 0
                                             /\ \E i \in 0..7 : SmallSize(i, need) /\ get_index(need) = i
  BY NeedIs
<1>2. LibcMalloc(h, req) = IF req = 0 \/ size < 1 \/ need = 0 THEN {Failed(h)}
                           ELSE {IF t.ptr = 0 THEN t ELSE Sized(t, need) : t \in found}
  BY DEF LibcMalloc, Need, Sized
<1> HIDE DEF size, need
<1>3. ~(req = 0 \/ size < 1 \/ need = 0)
  BY <1>2
<1>4. PICK t \in found : r = IF t.ptr = 0 THEN t ELSE Sized(t, need)
  BY <1>2, <1>3
<1>5. size >= 1 /\ need \in Nat /\ req < need /\ MaxSmall \in Nat
  BY <1>1, <1>3, ArenaIs
<1>6. t = Failed(h) \/ (t.ptr # 0 /\ Found(h, Sized(t, need), H, req))
  <2>1. CASE size <= MaxSmall
    <3>1. t \in SmallMalloc(h, need)
      BY <2>1
    <3>2. PICK i \in 0..7 : SmallSize(i, need) /\ get_index(need) = i
      BY <1>1, <1>5, <2>1
    <3>3. QED
      BY <1>1, <1>5, <2>1, <3>1, <3>2, SmallMallocIs
  <2>2. CASE ~(size <= MaxSmall)
    <3>1. t \in Mmap(h, need) /\ need > MaxSmall
      BY <1>1, <1>3, <1>5, <2>2
    <3>2. QED
      BY <1>5, <3>1, MmapIs
  <2>3. QED
    BY <2>1, <2>2
<1>7. Failed(h).ptr = 0
  BY DEF Failed
<1>8. t # Failed(h)
  BY <1>4, <1>7
<1>9. r = Sized(t, need) /\ t.ptr # 0
  BY <1>4, <1>6, <1>8
<1>10. Found(h, r, H, req)
  BY <1>6, <1>8, <1>9
<1>11. r.ptr # 0
  BY <1>10, ArenaIs DEF Found
<1>12. QED
  BY <1>10, <1>11

-----------------------------------------------------------------------------
(* free and realloc.                                                       *)

LEMMA IndexOfSmall ==
  ASSUME NEW i \in 0..7, NEW s \in Nat, SmallSize(i, s), s <= MaxSmall
  PROVE  get_index(s) = i
<1>1. s - 1 \in Nat /\ s - 1 < s /\ (i = 0 \/ s <= 2 * (s - 1))
  BY DEF SmallSize
<1>2. (s - 1) % PageSize = s - 1
  BY <1>1, PagesAre DEF SmallSize
<1>3. Shifts(s - 1) = i
  BY <1>1, ShiftsIs
<1>4. QED
  BY <1>2, <1>3 DEF get_index

LEMMA LibcFreeIs ==
  ASSUME NEW h, NEW H, SoundHeap(h.mem, h.small, H), NEW p \in H
  PROVE  /\ SoundHeap(LibcFree(h, p).mem, LibcFree(h, p).small, H \ {p})
         /\ Keeps(h.mem, LibcFree(h, p).mem, H \ {p})
<1> DEFINE m == h.mem
           sm == h.small
           s == m[p].size
           g == LibcFree(h, p)
<1>1. PICK c, z : Good(m, sm, c, z, H)
  BY DEF SoundHeap
<1>2. p \in DOMAIN z /\ z[p] = s /\ (z[p] > MaxSmall \/ \E i \in 0..7 : SmallSize(i, z[p]))
  BY <1>1 DEF Good, Headed
<1>3. /\ \A q \in H : /\ q \in DOMAIN m /\ q \in Int /\ m[q].size \in Nat /\ m[q].size >= 1
                      /\ q \in Cells(q, m[q].size) /\ Cells(q, m[q].size) \subseteq DOMAIN m
      /\ \A q, r \in H : q # r => Cells(q, m[q].size) \cap Cells(r, m[r].size) = {}
  BY HeldIs
<1>4. MaxSmall \in Nat /\ s \in Nat /\ s >= 1
  BY <1>3, ArenaIs
<1>5. CASE s <= MaxSmall
  <2>1. PICK i \in 0..7 : SmallSize(i, z[p])
    BY <1>2, <1>4, <1>5
  <2>2. get_index(s) = i
    BY <1>2, <1>4, <1>5, <2>1, IndexOfSmall
  <2>3. g = SmallFree(h, p, s)
    BY <1>4, <1>5 DEF LibcFree
  <2>4. /\ g.small = [sm EXCEPT ![i] = p]
        /\ g.mem = [x \in DOMAIN m |-> IF x = p THEN Header(sm[i], 0)
                                       ELSE IF x \in Cells(p, s) THEN Zero ELSE m[x]]
    BY <2>2, <2>3 DEF SmallFree
  <2> HIDE DEF g
  <2>5. /\ DOMAIN g.mem = DOMAIN m /\ g.mem[p] = Header(sm[i], 0)
        /\ \A x \in Cells(p, z[p]) : x # p => g.mem[x] = Zero
        /\ \A x \in DOMAIN m : x \notin Cells(p, z[p]) => g.mem[x] = m[x]
    BY <1>2, <1>3, <2>4
  <2>6. Good(g.mem, [sm EXCEPT ![i] = p], [c EXCEPT ![i] = Cons(p, c[i])], z, H \ {p})
    BY <1>1, <1>2, <1>5, <2>1, <2>5, PutStep
  <2>7. SoundHeap(g.mem, g.small, H \ {p})
    <3> DEFINE d == [c EXCEPT ![i] = Cons(p, c[i])]
    <3>1. Good(g.mem, g.small, d, z, H \ {p})
      BY <2>4, <2>6
    <3> HIDE DEF d
    <3>2. QED
      BY <3>1 DEF SoundHeap
  <2>8. Keeps(m, g.mem, H \ {p})
    BY <1>2, <1>3, <2>5 DEF Keeps
  <2>9. QED
    BY <2>7, <2>8 DEF g
<1>6. CASE ~(s <= MaxSmall)
  <2>1. g = Munmap(h, p, s)
    BY <1>4, <1>6 DEF LibcFree
  <2>2. g.small = sm /\ g.mem = [x \in DOMAIN m \ Cells(p, s) |-> m[x]]
    BY <2>1 DEF Munmap
  <2> HIDE DEF g
  <2>3. Good(g.mem, g.small, c, [q \in DOMAIN z \ {p} |-> z[q]], H \ {p})
    BY <1>1, <2>2, UnmapStep
  <2>4. SoundHeap(g.mem, g.small, H \ {p})
    <3> DEFINE y == [q \in DOMAIN z \ {p} |-> z[q]]
    <3>1. Good(g.mem, g.small, c, y, H \ {p})
      BY <2>3
    <3> HIDE DEF y
    <3>2. QED
      BY <3>1 DEF SoundHeap
  <2>5. Keeps(m, g.mem, H \ {p})
    BY <1>3, <2>2 DEF Keeps
  <2>6. QED
    BY <2>4, <2>5 DEF g
<1>7. QED
  BY <1>5, <1>6

(* r is the heap h after the block p has become r.ptr, of the size req. *)
Moved(h, r, H, p, req) ==
  /\ r.ptr \in Arena /\ r.ptr \notin H \ {p}
  /\ SoundHeap(r.mem, r.small, (H \ {p}) \cup {r.ptr})
  /\ Keeps(h.mem, r.mem, H \ {p})
  /\ req < r.mem[r.ptr].size
  /\ \A k \in 1..req : k < h.mem[p].size => r.mem[r.ptr + k] = h.mem[p + k]

LEMMA CopyIs ==
  ASSUME NEW r, r = Outcome(r.mem, r.small, r.ptr), NEW H, SoundHeap(r.mem, r.small, H),
         NEW p \in H, r.ptr \in H, p # r.ptr, NEW s \in Nat,
         s <= r.mem[p].size, s <= r.mem[r.ptr].size
  PROVE  LET g == Copy(r, p, r.ptr, s)
         IN  /\ SoundHeap(g.mem, g.small, H)
             /\ Keeps(r.mem, g.mem, H \ {r.ptr})
             /\ g.mem[r.ptr] = r.mem[r.ptr]
             /\ \A k \in 1..(s - 1) : g.mem[r.ptr + k] = r.mem[p + k]
<1> DEFINE m == r.mem
           q == r.ptr
           g == Copy(r, p, q, s)
           f(x) == IF x \in (q + 1)..(q + s - 1) THEN m[p + (x - q)] ELSE m[x]
<1>1. g = Outcome([x \in DOMAIN m |-> f(x)], r.small, q)
  <2>1. g = [r EXCEPT !.mem = [x \in DOMAIN m |-> f(x)]]
    BY DEF Copy
  <2> HIDE DEF f
  <2>2. r = [mem |-> m, small |-> r.small, ptr |-> q]
    BY DEF Outcome
  <2>3. QED
    BY <2>1, <2>2 DEF Outcome
<1>2. g.small = r.small /\ DOMAIN g.mem = DOMAIN m /\ \A x \in DOMAIN m : g.mem[x] = f(x)
  BY <1>1 DEF Outcome
<1> HIDE DEF g
<1>3. /\ \A t \in H : /\ t \in DOMAIN m /\ t \in Int /\ m[t].size \in Nat /\ m[t].size >= 1
                      /\ t \in Cells(t, m[t].size) /\ Cells(t, m[t].size) \subseteq DOMAIN m
      /\ \A t, u \in H : t # u => Cells(t, m[t].size) \cap Cells(u, m[u].size) = {}
      /\ Typed(m, r.small)
  BY HeldIs
<1>4. \A x \in (q + 1)..(q + s - 1) : /\ x \in Cells(q, m[q].size) /\ x # q /\ x \in DOMAIN m
                                      /\ p + (x - q) \in DOMAIN m
  <2> SUFFICES ASSUME NEW x \in (q + 1)..(q + s - 1)
               PROVE  x \in Cells(q, m[q].size) /\ x # q /\ p + (x - q) \in Cells(p, m[p].size)
    BY <1>3
  <2>1. p \in Int /\ q \in Int /\ x \in Int /\ m[p].size \in Nat /\ m[q].size \in Nat
    BY <1>3
  <2>2. QED
    BY <2>1 DEF Cells
<1>5. \A x \in DOMAIN m : x = q \/ x \notin Cells(q, m[q].size) => g.mem[x] = m[x]
  BY <1>2, <1>4
<1>6. \A x \in DOMAIN m : g.mem[x] \in Tags \cup Headers
  BY <1>2, <1>3, <1>4 DEF Typed
<1>7. PICK c, z : Good(m, r.small, c, z, H)
  BY DEF SoundHeap
<1>8. Good(g.mem, g.small, c, z, H)
  BY <1>2, <1>5, <1>6, <1>7, WriteStep
<1>9. SoundHeap(g.mem, g.small, H)
  BY <1>8 DEF SoundHeap
<1>10. Keeps(m, g.mem, H \ {q})
  BY <1>3, <1>5 DEF Keeps
<1>11. g.mem[q] = m[q]
  BY <1>3, <1>5
<1>12. \A k \in 1..(s - 1) : g.mem[q + k] = m[p + k]
  <2> SUFFICES ASSUME NEW k \in 1..(s - 1) PROVE g.mem[q + k] = m[p + k]
    OBVIOUS
  <2>1. q + k \in (q + 1)..(q + s - 1) /\ (q + k) - q = k
    BY <1>3
  <2>2. QED
    BY <1>2, <1>4, <2>1
<1>13. QED
  BY <1>9, <1>10, <1>11, <1>12 DEF g

LEMMA MoveSmallIs ==
  ASSUME NEW h, NEW H, SoundHeap(h.mem, h.small, H), NEW p \in H,
         NEW req \in Nat, req < SizeMod, NEW r \in MoveSmall(h, p, req)
  PROVE  r = Failed(h) \/ (r.ptr # 0 /\ Moved(h, r, H, p, req))
<1> DEFINE old == h.mem[p].size
           Least(t) == IF t.mem[t.ptr].size > old THEN old ELSE t.mem[t.ptr].size
           Done(t) == LibcFree(Copy(t, p, t.ptr, Least(t)), p)
<1>1. PICK t \in LibcMalloc(h, req) : r = IF t.ptr = 0 THEN t ELSE Outcome(Done(t).mem, Done(t).small, t.ptr)
  BY DEF MoveSmall, Outcome
<1>2. t = Failed(h) \/ (t.ptr # 0 /\ Found(h, t, H, req))
  BY LibcMallocIs
<1>3. ASSUME t.ptr # 0, Found(h, t, H, req) PROVE r.ptr # 0 /\ Moved(h, r, H, p, req)
  <2> DEFINE q == t.ptr
             n == t.mem
             s == Least(t)
             k == Copy(t, p, q, s)
             g == Done(t)
             G == H \cup {q}
  <2>1. r = Outcome(g.mem, g.small, q)
    BY <1>1, <1>3
  <2>2. /\ t = Outcome(n, t.small, q) /\ q \in Arena /\ q \notin H
        /\ SoundHeap(n, t.small, G) /\ Keeps(h.mem, n, H) /\ req < n[q].size
    BY <1>3 DEF Found
  <2>3. n[p].size = old /\ p # q /\ p \in G /\ q \in G /\ n[p] = h.mem[p]
    BY <2>2 DEF Keeps
  <2>4. /\ n[p].size \in Nat /\ n[q].size \in Nat
    BY <2>2, <2>3, HeldIs
  <2>5. s \in Nat /\ s <= n[p].size /\ s <= n[q].size
    BY <2>3, <2>4
  <2>a. \A j \in 1..req : j < old => j \in 1..(s - 1)
    BY <2>2, <2>3, <2>4
  <2>6. g = LibcFree(k, p)
    OBVIOUS
  <2> HIDE DEF s, Least, g
  <2>7. /\ SoundHeap(k.mem, k.small, G) /\ Keeps(n, k.mem, G \ {q})
        /\ k.mem[q] = n[q] /\ \A j \in 1..(s - 1) : k.mem[q + j] = n[p + j]
    BY <2>2, <2>3, <2>5, CopyIs
  <2> HIDE DEF k
  <2>8. SoundHeap(g.mem, g.small, G \ {p}) /\ Keeps(k.mem, g.mem, G \ {p})
    BY <2>3, <2>6, <2>7, LibcFreeIs
  <2>9. G \ {p} = (H \ {p}) \cup {q} /\ H \ {p} \subseteq G \ {p} /\ H \ {p} \subseteq G \ {q} /\ H \ {p} \subseteq H /\ q \in G \ {p}
    BY <2>2, <2>3
  <2>10. Keeps(h.mem, g.mem, H \ {p})
    <3>1. Keeps(h.mem, n, H \ {p}) /\ Keeps(n, k.mem, H \ {p}) /\ Keeps(k.mem, g.mem, H \ {p})
      BY <2>2, <2>7, <2>8, <2>9 DEF Keeps
    <3>2. QED
      BY <3>1, KeepsBoth
  <2>11. g.mem[q] = n[q] /\ \A x \in Cells(q, n[q].size) : g.mem[x] = k.mem[x]
    BY <2>7, <2>8, <2>9 DEF Keeps
  <2>12. ASSUME NEW j \in 1..req, j < old PROVE g.mem[q + j] = h.mem[p + j]
    <3>1. j \in 1..(s - 1)
      BY <2>a, <2>12
    <3>0. p \in Int /\ q \in Int
      BY <2>2, <2>3, HeldIs
    <3>2. q + j \in Cells(q, n[q].size) /\ p + j \in Cells(p, old)
      BY <2>2, <2>3, <2>4, <2>12, <3>0 DEF Cells
    <3>3. g.mem[q + j] = k.mem[q + j]
      BY <2>11, <3>2
    <3>4. k.mem[q + j] = n[p + j]
      BY <2>7, <3>1
    <3>5. n[p + j] = h.mem[p + j]
      BY <2>2, <3>2 DEF Keeps
    <3>6. QED
      BY <3>3, <3>4, <3>5
  <2>13. r.mem = g.mem /\ r.small = g.small /\ r.ptr = q
    BY <2>1 DEF Outcome
  <2>14. QED
    BY <1>3, <2>2, <2>8, <2>9, <2>10, <2>11, <2>12, <2>13 DEF Moved
<1>4. QED
  <2>1. Failed(h).ptr = 0
    BY DEF Failed
  <2>2. CASE t = Failed(h)
    BY <1>1, <2>1, <2>2
  <2>3. QED
    BY <1>2, <1>3, <2>2

LEMMA MremapIs ==
  ASSUME NEW h, NEW H, SoundHeap(h.mem, h.small, H), NEW p \in H,
         NEW k \in Nat, k # 0 => k > MaxSmall,
         NEW req \in Nat, k # 0 => req < k, NEW r \in Mremap(h, p, k)
  PROVE  r = Failed(h) \/ (r.ptr # 0 /\ Moved(h, r, H, p, req))
<1> SUFFICES ASSUME r # Failed(h) PROVE r.ptr # 0 /\ Moved(h, r, H, p, req)
  OBVIOUS
<1> DEFINE m == h.mem
           sm == h.small
           old == m[p].size
           rest == [x \in DOMAIN m \ Cells(p, old) |-> m[x]]
           f(a, x) == IF x = a THEN Header(m[p].next, k)
                      ELSE IF x - a < old THEN m[p + (x - a)] ELSE Zero
           new(a) == [x \in DOMAIN rest \cup Cells(a, k) |-> IF x \in Cells(a, k) THEN f(a, x) ELSE rest[x]]
<1>1. PICK a : /\ r = Outcome(new(a), sm, a) /\ k # 0
               /\ \/ k <= old /\ a = p
                  \/ a \in Unmapped(h, k)
                  \/ a = p /\ a \in Unmapped(Munmap(h, p, old), k)
  BY DEF Mremap, Munmap, Mapped, Outcome
<1>2. /\ \A t \in H : /\ t \in DOMAIN m /\ t \in Int /\ t \in Arena /\ m[t] \in Headers
                      /\ m[t].size \in Nat /\ m[t].size >= 1
                      /\ t \in Cells(t, m[t].size) /\ Cells(t, m[t].size) \subseteq DOMAIN m
      /\ \A t, u \in H : t # u => Cells(t, m[t].size) \cap Cells(u, m[u].size) = {}
      /\ Typed(m, sm)
  BY HeldIs
<1>3. k >= 1 /\ k > MaxSmall /\ req < k
  BY <1>1, ArenaIs
<1>4. DOMAIN rest = DOMAIN m \ Cells(p, old) /\ \A x \in DOMAIN rest : rest[x] = m[x]
  OBVIOUS
<1>5. /\ a \in Arena /\ a \in Int /\ a \in Cells(a, k) /\ Cells(a, k) \subseteq Arena
      /\ \A x \in Cells(a, k) : x \notin DOMAIN rest
  <2>1. CASE k <= old /\ a = p
    <3>1. Cells(a, k) \subseteq Cells(p, old) /\ a \in Cells(a, k)
      BY <1>2, <1>3, <2>1 DEF Cells
    <3>2. QED
      BY <1>2, <1>4, <2>1, <3>1 DEF Typed
  <2>2. CASE a \in Unmapped(h, k)
    BY <1>3, <1>4, <2>2, UnmappedIs
  <2>3. CASE a = p /\ a \in Unmapped(Munmap(h, p, old), k)
    <3>1. Munmap(h, p, old).mem = rest
      BY DEF Munmap
    <3>2. QED
      BY <1>3, <2>3, <3>1, UnmappedIs
  <2>4. QED
    BY <1>1, <2>1, <2>2, <2>3
<1> DEFINE n == new(a)
<1>6. DOMAIN n = DOMAIN rest \cup Cells(a, k) /\ (\A x \in DOMAIN rest : n[x] = rest[x])
      /\ \A x \in Cells(a, k) : n[x] = f(a, x)
  BY <1>5
<1> HIDE DEF n, rest, new
<1>7. n[a] = Header(m[p].next, k) /\ n[a] \in Headers /\ n[a].size = k
  <2>1. m[p].next \in {0} \cup Arena
    BY <1>2 DEF Headers
  <2>2. k \in 0..(Pages * PageSize)
    BY <1>3, <1>5, SizesFit
  <2>3. QED
    BY <1>5, <1>6, <2>1, <2>2, HeaderIs
<1>8. \A x \in Cells(a, k) : x - a < old => p + (x - a) \in DOMAIN m
  <2> SUFFICES ASSUME NEW x \in Cells(a, k), x - a < old PROVE p + (x - a) \in Cells(p, old)
    BY <1>2
  <2>1. p \in Int /\ a \in Int /\ x \in Int /\ x >= a /\ old \in Nat
    BY <1>2, <1>3, <1>5 DEF Cells
  <2>2. QED
    BY <2>1 DEF Cells
<1>9. \A x \in Cells(a, k) : n[x] \in Tags \cup Headers
  BY <1>2, <1>6, <1>7, <1>8, ZeroIs DEF Typed
<1>10. PICK c, z : Good(m, sm, c, z, H)
  BY DEF SoundHeap
<1>11. \E y : Good(rest, sm, c, y, H \ {p})
  <2> DEFINE y == [q \in DOMAIN z \ {p} |-> z[q]]
  <2>1. Good(rest, sm, c, y, H \ {p})
    BY <1>10, UnmapStep DEF rest
  <2> HIDE DEF y
  <2>2. QED
    BY <2>1
<1>12. PICK y : Good(rest, sm, c, y, H \ {p})
  BY <1>11
<1>13. a \notin H \ {p} /\ Good(n, sm, c, With(y, a, k), (H \ {p}) \cup {a})
  <2> DEFINE G == H \ {p}
  <2>1. Good(rest, sm, c, y, G)
    BY <1>12
  <2>2. NewBlock(rest, n, a, k)
    BY <1>3, <1>5, <1>6, <1>7, <1>9 DEF NewBlock
  <2> HIDE DEF G, f
  <2>3. a \notin G /\ Good(n, sm, c, With(y, a, k), G \cup {a})
    BY <2>1, <2>2, MapStep
  <2>4. QED
    BY <2>3 DEF G
<1>14. SoundHeap(n, sm, (H \ {p}) \cup {a})
  BY <1>13 DEF SoundHeap
<1>15. Keeps(m, n, H \ {p})
  <2>1. \A q \in H \ {p} : Cells(q, m[q].size) \subseteq DOMAIN rest /\ q \in DOMAIN rest
    BY <1>2, <1>4
  <2>2. QED
    BY <1>4, <1>6, <2>1 DEF Keeps
<1>16. ASSUME NEW j \in 1..req, j < old PROVE n[a + j] = m[p + j]
  <2>1. a + j \in Cells(a, k) /\ a + j # a /\ (a + j) - a = j
    BY <1>3, <1>5 DEF Cells
  <2>2. n[a + j] = f(a, a + j)
    BY <1>6, <2>1
  <2>3. QED
    BY <1>16, <2>1, <2>2
<1>17. r.mem = n /\ r.small = sm /\ r.ptr = a
  BY <1>1 DEF Outcome, n
<1>18. QED
  BY <1>3, <1>5, <1>7, <1>13, <1>14, <1>15, <1>16, <1>17, ArenaIs DEF Moved

(* realloc fails and changes nothing, or keeps what fits of the block. *)
LEMMA LibcReallocIs ==
  ASSUME NEW h, NEW H, SoundHeap(h.mem, h.small, H), NEW p \in H,
         NEW req \in Nat, req < SizeMod, NEW r \in LibcRealloc(h, p, req)
  PROVE  r = Failed(h) \/ (r.ptr # 0 /\ Moved(h, r, H, p, req))
<1> DEFINE sum == (req + 1) % SizeMod
           size == Need(sum)
<1>1. /\ sum \in Nat /\ sum < SizeMod /\ (sum < 1 \/ sum = req + 1)
      /\ sum >= 1 => /\ size \in Nat /\ (size # 0 => req < size)
                     /\ sum > MaxSmall /\ size # 0 => size > MaxSmall
                     /\ sum <= MaxSmall => /\ size <= MaxSmall /\ size # 0
  BY NeedIs
<1>2. LibcRealloc(h, p, req) =
        IF sum < 1 THEN {Failed(h)}
        ELSE IF h.mem[p].size = size THEN {[Failed(h) EXCEPT !.ptr = p]}
        ELSE IF h.mem[p].size <= MaxSmall THEN MoveSmall(h, p, req)
        ELSE Mremap(h, p, PageAlign(size))
  BY DEF LibcRealloc, Need
<1>3. MaxSmall \in Nat /\ MaxSmall < SizeMod /\ SizeMod \in Nat
  <2>1. (Pages + 1) * PageSize >= PageSize /\ PageSize \in Nat /\ (Pages + 1) * PageSize \in Nat
    BY PagesAre DEF SmallSize
  <2>2. QED
    BY <2>1, PagesAre DEF SmallSize
<1>4. sum >= 1 => size < SizeMod
  <2>1. CASE sum <= MaxSmall
    BY <1>1, <1>3, <2>1
  <2>2. CASE sum > MaxSmall
    <3>1. size = PageAlign(sum)
      BY <1>1, <1>3, <2>2 DEF Need
    <3>2. QED
      BY <1>1, <3>1, PageAlignIs
  <2>3. QED
    BY <1>1, <1>3, <2>1, <2>2
<1> HIDE DEF sum, size
<1>5. CASE sum < 1
  BY <1>2, <1>5
<1>6. CASE sum >= 1 /\ h.mem[p].size = size
  <2>1. r = [Failed(h) EXCEPT !.ptr = p]
    BY <1>1, <1>2, <1>6
  <2>2. r.mem = h.mem /\ r.small = h.small /\ r.ptr = p
    BY <2>1 DEF Failed
  <2>3. /\ p \in Arena /\ p # 0 /\ h.mem[p].size >= 1
    BY HeldIs
  <2>4. (H \ {p}) \cup {p} = H
    OBVIOUS
  <2>5. req < size
    BY <1>1, <1>6, <2>3
  <2>6. Keeps(h.mem, h.mem, H \ {p})
    BY DEF Keeps
  <2>7. QED
    BY <1>6, <2>2, <2>3, <2>4, <2>5, <2>6 DEF Moved
<1>7. CASE sum >= 1 /\ h.mem[p].size # size /\ h.mem[p].size <= MaxSmall
  <2>1. r \in MoveSmall(h, p, req)
    BY <1>1, <1>2, <1>7
  <2>2. QED
    BY <2>1, MoveSmallIs
<1>8. CASE sum >= 1 /\ h.mem[p].size # size /\ ~(h.mem[p].size <= MaxSmall)
  <2> DEFINE k == PageAlign(size)
  <2>1. r \in Mremap(h, p, k)
    BY <1>1, <1>2, <1>8
  <2>2. size \in Nat /\ size < SizeMod
    BY <1>1, <1>4, <1>8
  <2>3. /\ k \in Nat /\ (k # 0 => size <= k /\ MaxSmall < k) /\ (size = 0 => k = 0)
    BY <2>2, PageAlignIs
  <2> HIDE DEF k
  <2>4. (k # 0 => req < k) /\ (k # 0 => k > MaxSmall)
    BY <1>1, <1>3, <1>8, <2>2, <2>3
  <2>5. QED
    BY <2>1, <2>3, <2>4, MremapIs
<1>9. QED
  BY <1>1, <1>5, <1>6, <1>7, <1>8

-----------------------------------------------------------------------------
(* The steps of the specification.                                         *)

Asked == Requests \cup {k * n : k \in Members, n \in Requests}

(* The program knows no more of a block than it asked for, and the block   *)
(* has room for that and the header.                                       *)
RoomIn(m, p, b) ==
  /\ b \in [req : Asked, known : Nat]
  /\ b.req \in Nat /\ b.known <= b.req /\ b.req < m[p].size

MallocInv ==
  /\ SoundHeap(mem, small, DOMAIN blocks)
  /\ \A p \in DOMAIN blocks : RoomIn(mem, p, blocks[p])

Request(req) == req \in Asked /\ req \in Nat /\ req < SizeMod

Allocated(p, req) ==
  /\ p \notin DOMAIN blocks /\ Request(req)
  /\ blocks' = With(blocks, p, [req |-> req, known |-> req])
  /\ SoundHeap(mem', small', DOMAIN blocks \cup {p})
  /\ Keeps(mem, mem', DOMAIN blocks)
  /\ req < mem'[p].size
  /\ \A x \in Cells(p, mem'[p].size) : x # p => mem'[x] = Zero

Released(p) ==
  /\ p \in DOMAIN blocks /\ blocks' = Without(p)
  /\ SoundHeap(mem', small', DOMAIN blocks \ {p})
  /\ Keeps(mem, mem', DOMAIN blocks \ {p})

Lesser(a, b) == IF a < b THEN a ELSE b

Resized(p, q, req) ==
  /\ p \in DOMAIN blocks /\ q \notin DOMAIN blocks \ {p} /\ Request(req)
  /\ blocks' = With(Without(p), q, [req |-> req, known |-> Lesser(blocks[p].known, req)])
  /\ SoundHeap(mem', small', (DOMAIN blocks \ {p}) \cup {q})
  /\ Keeps(mem, mem', DOMAIN blocks \ {p})
  /\ req < mem'[q].size
  /\ \A k \in 1..req : k < mem[p].size => mem'[q + k] = mem[p + k]

Stored(p, t) ==
  /\ p \in DOMAIN blocks /\ t \in Tags
  /\ blocks' = [blocks EXCEPT ![p].known = blocks[p].req]
  /\ SoundHeap(mem', small', DOMAIN blocks)
  /\ mem'[p] = mem[p] /\ Keeps(mem, mem', DOMAIN blocks \ {p})
  /\ \A k \in 1..blocks[p].req : mem'[p + k] = t

HeapStep ==
  \/ UNCHANGED vars
  \/ \E p, req : Allocated(p, req)
  \/ \E p : Released(p)
  \/ \E p, q, req : Resized(p, q, req)
  \/ \E p, t : Stored(p, t)

LEMMA MallocCallStep ==
  ASSUME MallocInv, NEW req, Request(req), MallocCall(req)
  PROVE  HeapStep
<1>1. SoundHeap(heap.mem, heap.small, DOMAIN blocks) /\ heap.mem = mem /\ heap.small = small
  BY DEF MallocInv, heap
<1>2. PICK r \in LibcMalloc(heap, req) :
        /\ mem' = r.mem /\ small' = r.small
        /\ blocks' = IF r.ptr = 0 THEN blocks ELSE With(blocks, r.ptr, [req |-> req, known |-> req])
  BY DEF MallocCall, Becomes
<1>3. r = Failed(heap) \/ (r.ptr # 0 /\ Found(heap, r, DOMAIN blocks, req))
  BY <1>1, LibcMallocIs DEF Request
<1>4. CASE r = Failed(heap)
  <2>1. r.ptr = 0 /\ r.mem = mem /\ r.small = small
    BY <1>1, <1>4 DEF Failed
  <2>2. QED
    BY <1>2, <2>1 DEF HeapStep, vars
<1>5. CASE r.ptr # 0 /\ Found(heap, r, DOMAIN blocks, req)
  <2>1. Allocated(r.ptr, req)
    BY <1>1, <1>2, <1>5 DEF Allocated, Found
  <2>2. QED
    BY <2>1 DEF HeapStep
<1>6. QED
  BY <1>3, <1>4, <1>5

LEMMA FreeCallStep ==
  ASSUME MallocInv, NEW p \in DOMAIN blocks, FreeCall(p)
  PROVE  HeapStep
<1>1. SoundHeap(heap.mem, heap.small, DOMAIN blocks) /\ heap.mem = mem /\ heap.small = small
  BY DEF MallocInv, heap
<1>2. mem' = LibcFree(heap, p).mem /\ small' = LibcFree(heap, p).small /\ blocks' = Without(p)
  BY DEF FreeCall, Becomes
<1>3. Released(p)
  BY <1>1, <1>2, LibcFreeIs DEF Released
<1>4. QED
  BY <1>3 DEF HeapStep

LEMMA ReallocCallStep ==
  ASSUME MallocInv, NEW p \in DOMAIN blocks, NEW req, Request(req), ReallocCall(p, req)
  PROVE  HeapStep
<1>1. SoundHeap(heap.mem, heap.small, DOMAIN blocks) /\ heap.mem = mem /\ heap.small = small
  BY DEF MallocInv, heap
<1>2. CASE FreeCall(p)
  BY <1>2, FreeCallStep
<1>3. CASE ~FreeCall(p)
  <2>1. PICK r \in LibcRealloc(heap, p, req) :
          /\ mem' = r.mem /\ small' = r.small
          /\ blocks' = IF r.ptr = 0 THEN blocks
                       ELSE With(Without(p), r.ptr, [req |-> req, known |-> Lesser(blocks[p].known, req)])
    BY <1>3 DEF ReallocCall, Becomes, Lesser
  <2>2. r = Failed(heap) \/ (r.ptr # 0 /\ Moved(heap, r, DOMAIN blocks, p, req))
    BY <1>1, LibcReallocIs DEF Request
  <2>3. CASE r = Failed(heap)
    <3>1. r.ptr = 0 /\ r.mem = mem /\ r.small = small
      BY <1>1, <2>3 DEF Failed
    <3>2. QED
      BY <2>1, <3>1 DEF HeapStep, vars
  <2>4. CASE r.ptr # 0 /\ Moved(heap, r, DOMAIN blocks, p, req)
    <3>1. Resized(p, r.ptr, req)
      BY <1>1, <2>1, <2>4 DEF Resized, Moved
    <3>2. QED
      BY <3>1 DEF HeapStep
  <2>5. QED
    BY <2>2, <2>3, <2>4
<1>4. QED
  BY <1>2, <1>3

LEMMA StoreStep ==
  ASSUME MallocInv, NEW p \in DOMAIN blocks, NEW t \in Tags, Store(p, t)
  PROVE  HeapStep
<1>1. PICK c, z : Good(mem, small, c, z, DOMAIN blocks)
  BY DEF MallocInv, SoundHeap
<1>2. /\ \A q \in DOMAIN blocks : /\ q \in DOMAIN mem /\ q \in Int /\ mem[q].size \in Nat /\ mem[q].size >= 1
                                  /\ q \in Cells(q, mem[q].size) /\ Cells(q, mem[q].size) \subseteq DOMAIN mem
      /\ \A q, u \in DOMAIN blocks : q # u => Cells(q, mem[q].size) \cap Cells(u, mem[u].size) = {}
      /\ Typed(mem, small)
  BY HeldIs DEF MallocInv
<1>3. blocks[p].req \in Nat /\ blocks[p].req < mem[p].size
  BY DEF MallocInv, RoomIn
<1>4. /\ DOMAIN mem' = DOMAIN mem /\ small' = small
      /\ \A x \in DOMAIN mem : mem'[x] = IF x \in (p + 1)..(p + blocks[p].req) THEN t ELSE mem[x]
      /\ blocks' = [blocks EXCEPT ![p].known = blocks[p].req]
  BY DEF Store
<1>5. \A x \in (p + 1)..(p + blocks[p].req) : x \in Cells(p, mem[p].size) /\ x # p
  BY <1>2, <1>3 DEF Cells
<1>6. \A x \in DOMAIN mem : x = p \/ x \notin Cells(p, mem[p].size) => mem'[x] = mem[x]
  BY <1>4, <1>5
<1>7. \A x \in DOMAIN mem : mem'[x] \in Tags \cup Headers
  BY <1>2, <1>4 DEF Typed
<1>8. Good(mem', small, c, z, DOMAIN blocks)
  BY <1>1, <1>4, <1>6, <1>7, WriteStep
<1>9. SoundHeap(mem', small', DOMAIN blocks)
  BY <1>4, <1>8 DEF SoundHeap
<1>10. mem'[p] = mem[p] /\ Keeps(mem, mem', DOMAIN blocks \ {p})
  BY <1>2, <1>6 DEF Keeps
<1>11. \A k \in 1..blocks[p].req : mem'[p + k] = t
  <2> SUFFICES ASSUME NEW k \in 1..blocks[p].req PROVE mem'[p + k] = t
    OBVIOUS
  <2>1. p + k \in (p + 1)..(p + blocks[p].req)
    BY <1>2, <1>3
  <2>2. QED
    BY <1>2, <1>4, <1>5, <2>1
<1>12. Stored(p, t)
  BY <1>4, <1>9, <1>10, <1>11 DEF Stored
<1>13. QED
  BY <1>12 DEF HeapStep

LEMMA RequestsAre ==
  /\ \A req \in Requests : Request(req)
  /\ \A req \in Requests, nmemb \in Members : nmemb * req < SizeMod => Request(nmemb * req)
<1>1. \A req \in Requests : req \in Nat /\ req < SizeMod
  BY MallocAssumption
<1>2. \A nmemb \in Members : nmemb \in Nat
  BY MallocAssumption
<1>3. \A x, y \in Nat : x * y \in Nat
  OBVIOUS
<1>4. QED
  BY <1>1, <1>2, <1>3 DEF Request, Asked

LEMMA NextStep ==
  ASSUME MallocInv, [Next]_vars
  PROVE  HeapStep
<1>1. CASE UNCHANGED vars
  BY <1>1 DEF HeapStep
<1>2. ASSUME NEW req \in Requests, MallocCall(req) PROVE HeapStep
  BY <1>2, RequestsAre, MallocCallStep
<1>3. ASSUME NEW req \in Requests, NEW nmemb \in Members, CallocCall(nmemb, req) PROVE HeapStep
  BY <1>3, RequestsAre, MallocCallStep DEF CallocCall
<1>4. ASSUME NEW p \in DOMAIN blocks, NEW req \in Requests, ReallocCall(p, req) PROVE HeapStep
  BY <1>4, RequestsAre, ReallocCallStep
<1>5. QED
  BY <1>1, <1>2, <1>3, <1>4, FreeCallStep, StoreStep DEF Next

LEMMA KeepsRoom ==
  ASSUME NEW m, NEW n, NEW Q, Keeps(m, n, Q), NEW q \in Q, NEW b, RoomIn(m, q, b)
  PROVE  RoomIn(n, q, b)
BY DEF Keeps, RoomIn

LEMMA StepKeepsInv ==
  ASSUME MallocInv, HeapStep
  PROVE  MallocInv'
<1>0. \A q \in DOMAIN blocks : RoomIn(mem, q, blocks[q])
  BY DEF MallocInv
<1>1. CASE UNCHANGED vars
  BY <1>1 DEF vars, MallocInv, SoundHeap, RoomIn
<1>2. ASSUME NEW p, NEW req, Allocated(p, req) PROVE MallocInv'
  <2> DEFINE b == [req |-> req, known |-> req]
  <2>1. /\ DOMAIN blocks' = DOMAIN blocks \cup {p} /\ blocks'[p] = b
        /\ \A q \in DOMAIN blocks : blocks'[q] = blocks[q]
    BY <1>2 DEF Allocated, With
  <2>2. RoomIn(mem', p, b)
    BY <1>2 DEF Allocated, Request, RoomIn
  <2>3. \A q \in DOMAIN blocks : RoomIn(mem', q, blocks[q])
    BY <1>0, <1>2, KeepsRoom DEF Allocated
  <2>4. SoundHeap(mem', small', DOMAIN blocks')
    BY <1>2, <2>1 DEF Allocated
  <2> HIDE DEF b
  <2>5. \A q \in DOMAIN blocks' : RoomIn(mem', q, blocks'[q])
    BY <2>1, <2>2, <2>3
  <2>6. QED
    BY <2>4, <2>5 DEF MallocInv
<1>3. ASSUME NEW p, Released(p) PROVE MallocInv'
  <2>1. DOMAIN blocks' = DOMAIN blocks \ {p} /\ \A q \in DOMAIN blocks \ {p} : blocks'[q] = blocks[q]
    BY <1>3 DEF Released, Without
  <2>2. \A q \in DOMAIN blocks \ {p} : RoomIn(mem', q, blocks[q])
    BY <1>0, <1>3, KeepsRoom DEF Released
  <2>3. SoundHeap(mem', small', DOMAIN blocks')
    BY <1>3, <2>1 DEF Released
  <2>4. QED
    BY <2>1, <2>2, <2>3 DEF MallocInv
<1>4. ASSUME NEW p, NEW r, NEW req, Resized(p, r, req) PROVE MallocInv'
  <2> DEFINE b == [req |-> req, known |-> Lesser(blocks[p].known, req)]
  <2>1. /\ DOMAIN blocks' = (DOMAIN blocks \ {p}) \cup {r} /\ blocks'[r] = b
        /\ \A q \in DOMAIN blocks \ {p} : blocks'[q] = blocks[q]
    BY <1>4 DEF Resized, With, Without
  <2>2. RoomIn(mem', r, b)
    BY <1>0, <1>4 DEF Resized, Request, RoomIn, Lesser
  <2>3. \A q \in DOMAIN blocks \ {p} : RoomIn(mem', q, blocks[q])
    BY <1>0, <1>4, KeepsRoom DEF Resized
  <2>4. SoundHeap(mem', small', DOMAIN blocks')
    BY <1>4, <2>1 DEF Resized
  <2> HIDE DEF b
  <2>5. \A q \in DOMAIN blocks' : RoomIn(mem', q, blocks'[q])
    BY <2>1, <2>2, <2>3
  <2>6. QED
    BY <2>4, <2>5 DEF MallocInv
<1>5. ASSUME NEW p, NEW t, Stored(p, t) PROVE MallocInv'
  <2> DEFINE b == [blocks[p] EXCEPT !.known = blocks[p].req]
  <2>0. RoomIn(mem, p, blocks[p]) /\ p \in DOMAIN blocks
    BY <1>0, <1>5 DEF Stored
  <2>1. blocks' = [blocks EXCEPT ![p] = b]
    BY <1>5 DEF Stored
  <2>2. RoomIn(mem, p, b)
    BY <2>0 DEF RoomIn
  <2> HIDE DEF b
  <2>3. /\ DOMAIN blocks' = DOMAIN blocks /\ blocks'[p] = b
        /\ \A q \in DOMAIN blocks \ {p} : blocks'[q] = blocks[q]
    BY <2>0, <2>1
  <2>4. RoomIn(mem', p, b)
    BY <1>5, <2>2 DEF Stored, RoomIn
  <2>5. \A q \in DOMAIN blocks \ {p} : RoomIn(mem', q, blocks[q])
    BY <1>0, <1>5, KeepsRoom DEF Stored
  <2>6. SoundHeap(mem', small', DOMAIN blocks')
    BY <1>5, <2>3 DEF Stored
  <2>7. \A q \in DOMAIN blocks' : RoomIn(mem', q, blocks'[q])
    BY <2>3, <2>4, <2>5
  <2>8. QED
    BY <2>6, <2>7 DEF MallocInv
<1>6. QED
  BY <1>1, <1>2, <1>3, <1>4, <1>5 DEF HeapStep

LEMMA InitInv == Init => MallocInv
<1> SUFFICES ASSUME Init PROVE MallocInv
  OBVIOUS
<1> DEFINE c == [i \in 0..7 |-> << >>]
           z == [x \in {} |-> 0]
<1>1. DOMAIN mem = {} /\ DOMAIN blocks = {} /\ small = [i \in 0..7 |-> 0]
  BY DEF Init
<1>2. << >> \in Seq(Arena) /\ Len(<< >>) = 0 /\ \A j : Node(<< >>, j) = 0
  BY DEF Node
<1>3. DOMAIN z = {} /\ c \in [0..7 -> Seq(Arena)] /\ \A i \in 0..7 : c[i] = << >>
  BY <1>2
<1> HIDE DEF c, z
<1>4. Typed(mem, small)
  BY <1>1 DEF Typed
<1>5. Tiles(mem, z) /\ Headed(mem, z, DOMAIN blocks) /\ NoneLost(c, z, DOMAIN blocks)
  BY <1>1, <1>3 DEF Tiles, Headed, NoneLost
<1>6. \A i \in 0..7 : Chain(mem, z, DOMAIN blocks, c[i], i)
  BY <1>2, <1>3 DEF Chain
<1>7. Chained(mem, small, c, z, DOMAIN blocks)
  BY <1>1, <1>2, <1>3, <1>6 DEF Chained
<1>8. QED
  BY <1>1, <1>4, <1>5, <1>7 DEF MallocInv, SoundHeap, Good

-----------------------------------------------------------------------------
(* The free lists as the specification follows them.                       *)

LEMMA ArenaCount == IsFiniteSet(Arena) /\ Cardinality(Arena) = Pages * PageSize /\ Pages * PageSize \in Nat
<1>1. Pages \in Nat /\ Pages >= 1 /\ PageSize \in Nat /\ PageSize >= 1
  BY PagesAre DEF SmallSize
<1> DEFINE t == Pages * PageSize
           a == PageSize
           b == (Pages + 1) * PageSize - 1
<1>2. t \in Nat /\ b = t + PageSize - 1
  BY <1>1
<1> HIDE DEF t, b
<1>3. a \in Int /\ b \in Int /\ a <= b + 1 /\ b - a + 1 = t /\ (a > b => t = 0)
  BY <1>1, <1>2
<1>4. IsFiniteSet(a..b) /\ Cardinality(a..b) = IF a > b THEN 0 ELSE b - a + 1
  BY <1>3, FS_Interval
<1>5. Arena = a..b
  BY DEF Arena, b
<1>6. QED
  BY <1>2, <1>3, <1>4, <1>5 DEF t

LEMMA ChainFits ==
  ASSUME NEW m, NEW z, NEW H, NEW q, NEW i, Chain(m, z, H, q, i)
  PROVE  Len(q) \in Nat /\ Len(q) <= Pages * PageSize
<1>1. Len(q) \in Nat /\ q \in [1..Len(q) -> Arena] /\ DOMAIN q = 1..Len(q)
  BY LenProperties DEF Chain
<1>2. IsFiniteSet(1..Len(q)) /\ Cardinality(1..Len(q)) = Len(q)
  BY <1>1, FS_Interval
<1>3. \A j, k \in DOMAIN q : q[j] = q[k] => j = k
  BY <1>1 DEF Chain
<1>4. q \in Injection(1..Len(q), Arena)
  BY <1>1, <1>3, Zenon DEF Injection, IsInjective
<1>5. Cardinality(1..Len(q)) <= Cardinality(Arena)
  BY <1>4, ArenaCount, FS_Injection, Zenon
<1>6. QED
  BY <1>1, <1>2, <1>5, ArenaCount

(* A set of numbers has a least element. *)
LEMMA LeastExists ==
  ASSUME NEW T \in SUBSET Nat, T # {}
  PROVE  \E x \in T : \A y \in T : x <= y
<1>1. PICK x \in T : \A y \in T : ~(<<y, x>> \in OpToRel(<, Nat))
  BY NatLessThanWellFounded, WFMin, Zenon
<1>2. ASSUME NEW y \in T PROVE x <= y
  <2>1. x \in Nat /\ y \in Nat
    OBVIOUS
  <2>2. ~(<<y, x>>[1] < <<y, x>>[2])
    BY <1>1, <2>1, Zenon DEF OpToRel
  <2>3. QED
    BY <2>1, <2>2
<1>3. QED
  BY <1>2

LEMMA FreeListIs ==
  ASSUME NEW c, NEW z, NEW H, Good(mem, small, c, z, H), NEW i \in 0..7
  PROVE  FreeList(i) = {c[i][j] : j \in 1..Len(c[i])}
<1> DEFINE last == Pages * PageSize
           q == c[i]
           Nxt(x) == IF x \in DOMAIN mem /\ mem[x] \notin Tags THEN mem[x].next ELSE 0
           Walk(f) == [n \in 0..last |-> IF n = 0 THEN small[i] ELSE Nxt(f[n - 1])]
           nth == CHOOSE f : f = Walk(f)
           g == [n \in 0..last |-> Node(q, n + 1)]
<1>1. FreeList(i) = {nth[n] : n \in 0..last} \ {0}
  BY DEF FreeList
<1>2. last \in Nat /\ Len(q) \in Nat /\ Len(q) <= last /\ q \in Seq(Arena)
      /\ small[i] = Node(q, 1) /\ Chain(mem, z, H, q, i)
  BY ArenaCount, ChainFits DEF Good, Chained
<1>3. \A n \in 0..last : n # 0 => Node(q, n + 1) = Nxt(Node(q, (n - 1) + 1))
  <2> SUFFICES ASSUME NEW n \in 0..last, n # 0 PROVE Node(q, n + 1) = Nxt(Node(q, n))
    BY <1>2
  <2>1. CASE n \in 1..Len(q)
    <3>1. Node(q, n) = q[n] /\ FreeBlock(mem, z, H, q[n], i, Node(q, n + 1))
      BY <1>2, <2>1 DEF Node, Chain
    <3>2. q[n] \in DOMAIN mem /\ mem[q[n]] = Header(Node(q, n + 1), 0)
      BY <3>1 DEF FreeBlock, Good, Tiles
    <3>3. Node(q, n + 1) \in {0} \cup Arena /\ 0 \in 0..(Pages * PageSize)
      BY <1>2, NodeIs
    <3>4. mem[q[n]] \in Headers /\ mem[q[n]].next = Node(q, n + 1)
      BY <3>2, <3>3, HeaderIs
    <3>5. mem[q[n]] \notin Tags
      BY <3>4, TagsAssumption
    <3>6. QED
      BY <3>1, <3>2, <3>4, <3>5
  <2>2. CASE n \notin 1..Len(q)
    <3>1. n + 1 \notin 1..Len(q)
      BY <1>2, <2>2
    <3>2. Node(q, n) = 0 /\ Node(q, n + 1) = 0
      BY <2>2, <3>1 DEF Node
    <3>3. 0 \notin DOMAIN mem
      BY ArenaIs DEF Good, Typed
    <3>4. QED
      BY <3>2, <3>3
  <2>3. QED
    BY <2>1, <2>2
<1> HIDE DEF Nxt
<1>4. g = Walk(g)
  <2>1. \A n \in 0..last : n # 0 => n - 1 \in 0..last
    BY <1>2
  <2>2. \A n \in 0..last : g[n] = IF n = 0 THEN small[i] ELSE Nxt(g[n - 1])
    <3> SUFFICES ASSUME NEW n \in 0..last PROVE g[n] = IF n = 0 THEN small[i] ELSE Nxt(g[n - 1])
      OBVIOUS
    <3>1. CASE n = 0
      BY <1>2, <3>1
    <3>2. CASE n # 0
      BY <1>3, <2>1, <3>2
    <3>3. QED
      BY <3>1, <3>2
  <2>3. QED
    BY <2>2
<1> HIDE DEF g
<1>5. nth = Walk(nth)
  BY <1>4, Zenon
<1> HIDE DEF nth
<1>6. \A n \in 0..last : nth[n] = IF n = 0 THEN small[i] ELSE Nxt(nth[n - 1])
  BY <1>5, Zenon
<1> DEFINE T == {n \in 0..last : nth[n] # Node(q, n + 1)}
<1>7. T = {}
  <2> SUFFICES ASSUME T # {} PROVE FALSE
    OBVIOUS
  <2>1. T \in SUBSET Nat
    BY <1>2
  <2> HIDE DEF T
  <2>2. PICK k \in T : \A y \in T : k <= y
    BY <2>1, LeastExists
  <2>3. k \in 0..last /\ nth[k] # Node(q, k + 1)
    BY DEF T
  <2>4. k # 0
    BY <1>2, <1>6, <2>3
  <2>5. k - 1 \in 0..last /\ ~(k <= k - 1)
    BY <1>2, <2>3, <2>4
  <2>6. nth[k - 1] = Node(q, (k - 1) + 1)
    BY <2>2, <2>5 DEF T
  <2>7. QED
    BY <1>3, <1>6, <2>3, <2>4, <2>6
<1>8. \A n \in 0..last : nth[n] = Node(q, n + 1)
  BY <1>7
<1>9. \A x \in FreeList(i) : \E j \in 1..Len(q) : x = q[j]
  <2> SUFFICES ASSUME NEW n \in 0..last, nth[n] # 0 PROVE \E j \in 1..Len(q) : nth[n] = q[j]
    BY <1>1
  <2>1. Node(q, n + 1) # 0 /\ nth[n] = Node(q, n + 1)
    BY <1>8
  <2>2. QED
    BY <2>1 DEF Node
<1>10. \A j \in 1..Len(q) : q[j] \in FreeList(i)
  <2> SUFFICES ASSUME NEW j \in 1..Len(q) PROVE q[j] \in FreeList(i)
    OBVIOUS
  <2>1. j - 1 \in 0..last /\ (j - 1) + 1 = j
    BY <1>2
  <2>2. nth[j - 1] = q[j]
    BY <1>8, <2>1 DEF Node
  <2>3. q[j] # 0
    BY <1>2, ElementOfSeq, ArenaIs
  <2>4. QED
    BY <1>1, <2>1, <2>2, <2>3
<1>11. QED
  BY <1>9, <1>10

LEMMA InvIsSound == MallocInv => HeapSound
<1> SUFFICES ASSUME MallocInv PROVE HeapSound
  OBVIOUS
<1> DEFINE H == DOMAIN blocks
<1>1. PICK c, z : Good(mem, small, c, z, H)
  BY DEF MallocInv, SoundHeap
<1>2. \A i \in 0..7 : FreeList(i) = {c[i][j] : j \in 1..Len(c[i])}
  BY <1>1, FreeListIs
<1>3. \A i \in 0..7 : \A x \in FreeList(i) : \E l \in {0} \cup Arena : FreeBlock(mem, z, H, x, i, l)
  <2> SUFFICES ASSUME NEW i \in 0..7, NEW x \in FreeList(i)
               PROVE  \E l \in {0} \cup Arena : FreeBlock(mem, z, H, x, i, l)
    OBVIOUS
  <2>0. PICK j \in 1..Len(c[i]) : x = c[i][j]
    BY <1>2
  <2>1. Chain(mem, z, H, c[i], i) /\ c[i] \in Seq(Arena)
    BY <1>1 DEF Good, Chained
  <2>2. Node(c[i], j + 1) \in {0} \cup Arena
    BY <2>1, NodeIs
  <2>3. QED
    BY <2>0, <2>1, <2>2 DEF Chain
<1>4. \A i \in 0..7 : \A x \in FreeList(i) :
        /\ x \in DOMAIN z /\ x \in DOMAIN mem /\ x \notin H /\ z[x] = 2 ^ i
        /\ mem[x] \in Headers /\ mem[x].size = 0
        /\ \A y \in Cells(x, z[x]) : y # x => mem[y] = Zero
  <2> SUFFICES ASSUME NEW i \in 0..7, NEW x \in FreeList(i)
               PROVE  /\ x \in DOMAIN z /\ x \in DOMAIN mem /\ x \notin H /\ z[x] = 2 ^ i
                      /\ mem[x] \in Headers /\ mem[x].size = 0
                      /\ \A y \in Cells(x, z[x]) : y # x => mem[y] = Zero
    OBVIOUS
  <2>1. PICK l \in {0} \cup Arena : FreeBlock(mem, z, H, x, i, l)
    BY <1>3
  <2>2. SmallSize(i, 2 ^ i) /\ SmallSize(i, z[x])
    BY <2>1, PowerIs DEF FreeBlock
  <2>3. z[x] = 2 ^ i
    BY <2>2 DEF SmallSize
  <2>4. 0 \in 0..(Pages * PageSize)
    BY ArenaCount
  <2>5. mem[x] \in Headers /\ mem[x].size = 0
    BY <2>1, <2>4, HeaderIs DEF FreeBlock
  <2>6. QED
    BY <1>1, <2>1, <2>3, <2>5 DEF FreeBlock, Good, Tiles
<1>5. Typed(mem, small) /\ Tiles(mem, z)
  BY <1>1 DEF Good
<1>6. \A q \in DOMAIN z : /\ q \in DOMAIN mem /\ q \in Arena /\ q \in Int /\ q # 0
                          /\ z[q] \in Nat /\ z[q] >= 1 /\ q \in Cells(q, z[q])
  BY <1>5, BlocksAre
<1>7. \A p \in H : /\ p \in DOMAIN z /\ mem[p] \in Headers /\ mem[p].size = z[p] /\ mem[p] \notin Tags
                   /\ RoomIn(mem, p, blocks[p])
  BY <1>1, TagsAssumption DEF Good, Headed, MallocInv
<1>8. TypeOK
  <2>1. \A i \in 0..7 : small[i] = 0 \/ (small[i] \in DOMAIN mem /\ mem[small[i]] \notin Tags)
    <3> SUFFICES ASSUME NEW i \in 0..7, small[i] # 0 PROVE small[i] \in DOMAIN mem /\ mem[small[i]] \notin Tags
      OBVIOUS
    <3>1. Node(c[i], 1) = small[i] /\ c[i] \in Seq(Arena)
      BY <1>1 DEF Good, Chained
    <3>2. small[i] = c[i][1] /\ 1 \in 1..Len(c[i])
      BY <3>1, NodeIs
    <3>3. small[i] \in FreeList(i)
      BY <1>2, <3>2
    <3>4. QED
      BY <1>4, <3>3, TagsAssumption
  <2>2. \A p \in H : blocks[p].req \in Asked
    BY <1>7 DEF RoomIn
  <2>3. QED
    BY <1>5, <2>1, <2>2 DEF TypeOK, Typed, Asked
<1>9. FreeBlocksClean
  <2> SUFFICES ASSUME NEW i \in Classes, NEW x \in FreeList(i)
               PROVE  mem[x].size = 0 /\ \A y \in Cells(x + 1, 2 ^ i - 1) : mem[y] = Zero
    BY DEF FreeBlocksClean
  <2>1. /\ x \in DOMAIN z /\ z[x] = 2 ^ i /\ mem[x].size = 0
        /\ \A y \in Cells(x, z[x]) : y # x => mem[y] = Zero
    BY <1>4 DEF Classes
  <2>2. \A y \in Cells(x + 1, z[x] - 1) : y \in Cells(x, z[x]) /\ y # x
    BY <1>6, <2>1 DEF Cells
  <2>3. QED
    BY <2>1, <2>2
<1>10. Partition
  <2> DEFINE held == {<<p, mem[p].size>> : p \in H}
             free == UNION {{<<x, 2 ^ i>> : x \in FreeList(i)} : i \in Classes}
             all == held \cup free
  <2>1. \A p \in H : mem[p] \notin Tags /\ blocks[p].req < mem[p].size
    BY <1>7 DEF RoomIn
  <2>2. \A e \in held : e[1] \in H /\ e[1] \in DOMAIN z /\ e = <<e[1], z[e[1]]>>
    BY <1>7
  <2>3. \A e \in free : e[1] \notin H /\ e[1] \in DOMAIN z /\ e = <<e[1], z[e[1]]>>
    <3> SUFFICES ASSUME NEW i \in Classes, NEW x \in FreeList(i)
                 PROVE  x \notin H /\ x \in DOMAIN z /\ 2 ^ i = z[x]
      OBVIOUS
    <3>1. QED
      BY <1>4 DEF Classes
  <2>4. \A p \in DOMAIN z : <<p, z[p]>> \in all
    <3> SUFFICES ASSUME NEW p \in DOMAIN z, p \notin H PROVE <<p, z[p]>> \in free
      BY <1>7
    <3>1. PICK i \in 0..7 : \E j \in 1..Len(c[i]) : p = c[i][j]
      BY <1>1 DEF Good, NoneLost
    <3>2. p \in FreeList(i)
      BY <1>2, <3>1
    <3>3. i \in Classes
      <4>1. Node(c[i], 1) = small[i] /\ c[i] \in Seq(Arena)
        BY <1>1 DEF Good, Chained
      <4>2. Len(c[i]) >= 1
        BY <3>1, <4>1
      <4>3. QED
        BY <4>1, <4>2, NodeIs DEF Classes
    <3>4. z[p] = 2 ^ i
      BY <1>4, <3>2
    <3>5. QED
      BY <3>2, <3>3, <3>4
  <2> HIDE DEF held, free
  <2>5. held \cap free = {}
    BY <2>2, <2>3
  <2>6. \A e \in all : e[1] \in DOMAIN z /\ e[2] = z[e[1]] /\ e = <<e[1], z[e[1]]>>
    <3>1. \A e \in all : e[1] \in DOMAIN z /\ e = <<e[1], z[e[1]]>>
      BY <2>2, <2>3
    <3>2. QED
      BY <3>1
  <2> HIDE DEF all
  <2>7. UNION {Cells(e[1], e[2]) : e \in all} = DOMAIN mem
    <3>1. \A e \in all : Cells(e[1], e[2]) \subseteq DOMAIN mem
      BY <1>5, <2>6 DEF Tiles
    <3>2. ASSUME NEW x \in DOMAIN mem PROVE \E e \in all : x \in Cells(e[1], e[2])
      <4>1. PICK p \in DOMAIN z : x \in Cells(p, z[p])
        BY <1>5 DEF Tiles
      <4>2. QED
        BY <2>4, <4>1
    <3>3. QED
      BY <3>1, <3>2
  <2>8. \A d, e \in all : d # e => Cells(d[1], d[2]) \cap Cells(e[1], e[2]) = {}
    <3> SUFFICES ASSUME NEW d \in all, NEW e \in all, d # e
                 PROVE  Cells(d[1], d[2]) \cap Cells(e[1], e[2]) = {}
      OBVIOUS
    <3>1. d[1] # e[1]
      BY <2>6
    <3>2. QED
      BY <1>5, <2>6, <3>1 DEF Tiles
  <2>9. QED
    BY <2>1, <2>5, <2>7, <2>8 DEF Partition, held, free, all
<1>11. QED
  BY <1>8, <1>9, <1>10 DEF HeapSound

(* HeapSound.  Whatever the calls, every mapped cell belongs to exactly    *)
(* one block, held or in the free list of its size, and free blocks are    *)
(* zero: for any number of pages and blocks, any requests and any page of  *)
(* up to 256 units.                                                        *)
THEOREM HeapIsSound == Spec => []HeapSound
<1>1. MallocInv /\ [Next]_vars => MallocInv'
  BY NextStep, StepKeepsInv
<1>2. QED
  BY <1>1, InitInv, InvIsSound, PTL DEF Spec

-----------------------------------------------------------------------------
(* The allocator implements Heap.                                          *)

(* The block p with the record b, as its caller sees it in the memory m. *)
Seen(m, p, b) == [req |-> b.req, data |-> [i \in 1..b.known |-> m[p + i]]]

LEMMA ContentsIs ==
  /\ Contents = [p \in DOMAIN blocks |-> Seen(mem, p, blocks[p])]
  /\ Contents' = [p \in DOMAIN blocks' |-> Seen(mem', p, blocks'[p])]
BY DEF Contents, Seen

LEMMA SeenSame ==
  ASSUME NEW m, NEW n, NEW Q, Keeps(m, n, Q), NEW q \in Q, q \in Int, m[q].size \in Nat,
         NEW b, RoomIn(m, q, b)
  PROVE  Seen(n, q, b) = Seen(m, q, b)
<1>1. b.known \in Nat /\ b.known < m[q].size
  BY DEF RoomIn
<1>2. \A i \in 1..b.known : q + i \in Cells(q, m[q].size)
  BY <1>1 DEF Cells
<1>3. \A i \in 1..b.known : n[q + i] = m[q + i]
  BY <1>2 DEF Keeps
<1>4. [i \in 1..b.known |-> n[q + i]] = [i \in 1..b.known |-> m[q + i]]
  BY <1>3
<1>5. QED
  BY <1>4 DEF Seen

LEMMA PlacesApart ==
  ASSUME NEW m, NEW sm, NEW H, SoundHeap(m, sm, H), NEW p \in H, NEW q \in H, p # q,
         NEW a \in Nat, a < m[p].size, NEW b \in Nat, b < m[q].size
  PROVE  ((p + 1)..(p + a)) \cap ((q + 1)..(q + b)) = {}
<1>1. /\ p \in Int /\ q \in Int /\ m[p].size \in Nat /\ m[q].size \in Nat
      /\ Cells(p, m[p].size) \cap Cells(q, m[q].size) = {}
  BY HeldIs
<1>2. (p + 1)..(p + a) \subseteq Cells(p, m[p].size) /\ (q + 1)..(q + b) \subseteq Cells(q, m[q].size)
  BY <1>1 DEF Cells
<1>3. QED
  BY <1>1, <1>2

(* What Heap calls its places. *)
LEMMA PlaceIs == \A p, n : HeapView!Place(p, n) = (p + 1)..(p + n)
BY DEF HeapView!Place

LEMMA AllocatedView ==
  ASSUME MallocInv, NEW p, NEW req, Allocated(p, req)
  PROVE  HeapView!Next
<1> DEFINE d == Contents
           H == DOMAIN blocks
<1>1. d = [q \in H |-> Seen(mem, q, blocks[q])] /\ d' = [q \in DOMAIN blocks' |-> Seen(mem', q, blocks'[q])]
  BY ContentsIs
<1>2. /\ p \notin H /\ req \in Nat /\ SoundHeap(mem', small', H \cup {p}) /\ Keeps(mem, mem', H)
      /\ req < mem'[p].size /\ \A x \in Cells(p, mem'[p].size) : x # p => mem'[x] = Zero
  BY DEF Allocated, Request
<1>3. /\ DOMAIN blocks' = H \cup {p} /\ blocks'[p] = [req |-> req, known |-> req]
      /\ \A q \in H : blocks'[q] = blocks[q]
  BY <1>2 DEF Allocated, With
<1>4. p \in Int /\ mem'[p].size \in Nat
  BY <1>2, HeldIs
<1>5. \A q \in H : q \in Int /\ mem[q].size \in Nat /\ mem'[q] = mem[q] /\ RoomIn(mem, q, blocks[q])
  BY <1>2, HeldIs DEF MallocInv, Keeps
<1>6. \A q \in H : d'[q] = d[q] /\ d[q].req = blocks[q].req
  <2> SUFFICES ASSUME NEW q \in H PROVE d'[q] = d[q] /\ d[q].req = blocks[q].req
    OBVIOUS
  <2>1. d[q] = Seen(mem, q, blocks[q]) /\ d'[q] = Seen(mem', q, blocks[q])
    BY <1>1, <1>3
  <2>2. Seen(mem', q, blocks[q]) = Seen(mem, q, blocks[q])
    BY <1>2, <1>5, SeenSame
  <2>3. QED
    BY <2>1, <2>2 DEF Seen
<1>7. d'[p] = [req |-> req, data |-> [i \in 1..req |-> Zero]]
  <2>1. \A i \in 1..req : mem'[p + i] = Zero
    <3> SUFFICES ASSUME NEW i \in 1..req PROVE mem'[p + i] = Zero
      OBVIOUS
    <3>1. p + i \in Cells(p, mem'[p].size) /\ p + i # p
      BY <1>2, <1>4 DEF Cells
    <3>2. QED
      BY <1>2, <3>1
  <2>2. d'[p] = Seen(mem', p, [req |-> req, known |-> req])
    BY <1>1, <1>3
  <2>3. QED
    BY <2>1, <2>2 DEF Seen
<1>8. DOMAIN d = H /\ DOMAIN d' = H \cup {p}
  BY <1>1, <1>3
<1> DEFINE x == [req |-> req, data |-> [i \in 1..req |-> Zero]]
<1>9. d' = [q \in DOMAIN d \cup {p} |-> IF q = p THEN x ELSE d[q]]
  <2>1. d' = [q \in H \cup {p} |-> d'[q]]
    BY <1>1, <1>3
  <2> HIDE DEF x, d
  <2>2. d'[p] = x
    BY <1>7 DEF x
  <2>3. QED
    BY <1>2, <1>6, <1>8, <2>1, <2>2
<1>10. \A q \in H : ((p + 1)..(p + req)) \cap ((q + 1)..(q + d[q].req)) = {}
  <2> SUFFICES ASSUME NEW q \in H PROVE ((p + 1)..(p + req)) \cap ((q + 1)..(q + blocks[q].req)) = {}
    BY <1>6
  <2>1. blocks[q].req \in Nat /\ blocks[q].req < mem'[q].size
    BY <1>5 DEF RoomIn
  <2>2. QED
    BY <1>2, <2>1, PlacesApart
<1> HIDE DEF d
<1>11. d'[p].req = req
  BY <1>7
<1>12. HeapView!Allocate(p, req)
  <2>1. HeapView!Free(p, req, DOMAIN d)
    BY <1>8, <1>10, PlaceIs, Zenon DEF HeapView!Free, d
  <2>2. d' = HeapView!With(d, p, x)
    BY <1>9, Zenon DEF HeapView!With
  <2>3. p \notin DOMAIN d
    BY <1>2, <1>8
  <2>4. QED
    BY <2>1, <2>2, <2>3, Zenon DEF HeapView!Allocate, d, x
<1>13. p \in DOMAIN d'
  BY <1>8
<1>14. QED
  BY <1>11, <1>12, <1>13, Zenon DEF HeapView!Next, d

LEMMA ReleasedView ==
  ASSUME MallocInv, NEW p, Released(p)
  PROVE  HeapView!Next
<1> DEFINE d == Contents
           H == DOMAIN blocks
<1>1. d = [q \in H |-> Seen(mem, q, blocks[q])] /\ d' = [q \in DOMAIN blocks' |-> Seen(mem', q, blocks'[q])]
  BY ContentsIs
<1>2. p \in H /\ SoundHeap(mem', small', H \ {p}) /\ Keeps(mem, mem', H \ {p})
  BY DEF Released
<1>3. DOMAIN blocks' = H \ {p} /\ \A q \in H \ {p} : blocks'[q] = blocks[q]
  BY DEF Released, Without
<1>4. \A q \in H : q \in Int /\ mem[q].size \in Nat /\ RoomIn(mem, q, blocks[q])
  BY HeldIs DEF MallocInv
<1>5. \A q \in H \ {p} : d'[q] = d[q]
  <2> SUFFICES ASSUME NEW q \in H \ {p} PROVE d'[q] = d[q]
    OBVIOUS
  <2>1. d[q] = Seen(mem, q, blocks[q]) /\ d'[q] = Seen(mem', q, blocks[q])
    BY <1>1, <1>3
  <2>2. Seen(mem', q, blocks[q]) = Seen(mem, q, blocks[q])
    BY <1>2, <1>4, SeenSame
  <2>3. QED
    BY <2>1, <2>2
<1>6. DOMAIN d = H /\ d' = [q \in H \ {p} |-> d'[q]]
  BY <1>1, <1>3
<1> HIDE DEF d
<1>7. d' = [q \in DOMAIN d \ {p} |-> d[q]]
  BY <1>5, <1>6
<1>8. HeapView!Release(p)
  BY <1>7, Zenon DEF HeapView!Release, HeapView!Without, d
<1>9. p \in DOMAIN d
  BY <1>2, <1>6
<1>10. QED
  BY <1>8, <1>9, Zenon DEF HeapView!Next, d

LEMMA StoredView ==
  ASSUME MallocInv, NEW p, NEW t, Stored(p, t)
  PROVE  HeapView!Next
<1> DEFINE d == Contents
           H == DOMAIN blocks
           b == [blocks[p] EXCEPT !.known = blocks[p].req]
<1>1. d = [q \in H |-> Seen(mem, q, blocks[q])] /\ d' = [q \in DOMAIN blocks' |-> Seen(mem', q, blocks'[q])]
  BY ContentsIs
<1>2. /\ p \in H /\ t \in Tags /\ Keeps(mem, mem', H \ {p}) /\ blocks' = [blocks EXCEPT ![p] = b]
      /\ \A k \in 1..blocks[p].req : mem'[p + k] = t
  BY DEF Stored
<1>3. \A q \in H : q \in Int /\ mem[q].size \in Nat /\ RoomIn(mem, q, blocks[q])
  BY HeldIs DEF MallocInv
<1>4. b.req = blocks[p].req /\ b.known = blocks[p].req
  BY <1>2, <1>3 DEF RoomIn
<1> HIDE DEF b
<1>5. DOMAIN blocks' = H /\ blocks'[p] = b /\ \A q \in H \ {p} : blocks'[q] = blocks[q]
  BY <1>2
<1>6. \A q \in H \ {p} : d'[q] = d[q]
  <2> SUFFICES ASSUME NEW q \in H \ {p} PROVE d'[q] = d[q]
    OBVIOUS
  <2>1. d[q] = Seen(mem, q, blocks[q]) /\ d'[q] = Seen(mem', q, blocks[q])
    BY <1>1, <1>5
  <2>2. Seen(mem', q, blocks[q]) = Seen(mem, q, blocks[q])
    BY <1>2, <1>3, SeenSame
  <2>3. QED
    BY <2>1, <2>2
<1> DEFINE w == [i \in 1..d[p].req |-> t]
<1>7. d[p].req = blocks[p].req
  BY <1>1, <1>2 DEF Seen
<1>8. d'[p] = [req |-> blocks[p].req, data |-> w]
  <2>1. d'[p] = Seen(mem', p, b)
    BY <1>1, <1>2, <1>5
  <2>2. Seen(mem', p, b) = [req |-> blocks[p].req, data |-> [i \in 1..blocks[p].req |-> mem'[p + i]]]
    BY <1>4 DEF Seen
  <2>3. [i \in 1..blocks[p].req |-> mem'[p + i]] = w
    BY <1>2, <1>7
  <2>4. QED
    BY <2>1, <2>2, <2>3
<1>9. [d[p] EXCEPT !.data = w] = [req |-> blocks[p].req, data |-> w]
  <2>1. d[p] = [req |-> blocks[p].req, data |-> [i \in 1..blocks[p].known |-> mem[p + i]]]
    BY <1>1, <1>2 DEF Seen
  <2> HIDE DEF w, d
  <2>2. QED
    BY <2>1
<1>10. DOMAIN d = H /\ d = [q \in H |-> d[q]] /\ d' = [q \in H |-> d'[q]]
  BY <1>1, <1>5
<1> HIDE DEF d, w
<1>11. d' = [d EXCEPT ![p] = [d[p] EXCEPT !.data = w]]
  BY <1>2, <1>6, <1>8, <1>9, <1>10
<1>12. d' = [d EXCEPT ![p].data = w]
  BY <1>11
<1>13. HeapView!Write(p, t)
  BY <1>12, Zenon DEF HeapView!Write, d, w
<1>14. p \in DOMAIN d
  BY <1>2, <1>10
<1>15. QED
  BY <1>2, <1>13, <1>14, Zenon DEF HeapView!Next, d

(* The beginning of a sequence. *)
LEMMA Beginning ==
  ASSUME NEW S, NEW s \in Seq(S), NEW k \in Nat, k <= Len(s)
  PROVE  SubSeq(s, 1, k) = [i \in 1..k |-> s[i]]
<1>1. \A i \in 1..k : s[i] \in S
  BY ElementOfSeq
<1>2. /\ SubSeq(s, 1, k) \in Seq(S)
      /\ Len(SubSeq(s, 1, k)) = IF 1 <= k THEN k - 1 + 1 ELSE 0
      /\ \A i \in 1..(k - 1 + 1) : SubSeq(s, 1, k)[i] = s[1 + i - 1]
  BY <1>1, SubSeqProperties
<1>3. Len(SubSeq(s, 1, k)) = k /\ \A i \in 1..k : SubSeq(s, 1, k)[i] = s[i]
  BY <1>2
<1>4. SubSeq(s, 1, k) = [i \in 1..k |-> SubSeq(s, 1, k)[i]]
  BY <1>2, <1>3, LenProperties
<1>5. QED
  BY <1>3, <1>4

LEMMA ResizedView ==
  ASSUME MallocInv, NEW p, NEW r, NEW req, Resized(p, r, req)
  PROVE  HeapView!Next
<1> DEFINE d == Contents
           H == DOMAIN blocks
           G == H \ {p}
           known == Lesser(blocks[p].known, req)
           b == [req |-> req, known |-> known]
<1>1. d = [q \in H |-> Seen(mem, q, blocks[q])] /\ d' = [q \in DOMAIN blocks' |-> Seen(mem', q, blocks'[q])]
  BY ContentsIs
<1>2. /\ p \in H /\ r \notin G /\ req \in Nat /\ SoundHeap(mem', small', G \cup {r}) /\ Keeps(mem, mem', G)
      /\ req < mem'[r].size /\ \A k \in 1..req : k < mem[p].size => mem'[r + k] = mem[p + k]
  BY DEF Resized, Request
<1>3. /\ DOMAIN blocks' = G \cup {r} /\ blocks'[r] = b /\ \A q \in G : blocks'[q] = blocks[q]
  BY <1>2 DEF Resized, With, Without
<1>4. /\ \A q \in H : /\ q \in Int /\ mem[q].size \in Nat /\ RoomIn(mem, q, blocks[q])
                      /\ Cells(q, mem[q].size) \subseteq DOMAIN mem
      /\ Typed(mem, small)
  BY HeldIs DEF MallocInv
<1>5. \A q \in G : mem'[q] = mem[q]
  BY <1>2 DEF Keeps
<1>6. \A q \in G : d'[q] = d[q] /\ d[q].req = blocks[q].req
  <2> SUFFICES ASSUME NEW q \in G PROVE d'[q] = d[q] /\ d[q].req = blocks[q].req
    OBVIOUS
  <2>1. d[q] = Seen(mem, q, blocks[q]) /\ d'[q] = Seen(mem', q, blocks[q])
    BY <1>1, <1>3
  <2>2. Seen(mem', q, blocks[q]) = Seen(mem, q, blocks[q])
    BY <1>2, <1>4, SeenSame
  <2>3. QED
    BY <2>1, <2>2 DEF Seen
<1>7. /\ blocks[p].known \in Nat /\ blocks[p].known < mem[p].size /\ known \in Nat
      /\ known <= blocks[p].known /\ known <= req
  BY <1>2, <1>4 DEF RoomIn, Lesser
<1> DEFINE s == d[p].data
<1>8. s \in Seq(Tags \cup Headers) /\ Len(s) = blocks[p].known /\ \A i \in 1..blocks[p].known : s[i] = mem[p + i]
  <2>1. s = [i \in 1..blocks[p].known |-> mem[p + i]]
    BY <1>1, <1>2 DEF Seen
  <2>2. \A i \in 1..blocks[p].known : mem[p + i] \in Tags \cup Headers
    <3> SUFFICES ASSUME NEW i \in 1..blocks[p].known PROVE p + i \in Cells(p, mem[p].size)
      BY <1>2, <1>4 DEF Typed
    <3>1. QED
      BY <1>2, <1>4, <1>7 DEF Cells
  <2> HIDE DEF s
  <2>3. QED
    BY <1>7, <2>1, <2>2, IsASeq
<1> DEFINE kept == IF Len(s) < req THEN Len(s) ELSE req
<1>9. kept = known
  BY <1>8 DEF Lesser
<1>10. SubSeq(s, 1, kept) = [i \in 1..known |-> mem'[r + i]]
  <2> HIDE DEF s, known
  <2>1. SubSeq(s, 1, known) = [i \in 1..known |-> s[i]]
    BY <1>7, <1>8, Beginning
  <2>2. \A i \in 1..known : s[i] = mem'[r + i]
    <3> SUFFICES ASSUME NEW i \in 1..known PROVE s[i] = mem'[r + i]
      OBVIOUS
    <3>1. i \in 1..req /\ i \in 1..blocks[p].known /\ i < mem[p].size
      BY <1>2, <1>4, <1>7
    <3>2. QED
      BY <1>2, <1>8, <3>1
  <2>3. QED
    BY <1>9, <2>1, <2>2
<1> DEFINE x == [req |-> req, data |-> SubSeq(s, 1, kept)]
<1>11. d'[r] = x
  <2>1. d'[r] = Seen(mem', r, b)
    BY <1>1, <1>3
  <2>2. Seen(mem', r, b) = [req |-> req, data |-> [i \in 1..known |-> mem'[r + i]]]
    BY DEF Seen
  <2>3. QED
    BY <1>10, <2>1, <2>2
<1>12. d'[r].req = req
  BY <1>11
<1>13. DOMAIN d = H /\ d' = [q \in G \cup {r} |-> d'[q]] /\ DOMAIN d' = G \cup {r}
  BY <1>1, <1>3
<1>14. \A q \in G : ((r + 1)..(r + req)) \cap ((q + 1)..(q + d[q].req)) = {}
  <2> SUFFICES ASSUME NEW q \in G PROVE ((r + 1)..(r + req)) \cap ((q + 1)..(q + blocks[q].req)) = {}
    BY <1>6
  <2>1. blocks[q].req \in Nat /\ blocks[q].req < mem'[q].size /\ r # q
    BY <1>2, <1>4, <1>5 DEF RoomIn
  <2> HIDE DEF G
  <2>2. QED
    BY <1>2, <2>1, PlacesApart
<1> HIDE DEF d, x
<1> DEFINE e == [q \in DOMAIN d \ {p} |-> d[q]]
<1>15. d' = [q \in DOMAIN e \cup {r} |-> IF q = r THEN x ELSE e[q]]
  <2>1. DOMAIN e = G /\ \A q \in G : e[q] = d[q]
    BY <1>13
  <2> HIDE DEF e, G
  <2>2. QED
    BY <1>2, <1>6, <1>11, <1>13, <2>1
<1>16. HeapView!Resize(p, r, req)
  <2>1. HeapView!Free(r, req, DOMAIN d \ {p})
    BY <1>13, <1>14, PlaceIs, Zenon DEF HeapView!Free, d
  <2>2. d' = HeapView!With(HeapView!Without(p), r, x)
    BY <1>15, Zenon DEF HeapView!With, HeapView!Without, d
  <2>3. QED
    BY <2>1, <2>2, Zenon DEF HeapView!Resize, d, x, s, kept
<1>17. p \in DOMAIN d /\ r \in DOMAIN d'
  BY <1>2, <1>13
<1>18. QED
  BY <1>12, <1>16, <1>17, Zenon DEF HeapView!Next, d

(* ImplementsHeap.  The blocks are apart, a new one is zero, no call and   *)
(* no store to one shows in another, realloc keeps the common prefix and a *)
(* failed call changes nothing: the calls of alloc.c are those of Heap.    *)
THEOREM AllocatorImplementsHeap == Spec => ImplementsHeap
<1>1. Init => HeapView!Init
  <2> SUFFICES ASSUME Init PROVE Contents = << >>
    BY DEF HeapView!Init
  <2>1. DOMAIN blocks = {}
    BY DEF Init
  <2>2. QED
    BY <2>1, ContentsIs
<1>2. MallocInv /\ [Next]_vars => MallocInv' /\ [HeapView!Next]_Contents
  <2> SUFFICES ASSUME MallocInv, [Next]_vars PROVE [HeapView!Next]_Contents
    BY NextStep, StepKeepsInv
  <2>1. CASE UNCHANGED vars
    <3>1. mem' = mem /\ blocks' = blocks
      BY <2>1 DEF vars
    <3>2. Contents' = Contents
      BY <3>1, ContentsIs
    <3>3. QED
      BY <3>2
  <2>2. QED
    BY <2>1, NextStep, AllocatedView, ReleasedView, ResizedView, StoredView DEF HeapStep
<1>3. QED
  BY <1>1, <1>2, InitInv, PTL DEF Spec, ImplementsHeap, HeapView!Spec

=============================================================================
