---------------------------- MODULE StdioProofs -----------------------------
(***************************************************************************)
(* Proofs about Stdio and AtExit, for files, buffers, bytes and handlers   *)
(* of any number.  A stream is Sound when its indices stay in its buffer;  *)
(* that every function keeps, also when the program meets the faults of    *)
(* fread (BufferInOrder).  It is Fit when the buffer, the pushed back byte *)
(* and the EOF flag agree with the file; that is kept for a Careful        *)
(* program, and then every function does to the content of the file and to *)
(* the position, seen through the buffer, what StreamSpec says of it       *)
(* (StdioImplementsStream).  Each function has a lemma that says what      *)
(* it does to this view: Added bytes, Took bytes, or SameView; the loops   *)
(* of fwrite, fread and fgets are handled by a run, the function from the  *)
(* number of turns to the outcomes, and an invariant of its turns.         *)
(***************************************************************************)
EXTENDS Stdio, AtExit, SequenceTheorems, NaturalsInduction, WellFoundedInduction, TLAPS

-----------------------------------------------------------------------------
(* Streams.                                                                *)

(* The flags of a FILE. *)
Flags == {"BUFINPUT", "CANREAD", "CANWRITE", "NOBUF", "BUFLINEWISE", "ERR", "EOF"}

(* Contents of files and buffers. *)
Bytes == Seq(Byte)

(* The type of a stream. *)
StreamRec ==
  [file : Bytes, pos : Nat, flags : SUBSET Flags, bm : Nat, bs : Nat, buf : Bytes,
   buflen : Nat, ungotten : Bytes, open : BOOLEAN, ok : BOOLEAN]

(* The buffer was filled by read. *)
Input(g) == "BUFINPUT" \in g.flags

(* What holds of a stream whoever uses it: the indices stay in the buffer. *)
Sound(g) ==
  /\ g \in StreamRec /\ g.pos <= Len(g.file)
  /\ g.buflen \in 1 .. BUFSIZE + 1 /\ Len(g.buf) = g.buflen
  /\ g.bm <= g.buflen /\ g.bs <= g.buflen /\ Len(g.ungotten) <= 1
  /\ g.ok /\ Input(g) => g.bm <= g.bs

(* The constants. *)
LEMMA Numbers == BUFSIZE \in Nat \ {0} /\ Byte \subseteq Nat \ {0} /\ Newline \in Byte
BY StdioAssumption

(* The empty sequence. *)
LEMMA NoBytes == <<>> \in Bytes /\ Len(<<>>) = 0
BY DEF Bytes

(* Lengths. *)
LEMMA LenIs ==
  ASSUME NEW s \in Bytes
  PROVE  Len(s) \in Nat /\ (Len(s) = 0 <=> s = <<>>)
BY DEF Bytes

(* A part of a sequence and its length. *)
LEMMA PartIs ==
  ASSUME NEW s \in Bytes, NEW m \in Nat, NEW n \in Int, n <= Len(s)
  PROVE  /\ SubSeq(s, m + 1, n) \in Bytes
         /\ Len(SubSeq(s, m + 1, n)) = IF n > m THEN n - m ELSE 0
<1>1. Len(s) \in Nat
  BY LenIs
<1>2. ASSUME NEW j \in m + 1 .. n PROVE s[j] \in Byte
  <2>1. j \in 1 .. Len(s)
    BY <1>1
  <2>2. QED
    BY <2>1, ElementOfSeq DEF Bytes
<1>3. m + 1 \in Int
  OBVIOUS
<1>4. SubSeq(s, m + 1, n) \in Seq(Byte) /\ Len(SubSeq(s, m + 1, n)) = IF m + 1 <= n THEN n - (m + 1) + 1 ELSE 0
  BY <1>1, <1>2, <1>3, SubSeqProperties
<1>5. QED
  BY <1>4 DEF Bytes

(* The first n bytes. *)
LEMMA PrefixIs ==
  ASSUME NEW s \in Bytes, NEW n \in Nat, n <= Len(s)
  PROVE  SubSeq(s, 1, n) \in Bytes /\ Len(SubSeq(s, 1, n)) = n
<1>1. 0 \in Nat /\ n \in Int
  OBVIOUS
<1>2. /\ SubSeq(s, 0 + 1, n) \in Bytes
      /\ Len(SubSeq(s, 0 + 1, n)) = IF n > 0 THEN n - 0 ELSE 0
  BY <1>1, PartIs
<1>3. 0 + 1 = 1 /\ (IF n > 0 THEN n - 0 ELSE 0) = n
  OBVIOUS
<1>4. QED
  BY <1>2, <1>3, Zenon

(* What is laid over a file or a buffer. *)
LEMMA OverlayIs ==
  ASSUME NEW a \in Bytes, NEW p \in Nat, p <= Len(a), NEW s \in Bytes
  PROVE  /\ Overlay(a, p, s) \in Bytes
         /\ Len(Overlay(a, p, s)) = IF p + Len(s) > Len(a) THEN p + Len(s) ELSE Len(a)
<1> DEFINE n == IF p + Len(s) > Len(a) THEN p + Len(s) ELSE Len(a)
<1>1. Len(a) \in Nat /\ Len(s) \in Nat /\ n \in Nat
  BY LenIs
<1>2. ASSUME NEW j \in 1 .. n
      PROVE  (IF j \in p + 1 .. p + Len(s) THEN s[j - p] ELSE a[j]) \in Byte
  <2>1. CASE j \in p + 1 .. p + Len(s)
    <3>1. j - p \in 1 .. Len(s)
      BY <1>1, <2>1
    <3>2. QED
      BY <2>1, <3>1, ElementOfSeq DEF Bytes
  <2>2. CASE j \notin p + 1 .. p + Len(s)
    <3>1. j \in 1 .. Len(a)
      BY <1>1, <2>2
    <3>2. QED
      BY <2>2, <3>1, ElementOfSeq DEF Bytes
  <2>3. QED
    BY <2>1, <2>2
<1>3. Overlay(a, p, s) = [j \in 1 .. n |-> IF j \in p + 1 .. p + Len(s) THEN s[j - p] ELSE a[j]]
  BY DEF Overlay
<1> HIDE DEF n
<1>4. Overlay(a, p, s) \in [1 .. n -> Byte]
  BY <1>2, <1>3
<1>5. Overlay(a, p, s) \in Seq(Byte) /\ Len(Overlay(a, p, s)) = n
  BY <1>1, <1>4, SeqDef, LenProperties
<1>6. QED
  BY <1>5 DEF n, Bytes

(* Sequences are equal when their bytes are. *)
LEMMA SameBytes ==
  ASSUME NEW a \in Bytes, NEW b \in Bytes, Len(a) = Len(b), \A j \in 1 .. Len(a) : a[j] = b[j]
  PROVE  a = b
BY SeqEqual DEF Bytes

(* A byte of a part. *)
LEMMA PartAt ==
  ASSUME NEW s \in Bytes, NEW m \in Nat, NEW n \in Int, n <= Len(s), NEW j \in 1 .. n - m
  PROVE  SubSeq(s, m + 1, n)[j] = s[m + j]
<1>1. Len(s) \in Nat
  BY LenIs
<1>2. ASSUME NEW k \in m + 1 .. n PROVE s[k] \in Byte
  <2>1. k \in 1 .. Len(s)
    BY <1>1
  <2>2. QED
    BY <2>1, ElementOfSeq DEF Bytes
<1>3. m + 1 \in Int /\ j \in 1 .. n - (m + 1) + 1 /\ (m + 1) + j - 1 = m + j
  OBVIOUS
<1>4. \A k \in 1 .. n - (m + 1) + 1 : SubSeq(s, m + 1, n)[k] = s[(m + 1) + k - 1]
  BY <1>2, <1>3, SubSeqProperties
<1>5. QED
  BY <1>3, <1>4

(* A byte of a prefix. *)
LEMMA PrefixAt ==
  ASSUME NEW s \in Bytes, NEW n \in Nat, n <= Len(s), NEW j \in 1 .. n
  PROVE  SubSeq(s, 1, n)[j] = s[j]
<1>1. 0 \in Nat /\ n \in Int /\ j \in 1 .. n - 0 /\ 0 + j = j /\ 0 + 1 = 1
  OBVIOUS
<1>2. SubSeq(s, 0 + 1, n)[j] = s[0 + j]
  BY <1>1, PartAt
<1>3. QED
  BY <1>1, <1>2, Zenon

(* Two sequences joined. *)
LEMMA JoinIs ==
  ASSUME NEW a \in Bytes, NEW b \in Bytes
  PROVE  /\ a \o b \in Bytes /\ Len(a \o b) = Len(a) + Len(b)
         /\ \A j \in 1 .. Len(a) + Len(b) : (a \o b)[j] = IF j <= Len(a) THEN a[j] ELSE b[j - Len(a)]
BY ConcatProperties DEF Bytes

(* A single byte. *)
LEMMA OneByte ==
  ASSUME NEW c \in Byte
  PROVE  <<c>> \in Bytes /\ Len(<<c>>) = 1 /\ <<c>>[1] = c
BY DEF Bytes

(* A byte of a file after a write. *)
LEMMA OverlayAt ==
  ASSUME NEW a \in Bytes, NEW p \in Nat, p <= Len(a), NEW s \in Bytes, NEW j \in 1 .. Len(Overlay(a, p, s))
  PROVE  Overlay(a, p, s)[j] = IF j \in p + 1 .. p + Len(s) THEN s[j - p] ELSE a[j]
<1>1. j \in 1 .. (IF p + Len(s) > Len(a) THEN p + Len(s) ELSE Len(a))
  BY OverlayIs
<1>2. QED
  BY <1>1, Zenon DEF Overlay

(* A write of nothing changes nothing. *)
LEMMA OverlayNone ==
  ASSUME NEW a \in Bytes, NEW p \in Nat, p <= Len(a)
  PROVE  Overlay(a, p, <<>>) = a
<1> DEFINE e == <<>>
<1>1. e \in Bytes /\ Len(e) = 0 /\ Len(a) \in Nat
  BY NoBytes, LenIs
<1> HIDE DEF e
<1>2. Overlay(a, p, e) \in Bytes /\ Len(Overlay(a, p, e)) = Len(a)
  BY <1>1, OverlayIs
<1>3. ASSUME NEW j \in 1 .. Len(a) PROVE Overlay(a, p, e)[j] = a[j]
  <2>1. j \notin p + 1 .. p + Len(e)
    BY <1>1
  <2>2. QED
    BY <1>1, <1>2, <2>1, OverlayAt
<1>4. Overlay(a, p, e) = a
  BY <1>2, <1>3, SameBytes
<1>5. QED
  BY <1>4 DEF e

(* Two pieces laid one after the other are their concatenation. *)
LEMMA OverlayJoin ==
  ASSUME NEW a \in Bytes, NEW p \in Nat, p <= Len(a), NEW s \in Bytes, NEW t \in Bytes
  PROVE  Overlay(Overlay(a, p, s), p + Len(s), t) = Overlay(a, p, s \o t)
<1> DEFINE b == Overlay(a, p, s)
           q == p + Len(s)
           u == s \o t
<1>1. Len(a) \in Nat /\ Len(s) \in Nat /\ Len(t) \in Nat
  BY LenIs
<1>2. b \in Bytes /\ Len(b) = (IF p + Len(s) > Len(a) THEN p + Len(s) ELSE Len(a))
  BY OverlayIs
<1>3. \A j \in 1 .. Len(b) : b[j] = IF j \in p + 1 .. p + Len(s) THEN s[j - p] ELSE a[j]
  BY OverlayAt
<1>4. /\ u \in Bytes /\ Len(u) = Len(s) + Len(t)
      /\ \A j \in 1 .. Len(s) + Len(t) : u[j] = IF j <= Len(s) THEN s[j] ELSE t[j - Len(s)]
  BY JoinIs
<1> HIDE DEF b, u
<1>5. q \in Nat /\ q <= Len(b)
  BY <1>1, <1>2
<1> HIDE DEF q
<1>6. Overlay(b, q, t) \in Bytes /\ Len(Overlay(b, q, t)) = IF q + Len(t) > Len(b) THEN q + Len(t) ELSE Len(b)
  BY <1>2, <1>5, OverlayIs
<1>7. Overlay(a, p, u) \in Bytes /\ Len(Overlay(a, p, u)) = IF p + Len(u) > Len(a) THEN p + Len(u) ELSE Len(a)
  BY <1>4, OverlayIs
<1>8. Len(Overlay(b, q, t)) = Len(Overlay(a, p, u))
  BY <1>1, <1>2, <1>4, <1>6, <1>7 DEF q
<1>9. ASSUME NEW j \in 1 .. Len(Overlay(b, q, t)) PROVE Overlay(b, q, t)[j] = Overlay(a, p, u)[j]
  <2>1. Overlay(b, q, t)[j] = IF j \in q + 1 .. q + Len(t) THEN t[j - q] ELSE b[j]
    BY <1>2, <1>5, OverlayAt
  <2>2. Overlay(a, p, u)[j] = IF j \in p + 1 .. p + Len(u) THEN u[j - p] ELSE a[j]
    BY <1>4, <1>8, OverlayAt
  <2>3. CASE j \in q + 1 .. q + Len(t)
    <3>1. /\ j \in p + 1 .. p + Len(u) /\ j - p \in 1 .. Len(s) + Len(t) /\ ~(j - p <= Len(s))
          /\ (j - p) - Len(s) = j - q
      BY <1>1, <1>4, <2>3 DEF q
    <3>2. u[j - p] = t[j - q]
      BY <1>4, <3>1
    <3>3. QED
      BY <2>1, <2>2, <2>3, <3>1, <3>2
  <2>4. CASE j \in p + 1 .. q
    <3>1. /\ j \in p + 1 .. p + Len(u) /\ j - p \in 1 .. Len(s) + Len(t) /\ j - p <= Len(s)
          /\ j \notin q + 1 .. q + Len(t) /\ j \in 1 .. Len(b) /\ j \in p + 1 .. p + Len(s)
      BY <1>1, <1>2, <1>4, <2>4 DEF q
    <3>2. u[j - p] = s[j - p] /\ b[j] = s[j - p]
      BY <1>3, <1>4, <3>1
    <3>3. QED
      BY <2>1, <2>2, <3>1, <3>2
  <2>5. CASE j \notin p + 1 .. q + Len(t)
    <3>1. /\ j \notin p + 1 .. p + Len(u) /\ j \notin q + 1 .. q + Len(t)
          /\ j \in 1 .. Len(b) /\ j \notin p + 1 .. p + Len(s)
      BY <1>1, <1>2, <1>4, <1>6, <2>5 DEF q
    <3>2. QED
      BY <1>3, <2>1, <2>2, <3>1
  <2>6. j \in q + 1 .. q + Len(t) \/ j \in p + 1 .. q \/ j \notin p + 1 .. q + Len(t)
    BY <1>1, <1>5 DEF q
  <2>7. QED
    BY <2>3, <2>4, <2>5, <2>6
<1>10. Overlay(b, q, t) = Overlay(a, p, u)
  BY <1>6, <1>7, <1>8, <1>9, SameBytes
<1>11. QED
  BY <1>10 DEF b, q, u

(* A prefix, and the bytes behind it. *)
LEMMA PrefixJoin ==
  ASSUME NEW s \in Bytes, NEW m \in Nat, NEW n \in Nat, m <= n, n <= Len(s)
  PROVE  SubSeq(s, 1, m) \o SubSeq(s, m + 1, n) = SubSeq(s, 1, n)
<1> DEFINE a == SubSeq(s, 1, m)
           b == SubSeq(s, m + 1, n)
           c == SubSeq(s, 1, n)
<1>1. Len(s) \in Nat /\ m <= Len(s) /\ n \in Int
  BY LenIs
<1>2. a \in Bytes /\ Len(a) = m /\ c \in Bytes /\ Len(c) = n
  BY <1>1, PrefixIs
<1>3. b \in Bytes /\ Len(b) = n - m
  <2>1. (IF n > m THEN n - m ELSE 0) = n - m
    OBVIOUS
  <2>2. QED
    BY <1>1, <2>1, PartIs
<1>4. /\ \A j \in 1 .. m : a[j] = s[j]
      /\ \A j \in 1 .. n : c[j] = s[j]
      /\ \A j \in 1 .. n - m : b[j] = s[m + j]
  BY <1>1, PrefixAt, PartAt
<1> HIDE DEF a, b, c
<1>5. /\ a \o b \in Bytes /\ Len(a \o b) = n
      /\ \A j \in 1 .. n : (a \o b)[j] = IF j <= m THEN a[j] ELSE b[j - m]
  <2>1. Len(a) + Len(b) = n
    BY <1>2, <1>3
  <2>2. QED
    BY <1>2, <1>3, <2>1, JoinIs
<1>6. ASSUME NEW j \in 1 .. n PROVE (a \o b)[j] = c[j]
  <2>1. CASE j <= m
    BY <1>4, <1>5, <2>1
  <2>2. CASE ~(j <= m)
    <3>1. j - m \in 1 .. n - m /\ m + (j - m) = j
      BY <2>2
    <3>2. b[j - m] = s[m + (j - m)]
      BY <1>4, <3>1
    <3>3. QED
      BY <1>4, <1>5, <2>2, <3>1, <3>2
  <2>3. QED
    BY <2>1, <2>2
<1>7. a \o b = c
  BY <1>2, <1>5, <1>6, SameBytes
<1>8. QED
  BY <1>7 DEF a, b, c

(* A prefix grows by the next byte. *)
LEMMA PrefixMore ==
  ASSUME NEW s \in Bytes, NEW k \in Nat, k < Len(s)
  PROVE  SubSeq(s, 1, k) \o <<s[k + 1]>> = SubSeq(s, 1, k + 1) /\ s[k + 1] \in Byte
<1>1. Len(s) \in Nat /\ k + 1 \in Nat /\ k + 1 <= Len(s) /\ k + 1 \in Int /\ k <= k + 1 /\ k + 1 \in 1 .. Len(s)
  BY LenIs
<1>2. s[k + 1] \in Byte
  BY <1>1, ElementOfSeq DEF Bytes
<1> DEFINE b == SubSeq(s, k + 1, k + 1)
<1>3. b \in Bytes /\ Len(b) = 1
  <2>1. (IF k + 1 > k THEN (k + 1) - k ELSE 0) = 1
    OBVIOUS
  <2>2. QED
    BY <1>1, <2>1, PartIs
<1>4. b[1] = s[k + 1]
  <2>1. 1 \in 1 .. (k + 1) - k
    OBVIOUS
  <2>2. QED
    BY <1>1, <2>1, PartAt
<1> HIDE DEF b
<1>5. b = <<s[k + 1]>>
  <2>1. <<s[k + 1]>> \in Bytes /\ Len(<<s[k + 1]>>) = 1 /\ <<s[k + 1]>>[1] = s[k + 1]
    BY <1>2, OneByte
  <2>2. \A j \in 1 .. 1 : j = 1
    OBVIOUS
  <2>3. QED
    BY <1>3, <1>4, <2>1, <2>2, SameBytes
<1>6. SubSeq(s, 1, k) \o b = SubSeq(s, 1, k + 1)
  BY <1>1, PrefixJoin DEF b
<1>7. QED
  BY <1>2, <1>5, <1>6

(* A byte stored behind the first n of a buffer, and several. *)
LEMMA LaidIs ==
  ASSUME NEW a \in Bytes, NEW n \in Nat, NEW t \in Bytes, n + Len(t) <= Len(a)
  PROVE  /\ Overlay(a, n, t) \in Bytes /\ Len(Overlay(a, n, t)) = Len(a)
         /\ SubSeq(Overlay(a, n, t), 1, n + Len(t)) = SubSeq(a, 1, n) \o t
<1> DEFINE b == Overlay(a, n, t)
           c == SubSeq(b, 1, n + Len(t))
           d == SubSeq(a, 1, n)
<1>1. Len(a) \in Nat /\ Len(t) \in Nat /\ n <= Len(a) /\ n + Len(t) \in Nat
  BY LenIs
<1>2. b \in Bytes /\ Len(b) = Len(a)
  BY <1>1, OverlayIs
<1>3. \A j \in 1 .. Len(b) : b[j] = IF j \in n + 1 .. n + Len(t) THEN t[j - n] ELSE a[j]
  BY <1>1, OverlayAt
<1> HIDE DEF b
<1>4. c \in Bytes /\ Len(c) = n + Len(t) /\ \A j \in 1 .. n + Len(t) : c[j] = b[j]
  BY <1>1, <1>2, PrefixIs, PrefixAt
<1>5. d \in Bytes /\ Len(d) = n /\ \A j \in 1 .. n : d[j] = a[j]
  BY <1>1, PrefixIs, PrefixAt
<1> HIDE DEF c, d
<1>6. /\ d \o t \in Bytes /\ Len(d \o t) = n + Len(t)
      /\ \A j \in 1 .. n + Len(t) : (d \o t)[j] = IF j <= n THEN d[j] ELSE t[j - n]
  BY <1>5, JoinIs
<1>7. ASSUME NEW j \in 1 .. n + Len(t) PROVE c[j] = (d \o t)[j]
  <2>1. j \in 1 .. Len(b) /\ (j <= n => j \in 1 .. n /\ j \notin n + 1 .. n + Len(t))
        /\ (~(j <= n) => j \in n + 1 .. n + Len(t))
    BY <1>1, <1>2
  <2>2. QED
    BY <1>3, <1>4, <1>5, <1>6, <2>1
<1>8. c = d \o t
  BY <1>4, <1>6, <1>7, SameBytes
<1>9. QED
  BY <1>2, <1>8 DEF b, c, d

(* A byte stored behind the first n of the buffer. *)
LEMMA StoredIs ==
  ASSUME NEW a \in Bytes, NEW n \in Nat, n < Len(a), NEW c \in Byte
  PROVE  /\ [a EXCEPT ![n + 1] = c] = Overlay(a, n, <<c>>)
         /\ Overlay(a, n, <<c>>) \in Bytes /\ Len(Overlay(a, n, <<c>>)) = Len(a)
         /\ SubSeq(Overlay(a, n, <<c>>), 1, n + 1) = SubSeq(a, 1, n) \o <<c>>
<1> DEFINE t == <<c>>
           b == [a EXCEPT ![n + 1] = c]
<1>1. Len(a) \in Nat /\ t \in Bytes /\ Len(t) = 1 /\ t[1] = c /\ n + 1 <= Len(a) /\ n <= Len(a)
  BY LenIs, OneByte
<1>2. /\ Overlay(a, n, t) \in Bytes /\ Len(Overlay(a, n, t)) = Len(a)
      /\ SubSeq(Overlay(a, n, t), 1, n + 1) = SubSeq(a, 1, n) \o t
  BY <1>1, LaidIs
<1> HIDE DEF t
<1>3. b \in Bytes /\ Len(b) = Len(a) /\ \A j \in 1 .. Len(a) : b[j] = IF j = n + 1 THEN c ELSE a[j]
  <2>1. a \in [1 .. Len(a) -> Byte] /\ n + 1 \in 1 .. Len(a)
    BY <1>1, LenProperties DEF Bytes
  <2>2. b \in [1 .. Len(a) -> Byte] /\ \A j \in 1 .. Len(a) : b[j] = IF j = n + 1 THEN c ELSE a[j]
    BY <2>1
  <2> HIDE DEF b
  <2>3. b \in Seq(Byte) /\ Len(b) = Len(a)
    BY <1>1, <2>2, SeqDef, LenProperties
  <2>4. QED
    BY <2>2, <2>3 DEF Bytes
<1> HIDE DEF b
<1>4. ASSUME NEW j \in 1 .. Len(a) PROVE b[j] = Overlay(a, n, t)[j]
  <2>1. Overlay(a, n, t)[j] = IF j \in n + 1 .. n + Len(t) THEN t[j - n] ELSE a[j]
    BY <1>1, <1>2, OverlayAt
  <2>2. (j \in n + 1 .. n + Len(t) <=> j = n + 1) /\ (j = n + 1 => j - n = 1)
    BY <1>1
  <2>3. QED
    BY <1>1, <1>3, <2>1, <2>2
<1>5. b = Overlay(a, n, t)
  BY <1>2, <1>3, <1>4, SameBytes
<1>6. QED
  BY <1>2, <1>5 DEF b, t

(* The types of the fields. *)
LEMMA Fields ==
  ASSUME NEW g, Sound(g)
  PROVE  /\ g \in StreamRec /\ g.file \in Bytes /\ g.pos \in Nat /\ g.flags \subseteq Flags /\ g.bm \in Nat
         /\ g.bs \in Nat /\ g.buf \in Bytes /\ g.buflen \in Nat /\ g.ungotten \in Bytes
         /\ g.open \in BOOLEAN /\ g.ok \in BOOLEAN
BY DEF Sound, StreamRec

(* All but the position in the file, and all but the flags. *)
SameBut(h, g, names) ==
  /\ "file" \in names \/ h.file = g.file
  /\ "pos" \in names \/ h.pos = g.pos
  /\ "flags" \in names \/ h.flags = g.flags
  /\ "bm" \in names \/ h.bm = g.bm
  /\ "bs" \in names \/ h.bs = g.bs
  /\ "buf" \in names \/ h.buf = g.buf
  /\ "buflen" \in names \/ h.buflen = g.buflen
  /\ "ungotten" \in names \/ h.ungotten = g.ungotten
  /\ "open" \in names \/ h.open = g.open
  /\ "ok" \in names \/ h.ok = g.ok

(* Setting ERR or EOF. *)
LEMMA SetIs ==
  ASSUME NEW g, Sound(g), NEW x \in {"ERR", "EOF"}
  PROVE  Sound(Set(g, {x})) /\ Set(g, {x}).flags = g.flags \cup {x} /\ SameBut(Set(g, {x}), g, {"flags"})
<1> DEFINE h == Set(g, {x})
<1>1. g \in StreamRec /\ g.flags \cup {x} \in SUBSET Flags
  BY DEF Sound, StreamRec, Flags
<1>2. h \in StreamRec /\ h.flags = g.flags \cup {x} /\ SameBut(h, g, {"flags"})
  BY <1>1 DEF StreamRec, Set, SameBut
<1> HIDE DEF h
<1>3. Sound(h)
  BY <1>2 DEF Sound, SameBut, Input
<1>4. QED
  BY <1>2, <1>3 DEF h

(* Clearing flags. *)
LEMMA ClearIs ==
  ASSUME NEW g, Sound(g), NEW X, "BUFINPUT" \notin X
  PROVE  /\ Sound(Clear(g, X)) /\ Clear(g, X).flags = g.flags \ X /\ SameBut(Clear(g, X), g, {"flags"})
<1> DEFINE h == Clear(g, X)
<1>1. g \in StreamRec /\ g.flags \ X \in SUBSET Flags
  BY DEF Sound, StreamRec, Flags
<1>2. h \in StreamRec /\ h.flags = g.flags \ X /\ SameBut(h, g, {"flags"})
  BY <1>1 DEF StreamRec, Clear, SameBut
<1> HIDE DEF h
<1>3. Sound(h)
  BY <1>2 DEF Sound, SameBut, Input
<1>4. QED
  BY <1>2, <1>3 DEF h

-----------------------------------------------------------------------------
(* The kernel.                                                             *)

(* What write does with s, given that the stream is sound. *)
Wrote(g, s, o) ==
  /\ Sound(o.f) /\ o.r \in -1 .. Len(s)
  /\ SameBut(o.f, g, {"file", "pos", "ok"})
  /\ o.r = -1 => o.f = g
  /\ o.r # -1 => o.r > 0 /\ o.f.file = Overlay(g.file, g.pos, SubSeq(s, 1, o.r)) /\ o.f.pos = g.pos + o.r
  /\ o.r # -1 => o.f.ok = (g.ok /\ o.r = Len(s))

(* The system call write. *)
LEMMA WriteIs ==
  ASSUME NEW g, Sound(g), NEW s \in Bytes, NEW o \in write(g, s)
  PROVE  Wrote(g, s, o)
<1>0. Len(s) \in Nat
  BY LenIs
<1>1. CASE o = Ret(g, -1)
  BY <1>0, <1>1 DEF Ret, SameBut, Wrote
<1>2. ASSUME NEW n \in 1 .. Len(s),
             o = Ret([g EXCEPT !.file = Overlay(@, g.pos, SubSeq(s, 1, n)), !.pos = @ + n,
                               !.ok = @ /\ n = Len(s)], n)
      PROVE  Wrote(g, s, o)
  <2> DEFINE t == SubSeq(s, 1, n)
             F == Overlay(g.file, g.pos, t)
  <2>1. /\ g \in StreamRec /\ g.file \in Bytes /\ g.pos \in Nat /\ g.pos <= Len(g.file) /\ Len(g.file) \in Nat
        /\ n \in Nat /\ n > 0 /\ n <= Len(s)
    BY <1>0, LenIs, Fields DEF Sound
  <2>2. t \in Bytes /\ Len(t) = n
    BY <2>1, PrefixIs
  <2> HIDE DEF t
  <2>3. F \in Bytes /\ g.pos + n <= Len(F) /\ g.pos + n \in Nat
    BY <2>1, <2>2, OverlayIs
  <2>4. o = Ret([g EXCEPT !.file = F, !.pos = g.pos + n, !.ok = (g.ok /\ n = Len(s))], n)
    BY <1>2, Zenon DEF t
  <2> HIDE DEF F
  <2> DEFINE b == g.ok /\ n = Len(s)
             h == [g EXCEPT !.file = F, !.pos = g.pos + n, !.ok = b]
  <2>5. b \in BOOLEAN
    BY Zenon
  <2>6. o.f = h /\ o.r = n
    BY <2>4 DEF Ret
  <2> HIDE DEF b
  <2>7. /\ h \in StreamRec /\ SameBut(h, g, {"file", "pos", "ok"})
        /\ h.file = F /\ h.pos = g.pos + n /\ h.ok = b
    BY <2>1, <2>3, <2>5 DEF StreamRec, SameBut
  <2> HIDE DEF h
  <2>8. b => g.ok
    BY DEF b
  <2>9. Sound(h)
    BY <2>3, <2>7, <2>8 DEF Sound, SameBut, Input
  <2>10. QED
    BY <1>0, <2>1, <2>6, <2>7, <2>9 DEF Wrote, t, F, b
<1>3. o = Ret(g, -1) \/
      \E n \in 1 .. Len(s) :
        o = Ret([g EXCEPT !.file = Overlay(@, g.pos, SubSeq(s, 1, n)), !.pos = @ + n,
                          !.ok = @ /\ n = Len(s)], n)
  BY Zenon DEF write
<1>4. QED
  BY <1>1, <1>2, <1>3

(* What read gives of n bytes. *)
Fetched(g, n, o) ==
  /\ Sound(o.f) /\ SameBut(o.f, g, {"pos"})
  /\ \/ o.r = <<EOF>> /\ o.f = g
     \/ o.r = <<>> /\ o.f.pos = g.pos /\ (n > 0 => g.pos = Len(g.file))
     \/ /\ o.r \in Bytes /\ o.r # <<>> /\ o.r # <<EOF>> /\ Len(o.r) \in 1 .. n
        /\ o.f.pos = g.pos + Len(o.r)
        /\ o.r = SubSeq(g.file, g.pos + 1, g.pos + Len(o.r))

(* The answer of a failed read is no sequence of bytes. *)
LEMMA NotEof ==
  ASSUME NEW s \in Bytes
  PROVE  s # <<EOF>>
<1>1. ASSUME s = <<EOF>> PROVE FALSE
  <2>1. Len(s) = 1 /\ s[1] = -1
    BY <1>1 DEF EOF
  <2>2. s[1] \in Byte
    BY <2>1, ElementOfSeq DEF Bytes
  <2>3. QED
    BY <2>1, <2>2, Numbers
<1>2. QED
  BY <1>1

(* The system call read. *)
LEMMA ReadIs ==
  ASSUME NEW g, Sound(g), NEW n \in Nat, NEW o \in read(g, n)
  PROVE  Fetched(g, n, o)
<1> DEFINE most == IF Len(g.file) - g.pos < n THEN Len(g.file) - g.pos ELSE n
<1>1. /\ g \in StreamRec /\ g.file \in Bytes /\ g.pos \in Nat /\ g.pos <= Len(g.file) /\ Len(g.file) \in Nat
  BY LenIs, Fields DEF Sound
<1>2. most \in Nat /\ most <= n /\ g.pos + most <= Len(g.file)
  BY <1>1
<1>3. CASE o = Ret(g, <<EOF>>)
  BY <1>3 DEF Ret, SameBut, Fetched
<1>4. ASSUME NEW k \in (IF most > 0 THEN 1 .. most ELSE {0}),
             o = Ret([g EXCEPT !.pos = @ + k], SubSeq(g.file, g.pos + 1, g.pos + k))
      PROVE  Fetched(g, n, o)
  <2>1. /\ k \in Nat /\ k <= most /\ (k = 0 => most = 0) /\ g.pos + k \in Nat /\ g.pos + k <= Len(g.file)
        /\ k <= n
    BY <1>1, <1>2
  <2> DEFINE t == SubSeq(g.file, g.pos + 1, g.pos + k)
             h == [g EXCEPT !.pos = g.pos + k]
  <2>2. t \in Bytes /\ Len(t) = k
    <3>1. g.pos + k \in Int /\ (IF g.pos + k > g.pos THEN g.pos + k - g.pos ELSE 0) = k
      BY <1>1, <2>1
    <3>2. QED
      BY <1>1, <2>1, <3>1, PartIs
  <2>3. o.f = h /\ o.r = t
    BY <1>4 DEF Ret
  <2>4. h \in StreamRec /\ SameBut(h, g, {"pos"}) /\ h.pos = g.pos + k
    BY <1>1, <2>1 DEF StreamRec, SameBut
  <2> HIDE DEF h, most
  <2>5. Sound(h)
    BY <2>1, <2>4 DEF Sound, SameBut, Input
  <2>6. CASE k = 0
    <3>1. t = <<>> /\ h.pos = g.pos
      BY <1>1, <2>2, <2>4, <2>6, LenIs
    <3>2. n > 0 => g.pos = Len(g.file)
      BY <1>1, <2>1, <2>6 DEF most
    <3>3. QED
      BY <2>3, <2>4, <2>5, <3>1, <3>2 DEF Fetched
  <2>7. CASE k # 0
    <3>0. t # <<EOF>>
      BY <2>2, NotEof
    <3>1. t # <<>> /\ Len(t) \in 1 .. n /\ t # <<EOF>>
      <4> HIDE DEF t
      <4>1. QED
        BY <2>1, <2>2, <2>7, <3>0, LenIs
    <3>2. t = SubSeq(g.file, g.pos + 1, g.pos + Len(t)) /\ h.pos = g.pos + Len(t)
      BY <2>2, <2>4
    <3> HIDE DEF t
    <3>3. QED
      BY <2>2, <2>3, <2>4, <2>5, <3>1, <3>2 DEF Fetched
  <2>8. QED
    BY <2>6, <2>7
<1>5. o = Ret(g, <<EOF>>) \/
      \E k \in (IF most > 0 THEN 1 .. most ELSE {0}) :
        o = Ret([g EXCEPT !.pos = @ + k], SubSeq(g.file, g.pos + 1, g.pos + k))
  BY Zenon DEF read
<1>6. QED
  BY <1>3, <1>4, <1>5

-----------------------------------------------------------------------------
(* The library.                                                            *)

(* Flushing input gives back what was read ahead, output is written. *)
Flushed(g, o) ==
  /\ Sound(o.f) /\ o.r \in {0, -1} /\ SameBut(o.f, g, {"file", "pos", "flags", "bm", "bs", "ungotten", "ok"})
  /\ o.r = 0 => o.f.flags = g.flags /\ o.f.bm = 0 /\ o.f.ungotten = <<>> /\ o.f.ok = g.ok
  /\ o.r # 0 => /\ ~Input(g) /\ g.bm # 0 /\ o.f.flags = g.flags \cup {"ERR"}
                /\ SameBut(o.f, g, {"file", "pos", "ok", "flags"})
                /\ ~o.f.ok \/ SameBut(o.f, g, {"flags"})
  /\ Input(g) => /\ o.f.file = g.file /\ o.f.bs = 0
                 /\ o.f.pos = IF g.bm = g.bs \/ g.pos + (g.bm - g.bs) - Len(g.ungotten) < 0 THEN g.pos
                              ELSE g.pos + (g.bm - g.bs) - Len(g.ungotten)
  /\ ~Input(g) /\ o.r = 0 =>
       /\ o.f.bs = g.bs /\ o.f.pos = g.pos + g.bm
       /\ o.f.file = IF g.bm = 0 THEN g.file ELSE Overlay(g.file, g.pos, SubSeq(g.buf, 1, g.bm))

(* Only a stream without accident has its read ahead in order. *)
LEMMA FlushIs ==
  ASSUME NEW g, Sound(g), g.ok \/ ~Input(g), NEW o \in fflush(g)
  PROVE  Flushed(g, o)
<1>1. /\ g \in StreamRec /\ g.file \in Bytes /\ g.pos \in Nat /\ g.flags \subseteq Flags /\ g.bm \in Nat
      /\ g.bs \in Nat /\ g.buf \in Bytes /\ g.buflen \in Nat /\ g.ungotten \in Bytes
      /\ Len(g.file) \in Nat /\ Len(g.ungotten) \in Nat /\ g.pos <= Len(g.file) /\ g.bm <= Len(g.buf)
  BY LenIs, Fields DEF Sound
<1>2. CASE Input(g)
  <2> DEFINE tmp == g.bm - g.bs
             to == g.pos + tmp - Len(g.ungotten)
             s == IF tmp = 0 THEN g ELSE lseek(g, to).f
             p == IF g.bm = g.bs \/ to < 0 THEN g.pos ELSE to
             h == [s EXCEPT !.bs = 0, !.bm = 0, !.ungotten = <<>>]
  <2>1. o = Ret(h, 0)
    BY <1>2 DEF fflush, Input
  <2>2. g.bm <= g.bs
    BY <1>2 DEF Sound
  <2>3. p \in Nat /\ p <= Len(g.file) /\ to \in Int /\ (tmp = 0 <=> g.bm = g.bs)
    BY <1>1, <2>2
  <2>4. s \in StreamRec /\ SameBut(s, g, {"pos"}) /\ s.pos = p
    <3> HIDE DEF tmp, to
    <3>1. CASE tmp = 0
      BY <1>1, <2>3, <3>1 DEF SameBut
    <3>2. CASE tmp # 0 /\ to < 0
      BY <1>1, <2>3, <3>2 DEF SameBut, lseek, Ret
    <3>3. CASE tmp # 0 /\ ~(to < 0)
      <4>1. s = [g EXCEPT !.pos = to] /\ p = to
        BY <2>3, <3>3 DEF lseek, Ret
      <4> HIDE DEF s, p
      <4>2. QED
        BY <1>1, <2>3, <4>1 DEF StreamRec, SameBut
    <3>4. QED
      BY <3>1, <3>2, <3>3
  <2> HIDE DEF s
  <2>5. /\ h \in StreamRec /\ SameBut(h, s, {"bs", "bm", "ungotten"}) /\ h.bs = 0 /\ h.bm = 0
        /\ h.ungotten = <<>>
    BY <2>4, NoBytes DEF StreamRec, SameBut
  <2>6. o.f = h /\ o.r = 0
    BY <2>1 DEF Ret
  <2> HIDE DEF h
  <2>7. SameBut(h, g, {"pos", "bs", "bm", "ungotten"}) /\ h.pos = p
    BY <2>4, <2>5 DEF SameBut
  <2>8. Sound(h)
    BY <1>1, <2>3, <2>5, <2>7, NoBytes DEF Sound, SameBut
  <2>9. QED
    <3>1. o.f.pos = IF g.bm = g.bs \/ to < 0 THEN g.pos ELSE to
      BY <2>6, <2>7
    <3> HIDE DEF p
    <3>2. QED
      BY <1>2, <2>5, <2>6, <2>7, <2>8, <3>1 DEF Flushed, SameBut
<1>3. CASE ~Input(g)
  <2> DEFINE t == SubSeq(g.buf, 1, g.bm)
             W == IF g.bm = 0 THEN {Ret(g, 0)} ELSE write(g, t)
  <2>1. PICK w \in W : o \in (IF w.r # g.bm THEN {Ret(Set(w.f, {"ERR"}), -1)}
                              ELSE {Ret([w.f EXCEPT !.bm = 0, !.ungotten = <<>>], 0)})
    BY <1>3, Zenon DEF fflush, Input, Then
  <2>2. t \in Bytes /\ Len(t) = g.bm
    BY <1>1, PrefixIs
  <2>3. /\ Sound(w.f) /\ w.r \in Int /\ SameBut(w.f, g, {"file", "pos", "ok"})
        /\ w.r = g.bm => /\ w.f.ok = g.ok /\ w.f.pos = g.pos + g.bm
                         /\ w.f.file = IF g.bm = 0 THEN g.file ELSE Overlay(g.file, g.pos, t)
        /\ w.r # g.bm => g.bm # 0 /\ (~w.f.ok \/ w.f = g)
    <3>1. CASE g.bm = 0
      <4>1. w.f = g /\ w.r = 0
        BY <3>1 DEF Ret
      <4>2. QED
        BY <1>1, <3>1, <4>1 DEF SameBut
    <3>2. CASE g.bm # 0
      <4>1. w \in write(g, t)
        BY <3>2
      <4>2. Wrote(g, t, w)
        BY <2>2, <4>1, WriteIs
      <4> HIDE DEF W
      <4>3. /\ Sound(w.f) /\ w.r \in -1 .. g.bm /\ SameBut(w.f, g, {"file", "pos", "ok"})
            /\ w.r = -1 => w.f = g
            /\ w.r # -1 => /\ w.f.file = Overlay(g.file, g.pos, SubSeq(t, 1, w.r)) /\ w.f.pos = g.pos + w.r
                           /\ w.f.ok = (g.ok /\ w.r = g.bm)
        BY <2>2, <4>2 DEF Wrote
      <4>4. SubSeq(t, 1, g.bm) = t
        <5> HIDE DEF t
        <5>1. Len(t) = g.bm /\ t \in Seq(Byte)
          BY <2>2 DEF Bytes
        <5>2. QED
          BY <5>1
      <4> HIDE DEF t
      <4>5. w.r # -1 => w.f.ok = (g.ok /\ w.r = g.bm)
        BY <4>3
      <4>6. g.ok \in BOOLEAN /\ w.f.ok \in BOOLEAN
        BY <4>3, Fields
      <4>7. w.r = g.bm => w.f.ok = g.ok
        BY <1>1, <4>5, <4>6
      <4>8. w.r # g.bm => (~w.f.ok \/ w.f = g)
        BY <4>3, <4>5, <4>6
      <4>9. w.r = g.bm => /\ w.f.pos = g.pos + g.bm
                          /\ w.f.file = Overlay(g.file, g.pos, t)
        <5>1. g.bm # -1
          BY <1>1
        <5>2. QED
          BY <4>3, <4>4, <5>1, Zenon
      <4>10. w.r \in Int
        BY <1>1, <4>3
      <4>11. QED
        BY <3>2, <4>3, <4>7, <4>8, <4>9, <4>10
    <3>3. QED
      BY <3>1, <3>2
  <2> HIDE DEF W
  <2>4. CASE w.r # g.bm
    <3> DEFINE h == Set(w.f, {"ERR"})
    <3>1. o.f = h /\ o.r = -1
      BY <2>1, <2>4 DEF Ret
    <3>2. Sound(h) /\ h.flags = w.f.flags \cup {"ERR"} /\ SameBut(h, w.f, {"flags"})
      BY <2>3, SetIs
    <3> HIDE DEF h
    <3>3. SameBut(h, g, {"file", "pos", "ok", "flags"}) /\ h.flags = g.flags \cup {"ERR"}
      BY <2>3, <3>2 DEF SameBut
    <3>4. ~h.ok \/ SameBut(h, g, {"flags"})
      BY <2>3, <2>4, <3>2 DEF SameBut
    <3>5. QED
      BY <1>3, <2>3, <2>4, <3>1, <3>2, <3>3, <3>4 DEF Flushed, SameBut
  <2>5. CASE w.r = g.bm
    <3> DEFINE h == [w.f EXCEPT !.bm = 0, !.ungotten = <<>>]
    <3>1. o.f = h /\ o.r = 0
      BY <2>1, <2>5 DEF Ret
    <3>2. w.f \in StreamRec
      BY <2>3 DEF Sound
    <3>3. h \in StreamRec /\ SameBut(h, w.f, {"bm", "ungotten"}) /\ h.bm = 0 /\ h.ungotten = <<>>
      BY <3>2, NoBytes DEF StreamRec, SameBut
    <3> HIDE DEF h
    <3>4. SameBut(h, g, {"file", "pos", "bm", "ungotten", "ok"}) /\ h.ok = g.ok
      BY <2>3, <2>5, <3>3 DEF SameBut
    <3>5. Sound(h)
      BY <1>1, <1>3, <2>3, <3>3, <3>4, NoBytes DEF Sound, SameBut, Input
    <3>6. h.pos = g.pos + g.bm /\ h.file = IF g.bm = 0 THEN g.file ELSE Overlay(g.file, g.pos, t)
      BY <2>3, <2>5, <3>3 DEF SameBut
    <3>7. QED
      BY <1>3, <2>3, <3>1, <3>3, <3>4, <3>5, <3>6 DEF Flushed, SameBut
  <2>6. QED
    BY <2>4, <2>5
<1>4. QED
  BY <1>2, <1>3

-----------------------------------------------------------------------------
(* What the program sees of a stream without accident.                     *)

(* What the file holds and where the user stands in it, seen through the   *)
(* buffer: Content and Pos of Stdio for any stream.                        *)
ContentOf(g) == IF Input(g) THEN g.file ELSE Overlay(g.file, g.pos, SubSeq(g.buf, 1, g.bm))
PosOf(g) == IF Input(g) THEN g.pos - (g.bs - g.bm) ELSE g.pos + g.bm

(* The buffer of an input stream is what the file has before the position. *)
Fit(g) ==
  /\ Sound(g) /\ g.ok
  /\ ~Input(g) => g.bs = 0 /\ g.ungotten = <<>> /\ ("NOBUF" \in g.flags => g.bm = 0)
  /\ Input(g) => /\ g.bs <= g.pos /\ \A j \in 1 .. g.bs : g.buf[j] = g.file[g.pos - g.bs + j]
                 /\ g.ungotten # <<>> => PosOf(g) > 0
  /\ "EOF" \in g.flags => g.pos = Len(g.file) /\ (Input(g) => g.bm = g.bs /\ g.ungotten = <<>>)

(* The bytes an output buffer holds. *)
LEMMA HeldIs ==
  ASSUME NEW g, Sound(g)
  PROVE  SubSeq(g.buf, 1, g.bm) \in Bytes /\ Len(SubSeq(g.buf, 1, g.bm)) = g.bm
<1>1. g.buf \in Bytes /\ g.bm \in Nat /\ g.bm <= Len(g.buf)
  BY Fields DEF Sound
<1>2. QED
  BY <1>1, PrefixIs

(* The view is in order: the user stands inside the content. *)
LEMMA ViewIs ==
  ASSUME NEW g, Fit(g)
  PROVE  /\ ContentOf(g) \in Bytes /\ PosOf(g) \in Nat /\ Len(ContentOf(g)) \in Nat /\ PosOf(g) <= Len(ContentOf(g))
         /\ Len(g.ungotten) \in 0 .. 1 /\ Len(g.ungotten) <= PosOf(g) /\ g.ungotten \in Bytes
<1>1. /\ Sound(g) /\ g.file \in Bytes /\ g.pos \in Nat /\ g.bm \in Nat /\ g.bs \in Nat /\ g.ungotten \in Bytes
      /\ g.pos <= Len(g.file) /\ Len(g.file) \in Nat /\ Len(g.ungotten) \in Nat /\ Len(g.ungotten) <= 1
      /\ (Len(g.ungotten) = 0 <=> g.ungotten = <<>>)
  BY Fields, LenIs DEF Fit, Sound
<1>2. CASE Input(g)
  <2>1. g.bs <= g.pos /\ g.bm <= g.bs /\ (g.ungotten # <<>> => PosOf(g) > 0)
    BY <1>2 DEF Fit, Sound
  <2>2. ContentOf(g) = g.file /\ PosOf(g) = g.pos - (g.bs - g.bm)
    BY <1>2 DEF ContentOf, PosOf
  <2>3. PosOf(g) \in Nat /\ PosOf(g) <= Len(g.file)
    BY <1>1, <2>1, <2>2
  <2>4. Len(g.ungotten) \in 0 .. 1 /\ Len(g.ungotten) <= PosOf(g)
    <3>1. CASE g.ungotten = <<>>
      BY <1>1, <2>3, <3>1
    <3>2. CASE g.ungotten # <<>>
      <4>1. PosOf(g) > 0 /\ Len(g.ungotten) # 0
        BY <1>1, <2>1, <3>2
      <4>2. Len(g.ungotten) \in Nat /\ Len(g.ungotten) <= 1 /\ PosOf(g) \in Nat
        BY <1>1, <2>3
      <4>3. \A n, p \in Nat : n <= 1 /\ p > 0 => n \in 0 .. 1 /\ n <= p
        OBVIOUS
      <4>4. QED
        BY <4>1, <4>2, <4>3, Zenon
    <3>3. QED
      BY <3>1, <3>2
  <2>5. QED
    BY <1>1, <2>2, <2>3, <2>4
<1>3. CASE ~Input(g)
  <2> DEFINE t == SubSeq(g.buf, 1, g.bm)
  <2>1. t \in Bytes /\ Len(t) = g.bm
    BY <1>1, HeldIs
  <2> HIDE DEF t
  <2>2. ContentOf(g) = Overlay(g.file, g.pos, t) /\ PosOf(g) = g.pos + g.bm
    BY <1>3 DEF ContentOf, PosOf, t
  <2>3. ContentOf(g) \in Bytes /\ Len(ContentOf(g)) = IF g.pos + g.bm > Len(g.file) THEN g.pos + g.bm ELSE Len(g.file)
    BY <1>1, <2>1, <2>2, OverlayIs
  <2>4. g.ungotten = <<>>
    BY <1>3 DEF Fit
  <2>5. QED
    BY <1>1, <2>2, <2>3, <2>4
<1>4. QED
  BY <1>2, <1>3

(* Nothing the user can see has changed. *)
SameView(h, g) ==
  /\ Fit(h) /\ ContentOf(h) = ContentOf(g) /\ PosOf(h) = PosOf(g) /\ h.ungotten = g.ungotten
  /\ h.open = g.open

(* Flags do not show. *)
LEMMA SameViewIs ==
  ASSUME NEW g, Fit(g), NEW h, Sound(h), SameBut(h, g, {"flags"}), Input(h) <=> Input(g),
         "EOF" \in h.flags => "EOF" \in g.flags, "NOBUF" \in h.flags => "NOBUF" \in g.flags
  PROVE  SameView(h, g)
<1>1. /\ h.file = g.file /\ h.pos = g.pos /\ h.bm = g.bm /\ h.bs = g.bs /\ h.buf = g.buf
      /\ h.ungotten = g.ungotten /\ h.ok = g.ok /\ h.open = g.open
  BY DEF SameBut
<1>2. ContentOf(h) = ContentOf(g) /\ PosOf(h) = PosOf(g)
  BY <1>1 DEF ContentOf, PosOf
<1>3. Fit(h)
  BY <1>1, <1>2 DEF Fit
<1>4. QED
  BY <1>1, <1>2, <1>3 DEF SameView

(* An empty output buffer adds nothing to the file. *)
LEMMA EmptyHeld ==
  ASSUME NEW g, Sound(g), g.bm = 0
  PROVE  SubSeq(g.buf, 1, g.bm) = <<>> /\ Overlay(g.file, g.pos, SubSeq(g.buf, 1, g.bm)) = g.file
<1>1. SubSeq(g.buf, 1, g.bm) = <<>>
  BY HeldIs, LenIs
<1>2. g.file \in Bytes /\ g.pos \in Nat /\ g.pos <= Len(g.file)
  BY Fields DEF Sound
<1>3. Overlay(g.file, g.pos, <<>>) = g.file
  BY <1>2, OverlayNone
<1>4. QED
  BY <1>1, <1>3

(* With an empty buffer the position is the kernel's. *)
LEMMA EmptyView ==
  ASSUME NEW g, Sound(g), g.bm = 0, g.bs = 0
  PROVE  ContentOf(g) = g.file /\ PosOf(g) = g.pos
BY EmptyHeld, Fields DEF ContentOf, PosOf

(* The buffer is emptied: the content remains, and so does the position,   *)
(* but for a byte that was pushed back.                                    *)
Emptied(h, g) ==
  /\ Sound(h) /\ h.ok /\ h.bm = 0 /\ h.bs = 0 /\ h.ungotten = <<>>
  /\ h.file = ContentOf(g) /\ h.pos \in {PosOf(g), PosOf(g) - Len(g.ungotten)}
  /\ h.flags \ {"BUFINPUT"} = g.flags \ {"BUFINPUT"}
  /\ "EOF" \in g.flags => h.pos = Len(h.file)
  /\ h.open = g.open

(* The buffer has been emptied and the content kept. *)
EmptiedFit(h, g) ==
  /\ Fit(h) /\ ContentOf(h) = ContentOf(g) /\ PosOf(h) = h.pos
  /\ h.pos \in {PosOf(g), PosOf(g) - Len(g.ungotten)} /\ h.ungotten = <<>> /\ h.bm = 0 /\ h.bs = 0
  /\ h.open = g.open

(* What Emptied says of the view. *)
LEMMA EmptiedIs ==
  ASSUME NEW g, NEW h, Emptied(h, g)
  PROVE  EmptiedFit(h, g)
<1>1. ContentOf(h) = h.file /\ PosOf(h) = h.pos
  BY EmptyView DEF Emptied
<1>2. Fit(h)
  <2>1. h.pos \in Nat
    BY Fields DEF Emptied
  <2>2. "EOF" \in h.flags => "EOF" \in g.flags
    BY DEF Emptied
  <2>3. QED
    BY <2>1, <2>2 DEF Emptied, Fit
<1>3. QED
  BY <1>1, <1>2 DEF Emptied, EmptiedFit

(* A flush empties the buffer, or sets ERR and changes nothing the user    *)
(* sees.                                                                   *)
LEMMA FlushView ==
  ASSUME NEW g, Fit(g), NEW o, Flushed(g, o)
  PROVE  /\ o.r = 0 => Emptied(o.f, g)
         /\ o.r # 0 /\ o.f.ok => SameView(o.f, g) /\ "ERR" \in o.f.flags
<1>0. /\ Sound(g) /\ g.ok /\ g.file \in Bytes /\ g.pos \in Nat /\ g.bm \in Nat /\ g.bs \in Nat
      /\ Len(g.file) \in Nat /\ g.pos <= Len(g.file)
  BY Fields, LenIs DEF Fit, Sound
<1>1. ASSUME o.r = 0 PROVE Emptied(o.f, g)
  <2>0. /\ Sound(o.f) /\ o.f.flags = g.flags /\ o.f.bm = 0 /\ o.f.ungotten = <<>> /\ o.f.ok
        /\ o.f.open = g.open
    BY <1>0, <1>1 DEF Flushed, SameBut
  <2>1. CASE Input(g)
    <3>1. /\ o.f.file = g.file /\ o.f.bs = 0
          /\ o.f.pos = IF g.bm = g.bs \/ g.pos + (g.bm - g.bs) - Len(g.ungotten) < 0 THEN g.pos
                       ELSE g.pos + (g.bm - g.bs) - Len(g.ungotten)
      BY <2>1 DEF Flushed
    <3>2. ContentOf(g) = g.file /\ PosOf(g) = g.pos - (g.bs - g.bm)
      BY <2>1 DEF ContentOf, PosOf
    <3>3. Len(g.ungotten) \in 0 .. 1 /\ Len(g.ungotten) <= PosOf(g)
      BY ViewIs
    <3>4. o.f.pos \in {PosOf(g), PosOf(g) - Len(g.ungotten)} /\ (g.bm = g.bs => o.f.pos = g.pos)
      BY <1>0, <3>1, <3>2, <3>3
    <3>5. "EOF" \in g.flags => o.f.pos = Len(g.file)
      BY <2>1, <3>4 DEF Fit
    <3>6. QED
      BY <2>0, <3>1, <3>2, <3>4, <3>5 DEF Emptied
  <2>2. CASE ~Input(g)
    <3> DEFINE t == SubSeq(g.buf, 1, g.bm)
    <3>1. /\ o.f.bs = g.bs /\ o.f.pos = g.pos + g.bm /\ g.bs = 0 /\ g.ungotten = <<>>
          /\ o.f.file = IF g.bm = 0 THEN g.file ELSE Overlay(g.file, g.pos, t)
      BY <1>1, <2>2 DEF Flushed, Fit
    <3>2. ContentOf(g) = Overlay(g.file, g.pos, t) /\ PosOf(g) = g.pos + g.bm
      BY <2>2 DEF ContentOf, PosOf
    <3>3. g.bm = 0 => Overlay(g.file, g.pos, t) = g.file
      BY <1>0, EmptyHeld
    <3>4. o.f.file = ContentOf(g)
      BY <3>1, <3>2, <3>3
    <3>5. ASSUME "EOF" \in g.flags PROVE o.f.pos = Len(o.f.file)
      <4>1. g.pos = Len(g.file)
        BY <3>5 DEF Fit
      <4>2. t \in Bytes /\ Len(t) = g.bm
        BY <1>0, HeldIs
      <4> HIDE DEF t
      <4>3. Len(Overlay(g.file, g.pos, t)) = g.pos + g.bm
        BY <1>0, <4>1, <4>2, OverlayIs
      <4>4. QED
        BY <3>1, <3>2, <3>4, <4>3
    <3>6. QED
      BY <2>0, <3>1, <3>2, <3>4, <3>5 DEF Emptied
  <2>3. QED
    BY <2>1, <2>2
<1>2. ASSUME o.r # 0, o.f.ok PROVE SameView(o.f, g) /\ "ERR" \in o.f.flags
  <2>1. Sound(o.f) /\ SameBut(o.f, g, {"flags"}) /\ o.f.flags = g.flags \cup {"ERR"}
    BY <1>2 DEF Flushed
  <2>2. QED
    BY <2>1, SameViewIs DEF Input
<1>3. QED
  BY <1>1, <1>2

(* __fflush4, towards input or output. *)
Turned(g, next, o) ==
  /\ Sound(o.f) /\ o.r \in {0, -1}
  /\ SameBut(o.f, g, {"file", "pos", "flags", "bm", "bs", "ungotten", "ok"})
  /\ o.r # 0 => ~o.f.ok
  /\ o.r = 0 => /\ Input(o.f) <=> next = {"BUFINPUT"}
                /\ o.f.ok = g.ok /\ o.f.flags \ {"BUFINPUT"} = g.flags \ {"BUFINPUT"}
                /\ g.ungotten = <<>> => o.f.ungotten = <<>>
  /\ o.r = 0 /\ Fit(g) => SameView(o.f, g) \/ EmptiedFit(o.f, g)

(* fflush before a change of direction. *)
LEMMA TurnIs ==
  ASSUME NEW g, Sound(g), g.ok, NEW next \in {{}, {"BUFINPUT"}}, NEW o \in fflush4(g, next)
  PROVE  Turned(g, next, o)
<1>1. CASE g.flags \cap {"BUFINPUT"} = next
  <2>1. o = Ret(g, 0)
    BY <1>1 DEF fflush4
  <2>2. o.f = g /\ o.r = 0
    BY <2>1 DEF Ret
  <2>3. Input(g) <=> next = {"BUFINPUT"}
    BY <1>1 DEF Input
  <2>4. SameBut(g, g, {"file", "pos", "flags", "bm", "bs", "ungotten", "ok"})
    BY DEF SameBut
  <2>5. Fit(g) => SameView(g, g)
    BY DEF SameView
  <2>6. QED
    BY <2>2, <2>3, <2>4, <2>5 DEF Turned
<1>2. CASE g.flags \cap {"BUFINPUT"} # next
  <2>1. PICK w \in fflush(g) :
          o = Ret([w.f EXCEPT !.flags = (@ \ {"BUFINPUT"}) \cup next, !.ok = @ /\ w.r = 0], w.r)
    BY <1>2, Zenon DEF fflush4
  <2>2. Flushed(g, w)
    BY FlushIs
  <2> DEFINE F == (w.f.flags \ {"BUFINPUT"}) \cup next
             k == w.f.ok /\ w.r = 0
             h == [w.f EXCEPT !.flags = F, !.ok = k]
  <2>3. w.f \in StreamRec /\ Sound(w.f) /\ w.f.flags \subseteq Flags /\ w.r \in {0, -1}
    BY <2>2, Fields DEF Flushed
  <2>4. F \in SUBSET Flags /\ k \in BOOLEAN
    <3>1. next \subseteq Flags
      BY DEF Flags
    <3>2. QED
      BY <2>3, <3>1, Zenon
  <2>5. o.f = h /\ o.r = w.r
    BY <2>1 DEF Ret
  <2>6. "BUFINPUT" \in F <=> next = {"BUFINPUT"}
    BY Zenon
  <2> HIDE DEF F, k
  <2>7. h \in StreamRec /\ SameBut(h, w.f, {"flags", "ok"}) /\ h.flags = F /\ h.ok = k
    BY <2>3, <2>4 DEF StreamRec, SameBut
  <2> HIDE DEF h
  <2>8. SameBut(h, g, {"file", "pos", "flags", "bm", "bs", "ungotten", "ok"})
    BY <2>2, <2>7 DEF Flushed, SameBut
  <2>9. k => w.r = 0 /\ w.f.ok
    BY DEF k
  <2>10. w.r = 0 => w.f.bm = 0 /\ w.f.flags = g.flags /\ w.f.ok = g.ok /\ w.f.ungotten = <<>>
    BY <2>2 DEF Flushed
  <2>11. Sound(h)
    <3>1. h.ok => h.bm = 0
      BY <2>7, <2>9, <2>10 DEF SameBut
    <3>2. h.bs \in Nat
      BY <2>7 DEF StreamRec
    <3>3. QED
      BY <2>3, <2>7, <3>1, <3>2 DEF Sound, SameBut
  <2>12. w.r = 0 => h.ok = g.ok /\ F \ {"BUFINPUT"} = g.flags \ {"BUFINPUT"}
    <3>1. ASSUME w.r = 0 PROVE F \ {"BUFINPUT"} = g.flags \ {"BUFINPUT"}
      BY <2>10, <3>1 DEF F
    <3>2. ASSUME w.r = 0 PROVE k
      BY <2>10, <3>2 DEF k
    <3>3. QED
      BY <2>4, <2>7, <3>1, <3>2
  <2>13. ASSUME w.r = 0, Fit(g) PROVE EmptiedFit(h, g)
    <3>1. Emptied(w.f, g)
      BY <2>2, <2>13, FlushView
    <3>2. Emptied(h, g)
      BY <2>7, <2>11, <2>12, <2>13, <3>1 DEF Emptied, SameBut
    <3>3. QED
      BY <3>2, EmptiedIs
  <2>14. w.r # 0 => ~h.ok
    BY <2>7, <2>9
  <2>15. Input(h) <=> next = {"BUFINPUT"}
    BY <2>6, <2>7 DEF Input
  <2>16. w.r = 0 => h.ungotten = <<>>
    BY <2>7, <2>10 DEF SameBut
  <2>17. QED
    BY <2>3, <2>5, <2>7, <2>8, <2>11, <2>12, <2>13, <2>14, <2>15, <2>16 DEF Turned
<1>3. QED
  BY <1>1, <1>2

-----------------------------------------------------------------------------
(* Writing.                                                                *)

(* The error exit of fputc. *)
LEMMA KaputtIs ==
  ASSUME NEW g, Sound(g)
  PROVE  /\ Kaputt(g).f = Set(g, {"ERR"}) /\ Kaputt(g).r = EOF /\ Sound(Kaputt(g).f)
         /\ "ERR" \in Kaputt(g).f.flags /\ Kaputt(g).f.ok = g.ok
         /\ Fit(g) => SameView(Kaputt(g).f, g) /\ (Input(Kaputt(g).f) <=> Input(g))
<1>1. Kaputt(g).f = Set(g, {"ERR"}) /\ Kaputt(g).r = EOF
  BY DEF Kaputt, Ret
<1> DEFINE h == Set(g, {"ERR"})
<1>2. Sound(h) /\ h.flags = g.flags \cup {"ERR"} /\ SameBut(h, g, {"flags"})
  BY SetIs
<1> HIDE DEF h
<1>3. (Input(h) <=> Input(g)) /\ ("EOF" \in h.flags => "EOF" \in g.flags) /\ "ERR" \in h.flags
      /\ ("NOBUF" \in h.flags => "NOBUF" \in g.flags)
  BY <1>2 DEF Input
<1>4. Fit(g) => SameView(h, g)
  BY <1>2, <1>3, SameViewIs
<1>5. h.ok = g.ok
  BY <1>2 DEF SameBut
<1>6. QED
  BY <1>1, <1>2, <1>3, <1>4, <1>5 DEF h

(* The bytes u were written at the position of g. *)
Added(g, u, h) ==
  /\ Fit(h) /\ ~Input(h) /\ h.open = g.open
  /\ ContentOf(h) = Overlay(ContentOf(g), PosOf(g), u) /\ PosOf(h) = PosOf(g) + Len(u)

(* Nothing has been written when the view is the same. *)
LEMMA AddedNone ==
  ASSUME NEW g, Fit(g), NEW h, Fit(h), ~Input(h), h.open = g.open,
         ContentOf(h) = ContentOf(g), PosOf(h) = PosOf(g)
  PROVE  Added(g, <<>>, h)
<1>1. /\ ContentOf(g) \in Bytes /\ PosOf(g) \in Nat /\ PosOf(g) <= Len(ContentOf(g))
  BY ViewIs
<1>2. Overlay(ContentOf(g), PosOf(g), <<>>) = ContentOf(g) /\ PosOf(g) + 0 = PosOf(g)
  BY <1>1, OverlayNone
<1>3. QED
  BY <1>2, NoBytes DEF Added

(* The same, from SameView. *)
LEMMA AddedSame ==
  ASSUME NEW g, Fit(g), NEW h, SameView(h, g), ~Input(h)
  PROVE  Added(g, <<>>, h)
<1>1. Fit(h) /\ ContentOf(h) = ContentOf(g) /\ PosOf(h) = PosOf(g) /\ h.open = g.open
  BY DEF SameView
<1>2. QED
  BY <1>1, AddedNone

(* Two writes are one of the joined bytes. *)
LEMMA AddedJoin ==
  ASSUME NEW g, Fit(g), NEW u \in Bytes, NEW v \in Bytes, NEW h, NEW k, Added(g, u, h), Added(h, v, k)
  PROVE  Added(g, u \o v, k)
<1> DEFINE a == ContentOf(g)
           p == PosOf(g)
<1>1. a \in Bytes /\ p \in Nat /\ p <= Len(a)
  BY ViewIs
<1>2. ContentOf(h) = Overlay(a, p, u) /\ PosOf(h) = p + Len(u)
  BY DEF Added
<1>3. ContentOf(k) = Overlay(ContentOf(h), PosOf(h), v) /\ PosOf(k) = PosOf(h) + Len(v)
  BY DEF Added
<1>4. Fit(k) /\ ~Input(k) /\ k.open = g.open
  BY DEF Added
<1>5. Len(u \o v) = Len(u) + Len(v) /\ Len(u) \in Nat /\ Len(v) \in Nat
  BY JoinIs, LenIs
<1> HIDE DEF a, p
<1>6. ContentOf(k) = Overlay(a, p, u \o v)
  <2>1. Overlay(Overlay(a, p, u), p + Len(u), v) = Overlay(a, p, u \o v)
    BY <1>1, OverlayJoin
  <2>2. QED
    BY <1>2, <1>3, <2>1, Zenon
<1>7. PosOf(k) = p + Len(u \o v)
  BY <1>1, <1>2, <1>3, <1>5
<1>8. QED
  BY <1>4, <1>6, <1>7 DEF Added, a, p

(* Bytes laid behind those in the buffer. *)
LEMMA FillIs ==
  ASSUME NEW g, Sound(g), ~Input(g), NEW t \in Bytes, g.bm + Len(t) <= g.buflen,
         NEW h, h = [g EXCEPT !.buf = Overlay(g.buf, g.bm, t), !.bm = g.bm + Len(t)]
  PROVE  /\ Sound(h) /\ SameBut(h, g, {"buf", "bm"}) /\ h.bm = g.bm + Len(t)
         /\ Fit(g) /\ "NOBUF" \notin g.flags => Added(g, t, h)
<1> DEFINE b == Overlay(g.buf, g.bm, t)
           d == SubSeq(g.buf, 1, g.bm)
<1>1. /\ g \in StreamRec /\ g.file \in Bytes /\ g.pos \in Nat /\ g.bm \in Nat /\ g.bs \in Nat /\ g.buf \in Bytes
      /\ g.buflen \in Nat /\ Len(g.buf) = g.buflen /\ g.pos <= Len(g.file) /\ Len(t) \in Nat
  BY Fields, LenIs DEF Sound
<1>2. b \in Bytes /\ Len(b) = g.buflen /\ SubSeq(b, 1, g.bm + Len(t)) = d \o t
  <2>1. g.bm + Len(t) <= Len(g.buf)
    BY <1>1
  <2>2. QED
    BY <1>1, <2>1, LaidIs
<1>3. d \in Bytes /\ Len(d) = g.bm
  BY HeldIs
<1> HIDE DEF d
<1>4. /\ h \in StreamRec /\ SameBut(h, g, {"buf", "bm"}) /\ h.bm = g.bm + Len(t) /\ h.buf = b
  <2>1. h = [g EXCEPT !.buf = b, !.bm = g.bm + Len(t)] /\ g.bm + Len(t) \in Nat
    BY <1>1
  <2> HIDE DEF b
  <2>2. QED
    BY <1>1, <1>2, <2>1 DEF StreamRec, SameBut
<1> HIDE DEF b
<1>5. Sound(h) /\ ~Input(h)
  BY <1>1, <1>2, <1>4 DEF Sound, SameBut, Input
<1>6. ASSUME Fit(g), "NOBUF" \notin g.flags PROVE Added(g, t, h)
  <2>1. ContentOf(g) = Overlay(g.file, g.pos, d) /\ PosOf(g) = g.pos + g.bm
    BY DEF ContentOf, PosOf, d
  <2>2. ContentOf(h) = Overlay(g.file, g.pos, d \o t) /\ PosOf(h) = g.pos + (g.bm + Len(t))
    BY <1>2, <1>4, <1>5 DEF ContentOf, PosOf, SameBut
  <2>3. Overlay(Overlay(g.file, g.pos, d), g.pos + g.bm, t) = Overlay(g.file, g.pos, d \o t)
    BY <1>1, <1>3, OverlayJoin
  <2>4. PosOf(h) = PosOf(g) + Len(t)
    BY <1>1, <2>1, <2>2
  <2>5. Fit(h)
    BY <1>4, <1>5, <1>6 DEF Fit, SameBut, Input
  <2>6. h.open = g.open
    BY <1>4 DEF SameBut
  <2>7. ContentOf(h) = Overlay(ContentOf(g), PosOf(g), t)
    BY <2>1, <2>2, <2>3, Zenon
  <2>8. QED
    BY <1>5, <2>4, <2>5, <2>6, <2>7 DEF Added
<1>7. QED
  BY <1>4, <1>5, <1>6

(* A byte put in the buffer is written, for the user. *)
LEMMA StoreIs ==
  ASSUME NEW g, Sound(g), ~Input(g), g.bm < g.buflen, NEW c \in Byte
  PROVE  /\ Sound(Store(g, c)) /\ SameBut(Store(g, c), g, {"buf", "bm"}) /\ Store(g, c).bm = g.bm + 1
         /\ Fit(g) /\ "NOBUF" \notin g.flags => Added(g, <<c>>, Store(g, c))
<1>1. g.bm \in Nat /\ g.buf \in Bytes /\ g.buflen \in Nat /\ Len(g.buf) = g.buflen
  BY Fields DEF Sound
<1>2. <<c>> \in Bytes /\ Len(<<c>>) = 1
  BY OneByte
<1>3. [g.buf EXCEPT ![g.bm + 1] = c] = Overlay(g.buf, g.bm, <<c>>)
  BY <1>1, StoredIs
<1>4. Store(g, c) = [g EXCEPT !.buf = [g.buf EXCEPT ![g.bm + 1] = c], !.bm = g.bm + 1]
  BY DEF Store
<1>5. Store(g, c) = [g EXCEPT !.buf = Overlay(g.buf, g.bm, <<c>>), !.bm = g.bm + Len(<<c>>)]
  BY <1>2, <1>3, <1>4, Zenon
<1>6. g.bm + Len(<<c>>) <= g.buflen
  BY <1>1, <1>2
<1> DEFINE h == Store(g, c)
           t == <<c>>
<1>7. h = [g EXCEPT !.buf = Overlay(g.buf, g.bm, t), !.bm = g.bm + Len(t)] /\ t \in Bytes
  BY <1>2, <1>5
<1>8. g.bm + Len(t) <= g.buflen
  BY <1>6
<1> HIDE DEF h, t
<1>9. /\ Sound(h) /\ SameBut(h, g, {"buf", "bm"}) /\ h.bm = g.bm + Len(t)
      /\ Fit(g) /\ "NOBUF" \notin g.flags => Added(g, t, h)
  BY <1>7, <1>8, FillIs
<1>10. QED
  BY <1>2, <1>9 DEF h, t

(* A write past an empty buffer. *)
LEMMA DirectIs ==
  ASSUME NEW g, Fit(g), ~Input(g), g.bm = 0, NEW s \in Bytes, NEW w, Wrote(g, s, w), w.r # -1, w.f.ok
  PROVE  Added(g, s, w.f)
<1>1. /\ Sound(g) /\ g.file \in Bytes /\ g.pos \in Nat /\ g.pos <= Len(g.file) /\ Len(s) \in Nat /\ g.bs = 0
      /\ g.ok \in BOOLEAN /\ Len(g.file) \in Nat
  BY Fields, LenIs DEF Fit, Sound
<1>2. w.r = Len(s) /\ Sound(w.f) /\ SameBut(w.f, g, {"file", "pos", "ok"}) /\ w.f.pos = g.pos + w.r
  BY <1>1 DEF Wrote
<1>3. SubSeq(s, 1, Len(s)) = s
  BY DEF Bytes
<1>4. w.f.file = Overlay(g.file, g.pos, s) /\ w.f.pos = g.pos + Len(s)
  BY <1>2, <1>3 DEF Wrote
<1>5. ContentOf(g) = g.file /\ PosOf(g) = g.pos
  BY <1>1, EmptyView
<1>6. w.f.bm = 0 /\ w.f.bs = 0 /\ ~Input(w.f) /\ w.f.ungotten = <<>> /\ w.f.open = g.open
      /\ w.f.flags = g.flags
  BY <1>1, <1>2 DEF SameBut, Input, Fit
<1>7. ContentOf(w.f) = w.f.file /\ PosOf(w.f) = w.f.pos
  BY <1>2, <1>6, EmptyView
<1>8. "EOF" \in g.flags => w.f.pos = Len(w.f.file)
  <2>1. ASSUME "EOF" \in g.flags PROVE w.f.pos = Len(w.f.file)
    <3>1. g.pos = Len(g.file)
      BY <2>1 DEF Fit
    <3>2. Len(Overlay(g.file, g.pos, s)) = IF g.pos + Len(s) > Len(g.file) THEN g.pos + Len(s) ELSE Len(g.file)
      BY <1>1, OverlayIs
    <3>3. QED
      BY <1>1, <1>4, <3>1, <3>2
  <2>2. QED
    BY <2>1
<1>9. Fit(w.f)
  BY <1>2, <1>6, <1>8 DEF Fit
<1>10. QED
  BY <1>4, <1>5, <1>6, <1>7, <1>9 DEF Added

(* fputc, once the stream is an output stream. *)
PutOne(g, c, o) ==
  /\ Sound(o.f) /\ o.r \in {c, EOF} /\ (o.r # EOF => o.f.ok /\ ~Input(o.f))
  /\ Fit(g) /\ o.f.ok =>
       /\ o.r # EOF => Added(g, <<c>>, o.f)
       /\ o.r = EOF => "ERR" \in o.f.flags /\ (Added(g, <<>>, o.f) \/ Added(g, <<c>>, o.f))

(* fflush of an output stream. *)
LEMMA Emptying ==
  ASSUME NEW g, Sound(g), ~Input(g), g.ok, NEW b \in fflush(g)
  PROVE  /\ Sound(b.f) /\ ~Input(b.f) /\ b.r \in {0, -1} /\ b.f.buflen = g.buflen
         /\ b.r = 0 => b.f.bm = 0 /\ b.f.ok /\ b.f.flags = g.flags
         /\ b.r = 0 /\ Fit(g) => Added(g, <<>>, b.f)
         /\ b.r # 0 => "ERR" \in b.f.flags
         /\ b.r # 0 /\ b.f.ok /\ Fit(g) => SameView(b.f, g) /\ Added(g, <<>>, b.f)
<1>1. Flushed(g, b)
  BY FlushIs
<1>2. /\ Sound(b.f) /\ b.r \in {0, -1} /\ b.f.buflen = g.buflen
      /\ b.r = 0 => b.f.bm = 0 /\ b.f.ok /\ b.f.flags = g.flags
      /\ b.r # 0 => b.f.flags = g.flags \cup {"ERR"}
  BY <1>1 DEF Flushed, SameBut
<1>3. ~Input(b.f)
  BY <1>2 DEF Input
<1>4. ASSUME b.r = 0, Fit(g) PROVE Added(g, <<>>, b.f)
  <2>1. EmptiedFit(b.f, g)
    BY <1>1, <1>4, FlushView, EmptiedIs
  <2>2. g.ungotten = <<>>
    BY <1>4 DEF Fit
  <2>3. PosOf(g) - Len(g.ungotten) = PosOf(g)
    BY <1>4, <2>2, ViewIs, NoBytes
  <2>4. Fit(b.f) /\ ContentOf(b.f) = ContentOf(g) /\ PosOf(b.f) = PosOf(g) /\ b.f.open = g.open
    BY <2>1, <2>3 DEF EmptiedFit
  <2>5. QED
    BY <1>3, <1>4, <2>4, AddedNone
<1>5. ASSUME b.r # 0, b.f.ok, Fit(g) PROVE SameView(b.f, g) /\ Added(g, <<>>, b.f)
  <2>1. SameView(b.f, g)
    BY <1>1, <1>5, FlushView
  <2>2. QED
    BY <1>3, <1>5, <2>1, AddedSame
<1>6. QED
  BY <1>2, <1>3, <1>4, <1>5

(* A written stream is in order. *)
LEMMA FitOfAdded ==
  ASSUME NEW g, NEW u, NEW h, Added(g, u, h)
  PROVE  Fit(h)
BY DEF Added

(* A write of nothing first. *)
LEMMA NoneJoin ==
  ASSUME NEW g, Fit(g), NEW u \in Bytes, NEW h, NEW k, Added(g, <<>>, h), Added(h, u, k)
  PROVE  Added(g, u, k)
<1>1. <<>> \o u = u /\ <<>> \in Bytes
  BY NoBytes DEF Bytes
<1>2. Added(g, <<>> \o u, k)
  BY <1>1, AddedJoin
<1>3. QED
  BY <1>1, <1>2, Zenon

(* A write of nothing after. *)
LEMMA JoinNone ==
  ASSUME NEW g, Fit(g), NEW u \in Bytes, NEW h, NEW k, Added(g, u, h), Added(h, <<>>, k)
  PROVE  Added(g, u, k)
<1>1. u \o <<>> = u /\ <<>> \in Bytes
  BY NoBytes DEF Bytes
<1>2. Added(g, u \o <<>>, k)
  BY <1>1, AddedJoin
<1>3. QED
  BY <1>1, <1>2, Zenon

(* The error exit after a failed flush or write. *)
LEMMA Refused ==
  ASSUME NEW g, NEW b, Sound(b), ~Input(b), Fit(g) /\ b.ok => Added(g, <<>>, b)
  PROVE  LET k == Kaputt(b) IN
         /\ Sound(k.f) /\ k.r = EOF /\ "ERR" \in k.f.flags /\ k.f.ok = b.ok
         /\ Fit(g) /\ k.f.ok => Added(g, <<>>, k.f)
<1> DEFINE k == Kaputt(b)
<1>1. /\ k.r = EOF /\ Sound(k.f) /\ "ERR" \in k.f.flags /\ k.f.ok = b.ok
      /\ Fit(b) => SameView(k.f, b) /\ (Input(k.f) <=> Input(b))
  BY KaputtIs
<1> HIDE DEF k
<1>2. ASSUME Fit(g), k.f.ok PROVE Added(g, <<>>, k.f)
  <2>1. Added(g, <<>>, b)
    BY <1>1, <1>2
  <2>2. Fit(b)
    BY <2>1, FitOfAdded
  <2>3. Added(b, <<>>, k.f)
    BY <1>1, <2>2, AddedSame
  <2>4. QED
    BY <1>2, <2>1, <2>3, NoneJoin, NoBytes
<1>3. QED
  BY <1>1, <1>2 DEF k

(* fputc once the direction has been set. *)
PutStep(a, c) ==
  Then(IF a.f.bm >= a.f.buflen - 1 THEN fflush(a.f) ELSE {a}, LAMBDA b :
            IF b.r # 0 THEN {Kaputt(b.f)}
            ELSE IF "NOBUF" \in b.f.flags
            THEN {IF w.r = 1 THEN Ret(w.f, c) ELSE Kaputt(w.f) : w \in write(b.f, <<c>>)}
            ELSE IF "BUFLINEWISE" \in b.f.flags /\ c = Newline
            THEN {IF w.r = 0 THEN Ret(w.f, c) ELSE Kaputt(w.f) : w \in fflush(Store(b.f, c))}
            ELSE {Ret(Store(b.f, c), c)})

(* It writes the byte or reports the error. *)
LEMMA PutByteIs ==
  ASSUME NEW a, Sound(a.f), a.f.ok, ~Input(a.f), a.r = 0, NEW c \in Byte, NEW o \in PutStep(a, c)
  PROVE  PutOne(a.f, c, o)
<1> DEFINE t == <<c>>
<1>1. PICK b \in (IF a.f.bm >= a.f.buflen - 1 THEN fflush(a.f) ELSE {a}) :
        o \in (IF b.r # 0 THEN {Kaputt(b.f)}
            ELSE IF "NOBUF" \in b.f.flags
            THEN {IF w.r = 1 THEN Ret(w.f, c) ELSE Kaputt(w.f) : w \in write(b.f, t)}
            ELSE IF "BUFLINEWISE" \in b.f.flags /\ c = Newline
            THEN {IF w.r = 0 THEN Ret(w.f, c) ELSE Kaputt(w.f) : w \in fflush(Store(b.f, c))}
            ELSE {Ret(Store(b.f, c), c)})
  BY Zenon DEF Then, PutStep
<1>2. t \in Bytes /\ Len(t) = 1 /\ c # EOF
  <2>1. c # EOF
    BY Numbers DEF EOF
  <2>2. QED
    BY <2>1, OneByte
<1> HIDE DEF t
<1>3. /\ Sound(b.f) /\ ~Input(b.f) /\ (b.r = 0 => b.f.ok /\ b.f.bm < b.f.buflen)
      /\ Fit(a.f) /\ b.f.ok => Added(a.f, <<>>, b.f)
  <2>0. a.f.buflen \in Nat /\ a.f.buflen > 0 /\ a.f.bm \in Nat
    BY Fields, Numbers DEF Sound
  <2>1. CASE a.f.bm >= a.f.buflen - 1
    BY <1>1, <2>0, <2>1, Emptying
  <2>2. CASE ~(a.f.bm >= a.f.buflen - 1)
    <3>1. b = a
      BY <1>1, <2>2
    <3>2. Fit(a.f) => Added(a.f, <<>>, a.f)
      <4>1. Fit(a.f) => SameView(a.f, a.f)
        BY DEF SameView
      <4>2. QED
        BY <4>1, AddedSame
    <3>3. a.f.bm < a.f.buflen
      BY <2>0, <2>2
    <3>4. QED
      BY <3>1, <3>2, <3>3
  <2>3. QED
    BY <2>1, <2>2
<1>4. CASE b.r # 0
  <2>1. o = Kaputt(b.f)
    BY <1>1, <1>4
  <2>2. QED
    BY <1>3, <2>1, Refused DEF PutOne
<1>5. CASE b.r = 0 /\ "NOBUF" \in b.f.flags
  <2>1. PICK w \in write(b.f, t) : o = IF w.r = 1 THEN Ret(w.f, c) ELSE Kaputt(w.f)
    BY <1>1, <1>5, Zenon
  <2>2. Wrote(b.f, t, w)
    BY <1>2, <1>3, WriteIs
  <2>3. /\ Sound(w.f) /\ (w.r = -1 => w.f = b.f) /\ w.r \in {-1, 1} /\ w.f.flags = b.f.flags
        /\ w.r # -1 => w.f.ok = (b.f.ok /\ w.r = 1)
    <3>1. /\ Sound(w.f) /\ (w.r = -1 => w.f = b.f) /\ w.r \in -1 .. 1 /\ w.f.flags = b.f.flags
          /\ w.r # -1 => w.r > 0 /\ w.f.ok = (b.f.ok /\ w.r = 1)
      BY <1>2, <2>2 DEF Wrote, SameBut
    <3>2. w.r \in {-1, 1}
      BY <3>1
    <3>3. QED
      BY <3>1, <3>2
  <2>4. CASE w.r = 1
    <3>1. w.f.ok /\ ~Input(w.f)
      BY <1>3, <1>5, <2>3, <2>4 DEF Input
    <3>2. o.f = w.f /\ o.r = c
      BY <2>1, <2>4 DEF Ret
    <3>3. ASSUME Fit(a.f) PROVE Added(a.f, t, w.f)
      <4>1. Added(a.f, <<>>, b.f) /\ Fit(b.f)
        BY <1>3, <1>5, <3>3, FitOfAdded
      <4>2. b.f.bm = 0
        BY <1>3, <1>5, <4>1 DEF Fit
      <4>3. Added(b.f, t, w.f)
        <5>1. w.r # -1
          BY <2>4
        <5>2. QED
          BY <1>2, <1>3, <2>2, <3>1, <4>1, <4>2, <5>1, DirectIs
      <4>4. QED
        BY <1>2, <3>3, <4>1, <4>3, NoneJoin
    <3>4. QED
      BY <1>2, <2>3, <3>1, <3>2, <3>3 DEF PutOne, t
  <2>5. CASE w.r # 1
    <3>1. o = Kaputt(b.f)
      BY <2>1, <2>3, <2>5
    <3>2. QED
      BY <1>3, <3>1, Refused DEF PutOne
  <2>6. QED
    BY <2>4, <2>5
<1>6. CASE b.r = 0 /\ "NOBUF" \notin b.f.flags
  <2> DEFINE h == Store(b.f, c)
  <2>1. /\ Sound(h) /\ SameBut(h, b.f, {"buf", "bm"})
        /\ Fit(b.f) => Added(b.f, t, h)
    BY <1>3, <1>6, StoreIs DEF t
  <2>2. /\ o = Ret(h, c) \/ \E w \in fflush(h) : o = IF w.r = 0 THEN Ret(w.f, c) ELSE Kaputt(w.f)
    BY <1>1, <1>6, Zenon
  <2> HIDE DEF h
  <2>3. ~Input(h) /\ h.ok
    BY <1>3, <1>6, <2>1 DEF SameBut, Input
  <2>4. ASSUME Fit(a.f) PROVE Added(a.f, t, h)
    BY <1>2, <1>3, <1>6, <2>1, <2>4, FitOfAdded, NoneJoin
  <2>5. CASE o = Ret(h, c)
    <3>1. o.f = h /\ o.r = c
      BY <2>5 DEF Ret
    <3>2. QED
      BY <1>2, <2>1, <2>3, <2>4, <3>1 DEF PutOne, t
  <2>6. ASSUME NEW w \in fflush(h), o = IF w.r = 0 THEN Ret(w.f, c) ELSE Kaputt(w.f)
        PROVE  PutOne(a.f, c, o)
    <3>1. /\ Sound(w.f) /\ ~Input(w.f)
          /\ w.r = 0 => w.f.ok
          /\ w.f.ok /\ Fit(h) => Added(h, <<>>, w.f)
      BY <2>1, <2>3, Emptying
    <3>2. ASSUME w.f.ok, Fit(a.f) PROVE Added(a.f, t, w.f)
      BY <1>2, <2>4, <3>1, <3>2, FitOfAdded, JoinNone
    <3>3. CASE w.r = 0
      <4>1. o.f = w.f /\ o.r = c
        BY <2>6, <3>3 DEF Ret
      <4>2. QED
        BY <1>2, <3>1, <3>2, <3>3, <4>1 DEF PutOne, t
    <3>4. CASE w.r # 0
      <4>1. o = Kaputt(w.f)
        BY <2>6, <3>4
      <4>2. /\ o.r = EOF /\ Sound(o.f) /\ "ERR" \in o.f.flags /\ o.f.ok = w.f.ok
            /\ Fit(w.f) => SameView(o.f, w.f) /\ (Input(o.f) <=> Input(w.f))
        BY <3>1, <4>1, KaputtIs
      <4>3. ASSUME o.f.ok, Fit(a.f) PROVE Added(a.f, t, o.f)
        <5>1. Added(a.f, t, w.f) /\ Fit(w.f)
          BY <3>2, <4>2, <4>3, FitOfAdded
        <5>2. Added(w.f, <<>>, o.f)
          BY <3>1, <4>2, <5>1, AddedSame
        <5>3. QED
          BY <1>2, <4>3, <5>1, <5>2, JoinNone
      <4>4. QED
        BY <4>2, <4>3 DEF PutOne, t
    <3>5. QED
      BY <3>3, <3>4
  <2>7. QED
    BY <2>2, <2>5, <2>6
<1>7. QED
  BY <1>4, <1>5, <1>6

(* The stream has turned to output. *)
Ready(h, g) ==
  /\ Fit(h) /\ ~Input(h) /\ h.ungotten = <<>> /\ h.open = g.open
  /\ ContentOf(h) = ContentOf(g) /\ PosOf(h) \in {PosOf(g), PosOf(g) - Len(g.ungotten)}

(* The change to output. *)
LEMMA TurnOut ==
  ASSUME NEW g, Sound(g), g.ok, NEW a \in fflush4(g, {})
  PROVE  /\ Sound(a.f) /\ a.r \in {0, -1} /\ (a.r # 0 => ~a.f.ok)
         /\ a.r = 0 => a.f.ok /\ ~Input(a.f) /\ (Fit(g) => Ready(a.f, g))
<1>1. Turned(g, {}, a)
  BY TurnIs
<1>2. {} # {"BUFINPUT"}
  OBVIOUS
<1>3. /\ Sound(a.f) /\ a.r \in {0, -1} /\ (a.r # 0 => ~a.f.ok)
      /\ a.r = 0 => a.f.ok /\ ~Input(a.f)
      /\ a.r = 0 /\ Fit(g) => SameView(a.f, g) \/ EmptiedFit(a.f, g)
  BY <1>1, <1>2 DEF Turned
<1>4. ASSUME a.r = 0, Fit(g) PROVE Ready(a.f, g)
  <2>1. CASE SameView(a.f, g)
    <3>1. Fit(a.f) /\ a.f.open = g.open /\ ContentOf(a.f) = ContentOf(g) /\ PosOf(a.f) = PosOf(g)
      BY <2>1 DEF SameView
    <3>2. a.f.ungotten = <<>>
      BY <1>3, <1>4, <3>1 DEF Fit
    <3>3. QED
      BY <1>3, <1>4, <3>1, <3>2 DEF Ready
  <2>2. CASE EmptiedFit(a.f, g)
    BY <1>3, <1>4, <2>2 DEF EmptiedFit, Ready
  <2>3. QED
    BY <1>3, <1>4, <2>1, <2>2
<1>5. QED
  BY <1>3, <1>4

(* fputc, of any stream. *)
LEMMA PutCIs ==
  ASSUME NEW g, Sound(g), g.ok, NEW c \in Byte, NEW o \in fputc(g, c)
  PROVE  /\ Sound(o.f) /\ o.r \in {c, EOF}
         /\ Fit(g) /\ o.f.ok => \/ o.r = EOF /\ "ERR" \in o.f.flags /\ SameView(o.f, g)
                                \/ \E h : Ready(h, g) /\ PutOne(h, c, o)
<1>1. CASE "CANWRITE" \notin g.flags
  <2>1. o = Kaputt(g)
    BY <1>1 DEF fputc
  <2>2. QED
    BY <2>1, KaputtIs
<1>2. CASE "CANWRITE" \in g.flags
  <2>1. PICK a \in fflush4(g, {}) : o \in (IF a.r # 0 THEN {Kaputt(a.f)} ELSE PutStep(a, c))
    BY <1>2, Zenon DEF fputc, PutStep, Then
  <2>2. /\ Sound(a.f) /\ (a.r # 0 => ~a.f.ok)
        /\ a.r = 0 => a.f.ok /\ ~Input(a.f) /\ (Fit(g) => Ready(a.f, g))
    BY TurnOut
  <2>3. CASE a.r # 0
    <3>1. o = Kaputt(a.f)
      BY <2>1, <2>3
    <3>2. o.r = EOF /\ Sound(o.f) /\ o.f.ok = a.f.ok
      BY <2>2, <3>1, KaputtIs
    <3>3. QED
      BY <2>2, <2>3, <3>2
  <2>4. CASE a.r = 0
    <3>1. PutOne(a.f, c, o)
      BY <2>1, <2>2, <2>4, PutByteIs
    <3>2. QED
      BY <2>2, <2>4, <3>1 DEF PutOne
  <2>5. QED
    BY <2>3, <2>4
<1>3. QED
  BY <1>1, <1>2

(* fputc, of an output stream. *)
LEMMA PutOutIs ==
  ASSUME NEW g, Sound(g), g.ok, ~Input(g), NEW c \in Byte, NEW o \in fputc(g, c)
  PROVE  PutOne(g, c, o)
<1>1. CASE "CANWRITE" \notin g.flags
  <2>1. o = Kaputt(g)
    BY <1>1 DEF fputc
  <2>2. Fit(g) => Added(g, <<>>, g)
    <3>1. Fit(g) => SameView(g, g)
      BY DEF SameView
    <3>2. QED
      BY <3>1, AddedSame
  <2>3. QED
    BY <2>1, <2>2, Refused DEF PutOne
<1>2. CASE "CANWRITE" \in g.flags
  <2>1. PICK a \in fflush4(g, {}) : o \in (IF a.r # 0 THEN {Kaputt(a.f)} ELSE PutStep(a, c))
    BY <1>2, Zenon DEF fputc, PutStep, Then
  <2>2. g.flags \cap {"BUFINPUT"} = {}
    BY DEF Input
  <2>3. a = Ret(g, 0)
    BY <2>2 DEF fflush4
  <2>4. a.f = g /\ a.r = 0
    BY <2>3 DEF Ret
  <2>5. QED
    BY <2>1, <2>4, PutByteIs
<1>3. QED
  BY <1>1, <1>2

-----------------------------------------------------------------------------
(* Loops.                                                                  *)

(* A set of numbers has a least one. *)
LEMMA LeastExists ==
  ASSUME NEW T \in SUBSET Nat, T # {}
  PROVE  \E x \in T : \A y \in T : x <= y
<1>1. \E x \in T : \A y \in T : ~(<<y, x>> \in OpToRel(<, Nat))
  BY NatLessThanWellFounded, WFMin, Zenon
<1>2. PICK x \in T : \A y \in T : ~(<<y, x>> \in OpToRel(<, Nat))
  BY <1>1
<1>3. ASSUME NEW y \in T PROVE x <= y
  <2>1. x \in Nat /\ y \in Nat
    OBVIOUS
  <2>2. ~(<<y, x>>[1] < <<y, x>>[2])
    BY <1>2, <2>1, Zenon DEF OpToRel
  <2>3. QED
    BY <2>1, <2>2
<1>4. QED
  BY <1>3

(* What holds at first and after every turn holds at the end. *)
LEMMA AllTurns ==
  ASSUME NEW n \in Nat, NEW S, 0 \in S, \A j \in 1 .. n : j - 1 \in S => j \in S
  PROVE  n \in S
<1> DEFINE T == {j \in 0 .. n : j \notin S}
<1>1. T = {}
  <2> SUFFICES ASSUME T # {} PROVE FALSE
    OBVIOUS
  <2>1. T \in SUBSET Nat
    OBVIOUS
  <2>2. PICK x \in T : \A y \in T : x <= y
    BY <2>1, LeastExists
  <2>3. x \in 0 .. n /\ x \notin S
    OBVIOUS
  <2>4. x # 0 /\ x \in 1 .. n
    BY <2>3
  <2>5. x - 1 \notin S
    BY <2>3, <2>4
  <2>6. x - 1 \in T
    BY <2>4, <2>5
  <2> HIDE DEF T
  <2>7. x <= x - 1
    BY <2>2, <2>6
  <2>8. QED
    BY <2>4, <2>7
<1>2. n \in 0 .. n
  OBVIOUS
<1>3. QED
  BY <1>1, <1>2

(* A turn of the loop of fputc. *)
EachTurn(X, s, j) ==
  Then(X, LAMBDA o :
       IF o.r # 0 THEN {o}
       ELSE {IF p.r = EOF THEN Ret([p.f EXCEPT !.ok = FALSE], Len(s) + 1 - j) ELSE Ret(p.f, 0) :
               p \in fputc(o.f, s[j])})

(* PutEach has a run: the outcomes after each turn. *)
LEMMA PutEachRuns ==
  ASSUME NEW g, NEW s \in Bytes
  PROVE  \E q : /\ PutEach(g, s) = q[Len(s)]
                /\ q[0] = {Ret(g, 0)}
                /\ \A j \in 1 .. Len(s) : q[j] = EachTurn(q[j - 1], s, j)
<1> DEFINE Next1(q, j) == IF j = 0 THEN {Ret(g, 0)} ELSE EachTurn(q[j - 1], s, j)
           Run(q, m) == q = [j \in 0 .. m |-> Next1(q, j)]
           T == {m \in Nat : ~ \E q : Run(q, m)}
<1>1. Len(s) \in Nat
  BY DEF Bytes
<1>2. T = {}
  <2> SUFFICES ASSUME T # {} PROVE FALSE
    OBVIOUS
  <2>1. PICK m \in T : \A y \in T : m <= y
    BY LeastExists
  <2>2. m \in Nat /\ ~ \E q : Run(q, m)
    OBVIOUS
  <2>3. CASE m = 0
    <3> DEFINE q == [j \in 0 .. 0 |-> {Ret(g, 0)}]
    <3>1. \A j \in 0 .. 0 : j = 0
      OBVIOUS
    <3>2. Run(q, 0)
      BY <3>1, Zenon
    <3>3. QED
      BY <2>2, <2>3, <3>2, Zenon
  <2>4. CASE m # 0
    <3>1. m - 1 \in Nat /\ ~(m <= m - 1)
      BY <2>2, <2>4
    <3>2. PICK p : Run(p, m - 1)
      BY <2>1, <3>1
    <3> DEFINE q == [j \in 0 .. m |-> IF j = m THEN EachTurn(p[m - 1], s, m) ELSE p[j]]
    <3>3. ASSUME NEW j \in 0 .. m PROVE q[j] = Next1(q, j)
      <4>1. CASE j = m
        <5>1. m - 1 \in 0 .. m /\ m - 1 # m
          BY <2>2, <2>4, <3>1
        <5>2. q[m - 1] = p[m - 1]
          BY <5>1
        <5>3. QED
          BY <2>4, <4>1, <5>2, Zenon
      <4>2. CASE j # m
        <5>1. j \in 0 .. m - 1 /\ (j # 0 => j - 1 \in 0 .. m /\ j - 1 # m)
          BY <2>2, <4>2
        <5>2. p[j] = Next1(p, j) /\ q[j] = p[j]
          BY <3>2, <4>2, <5>1, Zenon
        <5>3. j # 0 => q[j - 1] = p[j - 1]
          BY <5>1
        <5>4. QED
          BY <5>2, <5>3, Zenon
      <4>3. QED
        BY <4>1, <4>2, Zenon
    <3> HIDE DEF Next1
    <3>4. q = [j \in 0 .. m |-> q[j]]
      BY Zenon
    <3> HIDE DEF q
    <3>5. Run(q, m)
      BY <3>3, <3>4, Zenon
    <3>6. QED
      BY <2>2, <3>5, Zenon
  <2>5. QED
    BY <2>3, <2>4
<1> DEFINE f0 == CHOOSE q : Run(q, Len(s))
<1>3. Run(f0, Len(s))
  <2>1. \E q : Run(q, Len(s))
    BY <1>1, <1>2
  <2> HIDE DEF Run
  <2>2. QED
    BY <2>1, Zenon
<1>4. PutEach(g, s) = f0[Len(s)]
  BY Zenon DEF PutEach, EachTurn, Then
<1> HIDE DEF f0
<1>5. 0 \in 0 .. Len(s) /\ \A j \in 1 .. Len(s) : j \in 0 .. Len(s) /\ j # 0
  BY <1>1
<1>6. \A j \in 0 .. Len(s) : f0[j] = Next1(f0, j)
  BY <1>3, Zenon
<1>7. f0[0] = {Ret(g, 0)} /\ \A j \in 1 .. Len(s) : f0[j] = EachTurn(f0[j - 1], s, j)
  BY <1>5, <1>6, Zenon
<1>8. QED
  BY <1>4, <1>7, Zenon

(* A stream out of bounds of the specification. *)
LEMMA NotOkIs ==
  ASSUME NEW g, Sound(g)
  PROVE  Sound([g EXCEPT !.ok = FALSE]) /\ ~[g EXCEPT !.ok = FALSE].ok
<1> DEFINE h == [g EXCEPT !.ok = FALSE]
<1>1. g \in StreamRec
  BY Fields
<1>2. h \in StreamRec /\ SameBut(h, g, {"ok"}) /\ h.ok = FALSE
  BY <1>1 DEF StreamRec, SameBut
<1> HIDE DEF h
<1>3. Sound(h) /\ ~h.ok
  BY <1>2 DEF Sound, SameBut
<1>4. QED
  BY <1>3 DEF h

(* The loop of fputc writes everything, or ends with an accident. *)
LEMMA PutEachIs ==
  ASSUME NEW g, Sound(g), g.ok, ~Input(g), NEW s \in Bytes, NEW o \in PutEach(g, s)
  PROVE  /\ Sound(o.f) /\ o.r \in Nat /\ (o.r # 0 => ~o.f.ok)
         /\ o.r = 0 => o.f.ok /\ ~Input(o.f) /\ (Fit(g) => Added(g, s, o.f))
<1> DEFINE I(x, j) == /\ Sound(x.f) /\ x.r \in Nat /\ (x.r # 0 => ~x.f.ok)
                      /\ x.r = 0 => x.f.ok /\ ~Input(x.f) /\ (Fit(g) => Added(g, SubSeq(s, 1, j), x.f))
<1>1. PICK q : /\ PutEach(g, s) = q[Len(s)]
               /\ q[0] = {Ret(g, 0)}
               /\ \A j \in 1 .. Len(s) : q[j] = EachTurn(q[j - 1], s, j)
  BY PutEachRuns
<1> DEFINE S == {j \in 0 .. Len(s) : \A x \in q[j] : I(x, j)}
<1>2. Len(s) \in Nat
  BY LenIs
<1>3. SubSeq(s, 1, 0) = <<>> /\ SubSeq(s, 1, Len(s)) = s
  BY DEF Bytes
<1>4. 0 \in S
  <2>1. ASSUME NEW x \in q[0] PROVE I(x, 0)
    <3>1. x.f = g /\ x.r = 0
      BY <1>1, <2>1 DEF Ret
    <3>2. Fit(g) => Added(g, <<>>, g)
      <4>1. Fit(g) => SameView(g, g)
        BY DEF SameView
      <4>2. QED
        BY <4>1, AddedSame
    <3>3. Fit(g) => Added(g, SubSeq(s, 1, 0), x.f)
      BY <1>3, <3>1, <3>2, Zenon
    <3>4. QED
      BY <3>1, <3>3
  <2>2. QED
    BY <1>2, <2>1
<1>5. ASSUME NEW j \in 1 .. Len(s), j - 1 \in S PROVE j \in S
  <2>1. ASSUME NEW x \in q[j] PROVE I(x, j)
    <3>1. PICK w \in q[j - 1] :
            x \in (IF w.r # 0 THEN {w}
                   ELSE {IF p.r = EOF THEN Ret([p.f EXCEPT !.ok = FALSE], Len(s) + 1 - j) ELSE Ret(p.f, 0) :
                           p \in fputc(w.f, s[j])})
      <4>1. x \in EachTurn(q[j - 1], s, j)
        BY <1>1
      <4>2. QED
        BY <4>1, Zenon DEF EachTurn, Then
    <3>2. I(w, j - 1)
      BY <1>5
    <3>3. CASE w.r # 0
      BY <3>1, <3>2, <3>3
    <3>4. CASE w.r = 0
      <4>1. PICK p \in fputc(w.f, s[j]) :
              x = IF p.r = EOF THEN Ret([p.f EXCEPT !.ok = FALSE], Len(s) + 1 - j) ELSE Ret(p.f, 0)
        BY <3>1, <3>4, Zenon
      <4>2. j - 1 \in Nat /\ j - 1 < Len(s) /\ j - 1 + 1 = j /\ Len(s) + 1 - j \in Nat /\ Len(s) + 1 - j # 0
            /\ j - 1 <= Len(s)
        BY <1>2
      <4>3. SubSeq(s, 1, j - 1) \o <<s[j]>> = SubSeq(s, 1, j) /\ s[j] \in Byte /\ SubSeq(s, 1, j - 1) \in Bytes
        <5>1. SubSeq(s, 1, j - 1) \o <<s[j - 1 + 1]>> = SubSeq(s, 1, j - 1 + 1) /\ s[j - 1 + 1] \in Byte
          BY <4>2, PrefixMore
        <5>2. QED
          BY <4>2, <5>1, PrefixIs
      <4>4. PutOne(w.f, s[j], p)
        BY <3>2, <3>4, <4>3, PutOutIs
      <4>5. CASE p.r = EOF
        <5>1. x.f = [p.f EXCEPT !.ok = FALSE] /\ x.r = Len(s) + 1 - j
          BY <4>1, <4>5 DEF Ret
        <5>2. Sound(p.f)
          BY <4>4 DEF PutOne
        <5>3. Sound(x.f) /\ ~x.f.ok
          BY <5>1, <5>2, NotOkIs
        <5>4. QED
          BY <4>2, <5>1, <5>3
      <4>6. CASE p.r # EOF
        <5>1. x.f = p.f /\ x.r = 0
          BY <4>1, <4>6 DEF Ret
        <5>2. Sound(p.f) /\ p.f.ok /\ ~Input(p.f) /\ (Fit(w.f) => Added(w.f, <<s[j]>>, p.f))
          BY <4>4, <4>6 DEF PutOne
        <5>3. ASSUME Fit(g) PROVE Added(g, SubSeq(s, 1, j), p.f)
          <6>1. Added(g, SubSeq(s, 1, j - 1), w.f)
            BY <3>2, <3>4, <5>3
          <6>2. Added(w.f, <<s[j]>>, p.f) /\ <<s[j]>> \in Bytes
            BY <4>3, <5>2, <6>1, FitOfAdded, OneByte
          <6>3. Added(g, SubSeq(s, 1, j - 1) \o <<s[j]>>, p.f)
            BY <4>3, <5>3, <6>1, <6>2, AddedJoin
          <6>4. QED
            BY <4>3, <6>3, Zenon
        <5>4. QED
          BY <5>1, <5>2, <5>3
      <4>7. QED
        BY <4>5, <4>6
    <3>5. QED
      BY <3>3, <3>4
  <2> HIDE DEF I
  <2>2. j \in 0 .. Len(s)
    BY <1>2
  <2>3. QED
    BY <2>1, <2>2
<1> HIDE DEF S
<1>6. Len(s) \in S
  BY <1>2, <1>4, <1>5, AllTurns
<1>7. I(o, Len(s))
  BY <1>1, <1>6 DEF S
<1>8. QED
  BY <1>3, <1>7

(* A part of the rest of a sequence is a part of the sequence. *)
LEMMA PartOfPart ==
  ASSUME NEW s \in Bytes, NEW m \in Nat, m <= Len(s), NEW a \in Nat, NEW b \in Nat, a <= b, m + b <= Len(s)
  PROVE  SubSeq(SubSeq(s, m + 1, Len(s)), a + 1, b) = SubSeq(s, m + a + 1, m + b)
<1> DEFINE r == SubSeq(s, m + 1, Len(s))
           x == SubSeq(r, a + 1, b)
           n == m + a
           e == m + b
           y == SubSeq(s, n + 1, e)
<1>1. Len(s) \in Nat /\ n \in Nat /\ e \in Int /\ e <= Len(s) /\ b \in Int /\ Len(s) \in Int /\ Len(s) <= Len(s)
  BY LenIs
<1>2. r \in Bytes /\ Len(r) = IF Len(s) > m THEN Len(s) - m ELSE 0
  BY <1>1, PartIs
<1>3. Len(r) = Len(s) - m /\ b <= Len(r)
  BY <1>1, <1>2
<1>4. \A j \in 1 .. Len(s) - m : r[j] = s[m + j]
  BY <1>1, PartAt
<1> HIDE DEF r
<1>5. x \in Bytes /\ Len(x) = IF b > a THEN b - a ELSE 0
  BY <1>1, <1>2, <1>3, PartIs
<1>6. \A j \in 1 .. b - a : x[j] = r[a + j]
  BY <1>1, <1>2, <1>3, PartAt
<1> HIDE DEF x
<1>7. y \in Bytes /\ Len(y) = IF e > n THEN e - n ELSE 0
  <2> HIDE DEF n, e
  <2>1. QED
    BY <1>1, PartIs
<1>8. \A j \in 1 .. e - n : y[j] = s[n + j]
  <2> HIDE DEF n, e
  <2>1. QED
    BY <1>1, PartAt
<1> HIDE DEF y
<1>9. Len(x) = Len(y) /\ Len(x) = b - a /\ e - n = b - a
  BY <1>5, <1>7
<1>10. ASSUME NEW j \in 1 .. b - a PROVE x[j] = y[j]
  <2>1. a + j \in 1 .. Len(s) - m /\ m + (a + j) = n + j
    BY <1>1
  <2>2. y[j] = s[n + j]
    BY <1>8, <1>9
  <2>3. x[j] = s[m + (a + j)]
    BY <1>4, <1>6, <2>1
  <2>4. QED
    BY <2>1, <2>2, <2>3, Zenon
<1>11. x = y
  BY <1>5, <1>7, <1>9, <1>10, SameBytes
<1>12. QED
  BY <1>11 DEF x, y, r, n, e

(* Some of the bytes were written, and there is an error. *)
Some(g, s, h) == "ERR" \in h.flags /\ \E k \in 0 .. Len(s) : Added(g, SubSeq(s, 1, k), h)

(* What is written after the first m bytes. *)
LEMMA SomeMore ==
  ASSUME NEW g, Fit(g), NEW s \in Bytes, NEW m \in 0 .. Len(s), NEW h, Added(g, SubSeq(s, 1, m), h),
         NEW k \in 0 .. Len(s) - m, NEW j, Added(h, SubSeq(SubSeq(s, m + 1, Len(s)), 1, k), j)
  PROVE  Added(g, SubSeq(s, 1, m + k), j)
<1> DEFINE r == SubSeq(s, m + 1, Len(s))
           u == SubSeq(s, 1, m)
           v == SubSeq(r, 1, k)
           e == m + k
           z == SubSeq(s, m + 1, e)
<1>1. /\ Len(s) \in Nat /\ m \in Nat /\ k \in Nat /\ m <= Len(s) /\ m + k <= Len(s) /\ m <= m + k
      /\ m + k \in Nat /\ Len(s) \in Int /\ m + k \in Int
  BY LenIs
<1>2. u \in Bytes
  BY <1>1, PrefixIs
<1>3. v = z
  <2>1. SubSeq(r, 0 + 1, k) = SubSeq(s, m + 0 + 1, m + k)
    BY <1>1, PartOfPart
  <2>2. 0 + 1 = 1 /\ m + 0 + 1 = m + 1
    BY <1>1
  <2>3. QED
    BY <2>1, <2>2, Zenon
<1>4. z \in Bytes
  BY <1>1, PartIs
<1>5. u \o z = SubSeq(s, 1, e)
  BY <1>1, PrefixJoin
<1> HIDE DEF u, v, z
<1>6. Added(g, u, h) /\ Added(h, v, j)
  BY DEF u, v
<1>7. Added(g, u \o z, j)
  BY <1>2, <1>3, <1>4, <1>6, AddedJoin
<1>8. QED
  BY <1>5, <1>7, Zenon

(* The same when only some of the rest is written. *)
LEMMA SomeRest ==
  ASSUME NEW g, Fit(g), NEW s \in Bytes, NEW m \in 0 .. Len(s), NEW h, Added(g, SubSeq(s, 1, m), h),
         NEW j, Some(h, SubSeq(s, m + 1, Len(s)), j)
  PROVE  Some(g, s, j)
<1> DEFINE r == SubSeq(s, m + 1, Len(s))
<1>1. Len(s) \in Nat /\ m \in Nat /\ m <= Len(s) /\ Len(s) \in Int
  BY LenIs
<1>2. Len(r) = IF Len(s) > m THEN Len(s) - m ELSE 0
  BY <1>1, PartIs
<1>3. PICK k \in 0 .. Len(r) : Added(h, SubSeq(r, 1, k), j)
  BY DEF Some
<1>4. "ERR" \in j.flags
  BY DEF Some
<1> HIDE DEF r
<1>5. k \in 0 .. Len(s) - m /\ m + k \in 0 .. Len(s)
  BY <1>1, <1>2
<1>6. Added(g, SubSeq(s, 1, m + k), j)
  BY <1>3, <1>5, SomeMore DEF r
<1>7. QED
  BY <1>4, <1>5, <1>6 DEF Some

(* A turn of the line buffered loop. *)
LineTurn(X, s, j) ==
  Then(X, LAMBDA o :
       IF o.r # 0 THEN {o}
       ELSE {IF p.r # 0 THEN Kaputt(p.f) ELSE p :
               p \in IF s[j] = Newline THEN fflush(Store(o.f, s[j]))
                     ELSE {Ret(Store(o.f, s[j]), 0)}})

(* PutLines has a run. *)
LEMMA PutLinesRuns ==
  ASSUME NEW g, NEW s \in Bytes
  PROVE  \E q : /\ PutLines(g, s) = q[Len(s)]
                /\ q[0] = {Ret(g, 0)}
                /\ \A j \in 1 .. Len(s) : q[j] = LineTurn(q[j - 1], s, j)
<1> DEFINE Next1(q, j) == IF j = 0 THEN {Ret(g, 0)} ELSE LineTurn(q[j - 1], s, j)
           Run(q, m) == q = [j \in 0 .. m |-> Next1(q, j)]
           T == {m \in Nat : ~ \E q : Run(q, m)}
<1>1. Len(s) \in Nat
  BY DEF Bytes
<1>2. T = {}
  <2> SUFFICES ASSUME T # {} PROVE FALSE
    OBVIOUS
  <2>1. PICK m \in T : \A y \in T : m <= y
    BY LeastExists
  <2>2. m \in Nat /\ ~ \E q : Run(q, m)
    OBVIOUS
  <2>3. CASE m = 0
    <3> DEFINE q == [j \in 0 .. 0 |-> {Ret(g, 0)}]
    <3>1. \A j \in 0 .. 0 : j = 0
      OBVIOUS
    <3>2. Run(q, 0)
      BY <3>1, Zenon
    <3>3. QED
      BY <2>2, <2>3, <3>2, Zenon
  <2>4. CASE m # 0
    <3>1. m - 1 \in Nat /\ ~(m <= m - 1)
      BY <2>2, <2>4
    <3>2. PICK p : Run(p, m - 1)
      BY <2>1, <3>1
    <3> DEFINE q == [j \in 0 .. m |-> IF j = m THEN LineTurn(p[m - 1], s, m) ELSE p[j]]
    <3>3. ASSUME NEW j \in 0 .. m PROVE q[j] = Next1(q, j)
      <4>1. CASE j = m
        <5>1. m - 1 \in 0 .. m /\ m - 1 # m
          BY <2>2, <2>4, <3>1
        <5>2. q[m - 1] = p[m - 1]
          BY <5>1
        <5>3. QED
          BY <2>4, <4>1, <5>2, Zenon
      <4>2. CASE j # m
        <5>1. j \in 0 .. m - 1 /\ (j # 0 => j - 1 \in 0 .. m /\ j - 1 # m)
          BY <2>2, <4>2
        <5>2. p[j] = Next1(p, j) /\ q[j] = p[j]
          BY <3>2, <4>2, <5>1, Zenon
        <5>3. j # 0 => q[j - 1] = p[j - 1]
          BY <5>1
        <5>4. QED
          BY <5>2, <5>3, Zenon
      <4>3. QED
        BY <4>1, <4>2, Zenon
    <3> HIDE DEF Next1
    <3>4. q = [j \in 0 .. m |-> q[j]]
      BY Zenon
    <3> HIDE DEF q
    <3>5. Run(q, m)
      BY <3>3, <3>4, Zenon
    <3>6. QED
      BY <2>2, <3>5, Zenon
  <2>5. QED
    BY <2>3, <2>4
<1> DEFINE f0 == CHOOSE q : Run(q, Len(s))
<1>3. Run(f0, Len(s))
  <2>1. \E q : Run(q, Len(s))
    BY <1>1, <1>2
  <2> HIDE DEF Run
  <2>2. QED
    BY <2>1, Zenon
<1>4. PutLines(g, s) = f0[Len(s)]
  BY Zenon DEF PutLines, LineTurn, Then
<1> HIDE DEF f0
<1>5. 0 \in 0 .. Len(s) /\ \A j \in 1 .. Len(s) : j \in 0 .. Len(s) /\ j # 0
  BY <1>1
<1>6. \A j \in 0 .. Len(s) : f0[j] = Next1(f0, j)
  BY <1>3, Zenon
<1>7. f0[0] = {Ret(g, 0)} /\ \A j \in 1 .. Len(s) : f0[j] = LineTurn(f0[j - 1], s, j)
  BY <1>5, <1>6, Zenon
<1>8. QED
  BY <1>4, <1>7, Zenon

(* The line buffered loop. *)
LEMMA PutLinesIs ==
  ASSUME NEW g, Sound(g), g.ok, ~Input(g), "NOBUF" \notin g.flags,
         NEW s \in Bytes, g.bm + Len(s) <= g.buflen, NEW o \in PutLines(g, s)
  PROVE  /\ Sound(o.f) /\ o.r \in {0, EOF}
         /\ o.r = 0 => o.f.ok /\ ~Input(o.f) /\ (Fit(g) => Added(g, s, o.f))
         /\ o.r # 0 /\ o.f.ok /\ Fit(g) => Some(g, s, o.f)
<1> DEFINE I(x, j) ==
      /\ Sound(x.f) /\ x.r \in {0, EOF}
      /\ x.r = 0 => /\ x.f.ok /\ ~Input(x.f) /\ (Fit(g) => Added(g, SubSeq(s, 1, j), x.f))
                    /\ "NOBUF" \notin x.f.flags /\ x.f.bm <= g.bm + j /\ x.f.buflen = g.buflen
      /\ x.r # 0 /\ x.f.ok /\ Fit(g) => Some(g, s, x.f)
<1>1. PICK q : /\ PutLines(g, s) = q[Len(s)]
               /\ q[0] = {Ret(g, 0)}
               /\ \A j \in 1 .. Len(s) : q[j] = LineTurn(q[j - 1], s, j)
  BY PutLinesRuns
<1> DEFINE S == {j \in 0 .. Len(s) : \A x \in q[j] : I(x, j)}
<1>2. Len(s) \in Nat /\ g.bm \in Nat /\ g.buflen \in Nat
  BY LenIs, Fields
<1>3. SubSeq(s, 1, 0) = <<>> /\ SubSeq(s, 1, Len(s)) = s
  BY DEF Bytes
<1>4. 0 \in S
  <2>1. ASSUME NEW x \in q[0] PROVE I(x, 0)
    <3>1. x.f = g /\ x.r = 0
      BY <1>1, <2>1 DEF Ret
    <3>2. Fit(g) => Added(g, <<>>, g)
      <4>1. Fit(g) => SameView(g, g)
        BY DEF SameView
      <4>2. QED
        BY <4>1, AddedSame
    <3>3. Fit(g) => Added(g, SubSeq(s, 1, 0), x.f)
      BY <1>3, <3>1, <3>2, Zenon
    <3>4. x.f.bm <= g.bm + 0
      BY <1>2, <3>1
    <3>5. QED
      BY <3>1, <3>3, <3>4
  <2>2. QED
    BY <1>2, <2>1
<1>5. ASSUME NEW j \in 1 .. Len(s), j - 1 \in S PROVE j \in S
  <2>1. ASSUME NEW x \in q[j] PROVE I(x, j)
    <3>1. PICK w \in q[j - 1] :
            x \in (IF w.r # 0 THEN {w}
                   ELSE {IF p.r # 0 THEN Kaputt(p.f) ELSE p :
                           p \in IF s[j] = Newline THEN fflush(Store(w.f, s[j]))
                                 ELSE {Ret(Store(w.f, s[j]), 0)}})
      <4>1. x \in LineTurn(q[j - 1], s, j)
        BY <1>1
      <4>2. QED
        BY <4>1, Zenon DEF LineTurn, Then
    <3>2. I(w, j - 1)
      BY <1>5
    <3>3. CASE w.r # 0
      <4>1. x = w
        BY <3>1, <3>3
      <4>2. QED
        BY <3>2, <3>3, <4>1
    <3>4. CASE w.r = 0
      <4> DEFINE h == Store(w.f, s[j])
      <4>1. PICK p \in (IF s[j] = Newline THEN fflush(h) ELSE {Ret(h, 0)}) :
              x = IF p.r # 0 THEN Kaputt(p.f) ELSE p
        BY <3>1, <3>4, Zenon
      <4>2. j - 1 \in Nat /\ j - 1 < Len(s) /\ j - 1 + 1 = j /\ j - 1 <= Len(s) /\ j \in Nat
        BY <1>2
      <4>3. SubSeq(s, 1, j - 1) \o <<s[j]>> = SubSeq(s, 1, j) /\ s[j] \in Byte /\ SubSeq(s, 1, j - 1) \in Bytes
        <5>1. SubSeq(s, 1, j - 1) \o <<s[j - 1 + 1]>> = SubSeq(s, 1, j - 1 + 1) /\ s[j - 1 + 1] \in Byte
          BY <4>2, PrefixMore
        <5>2. QED
          BY <4>2, <5>1, PrefixIs
      <4>4. SubSeq(s, 1, j) \in Bytes
        BY <1>2, <4>2, PrefixIs
      <4>5. /\ Sound(w.f) /\ w.f.ok /\ ~Input(w.f) /\ (Fit(g) => Added(g, SubSeq(s, 1, j - 1), w.f))
            /\ "NOBUF" \notin w.f.flags /\ w.f.bm <= g.bm + (j - 1) /\ w.f.buflen = g.buflen
        BY <3>2, <3>4
      <4>6. w.f.bm \in Nat /\ w.f.bm < w.f.buflen
        BY <1>2, <4>2, <4>5, Fields
      <4>7. /\ Sound(h) /\ SameBut(h, w.f, {"buf", "bm"}) /\ h.bm = w.f.bm + 1
            /\ Fit(w.f) => Added(w.f, <<s[j]>>, h)
        BY <4>3, <4>5, <4>6, StoreIs
      <4> HIDE DEF h
      <4>8. ~Input(h) /\ h.ok /\ h.bm <= g.bm + j /\ h.buflen = g.buflen /\ "NOBUF" \notin h.flags
        <5>1. ~Input(h) /\ h.ok /\ h.buflen = g.buflen /\ "NOBUF" \notin h.flags
          BY <4>5, <4>7 DEF SameBut, Input
        <5>2. h.bm <= g.bm + j
          BY <1>2, <4>2, <4>5, <4>6, <4>7
        <5>3. QED
          BY <5>1, <5>2
      <4>9. ASSUME Fit(g) PROVE Added(g, SubSeq(s, 1, j), h)
        <5>1. Added(w.f, <<s[j]>>, h) /\ <<s[j]>> \in Bytes
          BY <4>3, <4>5, <4>7, <4>9, FitOfAdded, OneByte
        <5>2. Added(g, SubSeq(s, 1, j - 1) \o <<s[j]>>, h)
          BY <4>3, <4>5, <4>9, <5>1, AddedJoin
        <5>3. QED
          BY <4>3, <5>2, Zenon
      <4>10. CASE p = Ret(h, 0)
        <5>1. p.f = h /\ p.r = 0
          BY <4>10 DEF Ret
        <5>2. x.f = h /\ x.r = 0
          BY <4>1, <5>1
        <5>3. QED
          BY <4>7, <4>8, <4>9, <5>2
      <4>11. CASE p \in fflush(h)
        <5>1. /\ Sound(p.f) /\ ~Input(p.f) /\ p.f.buflen = h.buflen
              /\ p.r = 0 => p.f.bm = 0 /\ p.f.ok /\ p.f.flags = h.flags
              /\ p.f.ok /\ Fit(h) => Added(h, <<>>, p.f)
          BY <4>7, <4>8, <4>11, Emptying
        <5>2. ASSUME Fit(g), p.f.ok PROVE Added(g, SubSeq(s, 1, j), p.f)
          BY <4>4, <4>9, <5>1, <5>2, FitOfAdded, JoinNone
        <5>3. CASE p.r = 0
          <6>1. x = p
            BY <4>1, <5>3
          <6>2. 0 <= g.bm + j
            BY <1>2, <4>2
          <6>3. QED
            BY <4>8, <5>1, <5>2, <5>3, <6>1, <6>2
        <5>4. CASE p.r # 0
          <6>1. x = Kaputt(p.f)
            BY <4>1, <5>4
          <6>2. /\ x.r = EOF /\ Sound(x.f) /\ "ERR" \in x.f.flags /\ x.f.ok = p.f.ok
                /\ Fit(p.f) => SameView(x.f, p.f) /\ (Input(x.f) <=> Input(p.f))
            BY <5>1, <6>1, KaputtIs
          <6>3. EOF # 0
            BY DEF EOF
          <6>4. ASSUME x.f.ok, Fit(g) PROVE Some(g, s, x.f)
            <7>1. Added(g, SubSeq(s, 1, j), p.f) /\ Fit(p.f)
              BY <5>2, <6>2, <6>4, FitOfAdded
            <7>2. Added(p.f, <<>>, x.f)
              BY <5>1, <6>2, <7>1, AddedSame
            <7>3. Added(g, SubSeq(s, 1, j), x.f)
              BY <4>4, <6>4, <7>1, <7>2, JoinNone
            <7>4. j \in 0 .. Len(s)
              BY <1>2
            <7>5. QED
              BY <6>2, <7>3, <7>4 DEF Some
          <6>5. QED
            BY <6>2, <6>3, <6>4
        <5>5. QED
          BY <5>3, <5>4
      <4>12. QED
        BY <4>1, <4>10, <4>11
    <3>5. QED
      BY <3>3, <3>4
  <2> HIDE DEF I
  <2>2. j \in 0 .. Len(s)
    BY <1>2
  <2>3. QED
    BY <2>1, <2>2
<1> HIDE DEF S
<1>6. Len(s) \in S
  BY <1>2, <1>4, <1>5, AllTurns
<1>7. I(o, Len(s))
  BY <1>1, <1>6 DEF S
<1>8. QED
  BY <1>3, <1>7

(* A sequence as a part of itself. *)
LEMMA WholeIs ==
  ASSUME NEW s \in Bytes
  PROVE  /\ SubSeq(s, 1, 0) = <<>> /\ SubSeq(s, 1, Len(s)) = s /\ SubSeq(s, Len(s) + 1, Len(s)) = <<>>
         /\ SubSeq(s, 0 + 1, Len(s)) = s
<1>1. SubSeq(s, 1, 0) = <<>> /\ SubSeq(s, 1, Len(s)) = s
  BY DEF Bytes
<1>2. Len(s) \in Nat /\ Len(s) \in Int /\ Len(s) <= Len(s) /\ ~(Len(s) > Len(s))
  BY LenIs
<1>3. SubSeq(s, Len(s) + 1, Len(s)) \in Bytes /\ Len(SubSeq(s, Len(s) + 1, Len(s))) = 0
  BY <1>2, PartIs
<1>4. SubSeq(s, Len(s) + 1, Len(s)) = <<>>
  BY <1>3, LenIs
<1>5. QED
  BY <1>1, <1>4

(* A turn of the block buffered loop writes a part and leaves the rest, or *)
(* ends the loop.                                                          *)
BlockDone(g, s, o) ==
  /\ Sound(o.f) /\ o.left \in Bytes
  /\ o.r = 0 => /\ o.f.ok /\ ~Input(o.f) /\ (o.left # <<>> => "NOBUF" \notin o.f.flags)
                /\ \E k \in 1 .. Len(s) : /\ o.left = SubSeq(s, k + 1, Len(s))
                                          /\ Fit(g) => Added(g, SubSeq(s, 1, k), o.f)
  /\ o.r # 0 => o.left = <<>> /\ (o.f.ok /\ Fit(g) => o.r = EOF /\ Some(g, s, o.f))

(* One turn of the loop over whole buffers. *)
LEMMA BlockIs ==
  ASSUME NEW g, Sound(g), g.ok, ~Input(g), "NOBUF" \notin g.flags,
         NEW s \in Bytes, s # <<>>, NEW o \in Block(g, s)
  PROVE  BlockDone(g, s, o)
<1> DEFINE todo == IF g.buflen - g.bm > Len(s) THEN Len(s) ELSE g.buflen - g.bm
           t == SubSeq(s, 1, todo)
           full == [g EXCEPT !.buf = Overlay(g.buf, g.bm, t), !.bm = g.bm + todo]
           rest == SubSeq(s, todo + 1, Len(s))
<1>1. /\ g.bm \in Nat /\ g.buflen \in Nat /\ g.bm <= g.buflen /\ Len(s) \in Nat /\ Len(s) # 0
  BY Fields, LenIs DEF Sound
<1>2. todo \in Nat /\ todo <= Len(s) /\ g.bm + todo <= g.buflen /\ Len(s) \in Int
  BY <1>1
<1>3. \/ todo = 0 /\ \E p \in PutEach(g, s) : o = [f |-> p.f, r |-> p.r, left |-> <<>>]
      \/ todo # 0 /\ o = [f |-> full, r |-> 0, left |-> <<>>] /\ full.bm # full.buflen
      \/ /\ todo # 0
         /\ \E p \in fflush(full) : o = IF p.r # 0 THEN [f |-> Kaputt(p.f).f, r |-> Kaputt(p.f).r, left |-> <<>>]
                                        ELSE [f |-> p.f, r |-> p.r, left |-> rest]
  BY Zenon DEF Block, Ret
<1>4. t \in Bytes /\ Len(t) = todo
  <2> HIDE DEF todo
  <2>1. QED
    BY <1>2, PrefixIs
<1>5. rest \in Bytes
  <2> HIDE DEF todo
  <2>1. QED
    BY <1>2, PartIs
<1>6. full.buflen = g.buflen /\ full.bm = g.bm + todo
  <2>1. g \in StreamRec
    BY Fields
  <2> HIDE DEF todo, t
  <2>2. QED
    BY <2>1 DEF StreamRec
<1> DEFINE h == full
<1>7. h = [g EXCEPT !.buf = Overlay(g.buf, g.bm, t), !.bm = g.bm + Len(t)]
  BY <1>4, Zenon
<1>8. g.bm + Len(t) <= g.buflen
  BY <1>2, <1>4
<1> HIDE DEF full, t, rest
<1>9. /\ Sound(full) /\ SameBut(full, g, {"buf", "bm"})
      /\ Fit(g) => Added(g, t, full)
  BY <1>4, <1>7, <1>8, FillIs
<1>10. ~Input(full) /\ full.ok /\ "NOBUF" \notin full.flags
  BY <1>9 DEF SameBut, Input
<1>11. <<>> \in Bytes /\ SubSeq(s, Len(s) + 1, Len(s)) = <<>> /\ SubSeq(s, 1, Len(s)) = s
  BY NoBytes, WholeIs
<1>12. Len(s) \in 1 .. Len(s)
  BY <1>1
<1>13. ASSUME NEW p \in PutEach(g, s), o = [f |-> p.f, r |-> p.r, left |-> <<>>] PROVE BlockDone(g, s, o)
  <2>1. /\ Sound(p.f) /\ p.r \in Nat /\ (p.r # 0 => ~p.f.ok)
        /\ p.r = 0 => p.f.ok /\ ~Input(p.f) /\ (Fit(g) => Added(g, s, p.f))
    BY PutEachIs
  <2>2. o.f = p.f /\ o.r = p.r /\ o.left = <<>>
    BY <1>13
  <2>3. p.r = 0 => \E k \in 1 .. Len(s) : /\ o.left = SubSeq(s, k + 1, Len(s))
                                          /\ Fit(g) => Added(g, SubSeq(s, 1, k), o.f)
    BY <1>11, <1>12, <2>1, <2>2, Zenon
  <2>4. QED
    BY <1>11, <2>1, <2>2, <2>3 DEF BlockDone
<1>14. ASSUME o = [f |-> full, r |-> 0, left |-> <<>>], full.bm # full.buflen PROVE BlockDone(g, s, o)
  <2>1. o.f = full /\ o.r = 0 /\ o.left = <<>>
    BY <1>14
  <2>2. todo = Len(s)
    BY <1>1, <1>2, <1>6, <1>14
  <2>3. t = s
    BY <1>11, <2>2, Zenon DEF t
  <2>4. \E k \in 1 .. Len(s) : /\ o.left = SubSeq(s, k + 1, Len(s))
                               /\ Fit(g) => Added(g, SubSeq(s, 1, k), o.f)
    BY <1>9, <1>11, <1>12, <2>1, <2>3, Zenon
  <2>5. QED
    BY <1>9, <1>10, <1>11, <2>1, <2>4 DEF BlockDone
<1>15. ASSUME todo # 0, NEW p \in fflush(full),
              o = IF p.r # 0 THEN [f |-> Kaputt(p.f).f, r |-> Kaputt(p.f).r, left |-> <<>>]
                  ELSE [f |-> p.f, r |-> p.r, left |-> rest]
       PROVE  BlockDone(g, s, o)
  <2>1. /\ Sound(p.f) /\ ~Input(p.f)
        /\ p.r = 0 => p.f.ok /\ p.f.flags = full.flags
        /\ p.f.ok /\ Fit(full) => Added(full, <<>>, p.f)
    BY <1>9, <1>10, Emptying
  <2>2. ASSUME Fit(g), p.f.ok PROVE Added(g, t, p.f)
    BY <1>4, <1>9, <2>1, <2>2, FitOfAdded, JoinNone
  <2>3. todo \in 1 .. Len(s) /\ todo \in 0 .. Len(s)
    BY <1>1, <1>2, <1>15
  <2>4. CASE p.r = 0
    <3>1. o.f = p.f /\ o.r = 0 /\ o.left = rest
      BY <1>15, <2>4
    <3> HIDE DEF todo
    <3>2. \E k \in 1 .. Len(s) : /\ o.left = SubSeq(s, k + 1, Len(s))
                                 /\ Fit(g) => Added(g, SubSeq(s, 1, k), o.f)
      BY <2>1, <2>2, <2>3, <2>4, <3>1, Zenon DEF t, rest
    <3>3. QED
      BY <1>5, <1>10, <2>1, <2>4, <3>1, <3>2 DEF BlockDone
  <2>5. CASE p.r # 0
    <3>1. o.f = Kaputt(p.f).f /\ o.r = Kaputt(p.f).r /\ o.left = <<>>
      BY <1>15, <2>5
    <3>2. /\ o.r = EOF /\ Sound(o.f) /\ "ERR" \in o.f.flags /\ o.f.ok = p.f.ok
          /\ Fit(p.f) => SameView(o.f, p.f) /\ (Input(o.f) <=> Input(p.f))
      BY <2>1, <3>1, KaputtIs
    <3>3. EOF # 0
      BY DEF EOF
    <3>4. ASSUME o.f.ok, Fit(g) PROVE Some(g, s, o.f)
      <4>1. Added(g, t, p.f) /\ Fit(p.f)
        BY <2>2, <3>2, <3>4, FitOfAdded
      <4>2. Added(p.f, <<>>, o.f)
        BY <2>1, <3>2, <4>1, AddedSame
      <4>3. Added(g, t, o.f)
        BY <1>4, <3>4, <4>1, <4>2, JoinNone
      <4> HIDE DEF todo
      <4>4. \E k \in 0 .. Len(s) : Added(g, SubSeq(s, 1, k), o.f)
        BY <2>3, <4>3, Zenon DEF t
      <4>5. QED
        BY <3>2, <4>4 DEF Some
    <3>5. QED
      BY <1>11, <3>1, <3>2, <3>3, <3>4 DEF BlockDone
  <2>6. QED
    BY <2>4, <2>5
<1> HIDE DEF todo
<1>16. QED
  BY <1>3, <1>13, <1>14, <1>15, Zenon

(* A turn of PutBlocks. *)
BlockTurn(X) == Then(X, LAMBDA o : IF o.left = <<>> THEN {o} ELSE Block(o.f, o.left))

(* PutBlocks has a run. *)
LEMMA PutBlocksRuns ==
  ASSUME NEW g, NEW s \in Bytes
  PROVE  \E q : /\ PutBlocks(g, s) = {Ret(o.f, o.r) : o \in q[Len(s)]}
                /\ q[0] = {[f |-> g, r |-> 0, left |-> s]}
                /\ \A j \in 1 .. Len(s) : q[j] = BlockTurn(q[j - 1])
<1> DEFINE Next1(q, j) == IF j = 0 THEN {[f |-> g, r |-> 0, left |-> s]} ELSE BlockTurn(q[j - 1])
           Run(q, m) == q = [j \in 0 .. m |-> Next1(q, j)]
           T == {m \in Nat : ~ \E q : Run(q, m)}
<1>1. Len(s) \in Nat
  BY DEF Bytes
<1>2. T = {}
  <2> SUFFICES ASSUME T # {} PROVE FALSE
    OBVIOUS
  <2>1. PICK m \in T : \A y \in T : m <= y
    BY LeastExists
  <2>2. m \in Nat /\ ~ \E q : Run(q, m)
    OBVIOUS
  <2>3. CASE m = 0
    <3> DEFINE q == [j \in 0 .. 0 |-> {[f |-> g, r |-> 0, left |-> s]}]
    <3>1. \A j \in 0 .. 0 : j = 0
      OBVIOUS
    <3>2. Run(q, 0)
      BY <3>1, Zenon
    <3>3. QED
      BY <2>2, <2>3, <3>2, Zenon
  <2>4. CASE m # 0
    <3>1. m - 1 \in Nat /\ ~(m <= m - 1)
      BY <2>2, <2>4
    <3>2. PICK p : Run(p, m - 1)
      BY <2>1, <3>1
    <3> DEFINE q == [j \in 0 .. m |-> IF j = m THEN BlockTurn(p[m - 1]) ELSE p[j]]
    <3>3. ASSUME NEW j \in 0 .. m PROVE q[j] = Next1(q, j)
      <4>1. CASE j = m
        <5>1. m - 1 \in 0 .. m /\ m - 1 # m
          BY <2>2, <2>4, <3>1
        <5>2. q[m - 1] = p[m - 1]
          BY <5>1
        <5>3. QED
          BY <2>4, <4>1, <5>2, Zenon
      <4>2. CASE j # m
        <5>1. j \in 0 .. m - 1 /\ (j # 0 => j - 1 \in 0 .. m /\ j - 1 # m)
          BY <2>2, <4>2
        <5>2. p[j] = Next1(p, j) /\ q[j] = p[j]
          BY <3>2, <4>2, <5>1, Zenon
        <5>3. j # 0 => q[j - 1] = p[j - 1]
          BY <5>1
        <5>4. QED
          BY <5>2, <5>3, Zenon
      <4>3. QED
        BY <4>1, <4>2, Zenon
    <3> HIDE DEF Next1
    <3>4. q = [j \in 0 .. m |-> q[j]]
      BY Zenon
    <3> HIDE DEF q
    <3>5. Run(q, m)
      BY <3>3, <3>4, Zenon
    <3>6. QED
      BY <2>2, <3>5, Zenon
  <2>5. QED
    BY <2>3, <2>4
<1> DEFINE f0 == CHOOSE q : Run(q, Len(s))
<1>3. Run(f0, Len(s))
  <2>1. \E q : Run(q, Len(s))
    BY <1>1, <1>2
  <2> HIDE DEF Run
  <2>2. QED
    BY <2>1, Zenon
<1>4. PutBlocks(g, s) = {Ret(o.f, o.r) : o \in f0[Len(s)]}
  BY Zenon DEF PutBlocks, BlockTurn, Then
<1> HIDE DEF f0
<1>5. 0 \in 0 .. Len(s) /\ \A j \in 1 .. Len(s) : j \in 0 .. Len(s) /\ j # 0
  BY <1>1
<1>6. \A j \in 0 .. Len(s) : f0[j] = Next1(f0, j)
  BY <1>3, Zenon
<1>7. f0[0] = {[f |-> g, r |-> 0, left |-> s]} /\ \A j \in 1 .. Len(s) : f0[j] = BlockTurn(f0[j - 1])
  BY <1>5, <1>6, Zenon
<1>8. QED
  BY <1>4, <1>7, Zenon

(* The block buffered loop: every turn writes a byte at least. *)
LEMMA PutBlocksIs ==
  ASSUME NEW g, Sound(g), g.ok, ~Input(g), "NOBUF" \notin g.flags,
         NEW s \in Bytes, NEW o \in PutBlocks(g, s)
  PROVE  /\ Sound(o.f)
         /\ o.r = 0 => o.f.ok /\ (Fit(g) => Added(g, s, o.f))
         /\ o.r # 0 /\ o.f.ok /\ Fit(g) => o.r = EOF /\ Some(g, s, o.f)
<1> DEFINE Left(x, k) == /\ x.left = SubSeq(s, k + 1, Len(s))
                         /\ Fit(g) => Added(g, SubSeq(s, 1, k), x.f)
           I(x, j) ==
             /\ Sound(x.f) /\ x.left \in Bytes
             /\ x.r = 0 => /\ x.f.ok /\ ~Input(x.f) /\ (x.left # <<>> => "NOBUF" \notin x.f.flags)
                           /\ \E k \in j .. Len(s) : Left(x, k)
             /\ x.r # 0 => x.left = <<>> /\ (x.f.ok /\ Fit(g) => x.r = EOF /\ Some(g, s, x.f))
<1>1. PICK q : /\ PutBlocks(g, s) = {Ret(o1.f, o1.r) : o1 \in q[Len(s)]}
               /\ q[0] = {[f |-> g, r |-> 0, left |-> s]}
               /\ \A j \in 1 .. Len(s) : q[j] = BlockTurn(q[j - 1])
  BY PutBlocksRuns, Zenon
<1> DEFINE S == {j \in 0 .. Len(s) : \A x \in q[j] : I(x, j)}
<1>2. Len(s) \in Nat /\ Len(s) \in Int
  BY LenIs
<1>3. SubSeq(s, 1, 0) = <<>> /\ SubSeq(s, 1, Len(s)) = s /\ SubSeq(s, 0 + 1, Len(s)) = s
  BY WholeIs
<1>4. 0 \in S
  <2>1. ASSUME NEW x \in q[0] PROVE I(x, 0)
    <3>1. x.f = g /\ x.r = 0 /\ x.left = s
      BY <1>1, <2>1
    <3>2. Fit(g) => Added(g, <<>>, g)
      <4>1. Fit(g) => SameView(g, g)
        BY DEF SameView
      <4>2. QED
        BY <4>1, AddedSame
    <3>3. Left(x, 0)
      BY <1>3, <3>1, <3>2, Zenon
    <3>4. 0 \in 0 .. Len(s)
      BY <1>2
    <3> HIDE DEF Left
    <3>5. QED
      BY <3>1, <3>3, <3>4
  <2>2. QED
    BY <1>2, <2>1
<1>5. ASSUME NEW j \in 1 .. Len(s), j - 1 \in S PROVE j \in S
  <2>1. ASSUME NEW x \in q[j] PROVE I(x, j)
    <3>1. PICK w \in q[j - 1] : x \in (IF w.left = <<>> THEN {w} ELSE Block(w.f, w.left))
      <4>1. x \in BlockTurn(q[j - 1])
        BY <1>1
      <4>2. QED
        BY <4>1, Zenon DEF BlockTurn, Then
    <3>2. I(w, j - 1)
      BY <1>5
    <3>3. CASE w.r # 0
      <4>1. x = w
        BY <3>1, <3>2, <3>3
      <4> HIDE DEF Left
      <4>2. QED
        BY <3>2, <3>3, <4>1
    <3>4. CASE w.r = 0
      <4>1. PICK m \in j - 1 .. Len(s) : Left(w, m)
        BY <3>2, <3>4
      <4>2. m \in Nat /\ m <= Len(s) /\ m \in 0 .. Len(s)
        BY <1>2
      <4>3. Len(w.left) = Len(s) - m
        <5>1. Len(SubSeq(s, m + 1, Len(s))) = IF Len(s) > m THEN Len(s) - m ELSE 0
          BY <1>2, <4>2, PartIs
        <5>2. QED
          BY <1>2, <4>1, <4>2, <5>1
      <4>4. CASE w.left = <<>>
        <5>1. x = w /\ m = Len(s)
          BY <1>2, <3>1, <4>2, <4>3, <4>4, NoBytes
        <5>2. m \in j .. Len(s)
          BY <1>2, <5>1
        <5> HIDE DEF Left
        <5>3. QED
          BY <3>2, <3>4, <4>1, <5>1, <5>2
      <4>5. CASE w.left # <<>>
        <5>1. /\ Sound(w.f) /\ w.f.ok /\ ~Input(w.f) /\ "NOBUF" \notin w.f.flags /\ w.left \in Bytes
              /\ x \in Block(w.f, w.left)
          BY <3>1, <3>2, <3>4, <4>5
        <5>2. BlockDone(w.f, w.left, x)
          BY <4>5, <5>1, BlockIs
        <5>3. w.left = SubSeq(s, m + 1, Len(s)) /\ (Fit(g) => Added(g, SubSeq(s, 1, m), w.f))
          BY <4>1
        <5>4. CASE x.r # 0
          <6>1. /\ Sound(x.f) /\ x.left = <<>> /\ x.left \in Bytes
                /\ x.f.ok /\ Fit(w.f) => x.r = EOF /\ Some(w.f, w.left, x.f)
            BY <5>2, <5>4 DEF BlockDone
          <6>2. ASSUME x.f.ok, Fit(g) PROVE x.r = EOF /\ Some(g, s, x.f)
            <7>1. Added(g, SubSeq(s, 1, m), w.f) /\ Fit(w.f)
              BY <5>3, <6>2, FitOfAdded
            <7>2. Some(w.f, SubSeq(s, m + 1, Len(s)), x.f) /\ x.r = EOF
              BY <5>3, <6>1, <6>2, <7>1
            <7>3. QED
              BY <4>2, <6>2, <7>1, <7>2, SomeRest
          <6>3. QED
            BY <5>4, <6>1, <6>2
        <5>5. CASE x.r = 0
          <6>1. PICK k \in 1 .. Len(w.left) : /\ x.left = SubSeq(w.left, k + 1, Len(w.left))
                                              /\ Fit(w.f) => Added(w.f, SubSeq(w.left, 1, k), x.f)
            BY <5>2, <5>5 DEF BlockDone
          <6>2. /\ k \in Nat /\ m + k \in j .. Len(s) /\ k \in 0 .. Len(s) - m /\ m + k <= Len(s)
                /\ Len(w.left) \in Nat /\ k <= Len(w.left) /\ m + Len(w.left) <= Len(s) /\ m + Len(w.left) = Len(s)
            BY <1>2, <4>2, <4>3
          <6>3. x.left = SubSeq(s, m + k + 1, Len(s))
            <7> DEFINE b == Len(w.left)
            <7>0. b \in Nat /\ k <= b /\ m + b <= Len(s) /\ m + b = Len(s)
              BY <6>2
            <7> HIDE DEF b
            <7>1. SubSeq(SubSeq(s, m + 1, Len(s)), k + 1, b) = SubSeq(s, m + k + 1, m + b)
              BY <4>2, <6>2, <7>0, PartOfPart
            <7>2. x.left = SubSeq(w.left, k + 1, b)
              BY <6>1 DEF b
            <7>3. QED
              BY <5>3, <7>0, <7>1, <7>2, Zenon
          <6>4. ASSUME Fit(g) PROVE Added(g, SubSeq(s, 1, m + k), x.f)
            <7>1. Added(g, SubSeq(s, 1, m), w.f) /\ Fit(w.f)
              BY <5>3, <6>4, FitOfAdded
            <7>2. Added(w.f, SubSeq(SubSeq(s, m + 1, Len(s)), 1, k), x.f)
              BY <5>3, <6>1, <7>1
            <7>3. QED
              BY <4>2, <6>2, <6>4, <7>1, <7>2, SomeMore
          <6>5. Left(x, m + k)
            BY <6>3, <6>4
          <6>6. /\ Sound(x.f) /\ x.left \in Bytes /\ x.f.ok /\ ~Input(x.f)
                /\ (x.left # <<>> => "NOBUF" \notin x.f.flags)
            BY <5>2, <5>5 DEF BlockDone
          <6> HIDE DEF Left
          <6>7. QED
            BY <5>5, <6>2, <6>5, <6>6
        <5>6. QED
          BY <5>4, <5>5
      <4>6. QED
        BY <4>4, <4>5
    <3>5. QED
      BY <3>3, <3>4
  <2> HIDE DEF I
  <2>2. j \in 0 .. Len(s)
    BY <1>2
  <2>3. QED
    BY <2>1, <2>2
<1> HIDE DEF S
<1>6. Len(s) \in S
  BY <1>2, <1>4, <1>5, AllTurns
<1>7. PICK x \in q[Len(s)] : o = Ret(x.f, x.r)
  BY <1>1, Zenon
<1>8. I(x, Len(s)) /\ o.f = x.f /\ o.r = x.r
  BY <1>6, <1>7 DEF S, Ret
<1>9. x.r = 0 => (Fit(g) => Added(g, s, x.f))
  <2>1. ASSUME x.r = 0 PROVE Left(x, Len(s))
    <3>1. PICK k \in Len(s) .. Len(s) : Left(x, k)
      BY <1>8, <2>1
    <3>2. k = Len(s)
      BY <1>2
    <3>3. QED
      BY <3>1, <3>2
  <2>2. QED
    BY <1>3, <2>1
<1> HIDE DEF Left
<1>10. QED
  BY <1>8, <1>9

(* fwrite, once the stream is an output stream. *)
Counted(s, o) == Ret(o.f, CASE o.r = EOF -> 0 [] o.r = 0 -> Len(s) [] OTHER -> o.r)

(* fwrite after the change of direction, in its three forms. *)
WriteStep(h, s) ==
  LET todo == IF h.buflen - h.bm > Len(s) THEN Len(s) ELSE h.buflen - h.bm
  IN  IF Len(s) > h.buflen \/ "NOBUF" \in h.flags
      THEN Then(fflush(h), LAMBDA b :
           IF b.r # 0 THEN {Ret(b.f, 0)}
           ELSE {IF w.r = -1 THEN Ret(Set(w.f, {"ERR"}), 0) ELSE w : w \in write(b.f, s)})
      ELSE IF "BUFLINEWISE" \in h.flags
      THEN Then(PutLines(h, SubSeq(s, 1, todo)), LAMBDA b :
           IF b.r # 0 THEN {Counted(s, b)}
           ELSE {Counted(s, o) : o \in PutEach(b.f, SubSeq(s, todo + 1, Len(s)))})
      ELSE {Counted(s, o) : o \in PutBlocks(h, s)}

(* All bytes were written, or some of them with an error. *)
Stored(g, s, o) ==
  \E k \in 0 .. Len(s) : /\ Added(g, SubSeq(s, 1, k), o.f)
                         /\ k < Len(s) => o.r < Len(s) /\ "ERR" \in o.f.flags

(* All was written. *)
LEMMA StoredAll ==
  ASSUME NEW g, NEW s \in Bytes, NEW o, Added(g, s, o.f)
  PROVE  Stored(g, s, o)
<1>1. SubSeq(s, 1, Len(s)) = s
  BY WholeIs
<1>2. Len(s) \in 0 .. Len(s) /\ ~(Len(s) < Len(s))
  BY LenIs
<1>3. QED
  BY <1>1, <1>2, Zenon DEF Stored

(* Some was written and 0 returned. *)
LEMMA StoredSome ==
  ASSUME NEW g, NEW s \in Bytes, s # <<>>, NEW o, o.r = 0, Some(g, s, o.f)
  PROVE  Stored(g, s, o)
<1>1. o.r < Len(s)
  BY LenIs
<1>2. QED
  BY <1>1, Zenon DEF Stored, Some

(* Nothing was written and 0 returned. *)
LEMMA StoredNone ==
  ASSUME NEW g, NEW s \in Bytes, s # <<>>, NEW o, o.r = 0, "ERR" \in o.f.flags, Added(g, <<>>, o.f)
  PROVE  Stored(g, s, o)
<1>1. SubSeq(s, 1, 0) = <<>> /\ 0 \in 0 .. Len(s)
  BY WholeIs, LenIs
<1>2. Some(g, s, o.f)
  BY <1>1, Zenon DEF Some
<1>3. QED
  BY <1>2, StoredSome

(* The count that fwrite makes of an outcome. *)
LEMMA CountedIs ==
  ASSUME NEW s, NEW o
  PROVE  /\ Counted(s, o).f = o.f
         /\ o.r = EOF => Counted(s, o).r = 0
BY DEF Counted, Ret, EOF

(* fwrite past the buffer. *)
LEMMA DirectStep ==
  ASSUME NEW g, Sound(g), g.ok, ~Input(g), NEW s \in Bytes, s # <<>>, NEW b \in fflush(g),
         NEW o \in (IF b.r # 0 THEN {Ret(b.f, 0)}
                    ELSE {IF w.r = -1 THEN Ret(Set(w.f, {"ERR"}), 0) ELSE w : w \in write(b.f, s)})
  PROVE  Sound(o.f) /\ (Fit(g) /\ o.f.ok => Stored(g, s, o))
<1>1. /\ Sound(b.f) /\ ~Input(b.f)
      /\ b.r = 0 => b.f.bm = 0 /\ b.f.ok
      /\ b.f.ok /\ Fit(g) => Added(g, <<>>, b.f)
      /\ b.r # 0 => "ERR" \in b.f.flags
  BY Emptying
<1>2. CASE b.r # 0
  <2>1. o.f = b.f /\ o.r = 0
    BY <1>2 DEF Ret
  <2>2. QED
    BY <1>1, <1>2, <2>1, StoredNone
<1>3. CASE b.r = 0
  <2>1. PICK w \in write(b.f, s) : o = IF w.r = -1 THEN Ret(Set(w.f, {"ERR"}), 0) ELSE w
    BY <1>3, Zenon
  <2>2. Wrote(b.f, s, w)
    BY <1>1, WriteIs
  <2>3. CASE w.r = -1
    <3>1. w.f = b.f
      BY <2>2, <2>3 DEF Wrote
    <3> DEFINE h == Set(b.f, {"ERR"})
    <3>2. o.f = h /\ o.r = 0
      BY <2>1, <2>3, <3>1 DEF Ret
    <3>3. /\ Kaputt(b.f).f = h /\ Sound(h) /\ "ERR" \in h.flags
          /\ Fit(b.f) => SameView(h, b.f) /\ (Input(h) <=> Input(b.f))
      BY <1>1, KaputtIs
    <3> HIDE DEF h
    <3>4. ASSUME Fit(g) PROVE Added(g, <<>>, h)
      <4>1. Added(g, <<>>, b.f) /\ Fit(b.f)
        BY <1>1, <1>3, <3>4, FitOfAdded
      <4>2. Added(b.f, <<>>, h)
        BY <1>1, <3>3, <4>1, AddedSame
      <4>3. QED
        BY <3>4, <4>1, <4>2, NoneJoin, NoBytes
    <3>5. QED
      BY <3>2, <3>3, <3>4, StoredNone
  <2>4. CASE w.r # -1
    <3>1. o = w
      BY <2>1, <2>4
    <3>2. Sound(w.f)
      BY <2>2 DEF Wrote
    <3>3. ASSUME Fit(g), w.f.ok PROVE Stored(g, s, w)
      <4>1. Added(g, <<>>, b.f) /\ Fit(b.f)
        BY <1>1, <1>3, <3>3, FitOfAdded
      <4>2. Added(b.f, s, w.f)
        BY <1>1, <1>3, <2>2, <2>4, <3>3, <4>1, DirectIs
      <4>3. Added(g, s, w.f)
        BY <3>3, <4>1, <4>2, NoneJoin
      <4>4. QED
        BY <4>3, StoredAll
    <3>4. QED
      BY <3>1, <3>2, <3>3
  <2>5. QED
    BY <2>3, <2>4
<1>4. QED
  BY <1>2, <1>3

(* fwrite of a line buffered stream. *)
LEMMA LineStep ==
  ASSUME NEW g, Sound(g), g.ok, ~Input(g), "NOBUF" \notin g.flags, NEW s \in Bytes, s # <<>>,
         NEW m \in 0 .. Len(s), g.bm + m <= g.buflen, NEW b \in PutLines(g, SubSeq(s, 1, m)),
         NEW o \in (IF b.r # 0 THEN {Counted(s, b)}
                    ELSE {Counted(s, p) : p \in PutEach(b.f, SubSeq(s, m + 1, Len(s)))})
  PROVE  Sound(o.f) /\ (Fit(g) /\ o.f.ok => Stored(g, s, o))
<1> DEFINE u == SubSeq(s, 1, m)
           v == SubSeq(s, m + 1, Len(s))
<1>1. Len(s) \in Nat /\ m \in Nat /\ m <= Len(s) /\ Len(s) \in Int
  BY LenIs
<1>2. u \in Bytes /\ Len(u) = m
  BY <1>1, PrefixIs
<1>3. v \in Bytes
  BY <1>1, PartIs
<1>4. u \o v = s
  <2>0. Len(s) <= Len(s)
    BY <1>1
  <2>1. u \o v = SubSeq(s, 1, Len(s))
    BY <1>1, <2>0, PrefixJoin
  <2>2. QED
    BY <2>1, WholeIs, Zenon
<1>5. /\ Sound(b.f) /\ b.r \in {0, EOF}
      /\ b.r = 0 => b.f.ok /\ ~Input(b.f) /\ (Fit(g) => Added(g, u, b.f))
      /\ b.r # 0 /\ b.f.ok /\ Fit(g) => Some(g, u, b.f)
  <2>1. b \in PutLines(g, u) /\ g.bm + Len(u) <= g.buflen
    BY <1>2
  <2> HIDE DEF u
  <2>2. QED
    BY <1>2, <2>1, PutLinesIs
<1>6. CASE b.r # 0
  <2>1. o = Counted(s, b)
    BY <1>6
  <2>2. o.f = b.f /\ o.r = 0
    BY <1>5, <1>6, <2>1, CountedIs
  <2>3. ASSUME Fit(g), b.f.ok PROVE Some(g, s, b.f)
    <3>1. PICK k \in 0 .. Len(u) : Added(g, SubSeq(u, 1, k), b.f)
      BY <1>5, <1>6, <2>3 DEF Some
    <3>2. "ERR" \in b.f.flags
      BY <1>5, <1>6, <2>3 DEF Some
    <3>3. SubSeq(u, 1, k) = SubSeq(s, 1, k)
      <4>1. k \in Nat /\ k <= Len(u) /\ k <= Len(s) /\ k <= m
        BY <1>1, <1>2
      <4> HIDE DEF u
      <4>2. SubSeq(u, 1, k) \in Bytes /\ Len(SubSeq(u, 1, k)) = k /\ \A j \in 1 .. k : SubSeq(u, 1, k)[j] = u[j]
        BY <1>2, <4>1, PrefixIs, PrefixAt
      <4>3. SubSeq(s, 1, k) \in Bytes /\ Len(SubSeq(s, 1, k)) = k /\ \A j \in 1 .. k : SubSeq(s, 1, k)[j] = s[j]
        BY <4>1, PrefixIs, PrefixAt
      <4>4. \A j \in 1 .. k : u[j] = s[j]
        <5>1. \A j \in 1 .. m : u[j] = s[j]
          BY <1>1, PrefixAt DEF u
        <5>2. QED
          BY <1>1, <4>1, <5>1
      <4>5. \A j \in 1 .. Len(SubSeq(u, 1, k)) : SubSeq(u, 1, k)[j] = SubSeq(s, 1, k)[j]
        BY <4>2, <4>3, <4>4
      <4>6. QED
        BY <4>2, <4>3, <4>5, SameBytes
    <3>4. k \in 0 .. Len(s)
      BY <1>1, <1>2
    <3>5. Added(g, SubSeq(s, 1, k), b.f)
      BY <3>1, <3>3, Zenon
    <3>6. QED
      BY <3>2, <3>4, <3>5 DEF Some
  <2>4. QED
    BY <1>5, <2>2, <2>3, StoredSome
<1>7. CASE b.r = 0
  <2>1. PICK p \in PutEach(b.f, v) : o = Counted(s, p)
    BY <1>7, Zenon
  <2> HIDE DEF u, v
  <2>2. /\ Sound(p.f) /\ (p.r # 0 => ~p.f.ok)
        /\ p.r = 0 => p.f.ok /\ (Fit(b.f) => Added(b.f, v, p.f))
    BY <1>3, <1>5, <1>7, PutEachIs
  <2>3. o.f = p.f
    BY <2>1, CountedIs
  <2>4. ASSUME Fit(g), p.f.ok PROVE Added(g, s, p.f)
    <3>1. Added(g, u, b.f) /\ Fit(b.f)
      BY <1>5, <1>7, <2>4, FitOfAdded
    <3>2. Added(b.f, v, p.f)
      BY <2>2, <2>4, <3>1
    <3>3. Added(g, u \o v, p.f)
      BY <1>2, <1>3, <2>4, <3>1, <3>2, AddedJoin
    <3>4. QED
      BY <1>4, <3>3, Zenon
  <2>5. QED
    BY <2>2, <2>3, <2>4, StoredAll
<1>8. QED
  BY <1>6, <1>7

(* fwrite in each of its forms. *)
LEMMA WriteStepIs ==
  ASSUME NEW g, Sound(g), g.ok, ~Input(g), NEW s \in Bytes, s # <<>>, NEW o \in WriteStep(g, s)
  PROVE  Sound(o.f) /\ (Fit(g) /\ o.f.ok => Stored(g, s, o))
<1> DEFINE todo == IF g.buflen - g.bm > Len(s) THEN Len(s) ELSE g.buflen - g.bm
<1>1. CASE Len(s) > g.buflen \/ "NOBUF" \in g.flags
  <2>1. PICK b \in fflush(g) :
          o \in (IF b.r # 0 THEN {Ret(b.f, 0)}
                 ELSE {IF w.r = -1 THEN Ret(Set(w.f, {"ERR"}), 0) ELSE w : w \in write(b.f, s)})
    BY <1>1, Zenon DEF WriteStep, Then
  <2>2. QED
    BY <2>1, DirectStep, Zenon
<1>2. CASE ~(Len(s) > g.buflen \/ "NOBUF" \in g.flags) /\ "BUFLINEWISE" \in g.flags
  <2>1. PICK b \in PutLines(g, SubSeq(s, 1, todo)) :
          o \in (IF b.r # 0 THEN {Counted(s, b)}
                 ELSE {Counted(s, p) : p \in PutEach(b.f, SubSeq(s, todo + 1, Len(s)))})
    BY <1>2, Zenon DEF WriteStep, Then
  <2>2. todo \in 0 .. Len(s) /\ g.bm + todo <= g.buflen
    BY Fields, LenIs DEF Sound
  <2> HIDE DEF todo
  <2>3. QED
    BY <1>2, <2>1, <2>2, LineStep, Zenon
<1>3. CASE ~(Len(s) > g.buflen \/ "NOBUF" \in g.flags) /\ "BUFLINEWISE" \notin g.flags
  <2>1. PICK p \in PutBlocks(g, s) : o = Counted(s, p)
    BY <1>3, Zenon DEF WriteStep
  <2>2. /\ Sound(p.f)
        /\ p.r = 0 => p.f.ok /\ (Fit(g) => Added(g, s, p.f))
        /\ p.r # 0 /\ p.f.ok /\ Fit(g) => p.r = EOF /\ Some(g, s, p.f)
    BY <1>3, PutBlocksIs
  <2>3. o.f = p.f /\ (p.r = EOF => o.r = 0)
    BY <2>1, CountedIs
  <2>4. ASSUME Fit(g), p.f.ok PROVE Stored(g, s, o)
    <3>1. CASE p.r = 0
      BY <2>2, <2>3, <2>4, <3>1, StoredAll
    <3>2. CASE p.r # 0
      BY <2>2, <2>3, <2>4, <3>2, StoredSome
    <3>3. QED
      BY <3>1, <3>2
  <2>5. QED
    BY <2>2, <2>3, <2>4
<1>4. QED
  BY <1>1, <1>2, <1>3

(* fwrite, of any stream. *)
LEMMA FWriteIs ==
  ASSUME NEW g, Sound(g), g.ok, NEW s \in Bytes, s # <<>>, NEW o \in fwrite(g, s)
  PROVE  /\ Sound(o.f)
         /\ Fit(g) /\ o.f.ok => \/ o.r = 0 /\ "ERR" \in o.f.flags /\ SameView(o.f, g)
                                \/ \E h : Ready(h, g) /\ Stored(h, s, o)
<1>1. CASE "CANWRITE" \notin g.flags
  <2>1. o = Ret(Set(g, {"ERR"}), 0)
    BY <1>1, Zenon DEF fwrite
  <2>2. o.f = Set(g, {"ERR"}) /\ o.r = 0
    BY <2>1 DEF Ret
  <2>3. QED
    BY <2>2, KaputtIs
<1>2. CASE "CANWRITE" \in g.flags
  <2>1. PICK a \in fflush4(g, {}) :
          o \in (IF a.r # 0 THEN {Ret(Set(a.f, {"ERR"}), 0)} ELSE WriteStep(a.f, s))
    BY <1>2, Zenon DEF fwrite, WriteStep, Then, Counted
  <2>2. /\ Sound(a.f) /\ (a.r # 0 => ~a.f.ok)
        /\ a.r = 0 => a.f.ok /\ ~Input(a.f) /\ (Fit(g) => Ready(a.f, g))
    BY TurnOut
  <2>3. CASE a.r # 0
    <3>1. o.f = Set(a.f, {"ERR"})
      BY <2>1, <2>3 DEF Ret
    <3>2. Sound(o.f) /\ o.f.ok = a.f.ok
      BY <2>2, <3>1, KaputtIs
    <3>3. QED
      BY <2>2, <2>3, <3>2
  <2>4. CASE a.r = 0
    <3>1. Sound(o.f) /\ (Fit(a.f) /\ o.f.ok => Stored(a.f, s, o))
      BY <2>1, <2>2, <2>4, WriteStepIs
    <3>2. Ready(a.f, g) => Fit(a.f)
      BY DEF Ready
    <3>3. QED
      BY <2>2, <2>4, <3>1, <3>2
  <2>5. QED
    BY <2>3, <2>4
<1>3. QED
  BY <1>1, <1>2

-----------------------------------------------------------------------------
(* Reading.                                                                *)

(* What can still be read of a stream. *)
RestOf(g) == SubSeq(ContentOf(g), PosOf(g) + 1, Len(ContentOf(g)))
(* All that is still to be read, the pushed back byte first. *)
AheadOf(g) == g.ungotten \o RestOf(g)

(* The bytes u were read. *)
Took(g, u, h) ==
  /\ Fit(h) /\ h.open = g.open /\ ContentOf(h) = ContentOf(g) /\ AheadOf(g) = u \o AheadOf(h)
  /\ u = <<>> => PosOf(h) = PosOf(g) /\ h.ungotten = g.ungotten
  /\ u # <<>> => h.ungotten = <<>> /\ PosOf(h) = PosOf(g) + Len(u) - Len(g.ungotten)

(* What is to be read. *)
LEMMA RestIs ==
  ASSUME NEW g, Fit(g)
  PROVE  /\ RestOf(g) \in Bytes /\ AheadOf(g) \in Bytes /\ Len(RestOf(g)) = Len(ContentOf(g)) - PosOf(g)
         /\ Len(AheadOf(g)) = Len(g.ungotten) + Len(RestOf(g))
<1> DEFINE a == ContentOf(g)
           p == PosOf(g)
<1>1. a \in Bytes /\ p \in Nat /\ Len(a) \in Nat /\ Len(a) \in Int /\ p <= Len(a) /\ g.ungotten \in Bytes
  BY ViewIs
<1> HIDE DEF a, p
<1>2. SubSeq(a, p + 1, Len(a)) \in Bytes /\ Len(SubSeq(a, p + 1, Len(a))) = IF Len(a) > p THEN Len(a) - p ELSE 0
  BY <1>1, PartIs
<1>3. RestOf(g) \in Bytes /\ Len(RestOf(g)) = Len(a) - p
  BY <1>1, <1>2 DEF RestOf, a, p
<1>4. QED
  BY <1>1, <1>3, JoinIs DEF AheadOf, a, p

(* The rest split at a later position. *)
LEMMA SplitRest ==
  ASSUME NEW a \in Bytes, NEW p \in Nat, NEW q \in Nat, p <= q, q <= Len(a)
  PROVE  /\ SubSeq(a, p + 1, Len(a)) = SubSeq(a, p + 1, q) \o SubSeq(a, q + 1, Len(a))
         /\ SubSeq(a, p + 1, q) \in Bytes /\ Len(SubSeq(a, p + 1, q)) = q - p
<1> DEFINE r == SubSeq(a, p + 1, Len(a))
           n == q - p
           e == Len(a) - p
<1>1. /\ Len(a) \in Nat /\ Len(a) \in Int /\ p <= Len(a) /\ n \in Nat /\ e \in Nat /\ n <= e /\ q \in Int
      /\ p + n <= Len(a) /\ p + e <= Len(a) /\ 0 <= n /\ p + n = q /\ p + e = Len(a) /\ p + 0 + 1 = p + 1
      /\ 0 \in Nat /\ e <= e
  BY LenIs
<1>2. r \in Bytes /\ Len(r) = IF Len(a) > p THEN Len(a) - p ELSE 0
  BY <1>1, PartIs
<1>3. Len(r) = e
  <2>1. \A l, x \in Nat : x <= l => (IF l > x THEN l - x ELSE 0) = l - x
    OBVIOUS
  <2>2. (IF Len(a) > p THEN Len(a) - p ELSE 0) = Len(a) - p
    BY <1>1, <2>1, Zenon
  <2>3. QED
    BY <1>2, <2>2, Zenon
<1> HIDE DEF n, e
<1>4. SubSeq(r, 0 + 1, n) = SubSeq(a, p + 0 + 1, p + n)
  BY <1>1, PartOfPart
<1>5. SubSeq(r, n + 1, e) = SubSeq(a, p + n + 1, p + e)
  BY <1>1, PartOfPart
<1> HIDE DEF r
<1>6. SubSeq(r, 1, n) \o SubSeq(r, n + 1, e) = SubSeq(r, 1, e)
  BY <1>1, <1>2, <1>3, PrefixJoin
<1>7. SubSeq(r, 1, e) = r
  BY <1>2, <1>3, WholeIs
<1>8. 0 + 1 = 1
  OBVIOUS
<1>9. r = SubSeq(a, p + 1, q) \o SubSeq(a, q + 1, Len(a))
  BY <1>1, <1>4, <1>5, <1>6, <1>7, <1>8, Zenon
<1>10. /\ SubSeq(a, p + 1, q) \in Bytes /\ Len(SubSeq(a, p + 1, q)) = IF q > p THEN q - p ELSE 0
  BY <1>1, PartIs
<1>11. (IF q > p THEN q - p ELSE 0) = q - p
  BY <1>1
<1>12. QED
  BY <1>9, <1>10, <1>11 DEF r

(* The empty sequence is neutral. *)
LEMMA NoneIs ==
  ASSUME NEW s \in Bytes
  PROVE  <<>> \o s = s /\ s \o <<>> = s
BY DEF Bytes

(* Nothing has been read when the view is the same. *)
LEMMA TookSame ==
  ASSUME NEW g, Fit(g), NEW h, SameView(h, g)
  PROVE  Took(g, <<>>, h) /\ AheadOf(h) = AheadOf(g)
<1>1. /\ Fit(h) /\ ContentOf(h) = ContentOf(g) /\ PosOf(h) = PosOf(g) /\ h.ungotten = g.ungotten
      /\ h.open = g.open
  BY DEF SameView
<1>2. AheadOf(h) = AheadOf(g)
  BY <1>1, Zenon DEF AheadOf, RestOf
<1>3. AheadOf(g) \in Bytes
  BY RestIs
<1>4. <<>> \o AheadOf(g) = AheadOf(g)
  BY <1>3, NoneIs
<1>5. QED
  BY <1>1, <1>2, <1>4 DEF Took

(* With nothing pushed back, what lies between the positions. *)
LEMMA TookRest ==
  ASSUME NEW g, Fit(g), NEW h, Fit(h), ContentOf(h) = ContentOf(g), h.open = g.open,
         g.ungotten = <<>>, h.ungotten = <<>>, PosOf(g) <= PosOf(h)
  PROVE  /\ Took(g, SubSeq(ContentOf(g), PosOf(g) + 1, PosOf(h)), h)
         /\ Len(SubSeq(ContentOf(g), PosOf(g) + 1, PosOf(h))) = PosOf(h) - PosOf(g)
<1> DEFINE a == ContentOf(g)
           p == PosOf(g)
           q == PosOf(h)
           u == SubSeq(a, p + 1, q)
<1>1. a \in Bytes /\ p \in Nat /\ q \in Nat /\ q <= Len(a) /\ p <= q
  BY ViewIs
<1>2. RestOf(g) \in Bytes /\ RestOf(h) \in Bytes
  BY RestIs
<1>3. AheadOf(g) = RestOf(g) /\ AheadOf(h) = RestOf(h)
  BY <1>2, NoneIs DEF AheadOf
<1>4. RestOf(g) = SubSeq(a, p + 1, Len(a)) /\ RestOf(h) = SubSeq(a, q + 1, Len(a))
  BY DEF RestOf
<1> HIDE DEF a, p, q
<1>5. SubSeq(a, p + 1, Len(a)) = u \o SubSeq(a, q + 1, Len(a)) /\ u \in Bytes /\ Len(u) = q - p
  BY <1>1, SplitRest
<1> HIDE DEF u
<1>6. AheadOf(g) = u \o AheadOf(h)
  BY <1>3, <1>4, <1>5, Zenon
<1>7. u = <<>> => q = p
  BY <1>1, <1>5, NoBytes
<1>8. q = p + Len(u) - 0
  BY <1>1, <1>5
<1>9. Took(g, u, h)
  BY <1>6, <1>7, <1>8, NoBytes DEF Took, a, p, q
<1>10. QED
  BY <1>5, <1>9 DEF u, a, p, q

(* Two reads are one of the joined bytes. *)
LEMMA TookJoin ==
  ASSUME NEW g, Fit(g), NEW u \in Bytes, NEW v \in Bytes, NEW h, NEW k, Took(g, u, h), Took(h, v, k)
  PROVE  Took(g, u \o v, k)
<1>1. Fit(h) /\ Fit(k) /\ k.open = g.open /\ ContentOf(k) = ContentOf(g)
  BY DEF Took
<1>2. AheadOf(g) = u \o AheadOf(h) /\ AheadOf(h) = v \o AheadOf(k)
  BY DEF Took
<1>3. AheadOf(k) \in Bytes
  BY <1>1, RestIs
<1>4. (u \o v) \o AheadOf(k) = u \o (v \o AheadOf(k))
  BY <1>3, ConcatAssociative DEF Bytes
<1>5. AheadOf(g) = (u \o v) \o AheadOf(k)
  BY <1>2, <1>4, Zenon
<1>6. /\ Len(u \o v) = Len(u) + Len(v) /\ u \o v \in Bytes /\ Len(u) \in Nat /\ Len(v) \in Nat
      /\ PosOf(g) \in Nat /\ Len(g.ungotten) \in Nat /\ PosOf(h) \in Nat /\ PosOf(k) \in Nat
      /\ Len(h.ungotten) \in Nat
  BY <1>1, JoinIs, LenIs, ViewIs
<1>7. CASE u = <<>>
  <2>1. u \o v = v /\ PosOf(h) = PosOf(g) /\ h.ungotten = g.ungotten
    BY <1>7, NoneIs DEF Took
  <2>2. /\ v = <<>> => PosOf(k) = PosOf(h) /\ k.ungotten = h.ungotten
        /\ v # <<>> => k.ungotten = <<>> /\ PosOf(k) = PosOf(h) + Len(v) - Len(h.ungotten)
    BY DEF Took
  <2>3. QED
    BY <1>1, <1>5, <2>1, <2>2 DEF Took
<1>8. CASE u # <<>> /\ v = <<>>
  <2>1. u \o v = u /\ h.ungotten = <<>> /\ PosOf(h) = PosOf(g) + Len(u) - Len(g.ungotten)
    BY <1>8, NoneIs DEF Took
  <2>2. PosOf(k) = PosOf(h) /\ k.ungotten = h.ungotten
    BY <1>8 DEF Took
  <2>3. QED
    BY <1>1, <1>5, <1>8, <2>1, <2>2 DEF Took
<1>9. CASE u # <<>> /\ v # <<>>
  <2>1. h.ungotten = <<>> /\ PosOf(h) = PosOf(g) + Len(u) - Len(g.ungotten)
    BY <1>9 DEF Took
  <2>2. k.ungotten = <<>> /\ PosOf(k) = PosOf(h) + Len(v) - Len(h.ungotten)
    BY <1>9 DEF Took
  <2>3. Len(u) # 0 /\ Len(h.ungotten) = 0
    BY <1>9, <2>1, LenIs, NoBytes
  <2>4. u \o v # <<>>
    BY <1>6, <2>3, LenIs
  <2>5. PosOf(k) = PosOf(g) + Len(u \o v) - Len(g.ungotten)
    <3>2. PosOf(k) = (PosOf(g) + Len(u) - Len(g.ungotten)) + Len(v) - 0
      BY <2>1, <2>2, <2>3, Zenon
    <3>3. (PosOf(g) + Len(u) - Len(g.ungotten)) + Len(v) - 0 = PosOf(g) + (Len(u) + Len(v)) - Len(g.ungotten)
      <4>1. \A x, y, z \in Nat : (PosOf(g) + x - z) + y - 0 = PosOf(g) + (x + y) - z
        BY <1>6
      <4>2. Len(u) \in Nat /\ Len(v) \in Nat /\ Len(g.ungotten) \in Nat
        BY <1>6
      <4>3. QED
        BY <4>1, <4>2, Zenon
    <3>4. Len(u \o v) = Len(u) + Len(v)
      BY <1>6
    <3>5. QED
      BY <3>2, <3>3, <3>4, Zenon
  <2>6. QED
    BY <1>1, <1>5, <2>2, <2>4, <2>5 DEF Took
<1>10. QED
  BY <1>7, <1>8, <1>9

(* The stream has turned to input. *)
LEMMA TurnIn ==
  ASSUME NEW g, Sound(g), g.ok, NEW a \in fflush4(g, {"BUFINPUT"})
  PROVE  /\ Sound(a.f) /\ a.r \in {0, -1} /\ (a.r # 0 => ~a.f.ok)
         /\ a.r = 0 => a.f.ok /\ Input(a.f) /\ ("EOF" \in a.f.flags <=> "EOF" \in g.flags)
         /\ a.r = 0 /\ g.ungotten = <<>> => a.f.ungotten = <<>> /\ (Fit(g) => SameView(a.f, g))
<1>1. Turned(g, {"BUFINPUT"}, a)
  BY TurnIs
<1>2. /\ Sound(a.f) /\ a.r \in {0, -1} /\ (a.r # 0 => ~a.f.ok)
      /\ a.r = 0 => a.f.ok /\ Input(a.f) /\ a.f.flags \ {"BUFINPUT"} = g.flags \ {"BUFINPUT"}
      /\ a.r = 0 /\ Fit(g) => SameView(a.f, g) \/ EmptiedFit(a.f, g)
      /\ a.r = 0 /\ g.ungotten = <<>> => a.f.ungotten = <<>>
  BY <1>1 DEF Turned
<1>3. a.r = 0 => ("EOF" \in a.f.flags <=> "EOF" \in g.flags)
  BY <1>2
<1>4. ASSUME Fit(g), g.ungotten = <<>>, EmptiedFit(a.f, g) PROVE SameView(a.f, g)
  <2>1. PosOf(g) - Len(g.ungotten) = PosOf(g)
    BY <1>4, ViewIs, NoBytes
  <2>2. QED
    BY <1>4, <2>1 DEF SameView, EmptiedFit
<1>5. QED
  BY <1>2, <1>3, <1>4

(* A part given by its length. *)
LEMMA SpanIs ==
  ASSUME NEW a \in Bytes, NEW m \in Nat, NEW n \in Nat, m + n <= Len(a)
  PROVE  /\ SubSeq(a, m + 1, m + n) \in Bytes /\ Len(SubSeq(a, m + 1, m + n)) = n
         /\ \A j \in 1 .. n : SubSeq(a, m + 1, m + n)[j] = a[m + j]
<1> DEFINE e == m + n
<1>1. e \in Int /\ e <= Len(a) /\ (IF e > m THEN e - m ELSE 0) = n /\ e - m = n
  OBVIOUS
<1> HIDE DEF e
<1>2. SubSeq(a, m + 1, e) \in Bytes /\ Len(SubSeq(a, m + 1, e)) = n
  BY <1>1, PartIs
<1>3. \A j \in 1 .. e - m : SubSeq(a, m + 1, e)[j] = a[m + j]
  BY <1>1, PartAt
<1>4. QED
  BY <1>1, <1>2, <1>3 DEF e

(* A byte pushed back is taken. *)
LEMMA DropIs ==
  ASSUME NEW g, Sound(g)
  PROVE  LET h == [g EXCEPT !.ungotten = <<>>] IN
         /\ Sound(h) /\ SameBut(h, g, {"ungotten"}) /\ h.ungotten = <<>>
         /\ Fit(g) => Took(g, g.ungotten, h)
<1> DEFINE h == [g EXCEPT !.ungotten = <<>>]
<1>1. g \in StreamRec
  BY Fields
<1>2. h \in StreamRec /\ SameBut(h, g, {"ungotten"}) /\ h.ungotten = <<>>
  BY <1>1, NoBytes DEF StreamRec, SameBut
<1> HIDE DEF h
<1>3. Sound(h) /\ (Input(h) <=> Input(g))
  BY <1>2, NoBytes DEF Sound, SameBut, Input
<1>4. ContentOf(h) = ContentOf(g) /\ PosOf(h) = PosOf(g) /\ h.open = g.open
  BY <1>2, <1>3 DEF ContentOf, PosOf, SameBut
<1>5. ASSUME Fit(g) PROVE Took(g, g.ungotten, h)
  <2>1. Fit(h)
    BY <1>2, <1>3, <1>4, <1>5 DEF Fit, SameBut
  <2>2. RestOf(h) = RestOf(g) /\ RestOf(h) \in Bytes
    BY <1>4, <2>1, RestIs DEF RestOf
  <2>3. AheadOf(h) = RestOf(h)
    BY <1>2, <2>2, NoneIs DEF AheadOf
  <2>4. AheadOf(g) = g.ungotten \o AheadOf(h)
    BY <2>2, <2>3, Zenon DEF AheadOf
  <2>5. PosOf(g) = PosOf(g) + Len(g.ungotten) - Len(g.ungotten)
    BY <1>5, ViewIs
  <2>6. QED
    BY <1>2, <1>4, <2>1, <2>4, <2>5 DEF Took
<1>6. QED
  BY <1>2, <1>3, <1>5 DEF h

(* A number of bytes is taken from the buffer. *)
LEMMA TakeIs ==
  ASSUME NEW g, Sound(g), NEW n \in Nat, g.bm + n <= g.bs, g.ungotten = <<>>
  PROVE  LET h == [g EXCEPT !.bm = g.bm + n] IN
         /\ Sound(h) /\ SameBut(h, g, {"bm"}) /\ h.bm = g.bm + n
         /\ n > 0 => g.buf[g.bm + 1] \in Byte
         /\ Fit(g) => Took(g, SubSeq(g.buf, g.bm + 1, g.bm + n), h)
<1> DEFINE h == [g EXCEPT !.bm = g.bm + n]
<1>1. /\ g \in StreamRec /\ g.file \in Bytes /\ g.pos \in Nat /\ g.bm \in Nat /\ g.bs \in Nat /\ g.buf \in Bytes
      /\ g.bs <= Len(g.buf) /\ g.pos <= Len(g.file) /\ Len(g.buf) \in Nat /\ Len(g.file) \in Nat
      /\ g.buflen \in Nat /\ g.bs <= g.buflen
  BY Fields, LenIs DEF Sound
<1>2. g.bm + n \in Nat /\ g.bm <= g.bs /\ (n > 0 => g.bm + 1 \in 1 .. Len(g.buf))
  BY <1>1
<1>3. h \in StreamRec /\ SameBut(h, g, {"bm"}) /\ h.bm = g.bm + n
  BY <1>1, <1>2 DEF StreamRec, SameBut
<1> HIDE DEF h
<1>4. Sound(h)
  <2>1. h.bm <= g.buflen
    BY <1>1, <1>2, <1>3
  <2>2. QED
    BY <1>3, <2>1 DEF Sound, SameBut, Input
<1>5. n > 0 => g.buf[g.bm + 1] \in Byte
  BY <1>1, <1>2, ElementOfSeq DEF Bytes
<1>6. ASSUME Fit(g) PROVE Took(g, SubSeq(g.buf, g.bm + 1, g.bm + n), h)
  <2>1. CASE n = 0
    <3>1. h.bm = g.bm
      BY <1>1, <1>3, <2>1
    <3>2. SameBut(h, g, {"flags"}) /\ h.flags = g.flags
      BY <1>3, <3>1 DEF SameBut
    <3>3. SameView(h, g)
      BY <1>4, <1>6, <3>2, SameViewIs DEF Input
    <3>4. SubSeq(g.buf, g.bm + 1, g.bm + n) = <<>>
      <4>1. g.bm + n <= Len(g.buf)
        BY <1>1, <1>2
      <4> DEFINE e == SubSeq(g.buf, g.bm + 1, g.bm + n)
      <4>2. e \in Bytes /\ Len(e) = n /\ \A j \in 1 .. n : e[j] = g.buf[g.bm + j]
        BY <1>1, <4>1, SpanIs
      <4> HIDE DEF e
      <4>3. e = <<>>
        BY <2>1, <4>2, LenIs
      <4>4. QED
        BY <4>3 DEF e
    <3>5. Took(g, <<>>, h)
      BY <1>6, <3>3, TookSame
    <3>6. QED
      BY <3>4, <3>5, Zenon
  <2>2. CASE n # 0
    <3>1. Input(g)
      BY <1>1, <1>6, <2>2 DEF Fit
    <3>2. /\ "EOF" \notin g.flags /\ g.bs <= g.pos
          /\ \A j \in 1 .. g.bs : g.buf[j] = g.file[g.pos - g.bs + j]
      BY <1>1, <1>6, <2>2, <3>1 DEF Fit
    <3>3. Input(h) /\ h.flags = g.flags /\ h.file = g.file /\ h.pos = g.pos /\ h.bs = g.bs /\ h.buf = g.buf
          /\ h.ungotten = <<>> /\ h.ok = g.ok /\ h.open = g.open
      BY <1>3, <3>1 DEF SameBut, Input
    <3>4. Fit(h)
      BY <1>4, <1>6, <3>2, <3>3 DEF Fit
    <3>5. ContentOf(g) = g.file /\ PosOf(g) = g.pos - (g.bs - g.bm)
      BY <3>1 DEF ContentOf, PosOf
    <3>6. ContentOf(h) = g.file /\ PosOf(h) = g.pos - (g.bs - (g.bm + n))
      BY <1>3, <3>3 DEF ContentOf, PosOf
    <3>7. PosOf(g) <= PosOf(h) /\ PosOf(h) = PosOf(g) + n /\ PosOf(g) \in Nat
      BY <1>1, <3>2, <3>5, <3>6
    <3> DEFINE x == SubSeq(g.buf, g.bm + 1, g.bm + n)
               y == SubSeq(g.file, PosOf(g) + 1, PosOf(h))
    <3>8. Took(g, y, h) /\ Len(y) = PosOf(h) - PosOf(g)
      BY <1>6, <3>3, <3>4, <3>5, <3>6, <3>7, TookRest
    <3>9. x = y
      <4>1. g.bm + n <= Len(g.buf)
        BY <1>1, <1>2
      <4>2. x \in Bytes /\ Len(x) = n /\ \A j \in 1 .. n : x[j] = g.buf[g.bm + j]
        BY <1>1, <4>1, SpanIs
      <4>3. y \in Bytes /\ Len(y) = n /\ \A j \in 1 .. n : y[j] = g.file[PosOf(g) + j]
        <5>1. PosOf(g) + n <= Len(g.file)
          BY <3>4, <3>6, <3>7, ViewIs
        <5>2. y = SubSeq(g.file, PosOf(g) + 1, PosOf(g) + n)
          BY <3>7, Zenon
        <5> DEFINE p == PosOf(g)
        <5>3. p \in Nat /\ p + n <= Len(g.file)
          BY <3>7, <5>1
        <5> HIDE DEF y, p
        <5>4. /\ SubSeq(g.file, p + 1, p + n) \in Bytes /\ Len(SubSeq(g.file, p + 1, p + n)) = n
              /\ \A j \in 1 .. n : SubSeq(g.file, p + 1, p + n)[j] = g.file[p + j]
          BY <1>1, <5>3, SpanIs
        <5>5. QED
          BY <5>2, <5>4, Zenon DEF p
      <4>4. ASSUME NEW j \in 1 .. n PROVE g.buf[g.bm + j] = g.file[PosOf(g) + j]
        <5>1. g.bm + j \in 1 .. g.bs /\ g.pos - g.bs + (g.bm + j) = PosOf(g) + j
          BY <1>1, <3>5, SMTT(30)
        <5>2. QED
          BY <3>2, <5>1
      <4> HIDE DEF x, y
      <4>5. \A j \in 1 .. Len(x) : x[j] = y[j]
        BY <4>2, <4>3, <4>4
      <4>6. QED
        BY <4>2, <4>3, <4>5, SameBytes
    <3> HIDE DEF y
    <3>10. QED
      BY <3>8, <3>9, Zenon
  <2>3. QED
    BY <2>1, <2>2
<1>7. QED
  BY <1>3, <1>4, <1>5, <1>6 DEF h

(* The buffer was filled from the file, and m bytes of it are used. *)
LEMMA LoadIs ==
  ASSUME NEW g, Sound(g), NEW o, Fetched(g, g.buflen, o), o.r # <<>>, o.r # <<EOF>>, NEW m \in {0, 1}
  PROVE  LET h == [o.f EXCEPT !.buf = Overlay(o.f.buf, 0, o.r), !.bs = Len(o.r), !.bm = m] IN
         /\ Sound(h) /\ SameBut(h, g, {"pos", "buf", "bs", "bm"}) /\ h.bs = Len(o.r) /\ h.bm = m
         /\ Len(o.r) \in Nat /\ Len(o.r) > 0 /\ o.r[1] \in Byte
         /\ Fit(g) /\ Input(g) /\ g.bm = g.bs /\ g.ungotten = <<>> =>
              Fit(h) /\ Took(g, IF m = 0 THEN <<>> ELSE <<o.r[1]>>, h)
<1> DEFINE b == Overlay(o.f.buf, 0, o.r)
           h == [o.f EXCEPT !.buf = b, !.bs = Len(o.r), !.bm = m]
           n == Len(o.r)
<1>1. /\ Sound(o.f) /\ SameBut(o.f, g, {"pos"}) /\ o.r \in Bytes /\ Len(o.r) \in 1 .. g.buflen
      /\ o.f.pos = g.pos + Len(o.r) /\ o.r = SubSeq(g.file, g.pos + 1, g.pos + Len(o.r))
  BY DEF Fetched
<1>2. /\ g.file \in Bytes /\ g.pos \in Nat /\ g.bm \in Nat /\ g.bs \in Nat /\ g.buf \in Bytes /\ g.buflen \in Nat
      /\ Len(g.buf) = g.buflen /\ g.pos <= Len(g.file) /\ Len(g.file) \in Nat
  BY Fields, LenIs DEF Sound
<1>3. n \in Nat /\ n > 0 /\ n <= g.buflen /\ 0 + n <= Len(g.buf) /\ m \in Nat /\ m <= n /\ 0 \in Nat
  BY <1>1, <1>2
<1>4. o.f.buf = g.buf /\ o.f.file = g.file /\ o.f.flags = g.flags /\ o.f.ok = g.ok
  BY <1>1 DEF SameBut
<1>5. b \in Bytes /\ Len(b) = g.buflen
  <2>1. Overlay(g.buf, 0, o.r) \in Bytes /\ Len(Overlay(g.buf, 0, o.r)) = Len(g.buf)
    BY <1>1, <1>2, <1>3, LaidIs
  <2>2. QED
    BY <1>2, <1>4, <2>1
<1>6. o.r[1] \in Byte
  BY <1>1, <1>3, ElementOfSeq DEF Bytes
<1>7. \A j \in 1 .. n : b[j] = o.r[j]
  <2>1. ASSUME NEW j \in 1 .. n PROVE b[j] = o.r[j]
    <3>1. j \in 1 .. Len(b) /\ j \in 0 + 1 .. 0 + n /\ j - 0 = j /\ 0 <= Len(g.buf)
      BY <1>2, <1>3, <1>5
    <3>2. b = Overlay(g.buf, 0, o.r)
      BY <1>4
    <3> HIDE DEF b
    <3>3. j \in 1 .. Len(Overlay(g.buf, 0, o.r))
      BY <3>1, <3>2
    <3>4. Overlay(g.buf, 0, o.r)[j] = IF j \in 0 + 1 .. 0 + n THEN o.r[j - 0] ELSE g.buf[j]
      BY <1>1, <1>2, <1>3, <3>1, <3>3, OverlayAt
    <3>5. QED
      BY <3>1, <3>2, <3>4, Zenon
  <2>2. QED
    BY <2>1
<1> HIDE DEF b
<1>8. /\ h \in StreamRec /\ SameBut(h, o.f, {"buf", "bs", "bm"}) /\ h.buf = b /\ h.bs = n /\ h.bm = m
  <2>1. o.f \in StreamRec
    BY <1>1, Fields
  <2>2. QED
    BY <1>3, <1>5, <2>1 DEF StreamRec, SameBut
<1> HIDE DEF h
<1>9. SameBut(h, g, {"pos", "buf", "bs", "bm"}) /\ h.pos = g.pos + n
  BY <1>1, <1>8 DEF SameBut
<1>10. Sound(h)
  <2>1. h.buflen = g.buflen /\ h.bm <= g.buflen /\ h.bs <= g.buflen /\ h.bm <= h.bs
    BY <1>2, <1>3, <1>8, <1>9 DEF SameBut
  <2>2. h.pos <= Len(h.file)
    BY <1>1, <1>8 DEF SameBut, Sound
  <2>3. h.buflen \in 1 .. BUFSIZE + 1 /\ Len(h.buf) = h.buflen /\ Len(h.ungotten) <= 1
    BY <1>5, <1>8, <1>9 DEF SameBut, Sound
  <2>4. QED
    BY <1>8, <2>1, <2>2, <2>3 DEF Sound
<1>11. ASSUME Fit(g), Input(g), g.bm = g.bs, g.ungotten = <<>>
       PROVE  Fit(h) /\ Took(g, IF m = 0 THEN <<>> ELSE <<o.r[1]>>, h)
  <2>1. /\ Input(h) /\ h.flags = g.flags /\ h.file = g.file /\ h.ungotten = <<>> /\ h.ok /\ h.open = g.open
    BY <1>9, <1>11 DEF SameBut, Input, Fit
  <2>2. g.pos + n <= Len(g.file)
    BY <1>1, <1>4 DEF Sound
  <2>3. "EOF" \notin g.flags
    BY <1>2, <1>3, <1>11, <2>2 DEF Fit
  <2>4. ASSUME NEW j \in 1 .. h.bs PROVE h.buf[j] = h.file[h.pos - h.bs + j]
    <3>1. j \in 1 .. n /\ g.pos + n - n + j = g.pos + j /\ g.pos + n \in Int /\ j \in 1 .. (g.pos + n) - g.pos
      BY <1>2, <1>3, <1>8
    <3>2. SubSeq(g.file, g.pos + 1, g.pos + n)[j] = g.file[g.pos + j]
      BY <1>2, <2>2, <3>1, PartAt
    <3>3. o.r[j] = g.file[g.pos + j]
      BY <1>1, <3>2, Zenon
    <3>4. h.pos - h.bs + j = g.pos + j
      <4>1. h.pos = g.pos + n /\ h.bs = n
        BY <1>8, <1>9
      <4> HIDE DEF n
      <4>2. (g.pos + n) - n + j = g.pos + j
        BY <1>2, <1>3, <3>1
      <4>3. QED
        BY <4>1, <4>2, Zenon
    <3>5. QED
      BY <1>7, <1>8, <2>1, <3>1, <3>3, <3>4
  <2>5. h.bs <= h.pos
    BY <1>2, <1>3, <1>8, <1>9
  <2>6. Fit(h)
    BY <1>10, <2>1, <2>3, <2>4, <2>5 DEF Fit
  <2>7. ContentOf(g) = g.file /\ ContentOf(h) = g.file
    BY <1>11, <2>1 DEF ContentOf
  <2>8. PosOf(g) = g.pos /\ PosOf(h) = g.pos + m
    <3>1. PosOf(g) = g.pos - (g.bs - g.bm) /\ PosOf(h) = (g.pos + n) - (n - m)
      BY <1>8, <1>9, <1>11, <2>1 DEF PosOf
    <3>2. QED
      BY <1>2, <1>3, <1>11, <3>1
  <2>9. PosOf(g) <= PosOf(h)
    BY <1>2, <1>3, <2>8
  <2>10. Took(g, SubSeq(g.file, g.pos + 1, g.pos + m), h) /\ Len(SubSeq(g.file, g.pos + 1, g.pos + m)) = (g.pos + m) - g.pos
    <3>1. /\ Took(g, SubSeq(ContentOf(g), PosOf(g) + 1, PosOf(h)), h)
          /\ Len(SubSeq(ContentOf(g), PosOf(g) + 1, PosOf(h))) = PosOf(h) - PosOf(g)
      BY <1>11, <2>1, <2>6, <2>7, <2>9, TookRest
    <3>2. QED
      BY <2>7, <2>8, <3>1, Zenon
  <2> DEFINE y == SubSeq(g.file, g.pos + 1, g.pos + m)
  <2>11. y \in Bytes /\ Len(y) = m
    <3>1. g.pos + m \in Int /\ g.pos + m <= Len(g.file) /\ (g.pos + m) - g.pos = m
      BY <1>2, <1>3, <2>2
    <3>2. QED
      BY <1>2, <2>10, <3>1, PartIs
  <2>12. CASE m = 0
    <3>1. y = <<>>
      <4> HIDE DEF y
      <4>1. QED
        BY <2>11, <2>12, LenIs
    <3>2. Took(g, <<>>, h)
      BY <2>10, <3>1, Zenon
    <3>3. QED
      BY <2>6, <2>12, <3>2
  <2>13. CASE m = 1
    <3>1. y[1] = o.r[1]
      <4>1. 1 \in 1 .. (g.pos + m) - g.pos /\ 1 \in 1 .. (g.pos + n) - g.pos /\ g.pos + m \in Int /\ g.pos + n \in Int
            /\ g.pos + m <= Len(g.file)
        BY <1>2, <1>3, <2>2, <2>13
      <4>2. y[1] = g.file[g.pos + 1]
        BY <1>2, <4>1, PartAt
      <4>3. SubSeq(g.file, g.pos + 1, g.pos + n)[1] = g.file[g.pos + 1]
        BY <1>2, <2>2, <4>1, PartAt
      <4>4. QED
        BY <1>1, <4>2, <4>3, Zenon
    <3>2. <<o.r[1]>> \in Bytes /\ Len(<<o.r[1]>>) = 1 /\ <<o.r[1]>>[1] = o.r[1]
      BY <1>6, OneByte
    <3> DEFINE z == <<o.r[1]>>
    <3>3. z \in Bytes /\ Len(z) = 1 /\ z[1] = o.r[1]
      BY <3>2
    <3>4. y = z
      <4> HIDE DEF y, z
      <4>1. \A j \in 1 .. Len(y) : y[j] = z[j]
        BY <2>11, <2>13, <3>1, <3>3
      <4>2. QED
        BY <2>11, <2>13, <3>3, <4>1, SameBytes
    <3>5. Took(g, <<o.r[1]>>, h)
      BY <2>10, <3>4, Zenon
    <3>6. QED
      BY <2>6, <2>13, <3>5
  <2>14. QED
    BY <2>12, <2>13
<1>12. QED
  BY <1>3, <1>6, <1>8, <1>9, <1>10, <1>11 DEF h, b

(* Nothing is ahead at the end of the file. *)
LEMMA AtEnd ==
  ASSUME NEW g, Fit(g), g.ungotten = <<>>, PosOf(g) = Len(ContentOf(g))
  PROVE  AheadOf(g) = <<>>
<1>1. RestOf(g) \in Bytes /\ Len(RestOf(g)) = Len(ContentOf(g)) - PosOf(g) /\ PosOf(g) \in Nat
  BY RestIs, ViewIs
<1>2. Len(RestOf(g)) = 0
  BY <1>1
<1>3. RestOf(g) = <<>>
  BY <1>1, <1>2, LenIs
<1>4. <<>> \o <<>> = <<>>
  BY NoBytes, NoneIs
<1>5. QED
  BY <1>3, <1>4, Zenon DEF AheadOf

(* The EOF flag tells the truth. *)
LEMMA EofIs ==
  ASSUME NEW g, Fit(g), "EOF" \in g.flags
  PROVE  AheadOf(g) = <<>>
<1>1. /\ Sound(g) /\ g.pos = Len(g.file) /\ g.file \in Bytes /\ g.pos \in Nat /\ g.bm \in Nat /\ g.bs \in Nat
      /\ g.pos <= Len(g.file) /\ g.ungotten = <<>>
  BY Fields DEF Fit, Sound
<1>2. CASE Input(g)
  <2>1. ContentOf(g) = g.file /\ PosOf(g) = g.pos - (g.bs - g.bm) /\ g.bm = g.bs
    BY <1>2 DEF ContentOf, PosOf, Fit
  <2>2. PosOf(g) = Len(ContentOf(g))
    BY <1>1, <2>1
  <2>3. QED
    BY <1>1, <2>2, AtEnd
<1>3. CASE ~Input(g)
  <2> DEFINE t == SubSeq(g.buf, 1, g.bm)
  <2>1. ContentOf(g) = Overlay(g.file, g.pos, t) /\ PosOf(g) = g.pos + g.bm
    BY <1>3 DEF ContentOf, PosOf
  <2>2. t \in Bytes /\ Len(t) = g.bm
    BY <1>1, HeldIs
  <2> HIDE DEF t
  <2>3. Len(Overlay(g.file, g.pos, t)) = IF g.pos + g.bm > Len(g.file) THEN g.pos + g.bm ELSE Len(g.file)
    BY <1>1, <2>2, OverlayIs
  <2>4. PosOf(g) = Len(ContentOf(g))
    BY <1>1, <2>1, <2>3
  <2>5. QED
    BY <1>1, <2>4, AtEnd
<1>4. QED
  BY <1>2, <1>3

(* fgetc: the next byte, or EOF with an error or at the end. *)
GotC(g, o) ==
  /\ Sound(o.f) /\ o.r \in Byte \cup {EOF} /\ (o.r # EOF => o.f.ok)
  /\ Fit(g) /\ o.f.ok =>
       /\ o.r # EOF => Took(g, <<o.r>>, o.f)
       /\ o.r = EOF => Took(g, <<>>, o.f) /\ ("ERR" \in o.f.flags \/ AheadOf(o.f) = <<>>)

(* EOF is no byte. *)
LEMMA ByteNotEof == \A c \in Byte : c # EOF
BY Numbers DEF EOF

(* The next byte of the buffer. *)
LEMMA NextByteIs ==
  ASSUME NEW g, Sound(g), g.ok, g.bm < g.bs, g.ungotten = <<>>
  PROVE  GotC(g, Ret([g EXCEPT !.bm = @ + 1], g.buf[g.bm + 1]))
<1> DEFINE h == [g EXCEPT !.bm = g.bm + 1]
           c == g.buf[g.bm + 1]
           o == Ret(h, c)
<1>1. g.bm \in Nat /\ g.bs \in Nat /\ g.bm + 1 <= g.bs /\ g.buf \in Bytes /\ g.bs <= Len(g.buf)
  BY Fields DEF Sound
<1>2. /\ Sound(h) /\ SameBut(h, g, {"bm"}) /\ (1 > 0 => c \in Byte)
      /\ Fit(g) => Took(g, SubSeq(g.buf, g.bm + 1, g.bm + 1), h)
  BY <1>1, TakeIs
<1>3. c \in Byte /\ c # EOF
  BY <1>2, ByteNotEof
<1>4. SubSeq(g.buf, g.bm + 1, g.bm + 1) = <<c>>
  <2> DEFINE x == SubSeq(g.buf, g.bm + 1, g.bm + 1)
             z == <<c>>
  <2>1. 1 \in Nat /\ g.bm + 1 <= Len(g.buf) /\ 1 \in 1 .. 1 /\ Len(g.buf) \in Nat
    BY <1>1, LenIs
  <2>2. x \in Bytes /\ Len(x) = 1 /\ \A j \in 1 .. 1 : x[j] = g.buf[g.bm + j]
    BY <1>1, <2>1, SpanIs
  <2>3. z \in Bytes /\ Len(z) = 1 /\ z[1] = c
    BY <1>3, OneByte
  <2>4. x[1] = c
    BY <2>1, <2>2
  <2> HIDE DEF x, z, c
  <2>5. \A j \in 1 .. Len(x) : x[j] = z[j]
    BY <2>2, <2>3, <2>4
  <2>6. x = z
    BY <2>2, <2>3, <2>5, SameBytes
  <2>7. QED
    BY <2>6 DEF x, z
<1>5. Fit(g) => Took(g, <<c>>, h)
  BY <1>2, <1>4, Zenon
<1>6. h.ok
  BY <1>2 DEF SameBut
<1>7. o.f = h /\ o.r = c
  BY DEF Ret
<1> HIDE DEF h, c, o
<1>8. GotC(g, o)
  BY <1>2, <1>3, <1>5, <1>6, <1>7 DEF GotC
<1>9. QED
  BY <1>8 DEF o, h, c

(* The buffer is filled and its first byte taken. *)
FillStep(g) ==
  {IF o.r = <<>> THEN Ret(Set(o.f, {"EOF"}), EOF)
   ELSE IF o.r = <<EOF>> THEN Kaputt(o.f)
   ELSE Ret([o.f EXCEPT !.buf = Overlay(@, 0, o.r), !.bs = Len(o.r), !.bm = 1], o.r[1]) :
     o \in read(g, g.buflen)}

(* fgetc on an empty buffer. *)
LEMMA FillStepIs ==
  ASSUME NEW g, Sound(g), g.ok, Input(g), ~(g.bm < g.bs), NEW x \in FillStep(g), Fit(g) => g.ungotten = <<>>
  PROVE  GotC(g, x)
<1>1. PICK o \in read(g, g.buflen) :
        x = IF o.r = <<>> THEN Ret(Set(o.f, {"EOF"}), EOF)
            ELSE IF o.r = <<EOF>> THEN Kaputt(o.f)
            ELSE Ret([o.f EXCEPT !.buf = Overlay(@, 0, o.r), !.bs = Len(o.r), !.bm = 1], o.r[1])
  BY Zenon DEF FillStep
<1>2. /\ g.buflen \in Nat /\ g.buflen > 0 /\ g.bm = g.bs /\ g.pos \in Nat
  BY Fields, Numbers DEF Sound
<1>3. Fetched(g, g.buflen, o)
  BY <1>2, ReadIs
<1>4. CASE o.r = <<>>
  <2>0. Sound(o.f) /\ SameBut(o.f, g, {"pos"}) /\ o.f.pos = g.pos /\ g.pos = Len(g.file)
    <3>1. o.r # <<EOF>>
      BY <1>4, NoBytes, NotEof
    <3>2. QED
      BY <1>2, <1>3, <1>4, <3>1 DEF Fetched
  <2> DEFINE h == Set(o.f, {"EOF"})
  <2>1. x.f = h /\ x.r = EOF
    BY <1>1, <1>4 DEF Ret
  <2>2. Sound(h) /\ h.flags = o.f.flags \cup {"EOF"} /\ SameBut(h, o.f, {"flags"})
    BY <2>0, SetIs
  <2> HIDE DEF h
  <2>3. SameBut(h, g, {"flags"}) /\ h.flags = g.flags \cup {"EOF"}
    BY <2>0, <2>2 DEF SameBut
  <2>4. ASSUME Fit(g) PROVE Took(g, <<>>, h) /\ AheadOf(h) = <<>>
    <3>1. /\ h.file = g.file /\ h.pos = g.pos /\ h.bm = g.bm /\ h.bs = g.bs /\ h.buf = g.buf /\ h.ok = g.ok
          /\ h.ungotten = g.ungotten /\ h.open = g.open /\ g.ungotten = <<>> /\ Input(h)
      BY <2>3, <2>4 DEF SameBut, Input
    <3>2. ContentOf(h) = ContentOf(g) /\ PosOf(h) = PosOf(g)
      BY <3>1 DEF ContentOf, PosOf
    <3>3. Fit(h)
      BY <1>2, <2>0, <2>2, <2>4, <3>1, <3>2 DEF Fit
    <3>4. SameView(h, g)
      BY <3>1, <3>2, <3>3 DEF SameView
    <3>5. "EOF" \in h.flags
      BY <2>3
    <3>6. QED
      BY <2>4, <3>3, <3>4, <3>5, TookSame, EofIs
  <2>5. QED
    BY <2>1, <2>2, <2>4 DEF GotC
<1>5. CASE o.r = <<EOF>>
  <2>1. o.f = g
    <3>1. o.r # <<>> /\ o.r \notin Bytes
      BY <1>5, NotEof
    <3>2. QED
      BY <1>3, <3>1 DEF Fetched
  <2>2. o.r # <<>>
    BY <1>5
  <2>3. x = Kaputt(g)
    BY <1>1, <1>5, <2>1, <2>2
  <2>4. /\ x.r = EOF /\ Sound(x.f) /\ "ERR" \in x.f.flags
        /\ Fit(g) => SameView(x.f, g)
    BY <2>3, KaputtIs
  <2>5. Fit(g) => Took(g, <<>>, x.f)
    BY <2>4, TookSame
  <2>6. QED
    BY <2>4, <2>5 DEF GotC
<1>6. CASE o.r # <<>> /\ o.r # <<EOF>>
  <2> DEFINE h == [o.f EXCEPT !.buf = Overlay(o.f.buf, 0, o.r), !.bs = Len(o.r), !.bm = 1]
  <2>1. x = Ret(h, o.r[1])
    BY <1>1, <1>6
  <2>2. x.f = h /\ x.r = o.r[1]
    BY <2>1 DEF Ret
  <2>3. /\ Sound(h) /\ SameBut(h, g, {"pos", "buf", "bs", "bm"}) /\ o.r[1] \in Byte
        /\ Fit(g) /\ Input(g) /\ g.bm = g.bs /\ g.ungotten = <<>> =>
             Fit(h) /\ Took(g, IF 1 = 0 THEN <<>> ELSE <<o.r[1]>>, h)
    <3>1. 1 \in {0, 1}
      OBVIOUS
    <3>2. QED
      BY <1>3, <1>6, <3>1, LoadIs, Zenon
  <2> HIDE DEF h
  <2>4. Fit(g) => Took(g, <<o.r[1]>>, h)
    <3>1. 1 # 0
      OBVIOUS
    <3>2. QED
      BY <1>2, <2>3, <3>1, Zenon
  <2>5. h.ok
    BY <2>3 DEF SameBut
  <2>6. o.r[1] # EOF
    BY <2>3, ByteNotEof
  <2>7. QED
    BY <2>2, <2>3, <2>4, <2>5, <2>6 DEF GotC
<1>7. QED
  BY <1>4, <1>5, <1>6

(* fgetc. *)
LEMMA GetCIs ==
  ASSUME NEW g, Sound(g), g.ok, NEW o \in fgetc(g)
  PROVE  GotC(g, o)
<1>1. CASE "CANREAD" \notin g.flags
  <2>1. o = Kaputt(g)
    BY <1>1 DEF fgetc
  <2>2. /\ o.r = EOF /\ Sound(o.f) /\ "ERR" \in o.f.flags
        /\ Fit(g) => SameView(o.f, g)
    BY <2>1, KaputtIs
  <2>3. Fit(g) => Took(g, <<>>, o.f)
    BY <2>2, TookSame
  <2>4. QED
    BY <2>2, <2>3 DEF GotC
<1>2. CASE "CANREAD" \in g.flags /\ g.ungotten # <<>>
  <2> DEFINE h == [g EXCEPT !.ungotten = <<>>]
             c == g.ungotten[1]
  <2>1. o = Ret(h, c)
    BY <1>2 DEF fgetc
  <2>2. /\ Sound(h) /\ SameBut(h, g, {"ungotten"})
        /\ Fit(g) => Took(g, g.ungotten, h)
    BY DropIs
  <2>3. o.f = h /\ o.r = c
    BY <2>1 DEF Ret
  <2>4. g.ungotten \in Bytes /\ Len(g.ungotten) = 1
    <3>1. g.ungotten \in Bytes /\ Len(g.ungotten) \in Nat /\ Len(g.ungotten) # 0 /\ Len(g.ungotten) <= 1
      BY <1>2, Fields, LenIs DEF Sound
    <3>2. \A n \in Nat : n # 0 /\ n <= 1 => n = 1
      OBVIOUS
    <3>3. QED
      BY <3>1, <3>2, Zenon
  <2>5. c \in Byte
    BY <2>4, ElementOfSeq DEF Bytes
  <2>6. g.ungotten = <<c>>
    <3> DEFINE z == <<c>>
    <3>1. z \in Bytes /\ Len(z) = 1 /\ z[1] = c
      BY <2>5, OneByte
    <3> HIDE DEF z, c
    <3>2. \A j \in 1 .. Len(g.ungotten) : g.ungotten[j] = z[j]
      BY <2>4, <3>1 DEF c
    <3>3. g.ungotten = z
      BY <2>4, <3>1, <3>2, SameBytes
    <3>4. QED
      BY <3>3 DEF z
  <2>7. c # EOF
    BY <2>5, ByteNotEof
  <2> HIDE DEF h, c
  <2>8. h.ok
    BY <2>2 DEF SameBut
  <2>9. Fit(g) => Took(g, <<c>>, h)
    BY <2>2, <2>6, Zenon
  <2>10. QED
    BY <2>2, <2>3, <2>5, <2>7, <2>8, <2>9 DEF GotC
<1>3. CASE "CANREAD" \in g.flags /\ g.ungotten = <<>> /\ g.bm < g.bs
  <2>1. o = Ret([g EXCEPT !.bm = @ + 1], g.buf[g.bm + 1])
    BY <1>3, Zenon DEF fgetc
  <2>2. QED
    BY <1>3, <2>1, NextByteIs, Zenon
<1>4. CASE "CANREAD" \in g.flags /\ g.ungotten = <<>> /\ ~(g.bm < g.bs) /\ "EOF" \in g.flags
  <2>1. o = Ret(g, EOF)
    BY <1>4, Zenon DEF fgetc
  <2>2. o.f = g /\ o.r = EOF
    BY <2>1 DEF Ret
  <2>3. Fit(g) => Took(g, <<>>, g) /\ AheadOf(g) = <<>>
    <3>1. Fit(g) => SameView(g, g)
      BY DEF SameView
    <3>2. QED
      BY <1>4, <3>1, TookSame, EofIs
  <2>4. QED
    BY <2>2, <2>3 DEF GotC
<1>5. CASE "CANREAD" \in g.flags /\ g.ungotten = <<>> /\ ~(g.bm < g.bs) /\ "EOF" \notin g.flags
  <2>1. PICK a \in fflush4(g, {"BUFINPUT"}) :
          o \in (IF a.r # 0 THEN {Ret(a.f, EOF)}
                 ELSE IF a.f.bm < a.f.bs THEN {Ret([a.f EXCEPT !.bm = @ + 1], a.f.buf[a.f.bm + 1])}
                 ELSE FillStep(a.f))
    BY <1>5, Zenon DEF fgetc, Then, FillStep
  <2>2. /\ Sound(a.f) /\ (a.r # 0 => ~a.f.ok)
        /\ a.r = 0 => a.f.ok /\ Input(a.f)
        /\ a.r = 0 => a.f.ungotten = <<>> /\ (Fit(g) => SameView(a.f, g))
    BY <1>5, TurnIn
  <2>3. CASE a.r # 0
    <3>1. o.f = a.f /\ o.r = EOF
      BY <2>1, <2>3 DEF Ret
    <3>2. QED
      BY <2>2, <2>3, <3>1 DEF GotC
  <2>4. ASSUME a.r = 0, GotC(a.f, o) PROVE GotC(g, o)
    <3>1. /\ Sound(o.f) /\ o.r \in Byte \cup {EOF} /\ (o.r # EOF => o.f.ok)
      BY <2>4 DEF GotC
    <3>2. ASSUME Fit(g), o.f.ok
          PROVE  /\ o.r # EOF => Took(g, <<o.r>>, o.f)
                 /\ o.r = EOF => Took(g, <<>>, o.f) /\ ("ERR" \in o.f.flags \/ AheadOf(o.f) = <<>>)
      <4>1. SameView(a.f, g) /\ Fit(a.f)
        BY <1>5, <2>2, <2>4, <3>2 DEF SameView
      <4>2. Took(g, <<>>, a.f)
        BY <3>2, <4>1, TookSame
      <4>3. /\ o.r # EOF => Took(a.f, <<o.r>>, o.f)
            /\ o.r = EOF => Took(a.f, <<>>, o.f) /\ ("ERR" \in o.f.flags \/ AheadOf(o.f) = <<>>)
        BY <2>4, <3>2, <4>1 DEF GotC
      <4>4. ASSUME NEW u \in Bytes, Took(a.f, u, o.f) PROVE Took(g, u, o.f)
        <5>1. <<>> \in Bytes /\ <<>> \o u = u
          BY NoBytes, NoneIs
        <5>2. Took(g, <<>> \o u, o.f)
          BY <3>2, <4>2, <4>4, <5>1, TookJoin
        <5>3. QED
          BY <5>1, <5>2, Zenon
      <4>5. <<>> \in Bytes /\ (o.r # EOF => <<o.r>> \in Bytes)
        BY <3>1, NoBytes, OneByte
      <4>6. QED
        BY <4>3, <4>4, <4>5
    <3>3. QED
      BY <3>1, <3>2 DEF GotC
  <2>5. CASE a.r = 0 /\ a.f.bm < a.f.bs
    <3>1. o = Ret([a.f EXCEPT !.bm = @ + 1], a.f.buf[a.f.bm + 1])
      BY <2>1, <2>5, Zenon
    <3>2. QED
      BY <2>2, <2>4, <2>5, <3>1, NextByteIs, Zenon
  <2>6. CASE a.r = 0 /\ ~(a.f.bm < a.f.bs)
    <3>1. o \in FillStep(a.f)
      BY <2>1, <2>6, Zenon
    <3>2. GotC(a.f, o)
      BY <2>2, <2>6, <3>1, FillStepIs
    <3>3. QED
      BY <2>4, <2>6, <3>2
  <2>7. QED
    BY <2>3, <2>5, <2>6
<1>6. QED
  BY <1>1, <1>2, <1>3, <1>4, <1>5

(* Why fewer bytes were read than asked for. *)
Ended(u, h, stop) == AheadOf(h) = <<>> \/ "ERR" \in h.flags \/ (u # <<>> /\ u[Len(u)] = stop)

(* A turn of the loop of fgetc. *)
GetTurn(X, stop) ==
  Then(X, LAMBDA o :
       IF ~o.more THEN {o}
       ELSE {IF p.r = EOF THEN [f |-> p.f, r |-> o.r, more |-> FALSE]
             ELSE [f |-> p.f, r |-> Append(o.r, p.r), more |-> p.r # stop] :
               p \in fgetc(o.f)})

(* GetEach has a run. *)
LEMMA GetEachRuns ==
  ASSUME NEW g, NEW n \in Nat, NEW stop, NEW got
  PROVE  \E q : /\ GetEach(g, n, stop, got) = {Ret(y.f, y.r) : y \in q[n]}
                /\ q[0] = {[f |-> g, r |-> got, more |-> TRUE]}
                /\ \A j \in 1 .. n : q[j] = GetTurn(q[j - 1], stop)
<1> DEFINE Next1(q, j) == IF j = 0 THEN {[f |-> g, r |-> got, more |-> TRUE]} ELSE GetTurn(q[j - 1], stop)
           Run(q, m) == q = [j \in 0 .. m |-> Next1(q, j)]
           T == {m \in Nat : ~ \E q : Run(q, m)}
<1>1. n \in Nat
  OBVIOUS
<1>2. T = {}
  <2> SUFFICES ASSUME T # {} PROVE FALSE
    OBVIOUS
  <2>1. PICK m \in T : \A y \in T : m <= y
    BY LeastExists
  <2>2. m \in Nat /\ ~ \E q : Run(q, m)
    OBVIOUS
  <2>3. CASE m = 0
    <3> DEFINE q == [j \in 0 .. 0 |-> {[f |-> g, r |-> got, more |-> TRUE]}]
    <3>1. \A j \in 0 .. 0 : j = 0
      OBVIOUS
    <3>2. Run(q, 0)
      BY <3>1, Zenon
    <3>3. QED
      BY <2>2, <2>3, <3>2, Zenon
  <2>4. CASE m # 0
    <3>1. m - 1 \in Nat /\ ~(m <= m - 1)
      BY <2>2, <2>4
    <3>2. PICK p : Run(p, m - 1)
      BY <2>1, <3>1
    <3> DEFINE q == [j \in 0 .. m |-> IF j = m THEN GetTurn(p[m - 1], stop) ELSE p[j]]
    <3>3. ASSUME NEW j \in 0 .. m PROVE q[j] = Next1(q, j)
      <4>1. CASE j = m
        <5>1. m - 1 \in 0 .. m /\ m - 1 # m
          BY <2>2, <2>4, <3>1
        <5>2. q[m - 1] = p[m - 1]
          BY <5>1
        <5>3. QED
          BY <2>4, <4>1, <5>2, Zenon
      <4>2. CASE j # m
        <5>1. j \in 0 .. m - 1 /\ (j # 0 => j - 1 \in 0 .. m /\ j - 1 # m)
          BY <2>2, <4>2
        <5>2. p[j] = Next1(p, j) /\ q[j] = p[j]
          BY <3>2, <4>2, <5>1, Zenon
        <5>3. j # 0 => q[j - 1] = p[j - 1]
          BY <5>1
        <5>4. QED
          BY <5>2, <5>3, Zenon
      <4>3. QED
        BY <4>1, <4>2, Zenon
    <3> HIDE DEF Next1
    <3>4. q = [j \in 0 .. m |-> q[j]]
      BY Zenon
    <3> HIDE DEF q
    <3>5. Run(q, m)
      BY <3>3, <3>4, Zenon
    <3>6. QED
      BY <2>2, <3>5, Zenon
  <2>5. QED
    BY <2>3, <2>4
<1> DEFINE f0 == CHOOSE q : Run(q, n)
<1>3. Run(f0, n)
  <2>1. \E q : Run(q, n)
    BY <1>1, <1>2
  <2> HIDE DEF Run
  <2>2. QED
    BY <2>1, Zenon
<1>4. GetEach(g, n, stop, got) = {Ret(y.f, y.r) : y \in f0[n]}
  BY Zenon DEF GetEach, GetTurn, Then
<1> HIDE DEF f0
<1>5. 0 \in 0 .. n /\ \A j \in 1 .. n : j \in 0 .. n /\ j # 0
  BY <1>1
<1>6. \A j \in 0 .. n : f0[j] = Next1(f0, j)
  BY <1>3, Zenon
<1>7. f0[0] = {[f |-> g, r |-> got, more |-> TRUE]} /\ \A j \in 1 .. n : f0[j] = GetTurn(f0[j - 1], stop)
  BY <1>5, <1>6, Zenon
<1>8. QED
  BY <1>4, <1>7, Zenon

(* The loop of fgetc reads what is ahead. *)
LEMMA GetEachIs ==
  ASSUME NEW g, Sound(g), g.ok, NEW n \in Nat, NEW stop, NEW got \in Bytes, NEW o \in GetEach(g, n, stop, got)
  PROVE  /\ Sound(o.f) /\ o.r \in Bytes
         /\ Fit(g) /\ o.f.ok => \E u \in Bytes : /\ o.r = got \o u /\ Took(g, u, o.f) /\ Len(u) <= n
                                                 /\ Len(u) = n \/ Ended(u, o.f, stop)
<1> DEFINE Part(u, x, j) == /\ x.r = got \o u /\ Took(g, u, x.f)
                            /\ \/ x.more /\ Len(u) = j
                               \/ ~x.more /\ Len(u) <= j /\ Ended(u, x.f, stop)
           I(x, j) == /\ Sound(x.f) /\ x.r \in Bytes /\ x.more \in BOOLEAN /\ (x.more => x.f.ok)
                      /\ Fit(g) /\ x.f.ok => \E u \in Bytes : Part(u, x, j)
<1>1. PICK q : /\ GetEach(g, n, stop, got) = {Ret(y.f, y.r) : y \in q[n]}
               /\ q[0] = {[f |-> g, r |-> got, more |-> TRUE]}
               /\ \A j \in 1 .. n : q[j] = GetTurn(q[j - 1], stop)
  BY GetEachRuns
<1> DEFINE S == {j \in 0 .. n : \A x \in q[j] : I(x, j)}
<1>2. <<>> \in Bytes /\ Len(<<>>) = 0 /\ got \o <<>> = got
  BY NoBytes, NoneIs
<1>3. 0 \in S
  <2>1. ASSUME NEW x \in q[0] PROVE I(x, 0)
    <3>1. x.f = g /\ x.r = got /\ x.more = TRUE
      BY <1>1, <2>1
    <3>2. Fit(g) => Took(g, <<>>, g)
      <4>1. Fit(g) => SameView(g, g)
        BY DEF SameView
      <4>2. QED
        BY <4>1, TookSame
    <3>3. Fit(g) => Part(<<>>, x, 0)
      BY <1>2, <3>1, <3>2
    <3> HIDE DEF Part
    <3>4. QED
      BY <1>2, <3>1, <3>3
  <2>2. QED
    BY <2>1
<1>4. ASSUME NEW j \in 1 .. n, j - 1 \in S PROVE j \in S
  <2>0. j - 1 \in Nat /\ j \in Nat /\ j - 1 + 1 = j /\ j - 1 <= j
    OBVIOUS
  <2>1. ASSUME NEW x \in q[j] PROVE I(x, j)
    <3>1. PICK w \in q[j - 1] :
            x \in (IF ~w.more THEN {w}
                   ELSE {IF p.r = EOF THEN [f |-> p.f, r |-> w.r, more |-> FALSE]
                         ELSE [f |-> p.f, r |-> Append(w.r, p.r), more |-> p.r # stop] :
                           p \in fgetc(w.f)})
      <4>1. x \in GetTurn(q[j - 1], stop)
        BY <1>1
      <4>2. QED
        BY <4>1, Zenon DEF GetTurn, Then
    <3>2. I(w, j - 1)
      BY <1>4
    <3>3. CASE ~w.more
      <4>1. x = w
        BY <3>1, <3>3
      <4>2. ASSUME NEW u \in Bytes, Part(u, w, j - 1) PROVE Part(u, w, j)
        <5>1. Len(u) <= j - 1 /\ Len(u) \in Nat
          BY <3>3, <4>2, LenIs
        <5>2. Len(u) <= j
          BY <2>0, <5>1
        <5>3. QED
          BY <3>3, <4>2, <5>2
      <4> HIDE DEF Part
      <4>3. QED
        BY <3>2, <4>1, <4>2
    <3>4. CASE w.more
      <4>1. PICK p \in fgetc(w.f) :
              x = IF p.r = EOF THEN [f |-> p.f, r |-> w.r, more |-> FALSE]
                  ELSE [f |-> p.f, r |-> Append(w.r, p.r), more |-> p.r # stop]
        BY <3>1, <3>4, Zenon
      <4>2. Sound(w.f) /\ w.f.ok /\ w.r \in Bytes
        BY <3>2, <3>4
      <4>3. GotC(w.f, p)
        BY <4>2, GetCIs
      <4>4. Sound(p.f) /\ p.r \in Byte \cup {EOF} /\ (p.r # EOF => p.f.ok)
        BY <4>3 DEF GotC
      <4>5. CASE p.r = EOF
        <5>1. x.f = p.f /\ x.r = w.r /\ x.more = FALSE
          BY <4>1, <4>5
        <5>2. ASSUME Fit(g), p.f.ok PROVE \E u \in Bytes : Part(u, x, j)
          <6>1. PICK u \in Bytes : Part(u, w, j - 1)
            BY <3>2, <4>2, <5>2
          <6>2. w.r = got \o u /\ Took(g, u, w.f) /\ Len(u) = j - 1 /\ Fit(w.f)
            BY <3>4, <6>1 DEF Took
          <6>3. Took(w.f, <<>>, p.f) /\ ("ERR" \in p.f.flags \/ AheadOf(p.f) = <<>>)
            BY <4>3, <4>5, <5>2, <6>2 DEF GotC
          <6>4. Took(g, u \o <<>>, p.f)
            BY <1>2, <5>2, <6>2, <6>3, TookJoin
          <6>5. u \o <<>> = u
            BY NoneIs
          <6>6. Took(g, u, p.f)
            BY <6>4, <6>5, Zenon
          <6>7. Ended(u, p.f, stop) /\ Len(u) <= j
            BY <2>0, <6>2, <6>3 DEF Ended
          <6>8. Part(u, x, j)
            BY <5>1, <6>2, <6>6, <6>7
          <6>9. QED
            BY <6>8
        <5> HIDE DEF Part
        <5>3. QED
          BY <4>2, <4>4, <5>1, <5>2
      <4>6. CASE p.r # EOF
        <5> DEFINE c == p.r
        <5>1. x.f = p.f /\ x.r = Append(w.r, c) /\ x.more = (c # stop)
          BY <4>1, <4>6
        <5>2. c \in Byte /\ <<c>> \in Bytes /\ Len(<<c>>) = 1 /\ <<c>>[1] = c
          BY <4>4, <4>6, OneByte
        <5>3. Append(w.r, c) = w.r \o <<c>> /\ w.r \o <<c>> \in Bytes
          BY <4>2, <5>2, AppendIsConcat, JoinIs, SMTT(30) DEF Bytes
        <5>4. ASSUME Fit(g) PROVE \E u \in Bytes : Part(u, x, j)
          <6>1. PICK u \in Bytes : Part(u, w, j - 1)
            BY <3>2, <4>2, <5>4
          <6>2. w.r = got \o u /\ Took(g, u, w.f) /\ Len(u) = j - 1 /\ Fit(w.f)
            BY <3>4, <6>1 DEF Took
          <6>3. Took(w.f, <<c>>, p.f)
            BY <4>3, <4>4, <4>6, <6>2 DEF GotC
          <6> DEFINE v == u \o <<c>>
                     z == <<c>>
          <6>4. Took(g, v, p.f)
            BY <5>2, <5>4, <6>2, <6>3, TookJoin
          <6>5. v \in Bytes /\ Len(v) = j /\ v[Len(v)] = c
            <7>1. z \in Bytes /\ Len(z) = 1 /\ z[1] = c
              BY <5>2
            <7> HIDE DEF z
            <7>2. u \o z \in Bytes /\ Len(u \o z) = Len(u) + Len(z)
                  /\ \A k \in 1 .. Len(u) + Len(z) : (u \o z)[k] = IF k <= Len(u) THEN u[k] ELSE z[k - Len(u)]
              BY <7>1, JoinIs
            <7>3. Len(u) + Len(z) = j /\ j \in 1 .. Len(u) + Len(z) /\ ~(j <= Len(u)) /\ j - Len(u) = 1
              BY <2>0, <6>2, <7>1
            <7>4. (u \o z)[j] = c
              BY <7>1, <7>2, <7>3
            <7>5. QED
              BY <7>2, <7>3, <7>4 DEF z
          <6>6. x.r = got \o v
            <7>1. (got \o u) \o <<c>> = got \o (u \o <<c>>)
              BY <5>2, ConcatAssociative DEF Bytes
            <7>2. QED
              BY <5>1, <5>3, <6>2, <7>1, Zenon
          <6> HIDE DEF v
          <6>7. Len(v) <= j /\ v # <<>>
            BY <1>2, <2>0, <6>5
          <6>8. x.more = FALSE => Ended(v, x.f, stop)
            BY <5>1, <6>5, <6>7 DEF Ended
          <6> HIDE DEF c
          <6>9. x.more \in BOOLEAN
            BY <5>1
          <6>10. Part(v, x, j)
            BY <5>1, <6>4, <6>5, <6>6, <6>7, <6>8, <6>9
          <6> HIDE DEF Part
          <6>11. QED
            BY <6>5, <6>10
        <5>5. x.more \in BOOLEAN
          BY <5>1
        <5> HIDE DEF Part
        <5>6. QED
          BY <4>4, <4>6, <5>1, <5>3, <5>4, <5>5
      <4>7. QED
        BY <4>5, <4>6
    <3>5. QED
      BY <3>3, <3>4
  <2> HIDE DEF I
  <2>2. j \in 0 .. n
    BY <2>0
  <2>3. QED
    BY <2>1, <2>2
<1> HIDE DEF S
<1>5. n \in S
  BY <1>3, <1>4, AllTurns
<1>6. PICK x \in q[n] : o = Ret(x.f, x.r)
  BY <1>1, Zenon
<1>7. I(x, n) /\ o.f = x.f /\ o.r = x.r
  BY <1>5, <1>6 DEF S, Ret
<1>8. ASSUME Fit(g), o.f.ok
      PROVE  \E u \in Bytes : /\ o.r = got \o u /\ Took(g, u, o.f) /\ Len(u) <= n
                              /\ Len(u) = n \/ Ended(u, o.f, stop)
  <2>1. PICK u \in Bytes : Part(u, x, n)
    BY <1>7, <1>8
  <2>2. Len(u) <= n
    BY <2>1
  <2>3. QED
    BY <1>7, <2>1, <2>2
<1> HIDE DEF Part
<1>9. QED
  BY <1>7, <1>8

(* Joining is associative. *)
LEMMA JoinAssoc ==
  ASSUME NEW a \in Bytes, NEW b \in Bytes, NEW c \in Bytes
  PROVE  (a \o b) \o c = a \o (b \o c)
BY ConcatAssociative DEF Bytes

(* read straight from the file, with the buffer empty. *)
Bare(g) == Fit(g) /\ Input(g) /\ g.bm = 0 /\ g.bs = 0 /\ g.ungotten = <<>>

(* One read past the buffer takes what it returns. *)
LEMMA PieceIs ==
  ASSUME NEW g, Bare(g), NEW n \in Nat, NEW o, Fetched(g, n, o), o.r # <<>>, o.r # <<EOF>>
  PROVE  Bare(o.f) /\ Took(g, o.r, o.f)
<1>1. /\ Sound(o.f) /\ SameBut(o.f, g, {"pos"}) /\ o.r \in Bytes /\ Len(o.r) \in 1 .. n
      /\ o.f.pos = g.pos + Len(o.r) /\ o.r = SubSeq(g.file, g.pos + 1, g.pos + Len(o.r))
  BY DEF Fetched
<1>2. /\ Sound(g) /\ g.file \in Bytes /\ g.pos \in Nat /\ Len(g.file) \in Nat /\ Len(o.r) \in Nat /\ Len(o.r) > 0
      /\ Fit(g) /\ Input(g) /\ g.bm = 0 /\ g.bs = 0 /\ g.ungotten = <<>>
  <2>1. Fit(g) /\ Input(g) /\ g.bm = 0 /\ g.bs = 0 /\ g.ungotten = <<>>
    BY DEF Bare
  <2>2. Sound(g)
    BY <2>1 DEF Fit
  <2>3. g.file \in Bytes /\ g.pos \in Nat
    BY <2>2, Fields
  <2>4. Len(g.file) \in Nat
    BY <2>3, LenIs
  <2>5. Len(o.r) \in Nat /\ Len(o.r) > 0
    BY <1>1
  <2>6. QED
    BY <2>1, <2>2, <2>3, <2>4, <2>5
<1>3. /\ o.f.file = g.file /\ o.f.bm = 0 /\ o.f.bs = 0 /\ o.f.ungotten = <<>> /\ o.f.flags = g.flags /\ o.f.ok
      /\ o.f.open = g.open
  BY <1>1, <1>2 DEF SameBut, Fit
<1>4. Input(o.f) /\ o.f.pos <= Len(g.file) /\ o.f.pos \in Nat
  BY <1>1, <1>2, <1>3, Fields DEF Sound, Input
<1>5. "EOF" \notin g.flags
  BY <1>1, <1>2, <1>4 DEF Fit
<1>6. Fit(o.f)
  BY <1>1, <1>3, <1>4, <1>5 DEF Fit
<1>7. ContentOf(g) = g.file /\ PosOf(g) = g.pos /\ ContentOf(o.f) = g.file /\ PosOf(o.f) = g.pos + Len(o.r)
  BY <1>1, <1>2, <1>3, EmptyView
<1>8. PosOf(g) <= PosOf(o.f)
  BY <1>2, <1>7
<1>9. Took(g, SubSeq(ContentOf(g), PosOf(g) + 1, PosOf(o.f)), o.f)
  BY <1>2, <1>3, <1>6, <1>7, <1>8, TookRest
<1>10. SubSeq(ContentOf(g), PosOf(g) + 1, PosOf(o.f)) = o.r
  BY <1>1, <1>7, Zenon
<1>11. QED
  BY <1>3, <1>4, <1>6, <1>9, <1>10 DEF Bare

(* read at the end, or failing. *)
LEMMA PieceNone ==
  ASSUME NEW g, Sound(g), g.ok, NEW n \in Nat, n # 0, NEW o, Fetched(g, n, o), o.r \in {<<EOF>>, <<>>}
  PROVE  LET h == Set(o.f, IF o.r = <<>> THEN {"EOF"} ELSE {"ERR"}) IN
         /\ Sound(h) /\ h.ok /\ SameBut(h, g, {"flags"})
         /\ Fit(g) /\ Input(g) /\ g.bm = g.bs /\ g.ungotten = <<>> =>
              /\ SameView(h, g) /\ Input(h) /\ Took(g, <<>>, h)
              /\ "ERR" \in h.flags \/ AheadOf(h) = <<>>
<1> DEFINE x == IF o.r = <<>> THEN "EOF" ELSE "ERR"
           h == Set(o.f, IF o.r = <<>> THEN {"EOF"} ELSE {"ERR"})
<1>1. h = Set(o.f, {x}) /\ x \in {"ERR", "EOF"}
  BY Zenon
<1>2. <<>> # <<EOF>> /\ <<EOF>> \notin Bytes
  BY NotEof, NoBytes
<1>3. /\ Sound(o.f) /\ SameBut(o.f, g, {}) /\ (o.r = <<>> => g.pos = Len(g.file))
  <2>1. CASE o.r = <<>>
    <3>1. o.r # <<EOF>> /\ n > 0
      BY <1>2, <2>1
    <3>2. Sound(o.f) /\ SameBut(o.f, g, {"pos"}) /\ o.f.pos = g.pos /\ g.pos = Len(g.file)
      BY <2>1, <3>1 DEF Fetched
    <3>3. QED
      BY <3>2 DEF SameBut
  <2>2. CASE o.r = <<EOF>>
    <3>1. o.f = g
      BY <1>2, <2>2 DEF Fetched
    <3>2. QED
      BY <1>2, <2>2, <3>1 DEF SameBut
  <2>3. QED
    BY <2>1, <2>2
<1> HIDE DEF h
<1>4. Sound(h) /\ h.flags = o.f.flags \cup {x} /\ SameBut(h, o.f, {"flags"})
  BY <1>1, <1>3, SetIs
<1>5. SameBut(h, g, {"flags"}) /\ h.flags = g.flags \cup {x} /\ h.ok
  BY <1>3, <1>4 DEF SameBut
<1>6. ASSUME Fit(g), Input(g), g.bm = g.bs, g.ungotten = <<>>
      PROVE  /\ SameView(h, g) /\ Input(h) /\ Took(g, <<>>, h)
             /\ "ERR" \in h.flags \/ AheadOf(h) = <<>>
  <2>1. /\ h.file = g.file /\ h.pos = g.pos /\ h.bm = g.bm /\ h.bs = g.bs /\ h.buf = g.buf
        /\ h.ungotten = g.ungotten /\ h.open = g.open /\ Input(h)
    BY <1>5, <1>6 DEF SameBut, Input
  <2>2. ContentOf(h) = ContentOf(g) /\ PosOf(h) = PosOf(g)
    BY <1>6, <2>1 DEF ContentOf, PosOf
  <2>3. "EOF" \in h.flags => g.pos = Len(g.file)
    <3>1. "EOF" \in g.flags => g.pos = Len(g.file)
      BY <1>6 DEF Fit
    <3>2. "EOF" \in h.flags => "EOF" \in g.flags \/ x = "EOF"
      BY <1>5, Zenon
    <3>3. x = "EOF" => o.r = <<>>
      OBVIOUS
    <3>4. QED
      BY <1>3, <3>1, <3>2, <3>3
  <2>4. Fit(h)
    BY <1>4, <1>5, <1>6, <2>1, <2>2, <2>3 DEF Fit
  <2>5. SameView(h, g)
    BY <2>1, <2>2, <2>4 DEF SameView
  <2>6. Took(g, <<>>, h)
    BY <1>6, <2>5, TookSame
  <2>7. "ERR" \in h.flags \/ "EOF" \in h.flags
    BY <1>1, <1>5
  <2>8. QED
    BY <2>1, <2>4, <2>5, <2>6, <2>7, EofIs
<1>7. QED
  BY <1>4, <1>5, <1>6 DEF h

(* A turn of the loop of read. *)
ReadTurn(X) ==
  Then(X, LAMBDA o :
       IF o.left = 0 THEN {o}
       ELSE {IF p.r \in {<<EOF>>, <<>>}
             THEN [f |-> Set(p.f, IF p.r = <<>> THEN {"EOF"} ELSE {"ERR"}), r |-> o.r, left |-> 0]
             ELSE [f |-> p.f, r |-> o.r \o p.r, left |-> o.left - Len(p.r)] :
               p \in read(o.f, o.left)})

(* ReadAll has a run. *)
LEMMA ReadAllRuns ==
  ASSUME NEW g, NEW n \in Nat, NEW got
  PROVE  \E q : /\ ReadAll(g, n, got) = {Ret(y.f, y.r) : y \in q[n]}
                /\ q[0] = {[f |-> g, r |-> got, left |-> n]}
                /\ \A j \in 1 .. n : q[j] = ReadTurn(q[j - 1])
<1> DEFINE Next1(q, j) == IF j = 0 THEN {[f |-> g, r |-> got, left |-> n]} ELSE ReadTurn(q[j - 1])
           Run(q, m) == q = [j \in 0 .. m |-> Next1(q, j)]
           T == {m \in Nat : ~ \E q : Run(q, m)}
<1>1. n \in Nat
  OBVIOUS
<1>2. T = {}
  <2> SUFFICES ASSUME T # {} PROVE FALSE
    OBVIOUS
  <2>1. PICK m \in T : \A y \in T : m <= y
    BY LeastExists
  <2>2. m \in Nat /\ ~ \E q : Run(q, m)
    OBVIOUS
  <2>3. CASE m = 0
    <3> DEFINE q == [j \in 0 .. 0 |-> {[f |-> g, r |-> got, left |-> n]}]
    <3>1. \A j \in 0 .. 0 : j = 0
      OBVIOUS
    <3>2. Run(q, 0)
      BY <3>1, Zenon
    <3>3. QED
      BY <2>2, <2>3, <3>2, Zenon
  <2>4. CASE m # 0
    <3>1. m - 1 \in Nat /\ ~(m <= m - 1)
      BY <2>2, <2>4
    <3>2. PICK p : Run(p, m - 1)
      BY <2>1, <3>1
    <3> DEFINE q == [j \in 0 .. m |-> IF j = m THEN ReadTurn(p[m - 1]) ELSE p[j]]
    <3>3. ASSUME NEW j \in 0 .. m PROVE q[j] = Next1(q, j)
      <4>1. CASE j = m
        <5>1. m - 1 \in 0 .. m /\ m - 1 # m
          BY <2>2, <2>4, <3>1
        <5>2. q[m - 1] = p[m - 1]
          BY <5>1
        <5>3. QED
          BY <2>4, <4>1, <5>2, Zenon
      <4>2. CASE j # m
        <5>1. j \in 0 .. m - 1 /\ (j # 0 => j - 1 \in 0 .. m /\ j - 1 # m)
          BY <2>2, <4>2
        <5>2. p[j] = Next1(p, j) /\ q[j] = p[j]
          BY <3>2, <4>2, <5>1, Zenon
        <5>3. j # 0 => q[j - 1] = p[j - 1]
          BY <5>1
        <5>4. QED
          BY <5>2, <5>3, Zenon
      <4>3. QED
        BY <4>1, <4>2, Zenon
    <3> HIDE DEF Next1
    <3>4. q = [j \in 0 .. m |-> q[j]]
      BY Zenon
    <3> HIDE DEF q
    <3>5. Run(q, m)
      BY <3>3, <3>4, Zenon
    <3>6. QED
      BY <2>2, <3>5, Zenon
  <2>5. QED
    BY <2>3, <2>4
<1> DEFINE f0 == CHOOSE q : Run(q, n)
<1>3. Run(f0, n)
  <2>1. \E q : Run(q, n)
    BY <1>1, <1>2
  <2> HIDE DEF Run
  <2>2. QED
    BY <2>1, Zenon
<1>4. ReadAll(g, n, got) = {Ret(y.f, y.r) : y \in f0[n]}
  BY Zenon DEF ReadAll, ReadTurn, Then
<1> HIDE DEF f0
<1>5. 0 \in 0 .. n /\ \A j \in 1 .. n : j \in 0 .. n /\ j # 0
  BY <1>1
<1>6. \A j \in 0 .. n : f0[j] = Next1(f0, j)
  BY <1>3, Zenon
<1>7. f0[0] = {[f |-> g, r |-> got, left |-> n]} /\ \A j \in 1 .. n : f0[j] = ReadTurn(f0[j - 1])
  BY <1>5, <1>6, Zenon
<1>8. QED
  BY <1>4, <1>7, Zenon

(* The loop of read: every turn reads a byte at least. *)
LEMMA ReadAllIs ==
  ASSUME NEW g, Sound(g), g.ok, NEW n \in Nat, NEW got \in Bytes, NEW o \in ReadAll(g, n, got)
  PROVE  /\ Sound(o.f) /\ o.f.ok /\ o.r \in Bytes
         /\ Bare(g) => \E u \in Bytes : /\ o.r = got \o u /\ Took(g, u, o.f) /\ Len(u) <= n
                                        /\ Len(u) = n \/ Ended(u, o.f, EOF)
<1> DEFINE Part(u, x) == /\ x.r = got \o u /\ Took(g, u, x.f) /\ Bare(x.f)
                         /\ Len(u) + x.left = n \/ (x.left = 0 /\ Len(u) <= n /\ Ended(u, x.f, EOF))
           I(x, j) == /\ Sound(x.f) /\ x.f.ok /\ x.r \in Bytes /\ x.left \in Nat /\ x.left <= n - j
                      /\ Bare(g) => \E u \in Bytes : Part(u, x)
<1>1. PICK q : /\ ReadAll(g, n, got) = {Ret(y.f, y.r) : y \in q[n]}
               /\ q[0] = {[f |-> g, r |-> got, left |-> n]}
               /\ \A j \in 1 .. n : q[j] = ReadTurn(q[j - 1])
  BY ReadAllRuns
<1> DEFINE S == {j \in 0 .. n : \A x \in q[j] : I(x, j)}
<1>2. <<>> \in Bytes /\ Len(<<>>) = 0 /\ got \o <<>> = got
  BY NoBytes, NoneIs
<1>3. 0 \in S
  <2>1. ASSUME NEW x \in q[0] PROVE I(x, 0)
    <3>1. x.f = g /\ x.r = got /\ x.left = n
      BY <1>1, <2>1
    <3>2. Bare(g) => Took(g, <<>>, g)
      <4>1. Bare(g) => Fit(g) /\ SameView(g, g)
        BY DEF SameView, Bare
      <4>2. QED
        BY <4>1, TookSame
    <3>3. n <= n - 0 /\ 0 + n = n
      OBVIOUS
    <3>4. Bare(g) => Part(<<>>, x)
      BY <1>2, <3>1, <3>2, <3>3
    <3> HIDE DEF Part
    <3>5. QED
      BY <1>2, <3>1, <3>3, <3>4
  <2>2. QED
    BY <2>1
<1>4. ASSUME NEW j \in 1 .. n, j - 1 \in S PROVE j \in S
  <2>1. ASSUME NEW x \in q[j] PROVE I(x, j)
    <3>1. PICK w \in q[j - 1] :
            x \in (IF w.left = 0 THEN {w}
                   ELSE {IF p.r \in {<<EOF>>, <<>>}
                         THEN [f |-> Set(p.f, IF p.r = <<>> THEN {"EOF"} ELSE {"ERR"}), r |-> w.r, left |-> 0]
                         ELSE [f |-> p.f, r |-> w.r \o p.r, left |-> w.left - Len(p.r)] :
                           p \in read(w.f, w.left)})
      <4>1. x \in ReadTurn(q[j - 1])
        BY <1>1
      <4>2. QED
        BY <4>1, Zenon DEF ReadTurn, Then
    <3>2. I(w, j - 1)
      BY <1>4
    <3>3. CASE w.left = 0
      <4>1. x = w
        BY <3>1, <3>3
      <4>2. 0 <= n - j
        OBVIOUS
      <4> HIDE DEF Part
      <4>3. QED
        BY <3>2, <3>3, <4>1, <4>2
    <3>4. CASE w.left # 0
      <4>1. PICK p \in read(w.f, w.left) :
              x = IF p.r \in {<<EOF>>, <<>>}
                  THEN [f |-> Set(p.f, IF p.r = <<>> THEN {"EOF"} ELSE {"ERR"}), r |-> w.r, left |-> 0]
                  ELSE [f |-> p.f, r |-> w.r \o p.r, left |-> w.left - Len(p.r)]
        BY <3>1, <3>4, Zenon
      <4>2. Sound(w.f) /\ w.f.ok /\ w.r \in Bytes /\ w.left \in Nat /\ w.left <= n - (j - 1)
        BY <3>2
      <4>3. Fetched(w.f, w.left, p)
        BY <4>2, ReadIs
      <4>4. CASE p.r \in {<<EOF>>, <<>>}
        <5> DEFINE h == Set(p.f, IF p.r = <<>> THEN {"EOF"} ELSE {"ERR"})
        <5>1. x.f = h /\ x.r = w.r /\ x.left = 0
          BY <4>1, <4>4
        <5>2. /\ Sound(h) /\ h.ok /\ SameBut(h, w.f, {"flags"})
              /\ Fit(w.f) /\ Input(w.f) /\ w.f.bm = w.f.bs /\ w.f.ungotten = <<>> =>
                   /\ SameView(h, w.f) /\ Input(h) /\ Took(w.f, <<>>, h)
                   /\ "ERR" \in h.flags \/ AheadOf(h) = <<>>
          BY <3>4, <4>2, <4>3, <4>4, PieceNone
        <5> HIDE DEF h
        <5>3. ASSUME Bare(g) PROVE \E u \in Bytes : Part(u, x)
          <6>1. PICK u \in Bytes : Part(u, w)
            BY <3>2, <5>3
          <6>2. w.r = got \o u /\ Took(g, u, w.f) /\ Bare(w.f) /\ Len(u) + w.left = n /\ Len(u) \in Nat
            BY <3>4, <6>1, LenIs
          <6>3. /\ SameView(h, w.f) /\ Input(h) /\ Took(w.f, <<>>, h)
                /\ "ERR" \in h.flags \/ AheadOf(h) = <<>>
            BY <5>2, <6>2 DEF Bare
          <6>4. Took(g, u \o <<>>, h) /\ u \o <<>> = u
            BY <1>2, <5>3, <6>2, <6>3, TookJoin, NoneIs DEF Bare
          <6>5. Took(g, u, h)
            BY <6>4, Zenon
          <6>6. Bare(h)
            BY <5>2, <6>2, <6>3 DEF Bare, SameBut, SameView
          <6>7. Ended(u, h, EOF) /\ Len(u) <= n
            <7>1. Len(u) <= n
              BY <4>2, <6>2
            <7>2. QED
              BY <6>3, <7>1 DEF Ended
          <6>8. Part(u, x)
            BY <5>1, <6>2, <6>5, <6>6, <6>7
          <6> HIDE DEF Part
          <6>9. QED
            BY <6>8
        <5>4. 0 <= n - j
          OBVIOUS
        <5> HIDE DEF Part
        <5>5. QED
          BY <4>2, <5>1, <5>2, <5>3, <5>4
      <4>5. CASE p.r \notin {<<EOF>>, <<>>}
        <5>1. x.f = p.f /\ x.r = w.r \o p.r /\ x.left = w.left - Len(p.r)
          BY <4>1, <4>5
        <5>2. /\ Sound(p.f) /\ SameBut(p.f, w.f, {"pos"}) /\ p.r \in Bytes /\ Len(p.r) \in 1 .. w.left
          BY <4>3, <4>5 DEF Fetched
        <5>3. p.f.ok /\ w.r \o p.r \in Bytes
          BY <4>2, <5>2, JoinIs DEF SameBut
        <5>4. x.left \in Nat /\ x.left <= n - j
          BY <4>2, <5>1, <5>2
        <5>5. ASSUME Bare(g) PROVE \E u \in Bytes : Part(u, x)
          <6>1. PICK u \in Bytes : Part(u, w)
            BY <3>2, <5>5
          <6>2. w.r = got \o u /\ Took(g, u, w.f) /\ Bare(w.f) /\ Len(u) + w.left = n /\ Len(u) \in Nat
            BY <3>4, <6>1, LenIs
          <6>3. Bare(p.f) /\ Took(w.f, p.r, p.f)
            BY <4>2, <4>3, <4>5, <6>2, PieceIs
          <6> DEFINE v == u \o p.r
          <6>4. Took(g, v, p.f)
            BY <5>2, <5>5, <6>2, <6>3, TookJoin DEF Bare
          <6>5. v \in Bytes /\ Len(v) = Len(u) + Len(p.r)
            BY <5>2, JoinIs
          <6>6. x.r = got \o v
            <7>1. (got \o u) \o p.r = got \o (u \o p.r)
              BY <5>2, JoinAssoc
            <7>2. QED
              BY <5>1, <6>2, <7>1, Zenon
          <6> HIDE DEF v
          <6>7. Len(v) + x.left = n
            BY <4>2, <5>1, <5>2, <6>2, <6>5
          <6>8. Part(v, x)
            BY <5>1, <6>3, <6>4, <6>6, <6>7
          <6> HIDE DEF Part
          <6>9. QED
            BY <6>5, <6>8
        <5> HIDE DEF Part
        <5>6. QED
          BY <5>1, <5>2, <5>3, <5>4, <5>5
      <4>6. QED
        BY <4>4, <4>5
    <3>5. QED
      BY <3>3, <3>4
  <2> HIDE DEF I
  <2>2. j \in 0 .. n
    OBVIOUS
  <2>3. QED
    BY <2>1, <2>2
<1> HIDE DEF S
<1>5. n \in S
  BY <1>3, <1>4, AllTurns
<1>6. PICK x \in q[n] : o = Ret(x.f, x.r)
  BY <1>1, Zenon
<1>7. I(x, n) /\ o.f = x.f /\ o.r = x.r
  BY <1>5, <1>6 DEF S, Ret
<1>8. ASSUME Bare(g)
      PROVE  \E u \in Bytes : /\ o.r = got \o u /\ Took(g, u, o.f) /\ Len(u) <= n
                              /\ Len(u) = n \/ Ended(u, o.f, EOF)
  <2>1. PICK u \in Bytes : Part(u, x)
    BY <1>7, <1>8
  <2>2. x.left = 0 /\ Len(u) \in Nat
    BY <1>7, LenIs
  <2>3. Len(u) <= n /\ (Len(u) = n \/ Ended(u, x.f, EOF))
    BY <2>1, <2>2
  <2>4. QED
    BY <1>7, <2>1, <2>3
<1> HIDE DEF Part
<1>9. QED
  BY <1>7, <1>8

(* fread fills an empty buffer first. *)
Loads(g) ==
  IF g.bs # g.bm THEN {Ret(g, <<>>)}
  ELSE {IF o.r = <<>> THEN Ret(Set([o.f EXCEPT !.bm = 0], {"EOF"}), <<EOF>>)
        ELSE IF o.r = <<EOF>> THEN Ret(Set([o.f EXCEPT !.bm = 0], {"ERR"}), <<EOF>>)
        ELSE Ret([o.f EXCEPT !.buf = Overlay(@, 0, o.r), !.bs = Len(o.r), !.bm = 0], <<>>) :
          o \in read(g, g.buflen)}

(* bm set to 0. *)
LEMMA ZeroIs ==
  ASSUME NEW g, Sound(g)
  PROVE  LET k == [g EXCEPT !.bm = 0] IN
         Sound(k) /\ SameBut(k, g, {"bm"}) /\ k.bm = 0 /\ (g.bm = 0 => k = g)
<1> DEFINE k == [g EXCEPT !.bm = 0]
<1>1. g \in StreamRec
  BY DEF Sound
<1>2. k \in StreamRec /\ SameBut(k, g, {"bm"}) /\ k.bm = 0 /\ (g.bm = 0 => k = g)
  BY <1>1 DEF StreamRec, SameBut
<1> HIDE DEF k
<1>3. k.bs \in Nat /\ k.buflen \in Nat
  BY <1>2 DEF StreamRec
<1>4. Sound(k)
  BY <1>2, <1>3 DEF Sound, SameBut, Input
<1>5. QED
  BY <1>2, <1>4 DEF k

(* Where fread is right. *)
Readable(g) == Fit(g) /\ Input(g) /\ g.ungotten = <<>> /\ (g.bm = g.bs => g.bs = 0)

(* The buffer could not be filled. *)
LEMMA LoadNone ==
  ASSUME NEW g, Sound(g), g.ok, g.bs = g.bm, NEW o \in read(g, g.buflen), o.r \in {<<EOF>>, <<>>},
         NEW h, h = Set([o.f EXCEPT !.bm = 0], IF o.r = <<>> THEN {"EOF"} ELSE {"ERR"})
  PROVE  /\ Sound(h) /\ h.ok /\ h.ungotten = g.ungotten
         /\ Readable(g) => Took(g, <<>>, h) /\ Input(h) /\ ("ERR" \in h.flags \/ AheadOf(h) = <<>>)
<1> DEFINE k == [o.f EXCEPT !.bm = 0]
           x == IF o.r = <<>> THEN "EOF" ELSE "ERR"
<1>1. g.buflen \in Nat /\ g.buflen # 0
  BY Numbers, Fields DEF Sound
<1>2. Fetched(g, g.buflen, o)
  BY <1>1, ReadIs
<1>3. Sound(o.f) /\ SameBut(o.f, g, {"pos"})
  BY <1>2 DEF Fetched
<1>4. Sound(k) /\ SameBut(k, o.f, {"bm"}) /\ k.bm = 0 /\ (o.f.bm = 0 => k = o.f)
  BY <1>3, ZeroIs
<1>5. h = Set(k, {x}) /\ x \in {"ERR", "EOF"}
  BY Zenon
<1>6. o.f.bm = 0 => h = Set(o.f, IF o.r = <<>> THEN {"EOF"} ELSE {"ERR"})
  BY <1>4
<1> HIDE DEF k, x
<1>7. Sound(h) /\ SameBut(h, k, {"flags"})
  <2>1. Sound(Set(k, {x})) /\ Set(k, {x}).flags = k.flags \cup {x} /\ SameBut(Set(k, {x}), k, {"flags"})
    BY <1>4, <1>5, SetIs, Zenon
  <2>2. QED
    BY <1>5, <2>1, Zenon
<1>8. h.ok /\ h.ungotten = g.ungotten
  BY <1>3, <1>4, <1>7 DEF SameBut
<1>9. ASSUME Readable(g)
      PROVE  Took(g, <<>>, h) /\ Input(h) /\ ("ERR" \in h.flags \/ AheadOf(h) = <<>>)
  <2>1. g.bm = 0 /\ g.bs = 0 /\ Fit(g) /\ Input(g) /\ g.ungotten = <<>>
    BY <1>9 DEF Readable
  <2>2. o.f.bm = 0
    BY <1>3, <2>1 DEF SameBut
  <2> DEFINE m == Set(o.f, IF o.r = <<>> THEN {"EOF"} ELSE {"ERR"})
  <2>3. /\ Sound(m) /\ m.ok /\ SameBut(m, g, {"flags"})
        /\ Fit(g) /\ Input(g) /\ g.bm = g.bs /\ g.ungotten = <<>> =>
             /\ SameView(m, g) /\ Input(m) /\ Took(g, <<>>, m)
             /\ "ERR" \in m.flags \/ AheadOf(m) = <<>>
    BY <1>1, <1>2, PieceNone
  <2>4. h = m
    BY <1>6, <2>2
  <2> HIDE DEF m
  <2>5. QED
    BY <2>1, <2>3, <2>4
<1>10. QED
  BY <1>7, <1>8, <1>9

(* fread fills an empty buffer. *)
LEMMA LoadsIs ==
  ASSUME NEW g, Sound(g), g.ok, NEW a \in Loads(g)
  PROVE  /\ Sound(a.f) /\ a.f.ok /\ a.f.ungotten = g.ungotten
         /\ Readable(g) => /\ Took(g, <<>>, a.f) /\ Input(a.f)
                           /\ a.r = <<EOF>> => "ERR" \in a.f.flags \/ AheadOf(a.f) = <<>>
<1>0. <<>> # <<EOF>>
  BY NotEof, NoBytes
<1>1. CASE g.bs # g.bm
  <2>1. a = Ret(g, <<>>)
    BY <1>1 DEF Loads
  <2>2. a.f = g /\ a.r = <<>>
    BY <2>1 DEF Ret
  <2>3. Readable(g) => Took(g, <<>>, g) /\ Input(g)
    <3>1. Readable(g) => Fit(g) /\ SameView(g, g) /\ Input(g)
      BY DEF SameView, Readable
    <3>2. QED
      BY <3>1, TookSame
  <2>4. QED
    BY <1>0, <2>2, <2>3
<1>2. CASE g.bs = g.bm
  <2>1. PICK o \in read(g, g.buflen) :
          a = IF o.r = <<>> THEN Ret(Set([o.f EXCEPT !.bm = 0], {"EOF"}), <<EOF>>)
              ELSE IF o.r = <<EOF>> THEN Ret(Set([o.f EXCEPT !.bm = 0], {"ERR"}), <<EOF>>)
              ELSE Ret([o.f EXCEPT !.buf = Overlay(@, 0, o.r), !.bs = Len(o.r), !.bm = 0], <<>>)
    BY <1>2, Zenon DEF Loads
  <2>2. CASE o.r \in {<<EOF>>, <<>>}
    <3>1. a = Ret(Set([o.f EXCEPT !.bm = 0], IF o.r = <<>> THEN {"EOF"} ELSE {"ERR"}), <<EOF>>)
      <4>1. CASE o.r = <<>>
        BY <2>1, <4>1, Zenon
      <4>2. CASE o.r # <<>>
        BY <2>1, <2>2, <4>2, Zenon
      <4>3. QED
        BY <4>1, <4>2
    <3>2. a.f = Set([o.f EXCEPT !.bm = 0], IF o.r = <<>> THEN {"EOF"} ELSE {"ERR"})
      BY <3>1 DEF Ret
    <3>3. /\ Sound(a.f) /\ a.f.ok /\ a.f.ungotten = g.ungotten
          /\ Readable(g) => Took(g, <<>>, a.f) /\ Input(a.f) /\ ("ERR" \in a.f.flags \/ AheadOf(a.f) = <<>>)
      BY <1>2, <2>2, <3>2, LoadNone
    <3>4. QED
      BY <3>3
  <2>3. CASE o.r \notin {<<EOF>>, <<>>}
    <3> DEFINE h == [o.f EXCEPT !.buf = Overlay(o.f.buf, 0, o.r), !.bs = Len(o.r), !.bm = 0]
    <3>1. a = Ret(h, <<>>)
      BY <2>1, <2>3, Zenon
    <3>2. a.f = h /\ a.r = <<>>
      BY <3>1 DEF Ret
    <3>3. g.buflen \in Nat
      BY Fields
    <3>4. Fetched(g, g.buflen, o)
      BY <3>3, ReadIs
    <3>5. o.r # <<>> /\ o.r # <<EOF>> /\ 0 \in {0, 1}
      BY <2>3
    <3>6. /\ Sound(h) /\ SameBut(h, g, {"pos", "buf", "bs", "bm"}) /\ h.bs = Len(o.r) /\ h.bm = 0
          /\ Len(o.r) \in Nat /\ Len(o.r) > 0 /\ o.r[1] \in Byte
          /\ Fit(g) /\ Input(g) /\ g.bm = g.bs /\ g.ungotten = <<>> =>
               Fit(h) /\ Took(g, IF 0 = 0 THEN <<>> ELSE <<o.r[1]>>, h)
      BY <3>4, <3>5, LoadIs
    <3> HIDE DEF h
    <3>7. h.ok /\ h.ungotten = g.ungotten /\ h.flags = g.flags
      BY <3>6 DEF SameBut
    <3>8. Readable(g) => Took(g, <<>>, h) /\ Input(h)
      BY <1>2, <3>6, <3>7 DEF Readable, Input
    <3>9. QED
      BY <1>0, <3>2, <3>6, <3>7, <3>8
  <2>4. QED
    BY <2>2, <2>3
<1>3. QED
  BY <1>1, <1>2

(* fread copies from the buffer, and resets one that is used up. *)
LEMMA ResetIs ==
  ASSUME NEW g, Sound(g), NEW h, h = [g EXCEPT !.bm = 0, !.bs = 0]
  PROVE  /\ Sound(h) /\ SameBut(h, g, {"bm", "bs"}) /\ h.bm = 0 /\ h.bs = 0
         /\ Fit(g) /\ Input(g) /\ g.bm = g.bs => SameView(h, g) /\ Input(h)
<1>1. g \in StreamRec
  BY DEF Sound
<1>2. h \in StreamRec /\ SameBut(h, g, {"bm", "bs"}) /\ h.bm = 0 /\ h.bs = 0
  BY <1>1 DEF StreamRec, SameBut
<1>3. h.pos \in Nat /\ h.buflen \in Nat
  BY <1>2 DEF StreamRec
<1>4. Sound(h)
  BY <1>2, <1>3 DEF Sound, SameBut
<1>5. ASSUME Fit(g), Input(g), g.bm = g.bs PROVE SameView(h, g) /\ Input(h)
  <2>1. /\ h.file = g.file /\ h.pos = g.pos /\ h.flags = g.flags /\ h.ungotten = g.ungotten /\ h.open = g.open
        /\ h.ok = g.ok
    BY <1>2 DEF SameBut
  <2>2. Input(h) /\ g.pos \in Nat /\ g.bs \in Nat
    BY <1>5, <2>1, Fields DEF Input
  <2>3. ContentOf(h) = g.file /\ PosOf(h) = g.pos
    BY <1>2, <1>4, <2>1, EmptyView
  <2>4. ContentOf(g) = g.file /\ PosOf(g) = g.pos
    BY <1>5, <2>2 DEF ContentOf, PosOf
  <2>5. Fit(h)
    BY <1>2, <1>3, <1>4, <1>5, <2>1, <2>2, <2>3, <2>4 DEF Fit
  <2>6. QED
    BY <2>1, <2>2, <2>3, <2>4, <2>5 DEF SameView
<1>6. QED
  BY <1>2, <1>4, <1>5

(* The part of fread that comes from the buffer. *)
ToCopy(h, n) == IF n > h.bs - h.bm THEN h.bs - h.bm ELSE n
Taken(h, t) == SubSeq(h.buf, h.bm + 1, h.bm + t)
After(h, t) == IF h.bm + t = h.bs THEN [h EXCEPT !.bm = 0, !.bs = 0] ELSE [h EXCEPT !.bm = @ + t]

(* It takes the bytes from the view. *)
LEMMA CopyIs ==
  ASSUME NEW h, Sound(h), NEW n \in Nat, h.ungotten = <<>>,
         NEW t, t = ToCopy(h, n), NEW h2, h2 = After(h, t), NEW u, u = Taken(h, t)
  PROVE  /\ Sound(h2) /\ SameBut(h2, h, {"bm", "bs"}) /\ u \in Bytes /\ Len(u) <= n
         /\ Len(u) < n => h2.bm = 0 /\ h2.bs = 0
         /\ Fit(h) /\ Input(h) => Took(h, u, h2)
<1>1. /\ h.bm \in Nat /\ h.bs \in Nat /\ h.buf \in Bytes /\ h.bs <= Len(h.buf) /\ h.bm <= Len(h.buf)
      /\ Len(h.buf) \in Nat
  BY Fields, LenIs DEF Sound
<1> DEFINE z == [h EXCEPT !.bm = 0, !.bs = 0]
<1>2. /\ Sound(z) /\ SameBut(z, h, {"bm", "bs"}) /\ z.bm = 0 /\ z.bs = 0
  BY ResetIs
<1>3. CASE h.bs < h.bm
  <2>1. h.bs - h.bm < 0 /\ n > h.bs - h.bm
    BY <1>1, <1>3
  <2>2. t = h.bs - h.bm
    BY <2>1 DEF ToCopy
  <2>3. h.bm + t = h.bs
    BY <1>1, <2>2
  <2>4. h2 = z
    BY <2>3 DEF After
  <2>5. u \in Bytes /\ Len(u) = 0
    <3>1. h.bs \in Int /\ h.bs <= Len(h.buf) /\ ~(h.bs > h.bm)
      BY <1>1, <1>3
    <3>2. /\ SubSeq(h.buf, h.bm + 1, h.bs) \in Bytes
          /\ Len(SubSeq(h.buf, h.bm + 1, h.bs)) = IF h.bs > h.bm THEN h.bs - h.bm ELSE 0
      BY <1>1, <3>1, PartIs
    <3>3. u = SubSeq(h.buf, h.bm + 1, h.bs)
      BY <2>3, Zenon DEF Taken
    <3>4. QED
      BY <3>1, <3>2, <3>3
  <2> HIDE DEF z
  <2>6. Len(u) <= n
    BY <2>5
  <2>7. ~(Fit(h) /\ Input(h))
    <3>1. Fit(h) /\ Input(h) => h.bm <= h.bs
      BY DEF Fit, Sound
    <3>2. QED
      BY <1>1, <1>3, <3>1
  <2>8. QED
    BY <1>2, <2>4, <2>5, <2>6, <2>7
<1>4. CASE h.bm <= h.bs
  <2>1. t \in Nat /\ h.bm + t <= h.bs /\ t <= n /\ h.bm + t <= Len(h.buf) /\ (t < n => h.bm + t = h.bs)
    BY <1>1, <1>4 DEF ToCopy
  <2>2. u \in Bytes /\ Len(u) = t
    <3>1. SubSeq(h.buf, h.bm + 1, h.bm + t) \in Bytes /\ Len(SubSeq(h.buf, h.bm + 1, h.bm + t)) = t
      BY <1>1, <2>1, SpanIs
    <3>2. QED
      BY <3>1, Zenon DEF Taken
  <2> DEFINE k == [h EXCEPT !.bm = h.bm + t]
  <2>3. /\ Sound(k) /\ SameBut(k, h, {"bm"}) /\ k.bm = h.bm + t
        /\ Fit(h) => Took(h, u, k)
    BY <2>1, TakeIs DEF Taken
  <2>4. CASE h.bm + t = h.bs
    <3>1. h2 = z
      BY <2>4 DEF After
    <3>2. h \in StreamRec
      BY Fields
    <3>3. z = [k EXCEPT !.bm = 0, !.bs = 0]
      BY <3>2 DEF StreamRec
    <3> HIDE DEF z, k
    <3>4. Fit(k) /\ Input(k) /\ k.bm = k.bs => SameView(z, k) /\ Input(z)
      BY <2>3, <3>3, ResetIs
    <3>5. ASSUME Fit(h), Input(h) PROVE Took(h, u, z)
      <4>1. Took(h, u, k)
        BY <2>3, <3>5
      <4>2. Fit(k)
        BY <4>1 DEF Took
      <4>3. Input(k) /\ k.bm = k.bs
        BY <2>3, <2>4, <3>5 DEF SameBut, Input
      <4>4. Took(k, <<>>, z)
        BY <3>4, <4>2, <4>3, TookSame
      <4>5. Took(h, u \o <<>>, z)
        BY <2>2, <3>5, <4>1, <4>4, NoBytes, TookJoin
      <4>6. u \o <<>> = u
        BY <2>2, NoneIs
      <4>7. QED
        BY <4>5, <4>6, Zenon
    <3>6. Len(u) <= n
      BY <2>1, <2>2
    <3>7. QED
      BY <1>2, <2>2, <3>1, <3>5, <3>6
  <2>5. CASE h.bm + t # h.bs
    <3>1. h2 = k
      BY <2>5 DEF After
    <3>2. Len(u) = n
      BY <2>1, <2>2, <2>5
    <3> HIDE DEF z, k
    <3>3. SameBut(k, h, {"bm", "bs"}) /\ Len(u) <= n /\ ~(Len(u) < n)
      BY <2>3, <3>2 DEF SameBut
    <3>4. QED
      BY <2>2, <2>3, <3>1, <3>3
  <2>6. QED
    BY <2>4, <2>5
<1>5. h.bm <= h.bs \/ h.bs < h.bm
  BY <1>1
<1>6. QED
  BY <1>3, <1>4, <1>5

(* fread, once the buffer is filled. *)
ReadStep(g, n, a) ==
  LET h      == [a.f EXCEPT !.ungotten = <<>>]
      tocopy == IF n > h.bs - h.bm THEN h.bs - h.bm ELSE n
      got    == g.ungotten \o SubSeq(h.buf, h.bm + 1, h.bm + tocopy)
      h2     == IF h.bm + tocopy = h.bs THEN [h EXCEPT !.bm = 0, !.bs = 0]
                ELSE [h EXCEPT !.bm = @ + tocopy]
  IN  IF a.r = <<EOF>> THEN {Ret(h, g.ungotten)}
      ELSE IF Len(got) >= n THEN {Ret(h2, got)}
      ELSE IF n > h2.buflen THEN ReadAll(h2, n - Len(got), got)
      ELSE GetEach(h2, n - Len(got), EOF, got)

(* fread: the bytes ahead, fewer only with an error or at the end. *)
GotN(g, n, o) ==
  /\ o.r \in Bytes /\ Took(g, o.r, o.f) /\ Len(o.r) <= n
  /\ Len(o.r) = n \/ "ERR" \in o.f.flags \/ AheadOf(o.f) = <<>>

(* Without a byte to stop at, reading ends at the end or an error. *)
LEMMA NoStop ==
  ASSUME NEW u \in Bytes, NEW h, Ended(u, h, EOF)
  PROVE  "ERR" \in h.flags \/ AheadOf(h) = <<>>
<1>1. ASSUME u # <<>> PROVE u[Len(u)] # EOF
  <2>1. Len(u) \in 1 .. Len(u)
    BY <1>1, LenIs
  <2>2. u[Len(u)] \in Byte
    BY <2>1, ElementOfSeq DEF Bytes
  <2>3. QED
    BY <2>2, ByteNotEof
<1>2. QED
  BY <1>1 DEF Ended

(* What is read after the bytes u. *)
LEMMA GotMore ==
  ASSUME NEW g, Fit(g), NEW u \in Bytes, NEW k, Took(g, u, k), NEW n \in Nat, Len(u) <= n,
         NEW o, NEW v \in Bytes, o.r = u \o v, Took(k, v, o.f), Len(v) <= n - Len(u),
         Len(v) = n - Len(u) \/ Ended(v, o.f, EOF)
  PROVE  GotN(g, n, o)
<1>1. o.r \in Bytes /\ Len(o.r) = Len(u) + Len(v) /\ Len(u) \in Nat /\ Len(v) \in Nat
  BY JoinIs, LenIs
<1>2. Took(g, o.r, o.f)
  BY TookJoin
<1>3. Len(o.r) <= n /\ (Len(v) = n - Len(u) => Len(o.r) = n)
  BY <1>1
<1>4. QED
  BY <1>1, <1>2, <1>3, NoStop DEF GotN

(* fread after the buffer has been filled. *)
LEMMA ReadStepIs ==
  ASSUME NEW g, Sound(g), g.ok, NEW n \in Nat, n # 0, NEW a \in Loads(g), NEW o \in ReadStep(g, n, a)
  PROVE  Sound(o.f) /\ (Readable(g) /\ o.f.ok => GotN(g, n, o))
<1> DEFINE h == [a.f EXCEPT !.ungotten = <<>>]
           t == IF n > h.bs - h.bm THEN h.bs - h.bm ELSE n
           u == SubSeq(h.buf, h.bm + 1, h.bm + t)
           got == g.ungotten \o u
           h2 == IF h.bm + t = h.bs THEN [h EXCEPT !.bm = 0, !.bs = 0] ELSE [h EXCEPT !.bm = @ + t]
<1>0. o \in (IF a.r = <<EOF>> THEN {Ret(h, g.ungotten)}
             ELSE IF Len(got) >= n THEN {Ret(h2, got)}
             ELSE IF n > h2.buflen THEN ReadAll(h2, n - Len(got), got)
             ELSE GetEach(h2, n - Len(got), EOF, got))
  BY Zenon DEF ReadStep
<1>1. /\ Sound(a.f) /\ a.f.ok /\ a.f.ungotten = g.ungotten
      /\ Readable(g) => /\ Took(g, <<>>, a.f) /\ Input(a.f)
                        /\ a.r = <<EOF>> => "ERR" \in a.f.flags \/ AheadOf(a.f) = <<>>
  BY LoadsIs
<1>2. /\ Sound(h) /\ SameBut(h, a.f, {"ungotten"}) /\ h.ungotten = <<>>
      /\ Fit(a.f) => Took(a.f, a.f.ungotten, h)
  BY <1>1, DropIs
<1> HIDE DEF h
<1>3. h.ok /\ h.flags = a.f.flags
  BY <1>1, <1>2 DEF SameBut
<1>4. ASSUME Readable(g)
      PROVE  /\ Fit(g) /\ g.ungotten = <<>> /\ Fit(h) /\ Input(h) /\ Took(g, <<>>, h)
             /\ a.r = <<EOF>> => "ERR" \in h.flags \/ AheadOf(h) = <<>>
  <2>1. Fit(g) /\ g.ungotten = <<>> /\ Took(g, <<>>, a.f)
    BY <1>1, <1>4 DEF Readable
  <2>2. Fit(a.f) /\ a.f.ungotten = <<>>
    BY <1>1, <2>1 DEF Took
  <2>3. Took(a.f, <<>>, h)
    BY <1>2, <2>2
  <2>4. Took(g, <<>> \o <<>>, h) /\ <<>> \o <<>> = <<>>
    BY <2>1, <2>3, NoBytes, NoneIs, TookJoin
  <2>5. Took(g, <<>>, h) /\ Fit(h)
    BY <2>3, <2>4 DEF Took
  <2>6. AheadOf(a.f) = AheadOf(h)
    <3>1. AheadOf(a.f) = <<>> \o AheadOf(h)
      BY <2>3 DEF Took
    <3>2. <<>> \o AheadOf(h) = AheadOf(h)
      BY <2>5, RestIs, NoneIs
    <3>3. QED
      BY <3>1, <3>2, Zenon
  <2>7. QED
    BY <1>1, <1>3, <1>4, <2>1, <2>5, <2>6 DEF Input
<1>41. t = ToCopy(h, n)
  BY Zenon DEF ToCopy
<1> HIDE DEF t
<1>42. h2 = After(h, t)
  BY Zenon DEF After
<1> HIDE DEF h2
<1>5. /\ Sound(h2) /\ SameBut(h2, h, {"bm", "bs"}) /\ u \in Bytes /\ Len(u) <= n
      /\ Len(u) < n => h2.bm = 0 /\ h2.bs = 0
      /\ Fit(h) /\ Input(h) => Took(h, u, h2)
  <2>1. u = Taken(h, t)
    BY Zenon DEF Taken
  <2> HIDE DEF u
  <2>2. QED
    BY <1>2, <1>41, <1>42, <2>1, CopyIs
<1> HIDE DEF u
<1>6. /\ g.ungotten \in Bytes /\ got \in Bytes /\ Len(got) = Len(g.ungotten) + Len(u)
      /\ Len(got) \in Nat /\ Len(u) \in Nat /\ h2.ok /\ h2.buflen \in Nat
  <2>1. g.ungotten \in Bytes /\ h2.ok /\ h2.buflen \in Nat
    BY <1>3, <1>5, Fields DEF SameBut
  <2>2. got \in Bytes /\ Len(got) = Len(g.ungotten) + Len(u)
    BY <1>5, <2>1, JoinIs
  <2>3. QED
    BY <1>5, <2>1, <2>2, LenIs
<1>7. g.ungotten = <<>> => got = u
  BY <1>5, NoneIs
<1>8. Readable(g) => Fit(g) /\ got = u /\ Took(g, u, h2)
  <2>1. ASSUME Readable(g) PROVE Took(g, u, h2)
    <3>1. Took(g, <<>> \o u, h2) /\ <<>> \o u = u
      BY <1>4, <1>5, <2>1, NoBytes, NoneIs, TookJoin
    <3>2. QED
      BY <3>1, Zenon
  <2>2. QED
    BY <1>4, <1>7, <2>1
<1> HIDE DEF got
<1>9. CASE a.r = <<EOF>>
  <2>1. o = Ret(h, g.ungotten)
    BY <1>0, <1>9
  <2>2. o.f = h /\ o.r = g.ungotten
    BY <2>1 DEF Ret
  <2>3. Readable(g) => GotN(g, n, o)
    BY <1>4, <1>9, <2>2, NoBytes DEF GotN
  <2>4. QED
    BY <1>2, <2>2, <2>3
<1>10. CASE a.r # <<EOF>> /\ Len(got) >= n
  <2>1. o = Ret(h2, got)
    BY <1>0, <1>10
  <2>2. o.f = h2 /\ o.r = got
    BY <2>1 DEF Ret
  <2>3. ASSUME Readable(g) PROVE GotN(g, n, o)
    <3>1. Len(u) = n /\ o.r = u
      BY <1>5, <1>6, <1>8, <1>10, <2>2, <2>3
    <3>2. QED
      BY <1>5, <1>8, <2>2, <2>3, <3>1 DEF GotN
  <2>4. QED
    BY <1>5, <2>2, <2>3
<1>11. CASE a.r # <<EOF>> /\ Len(got) < n
  <2>1. n - Len(got) \in Nat /\ ~(Len(got) >= n)
    BY <1>6, <1>11
  <2>2. Readable(g) => Bare(h2)
    <3>1. ASSUME Readable(g) PROVE Bare(h2)
      <4>1. h2.bm = 0 /\ h2.bs = 0 /\ Took(h, u, h2)
        BY <1>4, <1>5, <1>8, <1>11, <3>1
      <4>2. Fit(h2) /\ Input(h2) /\ h2.ungotten = <<>>
        BY <1>2, <1>4, <1>5, <3>1, <4>1 DEF Took, SameBut, Input
      <4>3. QED
        BY <4>1, <4>2 DEF Bare
    <3>2. QED
      BY <3>1
  <2>3. CASE n > h2.buflen
    <3>1. o \in ReadAll(h2, n - Len(got), got)
      BY <1>0, <1>11, <2>1, <2>3
    <3>2. /\ Sound(o.f) /\ o.f.ok /\ o.r \in Bytes
          /\ Bare(h2) => \E v \in Bytes : /\ o.r = got \o v /\ Took(h2, v, o.f) /\ Len(v) <= n - Len(got)
                                          /\ Len(v) = n - Len(got) \/ Ended(v, o.f, EOF)
      BY <1>5, <1>6, <2>1, <3>1, ReadAllIs
    <3>3. ASSUME Readable(g) PROVE GotN(g, n, o)
      <4>1. PICK v \in Bytes : /\ o.r = got \o v /\ Took(h2, v, o.f) /\ Len(v) <= n - Len(got)
                               /\ Len(v) = n - Len(got) \/ Ended(v, o.f, EOF)
        BY <2>2, <3>2, <3>3
      <4>2. got = u /\ Fit(g) /\ Took(g, u, h2)
        BY <1>8, <3>3
      <4>3. QED
        BY <1>5, <4>1, <4>2, GotMore
    <3>4. QED
      BY <3>2, <3>3
  <2>4. CASE ~(n > h2.buflen)
    <3>1. o \in GetEach(h2, n - Len(got), EOF, got)
      BY <1>0, <1>11, <2>1, <2>4
    <3>2. /\ Sound(o.f) /\ o.r \in Bytes
          /\ Fit(h2) /\ o.f.ok => \E v \in Bytes : /\ o.r = got \o v /\ Took(h2, v, o.f) /\ Len(v) <= n - Len(got)
                                                   /\ Len(v) = n - Len(got) \/ Ended(v, o.f, EOF)
      BY <1>5, <1>6, <2>1, <3>1, GetEachIs
    <3>3. ASSUME Readable(g), o.f.ok PROVE GotN(g, n, o)
      <4>1. PICK v \in Bytes : /\ o.r = got \o v /\ Took(h2, v, o.f) /\ Len(v) <= n - Len(got)
                               /\ Len(v) = n - Len(got) \/ Ended(v, o.f, EOF)
        <5>1. Fit(h2)
          BY <2>2, <3>3 DEF Bare
        <5>2. QED
          BY <3>2, <3>3, <5>1
      <4>2. got = u /\ Fit(g) /\ Took(g, u, h2)
        BY <1>8, <3>3
      <4>3. QED
        BY <1>5, <4>1, <4>2, GotMore
    <3>4. QED
      BY <3>2, <3>3
  <2>5. QED
    BY <2>3, <2>4
<1>12. QED
  <2>1. Len(got) >= n \/ Len(got) < n
    BY <1>6
  <2>2. QED
    BY <1>9, <1>10, <1>11, <2>1

(* fread. *)
LEMMA FReadIs ==
  ASSUME NEW g, Sound(g), g.ok, NEW n \in Nat, n # 0, NEW o \in fread(g, n)
  PROVE  Sound(o.f) /\ (Readable(g) /\ o.f.ok => GotN(g, n, o))
<1>1. CASE "CANREAD" \notin g.flags
  <2> DEFINE h == Set(g, {"ERR"})
  <2>1. o = Ret(h, <<>>)
    BY <1>1 DEF fread
  <2>2. o.f = h /\ o.r = <<>>
    BY <2>1 DEF Ret
  <2>3. Sound(h) /\ h.flags = g.flags \cup {"ERR"} /\ SameBut(h, g, {"flags"})
    BY SetIs
  <2> HIDE DEF h
  <2>4. Readable(g) => Took(g, <<>>, h)
    <3>1. Readable(g) => Fit(g)
      BY DEF Readable
    <3>2. Fit(g) => SameView(h, g)
      BY <2>3, SameViewIs DEF Input
    <3>3. QED
      BY <3>1, <3>2, TookSame
  <2>5. "ERR" \in h.flags
    BY <2>3
  <2>6. QED
    BY <2>2, <2>3, <2>4, <2>5, NoBytes DEF GotN
<1>2. CASE "CANREAD" \in g.flags /\ g.ungotten # <<>> /\ n = 1
  <2> DEFINE h == [g EXCEPT !.ungotten = <<>>]
  <2>1. o = Ret(h, g.ungotten)
    BY <1>2 DEF fread
  <2>2. o.f = h
    BY <2>1 DEF Ret
  <2>3. Sound(h)
    BY DropIs
  <2>4. ~Readable(g)
    BY <1>2 DEF Readable
  <2>5. QED
    BY <2>2, <2>3, <2>4
<1>3. CASE "CANREAD" \in g.flags /\ ~(g.ungotten # <<>> /\ n = 1)
  <2>0. o \in UNION {ReadStep(g, n, a) : a \in Loads(g)}
    <3>1. o \in IF "CANREAD" \notin g.flags THEN {Ret(Set(g, {"ERR"}), <<>>)}
                ELSE IF g.ungotten # <<>> /\ n = 1 THEN {Ret([g EXCEPT !.ungotten = <<>>], g.ungotten)}
                ELSE UNION {ReadStep(g, n, a) : a \in Loads(g)}
      BY Zenon DEF fread, Then, Loads, ReadStep
    <3>2. QED
      BY <1>3, <3>1, Zenon
  <2>1. PICK a \in Loads(g) : o \in ReadStep(g, n, a)
    BY <2>0, Zenon
  <2>2. QED
    BY <2>1, ReadStepIs
<1>4. QED
  BY <1>1, <1>2, <1>3

-----------------------------------------------------------------------------
(* The other calls.                                                        *)

(* ERR and EOF cleared. *)
LEMMA ClearedIs ==
  ASSUME NEW g, Sound(g)
  PROVE  LET h == Clear(g, {"ERR", "EOF"}) IN
         /\ Sound(h) /\ h.flags = g.flags \ {"ERR", "EOF"} /\ SameBut(h, g, {"flags"})
         /\ Input(h) <=> Input(g)
         /\ Fit(g) => SameView(h, g)
<1> DEFINE h == Clear(g, {"ERR", "EOF"})
<1>1. "BUFINPUT" \notin {"ERR", "EOF"}
  OBVIOUS
<1>2. Sound(h) /\ h.flags = g.flags \ {"ERR", "EOF"} /\ SameBut(h, g, {"flags"})
  BY <1>1, ClearIs
<1> HIDE DEF h
<1>3. /\ Input(h) <=> Input(g)
      /\ "EOF" \in h.flags => "EOF" \in g.flags
      /\ "NOBUF" \in h.flags => "NOBUF" \in g.flags
  BY <1>2 DEF Input
<1>4. Fit(g) => SameView(h, g)
  BY <1>2, <1>3, SameViewIs
<1>5. QED
  BY <1>2, <1>3, <1>4 DEF h

(* ungetc: the byte is the one before the position, or is kept apart. *)
Ungot(g, c, o) ==
  /\ Sound(o.f) /\ o.f.ok /\ o.f.open = g.open
  /\ Fit(g) =>
       /\ Fit(o.f) /\ ContentOf(o.f) = ContentOf(g)
       /\ \/ o.r = EOF /\ o.f.ungotten = g.ungotten /\ PosOf(o.f) = PosOf(g)
          \/ o.r = c /\ o.f.ungotten = <<c>> /\ PosOf(o.f) = PosOf(g)
          \/ /\ o.r = c /\ o.f.ungotten = g.ungotten /\ PosOf(o.f) = PosOf(g) - 1
             /\ ContentOf(g)[PosOf(g)] = c

(* ungetc. *)
LEMMA UngetCIs ==
  ASSUME NEW g, Sound(g), g.ok, Input(g), PosOf(g) > 0, NEW c \in Byte
  PROVE  Ungot(g, c, ungetc(g, c))
<1> DEFINE o == ungetc(g, c)
           h == Clear(g, {"ERR", "EOF"})
<1>1. /\ Sound(h) /\ h.flags = g.flags \ {"ERR", "EOF"} /\ SameBut(h, g, {"flags"})
      /\ Input(h) <=> Input(g)
      /\ Fit(g) => SameView(h, g)
  BY ClearedIs
<1>2. CASE g.ungotten # <<>>
  <2>1. o = Ret(g, EOF)
    BY <1>2 DEF ungetc
  <2>2. o.f = g /\ o.r = EOF
    BY <2>1 DEF Ret
  <2> HIDE DEF o
  <2>3. QED
    BY <2>2 DEF Ungot, o
<1>3. CASE g.ungotten = <<>> /\ g.bm > 0 /\ g.buf[g.bm] = c
  <2> DEFINE k == [h EXCEPT !.bm = g.bm - 1]
  <2>0. h.bm = g.bm
    BY <1>1 DEF SameBut
  <2>1. o = Ret([h EXCEPT !.bm = @ - 1], c)
    BY <1>3, Zenon DEF ungetc
  <2>2. o.f = k /\ o.r = c
    BY <2>0, <2>1 DEF Ret
  <2>3. h \in StreamRec /\ g.bm \in Nat /\ g.bm - 1 \in Nat /\ g.bs \in Nat /\ g.buflen \in Nat /\ g.bm <= g.bs
        /\ g.bm <= g.buflen /\ g.pos \in Nat
    BY <1>1, <1>3, Fields DEF Sound
  <2> HIDE DEF h
  <2>4. k \in StreamRec /\ SameBut(k, h, {"bm"}) /\ k.bm = g.bm - 1
    BY <2>3 DEF StreamRec, SameBut
  <2> HIDE DEF k, o
  <2>5. SameBut(k, g, {"bm", "flags"}) /\ k.flags = h.flags /\ (Input(k) <=> Input(g))
    BY <1>1, <2>4 DEF SameBut, Input
  <2>6. Sound(k)
    <3>1. k.bm <= k.bs /\ k.bm <= k.buflen
      BY <2>3, <2>4, <2>5 DEF SameBut
    <3>2. QED
      BY <2>4, <2>5, <3>1 DEF Sound, SameBut
  <2>7. k.ok /\ k.open = g.open
    BY <2>5 DEF SameBut
  <2>8. ASSUME Fit(g)
        PROVE  /\ Fit(k) /\ ContentOf(k) = ContentOf(g) /\ k.ungotten = g.ungotten /\ PosOf(k) = PosOf(g) - 1
               /\ ContentOf(g)[PosOf(g)] = c
    <3>1. /\ k.file = g.file /\ k.pos = g.pos /\ k.bs = g.bs /\ k.buf = g.buf /\ k.ungotten = <<>> /\ Input(k)
      BY <1>3, <2>5 DEF SameBut
    <3>2. ContentOf(k) = g.file /\ ContentOf(g) = g.file /\ PosOf(g) = g.pos - (g.bs - g.bm)
      BY <3>1 DEF ContentOf, PosOf
    <3>3. PosOf(k) = PosOf(g) - 1
      <4>1. PosOf(k) = g.pos - (g.bs - (g.bm - 1))
        BY <2>4, <3>1 DEF PosOf
      <4>2. QED
        BY <2>3, <3>2, <4>1
    <3>4. "EOF" \notin k.flags
      BY <1>1, <2>5
    <3>5. Fit(k)
      BY <2>6, <2>7, <2>8, <3>1, <3>4 DEF Fit
    <3>6. g.buf[g.bm] = g.file[g.pos - g.bs + g.bm]
      <4>1. g.bm \in 1 .. g.bs
        BY <1>3, <2>3
      <4>2. QED
        BY <2>8, <4>1 DEF Fit
    <3>7. g.pos - g.bs + g.bm = g.pos - (g.bs - g.bm)
      BY <2>3
    <3>8. QED
      BY <1>3, <3>1, <3>2, <3>3, <3>5, <3>6, <3>7
  <2>9. QED
    BY <2>2, <2>6, <2>7, <2>8 DEF Ungot, o
<1>4. CASE g.ungotten = <<>> /\ ~(g.bm > 0 /\ g.buf[g.bm] = c)
  <2> DEFINE k == [h EXCEPT !.ungotten = <<c>>]
  <2>1. o = Ret(k, c)
    BY <1>4, Zenon DEF ungetc
  <2>2. o.f = k /\ o.r = c
    BY <2>1 DEF Ret
  <2>3. h \in StreamRec /\ <<c>> \in Bytes /\ Len(<<c>>) = 1
    BY <1>1, Fields, OneByte
  <2> HIDE DEF h
  <2>4. k \in StreamRec /\ SameBut(k, h, {"ungotten"}) /\ k.ungotten = <<c>>
    BY <2>3 DEF StreamRec, SameBut
  <2> HIDE DEF k, o
  <2>5. SameBut(k, g, {"ungotten", "flags"}) /\ k.flags = h.flags /\ (Input(k) <=> Input(g))
    BY <1>1, <2>4 DEF SameBut, Input
  <2>6. Sound(k)
    <3>1. Len(k.ungotten) <= 1
      BY <2>3, <2>4
    <3>2. QED
      BY <2>4, <2>5, <3>1 DEF Sound, SameBut
  <2>7. k.ok /\ k.open = g.open
    BY <2>5 DEF SameBut
  <2>8. ASSUME Fit(g)
        PROVE  Fit(k) /\ ContentOf(k) = ContentOf(g) /\ PosOf(k) = PosOf(g)
    <3>1. /\ k.file = g.file /\ k.pos = g.pos /\ k.bs = g.bs /\ k.bm = g.bm /\ k.buf = g.buf /\ Input(k)
      BY <2>5 DEF SameBut
    <3>2. ContentOf(k) = ContentOf(g) /\ PosOf(k) = PosOf(g)
      BY <3>1 DEF ContentOf, PosOf
    <3>4. "EOF" \notin k.flags
      BY <1>1, <2>5
    <3>5. Fit(k)
      BY <2>6, <2>7, <2>8, <3>1, <3>2, <3>4 DEF Fit
    <3>8. QED
      BY <3>2, <3>5
  <2>9. QED
    BY <2>2, <2>4, <2>6, <2>7, <2>8 DEF Ungot, o
<1>5. QED
  BY <1>2, <1>3, <1>4

(* fseek.                                                                  *)
Moves == {<<"SET", 0>>, <<"CUR", 0>>, <<"END", -1>>}

(* Where a move leads. *)
LEMMA TargetIs ==
  ASSUME NEW h, Sound(h), NEW w, NEW x, <<w, x>> \in Moves
  PROVE  /\ Target(h, w, x) \in Int /\ Target(h, w, x) <= Len(h.file)
         /\ Target(h, w, x) = x + (CASE w = "SET" -> 0 [] w = "CUR" -> h.pos [] w = "END" -> Len(h.file))
<1>1. h.pos \in Nat /\ Len(h.file) \in Nat /\ h.pos <= Len(h.file)
  BY Fields, LenIs DEF Sound
<1>2. CASE w = "SET" /\ x = 0
  BY <1>1, <1>2 DEF Target
<1>3. CASE w = "CUR" /\ x = 0
  BY <1>1, <1>3 DEF Target
<1>4. CASE w = "END" /\ x = -1
  BY <1>1, <1>4 DEF Target
<1>5. QED
  BY <1>2, <1>3, <1>4 DEF Moves

(* The system call lseek. *)
LEMMA SeekIs ==
  ASSUME NEW h, Sound(h), NEW to \in Int, to <= Len(h.file)
  PROVE  LET o == lseek(h, to) IN
         /\ Sound(o.f) /\ SameBut(o.f, h, {"pos"}) /\ o.r \in {0, -1}
         /\ o.r = 0 => o.f.pos = to
<1> DEFINE o == lseek(h, to)
<1>1. CASE to < 0
  <2>1. o.f = h /\ o.r = -1
    BY <1>1 DEF lseek, Ret
  <2>2. QED
    BY <2>1 DEF SameBut
<1>2. CASE ~(to < 0)
  <2> DEFINE k == [h EXCEPT !.pos = to]
  <2>1. o.f = k /\ o.r = 0
    BY <1>2 DEF lseek, Ret
  <2>2. h \in StreamRec /\ to \in Nat
    BY <1>2, Fields
  <2>3. k \in StreamRec /\ SameBut(k, h, {"pos"}) /\ k.pos = to
    BY <2>2 DEF StreamRec, SameBut
  <2> HIDE DEF k
  <2>4. Sound(k)
    BY <2>3 DEF Sound, SameBut, Input
  <2>5. QED
    BY <2>1, <2>3, <2>4
<1>3. QED
  BY <1>1, <1>2

(* The position is moved from one of base. *)
Sought(g, w, x, o) ==
  /\ Sound(o.f) /\ o.r \in {0, -1} /\ o.f.open = g.open
  /\ Fit(g) /\ o.f.ok =>
       /\ Fit(o.f) /\ ContentOf(o.f) = ContentOf(g) /\ o.f.ungotten = <<>> /\ o.f.bm = 0 /\ o.f.bs = 0
       /\ o.r = 0 => \E p \in {PosOf(g), PosOf(g) - Len(g.ungotten)} :
            PosOf(o.f) = x + (CASE w = "SET" -> 0 [] w = "CUR" -> p [] w = "END" -> Len(ContentOf(g)))

(* fseek. *)
LEMMA FSeekIs ==
  ASSUME NEW g, Sound(g), g.ok, NEW w, NEW x, <<w, x>> \in Moves, NEW o \in fseek(g, w, x)
  PROVE  Sought(g, w, x, o)
<1>1. PICK b \in fflush(g) :
        o = LET h == Clear([b.f EXCEPT !.bm = 0, !.bs = 0, !.ungotten = <<>>, !.ok = @ /\ b.r = 0], {"ERR", "EOF"})
            IN  lseek(h, Target(h, w, x))
  BY Zenon DEF fseek
<1>2. Flushed(g, b)
  BY FlushIs
<1> DEFINE z == b.f.ok /\ b.r = 0
           k == [b.f EXCEPT !.bm = 0, !.bs = 0, !.ungotten = <<>>, !.ok = z]
           h == Clear(k, {"ERR", "EOF"})
           to == Target(h, w, x)
<1>3. o = lseek(h, to)
  BY <1>1, Zenon
<1>4. b.f \in StreamRec /\ Sound(b.f) /\ z \in BOOLEAN
  BY <1>2, Fields DEF Flushed
<1>5. z => b.r = 0 /\ b.f.ok
  BY Zenon
<1> HIDE DEF z
<1>6. k \in StreamRec /\ SameBut(k, b.f, {"bm", "bs", "ungotten", "ok"}) /\ k.bm = 0 /\ k.bs = 0 /\ k.ungotten = <<>> /\ k.ok = z
  BY <1>4, NoBytes DEF StreamRec, SameBut
<1> HIDE DEF k
<1>7. Sound(k)
  <2>1. k.buflen \in Nat /\ Len(k.ungotten) <= 1 /\ k.bm <= k.buflen /\ k.bs <= k.buflen /\ k.bm <= k.bs
    BY <1>6, NoBytes DEF StreamRec
  <2>2. QED
    BY <1>4, <1>6, <2>1 DEF Sound, SameBut
<1>8. Sound(h) /\ h.flags = k.flags \ {"ERR", "EOF"} /\ SameBut(h, k, {"flags"})
  BY <1>7, ClearedIs
<1> HIDE DEF h
<1>9. /\ to \in Int /\ to <= Len(h.file)
      /\ to = x + (CASE w = "SET" -> 0 [] w = "CUR" -> h.pos [] w = "END" -> Len(h.file))
  BY <1>8, TargetIs
<1> HIDE DEF to
<1>10. /\ Sound(o.f) /\ SameBut(o.f, h, {"pos"}) /\ o.r \in {0, -1}
       /\ o.r = 0 => o.f.pos = to
  BY <1>3, <1>8, <1>9, SeekIs
<1>11. o.f.open = g.open
  BY <1>2, <1>6, <1>8, <1>10 DEF Flushed, SameBut
<1>12. ASSUME Fit(g), o.f.ok
       PROVE  /\ Fit(o.f) /\ ContentOf(o.f) = ContentOf(g) /\ o.f.ungotten = <<>> /\ o.f.bm = 0 /\ o.f.bs = 0
              /\ o.r = 0 => \E p \in {PosOf(g), PosOf(g) - Len(g.ungotten)} :
                   PosOf(o.f) = x + (CASE w = "SET" -> 0 [] w = "CUR" -> p [] w = "END" -> Len(ContentOf(g)))
  <2>1. b.r = 0
    BY <1>5, <1>6, <1>8, <1>10, <1>12 DEF SameBut
  <2>2. Emptied(b.f, g)
    BY <1>2, <1>12, <2>1, FlushView
  <2>3. /\ h.file = ContentOf(g) /\ h.pos \in {PosOf(g), PosOf(g) - Len(g.ungotten)}
        /\ o.f.file = ContentOf(g) /\ o.f.bm = 0 /\ o.f.bs = 0 /\ o.f.ungotten = <<>>
        /\ "EOF" \notin o.f.flags
    BY <1>6, <1>8, <1>10, <2>2 DEF SameBut, Emptied
  <2>4. ContentOf(o.f) = ContentOf(g) /\ PosOf(o.f) = o.f.pos
    BY <1>10, <2>3, EmptyView
  <2>5. Fit(o.f)
    <3>1. o.f.pos \in Nat
      BY <1>10, Fields
    <3>2. QED
      BY <1>10, <1>12, <2>3, <3>1 DEF Fit
  <2>6. ASSUME o.r = 0
        PROVE  PosOf(o.f) = x + (CASE w = "SET" -> 0 [] w = "CUR" -> h.pos [] w = "END" -> Len(ContentOf(g)))
    BY <1>9, <1>10, <2>3, <2>4, <2>6
  <2>7. QED
    BY <2>3, <2>4, <2>5, <2>6
<1>13. QED
  BY <1>10, <1>11, <1>12 DEF Sought

(* A file that is opened, with a buffer of its own. *)
LEMMA CanDoIs ==
  ASSUME NEW mode \in Modes
  PROVE  CanDo(mode) \subseteq {"CANREAD", "CANWRITE"}
BY DEF CanDo, Modes

(* A new buffer. *)
LEMMA BlankIs ==
  ASSUME NEW n \in Nat
  PROVE  [j \in 1 .. n |-> Newline] \in Bytes /\ Len([j \in 1 .. n |-> Newline]) = n
<1>1. [j \in 1 .. n |-> Newline] \in [1 .. n -> Byte]
  BY Numbers
<1>2. QED
  BY <1>1, SeqDef, LenProperties DEF Bytes

(* The system call open. *)
LEMMA OpenedIs ==
  ASSUME NEW g, g \in StreamRec, NEW mode \in Modes
  PROVE  LET h == Opened(g, mode) IN
         /\ h \in StreamRec /\ SameBut(h, g, {"pos", "file"}) /\ h.pos = 0
         /\ h.file = IF mode = "w" THEN <<>> ELSE g.file
<1> DEFINE a == IF mode = "w" THEN <<>> ELSE g.file
<1>1. a \in Bytes
  BY NoBytes DEF StreamRec
<1>2. Opened(g, mode) = [g EXCEPT !.pos = 0, !.file = a]
  BY Zenon DEF Opened
<1> HIDE DEF a
<1>3. QED
  <2>1. /\ [g EXCEPT !.pos = 0, !.file = a] \in StreamRec
        /\ SameBut([g EXCEPT !.pos = 0, !.file = a], g, {"pos", "file"})
        /\ [g EXCEPT !.pos = 0, !.file = a].pos = 0 /\ [g EXCEPT !.pos = 0, !.file = a].file = a
    BY <1>1 DEF StreamRec, SameBut
  <2>2. QED
    BY <1>2, <2>1, Zenon DEF a

(* A stream right after it was opened. *)
Fresh(h, g, mode) ==
  /\ Sound(h) /\ h.ok = g.ok /\ h.pos = 0 /\ h.file = IF mode = "w" THEN <<>> ELSE g.file
  /\ h.bm = 0 /\ h.bs = 0 /\ h.ungotten = <<>> /\ h.flags \cap {"ERR", "EOF"} = {}

(* A new stream. *)
LEMMA InitFileIs ==
  ASSUME NEW g, g \in StreamRec, NEW mode \in Modes
  PROVE  Fresh(init_file(g, mode), g, mode) /\ init_file(g, mode).open
<1> DEFINE k == Opened(g, mode)
           F == CanDo(mode) \cup (IF mode = "w" THEN {} ELSE {"BUFINPUT"})
           B == [j \in 1 .. BUFSIZE |-> Newline]
           h == [k EXCEPT !.bm = 0, !.bs = 0, !.ungotten = <<>>, !.buflen = BUFSIZE, !.buf = B,
                          !.flags = F, !.open = TRUE]
<1>1. init_file(g, mode) = h
  BY Zenon DEF init_file
<1>2. /\ k \in StreamRec /\ SameBut(k, g, {"pos", "file"}) /\ k.pos = 0
      /\ k.file = IF mode = "w" THEN <<>> ELSE g.file
  BY OpenedIs
<1>3. F \in SUBSET Flags /\ F \cap {"ERR", "EOF"} = {}
  BY CanDoIs DEF Flags
<1>4. BUFSIZE \in Nat /\ BUFSIZE # 0 /\ B \in Bytes /\ Len(B) = BUFSIZE
  BY Numbers, BlankIs
<1> HIDE DEF k, F, B
<1>5. /\ h \in StreamRec /\ SameBut(h, k, {"bm", "bs", "ungotten", "buflen", "buf", "flags", "open"})
      /\ h.bm = 0 /\ h.bs = 0 /\ h.ungotten = <<>> /\ h.buflen = BUFSIZE /\ h.buf = B /\ h.flags = F /\ h.open
  BY <1>2, <1>3, <1>4, NoBytes DEF StreamRec, SameBut
<1> HIDE DEF h
<1>6. /\ h.pos = 0 /\ h.ok = g.ok /\ h.file = IF mode = "w" THEN <<>> ELSE g.file
  BY <1>2, <1>5 DEF SameBut
<1>7. h.pos <= Len(h.file) /\ Len(h.ungotten) <= 1
  <2>1. h.file \in Bytes
    BY <1>5 DEF StreamRec
  <2>2. Len(h.file) \in Nat
    BY <2>1, LenIs
  <2>3. QED
    BY <1>5, <1>6, <2>2, NoBytes
<1>8. h.buflen \in 1 .. BUFSIZE + 1 /\ h.bm <= h.buflen /\ h.bs <= h.buflen /\ h.bm <= h.bs /\ Len(h.buf) = h.buflen
  BY <1>4, <1>5
<1>9. Sound(h)
  BY <1>5, <1>7, <1>8 DEF Sound
<1>10. QED
  BY <1>1, <1>3, <1>5, <1>6, <1>9 DEF Fresh

(* freopen. *)
LEMMA FReopenIs ==
  ASSUME NEW g, Sound(g), g.ok, NEW mode \in Modes, NEW h \in freopen(g, mode)
  PROVE  /\ Sound(h) /\ h.open = g.open
         /\ Fit(g) /\ h.ok => \E k : Fresh(h, k, mode) /\ k.file = ContentOf(g)
<1>1. PICK b \in fflush(g) : h = [Opened(b.f, mode) EXCEPT !.flags = CanDo(mode), !.ok = @ /\ b.r = 0]
  BY Zenon DEF freopen
<1>2. Flushed(g, b)
  BY FlushIs
<1> DEFINE k == Opened(b.f, mode)
           F == CanDo(mode)
           z == k.ok /\ b.r = 0
<1>3. b.f \in StreamRec /\ Sound(b.f)
  BY <1>2, Fields DEF Flushed
<1>4. /\ k \in StreamRec /\ SameBut(k, b.f, {"pos", "file"}) /\ k.pos = 0
      /\ k.file = IF mode = "w" THEN <<>> ELSE b.f.file
  BY <1>3, OpenedIs
<1>5. F \in SUBSET Flags /\ F \cap {"ERR", "EOF"} = {} /\ "BUFINPUT" \notin F
  BY CanDoIs DEF Flags
<1>6. h = [k EXCEPT !.flags = F, !.ok = z]
  BY <1>1, Zenon
<1>7. z \in BOOLEAN /\ (z => b.r = 0 /\ k.ok)
  BY Zenon
<1> HIDE DEF k, F, z
<1>8. h \in StreamRec /\ SameBut(h, k, {"flags", "ok"}) /\ h.flags = F /\ h.ok = z
  BY <1>4, <1>5, <1>6, <1>7 DEF StreamRec, SameBut
<1>9. SameBut(h, b.f, {"pos", "file", "flags", "ok"}) /\ h.pos = 0 /\ h.file = IF mode = "w" THEN <<>> ELSE b.f.file
  BY <1>4, <1>8 DEF SameBut
<1>10. h.pos <= Len(h.file)
  <2>1. h.file \in Bytes
    BY <1>8 DEF StreamRec
  <2>2. Len(h.file) \in Nat
    BY <2>1, LenIs
  <2>3. QED
    BY <1>9, <2>2
<1>11. ~Input(h)
  BY <1>5, <1>8 DEF Input
<1>12. Sound(h)
  BY <1>3, <1>8, <1>9, <1>10, <1>11 DEF Sound, SameBut
<1>13. h.open = g.open
  BY <1>2, <1>9 DEF Flushed, SameBut
<1>14. ASSUME Fit(g), h.ok PROVE \E m : Fresh(h, m, mode) /\ m.file = ContentOf(g)
  <2>1. b.r = 0
    BY <1>7, <1>8, <1>14
  <2>2. Emptied(b.f, g)
    BY <1>2, <1>14, <2>1, FlushView
  <2>3. Fresh(h, b.f, mode)
    <3>1. h.bm = 0 /\ h.bs = 0 /\ h.ungotten = <<>> /\ b.f.ok
      BY <1>9, <2>2 DEF SameBut, Emptied
    <3>2. h.flags \cap {"ERR", "EOF"} = {}
      BY <1>5, <1>8
    <3>3. h.ok = b.f.ok
      <4>1. h.ok \in BOOLEAN /\ b.f.ok \in BOOLEAN
        BY <1>3, <1>8 DEF StreamRec
      <4>2. QED
        BY <1>14, <3>1, <4>1
    <3>4. QED
      BY <1>9, <1>12, <3>1, <3>2, <3>3 DEF Fresh
  <2>4. b.f.file = ContentOf(g)
    BY <2>2 DEF Emptied
  <2>5. QED
    BY <2>3, <2>4
<1>15. QED
  BY <1>12, <1>13, <1>14

(* A new stream stands at the start of the file. *)
LEMMA FreshIs ==
  ASSUME NEW g, NEW mode, NEW h, Fresh(h, g, mode), h.ok
  PROVE  Fit(h) /\ PosOf(h) = 0 /\ ContentOf(h) = IF mode = "w" THEN <<>> ELSE g.file
<1>1. Sound(h) /\ h.bm = 0 /\ h.bs = 0 /\ h.ungotten = <<>> /\ h.pos = 0 /\ "EOF" \notin h.flags
  BY DEF Fresh
<1>2. ContentOf(h) = h.file /\ PosOf(h) = h.pos
  BY <1>1, EmptyView
<1>3. Fit(h)
  BY <1>1 DEF Fit
<1>4. QED
  BY <1>1, <1>2, <1>3 DEF Fresh

(* setvbuf. *)
VBuf(g, kind, size) ==
  [Set(Clear(g, {"NOBUF", "BUFLINEWISE"}), kind) EXCEPT
     !.buflen = IF size = 0 THEN @ ELSE size,
     !.buf = IF size = 0 THEN @ ELSE [j \in 1 .. size |-> Newline],
     !.bm = IF size = 0 THEN @ ELSE 0, !.bs = IF size = 0 THEN @ ELSE 0]

(* The arguments of setvbuf. *)
Kinds == {{"NOBUF"}, {"BUFLINEWISE"}}
Sizes == {0, 1, BUFSIZE + 1}

(* setvbuf before anything is in the buffer. *)
LEMMA VBufIs ==
  ASSUME NEW g, Sound(g), NEW kind \in Kinds, NEW size \in Sizes,
         NEW h, h = VBuf(g, kind, size)
  PROVE  /\ Sound(h) /\ h.ok = g.ok /\ h.open = g.open
         /\ Fit(g) /\ g.bm = 0 /\ g.bs = 0 => SameView(h, g) /\ h.bm = 0 /\ h.bs = 0
<1> DEFINE F == (g.flags \ {"NOBUF", "BUFLINEWISE"}) \cup kind
           l == IF size = 0 THEN g.buflen ELSE size
           B == IF size = 0 THEN g.buf ELSE [j \in 1 .. size |-> Newline]
           m == IF size = 0 THEN g.bm ELSE 0
           s == IF size = 0 THEN g.bs ELSE 0
           k == [g EXCEPT !.flags = F, !.buflen = l, !.buf = B, !.bm = m, !.bs = s]
<1>1. /\ g \in StreamRec /\ g.flags \subseteq Flags /\ g.buflen \in Nat /\ g.buf \in Bytes /\ g.bm \in Nat /\ g.bs \in Nat
      /\ g.buflen \in 1 .. BUFSIZE + 1 /\ Len(g.buf) = g.buflen /\ g.bm <= g.buflen /\ g.bs <= g.buflen
      /\ g.ok /\ Input(g) => g.bm <= g.bs
  BY Fields DEF Sound
<1>2. VBuf(g, kind, size) = k
  <2>1. Set(Clear(g, {"NOBUF", "BUFLINEWISE"}), kind) = [g EXCEPT !.flags = F]
    BY <1>1 DEF Set, Clear, StreamRec
  <2>2. VBuf(g, kind, size) =
          [[g EXCEPT !.flags = F] EXCEPT
             !.buflen = IF size = 0 THEN @ ELSE size,
             !.buf = IF size = 0 THEN @ ELSE [j \in 1 .. size |-> Newline],
             !.bm = IF size = 0 THEN @ ELSE 0, !.bs = IF size = 0 THEN @ ELSE 0]
    BY <2>1, Zenon DEF VBuf
  <2> HIDE DEF F
  <2>3. QED
    BY <1>1, <2>2 DEF StreamRec
<1>3. F \in SUBSET Flags /\ ("BUFINPUT" \in F <=> Input(g)) /\ ("EOF" \in F <=> "EOF" \in g.flags)
  BY <1>1 DEF Flags, Input, Kinds
<1>4. l \in 1 .. BUFSIZE + 1 /\ l \in Nat /\ B \in Bytes /\ Len(B) = l
  <2>1. CASE size = 0
    BY <1>1, <2>1
  <2>2. CASE size # 0
    <3>1. size \in Nat /\ size \in 1 .. BUFSIZE + 1
      BY <2>2, Numbers DEF Sizes
    <3>2. [j \in 1 .. size |-> Newline] \in Bytes /\ Len([j \in 1 .. size |-> Newline]) = size
      BY <3>1, BlankIs
    <3>3. QED
      BY <2>2, <3>1, <3>2
  <2>3. QED
    BY <2>1, <2>2
<1>5. m \in Nat /\ s \in Nat /\ m <= l /\ s <= l /\ (g.ok /\ Input(g) => m <= s)
  BY <1>1, <1>4
<1>6. g.bm = 0 /\ g.bs = 0 => m = 0 /\ s = 0
  OBVIOUS
<1> HIDE DEF F, l, B, m, s
<1>71. /\ k \in StreamRec /\ SameBut(k, g, {"flags", "buflen", "buf", "bm", "bs"})
       /\ k.flags = F /\ k.buflen = l /\ k.buf = B /\ k.bm = m /\ k.bs = s
  BY <1>1, <1>3, <1>4, <1>5 DEF StreamRec, SameBut
<1> HIDE DEF k
<1>7. /\ h \in StreamRec /\ SameBut(h, g, {"flags", "buflen", "buf", "bm", "bs"})
      /\ h.flags = F /\ h.buflen = l /\ h.buf = B /\ h.bm = m /\ h.bs = s
  BY <1>2, <1>71
<1>8. Input(h) <=> Input(g)
  BY <1>3, <1>7 DEF Input
<1>9. Sound(h)
  BY <1>3, <1>4, <1>5, <1>7, <1>8 DEF Sound, SameBut
<1>10. h.ok = g.ok /\ h.open = g.open
  BY <1>7 DEF SameBut
<1>11. ASSUME Fit(g), g.bm = 0, g.bs = 0 PROVE SameView(h, g) /\ h.bm = 0 /\ h.bs = 0
  <2>1. h.bm = 0 /\ h.bs = 0 /\ h.file = g.file /\ h.pos = g.pos /\ h.ungotten = g.ungotten
    BY <1>6, <1>7, <1>11 DEF SameBut
  <2>2. ContentOf(h) = ContentOf(g) /\ PosOf(h) = PosOf(g)
    BY <1>9, <1>11, <2>1, EmptyView
  <2>3. h.pos \in Nat
    BY <1>9, Fields
  <2>4. Fit(h)
    BY <1>3, <1>7, <1>8, <1>9, <1>10, <1>11, <2>1, <2>2, <2>3 DEF Fit
  <2>5. QED
    BY <1>10, <2>1, <2>2, <2>4 DEF SameView
<1>12. QED
  BY <1>9, <1>10, <1>11

(* __fpurge. *)
LEMMA PurgeIs ==
  ASSUME NEW g, Sound(g)
  PROVE  LET h == [g EXCEPT !.ungotten = <<>>, !.bs = 0, !.bm = 0] IN
         Sound(h) /\ h.ok = g.ok /\ h.open = g.open /\ h.ungotten = <<>> /\ h.bm = 0 /\ h.bs = 0 /\ (Fit(g) => Fit(h))
<1> DEFINE h == [g EXCEPT !.ungotten = <<>>, !.bs = 0, !.bm = 0]
<1>1. g \in StreamRec
  BY DEF Sound
<1>2. h \in StreamRec /\ SameBut(h, g, {"ungotten", "bs", "bm"}) /\ h.ungotten = <<>> /\ h.bs = 0 /\ h.bm = 0
  BY <1>1, NoBytes DEF StreamRec, SameBut
<1> HIDE DEF h
<1>3. h.pos \in Nat /\ h.buflen \in Nat /\ Len(h.ungotten) <= 1
  BY <1>2, NoBytes DEF StreamRec
<1>4. Sound(h)
  BY <1>2, <1>3 DEF Sound, SameBut
<1>5. ASSUME Fit(g) PROVE Fit(h)
  <2>1. h.file = g.file /\ h.pos = g.pos /\ h.flags = g.flags /\ h.ok = g.ok
    BY <1>2 DEF SameBut
  <2>2. "EOF" \in h.flags => h.pos = Len(h.file)
    BY <1>5, <2>1 DEF Fit
  <2>3. h.ok
    BY <1>5, <2>1 DEF Fit
  <2>4. QED
    BY <1>2, <1>3, <1>4, <2>2, <2>3 DEF Fit
<1>6. QED
  BY <1>2, <1>4, <1>5 DEF SameBut, h

(* fclose. *)
Closed(b) == [b.f EXCEPT !.open = FALSE, !.ok = @ /\ b.r = 0, !.bm = 0]

(* fclose. *)
LEMMA CloseIs ==
  ASSUME NEW g, Sound(g), g.ok, NEW b \in fflush(g), NEW h, h = Closed(b)
  PROVE  /\ Sound(h) /\ ~h.open
         /\ Fit(g) /\ h.ok => Fit(h) /\ ContentOf(h) = ContentOf(g) /\ h.ungotten = <<>> /\ h.bm = 0 /\ h.bs = 0
<1> DEFINE z == b.f.ok /\ b.r = 0
<1>1. Flushed(g, b)
  BY FlushIs
<1>2. b.f \in StreamRec /\ Sound(b.f) /\ z \in BOOLEAN
  BY <1>1, Fields DEF Flushed
<1>3. h = [b.f EXCEPT !.open = FALSE, !.ok = z, !.bm = 0]
  BY Zenon DEF Closed
<1>4. z => b.r = 0 /\ b.f.ok
  BY Zenon
<1> HIDE DEF z
<1>5. h \in StreamRec /\ SameBut(h, b.f, {"open", "ok", "bm"}) /\ ~h.open /\ h.ok = z /\ h.bm = 0
  <2> DEFINE k == [b.f EXCEPT !.open = FALSE, !.ok = z, !.bm = 0]
  <2>1. k \in StreamRec /\ SameBut(k, b.f, {"open", "ok", "bm"}) /\ k.open = FALSE /\ k.ok = z /\ k.bm = 0
    BY <1>2 DEF StreamRec, SameBut
  <2>2. h = k
    BY <1>3
  <2> HIDE DEF k
  <2>3. QED
    BY <2>1, <2>2, Zenon
<1>6. h.bs \in Nat /\ h.buflen \in Nat
  BY <1>5 DEF StreamRec
<1>7. Sound(h)
  BY <1>2, <1>5, <1>6 DEF Sound, SameBut
<1>8. ASSUME Fit(g), h.ok PROVE Fit(h) /\ ContentOf(h) = ContentOf(g) /\ h.ungotten = <<>> /\ h.bm = 0 /\ h.bs = 0
  <2>1. b.r = 0
    BY <1>4, <1>5, <1>8
  <2>2. Emptied(b.f, g)
    BY <1>1, <1>8, <2>1, FlushView
  <2>3. h.bs = 0 /\ h.file = ContentOf(g) /\ h.ungotten = <<>> /\ h.pos = b.f.pos /\ h.flags = b.f.flags
    BY <1>5, <2>2 DEF SameBut, Emptied
  <2>4. ContentOf(h) = ContentOf(g)
    BY <1>5, <1>7, <2>3, EmptyView
  <2>5. Fit(b.f)
    BY <2>2, EmptiedIs DEF EmptiedFit
  <2>6. Fit(h)
    <3>1. h.pos \in Nat
      BY <1>5 DEF StreamRec
    <3>2. "EOF" \in h.flags => h.pos = Len(h.file)
      BY <1>5, <2>3, <2>5 DEF Fit, SameBut
    <3>3. QED
      BY <1>5, <1>7, <1>8, <2>3, <3>1, <3>2 DEF Fit
  <2>7. QED
    BY <1>5, <2>3, <2>4, <2>6
<1>9. QED
  BY <1>5, <1>7, <1>8

-----------------------------------------------------------------------------
(* The program's calls.                                                    *)

(* What holds between two calls: the fields are in order and, as long as   *)
(* the program is careful and no accident has happened, the buffer agrees  *)
(* with the file; it is empty when the stream was just opened or closed.   *)
Kept(x, o) ==
  /\ Sound(x)
  /\ Careful /\ x.ok => Fit(x) /\ (o.op = "open" \/ ~x.open => x.bm = 0 /\ x.bs = 0)

(* The inductive invariant. *)
IInv == Kept(f, out)

(* The refinement mapping of Stdio is the view of f. *)
LEMMA ViewOf ==
  /\ Content = ContentOf(f) /\ Pos = PosOf(f)
  /\ Content' = ContentOf(f') /\ Pos' = PosOf(f')
<1>1. Content = ContentOf(f) /\ Pos = PosOf(f)
  BY DEF Content, Pos, Output, ContentOf, PosOf, Input
<1>2. Content' = ContentOf(f') /\ Pos' = PosOf(f')
  BY DEF Content, Pos, Output, ContentOf, PosOf, Input
<1>3. QED
  BY <1>1, <1>2

(* The first of two joined sequences is a prefix. *)
LEMMA PrefixOf ==
  ASSUME NEW a \in Bytes, NEW b \in Bytes
  PROVE  IsPrefix(a, a \o b)
<1>1. /\ Len(a) \in Nat /\ Len(b) \in Nat /\ a \o b \in Bytes /\ Len(a \o b) = Len(a) + Len(b)
      /\ \A j \in 1 .. Len(a) + Len(b) : (a \o b)[j] = IF j <= Len(a) THEN a[j] ELSE b[j - Len(a)]
  BY JoinIs, LenIs
<1>2. Len(a) <= Len(a) /\ Len(a) <= Len(a \o b)
  BY <1>1
<1> DEFINE p == SubSeq(a, 1, Len(a))
           q == SubSeq(a \o b, 1, Len(a))
<1>3. p \in Bytes /\ Len(p) = Len(a) /\ q \in Bytes /\ Len(q) = Len(a)
  BY <1>1, <1>2, PrefixIs
<1>4. ASSUME NEW j \in 1 .. Len(a) PROVE p[j] = q[j]
  <2>1. p[j] = a[j] /\ q[j] = (a \o b)[j]
    BY <1>1, <1>2, PrefixAt
  <2>2. j \in 1 .. Len(a) + Len(b) /\ j <= Len(a)
    BY <1>1
  <2>3. QED
    BY <1>1, <2>1, <2>2
<1> HIDE DEF p, q
<1>5. p = q
  BY <1>3, <1>4, SameBytes
<1>6. QED
  BY <1>2, <1>5 DEF IsPrefix, p, q

(* A call that reads is a step Get of the abstract stream. *)
LEMMA GetMaps ==
  ASSUME Fit(f), NEW o, NEW n \in Nat, NEW stop, Got(o, n, stop),
         o.r \in Bytes, Took(f, o.r, o.f), Len(o.r) <= n, Len(o.r) = n \/ Ended(o.r, o.f, stop)
  PROVE  Stream!Get
<1>1. f' = o.f /\ out'.op = "get" /\ out'.n = n /\ out'.stop = stop /\ out'.r = o.r
  BY DEF Got
<1>2. Stream!Ahead = AheadOf(f)
  BY ViewOf, Zenon DEF Stream!Ahead, AheadOf, RestOf
<1>3. /\ Fit(o.f) /\ ContentOf(o.f) = ContentOf(f) /\ AheadOf(f) = o.r \o AheadOf(o.f)
      /\ o.r = <<>> => PosOf(o.f) = PosOf(f) /\ o.f.ungotten = f.ungotten
      /\ o.r # <<>> => o.f.ungotten = <<>> /\ PosOf(o.f) = PosOf(f) + Len(o.r) - Len(f.ungotten)
  BY DEF Took
<1>4. AheadOf(o.f) \in Bytes
  BY <1>3, RestIs
<1>5. Stream!IsPrefix(o.r, Stream!Ahead)
  <2>1. IsPrefix(o.r, Stream!Ahead)
    BY <1>2, <1>3, <1>4, PrefixOf
  <2>2. QED
    BY <2>1, Zenon DEF IsPrefix, Stream!IsPrefix
<1>6. AheadOf(o.f) = <<>> => o.r = Stream!Ahead
  <2>1. o.r \o <<>> = o.r
    BY NoneIs
  <2>2. QED
    BY <1>2, <1>3, <2>1, Zenon
<1>7. Len(o.r) < n => o.r = Stream!Ahead \/ "ERR" \in o.f.flags \/ (o.r # <<>> /\ Stream!Last(o.r) = stop)
  <2>1. ASSUME Len(o.r) < n PROVE Ended(o.r, o.f, stop)
    <3>1. Len(o.r) \in Nat
      BY LenIs
    <3>2. QED
      BY <2>1, <3>1
  <2>2. QED
    BY <1>6, <2>1, Zenon DEF Ended, Stream!Last
<1>8. /\ f'.ungotten = IF o.r = <<>> THEN f.ungotten ELSE <<>>
      /\ Pos' = IF o.r = <<>> THEN Pos ELSE Pos + Len(o.r) - Len(f.ungotten)
      /\ Content' = Content
  BY <1>1, <1>3, ViewOf
<1>9. QED
  BY <1>1, <1>5, <1>7, <1>8, Zenon DEF Stream!Get

(* A call that writes is a step Put of the abstract stream. *)
LEMMA PutMaps ==
  ASSUME Fit(f), NEW s \in Bytes, NEW r, NEW x, f' = x, out' = [op |-> "put", s |-> s, r |-> r],
         NEW h, Ready(h, f), NEW k \in 0 .. Len(s), Added(h, SubSeq(s, 1, k), x),
         k < Len(s) => r < Len(s) /\ "ERR" \in x.flags
  PROVE  Stream!Put
<1>1. out'.op = "put" /\ out'.s = s /\ out'.r = r
  OBVIOUS
<1> DEFINE u == SubSeq(s, 1, k)
           p == PosOf(h)
<1>2. /\ Fit(h) /\ ContentOf(h) = ContentOf(f) /\ p \in {PosOf(f), PosOf(f) - Len(f.ungotten)}
      /\ Fit(x) /\ ~Input(x) /\ ContentOf(x) = Overlay(ContentOf(h), p, u) /\ PosOf(x) = p + Len(u)
  BY DEF Ready, Added
<1>3. u \in Bytes /\ Len(u) = k /\ Len(s) \in Nat /\ k \in Nat
  BY PrefixIs, LenIs
<1>4. f'.ungotten = <<>>
  BY <1>2 DEF Fit
<1>5. Content' = IF k = 0 THEN Content ELSE Overlay(Content, p, u)
  <2>1. CASE k = 0
    <3>1. u = <<>>
      BY <1>3, <2>1, LenIs
    <3>2. ContentOf(h) \in Bytes /\ p \in Nat /\ p <= Len(ContentOf(h))
      BY <1>2, ViewIs
    <3>3. Overlay(ContentOf(h), p, <<>>) = ContentOf(h)
      BY <3>2, OverlayNone
    <3> HIDE DEF u, p
    <3>4. Content' = Content
      BY <1>2, <3>1, <3>3, ViewOf
    <3>5. QED
      BY <2>1, <3>4
  <2>2. CASE k # 0
    <3> HIDE DEF u, p
    <3>1. Content' = Overlay(Content, p, u)
      BY <1>2, ViewOf
    <3>2. QED
      BY <2>2, <3>1
  <2>3. QED
    BY <2>1, <2>2
<1>6. Pos' = p + k /\ p \in {Pos, Pos - Len(f.ungotten)}
  BY <1>2, <1>3, ViewOf
<1>7. Overlay(Content, p, u) = Stream!Overlay(Content, p, SubSeq(out'.s, 1, k))
  BY <1>1, Zenon DEF Stream!Overlay, Overlay
<1> HIDE DEF u, p
<1>8. /\ Content' = IF k = 0 THEN Content ELSE Stream!Overlay(Content, p, SubSeq(out'.s, 1, k))
      /\ Pos' = p + k
      /\ k < Len(out'.s) => out'.r < Len(out'.s) /\ "ERR" \in f'.flags
  BY <1>1, <1>5, <1>6, <1>7, Zenon
<1>9. QED
  BY <1>1, <1>4, <1>6, <1>8, Zenon DEF Stream!Put

(* A call that could not write changes nothing. *)
LEMMA NoPutMaps ==
  ASSUME Fit(f), NEW s \in Bytes, s # <<>>, NEW x, f' = x, out' = [op |-> "put", s |-> s, r |-> 0],
         SameView(x, f), "ERR" \in x.flags
  PROVE  Stream!Put
<1>1. out'.op = "put" /\ out'.s = s /\ out'.r = 0
  OBVIOUS
<1>2. f'.ungotten = f.ungotten /\ Content' = Content /\ Pos' = Pos
  BY ViewOf DEF SameView
<1>3. Len(s) \in Nat /\ Len(s) # 0
  BY LenIs
<1>4. 0 \in 0 .. Len(s) /\ 0 < Len(s)
  BY <1>3
<1>5. Pos' = Pos + 0
  <2>1. Pos \in Nat
    BY ViewOf, ViewIs
  <2>2. QED
    BY <1>2, <2>1
<1>6. /\ Content' = IF 0 = 0 THEN Content ELSE Stream!Overlay(Content, Pos, SubSeq(out'.s, 1, 0))
      /\ Pos' = Pos + 0
      /\ 0 < Len(out'.s) => out'.r < Len(out'.s) /\ "ERR" \in f'.flags
  BY <1>1, <1>2, <1>4, <1>5, Zenon
<1>7. QED
  BY <1>1, <1>2, <1>4, <1>6, Zenon DEF Stream!Put

(* The invariant after anything but fopen. *)
LEMMA KeptOpen ==
  ASSUME NEW x, Sound(x), NEW o, o.op # "open", Careful /\ x.ok => Fit(x) /\ x.open
  PROVE  Kept(x, o)
BY DEF Kept

(* For each call: the invariant holds after it, and without an accident it *)
(* is a step of the abstract stream.                                       *)
LEMMA FPutCMaps ==
  ASSUME IInv, f.ok, NEW c \in Byte, FPutC(c)
  PROVE  IInv' /\ (Careful /\ f'.ok => Stream!Put)
<1>1. PICK o \in fputc(f, c) :
        f' = o.f /\ out' = [op |-> "put", s |-> <<c>>, r |-> IF o.r = EOF THEN 0 ELSE 1]
  BY DEF FPutC
<1>2. Sound(f) /\ f.open /\ (Careful => Fit(f))
  BY DEF IInv, Kept, FPutC
<1>3. /\ Sound(o.f) /\ o.r \in {c, EOF}
      /\ Fit(f) /\ o.f.ok => \/ o.r = EOF /\ "ERR" \in o.f.flags /\ SameView(o.f, f)
                             \/ \E h : Ready(h, f) /\ PutOne(h, c, o)
  BY <1>2, PutCIs
<1> DEFINE s == <<c>>
           r == IF o.r = EOF THEN 0 ELSE 1
<1>4. /\ s \in Bytes /\ s # <<>> /\ Len(s) = 1 /\ 0 \in 0 .. 1 /\ 1 \in 0 .. 1
      /\ SubSeq(s, 1, 0) = <<>> /\ SubSeq(s, 1, 1) = s
  <2>1. s \in Bytes /\ Len(s) = 1
    BY OneByte
  <2> HIDE DEF s
  <2>2. SubSeq(s, 1, 0) \in Bytes /\ Len(SubSeq(s, 1, 0)) = 0
    BY <2>1, PrefixIs
  <2>3. SubSeq(s, 1, 0) = <<>>
    BY <2>2, LenIs
  <2>4. SubSeq(s, 1, 1) \in Bytes /\ Len(SubSeq(s, 1, 1)) = 1
    <3>1. 1 \in Nat /\ 1 <= Len(s)
      BY <2>1
    <3>2. QED
      BY <2>1, <3>1, PrefixIs, Zenon
  <2>5. SubSeq(s, 1, 1) = s
    <3>1. SubSeq(s, 1, 1)[1] = s[1]
      BY <2>1, PrefixAt
    <3>2. \A j \in 1 .. 1 : j = 1
      OBVIOUS
    <3>3. \A j \in 1 .. Len(SubSeq(s, 1, 1)) : SubSeq(s, 1, 1)[j] = s[j]
      BY <2>4, <3>1, <3>2, Zenon
    <3>4. QED
      BY <2>1, <2>4, <3>3, SameBytes, Zenon
  <2>6. s # <<>>
    BY <2>1, NoBytes, SMTT(30)
  <2>7. QED
    BY <2>1, <2>3, <2>5, <2>6
<1>5. f' = o.f /\ out' = [op |-> "put", s |-> s, r |-> r] /\ out'.op = "put"
  BY <1>1
<1>6. r = 0 \/ o.r # EOF
  OBVIOUS
<1> HIDE DEF s, r
<1>7. ASSUME Careful, o.f.ok PROVE Fit(o.f) /\ o.f.open /\ Stream!Put
  <2>1. CASE o.r = EOF /\ "ERR" \in o.f.flags /\ SameView(o.f, f)
    <3>1. r = 0
      BY <2>1 DEF r
    <3>2. Stream!Put
      BY <1>2, <1>4, <1>5, <1>7, <2>1, <3>1, NoPutMaps
    <3>3. QED
      BY <1>2, <2>1, <3>2 DEF SameView
  <2>2. ASSUME NEW h, Ready(h, f), PutOne(h, c, o) PROVE Fit(o.f) /\ o.f.open /\ Stream!Put
    <3>1. Fit(h) /\ h.open = f.open
      BY <2>2 DEF Ready
    <3>2. \E k \in 0 .. 1 : Added(h, SubSeq(s, 1, k), o.f) /\ (k < 1 => r = 0 /\ "ERR" \in o.f.flags)
      <4>1. Added(h, s, o.f) \/ (Added(h, <<>>, o.f) /\ o.r = EOF /\ "ERR" \in o.f.flags)
        BY <1>7, <2>2, <3>1 DEF PutOne, s
      <4>2. o.r = EOF => r = 0
        BY DEF r
      <4>3. CASE Added(h, s, o.f)
        <5>1. ~(1 < 1)
          OBVIOUS
        <5>2. QED
          BY <1>4, <4>3, <5>1, Zenon
      <4>4. CASE Added(h, <<>>, o.f) /\ o.r = EOF /\ "ERR" \in o.f.flags
        BY <1>4, <4>2, <4>4, Zenon
      <4>5. QED
        BY <4>1, <4>3, <4>4
    <3>3. PICK k \in 0 .. 1 : Added(h, SubSeq(s, 1, k), o.f) /\ (k < 1 => r = 0 /\ "ERR" \in o.f.flags)
      BY <3>2
    <3>4. k \in 0 .. Len(s) /\ (k < Len(s) => r < Len(s) /\ "ERR" \in o.f.flags)
      BY <1>4, <3>3
    <3>5. Stream!Put
      BY <1>2, <1>4, <1>5, <1>7, <2>2, <3>3, <3>4, PutMaps
    <3>6. Fit(o.f) /\ o.f.open
      BY <1>2, <3>1, <3>3 DEF Added
    <3>7. QED
      BY <3>5, <3>6
  <2>3. QED
    BY <1>2, <1>3, <1>7, <2>1, <2>2
<1>8. Kept(o.f, out')
  BY <1>3, <1>5, <1>7, KeptOpen
<1>9. QED
  BY <1>5, <1>7, <1>8 DEF IInv

(* fwrite puts bytes. *)
LEMMA FWriteMaps ==
  ASSUME IInv, f.ok, NEW s \in Bytes, s # <<>>, FWrite(s)
  PROVE  IInv' /\ (Careful /\ f'.ok => Stream!Put)
<1>1. PICK o \in fwrite(f, s) : f' = o.f /\ out' = [op |-> "put", s |-> s, r |-> o.r]
  BY DEF FWrite
<1>2. Sound(f) /\ f.open /\ (Careful => Fit(f))
  BY DEF IInv, Kept, FWrite
<1>3. /\ Sound(o.f)
      /\ Fit(f) /\ o.f.ok => \/ o.r = 0 /\ "ERR" \in o.f.flags /\ SameView(o.f, f)
                             \/ \E h : Ready(h, f) /\ Stored(h, s, o)
  BY <1>2, FWriteIs
<1>5. out'.op = "put"
  BY <1>1
<1>7. ASSUME Careful, o.f.ok PROVE Fit(o.f) /\ o.f.open /\ Stream!Put
  <2>1. CASE o.r = 0 /\ "ERR" \in o.f.flags /\ SameView(o.f, f)
    <3>2. Stream!Put
      BY <1>1, <1>2, <1>7, <2>1, NoPutMaps
    <3>3. QED
      BY <1>2, <2>1, <3>2 DEF SameView
  <2>2. ASSUME NEW h, Ready(h, f), Stored(h, s, o) PROVE Fit(o.f) /\ o.f.open /\ Stream!Put
    <3>1. h.open = f.open
      BY <2>2 DEF Ready
    <3>3. PICK k \in 0 .. Len(s) : /\ Added(h, SubSeq(s, 1, k), o.f)
                                   /\ k < Len(s) => o.r < Len(s) /\ "ERR" \in o.f.flags
      BY <2>2 DEF Stored
    <3>5. Stream!Put
      BY <1>1, <1>2, <1>7, <2>2, <3>3, PutMaps
    <3>6. Fit(o.f) /\ o.f.open
      BY <1>2, <3>1, <3>3 DEF Added
    <3>7. QED
      BY <3>5, <3>6
  <2>3. QED
    BY <1>2, <1>3, <1>7, <2>1, <2>2
<1>8. Kept(o.f, out')
  BY <1>3, <1>5, <1>7, KeptOpen
<1>9. QED
  BY <1>1, <1>7, <1>8 DEF IInv

(* The calls that read. *)
LEMMA GotMaps ==
  ASSUME IInv, f.ok, f.open, NEW o, NEW n \in Nat, NEW stop, Got(o, n, stop), Sound(o.f),
         Careful /\ o.f.ok => /\ o.r \in Bytes /\ Took(f, o.r, o.f) /\ Len(o.r) <= n
                              /\ Len(o.r) = n \/ Ended(o.r, o.f, stop)
  PROVE  IInv' /\ (Careful /\ f'.ok => Stream!Get)
<1>1. f' = o.f /\ out'.op = "get"
  BY DEF Got
<1>2. Careful => Fit(f)
  BY DEF IInv, Kept
<1>3. ASSUME Careful, o.f.ok PROVE Fit(o.f) /\ o.f.open /\ Stream!Get
  <2>1. Stream!Get
    BY <1>2, <1>3, GetMaps
  <2>2. QED
    BY <1>3, <2>1 DEF Took
<1>4. Kept(o.f, out')
  BY <1>1, <1>3, KeptOpen
<1>5. QED
  BY <1>1, <1>3, <1>4 DEF IInv

(* The loops of fgetc get bytes. *)
LEMMA GetEachMaps ==
  ASSUME IInv, f.ok, f.open, NEW n \in Nat, NEW stop, NEW o \in GetEach(f, n, stop, <<>>), Got(o, n, stop)
  PROVE  IInv' /\ (Careful /\ f'.ok => Stream!Get)
<1>1. Sound(f) /\ (Careful => Fit(f))
  BY DEF IInv, Kept
<1>2. /\ Sound(o.f) /\ o.r \in Bytes
      /\ Fit(f) /\ o.f.ok => \E u \in Bytes : /\ o.r = <<>> \o u /\ Took(f, u, o.f) /\ Len(u) <= n
                                              /\ Len(u) = n \/ Ended(u, o.f, stop)
  BY <1>1, NoBytes, GetEachIs
<1>3. ASSUME Careful, o.f.ok
      PROVE  /\ o.r \in Bytes /\ Took(f, o.r, o.f) /\ Len(o.r) <= n
             /\ Len(o.r) = n \/ Ended(o.r, o.f, stop)
  <2>1. PICK u \in Bytes : /\ o.r = <<>> \o u /\ Took(f, u, o.f) /\ Len(u) <= n
                           /\ Len(u) = n \/ Ended(u, o.f, stop)
    BY <1>1, <1>2, <1>3
  <2>2. o.r = u
    BY <2>1, NoneIs
  <2>3. QED
    BY <1>2, <2>1, <2>2
<1>4. QED
  BY <1>2, <1>3, GotMaps

(* fread gets bytes. *)
LEMMA FReadMaps ==
  ASSUME IInv, f.ok, NEW n \in Nat, n # 0, FRead(n)
  PROVE  IInv' /\ (Careful /\ f'.ok => Stream!Get)
<1>1. PICK o \in fread(f, n) : Got(o, n, EOF)
  BY DEF FRead
<1>2. Sound(f) /\ f.open /\ (Careful => Fit(f) /\ FReadFit)
  BY DEF IInv, Kept, FRead
<1>3. Careful => Readable(f)
  BY <1>2 DEF Readable, FReadFit, Input
<1>4. Sound(o.f) /\ (Readable(f) /\ o.f.ok => GotN(f, n, o))
  BY <1>2, FReadIs
<1>5. ASSUME Careful, o.f.ok
      PROVE  /\ o.r \in Bytes /\ Took(f, o.r, o.f) /\ Len(o.r) <= n
             /\ Len(o.r) = n \/ Ended(o.r, o.f, EOF)
  BY <1>3, <1>4, <1>5 DEF GotN, Ended
<1>6. QED
  BY <1>1, <1>2, <1>4, <1>5, GotMaps

(* The calls that move. *)
LEMMA UngetCMaps ==
  ASSUME IInv, f.ok, NEW c \in Byte, UngetC(c)
  PROVE  IInv' /\ (Careful /\ f'.ok => Stream!Move)
<1> DEFINE o == ungetc(f, c)
<1>1. /\ f.open /\ Input(f) /\ PosOf(f) > 0 /\ f' = o.f /\ out'.op = "unget" /\ out'.r = o.r
  BY ViewOf DEF UngetC, Input
<1>2. Sound(f) /\ (Careful => Fit(f))
  BY DEF IInv, Kept
<1>3. Ungot(f, c, o)
  BY <1>1, <1>2, UngetCIs
<1>4. -1 = EOF /\ c # EOF
  BY ByteNotEof DEF EOF
<1> HIDE DEF o
<1>5. ASSUME Careful, o.f.ok PROVE Fit(o.f) /\ o.f.open /\ Stream!Move
  <2>1. /\ Fit(o.f) /\ ContentOf(o.f) = ContentOf(f) /\ o.f.open
        /\ \/ o.r = EOF /\ o.f.ungotten = f.ungotten /\ PosOf(o.f) = PosOf(f)
           \/ o.r = c /\ o.f.ungotten = <<c>> /\ PosOf(o.f) = PosOf(f)
           \/ /\ o.r = c /\ o.f.ungotten = f.ungotten /\ PosOf(o.f) = PosOf(f) - 1
              /\ ContentOf(f)[PosOf(f)] = c
    BY <1>1, <1>2, <1>3, <1>5 DEF Ungot
  <2>2. /\ Content' = Content
        /\ \/ out'.r = -1 /\ f'.ungotten = f.ungotten /\ Pos' = Pos
           \/ out'.r # -1 /\ f'.ungotten = <<out'.r>> /\ Pos' = Pos
           \/ out'.r # -1 /\ f'.ungotten = f.ungotten /\ Pos' = Pos - 1 /\ Content[Pos] = out'.r
    BY <1>1, <1>4, <2>1, ViewOf
  <2>3. Stream!Move
    BY <1>1, <2>2, Zenon DEF Stream!Move
  <2>4. QED
    BY <2>1, <2>3
<1>6. Kept(o.f, out')
  BY <1>1, <1>3, <1>5, KeptOpen DEF Ungot
<1>7. QED
  BY <1>1, <1>5, <1>6 DEF IInv

(* fseek moves. *)
LEMMA FSeekMaps ==
  ASSUME IInv, f.ok, NEW w, NEW x, <<w, x>> \in Moves, FSeek(w, x)
  PROVE  IInv' /\ (Careful /\ f'.ok => Stream!Move)
<1>1. PICK o \in fseek(f, w, x) :
        f' = o.f /\ out' = [op |-> "seek", r |-> o.r, whence |-> w, offset |-> x]
  BY DEF FSeek
<1>2. Sound(f) /\ f.open /\ (Careful => Fit(f))
  BY DEF IInv, Kept, FSeek
<1>3. Sought(f, w, x, o)
  BY <1>2, FSeekIs
<1>4. out'.op = "seek" /\ out'.r = o.r /\ out'.whence = w /\ out'.offset = x
  BY <1>1
<1>5. ASSUME Careful, o.f.ok PROVE Fit(o.f) /\ o.f.open /\ Stream!Move
  <2>1. /\ Fit(o.f) /\ ContentOf(o.f) = ContentOf(f) /\ o.f.ungotten = <<>> /\ o.f.open
        /\ o.r = 0 => \E p \in {PosOf(f), PosOf(f) - Len(f.ungotten)} :
             PosOf(o.f) = x + (CASE w = "SET" -> 0 [] w = "CUR" -> p [] w = "END" -> Len(ContentOf(f)))
    BY <1>2, <1>3, <1>5 DEF Sought
  <2>2. Content' = Content /\ f'.ungotten = <<>>
    BY <1>1, <2>1, ViewOf
  <2>3. PosOf(f) \in Nat /\ Len(f.ungotten) \in Nat /\ Len(ContentOf(f)) \in Nat
    BY <1>2, <1>5, ViewIs, LenIs
  <2>4. ASSUME o.r = 0 PROVE Pos' \in {b + x : b \in Stream!Base(w)}
    <3>1. PICK p \in {PosOf(f), PosOf(f) - Len(f.ungotten)} :
             PosOf(o.f) = x + (CASE w = "SET" -> 0 [] w = "CUR" -> p [] w = "END" -> Len(ContentOf(f)))
      BY <2>1, <2>4
    <3>2. p \in Int /\ p \in {Pos, Pos - Len(f.ungotten)}
      BY <2>3, <3>1, ViewOf
    <3>3. \E b \in Stream!Base(w) : Pos' = b + x
      <4>1. CASE w = "SET" /\ x = 0
        <5>1. Stream!Base(w) = {0}
          BY <4>1 DEF Stream!Base
        <5>2. Pos' = 0 + x
          BY <1>1, <3>1, <4>1, ViewOf
        <5>3. QED
          BY <5>1, <5>2, Zenon
      <4>2. CASE w = "CUR" /\ x = 0
        <5>1. Stream!Base(w) = {Pos, Pos - Len(f.ungotten)}
          BY <4>2 DEF Stream!Base
        <5>2. Pos' = p + x
          <6>1. PosOf(o.f) = x + p
            BY <3>1, <4>2
          <6>2. QED
            BY <1>1, <3>2, <4>2, <6>1, ViewOf
        <5>3. QED
          BY <3>2, <5>1, <5>2, Zenon
      <4>3. CASE w = "END" /\ x = -1
        <5>1. Stream!Base(w) = {Len(Content)}
          BY <4>3 DEF Stream!Base
        <5>2. Pos' = Len(Content) + x
          <6>1. PosOf(o.f) = x + Len(ContentOf(f))
            BY <3>1, <4>3
          <6>2. QED
            BY <1>1, <2>3, <4>3, <6>1, ViewOf
        <5>3. QED
          BY <5>1, <5>2, Zenon
      <4>4. QED
        BY <4>1, <4>2, <4>3 DEF Moves
    <3>4. QED
      BY <3>3, Zenon
  <2>5. Stream!Move
    BY <1>4, <2>2, <2>4, Zenon DEF Stream!Move
  <2>6. QED
    BY <2>1, <2>5
<1>6. Kept(o.f, out')
  BY <1>3, <1>4, <1>5, KeptOpen DEF Sought
<1>7. QED
  BY <1>1, <1>5, <1>6 DEF IInv

(* ftell answers where the user stands. *)
LEMMA FTellMaps ==
  ASSUME IInv, f.ok, FTell
  PROVE  IInv' /\ (Careful /\ f'.ok => Stream!Move)
<1>1. f.open /\ f' = f /\ out'.op = "tell" /\ out'.r = ftell(f)
  BY DEF FTell
<1>2. Sound(f) /\ (Careful => Fit(f))
  BY DEF IInv, Kept
<1>3. ASSUME Careful PROVE Stream!Move
  <2>1. Fit(f)
    BY <1>2, <1>3
  <2>2. PosOf(f) \in Nat /\ Len(f.ungotten) \in 0 .. 1 /\ Len(f.ungotten) <= PosOf(f)
    BY <2>1, ViewIs
  <2>3. "ERR" \in f.flags => ftell(f) = -1
    BY DEF ftell
  <2>4. "ERR" \notin f.flags => ftell(f) = PosOf(f) - Len(f.ungotten)
    <3>1. CASE Input(f)
      BY <3>1 DEF ftell, PosOf, Input
    <3>2. CASE ~Input(f)
      <4>1. f.ungotten = <<>>
        BY <2>1, <3>2 DEF Fit
      <4>2. PosOf(f) - Len(f.ungotten) = PosOf(f)
        BY <2>2, <4>1
      <4>3. PosOf(f) = f.pos + f.bm
        BY <3>2 DEF PosOf
      <4>4. QED
        BY <3>2, <4>2, <4>3 DEF ftell, Input
    <3>3. QED
      BY <3>1, <3>2
  <2>5. PosOf(f) - Len(f.ungotten) # -1
    BY <2>2
  <2>6. /\ out'.r \in {Pos - Len(f.ungotten), -1} /\ (out'.r = -1 => "ERR" \in f'.flags)
        /\ Content' = Content /\ Pos' = Pos /\ f'.ungotten = f.ungotten
    BY <1>1, <2>3, <2>4, <2>5, ViewOf
  <2>7. QED
    BY <1>1, <2>6, Zenon DEF Stream!Move
<1>4. Kept(f, out')
  BY <1>1, <1>2, KeptOpen
<1>5. QED
  BY <1>1, <1>3, <1>4 DEF IInv

(* fflush shows in no way. *)
LEMMA FFlushMaps ==
  ASSUME IInv, f.ok, FFlush
  PROVE  IInv' /\ (Careful /\ f'.ok => Stream!Move)
<1>1. PICK o \in fflush(f) : f' = o.f /\ out' = [op |-> "flush", r |-> o.r]
  BY DEF FFlush
<1>2. Sound(f) /\ f.open /\ (Careful => Fit(f))
  BY DEF IInv, Kept, FFlush
<1>3. Flushed(f, o)
  BY <1>2, FlushIs
<1>4. out'.op = "flush" /\ out'.r = o.r /\ o.r \in {0, -1} /\ Sound(o.f)
  BY <1>1, <1>3 DEF Flushed
<1>5. ASSUME Careful, o.f.ok PROVE Fit(o.f) /\ o.f.open /\ Stream!Move
  <2>1. CASE o.r = 0
    <3>1. EmptiedFit(o.f, f)
      BY <1>2, <1>3, <1>5, <2>1, FlushView, EmptiedIs
    <3>2. Content' = Content /\ f'.ungotten = <<>> /\ Pos' \in {Pos, Pos - Len(f.ungotten)}
      BY <1>1, <3>1, ViewOf DEF EmptiedFit
    <3>3. Stream!Move
      BY <1>4, <3>2, Zenon DEF Stream!Move
    <3>4. QED
      BY <1>2, <3>1, <3>3 DEF EmptiedFit
  <2>2. CASE o.r # 0
    <3>1. SameView(o.f, f) /\ "ERR" \in o.f.flags
      BY <1>2, <1>3, <1>5, <2>2, FlushView
    <3>2. Content' = Content /\ Pos' = Pos /\ f'.ungotten = f.ungotten /\ "ERR" \in f'.flags /\ out'.r = -1
      BY <1>1, <1>4, <2>2, <3>1, ViewOf DEF SameView
    <3>3. Stream!Move
      BY <1>4, <3>2, Zenon DEF Stream!Move
    <3>4. QED
      BY <1>2, <3>1, <3>3 DEF SameView
  <2>3. QED
    BY <2>1, <2>2
<1>6. Kept(o.f, out')
  BY <1>4, <1>5, KeptOpen
<1>7. QED
  BY <1>1, <1>5, <1>6 DEF IInv

(* A call that the program does not see. *)
LEMMA SetMaps ==
  ASSUME IInv, f.ok, f.open, out'.op = "set", Sound(f'), Careful => SameView(f', f)
  PROVE  IInv' /\ (Careful /\ f'.ok => Stream!Move)
<1>1. ASSUME Careful PROVE Fit(f') /\ f'.open /\ Stream!Move
  <2>1. Content' = Content /\ Pos' = Pos /\ f'.ungotten = f.ungotten
    BY <1>1, ViewOf DEF SameView
  <2>2. Stream!Move
    BY <2>1, Zenon DEF Stream!Move
  <2>3. QED
    BY <1>1, <2>2 DEF SameView
<1>2. Kept(f', out')
  BY <1>1, KeptOpen
<1>3. QED
  BY <1>1, <1>2 DEF IInv

(* Nor does setvbuf. *)
LEMMA SetVBufMaps ==
  ASSUME IInv, f.ok, NEW kind \in Kinds, NEW size \in Sizes, SetVBuf(kind, size)
  PROVE  IInv' /\ (Careful /\ f'.ok => Stream!Move)
<1>1. f.open /\ out.op = "open" /\ f' = VBuf(f, kind, size) /\ out'.op = "set"
  <2>1. f.open /\ out.op = "open" /\ out' = [op |-> "set"]
    BY DEF SetVBuf
  <2>2. f' = VBuf(f, kind, size)
    BY Zenon DEF SetVBuf, VBuf
  <2>3. QED
    BY <2>1, <2>2
<1>2. Sound(f) /\ (Careful => Fit(f) /\ f.bm = 0 /\ f.bs = 0)
  BY <1>1 DEF IInv, Kept
<1>3. /\ Sound(f') /\ f'.ok = f.ok /\ f'.open = f.open
      /\ Fit(f) /\ f.bm = 0 /\ f.bs = 0 => SameView(f', f) /\ f'.bm = 0 /\ f'.bs = 0
  BY <1>1, <1>2, VBufIs
<1>4. QED
  BY <1>1, <1>2, <1>3, SetMaps

(* Nor clearerr. *)
LEMMA ClearErrMaps ==
  ASSUME IInv, f.ok, ClearErr
  PROVE  IInv' /\ (Careful /\ f'.ok => Stream!Move)
<1> DEFINE h == Clear(f, {"ERR", "EOF"})
<1>1. f.open /\ f' = h /\ out'.op = "set"
  BY DEF ClearErr
<1>2. Sound(f) /\ (Careful => Fit(f))
  BY DEF IInv, Kept
<1>3. Sound(h) /\ (Fit(f) => SameView(h, f))
  BY <1>2, ClearedIs
<1> HIDE DEF h
<1>4. QED
  BY <1>1, <1>2, <1>3, SetMaps

(* fpurge drops what is in the buffer. *)
LEMMA PurgeMaps ==
  ASSUME IInv, f.ok, Purge
  PROVE  IInv' /\ (Careful /\ f'.ok => Stream!Drop)
<1> DEFINE h == [f EXCEPT !.ungotten = <<>>, !.bs = 0, !.bm = 0]
<1>1. f.open /\ f' = h /\ out'.op = "purge"
  BY DEF Purge
<1>2. Sound(f) /\ (Careful => Fit(f))
  BY DEF IInv, Kept
<1>3. Sound(h) /\ h.open = f.open /\ h.ungotten = <<>> /\ (Fit(f) => Fit(h))
  BY <1>2, PurgeIs
<1> HIDE DEF h
<1>4. Stream!Drop
  BY <1>1, <1>3, Zenon DEF Stream!Drop
<1>5. Kept(h, out')
  BY <1>1, <1>2, <1>3, KeptOpen
<1>6. QED
  BY <1>1, <1>4, <1>5 DEF IInv

(* fclose keeps the content. *)
LEMMA FCloseMaps ==
  ASSUME IInv, f.ok, FClose
  PROVE  IInv' /\ (Careful /\ f'.ok => Stream!Move)
<1>1. PICK b \in fflush(f) : f' = Closed(b) /\ out' = [op |-> "close", r |-> b.r]
  BY Zenon DEF FClose, Closed
<1>2. Sound(f) /\ (Careful => Fit(f)) /\ out'.op = "close"
  BY <1>1 DEF IInv, Kept
<1>3. /\ Sound(f') /\ ~f'.open
      /\ Fit(f) /\ f'.ok => Fit(f') /\ ContentOf(f') = ContentOf(f) /\ f'.ungotten = <<>> /\ f'.bm = 0 /\ f'.bs = 0
  BY <1>1, <1>2, CloseIs
<1>4. ASSUME Careful, f'.ok PROVE Stream!Move
  <2>1. Content' = Content /\ f'.ungotten = <<>>
    BY <1>2, <1>3, <1>4, ViewOf
  <2>2. QED
    BY <1>2, <2>1, Zenon DEF Stream!Move
<1>5. Kept(f', out')
  BY <1>2, <1>3 DEF Kept
<1>6. QED
  BY <1>4, <1>5 DEF IInv

(* The calls that open. *)
LEMMA FreshMaps ==
  ASSUME NEW mode, NEW g, Sound(f'), Careful /\ f'.ok => Fresh(f', g, mode) /\ g.file = ContentOf(f), out'.op = "open"
  PROVE  IInv' /\ (Careful /\ f'.ok => Stream!Move \/ Stream!Drop)
<1>1. ASSUME Careful, f'.ok
      PROVE  Fit(f') /\ f'.bm = 0 /\ f'.bs = 0 /\ (Stream!Move \/ Stream!Drop)
  <2>1. Fresh(f', g, mode) /\ g.file = ContentOf(f)
    BY <1>1
  <2>2. Fit(f') /\ PosOf(f') = 0 /\ ContentOf(f') = IF mode = "w" THEN <<>> ELSE g.file
    BY <1>1, <2>1, FreshIs
  <2>3. f'.bm = 0 /\ f'.bs = 0 /\ f'.ungotten = <<>>
    BY <2>1 DEF Fresh
  <2>4. Pos' = 0 /\ (Content' = <<>> \/ Content' = Content)
    BY <2>1, <2>2, ViewOf
  <2>5. CASE Content' = <<>>
    BY <2>2, <2>3, <2>4, <2>5, Zenon DEF Stream!Drop
  <2>6. CASE Content' = Content
    BY <2>2, <2>3, <2>4, <2>6, Zenon DEF Stream!Move
  <2>7. QED
    BY <2>4, <2>5, <2>6
<1>2. Kept(f', out')
  BY <1>1 DEF Kept
<1>3. QED
  BY <1>1, <1>2 DEF IInv

(* fopen starts anew. *)
LEMMA FOpenMaps ==
  ASSUME IInv, f.ok, NEW mode \in Modes, FOpen(mode)
  PROVE  IInv' /\ (Careful /\ f'.ok => Stream!Move \/ Stream!Drop)
<1>1. ~f.open /\ f' = init_file(f, mode) /\ out'.op = "open"
  BY DEF FOpen
<1>2. Sound(f) /\ f \in StreamRec /\ (Careful => f.bm = 0 /\ f.bs = 0)
  BY <1>1, Fields DEF IInv, Kept
<1>3. Fresh(f', f, mode)
  BY <1>1, <1>2, InitFileIs
<1>4. Sound(f') /\ (Careful => f.file = ContentOf(f))
  BY <1>2, <1>3, EmptyView DEF Fresh
<1>5. QED
  BY <1>1, <1>3, <1>4, FreshMaps

(* freopen keeps the content, or drops it for writing. *)
LEMMA FReopenMaps ==
  ASSUME IInv, f.ok, NEW mode \in Modes, FReopen(mode)
  PROVE  IInv' /\ (Careful /\ f'.ok => Stream!Move \/ Stream!Drop)
<1>1. f' \in freopen(f, mode) /\ out'.op = "open"
  BY DEF FReopen
<1>2. Sound(f) /\ (Careful => Fit(f))
  BY DEF IInv, Kept
<1>3. /\ Sound(f')
      /\ Fit(f) /\ f'.ok => \E k : Fresh(f', k, mode) /\ k.file = ContentOf(f)
  BY <1>1, <1>2, FReopenIs
<1>4. PICK k : Careful /\ f'.ok => Fresh(f', k, mode) /\ k.file = ContentOf(f)
  BY <1>2, <1>3
<1>5. QED
  BY <1>1, <1>3, <1>4, FreshMaps

(* Sequences given as functions. *)
LEMMA SeqIs ==
  ASSUME NEW n \in Nat, n # 0, NEW s \in [1 .. n -> Byte]
  PROVE  s \in Bytes /\ s # <<>>
<1>1. s \in Seq(Byte) /\ Len(s) = n
  BY SeqDef, LenProperties
<1>2. QED
  BY <1>1, NoBytes DEF Bytes

(* The first state. *)
LEMMA InitKept == Init => IInv /\ Stream!Init
<1> SUFFICES ASSUME Init PROVE IInv /\ Stream!Init
  OBVIOUS
<1>1. PICK file \in BoundedSeq(Byte, MaxFile), mode \in Modes :
        LET blank == [file |-> file, pos |-> 0, flags |-> {}, bm |-> 0, bs |-> 0,
                      buf |-> <<>>, buflen |-> 0, ungotten |-> <<>>, open |-> TRUE, ok |-> TRUE]
        IN  /\ f = init_file(blank, mode)
            /\ out = [op |-> "open"]
  BY DEF Init
<1> DEFINE g == [file |-> file, pos |-> 0, flags |-> {}, bm |-> 0, bs |-> 0,
                 buf |-> <<>>, buflen |-> 0, ungotten |-> <<>>, open |-> TRUE, ok |-> TRUE]
<1>2. file \in Bytes
  <2>1. PICK m \in 0 .. MaxFile : file \in [1 .. m -> Byte]
    BY DEF BoundedSeq, SeqOf
  <2>2. m \in Nat
    BY StdioAssumption
  <2>3. QED
    BY <2>1, <2>2, SeqDef DEF Bytes
<1>3. g \in StreamRec /\ g.ok
  BY <1>2, NoBytes DEF StreamRec
<1>4. f = init_file(g, mode) /\ out.op = "open"
  BY <1>1
<1> HIDE DEF g
<1>5. Fresh(f, g, mode)
  BY <1>3, <1>4, InitFileIs
<1>6. Sound(f) /\ f.ok = g.ok /\ f.bm = 0 /\ f.bs = 0 /\ f.ungotten = <<>> /\ "ERR" \notin f.flags
  BY <1>5 DEF Fresh
<1>7. f.ok = TRUE
  BY <1>3, <1>6, Fields
<1>8. Fit(f) /\ PosOf(f) = 0
  BY <1>5, <1>7, FreshIs
<1>9. IInv
  BY <1>6, <1>8 DEF IInv, Kept
<1>10. ("ERR" \in f.flags) = FALSE /\ Pos = 0
  BY <1>6, <1>8, ViewOf
<1>11. Stream!Init
  BY <1>4, <1>6, <1>7, <1>10, Zenon DEF Stream!Init
<1>12. QED
  BY <1>9, <1>11

(* Every call of the program. *)
LEMMA NextKept ==
  ASSUME IInv, Next
  PROVE  IInv' /\ (Careful /\ f'.ok => Stream!Get \/ Stream!Put \/ Stream!Move \/ Stream!Drop)
<1> USE Numbers
<1>0. f.ok /\ BUFSIZE \in Nat
  BY DEF Next
<1>1. ASSUME NEW c \in Byte, FPutC(c)
      PROVE  IInv' /\ (Careful /\ f'.ok => Stream!Put)
  BY <1>0, <1>1, FPutCMaps
<1>2. ASSUME NEW c \in Byte, UngetC(c)
      PROVE  IInv' /\ (Careful /\ f'.ok => Stream!Move)
  BY <1>0, <1>2, UngetCMaps
<1>3. ASSUME NEW n \in {2, BUFSIZE + 1}, NEW s \in [1 .. n -> Byte], FWrite(s)
      PROVE  IInv' /\ (Careful /\ f'.ok => Stream!Put)
  <2>1. n \in Nat /\ n # 0
    BY <1>0
  <2>2. s \in Bytes /\ s # <<>>
    BY <2>1, SeqIs
  <2>3. QED
    BY <1>0, <1>3, <2>2, FWriteMaps
<1>4. ASSUME NEW n \in {1, 2, BUFSIZE + 1}, FRead(n)
      PROVE  IInv' /\ (Careful /\ f'.ok => Stream!Get)
  <2>1. n \in Nat /\ n # 0
    BY <1>0
  <2>2. QED
    BY <1>0, <1>4, <2>1, FReadMaps
<1>5. ASSUME FGetC
      PROVE  IInv' /\ (Careful /\ f'.ok => Stream!Get)
  <2>1. f.open
    BY <1>5 DEF FGetC
  <2>2. PICK o \in GetEach(f, 1, EOF, <<>>) : Got(o, 1, EOF)
    BY <1>5 DEF FGetC
  <2>3. 1 \in Nat
    OBVIOUS
  <2>4. QED
    BY <1>0, <2>1, <2>2, <2>3, GetEachMaps
<1>6. ASSUME FGetS(2)
      PROVE  IInv' /\ (Careful /\ f'.ok => Stream!Get)
  <2>1. f.open
    BY <1>6 DEF FGetS
  <2>2. PICK o \in GetEach(f, 2, Newline, <<>>) : Got(o, 2, Newline)
    BY <1>6 DEF FGetS, fgets
  <2>3. 2 \in Nat
    OBVIOUS
  <2>4. QED
    BY <1>0, <2>1, <2>2, <2>3, GetEachMaps
<1>7. ASSUME FSeek("SET", 0) \/ FSeek("CUR", 0) \/ FSeek("END", -1)
      PROVE  IInv' /\ (Careful /\ f'.ok => Stream!Move)
  <2>1. <<"SET", 0>> \in Moves /\ <<"CUR", 0>> \in Moves /\ <<"END", -1>> \in Moves
    BY DEF Moves
  <2>2. QED
    BY <1>0, <1>7, <2>1, FSeekMaps, Zenon
<1>8. ASSUME FTell \/ FFlush \/ ClearErr \/ FClose
      PROVE  IInv' /\ (Careful /\ f'.ok => Stream!Move)
  BY <1>0, <1>8, FTellMaps, FFlushMaps, ClearErrMaps, FCloseMaps
<1>9. ASSUME Purge
      PROVE  IInv' /\ (Careful /\ f'.ok => Stream!Drop)
  BY <1>0, <1>9, PurgeMaps
<1>10. ASSUME NEW kind \in {{"NOBUF"}, {"BUFLINEWISE"}}, NEW size \in {0, 1, BUFSIZE + 1}, SetVBuf(kind, size)
       PROVE  IInv' /\ (Careful /\ f'.ok => Stream!Move)
  BY <1>0, <1>10, SetVBufMaps, Zenon DEF Kinds, Sizes
<1>11. ASSUME NEW mode \in Modes, FOpen(mode) \/ FReopen(mode)
       PROVE  IInv' /\ (Careful /\ f'.ok => Stream!Move \/ Stream!Drop)
  BY <1>0, <1>11, FOpenMaps, FReopenMaps
<1>12. QED
  BY <1>1, <1>2, <1>3, <1>4, <1>5, <1>6, <1>7, <1>8, <1>9, <1>10, <1>11, Zenon DEF Next

(* Every step keeps the invariant and is a step of the abstract stream. *)
LEMMA StepKept ==
  ASSUME IInv, [Next]_vars
  PROVE  IInv' /\ (Careful => [Stream!Next]_(Stream!vars))
<1>1. CASE Next
  <2>1. IInv' /\ (Careful /\ f'.ok => Stream!Get \/ Stream!Put \/ Stream!Move \/ Stream!Drop)
    BY <1>1, NextKept
  <2>2. f.ok
    BY <1>1 DEF Next
  <2>3. f'.ok = TRUE \/ f'.ok = FALSE
    BY <2>1, Fields DEF IInv, Kept
  <2>4. Careful => Stream!Next
    BY <2>1, <2>2, <2>3, Zenon DEF Stream!Next
  <2>5. QED
    BY <2>1, <2>4, Zenon
<1>2. CASE UNCHANGED vars
  <2>1. f' = f /\ out' = out
    BY <1>2 DEF vars
  <2>2. Content' = Content /\ Pos' = Pos
    BY <2>1, ViewOf
  <2>3. UNCHANGED Stream!vars
    BY <2>1, <2>2, Zenon DEF Stream!vars
  <2>4. IInv'
    BY <2>1 DEF IInv
  <2>5. QED
    BY <2>3, <2>4, Zenon
<1>3. QED
  BY <1>1, <1>2

(* The invariant implies the type invariant that the run checks. *)
LEMMA SoundType == IInv => TypeOK
<1> SUFFICES ASSUME Sound(f) PROVE TypeOK
  BY DEF IInv, Kept
<1>1. /\ f.file \in Bytes /\ f.pos \in Nat /\ f.flags \subseteq Flags /\ f.bm \in Nat /\ f.bs \in Nat
      /\ f.buf \in Bytes /\ f.buflen \in Nat /\ f.ungotten \in Bytes /\ f.open \in BOOLEAN /\ f.ok \in BOOLEAN
  BY Fields
<1>2. /\ f.buflen \in 1 .. BUFSIZE + 1 /\ Len(f.buf) = f.buflen /\ f.bm <= f.buflen /\ f.bs <= f.buflen
      /\ Len(f.ungotten) <= 1
  BY DEF Sound
<1>3. f.buf \in [1 .. f.buflen -> Byte]
  <2>1. f.buf \in [1 .. Len(f.buf) -> Byte]
    BY <1>1, LenProperties DEF Bytes
  <2>2. QED
    BY <1>2, <2>1
<1>4. f.ungotten \in BoundedSeq(Byte, 1)
  <2>1. f.ungotten \in [1 .. Len(f.ungotten) -> Byte] /\ Len(f.ungotten) \in Nat
    BY <1>1, LenProperties DEF Bytes
  <2>2. Len(f.ungotten) \in 0 .. 1
    <3>1. \A n \in Nat : n <= 1 => n \in 0 .. 1
      OBVIOUS
    <3>2. QED
      BY <1>2, <2>1, <3>1, Zenon
  <2>3. QED
    BY <2>1, <2>2, Zenon DEF BoundedSeq, SeqOf
<1>5. f.bm \in 0 .. f.buflen /\ f.bs \in 0 .. f.buflen
  BY <1>1, <1>2
<1>6. QED
  BY <1>1, <1>2, <1>3, <1>4, <1>5 DEF TypeOK, Flags, Bytes

(* The buffer, its indices and its flags stay in order through any         *)
(* sequence of calls with any failures of read and write, also of a        *)
(* program that uses fread where it goes wrong.                            *)
THEOREM BufferInOrder == Spec => []TypeOK
<1>1. Init => IInv
  BY InitKept
<1>2. IInv /\ [Next]_vars => IInv'
  BY StepKept
<1>3. IInv => TypeOK
  BY SoundType
<1>4. QED
  BY <1>1, <1>2, <1>3, PTL DEF Spec

(* For a careful program buffering, changes of direction, seeks and        *)
(* push-back are invisible: libstdio implements the abstract stream.       *)
THEOREM StdioImplementsStream ==
  ASSUME Careful
  PROVE  Spec => ImplementsStream
<1>1. Init => IInv /\ Stream!Init
  BY InitKept
<1>2. IInv /\ [Next]_vars => IInv' /\ [Stream!Next]_(Stream!vars)
  BY StepKept
<1>3. QED
  BY <1>1, <1>2, PTL DEF Spec, ImplementsStream, Stream!Spec

-----------------------------------------------------------------------------
(* exit.  It calls the handlers in the reverse order of their              *)
(* registration, each once, and loses no output but what was written after *)
(* the flush of stdio.                                                     *)

(* What Reverse of a sequence is. *)
LEMMA ReverseProperties ==
  ASSUME NEW S, NEW s \in Seq(S)
  PROVE  /\ Reverse(s) \in Seq(S) /\ Len(Reverse(s)) = Len(s)
         /\ \A j \in 1 .. Len(s) : Reverse(s)[j] = s[Len(s) - j + 1]
BY DEF Reverse

(* The next handler down the list goes to the end of those called. *)
LEMMA ReverseStep ==
  ASSUME NEW S, NEW s \in Seq(S), NEW k \in 1 .. Len(s), NEW n \in k .. Len(s)
  PROVE  Append(Reverse(SubSeq(s, k + 1, n)), s[k]) = Reverse(SubSeq(s, k, n))
<1> DEFINE a == SubSeq(s, k + 1, n)
           b == SubSeq(s, k, n)
<1>1. /\ a \in Seq(S) /\ Len(a) = n - k
      /\ \A j \in 1 .. n - k : a[j] = s[k + j]
  <2>1. \A j \in (k + 1) .. n : s[j] \in S
    BY ElementOfSeq
  <2>2. QED
    BY <2>1, SubSeqProperties
<1>2. /\ b \in Seq(S) /\ Len(b) = n - k + 1
      /\ \A j \in 1 .. n - k + 1 : b[j] = s[k + j - 1]
  <2>1. \A j \in k .. n : s[j] \in S
    BY ElementOfSeq
  <2>2. QED
    BY <2>1, SubSeqProperties
<1> HIDE DEF a, b
<1>3. Reverse(a) \in Seq(S) /\ Len(Reverse(a)) = n - k
  BY <1>1, ReverseProperties
<1>4. Reverse(b) \in Seq(S) /\ Len(Reverse(b)) = n - k + 1
  BY <1>2, ReverseProperties
<1>5. s[k] \in S
  OBVIOUS
<1>6. /\ Append(Reverse(a), s[k]) \in Seq(S)
      /\ Len(Append(Reverse(a), s[k])) = n - k + 1
  BY <1>3, <1>5, AppendProperties
<1>7. ASSUME NEW j \in 1 .. n - k + 1
      PROVE  Append(Reverse(a), s[k])[j] = Reverse(b)[j]
  <2>1. Reverse(b)[j] = s[n - j + 1]
    <3>0. b \in Seq(S) /\ j \in 1 .. Len(b)
      BY <1>2
    <3>1. Reverse(b)[j] = b[Len(b) - j + 1]
      BY <3>0, ReverseProperties
    <3>2. QED
      BY <1>2, <3>1
  <2>2. CASE j \in 1 .. n - k
    <3>1. Reverse(a)[j] = s[n - j + 1]
      <4>0. a \in Seq(S) /\ j \in 1 .. Len(a)
        BY <1>1, <2>2
      <4>1. Reverse(a)[j] = a[Len(a) - j + 1]
        BY <4>0, ReverseProperties
      <4>2. QED
        BY <1>1, <2>2, <4>1, SMTT(30)
    <3>2. QED
      BY <1>3, <1>5, <2>1, <2>2, <3>1
  <2>3. CASE j = n - k + 1
    BY <1>3, <1>5, <2>1, <2>3
  <2>4. j \in 1 .. n - k \/ j = n - k + 1
    OBVIOUS
  <2>5. QED
    BY <2>2, <2>3, <2>4
<1>8. Append(Reverse(a), s[k]) = Reverse(b)
  BY <1>4, <1>6, <1>7, SeqEqual
<1>9. QED
  BY <1>8 DEF a, b

(* A handler registered later does not change what was registered before. *)
LEMMA SubSeqAppend ==
  ASSUME NEW S, NEW s \in Seq(S), NEW e \in S, NEW m \in Nat \ {0}, NEW n \in 0 .. Len(s)
  PROVE  SubSeq(Append(s, e), m, n) = SubSeq(s, m, n)
OBVIOUS

(* The value of an empty range, with which exit begins. *)
LEMMA NothingRun ==
  ASSUME NEW S, NEW s \in Seq(S)
  PROVE  Reverse(SubSeq(s, Len(s) + 1, Len(s))) = <<>>
<1>1. SubSeq(s, Len(s) + 1, Len(s)) = <<>>
  BY SubSeqEmpty
<1>2. QED
  BY <1>1 DEF Reverse

(* The state of exit. *)
ATypeOK ==
  /\ list \in Seq(Handler \cup {Flush}) /\ ran \in Seq(Handler \cup {Flush})
  /\ i \in 0 .. Len(list) /\ stage \in {"main", "exit", "handler", "done"}
  /\ (stage = "main" => ran = <<>>) /\ (stage = "done" => i = 0)

(* fflush(0) reaches every stream with unwritten output: those of the list *)
(* and stdout.                                                             *)
PendingOpen == pending \subseteq root \cup {Stdout}

(* The entries of the table that exit has still to call, or would call. *)
Ahead == 1 .. (IF stage = "main" THEN Len(list) ELSE i)

(* Unwritten output has come too late, or the flush is still to be called. *)
FlushToCome == pending \subseteq late \/ \E k \in Ahead : list[k] = Flush

(* The inductive invariant of exit. *)
ExitInv == ATypeOK /\ PendingOpen /\ FlushToCome /\ CalledInReverse

(* Before the first call of atexit. *)
LEMMA ExitInitInv == AInit => ExitInv
BY DEF AInit, ExitInv, ATypeOK, PendingOpen, FlushToCome, Ahead, CalledInReverse

(* The table only grows: a registration, by the program or by stdio, keeps *)
(* the entries that are there.                                             *)
LEMMA Registration ==
  ASSUME ExitInv, stage \in {"main", "handler"}, UNCHANGED <<i, stage, ran>>,
         list' = list \/ \E h \in Handler \cup {Flush} : list' = Append(list, h)
  PROVE  /\ ATypeOK' /\ CalledInReverse'
         /\ \A k \in Ahead : k \in Ahead' /\ list'[k] = list[k]
<1> USE DEF ExitInv
<1>1. CASE list' = list
  BY <1>1 DEF ATypeOK, CalledInReverse, Ahead
<1>2. CASE \E h \in Handler \cup {Flush} : list' = Append(list, h)
  <2>1. PICK h \in Handler \cup {Flush} : list' = Append(list, h)
    BY <1>2
  <2>2. /\ list' \in Seq(Handler \cup {Flush}) /\ Len(list') = Len(list) + 1
        /\ \A k \in 1 .. Len(list) : list'[k] = list[k]
    BY <2>1, AppendProperties DEF ATypeOK
  <2>3. ATypeOK'
    BY <2>2 DEF ATypeOK
  <2>4. \A k \in Ahead : k \in Ahead' /\ list'[k] = list[k]
    BY <2>2 DEF ATypeOK, Ahead
  <2>5. CalledInReverse'
    <3>1. SUFFICES ASSUME stage # "main"
                   PROVE  \E n \in 0 .. Len(list') : ran = Reverse(SubSeq(list', i + 1, n)) /\ i <= n
      BY DEF CalledInReverse
    <3>2. PICK n \in 0 .. Len(list) : ran = Reverse(SubSeq(list, i + 1, n)) /\ i <= n
      BY <3>1 DEF CalledInReverse
    <3>3. SubSeq(list', i + 1, n) = SubSeq(list, i + 1, n)
      BY <2>1, SubSeqAppend DEF ATypeOK
    <3>4. n \in 0 .. Len(list')
      BY <2>2 DEF ATypeOK
    <3>5. QED
      BY <3>2, <3>3, <3>4
  <2>6. QED
    BY <2>3, <2>4, <2>5
<1>3. QED
  BY <1>1, <1>2

(* No step of the program, of a handler or of exit breaks the invariant. *)
LEMMA ExitNextInv == ExitInv /\ [ANext]_avars => ExitInv'
<1> SUFFICES ASSUME ExitInv, [ANext]_avars PROVE ExitInv'
  OBVIOUS
<1> USE AtExitAssumption DEF ExitInv
<1>1. ASSUME NEW h \in Handler, AtExitCall(h) PROVE ExitInv'
  <2>1. list' = list \/ list' = Append(list, h)
    BY <1>1 DEF AtExitCall, atexit
  <2>2. /\ ATypeOK' /\ CalledInReverse'
        /\ \A k \in Ahead : k \in Ahead' /\ list'[k] = list[k]
    BY <1>1, <2>1, Registration DEF AtExitCall, Running
  <2>3. PendingOpen' /\ FlushToCome'
    BY <1>1, <2>2 DEF AtExitCall, PendingOpen, FlushToCome
  <2>4. QED
    BY <2>2, <2>3
<1>2. ASSUME NEW s \in File, Fopen(s) PROVE ExitInv'
  <2>1. list' = list \/ list' = Append(list, Flush)
    BY <1>2 DEF Fopen, Register, atexit
  <2>2. /\ ATypeOK' /\ CalledInReverse'
        /\ \A k \in Ahead : k \in Ahead' /\ list'[k] = list[k]
    BY <1>2, <2>1, Registration DEF Fopen, Running
  <2>3. PendingOpen' /\ FlushToCome'
    BY <1>2, <2>2 DEF Fopen, PendingOpen, FlushToCome
  <2>4. QED
    BY <2>2, <2>3
<1>3. ASSUME NEW s \in File \cup {Stdout}, Fput(s) PROVE ExitInv'
  <2>1. list' = list \/ list' = Append(list, Flush)
    BY <1>3 DEF Fput, Register, atexit
  <2>2. /\ ATypeOK' /\ CalledInReverse'
        /\ \A k \in Ahead : k \in Ahead' /\ list'[k] = list[k]
    BY <1>3, <2>1, Registration DEF Fput, Running
  <2>3. PendingOpen'
    BY <1>3 DEF Fput, PendingOpen
  <2>4. FlushToCome'
    <3>1. FlushAhead <=> \E k \in Ahead' : list'[k] = Flush
      BY <1>3 DEF Fput, FlushAhead, Ahead
    <3>2. CASE FlushAhead
      BY <3>1, <3>2 DEF FlushToCome
    <3>3. CASE ~FlushAhead
      <4>1. pending \subseteq late
        BY <2>2, <3>1, <3>3 DEF FlushToCome
      <4>2. late' = late \cup {s} /\ pending' = pending \cup {s}
        BY <1>3, <3>3 DEF Fput
      <4>3. QED
        BY <4>1, <4>2 DEF FlushToCome
    <3>4. QED
      BY <3>2, <3>3
  <2>5. QED
    BY <2>2, <2>3, <2>4
<1>4. ASSUME NEW s \in File, Fclose(s) PROVE ExitInv'
  BY <1>4 DEF Fclose, ATypeOK, PendingOpen, FlushToCome, Ahead, CalledInReverse
<1>5. CASE Exit
  <2>1. ATypeOK' /\ PendingOpen' /\ FlushToCome'
    BY <1>5 DEF Exit, ATypeOK, PendingOpen, FlushToCome, Ahead
  <2>2. Reverse(SubSeq(list, Len(list) + 1, Len(list))) = <<>>
    BY NothingRun DEF ATypeOK
  <2>3. CalledInReverse'
    BY <1>5, <2>2 DEF Exit, ATypeOK, CalledInReverse
  <2>4. QED
    BY <2>1, <2>3
<1>6. CASE Call
  <2>1. /\ stage = "exit" /\ i \in 1 .. Len(list) /\ list[i] \in Handler \cup {Flush}
        /\ i' = i - 1 /\ ran' = Append(ran, list[i]) /\ stage' \in {"exit", "handler"}
        /\ UNCHANGED <<list, root, late>>
    BY <1>6 DEF Call, ATypeOK
  <2>2. ATypeOK'
    BY <2>1, AppendProperties DEF ATypeOK
  <2>3. PendingOpen'
    BY <1>6 DEF Call, PendingOpen
  <2>4. FlushToCome'
    <3>1. CASE list[i] = Flush
      BY <1>6, <3>1 DEF Call, PendingOpen, FlushToCome
    <3>2. CASE list[i] # Flush
      <4>1. pending' = pending
        BY <1>6, <3>2 DEF Call
      <4>2. QED
        BY <2>1, <3>2, <4>1 DEF FlushToCome, Ahead
    <3>3. QED
      BY <3>1, <3>2
  <2>5. CalledInReverse'
    <3>1. PICK n \in 0 .. Len(list) : ran = Reverse(SubSeq(list, i + 1, n)) /\ i <= n
      BY <2>1 DEF CalledInReverse
    <3>2. n \in i .. Len(list)
      BY <2>1, <3>1
    <3>3. ran' = Reverse(SubSeq(list, i, n))
      BY <2>1, <3>1, <3>2, ReverseStep DEF ATypeOK
    <3>4. QED
      BY <2>1, <3>1, <3>2, <3>3 DEF CalledInReverse
  <2>6. QED
    BY <2>2, <2>3, <2>4, <2>5
<1>7. CASE HandlerReturns
  BY <1>7 DEF HandlerReturns, ATypeOK, PendingOpen, FlushToCome, Ahead, CalledInReverse
<1>8. CASE UnderscoreExit
  BY <1>8 DEF UnderscoreExit, ATypeOK, PendingOpen, FlushToCome, Ahead, CalledInReverse
<1>9. CASE UNCHANGED avars
  BY <1>9 DEF avars, ATypeOK, PendingOpen, FlushToCome, Ahead, CalledInReverse
<1>10. QED
  BY <1>1, <1>2, <1>3, <1>4, <1>5, <1>6, <1>7, <1>8, <1>9 DEF ANext

(* So it holds in every reachable state. *)
LEMMA ExitInductive == ASpec => []ExitInv
BY ExitInitInv, ExitNextInv, PTL DEF ASpec

(* At _exit all output has been written but what came when the flush of    *)
(* stdio was behind, and the handlers have been called in reverse order,   *)
(* each once, those registered while exit was under way not at all.        *)
THEOREM ExitIsOrderly == ASpec => []ExitOrderly
<1>1. ExitInv => ExitOrderly
  <2>1. SUFFICES ASSUME ExitInv, stage = "done" PROVE pending \subseteq late
    BY DEF ExitInv, ExitOrderly, FlushedAtExit
  <2>2. i = 0
    BY <2>1 DEF ExitInv, ATypeOK
  <2>3. QED
    BY <2>1, <2>2 DEF ExitInv, FlushToCome, Ahead
<1>2. QED
  BY <1>1, ExitInductive, PTL

=============================================================================
