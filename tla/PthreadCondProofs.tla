-------------------------- MODULE PthreadCondProofs --------------------------
(***************************************************************************)
(* Proofs about PthreadCond, for any number of threads: the pointers of    *)
(* the wait chain implement a queue, and a broadcast reaches everyone who  *)
(* waits.                                                                  *)
(*                                                                         *)
(* The chain is given by pointers, and Nth walks them from wait_chain.  To *)
(* reason about it, a chain is known by the sequence of its threads:       *)
(* IsChain(s) says, element by element, that waitnext and waitprev are     *)
(* those of s, and ChainIs that the walk then finds exactly s.  Each step  *)
(* names the sequence after it.                                            *)
(***************************************************************************)
EXTENDS PthreadCond, FiniteSetTheorems, SequenceTheorems, WellFoundedInduction, NaturalsInduction, TLAPS

(* The i-th node of a chain; wait_chain itself is the first.               *)
Node(s, i) == IF i = 0 THEN Cond ELSE IF i <= Len(s) THEN s[i] ELSE Null

Distinct(s) == s \in Seq(Threads) /\ \A i, j \in 1 .. Len(s) : s[i] = s[j] => i = j

IsChain(s) ==
  /\ Distinct(s)
  /\ \A i \in 0 .. Len(s) : next[Node(s, i)] = Node(s, i + 1)
  /\ \A i \in 1 .. Len(s) : prev[s[i]] = Node(s, i - 1)

Elements(s) == {s[i] : i \in 1 .. Len(s)}

(* The queue that the chain stands for. *)
Queue == [k \in 1 .. Length |-> Nth[k]]

(* A set of numbers has a least one. *)
LEMMA LeastExists ==
  ASSUME NEW T \in SUBSET Nat, T # {}
  PROVE  \E x \in T : \A y \in T : x <= y
<1>1. PICK x \in T : \A y \in T : ~(<<y, x>> \in OpToRel(<, Nat))
  BY NatLessThanWellFounded, WFMin, Zenon
<1>2. ASSUME NEW y \in T PROVE x <= y
  <2>1. x \in Nat /\ y \in Nat
    OBVIOUS
  <2>2. ~(<<y, x>>[1] < <<y, x>>[2])
    BY <1>1, <2>1, Zenon DEF OpToRel
  <2>3. QED
    BY <2>1, <2>2
<1>3. QED
  BY <1>2

(* An interval has so many elements. *)
LEMMA IntervalCount ==
  ASSUME NEW n \in Nat
  PROVE  IsFiniteSet(1 .. n) /\ Cardinality(1 .. n) = n
<1>1. 1 \in Int /\ n \in Int
  OBVIOUS
<1>2. IsFiniteSet(1 .. n) /\ Cardinality(1 .. n) = IF 1 > n THEN 0 ELSE n - 1 + 1
  BY <1>1, FS_Interval, Zenon
<1>3. QED
  BY <1>2

(* No more threads wait than there are. *)
LEMMA ChainFits ==
  ASSUME NEW s, Distinct(s)
  PROVE  Len(s) \in Nat /\ Cardinality(Threads) \in Nat /\ Len(s) <= Cardinality(Threads)
<1>1. Len(s) \in Nat /\ Cardinality(Threads) \in Nat /\ IsFiniteSet(Threads)
  BY PthreadCondAssumption, FS_CardinalityType DEF Distinct
<1>2. IsFiniteSet(1 .. Len(s)) /\ Cardinality(1 .. Len(s)) = Len(s)
  BY <1>1, IntervalCount
<1>3. s \in Injection(1 .. Len(s), Threads)
  <2>1. s \in [1 .. Len(s) -> Threads] /\ DOMAIN s = 1 .. Len(s)
    BY DEF Distinct
  <2>2. \A i, j \in DOMAIN s : s[i] = s[j] => i = j
    BY <2>1 DEF Distinct
  <2>3. QED
    BY <2>1, <2>2, Zenon DEF Injection, IsInjective
<1>4. Cardinality(1 .. Len(s)) <= Cardinality(Threads)
  BY <1>1, <1>3, FS_Injection, Zenon
<1>5. QED
  BY <1>1, <1>2, <1>4

(* The walk along the pointers of a chain.  Nth is the only function that  *)
(* satisfies its recursive definition: a least index where it differed     *)
(* from Node(s, _) would contradict it.                                    *)
LEMMA NthOfChain ==
  ASSUME NEW s, IsChain(s)
  PROVE  \A k \in 0 .. Cardinality(Threads) : Nth[k] = Node(s, k)
<1> DEFINE N == Cardinality(Threads)
           Walk(f) == [k \in 0 .. N |-> IF k = 0 THEN Cond ELSE IF f[k-1] = Null THEN Null ELSE next[f[k-1]]]
           g == [k \in 0 .. N |-> Node(s, k)]
<1>1. Nth = CHOOSE f : f = Walk(f)
  BY DEF Nth
<1>2. N \in Nat /\ Len(s) \in Nat /\ Len(s) <= N
  BY ChainFits DEF IsChain
<1>3. /\ Cond # Null /\ \A i \in 1 .. Len(s) : Node(s, i) # Null
      /\ Node(s, 0) = Cond /\ \A i \in Nat : i > Len(s) => Node(s, i) = Null
  BY <1>2, PthreadCondAssumption DEF IsChain, Distinct, Node
<1>4. \A k \in 0 .. N : k # 0 => Node(s, k) = IF Node(s, k - 1) = Null THEN Null ELSE next[Node(s, k - 1)]
  <2> SUFFICES ASSUME NEW k \in 0 .. N, k # 0
               PROVE  Node(s, k) = IF Node(s, k - 1) = Null THEN Null ELSE next[Node(s, k - 1)]
    OBVIOUS
  <2>1. CASE k <= Len(s) + 1
    <3>1. k - 1 \in 0 .. Len(s) /\ (k - 1) + 1 = k
      BY <1>2, <2>1
    <3>2. next[Node(s, k - 1)] = Node(s, k)
      BY <3>1 DEF IsChain
    <3>3. Node(s, k - 1) # Null
      BY <1>2, <1>3, <3>1
    <3>4. QED
      BY <3>2, <3>3
  <2>2. CASE k > Len(s) + 1
    BY <1>2, <1>3, <2>2
  <2>3. QED
    BY <1>2, <2>1, <2>2
<1>5. g = Walk(g)
  <2>1. \A k \in 0 .. N : k # 0 => k - 1 \in 0 .. N
    BY <1>2
  <2>2. \A k \in 0 .. N : g[k] = IF k = 0 THEN Cond ELSE IF g[k-1] = Null THEN Null ELSE next[g[k-1]]
    BY <1>3, <1>4, <2>1
  <2>3. QED
    BY <2>2
<1> HIDE DEF g
<1>6. Nth = Walk(Nth)
  BY <1>1, <1>5, Zenon
<1>7. /\ Nth[0] = Cond
      /\ \A k \in 0 .. N : k # 0 => Nth[k] = IF Nth[k-1] = Null THEN Null ELSE next[Nth[k-1]]
  <2>1. \A k \in 0 .. N : Nth[k] = IF k = 0 THEN Cond ELSE IF Nth[k-1] = Null THEN Null ELSE next[Nth[k-1]]
    BY <1>6, Zenon
  <2>2. 0 \in 0 .. N
    BY <1>2
  <2>3. QED
    BY <2>1, <2>2
<1> DEFINE T == {k \in 0 .. N : Nth[k] # Node(s, k)}
<1>8. T = {}
  <2> SUFFICES ASSUME T # {} PROVE FALSE
    OBVIOUS
  <2>1. T \in SUBSET Nat
    BY <1>2
  <2> HIDE DEF T
  <2>2. PICK k \in T : \A y \in T : k <= y
    BY <2>1, LeastExists
  <2>3. k \in 0 .. N /\ Nth[k] # Node(s, k)
    BY DEF T
  <2>4. k # 0
    BY <1>3, <1>7, <2>3
  <2>5. k - 1 \in 0 .. N /\ ~(k <= k - 1)
    BY <1>2, <2>3, <2>4
  <2>6. Nth[k-1] = Node(s, k - 1)
    BY <2>2, <2>5 DEF T
  <2>7. QED
    BY <1>4, <1>7, <2>3, <2>4, <2>6
<1>9. QED
  BY <1>8

(* The pointers of a chain stand for its sequence. *)
LEMMA ChainIs ==
  \A s : IsChain(s) => Queue = s /\ Chain = Elements(s)
<1> SUFFICES ASSUME NEW s, IsChain(s) PROVE Queue = s /\ Chain = Elements(s)
  OBVIOUS
<1> DEFINE N == Cardinality(Threads)
<1>1. N \in Nat /\ Len(s) \in Nat /\ Len(s) <= N
  BY ChainFits DEF IsChain
<1>2. \A k \in 1 .. N : Nth[k] = Node(s, k)
  BY <1>1, NthOfChain
<1>3. \A k \in 1 .. N : (k <= Len(s) => Nth[k] = s[k] /\ s[k] # Null) /\ (k > Len(s) => Nth[k] = Null)
  BY <1>1, <1>2, PthreadCondAssumption DEF Node, IsChain, Distinct
<1>4. Length = Len(s)
  <2>1. {k \in 1 .. N : Nth[k] # Null} = 1 .. Len(s)
    BY <1>1, <1>3
  <2>2. QED
    BY <1>1, <2>1, IntervalCount DEF Length
<1>5. Queue = s
  <2>1. s \in Seq(Threads)
    BY DEF IsChain, Distinct
  <2>2. s = [k \in 1 .. Len(s) |-> s[k]]
    BY <2>1
  <2>3. \A k \in 1 .. Len(s) : Nth[k] = s[k]
    BY <1>1, <1>3
  <2>4. QED
    BY <1>4, <2>2, <2>3 DEF Queue
<1>6. Chain = Elements(s)
  BY <1>1, <1>3 DEF Chain, Elements
<1>7. QED
  BY <1>5, <1>6

(* The same after a step. *)
LEMMA ChainIsNext ==
  (\A s : IsChain(s) => Queue = s /\ Chain = Elements(s))'
BY ChainIs, PTL

(* A broadcast that took t out of the chain is not lost: its signal is     *)
(* queued, or p_sig says it came, or t is canceled.  Before p_sig is reset *)
(* only the queued signal counts.                                          *)
Delivered(t) ==
  Released(t) =>
    /\ pc[t] = "enqueued" => pending[t] > 0
    /\ pc[t] \in Suspension => psig[t] \/ pending[t] > 0 \/ canceled[t]

(* The inductive invariant. *)
CondInv ==
  /\ TypeOK /\ IsChain(Queue)
  /\ \A t \in Threads : t \in Elements(Queue) <=> pc[t] \in Waiting /\ prev[t] # t
  /\ \A t \in Threads : t \notin Elements(Queue) => next[t] = Null
  /\ \A t \in Threads : Delivered(t)

(* The nodes of a chain are different, and the last is followed by Null. *)
LEMMA NodeFacts ==
  ASSUME NEW s, Distinct(s)
  PROVE  /\ s \in Seq(Threads) /\ Len(s) \in Nat
         /\ \A i \in 0 .. Len(s) : Node(s, i) \in Nodes /\ Node(s, i) # Null
         /\ \A i, j \in 0 .. Len(s) : Node(s, i) = Node(s, j) => i = j
         /\ \A i \in 1 .. Len(s) : Node(s, i) = s[i] /\ s[i] \in Threads
         /\ Node(s, 0) = Cond /\ \A i \in Nat : i > Len(s) => Node(s, i) = Null
<1>1. s \in Seq(Threads) /\ Len(s) \in Nat /\ \A i \in 1 .. Len(s) : s[i] \in Threads
  BY DEF Distinct
<1>2. \A i \in 1 .. Len(s) : Node(s, i) = s[i]
  BY <1>1 DEF Node
<1>3. Node(s, 0) = Cond /\ \A i \in Nat : i > Len(s) => Node(s, i) = Null
  BY <1>1 DEF Node
<1>4. \A i \in 0 .. Len(s) : Node(s, i) \in Nodes /\ Node(s, i) # Null
  BY <1>1, <1>2, <1>3, PthreadCondAssumption DEF Nodes
<1>5. \A i, j \in 0 .. Len(s) : Node(s, i) = Node(s, j) => i = j
  BY <1>1, <1>2, <1>3, PthreadCondAssumption DEF Distinct
<1>6. QED
  BY <1>1, <1>2, <1>3, <1>4, <1>5

(* A sequence without its i-th element. *)
Without(s, i) == SubSeq(s, 1, i - 1) \o SubSeq(s, i + 1, Len(s))

LEMMA Removed ==
  ASSUME NEW s, Distinct(s), NEW i \in 1 .. Len(s)
  PROVE  LET r == Without(s, i)
         IN  /\ Distinct(r) /\ Len(r) = Len(s) - 1 /\ Elements(r) = Elements(s) \ {s[i]}
             /\ \A k \in 0 .. Len(s) : Node(r, k) = IF k < i THEN Node(s, k) ELSE Node(s, k + 1)
<1> DEFINE r == Without(s, i)
           a == SubSeq(s, 1, i - 1)
           b == SubSeq(s, i + 1, Len(s))
<1>1. s \in Seq(Threads) /\ Len(s) \in Nat /\ i \in Nat
  BY DEF Distinct
<1>2. /\ a \in Seq(Threads) /\ Len(a) = i - 1 /\ \A k \in 1 .. i - 1 : a[k] = s[k]
  BY <1>1
<1>3. /\ b \in Seq(Threads) /\ Len(b) = Len(s) - i /\ \A k \in 1 .. Len(s) - i : b[k] = s[k + i]
  BY <1>1
<1>4. r = a \o b
  BY DEF Without
<1> HIDE DEF r, a, b
<1>5. r \in Seq(Threads) /\ Len(r) = Len(s) - 1
  <2>1. r \in Seq(Threads) /\ Len(r) = Len(a) + Len(b)
    BY <1>2, <1>3, <1>4, ConcatProperties, Zenon
  <2>2. QED
    BY <1>1, <1>2, <1>3, <2>1
<1>6. \A k \in 1 .. Len(s) - 1 : r[k] = IF k < i THEN s[k] ELSE s[k + 1]
  <2> SUFFICES ASSUME NEW k \in 1 .. Len(s) - 1 PROVE r[k] = IF k < i THEN s[k] ELSE s[k + 1]
    OBVIOUS
  <2>1. CASE k < i
    BY <1>1, <1>2, <1>3, <1>4, <2>1
  <2>2. CASE ~(k < i)
    <3>1. k - (i - 1) \in 1 .. Len(s) - i /\ (k - (i - 1)) + i = k + 1 /\ k > Len(a)
      BY <1>1, <1>2, <2>2
    <3>2. r[k] = b[k - (i - 1)]
      BY <1>1, <1>2, <1>3, <1>4, <2>2, <3>1
    <3>3. QED
      BY <1>3, <2>2, <3>1, <3>2
  <2>3. QED
    BY <2>1, <2>2
<1>7. Distinct(r)
  <2> SUFFICES ASSUME NEW k \in 1 .. Len(s) - 1, NEW l \in 1 .. Len(s) - 1, r[k] = r[l] PROVE k = l
    BY <1>5 DEF Distinct
  <2>1. (IF k < i THEN k ELSE k + 1) \in 1 .. Len(s) /\ (IF l < i THEN l ELSE l + 1) \in 1 .. Len(s)
    BY <1>1
  <2>2. (IF k < i THEN k ELSE k + 1) = (IF l < i THEN l ELSE l + 1)
    BY <1>6, <2>1 DEF Distinct
  <2>3. QED
    BY <1>1, <2>2
<1>8. Elements(r) = Elements(s) \ {s[i]}
  <2>1. \A k \in 1 .. Len(s) - 1 : r[k] \in Elements(s) /\ r[k] # s[i]
    <3> SUFFICES ASSUME NEW k \in 1 .. Len(s) - 1 PROVE r[k] \in Elements(s) /\ r[k] # s[i]
      OBVIOUS
    <3>1. PICK l \in 1 .. Len(s) : l # i /\ r[k] = s[l]
      BY <1>1, <1>6
    <3>2. QED
      BY <3>1 DEF Elements, Distinct
  <2>2. \A l \in 1 .. Len(s) : l # i => s[l] \in Elements(r)
    <3> SUFFICES ASSUME NEW l \in 1 .. Len(s), l # i PROVE s[l] \in Elements(r)
      OBVIOUS
    <3>1. PICK k \in 1 .. Len(s) - 1 : l = IF k < i THEN k ELSE k + 1
      <4>1. CASE l < i
        <5>1. l \in 1 .. Len(s) - 1
          BY <1>1, <4>1
        <5>2. QED
          BY <4>1, <5>1
      <4>2. CASE ~(l < i)
        <5>1. l - 1 \in 1 .. Len(s) - 1 /\ ~(l - 1 < i) /\ (l - 1) + 1 = l
          BY <1>1, <4>2
        <5>2. QED
          BY <5>1
      <4>3. QED
        BY <4>1, <4>2
    <3>2. r[k] = s[l]
      BY <1>6, <3>1
    <3>3. QED
      BY <1>5, <3>2 DEF Elements
  <2>3. QED
    BY <1>5, <2>1, <2>2 DEF Elements
<1>9. ASSUME NEW k \in 0 .. Len(s) PROVE Node(r, k) = IF k < i THEN Node(s, k) ELSE Node(s, k + 1)
  <2>1. CASE k = 0
    BY <1>1, <2>1 DEF Node
  <2>2. CASE k = Len(s)
    BY <1>1, <1>5, <2>2 DEF Node
  <2>3. CASE k \in 1 .. Len(s) - 1
    BY <1>1, <1>5, <1>6, <2>3 DEF Node
  <2>4. QED
    BY <1>1, <2>1, <2>2, <2>3
<1>10. QED
  BY <1>5, <1>7, <1>8, <1>9 DEF r

(* The pointers after a step are a chain: it is the queue. *)
LEMMA NewChain ==
  ASSUME NEW CONSTANT r, Distinct(r),
         \A i \in 0 .. Len(r) : next'[Node(r, i)] = Node(r, i + 1),
         \A i \in 1 .. Len(r) : prev'[r[i]] = Node(r, i - 1)
  PROVE  Queue' = r /\ IsChain(Queue)' /\ Chain' = Elements(r)
<1>1. IsChain(r)'
  BY DEF IsChain
<1>2. Queue' = r /\ Chain' = Elements(r)
  BY <1>1, ChainIsNext
<1>3. QED
  BY <1>1, <1>2 DEF IsChain

(* What the chain is before a step. *)
LEMMA OldChain ==
  ASSUME CondInv
  PROVE  \E s : /\ Queue = s /\ Chain = Elements(s) /\ Distinct(s)
                /\ \A i \in 0 .. Len(s) : next[Node(s, i)] = Node(s, i + 1)
                /\ \A i \in 1 .. Len(s) : prev[s[i]] = Node(s, i - 1)
                /\ \A t \in Threads : t \in Elements(s) <=> pc[t] \in Waiting /\ prev[t] # t
                /\ \A t \in Threads : t \notin Elements(s) => next[t] = Null
<1>1. PICK s : s = Queue
  OBVIOUS
<1>2. IsChain(s)
  BY <1>1 DEF CondInv
<1>3. QED
  BY <1>1, <1>2, ChainIs DEF CondInv, IsChain

(* A step that leaves the pointers alone. *)
LEMMA QuietStep ==
  ASSUME CondInv, TypeOK', UNCHANGED <<next, prev>>,
         \A t \in Threads : pc'[t] \in Waiting <=> pc[t] \in Waiting,
         \A t \in Threads : Delivered(t)'
  PROVE  CondInv' /\ Queue' = Queue
<1>1. PICK s : /\ Queue = s /\ Chain = Elements(s) /\ Distinct(s)
               /\ \A i \in 0 .. Len(s) : next[Node(s, i)] = Node(s, i + 1)
               /\ \A i \in 1 .. Len(s) : prev[s[i]] = Node(s, i - 1)
               /\ \A t \in Threads : t \in Elements(s) <=> pc[t] \in Waiting /\ prev[t] # t
               /\ \A t \in Threads : t \notin Elements(s) => next[t] = Null
  BY OldChain
<1>2. Queue' = s /\ IsChain(Queue)'
  BY <1>1, NewChain
<1>3. \A t \in Threads : t \in Elements(Queue') <=> pc'[t] \in Waiting /\ prev'[t] # t
  BY <1>1, <1>2
<1>4. \A t \in Threads : t \notin Elements(Queue') => next'[t] = Null
  BY <1>1, <1>2
<1>5. QED
  BY <1>1, <1>2, <1>3, <1>4 DEF CondInv

-----------------------------------------------------------------------------
(* A thread enters at the end of the chain. *)
LEMMA EnqueueKeeps ==
  ASSUME CondInv, NEW t \in Threads, NEW till \in BOOLEAN, Enqueue(t, till)
  PROVE  CondInv' /\ Abstract!Enter(t)
<1>1. PICK s : /\ Queue = s /\ Chain = Elements(s) /\ Distinct(s)
               /\ \A i \in 0 .. Len(s) : next[Node(s, i)] = Node(s, i + 1)
               /\ \A i \in 1 .. Len(s) : prev[s[i]] = Node(s, i - 1)
               /\ \A u \in Threads : u \in Elements(s) <=> pc[u] \in Waiting /\ prev[u] # u
               /\ \A u \in Threads : u \notin Elements(s) => next[u] = Null
  BY OldChain
<1>2. /\ s \in Seq(Threads) /\ Len(s) \in Nat
      /\ \A i \in 0 .. Len(s) : Node(s, i) \in Nodes /\ Node(s, i) # Null
      /\ \A i, j \in 0 .. Len(s) : Node(s, i) = Node(s, j) => i = j
      /\ \A i \in 1 .. Len(s) : Node(s, i) = s[i] /\ s[i] \in Threads
      /\ Node(s, 0) = Cond /\ \A i \in Nat : i > Len(s) => Node(s, i) = Null
  BY <1>1, NodeFacts
<1>3. TypeOK /\ \A u \in Threads : Delivered(u)
  BY DEF CondInv
<1>4. t \notin Elements(s) /\ \A i \in 1 .. Len(s) : s[i] # t
  BY <1>1 DEF Enqueue, Waiting, Suspension, Elements
<1>5. PICK last \in Chain \cup {Cond} :
        /\ next[last] = Null
        /\ next' = [next EXCEPT ![t] = Null, ![last] = t]
        /\ prev' = [prev EXCEPT ![t] = last]
  BY DEF Enqueue
<1>6. last = Node(s, Len(s))
  <2>1. PICK i \in 0 .. Len(s) : last = Node(s, i)
    BY <1>1, <1>2 DEF Elements
  <2>2. i = Len(s)
    <3>1. i + 1 \in 0 .. Len(s) \/ i = Len(s)
      BY <1>2
    <3>2. QED
      BY <1>1, <1>2, <1>5, <2>1, <3>1
  <2>3. QED
    BY <2>1, <2>2
<1> DEFINE r == Append(s, t)
<1>7. r \in Seq(Threads) /\ Len(r) = Len(s) + 1 /\ r[Len(s) + 1] = t /\ \A i \in 1 .. Len(s) : r[i] = s[i]
  BY <1>2
<1> HIDE DEF r
<1>8. /\ \A i \in 0 .. Len(s) : Node(r, i) = Node(s, i)
      /\ Node(r, Len(s) + 1) = t /\ Node(r, Len(s) + 2) = Null
  BY <1>2, <1>7 DEF Node
<1>9. Distinct(r)
  <2> SUFFICES ASSUME NEW i \in 1 .. Len(s) + 1, NEW j \in 1 .. Len(s) + 1, r[i] = r[j] PROVE i = j
    BY <1>7 DEF Distinct
  <2>1. (i \in 1 .. Len(s) \/ i = Len(s) + 1) /\ (j \in 1 .. Len(s) \/ j = Len(s) + 1)
    BY <1>2
  <2>2. QED
    BY <1>1, <1>4, <1>7, <2>1 DEF Distinct
<1>10. \A x \in Nodes : next'[x] = IF x = last THEN t ELSE IF x = t THEN Null ELSE next[x]
  BY <1>3, <1>5 DEF TypeOK, Nodes
<1>11. \A u \in Threads : prev'[u] = IF u = t THEN last ELSE prev[u]
  BY <1>3, <1>5 DEF TypeOK
<1>12. t \in Nodes /\ t # Cond /\ \A i \in 0 .. Len(s) : Node(s, i) # t
  BY <1>2, <1>4, PthreadCondAssumption DEF Nodes
<1>13. ASSUME NEW i \in 0 .. Len(s) + 1 PROVE next'[Node(r, i)] = Node(r, i + 1)
  <2>1. CASE i = Len(s) + 1
    <3>1. i + 1 = Len(s) + 2 /\ t # last
      BY <1>2, <1>6, <1>12, <2>1
    <3>2. QED
      BY <1>8, <1>10, <1>12, <2>1, <3>1
  <2>2. CASE i = Len(s)
    <3>1. i \in 0 .. Len(s)
      BY <1>2, <2>2
    <3>2. QED
      BY <1>2, <1>6, <1>8, <1>10, <2>2, <3>1
  <2>3. CASE i \in 0 .. Len(s) - 1
    <3>1. i \in 0 .. Len(s) /\ i + 1 \in 0 .. Len(s) /\ i # Len(s) /\ Len(s) \in 0 .. Len(s)
      BY <1>2, <2>3
    <3>2. Node(s, i) # last /\ Node(s, i) # t
      BY <1>2, <1>6, <1>12, <3>1
    <3>3. QED
      BY <1>1, <1>2, <1>8, <1>10, <3>1, <3>2
  <2>4. QED
    BY <1>2, <2>1, <2>2, <2>3
<1>14. ASSUME NEW i \in 1 .. Len(s) + 1 PROVE prev'[r[i]] = Node(r, i - 1)
  <2>1. CASE i = Len(s) + 1
    <3>1. i - 1 = Len(s) /\ Len(s) \in 0 .. Len(s)
      BY <1>2, <2>1
    <3>2. QED
      BY <1>6, <1>7, <1>8, <1>11, <2>1, <3>1
  <2>2. CASE i \in 1 .. Len(s)
    <3>1. i - 1 \in 0 .. Len(s)
      BY <1>2, <2>2
    <3>2. r[i] = s[i] /\ s[i] \in Threads /\ s[i] # t
      BY <1>2, <1>4, <1>7, <2>2
    <3>3. prev'[s[i]] = prev[s[i]] /\ prev[s[i]] = Node(s, i - 1)
      BY <1>1, <1>11, <2>2, <3>2
    <3>4. QED
      BY <1>8, <3>1, <3>2, <3>3
  <2>3. QED
    BY <1>2, <2>1, <2>2
<1>15. Queue' = r /\ IsChain(Queue)'
  BY <1>7, <1>9, <1>13, <1>14, NewChain
<1>16. Elements(r) = Elements(s) \cup {t}
  <2>1. \A i \in 1 .. Len(s) + 1 : r[i] \in Elements(s) \cup {t}
    BY <1>2, <1>7 DEF Elements
  <2>2. \A i \in 1 .. Len(s) : s[i] \in Elements(r)
    BY <1>2, <1>7 DEF Elements
  <2>3. t \in Elements(r)
    BY <1>2, <1>7 DEF Elements
  <2>4. QED
    BY <1>7, <2>1, <2>2, <2>3 DEF Elements
<1>17. \A u \in Threads : pc'[u] = IF u = t THEN "enqueued" ELSE pc[u]
  BY <1>3 DEF Enqueue, Goto, TypeOK
<1>18. last \in Nodes /\ last # t
  BY <1>2, <1>6, <1>12
<1>19. \A u \in Threads : u \in Elements(r) <=> pc'[u] \in Waiting /\ prev'[u] # u
  BY <1>1, <1>11, <1>16, <1>17, <1>18 DEF Waiting
<1>20. \A u \in Threads : u \notin Elements(r) => next'[u] = Null
  <2>1. \A u \in Threads : u \notin Elements(r) => u \in Nodes /\ u # last
    BY <1>1, <1>2, <1>5, <1>16, PthreadCondAssumption DEF Nodes
  <2>2. QED
    BY <1>1, <1>10, <1>16, <2>1
<1>21. TypeOK'
  <2>1. next' \in [Nodes -> Threads \cup {Null}] /\ prev' \in [Threads -> Nodes \cup {Null}]
    BY <1>3, <1>5, <1>18 DEF TypeOK
  <2>2. timed' \in [Threads -> BOOLEAN] /\ pc' \in [Threads -> {"out", "in", "exit", "gone"} \cup Waiting]
    BY <1>3 DEF TypeOK, Enqueue, Goto, Waiting
  <2>3. QED
    BY <1>3, <2>1, <2>2 DEF TypeOK, Enqueue
<1>22. \A u \in Threads : Delivered(u)'
  BY <1>3, <1>11, <1>17, <1>18 DEF Delivered, Released, Enqueue
<1>23. CondInv'
  BY <1>15, <1>19, <1>20, <1>21, <1>22 DEF CondInv
<1>24. Abstract!Enter(t)
  <2>1. \A i \in DOMAIN s : s[i] # t
    BY <1>2, <1>4
  <2>2. QED
    BY <1>1, <1>15, <2>1 DEF Abstract!Enter, Queue, r
<1>25. QED
  BY <1>23, <1>24

(* A thread leaves the chain from wherever it is. *)
LEMMA UnlinkKeeps ==
  ASSUME CondInv, NEW t \in Threads, Unlink(t)
  PROVE  CondInv' /\ (Queue' = Queue \/ Abstract!Leave(t))
<1>1. PICK s : /\ Queue = s /\ Chain = Elements(s) /\ Distinct(s)
               /\ \A i \in 0 .. Len(s) : next[Node(s, i)] = Node(s, i + 1)
               /\ \A i \in 1 .. Len(s) : prev[s[i]] = Node(s, i - 1)
               /\ \A u \in Threads : u \in Elements(s) <=> pc[u] \in Waiting /\ prev[u] # u
               /\ \A u \in Threads : u \notin Elements(s) => next[u] = Null
  BY OldChain
<1>2. /\ s \in Seq(Threads) /\ Len(s) \in Nat
      /\ \A i \in 0 .. Len(s) : Node(s, i) \in Nodes /\ Node(s, i) # Null
      /\ \A i, j \in 0 .. Len(s) : Node(s, i) = Node(s, j) => i = j
      /\ \A i \in 1 .. Len(s) : Node(s, i) = s[i] /\ s[i] \in Threads
      /\ Node(s, 0) = Cond /\ \A i \in Nat : i > Len(s) => Node(s, i) = Null
  BY <1>1, NodeFacts
<1>3. TypeOK /\ \A u \in Threads : Delivered(u)
  BY DEF CondInv
<1>4. /\ \A u \in Threads : pc'[u] = IF u = t THEN (IF canceled[t] THEN "exit" ELSE "in") ELSE pc[u]
      /\ UNCHANGED <<pending, psig, canceled>>
  BY <1>3 DEF Unlink, WaitReturns, Goto, TypeOK
<1>5. pc[t] = "unlink" /\ pc[t] \in Waiting /\ pc'[t] \notin Waiting
  BY <1>4 DEF Unlink, Waiting, Suspension
<1>6. \A x \in Nodes : next'[x] = IF x = t THEN Null ELSE IF x = prev[t] THEN next[t] ELSE next[x]
  BY <1>3 DEF Unlink, TypeOK, Nodes
<1>7. \A u \in Threads : prev'[u] = IF u = t THEN Null ELSE IF u = next[t] THEN prev[t] ELSE prev[u]
  BY DEF Unlink
<1>8. TypeOK'
  <2>1. next' \in [Nodes -> Threads \cup {Null}]
    BY <1>3 DEF TypeOK, Unlink, Nodes
  <2>2. prev' \in [Threads -> Nodes \cup {Null}]
    BY <1>3 DEF TypeOK, Unlink
  <2>3. timed' \in [Threads -> BOOLEAN] /\ pc' \in [Threads -> {"out", "in", "exit", "gone"} \cup Waiting]
    BY <1>3 DEF TypeOK, Unlink, WaitReturns, Goto
  <2>4. QED
    BY <1>3, <2>1, <2>2, <2>3 DEF TypeOK, Unlink, WaitReturns
<1>9. t \in Nodes /\ t # Null /\ t # Cond /\ Null \notin Nodes
  BY PthreadCondAssumption DEF Nodes
<1>10. CASE t \notin Elements(s)
  <2>1. prev[t] = t /\ next[t] = Null
    BY <1>1, <1>5, <1>10
  <2>2. \A x \in Nodes : next'[x] = next[x]
    BY <1>6, <2>1
  <2>3. \A u \in Threads : prev'[u] = IF u = t THEN Null ELSE prev[u]
    BY <1>7, <1>9, <2>1, PthreadCondAssumption
  <2>4. \A i \in 0 .. Len(s) : next'[Node(s, i)] = Node(s, i + 1)
    BY <1>1, <1>2, <2>2
  <2>5. \A i \in 1 .. Len(s) : prev'[s[i]] = Node(s, i - 1)
    BY <1>1, <1>2, <1>10, <2>3 DEF Elements
  <2>6. Queue' = s /\ IsChain(Queue)'
    BY <1>1, <2>4, <2>5, NewChain
  <2>7. \A u \in Threads : u \in Elements(s) <=> pc'[u] \in Waiting /\ prev'[u] # u
    BY <1>1, <1>4, <1>5, <1>10, <2>3
  <2>8. \A u \in Threads : u \notin Elements(s) => next'[u] = Null
    BY <1>1, <2>2 DEF Nodes
  <2>9. \A u \in Threads : Delivered(u)'
    BY <1>3, <1>4, <1>5, <2>3 DEF Delivered, Released, Suspension
  <2>10. QED
    BY <1>1, <1>8, <2>6, <2>7, <2>8, <2>9 DEF CondInv
<1>11. CASE t \in Elements(s)
  <2>1. PICK i \in 1 .. Len(s) : t = s[i]
    BY <1>11 DEF Elements
  <2>2. i \in 0 .. Len(s) /\ i - 1 \in 0 .. Len(s) /\ i # i - 1 /\ i + 1 # i - 1 /\ i + 1 # i
    BY <1>2
  <2>3. prev[t] = Node(s, i - 1) /\ next[t] = Node(s, i + 1) /\ t = Node(s, i) /\ prev[t] # t /\ prev[t] \in Nodes
    BY <1>1, <1>2, <2>1, <2>2
  <2> DEFINE r == Without(s, i)
  <2>4. /\ Distinct(r) /\ Len(r) = Len(s) - 1 /\ Elements(r) = Elements(s) \ {s[i]}
        /\ \A k \in 0 .. Len(s) : Node(r, k) = IF k < i THEN Node(s, k) ELSE Node(s, k + 1)
    BY <1>1, Removed
  <2> HIDE DEF r
  <2>5. ASSUME NEW k \in 0 .. Len(r) PROVE next'[Node(r, k)] = Node(r, k + 1)
    <3>1. k \in 0 .. Len(s) /\ k + 1 \in 0 .. Len(s)
      BY <1>2, <2>4
    <3>2. CASE k < i - 1
      <4>1. k # i /\ k # i - 1 /\ k < i /\ k + 1 < i
        BY <1>2, <3>1, <3>2
      <4>2. Node(s, k) # t /\ Node(s, k) # prev[t]
        BY <1>2, <2>2, <2>3, <3>1, <4>1
      <4>3. next'[Node(s, k)] = Node(s, k + 1)
        BY <1>1, <1>2, <1>6, <3>1, <4>2
      <4>4. QED
        BY <2>4, <3>1, <4>1, <4>3
    <3>3. CASE k = i - 1
      <4>1. k < i /\ ~(k + 1 < i) /\ (k + 1) + 1 = i + 1
        BY <1>2, <3>3
      <4>2. Node(r, k) = prev[t] /\ Node(r, k + 1) = next[t]
        BY <2>3, <2>4, <3>1, <3>3, <4>1
      <4>3. QED
        BY <1>6, <2>3, <4>2
    <3>4. CASE k >= i
      <4>1. ~(k < i) /\ ~(k + 1 < i) /\ k + 1 # i /\ k + 1 # i - 1
        BY <1>2, <3>1, <3>4
      <4>2. Node(s, k + 1) # t /\ Node(s, k + 1) # prev[t]
        BY <1>2, <2>2, <2>3, <3>1, <4>1
      <4>3. next'[Node(s, k + 1)] = Node(s, (k + 1) + 1)
        BY <1>1, <1>2, <1>6, <3>1, <4>2
      <4>4. QED
        BY <2>4, <3>1, <4>1, <4>3
    <3>5. QED
      BY <1>2, <3>1, <3>2, <3>3, <3>4
  <2>6. ASSUME NEW k \in 1 .. Len(r) PROVE prev'[r[k]] = Node(r, k - 1)
    <3>1. k \in 0 .. Len(s) /\ k + 1 \in 1 .. Len(s) /\ k \in 1 .. Len(s) /\ k - 1 \in 0 .. Len(s) /\ k \in 0 .. Len(r)
      BY <1>2, <2>4
    <3>2. r[k] = Node(r, k)
      BY <2>4, NodeFacts
    <3>3. CASE k < i
      <4>1. k # i /\ k # i + 1 /\ k - 1 < i
        BY <1>2, <3>1, <3>3
      <4>2. r[k] = s[k] /\ s[k] \in Threads /\ Node(s, k) = s[k]
        BY <1>2, <2>4, <3>1, <3>2, <3>3
      <4>3. s[k] # t /\ s[k] # next[t]
        <5>1. s[k] # t
          BY <1>1, <2>1, <3>1, <4>1 DEF Distinct
        <5>2. i + 1 \in 0 .. Len(s) \/ Node(s, i + 1) = Null
          BY <1>2, <2>2
        <5>3. QED
          BY <1>2, <2>3, <3>1, <4>1, <4>2, <5>1, <5>2
      <4>4. prev'[s[k]] = Node(s, k - 1)
        BY <1>1, <1>7, <3>1, <4>2, <4>3
      <4>5. QED
        BY <2>4, <3>1, <4>1, <4>2, <4>4
    <3>4. CASE k = i
      <4>1. ~(k < i) /\ k - 1 < i /\ i + 1 # i
        BY <1>2, <3>4
      <4>2. r[k] = s[i + 1] /\ s[i + 1] \in Threads /\ s[i + 1] = Node(s, i + 1)
        BY <1>2, <2>4, <3>1, <3>2, <3>4, <4>1
      <4>3. s[i + 1] # t /\ s[i + 1] = next[t]
        BY <1>1, <2>1, <2>3, <3>1, <3>4, <4>1, <4>2 DEF Distinct
      <4>4. QED
        BY <1>7, <2>3, <2>4, <3>1, <3>4, <4>1, <4>2, <4>3
    <3>5. CASE k > i
      <4>1. ~(k < i) /\ ~(k - 1 < i) /\ k + 1 # i /\ k + 1 # i + 1 /\ (k - 1) + 1 = k /\ (k + 1) - 1 = k /\ k + 1 \in 0 .. Len(s)
        BY <1>2, <3>1, <3>5
      <4>2. r[k] = s[k + 1] /\ s[k + 1] \in Threads /\ s[k + 1] = Node(s, k + 1)
        BY <1>2, <2>4, <3>1, <3>2, <4>1
      <4>3. s[k + 1] # t /\ s[k + 1] # next[t]
        <5>1. s[k + 1] # t
          BY <1>1, <2>1, <3>1, <4>1 DEF Distinct
        <5>2. i + 1 \in 0 .. Len(s) \/ Node(s, i + 1) = Null
          BY <1>2, <2>2
        <5>3. QED
          BY <1>2, <2>3, <4>1, <4>2, <5>1, <5>2
      <4>4. prev'[s[k + 1]] = Node(s, k)
        BY <1>1, <1>7, <3>1, <4>1, <4>2, <4>3
      <4>5. Node(r, k - 1) = Node(s, k)
        BY <2>4, <3>1, <4>1
      <4>6. QED
        BY <4>2, <4>4, <4>5
    <3>6. QED
      BY <1>2, <3>1, <3>3, <3>4, <3>5
  <2>7. Queue' = r /\ IsChain(Queue)'
    BY <2>4, <2>5, <2>6, NewChain
  <2>8. ASSUME NEW u \in Threads, u = next[t] PROVE u \in Elements(s) /\ prev[t] # u /\ u # t
    <3>1. i + 1 \in 1 .. Len(s)
      BY <1>2, <2>3, <2>8, PthreadCondAssumption
    <3>2. u = s[i + 1] /\ i + 1 \in 0 .. Len(s)
      BY <1>2, <2>3, <2>8, <3>1
    <3>3. prev[t] # u /\ u # t
      BY <1>2, <2>2, <2>3, <2>8, <3>2
    <3>4. QED
      BY <3>1, <3>2, <3>3 DEF Elements
  <2>9. \A u \in Threads : u \in Elements(r) <=> pc'[u] \in Waiting /\ prev'[u] # u
    BY <1>1, <1>4, <1>5, <1>7, <2>1, <2>4, <2>8
  <2>10. \A u \in Threads : u \notin Elements(r) => next'[u] = Null
    <3> SUFFICES ASSUME NEW u \in Threads, u \notin Elements(r), u # t PROVE next'[u] = Null
      BY <1>6, <1>9
    <3>1. u \in Nodes /\ u \notin Elements(s) /\ next[u] = Null
      BY <1>1, <2>1, <2>4 DEF Nodes
    <3>2. u # prev[t]
      <4>1. prev[t] = Cond \/ prev[t] \in Elements(s)
        <5>1. i - 1 = 0 \/ i - 1 \in 1 .. Len(s)
          BY <1>2
        <5>2. QED
          BY <1>2, <2>3, <5>1 DEF Elements
      <4>2. QED
        BY <3>1, <4>1, PthreadCondAssumption
    <3>3. QED
      BY <1>6, <3>1, <3>2
  <2>11. \A u \in Threads : Delivered(u)'
    BY <1>1, <1>3, <1>4, <1>5, <1>7, <2>8 DEF Delivered, Released, Suspension
  <2>12. CondInv'
    BY <1>8, <2>7, <2>9, <2>10, <2>11 DEF CondInv
  <2>13. Abstract!Leave(t)
    <3>1. i \in DOMAIN s
      BY <1>2
    <3>2. QED
      BY <1>1, <2>1, <2>7, <3>1 DEF Abstract!Leave, Abstract!RemoveAt, Queue, r, Without
  <2>14. QED
    BY <2>12, <2>13
<1>12. QED
  BY <1>10, <1>11

(* What a restart does to the threads, and that it loses nothing. *)
LEMMA RestartKeeps ==
  ASSUME CondInv, NEW S \in SUBSET Threads, Restart(S), UNCHANGED <<timed, canceled>>
  PROVE  /\ pending' \in [Threads -> 0 .. MaxPending] /\ psig' \in [Threads -> BOOLEAN]
         /\ pc' \in [Threads -> {"out", "in", "exit", "gone"} \cup Waiting]
         /\ \A t \in Threads : pc'[t] \in Waiting <=> pc[t] \in Waiting
         /\ \A t \in Threads : Released(t) =>
               /\ pc'[t] = "enqueued" => pending'[t] > 0
               /\ pc'[t] \in Suspension => psig'[t] \/ pending'[t] > 0 \/ canceled[t]
         /\ \A t \in S :
               /\ pc'[t] = "enqueued" => pending'[t] > 0
               /\ pc'[t] \in Suspension => psig'[t] \/ pending'[t] > 0
<1> DEFINE open == {u \in S : timed[u] /\ pc[u] \in Suspension}
<1>1. TypeOK /\ \A t \in Threads : Delivered(t)
  BY DEF CondInv
<1>2. /\ \A u \in S \ open : pending[u] < MaxPending
      /\ psig' = [u \in Threads |-> psig[u] \/ (u \in open /\ pc[u] # "asleep")]
      /\ pc' = [u \in Threads |-> IF u \in open /\ pc[u] = "asleep" THEN "relock" ELSE pc[u]]
      /\ pending' = [u \in Threads |-> IF u \in S \ open THEN pending[u] + 1 ELSE pending[u]]
  BY DEF Restart
<1>3. \A u \in open : u \in S /\ pc[u] \in Suspension
  OBVIOUS
<1> HIDE DEF open
<1>4. MaxPending \in Nat /\ \A u \in Threads : pending[u] \in 0 .. MaxPending
  BY <1>1, PthreadCondAssumption DEF TypeOK
<1>5. pending' \in [Threads -> 0 .. MaxPending]
  <2>1. \A u \in Threads : (IF u \in S \ open THEN pending[u] + 1 ELSE pending[u]) \in 0 .. MaxPending
    BY <1>2, <1>4
  <2>2. QED
    BY <1>2, <2>1
<1>6. psig' \in [Threads -> BOOLEAN]
  BY <1>2, Zenon
<1>7. pc' \in [Threads -> {"out", "in", "exit", "gone"} \cup Waiting]
  BY <1>1, <1>2 DEF TypeOK, Waiting
<1>8. \A t \in Threads : pc'[t] \in Waiting <=> pc[t] \in Waiting
  BY <1>2, <1>3 DEF Waiting, Suspension
<1>9. \A t \in Threads : /\ pc'[t] = pc[t] \/ pc'[t] = "relock"
                         /\ pending'[t] >= pending[t] /\ (psig[t] => psig'[t])
                         /\ t \in S \ open => pending'[t] > 0
                         /\ t \in open => psig'[t] \/ pc'[t] = "relock"
  <2>1. \A t \in Threads : pc'[t] = pc[t] \/ pc'[t] = "relock"
    BY <1>2
  <2>2. \A t \in Threads : pending'[t] >= pending[t] /\ (t \in S \ open => pending'[t] > 0)
    BY <1>2, <1>4
  <2>3. \A t \in Threads : (psig[t] => psig'[t]) /\ (t \in open => psig'[t] \/ pc'[t] = "relock")
    BY <1>2, Zenon
  <2>4. QED
    BY <2>1, <2>2, <2>3
<1>10. \A t \in Threads : pending[t] > 0 => pending'[t] > 0
  BY <1>4, <1>5, <1>9
<1>11. \A t \in Threads : Released(t) =>
               /\ pc'[t] = "enqueued" => pending'[t] > 0
               /\ pc'[t] \in Suspension => psig'[t] \/ pending'[t] > 0 \/ canceled[t]
  BY <1>1, <1>9, <1>10 DEF Delivered, Suspension
<1>12. \A t \in S :
               /\ pc'[t] = "enqueued" => pending'[t] > 0
               /\ pc'[t] \in Suspension => psig'[t] \/ pending'[t] > 0
  <2>1. \A t \in open : pc'[t] # "enqueued"
    BY <1>3, <1>9 DEF Suspension
  <2>2. QED
    BY <1>9, <2>1 DEF Suspension
<1>13. QED
  BY <1>5, <1>6, <1>7, <1>8, <1>11, <1>12

(* pthread_cond_signal. *)
LEMMA SignalKeeps ==
  ASSUME CondInv, NEW t \in Threads, Signal(t)
  PROVE  CondInv' /\ Queue' = Queue
<1>1. TypeOK
  BY DEF CondInv
<1>2. next[Cond] \in Threads
  BY <1>1 DEF Signal, TypeOK, Nodes
<1>3. Restart({next[Cond]}) /\ UNCHANGED <<next, prev, holder, timed, canceled>>
  BY DEF Signal
<1>4. /\ pending' \in [Threads -> 0 .. MaxPending] /\ psig' \in [Threads -> BOOLEAN]
      /\ pc' \in [Threads -> {"out", "in", "exit", "gone"} \cup Waiting]
      /\ \A u \in Threads : pc'[u] \in Waiting <=> pc[u] \in Waiting
      /\ \A u \in Threads : Released(u) =>
               /\ pc'[u] = "enqueued" => pending'[u] > 0
               /\ pc'[u] \in Suspension => psig'[u] \/ pending'[u] > 0 \/ canceled[u]
  BY <1>2, <1>3, RestartKeeps
<1>5. TypeOK'
  BY <1>1, <1>3, <1>4 DEF TypeOK
<1>6. \A u \in Threads : Delivered(u)'
  BY <1>3, <1>4 DEF Delivered, Released
<1>7. QED
  BY <1>3, <1>4, <1>5, <1>6, QuietStep

(* pthread_cond_broadcast: the chain is empty, and its threads have        *)
(* waitprev point at their own waitnext.                                   *)
LEMMA BroadcastKeeps ==
  ASSUME CondInv, NEW t \in Threads, Broadcast(t)
  PROVE  CondInv' /\ Abstract!Clear
<1>1. PICK s : /\ Queue = s /\ Chain = Elements(s) /\ Distinct(s)
               /\ \A i \in 0 .. Len(s) : next[Node(s, i)] = Node(s, i + 1)
               /\ \A i \in 1 .. Len(s) : prev[s[i]] = Node(s, i - 1)
               /\ \A u \in Threads : u \in Elements(s) <=> pc[u] \in Waiting /\ prev[u] # u
               /\ \A u \in Threads : u \notin Elements(s) => next[u] = Null
  BY OldChain
<1>2. TypeOK
  BY DEF CondInv
<1>3. Chain \in SUBSET Threads
  BY <1>1, NodeFacts DEF Elements
<1>4. Restart(Chain) /\ UNCHANGED <<holder, timed, canceled>>
  BY DEF Broadcast
<1>5. /\ pending' \in [Threads -> 0 .. MaxPending] /\ psig' \in [Threads -> BOOLEAN]
      /\ pc' \in [Threads -> {"out", "in", "exit", "gone"} \cup Waiting]
      /\ \A u \in Threads : pc'[u] \in Waiting <=> pc[u] \in Waiting
      /\ \A u \in Threads : Released(u) =>
               /\ pc'[u] = "enqueued" => pending'[u] > 0
               /\ pc'[u] \in Suspension => psig'[u] \/ pending'[u] > 0 \/ canceled[u]
      /\ \A u \in Chain :
               /\ pc'[u] = "enqueued" => pending'[u] > 0
               /\ pc'[u] \in Suspension => psig'[u] \/ pending'[u] > 0
  BY <1>3, <1>4, RestartKeeps
<1>6. \A x \in Nodes : next'[x] = IF x \in Chain \cup {Cond} THEN Null ELSE next[x]
  BY DEF Broadcast
<1>7. \A u \in Threads : prev'[u] = IF u \in Chain THEN u ELSE prev[u]
  BY DEF Broadcast
<1>8. TypeOK'
  <2>1. next' \in [Nodes -> Threads \cup {Null}]
    BY <1>2 DEF TypeOK, Broadcast
  <2>2. prev' \in [Threads -> Nodes \cup {Null}]
    BY <1>2 DEF TypeOK, Broadcast, Nodes
  <2>3. QED
    BY <1>2, <1>4, <1>5, <2>1, <2>2 DEF TypeOK
<1>9. Queue' = <<>> /\ IsChain(Queue)'
  <2>1. Distinct(<<>>) /\ Len(<<>>) = 0
    BY DEF Distinct
  <2>2. Node(<<>>, 0) = Cond /\ Node(<<>>, 1) = Null
    BY DEF Node
  <2>3. next'[Cond] = Null
    BY <1>6 DEF Nodes
  <2>4. QED
    BY <2>1, <2>2, <2>3, NewChain
<1>10. Elements(<<>>) = {}
  BY DEF Elements
<1>11. \A u \in Threads : pc'[u] \in Waiting => prev'[u] = u
  BY <1>1, <1>5, <1>7
<1>12. \A u \in Threads : next'[u] = Null
  BY <1>1, <1>6 DEF Nodes
<1>13. \A u \in Threads : Delivered(u)'
  <2> SUFFICES ASSUME NEW u \in Threads, pc'[u] \in Waiting
               PROVE  /\ pc'[u] = "enqueued" => pending'[u] > 0
                      /\ pc'[u] \in Suspension => psig'[u] \/ pending'[u] > 0 \/ canceled'[u]
    BY DEF Delivered, Released
  <2>1. u \in Chain \/ Released(u)
    BY <1>1, <1>5 DEF Released
  <2>2. QED
    BY <1>4, <1>5, <2>1
<1>14. CondInv'
  BY <1>8, <1>9, <1>10, <1>11, <1>12, <1>13 DEF CondInv
<1>15. Abstract!Clear
  BY <1>9 DEF Abstract!Clear, Queue
<1>16. QED
  BY <1>14, <1>15

(* The other steps of a thread leave the pointers alone. *)
QuietAction(t) ==
  \/ MutexLock(t) \/ MutexUnlock(t) \/ Suspend(t) \/ Test(t) \/ Doze(t) \/ Wake(t)
  \/ Timeout(t) \/ Relock(t) \/ Exit(t) \/ Cancel(t)

(* They keep the invariant. *)
LEMMA QuietKeeps ==
  ASSUME CondInv, NEW t \in Threads, QuietAction(t)
  PROVE  CondInv' /\ Queue' = Queue
<1>1. TypeOK /\ \A u \in Threads : Delivered(u)
  BY DEF CondInv
<1>2. UNCHANGED <<next, prev, timed>>
  BY DEF QuietAction, MutexLock, MutexUnlock, Suspend, Test, Doze, Wake, Timeout, Relock, Exit, Cancel
<1>3. \E l \in {"out", "in", "exit", "gone"} \cup Waiting : pc' = [pc EXCEPT ![t] = l] /\ (l \in Waiting <=> pc[t] \in Waiting)
  BY <1>1 DEF TypeOK, QuietAction, MutexLock, MutexUnlock, Suspend, Test, Doze, Wake, Timeout, Relock, Exit, Cancel, Goto, Waiting, Suspension
<1>4. /\ pc' \in [Threads -> {"out", "in", "exit", "gone"} \cup Waiting]
      /\ \A u \in Threads : pc'[u] \in Waiting <=> pc[u] \in Waiting
      /\ \A u \in Threads \ {t} : pc'[u] = pc[u]
  BY <1>1, <1>3 DEF TypeOK
<1>5. MaxPending \in Nat /\ \A u \in Threads : pending[u] \in 0 .. MaxPending
  BY <1>1, PthreadCondAssumption DEF TypeOK
<1>6. /\ pending' \in [Threads -> 0 .. MaxPending]
      /\ \A u \in Threads \ {t} : pending'[u] = pending[u]
  <2>1. \E n \in 0 .. MaxPending : pending' = [pending EXCEPT ![t] = n]
    <3>1. CASE UNCHANGED pending
      BY <1>1, <3>1 DEF TypeOK
    <3>2. CASE pending' = [pending EXCEPT ![t] = 0]
      <4>1. 0 \in 0 .. MaxPending
        BY <1>5
      <4>2. QED
        BY <3>2, <4>1
    <3>3. CASE pending' = [pending EXCEPT ![t] = @ - 1] /\ pending[t] > 0
      <4>1. pending[t] - 1 \in 0 .. MaxPending
        BY <1>5, <3>3
      <4>2. QED
        BY <3>3, <4>1
    <3>4. QED
      BY <3>1, <3>2, <3>3 DEF QuietAction, MutexLock, MutexUnlock, Suspend, Test, Doze, Wake, Timeout, Relock, Exit, Cancel
  <2>2. QED
    BY <1>1, <2>1 DEF TypeOK
<1>7. /\ psig' \in [Threads -> BOOLEAN] /\ canceled' \in [Threads -> BOOLEAN]
      /\ \A u \in Threads \ {t} : psig'[u] = psig[u] /\ canceled'[u] = canceled[u]
  <2>1. /\ \E b \in BOOLEAN : psig' = [psig EXCEPT ![t] = b]
        /\ \E b \in BOOLEAN : canceled' = [canceled EXCEPT ![t] = b]
    BY <1>1, Zenon DEF TypeOK, QuietAction, MutexLock, MutexUnlock, Suspend, Test, Doze, Wake, Timeout, Relock, Exit, Cancel
  <2>2. QED
    BY <1>1, <2>1 DEF TypeOK
<1>8. TypeOK'
  <2>1. holder' \in Threads \cup {Null}
    BY <1>1 DEF TypeOK, QuietAction, MutexLock, MutexUnlock, Suspend, Test, Doze, Wake, Timeout, Relock, Exit, Cancel
  <2>2. QED
    BY <1>1, <1>2, <1>4, <1>6, <1>7, <2>1 DEF TypeOK
<1>9. ASSUME NEW u \in Threads, u # t PROVE Delivered(u)'
  BY <1>1, <1>2, <1>4, <1>6, <1>7, <1>9 DEF Delivered, Released
<1>10. Delivered(t)'
  <2>1. SUFFICES ASSUME Released(t), pc'[t] \in {"enqueued"} \cup Suspension
                 PROVE  /\ pc'[t] = "enqueued" => pending'[t] > 0
                        /\ pc'[t] \in Suspension => psig'[t] \/ pending'[t] > 0 \/ canceled'[t]
    BY <1>2, <1>4 DEF Delivered, Released
  <2>2. Delivered(t)
    BY <1>1
  <2>3. CASE Suspend(t)
    BY <1>1, <1>5, <2>1, <2>2, <2>3 DEF Suspend, TypeOK, Delivered, Suspension, Goto
  <2>4. CASE Test(t)
    BY <1>1, <1>5, <2>1, <2>2, <2>4 DEF Test, TypeOK, Delivered, Suspension, Goto
  <2>5. CASE Doze(t)
    BY <1>1, <2>1, <2>2, <2>5 DEF Doze, TypeOK, Delivered, Suspension, Goto
  <2>6. CASE Cancel(t)
    BY <1>1, <2>1, <2>2, <2>6 DEF Cancel, TypeOK, Delivered, Suspension, Goto
  <2>7. CASE MutexLock(t) \/ MutexUnlock(t) \/ Wake(t) \/ Timeout(t) \/ Relock(t) \/ Exit(t)
    BY <1>1, <2>1, <2>7 DEF MutexLock, MutexUnlock, Wake, Timeout, Relock, Exit, TypeOK, Suspension, Goto
  <2>8. QED
    BY <2>3, <2>4, <2>5, <2>6, <2>7 DEF QuietAction
<1>11. QED
  BY <1>2, <1>4, <1>8, <1>9, <1>10, QuietStep

-----------------------------------------------------------------------------
(* CondInv holds at the start. *)
LEMMA InitCondInv ==
  ASSUME Init
  PROVE  CondInv /\ Queue = <<>>
<1>1. Node(<<>>, 0) = Cond /\ Node(<<>>, 1) = Null /\ Distinct(<<>>) /\ Len(<<>>) = 0 /\ Elements(<<>>) = {}
  BY DEF Node, Distinct, Elements
<1>2. IsChain(<<>>)
  BY <1>1 DEF IsChain, Init, Nodes
<1>3. Queue = <<>>
  BY <1>2, ChainIs
<1>4. TypeOK
  BY PthreadCondAssumption DEF Init, TypeOK, Nodes
<1>5. \A t \in Threads : pc[t] \notin Waiting /\ next[t] = Null /\ Delivered(t)
  BY DEF Init, Waiting, Suspension, Delivered, Released, Nodes
<1>6. QED
  BY <1>1, <1>2, <1>3, <1>4, <1>5 DEF CondInv

(* A step keeps the invariant, and is a step of the queue or leaves it. *)
LEMMA NextKeeps ==
  ASSUME CondInv, [Next]_vars
  PROVE  CondInv' /\ [Abstract!Next]_Queue
<1>1. CASE UNCHANGED vars
  <2>1. TypeOK' /\ UNCHANGED <<next, prev, pc>>
    BY <1>1 DEF vars, CondInv, TypeOK
  <2>2. \A t \in Threads : Delivered(t)'
    BY <1>1 DEF vars, CondInv, Delivered, Released
  <2>3. QED
    BY <2>1, <2>2, QuietStep
<1>2. CASE Next
  <2>1. PICK t \in Threads : \/ QuietAction(t) \/ Signal(t) \/ Broadcast(t) \/ Unlink(t)
                             \/ \E till \in BOOLEAN : Enqueue(t, till)
    BY <1>2 DEF Next, Step, QuietAction
  <2>2. CASE QuietAction(t) \/ Signal(t)
    BY <2>2, QuietKeeps, SignalKeeps
  <2>3. CASE Broadcast(t)
    BY <2>3, BroadcastKeeps DEF Abstract!Next
  <2>4. CASE Unlink(t)
    BY <2>4, UnlinkKeeps DEF Abstract!Next
  <2>5. CASE \E till \in BOOLEAN : Enqueue(t, till)
    BY <2>5, EnqueueKeeps DEF Abstract!Next
  <2>6. QED
    BY <2>1, <2>2, <2>3, <2>4, <2>5
<1>3. QED
  BY <1>1, <1>2

(* CondInv is an invariant. *)
LEMMA CondInvHolds == Spec => []CondInv
BY InitCondInv, NextKeeps, PTL DEF Spec

(* pthread_cond_wait, _signal, _broadcast: for any number of threads the   *)
(* chain is a doubly linked list of exactly the waiting threads that no    *)
(* broadcast took out, and nobody whom one took out sleeps for good.       *)
THEOREM WaitersAreSafe == Spec => []WaitersSafe
<1>1. ASSUME CondInv PROVE WaitersSafe
  <2>1. PICK s : /\ Queue = s /\ Chain = Elements(s) /\ Distinct(s)
                 /\ \A i \in 0 .. Len(s) : next[Node(s, i)] = Node(s, i + 1)
                 /\ \A i \in 1 .. Len(s) : prev[s[i]] = Node(s, i - 1)
                 /\ \A t \in Threads : t \in Elements(s) <=> pc[t] \in Waiting /\ prev[t] # t
                 /\ \A t \in Threads : t \notin Elements(s) => next[t] = Null
    BY <1>1, OldChain
  <2>2. /\ s \in Seq(Threads) /\ Len(s) \in Nat
        /\ \A i \in 1 .. Len(s) : Node(s, i) = s[i] /\ s[i] \in Threads
        /\ Node(s, 0) = Cond /\ \A i \in Nat : i > Len(s) => Node(s, i) = Null
    BY <2>1, NodeFacts
  <2>3. ASSUME NEW x \in Chain \cup {Cond}, next[x] # Null PROVE prev[next[x]] = x
    <3>1. PICK i \in 0 .. Len(s) : x = Node(s, i)
      BY <2>1, <2>2 DEF Elements
    <3>2. next[x] = Node(s, i + 1)
      BY <2>1, <3>1
    <3>3. i + 1 \in 1 .. Len(s) /\ (i + 1) - 1 = i
      BY <2>2, <2>3, <3>2
    <3>4. prev[s[i + 1]] = Node(s, i) /\ Node(s, i + 1) = s[i + 1]
      BY <2>1, <2>2, <3>3
    <3>5. QED
      BY <3>1, <3>2, <3>4
  <2>4. \A t \in Threads : t \in Chain <=> pc[t] \in Waiting /\ ~Released(t)
    BY <2>1 DEF Released
  <2>5. BroadcastDelivered
    BY <1>1 DEF CondInv, Delivered, BroadcastDelivered
  <2>6. QED
    BY <1>1, <2>3, <2>4, <2>5 DEF CondInv, WaitersSafe, ChainSound
<1>2. QED
  BY <1>1, CondInvHolds, PTL

(* The pointer operations on wait_chain, waitnext and waitprev implement   *)
(* the queue of WaitQueue.                                                 *)
THEOREM ChainIsAQueue == Spec => ImplementsQueue
<1>1. ASSUME Init PROVE Abstract!Init
  BY <1>1, InitCondInv DEF Abstract!Init, Queue
<1>2. ASSUME CondInv, [Next]_vars PROVE [Abstract!Next]_Queue
  BY <1>2, NextKeeps
<1>3. QED
  BY <1>1, <1>2, CondInvHolds, PTL DEF Spec, ImplementsQueue, Abstract!Spec, Queue
=============================================================================
