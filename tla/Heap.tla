-------------------------------- MODULE Heap --------------------------------
(***************************************************************************)
(* What the allocator promises its caller: a block lies where no other     *)
(* block lies, keeps what was written to it until it is released, keeps    *)
(* the common prefix when it is resized, and is zero when it is new.  A    *)
(* block is its size and the contents its caller may count on.             *)
(***************************************************************************)
EXTENDS Naturals, Sequences

CONSTANTS Zero, Tags

VARIABLE blocks   \* the address before a block |-> [req, data]

Place(p, n) == (p + 1) .. (p + n)

Free(p, n, others) ==
  \A q \in others : Place(p, n) \cap Place(q, blocks[q].req) = {}

Without(p) == [q \in DOMAIN blocks \ {p} |-> blocks[q]]
With(bs, q, b) == [x \in DOMAIN bs \cup {q} |-> IF x = q THEN b ELSE bs[x]]

Init == blocks = << >>

Allocate(p, n) ==
  /\ p \notin DOMAIN blocks
  /\ Free(p, n, DOMAIN blocks)
  /\ blocks' = With(blocks, p, [req |-> n, data |-> [i \in 1..n |-> Zero]])

Write(p, t) ==
  blocks' = [blocks EXCEPT ![p].data = [i \in 1..blocks[p].req |-> t]]

Release(p) == blocks' = Without(p)

Resize(p, q, n) ==
  /\ Free(q, n, DOMAIN blocks \ {p})
  /\ LET kept == IF Len(blocks[p].data) < n THEN Len(blocks[p].data) ELSE n
     IN  blocks' = With(Without(p), q, [req |-> n, data |-> SubSeq(blocks[p].data, 1, kept)])

(* The new blocks are read off the next state. *)
Next ==
  \/ \E p \in DOMAIN blocks' : Allocate(p, blocks'[p].req)
  \/ \E p \in DOMAIN blocks :
       \/ \E t \in Tags : Write(p, t)
       \/ Release(p)
       \/ \E q \in DOMAIN blocks' : Resize(p, q, blocks'[q].req)

Spec == Init /\ [][Next]_blocks
=============================================================================
