------------------------------- MODULE Qsort --------------------------------
(***************************************************************************)
(* qsort, lib/qsort.c: quicksort with 3-way partitioning and a random      *)
(* pivot, and bsearch, lib/bsearch.c, on the result.                       *)
(*                                                                         *)
(* An element is a pair of a number, by which it is compared, and its      *)
(* place at the beginning.  base[k] is the k-th element, from 0.  One step *)
(* is one turn of a loop; the recursion is a stack of ranges.              *)
(***************************************************************************)
EXTENDS Integers, Sequences, FiniteSets

CONSTANTS Elem,      \* the numbers to sort
          MaxMemb    \* bound: nmemb

ASSUME QsortAssumption == Elem \subseteq Int /\ MaxMemb \in Nat

VARIABLES base,
          todo,      \* the ranges <<l, r>> still to be sorted
          s,         \* the call that runs: l, r, i, j, p, q, k
          phase

qvars == <<base, todo, s, phase>>

nmemb == Cardinality(DOMAIN base)

Numbers == UNION {[0 .. n - 1 -> Elem] : n \in 0 .. MaxMemb}

QInit ==
  /\ \E num \in Numbers : base = [k \in DOMAIN num |-> <<num[k], k>>]
  /\ todo = IF nmemb > 1 THEN << <<0, nmemb - 1>> >> ELSE <<>>
  /\ s = [l |-> 0, r |-> 0, i |-> 0, j |-> 0, p |-> 0, q |-> 0, k |-> 0]
  /\ phase = "call"

compar(x, y) == x[1] - y[1]

exch(b, x, y) == [b EXCEPT ![x] = b[y], ![y] = b[x]]

v == base[s.r]

-----------------------------------------------------------------------------
(* quicksort begins with l + rand()%(r-l) exchanged for the last element;  *)
(* nothing is to be done for less than two.                                *)
Begin ==
  /\ phase = "call" /\ todo # <<>>
  /\ LET l == Head(todo)[1]
         r == Head(todo)[2]
     IN  IF r <= l THEN UNCHANGED <<base, s, phase>>
         ELSE /\ \E x \in l .. r - 1 : base' = exch(base, x, r)
              /\ s' = [l |-> l, r |-> r, i |-> l - 1, j |-> r, p |-> l - 1, q |-> r, k |-> 0]
              /\ phase' = "up"
  /\ todo' = Tail(todo)

(* while (++i != r && compar(base+i*size,v)<0) ; *)
Up ==
  /\ phase = "up"
  /\ s' = [s EXCEPT !.i = @ + 1]
  /\ phase' = IF s.i + 1 # s.r /\ compar(base[s.i + 1], v) < 0 THEN "up" ELSE "down"
  /\ UNCHANGED <<base, todo>>

(* Mutant: no end at l. *)
DownOn ==
  /\ phase = "down"
  /\ s' = [s EXCEPT !.j = @ - 1]
  /\ phase' = IF compar(v, base[s.j - 1]) < 0 THEN "down" ELSE "test"
  /\ UNCHANGED <<base, todo>>

(* while (compar(v,base+(--j)*size)<0) if (j == l) break; *)
Down ==
  /\ phase = "down"
  /\ s' = [s EXCEPT !.j = @ - 1]
  /\ phase' = IF compar(v, base[s.j - 1]) < 0 /\ s.j - 1 # s.l THEN "down" ELSE "test"
  /\ UNCHANGED <<base, todo>>

(* The scans have met; or i and j are exchanged, and what is equal to v    *)
(* goes to the left or the right end.                                      *)
Test ==
  /\ phase = "test"
  /\ IF s.i >= s.j THEN phase' = "place" /\ UNCHANGED <<base, s>>
     ELSE LET b1 == exch(base, s.i, s.j)
              p  == IF compar(b1[s.i], v) = 0 THEN s.p + 1 ELSE s.p
              b2 == IF p > s.p THEN exch(b1, p, s.i) ELSE b1
              q  == IF compar(v, b2[s.j]) = 0 THEN s.q - 1 ELSE s.q
          IN  /\ base' = IF q < s.q THEN exch(b2, s.j, q) ELSE b2
              /\ s' = [s EXCEPT !.p = p, !.q = q]
              /\ phase' = "up"
  /\ UNCHANGED todo

(* Mutant: the pivot goes where the scan from the right has stopped. *)
PivotAtJ ==
  /\ phase = "place"
  /\ base' = exch(base, s.j, s.r)
  /\ s' = [s EXCEPT !.j = s.i - 1, !.i = @ + 1, !.k = s.l]
  /\ phase' = "left"
  /\ UNCHANGED todo

(* exch(base,size,i,r); j = i-1; ++i; *)
Pivot ==
  /\ phase = "place"
  /\ base' = exch(base, s.i, s.r)
  /\ s' = [s EXCEPT !.j = s.i - 1, !.i = @ + 1, !.k = s.l]
  /\ phase' = "left"
  /\ UNCHANGED todo

(* Mutant: the indices stay where they are. *)
LeftSame ==
  /\ phase = "left"
  /\ IF s.k < s.p
     THEN base' = exch(base, s.k, s.j) /\ UNCHANGED <<s, phase>>
     ELSE s' = [s EXCEPT !.k = s.r - 1] /\ phase' = "right" /\ UNCHANGED base
  /\ UNCHANGED todo

(* The equal elements of the left end go to the middle, then those of the  *)
(* right end.                                                              *)
Left ==
  /\ phase = "left"
  /\ IF s.k < s.p
     THEN /\ base' = exch(base, s.k, s.j)
          /\ s' = [s EXCEPT !.k = @ + 1, !.j = @ - 1] /\ UNCHANGED phase
     ELSE s' = [s EXCEPT !.k = s.r - 1] /\ phase' = "right" /\ UNCHANGED base
  /\ UNCHANGED todo

Right ==
  /\ phase = "right"
  /\ IF s.k > s.q
     THEN /\ base' = exch(base, s.i, s.k)
          /\ s' = [s EXCEPT !.k = @ - 1, !.i = @ + 1] /\ UNCHANGED <<phase, todo>>
     ELSE /\ todo' = << <<s.l, s.j>>, <<s.i, s.r>> >> \o todo
          /\ phase' = "call" /\ UNCHANGED <<base, s>>

QNext == Begin \/ Up \/ Down \/ Test \/ Pivot \/ Left \/ Right

QFairness == WF_qvars(QNext)

QSpec == QInit /\ [][QNext]_qvars /\ QFairness

-----------------------------------------------------------------------------
(* bsearch: the element that its loop returns, or -1.  A turn of the loop  *)
(* has w[1] elements left, the first of them base[w[2]].                   *)

(* Mutant: the element in the middle is looked at again. *)
bsearchSlow(x) ==
  LET search[w \in Nat \X Nat] ==
        LET n == w[1]
            b == w[2]
            m == n \div 2
        IN  IF n = 0 THEN -1
            ELSE IF x < base[b + m][1] THEN search[<<m, b>>]
            ELSE IF x > base[b + m][1] THEN search[<<n - m - 1, b + m>>]
            ELSE b + m
  IN  search[<<nmemb, 0>>]

bsearch(x) ==
  LET search[w \in Nat \X Nat] ==
        LET n == w[1]
            b == w[2]
            m == n \div 2
        IN  IF n = 0 THEN -1
            ELSE IF x < base[b + m][1] THEN search[<<m, b>>]
            ELSE IF x > base[b + m][1] THEN search[<<n - m - 1, b + m + 1>>]
            ELSE b + m
  IN  search[<<nmemb, 0>>]

-----------------------------------------------------------------------------
(* Properties.                                                             *)

(* No scan leaves its range, with any pivot: i and j meet before, and what *)
(* is moved at the end is in the range as well.                            *)
InRange ==
  /\ phase = "up" => s.i + 1 \in s.l .. s.r
  /\ phase = "down" => s.j - 1 \in s.l .. s.r
  /\ phase = "left" /\ s.k < s.p => {s.k, s.j} \subseteq s.l .. s.r
  /\ phase = "right" /\ s.k > s.q => {s.k, s.i} \subseteq s.l .. s.r

Done == phase = "call" /\ todo = <<>>

(* At the end the array is sorted, and every element is still there once.  *)
SortedAtEnd ==
  Done => /\ \A a, b \in DOMAIN base : a <= b => compar(base[a], base[b]) <= 0
          /\ {base[k][2] : k \in DOMAIN base} = DOMAIN base

(* qsort ends, with any comparisons and any random numbers. *)
Sorts == <>Done

(* bsearch finds an element of the sorted array if and only if there is    *)
(* one.                                                                    *)
SearchFinds ==
  Done => \A x \in Elem : IF \E k \in DOMAIN base : base[k][1] = x
                          THEN bsearch(x) \in DOMAIN base /\ base[bsearch(x)][1] = x
                          ELSE bsearch(x) = -1

(* qsort stays in the array and sorts it, and bsearch finds what is in it. *)
SortRight == InRange /\ SortedAtEnd /\ SearchFinds
=============================================================================
