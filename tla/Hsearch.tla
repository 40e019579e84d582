------------------------------ MODULE Hsearch -------------------------------
(***************************************************************************)
(* The hash table of search.h: lib/h{create,search,destroy}_r.c.           *)
(*                                                                         *)
(* A bucket is a sequence of entries.  The hash of a key is the number     *)
(* siphash24 gives it, chosen once and for all by the random key of the    *)
(* table.                                                                  *)
(***************************************************************************)
EXTENDS Naturals, Sequences

CONSTANTS HKey, HValue, HNone,
          Hashes,       \* the values siphash24 may take
          Counts,       \* arguments of hcreate, not 0
          MaxFilled,    \* bound: entries ever made in a table that is emptied again
          Primes        \* the sizes a table grows to (67, 127, ... 2097143)

ASSUME HsearchAssumption ==
  /\ HNone \notin HValue /\ Hashes \subseteq Nat /\ MaxFilled \in Nat /\ Counts \subseteq Nat \ {0}
  /\ Primes \in Seq(Nat \ {0}) /\ Primes # <<>>
  /\ \A i \in 1 .. Len(Primes) - 1 : Primes[i] < Primes[i + 1]

VARIABLES htab,   \* htab->table and htab->size; empty before hcreate
          filled, \* htab->filled
          hv,     \* the hash of each key
          found   \* *retval, or HNone

hvars == <<htab, filled, hv, found>>

HInit ==
  /\ htab = <<>> /\ filled = 0 /\ found = HNone
  /\ hv \in [HKey -> Hashes]

(* The table is a sequence: bucket b is table[b + 1]. *)
Bucket(k, size) == (hv[k] % size) + 1

(* hcreate_r *)
HCreate(count) ==
  /\ \A b \in DOMAIN htab : htab[b] = <<>>
  /\ htab' = [b \in 1 .. count |-> <<>>] /\ filled' = 0
  /\ UNCHANGED <<hv, found>>

Place(table, e) == [table EXCEPT ![Bucket(e.key, Len(table))] = <<e>> \o @]

(* Mutant: an entry keeps the number of its bucket. *)
RehashStill(n) ==
  [b \in 1 .. n |-> IF b \in DOMAIN htab THEN htab[b] ELSE <<>>]

(* Every entry moves to the front of the list of its new bucket, bucket    *)
(* after bucket.                                                           *)
Rehash(n) ==
  LET Size    == Len(htab)
      moved[b \in 0 .. Size] ==
        IF b = 0 THEN [c \in 1 .. n |-> <<>>]
        ELSE LET old == htab[b]
                 each[i \in 0 .. Len(old)] ==
                   IF i = 0 THEN moved[b - 1] ELSE Place(each[i - 1], old[i])
             IN  each[Len(old)]
  IN  moved[Size]

(* The next size: of the primes the first that is larger. *)
Larger == CHOOSE p \in {Primes[i] : i \in 1 .. Len(Primes)} :
            /\ p > Len(htab)
            /\ \A i \in 1 .. Len(Primes) : Primes[i] > Len(htab) => p <= Primes[i]

(* The table in which the new entry is put: the old one while there is     *)
(* room, when it cannot grow and when calloc fails.                        *)
Tables ==
  {htab} \cup
  IF Len(htab) < Primes[Len(Primes)] /\ filled + 1 > Len(htab) THEN {Rehash(Larger)} ELSE {}

Matches(k) == {i \in 1 .. Len(htab[Bucket(k, Len(htab))]) : htab[Bucket(k, Len(htab))][i].key = k}

(* hsearch_r of a key that is there, and of one that is not. *)
Found(k) ==
  /\ htab # <<>> /\ Matches(k) # {}
  /\ \E i \in Matches(k) : /\ \A j \in Matches(k) : i <= j
                           /\ found' = htab[Bucket(k, Len(htab))][i].val
  /\ UNCHANGED <<htab, filled, hv>>

FindFails(k) ==
  /\ htab # <<>> /\ Matches(k) = {}
  /\ found' = HNone
  /\ UNCHANGED <<htab, filled, hv>>

(* ENTER: at the end of the list; or malloc fails. *)
EnterNew(k, v) ==
  /\ htab # <<>> /\ Matches(k) = {} /\ filled < MaxFilled
  /\ \E table \in Tables :
       \/ /\ htab' = [table EXCEPT ![Bucket(k, Len(table))] = Append(@, [key |-> k, val |-> v])]
          /\ filled' = filled + 1 /\ found' = v
       \/ htab' = table /\ found' = HNone /\ UNCHANGED filled
  /\ UNCHANGED hv

(* hdestroy_r empties the buckets; filled is not reset. *)
HDestroy ==
  /\ htab # <<>> /\ filled < MaxFilled
  /\ htab' = [b \in 1 .. Len(htab) |-> <<>>]
  /\ UNCHANGED <<filled, hv, found>>

HNext ==
  \/ \E count \in Counts : HCreate(count)
  \/ \E k \in HKey : Found(k) \/ FindFails(k) \/ \E v \in HValue : EnterNew(k, v)
  \/ HDestroy

HSpec == HInit /\ [][HNext]_hvars

-----------------------------------------------------------------------------
(* What the table says of a key. *)
Entry(k) ==
  IF htab = <<>> \/ Matches(k) = {} THEN HNone
  ELSE htab[Bucket(k, Len(htab))][CHOOSE i \in Matches(k) : \A j \in Matches(k) : i <= j].val

TableDict == INSTANCE Dict WITH Key <- HKey, Value <- HValue, None <- HNone,
                             dict <- [k \in HKey |-> Entry(k)], ret <- found

(* However the hashes collide and the table grows, it is a dictionary:     *)
(* growing changes nothing that can be seen, and no entry is found twice,  *)
(* lost or replaced.                                                       *)
ImplementsDict == TableDict!DictSpec
=============================================================================
