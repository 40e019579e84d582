-------------------------------- MODULE Dict --------------------------------
(***************************************************************************)
(* What a table of names promises: a partial function from keys to values, *)
(* and calls that tell what it holds.  ret is the value returned by the    *)
(* last lookup, None if there was none.                                    *)
(***************************************************************************)
CONSTANTS Key, Value, None

VARIABLES dict, ret

DictInit == dict \in [Key -> Value \cup {None}] /\ ret = None

Lookup(k) == ret' = dict[k] /\ UNCHANGED dict

(* A call may fail and change nothing. *)
Change(k, v) ==
  /\ dict' \in {dict, [dict EXCEPT ![k] = v]}
  /\ UNCHANGED ret

(* Enter k unless it is there, and tell what the table then says of it. *)
Enter(k, v) ==
  \/ dict[k] # None /\ ret' = dict[k] /\ UNCHANGED dict
  \/ dict[k] = None /\ dict' = [dict EXCEPT ![k] = v] /\ ret' = v
  \/ dict[k] = None /\ ret' = None /\ UNCHANGED dict

Empty == dict' = [k \in Key |-> None] /\ UNCHANGED ret

DictNext ==
  \/ \E k \in Key : Lookup(k) \/ Change(k, None)
  \/ \E k \in Key, v \in Value : Change(k, v) \/ Enter(k, v)
  \/ Empty

DictSpec == DictInit /\ [][DictNext]_<<dict, ret>>
=============================================================================
