----------------------------- MODULE DirCursor ------------------------------
(***************************************************************************)
(* What a directory stream promises: a place among the entries, which      *)
(* reading moves on by one and seeking to a place that was told.           *)
(***************************************************************************)
EXTENDS Naturals

CONSTANT Count    \* entries of the directory

VARIABLES place,  \* entries before the next one
          got,    \* the entry read last, 0 for none
          mark    \* the place told last

CursorInit == place = 0 /\ got = 0 /\ mark = 0

(* At the end, and when the kernel fails, there is nothing to be read. *)
Read ==
  \/ place < Count /\ got' = place + 1 /\ place' = place + 1 /\ UNCHANGED mark
  \/ got' = 0 /\ UNCHANGED <<place, mark>>

Tell == mark' = place /\ UNCHANGED <<place, got>>

Seek == place' \in {0, mark} /\ UNCHANGED <<got, mark>>

CursorSpec == CursorInit /\ [][Read \/ Tell \/ Seek]_<<place, got, mark>>
=============================================================================
