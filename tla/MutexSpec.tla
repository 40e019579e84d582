----------------------------- MODULE MutexSpec -----------------------------
(***************************************************************************)
(* What every mutex of the library promises its callers, whatever the      *)
(* implementation: the number of times each thread holds the mutex changes *)
(* by one acquisition or one release at a time, and a thread acquires only *)
(* while nobody else holds it.  C11 mutexes (Mtx) and libpthread mutexes   *)
(* (PthreadMutex) are shown to implement it.                               *)
(***************************************************************************)
EXTENDS Naturals

CONSTANT Threads

VARIABLE held          \* held[t]: acquisitions of t not yet released

Init == held = [t \in Threads |-> 0]

Acquire(t) ==
  /\ \A u \in Threads \ {t} : held[u] = 0
  /\ held' = [held EXCEPT ![t] = @ + 1]

Release(t) ==
  /\ held[t] > 0
  /\ held' = [held EXCEPT ![t] = @ - 1]

Next == \E t \in Threads : Acquire(t) \/ Release(t)

Spec == Init /\ [][Next]_held
=============================================================================
