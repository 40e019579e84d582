----------------------------- MODULE WaitQueue -----------------------------
(***************************************************************************)
(* What the wait chain of a condition variable stands for: the waiting     *)
(* threads in the order they came.  A thread leaves from wherever it is; a *)
(* broadcast lets all go at once.                                          *)
(***************************************************************************)
EXTENDS Naturals, SequencesExt

CONSTANT Threads

VARIABLE queue

Init == queue = <<>>

Enter(t) ==
  /\ \A i \in DOMAIN queue : queue[i] # t
  /\ queue' = Append(queue, t)

Leave(t) == \E i \in DOMAIN queue : queue[i] = t /\ queue' = RemoveAt(queue, i)

Clear == queue' = <<>>

Next == Clear \/ \E t \in Threads : Enter(t) \/ Leave(t)

Spec == Init /\ [][Next]_queue
=============================================================================
