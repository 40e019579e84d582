------------------------------- MODULE MCC11 --------------------------------
(***************************************************************************)
(* C11 threads for TLC: a mutex (Mtx) with three threads and a recursion   *)
(* limit of 2 instead of 1000, and the life of a thread (Thrd).  Each      *)
(* behaviour is about one of the two; in the initial state of the other    *)
(* nothing is enabled that fairness asks for.                              *)
(***************************************************************************)
EXTENDS Mtx, Thrd

CONSTANTS t1, t2, t3

VARIABLE part

MCThreads == {t1, t2, t3}

MCInit ==
  /\ part \in {"mtx", "thrd"} /\ Init /\ TInit
  /\ part = "mtx" => signals = 0

(* The thread is gone and the client done, or the process has died; or the *)
(* client sleeps in a join that came after thrd_exit read join_futex.      *)
Ended ==
  \/ fault
  \/ tpc \in {"none", "gone"} /\ cpc \in {"joined", "detached", "refused", "done", "asleep"}
  \/ tpc = "gone" /\ cpc = "ready" /\ Detached \in flags

MCNext ==
  /\ part' = part
  /\ \/ part = "mtx" /\ Next /\ UNCHANGED tvars
     \/ part = "thrd" /\ (TNext \/ (Ended /\ UNCHANGED tvars)) /\ UNCHANGED vars

MCSpec ==
  /\ MCInit /\ [][MCNext]_<<vars, tvars, part>>
  /\ (\A t \in Threads : WF_vars(Step(t))) /\ TFairness
=============================================================================
