---------------------------- MODULE PthreadCond ----------------------------
(***************************************************************************)
(* libpthread condition variables: pthread_cond_{wait,timedwait,signal,    *)
(* broadcast}.c, and the suspend/restart protocol under them               *)
(* (__thread_suspend, __thread_suspend_till, __thread_restart and the      *)
(* signal handlers of pthread_internal.c).                                 *)
(*                                                                         *)
(* One condition and the mutex used with it.  The chain is the code's:     *)
(* next[Cond] is wait_chain, next[t] is t->waitnext, prev[t] = x says that *)
(* t->waitprev is the address of next[x].  What is done between LOCK(cond) *)
(* and UNLOCK(cond) is one action.  The mutex is the abstract one that     *)
(* PthreadMutex implements.                                                *)
(*                                                                         *)
(* PTHREAD_SIG_RESTART is a real-time signal, so it queues.  It is blocked *)
(* except in sigsuspend, which takes exactly one, and in the whole of      *)
(* __thread_suspend_till, which takes all that come.  PTHREAD_SIG_CANCEL   *)
(* is never blocked.                                                       *)
(***************************************************************************)
EXTENDS Naturals, Sequences, FiniteSets

CONSTANTS Threads,      \* the threads that use the condition
          Cond,         \* the head of the wait chain
          Null,         \* the null pointer; also: the mutex is free
          Interruptible, \* the threads that wait with a timeout or are canceled
          MaxPending    \* bound: restart signals queued for one thread

ASSUME PthreadCondAssumption ==
  /\ IsFiniteSet(Threads)
  /\ Cond \notin Threads /\ Null \notin Threads \cup {Cond} /\ Interruptible \subseteq Threads
  /\ MaxPending \in Nat \ {0}

VARIABLES next,      \* next[x]: wait_chain and the waitnext fields
          prev,      \* prev[t]: waitprev, as the owner of the field it points to
          holder,    \* the thread that holds the mutex, or Null
          pc,        \* pc[t]: the next step of t
          timed,     \* timed[t]: t is in pthread_cond_timedwait
          pending,   \* pending[t]: restart signals queued for t
          psig,      \* psig[t]: p_sig of t, suspended, is PTHREAD_SIG_RESTART
          canceled   \* canceled[t]

vars == <<next, prev, holder, pc, timed, pending, psig, canceled>>

Nodes == Threads \cup {Cond}

(* A thread in pthread_cond_[timed]wait is on its way into suspension, in  *)
(* the loop of __thread_suspend[_till], or on its way back.                *)
Suspension == {"test", "doze", "asleep"}
Waiting    == {"enqueued", "relock", "unlink"} \cup Suspension

Init ==
  /\ next = [x \in Nodes |-> Null]
  /\ prev = [t \in Threads |-> Null]
  /\ holder = Null
  /\ pc = [t \in Threads |-> "out"]
  /\ timed = [t \in Threads |-> FALSE]
  /\ pending = [t \in Threads |-> 0]
  /\ psig = [t \in Threads |-> FALSE]
  /\ canceled = [t \in Threads |-> FALSE]

Goto(t, l) == pc' = [pc EXCEPT ![t] = l]

(* The k-th element of the chain, for the loops that walk it. *)
Nth ==
  LET nth[k \in 0 .. Cardinality(Threads)] ==
        IF k = 0 THEN Cond ELSE IF nth[k-1] = Null THEN Null ELSE next[nth[k-1]]
  IN  nth

Chain == {Nth[k] : k \in 1 .. Cardinality(Threads)} \ {Null}

-----------------------------------------------------------------------------
(* The client's use of the mutex.                                          *)

MutexLock(t) ==
  /\ pc[t] = "out" /\ holder = Null
  /\ holder' = t
  /\ Goto(t, "in")
  /\ UNCHANGED <<next, prev, timed, pending, psig, canceled>>

MutexUnlock(t) ==
  /\ pc[t] = "in"
  /\ holder' = Null
  /\ Goto(t, "out")
  /\ UNCHANGED <<next, prev, timed, pending, psig, canceled>>

-----------------------------------------------------------------------------
(* pthread_cond_wait and pthread_cond_timedwait.                           *)

(* Under LOCK(cond): to the end of the chain. *)
Enqueue(t, till) ==
  /\ pc[t] = "in"
  /\ \E last \in Chain \cup {Cond} :
       /\ next[last] = Null
       /\ next' = [next EXCEPT ![t] = Null, ![last] = t]
       /\ prev' = [prev EXCEPT ![t] = last]
  /\ timed' = [timed EXCEPT ![t] = till]
  /\ Goto(t, "enqueued")
  /\ UNCHANGED <<holder, pending, psig, canceled>>

(* Mutant: p_sig is reset after the restart signal is unblocked. *)
SuspendLateReset(t) ==
  /\ pc[t] = "enqueued"
  /\ holder' = Null
  /\ psig' = [psig EXCEPT ![t] = FALSE]
  /\ pending' = IF timed[t] THEN [pending EXCEPT ![t] = 0] ELSE pending
  /\ Goto(t, "test")
  /\ UNCHANGED <<next, prev, timed, canceled>>

(* pthread_mutex_unlock, p_sig=0, and for a timed wait the unblocking of   *)
(* the restart signal, which delivers those that are pending.              *)
Suspend(t) ==
  /\ pc[t] = "enqueued"
  /\ holder' = Null
  /\ psig' = [psig EXCEPT ![t] = timed[t] /\ pending[t] > 0]
  /\ pending' = IF timed[t] THEN [pending EXCEPT ![t] = 0] ELSE pending
  /\ Goto(t, "test")
  /\ UNCHANGED <<next, prev, timed, canceled>>

(* The loop's conditions: restarted, or canceled. *)
Test(t) ==
  /\ pc[t] = "test"
  /\ Goto(t, IF psig[t] \/ canceled[t] THEN "relock" ELSE "doze")
  /\ psig' = [psig EXCEPT ![t] = FALSE]
  /\ UNCHANGED <<next, prev, holder, timed, pending, canceled>>

(* sigsuspend or nanosleep begins: signals handled before it are past. *)
Doze(t) ==
  /\ pc[t] = "doze"
  /\ Goto(t, "asleep")
  /\ UNCHANGED <<next, prev, holder, timed, pending, psig, canceled>>

(* Mutant: p_sig is not set, so that the loop goes on. *)
WakeForgets(t) ==
  /\ pc[t] = "asleep" /\ ~timed[t] /\ pending[t] > 0
  /\ pending' = [pending EXCEPT ![t] = @ - 1]
  /\ Goto(t, "test")
  /\ UNCHANGED <<next, prev, holder, timed, psig, canceled>>

(* Mutant: sigsuspend returns with no signal. *)
WakeUnsignaled(t) ==
  /\ pc[t] = "asleep" /\ ~timed[t]
  /\ pending' = [pending EXCEPT ![t] = @ - 1]
  /\ Goto(t, "relock")
  /\ UNCHANGED <<next, prev, holder, timed, psig, canceled>>

(* sigsuspend delivers one queued restart signal and returns; with p_sig   *)
(* set the loop ends.                                                      *)
Wake(t) ==
  /\ pc[t] = "asleep" /\ ~timed[t] /\ pending[t] > 0
  /\ pending' = [pending EXCEPT ![t] = @ - 1]
  /\ Goto(t, "relock")
  /\ UNCHANGED <<next, prev, holder, timed, psig, canceled>>

(* nanosleep has slept its time: ETIMEDOUT. *)
Timeout(t) ==
  /\ pc[t] = "asleep" /\ timed[t]
  /\ psig' = [psig EXCEPT ![t] = FALSE]
  /\ Goto(t, "relock")
  /\ UNCHANGED <<next, prev, holder, timed, pending, canceled>>

Relock(t) ==
  /\ pc[t] = "relock" /\ holder = Null
  /\ holder' = t
  /\ Goto(t, "unlink")
  /\ UNCHANGED <<next, prev, timed, pending, psig, canceled>>

(* pthread_cond_[timed]wait returns, or __thread_testcancel ends t. *)
WaitReturns(t) ==
  /\ timed' = [timed EXCEPT ![t] = FALSE]
  /\ Goto(t, IF canceled[t] THEN "exit" ELSE "in")
  /\ UNCHANGED <<holder, pending, psig, canceled>>

(* Mutant: the successor keeps its waitprev. *)
UnlinkForwardOnly(t) ==
  /\ pc[t] = "unlink"
  /\ next' = [next EXCEPT ![prev[t]] = next[t], ![t] = Null]
  /\ prev' = [prev EXCEPT ![t] = Null]
  /\ WaitReturns(t)

(* Under LOCK(cond): out of the chain, wherever t is.  After a broadcast   *)
(* waitprev points at t's own waitnext.  The fields keep stale values,     *)
(* which pthread_cond_wait overwrites; here they become Null.              *)
Unlink(t) ==
  /\ pc[t] = "unlink"
  /\ next' = [[next EXCEPT ![prev[t]] = next[t]] EXCEPT ![t] = Null]
  /\ prev' = [u \in Threads |->
                IF u = t THEN Null ELSE IF u = next[t] THEN prev[t] ELSE prev[u]]
  /\ WaitReturns(t)

(* A canceled thread runs its cleanup handlers, which unlock the mutex. *)
Exit(t) ==
  /\ pc[t] = "exit"
  /\ holder' = Null
  /\ pending' = [pending EXCEPT ![t] = 0]
  /\ Goto(t, "gone")
  /\ UNCHANGED <<next, prev, timed, psig, canceled>>

-----------------------------------------------------------------------------
(* The other side: signals, by any thread that is not waiting.             *)

(* __thread_restart for all of S: where the signal is unblocked, its       *)
(* handler sets p_sig and, if it interrupts nanosleep, ends the loop; else *)
(* it is queued.                                                           *)
Restart(S) ==
  LET open == {u \in S : timed[u] /\ pc[u] \in Suspension}
  IN  /\ \A u \in S \ open : pending[u] < MaxPending
      /\ psig' = [u \in Threads |-> psig[u] \/ (u \in open /\ pc[u] # "asleep")]
      /\ pc' = [u \in Threads |-> IF u \in open /\ pc[u] = "asleep" THEN "relock" ELSE pc[u]]
      /\ pending' = [u \in Threads |-> IF u \in S \ open THEN pending[u] + 1 ELSE pending[u]]

Signal(t) ==
  /\ pc[t] \in {"out", "in"}
  /\ next[Cond] # Null
  /\ Restart({next[Cond]})
  /\ UNCHANGED <<next, prev, holder, timed, canceled>>

(* Mutant: waitprev keeps pointing into the old chain. *)
BroadcastKeepsPrev(t) ==
  /\ pc[t] \in {"out", "in"}
  /\ Chain # {}
  /\ Restart(Chain)
  /\ next' = [x \in Nodes |-> IF x \in Chain \cup {Cond} THEN Null ELSE next[x]]
  /\ UNCHANGED <<prev, holder, timed, canceled>>

Broadcast(t) ==
  /\ pc[t] \in {"out", "in"}
  /\ Chain # {}
  /\ Restart(Chain)
  /\ next' = [x \in Nodes |-> IF x \in Chain \cup {Cond} THEN Null ELSE next[x]]
  /\ prev' = [u \in Threads |-> IF u \in Chain THEN u ELSE prev[u]]
  /\ UNCHANGED <<holder, timed, canceled>>

(* pthread_cancel of a waiting thread: the handler sets canceled and       *)
(* interrupts sigsuspend or nanosleep if t is in it.                       *)
Cancel(t) ==
  /\ pc[t] \in Waiting /\ ~canceled[t]
  /\ canceled' = [canceled EXCEPT ![t] = TRUE]
  /\ Goto(t, IF pc[t] = "asleep" THEN "test" ELSE pc[t])
  /\ UNCHANGED <<next, prev, holder, timed, pending, psig>>

-----------------------------------------------------------------------------
Step(t) ==
  \/ Suspend(t) \/ Test(t) \/ Doze(t) \/ Wake(t) \/ Timeout(t)
  \/ Relock(t) \/ Unlink(t) \/ Exit(t)

Next ==
  \E t \in Threads :
    \/ MutexLock(t) \/ MutexUnlock(t)
    \/ Enqueue(t, FALSE) \/ Signal(t) \/ Broadcast(t)
    \/ t \in Interruptible /\ (Enqueue(t, TRUE) \/ Cancel(t))
    \/ Step(t)

Spec == Init /\ [][Next]_vars

Fairness == \A t \in Threads : WF_vars(Step(t))

FairSpec == Spec /\ Fairness

-----------------------------------------------------------------------------
(* Properties.                                                             *)

TypeOK ==
  /\ next \in [Nodes -> Threads \cup {Null}]
  /\ prev \in [Threads -> Nodes \cup {Null}]
  /\ holder \in Threads \cup {Null}
  /\ pc \in [Threads -> {"out", "in", "exit", "gone"} \cup Waiting]
  /\ timed \in [Threads -> BOOLEAN]
  /\ pending \in [Threads -> 0 .. MaxPending]
  /\ psig \in [Threads -> BOOLEAN]
  /\ canceled \in [Threads -> BOOLEAN]

(* A waiting thread that a broadcast took out of the chain. *)
Released(t) == pc[t] \in Waiting /\ prev[t] = t

(* The chain is a doubly linked list of waiting threads: waitprev of each  *)
(* element leads back to the pointer to it, and every waiting thread is in *)
(* the chain unless a broadcast took it out.                               *)
ChainSound ==
  /\ \A x \in Chain \cup {Cond} : next[x] # Null => prev[next[x]] = x
  /\ \A t \in Threads : t \in Chain <=> pc[t] \in Waiting /\ ~Released(t)

Length == Cardinality({k \in 1 .. Cardinality(Threads) : Nth[k] # Null})

Abstract == INSTANCE WaitQueue WITH queue <- [k \in 1 .. Length |-> Nth[k]]

(* The pointers implement a queue: entering at the tail, leaving from      *)
(* anywhere by timeout, cancellation or restart, clearing by broadcast.    *)
ImplementsQueue == Abstract!Spec

(* A broadcast reaches every thread that waits, from the moment the thread *)
(* is in the chain (it may still be about to unlock the mutex and suspend  *)
(* itself): a thread it took out of the chain never suspends for good.     *)
BroadcastDelivered ==
  \A t \in Threads :
    Released(t) /\ pc[t] \in {"enqueued"} \cup Suspension =>
      psig[t] \/ pending[t] > 0 \/ canceled[t]

(* A thread that was restarted, in whatever step of its suspension, leaves *)
(* the suspension (a timed one, that is caught between its test and        *)
(* nanosleep, only after its time).                                        *)
RestartedLeaves ==
  \A t \in Threads :
    pc[t] \in Suspension /\ (psig[t] \/ pending[t] > 0) ~> pc[t] \notin Suspension

(* The chain is well formed and nobody whom a broadcast took out of it     *)
(* sleeps for good.                                                        *)
WaitersSafe == TypeOK /\ ChainSound /\ BroadcastDelivered
=============================================================================
