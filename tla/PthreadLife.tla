---------------------------- MODULE PthreadLife ----------------------------
(***************************************************************************)
(* The life of libpthread threads: pthread_create.c, pthread_join.c,       *)
(* pthread_detach.c, and in pthread_internal.c the manager thread, its     *)
(* request pipe, and the start of a managed thread.                        *)
(*                                                                         *)
(* Clients create, join and detach; a Managed thread is created at most    *)
(* once.  Suspension is that of PthreadCond without cancellation: restart  *)
(* signals queue in pending, one ends a suspension.  What is done with     *)
(* td->lock held is one action.                                            *)
(***************************************************************************)
EXTENDS Naturals, Sequences

CONSTANTS Clients,       \* the threads that call pthread_create and pthread_join
          Managed,       \* the descriptors of the threads they create
          Null,
          OneSuspension  \* TRUE: no client suspends itself again after a join

ASSUME PthreadLifeAssumption ==
  /\ Null \notin Managed \cup Clients
  /\ OneSuspension \in BOOLEAN

VARIABLES pc,         \* pc[c]: the next step of client c
          target,     \* target[c]: the thread c creates or joins
          pending,    \* pending[c]: restart signals queued for c
          hasJoined,  \* hasJoined[c]: c has returned from a pthread_join
          state,      \* state[m]: "none", "asked", "failed", "born", "run", "zombie", "reaped"
          listed,     \* listed[m]: m is in _thread_hash_tid
          mapped,     \* mapped[m]: the stack that holds the descriptor is mapped
          detached, joined, jt, dead,    \* fields of the descriptors
          pipe,       \* the requests sent to the manager: <<"start" or "cleanup", m>>
          notify      \* the dead thread whose joiner the manager is about to restart

vars == <<pc, target, pending, hasJoined, state, listed, mapped, detached, joined, jt, dead,
          pipe, notify>>

threadVars == <<state, listed, mapped, detached, joined, jt, dead>>

Init ==
  /\ pc = [c \in Clients |-> "idle"]
  /\ target = [c \in Clients |-> Null]
  /\ pending = [c \in Clients |-> 0]
  /\ hasJoined = [c \in Clients |-> FALSE]
  /\ state = [m \in Managed |-> "none"]
  /\ listed = [m \in Managed |-> FALSE]
  /\ mapped = [m \in Managed |-> FALSE]
  /\ detached = [m \in Managed |-> FALSE]
  /\ joined = [m \in Managed |-> FALSE]
  /\ jt = [m \in Managed |-> Null]
  /\ dead = [m \in Managed |-> FALSE]
  /\ pipe = <<>>
  /\ notify = Null

Goto(c, l) == pc' = [pc EXCEPT ![c] = l]

(* A call that suspends its caller. *)
MaySuspend(c) == pc[c] = "idle" /\ (OneSuspension => ~hasJoined[c])

-----------------------------------------------------------------------------
(* pthread_create and __thread_start_new: the request lies on the stack of *)
(* the caller, which suspends itself until the manager has served it.      *)
Create(c, m, d) ==
  /\ MaySuspend(c) /\ state[m] = "none"
  /\ state' = [state EXCEPT ![m] = "asked"]
  /\ mapped' = [mapped EXCEPT ![m] = TRUE]
  /\ detached' = [detached EXCEPT ![m] = d]
  /\ pipe' = Append(pipe, <<"start", m>>)
  /\ target' = [target EXCEPT ![c] = m]
  /\ Goto(c, "creating")
  /\ UNCHANGED <<pending, hasJoined, listed, joined, jt, dead, notify>>

(* Mutant: the suspension ends without a restart. *)
CreateReturnUnasked(c) ==
  /\ pc[c] = "creating"
  /\ pending' = [pending EXCEPT ![c] = @ - 1]
  /\ target' = [target EXCEPT ![c] = Null]
  /\ Goto(c, "idle")
  /\ UNCHANGED <<hasJoined, threadVars, pipe, notify>>

CreateReturn(c) ==
  /\ pc[c] = "creating" /\ pending[c] > 0
  /\ pending' = [pending EXCEPT ![c] = @ - 1]
  /\ target' = [target EXCEPT ![c] = Null]
  /\ Goto(c, "idle")
  /\ UNCHANGED <<hasJoined, threadVars, pipe, notify>>

(* Mutant: joined is not tested. *)
JoinAnyway(c, m) ==
  /\ MaySuspend(c)
  /\ listed[m] /\ ~detached[m]
  /\ joined' = [joined EXCEPT ![m] = TRUE]
  /\ jt' = [jt EXCEPT ![m] = c]
  /\ target' = [target EXCEPT ![c] = m]
  /\ Goto(c, "check")
  /\ UNCHANGED <<pending, hasJoined, state, listed, mapped, detached, dead, pipe, notify>>

(* pthread_join up to UNLOCK(td); an unlisted thread is ESRCH, a detached  *)
(* or joined one EINVAL.                                                   *)
Join(c, m) ==
  /\ MaySuspend(c)
  /\ listed[m] /\ ~detached[m] /\ ~joined[m]
  /\ joined' = [joined EXCEPT ![m] = TRUE]
  /\ jt' = [jt EXCEPT ![m] = c]
  /\ target' = [target EXCEPT ![c] = m]
  /\ Goto(c, "check")
  /\ UNCHANGED <<pending, hasJoined, state, listed, mapped, detached, dead, pipe, notify>>

(* Mutant: the joiner does not look at dead. *)
JoinCheckBlindly(c) ==
  /\ pc[c] = "check"
  /\ Goto(c, "joining")
  /\ UNCHANGED <<target, pending, hasJoined, threadVars, pipe, notify>>

(* if (!(td->dead)) __thread_suspend(this,0) *)
JoinCheck(c) ==
  /\ pc[c] = "check"
  /\ Goto(c, IF dead[target[c]] THEN "collect" ELSE "joining")
  /\ UNCHANGED <<target, pending, hasJoined, threadVars, pipe, notify>>

(* Mutant: the suspension ends without a restart. *)
JoinWakeEarly(c) ==
  /\ pc[c] = "joining"
  /\ Goto(c, "collect")
  /\ UNCHANGED <<target, pending, hasJoined, threadVars, pipe, notify>>

JoinWake(c) ==
  /\ pc[c] = "joining" /\ pending[c] > 0
  /\ pending' = [pending EXCEPT ![c] = @ - 1]
  /\ Goto(c, "collect")
  /\ UNCHANGED <<target, hasJoined, threadVars, pipe, notify>>

(* The return value is read and the manager asked to clean up. *)
JoinCollect(c) ==
  /\ pc[c] = "collect"
  /\ pipe' = Append(pipe, <<"cleanup", target[c]>>)
  /\ target' = [target EXCEPT ![c] = Null]
  /\ hasJoined' = [hasJoined EXCEPT ![c] = TRUE]
  /\ Goto(c, "idle")
  /\ UNCHANGED <<pending, threadVars, notify>>

Detach(c, m) ==
  /\ pc[c] = "idle"
  /\ listed[m] /\ ~detached[m] /\ ~joined[m]
  /\ detached' = [detached EXCEPT ![m] = TRUE]
  /\ UNCHANGED <<pc, target, pending, hasJoined, state, listed, mapped, joined, jt, dead,
                 pipe, notify>>

-----------------------------------------------------------------------------
(* The managed thread: __managed_start suspends itself until the manager   *)
(* lets it loose (the restart is queued before it can miss it), runs       *)
(* td->func, and ends.                                                     *)
ThreadRun(m) ==
  /\ state[m] = "born"
  /\ state' = [state EXCEPT ![m] = "run"]
  /\ UNCHANGED <<pc, target, pending, hasJoined, listed, mapped, detached, joined, jt, dead,
                 pipe, notify>>

ThreadExit(m) ==
  /\ state[m] = "run"
  /\ state' = [state EXCEPT ![m] = "zombie"]
  /\ UNCHANGED <<pc, target, pending, hasJoined, listed, mapped, detached, joined, jt, dead,
                 pipe, notify>>

-----------------------------------------------------------------------------
(* The manager thread.  Until it has restarted a joiner it does nothing    *)
(* else.                                                                   *)

(* __MGR_thread_start_new: clone, which may fail; the creator is restarted *)
(* in either case.                                                         *)
MgrStart ==
  /\ notify = Null /\ pipe # <<>> /\ Head(pipe)[1] = "start"
  /\ pipe' = Tail(pipe)
  /\ LET m == Head(pipe)[2]
     IN  /\ \/ /\ state' = [state EXCEPT ![m] = "born"]
               /\ listed' = [listed EXCEPT ![m] = TRUE]
            \/ /\ state' = [state EXCEPT ![m] = "failed"]
               /\ UNCHANGED listed
         /\ pending' = [c \in Clients |->
                          IF pc[c] = "creating" /\ target[c] = m
                          THEN pending[c] + 1 ELSE pending[c]]
  /\ UNCHANGED <<pc, target, hasJoined, mapped, detached, joined, jt, dead, notify>>

(* __MGR_thread_join_cleanup on request of a joiner. *)
MgrCleanup ==
  /\ notify = Null /\ pipe # <<>> /\ Head(pipe)[1] = "cleanup"
  /\ pipe' = Tail(pipe)
  /\ listed' = [listed EXCEPT ![Head(pipe)[2]] = FALSE]
  /\ mapped' = [mapped EXCEPT ![Head(pipe)[2]] = FALSE]
  /\ UNCHANGED <<pc, target, pending, hasJoined, state, detached, joined, jt, dead, notify>>

(* waitpid: a detached thread is cleaned up at once, another one is marked *)
(* dead; one that is no longer listed is ignored.                          *)
MgrReap(m) ==
  /\ notify = Null /\ state[m] = "zombie"
  /\ state' = [state EXCEPT ![m] = "reaped"]
  /\ LET reclaim == listed[m] /\ detached[m]
         keep    == listed[m] /\ ~detached[m]
     IN  /\ listed' = [listed EXCEPT ![m] = keep]
         /\ mapped' = [mapped EXCEPT ![m] = @ /\ ~reclaim]
         /\ dead' = [dead EXCEPT ![m] = @ \/ keep]
         /\ notify' = IF keep THEN m ELSE Null
  /\ UNCHANGED <<pc, target, pending, hasJoined, detached, joined, jt, pipe>>

(* if (td->joined...) __thread_restart(td->jt), after UNLOCK(td) *)
MgrNotify ==
  /\ notify # Null
  /\ pending' = [c \in Clients |->
                   IF joined[notify] /\ c = jt[notify] THEN pending[c] + 1 ELSE pending[c]]
  /\ notify' = Null
  /\ UNCHANGED <<pc, target, hasJoined, threadVars, pipe>>

-----------------------------------------------------------------------------
ClientStep(c) == CreateReturn(c) \/ JoinCheck(c) \/ JoinWake(c) \/ JoinCollect(c)

Manager == MgrStart \/ MgrCleanup \/ MgrNotify \/ \E m \in Managed : MgrReap(m)

Next ==
  \/ \E c \in Clients :
       \/ \E m \in Managed :
            \/ \E d \in BOOLEAN : Create(c, m, d)
            \/ Join(c, m)
            \/ Detach(c, m)
       \/ ClientStep(c)
  \/ \E m \in Managed : ThreadRun(m) \/ ThreadExit(m)
  \/ Manager

Spec == Init /\ [][Next]_vars

(* The kernel schedules every thread; the manager polls at least every     *)
(* 30 ms.  A thread function need not end.                                 *)
FairSpec ==
  /\ Spec
  /\ \A c \in Clients : WF_vars(ClientStep(c))
  /\ \A m \in Managed : WF_vars(ThreadRun(m))
  /\ WF_vars(MgrStart \/ MgrCleanup \/ MgrNotify)
  /\ \A m \in Managed : WF_vars(MgrReap(m))

-----------------------------------------------------------------------------
(* Properties.                                                             *)

(* Types, and the number of restarts that can be queued at once. *)
TypeOK ==
  /\ pc \in [Clients -> {"idle", "creating", "check", "joining", "collect"}]
  /\ target \in [Clients -> Managed \cup {Null}]
  /\ pending \in [Clients -> Nat]
  /\ hasJoined \in [Clients -> BOOLEAN]
  /\ state \in [Managed -> {"none", "asked", "failed", "born", "run", "zombie", "reaped"}]
  /\ listed \in [Managed -> BOOLEAN]
  /\ mapped \in [Managed -> BOOLEAN]
  /\ detached \in [Managed -> BOOLEAN]
  /\ joined \in [Managed -> BOOLEAN]
  /\ jt \in [Managed -> Clients \cup {Null}]
  /\ dead \in [Managed -> BOOLEAN]
  /\ pipe \in Seq({"start", "cleanup"} \X Managed)
  /\ notify \in Managed \cup {Null}

(* pthread_join.c:22 "wait for thread to exit": a joiner reads the return  *)
(* value of a thread that is dead.                                         *)
JoinWaits == \A c \in Clients : pc[c] = "collect" => dead[target[c]]

(* The stack of a thread that was let loose stays mapped until the thread  *)
(* is gone, whoever joins or detaches it.                                  *)
StackInUse == \A m \in Managed : state[m] \in {"born", "run", "zombie"} => mapped[m]

(* The manager never reads a start request from the stack of a creator     *)
(* that has already returned.                                              *)
RequestInPlace ==
  \A i \in DOMAIN pipe :
    pipe[i][1] = "start" =>
      \E c \in Clients : pc[c] = "creating" /\ target[c] = pipe[i][2] /\ pending[c] = 0

(* A stack is unmapped once only: when a cleanup is asked for, the thread  *)
(* is still listed and nobody else has asked.                              *)
CleanedOnce ==
  \A i \in DOMAIN pipe :
    pipe[i][1] = "cleanup" =>
      /\ listed[pipe[i][2]] /\ mapped[pipe[i][2]] /\ ~detached[pipe[i][2]]
      /\ \A j \in DOMAIN pipe : pipe[j] = pipe[i] => i = j

(* pthread_join returns once the thread has ended, wherever between the    *)
(* joiner's steps the manager marks it dead.                               *)
JoinReturns ==
  \A c \in Clients :
    pc[c] \in {"check", "joining"} /\ state[target[c]] \in {"zombie", "reaped"} ~> pc[c] = "idle"

(* No stack is read or unmapped at a wrong time: the one of a creator with *)
(* its request, of a thread that is not gone, of one that was cleaned up   *)
(* already.                                                                *)
StacksSafe == TypeOK /\ StackInUse /\ RequestInPlace /\ CleanedOnce
=============================================================================
