----------------------------- MODULE PthreadSem -----------------------------
(***************************************************************************)
(* libpthread semaphores: pthread_semaphore_{init,wait,trywait,post}.c,    *)
(* composed with the condition variable and the mutex inside sem_t         *)
(* (PthreadCond).  Posts from signal handlers, which go through the        *)
(* manager thread, and cancellation in sem_wait are left out.              *)
(***************************************************************************)
EXTENDS PthreadCond

CONSTANTS InitialValues,  \* the values sem_init is called with
          SemValueMax     \* SEM_VALUE_MAX

VARIABLES value,   \* sem->value
          op       \* op[t]: the semaphore call t is in, or "none"

semVars == <<vars, value, op>>

SemInit ==
  /\ Init
  /\ value \in InitialValues
  /\ op = [t \in Threads |-> "none"]

(* pthread_mutex_lock(&sem->lock) *)
SemCall(t, o) ==
  /\ MutexLock(t)
  /\ op' = [op EXCEPT ![t] = o]
  /\ UNCHANGED value

(* sem->value--, or EAGAIN, and pthread_mutex_unlock(&sem->lock) *)
SemTake(t) ==
  /\ op[t] \in {"wait", "trywait"} /\ MutexUnlock(t)
  /\ \/ value > 0 /\ value' = value - 1
     \/ value = 0 /\ op[t] = "trywait" /\ UNCHANGED value
  /\ op' = [op EXCEPT ![t] = "none"]

(* pthread_cond_wait(&sem->cond,&sem->lock) *)
SemBlock(t) ==
  /\ op[t] = "wait" /\ value = 0
  /\ Enqueue(t, FALSE)
  /\ UNCHANGED <<value, op>>

(* __MGR_sem_post: a waiter is restarted only when the value is 0; at      *)
(* SEM_VALUE_MAX the call reports ERANGE.                                  *)
SemPost(t) ==
  /\ op[t] = "post" /\ pc[t] = "in"
  /\ \/ /\ value = 0 /\ next[Cond] # Null
        /\ Restart({next[Cond]})
        /\ UNCHANGED <<next, prev, holder, timed, canceled>>
     \/ /\ value # 0 \/ next[Cond] = Null
        /\ UNCHANGED vars
  /\ value' = IF value < SemValueMax THEN value + 1 ELSE value
  /\ op' = [op EXCEPT ![t] = "posted"]

SemPosted(t) ==
  /\ op[t] = "posted" /\ MutexUnlock(t)
  /\ op' = [op EXCEPT ![t] = "none"]
  /\ UNCHANGED value

SemStep(t) ==
  \/ SemTake(t) \/ SemBlock(t) \/ SemPost(t) \/ SemPosted(t)
  \/ /\ Suspend(t) \/ Test(t) \/ Doze(t) \/ Wake(t) \/ Relock(t) \/ Unlink(t)
     /\ UNCHANGED <<value, op>>

SemNext ==
  \E t \in Threads :
    \/ \E o \in {"wait", "trywait", "post"} : SemCall(t, o)
    \/ SemStep(t)

SemSpec == SemInit /\ [][SemNext]_semVars

-----------------------------------------------------------------------------
(* pthread_semaphore_post.c:8 "this is a pthread_cond_signal + semaphore   *)
(* handling": each sem_post lets one waiter go.  So nobody is left asleep  *)
(* beside a positive value, unless somebody who will look at the value is  *)
(* in a call or was restarted.                                             *)
NobodyStranded ==
  value > 0 /\ (\E u \in Threads : pc[u] = "asleep" /\ pending[u] = 0) =>
    \E t \in Threads :
      \/ op[t] # "none" /\ pc[t] \in {"in", "relock", "unlink"}
      \/ pc[t] \in Waiting /\ pending[t] > 0
=============================================================================
