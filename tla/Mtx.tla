-------------------------------- MODULE Mtx --------------------------------
(***************************************************************************)
(* C11 mutexes: lib/mtx_{init,lock,timedlock,trylock,unlock}.c.            *)
(*                                                                         *)
(* One mutex, shared by Threads.  Every __sync_* operation, every read or  *)
(* write of a field another thread uses, and every futex call is one       *)
(* action; pc[t] says what t does next.  The futex queue of &mutex->lock   *)
(* is the set of threads at "asleep".                                      *)
(***************************************************************************)
EXTENDS Naturals

CONSTANTS Threads,         \* the thrd_t of the running threads
          NoThread,        \* owner before the first lock and after a clear
          RecursionLimit   \* 1000 in the code

ASSUME MtxAssumption ==
  /\ NoThread \notin Threads
  /\ RecursionLimit \in Nat \ {0}

VARIABLES lock,    \* mutex->lock: 0 free, else the count of the holder
          owner,   \* mutex->owner
          type,    \* mutex->type: mtx_plain (mtx_timed is the same) or mtx_recursive
          pc,      \* pc[t]: the next step of t
          how,     \* how[t]: the lock call t is in, or "none"
          seen,    \* seen[t]: the lock value t's failed trylock read ("i")
          depth    \* depth[t]: locks t was granted and has not begun to undo

vars == <<lock, owner, type, pc, how, seen, depth>>

LockCalls   == {"trylock", "lock", "timedlock"}
LockSteps   == {"cas", "setowner", "isowner", "add", "undo", "wait", "asleep"}
UnlockSteps == {"mine", "sub", "clear", "release", "wake"}

Sleepers == {t \in Threads : pc[t] = "asleep"}

Goto(t, l) == pc' = [pc EXCEPT ![t] = l]

(* The call returns: its local variables are gone. *)
Return(t) ==
  /\ Goto(t, "idle")
  /\ how' = [how EXCEPT ![t] = "none"]
  /\ seen' = [seen EXCEPT ![t] = 0]

(* mtx_init, and the client's choice of a type.  mtx_init leaves owner as   *)
(* it finds it.  A plain mutex never looks at it; a recursive one is        *)
(* assumed to lie in memory (static, or zeroed) where it names no thread.   *)
Init ==
  /\ lock = 0
  /\ type \in {"plain", "recursive"}
  /\ owner \in IF type = "plain" THEN Threads \cup {NoThread} ELSE {NoThread}
  /\ pc = [t \in Threads |-> "idle"]
  /\ how = [t \in Threads |-> "none"]
  /\ seen = [t \in Threads |-> 0]
  /\ depth = [t \in Threads |-> 0]

-----------------------------------------------------------------------------
(* Locking.  C11 forbids mtx_lock and mtx_timedlock, but not mtx_trylock,  *)
(* on a plain mutex the caller holds.                                      *)

Call(t, c) ==
  /\ pc[t] = "idle"
  /\ c # "trylock" /\ type = "plain" => depth[t] = 0
  /\ how' = [how EXCEPT ![t] = c]
  /\ Goto(t, "cas")
  /\ UNCHANGED <<lock, owner, type, seen, depth>>

(* thrd_busy: mtx_trylock returns it, mtx_timedlock goes on to wait for a   *)
(* change of i, the value of the lock word that __mtx_trylock read.         *)
Busy(t, i) ==
  \/ how[t] = "trylock" /\ Return(t)
  \/ /\ how[t] # "trylock"
     /\ Goto(t, "wait")
     /\ seen' = [seen EXCEPT ![t] = i]
     /\ UNCHANGED how

(* __sync_val_compare_and_swap(&mutex->lock,0,1) *)
TrylockCas(t) ==
  /\ pc[t] = "cas"
  /\ \/ /\ lock = 0
        /\ lock' = 1
        /\ Goto(t, "setowner")
        /\ UNCHANGED <<how, seen>>
     \/ /\ lock # 0 /\ type = "recursive"
        /\ seen' = [seen EXCEPT ![t] = lock]
        /\ Goto(t, "isowner")
        /\ UNCHANGED <<lock, how>>
     \/ /\ lock # 0 /\ type = "plain"
        /\ Busy(t, lock)
        /\ UNCHANGED lock
  /\ UNCHANGED <<owner, type, depth>>

SetOwner(t) ==
  /\ pc[t] = "setowner"
  /\ owner' = t
  /\ depth' = [depth EXCEPT ![t] = @ + 1]
  /\ Return(t)
  /\ UNCHANGED <<lock, type>>

(* Mutant: a recursive mutex is taken for the caller's own. *)
IsOwnerUnchecked(t) ==
  /\ pc[t] = "isowner"
  /\ Goto(t, "add")
  /\ UNCHANGED <<lock, owner, type, how, seen, depth>>

IsOwner(t) ==
  /\ pc[t] = "isowner"
  /\ \/ owner = t /\ Goto(t, "add") /\ UNCHANGED <<how, seen>>
     \/ owner # t /\ Busy(t, seen[t])
  /\ UNCHANGED <<lock, owner, type, depth>>

(* One level more, or, past the limit, "undo" it and return thrd_error. *)
TrylockAdd(t) ==
  /\ pc[t] = "add"
  /\ lock' = lock + 1
  /\ \/ /\ lock' > RecursionLimit
        /\ Goto(t, "undo")
        /\ UNCHANGED <<how, seen, depth>>
     \/ /\ lock' <= RecursionLimit
        /\ depth' = [depth EXCEPT ![t] = @ + 1]
        /\ Return(t)
  /\ UNCHANGED <<owner, type>>

TrylockUndo(t) ==
  /\ pc[t] = "undo"
  /\ lock' = lock - 1
  /\ Return(t)
  /\ UNCHANGED <<owner, type, depth>>

(* Mutant: FUTEX_WAIT without the comparison. *)
FutexWaitBlindly(t) ==
  /\ pc[t] = "wait"
  /\ Goto(t, "asleep")
  /\ UNCHANGED <<lock, owner, type, how, seen, depth>>

(* FUTEX_WAIT: the kernel compares and enqueues atomically; a changed value *)
(* is EWOULDBLOCK and mtx_timedlock tries again.                            *)
FutexWait(t) ==
  /\ pc[t] = "wait"
  /\ Goto(t, IF lock = seen[t] THEN "asleep" ELSE "cas")
  /\ UNCHANGED <<lock, owner, type, how, seen, depth>>

(* EINTR: mtx_timedlock waits again, for the value it saw before. *)
FutexInterrupt(t) ==
  /\ pc[t] = "asleep"
  /\ Goto(t, "wait")
  /\ UNCHANGED <<lock, owner, type, how, seen, depth>>

(* ETIMEDOUT: mtx_timedlock returns thrd_timedout. *)
FutexTimeout(t) ==
  /\ pc[t] = "asleep" /\ how[t] = "timedlock"
  /\ Return(t)
  /\ UNCHANGED <<lock, owner, type, depth>>

-----------------------------------------------------------------------------
(* Unlocking, by a thread that holds the mutex: depth[t] is what it is     *)
(* entitled to release.                                                    *)

AfterCheck ==
  IF lock = 0 THEN "idle" ELSE IF type = "recursive" THEN "mine" ELSE "release"

Unlock(t) ==
  /\ pc[t] = "idle" /\ depth[t] > 0
  /\ depth' = [depth EXCEPT ![t] = @ - 1]
  /\ Goto(t, AfterCheck)
  /\ UNCHANGED <<lock, owner, type, how, seen>>

UnlockMine(t) ==
  /\ pc[t] = "mine"
  /\ Goto(t, IF owner = t THEN "sub" ELSE "release")
  /\ UNCHANGED <<lock, owner, type, how, seen, depth>>

(* Mutant: the last level is released like the others, without a wake-up. *)
UnlockSubSilently(t) ==
  /\ pc[t] = "sub"
  /\ lock' = lock - 1
  /\ Goto(t, "idle")
  /\ UNCHANGED <<owner, type, how, seen, depth>>

UnlockSub(t) ==
  /\ pc[t] = "sub"
  /\ lock' = lock - 1
  /\ Goto(t, IF lock' = 0 THEN "clear" ELSE "idle")
  /\ UNCHANGED <<owner, type, how, seen, depth>>

(* mutex->owner=0 "cosmetic; not really needed" *)
UnlockClear(t) ==
  /\ pc[t] = "clear"
  /\ owner' = NoThread
  /\ Goto(t, "wake")
  /\ UNCHANGED <<lock, type, how, seen, depth>>

(* Mutant: a store of 0 instead of the compare-and-swap. *)
UnlockStore(t) ==
  /\ pc[t] = "release"
  /\ lock' = 0
  /\ Goto(t, "wake")
  /\ UNCHANGED <<owner, type, how, seen, depth>>

(* __sync_val_compare_and_swap(&mutex->lock,1,0); thrd_success either way. *)
UnlockCas(t) ==
  /\ pc[t] = "release"
  /\ \/ lock = 1 /\ lock' = 0 /\ Goto(t, "wake")
     \/ lock # 1 /\ UNCHANGED lock /\ Goto(t, "idle")
  /\ UNCHANGED <<owner, type, how, seen, depth>>

(* FUTEX_WAKE 1: the woken thread runs __mtx_trylock again. *)
FutexWake(t) ==
  /\ pc[t] = "wake"
  /\ \/ /\ Sleepers = {}
        /\ Goto(t, "idle")
     \/ \E s \in Sleepers : pc' = [pc EXCEPT ![t] = "idle", ![s] = "cas"]
  /\ UNCHANGED <<lock, owner, type, how, seen, depth>>

-----------------------------------------------------------------------------
(* The steps the scheduler owes a running thread once it is in a call. *)
Step(t) ==
  \/ TrylockCas(t) \/ SetOwner(t) \/ IsOwner(t) \/ TrylockAdd(t) \/ TrylockUndo(t)
  \/ FutexWait(t)
  \/ UnlockMine(t) \/ UnlockSub(t) \/ UnlockClear(t) \/ UnlockCas(t) \/ FutexWake(t)

Next ==
  \E t \in Threads :
    \/ \E c \in LockCalls : Call(t, c)
    \/ Unlock(t)
    \/ FutexInterrupt(t) \/ FutexTimeout(t)
    \/ Step(t)

Spec == Init /\ [][Next]_vars

FairSpec == Spec /\ \A t \in Threads : WF_vars(Step(t))

-----------------------------------------------------------------------------
(* Properties.                                                             *)

(* Types, and the bounds that __mtx_trylock's limit keeps: the lock word   *)
(* passes the limit only by the one level that is being undone.            *)
TypeOK ==
  /\ lock \in 0 .. RecursionLimit + 1
  /\ owner \in Threads \cup {NoThread}
  /\ type \in {"plain", "recursive"}
  /\ pc \in [Threads -> {"idle"} \cup LockSteps \cup UnlockSteps]
  /\ how \in [Threads -> LockCalls \cup {"none"}]
  /\ seen \in [Threads -> Nat]
  /\ depth \in [Threads -> 0 .. RecursionLimit]

(* No two threads hold the mutex, of either type, at the same time: what   *)
(* mtx_lock and mtx_unlock are for, whatever owner says at the moment.     *)
MutualExclusion ==
  \A t, u \in Threads : depth[t] > 0 /\ depth[u] > 0 => t = u

(* mtx_unlock calls FUTEX_WAKE for one thread only, and only after it has  *)
(* freed the lock word.  Whenever the word is free and somebody sleeps on  *)
(* it, a wake-up is still to come or a thread is awake to take the mutex   *)
(* and wake the next one when it unlocks it.                               *)
NoLostWakeup ==
  lock = 0 /\ Sleepers # {} => \E t \in Threads : pc[t] \in {"clear", "wake", "cas"}

(* The same as a liveness property, with every running thread scheduled:   *)
(* a free mutex is not left free while threads sleep on it.                *)
SleeperServed == lock = 0 /\ Sleepers # {} ~> lock # 0 \/ Sleepers = {}

Abstract == INSTANCE MutexSpec WITH held <- depth

(* Both types of C11 mutex implement the abstract mutex. *)
ImplementsMutex == Abstract!Spec

(* mtx_unlock.c:14 calls the store of owner "cosmetic; not really needed": *)
(* if it is, the holder of a recursive mutex that is between two calls     *)
(* finds itself in owner, which is what lets it lock the mutex again.      *)
HolderIsOwner ==
  \A t \in Threads :
    type = "recursive" /\ depth[t] > 0 /\ pc[t] = "idle" => owner = t
=============================================================================
