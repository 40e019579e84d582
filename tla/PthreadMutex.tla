---------------------------- MODULE PthreadMutex ----------------------------
(***************************************************************************)
(* libpthread mutexes: pthread_mutex_{init,lock,trylock,unlock}.c over the *)
(* test-and-set lock of pthread_spinlock.c (built with NO_CAS).            *)
(*                                                                         *)
(* All calls begin with a read of mutex->owner that nothing protects       *)
(* ("check"); only then is the spin lock taken or given back.  count is    *)
(* touched by the owner alone, so it changes together with the read or the *)
(* write of owner.  Stores become visible in program order (x86).          *)
(***************************************************************************)
EXTENDS Naturals

CONSTANTS Threads,      \* the thread descriptors
          NoThread,     \* owner==0
          CountRange,   \* 2^32: count is an unsigned int
          MaxDepth      \* bound: how deep a client nests a recursive mutex

ASSUME PthreadMutexAssumption ==
  /\ NoThread \notin Threads
  /\ CountRange \in Nat /\ CountRange > 1
  /\ MaxDepth \in 1 .. CountRange

VARIABLES spin,    \* mutex->lock.__spinlock is PTHREAD_SPIN_LOCKED
          owner,   \* mutex->owner
          count,   \* mutex->count
          kind,    \* mutex->kind
          pc,      \* pc[t]: the next step of t
          call,    \* call[t]: the call t is in, or "none"
          depth    \* depth[t]: locks granted to t and not given back; a fast
                   \*   mutex that its owner locks again is not granted twice

vars == <<spin, owner, count, kind, pc, call, depth>>

Kinds     == {"fast", "recursive", "errorcheck"}
LockCalls == {"lock", "trylock"}

Init ==
  /\ spin = FALSE
  /\ owner = NoThread
  /\ count = 0
  /\ kind \in Kinds
  /\ pc = [t \in Threads |-> "idle"]
  /\ call = [t \in Threads |-> "none"]
  /\ depth = [t \in Threads |-> 0]

Goto(t, l) == pc' = [pc EXCEPT ![t] = l] /\ UNCHANGED call

Return(t) ==
  /\ pc' = [pc EXCEPT ![t] = "idle"]
  /\ call' = [call EXCEPT ![t] = "none"]

(* ++(mutex->count) and --(mutex->count) of an unsigned int. *)
Inc(c) == IF c = CountRange - 1 THEN 0 ELSE c + 1
Dec(c) == IF c = 0 THEN CountRange - 1 ELSE c - 1

(* Any thread may call anything; the client only does not nest deeper than *)
(* MaxDepth.                                                               *)
Call(t, c) ==
  /\ pc[t] = "idle"
  /\ c \in LockCalls => depth[t] < MaxDepth \/ kind # "recursive"
  /\ pc' = [pc EXCEPT ![t] = "check"]
  /\ call' = [call EXCEPT ![t] = c]
  /\ UNCHANGED <<spin, owner, count, kind, depth>>

-----------------------------------------------------------------------------
(* pthread_mutex_lock and pthread_mutex_trylock.                           *)

(* Mutant: a recursive lock is granted without being counted. *)
LockCheckUncounted(t) ==
  /\ pc[t] = "check" /\ call[t] \in LockCalls
  /\ \/ owner # t /\ Goto(t, "spin") /\ UNCHANGED <<count, depth>>
     \/ /\ owner = t /\ kind # "errorcheck" /\ Return(t)
        /\ depth' = IF kind = "recursive" THEN [depth EXCEPT ![t] = @ + 1] ELSE depth
        /\ UNCHANGED count
     \/ owner = t /\ kind = "errorcheck" /\ Goto(t, "edeadlk") /\ UNCHANGED <<count, depth>>
  /\ UNCHANGED <<spin, owner, kind>>

LockCheck(t) ==
  /\ pc[t] = "check" /\ call[t] \in LockCalls
  /\ \/ owner # t /\ Goto(t, "spin") /\ UNCHANGED <<count, depth>>
     \/ owner = t /\ kind = "errorcheck" /\ Goto(t, "edeadlk") /\ UNCHANGED <<count, depth>>
     \/ owner = t /\ kind = "fast" /\ Return(t) /\ UNCHANGED <<count, depth>>
     \/ /\ owner = t /\ kind = "recursive" /\ Return(t)
        /\ count' = Inc(count)
        /\ depth' = [depth EXCEPT ![t] = @ + 1]
  /\ UNCHANGED <<spin, owner, kind>>

(* Mutant: the result of TRYLOCK is ignored. *)
SpinIgnored(t) ==
  /\ pc[t] = "spin"
  /\ ~spin \/ call[t] = "trylock"
  /\ spin' = TRUE
  /\ Goto(t, "own")
  /\ UNCHANGED <<owner, count, kind, depth>>

(* LOCK spins until its test-and-set finds the lock free; TRYLOCK tests    *)
(* once and reports EBUSY.                                                 *)
Spin(t) ==
  /\ pc[t] = "spin"
  /\ \/ ~spin /\ spin' = TRUE /\ Goto(t, "own")
     \/ spin /\ call[t] = "trylock" /\ Return(t) /\ UNCHANGED spin
  /\ UNCHANGED <<owner, count, kind, depth>>

Own(t) ==
  /\ pc[t] = "own"
  /\ owner' = t
  /\ count' = IF kind = "recursive" THEN 1 ELSE 0
  /\ depth' = [depth EXCEPT ![t] = @ + 1]
  /\ Return(t)
  /\ UNCHANGED <<spin, kind>>

-----------------------------------------------------------------------------
(* pthread_mutex_unlock, by any thread.                                    *)

UnlockCheck(t) ==
  /\ pc[t] = "check" /\ call[t] = "unlock"
  /\ \/ /\ owner = t /\ kind = "recursive"
        /\ count' = Dec(count)
        /\ depth' = [depth EXCEPT ![t] = @ - 1]
        /\ IF count' # 0 THEN Return(t) ELSE Goto(t, "clear")
     \/ /\ owner = t /\ kind # "recursive"
        /\ depth' = [depth EXCEPT ![t] = @ - 1]
        /\ Goto(t, "clear")
        /\ UNCHANGED count
     \/ owner # t /\ kind = "errorcheck" /\ Goto(t, "eperm") /\ UNCHANGED <<count, depth>>
     \/ owner # t /\ kind # "errorcheck" /\ Return(t) /\ UNCHANGED <<count, depth>>
  /\ UNCHANGED <<spin, owner, kind>>

(* Mutant: owner is left as it is. *)
ClearForgotten(t) ==
  /\ pc[t] = "clear"
  /\ Goto(t, "unlock")
  /\ UNCHANGED <<spin, owner, count, kind, depth>>

(* mutex->owner=0 *)
Clear(t) ==
  /\ pc[t] = "clear"
  /\ owner' = NoThread
  /\ Goto(t, "unlock")
  /\ UNCHANGED <<spin, count, kind, depth>>

(* UNLOCK(mutex) *)
Release(t) ==
  /\ pc[t] = "unlock"
  /\ spin' = FALSE
  /\ Return(t)
  /\ UNCHANGED <<owner, count, kind, depth>>

(* EDEADLK or EPERM is returned. *)
Refuse(t) ==
  /\ pc[t] \in {"edeadlk", "eperm"}
  /\ Return(t)
  /\ UNCHANGED <<spin, owner, count, kind, depth>>

-----------------------------------------------------------------------------
Step(t) ==
  \/ LockCheck(t) \/ Spin(t) \/ Own(t)
  \/ UnlockCheck(t) \/ Clear(t) \/ Release(t) \/ Refuse(t)

Next ==
  \E t \in Threads :
    \/ \E c \in LockCalls \cup {"unlock"} : Call(t, c)
    \/ Step(t)

Spec == Init /\ [][Next]_vars

FairSpec == Spec /\ \A t \in Threads : WF_vars(Step(t))

-----------------------------------------------------------------------------
(* Properties.                                                             *)

(* Types, and the range of the unsigned count. *)
TypeOK ==
  /\ spin \in BOOLEAN
  /\ owner \in Threads \cup {NoThread}
  /\ count \in 0 .. CountRange - 1
  /\ kind \in Kinds
  /\ pc \in [Threads -> {"idle", "check", "spin", "own", "clear", "unlock", "edeadlk", "eperm"}]
  /\ call \in [Threads -> LockCalls \cup {"unlock", "none"}]
  /\ depth \in [Threads -> 0 .. MaxDepth]

(* The unprotected read of owner tells each thread the truth about itself: *)
(* whenever t is about to make it, owner is t exactly if t holds the       *)
(* mutex, whatever the other threads are doing to owner at the moment.     *)
OwnerTrusted ==
  \A t \in Threads : pc[t] \in {"idle", "check"} => (owner = t <=> depth[t] > 0)

(* EDEADLK is the answer to the holder only, EPERM to a non-holder only.   *)
RefusalsJust ==
  \A t \in Threads :
    /\ pc[t] = "edeadlk" => depth[t] > 0
    /\ pc[t] = "eperm" => depth[t] = 0

(* count is the nesting depth of the holder of a recursive mutex (modulo   *)
(* its width), and 0 is reached by the last unlock only.                   *)
NestingCounted ==
  \A t \in Threads :
    kind = "recursive" /\ depth[t] > 0 =>
      count = IF depth[t] = CountRange THEN 0 ELSE depth[t]

Abstract == INSTANCE MutexSpec WITH held <- depth

(* Mutexes of all three kinds implement the abstract mutex, even when      *)
(* threads unlock mutexes they do not hold.                                *)
ImplementsMutex == Abstract!Spec

(* When nobody holds the mutex and pthread_mutex_lock spins for it,        *)
(* somebody gets it: pthread_mutex_unlock frees the spin lock for good.    *)
HandedOn ==
  /\ \A t \in Threads : depth[t] = 0
  /\ \E t \in Threads : pc[t] = "spin" /\ call[t] = "lock"
  ~> \E t \in Threads : depth[t] > 0
=============================================================================
