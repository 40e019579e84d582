----------------------------- MODULE C11Proofs -----------------------------
(***************************************************************************)
(* Proofs about the C11 threads library.                                   *)
(*                                                                         *)
(* Mtx: the mutex is safe for every set of threads and every recursion     *)
(* limit: its bounds, mutual exclusion, no lost wake-up, and the           *)
(* refinement of MutexSpec.                                                *)
(*                                                                         *)
(* Thrd: however thrd_exit, thrd_join and thrd_detach interleave, and      *)
(* however many signals come, a join that succeeds has the thread's result *)
(* and nobody unmaps the thread's memory under it.                         *)
(***************************************************************************)
EXTENDS Mtx, Thrd, TLAPS

-----------------------------------------------------------------------------
(* The mutex.                                                              *)

(* The steps of a thread that owns one level of the lock word more than    *)
(* depth says: it was granted but not yet reported, is being undone, or is *)
(* being given back.                                                       *)
Claiming == {"setowner", "undo", "mine", "sub", "release"}

Claim(t) == depth[t] + IF pc[t] \in Claiming THEN 1 ELSE 0

(* The lock word covers what each thread claims.  It may be larger: when   *)
(* owner was wiped, mtx_unlock of a nested level releases nothing.         *)
Covered == \A t \in Threads : lock >= Claim(t)

OneClaimant == \A t, u \in Threads : Claim(t) > 0 /\ Claim(u) > 0 => t = u

(* What the program counter of a thread implies. *)
StepsOK ==
  \A t \in Threads :
    /\ pc[t] = "setowner" => lock = 1
    /\ pc[t] \in {"add", "undo"} => depth[t] > 0
    /\ pc[t] \in {"isowner", "wait", "asleep"} => seen[t] # 0
    /\ pc[t] \in {"isowner", "add", "undo", "mine", "sub", "clear"} => type = "recursive"
    /\ pc[t] = "release" /\ type = "recursive" => owner # t

(* A recursive mutex that names t as its owner is held by t alone and      *)
(* counts exactly the levels of t, until mtx_unlock is about to clear it.  *)
OwnerOK ==
  \A t \in Threads :
    type = "recursive" /\ owner = t =>
      \/ pc[t] = "clear"
      \/ Claim(t) > 0 /\ lock = Claim(t)

LimitOK == lock <= RecursionLimit \/ \E u \in Threads : pc[u] = "undo"

IInv ==
  /\ TypeOK /\ Covered /\ OneClaimant /\ StepsOK /\ OwnerOK /\ LimitOK
  /\ NoLostWakeup

-----------------------------------------------------------------------------
(* The invariant holds initially. *)
LEMMA InitIInv == Init => IInv
BY MtxAssumption
   DEF Init, IInv, TypeOK, Covered, OneClaimant, StepsOK, OwnerOK, LimitOK,
       NoLostWakeup, Claim, Claiming, Sleepers, LockSteps, UnlockSteps, LockCalls

(* Every action preserves the invariant: first the types and bounds, then  *)
(* who claims the lock word, then what the other parts say.                *)
LEMMA NextIInv == IInv /\ [Next]_vars => IInv'
<1> SUFFICES ASSUME IInv, [Next]_vars PROVE IInv'
  OBVIOUS
<1> USE MtxAssumption DEF IInv
<1>1. ASSUME NEW t \in Threads, NEW c \in LockCalls, Call(t, c) PROVE IInv'
  <2>1. TypeOK'
    BY <1>1 DEF Call, Goto, TypeOK, LockSteps
  <2>2. Covered' /\ OneClaimant'
    BY <1>1, <2>1 DEF Call, Goto, TypeOK, Covered, OneClaimant, Claim, Claiming
  <2>3. StepsOK' /\ OwnerOK' /\ LimitOK' /\ NoLostWakeup'
    BY <1>1, <2>1 DEF Call, Goto, TypeOK, StepsOK, OwnerOK, LimitOK, NoLostWakeup,
                      Sleepers, Claim, Claiming
  <2>4. QED BY <2>1, <2>2, <2>3
<1>2. ASSUME NEW t \in Threads, TrylockCas(t) PROVE IInv'
  <2>1. TypeOK'
    BY <1>2 DEF TrylockCas, Goto, Busy, Return, TypeOK, LockSteps, UnlockSteps
  <2>2. Covered' /\ OneClaimant'
    BY <1>2, <2>1 DEF TrylockCas, Goto, Busy, Return, TypeOK, Covered, OneClaimant, StepsOK, OwnerOK,
                      Claim, Claiming
  <2>3. StepsOK' /\ OwnerOK' /\ LimitOK' /\ NoLostWakeup'
    BY <1>2, <2>1, <2>2 DEF TrylockCas, Goto, Busy, Return, TypeOK, Covered, OneClaimant, StepsOK, OwnerOK,
                      LimitOK, NoLostWakeup, Sleepers, Claim, Claiming
  <2>4. QED BY <2>1, <2>2, <2>3
<1>3. ASSUME NEW t \in Threads, SetOwner(t) PROVE IInv'
  <2>1. TypeOK'
    <3>1. lock <= RecursionLimit
      BY <1>3 DEF SetOwner, TypeOK, OneClaimant, LimitOK, Claim, Claiming
    <3>2. depth[t] + 1 <= lock
      BY <1>3 DEF SetOwner, Covered, Claim, Claiming
    <3>3. QED
      BY <1>3, <3>1, <3>2 DEF SetOwner, Goto, Return, TypeOK
  <2>2. Covered' /\ OneClaimant'
    BY <1>3, <2>1 DEF SetOwner, Goto, Return, TypeOK, Covered, OneClaimant, StepsOK, OwnerOK,
                      Claim, Claiming
  <2>3. StepsOK' /\ LimitOK' /\ NoLostWakeup'
    BY <1>3, <2>1 DEF SetOwner, Goto, Return, TypeOK, OneClaimant, StepsOK, LimitOK,
                      NoLostWakeup, Sleepers, Claim, Claiming
  <2>4. OwnerOK'
    BY <1>3, <2>1 DEF SetOwner, Goto, Return, TypeOK, StepsOK, OwnerOK, Covered, OneClaimant,
                      Claim, Claiming
  <2>5. QED BY <2>1, <2>2, <2>3, <2>4
<1>4. ASSUME NEW t \in Threads, IsOwner(t) PROVE IInv'
  <2>1. TypeOK'
    BY <1>4 DEF IsOwner, Goto, Busy, Return, TypeOK, LockSteps, UnlockSteps
  <2>2. Covered' /\ OneClaimant'
    BY <1>4, <2>1 DEF IsOwner, Goto, Busy, Return, TypeOK, Covered, OneClaimant, StepsOK, OwnerOK,
                      Claim, Claiming
  <2>3. StepsOK' /\ OwnerOK' /\ LimitOK' /\ NoLostWakeup'
    BY <1>4, <2>1, <2>2 DEF IsOwner, Goto, Busy, Return, TypeOK, Covered, OneClaimant, StepsOK, OwnerOK,
                      LimitOK, NoLostWakeup, Sleepers, Claim, Claiming
  <2>4. QED BY <2>1, <2>2, <2>3
<1>5. ASSUME NEW t \in Threads, TrylockAdd(t) PROVE IInv'
  <2>1. TypeOK'
    BY <1>5 DEF TrylockAdd, Goto, Return, TypeOK, LockSteps, UnlockSteps, Covered, OneClaimant, LimitOK, Claim, Claiming, StepsOK
  <2>2. Covered' /\ OneClaimant'
    BY <1>5, <2>1 DEF TrylockAdd, Goto, Return, TypeOK, Covered, OneClaimant, StepsOK, OwnerOK,
                      Claim, Claiming
  <2>3. StepsOK' /\ OwnerOK' /\ LimitOK' /\ NoLostWakeup'
    BY <1>5, <2>1, <2>2 DEF TrylockAdd, Goto, Return, TypeOK, Covered, OneClaimant, StepsOK, OwnerOK,
                      LimitOK, NoLostWakeup, Sleepers, Claim, Claiming
  <2>4. QED BY <2>1, <2>2, <2>3
<1>6. ASSUME NEW t \in Threads, TrylockUndo(t) PROVE IInv'
  <2>1. TypeOK'
    BY <1>6 DEF TrylockUndo, Goto, Return, TypeOK, LockSteps, UnlockSteps, Covered, OneClaimant, LimitOK, Claim, Claiming
  <2>2. Covered' /\ OneClaimant'
    BY <1>6, <2>1 DEF TrylockUndo, Goto, Return, TypeOK, Covered, OneClaimant, StepsOK, OwnerOK,
                      Claim, Claiming
  <2>3. StepsOK' /\ OwnerOK' /\ LimitOK' /\ NoLostWakeup'
    BY <1>6, <2>1, <2>2 DEF TrylockUndo, Goto, Return, TypeOK, Covered, OneClaimant, StepsOK, OwnerOK,
                      LimitOK, NoLostWakeup, Sleepers, Claim, Claiming
  <2>4. QED BY <2>1, <2>2, <2>3
<1>7. ASSUME NEW t \in Threads, FutexWait(t) PROVE IInv'
  <2>1. TypeOK'
    BY <1>7 DEF FutexWait, Goto, TypeOK, LockSteps, UnlockSteps
  <2>2. Covered' /\ OneClaimant'
    BY <1>7, <2>1 DEF FutexWait, Goto, TypeOK, Covered, OneClaimant, StepsOK, OwnerOK,
                      Claim, Claiming
  <2>3. StepsOK' /\ OwnerOK' /\ LimitOK' /\ NoLostWakeup'
    BY <1>7, <2>1, <2>2 DEF FutexWait, Goto, TypeOK, Covered, OneClaimant, StepsOK, OwnerOK,
                      LimitOK, NoLostWakeup, Sleepers, Claim, Claiming
  <2>4. QED BY <2>1, <2>2, <2>3
<1>8. ASSUME NEW t \in Threads, FutexInterrupt(t) PROVE IInv'
  <2>1. TypeOK'
    BY <1>8 DEF FutexInterrupt, Goto, TypeOK, LockSteps, UnlockSteps
  <2>2. Covered' /\ OneClaimant'
    BY <1>8, <2>1 DEF FutexInterrupt, Goto, TypeOK, Covered, OneClaimant, StepsOK, OwnerOK,
                      Claim, Claiming
  <2>3. StepsOK' /\ OwnerOK' /\ LimitOK' /\ NoLostWakeup'
    BY <1>8, <2>1, <2>2 DEF FutexInterrupt, Goto, TypeOK, Covered, OneClaimant, StepsOK, OwnerOK,
                      LimitOK, NoLostWakeup, Sleepers, Claim, Claiming
  <2>4. QED BY <2>1, <2>2, <2>3
<1>9. ASSUME NEW t \in Threads, FutexTimeout(t) PROVE IInv'
  <2>1. TypeOK'
    BY <1>9 DEF FutexTimeout, Goto, Return, TypeOK, LockSteps, UnlockSteps
  <2>2. Covered' /\ OneClaimant'
    BY <1>9, <2>1 DEF FutexTimeout, Goto, Return, TypeOK, Covered, OneClaimant, StepsOK, OwnerOK,
                      Claim, Claiming
  <2>3. StepsOK' /\ OwnerOK' /\ LimitOK' /\ NoLostWakeup'
    BY <1>9, <2>1, <2>2 DEF FutexTimeout, Goto, Return, TypeOK, Covered, OneClaimant, StepsOK, OwnerOK,
                      LimitOK, NoLostWakeup, Sleepers, Claim, Claiming
  <2>4. QED BY <2>1, <2>2, <2>3
<1>10. ASSUME NEW t \in Threads, Unlock(t) PROVE IInv'
  <2>1. TypeOK'
    BY <1>10 DEF Unlock, Goto, AfterCheck, TypeOK, LockSteps, UnlockSteps
  <2>2. Covered' /\ OneClaimant'
    BY <1>10, <2>1 DEF Unlock, Goto, AfterCheck, TypeOK, Covered, OneClaimant, StepsOK, OwnerOK,
                      Claim, Claiming
  <2>3. StepsOK' /\ OwnerOK' /\ LimitOK' /\ NoLostWakeup'
    BY <1>10, <2>1, <2>2 DEF Unlock, Goto, AfterCheck, TypeOK, Covered, OneClaimant, StepsOK, OwnerOK,
                      LimitOK, NoLostWakeup, Sleepers, Claim, Claiming
  <2>4. QED BY <2>1, <2>2, <2>3
<1>11. ASSUME NEW t \in Threads, UnlockMine(t) PROVE IInv'
  <2>1. TypeOK'
    BY <1>11 DEF UnlockMine, Goto, TypeOK, LockSteps, UnlockSteps
  <2>2. Covered' /\ OneClaimant'
    BY <1>11, <2>1 DEF UnlockMine, Goto, TypeOK, Covered, OneClaimant, StepsOK, OwnerOK,
                      Claim, Claiming
  <2>3. StepsOK' /\ OwnerOK' /\ LimitOK' /\ NoLostWakeup'
    BY <1>11, <2>1, <2>2 DEF UnlockMine, Goto, TypeOK, Covered, OneClaimant, StepsOK, OwnerOK,
                      LimitOK, NoLostWakeup, Sleepers, Claim, Claiming
  <2>4. QED BY <2>1, <2>2, <2>3
<1>12. ASSUME NEW t \in Threads, UnlockSub(t) PROVE IInv'
  <2>1. TypeOK'
    BY <1>12 DEF UnlockSub, Goto, TypeOK, LockSteps, UnlockSteps, Covered, OneClaimant, LimitOK, Claim, Claiming
  <2>2. Covered' /\ OneClaimant'
    BY <1>12, <2>1 DEF UnlockSub, Goto, TypeOK, Covered, OneClaimant, StepsOK, OwnerOK,
                      Claim, Claiming
  <2>3. StepsOK' /\ OwnerOK' /\ LimitOK' /\ NoLostWakeup'
    BY <1>12, <2>1, <2>2 DEF UnlockSub, Goto, TypeOK, Covered, OneClaimant, StepsOK, OwnerOK,
                      LimitOK, NoLostWakeup, Sleepers, Claim, Claiming
  <2>4. QED BY <2>1, <2>2, <2>3
<1>13. ASSUME NEW t \in Threads, UnlockClear(t) PROVE IInv'
  <2>1. TypeOK'
    BY <1>13 DEF UnlockClear, Goto, TypeOK, LockSteps, UnlockSteps
  <2>2. Covered' /\ OneClaimant'
    BY <1>13, <2>1 DEF UnlockClear, Goto, TypeOK, Covered, OneClaimant, StepsOK, OwnerOK,
                      Claim, Claiming
  <2>3. StepsOK' /\ OwnerOK' /\ LimitOK' /\ NoLostWakeup'
    BY <1>13, <2>1, <2>2 DEF UnlockClear, Goto, TypeOK, Covered, OneClaimant, StepsOK, OwnerOK,
                      LimitOK, NoLostWakeup, Sleepers, Claim, Claiming
  <2>4. QED BY <2>1, <2>2, <2>3
<1>14. ASSUME NEW t \in Threads, UnlockCas(t) PROVE IInv'
  <2>1. TypeOK'
    BY <1>14 DEF UnlockCas, Goto, TypeOK, LockSteps, UnlockSteps, Covered, OneClaimant, LimitOK, Claim, Claiming
  <2>2. Covered' /\ OneClaimant'
    BY <1>14, <2>1 DEF UnlockCas, Goto, TypeOK, Covered, OneClaimant, StepsOK, OwnerOK,
                      Claim, Claiming
  <2>3. StepsOK' /\ OwnerOK' /\ LimitOK' /\ NoLostWakeup'
    BY <1>14, <2>1, <2>2 DEF UnlockCas, Goto, TypeOK, Covered, OneClaimant, StepsOK, OwnerOK,
                      LimitOK, NoLostWakeup, Sleepers, Claim, Claiming
  <2>4. QED BY <2>1, <2>2, <2>3
<1>15. ASSUME NEW t \in Threads, FutexWake(t) PROVE IInv'
  <2>1. TypeOK'
    BY <1>15 DEF FutexWake, Goto, Sleepers, TypeOK, LockSteps, UnlockSteps
  <2>2. Covered' /\ OneClaimant'
    BY <1>15, <2>1 DEF FutexWake, Goto, Sleepers, TypeOK, Covered, OneClaimant, StepsOK, OwnerOK,
                      Claim, Claiming
  <2>3. StepsOK' /\ OwnerOK' /\ LimitOK' /\ NoLostWakeup'
    BY <1>15, <2>1, <2>2 DEF FutexWake, Goto, TypeOK, Covered, OneClaimant, StepsOK, OwnerOK,
                      LimitOK, NoLostWakeup, Sleepers, Claim, Claiming
  <2>4. QED BY <2>1, <2>2, <2>3
<1>16. CASE UNCHANGED vars
  BY <1>16 DEF vars, TypeOK, Covered, OneClaimant, StepsOK, OwnerOK, LimitOK, NoLostWakeup,
              Sleepers, Claim, Claiming
<1>17. QED
  BY <1>1, <1>2, <1>3, <1>4, <1>5, <1>6, <1>7, <1>8, <1>9, <1>10, <1>11, <1>12, <1>13, <1>14, <1>15, <1>16 DEF Next, Step

(* The invariant holds in every reachable state. *)
LEMMA Inductive == Spec => []IInv
<1>1. QED BY InitIInv, NextIInv, PTL DEF Spec

-----------------------------------------------------------------------------
(* mtx_lock, mtx_trylock and mtx_unlock keep the lock word and the levels  *)
(* granted within the recursion limit, for any number of threads.          *)
THEOREM TypeCorrect == Spec => []TypeOK
<1>1. IInv => TypeOK
  BY DEF IInv
<1>2. QED BY <1>1, Inductive, PTL

(* Two threads never hold one C11 mutex, whatever the races on owner did.  *)
THEOREM Exclusion == Spec => []MutualExclusion
<1>1. IInv => MutualExclusion
  BY DEF IInv, TypeOK, OneClaimant, MutualExclusion, Claim
<1>2. QED BY <1>1, Inductive, PTL

(* mtx_unlock's single FUTEX_WAKE suffices: a free lock word with sleepers *)
(* always has a thread under way that will take it or wake one of them.    *)
THEOREM WakeupNotLost == Spec => []NoLostWakeup
<1>1. IInv => NoLostWakeup
  BY DEF IInv
<1>2. QED BY <1>1, Inductive, PTL

(* Every step of the code is an acquisition, a release, or nothing, of the *)
(* abstract mutex.                                                         *)
THEOREM Refinement == Spec => ImplementsMutex
<1>1. Init => Abstract!Init
  BY DEF Init, Abstract!Init
<1>2. IInv /\ [Next]_vars => [Abstract!Next]_depth
  <2> SUFFICES ASSUME IInv, [Next]_vars PROVE [Abstract!Next]_depth
    OBVIOUS
  <2> USE DEF IInv, TypeOK, Abstract!Next
  <2>1. ASSUME NEW t \in Threads, SetOwner(t) PROVE Abstract!Acquire(t)
    BY <2>1 DEF SetOwner, OneClaimant, Claim, Claiming, Abstract!Acquire
  <2>2. ASSUME NEW t \in Threads, TrylockAdd(t) PROVE Abstract!Acquire(t) \/ UNCHANGED depth
    BY <2>2 DEF TrylockAdd, OneClaimant, StepsOK, Claim, Claiming, Abstract!Acquire
  <2>3. ASSUME NEW t \in Threads, Unlock(t) PROVE Abstract!Release(t)
    BY <2>3 DEF Unlock, Abstract!Release
  <2>4. ASSUME NEW t \in Threads, Step(t), ~SetOwner(t), ~TrylockAdd(t)
        PROVE  UNCHANGED depth
    BY <2>4 DEF Step, TrylockCas, IsOwner, TrylockUndo, FutexWait, UnlockMine, UnlockSub,
                UnlockClear, UnlockCas, FutexWake
  <2>5. ASSUME NEW t \in Threads,
               (\E c \in LockCalls : Call(t, c)) \/ FutexInterrupt(t) \/ FutexTimeout(t)
        PROVE  UNCHANGED depth
    BY <2>5 DEF Call, FutexInterrupt, FutexTimeout
  <2>6. CASE UNCHANGED vars
    BY <2>6 DEF vars
  <2>7. QED BY <2>1, <2>2, <2>3, <2>4, <2>5, <2>6 DEF Next
<1>3. QED BY <1>1, <1>2, Inductive, PTL DEF Spec, ImplementsMutex, Abstract!Spec

-----------------------------------------------------------------------------
(* Threads.  JoinSafe is not inductive.  What it leaves out is when the    *)
(* words of *thr that pass between the two get their values: the result    *)
(* before flags|4, flags|2 before arg points to the tail, and the client's *)
(* copy of flags never ahead of them.                                      *)

(* thrd_exit stores res before it touches flags. *)
ResBeforeFlags ==
  /\ tpc \notin {"none", "run"} => res = Result
  /\ TearDown \in flags \/ Exited \in flags => tpc \notin {"none", "run", "or4"}

(* flags|2 comes before arg is moved to the tail, so that nobody can unmap *)
(* the tail of a thread that has not said that it has exited.              *)
ExitedBeforeArg ==
  /\ Exited \in flags => tpc \in {"arg", "memsize", "stack", "gone"}
  /\ arg = "tail" => tpc \in {"memsize", "stack", "gone"}

(* The client's copy of flags is an old value of flags, and only ever      *)
(* lacks bits; it goes on to the join of a dead thread with Exited in it.  *)
CopyBehind ==
  /\ cflags \subseteq flags
  /\ cpc = "dead" => Exited \in cflags

(* A joiner about to read res has been woken by the thread, which had      *)
(* stored it, or finds the tail unmapped and faults.                       *)
WokenLate == cpc = "collect" => res = Result \/ "tail" \notin mapped

(* Nothing is mapped, and there is no thread, before thrd_create. *)
NotCreated == cpc = "start" => tpc = "none"

JoinInv ==
  /\ JoinSafe
  /\ ResBeforeFlags /\ ExitedBeforeArg /\ CopyBehind /\ WokenLate /\ NotCreated

(* The initial state, before thrd_create, satisfies the invariant. *)
LEMMA InitJoinInv == TInit => JoinInv
<1> SUFFICES ASSUME TInit PROVE JoinInv
  OBVIOUS
<1> USE DEF TInit, Detached, Exited, TearDown
<1>1. join_futex \in 0 .. 1 /\ join_wait_futex \in 0 .. 1
  OBVIOUS
<1>2. TTypeOK
  BY <1>1 DEF TTypeOK
<1>3. QED
  BY <1>2 DEF JoinInv, JoinSafe, JoinTruthful, ThreadKeepsMemory, ResBeforeFlags,
              ExitedBeforeArg, CopyBehind, WokenLate, NotCreated

(* No step of the thread, of the client or of a signal breaks it. *)
LEMMA NextJoinInv == JoinInv /\ [TNext]_tvars => JoinInv'
<1> SUFFICES ASSUME JoinInv, [TNext]_tvars PROVE JoinInv'
  OBVIOUS
<1> USE ThrdAssumption
    DEF JoinInv, JoinSafe, TTypeOK, JoinTruthful, ThreadKeepsMemory, ResBeforeFlags,
        ExitedBeforeArg, CopyBehind, WokenLate, NotCreated,
        Detached, Exited, TearDown, thr, mem, thrd, cli, Touch
<1>1. CASE Create /\ UNCHANGED signals
  BY <1>1 DEF Create
<1>2. CASE CreateReturn /\ UNCHANGED signals
  BY <1>2 DEF CreateReturn
<1>3. CASE (ReadFlags("join") \/ ReadFlags("detach")) /\ UNCHANGED signals
  BY <1>3 DEF ReadFlags
<1>4. CASE JoinDecide /\ UNCHANGED signals
  BY <1>4 DEF JoinDecide
<1>5. CASE JoinCas /\ UNCHANGED signals
  <2>1. TTypeOK'
    <3>1. CASE "tail" \in mapped
      <4>1. join_futex' \in 0 .. 1 /\ join_wait_futex' \in 0 .. 1
        BY <1>5, <3>1 DEF JoinCas
      <4>2. cpc' \in {"futex", "wake", "done"} /\ fault' = FALSE
        BY <1>5, <3>1 DEF JoinCas
      <4>3. QED
        BY <1>5, <3>1, <4>1, <4>2 DEF JoinCas
    <3>2. CASE "tail" \notin mapped
      BY <1>5, <3>2 DEF JoinCas
    <3>3. QED
      BY <3>1, <3>2
  <2>2. JoinTruthful' /\ ThreadKeepsMemory'
    BY <1>5 DEF JoinCas
  <2>3. ResBeforeFlags' /\ ExitedBeforeArg'
    BY <1>5 DEF JoinCas
  <2>4. CopyBehind' /\ WokenLate' /\ NotCreated'
    BY <1>5 DEF JoinCas
  <2>5. QED
    BY <2>1, <2>2, <2>3, <2>4
<1>6. CASE JoinWait /\ UNCHANGED signals
  BY <1>6 DEF JoinWait
<1>7. CASE JoinCollect /\ UNCHANGED signals
  BY <1>7 DEF JoinCollect
<1>8. CASE JoinAck /\ UNCHANGED signals
  <2>1. TTypeOK'
    <3>1. CASE "tail" \in mapped
      <4>1. join_futex' \in 0 .. 1 /\ join_wait_futex' \in 0 .. 1
        BY <1>8, <3>1 DEF JoinAck
      <4>2. cpc' \in {"futex", "wake", "done"} /\ fault' = FALSE
        BY <1>8, <3>1 DEF JoinAck
      <4>3. QED
        BY <1>8, <3>1, <4>1, <4>2 DEF JoinAck
    <3>2. CASE "tail" \notin mapped
      BY <1>8, <3>2 DEF JoinAck
    <3>3. QED
      BY <3>1, <3>2
  <2>2. JoinTruthful' /\ ThreadKeepsMemory'
    BY <1>8 DEF JoinAck
  <2>3. ResBeforeFlags' /\ ExitedBeforeArg'
    BY <1>8 DEF JoinAck
  <2>4. CopyBehind' /\ WokenLate' /\ NotCreated'
    BY <1>8 DEF JoinAck
  <2>5. QED
    BY <2>1, <2>2, <2>3, <2>4
<1>9. CASE JoinWake /\ UNCHANGED signals
  BY <1>9 DEF JoinWake
<1>10. CASE JoinDead /\ UNCHANGED signals
  BY <1>10 DEF JoinDead
<1>11. CASE JoinUnmap /\ UNCHANGED signals
  BY <1>11 DEF JoinUnmap
<1>12. CASE DetachTry /\ UNCHANGED signals
  <2>1. TTypeOK'
    BY <1>12 DEF DetachTry
  <2>2. JoinTruthful' /\ ThreadKeepsMemory'
    BY <1>12 DEF DetachTry
  <2>3. ResBeforeFlags' /\ ExitedBeforeArg'
    BY <1>12 DEF DetachTry
  <2>4. CopyBehind' /\ WokenLate' /\ NotCreated'
    BY <1>12 DEF DetachTry
  <2>5. QED
    BY <2>1, <2>2, <2>3, <2>4
<1>13. CASE SelfDetach /\ UNCHANGED signals
  BY <1>13 DEF SelfDetach
<1>14. CASE ExitRes /\ UNCHANGED signals
  BY <1>14 DEF ExitRes
<1>15. CASE ExitTearDown /\ UNCHANGED signals
  BY <1>15 DEF ExitTearDown
<1>16. CASE ExitCheck /\ UNCHANGED signals
  BY <1>16 DEF ExitCheck
<1>17. CASE ExitWake /\ UNCHANGED signals
  BY <1>17 DEF ExitWake
<1>18. CASE ExitAwait /\ UNCHANGED signals
  BY <1>18 DEF ExitAwait
<1>19. CASE ExitAgain /\ UNCHANGED signals
  BY <1>19 DEF ExitAgain
<1>20. CASE ExitOr2 /\ UNCHANGED signals
  BY <1>20 DEF ExitOr2
<1>21. CASE ExitArg /\ UNCHANGED signals
  BY <1>21 DEF ExitArg
<1>22. CASE ExitMemsize /\ UNCHANGED signals
  <2>1. TTypeOK'
    BY <1>22 DEF ExitMemsize
  <2>2. JoinTruthful' /\ ThreadKeepsMemory'
    BY <1>22 DEF ExitMemsize
  <2>3. ResBeforeFlags' /\ ExitedBeforeArg'
    BY <1>22 DEF ExitMemsize
  <2>4. CopyBehind' /\ WokenLate' /\ NotCreated'
    BY <1>22 DEF ExitMemsize
  <2>5. QED
    BY <2>1, <2>2, <2>3, <2>4
<1>23. CASE ExitUnmap /\ UNCHANGED signals
  <2>1. TTypeOK'
    BY <1>23 DEF ExitUnmap
  <2>2. JoinTruthful' /\ ThreadKeepsMemory'
    BY <1>23 DEF ExitUnmap
  <2>3. ResBeforeFlags' /\ ExitedBeforeArg'
    BY <1>23 DEF ExitUnmap
  <2>4. CopyBehind' /\ WokenLate' /\ NotCreated'
    BY <1>23 DEF ExitUnmap
  <2>5. QED
    BY <2>1, <2>2, <2>3, <2>4
<1>24. CASE JoinInterrupt
  BY <1>24 DEF JoinInterrupt
<1>25. CASE ExitInterrupt
  BY <1>25 DEF ExitInterrupt
<1>26. CASE UNCHANGED tvars
  BY <1>26 DEF tvars
<1>27. QED
  BY <1>1, <1>2, <1>3, <1>4, <1>5, <1>6, <1>7, <1>8, <1>9, <1>10, <1>11, <1>12, <1>13,
     <1>14, <1>15, <1>16, <1>17, <1>18, <1>19, <1>20, <1>21, <1>22, <1>23, <1>24, <1>25,
     <1>26
     DEF TNext, ClientStep, ExitStep

(* So it holds in every reachable state. *)
LEMMA JoinInductive == TSpec => []JoinInv
BY InitJoinInv, NextJoinInv, PTL DEF TSpec

(* A thrd_join that succeeds does so after the thread's function has       *)
(* ended and with its result, the thread's stack is never unmapped under   *)
(* it, and its tail only by a joiner that comes after flags|2.             *)
THEOREM JoinIsSafe == TSpec => []JoinSafe
<1>1. JoinInv => JoinSafe
  BY DEF JoinInv
<1>2. QED
  BY <1>1, JoinInductive, PTL
=============================================================================
