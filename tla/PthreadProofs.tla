---------------------------- MODULE PthreadProofs ---------------------------
(***************************************************************************)
(* Proofs about what the threads of libpthread share.  Mutexes of every    *)
(* kind are safe for any number of threads and any nesting up to the range *)
(* of the unsigned count (PthreadMutex); the reader-writer lock counts its *)
(* holders exactly, for any number of threads and any reader limit below   *)
(* the writer bit (Rwlock).  The destructors of the thread keys            *)
(* (PthreadKeys) and the handlers of fork (PthreadFork) are called as      *)
(* promised, for any number of threads and handlers and any size of the    *)
(* tables.                                                                 *)
(***************************************************************************)
EXTENDS PthreadMutex, Rwlock, PthreadKeys, PthreadFork, FiniteSetTheorems, SequenceTheorems, TLAPS

-----------------------------------------------------------------------------
(* Mutexes.                                                                *)

(* t has the spin lock: it holds the mutex, or is on its way in or out. *)
HasSpin(t) == depth[t] > 0 \/ pc[t] \in {"own", "clear", "unlock"}

SpinOK ==
  /\ ~spin => \A t \in Threads : ~HasSpin(t)
  /\ \A t, u \in Threads : HasSpin(t) /\ HasSpin(u) => t = u

(* owner is t from Own to Clear, and at no other time. *)
OwnerOK == \A t \in Threads : owner = t <=> depth[t] > 0 \/ pc[t] = "clear"

StepsOK ==
  \A t \in Threads :
    /\ pc[t] \in {"spin", "own", "clear", "unlock"} => depth[t] = 0
    /\ pc[t] = "check" /\ call[t] \in LockCalls =>
         depth[t] < MaxDepth \/ kind # "recursive"
    /\ kind # "recursive" => depth[t] <= 1

IInv == TypeOK /\ SpinOK /\ OwnerOK /\ StepsOK /\ NestingCounted /\ RefusalsJust

-----------------------------------------------------------------------------
(* The invariant holds initially. *)
LEMMA InitIInv == Init => IInv
<1> SUFFICES ASSUME Init PROVE IInv
  OBVIOUS
<1> USE PthreadMutexAssumption
<1>1. spin \in BOOLEAN
  BY DEF Init
<1>2. TypeOK
  BY <1>1 DEF Init, TypeOK, Kinds, LockCalls
<1>3. \A t \in Threads : depth[t] = 0 /\ pc[t] = "idle" /\ owner # t
  BY DEF Init
<1>4. QED
  BY <1>2, <1>3 DEF IInv, SpinOK, OwnerOK, StepsOK, NestingCounted, RefusalsJust, HasSpin

(* Every step of every thread preserves the invariant. *)
LEMMA NextIInv == IInv /\ [Next]_vars => IInv'
<1> SUFFICES ASSUME IInv, [Next]_vars PROVE IInv'
  OBVIOUS
<1> USE PthreadMutexAssumption DEF IInv, LockCalls, Kinds
<1>1. ASSUME NEW t \in Threads, NEW c \in LockCalls \cup {"unlock"}, Call(t, c) PROVE IInv'
  BY <1>1 DEF Call, TypeOK, SpinOK, OwnerOK, StepsOK, NestingCounted, RefusalsJust, HasSpin
<1>2. ASSUME NEW t \in Threads, LockCheck(t) PROVE IInv'
  <2>1. TypeOK' /\ StepsOK'
    BY <1>2 DEF LockCheck, Goto, Return, Inc, TypeOK, StepsOK, OwnerOK, NestingCounted
  <2>2. SpinOK' /\ OwnerOK'
    BY <1>2 DEF LockCheck, Goto, Return, Inc, TypeOK, StepsOK, SpinOK, OwnerOK, HasSpin, NestingCounted
  <2>3. NestingCounted' /\ RefusalsJust'
    BY <1>2 DEF LockCheck, Goto, Return, Inc, TypeOK, StepsOK, SpinOK, OwnerOK, HasSpin, NestingCounted, RefusalsJust
  <2>4. QED BY <2>1, <2>2, <2>3
<1>3. ASSUME NEW t \in Threads, Spin(t) PROVE IInv'
  <2>1. TypeOK' /\ StepsOK'
    BY <1>3 DEF Spin, Goto, Return, TypeOK, StepsOK, OwnerOK
  <2>2. SpinOK' /\ OwnerOK'
    BY <1>3 DEF Spin, Goto, Return, TypeOK, StepsOK, SpinOK, OwnerOK, HasSpin
  <2>3. NestingCounted' /\ RefusalsJust'
    BY <1>3 DEF Spin, Goto, Return, TypeOK, StepsOK, SpinOK, OwnerOK, HasSpin, NestingCounted, RefusalsJust
  <2>4. QED BY <2>1, <2>2, <2>3
<1>4. ASSUME NEW t \in Threads, Own(t) PROVE IInv'
  <2>1. TypeOK' /\ StepsOK'
    BY <1>4 DEF Own, Return, TypeOK, StepsOK, OwnerOK
  <2>2. SpinOK' /\ OwnerOK'
    BY <1>4 DEF Own, Return, TypeOK, StepsOK, SpinOK, OwnerOK, HasSpin
  <2>3. NestingCounted' /\ RefusalsJust'
    BY <1>4 DEF Own, Return, TypeOK, StepsOK, SpinOK, OwnerOK, HasSpin, NestingCounted, RefusalsJust
  <2>4. QED BY <2>1, <2>2, <2>3
<1>5. ASSUME NEW t \in Threads, UnlockCheck(t) PROVE IInv'
  <2>1. TypeOK' /\ StepsOK'
    BY <1>5 DEF UnlockCheck, Goto, Return, Dec, TypeOK, StepsOK, OwnerOK, NestingCounted
  <2>2. SpinOK' /\ OwnerOK'
    BY <1>5 DEF UnlockCheck, Goto, Return, Dec, TypeOK, StepsOK, SpinOK, OwnerOK, HasSpin, NestingCounted
  <2>3. NestingCounted' /\ RefusalsJust'
    BY <1>5 DEF UnlockCheck, Goto, Return, Dec, TypeOK, StepsOK, SpinOK, OwnerOK, HasSpin, NestingCounted, RefusalsJust
  <2>4. QED BY <2>1, <2>2, <2>3
<1>6. ASSUME NEW t \in Threads, Clear(t) PROVE IInv'
  <2>1. TypeOK' /\ StepsOK'
    BY <1>6 DEF Clear, Goto, TypeOK, StepsOK, OwnerOK
  <2>2. SpinOK' /\ OwnerOK'
    BY <1>6 DEF Clear, Goto, TypeOK, StepsOK, SpinOK, OwnerOK, HasSpin
  <2>3. NestingCounted' /\ RefusalsJust'
    BY <1>6 DEF Clear, Goto, TypeOK, StepsOK, SpinOK, OwnerOK, HasSpin, NestingCounted, RefusalsJust
  <2>4. QED BY <2>1, <2>2, <2>3
<1>7. ASSUME NEW t \in Threads, Release(t) PROVE IInv'
  <2>1. TypeOK' /\ StepsOK'
    BY <1>7 DEF Release, Return, TypeOK, StepsOK, OwnerOK
  <2>2. SpinOK' /\ OwnerOK'
    BY <1>7 DEF Release, Return, TypeOK, StepsOK, SpinOK, OwnerOK, HasSpin
  <2>3. NestingCounted' /\ RefusalsJust'
    BY <1>7 DEF Release, Return, TypeOK, StepsOK, SpinOK, OwnerOK, HasSpin, NestingCounted, RefusalsJust
  <2>4. QED BY <2>1, <2>2, <2>3
<1>8. ASSUME NEW t \in Threads, Refuse(t) PROVE IInv'
  <2>1. TypeOK' /\ StepsOK'
    BY <1>8 DEF Refuse, Return, TypeOK, StepsOK, OwnerOK
  <2>2. SpinOK' /\ OwnerOK'
    BY <1>8 DEF Refuse, Return, TypeOK, StepsOK, SpinOK, OwnerOK, HasSpin
  <2>3. NestingCounted' /\ RefusalsJust'
    BY <1>8 DEF Refuse, Return, TypeOK, StepsOK, SpinOK, OwnerOK, HasSpin, NestingCounted, RefusalsJust
  <2>4. QED BY <2>1, <2>2, <2>3
<1>9. CASE UNCHANGED vars
  BY <1>9 DEF vars, TypeOK, SpinOK, OwnerOK, StepsOK, NestingCounted, RefusalsJust, HasSpin
<1>10. QED
  BY <1>1, <1>2, <1>3, <1>4, <1>5, <1>6, <1>7, <1>8, <1>9 DEF Next, Step

(* The invariant holds in every reachable state. *)
LEMMA Inductive == Spec => []IInv
<1>1. QED BY InitIInv, NextIInv, PTL DEF Spec

-----------------------------------------------------------------------------
(* The unsigned count, its wrap included, and all else stay within range.  *)
THEOREM TypeCorrect == Spec => []TypeOK
<1>1. IInv => TypeOK
  BY DEF IInv
<1>2. QED BY <1>1, Inductive, PTL

(* The racy read of owner at the head of lock, trylock and unlock is       *)
(* harmless: it never lies to the thread that makes it.                    *)
THEOREM OwnerReadSafe == Spec => []OwnerTrusted
<1>1. IInv => OwnerTrusted
  BY DEF IInv, OwnerOK, OwnerTrusted
<1>2. QED BY <1>1, Inductive, PTL

(* count equals the nesting depth for every depth up to its range.         *)
THEOREM NestingExact == Spec => []NestingCounted
<1>1. IInv => NestingCounted
  BY DEF IInv
<1>2. QED BY <1>1, Inductive, PTL

(* An error-checking mutex refuses exactly those it should.                *)
THEOREM RefusalsAreJust == Spec => []RefusalsJust
<1>1. IInv => RefusalsJust
  BY DEF IInv
<1>2. QED BY <1>1, Inductive, PTL

(* Every step is an acquisition, a release or nothing of the abstract      *)
(* mutex.                                                                  *)
THEOREM Refinement == Spec => ImplementsMutex
<1>1. Init => Abstract!Init
  BY DEF Init, Abstract!Init
<1>2. IInv /\ [Next]_vars => [Abstract!Next]_depth
  <2> SUFFICES ASSUME IInv, [Next]_vars PROVE Abstract!Next \/ UNCHANGED depth
    OBVIOUS
  <2> USE DEF IInv, TypeOK
  <2>1. ASSUME NEW t \in Threads, LockCheck(t) PROVE Abstract!Acquire(t) \/ UNCHANGED depth
    BY <2>1 DEF LockCheck, OwnerOK, SpinOK, HasSpin, StepsOK, Abstract!Acquire
  <2>2. ASSUME NEW t \in Threads, Own(t) PROVE Abstract!Acquire(t)
    BY <2>2 DEF Own, SpinOK, HasSpin, Abstract!Acquire
  <2>3. ASSUME NEW t \in Threads, UnlockCheck(t) PROVE Abstract!Release(t) \/ UNCHANGED depth
    BY <2>3 DEF UnlockCheck, OwnerOK, StepsOK, Abstract!Release
  <2>4. ASSUME NEW t \in Threads, Spin(t) \/ Clear(t) \/ Release(t) \/ Refuse(t)
        PROVE  UNCHANGED depth
    BY <2>4 DEF Spin, Clear, Release, Refuse
  <2>5. ASSUME NEW t \in Threads, NEW c, Call(t, c) PROVE UNCHANGED depth
    BY <2>5 DEF Call
  <2>6. CASE UNCHANGED vars
    BY <2>6 DEF vars
  <2>7. QED BY <2>1, <2>2, <2>3, <2>4, <2>5, <2>6 DEF Next, Step, Abstract!Next
<1>3. QED BY <1>1, <1>2, Inductive, PTL DEF Spec, ImplementsMutex, Abstract!Spec

-----------------------------------------------------------------------------
(* The reader-writer lock.                                                 *)

(* What a thread in a call holds and has read. *)
CallsOK ==
  \A t \in RwThreads :
    /\ rwpc[t] = "idle" <=> rwcall[t] = "none"
    /\ rwcall[t] = "unlock" => hold[t] # "none"
    /\ rwcall[t] \in RdCalls \cup WrCalls => hold[t] = "none"
    /\ rwpc[t] = "cas" /\ rwcall[t] \in RdCalls => cur[t] < MaxReaders
    /\ rwpc[t] = "cas" /\ rwcall[t] \in WrCalls => cur[t] = 0
    /\ rwpc[t] = "cas" /\ rwcall[t] = "unlock" => cur[t] > 0

(* A writer is alone. *)
WriterAlone ==
  \A t, u \in RwThreads : hold[t] = "write" /\ hold[u] # "none" => t = u

(* A count of readers is never taken for a writer. *)
NoFalseWriter == n = WriterBit => Writers # {}

RwIInv ==
  /\ RwTypeOK /\ CallsOK /\ WriterAlone /\ NoFalseWriter /\ HoldersCounted
  /\ UnlockAllowed

-----------------------------------------------------------------------------
(* What the invariant says of n. *)
LEMMA CountFacts ==
  ASSUME RwIInv
  PROVE  /\ IsFiniteSet(Readers) /\ Cardinality(Readers) \in Nat
         /\ \A t \in RwThreads : hold[t] # "none" => n > 0
         /\ n < WriterBit => Writers = {} /\ n = Cardinality(Readers)
         /\ n = 0 => Readers = {} /\ Writers = {}
<1> USE RwlockAssumption DEF RwIInv, RwTypeOK
<1>1. Readers \subseteq RwThreads
  BY DEF Readers
<1>2. IsFiniteSet(Readers) /\ Cardinality(Readers) \in Nat
  BY <1>1, FS_Subset, FS_CardinalityType
<1>3. Cardinality(Readers) = 0 <=> Readers = {}
  BY <1>2, FS_EmptySet
<1>4. QED
  BY <1>2, <1>3 DEF HoldersCounted, Readers, Writers

(* A thread that joins or leaves the readers changes their number by one. *)
LEMMA ReadersChange ==
  ASSUME RwIInv, NEW t \in RwThreads
  PROVE  /\ hold[t] # "read" => Cardinality(Readers \cup {t}) = Cardinality(Readers) + 1
         /\ hold[t] = "read" => Cardinality(Readers \ {t}) = Cardinality(Readers) - 1
<1>1. IsFiniteSet(Readers)
  BY CountFacts
<1>2. t \in Readers <=> hold[t] = "read"
  BY DEF Readers
<1>3. QED
  BY <1>1, <1>2, FS_AddElement, FS_RemoveElement

(* The invariant holds initially. *)
LEMMA RwInitIInv == RwInit => RwIInv
<1> SUFFICES ASSUME RwInit PROVE RwIInv
  OBVIOUS
<1>1. Readers = {} /\ Writers = {}
  BY DEF RwInit, Readers, Writers
<1>2. HoldersCounted
  BY <1>1, FS_EmptySet DEF RwInit, HoldersCounted
<1>3. QED
  BY <1>2, RwlockAssumption
     DEF RwInit, RwIInv, NoFalseWriter, RwTypeOK, CallsOK, WriterAlone, UnlockAllowed, RdCalls, WrCalls

(* Steps that leave n and the holders alone keep the count. *)
LEMMA SameCount ==
  ASSUME RwIInv, UNCHANGED <<n, hold>>
  PROVE  HoldersCounted' /\ WriterAlone' /\ NoFalseWriter'
BY DEF RwIInv, HoldersCounted, WriterAlone, NoFalseWriter, Readers, Writers

(* Every step of every thread preserves the invariant. *)
LEMMA RwNextIInv == RwIInv /\ [RwNext]_rwvars => RwIInv'
<1> SUFFICES ASSUME RwIInv, [RwNext]_rwvars PROVE RwIInv'
  OBVIOUS
<1> USE RwlockAssumption DEF RwIInv, RdCalls, WrCalls
<1>1. ASSUME NEW t \in RwThreads, NEW c \in RdCalls \cup WrCalls \cup {"unlock"}, RwCall(t, c)
      PROVE  RwIInv'
  BY <1>1, SameCount DEF RwCall, RwGoto, RwTypeOK, CallsOK, UnlockAllowed
<1>2. ASSUME NEW t \in RwThreads, RdRead(t) PROVE RwIInv'
  BY <1>2, SameCount DEF RdRead, Refused, Proceed, RwReturn, RwGoto, RwTypeOK, CallsOK, UnlockAllowed
<1>3. ASSUME NEW t \in RwThreads, RdCas(t) PROVE RwIInv'
  <2>1. CASE Retry(t)
    BY <1>3, <2>1, SameCount DEF RdCas, Retry, RwGoto, RwTypeOK, CallsOK, UnlockAllowed
  <2>2. CASE n = cur[t] /\ n' = cur[t] + 1 /\ hold' = [hold EXCEPT ![t] = "read"] /\ RwReturn(t)
    <3>1. n < MaxReaders /\ hold[t] = "none"
      BY <1>3, <2>2 DEF RdCas, CallsOK
    <3>2. Writers = {} /\ n = Cardinality(Readers)
      BY <3>1, CountFacts DEF RwTypeOK
    <3>3. RwTypeOK' /\ CallsOK' /\ UnlockAllowed'
      BY <1>3, <2>2, <3>1 DEF RdCas, RwReturn, RwGoto, RwTypeOK, CallsOK, UnlockAllowed
    <3>4. Readers' = Readers \cup {t} /\ Writers' = {}
      BY <2>2, <3>2 DEF RwTypeOK, Readers, Writers
    <3>5. HoldersCounted'
      BY <2>2, <3>1, <3>2, <3>4, ReadersChange DEF HoldersCounted
    <3>6. WriterAlone'
      BY <3>4 DEF WriterAlone, Writers
    <3>7. NoFalseWriter'
      BY <2>2, <3>1 DEF NoFalseWriter, RwTypeOK
    <3>8. QED BY <3>3, <3>5, <3>6, <3>7
  <2>3. QED BY <1>3, <2>1, <2>2 DEF RdCas
<1>4. ASSUME NEW t \in RwThreads, WrRead(t) PROVE RwIInv'
  BY <1>4, SameCount DEF WrRead, Refused, Proceed, RwReturn, RwGoto, RwTypeOK, CallsOK, UnlockAllowed
<1>5. ASSUME NEW t \in RwThreads, WrCas(t) PROVE RwIInv'
  <2>1. CASE Retry(t)
    BY <1>5, <2>1, SameCount DEF WrCas, Retry, RwGoto, RwTypeOK, CallsOK, UnlockAllowed
  <2>2. CASE n = 0 /\ n' = WriterBit /\ hold' = [hold EXCEPT ![t] = "write"] /\ RwReturn(t)
    <3>1. Readers = {} /\ Writers = {}
      BY <2>2, CountFacts
    <3>2. RwTypeOK' /\ CallsOK' /\ UnlockAllowed'
      BY <1>5, <2>2 DEF WrCas, RwReturn, RwGoto, RwTypeOK, CallsOK, UnlockAllowed
    <3>3. Writers' = {t}
      BY <2>2, <3>1 DEF RwTypeOK, Writers
    <3>4. HoldersCounted'
      BY <2>2, <3>3 DEF HoldersCounted
    <3>5. WriterAlone'
      BY <2>2, <3>1 DEF WriterAlone, RwTypeOK, Readers, Writers
    <3>6. NoFalseWriter'
      BY <3>3 DEF NoFalseWriter
    <3>7. QED BY <3>2, <3>4, <3>5, <3>6
  <2>3. QED BY <1>5, <2>1, <2>2 DEF WrCas
<1>6. ASSUME NEW t \in RwThreads, UnlockRead(t) PROVE RwIInv'
  <2>1. n > 0
    BY <1>6, CountFacts DEF UnlockRead, CallsOK
  <2>2. QED
    BY <1>6, <2>1, SameCount DEF UnlockRead, RwGoto, RwTypeOK, CallsOK, UnlockAllowed
<1>7. ASSUME NEW t \in RwThreads, UnlockCas(t) PROVE RwIInv'
  <2>1. CASE Retry(t)
    BY <1>7, <2>1, SameCount DEF UnlockCas, Retry, RwGoto, RwTypeOK, CallsOK, UnlockAllowed
  <2>2. CASE /\ n = cur[t]
             /\ n' = IF cur[t] = WriterBit THEN 0 ELSE cur[t] - 1
             /\ hold' = [hold EXCEPT ![t] = "none"]
             /\ RwReturn(t)
    <3>1. hold[t] # "none" /\ n > 0
      BY <1>7, CountFacts DEF UnlockCas, CallsOK
    <3>2. RwTypeOK' /\ CallsOK' /\ UnlockAllowed'
      BY <1>7, <2>2, <3>1 DEF UnlockCas, RwReturn, RwGoto, RwTypeOK, CallsOK, UnlockAllowed
    <3>3. WriterAlone'
      BY <2>2 DEF WriterAlone, RwTypeOK
    <3>4. CASE hold[t] = "write"
      <4>1. Readers' = {} /\ Writers' = {}
        BY <2>2, <3>4 DEF WriterAlone, RwTypeOK, Readers, Writers
      <4>2. n = WriterBit
        BY <3>4 DEF HoldersCounted, Writers
      <4>3. HoldersCounted' /\ NoFalseWriter'
        BY <2>2, <4>1, <4>2, FS_EmptySet DEF HoldersCounted, NoFalseWriter, RwTypeOK
      <4>4. QED BY <3>2, <3>3, <4>3
    <3>5. CASE hold[t] = "read"
      <4>1. Writers = {}
        BY <3>5 DEF WriterAlone, Writers
      <4>2. n = Cardinality(Readers)
        BY <4>1 DEF HoldersCounted
      <4>3. n # WriterBit
        BY <4>1 DEF NoFalseWriter
      <4>4. Readers' = Readers \ {t} /\ Writers' = {}
        BY <2>2, <4>1 DEF RwTypeOK, Readers, Writers
      <4>5. NoFalseWriter'
        BY <2>2, <4>3 DEF NoFalseWriter, RwTypeOK
      <4>6. HoldersCounted'
        BY <2>2, <3>5, <4>2, <4>3, <4>4, ReadersChange DEF HoldersCounted
      <4>7. QED BY <3>2, <3>3, <4>5, <4>6
    <3>6. QED BY <3>1, <3>4, <3>5 DEF RwTypeOK
  <2>3. QED BY <1>7, <2>1, <2>2 DEF UnlockCas
<1>8. CASE UNCHANGED rwvars
  BY <1>8, SameCount DEF rwvars, RwTypeOK, CallsOK, UnlockAllowed
<1>9. QED
  BY <1>1, <1>2, <1>3, <1>4, <1>5, <1>6, <1>7, <1>8 DEF RwNext, RwStep

(* The invariant holds in every reachable state. *)
LEMMA RwInductive == RwSpec => []RwIInv
<1>1. QED BY RwInitIInv, RwNextIInv, PTL DEF RwSpec

-----------------------------------------------------------------------------
(* The reader count stays within the limit tryrdlock tests, although the   *)
(* test and the compare-and-swap are separate steps.                       *)
THEOREM RwTypeCorrect == RwSpec => []RwTypeOK
<1>1. RwIInv => RwTypeOK
  BY DEF RwIInv
<1>2. QED BY <1>1, RwInductive, PTL

(* The word n always equals the number of read locks, or the writer bit.   *)
THEOREM CountExact == RwSpec => []HoldersCounted
<1>1. RwIInv => HoldersCounted
  BY DEF RwIInv
<1>2. QED BY <1>1, RwInductive, PTL

(* pthread_rwlock_unlock never refuses a holder with EPERM.                *)
THEOREM NoEperm == RwSpec => []UnlockAllowed
<1>1. RwIInv => UnlockAllowed
  BY DEF RwIInv
<1>2. QED BY <1>1, RwInductive, PTL

(* Every step of the lock is a read lock, a write lock, an unlock or       *)
(* nothing of the abstract lock.                                           *)
THEOREM RwRefinement == RwSpec => ImplementsRwlock
<1>1. RwInit => RwAbstract!Init
  BY DEF RwInit, RwAbstract!Init, Readers, Writers
<1>2. RwIInv /\ [RwNext]_rwvars => [RwAbstract!Next]_<<Readers, Writers>>
  <2> SUFFICES ASSUME RwIInv, [RwNext]_rwvars
               PROVE  RwAbstract!Next \/ UNCHANGED <<Readers, Writers>>
    OBVIOUS
  <2> USE RwlockAssumption DEF RwIInv, RwTypeOK, RdCalls, WrCalls
  <2>1. UNCHANGED hold => UNCHANGED <<Readers, Writers>>
    BY DEF Readers, Writers
  <2>2. ASSUME NEW t \in RwThreads, RdCas(t), hold' # hold PROVE RwAbstract!LockRead(t)
    <3>1. n < MaxReaders /\ hold[t] = "none" /\ hold' = [hold EXCEPT ![t] = "read"]
      BY <2>2 DEF RdCas, Retry, CallsOK
    <3>2. Writers = {}
      BY <3>1, CountFacts
    <3>3. t \notin Readers /\ Readers' = Readers \cup {t} /\ Writers' = Writers
      BY <3>1 DEF Readers, Writers
    <3>4. QED BY <3>2, <3>3 DEF RwAbstract!LockRead
  <2>3. ASSUME NEW t \in RwThreads, WrCas(t), hold' # hold PROVE RwAbstract!LockWrite(t)
    <3>1. n = 0 /\ hold' = [hold EXCEPT ![t] = "write"]
      BY <2>3 DEF WrCas, Retry
    <3>2. Readers = {} /\ Writers = {}
      BY <3>1, CountFacts
    <3>3. Readers' = Readers /\ Writers' = {t}
      BY <3>1, <3>2 DEF Readers, Writers
    <3>4. QED BY <3>2, <3>3 DEF RwAbstract!LockWrite
  <2>4. ASSUME NEW t \in RwThreads, UnlockCas(t), hold' # hold PROVE RwAbstract!Unlock(t)
    <3>1. hold[t] # "none" /\ hold' = [hold EXCEPT ![t] = "none"]
      BY <2>4 DEF UnlockCas, Retry, CallsOK
    <3>2. t \in Readers \cup Writers
      BY <3>1 DEF Readers, Writers
    <3>3. Readers' = Readers \ {t} /\ Writers' = Writers \ {t}
      BY <3>1 DEF Readers, Writers
    <3>4. QED BY <3>2, <3>3 DEF RwAbstract!Unlock
  <2>5. ASSUME NEW t \in RwThreads, RdRead(t) \/ WrRead(t) \/ UnlockRead(t)
        PROVE  UNCHANGED hold
    BY <2>5 DEF RdRead, WrRead, UnlockRead
  <2>6. ASSUME NEW t \in RwThreads, NEW c, RwCall(t, c) PROVE UNCHANGED hold
    BY <2>6 DEF RwCall
  <2>7. CASE UNCHANGED rwvars
    BY <2>1, <2>7 DEF rwvars
  <2>8. QED
    BY <2>1, <2>2, <2>3, <2>4, <2>5, <2>6, <2>7 DEF RwNext, RwStep, RwAbstract!Next
<1>3. QED BY <1>1, <1>2, RwInductive, PTL DEF RwSpec, ImplementsRwlock, RwAbstract!Spec

-----------------------------------------------------------------------------
(* Thread keys.  KeysRight is not inductive: it does not say that the      *)
(* threads between the lock and the unlock are one at most, nor what an    *)
(* ending thread, which takes no lock, has still to find in the table.     *)

KeysTypeOK ==
  /\ keys \in [Key0 -> [used : BOOLEAN, destructor : BOOLEAN]]
  /\ tkd \in [KThread -> [Key0 -> {0, 1}]]
  /\ kpc \in [KThread -> {"run", "create", "scan", "take", "unlock", "delete", "exit",
                          "destructor", "gone"}]
  /\ ki \in [KThread -> 0 .. KEYS_MAX]
  /\ mine \in [KThread -> SUBSET Key0] /\ due \in [KThread -> SUBSET Key0]
  /\ called \in [KThread -> SUBSET Key0]

(* __thread_keys_lock is held by whoever changes the table. *)
KeysLocked ==
  \A t \in KThread : kpc[t] \in {"scan", "take", "unlock", "delete"} => keys_lock = t

(* What pthread_key_create is about to take is free, what                  *)
(* pthread_key_delete is about to free is the caller's, and the index of   *)
(* an ending thread is inside the table when it is used.                   *)
IndexFits ==
  \A t \in KThread :
    /\ kpc[t] = "take" => ki[t] \in Key0 /\ ~keys[ki[t]].used
    /\ kpc[t] = "delete" => ki[t] \in mine[t]
    /\ kpc[t] = "destructor" => ki[t] \in Key0

(* Every destructor that is due has been called, or its key is still ahead *)
(* of the loop of __thread_exit__key, in use and with data.                *)
DueAhead ==
  \A t \in KThread : kpc[t] \in {"exit", "destructor"} =>
    \A k \in due[t] :
      k \in called[t] \/ (k >= ki[t] /\ keys[k].used /\ keys[k].destructor /\ tkd[t][k] # 0)

KeysInv == KeysTypeOK /\ KeysLocked /\ IndexFits /\ KeysDistinct /\ DueAhead /\ DestructorsCalled

(* The table and the threads at the start. *)
LEMMA KeysInitInv == KInit => KeysInv
<1> SUFFICES ASSUME KInit PROVE KeysInv
  OBVIOUS
<1> USE KeysAssumption DEF KInit
<1>1. KeysTypeOK
  BY DEF KeysTypeOK, Unused, Key0
<1>2. KeysLocked /\ IndexFits /\ KeysDistinct /\ DueAhead /\ DestructorsCalled
  BY DEF KeysLocked, IndexFits, KeysDistinct, DueAhead, DestructorsCalled
<1>3. QED
  BY <1>1, <1>2 DEF KeysInv

(* No step of a thread breaks the invariant. *)
LEMMA KeysNextInv == KeysInv /\ [KNext]_kvars => KeysInv'
<1> SUFFICES ASSUME KeysInv, [KNext]_kvars PROVE KeysInv'
  OBVIOUS
<1> USE KeysAssumption DEF KeysInv, KeysTypeOK, Key0
<1>1. ASSUME NEW t \in KThread, CreateCall(t) PROVE KeysInv'
  BY <1>1 DEF CreateCall, KGoto, KeysLocked, IndexFits, KeysDistinct, DueAhead, DestructorsCalled
<1>2. ASSUME NEW t \in KThread, CreateLock(t) PROVE KeysInv'
  BY <1>2 DEF CreateLock, KGoto, KeysLocked, IndexFits, KeysDistinct, DueAhead, DestructorsCalled
<1>3. ASSUME NEW t \in KThread, CreateScan(t) PROVE KeysInv'
  <2>0. kpc[t] = "scan" /\ ki[t] < KEYS_MAX /\ UNCHANGED <<keys_lock, keys, tkd, mine, created, due, called>>
    BY <1>3 DEF CreateScan
  <2>1. CASE keys[ki[t]].used
    <3>1. KGoto(t, "scan", ki[t] + 1)
      BY <1>3, <2>1 DEF CreateScan
    <3>2. QED
      BY <2>1, <2>0, <3>1 DEF KGoto, KeysLocked, IndexFits, KeysDistinct, DueAhead, DestructorsCalled
  <2>2. CASE ~keys[ki[t]].used
    <3>1. KGoto(t, "take", ki[t])
      BY <1>3, <2>2 DEF CreateScan
    <3>2. QED
      BY <2>2, <2>0, <3>1 DEF KGoto, KeysLocked, IndexFits, KeysDistinct, DueAhead, DestructorsCalled
  <2>3. QED
    BY <2>1, <2>2
<1>4. ASSUME NEW t \in KThread, CreateTake(t) PROVE KeysInv'
  <2>1. PICK d \in BOOLEAN : keys' = [keys EXCEPT ![ki[t]] = [used |-> TRUE, destructor |-> d]]
    BY <1>4 DEF CreateTake
  <2>2. ki[t] \in Key0 /\ ~keys[ki[t]].used
    BY <1>4 DEF CreateTake, IndexFits
  <2>3. KeysTypeOK'
    BY <1>4, <2>1, <2>2 DEF CreateTake, KGoto
  <2>4. KeysLocked' /\ IndexFits'
    BY <1>4, <2>1, <2>2 DEF CreateTake, KGoto, KeysLocked, IndexFits
  <2>5. KeysDistinct'
    BY <1>4, <2>1, <2>2 DEF CreateTake, KeysDistinct
  <2>6. DueAhead'
    BY <1>4, <2>1, <2>2 DEF CreateTake, KGoto, DueAhead
  <2>7. DestructorsCalled'
    BY <1>4 DEF CreateTake, KGoto, DestructorsCalled
  <2>8. QED
    BY <2>3, <2>4, <2>5, <2>6, <2>7
<1>5. ASSUME NEW t \in KThread, CreateFails(t) PROVE KeysInv'
  BY <1>5 DEF CreateFails, KGoto, KeysLocked, IndexFits, KeysDistinct, DueAhead, DestructorsCalled
<1>6. ASSUME NEW t \in KThread, KUnlock(t) PROVE KeysInv'
  BY <1>6 DEF KUnlock, KGoto, KeysLocked, IndexFits, KeysDistinct, DueAhead, DestructorsCalled
<1>7. ASSUME NEW t \in KThread, DeleteLock(t) PROVE KeysInv'
  BY <1>7 DEF DeleteLock, KGoto, KeysLocked, IndexFits, KeysDistinct, DueAhead, DestructorsCalled
<1>8. ASSUME NEW t \in KThread, DeleteKey(t) PROVE KeysInv'
  <2>1. ki[t] \in mine[t] /\ ki[t] \in Key0
    BY <1>8 DEF DeleteKey, IndexFits
  <2>2. KeysTypeOK'
    BY <1>8, <2>1 DEF DeleteKey, KGoto, Unused
  <2>3. KeysLocked' /\ IndexFits'
    BY <1>8, <2>1 DEF DeleteKey, KGoto, KeysLocked, IndexFits
  <2>4. KeysDistinct'
    BY <1>8, <2>1 DEF DeleteKey, KeysDistinct
  <2>5. DueAhead'
    BY <1>8, <2>1 DEF DeleteKey, KGoto, DueAhead
  <2>6. DestructorsCalled'
    BY <1>8 DEF DeleteKey, KGoto, DestructorsCalled
  <2>7. QED
    BY <2>2, <2>3, <2>4, <2>5, <2>6
<1>9. ASSUME NEW t \in KThread, SetSpecific(t) PROVE KeysInv'
  BY <1>9 DEF SetSpecific, KeysLocked, IndexFits, KeysDistinct, DueAhead, DestructorsCalled
<1>10. ASSUME NEW t \in KThread, ExitBegin(t) PROVE KeysInv'
  BY <1>10 DEF ExitBegin, KGoto, KeysLocked, IndexFits, KeysDistinct, DueAhead, DestructorsCalled
<1>11. ASSUME NEW t \in KThread, ExitKey(t) PROVE KeysInv'
  <2>0. kpc[t] = "exit" /\ UNCHANGED <<keys_lock, keys, tkd, mine, created, due, called>>
    BY <1>11 DEF ExitKey
  <2>1. CASE ki[t] = KEYS_MAX
    <3>1. KGoto(t, "gone", 0)
      BY <1>11, <2>1 DEF ExitKey
    <3>2. QED
      BY <2>1, <2>0, <3>1 DEF KGoto, KeysLocked, IndexFits, KeysDistinct, DueAhead, DestructorsCalled
  <2>2. CASE ki[t] # KEYS_MAX /\ keys[ki[t]].used
    <3>1. KGoto(t, "destructor", ki[t])
      BY <1>11, <2>2 DEF ExitKey
    <3>2. QED
      BY <2>2, <2>0, <3>1 DEF KGoto, KeysLocked, IndexFits, KeysDistinct, DueAhead, DestructorsCalled
  <2>3. CASE ki[t] # KEYS_MAX /\ ~keys[ki[t]].used
    <3>1. KGoto(t, "exit", ki[t] + 1)
      BY <1>11, <2>3 DEF ExitKey
    <3>2. QED
      BY <2>3, <2>0, <3>1 DEF KGoto, KeysLocked, IndexFits, KeysDistinct, DueAhead, DestructorsCalled
  <2>4. QED
    BY <2>1, <2>2, <2>3
<1>12. ASSUME NEW t \in KThread, ExitDestructor(t) PROVE KeysInv'
  <2>1. KeysTypeOK' /\ KeysLocked' /\ IndexFits' /\ KeysDistinct'
    BY <1>12 DEF ExitDestructor, KGoto, KeysLocked, IndexFits, KeysDistinct
  <2>2. DueAhead'
    BY <1>12 DEF ExitDestructor, KGoto, DueAhead, IndexFits
  <2>3. DestructorsCalled'
    BY <1>12 DEF ExitDestructor, KGoto, DueAhead, DestructorsCalled
  <2>4. QED
    BY <2>1, <2>2, <2>3
<1>13. CASE UNCHANGED kvars
  BY <1>13 DEF kvars, KeysLocked, IndexFits, KeysDistinct, DueAhead, DestructorsCalled
<1>14. QED
  BY <1>1, <1>2, <1>3, <1>4, <1>5, <1>6, <1>7, <1>8, <1>9, <1>10, <1>11, <1>12, <1>13
     DEF KNext

(* So it holds in every reachable state. *)
LEMMA KeysInductive == KSpec => []KeysInv
BY KeysInitInv, KeysNextInv, PTL DEF KSpec

(* No key of pthread_key_create is given out twice, and an ending thread   *)
(* has the destructor called for all its data whose key was not deleted    *)
(* meanwhile, for any number of threads and keys.                          *)
THEOREM KeysAreRight == KSpec => []KeysRight
<1>1. KeysInv => KeysRight
  BY DEF KeysInv, KeysRight
<1>2. QED
  BY <1>1, KeysInductive, PTL

-----------------------------------------------------------------------------
(* fork.  The loops of fork go through the list that was there when the    *)
(* lock was taken, and what one of them has done and has still to do makes *)
(* up the whole list.                                                      *)

(* The list backwards is a list. *)
LEMMA ReverseType ==
  ASSUME NEW S, NEW s \in Seq(S)
  PROVE  Reverse(s) \in Seq(S)
BY DEF Reverse

(* The empty list backwards is empty. *)
LEMMA ReverseEmpty == Reverse(<<>>) = <<>>
BY DEF Reverse

(* A turn of a loop: the first of what is left goes to what is done. *)
LEMMA MoveHead ==
  ASSUME NEW S, NEW done \in Seq(S), NEW left \in Seq(S), left # <<>>
  PROVE  /\ Append(done, Head(left)) \in Seq(S) /\ Tail(left) \in Seq(S)
         /\ Append(done, Head(left)) \o Tail(left) = done \o left
<1>1. Head(left) \in S /\ Tail(left) \in Seq(S)
  BY HeadTailProperties
<1>2. left = <<Head(left)>> \o Tail(left)
  BY <1>1
<1>3. Append(done, Head(left)) = done \o <<Head(left)>>
  BY <1>1, AppendIsConcat
<1>4. (done \o <<Head(left)>>) \o Tail(left) = done \o (<<Head(left)>> \o Tail(left))
  BY <1>1, ConcatAssociative
<1>5. QED
  BY <1>1, <1>2, <1>3, <1>4

Kid == [pc : {"none", "child", "run"}, lock : BOOLEAN, list : Seq(Nat), tmp : Seq(Nat),
        ran : Seq(Nat), before : Seq(Nat)]

ForkTypeOK ==
  /\ handlers \in Nat /\ atfork_buf \in Seq(Nat)
  /\ fpc \in [FThread -> {"run", "insert", "unlock", "prepare", "parent"}]
  /\ tmp \in [FThread -> Seq(Nat)]
  /\ prepared \in [FThread -> Seq(Nat)] /\ parented \in [FThread -> Seq(Nat)]
  /\ child \in [FThread -> Kid]

(* __atfork_struct_lock is held through the whole of fork and of the       *)
(* insertion.                                                              *)
ForkLocked ==
  \A t \in FThread : fpc[t] \in {"insert", "unlock", "prepare", "parent"} => atfork_lock = t

(* In each loop: what was run, and then what is left, is the whole list,   *)
(* forwards for prepare and backwards for parent.                          *)
LoopsInStep ==
  \A t \in FThread :
    /\ fpc[t] = "prepare" => prepared[t] \o tmp[t] = atfork_buf /\ parented[t] = <<>>
    /\ fpc[t] = "parent" =>
         prepared[t] = atfork_buf /\ parented[t] \o tmp[t] = Reverse(prepared[t])
    /\ fpc[t] \in {"run", "insert", "unlock"} => parented[t] = Reverse(prepared[t])

(* The same for the child, which has the list of its birth. *)
ChildInStep ==
  \A t \in FThread :
    /\ child[t].pc = "child" => child[t].ran \o child[t].tmp = Reverse(child[t].before)
    /\ child[t].pc = "run" => child[t].ran = Reverse(child[t].before) /\ ~child[t].lock

ForkInv == ForkTypeOK /\ ForkLocked /\ LoopsInStep /\ ChildInStep

(* Before the first call nothing has been registered or run. *)
LEMMA ForkInitInv == ForkInit => ForkInv
<1> SUFFICES ASSUME ForkInit PROVE ForkInv
  OBVIOUS
<1> USE DEF ForkInit
<1>1. Reverse(<<>>) = <<>>
  BY ReverseEmpty
<1>2. NoChild \in Kid
  BY DEF NoChild, Kid
<1>3. ForkTypeOK
  BY <1>2 DEF ForkTypeOK
<1>4. ForkLocked /\ LoopsInStep
  BY <1>1 DEF ForkLocked, LoopsInStep
<1>5. ChildInStep
  BY DEF ChildInStep, NoChild
<1>6. QED
  BY <1>3, <1>4, <1>5 DEF ForkInv

(* No step of a thread or of a child breaks the invariant. *)
LEMMA ForkNextInv == ForkInv /\ [ForkNext]_kidvars => ForkInv'
<1> SUFFICES ASSUME ForkInv, [ForkNext]_kidvars PROVE ForkInv'
  OBVIOUS
<1> USE ForkAssumption DEF ForkInv, At0
<1>1. ASSUME NEW t \in FThread, AtforkLock(t) PROVE ForkInv'
  BY <1>1 DEF AtforkLock, ForkTypeOK, ForkLocked, LoopsInStep, ChildInStep
<1>2. ASSUME NEW t \in FThread, AtforkInsert(t) PROVE ForkInv'
  <2>1. ForkTypeOK'
    <3>1. handlers' \in Nat
      BY <1>2 DEF AtforkInsert, ForkTypeOK
    <3>2. <<handlers'>> \o atfork_buf \in Seq(Nat)
      BY <3>1 DEF ForkTypeOK
    <3>3. QED
      BY <1>2, <3>1, <3>2 DEF AtforkInsert, ForkTypeOK
  <2>2. \A u \in FThread : u # t => fpc[u] \in {"run"}
    BY <1>2 DEF AtforkInsert, ForkTypeOK, ForkLocked
  <2>3. ForkLocked' /\ LoopsInStep' /\ ChildInStep'
    BY <1>2, <2>2 DEF AtforkInsert, ForkTypeOK, ForkLocked, LoopsInStep, ChildInStep
  <2>4. QED
    BY <2>1, <2>3
<1>3. ASSUME NEW t \in FThread, ForkUnlock(t) PROVE ForkInv'
  BY <1>3 DEF ForkUnlock, ForkTypeOK, ForkLocked, LoopsInStep, ChildInStep
<1>4. ASSUME NEW t \in FThread, ForkLock(t) PROVE ForkInv'
  <2>1. NoChild \in Kid /\ NoChild.pc = "none"
    BY DEF NoChild, Kid
  <2>2. <<>> \o atfork_buf = atfork_buf
    BY ConcatEmptySeq DEF ForkTypeOK
  <2>3. ForkTypeOK' /\ ForkLocked'
    BY <1>4, <2>1 DEF ForkLock, ForkTypeOK, ForkLocked
  <2>4. LoopsInStep'
    BY <1>4, <2>2 DEF ForkLock, ForkTypeOK, LoopsInStep
  <2>5. ChildInStep'
    BY <1>4, <2>1 DEF ForkLock, ForkTypeOK, ChildInStep
  <2>6. QED
    BY <2>3, <2>4, <2>5
<1>5. ASSUME NEW t \in FThread, Prepare(t) PROVE ForkInv'
  <2>1. /\ Append(prepared[t], Head(tmp[t])) \in Seq(Nat) /\ Tail(tmp[t]) \in Seq(Nat)
        /\ Append(prepared[t], Head(tmp[t])) \o Tail(tmp[t]) = prepared[t] \o tmp[t]
    <3>1. prepared[t] \in Seq(Nat) /\ tmp[t] \in Seq(Nat) /\ tmp[t] # <<>>
      BY <1>5 DEF Prepare, ForkTypeOK
    <3>2. QED
      BY <3>1, MoveHead
  <2>2. ForkTypeOK' /\ ForkLocked' /\ ChildInStep'
    BY <1>5, <2>1 DEF Prepare, ForkTypeOK, ForkLocked, ChildInStep
  <2>3. LoopsInStep'
    BY <1>5, <2>1 DEF Prepare, ForkTypeOK, LoopsInStep
  <2>4. QED
    BY <2>2, <2>3
<1>6. ASSUME NEW t \in FThread, LibcFork(t) PROVE ForkInv'
  <2>1. /\ fpc[t] = "prepare" /\ tmp[t] = <<>> /\ parented[t] = <<>>
        /\ prepared[t] \o <<>> = atfork_buf /\ prepared[t] \in Seq(Nat) /\ atfork_buf \in Seq(Nat)
    BY <1>6 DEF LibcFork, ForkTypeOK, LoopsInStep
  <2>2. prepared[t] = atfork_buf
    BY <2>1, ConcatEmptySeq
  <2>3. Reverse(atfork_buf) \in Seq(Nat) /\ <<>> \o Reverse(atfork_buf) = Reverse(atfork_buf)
    BY <2>1, ReverseType, ConcatEmptySeq
  <2> DEFINE kid == [pc |-> "child", lock |-> atfork_lock = t, list |-> atfork_buf,
                     tmp |-> Backwards(atfork_buf), ran |-> <<>>, before |-> prepared[t]]
  <2>4. kid \in Kid /\ kid.pc = "child" /\ kid.ran \o kid.tmp = Reverse(kid.before)
    BY <2>1, <2>2, <2>3 DEF Kid, Backwards
  <2>5. child' = child \/ child' = [child EXCEPT ![t] = kid]
    BY <1>6 DEF LibcFork
  <2> HIDE DEF kid
  <2>6. ForkTypeOK' /\ ForkLocked'
    <3>1. child' \in [FThread -> Kid]
      BY <2>4, <2>5 DEF ForkTypeOK
    <3>2. /\ fpc' = [fpc EXCEPT ![t] = "parent"] /\ tmp' = [tmp EXCEPT ![t] = Reverse(atfork_buf)]
          /\ UNCHANGED <<handlers, atfork_buf, atfork_lock, prepared, parented>>
      BY <1>6 DEF LibcFork, Backwards
    <3>3. atfork_lock = t
      BY <2>1 DEF ForkLocked
    <3>4. QED
      BY <2>3, <3>1, <3>2, <3>3 DEF ForkTypeOK, ForkLocked
  <2>7. LoopsInStep'
    BY <1>6, <2>1, <2>2, <2>3 DEF LibcFork, ForkTypeOK, LoopsInStep, Backwards
  <2>8. ChildInStep'
    BY <2>4, <2>5 DEF ForkTypeOK, ChildInStep
  <2>9. QED
    BY <2>6, <2>7, <2>8
<1>7. ASSUME NEW t \in FThread, Parent(t) PROVE ForkInv'
  <2>1. /\ Append(parented[t], Head(tmp[t])) \in Seq(Nat) /\ Tail(tmp[t]) \in Seq(Nat)
        /\ Append(parented[t], Head(tmp[t])) \o Tail(tmp[t]) = parented[t] \o tmp[t]
    <3>1. parented[t] \in Seq(Nat) /\ tmp[t] \in Seq(Nat) /\ tmp[t] # <<>>
      BY <1>7 DEF Parent, ForkTypeOK
    <3>2. QED
      BY <3>1, MoveHead
  <2>2. ForkTypeOK' /\ ForkLocked' /\ ChildInStep'
    BY <1>7, <2>1 DEF Parent, ForkTypeOK, ForkLocked, ChildInStep
  <2>3. LoopsInStep'
    BY <1>7, <2>1 DEF Parent, ForkTypeOK, LoopsInStep
  <2>4. QED
    BY <2>2, <2>3
<1>8. ASSUME NEW t \in FThread, ParentDone(t) PROVE ForkInv'
  <2>1. parented[t] \o <<>> = parented[t]
    BY ConcatEmptySeq DEF ForkTypeOK
  <2>2. QED
    BY <1>8, <2>1 DEF ParentDone, ForkTypeOK, ForkLocked, LoopsInStep, ChildInStep
<1>9. ASSUME NEW t \in FThread, Child(t) PROVE ForkInv'
  <2>1. child[t] \in Kid /\ child[t].pc = "child" /\ child[t].ran \o child[t].tmp = Reverse(child[t].before)
    BY <1>9 DEF Child, ForkTypeOK, ChildInStep
  <2>2. ASSUME NEW k \in Kid, child' = [child EXCEPT ![t] = k],
               k.pc = "child" => k.ran \o k.tmp = Reverse(k.before),
               k.pc = "run" => k.ran = Reverse(k.before) /\ ~k.lock
        PROVE  ForkInv'
    <3>1. UNCHANGED <<atfork_lock, atfork_buf, fpc, tmp, prepared, parented, handlers>>
      BY <1>9 DEF Child
    <3>2. ForkTypeOK' /\ ForkLocked' /\ LoopsInStep'
      BY <2>2, <3>1 DEF ForkTypeOK, ForkLocked, LoopsInStep
    <3>3. ChildInStep'
      BY <2>2 DEF ForkTypeOK, ChildInStep
    <3>4. QED
      BY <3>2, <3>3
  <2>3. CASE child[t].tmp # <<>>
    <3> DEFINE k == NextHandler(child[t])
    <3>1. /\ Append(child[t].ran, Head(child[t].tmp)) \in Seq(Nat) /\ Tail(child[t].tmp) \in Seq(Nat)
          /\ Append(child[t].ran, Head(child[t].tmp)) \o Tail(child[t].tmp) = child[t].ran \o child[t].tmp
      <4>1. child[t].ran \in Seq(Nat) /\ child[t].tmp \in Seq(Nat)
        BY <2>1 DEF Kid
      <4>2. QED
        BY <2>3, <4>1, MoveHead
    <3>2. k \in Kid /\ k.pc = "child" /\ k.ran \o k.tmp = Reverse(k.before)
      BY <2>1, <3>1 DEF Kid, NextHandler
    <3>3. child' = [child EXCEPT ![t] = k]
      BY <1>9, <2>3 DEF Child
    <3> HIDE DEF k
    <3>4. QED
      BY <2>2, <3>2, <3>3
  <2>4. CASE child[t].tmp = <<>>
    <3> DEFINE k == [child[t] EXCEPT !.pc = "run", !.lock = FALSE]
    <3>1. child[t].ran \o <<>> = child[t].ran
      BY <2>1, ConcatEmptySeq DEF Kid
    <3>2. k \in Kid /\ k.pc = "run" /\ k.ran = Reverse(k.before) /\ ~k.lock
      BY <2>1, <2>4, <3>1 DEF Kid
    <3>3. child' = [child EXCEPT ![t] = k]
      BY <1>9, <2>4 DEF Child
    <3> HIDE DEF k
    <3>4. QED
      BY <2>2, <3>2, <3>3
  <2>5. QED
    BY <2>3, <2>4
<1>10. CASE UNCHANGED kidvars
  BY <1>10 DEF kidvars, ForkTypeOK, ForkLocked, LoopsInStep, ChildInStep
<1>11. QED
  BY <1>1, <1>2, <1>3, <1>4, <1>5, <1>6, <1>7, <1>8, <1>9, <1>10 DEF ForkNext, Forking

(* So it holds in every reachable state. *)
LEMMA ForkInductive == ForkSpec => []ForkInv
BY ForkInitInv, ForkNextInv, PTL DEF ForkSpec

(* What the prepare functions took is given back in reverse order, by the  *)
(* handlers of the same calls, in parent and child, however many threads   *)
(* fork and register handlers meanwhile.                                   *)
THEOREM HandlersArePaired == ForkSpec => []HandlersPaired
<1>1. ForkInv => HandlersPaired
  BY DEF ForkInv, LoopsInStep, ChildInStep, HandlersPaired
<1>2. QED
  BY <1>1, ForkInductive, PTL

=============================================================================
