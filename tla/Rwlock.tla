------------------------------- MODULE Rwlock -------------------------------
(***************************************************************************)
(* libpthread's reader-writer lock:                                        *)
(* pthread_rwlock_{init,rdlock,tryrdlock,wrlock,trywrlock,unlock}.c.       *)
(*                                                                         *)
(* The whole lock is one unsigned word, n, changed by compare-and-swap     *)
(* only: each loop reads n ("read"), decides, and swaps ("cas").  A thread *)
(* that read-locks twice is two members of RwThreads.                      *)
(***************************************************************************)
EXTENDS Naturals, FiniteSets

CONSTANTS RwThreads,    \* the acquisitions that may be under way
          MaxReaders,   \* 0x10000000
          WriterBit     \* 0x80000000

ASSUME RwlockAssumption ==
  /\ IsFiniteSet(RwThreads)
  /\ MaxReaders \in Nat \ {0}
  /\ WriterBit \in Nat
  /\ MaxReaders < WriterBit

VARIABLES n,        \* rwlock->n
          rwpc,     \* rwpc[t]: the next step of t
          rwcall,   \* rwcall[t]: the call t is in, or "none"
          cur,      \* cur[t]: the value of n that t read last
          hold      \* hold[t]: how t holds the lock: "none", "read" or "write"

rwvars == <<n, rwpc, rwcall, cur, hold>>

RdCalls == {"tryrdlock", "rdlock"}
WrCalls == {"trywrlock", "wrlock"}

RwInit ==
  /\ n = 0
  /\ rwpc = [t \in RwThreads |-> "idle"]
  /\ rwcall = [t \in RwThreads |-> "none"]
  /\ cur = [t \in RwThreads |-> 0]
  /\ hold = [t \in RwThreads |-> "none"]

RwGoto(t, l) == rwpc' = [rwpc EXCEPT ![t] = l]

RwReturn(t) ==
  /\ RwGoto(t, "idle")
  /\ rwcall' = [rwcall EXCEPT ![t] = "none"]
  /\ cur' = [cur EXCEPT ![t] = 0]

(* The try calls report EBUSY or EAGAIN; rdlock and wrlock try again. *)
Refused(t) ==
  IF rwcall[t] \in {"tryrdlock", "trywrlock"}
  THEN RwReturn(t)
  ELSE UNCHANGED <<rwpc, rwcall, cur>>

RwCall(t, c) ==
  /\ rwpc[t] = "idle"
  /\ IF c = "unlock" THEN hold[t] # "none" ELSE hold[t] = "none"
  /\ rwcall' = [rwcall EXCEPT ![t] = c]
  /\ RwGoto(t, "read")
  /\ UNCHANGED <<n, cur, hold>>

(* cur=rwlock->n, and on to the compare-and-swap. *)
Proceed(t) ==
  /\ cur' = [cur EXCEPT ![t] = n]
  /\ RwGoto(t, "cas")
  /\ UNCHANGED rwcall

(* The compare-and-swap of the loops fails: read n again. *)
Retry(t) ==
  /\ n # cur[t]
  /\ RwGoto(t, "read")
  /\ cur' = [cur EXCEPT ![t] = 0]
  /\ UNCHANGED <<n, rwcall, hold>>

-----------------------------------------------------------------------------
RdRead(t) ==
  /\ rwpc[t] = "read" /\ rwcall[t] \in RdCalls
  /\ \/ n >= WriterBit /\ Refused(t)                           \* EBUSY
     \/ n < WriterBit /\ n >= MaxReaders /\ Refused(t)         \* EAGAIN
     \/ n < WriterBit /\ n < MaxReaders /\ Proceed(t)
  /\ UNCHANGED <<n, hold>>

(* Mutant: a plain store of cur+1. *)
RdStore(t) ==
  /\ rwpc[t] = "cas" /\ rwcall[t] \in RdCalls
  /\ n' = cur[t] + 1
  /\ hold' = [hold EXCEPT ![t] = "read"]
  /\ RwReturn(t)

RdCas(t) ==
  /\ rwpc[t] = "cas" /\ rwcall[t] \in RdCalls
  /\ \/ /\ n = cur[t]
        /\ n' = cur[t] + 1
        /\ hold' = [hold EXCEPT ![t] = "read"]
        /\ RwReturn(t)
     \/ Retry(t)

(* Mutant: the test the wrong way round. *)
WrReadInverted(t) ==
  /\ rwpc[t] = "read" /\ rwcall[t] \in WrCalls
  /\ \/ n = 0 /\ Refused(t)
     \/ n # 0 /\ Proceed(t)
  /\ UNCHANGED <<n, hold>>

WrRead(t) ==
  /\ rwpc[t] = "read" /\ rwcall[t] \in WrCalls
  /\ \/ n # 0 /\ Refused(t)                                    \* EBUSY
     \/ n = 0 /\ Proceed(t)
  /\ UNCHANGED <<n, hold>>

(* Mutant: a plain store of the writer bit. *)
WrStore(t) ==
  /\ rwpc[t] = "cas" /\ rwcall[t] \in WrCalls
  /\ n' = WriterBit
  /\ hold' = [hold EXCEPT ![t] = "write"]
  /\ RwReturn(t)

(* cur is 0 here: trywrlock goes on only when it read 0. *)
WrCas(t) ==
  /\ rwpc[t] = "cas" /\ rwcall[t] \in WrCalls
  /\ \/ /\ n = 0
        /\ n' = WriterBit
        /\ hold' = [hold EXCEPT ![t] = "write"]
        /\ RwReturn(t)
     \/ Retry(t)

(* With n = 0 unlock returns -1 and EPERM: a caller that holds the lock    *)
(* never gets there (UnlockAllowed).                                       *)
UnlockRead(t) ==
  /\ rwpc[t] = "read" /\ rwcall[t] = "unlock"
  /\ cur' = [cur EXCEPT ![t] = n]
  /\ RwGoto(t, IF n = 0 THEN "eperm" ELSE "cas")
  /\ UNCHANGED <<n, rwcall, hold>>

(* Mutant: a plain store of next. *)
UnlockStore(t) ==
  /\ rwpc[t] = "cas" /\ rwcall[t] = "unlock"
  /\ n' = IF cur[t] = WriterBit THEN 0 ELSE cur[t] - 1
  /\ hold' = [hold EXCEPT ![t] = "none"]
  /\ RwReturn(t)

UnlockCas(t) ==
  /\ rwpc[t] = "cas" /\ rwcall[t] = "unlock"
  /\ \/ /\ n = cur[t]
        /\ n' = IF cur[t] = WriterBit THEN 0 ELSE cur[t] - 1
        /\ hold' = [hold EXCEPT ![t] = "none"]
        /\ RwReturn(t)
     \/ Retry(t)

-----------------------------------------------------------------------------
RwStep(t) ==
  RdRead(t) \/ RdCas(t) \/ WrRead(t) \/ WrCas(t) \/ UnlockRead(t) \/ UnlockCas(t)

RwNext ==
  \E t \in RwThreads :
    \/ \E c \in RdCalls \cup WrCalls \cup {"unlock"} : RwCall(t, c)
    \/ RwStep(t)

RwSpec == RwInit /\ [][RwNext]_rwvars

RwFairSpec == RwSpec /\ \A t \in RwThreads : WF_rwvars(RwStep(t))

-----------------------------------------------------------------------------
(* Properties.                                                             *)

Readers == {t \in RwThreads : hold[t] = "read"}
Writers == {t \in RwThreads : hold[t] = "write"}

(* Types, and the limit of tryrdlock: however the reads of n and the       *)
(* compare-and-swaps interleave, a count never passes MaxReaders, so that  *)
(* it never runs into the writer bit.                                      *)
RwTypeOK ==
  /\ n \in (0 .. MaxReaders) \cup {WriterBit}
  /\ rwpc \in [RwThreads -> {"idle", "read", "cas", "eperm"}]
  /\ rwcall \in [RwThreads -> RdCalls \cup WrCalls \cup {"unlock", "none"}]
  /\ cur \in [RwThreads -> (0 .. MaxReaders) \cup {WriterBit}]
  /\ hold \in [RwThreads -> {"none", "read", "write"}]

(* n says exactly who holds the lock: the writer bit and nothing else for  *)
(* a writer, the number of read locks otherwise.                           *)
HoldersCounted ==
  n = IF Writers # {} THEN WriterBit ELSE Cardinality(Readers)

(* pthread_rwlock_unlock never answers EPERM to a thread that holds the    *)
(* lock.                                                                   *)
UnlockAllowed == \A t \in RwThreads : rwpc[t] # "eperm"

RwAbstract == INSTANCE RwlockSpec WITH Threads <- RwThreads, readers <- Readers, writers <- Writers

(* The word and its compare-and-swap loops implement many readers or one   *)
(* writer.                                                                 *)
ImplementsRwlock == RwAbstract!Spec

(* A free lock that rdlock or wrlock is asked for does not stay free: the  *)
(* loops cannot starve each other all at once.                             *)
FreeIsTaken ==
  n = 0 /\ (\E t \in RwThreads : rwcall[t] \in {"rdlock", "wrlock"}) ~> n # 0
=============================================================================
