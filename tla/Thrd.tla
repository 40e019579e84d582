-------------------------------- MODULE Thrd --------------------------------
(***************************************************************************)
(* The life of a C11 thread: lib/thrd_{create,exit,join,detach}.c.         *)
(*                                                                         *)
(* One thread and the client that creates it and later joins or detaches   *)
(* it, at most once, as C11 demands; the thread may detach itself instead. *)
(* The thread's memory is one mapping in two parts: the stack, and behind  *)
(* it the tail with the thread control block and *thr, which outlives the  *)
(* stack of a thread that nobody has joined yet.  Every access of the      *)
(* client to *thr is a step of its own, and one to an unmapped tail is a   *)
(* fault, which ends the process.  A futex call on it only fails (EFAULT). *)
(***************************************************************************)
EXTENDS Naturals, FiniteSets

CONSTANTS Result,   \* what the thread function returns
          Unset,    \* t->res before that, and "nothing received yet"
          MaxSignals  \* bound: signals that interrupt a futex call

ASSUME ThrdAssumption == Result # Unset /\ MaxSignals \in Nat

VARIABLES flags,       \* thr->flags, a set of its bits
          join_futex, join_wait_futex,
          res,         \* thr->res
          arg,         \* thr->arg: the caller's, or the start of the tail
          memsize,     \* thr->memsize: of the stack, or of the tail
          mapped,      \* the parts of the mapping that exist
          tpc,         \* the thread's next step
          eflags,        \* the thread's variable flags in thrd_exit
          cpc,         \* the client's next step
          cflags,      \* the client's variable flags
          got,         \* *res of thrd_join
          fault,       \* unmapped memory has been touched
          signals,     \* signals still to come
          stray        \* munmap was given an address or length that is not the tail's

thr  == <<flags, join_futex, join_wait_futex, res, arg, memsize>>
mem  == <<mapped, fault, stray>>
thrd == <<tpc, eflags>>
cli  == <<cpc, cflags, got>>
tvars == <<thr, mem, thrd, cli, signals>>

Detached == 1    \* the bits of flags, as threads.h numbers them
Exited   == 2
TearDown == 4

TInit ==
  /\ flags = {} /\ join_futex = 0 /\ join_wait_futex = 0
  /\ res = Unset /\ arg = "user" /\ memsize = "stack"
  /\ mapped = {} /\ fault = FALSE /\ stray = FALSE
  /\ tpc = "none" /\ eflags = {}
  /\ cpc = "start" /\ cflags = {} /\ got = Unset
  /\ signals \in 0 .. MaxSignals

-----------------------------------------------------------------------------
(* The client.                                                             *)

(* An access to *thr by the client: what follows, if the tail is there. *)
Touch(step) ==
  \/ "tail" \in mapped /\ fault' = FALSE /\ step
  \/ "tail" \notin mapped /\ fault' = TRUE /\ UNCHANGED <<thr, cli>>

(* thrd_create up to clone.  A failing mmap, mprotect or clone leaves      *)
(* nothing mapped.                                                         *)
Create ==
  /\ cpc = "start"
  /\ \/ mapped' = {"stack", "tail"} /\ tpc' = "run" /\ cpc' = "clone"
     \/ cpc' = "done" /\ UNCHANGED <<mapped, tpc>>
  /\ UNCHANGED <<thr, fault, stray, eflags, cflags, got>>

(* t->tid=clone(..), read again in the next line; *thr=t. *)
CreateReturn ==
  /\ cpc = "clone"
  /\ Touch(cpc' = "ready" /\ UNCHANGED <<thr, cflags, got>>)
  /\ UNCHANGED <<thrd, mapped, stray>>

(* thrd_join or thrd_detach reads flags, join until they are not those of  *)
(* a thread that is being torn down.  A thread that has detached itself is *)
(* nobody's to join.                                                       *)
ReadFlags(call) ==
  /\ \/ cpc = "ready" /\ ~(Detached \in flags)
     \/ cpc = call /\ TearDown \in cflags /\ Exited \notin cflags /\ call = "join"
  /\ Touch(cpc' = call /\ cflags' = flags /\ UNCHANGED <<thr, got>>)
  /\ UNCHANGED <<thrd, mapped, stray>>

(* Refused, or on to the join of a running or of a dead thread. *)
JoinDecide ==
  /\ cpc = "join" /\ cflags \cap {Exited, TearDown} # {TearDown}
  /\ cpc' = IF Exited \in cflags THEN "dead"
            ELSE IF cflags \cap {Detached, TearDown} # {} THEN "done" ELSE "cas"
  /\ UNCHANGED <<thr, mem, thrd, cflags, got>>

(* __sync_bool_compare_and_swap(&thr->join_futex,0,1) *)
JoinCas ==
  /\ cpc = "cas"
  /\ Touch(/\ join_futex' = 1
           /\ cpc' = IF join_futex = 0 THEN "futex" ELSE "done"
           /\ UNCHANGED <<flags, join_wait_futex, res, arg, memsize, cflags, got>>)
  /\ UNCHANGED <<thrd, mapped, stray>>

(* FUTEX_WAIT on join_futex: join_futex is 1, so it sleeps, unless the     *)
(* memory is gone (EFAULT), which is taken for a wake-up.                  *)
JoinWait ==
  /\ cpc = "futex"
  /\ cpc' = IF "tail" \in mapped THEN "asleep" ELSE "collect"
  /\ UNCHANGED <<thr, mem, thrd, cflags, got>>

(* Mutant: an interrupted wait is taken for a wake-up. *)
JoinInterruptEnds ==
  /\ cpc = "asleep" /\ signals > 0
  /\ signals' = signals - 1
  /\ cpc' = "collect"
  /\ UNCHANGED <<thr, mem, thrd, cflags, got>>

(* EINTR: wait again. *)
JoinInterrupt ==
  /\ cpc = "asleep" /\ signals > 0
  /\ signals' = signals - 1
  /\ cpc' = "futex"
  /\ UNCHANGED <<thr, mem, thrd, cflags, got>>

(* Mutant: the field next to res. *)
JoinCollectFlags ==
  /\ cpc = "collect"
  /\ Touch(cpc' = "ack" /\ got' = flags /\ UNCHANGED <<thr, cflags>>)
  /\ UNCHANGED <<thrd, mapped, stray>>

JoinCollect ==
  /\ cpc = "collect"
  /\ Touch(cpc' = "ack" /\ got' = res /\ UNCHANGED <<thr, cflags>>)
  /\ UNCHANGED <<thrd, mapped, stray>>

(* join_wait_futex=1, then FUTEX_WAKE on it. *)
JoinAck ==
  /\ cpc = "ack"
  /\ Touch(/\ join_wait_futex' = 1
           /\ cpc' = "wake"
           /\ UNCHANGED <<flags, join_futex, res, arg, memsize, cflags, got>>)
  /\ UNCHANGED <<thrd, mapped, stray>>

JoinWake ==
  /\ cpc = "wake"
  /\ tpc' = IF tpc = "asleep" THEN "again" ELSE tpc
  /\ cpc' = "joined"
  /\ UNCHANGED <<thr, mem, eflags, cflags, got>>

(* The thread was dead already: res, and munmap(thr->arg,thr->memsize). *)
JoinDead ==
  /\ cpc = "dead"
  /\ Touch(cpc' = "unmap" /\ got' = res /\ UNCHANGED <<thr, cflags>>)
  /\ UNCHANGED <<thrd, mapped, stray>>

(* Mutant: the joiner unmaps the whole of the thread. *)
JoinUnmapAll ==
  /\ cpc = "unmap"
  /\ cpc' = "joined"
  /\ mapped' = {}
  /\ UNCHANGED <<thr, fault, stray, thrd, cflags, got>>

(* Mutant: the joiner leaves the tail to the thread. *)
JoinUnmapNone ==
  /\ cpc = "unmap"
  /\ cpc' = "joined"
  /\ UNCHANGED <<thr, mem, thrd, cflags, got>>

(* What munmap takes away is what arg and memsize say at this moment: the  *)
(* tail, or with a memsize that is still the stack's the tail and what     *)
(* lies behind it, or what the caller's argument points to.                *)
JoinUnmap ==
  /\ cpc = "unmap"
  /\ cpc' = "joined"
  /\ mapped' = IF arg = "tail" THEN mapped \ {"tail"} ELSE mapped
  /\ stray' = ~(arg = "tail" /\ memsize = "tail")
  /\ UNCHANGED <<thr, fault, thrd, cflags, got>>

(* The loop of thrd_detach: refused, or munmap at memstart+memsize (no     *)
(* page boundary, so that it fails), or the swap on flags, which gives the *)
(* old value: one that succeeds is followed by another turn.               *)
DetachTry ==
  /\ cpc = "detach"
  /\ Touch(\/ /\ cflags \cap {TearDown, Exited, Detached} # {}
              /\ cpc' = IF TearDown \in cflags THEN "refused" ELSE "detached"
              /\ UNCHANGED <<thr, cflags, got>>
           \/ /\ cflags = {}
              /\ flags' = IF flags = cflags THEN flags \cup {Detached} ELSE flags
              /\ cflags' = flags
              /\ UNCHANGED <<join_futex, join_wait_futex, res, arg, memsize, cpc, got>>)
  /\ UNCHANGED <<thrd, mapped, stray>>

-----------------------------------------------------------------------------
(* The thread.                                                             *)

(* thrd_detach(thrd_current()), before anybody else joins or detaches. *)
SelfDetach ==
  /\ tpc = "run" /\ cpc \in {"clone", "ready"} /\ flags = {}
  /\ flags' = {Detached}
  /\ UNCHANGED <<join_futex, join_wait_futex, res, arg, memsize, mem, thrd, cli>>

(* The function returns; thrd_exit runs the destructors and stores res. *)
ExitRes ==
  /\ tpc = "run"
  /\ res' = Result
  /\ tpc' = "or4"
  /\ UNCHANGED <<flags, join_futex, join_wait_futex, arg, memsize, mem, eflags, cli>>

(* __sync_fetch_and_or(&t->flags,4) *)
ExitTearDown ==
  /\ tpc = "or4"
  /\ eflags' = flags
  /\ flags' = flags \cup {TearDown}
  /\ tpc' = "check"
  /\ UNCHANGED <<join_futex, join_wait_futex, res, arg, memsize, mem, cli>>

ExitCheck ==
  /\ tpc = "check"
  /\ \/ join_futex = 1 /\ tpc' = "wake" /\ join_wait_futex' = 0
     \/ /\ join_futex = 0 /\ UNCHANGED join_wait_futex
        /\ tpc' = IF Detached \in eflags THEN "all" ELSE "or2"
  /\ UNCHANGED <<flags, join_futex, res, arg, memsize, mem, eflags, cli>>

(* Mutant: the thread does not wait for the joiner it woke. *)
ExitWakeRush ==
  /\ tpc = "wake"
  /\ cpc' = IF cpc = "asleep" THEN "collect" ELSE cpc
  /\ tpc' = "all"
  /\ eflags' = eflags \cup {Detached}
  /\ UNCHANGED <<thr, mem, cflags, got>>

(* while (futex(&t->join_futex,FUTEX_WAKE,1)==1): one more joiner woken, or *)
(* no more, and the thread counts as detached.                             *)
ExitWake ==
  /\ tpc = "wake"
  /\ \/ cpc = "asleep" /\ cpc' = "collect" /\ tpc' = "await" /\ UNCHANGED eflags
     \/ cpc # "asleep" /\ tpc' = "all" /\ eflags' = eflags \cup {Detached} /\ UNCHANGED cpc
  /\ UNCHANGED <<thr, mem, cflags, got>>

(* FUTEX_WAIT on join_wait_futex while it is 0. *)
ExitAwait ==
  /\ tpc = "await"
  /\ tpc' = IF join_wait_futex = 0 THEN "asleep" ELSE "again"
  /\ UNCHANGED <<thr, mem, eflags, cli>>

(* A signal: the futex call returns -1, which the loop's r==EINTR misses. *)
ExitInterrupt ==
  /\ tpc = "asleep" /\ signals > 0
  /\ signals' = signals - 1
  /\ tpc' = "again"
  /\ UNCHANGED <<thr, mem, eflags, cli>>

ExitAgain ==
  /\ tpc = "again"
  /\ join_wait_futex' = 0
  /\ tpc' = "wake"
  /\ UNCHANGED <<flags, join_futex, res, arg, memsize, mem, eflags, cli>>

(* __sync_fetch_and_or(&t->flags,2), then arg and memsize of the tail. *)
ExitOr2 ==
  /\ tpc = "or2"
  /\ flags' = flags \cup {Exited}
  /\ tpc' = "arg"
  /\ UNCHANGED <<join_futex, join_wait_futex, res, arg, memsize, mem, eflags, cli>>

ExitArg ==
  /\ tpc = "arg"
  /\ arg' = "tail"
  /\ tpc' = "memsize"
  /\ UNCHANGED <<flags, join_futex, join_wait_futex, res, memsize, mem, eflags, cli>>

(* The tail may be gone: flags has invited a joiner to unmap it. *)
ExitMemsize ==
  /\ tpc = "memsize"
  /\ \/ "tail" \in mapped /\ memsize' = "tail" /\ tpc' = "stack" /\ UNCHANGED fault
     \/ "tail" \notin mapped /\ fault' = TRUE /\ UNCHANGED <<memsize, tpc>>
  /\ UNCHANGED <<flags, join_futex, join_wait_futex, res, arg, mapped, stray, eflags, cli>>

(* Mutant: a detached thread leaves its tail behind. *)
ExitUnmapStack ==
  /\ tpc \in {"all", "stack"}
  /\ mapped' = mapped \ {"stack"}
  /\ tpc' = "gone"
  /\ UNCHANGED <<thr, fault, stray, eflags, cli>>

(* __munmap_and_exit *)
ExitUnmap ==
  /\ tpc \in {"all", "stack"}
  /\ mapped' = IF tpc = "all" THEN {} ELSE mapped \ {"stack"}
  /\ tpc' = "gone"
  /\ UNCHANGED <<thr, fault, stray, eflags, cli>>

-----------------------------------------------------------------------------
ClientStep ==
  \/ CreateReturn \/ JoinDecide \/ JoinCas \/ JoinWait \/ JoinCollect
  \/ JoinAck \/ JoinWake \/ JoinDead \/ JoinUnmap \/ DetachTry
  \/ (cpc = "join" /\ ReadFlags("join"))

ExitStep ==
  \/ ExitTearDown \/ ExitCheck \/ ExitWake \/ ExitAwait \/ ExitAgain
  \/ ExitOr2 \/ ExitArg \/ ExitMemsize \/ ExitUnmap

TNext ==
  /\ ~fault
  /\ \/ /\ \/ Create \/ ReadFlags("join") \/ ReadFlags("detach") \/ ClientStep
           \/ SelfDetach \/ ExitRes \/ ExitStep
        /\ UNCHANGED signals
     \/ JoinInterrupt \/ ExitInterrupt

TFairness ==
  /\ WF_tvars(~fault /\ ClientStep /\ UNCHANGED signals)
  /\ WF_tvars(~fault /\ ExitStep /\ UNCHANGED signals)

TSpec == TInit /\ [][TNext]_tvars /\ TFairness

-----------------------------------------------------------------------------
(* Properties.                                                             *)

TTypeOK ==
  /\ flags \in SUBSET {Detached, Exited, TearDown} /\ eflags \subseteq flags \cup {Detached}
  /\ join_futex \in 0 .. 1 /\ join_wait_futex \in 0 .. 1
  /\ res \in {Result, Unset} /\ got \in {Result, Unset}
  /\ arg \in {"user", "tail"} /\ memsize \in {"stack", "tail"}
  /\ mapped \subseteq {"stack", "tail"}
  /\ tpc \in {"none", "run", "or4", "check", "wake", "await", "asleep", "again",
              "or2", "arg", "memsize", "all", "stack", "gone"}
  /\ cpc \in {"start", "clone", "ready", "join", "cas", "futex", "asleep", "collect",
              "ack", "wake", "dead", "unmap", "detach", "joined", "detached", "refused", "done"}
  /\ cflags \in SUBSET {Detached, Exited, TearDown}
  /\ fault \in BOOLEAN /\ stray \in BOOLEAN /\ signals \in 0 .. MaxSignals

(* However the exit and the join interleave, a thrd_join that succeeds     *)
(* does so after the thread's function has ended, and with its result.     *)
JoinTruthful == cpc \in {"ack", "wake", "unmap", "joined"} => got = Result

(* The thread's stack is never unmapped under it, and its tail only when   *)
(* a joiner comes after flags|2: never in the exchange with a joiner that  *)
(* sleeps, and not before arg points to the tail.                          *)
ThreadKeepsMemory ==
  tpc \notin {"none", "gone"} =>
    "stack" \in mapped /\ (tpc \notin {"memsize", "stack"} => "tail" \in mapped)

(* A joiner that is asleep in the kernel when the thread begins thrd_exit  *)
(* gets the result, if no signal comes between: the two futexes make the   *)
(* thread wait for it.                                                     *)
SleeperJoined == (cpc = "asleep" /\ tpc = "or4" /\ signals = 0) ~> cpc = "joined"

(* A join that finds the flags of a thread that is gone returns, leaves    *)
(* nothing mapped and unmaps nothing else.                                 *)
DeadJoined ==
  (cpc = "join" /\ tpc = "gone" /\ cflags = flags) ~> (cpc = "joined" /\ mapped = {} /\ ~stray)

(* A thread that was detached before its end gives all its memory back     *)
(* (unless the process faults meanwhile).                                  *)
DetachedReclaimed ==
  (tpc = "or4" /\ Detached \in flags) ~> (fault \/ mapped = {})

(* What a join and an exit may do to each other: nothing but the result    *)
(* passes, and nobody takes memory from under the other.                   *)
JoinSafe == TTypeOK /\ JoinTruthful /\ ThreadKeepsMemory

(* The memory of a thread that was joined after its end, or detached       *)
(* before it, is given back.                                               *)
MemoryReclaimed == DeadJoined /\ DetachedReclaimed
=============================================================================
