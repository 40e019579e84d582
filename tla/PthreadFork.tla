---------------------------- MODULE PthreadFork -----------------------------
(***************************************************************************)
(* pthread_atfork and fork of libpthread: pthread_atfork.c.                *)
(*                                                                         *)
(* The list of handlers is a sequence, the newest first; a handler is a    *)
(* number and all three functions are given.  A thread that forks goes on  *)
(* twice: in the parent, and in a child, which has a copy of the lock and  *)
(* the list and no other thread.                                           *)
(***************************************************************************)
EXTENDS Naturals, Sequences, SequencesExt

CONSTANTS FThread, MaxHandlers    \* bound: calls of pthread_atfork

ASSUME ForkAssumption == MaxHandlers \in Nat /\ "free" \notin FThread

VARIABLES atfork_lock,   \* __atfork_struct_lock: who has it, or "free"
          atfork_buf,    \* pthread_atfork_buf
          fpc,           \* fpc[t]
          tmp,           \* tmp[t]: the handlers the loop has still to go through
          prepared,      \* the prepare functions that t has run for its fork
          parented,      \* the parent functions
          child,         \* the child of t: its copy, and the child functions it has run
          handlers       \* handlers made so far

kidvars == <<atfork_lock, atfork_buf, fpc, tmp, prepared, parented, child, handlers>>

NoChild == [pc |-> "none", lock |-> FALSE, list |-> <<>>, tmp |-> <<>>, ran |-> <<>>, before |-> <<>>]

ForkInit ==
  /\ atfork_lock = "free" /\ atfork_buf = <<>> /\ handlers = 0
  /\ fpc = [t \in FThread |-> "run"] /\ tmp = [t \in FThread |-> <<>>]
  /\ prepared = [t \in FThread |-> <<>>] /\ parented = [t \in FThread |-> <<>>]
  /\ child = [t \in FThread |-> NoChild]

At0(t, from, to) == fpc[t] = from /\ fpc' = [fpc EXCEPT ![t] = to]

-----------------------------------------------------------------------------
(* pthread_atfork: the lock, the new head of the list (or no memory), and  *)
(* the lock given back.                                                    *)

(* Mutant: a list that grows at its head needs no lock. *)
AtforkLockNone(t) ==
  /\ At0(t, "run", "insert") /\ handlers < MaxHandlers
  /\ UNCHANGED <<atfork_lock, atfork_buf, tmp, prepared, parented, child, handlers>>

AtforkLock(t) ==
  /\ At0(t, "run", "insert") /\ handlers < MaxHandlers
  /\ atfork_lock = "free" /\ atfork_lock' = t
  /\ UNCHANGED <<atfork_buf, tmp, prepared, parented, child, handlers>>

AtforkInsert(t) ==
  /\ At0(t, "insert", "unlock")
  /\ handlers' = handlers + 1
  /\ atfork_buf' \in {atfork_buf, <<handlers'>> \o atfork_buf}
  /\ UNCHANGED <<atfork_lock, tmp, prepared, parented, child>>

ForkUnlock(t) ==
  /\ At0(t, "unlock", "run")
  /\ atfork_lock' = "free"
  /\ UNCHANGED <<atfork_buf, tmp, prepared, parented, child, handlers>>

-----------------------------------------------------------------------------
(* fork: the prepare functions from the head on. *)
ForkLock(t) ==
  /\ At0(t, "run", "prepare")
  /\ atfork_lock = "free" /\ atfork_lock' = t
  /\ tmp' = [tmp EXCEPT ![t] = atfork_buf]
  /\ prepared' = [prepared EXCEPT ![t] = <<>>] /\ parented' = [parented EXCEPT ![t] = <<>>]
  /\ child' = [child EXCEPT ![t] = NoChild]
  /\ UNCHANGED <<atfork_buf, handlers>>

Prepare(t) ==
  /\ fpc[t] = "prepare" /\ tmp[t] # <<>>
  /\ prepared' = [prepared EXCEPT ![t] = Append(@, Head(tmp[t]))]
  /\ tmp' = [tmp EXCEPT ![t] = Tail(@)]
  /\ UNCHANGED <<atfork_lock, atfork_buf, fpc, parented, child, handlers>>

(* from pthread_atfork_buf.prev on *)
Backwards(list) == Reverse(list)

(* __libc_fork.  It may fail: then pid is -1 and the caller the parent. *)
LibcFork(t) ==
  /\ tmp[t] = <<>> /\ At0(t, "prepare", "parent")
  /\ child' \in {child, [child EXCEPT ![t] = [pc |-> "child", lock |-> atfork_lock = t, list |-> atfork_buf,
                                             tmp |-> Backwards(atfork_buf), ran |-> <<>>, before |-> prepared[t]]]}
  /\ tmp' = [tmp EXCEPT ![t] = Backwards(atfork_buf)]
  /\ UNCHANGED <<atfork_lock, atfork_buf, prepared, parented, handlers>>

Parent(t) ==
  /\ fpc[t] = "parent" /\ tmp[t] # <<>>
  /\ parented' = [parented EXCEPT ![t] = Append(@, Head(tmp[t]))]
  /\ tmp' = [tmp EXCEPT ![t] = Tail(@)]
  /\ UNCHANGED <<atfork_lock, atfork_buf, fpc, prepared, child, handlers>>

ParentDone(t) ==
  /\ tmp[t] = <<>> /\ At0(t, "parent", "unlock")
  /\ UNCHANGED <<atfork_lock, atfork_buf, tmp, prepared, parented, child, handlers>>

(* One turn of the loop in the child. *)
NextHandler(kid) == [kid EXCEPT !.ran = Append(kid.ran, Head(kid.tmp)), !.tmp = Tail(kid.tmp)]

(* Mutant: the child takes the lock for its part. *)
ChildWaits(t) ==
  /\ child[t].pc = "child" /\ ~child[t].lock
  /\ child' = [child EXCEPT ![t] =
                 IF @.tmp # <<>> THEN NextHandler(@) ELSE [@ EXCEPT !.pc = "run"]]
  /\ UNCHANGED <<atfork_lock, atfork_buf, fpc, tmp, prepared, parented, handlers>>

(* In the child, where nobody else runs. *)
Child(t) ==
  /\ child[t].pc = "child"
  /\ child' = [child EXCEPT ![t] =
                 IF @.tmp # <<>> THEN NextHandler(@) ELSE [@ EXCEPT !.pc = "run", !.lock = FALSE]]
  /\ UNCHANGED <<atfork_lock, atfork_buf, fpc, tmp, prepared, parented, handlers>>

Forking(t) == ForkUnlock(t) \/ AtforkInsert(t) \/ Prepare(t) \/ LibcFork(t) \/ Parent(t) \/ ParentDone(t)

ForkNext == \E t \in FThread : AtforkLock(t) \/ ForkLock(t) \/ Forking(t) \/ Child(t)

ForkFairness == \A t \in FThread : WF_kidvars(Forking(t)) /\ WF_kidvars(Child(t))

ForkSpec == ForkInit /\ [][ForkNext]_kidvars /\ ForkFairness

-----------------------------------------------------------------------------
(* Properties.                                                             *)

(* What prepare has taken is given back in reverse order, by the handlers  *)
(* of the same calls, no more and no fewer, in the parent and in the       *)
(* child, while other threads fork and register handlers.                  *)
HandlersPaired ==
  \A t \in FThread :
    /\ fpc[t] = "unlock" => parented[t] = Reverse(prepared[t])
    /\ child[t].pc = "run" => child[t].ran = Reverse(child[t].before) /\ ~child[t].lock

(* The child gets through, alone with its copy of the lock, and the parent *)
(* too.                                                                    *)
ForkReturns ==
  \A t \in FThread : /\ fpc[t] = "prepare" ~> fpc[t] = "run"
                     /\ child[t].pc = "child" ~> child[t].pc # "child"
=============================================================================
