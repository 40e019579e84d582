----------------------------- MODULE MCPthread ------------------------------
(***************************************************************************)
(* The locks of libpthread, its thread keys and its fork, for TLC: each    *)
(* behaviour is about one of them, and the others stay in their initial    *)
(* state, where no step is enabled that fairness asks for.                 *)
(***************************************************************************)
EXTENDS PthreadMutex, Rwlock, PthreadKeys, PthreadFork

VARIABLE part

MCInit ==
  /\ part \in {"mutex", "rwlock", "keys", "fork"}
  /\ Init /\ (part # "mutex" => kind = "fast")
  /\ RwInit /\ KInit /\ ForkInit

MCNext ==
  /\ part' = part
  /\ \/ part = "mutex" /\ Next /\ UNCHANGED <<rwvars, kvars, kidvars>>
     \/ part = "rwlock" /\ RwNext /\ UNCHANGED <<vars, kvars, kidvars>>
     \/ part = "keys" /\ KNext /\ UNCHANGED <<vars, rwvars, kidvars>>
     \/ /\ part = "keys" /\ \A t \in KThread : kpc[t] = "gone"      \* all have ended
        /\ UNCHANGED <<vars, rwvars, kvars, kidvars>>
     \/ part = "fork" /\ ForkNext /\ UNCHANGED <<vars, rwvars, kvars>>

MCSpec ==
  /\ MCInit /\ [][MCNext]_<<vars, rwvars, kvars, kidvars, part>>
  /\ \A t \in Threads : WF_vars(Step(t))
  /\ \A t \in RwThreads : WF_rwvars(RwStep(t))
  /\ ForkFairness

(* A mutex that is free, or is going to be, is taken by somebody who wants *)
(* it, and so is a reader-writer lock.                                     *)
LocksHandedOn == HandedOn /\ FreeIsTaken
=============================================================================
