------------------------------- MODULE MCNet --------------------------------
(***************************************************************************)
(* Remote calls over UDP (RpcUdp), record marking over TCP (XdrRec) and    *)
(* the resolver (Resolver), for TLC: each behaviour is about one of them.  *)
(* In the initial states of the others nothing is enabled that fairness    *)
(* asks for.                                                               *)
(***************************************************************************)
EXTENDS RpcUdp, XdrRec, Resolver

VARIABLE part

MCFamily == <<4, 6>>

MCInit ==
  /\ part \in {"udp", "tcp", "resolver"}
  /\ RInit /\ XInit /\ DInit /\ (part # "resolver" => conf = [ns |-> 0, search |-> 0])

MCNext ==
  /\ part' = part
  /\ \/ part = "udp" /\ RNext /\ UNCHANGED <<xvars, dvars>>
     \/ part = "tcp" /\ XNext /\ UNCHANGED <<rvars, dvars>>
     \/ part = "resolver" /\ DNext /\ UNCHANGED <<rvars, xvars>>

MCSpec ==
  MCInit /\ [][MCNext]_<<rvars, xvars, dvars, part>> /\ RFairness /\ XFairness /\ DFairness
=============================================================================
