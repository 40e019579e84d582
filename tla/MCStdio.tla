------------------------------- MODULE MCStdio ------------------------------
(***************************************************************************)
(* The stream of Stdio and the end of the process of AtExit, for TLC: each *)
(* behaviour is about one of the two.                                      *)
(***************************************************************************)
EXTENDS Stdio, AtExit

VARIABLE part

MCInit ==
  /\ part \in {"stream", "exit"}
  /\ Init /\ AInit
  /\ part = "exit" => f.file = <<>> /\ f.flags = {"CANWRITE"}

MCNext ==
  /\ part' = part
  /\ \/ part = "stream" /\ Next /\ UNCHANGED avars
     \/ part = "exit" /\ ANext /\ UNCHANGED vars

MCSpec == MCInit /\ [][MCNext]_<<vars, avars, part>>

=============================================================================
