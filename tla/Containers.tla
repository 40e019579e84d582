---------------------------- MODULE Containers ------------------------------
(***************************************************************************)
(* The parts of the library that keep things for their callers: the hash   *)
(* table of search.h, the environment and the directory stream.            *)
(***************************************************************************)
EXTENDS Hsearch, Environ, Dir

(* The hash table, the environment and the directory stream implement what *)
(* they stand for, and putenv reallocates only what is its own.            *)
ContainersImplemented ==
  ImplementsDict /\ ImplementsEnvironment /\ ImplementsCursor /\ []ReallocOwn
=============================================================================
