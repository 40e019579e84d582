------------------------------ MODULE Environ -------------------------------
(***************************************************************************)
(* The environment: lib/putenv.c, lib/getenv.c, libugly/setenv.c and       *)
(* unsetenv.c.                                                             *)
(*                                                                         *)
(* environ is an array of entries; where says whose array it is: the one   *)
(* the process was given, none (a program may set environ to 0), the first *)
(* that putenv allocated or a later one.  origenv is putenv's static       *)
(* variable, "none" until it is set.                                       *)
(***************************************************************************)
EXTENDS Naturals, Sequences

CONSTANTS Name, EValue, ENone

ASSUME EnvironAssumption == ENone \notin EValue

VARIABLES environ, where, origenv, answer

evars == <<environ, where, origenv, answer>>

Entries == [name : Name, val : EValue]

(* Every variable is there once, in any order. *)
EInit ==
  /\ environ \in UNION {[1 .. n -> Entries] : n \in 0 .. 2}
  /\ \A i, j \in DOMAIN environ : environ[i].name = environ[j].name => i = j
  /\ where = "orig" /\ origenv = "none" /\ answer = ENone

(* The entry that the loops over environ stop at, or 0. *)
Index(n) ==
  LET hits == {i \in DOMAIN environ : environ[i].name = n}
  IN  IF hits = {} THEN 0 ELSE CHOOSE i \in hits : \A j \in hits : i <= j

(* Mutant: the hole is filled with the last entry, which stays. *)
WithoutLast(i) == [environ EXCEPT ![i] = environ[Len(environ)]]

Without(i) == SubSeq(environ, 1, i - 1) \o SubSeq(environ, i + 1, Len(environ))

(* Mutant: only putenv's own array is remembered. *)
OrigOwn == IF origenv = "none" /\ where # "orig" THEN where ELSE origenv

(* if (!origenv) origenv=environ; *)
Orig == IF origenv = "none" THEN where ELSE origenv

(* putenv of an entry that is not in list: in a new array if environ is    *)
(* still the original one, in a reallocated one else; or no memory.        *)
Grow(list, e) ==
  \/ environ' = Append(list, e) /\ where' = IF where = "none" THEN "first" ELSE "later"
  \/ environ' = list /\ UNCHANGED where

(* environ==origenv?0:environ: what realloc is given, if not 0. *)
Reallocated == where # Orig /\ where # "none"

(* putenv("name=value") *)
PutEnv(n, v) ==
  /\ IF Index(n) > 0
     THEN environ' = [environ EXCEPT ![Index(n)].val = v] /\ UNCHANGED where
     ELSE Grow(environ, [name |-> n, val |-> v])
  /\ origenv' = Orig
  /\ UNCHANGED answer

(* unsetenv, which is putenv("name") *)
UnsetEnv(n) ==
  /\ environ' = IF Index(n) > 0 THEN Without(Index(n)) ELSE environ
  /\ origenv' = Orig
  /\ UNCHANGED <<where, answer>>

(* setenv: what is there is removed and the new entry goes to the end. *)
SetEnv(n, v, overwrite) ==
  /\ IF Index(n) > 0 /\ ~overwrite THEN UNCHANGED <<environ, where, origenv>>
     ELSE /\ Grow(IF Index(n) > 0 THEN Without(Index(n)) ELSE environ, [name |-> n, val |-> v])
          /\ origenv' = Orig
  /\ UNCHANGED answer

GetEnv(n) ==
  /\ answer' = IF Index(n) > 0 THEN environ[Index(n)].val ELSE ENone
  /\ UNCHANGED <<environ, where, origenv>>

(* The program sets environ to 0. *)
ClearEnv ==
  /\ environ' = <<>> /\ where' = "none"
  /\ UNCHANGED <<origenv, answer>>

ENext ==
  \/ \E n \in Name : GetEnv(n) \/ UnsetEnv(n)
  \/ \E n \in Name, v \in EValue : PutEnv(n, v) \/ \E o \in BOOLEAN : SetEnv(n, v, o)
  \/ ClearEnv

ESpec == EInit /\ [][ENext]_evars

-----------------------------------------------------------------------------
EnvDict == INSTANCE Dict WITH Key <- Name, Value <- EValue, None <- ENone, ret <- answer,
            dict <- [n \in Name |-> IF Index(n) > 0 THEN environ[Index(n)].val ELSE ENone]

(* The array is a dictionary of the variables, whatever calls are mixed: a *)
(* call changes no variable but its own, and none is left with two values. *)
ImplementsEnvironment == EnvDict!DictSpec

(* putenv never hands an array to realloc that malloc did not make. *)
ReallocOwn == Reallocated => where \in {"first", "later"}
=============================================================================
