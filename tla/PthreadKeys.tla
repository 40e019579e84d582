---------------------------- MODULE PthreadKeys -----------------------------
(***************************************************************************)
(* Thread-specific data of libpthread: pthread_key.c.                      *)
(*                                                                         *)
(* A client creates a key, and deletes only what it has created.  Values   *)
(* are 0, none, or 1.  pthread_getspecific changes nothing and is left     *)
(* out.                                                                    *)
(***************************************************************************)
EXTENDS Naturals

CONSTANTS KThread,
          KEYS_MAX,     \* PTHREAD_KEYS_MAX
          MaxCreated    \* bound: keys ever created

ASSUME KeysAssumption ==
  KEYS_MAX \in Nat \ {0} /\ MaxCreated \in Nat /\ "free" \notin KThread

VARIABLES keys_lock,    \* __thread_keys_lock: who has it, or "free"
          keys,         \* __thread_keys: used and destructor
          tkd,          \* tkd[t][k]: th->tkd
          kpc, ki,      \* the next step of each thread, and its i or key
          mine,         \* mine[t]: the keys t has created
          created,
          due, called   \* the destructors that have to be called for t, and those that were

kvars == <<keys_lock, keys, tkd, kpc, ki, mine, created, due, called>>

Key0 == 0 .. KEYS_MAX - 1

Unused == [used |-> FALSE, destructor |-> FALSE]

(* __thread_start__key clears tkd. *)
KInit ==
  /\ keys_lock = "free" /\ keys = [k \in Key0 |-> Unused] /\ created = 0
  /\ tkd = [t \in KThread |-> [k \in Key0 |-> 0]]
  /\ kpc = [t \in KThread |-> "run"] /\ ki = [t \in KThread |-> 0]
  /\ mine = [t \in KThread |-> {}] /\ due = [t \in KThread |-> {}] /\ called = [t \in KThread |-> {}]

KGoto(t, step, i) == kpc' = [kpc EXCEPT ![t] = step] /\ ki' = [ki EXCEPT ![t] = i]

-----------------------------------------------------------------------------
(* pthread_key_create *)
CreateCall(t) ==
  /\ kpc[t] = "run" /\ created < MaxCreated
  /\ created' = created + 1 /\ KGoto(t, "create", 0)
  /\ UNCHANGED <<keys_lock, keys, tkd, mine, due, called>>

(* Mutant: it does not wait. *)
CreateLockNone(t) ==
  /\ kpc[t] = "create"
  /\ keys_lock' = t /\ KGoto(t, "scan", 0)
  /\ UNCHANGED <<keys, tkd, mine, created, due, called>>

CreateLock(t) ==
  /\ kpc[t] = "create" /\ keys_lock = "free"
  /\ keys_lock' = t /\ KGoto(t, "scan", 0)
  /\ UNCHANGED <<keys, tkd, mine, created, due, called>>

(* One turn of the loop reads used. *)
CreateScan(t) ==
  /\ kpc[t] = "scan" /\ ki[t] < KEYS_MAX
  /\ IF keys[ki[t]].used THEN KGoto(t, "scan", ki[t] + 1) ELSE KGoto(t, "take", ki[t])
  /\ UNCHANGED <<keys_lock, keys, tkd, mine, created, due, called>>

CreateTake(t) ==
  /\ kpc[t] = "take"
  /\ \E d \in BOOLEAN : keys' = [keys EXCEPT ![ki[t]] = [used |-> TRUE, destructor |-> d]]
  /\ mine' = [mine EXCEPT ![t] = @ \cup {ki[t]}]
  /\ KGoto(t, "unlock", 0)
  /\ UNCHANGED <<keys_lock, tkd, created, due, called>>

(* EAGAIN *)
CreateFails(t) ==
  /\ kpc[t] = "scan" /\ ki[t] = KEYS_MAX
  /\ KGoto(t, "unlock", 0)
  /\ UNCHANGED <<keys_lock, keys, tkd, mine, created, due, called>>

KUnlock(t) ==
  /\ kpc[t] = "unlock"
  /\ keys_lock' = "free" /\ KGoto(t, "run", 0)
  /\ UNCHANGED <<keys, tkd, mine, created, due, called>>

(* pthread_key_delete *)
DeleteLock(t) ==
  /\ kpc[t] = "run" /\ keys_lock = "free"
  /\ \E k \in mine[t] : KGoto(t, "delete", k)
  /\ keys_lock' = t
  /\ UNCHANGED <<keys, tkd, mine, created, due, called>>

DeleteKey(t) ==
  /\ kpc[t] = "delete"
  /\ keys' = [keys EXCEPT ![ki[t]] = Unused]
  /\ mine' = [mine EXCEPT ![t] = @ \ {ki[t]}]
  /\ due' = [u \in KThread |-> due[u] \ {ki[t]}]
  /\ KGoto(t, "unlock", 0)
  /\ UNCHANGED <<keys_lock, tkd, created, called>>

(* pthread_setspecific takes no lock. *)
SetSpecific(t) ==
  /\ kpc[t] = "run"
  /\ \E k \in Key0, val \in {0, 1} : keys[k].used /\ tkd' = [tkd EXCEPT ![t][k] = val]
  /\ UNCHANGED <<keys_lock, keys, kpc, ki, mine, created, due, called>>

(* The thread ends: __thread_exit__key, which takes no lock either.        *)
ExitBegin(t) ==
  /\ kpc[t] = "run"
  /\ due' = [due EXCEPT ![t] = {k \in Key0 : keys[k].used /\ keys[k].destructor /\ tkd[t][k] # 0}]
  /\ KGoto(t, "exit", 0)
  /\ UNCHANGED <<keys_lock, keys, tkd, mine, created, called>>

(* Mutant: the last key is forgotten. *)
ExitKeyShort(t) ==
  /\ kpc[t] = "exit"
  /\ IF ki[t] >= KEYS_MAX - 1 THEN KGoto(t, "gone", 0)
     ELSE IF keys[ki[t]].used THEN KGoto(t, "destructor", ki[t]) ELSE KGoto(t, "exit", ki[t] + 1)
  /\ UNCHANGED <<keys_lock, keys, tkd, mine, created, due, called>>

(* used is read, and then the destructor. *)
ExitKey(t) ==
  /\ kpc[t] = "exit"
  /\ IF ki[t] = KEYS_MAX THEN KGoto(t, "gone", 0)
     ELSE IF keys[ki[t]].used THEN KGoto(t, "destructor", ki[t]) ELSE KGoto(t, "exit", ki[t] + 1)
  /\ UNCHANGED <<keys_lock, keys, tkd, mine, created, due, called>>

ExitDestructor(t) ==
  /\ kpc[t] = "destructor"
  /\ called' = [called EXCEPT ![t] = IF keys[ki[t]].destructor /\ tkd[t][ki[t]] # 0 THEN @ \cup {ki[t]} ELSE @]
  /\ KGoto(t, "exit", ki[t] + 1)
  /\ UNCHANGED <<keys_lock, keys, tkd, mine, created, due>>

KNext ==
  \E t \in KThread :
    \/ CreateCall(t) \/ CreateLock(t) \/ CreateScan(t) \/ CreateTake(t) \/ CreateFails(t) \/ KUnlock(t)
    \/ DeleteLock(t) \/ DeleteKey(t) \/ SetSpecific(t)
    \/ ExitBegin(t) \/ ExitKey(t) \/ ExitDestructor(t)

KSpec == KInit /\ [][KNext]_kvars

-----------------------------------------------------------------------------
(* Properties.                                                             *)

(* No key is given to two who ask for one at the same time, or while the   *)
(* first still has it.                                                     *)
KeysDistinct ==
  /\ \A t, u \in KThread : t # u => mine[t] \cap mine[u] = {}
  /\ \A t \in KThread : \A k \in mine[t] : keys[k].used

(* A thread that has ended has had the destructor called for all its data, *)
(* however keys come and go meanwhile: for every key that it had set and   *)
(* that was not deleted before the thread was gone.                        *)
DestructorsCalled ==
  \A t \in KThread : kpc[t] = "gone" => due[t] \subseteq called[t]

(* Keys are given out once and data destroyed, while threads create,       *)
(* delete, set and end.                                                    *)
KeysRight == KeysDistinct /\ DestructorsCalled
=============================================================================
