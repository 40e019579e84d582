----------------------------- MODULE RwlockSpec -----------------------------
(***************************************************************************)
(* What a reader-writer lock promises: many readers or one writer.         *)
(***************************************************************************)
CONSTANT Threads

VARIABLES readers, writers     \* the threads that hold the lock each way

Init == readers = {} /\ writers = {}

LockRead(t) ==
  /\ writers = {} /\ t \notin readers
  /\ readers' = readers \cup {t}
  /\ UNCHANGED writers

LockWrite(t) ==
  /\ readers = {} /\ writers = {}
  /\ writers' = {t}
  /\ UNCHANGED readers

Unlock(t) ==
  /\ t \in readers \cup writers
  /\ readers' = readers \ {t}
  /\ writers' = writers \ {t}

Next == \E t \in Threads : LockRead(t) \/ LockWrite(t) \/ Unlock(t)

Spec == Init /\ [][Next]_<<readers, writers>>
=============================================================================
