\* When all threads are created, joined or detached, nothing is left to do.
CHECK_DEADLOCK FALSE
CONSTANTS
  Clients = {c1, c2}
  Managed = {m1, m2, m3}
  Null = Null
  OneSuspension = FALSE
SPECIFICATION Spec
INVARIANTS
  JoinWaits
