\* All threads may end up waiting, with nobody left to signal.
CHECK_DEADLOCK FALSE
CONSTANTS
  Threads = {t1, t2, t3}
  Interruptible = {t1}
  Cond = Cond
  Null = Null
  MaxPending = 2
SPECIFICATION FairSpec
INVARIANTS
  WaitersSafe
PROPERTIES
  ImplementsQueue
  RestartedLeaves
