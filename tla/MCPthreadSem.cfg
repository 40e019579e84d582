\* All threads may end up in sem_wait.
CHECK_DEADLOCK FALSE
CONSTANTS
  Threads = {t1, t2, t3}
  Interruptible = {}
  Cond = Cond
  Null = Null
  MaxPending = 2
  InitialValues = {0, 1}
  SemValueMax = 2
SPECIFICATION SemSpec
INVARIANT
  NobodyStranded
