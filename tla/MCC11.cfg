CONSTANTS
  t1 = t1
  t2 = t2
  t3 = t3
  Threads <- MCThreads
  NoThread = NoThread
  RecursionLimit = 2
  Result = Result
  Unset = Unset
  MaxSignals = 2
SPECIFICATION MCSpec
INVARIANTS
  MutualExclusion
  NoLostWakeup
  
PROPERTIES
  SleeperServed
  ImplementsMutex
  SleeperJoined
  MemoryReclaimed
