CONSTANTS
  Threads = {t1, t2, t3}
  NoThread = NoThread
  CountRange = 4
  MaxDepth = 4
  RwThreads = {r1, r2, r3, r4}
  MaxReaders = 3
  WriterBit = 8
  KThread = {"u1", "u2"}
  KEYS_MAX = 2
  MaxCreated = 3
  FThread = {"u1", "u2"}
  MaxHandlers = 3
SPECIFICATION MCSpec
INVARIANTS
  OwnerTrusted
  HoldersCounted
  KeysRight
  HandlersPaired
PROPERTIES
  ImplementsMutex
  ImplementsRwlock
  LocksHandedOn
  ForkReturns
