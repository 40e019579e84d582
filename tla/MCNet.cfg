CONSTANTS
  Client = {c1}
  Version = {1, 2, 3}
  CallVersion = 2
  MaxLong = 9
  Total = 2
  Shorthand = {"short"}
  MaxCalls = 2
  MaxDup = 1
  MaxChange = 2
  Complaint = {"PROC_UNAVAIL"}
  Unit = 2
  SendSize = 6
  RecvSize = 6
  MaxRecord = 2
  MaxLen = 6
  Fatal = TRUE
  Family <- MCFamily
  Tries = 4
  Pause = 2
  Grace = 2
  MaxSearch = 1
  LocalNames = {0}
  MaxQueries = 2
  MaxPackets = 2
\* Every call has been made, or the connection is dead.
CHECK_DEADLOCK FALSE
SPECIFICATION MCSpec
INVARIANTS
  RpcRight
  
  
PROPERTIES
  
  RecordsServed
  MulticastHeard
  LookupReturns
