CONSTANTS
  HKey = {a, b, c}
  HValue = {v1, v2}
  HNone = HNone
  Hashes = {0, 1, 5}
  Counts = {1}
  MaxFilled = 4
  Primes <- MCPrimes
  Name = {a, b, c}
  EValue = {v1, v2}
  ENone = ENone
  Reclen <- MCReclen
  BufSize = 4
  Elem = {1, 2, 3}
  MaxMemb = 5
  Starts = {0, 10957, 47482, 84006, 157054}
  Span = 800
  Seconds = {3660, 86399}
  Width = 12
  LowBits = 6
  Lead <- MCLead
  Digits = {0, 1, 9, 15, 35}
  MaxDigits = 4
  Bases = {0, 1, 2, 10, 16, 36}
  Expressions <- MCExpressions
  Texts <- MCTexts
  Alnum = {"a", "b"}
  Newline = "nl"
  Patterns <- MCPatterns
  FileNames <- MCFileNames
  Members <- MCMembers
  FlagSets = {{}, {"PATHNAME", "PERIOD"}, {"PERIOD", "NOESCAPE"}, {"PATHNAME", "LEADING_DIR"}}
  MaxFlags = 2
  MaxWidth = 5
  MaxPrec = 4
  Magnitudes = {0, 1, 9, 15}
  IntBits = 5
  ShortBits = 3
  Library = {"a", "b", "c"}
  Graphs <- MCGraphs
  Paths <- MCPaths
  Sonames = {"a", "b"}
  MAX_QUEUE = 8
  MaxHandles = 7
  MaxOpens = 2
\* The calls come to an end.
CHECK_DEADLOCK FALSE
SPECIFICATION MCSpec
INVARIANTS
  
  SortRight
  PatternsRight
  
PROPERTIES
  
  LoopsEnd
  ImplementsCalendar
