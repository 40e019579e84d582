CONSTANTS
  Byte = {1, 2}
  Newline = 2
  BUFSIZE = 2
  MaxFile = 3
  Careful = TRUE
  Handler = {h1, h2}
  File = {s1}
  NUM_ATEXIT = 3
\* The process may have ended, or the stream met an accident.
CHECK_DEADLOCK FALSE
SPECIFICATION MCSpec
INVARIANTS
  TypeOK
  ExitOrderly

  
