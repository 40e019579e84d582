CONSTANTS
  MaxFlags = 2
  MaxWidth = 5
  MaxPrec = 4
  Magnitudes = {0, 1, 9, 15}
  IntBits = 5
  ShortBits = 3
\* One call, and then nothing.
CHECK_DEADLOCK FALSE
SPECIFICATION PSpec
INVARIANT ZeroFlagIgnored
