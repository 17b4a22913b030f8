\* An inserter that also runs out of memory, and a reader that seeks, iterates
\* and ranges three times.
SPECIFICATION Spec
CONSTANTS
  Writers = {w1}
  Readers = {r1}
  Keys = {1, 2}
  Bytes <- MCBytes
  Bounds <- MCBounds
  MaxHeadHeight = 2
  ArenaNodes = 2
  MaxOps = 3
INVARIANTS
  ScanIsComplete
PROPERTIES
  SearchIsExact
CHECK_DEADLOCK FALSE
