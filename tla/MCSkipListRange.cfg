\* A range over keys whose bytes order differently.
SPECIFICATION Spec
CONSTANTS
  Writers = {w1}
  Readers = {r1}
  Keys = {1, 2, 3}
  Bytes <- MCInternalBytes
  Bounds <- MCIncluded
  MaxHeadHeight = 1
  ArenaNodes = 2
  MaxOps = 2
INVARIANTS
  RangeEndsByComparator
CHECK_DEADLOCK FALSE
