\* Two racing inserters of different or equal keys, towers of up to three levels
\* (a height of four is cut to three).
SPECIFICATION FairSpec
CONSTANTS
  Writers = {w1, w2}
  Readers = {}
  Keys = {1, 2}
  Bytes <- MCBytes
  Bounds <- MCUnbounded
  MaxHeadHeight = 4
  ArenaNodes = 2
  MaxOps = 1
INVARIANTS
  TypeOK
  LevelsIntact
  FullyLinked
  MaxLevelCovers
PROPERTIES
  RefinesOrderedList
  CallsEnd
CHECK_DEADLOCK FALSE
