\* Three writes of any key, sequence number (the largest too) and operation,
\* and an iterator that is positioned anywhere meanwhile.
SPECIFICATION Spec
CONSTANTS
  UserKeys = {1, 2}
  SeqNos = {0, 1, 15}
  SeqRange = 16
  MaxEntries = 3
  Readers = {r1}
  MaxSeeks = 1
INVARIANTS
  TypeOK
  GetIsSnapshotRead
  IterationIsComplete
PROPERTIES
  ReadsAreRepeatable
CHECK_DEADLOCK FALSE
