\* A byte of four values: four puts carry in the count, a length of 15 takes
\* the longest VarInt, 16 panics, 257 is cut.
SPECIFICATION Spec
CONSTANTS
  Radix = 4
  KeyLens = {1, 2, 16}
  ValueLens = {0, 3, 15, 257}
  Caps = {1, 64, 65}
  MaxBatchSize = 64
  MaxPuts = 5
INVARIANTS
  TypeOK
  SelfDelimiting
  VarIntRoundTrip
CHECK_DEADLOCK FALSE
