\* Two threads, two calls each; a chunk holds two small nodes, the
\* arena three chunks.  No symmetry, because liveness is checked too.
SPECIFICATION StoreSpec
CONSTANTS
  Threads = {t1, t2}
  Layouts <- MCLayouts
  BlockSize = 15
  Cap = 45
  MaxCalls = 2
  Free = Free
  PtrSize = 2
  HeaderSize = 2
  KeyRange = 4
  Nodes <- MCNodes
INVARIANTS
  TypeOK
  NoOverlap
  RegionsFit
  CapRespected
  FailureIsJustified
  MemoryUsedExact
  
PROPERTIES
  ReplacesOnlyFullChunk
  CallsEnd
CHECK_DEADLOCK FALSE
