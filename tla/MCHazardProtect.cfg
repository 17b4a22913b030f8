\* Two readers, handles on one or two records, both builds.
SPECIFICATION Spec
CONSTANTS
  Readers = {t1, t2}
  Recs = {r1, r2}
  Sources = {s1}
  Objects = {o1}
  Null = Null
  Sizes = {1, 2}
  Fences = {TRUE, FALSE}
  MaxBuf = 2
  MaxSwaps = 2
INVARIANTS
  TypeOK
  ProtectedIsNotFreed
  AnnouncesExactlyHeld
PROPERTIES
  RefinesSafeMemory
CHECK_DEADLOCK FALSE
