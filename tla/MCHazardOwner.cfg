\* Two threads acquire, one drops.
SPECIFICATION Spec
CONSTANTS
  Acquirers = {a1, a2}
  Releasers = {r1}
  Sizes = {1}
  MaxRecs = 3
  MaxAcquires = 3
  MaxDrops = 3
SYMMETRY Symmetry
INVARIANTS
  AtMostOneOwner
CHECK_DEADLOCK FALSE
