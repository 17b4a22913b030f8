\* Two threads acquire while others drop what they made, under fairness.
SPECIFICATION FairSpec
CONSTANTS
  Acquirers = {a1, a2}
  Releasers = {r1, r2}
  Sizes = {1, 2}
  MaxRecs = 2
  MaxAcquires = 2
  MaxDrops = 1
INVARIANTS
  TypeOK
  OneOwnerUnlessStale
  OwnedIsUnavailable
  RecordListIntact
  LockHasOneHolder
PROPERTIES
  CallsEnd
CHECK_DEADLOCK FALSE
