\* Three writers join under fairness; followers are signalled.
SPECIFICATION FairSpec
CONSTANTS
  Writers = {w1, w2, w3}
  Null = Null
INVARIANTS
  TypeOK
  QueueIsIntact
  FollowerWaits
  NoLostWakeUp
PROPERTIES
  SignalledReturns
CHECK_DEADLOCK FALSE
