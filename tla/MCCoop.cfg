SPECIFICATION Spec
CONSTANTS
  N = 6
  MaxTime = 2
  Kits <- MCKits
CHECK_DEADLOCK FALSE
INVARIANT TypeOK
INVARIANT PointersLive
INVARIANT NestedKnows
INVARIANT IdleMissesNothing
INVARIANT SelectLeavesNothing
PROPERTY MutexImplemented
PROPERTY ResultsReachTheirWait
