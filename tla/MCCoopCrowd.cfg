SPECIFICATION Spec
CONSTANTS
  N = 3
  MaxTime = 2
  Kits <- CrowdKits
CHECK_DEADLOCK FALSE
PROPERTY ResultsReachTheirWait
