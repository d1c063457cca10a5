SPECIFICATION FairSpec
CHECK_DEADLOCK FALSE
CONSTANTS
  Servers = {1}
  Lengths = {9}
  DefaultLease = 6
  MaxTries = 2
  Xids = {1, 2, 3}
  MaxNet = 2
CONSTRAINT NetBounded
PROPERTY AttemptsWait
