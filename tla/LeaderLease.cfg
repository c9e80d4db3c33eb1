SPECIFICATION FairSpec
CONSTANTS
  Instances = {i1, i2, r1, r2}
  Name <- SomeNames
  None = None
  Own = {i1, i2}
  TTL = 6
  Renew = 2
  Poll = 1
  MaxFaults = 2
INVARIANTS
  LeaderInv
PROPERTIES
  RoleFilled
CHECK_DEADLOCK FALSE
