SPECIFICATION Spec
CONSTANTS
  Instances = {i1, i2}
  Name <- SomeNames
  None = None
  Own = {}
  TTL = 6
  Renew = 2
  Poll = 1
  MaxFaults = 0
INVARIANTS
  OneLeader
CHECK_DEADLOCK FALSE
