SPECIFICATION Spec
CONSTANTS
  PRs = {p1}
  Lanes = {l1, l2}
  Routers = {h1, h2}
  NoPR = NoPR
  MaxRuns = 2
  MaxHead = 3
  MaxCloses = 1
  MaxDeletes = 0
  MaxLooks = 2
  Horizon = 2
  MaxFaults = 1
  Shadow = TRUE
  MaxAttempts = 1
  Lease = 1
  Backoff = 1
  Debounce = 0
  OrgRunning = 2
CONSTRAINTS Early Few Unposted
SYMMETRY LaneSymmetry
INVARIANTS
  OneRunPerRequest
  AsideForOther
PROPERTIES
  EndedIsFinal
CHECK_DEADLOCK FALSE
