SPECIFICATION FairSpec
CONSTANTS
  PRs = {p1}
  Lanes = {l1, l2}
  Routers = {h1}
  NoPR = NoPR
  MaxRuns = 1
  MaxHead = 1
  MaxCloses = 0
  MaxDeletes = 1
  MaxLooks = 2
  Horizon = 1
  MaxFaults = 1
  Shadow = FALSE
  MaxAttempts = 2
  Lease = 1
  Backoff = 1
  Debounce = 0
  OrgRunning = 2
INVARIANTS
  LaneInv
  OneReviewPerRun
  OneSummaryPerPR
  FindingsStoredOnce
  PostedIsThere
  ReviewsCounted
PROPERTIES
  FenceSpec
  RunsEnd
CHECK_DEADLOCK FALSE
