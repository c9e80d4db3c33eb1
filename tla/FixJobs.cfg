SPECIFICATION Spec
CONSTANTS
  PerJobKey = TRUE
  Budget = 0
  MaxSpend = 1
  MaxClaims = 1
  MaxCancels = 1
  MaxFaults = 1
INVARIANTS
  JobsInv
  ReportedOnce
PROPERTIES
  CancelSticks
  JobEnds
CHECK_DEADLOCK FALSE
