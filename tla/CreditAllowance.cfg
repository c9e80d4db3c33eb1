SPECIFICATION Spec
CONSTANTS
  Paid = 0
  Refunds = {}
  Disputed = 0
  Grants = {1}
  Handlers = {}
  Rollers = {}
  Overdraft = 0
  MaxCost = 1
  InFlight = 2
  MaxTurns = 3
  Sizes = {1}
  MaxPeriods = 1
  MaxFaults = 0
INVARIANTS
  AllowanceSpentOnce
CHECK_DEADLOCK FALSE
