SPECIFICATION Spec
CONSTANTS
  Paid = 2
  Refunds = {1, 2}
  Disputed = 2
  Grants = {}
  Handlers = {w1, w2}
  Rollers = {}
  Overdraft = 0
  MaxCost = 1
  InFlight = 1
  MaxTurns = 0
  Sizes = {}
  MaxPeriods = 1
  MaxFaults = 1
INVARIANTS
  RecordedHadEffect
  RefundsExact
SYMMETRY HandlerSymmetry
CHECK_DEADLOCK FALSE
