SPECIFICATION Spec
CONSTANTS
  Paid = 0
  Refunds = {}
  Disputed = 0
  Grants = {1}
  Handlers = {}
  Rollers = {i1, i2}
  Overdraft = 0
  MaxCost = 1
  InFlight = 2
  MaxTurns = 2
  Sizes = {1}
  MaxPeriods = 2
  MaxFaults = 1
INVARIANTS
  CreditInv
  OverdraftBounded
PROPERTIES
  DebitWrittenUp
CHECK_DEADLOCK FALSE
