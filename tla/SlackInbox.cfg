SPECIFICATION Spec
CONSTANTS
  d1 = d1
  d2 = d2
  Deliveries = {d1, d2}
  Kinds <- MixedKinds
  Message = Message
  Handoffs = {h1, h2}
  None = None
  OrgLimit = 2
  Lease = 2
  RenewEvery = 1
  DispatchTime = 1
  TurnTime = 2
  MaxAttempts = 2
  MaxSends = 1
  MaxFaults = 1
INVARIANTS
  SlackInv
  DoneWasWorked
  DeadHasNoTurn
PROPERTIES
  DeliveriesSettle
CHECK_DEADLOCK FALSE
