SPECIFICATION FairSpec
CONSTANTS
  Deliveries = {d1}
  Dispatchers = {h1, h2}
  Receivers = {x1, x2}
  NoDelivery = NoDelivery
  OrgLimit = 1
  Lease = 1
  MaxAttempts = 2
  BackoffBase = 1
  BackoffCap = 2
  Keep = 1
  MaxSends = 2
  Horizon = 1
INVARIANTS
  InboxInv
  DoneWasRouted
  DeadUsedAttempts
PROPERTIES
  ReceiptKept
  FenceSpec
  SlotsFreed
CHECK_DEADLOCK FALSE
