SPECIFICATION Spec
CONSTANTS
  Procs = {p1, p2}
  NoProc = NoProc
  TTL = 6
  Renew = 1
  SelfFence = 1
  Shutdown = 1
  OpTimeout = 1
  Poll = 1
  StealAfter = 2
  GiveUpAfter = 9
  MaxRestore = 7
  Skew = 1
  Horizon = 11
  MaxBoots = 2
  MaxFaults = 2
SYMMETRY ProcSymmetry
INVARIANTS
  OneWriter
  WriterHolds
PROPERTIES
  GivesUpOnLiveLease
CHECK_DEADLOCK FALSE
