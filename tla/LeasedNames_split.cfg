SPECIFICATION HeardSpec
CONSTANTS
  Node = {1, 2}
  Client = {"a", "b", "c"}
  Name = {1}
  Desk <- SplitDesk
  None = None
  TTL = 1
  Fragile = {}
  Jumpy = {}
  MaxTime = 2
  MaxInFlight = 2
INVARIANTS
  SameLeasesSameOwner
CHECK_DEADLOCK FALSE
