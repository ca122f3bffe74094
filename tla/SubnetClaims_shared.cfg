SPECIFICATION OneSpec
CONSTANTS
  Node = {1, 2}
  NumSlots = 2
  Slot <- Slots
  Preferred <- SamePreferred
  None = None
  Uci = {}
  Flaky = {}
  Fragile = {2}
  Legacy = {}
  MaxWall <- OneReading
  MaxRestarts = 1
  MaxInFlight = 1
  MaxReclaim = 1
INVARIANTS
  NoSharedSubnet
