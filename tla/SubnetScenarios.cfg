SPECIFICATION ScenarioSpec
CONSTANTS
  Node = {1, 2}
  NumSlots = 2
  Slot <- Slots
  Preferred <- SamePreferred
  None = None
  Uci = {1}
  Flaky = {1, 2}
  Fragile = {1}
  Legacy = {2}
  MaxWall <- TwoReadings
  MaxRestarts = 1
  MaxInFlight = 2
  MaxReclaim = 2
VIEW LiveView
INVARIANTS
  TypeOK
  AddressBacked
  GatewayBacked
  UniqueOnceSettled
PROPERTIES
  FirstWriterKept
