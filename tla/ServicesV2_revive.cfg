SPECIFICATION Spec
CONSTANTS
  Node = {1, 2}
  Name = {"wiki"}
  Reserved = {}
  None = None
  Request = {"api"}
  Silent = {}
  Kept = {}
  Fragile = {}
  Flaky = {}
  MaxPublish <- FirstTwice
  MaxUnpublish <- OnlyFirst
  MaxWall = 3
  MaxRestarts = 0
  MaxInFlight = 1
PROPERTIES
  RevivalStays
