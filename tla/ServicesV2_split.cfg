SPECIFICATION FairSpec
CONSTANTS
  Node = {1, 2}
  Name = {"wiki"}
  Reserved = {}
  None = None
  Request = {"api"}
  Silent = {}
  Kept = {}
  Fragile = {}
  Flaky = {}
  MaxPublish <- Twice
  MaxUnpublish <- Never
  MaxWall = 3
  MaxRestarts = 0
  MaxInFlight = 2
PROPERTIES
  EventuallySame
