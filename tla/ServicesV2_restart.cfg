SPECIFICATION FairSpec
CONSTANTS
  Node = {1, 2}
  Name = {"hello", "wiki"}
  Reserved = {"hello"}
  None = None
  Request = {"api"}
  Silent = {1}
  Kept = {2}
  Fragile = {2}
  Flaky = {2}
  MaxPublish <- OnlyFirst
  MaxUnpublish <- OnlyFirst
  MaxWall = 2
  MaxRestarts = 1
  MaxInFlight = 1
INVARIANTS
  ReservedUnclaimed
PROPERTIES
  FileCatchesUp
