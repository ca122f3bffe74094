SPECIFICATION PartSpec
CONSTANTS
  Node = {1, 2, 3}
  Slot <- Subnets
  None = None
  Replica = {r1, r2}
  Ops <- ClaimedOnce
  User = {user}
  Service = {wiki}
  Torn = Torn
  Done = Done
INVARIANTS
  PartTypeOK
  Converged
PROPERTIES
  EventuallySettled
  DirectoryFollows
  BooksAgree
  DeskServes
  EventuallyShown
  UplinkFollows
  BabeldFollows
  TunnelReturns
  TrackerTrue
  AddressesSettle
  Rejoins
  LeasesFollow
  EventuallyHolds
  
CHECK_DEADLOCK FALSE
