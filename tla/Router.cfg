SPECIFICATION RunSpec
CONSTANTS
  Node = {1, 2}
  User = {user}
  Service = {wiki}
  Moving = {}
  Named = {1}
  Seed <- Seeds
  Value = {"stub", "ann"}
  None = None
  Flaky = {1}
  Jumpy = {1}
  Fragile = {1}
  MaxWall = 2
  MaxRestarts = 1
  MaxInFlight = 2
  Nil = Nil
  Client = {"a", "b"}
  LeaseName = {1, 2}
  RestoredName = {1}
  Desk <- OwnDesk
  TTL = 1
  LeaseFragile = {1}
  LeaseJumpy = {2}
  MaxTime = 2
  MaxLeases = 1
  SvcName = {"wiki"}
  SvcReserved = {}
  SvcRequest = {"api"}
  SvcSilent = {2}
  SvcKept = {}
  SvcFragile = {}
  SvcFlaky = {}
  SvcMaxPublish <- Once
  SvcMaxUnpublish <- Once
  SvcMaxWall = 2
  SvcMaxRestarts = 0
  SvcMaxInFlight = 2
  Neighbour = {"p", "q"}
  Addr = {"a", "b", "c"}
  Derived <- AddrOf
  Link = {"c1", "c2"}
  WellKnown = {"hello"}
  Published = {"wiki"}
  Leasable = {"wiki"}
  Owner = {"o"}
  RecordKind = {"A", "SRV"}
  Gateway = {"g"}
  MaxChanges = 3
  Bits = 5
  Floor = 3
  BaseLen = 1
  BaseAddr = 16
  Hash = {0, 3}
  MaxBlocks = 3
  Session = {1, 2}
  Order <- Kinds
  Needs <- KindNeeds
  Paths <- TaggedKinds
  MaxItems = 2
  MaxSshFails = 1
  MaxEdits = 1
  Routers <- TwoRouters
  Listener <- Dials
  MaxDeploys = 2
  MaxDeployFails = 2
  MaxReboots = 1
  Browser = {1, 2, 3}
  RoomId = {"a", "b"}
  maxPeers <- RoomSize
  MaxMoves = 5
  MaxQueue = 2
VIEW LiveView
CHECK_DEADLOCK FALSE
INVARIANTS
  PartTypeOK
  OneNamePerKey
  LostIsLost
  AnswerWasRight
  LargestThatFits
  ViewsAgree
  SenderKnown
PROPERTIES
  KeepsPromise
  LabelSticks
  TakesOnlyLapsed
  OnlyOwnerTakesDown
  OneOfEach
  OnePassConverges
  DialsPrinted
  Delivered
  DoneIsStable
