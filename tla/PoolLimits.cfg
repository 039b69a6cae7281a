SPECIFICATION FairSpec
CONSTANTS
  NoTime = NoTime
  LargestPod = 2
  Pools = {"a"}
  Machines <- ThreeMachines
  Members <- AllMembers
  PoolSpec <- TwoSpecs
  Size <- SizeTwo
  Pods <- OneOfEach
  Request <- Requests
  Admits <- AnyMachine
  InitiallyOn = {}
  Running = {}
  MaxTime = 0
  MaxFailures = 1
  MinOnline = 1
  MaxOnline = 2
  UpStep = 2
  DownStep = 1
  Hold = 0
  Unneeded = 0
CHECK_DEADLOCK FALSE
INVARIANTS TypeOK MaxOnlineKept
PROPERTIES MinOnlineKept RoomKept PendingServed
