SPECIFICATION Spec
CONSTANTS
  NoTime = NoTime
  LargestPod = 2
  Pools = {"a"}
  Machines <- ThreeMachines
  Members <- AllMembers
  PoolSpec <- TwoSpecs
  Size <- SizeTwo
  Pods <- SmallPods
  Request <- Requests
  Admits <- AnyMachine
  InitiallyOn = {"m1","m2"}
  Running = {}
  MaxTime = 4
  MaxFailures = 1
  MinOnline = 0
  MaxOnline = 3
  UpStep = 2
  DownStep = 1
  Hold = 3
  Unneeded = 1
CHECK_DEADLOCK FALSE
PROPERTIES HoldKept
