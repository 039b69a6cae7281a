SPECIFICATION Spec
CONSTANTS
  NoTime = NoTime
  LargestPod = 2
  Pools = {"a","b"}
  Machines <- TwoMachines
  Members <- SharedLast
  PoolSpec <- TwoSpecs
  Size <- SizeTwo
  Pods = {"x1"}
  Request <- Requests
  Admits <- AnyMachine
  InitiallyOn = {"m1","m2"}
  Running = {}
  MaxTime = 1
  MaxFailures = 0
  MinOnline = 0
  MaxOnline = 2
  UpStep = 2
  DownStep = 1
  Hold = 0
  Unneeded = 1
CHECK_DEADLOCK FALSE
PROPERTIES AllPoolsAgree
