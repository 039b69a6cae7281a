\* A failed boot of a machine whose Node was deleted.
SPECIFICATION Spec
CONSTANTS
  None = None
  Pools = {p}
  BootTimeout = 2
  ShutdownTimeout = 1
  DrainTimeout = 1
  ForceAfterDrainTimeout = FALSE
  PowerOffMode = "Shutdown"
  ManualPolicy = "LeaveOn"
  PowerOnFailure = "Release"
  PowerOnTimeout = 2
  BootFailureBackoff = 2
  ManualOffCooldown = 1
  DrainFailureBackoff = 1
  RetryAfter = 1
  StandbySettle = 1
  StandbyBackoff = 3
  ProbeWait = 0
  SpontaneousWake = 3
  OffGrace = 1
  OwnOffMargin = 1
  OwnOnSlack = 1
  SleepReads = "Off"
  Events = {"delete_node"}
  MaxEvents = 1
  MaxTime = 8
  NewPods = {"running"}
  SuspendWindow = 1
  NodeGrace = 1
PROPERTY NoActionWithoutNode
\* The clock is bounded, so every behaviour stops.
CHECK_DEADLOCK FALSE
