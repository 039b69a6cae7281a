\* Suspend instead of shutdown, on a board that reports a suspended machine as on.
SPECIFICATION Spec
CONSTANTS
  None = None
  Pools = {p}
  BootTimeout = 2
  ShutdownTimeout = 3
  DrainTimeout = 1
  ForceAfterDrainTimeout = FALSE
  PowerOffMode = "Standby"
  ManualPolicy = "LeaveOn"
  PowerOnFailure = "Release"
  PowerOnTimeout = 2
  BootFailureBackoff = 2
  ManualOffCooldown = 1
  DrainFailureBackoff = 1
  RetryAfter = 1
  StandbySettle = 3
  StandbyBackoff = 3
  ProbeWait = 0
  SpontaneousWake = 3
  OffGrace = 1
  OwnOffMargin = 1
  OwnOnSlack = 1
  SleepReads = "On"
  Events = {"person_on", "self_wake", "read_fails"}
  MaxEvents = 1
  MaxTime = 9
  NewPods = {"running"}
  SuspendWindow = 1
  NodeGrace = 1
INVARIANT SafeToStop
PROPERTY SuspendedLeftAlone
\* The clock is bounded, so every behaviour stops.
CHECK_DEADLOCK FALSE
