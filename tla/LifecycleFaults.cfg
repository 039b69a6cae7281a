\* Crashes, lost status patches, misreadings and a deleted Node; powerOffMode Auto.
SPECIFICATION Spec
CONSTANTS
  None = None
  Pools = {p}
  BootTimeout = 2
  ShutdownTimeout = 2
  DrainTimeout = 1
  ForceAfterDrainTimeout = TRUE
  PowerOffMode = "Auto"
  ManualPolicy = "Adopt"
  PowerOnFailure = "Retry"
  PowerOnTimeout = 2
  BootFailureBackoff = 2
  ManualOffCooldown = 1
  DrainFailureBackoff = 1
  RetryAfter = 1
  StandbySettle = 2
  StandbyBackoff = 3
  ProbeWait = 0
  SpontaneousWake = 3
  OffGrace = 1
  OwnOffMargin = 1
  OwnOnSlack = 1
  SleepReads = "Off"
  Events = {"crash", "api_error", "call_fails", "misread", "uncordon", "delete_node", "policy"}
  MaxEvents = 1
  MaxTime = 6
  NewPods = {"running"}
  SuspendWindow = 1
  NodeGrace = 1
INVARIANT OldFailureNeverActs
PROPERTY LiveMachineSafe
\* The clock is bounded, so every behaviour stops.
CHECK_DEADLOCK FALSE
