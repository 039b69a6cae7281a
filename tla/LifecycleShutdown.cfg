\* Full shutdowns, one intervention or fault of any kind below.
SPECIFICATION Spec
CONSTANTS
  None = None
  Pools = {p}
  BootTimeout = 2
  ShutdownTimeout = 1
  DrainTimeout = 1
  ForceAfterDrainTimeout = FALSE
  PowerOffMode = "Shutdown"
  ManualPolicy = "LeaveOn"
  PowerOnFailure = "Release"
  PowerOnTimeout = 4
  BootFailureBackoff = 2
  ManualOffCooldown = 1
  DrainFailureBackoff = 1
  RetryAfter = 2
  StandbySettle = 1
  StandbyBackoff = 3
  ProbeWait = 0
  SpontaneousWake = 3
  OffGrace = 1
  OwnOffMargin = 1
  OwnOnSlack = 1
  SleepReads = "Off"
  Events = {"person_on", "person_off", "membership", "act_fails", "act_lost", "act_unanswered", "read_fails", "build_fails", "cordon", "kubelet"}
  MaxEvents = 1
  MaxTime = 7
  NewPods = {"running"}
  SuspendWindow = 1
  NodeGrace = 1
INVARIANT TypeOK
INVARIANT SafeToStop
INVARIANT QuietIsMarked
INVARIANT OldFailureNeverActs
PROPERTY LeaveOnRespected
PROPERTY BackoffRespected
PROPERTY RetrySpacing
\* The clock is bounded, so every behaviour stops.
CHECK_DEADLOCK FALSE
