\* Crashes, signals, API errors, a Secret that others write, certificates that age.
SPECIFICATION FairSpec
CONSTANTS
  None = None
  Names = {n1, n2}
  Tries = 3
  Events = {"crash", "term", "api_error", "secret", "age", "delete_config", "node"}
  MaxEvents = 3
INVARIANT TypeOK
INVARIANT RefusedForCause
PROPERTY Unblocked
\* An operator with nothing to do waits.
CHECK_DEADLOCK FALSE
