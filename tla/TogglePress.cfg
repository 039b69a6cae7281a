\* A timed out power-on that lands between the reading and the press.
SPECIFICATION Spec
CONSTANTS
  None = None
  Chain <- BmcThenButton
  Placeholder = {}
  PingAttempts = 2
  Relayed = {}
  Actors = {"operator"}
  IdentityTTL = 1
  RunLimit = 1
  Faults = {"mute"}
  MaxFaults = 1
  MaxBoots = 2
  MaxTime = 1
PROPERTY PressOnlyWhenNeeded
\* The boots and the clock are bounded, so every behaviour stops.
CHECK_DEADLOCK FALSE
