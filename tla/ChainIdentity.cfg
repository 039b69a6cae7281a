\* Interfaces that lead to another machine, lose their secret, break; a Node that comes and goes.
SPECIFICATION FairSpec
CONSTANTS
  None = None
  Chain <- BmcThenDc
  Placeholder = {}
  PingAttempts = 2
  Relayed = {}
  Actors = {"operator"}
  IdentityTTL = 1
  RunLimit = 1
  Faults = {"unbuildable", "down", "rewire", "delete_node", "person"}
  MaxFaults = 2
  MaxBoots = 2
  MaxTime = 2
INVARIANT TypeOK
PROPERTY ExposureBounded
PROPERTY FallbackReached
PROPERTY Answered
\* The boots and the clock are bounded, so every behaviour stops.
CHECK_DEADLOCK FALSE
