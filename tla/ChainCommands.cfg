\* A ping, a BMC, a KVM, and Wake-on-LAN with a relay, used by the operator and by hand: lost and late answers, a reboot.
SPECIFICATION Spec
CONSTANTS
  None = None
  Chain <- Direct
  Placeholder = {}
  PingAttempts = 2
  Relayed = {4}
  Actors = {"operator", "cli"}
  IdentityTTL = 1
  RunLimit = 1
  Faults = {"mute", "reboot", "bare_node"}
  MaxFaults = 1
  MaxBoots = 3
  MaxTime = 0
PROPERTY StalePodHarmless
PROPERTY Implements
\* The boots and the clock are bounded, so every behaviour stops.
CHECK_DEADLOCK FALSE
