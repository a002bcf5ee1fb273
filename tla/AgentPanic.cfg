SPECIFICATION Spec
CONSTANTS
  FogServers = {"url"}
  FogActions = {""}
  MaxBoots = 1
INVARIANT NoPanic
CHECK_DEADLOCK FALSE
