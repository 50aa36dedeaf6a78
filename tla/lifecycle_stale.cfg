SPECIFICATION Spec
CONSTANTS
  Spawns = {s1, s2}
  NoSpawn = NoSpawn
  MaxConf = 1
  MaxCrashes = 0
  Detach = FALSE
INVARIANTS NewConfigRuns
