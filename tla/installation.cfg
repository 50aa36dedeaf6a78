SPECIFICATION InstallationSpec
CONSTANTS
  Schedule <- Delays
  Window = 5
  RunLimit = 4
  MaxChannels = 2
  Unset = {2}
  Retries = 1
  MaxOrders = 2
  Runners = {host, script}
  MaxFaults = 5
INVARIANTS StartupSafe MigrationsSafe
PROPERTIES InstallationEnds
CHECK_DEADLOCK FALSE
