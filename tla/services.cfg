SPECIFICATION ServicesSpec
CONSTANTS
  Spawns = {s1, s2, s3}
  NoSpawn = NoSpawn
  MaxConf = 2
  MaxCrashes = 2
  Detach = FALSE
  Writers = {runner, tools}
  MaxNumber = 6
  g1 = g1
  g2 = g2
  g3 = g3
  Peers = {g1, g2, g3}
  Founders = {g1, g2}
  Seats <- LinkSeats
  MaxMail = 2
  MaxChanges = 2
  Bots = {first, second}
  MaxTtl = 2
  MaxTokens = 3
  Entries = {x, y}
  MaxSize = 2
  MaxIndex = 3
  MaxOccurrences = 3
  MaxCommands = 2
  u1 = u1
  Groups = {g1, g2}
  Askers = {g1}
  Dashed = {g1}
  People = {u1}
  Ncls = {c}
  Orders <- AgentOrders
  Operations <- HostOrders
  MaxTries = 2
  Limit = 1
  MaxOps = 1
  MaxPresses = 2
  MaxFaults = 2
INVARIANTS ServicesTypeOK ContainerSafe NumbersSafe LinksSafe ChatSafe SeriesKept CommandsSafe
PROPERTIES ServiceSteps RoutedRight QueuesAreFifo ServicesEnd
CHECK_DEADLOCK FALSE
