SPECIFICATION EnfFairSpec
CONSTANTS
  b1 = b1
  ip1 = ip1
  Backends = {b1}
  First = b1
  IPs = {ip1}
  Tables = {"short", "long"}
  Lifetime <- MCLifetime
  Threads = {"worker", "api"}
  MaxTime = 1
  MaxFaults = 2
  ActiveMakers = {"checker"}
  BlockDurations = {1}
  BadActorDuration = 2
  MaxDecisions = 1
  LiveCommands <- MCLive
  RestoreCommands = {}
  QueueSize = 1
  MaxSubmissions = 2
PROPERTIES
  Recovers
  ComesToRest
CHECK_DEADLOCK FALSE
