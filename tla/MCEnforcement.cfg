SPECIFICATION EnfSpec
CONSTANTS
  b1 = b1
  b2 = b2
  ip1 = ip1
  Backends = {b1, b2}
  First = b1
  IPs = {ip1}
  Tables = {"short", "long"}
  Lifetime <- MCLifetime
  Threads = {"worker", "api"}
  MaxTime = 0
  MaxFaults = 1
  ActiveMakers = {"checker", "reload", "peer", "api"}
  BlockDurations = {2}
  BadActorDuration = 4
  MaxDecisions = 2
  LiveCommands <- MCLive
  RestoreCommands = {}
  QueueSize = 2
  MaxSubmissions = 4
VIEW MCView
CONSTRAINT MCConstraint
INVARIANTS
  Agreement
CHECK_DEADLOCK FALSE
