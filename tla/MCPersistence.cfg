SPECIFICATION PersistenceSpec
CONSTANTS
  IPs <- MCIPs
  Backends <- MCBackends
  Durations <- MCDurations
  TableDurations <- MCTableDurations
  BadActorDuration = 2
  DefaultDuration = 1
  Threshold = 2
  Retention = 1
  MaxAge = 1
  MinScore = 2
  MaxNow = 3
  MaxDecisions = 3
  MaxCleanups = 1
  MaxCrashes = 1
INVARIANTS
  PersistenceTypeOK
  ReplicaFollows
  PromotionEarned
  RecordKept
CHECK_DEADLOCK FALSE
