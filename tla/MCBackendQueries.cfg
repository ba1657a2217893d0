SPECIFICATION MCSpec
CONSTANTS
  Addresses <- MCAddresses
  TableNames <- MCTableNames
  Lifetime = 3
  Tolerance = 1
  MaxRetries = 2
  MaxEvents = 2
INVARIANTS
  NothingMissed
  NoFalseAlarm
  ClearedIsGone
  LookupsTruthful
CHECK_DEADLOCK FALSE
