SPECIFICATION CheckerFairSpec
CONSTANTS
  IPs = {"ip"}
  UAs = {"u", "g"}
  GoodUAs = {"g"}
  VHosts = {"", "v"}
  NoVHost = ""
  Kinds = {"a", "b"}
  Chains <- MCChains
  ChainsOf <- MCChainsOf
  Tolerance = 2
  IdleTimeout = 2
  BadActorDuration = 3
  Threshold = 2
  MaxTs = 4
  MaxNow = 6
  MaxEntries = 3
INVARIANTS
  CheckerTypeOK
  EveryEntryOnce
  CompletionsJustified
  NotBlockedTwice
PROPERTIES
  LateEntriesProcessed
CHECK_DEADLOCK FALSE
