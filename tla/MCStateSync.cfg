SPECIFICATION StateSyncSpec
CONSTANTS
  Leader = 0
  Followers <- MCFollowers
  IPs = {"ip1"}
  Durations = {2}
  Modes = {TRUE, FALSE}
  MaxNow = 3
  MaxDecisions = 2
  MaxFaults = 1
  MaxRounds = 1
INVARIANTS
  SyncedUpTo
  NothingInvented
