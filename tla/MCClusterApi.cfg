SPECIFICATION MCSpec
CONSTANTS
  Leader = 0
  Followers <- MCFollowers
  HAProxy = 9
  IPs = {1, 2}
  Reasons = {"r"}
  Kinds = {"unblock", "unblockGet", "clear", "byReason", "delete", "deleteUnblock", "lookup"}
  MaxRequests = 2
  MaxDecisions = 1
  MaxFaults = 1
INVARIANTS
  PromisesKept
  BlockHasRecord
  ReadYourUnblock
CHECK_DEADLOCK FALSE
