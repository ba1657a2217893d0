SPECIFICATION BadActorSyncSpec
CONSTANTS
  Leader = 0
  Followers <- MCFollowers
  IPs = {"ip1"}
  Modes = {TRUE, FALSE}
  MaxNow = 3
  MaxEvents = 2
  MaxRounds = 1
INVARIANTS
  LeaderKnows
  FollowerKnows
