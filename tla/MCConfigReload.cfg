SPECIFICATION MCSpec
CONSTANTS
  MainVersions = {1, 2, 3}
  DepVersions = {1, 2, 3}
  BadMain = {3}
  NoDep = {2}
  BadDep = {3}
  MaxEdits = 2
  MaxServed = 1
  MaxFaults = 1
  MaxSignals = 1
INVARIANTS
  CurrentIsInForce
PROPERTIES
  Converges
  Settles
CHECK_DEADLOCK FALSE
