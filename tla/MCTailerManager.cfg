SPECIFICATION MCSpec
CONSTANTS
  Configs <- MCConfigs
  LogPath = "log"
  Receivers = {"closer", "manager", "server"}
  MaxTailers = 3
  MaxReloads = 2
  MaxSignals = 2
  MaxEvents = 2
INVARIANTS
  TailersMatch
  StaysUp
PROPERTIES
  CapturedTogether
  SignalStops
CHECK_DEADLOCK FALSE
