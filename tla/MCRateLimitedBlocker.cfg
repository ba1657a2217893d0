SPECIFICATION RLBFairSpec
CONSTANTS
  LiveCommands <- MCLiveCommands
  RestoreCommands <- MCRestoreCommands
  QueueSize <- MCQueueSize
  MaxSubmissions <- MCMaxSubmissions
INVARIANTS
  RLBTypeOK
  RunOnceInOrder
  ShutdownDrains
  RestoreLeavesRoom
PROPERTIES
  ImplementsChannel
  QuietAfterShutdown
  ShutdownReturns
