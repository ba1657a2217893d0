SPECIFICATION TailerFairSpec
CONSTANTS
  Rotations = {"rename", "truncate"}
  TooLong <- MCTooLong
  MaxPieces = 3
  MaxRotations = 2
  MaxErrors = 1
INVARIANTS
  InOrderOnce
  NoGaps
PROPERTY
  LinesArrive
CHECK_DEADLOCK FALSE
