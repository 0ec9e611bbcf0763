SPECIFICATION FeedsSpec
CONSTANTS
  TurnIds = {T1, T2}
  NoId = NoId
  MaxFeed = 5
SYMMETRY TurnIdSymmetry
INVARIANTS
  OneOpenTurn
  ClosedExactly
  FeedsAgree
  ActivityExact
PROPERTIES
  SnapshotsFinal
CHECK_DEADLOCK FALSE
