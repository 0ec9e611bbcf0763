SPECIFICATION Spec
CONSTANTS
  Histories <- MCHistories
  Written <- MCWritten
  Options <- MCOptions
  Interval = 2
  MaxChanges = 2
INVARIANTS
  HitIsCertified
  PendingIsLastLook
PROPERTIES
  ObserverEnds
CHECK_DEADLOCK FALSE
