SPECIFICATION Spec
CONSTANTS
  T1 = T1
  A = A
  TurnIds = {T1}
  NoId = NoId
  Bodies = {A}
  NoBody = NoBody
  Items = {}
  NoItem = NoItem
  Lines <- MCLines
  Written <- MCWritten
  Histories <- MCHistories
  Options <- MCOptions
  MaxChanges = 2
INVARIANTS
  VerdictIsCurrent
  DoneIsOwnTurn
  PendingIsHonest
CHECK_DEADLOCK FALSE
