SPECIFICATION Spec
CONSTANTS
  T1 = T1
  T2 = T2
  A = A
  I1 = I1
  TurnIds = {T1, T2}
  NoId = NoId
  Bodies = {A}
  NoBody = NoBody
  Items = {I1}
  NoItem = NoItem
  Expected = T1
  Marked = {A}
  Lines <- MCLines
  Histories <- MCHistories
  OurTurn <- MCOurTurn
  Foreign <- MCForeign
  Options <- MCOptions
  Attempts = 2
  MaxChanges = 1
INVARIANTS
  SendsToIdleThread
  ReportIsTrue
  TurnBoundIsOurs
PROPERTIES
  HarnessEnds
CHECK_DEADLOCK FALSE
