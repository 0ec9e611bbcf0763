SPECIFICATION Spec
CONSTANTS
  T1 = T1
  T2 = T2
  A = A
  B = B
  I1 = I1
  TurnIds = {T1, T2}
  NoId = NoId
  Bodies = {A, B}
  NoBody = NoBody
  Items = {I1}
  NoItem = NoItem
  Expected = T1
  Marked = {A}
  Lines <- MCLines
  Histories <- MCHistories
  MaxLines = 4
INVARIANTS
  CertifiedExactly
  SettledServesLatest
  PendingIsOpen
  ProvenExactly
  ConsumersAgree
PROPERTIES
  AnswersStay
CHECK_DEADLOCK FALSE
