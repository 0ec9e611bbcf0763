SPECIFICATION Spec
CONSTANTS
  T = T
  U = U
  A = A
  B = B
  None = None
  Ids = {T, U, A, B}
  Thread = T
  Paths = {1, 2, 3, 4}
  Names <- MCNames
  Dispatches <- MCDispatches
  Follows <- MCFollows
  Directories <- MCDirectories
  NewFiles <- MCNewFiles
  Requests <- MCRequests
  MaxChanges = 2
INVARIANTS
  FallbackIsCurrent
  SilenceIsEarned
  OnePageKeepsAuthority
CHECK_DEADLOCK FALSE
