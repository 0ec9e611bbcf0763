SPECIFICATION Spec
CONSTANTS
  T = T
  P = P
  X = X
  Threads = {T, P, X}
  Invalid = Invalid
  None = None
  Expected = T
  Lines <- MCLines
  Files <- MCFiles
  Written <- MCWritten
  Replacements <- MCReplacements
  Rewritten <- MCRewritten
  Torn <- MCTorn
  Targets <- MCTargets
  AnchorLength = 1
  MaxGrowth = 2
  MaxTampering = 1
  MaxReads = 3
INVARIANTS
  ReadsExactly
  RefusesOnlyInvalid
  ResumeNeverRefused
  InspectorAgrees
  EligibleIsProven
PROPERTIES
  ReadsAreAtomic
CHECK_DEADLOCK FALSE
