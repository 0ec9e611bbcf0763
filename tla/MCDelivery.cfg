SPECIFICATION Spec
CONSTANT PollWindow = 3
INVARIANTS
  AtMostOneExecution
  NonAdmissionProven
  PickupIsSafe
  OneResultLine
PROPERTIES
  NoSendAfterDoubt
  WrapperEnds
  PromiseSpec
\* The wrapper exits and the peers may stop: a finished dispatch has no step.
CHECK_DEADLOCK FALSE
