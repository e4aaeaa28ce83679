SPECIFICATION Spec
CONSTANTS
  MaxDepth = 5
  MaxTries = 3
  Costs = {6, 8, 9}
  MaxSteps = 3
INVARIANTS
  OverrunCause
  NoUnexpectedAbort
  ExhaustedCause
PROPERTIES
  AcceptsConverged
CHECK_DEADLOCK FALSE
