SPECIFICATION ReguSpec
CONSTANTS
  N = 3
  Acc <- MCAcc
  Newtonian <- MCNewtonian
  Kinetic <- MCKinetic
  Potential <- MCPotential
  Contract <- MCContract
  Slow <- MCSlow
  ReguTypes = {"LogH", "TTL", "None"}
  VelDeps = {TRUE, FALSE}
  Steps <- MCSteps
  Starts <- MCStarts
  MaxOps = 2
  MaxIters = 2
INVARIANTS
  ReguTracksState
  StepReversible
  ArrayRoundTrip
  DerivativeIsRate
CHECK_DEADLOCK FALSE
