CONSTANTS
  P = 31
  Stages = 7
  Node <- MCNode
  MaxIter = 4
  MaxLength = 2
  MaxError = 2
  Forces <- MCForces
  Ratios = {0, 1, 3}
  SeqMaxIter = 10
  MaxCalls = 2
  Modulus = 7
  Acceleration <- MCAcceleration
  SymStarts <- MCSymStarts
  BsDepth = 7
  BsStarts <- MCBsStarts
  BsLengths = {1, 30}
  BsSteps = 1
  Mantissas = 8
  Summands = {1, 3, 5, 28}
  SumLimit = 40
SPECIFICATION IteratorsSpec
INVARIANTS
  Interpolates
  PredictsSame
  TakesTheFinest
  WholeAndReversible
  ExtrapolatesToZero
  NothingRoundedOff
PROPERTY CountsDown
CHECK_DEADLOCK FALSE
