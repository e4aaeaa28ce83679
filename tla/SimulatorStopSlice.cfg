\* The stop condition of the tutorial: a StepSlice around the user's condition.
SPECIFICATION Spec
CONSTANTS
  EndTimes <- MCEndTimes
  StartTimes = {0, 3}
  TimeTol = 1
  FirstSteps = {1, 4}
  NextSteps = {1, 2, 4}
  Slips = {0}
  MaxIters = 9
  WriteEvery = 2
  SliceEvery = 2
  SliceEnd = 9
  LogSlices <- MCOneLogSlice
  CheckEvery = 3
  StopAfter = 7
INVARIANTS
  EvaluatedEveryNth
CHECK_DEADLOCK FALSE
