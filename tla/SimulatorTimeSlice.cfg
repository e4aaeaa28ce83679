\* A TimeSlice that starts with the run, at 0, with an interval of 2: a step of 4 is
\* longer than the interval, and without one the slice is never late.
SPECIFICATION Spec
CONSTANTS
  EndTimes <- MCOneEnd
  StartTimes = {0}
  TimeTol = 1
  FirstSteps = {1, 4}
  NextSteps = {1, 2, 4}
  Slips = {0}
  MaxIters = 9
  WriteEvery = 2
  SliceEvery = 2
  SliceEnd = 9
  LogSlices <- MCOneLogSlice
  CheckEvery = 3
  StopAfter = 7
INVARIANTS
  OncePerInterval
CHECK_DEADLOCK FALSE
