\* Two runs, of a system without regularization and of one whose elapsed time
\* differs from the step by up to one unit; steps of 1 to 4 units and slices of 2, so
\* that steps fall short of the slice, on it and beyond it.  A run begun at 6 is past its
\* end of 4: it turns round at once, goes away and turns round, or goes away until the
\* stop condition ends it at 8.
SPECIFICATION Spec
CONSTANTS
  EndTimes <- MCEndTimes
  StartTimes = {0, 6}
  TimeTol = 1
  FirstSteps = {1, 4}
  NextSteps = {1, 2, 4}
  Slips = {0, 1}
  MaxIters = 9
  WriteEvery = 2
  SliceEvery = 2
  SliceEnd = 9
  LogSlices <- MCLogSlices
  CheckEvery = 3
  StopAfter = 7
INVARIANTS
  EveryStateOnce
  SlicesNotAhead
  LogOncePerInstant
PROPERTIES
  NeverAcross
  RunEnds
\* The last run ends.
CHECK_DEADLOCK FALSE
