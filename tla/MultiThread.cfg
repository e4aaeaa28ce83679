\* Loops of up to eight indices over up to four threads, and three jobs with two
\* tuples of two fields each.
SPECIFICATION MultiSpec
CONSTANTS
  Lengths = {0, 2, 3, 4, 5, 7, 8}
  ThreadNums = {1, 2, 3, 4}
  JobNum = 3
  PerJob = 2
  Fields = 2
INVARIANTS
  RestIsLost
  TuplesWhole
\* The loop and the jobs end.
CHECK_DEADLOCK FALSE
