SPECIFICATION IndexSpec
CONSTANTS
  N = 4
INVARIANTS
  Complete
PROPERTIES
  NearestFirst
  Terminates
CHECK_DEADLOCK FALSE
