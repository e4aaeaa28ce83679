\* Any build: the thread may see TRUE in stop_ before the constructor stores FALSE.
SPECIFICATION Spec
CONSTANTS
  Producers = {p1, p2}
  StopGarbage = {TRUE, FALSE}
  MaxSent = 4
PROPERTIES
  IsOrderedLog
  DestructorEnds
  PushedIsWritten
\* The object may be destroyed, and an undefined step is not continued.
CHECK_DEADLOCK FALSE
