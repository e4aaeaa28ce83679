\* Two workers, two clients, a limit of one task (the queue of two is reached
\* and the third commit refused) and four commits.
SPECIFICATION Spec
CONSTANTS
  Workers = {w1, w2}
  Clients = {c1, c2}
  MaxTasks = 1
  MaxCommits = 4
INVARIANTS
  FifoQueue
  RunsOnce
  NothingCutShort
  OnlyMissedSleep
PROPERTIES
  AcceptedIsTaken
  DestroyEnds
\* The pool may stop: when it is destroyed, and when the destructor hangs.
CHECK_DEADLOCK FALSE
