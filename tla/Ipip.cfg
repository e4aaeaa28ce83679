\* Three records loaded two at a time: a full batch, a short one, and files
\* with and without something after the last record.
SPECIFICATION Spec
CONSTANTS
  Readers = {r1, r2}
  FileKinds = {"bare", "newline", "missing"}
  NumRecords = 3
  Batch = 2
  Garbage = {TRUE, FALSE}
  MaxGot = 5
INVARIANTS
  ReadsTheFile
  EndComesLast
PROPERTIES
  CallReturns
  DestructorEnds
\* The object may be destroyed, and readers may sleep on an overwritten eoq_.
CHECK_DEADLOCK FALSE
