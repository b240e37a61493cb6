SPECIFICATION Spec
CONSTANTS
  NoRow = NoRow
  NoJob = NoJob
  Keys = {k1}
  Requests = {r1, r2, r3}
  Bodies = {b1, b2}
  MaxRuns = 3
  MaxFaults = 2
SYMMETRY Symmetry
CHECK_DEADLOCK FALSE
INVARIANT TypeOK
INVARIANT RunsOnceUnlessExcused
PROPERTY StoredAnswerStands
PROPERTY KeyPromise
