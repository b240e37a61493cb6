SPECIFICATION Spec
CONSTANTS
  MaxEvent = 2
  Workers = {w1, w2}
  MaxAttempts = 2
  Limit = 2
  MaxFaults = 1
  MaxCrashes = 1
  MaxOvertakes = 1
SYMMETRY WorkerSymmetry
CHECK_DEADLOCK FALSE
INVARIANT TypeOK
INVARIANT PublishedIsDelivered
