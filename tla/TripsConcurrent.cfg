SPECIFICATION Spec
CONSTANTS
  None = None
  TripIds = {t1}
  Riders = {p1}
  Drivers = {d1}
  Quotes = {q1}
  Requests = {r1, r2}
  Dispatchers = {x1, x2}
  MaxFailedPinAttempts = 1
  MaxUpsets = 1
CHECK_DEADLOCK FALSE
SYMMETRY TripSymmetry
INVARIANT TypeOK
INVARIANT StartIsEarned
INVARIANT OneDispatch
