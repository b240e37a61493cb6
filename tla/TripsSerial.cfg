SPECIFICATION Spec
CONSTANTS
  None = None
  TripIds = {t1, t2}
  Riders = {p1, p2}
  Drivers = {d1, d2}
  Quotes = {q1, q2}
  Requests = {r1}
  Dispatchers = {}
  MaxFailedPinAttempts = 2
  MaxUpsets = 0
CHECK_DEADLOCK FALSE
SYMMETRY TripSymmetry
INVARIANT OneTripPerDriver
INVARIANT OneTripPerRider
