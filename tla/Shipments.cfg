SPECIFICATION ShipSpec
CONSTANTS
  ShipRequests = {r1, r2}
  OTP_MAX_ATTEMPTS = 1
  MaxShipUpsets = 2
  MaxOverlaps = 1
CHECK_DEADLOCK FALSE
SYMMETRY RequestSymmetry
INVARIANT ShipTypeOK
INVARIANT HandedOverByCode
INVARIANT EndedTogether
INVARIANT AttemptsAreLimited
