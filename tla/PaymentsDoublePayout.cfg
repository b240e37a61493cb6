SPECIFICATION Spec
CONSTANTS
  t1 = t1
  d1 = d1
  NoJob = NoJob
  Drivers = {d1}
  Trips = {t1}
  Gross <- OneTrip
  DriverOf <- OneDriver
  Outcomes = {"charge.success", "charge.failed"}
  Handlers = {h1, h2}
  MaxFaults = 0
  MaxCrashes = 0
SYMMETRY HandlerSymmetry
CHECK_DEADLOCK FALSE
INVARIANT OnePayoutPerPayment
