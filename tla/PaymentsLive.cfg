SPECIFICATION FairSpec
CONSTANTS
  t1 = t1
  d1 = d1
  NoJob = NoJob
  Drivers = {d1}
  Trips = {t1}
  Gross <- OneTrip
  DriverOf <- OneDriver
  Outcomes = {"charge.success", "charge.failed"}
  Handlers = {h1}
  MaxFaults = 2
  MaxCrashes = 0
CHECK_DEADLOCK FALSE
INVARIANT OnePayoutPerPayment
PROPERTY ChargeIsCaptured
