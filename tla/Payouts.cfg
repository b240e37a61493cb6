SPECIFICATION FairSpec
CONSTANTS
  p1 = p1
  d1 = d1
  NoJob = NoJob
  Drivers = {d1}
  PayoutIds = {p1}
  DriverOf <- OneDriver
  Amount <- OneAmount
  OwedElsewhere = 7
  Requests = {r1, r2}
  MaxCode = 2
  MaxFaults = 1
  MaxCrashes = 1
CHECK_DEADLOCK FALSE
INVARIANT TypeOK
INVARIANT MoneyLeavesOnce
PROPERTY PayoutPromise
INVARIANT BooksFollowPayouts
PROPERTY TransfersSettle
