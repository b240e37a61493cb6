SPECIFICATION FairSpec
CONSTANTS
  x1 = x1
  d1 = d1
  NoPayment = NoPayment
  NoJob = NoJob
  Drivers = {d1}
  PaymentIds = {x1}
  DriverOf <- OneDriver
  Amount <- OneAmount
  Requests = {r1}
  Handlers = {h1}
  Reconcilers = {c1, c2}
  MaxRefunds = 2
  MaxWallet = 5
  MaxFaults = 1
CHECK_DEADLOCK FALSE
INVARIANT TypeOK
INVARIANT ReversedOnce
PROPERTY RefundPromise
INVARIANT BooksFollowReversals
PROPERTY ProcessedIsReversed
