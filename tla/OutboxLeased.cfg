SPECIFICATION FairSpec
CONSTANTS
  MaxEvent = 2
  Workers = {w1, w2}
  MaxAttempts = 2
  Limit = 2
  MaxFaults = 1
  MaxCrashes = 2
  MaxOvertakes = 0
CHECK_DEADLOCK FALSE
INVARIANT OneRunPerRow
INVARIANT RepeatsHaveACause
PROPERTY DeliveryPromise
PROPERTY EventsAreSettled
