SPECIFICATION FairSpec
CONSTANTS
  Calls = {c1, c2, c3}
  MaxUpsets = 1
CHECK_DEADLOCK FALSE
INVARIANT SignedOutForCause
INVARIANT StoredTokenIsLive
PROPERTY CallsSettle
