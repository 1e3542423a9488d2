SPECIFICATION FairSpec
CONSTANTS
  N = 4
  Checks = {c1}
  Calls = {r1}
  Retries = 2
INVARIANT AllTried
PROPERTY PrimaryRetried
CHECK_DEADLOCK FALSE
