SPECIFICATION Spec
CONSTANTS
  j1 = j1
  j2 = j2
  j3 = j3
  n1 = n1
  n2 = n2
  n3 = n3
  Jobs = {j1, j2, j3}
  Nullifiers = {n1, n2, n3}
  NullifierOf <- Shared
  MaxPrice = 1
  MaxCrashes = 0
  MaxDrops = 0
  MaxDry = 0
  LegacyPricing = TRUE
  ThrowsAt = {}
  ForeignMaySpend = FALSE
  CallMayRevert = TRUE
  NoJob = NoJob
  NoSent = NoSent
INVARIANT NoDoubleInFlight
CHECK_DEADLOCK FALSE
