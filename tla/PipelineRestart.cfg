SPECIFICATION FairSpec
CONSTANTS
  j1 = j1
  j2 = j2
  j3 = j3
  n1 = n1
  n2 = n2
  n3 = n3
  Jobs = {j1, j2}
  Nullifiers = {n1, n2}
  NullifierOf <- Distinct
  MaxPrice = 1
  MaxCrashes = 1
  MaxDrops = 0
  MaxDry = 0
  LegacyPricing = TRUE
  ThrowsAt = {}
  ForeignMaySpend = FALSE
  CallMayRevert = FALSE
  NoJob = NoJob
  NoSent = NoSent
PROPERTY JobsResolve
CHECK_DEADLOCK FALSE
