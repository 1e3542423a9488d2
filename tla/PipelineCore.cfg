SPECIFICATION FairSpec
CONSTANTS
  j1 = j1
  j2 = j2
  j3 = j3
  n1 = n1
  n2 = n2
  n3 = n3
  Jobs = {j1, j2}
  Nullifiers = {n1, n2}
  NullifierOf <- Distinct
  MaxPrice = 2
  MaxCrashes = 0
  MaxDrops = 0
  MaxDry = 1
  LegacyPricing = TRUE
  ThrowsAt = {"prepare", "sent", "funds"}
  ForeignMaySpend = FALSE
  CallMayRevert = TRUE
  NoJob = NoJob
  NoSent = NoSent
INVARIANT NonceOwned
INVARIANT RevertedNotCached
PROPERTY ImplementsLedger
PROPERTY JobsResolve
PROPERTY PauseEnds
CHECK_DEADLOCK FALSE
