SPECIFICATION Spec
CONSTANTS
  j1 = j1
  j2 = j2
  j3 = j3
  n1 = n1
  n2 = n2
  n3 = n3
  Jobs = {j1, j2, j3}
  Nullifiers = {n1, n2, n3}
  NullifierOf <- Shared
  MaxPrice = 2
  MaxCrashes = 0
  MaxDrops = 1
  MaxDry = 0
  LegacyPricing = TRUE
  ThrowsAt = {"validate", "prepare", "send", "cache", "save", "enqueue", "sent", "funds"}
  ForeignMaySpend = FALSE
  CallMayRevert = FALSE
  NoJob = NoJob
  NoSent = NoSent
INVARIANT NoSelfRevert
CHECK_DEADLOCK FALSE
