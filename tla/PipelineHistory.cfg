SPECIFICATION Spec
CONSTANTS
  j1 = j1
  j2 = j2
  j3 = j3
  n1 = n1
  n2 = n2
  n3 = n3
  Jobs = {j1, j2}
  Nullifiers = {n1, n2}
  NullifierOf <- Distinct
  MaxPrice = 2
  MaxCrashes = 1
  MaxDrops = 0
  MaxDry = 0
  LegacyPricing = FALSE
  ThrowsAt = {"prepare", "save", "sent"}
  ForeignMaySpend = TRUE
  CallMayRevert = FALSE
  NoJob = NoJob
  NoSent = NoSent
INVARIANT TruthfulStatus
INVARIANT JobAccounted
INVARIANT NothingElseForgotten
INVARIANT FailedElseNeverSent
PROPERTY OutcomeFinal
CHECK_DEADLOCK FALSE
