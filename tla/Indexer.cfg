SPECIFICATION FairSpec
CONSTANTS
  MaxBlocks = 6
  BatchSize = 1
  Confirmations = 1
  MaxMishaps = 1
INVARIANT ServedTreeIsContractTree
INVARIANT ConfirmedIsKnown
INVARIANT NothingElseSkipped
PROPERTY SyncEnds
PROPERTY WatcherCatchesUp
CHECK_DEADLOCK FALSE
