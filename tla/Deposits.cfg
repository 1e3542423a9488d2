SPECIFICATION Spec
CONSTANTS
  MaxDeposits = 4
  Invalid = {2}
  BatchSize = 2
  TimerRuns = {t1, t2}
  MaxMishaps = 1
  Start = Start
  Watcher = Watcher
  Reprocess = Reprocess
INVARIANTS TypeOK CacheWatched BatchFits OnePlace NothingElseLost RevertsForRefunds
SYMMETRY TimerSymmetry
CHECK_DEADLOCK FALSE
