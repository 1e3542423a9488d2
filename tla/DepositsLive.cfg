SPECIFICATION FairSpec
CONSTANTS
  MaxDeposits = 3
  Invalid = {2}
  BatchSize = 2
  TimerRuns = {t1}
  MaxMishaps = 1
  Start = Start
  Watcher = Watcher
  Reprocess = Reprocess
PROPERTY DepositsEnd
CHECK_DEADLOCK FALSE
