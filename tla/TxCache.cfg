SPECIFICATION FairSpec
CONSTANTS
  Txs = {t1, t2}
  Others = {o1}
  Margin = 1
  Extend = 1
  MaxMishaps = 1
  PageLimit = 2
  None = None
INVARIANTS KeptUntilIndexed AnswerComplete SameRecord
PROPERTY Drained
CHECK_DEADLOCK FALSE
