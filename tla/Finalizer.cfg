SPECIFICATION FairSpec
CONSTANTS
  MaxTotal = 3
  PageLimit = 1
  Foreign = {1, 2}
  MaxMishaps = 1
  NoJob = NoJob
INVARIANTS ProofOnContractTree OneInFlight NeverBlocked
PROPERTY Finalised
CHECK_DEADLOCK FALSE
