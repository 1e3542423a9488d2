SPECIFICATION Spec
CONSTANTS
  Estimations = {"web3", "polygon"}
  Fallback = 2
  MaxFeeLimit = 2
  Surplus = 50
  Bump = 50
  Scale = 150
  BaseGas = 2
  Denominator = 2
  Rates = {1, 3}
  Updates = {u1, u2}
  MaxPrice = 3
  MaxResends = 3
  None = None
INVARIANTS Sendable QuoteOfOnePrice
CHECK_DEADLOCK FALSE
