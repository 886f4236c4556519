CONSTANTS
  r1 = r1
  r2 = r2
  r3 = r3
  Requests <- MCRequests
  Prices <- MCPrices
  Cap = 3
  Markup = 1
  Gas = 1
  Fallback = 2
SPECIFICATION Spec
SYMMETRY RequestsAlike
INVARIANTS
  ServedOnce
  OpenMeansUnserved
  RedeemedMeansPaid
  ChargedIffServed
  ChargeWithinCap
CHECK_DEADLOCK FALSE
