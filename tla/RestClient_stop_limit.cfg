SPECIFICATION Spec
CONSTANTS
  OrderIds = {o1, o2}
  MaxCancels = 2
  MaxPages = 1
INVARIANT StopLimitCarriesStop
