CONSTANTS
  Sleeve = 10
  CapPct = 10
  MinSell = 1
  MaxOrders = 2
  MaxShares = 4
  MaxRefresh = 0
  Prices = {1, 2}
  Fractions <- MCFractions
  Targets = {}
  Requests = {}
SPECIFICATION Spec
INVARIANT ExplicitSellIsExact
