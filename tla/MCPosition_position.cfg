CONSTANTS
  Sleeve = 10
  CapPct = 20
  MinSell = 1
  MaxOrders = 3
  MaxShares = 1
  MaxRefresh = 1
  Prices = {1, 2}
  Fractions <- MCFractions
  Targets = {10, 30}
  Requests = {"api"}
SPECIFICATION Spec
INVARIANTS TypeOK TerminalIsTrue TrimStopsAtTarget LedgerAgrees
PROPERTY FillKept
