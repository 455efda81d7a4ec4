SPECIFICATION Spec
CONSTANTS
  Managers = {m1, m2}
  Tickers = {A}
  Sleeve = 100
  DefaultPct = 1
  StandardMax = 2
  ReloadMax = 5
  ThesisMin = 3
  ThesisMax = 7
  BufferPct = 2
  MinDollars = 1
  MinPct = 0
  MaxScore = 22
  StaleDays = 1
  Buys <- MCBuys
  Cash <- MCCash
  Asks <- MCAsks
  Parts = 1000
  Points = 10
  MaxDay = 2
  MaxWatches = 3
  Watched = {"soft", "heavy"}
  MaxBatches = 2
  MaxCrashes = 1
  MaxFailures = 1
CHECK_DEADLOCK FALSE
INVARIANTS WithinCash FreshInterest TradedIsRecognized
PROPERTY InterestKept
