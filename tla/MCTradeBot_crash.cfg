CONSTANTS
  NManagers = 2
  Enabled = {1, 2}
  Legacy = 1
  NTweets = 2
  Tickers = {"A", "C", "N", "X"}
  USTickers = {"A", "C"}
  SignalsOf <- MCTwoBuys
  Live = TRUE
  CountSim = FALSE
  Cooldown = 0
  DupWindow = 0
  MaxPerDay = 1
  MaxTime = 0
  DayOf <- MCOneDay
  OpenTimes <- MCAllDay
  MaxCrashes = 1
  Pausing = TRUE
SPECIFICATION FairSpec
INVARIANTS OneOrderPerSignal OrderLeavesTrace TradeHasAllowedSignal PauseStopsAllButOne
PROPERTIES AtMostOnce CallsSettle
