CONSTANTS
  NManagers = 2
  Enabled = {2}
  Legacy = 1
  NTweets = 3
  Tickers = {"A", "C", "N", "X"}
  USTickers = {"A", "C"}
  SignalsOf <- MCThree
  Live = FALSE
  CountSim = TRUE
  Cooldown = 1
  DupWindow = 1
  MaxPerDay = 1
  MaxTime = 4
  DayOf <- MCDay
  OpenTimes <- MCEarly
  MaxCrashes = 1
  Pausing = FALSE
SPECIFICATION Spec
INVARIANTS DailyLimitByAccount CooldownByAccount DuplicateWindow
