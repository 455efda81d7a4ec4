CONSTANTS
  c1 = c1
  Callers <- MCCallers
  MaxJobs = 2
  MaxTime = 1
  MaxFailures = 1
  ValidFor = 0
  Retry = 1
  RateRetry = 3
SPECIFICATION FairSpec
INVARIANTS OneJobAwaits LoggedInMeansClean
PROPERTIES TokenKept ReauthSettles
