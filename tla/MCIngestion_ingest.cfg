CONSTANTS
  NTweets = 4
  Filtered = {2}
  PageSize = 3
  Limit = 2
  MaxBackfills = 2
  MaxCrashes = 1
  MaxFaults = 1
SPECIFICATION FairSpec
INVARIANTS HandedOnce NothingStoredSilently
PROPERTY StoredOrGone
