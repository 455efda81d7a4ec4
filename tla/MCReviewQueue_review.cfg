CONSTANTS
  Subjects <- MCSubjects
  Arrivals <- MCArrivals
  NArrivals = 4
  Uncertain <- MCSubjects
  Offered = {"BUY"}
  Truths = {"IGNORE"}
  Limit = 1
SPECIFICATION QueueSpec
INVARIANTS NothingForgotten ClearMeansDone TaughtWasLabelled
