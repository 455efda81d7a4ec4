CONSTANTS
  NDays = 2
  NCheckpoints = 2
  Weekend = {2}
  Announced = {2}
  MaxCrashes = 1
  MaxErrors = 1
SPECIFICATION FairSpec
INVARIANTS FinalCoversDay AnnouncedOnce
PROPERTIES CompleteKept EveningFinalizes
