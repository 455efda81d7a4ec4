CONSTANTS
  MaxAge = 2
  WarnDays = 1
  MaxDay = 4
  MaxLogins = 2
  MaxFaults = 1
SPECIFICATION Spec
INVARIANTS NeverYounger LostOnlyByOverlap
PROPERTIES AlertedOnce CriticalAnnounced
