SPECIFICATION FairSpec
CONSTANTS
  Call = {c1, c2, c3}
  Threshold = 3
  Cooldown = 1
INVARIANTS TypeOK TripsInTime
PROPERTIES BreakerWorks
