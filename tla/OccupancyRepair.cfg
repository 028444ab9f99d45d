SPECIFICATION FairSpec
CONSTANTS
  t1 = t1
  t2 = t2
  t3 = t3
  Sessions = {t1, t2}
  Chunks <- TwoSizes
  Limit = 3
  MaxInFlight = 2
  Tries = 2
  Slow = {"release", "convert"}
  Lossy = {"release", "convert", "create"}
CHECK_DEADLOCK FALSE
INVARIANTS TypeOK
PROPERTIES DriftIsRepaired
