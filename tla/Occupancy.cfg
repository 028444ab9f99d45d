SPECIFICATION Spec
CONSTANTS
  t1 = t1
  t2 = t2
  t3 = t3
  Sessions = {t1, t2, t3}
  Chunks <- ThreeSizes
  Limit = 3
  MaxInFlight = 2
  Tries = 2
  Slow = {}
  Lossy = {"release", "create"}
CHECK_DEADLOCK FALSE
INVARIANTS ReservedMatchesRows Covered SessionBacked HeldWithinLimit
PROPERTIES ImplementsAllowance
