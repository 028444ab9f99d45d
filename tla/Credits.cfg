SPECIFICATION Spec
CONSTANTS
  a = a
  i1 = i1
  i2 = i2
  p1 = p1
  p2 = p2
  Orgs = {a}
  Isolates = {i1, i2}
  Reqs = {p1, p2}
  Costs = {2}
  Allocation <- SmallAllocation
  Ceilings = {1}
  Month = 1
  Ttl = 1
  Life = 2
  Horizon = 2
  MaxAdmin = 3
  MaxArrivals = 2
  MaxFaults = 1
SYMMETRY Symmetry
CHECK_DEADLOCK FALSE
INVARIANTS NothingFree ChargedOnce RevokedWithinTtl KeyHasPool RulesAgree
