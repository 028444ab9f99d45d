SPECIFICATION Spec
CONSTANTS
  a1 = a1
  a2 = a2
  t1 = t1
  t2 = t2
  s1 = s1
  s2 = s2
  q1 = q1
  q2 = q2
  k1 = k1
  Unset = Unset
  Addresses = {a1, a2}
  Tokens = {t1, t2}
  Sessions = {s1, s2}
  Asks = {k1}
  Reqs = {q1, q2}
  TokenTtl = 1
  ShortIdle = 1
  Idle = 2
  Absolute = 3
  Cap = 1
  MaxNow = 3
  MaxChanges = 1
  MaxFaults = 1
SYMMETRY Symmetry
CHECK_DEADLOCK FALSE
INVARIANTS OldAddressOut LinkOnce
PROPERTIES EndedStays IdleEnds
