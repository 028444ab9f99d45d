SPECIFICATION Spec
CONSTANTS
  k1 = k1
  k2 = k2
  c1 = c1
  Tasks = {k1, k2}
  Clients = {c1}
  Retention = 2
  RecordLife = 3
  MaxIds = 2
  MaxDays = 3
  MaxFaults = 1
SYMMETRY Symmetry
CHECK_DEADLOCK FALSE
INVARIANTS NotLost SentOnce TriedNightly
