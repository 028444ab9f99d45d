SPECIFICATION Spec
CONSTANTS
  p1 = p1
  p2 = p2
  u1 = u1
  u2 = u2
  s1 = s1
  s2 = s2
  s3 = s3
  c1 = c1
  c2 = c2
  Reqs = {p1, p2}
  Uuids = {u1, u2}
  Sessions = {s1, s2, s3}
  Uuid <- Transfers
  Chunks <- OneChunk
  Serials = {c1, c2}
  Kinds = {"bearer", "citizen", "chartered", "soak"}
  Limit = 2
  MaxInFlight = 2
  Pool = 1
  Faults = {"crash", "throw", "store"}
  MaxFaults = 2
SYMMETRY Symmetry
CHECK_DEADLOCK FALSE
INVARIANTS TypeOK PaidOnce CreatedIsPaid OwnerKeepsReservation RefusalReleases
