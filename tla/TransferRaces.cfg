SPECIFICATION Spec
CONSTANTS
  NoManifest = NoManifest
  NoBody = NoBody
  Bodies = {b1}
  Reqs = {r1, r2}
  Cron = Cron
  Expiry = 1
  SessionLife = 1
  Grace = 0
  StaleAfter = 2
  TombKeep = 2
  Chunks = 1
  Tries = 2
  Handlers = {"finalise", "download", "delete", "takedown", "orphan"}
  Arming = {"armed"}
  Sizes = {"good"}
  MaxNow = 4
  MaxFaults = 0
SYMMETRY Symmetric
CHECK_DEADLOCK FALSE
INVARIANTS ReleasedOnce CompleteIsBacked NoOrphanObjects
PROPERTIES EndDateFixed ImplementsLifecycle
