SPECIFICATION FairSpec
CONSTANTS
  NoManifest = NoManifest
  NoBody = NoBody
  Bodies = {b1}
  Reqs = {r1}
  Cron = Cron
  Expiry = 1
  SessionLife = 1
  Grace = 0
  StaleAfter = 2
  TombKeep = 2
  Chunks = 1
  Tries = 2
  Handlers = {"finalise", "download", "confirm", "takedown"}
  Arming = {"served"}
  Sizes = {"good", "bad"}
  MaxNow = 4
  MaxFaults = 1
CHECK_DEADLOCK FALSE
PROPERTIES EndedIsEmptied ExpiredIsEnded RecordIsForgotten
