\* Two tabs, one failure, one refresh.
SPECIFICATION Spec
CONSTANTS
  Tabs = {t1, t2}
  N = 3
  Batch = 1
  Tries = 2
  Original <- MCOriginal
  Others <- MCOthers
  MaxFaults = 1
  MaxCloses = 1
INVARIANTS LinkIsWhole RecordIsBacked
PROPERTIES UploadEnds
CHECK_DEADLOCK FALSE
