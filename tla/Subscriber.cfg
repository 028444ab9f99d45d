SPECIFICATION FairSpec
CONSTANTS
  s1 = s1
  s2 = s2
  h1 = h1
  h2 = h2
  Subs = {s1, s2}
  Handlers = {h1, h2}
  Trials <- MCTrials
  Period = 1
  MaxClock = 2
  MaxEvents = 3
  MaxFailures = 1
CHECK_DEADLOCK FALSE
INVARIANTS OpenIsBacked SettlesCurrent
PROPERTIES PaymentCounts
