\* Two cases of one link, two requests at a time, one fault.
CONSTANTS
  Links = {l1}
  NoLink = NoLink
  Slots = {s1, s2}
  l1 = l1
  s1 = s1
  s2 = s2
  Keep = 1
  MaxCases = 2
  MaxEdits = 2
  MaxNow = 1
  MaxFaults = 1
SYMMETRY Symmetry
\* Every bound used up, the system stops.
CHECK_DEADLOCK FALSE
SPECIFICATION Spec
INVARIANTS TakedownTrue RecordedOnce
