SPECIFICATION FairSpec
CONSTANTS
  p1 = p1
  p2 = p2
  p3 = p3
  Proc = {p1, p2, p3}
  Configured = {p1, p2, p3}
  MaxStarts = 1
  MaxStops = 0
  MaxFaults = 0
  MaxExpiries = 1
PROPERTY LowestIsToldOrFails
CHECK_DEADLOCK FALSE
