SPECIFICATION FairSpec
CONSTANTS
  p1 = p1
  c1 = c1
  c2 = c2
  Proc = {p1, c1, c2}
  Producer = {p1}
  Consumer = {c1, c2}
  First = 2
  Unpadded = 3
  Quota = 1
  Shared = FALSE
  MaxFaults = 0
  MaxCrashes = 0
PROPERTY EveryElementGoes
CHECK_DEADLOCK FALSE
