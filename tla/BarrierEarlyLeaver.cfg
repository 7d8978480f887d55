SPECIFICATION FairSpec
CONSTANTS
  p1 = p1
  p2 = p2
  p3 = p3
  Proc = {p1, p2, p3}
  Size = 3
  GoesOn = FALSE
  MaxFaults = 0
  MaxCrashes = 0
  MaxLost = 0
PROPERTY EveryoneJoins
CHECK_DEADLOCK FALSE
