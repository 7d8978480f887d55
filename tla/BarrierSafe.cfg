SPECIFICATION FairSpec
CONSTANTS
  p1 = p1
  p2 = p2
  p3 = p3
  Proc = {p1, p2, p3}
  Size = 3
  GoesOn = TRUE
  MaxFaults = 1
  MaxCrashes = 1
  MaxLost = 1
PROPERTY BarrierSpec
INVARIANT NoLostWakeup
PROPERTY LostComeOut
PROPERTY EveryoneEnters
PROPERTY EveryoneLeaves
CHECK_DEADLOCK FALSE
