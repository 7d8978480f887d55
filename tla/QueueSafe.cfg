SPECIFICATION FairSpec
CONSTANTS
  p1 = p1
  c1 = c1
  c2 = c2
  Proc = {p1, c1, c2}
  Producer = {p1}
  Consumer = {c1, c2}
  First = 3
  Unpadded = 3
  Quota = 3
  Shared = TRUE
  MaxFaults = 1
  MaxCrashes = 1
INVARIANT TypeOK
INVARIANT ConsumedOnce
INVARIANT NothingLost
INVARIANT NoLostWakeup
PROPERTY FifoSpec
PROPERTY EveryElementGoes
CHECK_DEADLOCK FALSE
