SPECIFICATION Spec
CONSTANTS
  p1 = p1
  p2 = p2
  p3 = p3
  p4 = p4
  Proc = {p1, p2, p3, p4}
  Configured = {p1, p2, p3}
  MaxStarts = 2
  MaxStops = 1
  MaxFaults = 1
  MaxExpiries = 1
SYMMETRY Symmetry
CONSTRAINT FewDisturbances
INVARIANT ExclusiveLeader
INVARIANT LeaderIsLowest
INVARIANT NoLostWakeup
INVARIANT StopRevokes
PROPERTY LeaderKeepsOffice
CHECK_DEADLOCK FALSE
