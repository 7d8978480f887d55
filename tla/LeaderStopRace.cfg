SPECIFICATION Spec
CONSTANTS
  p1 = p1
  p2 = p2
  Proc = {p1, p2}
  Configured = {p1, p2}
  MaxStarts = 1
  MaxStops = 1
  MaxFaults = 0
  MaxExpiries = 0
SYMMETRY Symmetry
PROPERTY StopIsFinal
CHECK_DEADLOCK FALSE
