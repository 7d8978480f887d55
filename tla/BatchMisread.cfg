SPECIFICATION Spec
CONSTANTS
  a = a
  b = b
  c = c
  x = x
  y = y
  Nobody = Nobody
  Client <- TwoClients
  Key <- ThreeKeys
  KeyList <- Overlapping
  Waits = {x, y}
  MaxAttempts = 2
  MaxCalls = 2
  MaxFaults = 0
INVARIANT TrueMeansAll
CHECK_DEADLOCK FALSE
