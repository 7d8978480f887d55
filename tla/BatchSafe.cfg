SPECIFICATION Spec
CONSTANTS
  a = a
  b = b
  c = c
  x = x
  y = y
  Nobody = Nobody
  Client <- TwoClients
  Key <- TwoKeys
  KeyList <- Crossed
  Waits = {x}
  MaxAttempts = 3
  MaxCalls = 2
  MaxFaults = 1
INVARIANT TypeOK
INVARIANT TrueMeansAll
INVARIANT FalseMeansNone
INVARIANT HeldKeysAreMortal
PROPERTY OnlyOwnKeysGo
CHECK_DEADLOCK FALSE
