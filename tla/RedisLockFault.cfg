SPECIFICATION Spec
CONSTANTS
  c1 = c1
  c2 = c2
  Nobody = Nobody
  Client = {c1, c2}
  Lifetime = 1
  Calls = {"lock"}
  Throwing = {"lock"}
  MaxRounds = 1
  MaxFaults = 1
  MaxCrashes = 0
  Overrun = FALSE
SYMMETRY Symmetry
INVARIANT WorkerOwnsKey
CHECK_DEADLOCK FALSE
