SPECIFICATION Spec
CONSTANTS
  c1 = c1
  c2 = c2
  c3 = c3
  Nobody = Nobody
  Client = {c1, c2, c3}
  Lifetime = 2
  Calls = {"lock", "tryLock", "tryLockFor"}
  Throwing = {"tryLock", "tryLockFor"}
  MaxRounds = 2
  MaxFaults = 1
  MaxCrashes = 1
  Overrun = FALSE
SYMMETRY Symmetry
INVARIANT TypeOK
INVARIANT NoLostUpdate
INVARIANT NoImmortalKey
INVARIANT FalseMeansFree
PROPERTY LeaseSpec
CHECK_DEADLOCK FALSE
