SPECIFICATION Spec
CONSTANTS
  p1 = p1
  p2 = p2
  k1 = k1
  k2 = k2
  Proc = {p1, p2}
  Key = {k1, k2}
  KeysOf <- MCKeysOf
  Misfit <- MCMisfit
  Gone = Gone
  None = None
  UnlockLost = FALSE
  LastPart = 1
  MaxFaults = 3
INVARIANTS
  TypeOK
  WroteWhole
  LockGivenBack
PROPERTIES
  WriteReturns
