CONSTANTS
  d1 = d1
  d2 = d2
  d3 = d3
  k1 = k1
  k2 = k2
  Proc = {p1, p2}
  Device = {d1, d2}
  Gnubbies = {d1, d2}
  KeyOf <- MCKeyOf
  Wanted <- MCWanted
  RsaFetched = TRUE
  UsbFaults = TRUE
  UnlockLost = FALSE
  DiskFaults = TRUE
  PinTries = 2
  Token = {t1, t2, t3}
  None = None
  Orphan = Orphan
SYMMETRY MCSymmetry
SPECIFICATION Spec
INVARIANTS
  TypeOK
  NoLeakedClaim
  SignedByWantedKey
  PinOnlyWithoutToken
  NoStrandedLock
PROPERTIES
  ForgetsOnlyStaleTokens
  ImplementsRequest
