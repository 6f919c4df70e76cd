CONSTANTS
  d1 = d1
  d2 = d2
  d3 = d3
  k1 = k1
  k2 = k2
  Proc = {p1, p2}
  Device = {d1, d3}
  Gnubbies = {d1}
  KeyOf <- MCKeyOf
  Wanted <- MCWanted
  RsaFetched = TRUE
  UsbFaults = TRUE
  UnlockLost = TRUE
  DiskFaults = FALSE
  PinTries = 1
  Token = {t1, t2}
  None = None
  Orphan = Orphan
SPECIFICATION FairSpec
PROPERTIES
  SignReturns
