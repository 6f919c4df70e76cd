CONSTANTS
  d1 = d1
  d2 = d2
  d3 = d3
  k1 = k1
  k2 = k2
  Proc = {p1}
  Device = {d1, d2}
  Gnubbies = {d1, d2}
  KeyOf <- MCKeyOf
  Wanted <- MCWanted
  RsaFetched = FALSE
  UsbFaults = TRUE
  UnlockLost = TRUE
  DiskFaults = TRUE
  PinTries = 1
  Token = {t1, t2, t3}
  None = None
  Orphan = Orphan
SPECIFICATION FairSpec
PROPERTIES
  RejectsOnlyWrongKey
