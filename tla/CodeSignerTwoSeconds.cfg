CONSTANTS
  k1 = k1
  k2 = k2
  e1 = e1
  f0 = f0
  f1 = f1
  Blk6 = blk6
  Bad = Bad
  None = None
  Absent = Absent
  Torn = Torn
  Ignore = Ignore
  Key = {k1, k2}
  Words64 = {k2}
  N0inv <- MCN0inv
  Elf = {e1}
  Manifest <- MCManifest
  Xml <- MCXml
  Chip <- MCChip
  FuseMax = 4
  InfoMax = 2
  Blk6Index = 2
  Blk6Width = 1
  Invocation <- MCTwoSteps
  RsaFetched = TRUE
  DiskFaults = FALSE
  BnFails = FALSE
  Junk = {0}
  MaxTime = 1
SPECIFICATION Spec
INVARIANTS
  ResignedBoots
