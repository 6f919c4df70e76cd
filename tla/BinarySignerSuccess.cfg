SPECIFICATION ReleaseSpec
CONSTANTS
  rwA = rwA
  rwB = rwB
  dbgB = dbgB
  prodA = prodA
  prodB = prodB
  devB = devB
  dev = dev
  rel = rel
  ecBin = ecBin
  relBin = relBin
  f0 = f0
  hole = hole
  erased = erased
  absent = absent
  torn = torn
  Elf <- MCElf
  Blocks <- MCBlocks
  RwAt <- MCRwAt
  Hole = hole
  Proc <- MCProc
  Awaited = {rel}
  Command <- MCCommand
  Debug <- MCDebug
  Path <- MCPath
  First <- MCFirst
  Unsigned <- MCUnsigned
  SignerLies = TRUE
  Faults = FALSE
  Cuts = {1}
  MaxRuns = 2
  Absent = absent
  Child = rel
  Release = relBin
  Ro <- MCRo
  ProdRo <- MCProdRo
  RoBAt = 3
  Size = 6
  Erased = erased
  VersionOf <- MCVersionOf
  BoardRead = FALSE
  Argument <- MCArgument
  Torn = torn
INVARIANT SuccessMeansPasted
CHECK_DEADLOCK FALSE
