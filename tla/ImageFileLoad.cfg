CONSTANTS
  Page = 4
  HeaderSize = 2
  MemSize = 16
  FlashStart = 64
  FlashSize = 256
  Span = 8
  RecordSize = 2
  Erased = 255
  Header = 9
  Patterns = {7}
  Elf <- MCElf
SPECIFICATION Spec
INVARIANTS
  TypeOK
  ImageIsElf
  HexReadsBack
  FillOnlyPads
  RegionsCoverImage
  StaysInMem
