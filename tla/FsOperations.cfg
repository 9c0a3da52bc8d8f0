SPECIFICATION FairSpec
CONSTANTS
  f1 = f1
  f2 = f2
  pw = pw
  ro = ro
  plain = plain
  t1 = t1
  t2 = t2
  Files = {f1, pw}
  Passwords = {pw}
  Attrs = {plain, ro}
  NoAttr = plain
  MaxDir = 3
  EntriesPerBlock = 2
  DirBlks = 0
  GivenExtents = 0
  Size = 5
  Ptrs = 2
  PtrLimit = 7
  RecsPerBlock = 2
  RecsPerExtent = 2
  ExtnoLimit = 4
  Tags = {t1}
  MaxRecs = 5
  Lengths = {5}
  Chunk = 1
  EntriesPerSector = 2
  Images <- AnyImage
  MaxLosses = 1
INVARIANTS
  AllocationExact
  WrittenReadsBack
PROPERTIES
  AttrsUniform
  NoNewSharing
  NothingToRepair
  DirectoryBlocksKept
  OthersUntouched
  StaysMountable
  WriteReturns
