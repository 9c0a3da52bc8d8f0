SPECIFICATION Spec
CONSTANTS
  f1 = f1
  f2 = f2
  pw = pw
  ro = ro
  plain = plain
  t1 = t1
  t2 = t2
  Files = {f1, f2}
  Passwords = {}
  Attrs = {plain}
  NoAttr = plain
  MaxDir = 3
  EntriesPerBlock = 2
  DirBlks = 0
  GivenExtents = 0
  Size = 8
  Ptrs = 4
  PtrLimit = 8
  RecsPerBlock = 1
  RecsPerExtent = 2
  ExtnoLimit = 4
  Tags = {t1}
  MaxRecs = 6
  Lengths = {0, 3, 6}
  Chunk = 6
  EntriesPerSector = 1
  Images <- EmptyOnly
  MaxLosses = 0
INVARIANTS
  WrittenReadsBack
