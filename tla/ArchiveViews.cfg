SPECIFICATION Spec
CONSTANTS
  a0 = a0
  b0 = b0
  a1 = a1
  pw = pw
  u0 = u0
  u1 = u1
  u17 = u17
  na = na
  nb = nb
  d1 = d1
  t1 = t1
  plain = plain
  Files = {a0, b0, a1, pw}
  Passwords = {pw}
  Attrs = {plain}
  NoAttr = plain
  MaxDir = 3
  EntriesPerBlock = 2
  DirBlks = 0
  GivenExtents = 1
  Size = 6
  Ptrs = 2
  PtrLimit = 8
  RecsPerBlock = 1
  RecsPerExtent = 2
  ExtnoLimit = 4
  Users = {u0, u1, u17}
  Root = u0
  Shorts = {na, nb}
  User <- UserOf
  Short <- ShortOf
  ReadOnly = {b0, a1}
  Images <- SomeImages
  Dests = {d1}
  MaxSuffix = 1
  Temps = {t1}
  ListLengths = {2}
  MaxOutputs = 2
  Failures = TRUE
INVARIANTS
  TypeOK
  ListedOnce
PROPERTIES
  ExtractsAnnounced
  ExistingKept
  NothingHalfDone
  DeletesOnlyShown
