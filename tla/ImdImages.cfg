SPECIFICATION Spec
CONSTANTS
  p = p
  m = m
  w = w
  Plain = {p}
  Mixed = {m, w}
  Unformatted = p
  NoData = NoData
  NoTrack = NoTrack
  NoHead = NoHead
  Nothing = Nothing
  InDoubt = InDoubt
  SectorIds = {1, 2}
  SectorLength = 128
  MaxWrites = 3
  Tracks <- SomeTracks
  Images <- SomeImages
INVARIANTS
  BlocksHeldOnce
PROPERTY
  IsSavedDisk
