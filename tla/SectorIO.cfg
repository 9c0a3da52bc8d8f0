SPECIFICATION FairSpec
CONSTANTS
  SingleSidedTracks = 2
  Definitions <- AllDefinitions
  Probed <- AllProbes
  FileLengths = {5, 8}
  Tags = {"t1"}
  MaxLength = 9
INVARIANTS
  SkewIsPermutation
  FittingNeverFails
PROPERTIES
  IsBlockArray
  LoopsEnd
