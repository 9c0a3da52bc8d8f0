SPECIFICATION Spec
CONSTANTS
  f1 = f1
  f2 = f2
  a1 = a1
  a2 = a2
  Formats = {f1, f2}
  DefaultFormat = f1
  NoFormat = NoFormat
  InitialFiles <- FaultyFiles
  Edits <- NoEdits
  Archives = {a1}
  MountChoices <- Ambiguous
INVARIANTS
  FormatNamed
