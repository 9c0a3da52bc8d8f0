SPECIFICATION Spec
CONSTANTS
  f1 = f1
  f2 = f2
  a1 = a1
  a2 = a2
  Formats = {f1, f2}
  DefaultFormat = f1
  NoFormat = NoFormat
  InitialFiles <- AllFiles
  Edits <- AllEdits
  Archives = {a1, a2}
  MountChoices <- AllChoices
SYMMETRY Symmetry
INVARIANTS
  NeverAskedTwice
  OnlySuccessChangesFormats
  SavedSettingsReload
PROPERTIES
  SelectionScope
