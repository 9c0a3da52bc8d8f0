SPECIFICATION Spec
CONSTANTS
  n1 = n1
  n2 = n2
  v1 = v1
  g1 = g1
  g2 = g2
  x1 = x1
  x2 = x2
  Names = {n1, n2}
  Values = {v1}
  Formats = {g1, g2}
  Temps = {x1, x2}
  Missing = Missing
  ConfigFormat = g1
  DevFails = TRUE
INVARIANTS
  SelectedFormatUsed
