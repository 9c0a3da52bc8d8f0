SPECIFICATION FairSpec
CONSTANTS
  p = p
  q = q
  r = r
  s = s
  tmp1 = tmp1
  tmp2 = tmp2
  Formats = {p, q, r, s}
  Alphabet <- Names
  Images <- AllImages
  BatchSize = 2
  Budget = 3
  Outputs = {tmp1, tmp2}
  Troubled <- FewImages
INVARIANTS
  TypeOK
  ReportTruthful
  TiersInOrder
  NothingLeft
  SelectionAsExpected
  SelectionHasEvidence
PROPERTIES
  ProbingEnds
CHECK_DEADLOCK FALSE
