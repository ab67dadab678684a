CONSTANTS
  r1 = r1
  r2 = r2
  r3 = r3
  None = None
  Request <- MCRequest
  Token = {1, 2}
  BlockLen = 2
  NumBlocks = 4
  Texts <- MCTexts
SYMMETRY MCSymmetry
SPECIFICATION Spec
INVARIANTS
  TypeOK
  RefCounts
  SealedIndex
  PlansCanBeRetained
  TableInjective
  TableCoversTokens
  TableContents
