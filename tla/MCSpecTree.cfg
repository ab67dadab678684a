CONSTANTS
  Token = {0, 1}
  TargetNext <- MCTargetNext
  Eos = 1
  MaxNewLen = 5
  Prompts <- MCPrompts
  BlockLen = 2
  NumBlocks = 6
  Budget = 4
  Branch = 2
  MaxDepth = 3
SPECIFICATION Spec
INVARIANTS
  TargetHoldsText
  ScratchInBounds
PROPERTIES
  ImplementsDecoding
  GenerateEnds
CHECK_DEADLOCK FALSE
