CONSTANTS
  Token = {0, 1, 2}
  TargetNext <- MCTargetNext
  Eos = 0
  MaxNewLen = 4
  Prompts <- MCPrompts
  BlockLen = 2
  NumBlocks = 5
  K = 2
SPECIFICATION Spec
INVARIANTS
  TargetHoldsText
  DraftHoldsText
  LogitsMatchProposals
PROPERTIES
  ImplementsDecoding
  GenerateEnds
CHECK_DEADLOCK FALSE
