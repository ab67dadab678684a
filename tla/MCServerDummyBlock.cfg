CONSTANTS
  r1 = r1
  r2 = r2
  r3 = r3
  None = None
  Request = {r1, r2, r3}
  Token = {1, 2}
  OutToken = {1}
  BlockLen = 2
  NumBlocks = 3
  CacheBlocks = 3
  Buckets = {2}
  Prompt <- ServerPrompt
  MaxNewLen <- ServerMaxNewLen
  MaxBatchLen = 3
  MaxChunk = 2
  Policy = "Fcfs"
SPECIFICATION ServerSpec
INVARIANTS
  GraphAvoidsDummy
