CONSTANTS
  r1 = r1
  r2 = r2
  r3 = r3
  None = None
  Request = {r1, r2, r3}
  Token = {1, 2}
  OutToken = {1}
  BlockLen = 2
  NumBlocks = 1
  Prompt <- Prompt2
  MaxNewLen <- MaxNewLen2
  MaxBatchLen = 4
  MaxChunk = 4
  Policy = "Fcfs"
SPECIFICATION FairSpec
PROPERTIES
  BeyondCapacityFails
