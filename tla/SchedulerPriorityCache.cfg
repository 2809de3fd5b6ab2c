CONSTANTS
  r1 = r1
  r2 = r2
  r3 = r3
  Request = {r1, r2}
  Token = {1, 2}
  Stream <- LongStream
  PromptLen <- LongPromptLen
  MaxTokens <- LongMaxTokens
  MinTokens <- LongMinTokens
  Urgency <- LastFirst
  NumBlocks = 7
  BlockSize = 2
  MaxModelLen = 10
  EnableCaching = TRUE
  UseEagle = FALSE
  Policy = "PRIORITY"
  MaxNumSeqs = 2
  TokenBudget = 5
  LongPrefill = 3
  ChunkedPrefill = TRUE
  AsyncScheduling = FALSE
  BatchQueueSize = 1
  MaxResets = 0
SPECIFICATION Spec
CHECK_DEADLOCK FALSE
INVARIANTS
  CachedBlocksComputed
