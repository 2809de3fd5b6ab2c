CONSTANTS
  r1 = r1
  r2 = r2
  r3 = r3
  Request = {r1}
  Token = {1, 2}
  Stream <- ShortStream
  PromptLen <- ShortPromptLen
  MaxTokens <- ShortMaxTokens
  MinTokens <- ShortMinTokens
  Urgency <- LastFirst
  NumBlocks = 4
  BlockSize = 2
  MaxModelLen = 5
  EnableCaching = TRUE
  UseEagle = FALSE
  Policy = "FCFS"
  MaxNumSeqs = 2
  TokenBudget = 2
  LongPrefill = 0
  ChunkedPrefill = TRUE
  AsyncScheduling = TRUE
  BatchQueueSize = 2
  MaxResets = 1
SPECIFICATION Spec
CHECK_DEADLOCK FALSE
INVARIANTS
  OutputsInOrder
