CONSTANTS
  r1 = r1
  r2 = r2
  r3 = r3
  a = a
  b = b
  c = c
  Request = {r1, r2, r3}
  Features <- SharedInputs
  PromptLen <- SharedLen
  Precedence <- InOrder
  CacheSize = 3
  ComputeBudget = 3
  Eagle = FALSE
  ChunkedInput = TRUE
  Policy = "FCFS"
  MaxInFlight = 2
SPECIFICATION Spec
CHECK_DEADLOCK FALSE
INVARIANTS
  SlotsMatchEntries
  WorkerFollows
  NoCacheMiss
  NoHoldAndWait
