CONSTANTS
  r1 = r1
  r2 = r2
  r3 = r3
  Request <- MCRequest
  Stream <- MCStream
  Token = {1, 2}
  NumBlocks = 4
  BlockSize = 2
  MaxModelLen = 5
  EnableCaching = TRUE
  UseEagle = FALSE
SPECIFICATION KVSpec
INVARIANTS
  KVTypeOK
  RefCountsMatchTables
  HashMapMatchesBlocks
  SharedBlocksAgree
  TablesMatchCache
  NoError
