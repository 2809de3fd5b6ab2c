CONSTANTS
  q1 = q1
  NumReaders = 2
  Remote = {q1}
  MaxChunks = 2
  NumMessages = 3
  Large = {2}
  Impatient = {0, 1}
  Stoppable = {2}
SPECIFICATION FairSpec
CHECK_DEADLOCK FALSE
INVARIANTS
  TypeOK
  NoTornRead
PROPERTIES
  BroadcastInOrder
  EveryMessageDelivered
  ShutdownStopsReader
