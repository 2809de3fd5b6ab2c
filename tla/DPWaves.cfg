CONSTANTS
  c1 = c1
  r1 = r1
  r2 = r2
  NumEngines = 2
  Client = {c1}
  Request = {r1, r2}
  Length <- TwoLengths
  Abortable = {r1}
  SyncPeriod = 2
SPECIFICATION FairSpec
CHECK_DEADLOCK FALSE
INVARIANTS
  TypeOK
  CoordinatorAgrees
  SameCollective
PROPERTIES
  EveryRequestServed
