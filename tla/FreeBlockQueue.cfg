CONSTANTS
  b1 = b1
  b2 = b2
  b3 = b3
  b4 = b4
  Block <- MCBlock
  InitialOrder <- MCInitialOrder
  FakeHead = FakeHead
  FakeTail = FakeTail
  None = None
SPECIFICATION Spec
INVARIANTS
  TypeOK
  WellLinked
PROPERTY ImplementsQueue
