SPECIFICATION Spec
CONSTANTS
  Size = 2
  ReadOnly = {1}
  Seed <- MCSeed
  Requests <- MCRequests
  Strays <- MCStrays
  MaxRequests = 3
  MaxFaults = 2
INVARIANTS
  TypeOK
  CorrelatedUntilSlip
  SlipsShow
  RepliesAdvance
  ServedInOrder
  ConsistentReads
PROPERTIES
  EveryRequestAnswered
CHECK_DEADLOCK FALSE
