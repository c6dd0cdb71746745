SPECIFICATION Spec
CONSTANTS
  Size = 2
  ReadOnly = {1}
  Seed <- MCSeed
  Requests <- MCRequests
  Strays <- NoStrays
  MaxRequests = 2
  MaxFaults = 0
INVARIANTS
  RepliesMatch
CHECK_DEADLOCK FALSE
