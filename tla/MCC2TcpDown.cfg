SPECIFICATION FairSpec
CONSTANTS
  w1 = w1
  r1 = r1
  n1 = n1
  u1 = u1
  None = None
  MaxKills = 0
  Size = 1
  ReadOnly = {}
  Seed <- MCSeed
  Commands <- MCCommands
  ArgsOf <- MCArgsOf
  NumberOf <- MCNumberOf
  Operands <- MCOperands
  Endpoints <- MCEndpoints
INVARIANTS
  KeepsServing
CHECK_DEADLOCK FALSE
