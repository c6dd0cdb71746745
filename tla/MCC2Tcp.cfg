SPECIFICATION FairSpec
CONSTANTS
  w1 = w1
  r1 = r1
  n1 = n1
  u1 = u1
  None = None
  MaxKills = 1
  Size = 1
  ReadOnly = {}
  Seed <- MCSeed
  Commands <- MCCommands
  ArgsOf <- MCArgsOf
  NumberOf <- MCNumberOf
  Operands <- MCOperands
  Endpoints <- MCEndpoints
INVARIANTS
  TypeOK
  NoLateEffects
  AuditComplete
  HeaderFirst
  AuditsAgree
  ExitCodeTells
PROPERTIES
  ImplementsBank
  ServingEnds
CHECK_DEADLOCK FALSE
