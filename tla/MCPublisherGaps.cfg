SPECIFICATION Spec
CONSTANTS
  None = None
  Text = Text
  Modulus = 8
  NumberOf <- MCNumberOf
  Endpoints <- MCEndpoints
  Operands <- MCOperands
  FileOf <- MCFileOf
  CommandLines <- Paced
  Period = 2
  MaxSent = 7
  MaxDelay = 0
INVARIANTS
  HonoursRecordedGaps
CHECK_DEADLOCK FALSE
