SPECIFICATION Spec
CONSTANTS
  Sent <- MCSent
  Damage <- Octet
  MaxBody = 2
INVARIANTS
  IInv
  AcceptsExactlyIntact
CHECK_DEADLOCK FALSE
