SPECIFICATION InfoSpec
CONSTANTS
  TypeOctets <- MCTypeOctets
  Octets <- MCOctets
  Words <- MCWords
  MaxInfo = 6
  Interrupted <- MCInterrupted
INVARIANTS
  Transparent
  SelfHeals
  Canonical
