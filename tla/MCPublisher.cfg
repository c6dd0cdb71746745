SPECIFICATION FairSpec
CONSTANTS
  None = None
  Text = Text
  Modulus = 8
  NumberOf <- MCNumberOf
  Endpoints <- MCEndpoints
  Operands <- MCOperands
  FileOf <- MCFileOf
  CommandLines <- MCCommandLines
  Period = 2
  MaxSent = 7
  MaxDelay = 2
INVARIANTS
  TypeOK
  ReplaysRecording
  OnSchedule
  KeepsRecordedPace
  OpensOneTransport
PROPERTIES
  StopEnds
  ReplayEnds
CHECK_DEADLOCK FALSE
