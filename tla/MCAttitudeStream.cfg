SPECIFICATION FairSpec
CONSTANTS
  None = None
  Text = Text
  Running = Running
  AtEof = AtEof
  Interrupted = Interrupted
  Modulus = 3
  LineCap = 2
  MaxSent = 7
  MaxRestarts = 1
INVARIANTS
  TypeOK
  DropsExact
  DropsModulo
  ReplayFaithful
PROPERTIES
  MonitorStops
CHECK_DEADLOCK FALSE
