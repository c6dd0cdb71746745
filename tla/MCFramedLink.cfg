SPECIFICATION FairSpec
CONSTANTS
  Settings <- MCSettings
INVARIANTS
  BadFramesNeedNoise
  NothingLeftAtEof
PROPERTIES
  ImplementsChannel
  IntactArrives
CHECK_DEADLOCK FALSE
