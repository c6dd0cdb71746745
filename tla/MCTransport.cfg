SPECIFICATION FairSpec
CONSTANTS
  Setups <- AllSetups
  FrameLen = 3
  Capacity = 4
  MaxFrames = 3
  MaxArrivals = 3
  MaxOpens = 2
INVARIANTS
  TypeOK
  WritesWhole
  OnlyTailsLost
PROPERTIES
  StopsWithPeer
CHECK_DEADLOCK FALSE
