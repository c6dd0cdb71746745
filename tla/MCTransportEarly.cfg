SPECIFICATION Spec
CONSTANTS
  Setups <- PtySetups
  FrameLen = 3
  Capacity = 4
  MaxFrames = 3
  MaxArrivals = 3
  MaxOpens = 2
INVARIANTS
  EofMeansClosed
CHECK_DEADLOCK FALSE
