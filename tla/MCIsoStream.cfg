CONSTANTS
  Streams = 2
  Capacity = 3
  Depth = 2
  Plans = {TRUE, FALSE}
  Interval = 2
  Pause = 3
  Stalled = 3
  NumberSpace = 2
  MaxLag = 4
  MaxEvents = 2
  MaxRebuilds = 1
SPECIFICATION FairStreamSpec
INVARIANTS
  Conservation
  ExactAccounting
  EarsInStep
PROPERTIES
  NoCatchUpBurst
  FramesFlow
  LossEndsLoop
CHECK_DEADLOCK FALSE
