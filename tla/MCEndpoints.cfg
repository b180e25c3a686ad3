\* Bounds: two endpoints; two things go wrong, beside a headset or a controller that
\* falls silent; three attempts are made.
SPECIFICATION FairSpec
CONSTANTS
  Plans <- StereoAndHeadset
  MaxTrouble = 2
  MaxRounds = 3
INVARIANTS
  OperationsFit
  NothingLeft
PROPERTIES
  EarsConfirmed
  AttemptEnds
CHECK_DEADLOCK FALSE
