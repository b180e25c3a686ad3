CONSTANTS
  Op = {update, other}
  Slots = 1
  QueueLimit = 2
  MaxCommands = 4
  NoCommand = NoCommand
SPECIFICATION FairSpec
INVARIANTS
  NoOverrun
  OwnAnswerUnlessAbandoned
PROPERTIES
  RightOwner
  BackgroundServed
CHECK_DEADLOCK FALSE
