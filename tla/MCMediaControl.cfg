CONSTANTS
  Ops = {play}
  Position = Position
  MaxSerial = 2
  MaxLinks = 2
  NoteLimit = 3
SPECIFICATION FairSpec
INVARIANTS
  SuccessIsConfirmed
  OneResult
  NothingCrossesLinks
PROPERTIES
  CommandAnswered
