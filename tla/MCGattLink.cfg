CONSTANTS
  MaxExtras = 1
  MaxEvents = 2
  MaxConns = 2
  MaxValue = 3
  Batches = 2
  SubSlots = 2
SPECIFICATION FairSpec
INVARIANTS
  NewsKept
  DataWhole
PROPERTIES
  KeepsBearer
  CallEnds
CHECK_DEADLOCK FALSE
