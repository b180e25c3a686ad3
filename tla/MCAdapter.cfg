CONSTANTS
  GiveUpAfter = 2
  MaxTrouble = 4
  MaxBackground = 2
SPECIFICATION FairAdapterSpec
INVARIANTS
  OpensFree
PROPERTIES
  ThreadsEnd
