CONSTANTS
  MaxKey = 4
  MaxTrouble = 6
SPECIFICATION FairSpec
INVARIANTS
  TrustEarned
PROPERTIES
  BondSurvives
  Recovers
CHECK_DEADLOCK FALSE
