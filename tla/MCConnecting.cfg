\* Bounds: four things go wrong, cancellations and settings included.
SPECIFICATION FairSpec
CONSTANTS
  Bonded = {TRUE, FALSE}
  Favourite = {TRUE, FALSE}
  MaxTrouble = 4
INVARIANTS
  NothingOrphaned
  AnnouncedEnds
  OffMeansOff
PROPERTIES
  ComesBack
