CONSTANTS
  MaxHead = 1
  Ceiling = 1
  MaxRounds = 2
  MaxCrashes = 0
SPECIFICATION FairSpec
PROPERTY TickEnds
CHECK_DEADLOCK FALSE
