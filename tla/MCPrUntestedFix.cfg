CONSTANTS
  MaxHead = 1
  Ceiling = 2
  MaxRounds = 2
  MaxCrashes = 0
SPECIFICATION Spec
PROPERTY FixVerified
CHECK_DEADLOCK FALSE
