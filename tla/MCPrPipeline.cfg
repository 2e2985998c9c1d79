CONSTANTS
  MaxHead = 1
  Ceiling = 2
  MaxRounds = 2
  MaxCrashes = 1
SPECIFICATION Spec
INVARIANTS PinHonoured NoticeOnce
PROPERTY MergedHeadPassed
CHECK_DEADLOCK FALSE
