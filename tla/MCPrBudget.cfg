CONSTANTS
  MaxHead = 1
  Ceiling = 2
  MaxRounds = 2
  MaxCrashes = 0
SPECIFICATION Spec
INVARIANT BudgetBounded
CHECK_DEADLOCK FALSE
