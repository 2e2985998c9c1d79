SPECIFICATION DiffSpec
CONSTANTS
  Inputs <- MCInputs
  MaxLines = 6
  Context = 1
  Page = 3
  MaxFull = 3
  MaxCalls = 2
  MaxNamed = 1
  MaxLost = 0
  Attempts = 2
INVARIANT LockfileFactTrue
CHECK_DEADLOCK FALSE
