SPECIFICATION DiffSpec
CONSTANTS
  Inputs <- MCInputs
  MaxLines = 7
  Context = 1
  Page = 3
  MaxFull = 3
  MaxCalls = 2
  MaxNamed = 1
  MaxLost = 0
  Attempts = 2
INVARIANTS AllScoresKept
CHECK_DEADLOCK FALSE
