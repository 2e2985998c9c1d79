SPECIFICATION DiffSpec
CONSTANTS
  Inputs <- MCInputs
  MaxLines = 7
  Context = 1
  Page = 3
  MaxFull = 3
  MaxCalls = 2
  MaxNamed = 1
  MaxLost = 1
  Attempts = 2
INVARIANTS ContextIsReal ReadOrNamed PromptFits SuggestionsComplete
CHECK_DEADLOCK FALSE
