CONSTANTS
  Repos = 2
  Retries = 2
  MaxEdits = 2
  MaxFaults = 1
SPECIFICATION HooksFairSpec
INVARIANT FaultsStayLocal
PROPERTY Converges
