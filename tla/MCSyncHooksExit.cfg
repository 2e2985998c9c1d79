CONSTANTS
  Repos = 1
  Retries = 2
  MaxEdits = 1
  MaxFaults = 1
SPECIFICATION HooksFairSpec
INVARIANTS FailedListingShows
