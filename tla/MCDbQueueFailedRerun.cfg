CONSTANTS
  PRs = {p1}
  Processes = {api}
  Cap = 2
  MaxPushes = 2
  MaxFailures = 1
  MaxCrashes = 0
  MaxClaimErrors = 0
SPECIFICATION FairSpec
PROPERTY RequestSurvivesFailure
CHECK_DEADLOCK FALSE
