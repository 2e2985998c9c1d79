CONSTANTS
  PRs = {p1, p2, p3}
  Processes = {api}
  Cap = 2
  MaxPushes = 4
  MaxFailures = 2
  MaxCrashes = 1
  MaxClaimErrors = 1
SPECIFICATION Spec
PROPERTIES ImplementsPromise
CHECK_DEADLOCK FALSE
