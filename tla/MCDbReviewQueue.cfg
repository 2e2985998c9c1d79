CONSTANTS
  PRs = {p1, p2}
  Processes = {api1, api2}
  Cap = 2
  MaxPushes = 2
  MaxFailures = 1
  MaxCrashes = 1
  MaxClaimErrors = 1
SPECIFICATION FairSpec
INVARIANTS Capped NoDoubleReview NoWedgedRow RequestRecorded
PROPERTIES PendingClaimed RequestSettles
CHECK_DEADLOCK FALSE
