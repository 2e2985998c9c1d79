CONSTANTS
  PRs = {p1, p2}
  Concurrency = 2
  MaxPushes = 4
SPECIFICATION Spec
INVARIANT OneJobPerPR
CHECK_DEADLOCK FALSE
