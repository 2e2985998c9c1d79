CONSTANTS
  PRs = {p1, p2, p3}
  Concurrency = 2
  MaxPushes = 6
SPECIFICATION FairSpec
INVARIANTS WorkConserving NoPushDropped NoLostWakeup
PROPERTIES ImplementsPromise
CHECK_DEADLOCK FALSE
