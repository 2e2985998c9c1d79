SPECIFICATION Spec
CONSTANTS
  Forks = {f1}
  MaxPerTick = 1
  MaxUpstream = 2
  MaxCommits = 3
  MaxAlerts = 3
  MaxKills = 1
  MaxThrows = 1
  MaxLosses = 1
INVARIANTS
  RedMergeWatched
  OneSyncPr
  AlertOnce
PROPERTIES
  EarlierHistoryKept
CHECK_DEADLOCK FALSE
