SPECIFICATION FairSpec
CONSTANTS
  Forks = {f1, f2}
  MaxPerTick = 1
  MaxUpstream = 1
  MaxCommits = 0
  MaxAlerts = 2
  MaxKills = 0
  MaxThrows = 1
  MaxLosses = 0
PROPERTIES
  LaggingForkTried
CHECK_DEADLOCK FALSE
