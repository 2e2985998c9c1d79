SPECIFICATION Spec
CONSTANTS
  Forks = {f1}
  MaxPerTick = 1
  MaxUpstream = 2
  MaxCommits = 3
  MaxAlerts = 2
  MaxKills = 0
  MaxThrows = 0
  MaxLosses = 0
PROPERTIES
  RevertSparesOthers
CHECK_DEADLOCK FALSE
