SPECIFICATION Spec
CONSTANTS
  MaxCommits = 2
  MaxFaults = 1
  MaxKills = 0
INVARIANT NeverItself
