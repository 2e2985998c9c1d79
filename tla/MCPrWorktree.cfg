SPECIFICATION FairSpec
CONSTANTS
  MaxCommits = 4
  MaxFaults = 1
  MaxKills = 1
INVARIANTS TipIsTheWork
PROPERTIES OnlyThisRunsWork FreshGround SweptWhenClosed
