CONSTANTS
  PRs = {p1}
  Bumps = {p1}
  Limit = 2
  Durable = TRUE
  Models = 1
  Retries = 0
  CommentPage = 2
  MaxHeads = 2
  MaxEvents = 0
  MaxTalk = 0
  MaxFaults = 0
  MaxKills = 0
SPECIFICATION Spec
INVARIANT PersistentComment
CHECK_DEADLOCK FALSE
