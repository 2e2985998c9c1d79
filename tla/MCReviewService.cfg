CONSTANTS
  PRs = {p1}
  Bumps = {}
  Limit = 2
  Durable = TRUE
  Models = 2
  Retries = 1
  CommentPage = 2
  MaxHeads = 1
  MaxEvents = 1
  MaxTalk = 1
  MaxFaults = 3
  MaxKills = 1
SPECIFICATION Spec
INVARIANTS SuccessIsShown ReviewsPaidFor OneReviewComment
PROPERTIES CommitNeverGoesBack
CHECK_DEADLOCK FALSE
