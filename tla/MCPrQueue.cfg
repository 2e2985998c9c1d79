SPECIFICATION Spec
CONSTANTS
  PRs = {1, 2, 3}
  Repo <- MCRepo
  Toolchain = {1}
  Bumps = {2}
  Trivial = {1, 2}
  Reviews <- MCReviews
  Page = 2
  CommentPage = 1
  Threshold = 1
  MaxHead = 1
  MaxEvents = 2
  MaxKills = 1
INVARIANTS EvidenceOnce SettledStaysSettled JudgedOnEvidence MergedOnCleanReview
CHECK_DEADLOCK FALSE
