SPECIFICATION Spec
CONSTANTS
  PRs = {1, 2, 3}
  Repo <- MCRepo
  Toolchain = {1}
  Bumps = {2}
  Trivial = {1, 2}
  Reviews <- MCHeaded
  Page = 2
  CommentPage = 1
  Threshold = 1
  MaxHead = 1
  MaxEvents = 2
  MaxKills = 1
INVARIANT UnknownShapeBlocks
CHECK_DEADLOCK FALSE
