CONSTANTS
  Workers = {w1, w2}
  None = None
SPECIFICATION Spec
INVARIANT MutualExclusion
CHECK_DEADLOCK FALSE
