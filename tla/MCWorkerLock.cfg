CONSTANTS
  Workers = {w1, w2, w3, w4}
  None = None
SPECIFICATION Spec
SYMMETRY Symmetry
INVARIANTS ExclusiveUnlessRaced AloneAcquires
CHECK_DEADLOCK FALSE
