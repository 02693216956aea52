SPECIFICATION Spec
INVARIANTS
  BoundaryIsFresh
CHECK_DEADLOCK FALSE
