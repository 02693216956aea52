SPECIFICATION Spec
INVARIANTS
  DegradedTextIsCopyable
CHECK_DEADLOCK FALSE
