SPECIFICATION Spec
CONSTANTS
  Calls = {c1, c2}
  NoCall = NoCall
  QueueCap = 1
  MaxLines = 1
INVARIANT DispatchedWasWritten
CHECK_DEADLOCK FALSE
