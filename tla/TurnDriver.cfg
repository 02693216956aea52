SPECIFICATION BothSpec
CONSTANTS
  Durable = TRUE
  Calls = {c1}
  Approvals = {}
  MaxSteps = 2
  MaxAttempts = 3
  MaxRetries = 1
  MaxTurns = 2
  MaxOrphans = 1
CHECK_DEADLOCK FALSE
INVARIANTS
  OpenIsClosed
PROPERTIES
  LogFollowsGrammarInBoth
  DispatchIsSound
  FailureNeverHiddenInBoth
