SPECIFICATION RowsSpec
CONSTANTS
  Durable = TRUE
  Calls = {c1, c2}
  Approvals = {a1, a2}
  MaxTurns = 1
  MaxSteps = 2
  MaxRetries = 2
  MaxOrphans = 1
  call = call
  approval = approval
SYMMETRY Symmetry
INVARIANTS
  BoundariesCloseClean
  BracketOwnsQuietTurnInBoth
  RefusedCallNeverSucceeds
  RetryOwnsSlot
  OverflowNeedsReplacement
  CrashedLogResumes
  CreditsBalance
  ViewTellsLog
PROPERTIES
  BracketIsolated
CHECK_DEADLOCK FALSE
