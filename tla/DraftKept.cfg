SPECIFICATION FrontSpec
CONSTANTS
  q1 = q1
  q2 = q2
  Questions <- Asked
  Exits <- TwoExits
  MaxTurns = 2
  MaxMoves = 2
  Size <- Sizes
  MaxIds = 3
  MaxQueueItems = 2
  MaxQueueBytes = 3
  MaxHistoryItems = 2
  MaxHistoryBytes = 2
INVARIANTS
  DraftSurvives
CHECK_DEADLOCK FALSE
