SPECIFICATION ToolsSpec
CONSTANTS
  c1 = c1
  c2 = c2
  m1 = m1
  m2 = m2
  NoCall = NoCall
  User = User
  Nobody = Nobody
  Claims = {c1, c2}
  Durable = TRUE
  MaxEvents = 4
  MaxBytes = 5
  MaxSize = 2
  Calls = {c1, c2}
  QueueCap = 1
  MaxLines = 1
  MaxPid = 2
  MaxWraps = 1
  MaxHiccups = 1
  Changes = {m1, m2}
  MaxEdits = 2
INVARIANTS
  AnswersTellEffect
  OutputIsTold
  LedgerInv
  FallbackAlwaysFits
PROPERTIES
  IrreversibleResultKept
  RetiredAfterSync
  ToolsSettle
CHECK_DEADLOCK FALSE
