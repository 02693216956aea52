SPECIFICATION BothSpec
CONSTANTS
  Durable = TRUE
  Calls = {c1, c2}
  Approvals = {a1, a2}
CHECK_DEADLOCK FALSE
INVARIANTS
  EffectAnsweredTruthfully
  RoundEndsCleanInBoth
PROPERTIES
  EffectIsAuthorised
  LogFollowsGrammarInBoth
  RoundReturns
