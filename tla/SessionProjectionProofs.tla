------------------------ MODULE SessionProjectionProofs ------------------------
(***************************************************************************)
(* Proofs about SessionProjection: in every log the grammar accepts, of    *)
(* any length, with any calls, approvals, turns and retries and under both *)
(* validation policies, the boundary, the provider attempt, the calls, the *)
(* approvals, the retries and the compaction bracket stay consistent.      *)
(* None of the properties is inductive alone; Consistent is.               *)
(***************************************************************************)
EXTENDS SessionProjection, FiniteSetTheorems, TLAPS

-----------------------------------------------------------------------------
(* The inductive invariant, by the part of the log each conjunct is about. *)

\* A waiting marker still has room among the orphans.
MarkerHasRoom == log.orphans + (IF log.marker = "none" THEN 0 ELSE 1) <= MaxOrphans

\* The attempt fold and the boundary are two machines: an attempt exists only
\* inside an open step, and a durable step always owns one.
AttemptOwnedByStep ==
  /\ log.attempt # "outside" => log.step # 0
  /\ Durable /\ log.step # 0 => log.attempt # "outside"
  /\ log.step # 0 => log.turn # 0

\* A step with calls has its assistant message: no attempt follows in it.
CallsFollowCommit == log.order # <<>> => log.attempt = "committed"

\* The declared calls are known, each once, and start in declaration order.
CallsInOrder ==
  Durable =>
    \A i, j \in DOMAIN log.order :
      /\ log.call[log.order[i]].stage # "absent"
      /\ i # j => log.order[i] # log.order[j]
      /\ i < j /\ log.call[log.order[i]].stage = "declared"
           => log.call[log.order[j]].stage = "declared"

\* Approvals are folded into the calls of a durable log only, and only into
\* calls that have started.
ApprovalsOfCalls ==
  \A c \in Calls :
    /\ log.call[c].approval # "none" =>
         Durable /\ log.call[c].stage \in {"started", "answered"}
    /\ log.call[c].approval = "pending" => log.call[c].stage = "started"

\* pending_approvals and the calls agree, and a durable log waits for one.
PendingAgrees ==
  Durable =>
    /\ \A a, b \in log.asked : a = b
    /\ \A c, d \in Calls :
         log.call[c].approval = "pending" /\ log.call[d].approval = "pending" => c = d
    /\ log.asked = {} <=> \A c \in Calls : log.call[c].approval # "pending"

\* An open bracket finds the attempt at rest.
BracketAtRest == log.compaction # "none" => log.attempt \in {"outside", "ready"}

\* Retries are scheduled for steps that have begun, and numbered by how many
\* the step has had.
RetriesNumbered ==
  /\ IsFiniteSet(log.scheduled)
  /\ \A t \in Turns, s \in Steps, n \in 1..MaxRetries :
       <<t, s, n>> \in log.scheduled =>
         /\ t < log.nextTurn \/ t = log.turn
         /\ t = log.turn => s < log.nextStep \/ s = log.step
         /\ n <= Cardinality(RetriesOf(log, t, s))

\* The step being retried waits for one retry only.
OneRetryWaits ==
  Durable =>
    \A n, m \in 1..MaxRetries :
      /\ <<log.turn, log.step, n>> \in log.scheduled \ log.started
      /\ <<log.turn, log.step, m>> \in log.scheduled \ log.started
      => n = m

\* The open ids are those being counted to.
OpenIdsCounted ==
  /\ log.turn # 0 => log.turn = log.nextTurn
  /\ log.step # 0 => log.step = log.nextStep

\* The boundary with its attempt and bracket; the calls with their approvals;
\* the retries.
BoundaryConsistent ==
  /\ OpenIdsCounted /\ AttemptOwnedByStep /\ BoundariesCloseClean
  /\ BracketOwnsQuietTurn /\ BracketAtRest /\ OverflowNeedsReplacement
CallsConsistent ==
  /\ CallsFollowCommit /\ CallsInOrder /\ ApprovalsOfCalls /\ PendingAgrees
  /\ RefusedCallNeverSucceeds
RetriesConsistent == RetriesNumbered /\ OneRetryWaits /\ RetryOwnsSlot

Consistent ==
  /\ TypeOK /\ MarkerHasRoom
  /\ BoundaryConsistent /\ CallsConsistent /\ RetriesConsistent

-----------------------------------------------------------------------------

\* The parts of the fold that rows change together.
IdsOf(l) == <<l.turn, l.nextTurn, l.step, l.nextStep>>
AttemptOf(l) == <<l.attempt, l.finish, l.overflow>>
CallsOf(l) == <<l.order, l.call>>
AsksOf(l) == <<l.asked, l.owned>>
ChainsOf(l) == <<l.scheduled, l.started>>
BracketOf(l) == <<l.compaction, l.owner>>
MarkerOf(l) == <<l.marker, l.orphans>>

\* apply_prune_adjacency touches the marker and the orphans only.
LEMMA RowFacts ==
  ASSUME TypeOK, MarkerHasRoom
  PROVE  /\ Row(log) \in Logs
         /\ MarkerOf(Row(log)) = <<"none", log.orphans + (IF log.marker = "none" THEN 0 ELSE 1)>>
         /\ IdsOf(Row(log)) = IdsOf(log) /\ AttemptOf(Row(log)) = AttemptOf(log)
         /\ CallsOf(Row(log)) = CallsOf(log) /\ AsksOf(Row(log)) = AsksOf(log)
         /\ ChainsOf(Row(log)) = ChainsOf(log) /\ BracketOf(Row(log)) = BracketOf(log)
         /\ Row(log).results = log.results
<1> DEFINE n == log.orphans + (IF log.marker = "none" THEN 0 ELSE 1)
           r == [log EXCEPT !.marker = "none", !.orphans = n]
<1>1. Row(log) = r
  BY DEF Row
<1>2. n \in 0..MaxOrphans
  BY LogBounds DEF TypeOK, Logs, MarkerHasRoom
<1>3. log \in Logs
  BY DEF TypeOK
<1> HIDE DEF n
<1>4. r \in Logs
  BY <1>2, <1>3 DEF Logs
<1>5. /\ MarkerOf(r) = <<"none", n>>
      /\ IdsOf(r) = IdsOf(log) /\ AttemptOf(r) = AttemptOf(log)
      /\ CallsOf(r) = CallsOf(log) /\ AsksOf(r) = AsksOf(log)
      /\ ChainsOf(r) = ChainsOf(log) /\ BracketOf(r) = BracketOf(log)
      /\ r.results = log.results
  BY <1>2, <1>3 DEF Logs, IdsOf, AttemptOf, CallsOf, AsksOf, ChainsOf, BracketOf, MarkerOf
<1> QED
  BY <1>1, <1>4, <1>5 DEF n

USE DEF Free, NoMarker, InStep

\* The values a row carries are values of the fold.
LEMMA IdFacts ==
  /\ {MaxTurns, MaxSteps, MaxRetries, MaxOrphans} \subseteq Nat
  /\ 0 \in 0..MaxTurns /\ 0 \in 0..MaxSteps /\ 1 \in 1..(MaxSteps + 1)
  /\ \A t \in Turns : t \in 0..MaxTurns /\ t + 1 \in 1..(MaxTurns + 1) /\ t # 0
  /\ \A s \in Steps : s \in 0..MaxSteps /\ s + 1 \in 1..(MaxSteps + 1) /\ s # 0
BY LogBounds DEF Turns, Steps

\* The states and outcomes are pairwise different strings.
LEMMA AttemptFacts ==
  /\ OpenAttempt = {"streaming", "finished", "sealed"}
  /\ ClosedAttempt = {"ready", "retryScheduled", "committed"}
  /\ Failures = {"error", "overflow"}
  /\ Outcomes = {"allowed", "rejected", "cancelled", "unavailable"}
BY DEF OpenAttempt, ClosedAttempt, Failures, Outcomes

\* The reopened slot is a state of the attempt.
LEMMA ReadyIsAttempt == "ready" \in {"outside"} \cup OpenAttempt \cup ClosedAttempt
BY AttemptFacts

\* No declarations is an order of calls.
LEMMA NoOrder == <<>> \in Seq(Calls)
OBVIOUS

\* Every change a row makes to a call leaves a call state.
LEMMA CallFacts ==
  /\ NoCall \in CallStates /\ NoCalls \in [Calls -> CallStates]
  /\ [NoCall EXCEPT !.stage = "declared"] \in CallStates
  /\ \A x \in CallStates :
       /\ [x EXCEPT !.stage = "started"] \in CallStates
       /\ \A o \in {"none", "pending"} \cup Outcomes : [x EXCEPT !.approval = o] \in CallStates
       /\ \A code \in Codes : [x EXCEPT !.stage = "answered", !.result = code] \in CallStates
BY DEF CallStates, NoCall, NoCalls

\* Every row leaves a fold of the right type.
LEMMA FoldTyped ==
  ASSUME TypeOK, MarkerHasRoom, Next
  PROVE  log' \in Logs
<1>1. PICK r \in Logs : r = Row(log)
  BY RowFacts
<1>2. PICK l \in Logs : l = log
  BY DEF TypeOK
<1>3. CASE TurnStart
  <2>1. PICK t \in Turns : log' = AfterTurnStart(log, t)
    BY <1>3 DEF TurnStart
  <2>2. [r EXCEPT !.turn = t, !.step = 0, !.nextStep = 1] \in Logs
    BY IdFacts DEF Logs
  <2> QED
    BY <1>1, <2>1, <2>2 DEF AfterTurnStart
<1>4. CASE TurnEnd
  <2>1. PICK t \in Turns : log' = AfterTurnEnd(log, t)
    BY <1>4 DEF TurnEnd
  <2>2. [r EXCEPT !.turn = 0, !.nextTurn = t + 1] \in Logs
    BY IdFacts DEF Logs
  <2> QED
    BY <1>1, <2>1, <2>2 DEF AfterTurnEnd
<1>5. CASE StepStart
  <2>1. PICK s \in Steps : log' = AfterStepStart(log, s)
    BY <1>5 DEF StepStart
  <2>2. PICK slot \in {r.attempt, "ready"} :
          slot = IF Durable THEN "ready" ELSE r.attempt
    OBVIOUS
  <2>3. slot \in {"outside"} \cup OpenAttempt \cup ClosedAttempt
    BY <2>2, AttemptFacts DEF Logs
  <2>4. [r EXCEPT !.step = s, !.order = <<>>, !.call = NoCalls, !.attempt = slot] \in Logs
    BY <2>3, IdFacts, CallFacts, NoOrder DEF Logs
  <2> QED
    BY <1>1, <2>1, <2>2, <2>4 DEF AfterStepStart
<1>6. CASE StepEnd
  <2>1. PICK s \in Steps : log' = AfterStepEnd(log, s)
    BY <1>6 DEF StepEnd
  <2>2. s + 1 \in 1..(MaxSteps + 1) /\ 0 \in 0..MaxSteps
    BY IdFacts
  <2>3. [r EXCEPT !.step = 0, !.nextStep = s + 1, !.order = <<>>, !.call = NoCalls,
                  !.attempt = "outside", !.finish = "none", !.overflow = "unused"] \in Logs
    BY <2>2, CallFacts, NoOrder DEF Logs
  <2> QED
    BY <1>1, <2>1, <2>3 DEF AfterStepEnd
<1>7. CASE Note
  BY <1>1, <1>7 DEF Note, AfterNote
<1>8. CASE Dispatch
  <2>1. [l EXCEPT !.attempt = "streaming", !.finish = "none"] \in Logs
    BY DEF Logs, OpenAttempt
  <2> QED
    BY <1>2, <1>8, <2>1 DEF Dispatch, AfterDispatch
<1>9. CASE Chunk
  <2>1. PICK finish \in {"more", "ok"} \cup Failures, owned \in BOOLEAN :
          log' = AfterChunk(log, finish, owned)
    BY <1>9 DEF Chunk
  <2>2. [r EXCEPT !.attempt = "streaming"] \in Logs
    BY DEF Logs, OpenAttempt
  <2>3. finish # "more" => [r EXCEPT !.attempt = "finished", !.finish = finish] \in Logs
    BY DEF Logs, OpenAttempt, Failures
  <2> QED
    BY <1>1, <2>1, <2>2, <2>3 DEF AfterChunk
<1>10. CASE Seal
  <2>1. [l EXCEPT !.attempt = "sealed"] \in Logs
    BY DEF Logs, OpenAttempt
  <2> QED
    BY <1>2, <1>10, <2>1 DEF Seal, AfterSeal
<1>11. CASE AssistantMessage
  <2>1. PICK calls \in CallLists, owned \in BOOLEAN : log' = AfterAssistant(log, calls, owned)
    BY <1>11 DEF AssistantMessage
  <2>2. Declared(log, calls) \in [Calls -> CallStates]
    BY <1>2, CallFacts DEF Declared, Logs
  <2>3. calls \in Seq(Calls) /\ r.order \in Seq(Calls)
    BY SMTT(40) DEF CallLists, Logs
  <2>4. PICK o \in Seq(Calls) : o = IF Durable THEN r.order \o calls ELSE r.order
    <3>1. r.order \o calls \in Seq(Calls)
      BY <2>3
    <3> QED
      BY <2>3, <3>1
  <2>5. PICK d \in [Calls -> CallStates] :
          d = IF Durable THEN Declared(log, calls) ELSE r.call
    BY <2>2 DEF Logs
  <2>6. PICK slot \in {r.attempt, "committed"} :
          slot = IF owned THEN "committed" ELSE r.attempt
    OBVIOUS
  <2>7. slot \in {"outside"} \cup OpenAttempt \cup ClosedAttempt
    BY <2>6, AttemptFacts DEF Logs
  <2>8. [r EXCEPT !.attempt = slot, !.order = o, !.call = d] \in Logs
    BY <2>7 DEF Logs
  <2> QED
    BY <1>1, <2>1, <2>4, <2>5, <2>6, <2>8 DEF AfterAssistant
<1>12. CASE LlmRetry
  <2>1. PICK t \in Turns, s \in Steps, n \in 1..MaxRetries, owned \in BOOLEAN :
          log' = AfterRetry(log, t, s, n, owned)
    BY <1>12 DEF LlmRetry
  <2>2. PICK chain \in SUBSET (Turns \X Steps \X (1..MaxRetries)) :
          chain = r.scheduled \cup {<<t, s, n>>}
    <3>1. r.scheduled \cup {<<t, s, n>>} \in SUBSET (Turns \X Steps \X (1..MaxRetries))
      BY DEF Logs
    <3> QED
      BY <3>1
  <2>3. PICK slot \in {r.attempt, "retryScheduled"} :
          slot = IF owned THEN "retryScheduled" ELSE r.attempt
    OBVIOUS
  <2>4. slot \in {"outside"} \cup OpenAttempt \cup ClosedAttempt
    BY <2>3, AttemptFacts DEF Logs
  <2>5. [r EXCEPT !.attempt = slot, !.scheduled = chain] \in Logs
    BY <2>4 DEF Logs
  <2> QED
    BY <1>1, <2>1, <2>2, <2>3, <2>5 DEF AfterRetry
<1>13. CASE LlmRetryStarted
  <2>1. PICK t \in Turns, s \in Steps, n \in 1..MaxRetries :
          log' = AfterRetryStarted(log, t, s, n)
    BY <1>13 DEF LlmRetryStarted
  <2>2. PICK chain \in SUBSET (Turns \X Steps \X (1..MaxRetries)) :
          chain = r.started \cup {<<t, s, n>>}
    <3>1. r.started \cup {<<t, s, n>>} \in SUBSET (Turns \X Steps \X (1..MaxRetries))
      BY DEF Logs
    <3> QED
      BY <3>1
  <2>3. PICK slot \in {l.attempt, "ready"} : slot = ReopenSlot(log, t, s)
    BY <1>2 DEF ReopenSlot
  <2>4. slot \in {"outside"} \cup OpenAttempt \cup ClosedAttempt
    BY <2>3, AttemptFacts DEF Logs
  <2>5. [r EXCEPT !.started = chain, !.attempt = slot] \in Logs
    BY <2>4 DEF Logs
  <2> QED
    BY <1>1, <2>1, <2>2, <2>3, <2>5 DEF AfterRetryStarted
<1>14. CASE ToolCall
  <2>1. PICK c \in Calls : log' = AfterToolCall(log, c)
    BY <1>14 DEF ToolCall
  <2>2. [r.call EXCEPT ![c].stage = "started"] \in [Calls -> CallStates]
    BY CallFacts DEF Logs
  <2>3. PICK d \in [Calls -> CallStates] : d = [r.call EXCEPT ![c].stage = "started"]
    BY <2>2
  <2>4. [r EXCEPT !.call = d] \in Logs
    BY DEF Logs
  <2> QED
    BY <1>1, <2>1, <2>3, <2>4 DEF AfterToolCall
<1>15. CASE ApprovalAsked
  <2>1. PICK a \in Approvals, c \in Calls : log' = AfterAsk(log, a, c)
    BY <1>15 DEF ApprovalAsked
  <2>2. [r.call EXCEPT ![c].approval = IF Durable THEN "pending" ELSE @]
          \in [Calls -> CallStates]
    <3>1. r.call \in [Calls -> CallStates] /\ r.call[c] \in CallStates
      BY DEF Logs
    <3>2. CASE Durable
      BY <3>1, <3>2, CallFacts
    <3>3. CASE ~Durable
      BY <3>1, <3>3 DEF CallStates
    <3> QED
      BY <3>2, <3>3
  <2>3. PICK d \in [Calls -> CallStates] :
          d = [r.call EXCEPT ![c].approval = IF Durable THEN "pending" ELSE @]
    BY <2>2
  <2>4. r.asked \cup {a} \in SUBSET Approvals /\ r.owned \cup {a} \in SUBSET Approvals
    BY DEF Logs
  <2>5. PICK waiting \in SUBSET Approvals, known \in SUBSET Approvals :
          waiting = r.asked \cup {a} /\ known = r.owned \cup {a}
    BY <2>4
  <2>6. [r EXCEPT !.asked = waiting, !.owned = known, !.call = d] \in Logs
    BY DEF Logs
  <2> QED
    BY <1>1, <2>1, <2>3, <2>5, <2>6 DEF AfterAsk
<1>16. CASE ApprovalDecided
  <2>1. PICK a \in Approvals, outcome \in Outcomes : log' = AfterDecide(log, a, outcome)
    BY <1>16 DEF ApprovalDecided
  <2> DEFINE decided == [c \in Calls |-> IF l.call[c].approval = "pending"
                                         THEN [l.call[c] EXCEPT !.approval = outcome]
                                         ELSE l.call[c]]
  <2>2. decided \in [Calls -> CallStates]
    BY CallFacts DEF Logs
  <2>3. PICK d \in [Calls -> CallStates] : d = decided
    BY <2>2
  <2>4. PICK waiting \in SUBSET Approvals : waiting = r.asked \ {a}
    <3>1. r.asked \ {a} \in SUBSET Approvals
      BY DEF Logs
    <3> QED
      BY <3>1
  <2>5. [r EXCEPT !.asked = waiting, !.call = d] \in Logs
    BY DEF Logs
  <2> QED
    BY <1>1, <1>2, <2>1, <2>3, <2>4, <2>5 DEF AfterDecide
<1>17. CASE ToolResult
  <2>1. PICK c \in Calls, code \in Codes : log' = AfterToolResult(log, c, code)
    BY <1>17 DEF ToolResult
  <2> DEFINE resolved == [r.call EXCEPT ![c] =
                            IF Durable THEN [@ EXCEPT !.stage = "answered", !.result = code]
                            ELSE NoCall]
  <2>2. resolved \in [Calls -> CallStates]
    <3>1. r.call \in [Calls -> CallStates] /\ r.call[c] \in CallStates
      BY DEF Logs
    <3> QED
      BY <3>1, CallFacts
  <2>3. PICK d \in [Calls -> CallStates] : d = resolved
    BY <2>2
  <2>4. PICK shown \in SUBSET Calls : shown = r.results \cup {c}
    <3>1. r.results \cup {c} \in SUBSET Calls
      BY DEF Logs
    <3> QED
      BY <3>1
  <2>5. [r EXCEPT !.call = d, !.results = shown] \in Logs
    BY DEF Logs
  <2> QED
    BY <1>1, <2>1, <2>3, <2>4, <2>5 DEF AfterToolResult
<1>18. CASE CompactionPrune
  <2>1. PICK c \in Calls, closes \in BOOLEAN : log' = AfterPrune(log, c, closes)
    BY <1>18 DEF CompactionPrune
  <2>2. [r EXCEPT !.marker = c, !.attempt = "ready", !.overflow = "waiting"] \in Logs
    BY ReadyIsAttempt DEF Logs
  <2>3. [r EXCEPT !.marker = c, !.attempt = r.attempt, !.overflow = r.overflow] \in Logs
    BY DEF Logs
  <2> QED
    BY <1>1, <2>1, <2>2, <2>3 DEF AfterPrune
<1>19. CASE Rewrite
  <2>1. log' = AfterRewrite(log)
    BY <1>19 DEF Rewrite
  <2>2. PICK next \in {l.overflow, "replaced"} :
          next = IF l.marker = "none" THEN l.overflow ELSE Progress(l)
    BY DEF Progress
  <2>3. [l EXCEPT !.marker = "none", !.overflow = next] \in Logs
    BY DEF Logs
  <2> QED
    BY <1>2, <2>1, <2>2, <2>3 DEF AfterRewrite
<1>20. CASE CompactionStart
  <2>1. PICK owner \in 0..MaxTurns, closes \in BOOLEAN :
          log' = AfterCompactionStart(log, owner, closes)
    BY <1>20 DEF CompactionStart
  <2>2. [r EXCEPT !.compaction = "started", !.owner = owner,
                  !.attempt = "ready", !.overflow = "waiting"] \in Logs
    BY ReadyIsAttempt DEF Logs
  <2>3. [r EXCEPT !.compaction = "started", !.owner = owner,
                  !.attempt = r.attempt, !.overflow = r.overflow] \in Logs
    BY DEF Logs
  <2> QED
    BY <1>1, <2>1, <2>2, <2>3 DEF AfterCompactionStart
<1>21. CASE CompactionSummary
  <2>1. [r EXCEPT !.compaction = "summarized"] \in Logs
    BY DEF Logs
  <2> QED
    BY <1>1, <1>21, <2>1 DEF CompactionSummary, AfterSummary
<1>22. CASE Checkpoint
  <2>1. PICK shadowed \in SUBSET log.results : log' = AfterCheckpoint(log, shadowed)
    BY <1>22 DEF Checkpoint
  <2>2. PICK next \in {l.overflow, "replaced"} : next = Progress(log)
    BY <1>2 DEF Progress
  <2>3. PICK shown \in SUBSET Calls : shown = r.results \ shadowed
    <3>1. r.results \ shadowed \in SUBSET Calls
      BY DEF Logs
    <3> QED
      BY <3>1
  <2>4. [r EXCEPT !.compaction = "replaced", !.overflow = next, !.results = shown] \in Logs
    BY DEF Logs
  <2> QED
    BY <1>1, <2>1, <2>2, <2>3, <2>4 DEF AfterCheckpoint
<1>23. CASE CompactionEnd
  <2>1. [r EXCEPT !.compaction = "none", !.owner = 0] \in Logs
    BY IdFacts DEF Logs
  <2> QED
    BY <1>1, <1>23, <2>1 DEF CompactionEnd, AfterCompactionEnd
<1> QED
  BY <1>3, <1>4, <1>5, <1>6, <1>7, <1>8, <1>9, <1>10, <1>11, <1>12, <1>13, <1>14,
     <1>15, <1>16, <1>17, <1>18, <1>19, <1>20, <1>21, <1>22, <1>23 DEF Next

-----------------------------------------------------------------------------
(* When a row leaves a part of the invariant alone.                        *)

\* A row other than a marker or its rewrite leaves room for the next orphan.
LEMMA MarkerFrame ==
  ASSUME TypeOK, MarkerHasRoom, MarkerOf(log') = MarkerOf(Row(log))
  PROVE  MarkerHasRoom'
<1> DEFINE n == log.orphans + (IF log.marker = "none" THEN 0 ELSE 1)
<1>1. log'.marker = "none" /\ log'.orphans = n
  BY RowFacts DEF MarkerOf
<1>2. n <= MaxOrphans /\ n \in Nat
  BY LogBounds DEF MarkerHasRoom, TypeOK, Logs
<1> HIDE DEF n
<1> QED
  BY <1>1, <1>2 DEF MarkerHasRoom

\* Neither the boundary nor the attempt moves; calls and approvals stay, or
\* move outside a bracket and inside the boundary that owns them.
LEMMA BoundaryStays ==
  ASSUME BoundaryConsistent, IdsOf(log') = IdsOf(log), AttemptOf(log') = AttemptOf(log),
         BracketOf(log') = BracketOf(log), log'.call = log.call, log'.asked = log.asked
  PROVE  BoundaryConsistent'
BY DEF BoundaryConsistent, IdsOf, AttemptOf, BracketOf, OpenIdsCounted, AttemptOwnedByStep,
       BoundariesCloseClean, BracketOwnsQuietTurn, BracketAtRest, OverflowNeedsReplacement

\* The same, for rows about calls and approvals outside a bracket.
LEMMA BoundaryFrame ==
  ASSUME BoundaryConsistent, IdsOf(log') = IdsOf(log), AttemptOf(log') = AttemptOf(log),
         BracketOf(log') = BracketOf(log), Free(log),
         log.turn = 0 => log'.asked = {}, Durable /\ log.step = 0 => log'.asked = {}
  PROVE  BoundaryConsistent'
BY DEF BoundaryConsistent, IdsOf, AttemptOf, BracketOf, OpenIdsCounted, AttemptOwnedByStep,
       BoundariesCloseClean, BracketOwnsQuietTurn, BracketAtRest, OverflowNeedsReplacement

\* The calls and the approvals stay.
LEMMA CallsFrame ==
  ASSUME CallsConsistent, CallsOf(log') = CallsOf(log), log'.asked = log.asked,
         log.order # <<>> => log'.attempt = "committed"
  PROVE  CallsConsistent'
BY DEF CallsConsistent, CallsOf, CallsFollowCommit, CallsInOrder,
       ApprovalsOfCalls, PendingAgrees, RefusedCallNeverSucceeds

\* The retries, the ids and the slot stay.
LEMMA RetriesFrame ==
  ASSUME RetriesConsistent, ChainsOf(log') = ChainsOf(log), IdsOf(log') = IdsOf(log),
         log'.attempt = "retryScheduled" <=> log.attempt = "retryScheduled"
  PROVE  RetriesConsistent'
BY DEF RetriesConsistent, ChainsOf, IdsOf, RetriesNumbered, RetriesOf, OneRetryWaits, RetryOwnsSlot

\* A retry names a turn and a step, so none belongs to a closed boundary.
LEMMA RetriesNameSteps ==
  ASSUME TypeOK, NEW t, NEW s, NEW n, <<t, s, n>> \in log.scheduled
  PROVE  t \in Turns /\ s \in Steps /\ n \in 1..MaxRetries /\ t # 0 /\ s # 0
<1>1. log.scheduled \in SUBSET (Turns \X Steps \X (1..MaxRetries))
  BY DEF TypeOK, Logs
<1>2. t \in Turns /\ s \in Steps /\ n \in 1..MaxRetries
  BY <1>1
<1> QED
  BY <1>2, IdFacts

\* Nothing waits when no retry names the open step.
LEMMA NoRetryWaits ==
  ASSUME TypeOK, ChainsOf(log') = ChainsOf(log), log'.attempt # "retryScheduled",
         \A n \in 1..MaxRetries : <<log'.turn, log'.step, n>> \notin log.scheduled
  PROVE  OneRetryWaits' /\ RetryOwnsSlot'
BY DEF ChainsOf, OneRetryWaits, RetryOwnsSlot

\* log' is typed once its marker has room and its subsets are kept.
LEMMA TypeStep ==
  ASSUME Consistent, Next, MarkerHasRoom',
         log'.asked \subseteq log'.owned, log'.started \subseteq log'.scheduled
  PROVE  TypeOK' /\ MarkerHasRoom'
BY FoldTyped DEF TypeOK, Consistent

-----------------------------------------------------------------------------
(* One lemma per row.                                                      *)

\* The parts of the invariant, and the fold as a typed record.
LEMMA Parts ==
  ASSUME Consistent
  PROVE  /\ TypeOK /\ MarkerHasRoom /\ BoundaryConsistent /\ CallsConsistent /\ RetriesConsistent
         /\ log.asked \subseteq log.owned /\ log.started \subseteq log.scheduled
         /\ Row(log) \in Logs /\ log \in Logs
BY RowFacts DEF Consistent, TypeOK

USE DEF IdsOf, AttemptOf, CallsOf, AsksOf, ChainsOf, BracketOf

\* turn/start: no retry names the new turn yet.
LEMMA TurnStartStep ==
  ASSUME Consistent, TurnStart
  PROVE  Consistent'
<1>1. PICK t \in Turns : CanTurnStart(log, t) /\ log' = AfterTurnStart(log, t)
  BY DEF TurnStart
<1>2. PICK r \in Logs : r = Row(log)
  BY Parts
<1>3. /\ log'.turn = t /\ log'.step = 0 /\ log'.nextStep = 1 /\ log'.nextTurn = r.nextTurn
      /\ AttemptOf(log') = AttemptOf(r) /\ CallsOf(log') = CallsOf(r)
      /\ AsksOf(log') = AsksOf(r) /\ ChainsOf(log') = ChainsOf(r)
      /\ BracketOf(log') = BracketOf(r) /\ MarkerOf(log') = MarkerOf(r)
  BY <1>1, <1>2 DEF AfterTurnStart, Logs, MarkerOf
<1>4. /\ log'.turn = t /\ log'.step = 0 /\ log'.nextStep = 1 /\ log'.nextTurn = log.nextTurn
      /\ AttemptOf(log') = AttemptOf(log) /\ CallsOf(log') = CallsOf(log)
      /\ AsksOf(log') = AsksOf(log) /\ ChainsOf(log') = ChainsOf(log)
      /\ BracketOf(log') = BracketOf(log)
  BY <1>2, <1>3, RowFacts, Parts
<1>5. TypeOK' /\ MarkerHasRoom'
  BY <1>2, <1>3, <1>4, TypeStep, MarkerFrame, Parts DEF Next
<1>6. BoundaryConsistent'
  BY <1>1, <1>4, IdFacts, Parts DEF BoundaryConsistent, CanTurnStart, OpenIdsCounted,
     AttemptOwnedByStep, BoundariesCloseClean, BracketAtRest, BracketOwnsQuietTurn,
     OverflowNeedsReplacement
<1>7. CallsConsistent'
  BY <1>4, CallsFrame, Parts DEF CallsConsistent, CallsFollowCommit
<1>8. OneRetryWaits' /\ RetryOwnsSlot'
  <2>1. log.attempt = "outside"
    BY <1>1, Parts DEF CanTurnStart, BoundaryConsistent, AttemptOwnedByStep
  <2>2. \A n \in 1..MaxRetries : <<t, 0, n>> \notin log.scheduled
    BY RetriesNameSteps, Parts
  <2> QED
    BY <1>4, <2>1, <2>2, NoRetryWaits, Parts
<1>9. RetriesNumbered'
  <2>1. \A x, y, n : <<x, y, n>> \in log.scheduled => x # 0
    BY RetriesNameSteps, Parts
  <2>2. \A x \in Turns : x < t => x # t
    BY IdFacts DEF Turns
  <2> QED
    BY <1>1, <1>4, <2>1, <2>2, Parts DEF CanTurnStart, RetriesConsistent, RetriesNumbered, RetriesOf
<1> QED
  BY <1>5, <1>6, <1>7, <1>8, <1>9 DEF Consistent, RetriesConsistent

\* turn/end: every retry of the turn is now one of an older turn.
LEMMA TurnEndStep ==
  ASSUME Consistent, TurnEnd
  PROVE  Consistent'
<1>1. PICK t \in Turns, reason \in {"normal", "interrupted"} :
        CanTurnEnd(log, t, reason) /\ log' = AfterTurnEnd(log, t)
  BY DEF TurnEnd
<1>2. PICK r \in Logs : r = Row(log)
  BY Parts
<1>3. /\ log'.turn = 0 /\ log'.nextTurn = t + 1
      /\ log'.step = r.step /\ log'.nextStep = r.nextStep
      /\ AttemptOf(log') = AttemptOf(r) /\ CallsOf(log') = CallsOf(r)
      /\ AsksOf(log') = AsksOf(r) /\ ChainsOf(log') = ChainsOf(r)
      /\ BracketOf(log') = BracketOf(r) /\ MarkerOf(log') = MarkerOf(r)
  BY <1>1, <1>2 DEF AfterTurnEnd, Logs, MarkerOf
<1>4. /\ log'.turn = 0 /\ log'.nextTurn = t + 1
      /\ log'.step = log.step /\ log'.nextStep = log.nextStep
      /\ AttemptOf(log') = AttemptOf(log) /\ CallsOf(log') = CallsOf(log)
      /\ AsksOf(log') = AsksOf(log) /\ ChainsOf(log') = ChainsOf(log)
      /\ BracketOf(log') = BracketOf(log)
  BY <1>2, <1>3, RowFacts, Parts
<1>5. TypeOK' /\ MarkerHasRoom'
  BY <1>2, <1>3, <1>4, TypeStep, MarkerFrame, Parts DEF Next
<1>6. BoundaryConsistent'
  BY <1>1, <1>4, IdFacts, Parts DEF BoundaryConsistent, CanTurnEnd, OpenIdsCounted,
     AttemptOwnedByStep, BoundariesCloseClean, BracketAtRest, BracketOwnsQuietTurn,
     OverflowNeedsReplacement
<1>7. CallsConsistent'
  BY <1>4, CallsFrame, Parts DEF CallsConsistent, CallsFollowCommit
<1>8. OneRetryWaits' /\ RetryOwnsSlot'
  <2>1. log.attempt = "outside"
    BY <1>1, Parts DEF CanTurnEnd, BoundaryConsistent, AttemptOwnedByStep
  <2>2. \A n \in 1..MaxRetries : <<0, log.step, n>> \notin log.scheduled
    BY RetriesNameSteps, Parts
  <2> QED
    BY <1>4, <2>1, <2>2, NoRetryWaits, Parts
<1>9. RetriesNumbered'
  <2>1. \A x, y, n : <<x, y, n>> \in log.scheduled => x # 0
    BY RetriesNameSteps, Parts
  <2>2. \A x \in Turns : x < t \/ x = t => x < t + 1
    BY IdFacts DEF Turns
  <2>3. t = log.nextTurn /\ t = log.turn
    BY <1>1, Parts DEF CanTurnEnd, BoundaryConsistent, OpenIdsCounted
  <2> QED
    BY <1>4, <2>1, <2>2, <2>3, Parts DEF RetriesConsistent, RetriesNumbered, RetriesOf
<1> QED
  BY <1>5, <1>6, <1>7, <1>8, <1>9 DEF Consistent, RetriesConsistent

\* A new step has no calls yet and a step that ends forgets its own.
LEMMA NoCallsConsistent ==
  ASSUME log'.order = <<>>, log'.call = NoCalls, log'.asked = {}
  PROVE  CallsConsistent'
BY DEF CallsConsistent, CallsFollowCommit, CallsInOrder, ApprovalsOfCalls, PendingAgrees,
       RefusedCallNeverSucceeds, NoCalls, NoCall

\* step/start: no retry names the new step yet; it has no calls.
LEMMA StepStartStep ==
  ASSUME Consistent, StepStart
  PROVE  Consistent'
<1>1. PICK t \in Turns, s \in Steps : CanStepStart(log, t, s) /\ log' = AfterStepStart(log, s)
  BY DEF StepStart
<1>2. PICK r \in Logs : r = Row(log)
  BY Parts
<1>3. /\ log'.step = s /\ log'.nextStep = r.nextStep
      /\ log'.turn = r.turn /\ log'.nextTurn = r.nextTurn
      /\ log'.attempt = (IF Durable THEN "ready" ELSE r.attempt)
      /\ log'.finish = r.finish /\ log'.overflow = r.overflow
      /\ log'.order = <<>> /\ log'.call = NoCalls
      /\ AsksOf(log') = AsksOf(r) /\ ChainsOf(log') = ChainsOf(r)
      /\ BracketOf(log') = BracketOf(r) /\ MarkerOf(log') = MarkerOf(r)
  BY <1>1, <1>2 DEF AfterStepStart, Logs, MarkerOf
<1>4. /\ log'.step = s /\ log'.nextStep = log.nextStep
      /\ log'.turn = log.turn /\ log'.nextTurn = log.nextTurn
      /\ log'.attempt = (IF Durable THEN "ready" ELSE log.attempt)
      /\ log'.finish = log.finish /\ log'.overflow = log.overflow
      /\ log'.order = <<>> /\ log'.call = NoCalls
      /\ AsksOf(log') = AsksOf(log) /\ ChainsOf(log') = ChainsOf(log)
      /\ BracketOf(log') = BracketOf(log)
  BY <1>2, <1>3, RowFacts, Parts
<1>5. TypeOK' /\ MarkerHasRoom'
  BY <1>2, <1>3, <1>4, TypeStep, MarkerFrame, Parts DEF Next
<1>6. BoundaryConsistent'
  BY <1>1, <1>4, IdFacts, Parts DEF BoundaryConsistent, CanStepStart, OpenIdsCounted,
     AttemptOwnedByStep, BoundariesCloseClean, BracketAtRest, BracketOwnsQuietTurn,
     OverflowNeedsReplacement
<1>7. CallsConsistent'
  <2>1. CASE Durable
    <3>1. log'.asked = {}
      BY <1>1, <1>4, <2>1, Parts DEF CanStepStart, BoundaryConsistent, BoundariesCloseClean
    <3> QED
      BY <1>4, <3>1, NoCallsConsistent
  <2>2. CASE ~Durable
    BY <1>4, <2>2 DEF CallsConsistent, CallsFollowCommit, CallsInOrder, ApprovalsOfCalls,
       PendingAgrees, RefusedCallNeverSucceeds, NoCalls, NoCall
  <2> QED
    BY <2>1, <2>2
<1>8. OneRetryWaits' /\ RetryOwnsSlot'
  <2>1. log'.attempt # "retryScheduled"
    BY <1>1, <1>4 DEF CanStepStart
  <2>2. \A n \in 1..MaxRetries : <<t, s, n>> \notin log.scheduled
    <3> SUFFICES ASSUME NEW n \in 1..MaxRetries, <<t, s, n>> \in log.scheduled
                 PROVE  FALSE
      OBVIOUS
    <3>1. s < log.nextStep \/ s = log.step
      BY <1>1, Parts DEF CanStepStart, RetriesConsistent, RetriesNumbered
    <3> QED
      BY <1>1, <3>1, IdFacts DEF CanStepStart, Steps
  <2>3. log'.turn = t /\ log'.step = s
    BY <1>1, <1>4 DEF CanStepStart
  <2> QED
    BY <1>4, <2>1, <2>2, <2>3, NoRetryWaits, Parts
<1>9. RetriesNumbered'
  <2>1. \A x, y, n : <<x, y, n>> \in log.scheduled => y # 0
    BY RetriesNameSteps, Parts
  <2> QED
    BY <1>1, <1>4, <2>1, Parts DEF CanStepStart, RetriesConsistent, RetriesNumbered, RetriesOf
<1> QED
  BY <1>5, <1>6, <1>7, <1>8, <1>9 DEF Consistent, RetriesConsistent

\* step/end: the attempt, the calls and the overflow recovery end with it.
LEMMA StepEndStep ==
  ASSUME Consistent, StepEnd
  PROVE  Consistent'
<1>1. PICK t \in Turns, s \in Steps, disposition \in Dispositions \cup {"none"} :
        CanStepEnd(log, t, s, disposition) /\ log' = AfterStepEnd(log, s)
  BY DEF StepEnd
<1>2. PICK r \in Logs : r = Row(log)
  BY Parts
<1>3. /\ log'.step = 0 /\ log'.nextStep = s + 1
      /\ log'.turn = r.turn /\ log'.nextTurn = r.nextTurn
      /\ AttemptOf(log') = <<"outside", "none", "unused">>
      /\ log'.order = <<>> /\ log'.call = NoCalls
      /\ AsksOf(log') = AsksOf(r) /\ ChainsOf(log') = ChainsOf(r)
      /\ BracketOf(log') = BracketOf(r) /\ MarkerOf(log') = MarkerOf(r)
  BY <1>1, <1>2 DEF AfterStepEnd, Logs, MarkerOf
<1>4. /\ log'.step = 0 /\ log'.nextStep = s + 1
      /\ log'.turn = log.turn /\ log'.nextTurn = log.nextTurn
      /\ AttemptOf(log') = <<"outside", "none", "unused">>
      /\ log'.order = <<>> /\ log'.call = NoCalls
      /\ AsksOf(log') = AsksOf(log) /\ ChainsOf(log') = ChainsOf(log)
      /\ BracketOf(log') = BracketOf(log)
  BY <1>2, <1>3, RowFacts, Parts
<1>5. TypeOK' /\ MarkerHasRoom'
  BY <1>2, <1>3, <1>4, TypeStep, MarkerFrame, Parts DEF Next
<1>6. BoundaryConsistent'
  BY <1>1, <1>4, IdFacts, Parts DEF BoundaryConsistent, CanStepEnd, OpenIdsCounted,
     AttemptOwnedByStep, BoundariesCloseClean, BracketAtRest, BracketOwnsQuietTurn,
     OverflowNeedsReplacement
<1>7. CallsConsistent'
  BY <1>1, <1>4, NoCallsConsistent DEF CanStepEnd
<1>8. OneRetryWaits' /\ RetryOwnsSlot'
  <2>1. \A n \in 1..MaxRetries : <<log.turn, 0, n>> \notin log.scheduled
    BY RetriesNameSteps, Parts
  <2> QED
    BY <1>4, <2>1, NoRetryWaits, Parts
<1>9. RetriesNumbered'
  <2>1. \A x \in Steps : x < s \/ x = s => x < s + 1
    BY IdFacts DEF Steps
  <2>2. s = log.nextStep /\ s = log.step
    BY <1>1, Parts DEF CanStepEnd, BoundaryConsistent, OpenIdsCounted
  <2> QED
    BY <1>4, <2>1, <2>2, Parts DEF RetriesConsistent, RetriesNumbered, RetriesOf
<1> QED
  BY <1>5, <1>6, <1>7, <1>8, <1>9 DEF Consistent, RetriesConsistent

\* Rows that only settle a waiting marker.
LEMMA NoteStep ==
  ASSUME Consistent, Note
  PROVE  Consistent'
<1>1. log' = Row(log)
  BY DEF Note, AfterNote
<1>2. /\ IdsOf(log') = IdsOf(log) /\ AttemptOf(log') = AttemptOf(log)
      /\ CallsOf(log') = CallsOf(log) /\ AsksOf(log') = AsksOf(log)
      /\ ChainsOf(log') = ChainsOf(log) /\ BracketOf(log') = BracketOf(log)
  BY <1>1, RowFacts, Parts
<1>3. TypeOK' /\ MarkerHasRoom'
  BY <1>1, <1>2, TypeStep, MarkerFrame, Parts DEF Next
<1>4. BoundaryConsistent'
  BY <1>2, BoundaryStays, Parts
<1>5. CallsConsistent'
  BY <1>2, CallsFrame, Parts DEF CallsConsistent, CallsFollowCommit
<1>6. RetriesConsistent'
  BY <1>2, RetriesFrame, Parts
<1> QED
  BY <1>3, <1>4, <1>5, <1>6 DEF Consistent

\* An attempt that may still run has no calls: its step declared none yet.
LEMMA NoCallsYet ==
  ASSUME CallsConsistent, log.attempt # "committed"
  PROVE  log.order = <<>>
BY DEF CallsConsistent, CallsFollowCommit

\* The attempt of the open step moves, outside a bracket, and nothing else does.
LEMMA AttemptStep ==
  ASSUME BoundaryConsistent, CallsConsistent, RetriesConsistent,
         IdsOf(log') = IdsOf(log), CallsOf(log') = CallsOf(log),
         AsksOf(log') = AsksOf(log), ChainsOf(log') = ChainsOf(log),
         BracketOf(log') = BracketOf(log), log'.overflow = log.overflow,
         Free(log), log.step # 0,
         log.attempt \notin {"committed", "retryScheduled"},
         log'.attempt \notin {"committed", "retryScheduled", "outside"},
         log.overflow # "waiting"
  PROVE  BoundaryConsistent' /\ CallsConsistent' /\ RetriesConsistent'
<1>1. BoundaryConsistent'
  BY DEF BoundaryConsistent, OpenIdsCounted, AttemptOwnedByStep,
     BoundariesCloseClean, BracketAtRest, BracketOwnsQuietTurn, OverflowNeedsReplacement
<1>2. CallsConsistent'
  BY NoCallsYet, CallsFrame
<1>3. RetriesConsistent'
  BY RetriesFrame
<1> QED
  BY <1>1, <1>2, <1>3

\* prepare_live_attempt: the attempt starts streaming.
LEMMA DispatchStep ==
  ASSUME Consistent, Dispatch
  PROVE  Consistent'
<1>1. PICK t \in Turns, s \in Steps : CanDispatch(log, t, s) /\ log' = AfterDispatch(log)
  BY DEF Dispatch
<1>2. log \in Logs
  BY Parts
<1>3. /\ log'.attempt = "streaming" /\ log'.overflow = log.overflow
      /\ IdsOf(log') = IdsOf(log) /\ CallsOf(log') = CallsOf(log)
      /\ AsksOf(log') = AsksOf(log) /\ ChainsOf(log') = ChainsOf(log)
      /\ BracketOf(log') = BracketOf(log)
      /\ log'.marker = log.marker /\ log'.orphans = log.orphans
  BY <1>1, <1>2 DEF AfterDispatch, Logs
<1>4. MarkerHasRoom'
  BY <1>3, Parts DEF MarkerHasRoom
<1>5. TypeOK' /\ MarkerHasRoom'
  BY <1>3, <1>4, TypeStep, Parts DEF Next
<1>6. Free(log) /\ log.step # 0 /\ log.overflow # "waiting" /\ log.attempt \in {"ready", "outside"}
  BY <1>1 DEF CanDispatch, MayReplay, Compatible
<1>7. BoundaryConsistent' /\ CallsConsistent' /\ RetriesConsistent'
  BY <1>3, <1>6, AttemptStep, Parts
<1> QED
  BY <1>5, <1>7 DEF Consistent

\* prepare_chunk: the owned stream moves, an unowned chunk is only a row.
LEMMA ChunkStep ==
  ASSUME Consistent, Chunk
  PROVE  Consistent'
<1>1. PICK t \in Turns, s \in Steps, finish \in {"more", "ok"} \cup Failures, owned \in BOOLEAN :
        CanChunk(log, t, s, owned) /\ log' = AfterChunk(log, finish, owned)
  BY DEF Chunk
<1>2. PICK r \in Logs : r = Row(log)
  BY Parts
<1>3. /\ log'.attempt = IF ~owned THEN r.attempt
                        ELSE IF finish = "more" THEN "streaming" ELSE "finished"
      /\ log'.finish = (IF owned /\ finish # "more" THEN finish ELSE r.finish)
      /\ log'.overflow = r.overflow
      /\ IdsOf(log') = IdsOf(r) /\ CallsOf(log') = CallsOf(r)
      /\ AsksOf(log') = AsksOf(r) /\ ChainsOf(log') = ChainsOf(r)
      /\ BracketOf(log') = BracketOf(r) /\ MarkerOf(log') = MarkerOf(r)
  <2>1. CASE ~owned
    BY <1>1, <1>2, <2>1 DEF AfterChunk
  <2>2. CASE owned /\ finish = "more"
    BY <1>1, <1>2, <2>2 DEF AfterChunk, Logs, MarkerOf
  <2>3. CASE owned /\ finish # "more"
    BY <1>1, <1>2, <2>3 DEF AfterChunk, Logs, MarkerOf
  <2> QED
    BY <2>1, <2>2, <2>3
<1>4. /\ log'.attempt = IF ~owned THEN log.attempt
                        ELSE IF finish = "more" THEN "streaming" ELSE "finished"
      /\ log'.finish = (IF owned /\ finish # "more" THEN finish ELSE log.finish)
      /\ log'.overflow = log.overflow
      /\ IdsOf(log') = IdsOf(log) /\ CallsOf(log') = CallsOf(log)
      /\ AsksOf(log') = AsksOf(log) /\ ChainsOf(log') = ChainsOf(log)
      /\ BracketOf(log') = BracketOf(log)
  BY <1>2, <1>3, RowFacts, Parts
<1>5. TypeOK' /\ MarkerHasRoom'
  BY <1>2, <1>3, <1>4, TypeStep, MarkerFrame, Parts DEF Next
<1>6. CASE ~owned
  <2>1. AttemptOf(log') = AttemptOf(log)
    BY <1>4, <1>6
  <2>2. BoundaryConsistent'
    BY <1>4, <2>1, BoundaryStays, Parts
  <2>3. CallsConsistent'
    BY <1>4, <2>1, CallsFrame, Parts DEF CallsConsistent, CallsFollowCommit
  <2>4. RetriesConsistent'
    BY <1>4, <2>1, RetriesFrame, Parts
  <2> QED
    BY <1>5, <2>2, <2>3, <2>4 DEF Consistent
<1>7. CASE owned
  <2>1. /\ Free(log) /\ log.step # 0 /\ log.attempt \in {"streaming", "ready"}
        /\ log.overflow # "waiting"
    BY <1>1, <1>7, Parts DEF CanChunk, MayReplay, BoundaryConsistent, OverflowNeedsReplacement
  <2>2. log'.attempt \in {"streaming", "finished"}
    BY <1>4, <1>7
  <2>3. BoundaryConsistent' /\ CallsConsistent' /\ RetriesConsistent'
    BY <1>4, <2>1, <2>2, AttemptStep, Parts
  <2> QED
    BY <1>5, <2>3 DEF Consistent
<1> QED
  BY <1>6, <1>7

\* take_prepared: a finished attempt is outside every bracket.
LEMMA SealStep ==
  ASSUME Consistent, Seal
  PROVE  Consistent'
<1>1. log.attempt = "finished" /\ log' = AfterSeal(log)
  BY DEF Seal, CanSeal
<1>2. log \in Logs
  BY Parts
<1>3. /\ log'.attempt = "sealed" /\ log'.overflow = log.overflow
      /\ IdsOf(log') = IdsOf(log) /\ CallsOf(log') = CallsOf(log)
      /\ AsksOf(log') = AsksOf(log) /\ ChainsOf(log') = ChainsOf(log)
      /\ BracketOf(log') = BracketOf(log)
      /\ log'.marker = log.marker /\ log'.orphans = log.orphans
  BY <1>1, <1>2 DEF AfterSeal, Logs
<1>4. MarkerHasRoom'
  BY <1>3, Parts DEF MarkerHasRoom
<1>5. TypeOK' /\ MarkerHasRoom'
  BY <1>3, <1>4, TypeStep, Parts DEF Next
<1>6. Free(log) /\ log.step # 0 /\ log.overflow # "waiting"
  BY <1>1, Parts DEF BoundaryConsistent, BracketAtRest, AttemptOwnedByStep, OverflowNeedsReplacement
<1>7. BoundaryConsistent' /\ CallsConsistent' /\ RetriesConsistent'
  BY <1>1, <1>3, <1>6, AttemptStep, Parts
<1> QED
  BY <1>5, <1>7 DEF Consistent

\* compaction/prune, also as the closure of an overflowed attempt.
LEMMA CompactionPruneStep ==
  ASSUME Consistent, CompactionPrune
  PROVE  Consistent'
<1>1. PICK c \in Calls, owned \in BOOLEAN, closes \in BOOLEAN :
        /\ Row(log).orphans < MaxOrphans
        /\ CanPrune(log, c, owned, closes) /\ log' = AfterPrune(log, c, closes)
  BY DEF CompactionPrune
<1>2. PICK r \in Logs : r = Row(log)
  BY Parts
<1>3. /\ log'.attempt = (IF closes THEN "ready" ELSE r.attempt)
      /\ log'.overflow = (IF closes THEN "waiting" ELSE r.overflow)
      /\ log'.finish = r.finish
      /\ IdsOf(log') = IdsOf(r) /\ CallsOf(log') = CallsOf(r)
      /\ AsksOf(log') = AsksOf(r) /\ ChainsOf(log') = ChainsOf(r)
      /\ BracketOf(log') = BracketOf(r) /\ log'.marker = c /\ log'.orphans = r.orphans
  BY <1>1, <1>2 DEF AfterPrune, Logs
<1>4. /\ log'.attempt = (IF closes THEN "ready" ELSE log.attempt)
      /\ log'.overflow = (IF closes THEN "waiting" ELSE log.overflow)
      /\ log'.finish = log.finish
      /\ IdsOf(log') = IdsOf(log) /\ CallsOf(log') = CallsOf(log)
      /\ AsksOf(log') = AsksOf(log) /\ ChainsOf(log') = ChainsOf(log)
      /\ BracketOf(log') = BracketOf(log)
  BY <1>2, <1>3, RowFacts, Parts
<1>5. MarkerHasRoom'
  <2>1. r.orphans + 1 <= MaxOrphans /\ r.orphans + 0 <= MaxOrphans
    BY <1>1, <1>2, LogBounds DEF Logs
  <2>2. log'.orphans = r.orphans
    BY <1>3
  <2> QED
    BY <2>1, <2>2 DEF MarkerHasRoom
<1>6. TypeOK' /\ MarkerHasRoom'
  BY <1>4, <1>5, TypeStep, Parts DEF Next
<1>7. CASE ~closes
  <2>1. AttemptOf(log') = AttemptOf(log)
    BY <1>4, <1>7
  <2>2. BoundaryConsistent'
    BY <1>4, <2>1, BoundaryStays, Parts
  <2>3. CallsConsistent'
    BY <1>4, <2>1, CallsFrame, Parts DEF CallsConsistent, CallsFollowCommit
  <2>4. RetriesConsistent'
    BY <1>4, <2>1, RetriesFrame, Parts
  <2> QED
    BY <1>6, <2>2, <2>3, <2>4 DEF Consistent
<1>8. CASE closes
  <2>1. Free(log) /\ log.step # 0 /\ log.attempt \in {"finished", "sealed"}
    BY <1>1, <1>8 DEF CanPrune, CanOverflow, TerminalAttempt
  <2>2. BoundaryConsistent'
    BY <1>4, <1>8, <2>1, Parts DEF BoundaryConsistent, OpenIdsCounted, AttemptOwnedByStep,
       BoundariesCloseClean, BracketAtRest, BracketOwnsQuietTurn, OverflowNeedsReplacement
  <2>3. CallsConsistent'
    BY <1>4, <2>1, NoCallsYet, CallsFrame, Parts
  <2>4. RetriesConsistent'
    BY <1>4, <1>8, <2>1, RetriesFrame, Parts
  <2> QED
    BY <1>6, <2>2, <2>3, <2>4 DEF Consistent
<1> QED
  BY <1>7, <1>8

\* A replacement moves the overflow recovery on and leaves the rest.
LEMMA ProgressStep ==
  ASSUME Consistent,
         log'.overflow \in {log.overflow, Progress(log)}, log'.attempt = log.attempt,
         log'.finish = log.finish, IdsOf(log') = IdsOf(log), CallsOf(log') = CallsOf(log),
         AsksOf(log') = AsksOf(log), ChainsOf(log') = ChainsOf(log),
         log'.owner = log.owner, log'.compaction = "none" <=> log.compaction = "none"
  PROVE  BoundaryConsistent' /\ CallsConsistent' /\ RetriesConsistent'
<1>1. BoundaryConsistent'
  BY Parts DEF Progress, BoundaryConsistent, OpenIdsCounted, AttemptOwnedByStep,
     BoundariesCloseClean, BracketAtRest, BracketOwnsQuietTurn, OverflowNeedsReplacement
<1>2. CallsConsistent'
  BY CallsFrame, Parts DEF CallsConsistent, CallsFollowCommit
<1>3. RetriesConsistent'
  BY RetriesFrame, Parts
<1> QED
  BY <1>1, <1>2, <1>3

\* The rewrite of a marker: progress for a waiting overflow.
LEMMA RewriteStep ==
  ASSUME Consistent, Rewrite
  PROVE  Consistent'
<1>1. log' = AfterRewrite(log)
  BY DEF Rewrite
<1>2. log \in Logs
  BY Parts
<1>3. /\ log'.overflow \in {log.overflow, Progress(log)}
      /\ log'.attempt = log.attempt /\ log'.finish = log.finish
      /\ IdsOf(log') = IdsOf(log) /\ CallsOf(log') = CallsOf(log)
      /\ AsksOf(log') = AsksOf(log) /\ ChainsOf(log') = ChainsOf(log)
      /\ BracketOf(log') = BracketOf(log)
      /\ log'.marker = "none" /\ log'.orphans = log.orphans
  BY <1>1, <1>2 DEF AfterRewrite, Logs
<1>4. MarkerHasRoom'
  BY <1>2, <1>3, LogBounds DEF MarkerHasRoom, Logs
<1>5. TypeOK' /\ MarkerHasRoom'
  BY <1>3, <1>4, TypeStep, Parts DEF Next
<1>6. BoundaryConsistent' /\ CallsConsistent' /\ RetriesConsistent'
  BY <1>3, ProgressStep
<1> QED
  BY <1>5, <1>6 DEF Consistent

\* compaction/start: the bracket opens on a settled turn.
LEMMA CompactionStartStep ==
  ASSUME Consistent, CompactionStart
  PROVE  Consistent'
<1>1. PICK owner \in 0..MaxTurns, trigger \in Triggers, closes \in BOOLEAN :
        /\ CanCompactionStart(log, owner, trigger, closes)
        /\ log' = AfterCompactionStart(log, owner, closes)
  BY DEF CompactionStart
<1>2. PICK r \in Logs : r = Row(log)
  BY Parts
<1>3. /\ log'.attempt = (IF closes THEN "ready" ELSE r.attempt)
      /\ log'.overflow = (IF closes THEN "waiting" ELSE r.overflow)
      /\ log'.finish = r.finish
      /\ IdsOf(log') = IdsOf(r) /\ CallsOf(log') = CallsOf(r)
      /\ AsksOf(log') = AsksOf(r) /\ ChainsOf(log') = ChainsOf(r)
      /\ BracketOf(log') = <<"started", owner>> /\ MarkerOf(log') = MarkerOf(r)
  BY <1>1, <1>2 DEF AfterCompactionStart, Logs, MarkerOf
<1>4. /\ log'.attempt = (IF closes THEN "ready" ELSE log.attempt)
      /\ log'.overflow = (IF closes THEN "waiting" ELSE log.overflow)
      /\ log'.finish = log.finish
      /\ IdsOf(log') = IdsOf(log) /\ CallsOf(log') = CallsOf(log)
      /\ AsksOf(log') = AsksOf(log) /\ ChainsOf(log') = ChainsOf(log)
      /\ BracketOf(log') = <<"started", owner>>
  BY <1>2, <1>3, RowFacts, Parts
<1>5. TypeOK' /\ MarkerHasRoom'
  BY <1>2, <1>3, <1>4, TypeStep, MarkerFrame, Parts DEF Next
<1>6. /\ log.turn # 0 /\ owner = log.turn /\ log.asked = {}
      /\ \A c \in Calls : log.call[c].stage \in {"absent", "answered"}
  BY <1>1, Parts DEF CanCompactionStart, PlaceOf, BoundaryConsistent, AttemptOwnedByStep
<1>7. CASE ~closes
  <2>1. log.attempt = "outside" /\ AttemptOf(log') = AttemptOf(log)
    BY <1>1, <1>4, <1>7, Parts DEF CanCompactionStart, PlaceOf, Compatible,
       BoundaryConsistent, AttemptOwnedByStep
  <2>2. BoundaryConsistent'
    BY <1>4, <1>6, <2>1, Parts DEF BoundaryConsistent, OpenIdsCounted, AttemptOwnedByStep,
       BoundariesCloseClean, BracketAtRest, BracketOwnsQuietTurn, OverflowNeedsReplacement
  <2>3. CallsConsistent'
    BY <1>4, <2>1, CallsFrame, Parts DEF CallsConsistent, CallsFollowCommit
  <2>4. RetriesConsistent'
    BY <1>4, <2>1, RetriesFrame, Parts
  <2> QED
    BY <1>5, <2>2, <2>3, <2>4 DEF Consistent
<1>8. CASE closes
  <2>1. log.step # 0 /\ log.attempt \in {"finished", "sealed"}
    BY <1>1, <1>8 DEF CanCompactionStart, CanOverflow, TerminalAttempt
  <2>2. BoundaryConsistent'
    BY <1>4, <1>6, <1>8, <2>1, Parts DEF BoundaryConsistent, OpenIdsCounted, AttemptOwnedByStep,
       BoundariesCloseClean, BracketAtRest, BracketOwnsQuietTurn, OverflowNeedsReplacement
  <2>3. CallsConsistent'
    BY <1>4, <2>1, NoCallsYet, CallsFrame, Parts
  <2>4. RetriesConsistent'
    BY <1>4, <1>8, <2>1, RetriesFrame, Parts
  <2> QED
    BY <1>5, <2>2, <2>3, <2>4 DEF Consistent
<1> QED
  BY <1>7, <1>8

\* compaction/summary moves the bracket only.
LEMMA CompactionSummaryStep ==
  ASSUME Consistent, CompactionSummary
  PROVE  Consistent'
<1>1. log.compaction = "started" /\ log' = AfterSummary(log)
  BY DEF CompactionSummary, CanSummary
<1>2. PICK r \in Logs : r = Row(log)
  BY Parts
<1>3. /\ AttemptOf(log') = AttemptOf(r)
      /\ IdsOf(log') = IdsOf(r) /\ CallsOf(log') = CallsOf(r)
      /\ AsksOf(log') = AsksOf(r) /\ ChainsOf(log') = ChainsOf(r)
      /\ BracketOf(log') = <<"summarized", r.owner>> /\ MarkerOf(log') = MarkerOf(r)
  BY <1>1, <1>2 DEF AfterSummary, Logs, MarkerOf
<1>4. /\ AttemptOf(log') = AttemptOf(log)
      /\ IdsOf(log') = IdsOf(log) /\ CallsOf(log') = CallsOf(log)
      /\ AsksOf(log') = AsksOf(log) /\ ChainsOf(log') = ChainsOf(log)
      /\ BracketOf(log') = <<"summarized", log.owner>>
  BY <1>2, <1>3, RowFacts, Parts
<1>5. TypeOK' /\ MarkerHasRoom'
  BY <1>2, <1>3, <1>4, TypeStep, MarkerFrame, Parts DEF Next
<1>6. BoundaryConsistent' /\ CallsConsistent' /\ RetriesConsistent'
  BY <1>1, <1>4, ProgressStep
<1> QED
  BY <1>5, <1>6 DEF Consistent

\* The checkpoint moves the bracket and the overflow recovery.
LEMMA CheckpointStep ==
  ASSUME Consistent, Checkpoint
  PROVE  Consistent'
<1>1. PICK shadowed \in SUBSET log.results :
        log.compaction = "summarized" /\ log' = AfterCheckpoint(log, shadowed)
  BY DEF Checkpoint, CanCheckpoint
<1>2. PICK r \in Logs : r = Row(log)
  BY Parts
<1>3. /\ log'.overflow = Progress(log) /\ log'.attempt = r.attempt /\ log'.finish = r.finish
      /\ IdsOf(log') = IdsOf(r) /\ CallsOf(log') = CallsOf(r)
      /\ AsksOf(log') = AsksOf(r) /\ ChainsOf(log') = ChainsOf(r)
      /\ BracketOf(log') = <<"replaced", r.owner>> /\ MarkerOf(log') = MarkerOf(r)
  BY <1>1, <1>2 DEF AfterCheckpoint, Logs, MarkerOf
<1>4. /\ log'.overflow = Progress(log) /\ log'.attempt = log.attempt /\ log'.finish = log.finish
      /\ IdsOf(log') = IdsOf(log) /\ CallsOf(log') = CallsOf(log)
      /\ AsksOf(log') = AsksOf(log) /\ ChainsOf(log') = ChainsOf(log)
      /\ BracketOf(log') = <<"replaced", log.owner>>
  BY <1>2, <1>3, RowFacts, Parts
<1>5. TypeOK' /\ MarkerHasRoom'
  BY <1>2, <1>3, <1>4, TypeStep, MarkerFrame, Parts DEF Next
<1>6. BoundaryConsistent' /\ CallsConsistent' /\ RetriesConsistent'
  BY <1>1, <1>4, ProgressStep
<1> QED
  BY <1>5, <1>6 DEF Consistent

\* compaction/end gives the turn back.
LEMMA CompactionEndStep ==
  ASSUME Consistent, CompactionEnd
  PROVE  Consistent'
<1>1. log' = AfterCompactionEnd(log)
  BY DEF CompactionEnd
<1>2. PICK r \in Logs : r = Row(log)
  BY Parts
<1>3. /\ AttemptOf(log') = AttemptOf(r)
      /\ IdsOf(log') = IdsOf(r) /\ CallsOf(log') = CallsOf(r)
      /\ AsksOf(log') = AsksOf(r) /\ ChainsOf(log') = ChainsOf(r)
      /\ BracketOf(log') = <<"none", 0>> /\ MarkerOf(log') = MarkerOf(r)
  BY <1>1, <1>2 DEF AfterCompactionEnd, Logs, MarkerOf
<1>4. /\ AttemptOf(log') = AttemptOf(log)
      /\ IdsOf(log') = IdsOf(log) /\ CallsOf(log') = CallsOf(log)
      /\ AsksOf(log') = AsksOf(log) /\ ChainsOf(log') = ChainsOf(log)
      /\ BracketOf(log') = <<"none", 0>>
  BY <1>2, <1>3, RowFacts, Parts
<1>5. TypeOK' /\ MarkerHasRoom'
  BY <1>2, <1>3, <1>4, TypeStep, MarkerFrame, Parts DEF Next
<1>6. BoundaryConsistent'
  BY <1>4, Parts DEF BoundaryConsistent, OpenIdsCounted, AttemptOwnedByStep,
     BoundariesCloseClean, BracketAtRest, BracketOwnsQuietTurn, OverflowNeedsReplacement
<1>7. CallsConsistent'
  BY <1>4, CallsFrame, Parts DEF CallsConsistent, CallsFollowCommit
<1>8. RetriesConsistent'
  BY <1>4, RetriesFrame, Parts
<1> QED
  BY <1>5, <1>6, <1>7, <1>8 DEF Consistent

\* llm/retry: the next number of the chain is fresh, and the slot waits for it.
LEMMA LlmRetryStep ==
  ASSUME Consistent, LlmRetry
  PROVE  Consistent'
<1>1. PICK t \in Turns, s \in Steps, n \in 1..MaxRetries, owned \in BOOLEAN :
        CanRetry(log, t, s, n, owned) /\ log' = AfterRetry(log, t, s, n, owned)
  BY DEF LlmRetry
<1>2. PICK r \in Logs : r = Row(log)
  BY Parts
<1>3. /\ log'.attempt = (IF owned THEN "retryScheduled" ELSE r.attempt)
      /\ log'.finish = r.finish /\ log'.overflow = r.overflow
      /\ log'.scheduled = r.scheduled \cup {<<t, s, n>>} /\ log'.started = r.started
      /\ IdsOf(log') = IdsOf(r) /\ CallsOf(log') = CallsOf(r)
      /\ AsksOf(log') = AsksOf(r)
      /\ BracketOf(log') = BracketOf(r) /\ MarkerOf(log') = MarkerOf(r)
  BY <1>1, <1>2 DEF AfterRetry, Logs, MarkerOf
<1>4. /\ log'.attempt = (IF owned THEN "retryScheduled" ELSE log.attempt)
      /\ log'.finish = log.finish /\ log'.overflow = log.overflow
      /\ log'.scheduled = log.scheduled \cup {<<t, s, n>>} /\ log'.started = log.started
      /\ IdsOf(log') = IdsOf(log) /\ CallsOf(log') = CallsOf(log)
      /\ AsksOf(log') = AsksOf(log)
      /\ BracketOf(log') = BracketOf(log)
  BY <1>2, <1>3, RowFacts, Parts
<1>5. TypeOK' /\ MarkerHasRoom'
  <2>1. log'.asked \subseteq log'.owned /\ log'.started \subseteq log'.scheduled
    BY <1>4, Parts
  <2> QED
    BY <1>2, <1>3, <2>1, TypeStep, MarkerFrame, Parts DEF Next
<1>6. /\ Free(log) /\ log.turn = t /\ log.step = s /\ t # 0 /\ s # 0
      /\ n = Cardinality(RetriesOf(log, t, s)) + 1
      /\ owned => log.attempt \in {"finished", "sealed"}
      /\ Durable => owned
  BY <1>1 DEF CanRetry, AttemptRow, Compatible, TerminalAttempt
<1>7. BoundaryConsistent'
  BY <1>4, <1>6, Parts DEF BoundaryConsistent, OpenIdsCounted, AttemptOwnedByStep,
     BoundariesCloseClean, BracketAtRest, BracketOwnsQuietTurn, OverflowNeedsReplacement
<1>8. CallsConsistent'
  <2>1. log.order # <<>> => log'.attempt = "committed"
    BY <1>4, <1>6, Parts DEF CallsConsistent, CallsFollowCommit
  <2> QED
    BY <1>4, <2>1, CallsFrame, Parts
<1>9. <<t, s, n>> \notin log.scheduled
  <2>1. Cardinality(RetriesOf(log, t, s)) \in Nat
    <3>1. RetriesOf(log, t, s) \subseteq log.scheduled /\ IsFiniteSet(log.scheduled)
      BY Parts DEF RetriesOf, RetriesConsistent, RetriesNumbered
    <3> QED
      BY <3>1, FS_Subset, FS_CardinalityType
  <2>2. ~ (n <= Cardinality(RetriesOf(log, t, s)))
    BY <1>6, <2>1
  <2> QED
    BY <2>2, Parts DEF RetriesConsistent, RetriesNumbered
<1>10. RetriesNumbered'
  <2>1. IsFiniteSet(log'.scheduled)
    <3>1. IsFiniteSet(log.scheduled)
      BY Parts DEF RetriesConsistent, RetriesNumbered
    <3>2. IsFiniteSet(log.scheduled \cup {<<t, s, n>>})
      BY <3>1, FS_AddElement
    <3> QED
      BY <1>4, <3>2
  <2>2. ASSUME NEW x \in Turns, NEW y \in Steps, NEW m \in 1..MaxRetries,
               <<x, y, m>> \in log'.scheduled
        PROVE  /\ x < log'.nextTurn \/ x = log'.turn
               /\ x = log'.turn => y < log'.nextStep \/ y = log'.step
    BY <1>4, <1>6, <2>2, Parts DEF RetriesConsistent, RetriesNumbered
  <2>3. ASSUME NEW x \in Turns, NEW y \in Steps, NEW m \in 1..MaxRetries,
               <<x, y, m>> \in log'.scheduled
        PROVE  m <= Cardinality(RetriesOf(log', x, y))
    <3>1. CASE x = t /\ y = s
      <4>1. RetriesOf(log', t, s) = RetriesOf(log, t, s) \cup {<<t, s, n>>}
        BY <1>4 DEF RetriesOf
      <4>2. <<t, s, n>> \notin RetriesOf(log, t, s)
        BY <1>9 DEF RetriesOf
      <4>3. IsFiniteSet(RetriesOf(log, t, s))
        <5>1. RetriesOf(log, t, s) \subseteq log.scheduled /\ IsFiniteSet(log.scheduled)
          BY Parts DEF RetriesOf, RetriesConsistent, RetriesNumbered
        <5> QED
          BY <5>1, FS_Subset
      <4>4. Cardinality(RetriesOf(log', t, s)) = n
        <5>1. Cardinality(RetriesOf(log, t, s) \cup {<<t, s, n>>})
                = Cardinality(RetriesOf(log, t, s)) + 1
          BY <4>2, <4>3, FS_AddElement
        <5> QED
          BY <1>6, <4>1, <5>1
      <4>5. CASE m = n
        BY <3>1, <4>4, <4>5
      <4>6. CASE m # n
        <5>1. <<t, s, m>> \in log.scheduled
          BY <1>4, <2>3, <3>1, <4>6
        <5>2. m <= Cardinality(RetriesOf(log, t, s))
          BY <5>1, Parts DEF RetriesConsistent, RetriesNumbered
        <5>3. Cardinality(RetriesOf(log, t, s)) \in Nat
          BY <4>3, FS_CardinalityType
        <5> QED
          BY <1>6, <3>1, <4>4, <5>2, <5>3
      <4> QED
        BY <4>5, <4>6
    <3>2. CASE ~(x = t /\ y = s)
      <4>1. RetriesOf(log', x, y) = RetriesOf(log, x, y)
        BY <1>4, <3>2 DEF RetriesOf
      <4>2. <<x, y, m>> \in log.scheduled
        BY <1>4, <2>3, <3>2
      <4> QED
        BY <4>1, <4>2, Parts DEF RetriesConsistent, RetriesNumbered
    <3> QED
      BY <3>1, <3>2
  <2> QED
    BY <2>1, <2>2, <2>3 DEF RetriesNumbered
<1>11. ASSUME Durable
       PROVE  /\ \A m \in 1..MaxRetries :
                   <<log'.turn, log'.step, m>> \in log'.scheduled \ log'.started <=> m = n
              /\ log'.attempt = "retryScheduled"
  <2>1. log.attempt # "retryScheduled"
    BY <1>6, <1>11
  <2>2. \A m \in 1..MaxRetries : <<t, s, m>> \notin log.scheduled \ log.started
    BY <1>6, <1>11, <2>1, Parts DEF RetriesConsistent, RetryOwnsSlot
  <2>3. <<t, s, n>> \notin log.started
    BY <1>9, Parts
  <2> QED
    BY <1>4, <1>6, <1>11, <2>2, <2>3
<1>12. OneRetryWaits' /\ RetryOwnsSlot'
  BY <1>11 DEF OneRetryWaits, RetryOwnsSlot
<1> QED
  BY <1>5, <1>7, <1>8, <1>10, <1>12 DEF Consistent, RetriesConsistent

\* llm/retry-started: a start of the open step ends its only wait, any other
\* start leaves the slot alone.
LEMMA LlmRetryStartedStep ==
  ASSUME Consistent, LlmRetryStarted
  PROVE  Consistent'
<1>1. PICK t \in Turns, s \in Steps, n \in 1..MaxRetries :
        CanRetryStarted(log, t, s, n) /\ log' = AfterRetryStarted(log, t, s, n)
  BY DEF LlmRetryStarted
<1>2. PICK r \in Logs : r = Row(log)
  BY Parts
<1>3. /\ log'.attempt = ReopenSlot(log, t, s)
      /\ log'.finish = r.finish /\ log'.overflow = r.overflow
      /\ log'.scheduled = r.scheduled /\ log'.started = r.started \cup {<<t, s, n>>}
      /\ IdsOf(log') = IdsOf(r) /\ CallsOf(log') = CallsOf(r)
      /\ AsksOf(log') = AsksOf(r)
      /\ BracketOf(log') = BracketOf(r) /\ MarkerOf(log') = MarkerOf(r)
  BY <1>1, <1>2 DEF AfterRetryStarted, Logs, MarkerOf
<1>4. /\ log'.attempt = ReopenSlot(log, t, s)
      /\ log'.finish = log.finish /\ log'.overflow = log.overflow
      /\ log'.scheduled = log.scheduled /\ log'.started = log.started \cup {<<t, s, n>>}
      /\ IdsOf(log') = IdsOf(log) /\ CallsOf(log') = CallsOf(log)
      /\ AsksOf(log') = AsksOf(log)
      /\ BracketOf(log') = BracketOf(log)
  BY <1>2, <1>3, RowFacts, Parts
<1>5. <<t, s, n>> \in log.scheduled \ log.started /\ Free(log)
  BY <1>1 DEF CanRetryStarted
<1>6. TypeOK' /\ MarkerHasRoom'
  <2>1. log'.asked \subseteq log'.owned /\ log'.started \subseteq log'.scheduled
    BY <1>4, <1>5, Parts
  <2> QED
    BY <1>2, <1>3, <2>1, TypeStep, MarkerFrame, Parts DEF Next
<1>7. RetriesNumbered'
  BY <1>4, Parts DEF RetriesConsistent, RetriesNumbered, RetriesOf
<1>8. CASE Reopens(log, t, s)
  <2>1. log.attempt = "retryScheduled" /\ log'.attempt = "ready"
    BY <1>1, <1>4, <1>8 DEF CanRetryStarted, ReopenSlot
  <2>2. log.turn = t /\ log.step = s
    BY <1>8 DEF Reopens
  <2>3. BoundaryConsistent'
    BY <1>4, <1>5, <2>1, Parts DEF BoundaryConsistent, OpenIdsCounted, AttemptOwnedByStep,
       BoundariesCloseClean, BracketAtRest, BracketOwnsQuietTurn, OverflowNeedsReplacement
  <2>4. CallsConsistent'
    BY <1>4, <2>1, NoCallsYet, CallsFrame, Parts
  <2>5. ASSUME Durable, NEW m \in 1..MaxRetries
        PROVE  <<log'.turn, log'.step, m>> \notin log'.scheduled \ log'.started
    <3>1. <<log.turn, log.step, m>> \in log.scheduled \ log.started => m = n
      BY <1>5, <2>2, <2>5, Parts DEF RetriesConsistent, OneRetryWaits
    <3> QED
      BY <1>4, <2>2, <3>1
  <2>6. OneRetryWaits' /\ RetryOwnsSlot'
    BY <2>1, <2>5 DEF OneRetryWaits, RetryOwnsSlot
  <2> QED
    BY <1>6, <1>7, <2>3, <2>4, <2>6 DEF Consistent, RetriesConsistent
<1>9. CASE ~Reopens(log, t, s)
  <2>1. AttemptOf(log') = AttemptOf(log)
    BY <1>4, <1>9 DEF ReopenSlot
  <2>2. BoundaryConsistent'
    BY <1>4, <2>1, BoundaryStays, Parts
  <2>3. CallsConsistent'
    BY <1>4, <2>1, CallsFrame, Parts DEF CallsConsistent, CallsFollowCommit
  <2>4. ASSUME Durable, NEW m \in 1..MaxRetries
        PROVE  <<log'.turn, log'.step, m>> \in log'.scheduled \ log'.started
                 <=> <<log.turn, log.step, m>> \in log.scheduled \ log.started
    <3>1. t # log.turn \/ s # log.step
      BY <1>9, <2>4, IdFacts DEF Reopens, Compatible
    <3> QED
      BY <1>4, <3>1
  <2>5. OneRetryWaits'
    BY <2>4, Parts DEF RetriesConsistent, OneRetryWaits
  <2>6. RetryOwnsSlot'
    BY <2>1, <2>4, Parts DEF RetriesConsistent, RetryOwnsSlot
  <2> QED
    BY <1>6, <1>7, <2>2, <2>3, <2>5, <2>6 DEF Consistent, RetriesConsistent
<1> QED
  BY <1>8, <1>9

\* The calls of the log, and the order they were declared in.
LEMMA CallTypes ==
  ASSUME TypeOK
  PROVE  /\ log.call \in [Calls -> CallStates] /\ log.order \in Seq(Calls)
         /\ \A c \in Calls : log.call[c] \in CallStates
         /\ \A i \in DOMAIN log.order : log.order[i] \in Calls
<1>1. log.call \in [Calls -> CallStates] /\ log.order \in Seq(Calls)
  BY DEF TypeOK, Logs
<1> QED
  BY <1>1

\* assistant/message: a durable step declares its calls once.
LEMMA AssistantMessageStep ==
  ASSUME Consistent, AssistantMessage
  PROVE  Consistent'
<1>1. PICK t \in Turns, s \in Steps, calls \in CallLists, owned \in BOOLEAN :
        CanAssistant(log, t, s, calls, owned) /\ log' = AfterAssistant(log, calls, owned)
  BY DEF AssistantMessage
<1>2. PICK r \in Logs : r = Row(log)
  BY Parts
<1>3. /\ log'.attempt = (IF owned THEN "committed" ELSE r.attempt)
      /\ log'.finish = r.finish /\ log'.overflow = r.overflow
      /\ log'.order = (IF Durable THEN r.order \o calls ELSE r.order)
      /\ log'.call = (IF Durable THEN Declared(log, calls) ELSE r.call)
      /\ IdsOf(log') = IdsOf(r) /\ AsksOf(log') = AsksOf(r) /\ ChainsOf(log') = ChainsOf(r)
      /\ BracketOf(log') = BracketOf(r) /\ MarkerOf(log') = MarkerOf(r)
  BY <1>1, <1>2 DEF AfterAssistant, Logs, MarkerOf
<1>4. /\ log'.attempt = (IF owned THEN "committed" ELSE log.attempt)
      /\ log'.finish = log.finish /\ log'.overflow = log.overflow
      /\ log'.order = (IF Durable THEN log.order \o calls ELSE log.order)
      /\ log'.call = (IF Durable THEN Declared(log, calls) ELSE log.call)
      /\ IdsOf(log') = IdsOf(log) /\ AsksOf(log') = AsksOf(log)
      /\ ChainsOf(log') = ChainsOf(log) /\ BracketOf(log') = BracketOf(log)
  BY <1>2, <1>3, RowFacts, Parts
<1>5. TypeOK' /\ MarkerHasRoom'
  BY <1>2, <1>3, <1>4, TypeStep, MarkerFrame, Parts DEF Next
<1>6. /\ Free(log) /\ log.turn # 0 /\ log.step # 0
      /\ owned => log.attempt \in {"finished", "sealed"}
      /\ Durable => owned
  BY <1>1 DEF CanAssistant, AttemptRow, Compatible, TerminalAttempt
<1>7. BoundaryConsistent'
  BY <1>4, <1>6, Parts DEF BoundaryConsistent, OpenIdsCounted, AttemptOwnedByStep,
     BoundariesCloseClean, BracketAtRest, BracketOwnsQuietTurn, OverflowNeedsReplacement
<1>8. RetriesConsistent'
  BY <1>4, <1>6, RetriesFrame, Parts
<1>9. CASE ~Durable
  <2>1. log.order # <<>> => log'.attempt = "committed"
    BY <1>4, Parts DEF CallsConsistent, CallsFollowCommit
  <2>2. CallsOf(log') = CallsOf(log)
    BY <1>4, <1>9
  <2>3. CallsConsistent'
    BY <1>4, <2>1, <2>2, CallsFrame, Parts
  <2> QED
    BY <1>5, <1>7, <1>8, <2>3 DEF Consistent
<1>10. CASE Durable
  <2>1. log.order = <<>> /\ owned
    BY <1>6, <1>10, NoCallsYet, Parts
  <2>2. calls \in Seq(Calls) /\ <<>> \o calls = calls
    BY DEF CallLists
  <2>3. log'.order = calls /\ log'.attempt = "committed"
    BY <1>4, <1>10, <2>1, <2>2
  <2>4. /\ \A i, j \in DOMAIN calls : i # j => calls[i] # calls[j]
        /\ \A i \in DOMAIN calls : calls[i] \in Calls /\ log.call[calls[i]].stage = "absent"
    BY <1>1, <1>10, <2>2 DEF CanAssistant
  <2>5. \A c \in Calls : log'.call[c] = IF \E i \in DOMAIN calls : calls[i] = c
                                        THEN [NoCall EXCEPT !.stage = "declared"]
                                        ELSE log.call[c]
    BY <1>4, <1>10 DEF Declared
  <2>6. /\ \A i \in DOMAIN calls : log'.call[calls[i]].stage = "declared"
        /\ \A c \in Calls :
             (\E i \in DOMAIN calls : calls[i] = c) =>
               log'.call[c].stage = "declared" /\ log'.call[c].approval = "none"
    BY <2>4, <2>5 DEF NoCall
  <2>7. \A c \in Calls : log'.call[c].approval = log.call[c].approval
    <3> SUFFICES ASSUME NEW c \in Calls
                 PROVE  log'.call[c].approval = log.call[c].approval
      OBVIOUS
    <3>1. log.call[c].stage = "absent" => log.call[c].approval = "none"
      BY Parts DEF CallsConsistent, ApprovalsOfCalls
    <3> QED
      BY <2>4, <2>5, <2>6, <3>1
  <2>8. CallsInOrder'
    BY <2>3, <2>4, <2>6 DEF CallsInOrder
  <2>9. ApprovalsOfCalls'
    BY <2>5, <2>6, <2>7, Parts DEF CallsConsistent, ApprovalsOfCalls
  <2>10. PendingAgrees'
    BY <1>4, <2>7, Parts DEF CallsConsistent, PendingAgrees
  <2>11. RefusedCallNeverSucceeds'
    BY <2>5, <2>6, Parts DEF CallsConsistent, RefusedCallNeverSucceeds
  <2> QED
    BY <1>5, <1>7, <1>8, <2>3, <2>8, <2>9, <2>10, <2>11
    DEF Consistent, CallsConsistent, CallsFollowCommit
<1> QED
  BY <1>9, <1>10

\* tool/call: the first declared call starts, so those behind it still wait.
LEMMA ToolCallStep ==
  ASSUME Consistent, ToolCall
  PROVE  Consistent'
<1>1. PICK t \in Turns, s \in Steps, c \in Calls :
        CanToolCall(log, t, s, c) /\ log' = AfterToolCall(log, c)
  BY DEF ToolCall
<1>2. PICK r \in Logs : r = Row(log)
  BY Parts
<1>3. /\ log'.call = [r.call EXCEPT ![c].stage = "started"] /\ log'.order = r.order
      /\ AttemptOf(log') = AttemptOf(r)
      /\ IdsOf(log') = IdsOf(r) /\ AsksOf(log') = AsksOf(r) /\ ChainsOf(log') = ChainsOf(r)
      /\ BracketOf(log') = BracketOf(r) /\ MarkerOf(log') = MarkerOf(r)
  BY <1>1, <1>2 DEF AfterToolCall, Logs, MarkerOf
<1>4. /\ log'.call = [log.call EXCEPT ![c].stage = "started"] /\ log'.order = log.order
      /\ AttemptOf(log') = AttemptOf(log)
      /\ IdsOf(log') = IdsOf(log) /\ AsksOf(log') = AsksOf(log)
      /\ ChainsOf(log') = ChainsOf(log) /\ BracketOf(log') = BracketOf(log)
  BY <1>2, <1>3, RowFacts, Parts
<1>5. TypeOK' /\ MarkerHasRoom'
  BY <1>2, <1>3, <1>4, TypeStep, MarkerFrame, Parts DEF Next
<1>6. BoundaryConsistent'
  <2>1. Free(log) /\ log'.asked = log.asked
    BY <1>1, <1>4 DEF CanToolCall
  <2> QED
    BY <1>4, <2>1, BoundaryFrame, Parts DEF BoundaryConsistent, BoundariesCloseClean
<1>7. RetriesConsistent'
  BY <1>4, RetriesFrame, Parts
<1>8. /\ log'.call[c].stage = "started"
      /\ \A d \in Calls : /\ log'.call[d].approval = log.call[d].approval
                          /\ d # c => log'.call[d] = log.call[d]
  BY <1>4, CallTypes, Parts DEF CallStates
<1>9. CallsFollowCommit'
  BY <1>4, Parts DEF CallsConsistent, CallsFollowCommit
<1>10. CallsInOrder'
  <2> SUFFICES ASSUME Durable PROVE CallsInOrder'
    BY DEF CallsInOrder
  <2>1. PICK k \in DOMAIN log.order :
          /\ log.order[k] = c /\ log.call[c].stage = "declared"
          /\ \A j \in 1..(k - 1) : log.call[log.order[j]].stage # "declared"
    BY <1>1 DEF CanToolCall, IsNextCall
  <2>2. \A i \in DOMAIN log.order : i # k => log.order[i] # c
    BY <2>1, Parts DEF CallsConsistent, CallsInOrder
  <2>3. \A i \in DOMAIN log.order : i < k => i \in 1..(k - 1)
    BY CallTypes, Parts
  <2>4. ASSUME NEW i \in DOMAIN log.order, NEW j \in DOMAIN log.order
        PROVE  /\ log'.call[log.order[i]].stage # "absent"
               /\ i # j => log.order[i] # log.order[j]
               /\ i < j /\ log'.call[log.order[i]].stage = "declared"
                    => log'.call[log.order[j]].stage = "declared"
    <3>1. log.order[i] \in Calls /\ log.order[j] \in Calls
      BY CallTypes, Parts
    <3>2. log'.call[log.order[i]].stage # "absent" /\ (i # j => log.order[i] # log.order[j])
      BY <1>8, <3>1, Parts DEF CallsConsistent, CallsInOrder
    <3>3. ASSUME i < j, log'.call[log.order[i]].stage = "declared"
          PROVE  log'.call[log.order[j]].stage = "declared"
      <4>1. i # k /\ log.call[log.order[i]].stage = "declared"
        BY <1>8, <2>1, <3>1, <3>3
      <4>2. ~(i < k)
        BY <2>1, <2>3, <4>1
      <4>3. j # k
        BY <3>3, <4>2
      <4>4. log.call[log.order[j]].stage = "declared"
        BY <3>3, <4>1, Parts DEF CallsConsistent, CallsInOrder
      <4> QED
        BY <1>8, <2>2, <3>1, <4>3, <4>4
    <3> QED
      BY <3>2, <3>3
  <2> QED
    BY <1>4, <2>4 DEF CallsInOrder
<1>11. ApprovalsOfCalls' /\ RefusedCallNeverSucceeds'
  BY <1>8, Parts DEF CallsConsistent, ApprovalsOfCalls, RefusedCallNeverSucceeds
<1>12. PendingAgrees'
  BY <1>4, <1>8, Parts DEF CallsConsistent, PendingAgrees
<1> QED
  BY <1>5, <1>6, <1>7, <1>9, <1>10, <1>11, <1>12 DEF Consistent, CallsConsistent

\* The rows of approvals and results leave the order of the calls alone.
LEMMA OrderKept ==
  ASSUME TypeOK, CallsInOrder, log'.order = log.order,
         \A c \in Calls : /\ log.call[c].stage # "absent" /\ Durable
                               => log'.call[c].stage # "absent"
                          /\ Durable => (log'.call[c].stage = "declared" <=>
                                         log.call[c].stage = "declared")
  PROVE  CallsInOrder'
BY CallTypes DEF CallsInOrder

\* approval/asked: a durable log waits for this approval only.
LEMMA ApprovalAskedStep ==
  ASSUME Consistent, ApprovalAsked
  PROVE  Consistent'
<1>1. PICK a \in Approvals, c \in Calls : CanAsk(log, a, c) /\ log' = AfterAsk(log, a, c)
  BY DEF ApprovalAsked
<1>2. PICK r \in Logs : r = Row(log)
  BY Parts
<1>3. /\ log'.call = [r.call EXCEPT ![c].approval = IF Durable THEN "pending" ELSE @]
      /\ log'.order = r.order
      /\ log'.asked = r.asked \cup {a} /\ log'.owned = r.owned \cup {a}
      /\ AttemptOf(log') = AttemptOf(r)
      /\ IdsOf(log') = IdsOf(r) /\ ChainsOf(log') = ChainsOf(r)
      /\ BracketOf(log') = BracketOf(r) /\ MarkerOf(log') = MarkerOf(r)
  BY <1>1, <1>2 DEF AfterAsk, Logs, MarkerOf
<1>4. /\ log'.call = [log.call EXCEPT ![c].approval = IF Durable THEN "pending" ELSE @]
      /\ log'.order = log.order
      /\ log'.asked = log.asked \cup {a} /\ log'.owned = log.owned \cup {a}
      /\ AttemptOf(log') = AttemptOf(log)
      /\ IdsOf(log') = IdsOf(log) /\ ChainsOf(log') = ChainsOf(log)
      /\ BracketOf(log') = BracketOf(log)
  BY <1>2, <1>3, RowFacts, Parts
<1>5. TypeOK' /\ MarkerHasRoom'
  <2>1. log'.asked \subseteq log'.owned /\ log'.started \subseteq log'.scheduled
    BY <1>4, Parts
  <2> QED
    BY <1>2, <1>3, <2>1, TypeStep, MarkerFrame, Parts DEF Next
<1>6. BoundaryConsistent'
  <2>1. Free(log) /\ log.turn # 0 /\ (Durable => log.step # 0)
    BY <1>1 DEF CanAsk
  <2> QED
    BY <1>4, <2>1, BoundaryFrame, Parts
<1>7. RetriesConsistent'
  BY <1>4, RetriesFrame, Parts
<1>8. /\ \A d \in Calls : /\ log'.call[d].stage = log.call[d].stage
                          /\ log'.call[d].result = log.call[d].result
                          /\ d # c => log'.call[d] = log.call[d]
      /\ Durable => log'.call[c].approval = "pending"
      /\ ~Durable => log'.call[c].approval = log.call[c].approval
  BY <1>4, CallTypes, Parts DEF CallStates
<1>9. Durable => log.call[c].stage = "started" /\ log.call[c].approval = "none" /\ log.asked = {}
  BY <1>1 DEF CanAsk, NoCall
<1>10. CallsFollowCommit'
  BY <1>4, Parts DEF CallsConsistent, CallsFollowCommit
<1>11. CallsInOrder'
  BY <1>4, <1>8, OrderKept, Parts DEF CallsConsistent
<1>12. ApprovalsOfCalls'
  BY <1>8, <1>9, Parts DEF CallsConsistent, ApprovalsOfCalls
<1>13. RefusedCallNeverSucceeds'
  BY <1>8, <1>9, Parts DEF CallsConsistent, RefusedCallNeverSucceeds
<1>14. PendingAgrees'
  <2> SUFFICES ASSUME Durable PROVE PendingAgrees'
    BY DEF PendingAgrees
  <2>1. \A d \in Calls : log.call[d].approval # "pending"
    BY <1>9, Parts DEF CallsConsistent, PendingAgrees
  <2>2. \A d \in Calls : log'.call[d].approval = "pending" <=> d = c
    BY <1>8, <2>1
  <2>3. log'.asked = {a}
    BY <1>4, <1>9
  <2> QED
    BY <2>2, <2>3 DEF PendingAgrees
<1> QED
  BY <1>5, <1>6, <1>7, <1>10, <1>11, <1>12, <1>13, <1>14 DEF Consistent, CallsConsistent

\* approval/decided: the waiting call gets its outcome.
LEMMA ApprovalDecidedStep ==
  ASSUME Consistent, ApprovalDecided
  PROVE  Consistent'
<1>1. PICK a \in Approvals, outcome \in Outcomes :
        CanDecide(log, a) /\ log' = AfterDecide(log, a, outcome)
  BY DEF ApprovalDecided
<1>2. PICK r \in Logs : r = Row(log)
  BY Parts
<1> DEFINE decided == [d \in Calls |-> IF log.call[d].approval = "pending"
                                       THEN [log.call[d] EXCEPT !.approval = outcome]
                                       ELSE log.call[d]]
<1>3. /\ log'.call = decided /\ log'.order = r.order
      /\ log'.asked = r.asked \ {a} /\ log'.owned = r.owned
      /\ AttemptOf(log') = AttemptOf(r)
      /\ IdsOf(log') = IdsOf(r) /\ ChainsOf(log') = ChainsOf(r)
      /\ BracketOf(log') = BracketOf(r) /\ MarkerOf(log') = MarkerOf(r)
  BY <1>1, <1>2 DEF AfterDecide, Logs, MarkerOf
<1>4. /\ log'.call = decided /\ log'.order = log.order
      /\ log'.asked = log.asked \ {a} /\ log'.owned = log.owned
      /\ AttemptOf(log') = AttemptOf(log)
      /\ IdsOf(log') = IdsOf(log) /\ ChainsOf(log') = ChainsOf(log)
      /\ BracketOf(log') = BracketOf(log)
  BY <1>2, <1>3, RowFacts, Parts
<1>5. TypeOK' /\ MarkerHasRoom'
  <2>1. log'.asked \subseteq log'.owned /\ log'.started \subseteq log'.scheduled
    BY <1>4, Parts
  <2> QED
    BY <1>2, <1>3, <2>1, TypeStep, MarkerFrame, Parts DEF Next
<1>6. BoundaryConsistent'
  <2>1. /\ Free(log) /\ log.turn = 0 => log'.asked = {}
        /\ Durable /\ log.step = 0 => log'.asked = {}
    BY <1>1, <1>4, Parts DEF CanDecide, BoundaryConsistent, BoundariesCloseClean
  <2>2. Free(log)
    BY <1>1 DEF CanDecide
  <2> QED
    BY <1>4, <2>1, <2>2, BoundaryFrame, Parts
<1>7. RetriesConsistent'
  BY <1>4, RetriesFrame, Parts
<1>8. \A d \in Calls :
        /\ log'.call[d].stage = log.call[d].stage
        /\ log'.call[d].result = log.call[d].result
        /\ log.call[d].approval = "pending" => log'.call[d].approval = outcome
        /\ log.call[d].approval # "pending" => log'.call[d] = log.call[d]
  BY <1>4, CallTypes, Parts DEF CallStates
<1>9. outcome # "pending" /\ outcome # "none"
  BY AttemptFacts
<1>10. CallsFollowCommit'
  BY <1>4, Parts DEF CallsConsistent, CallsFollowCommit
<1>11. CallsInOrder'
  BY <1>4, <1>8, OrderKept, Parts DEF CallsConsistent
<1>12. ApprovalsOfCalls'
  BY <1>8, <1>9, Parts DEF CallsConsistent, ApprovalsOfCalls
<1>13. RefusedCallNeverSucceeds'
  BY <1>8, <1>9, Parts DEF CallsConsistent, ApprovalsOfCalls, RefusedCallNeverSucceeds
<1>14. PendingAgrees'
  <2> SUFFICES ASSUME Durable PROVE PendingAgrees'
    BY DEF PendingAgrees
  <2>1. \A d \in Calls : log'.call[d].approval # "pending"
    BY <1>8, <1>9
  <2>2. log'.asked = {}
    BY <1>1, <1>4, Parts DEF CanDecide, CallsConsistent, PendingAgrees
  <2> QED
    BY <2>1, <2>2 DEF PendingAgrees
<1> QED
  BY <1>5, <1>6, <1>7, <1>10, <1>11, <1>12, <1>13, <1>14 DEF Consistent, CallsConsistent

\* tool/result: a refused call is answered by its refusal.
LEMMA ToolResultStep ==
  ASSUME Consistent, ToolResult
  PROVE  Consistent'
<1>1. PICK t \in Turns, s \in Steps, c \in Calls, code \in Codes :
        CanToolResult(log, t, s, c, code) /\ log' = AfterToolResult(log, c, code)
  BY DEF ToolResult
<1>2. PICK r \in Logs : r = Row(log)
  BY Parts
<1>3. /\ log'.call = [r.call EXCEPT ![c] =
                        IF Durable THEN [@ EXCEPT !.stage = "answered", !.result = code]
                        ELSE NoCall]
      /\ log'.order = r.order
      /\ AttemptOf(log') = AttemptOf(r)
      /\ IdsOf(log') = IdsOf(r) /\ AsksOf(log') = AsksOf(r) /\ ChainsOf(log') = ChainsOf(r)
      /\ BracketOf(log') = BracketOf(r) /\ MarkerOf(log') = MarkerOf(r)
  BY <1>1, <1>2 DEF AfterToolResult, Logs, MarkerOf
<1>4. /\ log'.call = [log.call EXCEPT ![c] =
                        IF Durable THEN [@ EXCEPT !.stage = "answered", !.result = code]
                        ELSE NoCall]
      /\ log'.order = log.order
      /\ AttemptOf(log') = AttemptOf(log)
      /\ IdsOf(log') = IdsOf(log) /\ AsksOf(log') = AsksOf(log)
      /\ ChainsOf(log') = ChainsOf(log) /\ BracketOf(log') = BracketOf(log)
  BY <1>2, <1>3, RowFacts, Parts
<1>5. TypeOK' /\ MarkerHasRoom'
  BY <1>2, <1>3, <1>4, TypeStep, MarkerFrame, Parts DEF Next
<1>6. BoundaryConsistent'
  <2>1. Free(log) /\ log'.asked = log.asked
    BY <1>1, <1>4 DEF CanToolResult
  <2> QED
    BY <1>4, <2>1, BoundaryFrame, Parts DEF BoundaryConsistent, BoundariesCloseClean
<1>7. RetriesConsistent'
  BY <1>4, RetriesFrame, Parts
<1>8. /\ \A d \in Calls : d # c => log'.call[d] = log.call[d]
      /\ ~Durable => log'.call[c] = NoCall
      /\ Durable => /\ log'.call[c].stage = "answered" /\ log'.call[c].result = code
                    /\ log'.call[c].approval = log.call[c].approval
  BY <1>4, CallTypes, Parts DEF CallStates
<1>9. Durable => log.call[c].stage = "started" /\ HonoursDecision(log, c, code)
  BY <1>1 DEF CanToolResult
<1>10. CallsFollowCommit'
  BY <1>4, Parts DEF CallsConsistent, CallsFollowCommit
<1>11. CallsInOrder'
  BY <1>4, <1>8, <1>9, OrderKept, Parts DEF CallsConsistent
<1>12. ApprovalsOfCalls'
  BY <1>8, <1>9, Parts DEF CallsConsistent, ApprovalsOfCalls, NoCall, HonoursDecision
<1>13. RefusedCallNeverSucceeds'
  BY <1>8, <1>9, Parts DEF CallsConsistent, RefusedCallNeverSucceeds, NoCall, HonoursDecision
<1>14. PendingAgrees'
  BY <1>4, <1>8, <1>9, Parts DEF CallsConsistent, PendingAgrees
<1> QED
  BY <1>5, <1>6, <1>7, <1>10, <1>11, <1>12, <1>13, <1>14 DEF Consistent, CallsConsistent

-----------------------------------------------------------------------------
(* The invariant, and the theorems it gives.                               *)

\* The empty log is consistent.
LEMMA ConsistentInit == Init => Consistent
<1> SUFFICES ASSUME log = EmptyLog PROVE Consistent
  BY DEF Init
<1>1. EmptyLog \in Logs
  <2>1. /\ 0 \in 0..MaxTurns /\ 1 \in 1..(MaxTurns + 1) /\ 0 \in 0..MaxSteps
        /\ 1 \in 1..(MaxSteps + 1) /\ 0 \in 0..MaxOrphans
    BY LogBounds
  <2>2. NoCalls \in [Calls -> CallStates] /\ <<>> \in Seq(Calls)
    BY CallFacts, NoOrder
  <2>3. /\ {} \in SUBSET Approvals /\ {} \in SUBSET Calls
        /\ {} \in SUBSET (Turns \X Steps \X (1..MaxRetries))
    OBVIOUS
  <2> QED
    BY <2>1, <2>2, <2>3 DEF EmptyLog, Logs
<1>2. /\ log.turn = 0 /\ log.nextTurn = 1 /\ log.step = 0 /\ log.nextStep = 1
      /\ log.attempt = "outside" /\ log.finish = "none" /\ log.overflow = "unused"
      /\ log.order = <<>> /\ log.call = NoCalls /\ log.asked = {} /\ log.owned = {}
      /\ log.scheduled = {} /\ log.started = {}
      /\ log.compaction = "none" /\ log.marker = "none" /\ log.orphans = 0
  BY DEF EmptyLog
<1>3. TypeOK
  BY <1>1, <1>2 DEF TypeOK
<1>4. MarkerHasRoom
  BY <1>2, LogBounds DEF MarkerHasRoom
<1>5. BoundaryConsistent
  BY <1>2 DEF BoundaryConsistent, OpenIdsCounted, AttemptOwnedByStep, BoundariesCloseClean,
     BracketAtRest, BracketOwnsQuietTurn, OverflowNeedsReplacement
<1>6. CallsConsistent
  BY <1>2 DEF CallsConsistent, CallsFollowCommit, CallsInOrder, ApprovalsOfCalls, PendingAgrees,
     RefusedCallNeverSucceeds, NoCalls, NoCall
<1>7. RetriesConsistent
  BY <1>2, FS_EmptySet DEF RetriesConsistent, RetriesNumbered, OneRetryWaits, RetryOwnsSlot
<1> QED
  BY <1>3, <1>4, <1>5, <1>6, <1>7 DEF Consistent

\* Every accepted row keeps the log consistent: one lemma per row.
LEMMA ConsistentStep == Consistent /\ [Next]_log => Consistent'
<1> SUFFICES ASSUME Consistent, [Next]_log PROVE Consistent'
  OBVIOUS
<1>1. CASE log' = log
  BY <1>1 DEF Consistent, TypeOK, MarkerHasRoom, BoundaryConsistent, OpenIdsCounted,
     AttemptOwnedByStep, BoundariesCloseClean, BracketAtRest, BracketOwnsQuietTurn,
     OverflowNeedsReplacement, CallsConsistent, CallsFollowCommit, CallsInOrder,
     ApprovalsOfCalls, PendingAgrees, RefusedCallNeverSucceeds, RetriesConsistent,
     RetriesNumbered, RetriesOf, OneRetryWaits, RetryOwnsSlot
<1>2. CASE Next
  BY <1>2, TurnStartStep, TurnEndStep, StepStartStep, StepEndStep, NoteStep, DispatchStep,
     ChunkStep, SealStep, AssistantMessageStep, LlmRetryStep, LlmRetryStartedStep,
     ToolCallStep, ApprovalAskedStep, ApprovalDecidedStep, ToolResultStep,
     CompactionPruneStep, RewriteStep, CompactionStartStep, CompactionSummaryStep,
     CheckpointStep, CompactionEndStep DEF Next
<1> QED
  BY <1>1, <1>2

\* Every log the grammar accepts is consistent.
THEOREM LogConsistent == Spec => []Consistent
BY ConsistentInit, ConsistentStep, PTL DEF Spec

\* The fold is typed and its counters stay within their bounds.
THEOREM TypeCorrect == Spec => []TypeOK
<1>1. Consistent => TypeOK
  BY DEF Consistent
<1> QED
  BY <1>1, LogConsistent, PTL

\* Boundaries: apply_transition and the attempt projection let no approval,
\* overflow recovery or finish reason outlive its turn or step.
THEOREM BoundariesClean == Spec => []BoundariesCloseClean
<1>1. Consistent => BoundariesCloseClean
  BY DEF Consistent, BoundaryConsistent
<1> QED
  BY <1>1, LogConsistent, PTL

\* Retries: the slot of the attempt waits exactly for the unstarted retry of
\* the open step, whatever late starts of older steps' retries are reported.
THEOREM RetrySlotOwned == Spec => []RetryOwnsSlot
<1>1. Consistent => RetryOwnsSlot
  BY DEF Consistent, RetriesConsistent
<1> QED
  BY <1>1, LogConsistent, PTL

\* Overflow: no attempt streams between a context overflow and a replacement.
THEOREM OverflowReplaced == Spec => []OverflowNeedsReplacement
<1>1. Consistent => OverflowNeedsReplacement
  BY DEF Consistent, BoundaryConsistent
<1> QED
  BY <1>1, LogConsistent, PTL

\* Approvals: a refused call is answered by its refusal.
THEOREM RefusalsStand == Spec => []RefusedCallNeverSucceeds
<1>1. Consistent => RefusedCallNeverSucceeds
  BY DEF Consistent, CallsConsistent
<1> QED
  BY <1>1, LogConsistent, PTL

\* Compaction: an open bracket belongs to the open turn and to no call or
\* approval.
THEOREM BracketQuiet == Spec => []BracketOwnsQuietTurn
<1>1. Consistent => BracketOwnsQuietTurn
  BY DEF Consistent, BoundaryConsistent
<1> QED
  BY <1>1, LogConsistent, PTL

\* Only the rows of the bracket itself continue a log whose bracket is open;
\* sealing an attempt would too, but BracketAtRest leaves none to seal.
LEMMA OpenBracketRows ==
  ASSUME Consistent, Next, log.compaction # "none"
  PROVE  CompactionSummary \/ Checkpoint \/ CompactionEnd
<1>1. ~Seal
  BY Parts DEF Seal, CanSeal, BoundaryConsistent, BracketAtRest
<1>2. ~(TurnStart \/ TurnEnd \/ StepStart \/ StepEnd \/ Note \/ Dispatch \/ Chunk)
  BY DEF TurnStart, CanTurnStart, TurnEnd, CanTurnEnd, StepStart, CanStepStart,
     StepEnd, CanStepEnd, Note, CanNote, Dispatch, CanDispatch, Chunk, CanChunk
<1>3. ~(AssistantMessage \/ LlmRetry \/ LlmRetryStarted \/ ToolCall \/ ToolResult)
  BY DEF AssistantMessage, CanAssistant, LlmRetry, CanRetry, LlmRetryStarted, CanRetryStarted,
     ToolCall, CanToolCall, ToolResult, CanToolResult
<1>4. ~(ApprovalAsked \/ ApprovalDecided \/ CompactionPrune \/ Rewrite \/ CompactionStart)
  BY DEF ApprovalAsked, CanAsk, ApprovalDecided, CanDecide, CompactionPrune, CanPrune,
     Rewrite, CanRewrite, CompactionStart, CanCompactionStart
<1> QED
  BY <1>1, <1>2, <1>3, <1>4 DEF Next

\* Compaction: no boundary, attempt, call, approval or retry row slips into an
\* open bracket (advance_open_compaction).
THEOREM BracketKeptIsolated == Spec => BracketIsolated
<1> DEFINE Isolated ==
      log.compaction # "none" =>
       /\ log'.turn = log.turn /\ log'.step = log.step
       /\ log'.attempt = log.attempt /\ log'.call = log.call
       /\ log'.owned = log.owned /\ log'.asked = log.asked
       /\ log'.scheduled = log.scheduled /\ log'.started = log.started
<1>1. ASSUME Consistent, Next, log.compaction # "none" PROVE Isolated
  <2>1. PICK r \in Logs : r = Row(log)
    BY <1>1, Parts
  <2>2. /\ IdsOf(log') = IdsOf(r) /\ log'.attempt = r.attempt /\ CallsOf(log') = CallsOf(r)
        /\ AsksOf(log') = AsksOf(r) /\ ChainsOf(log') = ChainsOf(r)
    <3>1. CASE CompactionSummary
      BY <2>1, <3>1 DEF CompactionSummary, AfterSummary, Logs
    <3>2. CASE Checkpoint
      BY <2>1, <3>2 DEF Checkpoint, AfterCheckpoint, Logs
    <3>3. CASE CompactionEnd
      BY <2>1, <3>3 DEF CompactionEnd, AfterCompactionEnd, Logs
    <3> QED
      BY <1>1, <3>1, <3>2, <3>3, OpenBracketRows
  <2> QED
    BY <1>1, <2>1, <2>2, RowFacts, Parts
<1>2. Consistent /\ [Next]_log => [Isolated]_log
  BY <1>1
<1> QED
  BY <1>2, LogConsistent, PTL DEF Spec, BracketIsolated
=============================================================================
