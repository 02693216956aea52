--------------------------- MODULE SessionProjection ---------------------------
(***************************************************************************)
(* The grammar of a session log (src/src/session/projection.rs and         *)
(* attempt_anchor.rs).  A Projection folds the committed rows; with_event, *)
(* prepare_durable_event and the token-owned variants refuse a row that    *)
(* does not continue the log.  This module is that acceptor: for each kind *)
(* of row an operator CanX(l, ...), the conjunction of every refusal the   *)
(* source makes, and AfterX(l, ...), the fold after the row.  The          *)
(* specification submits every row at every moment, so a property here     *)
(* says what no sequence of accepted rows can do.  Components that write   *)
(* rows apply AfterX and are shown to follow this specification.           *)
(*                                                                         *)
(* Data is abstract: ids of messages, ranges, token prices and digests are *)
(* taken to match; the ids whose order or reuse matters (turn, step, retry *)
(* number, call, approval) are kept.                                       *)
(***************************************************************************)
EXTENDS Naturals, FiniteSets, Sequences

CONSTANTS Durable,    \* ValidationPolicy::DurableStrict or MemoryCompatible
          Calls,      \* tool call ids
          Approvals,  \* approval ids
          MaxTurns, MaxSteps,  \* bounds: turns of the log, steps of a turn
          MaxRetries,          \* bound: retries of one step
          MaxOrphans           \* bound: prune markers without their rewrite

ASSUME PolicyIsBool == Durable \in BOOLEAN
ASSUME IdsFinite == IsFiniteSet(Calls) /\ IsFiniteSet(Approvals)
ASSUME NoneIsNoCall == "none" \notin Calls
ASSUME LogBounds == {MaxTurns, MaxSteps, MaxRetries, MaxOrphans} \subseteq Nat

VARIABLE log

Turns == 1..MaxTurns
Steps == 1..MaxSteps
Outcomes == {"allowed", "rejected", "cancelled", "unavailable"}
Failures == {"error", "overflow"}
OpenAttempt == {"streaming", "finished", "sealed"}
ClosedAttempt == {"ready", "retryScheduled", "committed"}
Dispositions == {"failed", "cancelled"}
Triggers == {"pressure", "hardLimit", "contextOverflow"}

NoCall == [stage |-> "absent", approval |-> "none", result |-> "none"]
NoCalls == [c \in Calls |-> NoCall]

EmptyLog ==
  [turn |-> 0, nextTurn |-> 1,         \* open turn (0: Boundary::Idle)
   step |-> 0, nextStep |-> 1,         \* open step (0: Boundary::Turn)
   attempt |-> "outside",              \* AttemptState
   finish |-> "none",                  \* its FinishReason
   overflow |-> "unused",              \* context-overflow recovery of the step
   order |-> <<>>, call |-> NoCalls,   \* declared_calls / pending_calls
   asked |-> {}, owned |-> {},         \* pending_approvals, owned_approval_ids
   scheduled |-> {}, started |-> {},   \* retry_schedules
   compaction |-> "none", owner |-> 0, \* OpenCompaction
   marker |-> "none", orphans |-> 0,   \* prune_claim, orphan_prune_count
   results |-> {}]                     \* tool results on the model surface

Init == log = EmptyLog

-----------------------------------------------------------------------------
(* What every row meets.                                                   *)

Free_AfterCheckpoint(l) == l.compaction \in {"none", "replaced"}

\* advance_open_compaction: an open bracket admits no foreign row.
Free(l) == l.compaction = "none"

\* apply_prune_adjacency: a row that is not the rewrite its marker announced
\* leaves the marker an orphan.
Row(l) ==
  [l EXCEPT !.marker = "none",
            !.orphans = @ + (IF l.marker = "none" THEN 0 ELSE 1)]

\* apply_prune_adjacency: after a marker no other surface replacement.
NoMarker(l) == l.marker = "none"

InStep(l, t, s) == l.turn = t /\ l.step = s /\ t # 0 /\ s # 0

\* MemoryCompatible keeps the attempt fold outside until a token begins one.
Compatible(l) == ~Durable /\ l.attempt = "outside"

\* reject_unowned_attempt_event, and the token check of the owned variants.
AttemptRow(l, owned) == IF owned THEN l.attempt # "outside" ELSE Compatible(l)

-----------------------------------------------------------------------------
(* Turns and steps: apply_transition, and AttemptProjection::step_start    *)
(* and step_end.                                                           *)

CanTurnStart(l, t) == Free(l) /\ l.turn = 0 /\ t = l.nextTurn
AfterTurnStart(l, t) == [Row(l) EXCEPT !.turn = t, !.step = 0, !.nextStep = 1]

\* TurnEndReason::Interrupted belongs to recovery.
CanTurnEnd(l, t, reason) ==
  /\ Free(l) /\ l.turn = t /\ t # 0 /\ l.step = 0 /\ l.asked = {}
  /\ Durable => reason # "interrupted"
AfterTurnEnd(l, t) == [Row(l) EXCEPT !.turn = 0, !.nextTurn = t + 1]

CanStepStart(l, t, s) ==
  /\ Free(l) /\ l.turn = t /\ t # 0 /\ l.step = 0 /\ s = l.nextStep
  /\ l.attempt = "outside"
AfterStepStart(l, s) ==
  [Row(l) EXCEPT !.step = s, !.order = <<>>, !.call = NoCalls,
                 !.attempt = IF Durable THEN "ready" ELSE @]

\* durable: every declared call has its result before its step ends.
AllAnswered(l) ==
  Durable => \A c \in Calls : l.call[c].stage \in {"absent", "answered"}

\* An open attempt needs an explicit disposition, a closed one must have none.
ClosesAttempt(l, disposition) ==
  IF disposition = "none"
  THEN l.attempt \in ClosedAttempt \/ Compatible(l)
  ELSE l.attempt \in OpenAttempt

CanStepEnd(l, t, s, disposition) ==
  /\ Free(l) /\ InStep(l, t, s)
  /\ AllAnswered(l) /\ l.asked = {}
  /\ ClosesAttempt(l, disposition)

AfterStepEnd_KeepsRecovery(l, s) ==
  [Row(l) EXCEPT !.step = 0, !.nextStep = s + 1, !.order = <<>>, !.call = NoCalls,
                 !.attempt = "outside", !.finish = "none"]

AfterStepEnd(l, s) ==
  [Row(l) EXCEPT !.step = 0, !.nextStep = s + 1, !.order = <<>>, !.call = NoCalls,
                 !.attempt = "outside", !.finish = "none", !.overflow = "unused"]

\* user/message, and the rows that need an open turn (request/header,
\* request/context, todo/write).
CanNote(l, needsTurn) == Free(l) /\ (needsTurn => l.turn # 0)
AfterNote(l) == Row(l)

-----------------------------------------------------------------------------
(* Provider attempts.                                                      *)

MayReplay_Early(l) == TRUE

\* require_context_replay_progress: after a context overflow nothing is sent
\* again before a replacement shrank the surface.
MayReplay(l) == l.overflow # "waiting"

\* prepare_live_attempt: no row; the token's attempt starts streaming.
CanDispatch(l, t, s) ==
  /\ Free(l) /\ InStep(l, t, s)
  /\ l.attempt = "ready" \/ Compatible(l)
  /\ MayReplay(l)
AfterDispatch(l) == [l EXCEPT !.attempt = "streaming", !.finish = "none"]

\* prepare_chunk: "more" continues the stream, a finish reason ends it.
CanChunk(l, t, s, owned) ==
  /\ Free(l) /\ InStep(l, t, s) /\ AttemptRow(l, owned)
  /\ owned => \/ l.attempt = "streaming"
              \/ l.attempt = "ready" /\ MayReplay(l)
AfterChunk(l, finish, owned) ==
  IF ~owned THEN Row(l)
  ELSE IF finish = "more" THEN [Row(l) EXCEPT !.attempt = "streaming"]
  ELSE [Row(l) EXCEPT !.attempt = "finished", !.finish = finish]

\* take_prepared: the fold moves to the caller, a digest stays.
CanSeal(l) == l.attempt = "finished"
AfterSeal(l) == [l EXCEPT !.attempt = "sealed"]

TerminalAttempt(l) == l.attempt \in {"finished", "sealed"}

\* assistant, register_durable_declarations.
CanAssistant(l, t, s, calls, owned) ==
  /\ Free(l) /\ InStep(l, t, s) /\ AttemptRow(l, owned)
  /\ owned => TerminalAttempt(l) /\ l.finish = "ok"
  /\ Durable => /\ \A i, j \in DOMAIN calls : i # j => calls[i] # calls[j]
                /\ \A i \in DOMAIN calls : l.call[calls[i]].stage = "absent"
Declared(l, calls) ==
  [c \in Calls |-> IF \E i \in DOMAIN calls : calls[i] = c
                   THEN [NoCall EXCEPT !.stage = "declared"] ELSE l.call[c]]
AfterAssistant(l, calls, owned) ==
  [Row(l) EXCEPT !.attempt = IF owned THEN "committed" ELSE @,
                 !.order = IF Durable THEN @ \o calls ELSE @,
                 !.call = IF Durable THEN Declared(l, calls) ELSE @]

RetriesOf(l, t, s) == {r \in l.scheduled : r[1] = t /\ r[2] = s}

\* AttemptProjection::retry and apply_retry: the next number of the chain.
CanRetry(l, t, s, n, owned) ==
  /\ Free(l) /\ InStep(l, t, s) /\ AttemptRow(l, owned)
  /\ owned => TerminalAttempt(l) /\ l.finish \in Failures
  /\ n = Cardinality(RetriesOf(l, t, s)) + 1
AfterRetry(l, t, s, n, owned) ==
  [Row(l) EXCEPT !.attempt = IF owned THEN "retryScheduled" ELSE @,
                 !.scheduled = @ \cup {<<t, s, n>>}]

\* Does this start concern the attempt slot?  A delayed callback may report a
\* retry of a step that has already ended.
Reopens(l, t, s) == InStep(l, t, s) /\ ~Compatible(l)

\* apply_retry_started, then retry_started when its step is still open.
CanRetryStarted(l, t, s, n) ==
  /\ Free(l)
  /\ <<t, s, n>> \in l.scheduled \ l.started
  /\ Reopens(l, t, s) => l.attempt = "retryScheduled"

ReopenSlot_AnyStep(l, t, s) == IF l.attempt = "retryScheduled" THEN "ready" ELSE l.attempt

ReopenSlot(l, t, s) == IF Reopens(l, t, s) THEN "ready" ELSE l.attempt


AfterRetryStarted(l, t, s, n) ==
  [Row(l) EXCEPT !.started = @ \cup {<<t, s, n>>}, !.attempt = ReopenSlot(l, t, s)]

\* context_overflow: the terminal failure that authorises one recovery.
CanOverflow(l) ==
  /\ l.step # 0 /\ TerminalAttempt(l)
  /\ l.finish = "overflow" /\ l.overflow = "unused"

-----------------------------------------------------------------------------
(* Tool calls and approvals.                                               *)

\* promote_durable_call: the declared calls start in declaration order.
IsNextCall(l, c) ==
  \E i \in DOMAIN l.order :
    /\ l.order[i] = c /\ l.call[c].stage = "declared"
    /\ \A j \in 1..(i - 1) : l.call[l.order[j]].stage # "declared"
CanToolCall(l, t, s, c) ==
  Free(l) /\ InStep(l, t, s) /\ (Durable => IsNextCall(l, c))
AfterToolCall(l, c) == [Row(l) EXCEPT !.call[c].stage = "started"]

\* ask_durable_approval.
CanAsk(l, a, c) ==
  /\ Free(l) /\ l.turn # 0 /\ a \notin l.owned
  /\ Durable => /\ l.asked = {} /\ l.step # 0
                /\ l.call[c] = [NoCall EXCEPT !.stage = "started"]
AfterAsk(l, a, c) ==
  [Row(l) EXCEPT !.asked = @ \cup {a}, !.owned = @ \cup {a},
                 !.call[c].approval = IF Durable THEN "pending" ELSE @]

\* decide_durable_approval; the pending approval is unique when durable.
CanDecide(l, a) == Free(l) /\ l.turn # 0 /\ a \in l.asked

AfterDecide(l, a, outcome) ==
  [Row(l) EXCEPT !.asked = @ \ {a},
                 !.call = [c \in Calls |->
                             IF l.call[c].approval = "pending"
                             THEN [l.call[c] EXCEPT !.approval = outcome]
                             ELSE l.call[c]]]

HonoursDecision_AnyCode(l, c, code) == l.call[c].approval # "pending"

\* resolve_durable_call: not before the decision, and a refusal is reported as
\* exactly that refusal.
HonoursDecision(l, c, code) ==
  /\ l.call[c].approval # "pending"
  /\ l.call[c].approval \in Outcomes \ {"allowed"} => code = l.call[c].approval

\* Durable ordinary rows answer a started call, from its own tool/call row.
\* Memory rows also admit TOOL_NOT_STARTED for a call that never started.
CanToolResult(l, t, s, c, code) ==
  /\ Free(l) /\ InStep(l, t, s)
  /\ \/ l.call[c].stage = "started"
     \/ ~Durable /\ code = "notStarted"
  /\ Durable => HonoursDecision(l, c, code)
AfterToolResult(l, c, code) ==
  [Row(l) EXCEPT !.call[c] = IF Durable
                             THEN [@ EXCEPT !.stage = "answered", !.result = code]
                             ELSE NoCall,
                 !.results = @ \cup {c}]

-----------------------------------------------------------------------------
(* Prune markers and compaction brackets.                                  *)

\* compaction/prune; when durable only through the owned variant.  With
\* closes, the marker is the closure of an overflowed attempt.
CanPrune(l, c, owned, closes) ==
  /\ Free(l) /\ c \in l.results
  /\ Durable => owned
  /\ closes => owned /\ CanOverflow(l)
AfterPrune(l, c, closes) ==
  [Row(l) EXCEPT !.marker = c,
                 !.attempt = IF closes THEN "ready" ELSE @,
                 !.overflow = IF closes THEN "waiting" ELSE @]

\* A replacement is the progress an overflowed step waits for.
Progress(l) == IF l.overflow = "waiting" THEN "replaced" ELSE l.overflow

\* The rewrite the marker announced (memory also admits one without marker).
CanRewrite(l, c, owned) ==
  /\ Free(l) /\ l.turn # 0 /\ c \in l.results
  /\ l.marker = c \/ (~Durable /\ NoMarker(l))
  /\ Durable => owned
AfterRewrite(l) ==
  [l EXCEPT !.marker = "none",
            !.overflow = IF l.marker = "none" THEN @ ELSE Progress(l)]

PlaceOf(l, trigger) ==
  IF trigger = "contextOverflow" THEN l.step # 0 ELSE l.turn # 0 /\ l.step = 0

CanCompactionStart_AnyOwner(l, owner, trigger, closes) ==
  /\ Free(l) /\ PlaceOf(l, trigger)
  /\ l.asked = {}
  /\ \A c \in Calls : l.call[c].stage \in {"absent", "answered"}
  /\ closes => trigger = "contextOverflow" /\ CanOverflow(l)
  /\ trigger = "contextOverflow" => closes \/ Compatible(l)

\* validate_compaction_start, validate_compaction_dispatch; the overflow
\* trigger only as the closure of its attempt.
CanCompactionStart(l, owner, trigger, closes) ==
  /\ Free(l) /\ owner = l.turn /\ PlaceOf(l, trigger)
  /\ l.asked = {}
  /\ \A c \in Calls : l.call[c].stage \in {"absent", "answered"}
  /\ closes => trigger = "contextOverflow" /\ CanOverflow(l)
  /\ trigger = "contextOverflow" => closes \/ Compatible(l)
AfterCompactionStart(l, owner, closes) ==
  [Row(l) EXCEPT !.compaction = "started", !.owner = owner,
                 !.attempt = IF closes THEN "ready" ELSE @,
                 !.overflow = IF closes THEN "waiting" ELSE @]

CanSummary(l) == l.compaction = "started"
AfterSummary(l) == [Row(l) EXCEPT !.compaction = "summarized"]

\* The checkpoint shadows a prefix of the surface.
CanCheckpoint(l) == l.compaction = "summarized" /\ NoMarker(l)
AfterCheckpoint(l, shadowed) ==
  [Row(l) EXCEPT !.compaction = "replaced", !.overflow = Progress(l),
                 !.results = @ \ shadowed]

CanCompactionEnd(l, success) ==
  /\ l.compaction # "none" /\ l.owner = l.turn
  /\ success => l.compaction = "replaced"
AfterCompactionEnd(l) == [Row(l) EXCEPT !.compaction = "none", !.owner = 0]

-----------------------------------------------------------------------------
(* The submitter: any row, at any time.                                    *)

TurnStart == \E t \in Turns : CanTurnStart(log, t) /\ log' = AfterTurnStart(log, t)
TurnEnd ==
  \E t \in Turns, reason \in {"normal", "interrupted"} :
    CanTurnEnd(log, t, reason) /\ log' = AfterTurnEnd(log, t)
StepStart ==
  \E t \in Turns, s \in Steps : CanStepStart(log, t, s) /\ log' = AfterStepStart(log, s)
StepEnd ==
  \E t \in Turns, s \in Steps, disposition \in Dispositions \cup {"none"} :
    CanStepEnd(log, t, s, disposition) /\ log' = AfterStepEnd(log, s)
Note ==
  \E needsTurn \in BOOLEAN : CanNote(log, needsTurn) /\ log' = AfterNote(log)
Dispatch ==
  \E t \in Turns, s \in Steps : CanDispatch(log, t, s) /\ log' = AfterDispatch(log)
Chunk ==
  \E t \in Turns, s \in Steps, finish \in {"more", "ok"} \cup Failures, owned \in BOOLEAN :
    CanChunk(log, t, s, owned) /\ log' = AfterChunk(log, finish, owned)
Seal == CanSeal(log) /\ log' = AfterSeal(log)

\* The calls of one assistant message, in declaration order.
CallLists ==
  {calls \in UNION {[1..n -> Calls] : n \in 0..Cardinality(Calls)} :
     \A i, j \in DOMAIN calls : i # j => calls[i] # calls[j]}
AssistantMessage ==
  \E t \in Turns, s \in Steps, calls \in CallLists, owned \in BOOLEAN :
    CanAssistant(log, t, s, calls, owned) /\ log' = AfterAssistant(log, calls, owned)
LlmRetry ==
  \E t \in Turns, s \in Steps, n \in 1..MaxRetries, owned \in BOOLEAN :
    CanRetry(log, t, s, n, owned) /\ log' = AfterRetry(log, t, s, n, owned)
LlmRetryStarted ==
  \E t \in Turns, s \in Steps, n \in 1..MaxRetries :
    CanRetryStarted(log, t, s, n) /\ log' = AfterRetryStarted(log, t, s, n)
ToolCall ==
  \E t \in Turns, s \in Steps, c \in Calls :
    CanToolCall(log, t, s, c) /\ log' = AfterToolCall(log, c)
ApprovalAsked ==
  \E a \in Approvals, c \in Calls : CanAsk(log, a, c) /\ log' = AfterAsk(log, a, c)
ApprovalDecided ==
  \E a \in Approvals, outcome \in Outcomes :
    CanDecide(log, a) /\ log' = AfterDecide(log, a, outcome)

Codes == {"ok", "error", "notStarted"} \cup (Outcomes \ {"allowed"})
ToolResult ==
  \E t \in Turns, s \in Steps, c \in Calls, code \in Codes :
    CanToolResult(log, t, s, c, code) /\ log' = AfterToolResult(log, c, code)
CompactionPrune ==
  \E c \in Calls, owned, closes \in BOOLEAN :
    /\ Row(log).orphans < MaxOrphans
    /\ CanPrune(log, c, owned, closes) /\ log' = AfterPrune(log, c, closes)
Rewrite ==
  \E c \in Calls, owned \in BOOLEAN :
    CanRewrite(log, c, owned) /\ log' = AfterRewrite(log)
CompactionStart ==
  \E owner \in 0..MaxTurns, trigger \in Triggers, closes \in BOOLEAN :
    /\ CanCompactionStart(log, owner, trigger, closes)
    /\ log' = AfterCompactionStart(log, owner, closes)
CompactionSummary == CanSummary(log) /\ log' = AfterSummary(log)
Checkpoint ==
  \E shadowed \in SUBSET log.results :
    CanCheckpoint(log) /\ log' = AfterCheckpoint(log, shadowed)
CompactionEnd ==
  \E success \in BOOLEAN :
    CanCompactionEnd(log, success) /\ log' = AfterCompactionEnd(log)

Next ==
  \/ TurnStart \/ TurnEnd \/ StepStart \/ StepEnd \/ Note
  \/ Dispatch \/ Chunk \/ Seal \/ AssistantMessage \/ LlmRetry \/ LlmRetryStarted
  \/ ToolCall \/ ApprovalAsked \/ ApprovalDecided \/ ToolResult
  \/ CompactionPrune \/ Rewrite
  \/ CompactionStart \/ CompactionSummary \/ Checkpoint \/ CompactionEnd

Spec == Init /\ [][Next]_log

-----------------------------------------------------------------------------
(* Properties.                                                             *)

CallStates ==
  [stage : {"absent", "declared", "started", "answered"},
   approval : {"none", "pending"} \cup Outcomes,
   result : {"none"} \cup Codes]

Logs ==
  [turn : 0..MaxTurns, nextTurn : 1..(MaxTurns + 1),
   step : 0..MaxSteps, nextStep : 1..(MaxSteps + 1),
   attempt : {"outside"} \cup OpenAttempt \cup ClosedAttempt,
   finish : {"none", "ok"} \cup Failures,
   overflow : {"unused", "waiting", "replaced"},
   order : Seq(Calls), call : [Calls -> CallStates],
   asked : SUBSET Approvals, owned : SUBSET Approvals,
   scheduled : SUBSET (Turns \X Steps \X (1..MaxRetries)),
   started : SUBSET (Turns \X Steps \X (1..MaxRetries)),
   compaction : {"none", "started", "summarized", "replaced"}, owner : 0..MaxTurns,
   marker : Calls \cup {"none"}, orphans : 0..MaxOrphans,
   results : SUBSET Calls]

\* Every component of the fold has its type; ids never run past their bound.
TypeOK == log \in Logs /\ log.asked \subseteq log.owned /\ log.started \subseteq log.scheduled

\* Nothing survives the boundary it belongs to: no approval waits when its
\* turn (durable: its step) is closed, no overflow recovery outlives its step.
BoundariesCloseClean ==
  /\ log.turn = 0 => log.asked = {}
  /\ Durable /\ log.step = 0 => log.asked = {}
  /\ log.step = 0 => log.overflow = "unused" /\ log.finish = "none"

\* An open compaction bracket belongs to the open turn and begins with nothing
\* unsettled.
BracketOwnsQuietTurn ==
  log.compaction # "none" =>
    /\ log.owner = log.turn /\ log.turn # 0
    /\ log.asked = {}
    /\ \A c \in Calls : log.call[c].stage \in {"absent", "answered"}

\* No row of the turn slips into an open bracket: boundaries, attempts, calls,
\* approvals and retries stand still until it ends.
BracketIsolated ==
  [][log.compaction # "none" =>
       /\ log'.turn = log.turn /\ log'.step = log.step
       /\ log'.attempt = log.attempt /\ log'.call = log.call
       /\ log'.owned = log.owned /\ log'.asked = log.asked
       /\ log'.scheduled = log.scheduled /\ log'.started = log.started]_log

\* A call whose approval was refused is answered by that very refusal.
RefusedCallNeverSucceeds ==
  \A c \in Calls :
    log.call[c].stage = "answered" /\ log.call[c].approval \in Outcomes \ {"allowed"}
      => log.call[c].result = log.call[c].approval

\* The attempt slot waits for a retry exactly while the open step has a retry
\* that is scheduled and not started; a late start of an old step's retry does
\* not hand the slot to a new attempt.
RetryOwnsSlot ==
  Durable =>
    (log.attempt = "retryScheduled" <=>
       \E n \in 1..MaxRetries :
         <<log.turn, log.step, n>> \in log.scheduled \ log.started)

\* After a context overflow no provider stream runs before a replacement.
OverflowNeedsReplacement == log.overflow = "waiting" => log.attempt = "ready"

=============================================================================
