------------------------------ MODULE TurnDriver ------------------------------
(***************************************************************************)
(* One agent turn (src/src/agent/mod.rs, agent/compaction.rs): run_turn    *)
(* claims its boundary, prepares and preflights each model request, makes  *)
(* room for it (pruning tool results, one summary), enters a step, drives  *)
(* the provider attempts of the step with their retries, commits the       *)
(* answer and its tool round, and closes step and turn.                    *)
(*                                                                         *)
(* The caller's cancellation and the turn deadline may come between any    *)
(* two steps; the session observer may be lost with any committed row; the *)
(* session may refuse any row that was not claimed.  What one tool does    *)
(* inside a round is abstract here.  The rows written follow               *)
(* SessionProjection.                                                      *)
(***************************************************************************)
EXTENDS Naturals, FiniteSets, Sequences

CONSTANTS Durable,    \* Session::is_durable
          Calls,      \* tool call ids
          Approvals,  \* approval ids of the log grammar
          MaxSteps,   \* max_steps_per_turn
          MaxAttempts,\* max_attempts_per_turn
          MaxRetries, \* max_retries_per_step
          MaxTurns,   \* bound: turns run
          MaxOrphans  \* bound: prune markers without their rewrite

ASSUME DriverLimits == {MaxSteps, MaxAttempts, MaxRetries} \subseteq Nat \ {0}
ASSUME DriverIds ==
  /\ Durable \in BOOLEAN /\ {MaxTurns, MaxOrphans} \subseteq Nat
  /\ IsFiniteSet(Calls) /\ "none" \notin Calls

VARIABLES pc, log,
          cancelled, expired,  \* the caller's token, the turn deadline
          observer,            \* "up" or "down" (ui_observer_faulted)
          dirty,               \* rows committed since the last barrier
          claims,              \* closure rows reserved by the turn
          token,               \* AttemptToken: "none", "open", "closed"
          oversized,           \* tool results a prune would shrink
          run,                 \* Driver, and the locals of the running turn
          loop                 \* AgentLoop, and what run_turn returned last

L == INSTANCE SessionProjection

env == <<cancelled, expired>>
rows == <<log, dirty, observer>>
vars == <<pc, env, rows, claims, token, oversized, run, loop>>

Preps == {"ready", "pressure", "preparedFailure", "deferred", "hardLimit"}

NewRun ==
  [steps |-> 0, attempts |-> 0, retries |-> 0, \* counters, retries of the step
   inputs |-> FALSE,         \* proposed messages not yet in the log
   prep |-> "none",          \* AttemptPreparation
   fresh |-> FALSE,          \* PreflightedRequest::matches_surface
   trigger |-> "none",       \* CompactionTrigger being served
   progress |-> FALSE,       \* replacements of the running prune pass
   summaryTried |-> FALSE,   \* summary_attempted
   todo |-> <<>>,            \* tool calls of the round not yet started
   outcome |-> "none",       \* prune, compaction or step outcome
   stop |-> "none",          \* latched_turn_stop
   limit |-> FALSE,          \* durable_limit
   lost |-> FALSE,           \* observer_unavailable
   reason |-> "none", fallback |-> FALSE] \* TurnEndReason, used_fallback

Init ==
  /\ pc = "idle" /\ log = L!EmptyLog
  /\ cancelled = FALSE /\ expired = FALSE /\ observer = "up" /\ dirty = FALSE
  /\ claims = {} /\ token = "none" /\ oversized = {} /\ run = NewRun
  /\ loop = [poisoned |-> FALSE, headerLogged |-> FALSE,
             unresolved |-> FALSE, \* a tool call of the surface has no result
             result |-> "none", reason |-> "none", recorded |-> "none"]

-----------------------------------------------------------------------------
(* Vocabulary.                                                             *)

\* publish_committed: the observer is fed with each committed row, and it is
\* then that its loss is noticed.
Commit(l) ==
  /\ log' = l /\ dirty' = TRUE
  /\ observer' \in (IF observer = "up" THEN {"up", "down"} ELSE {"down"})
NoRow == UNCHANGED rows

\* dispatch_barrier.
Flush == dirty' = FALSE /\ UNCHANGED <<log, observer>>

\* failure_for_budget: a durable refusal is latched, a memory one is not.
Refused(r) == [r EXCEPT !.limit = @ \/ Durable]
Refusal == IF Durable THEN "limit" ELSE "budget"

Close(r, reason) == pc' = "closing" /\ run' = [r EXCEPT !.reason = reason]

\* UnstartedStepClaims::release, then the turn's reason.
Unstarted == {"stepStart", "stepEnd"}
CloseUnstarted_AllClaims(r, reason) == claims' = {} /\ Close(r, reason)

CloseUnstarted(r, reason) == claims' = claims \ Unstarted /\ Close(r, reason)

StepDone(r, outcome) == pc' = "stepEnd" /\ run' = [r EXCEPT !.outcome = outcome]
Goto(p, r) == pc' = p /\ run' = r

\* prepare_conversation_request, against the surface as it is now.
Prepared(r, prep) == [r EXCEPT !.prep = prep, !.fresh = TRUE]

\* pre_step_stop.
PreStepStop ==
  IF run.limit THEN "limit"
  ELSE IF cancelled THEN "aborted"
  ELSE IF expired THEN "timeout" ELSE "none"

\* cancellation, then the deadline: the order of every check in run_step.
Interrupt == IF cancelled THEN "cancelled" ELSE IF expired THEN "timeout" ELSE "none"

-----------------------------------------------------------------------------
(* The environment.                                                        *)

Cancel ==
  /\ pc # "idle" /\ ~cancelled /\ cancelled' = TRUE
  /\ UNCHANGED <<pc, expired, rows, claims, token, oversized, run, loop>>
Expire ==
  /\ pc # "idle" /\ ~expired /\ expired' = TRUE
  /\ UNCHANGED <<pc, cancelled, rows, claims, token, oversized, run, loop>>

\* A storage failure, or an error that no step end may pass (a pending
\* irreversible result): run_turn returns Err and leaves the log as it is.
Abandon ==
  /\ pc # "idle" /\ pc' = "idle"
  /\ claims' = {} /\ token' = "none" /\ run' = NewRun
  /\ loop' = [loop EXCEPT !.poisoned = TRUE, !.result = "err"]
  /\ UNCHANGED <<env, rows, oversized>>

-----------------------------------------------------------------------------
(* The turn: run_turn, run_turn_inner, run_entered_turn.                   *)

StartTurn ==
  /\ pc = "idle" /\ ~loop.poisoned /\ log.turn = 0 /\ log.nextTurn <= MaxTurns
  /\ cancelled' \in BOOLEAN /\ expired' = FALSE
  /\ UNCHANGED <<token, oversized>>
  /\ \/ /\ Commit(L!AfterTurnStart(log, log.nextTurn))
        /\ claims' = {"turnEnd"} /\ Goto("opened", NewRun)
        /\ UNCHANGED loop
     \/ /\ loop' = [loop EXCEPT !.poisoned = TRUE, !.result = "err"]
        /\ UNCHANGED <<pc, rows, claims, run>>

Opened ==
  /\ pc = "opened"
  /\ IF cancelled THEN Close(run, "aborted")
     ELSE \/ Close(run, "blocked")
          \/ Close(run, "completed")
          \/ Goto("top", [run EXCEPT !.inputs = TRUE])
  /\ NoRow /\ UNCHANGED <<env, claims, token, oversized, loop>>

\* The head of run_entered_turn's loop, with the claims of the next step and
\* its first preparation (none once the attempts are used up).
Top ==
  /\ pc = "top"
  /\ NoRow /\ UNCHANGED <<env, token, oversized, loop>>
  /\ CASE cancelled -> Close(run, "aborted") /\ UNCHANGED claims
       [] ~cancelled /\ expired -> Close(run, "timeout") /\ UNCHANGED claims
       [] ~cancelled /\ ~expired /\ run.steps >= MaxSteps ->
            Close(run, "error") /\ UNCHANGED claims
       [] OTHER ->
            \/ Close(Refused(run), Refusal) /\ UNCHANGED claims
            \/ /\ claims' = claims \cup Unstarted
               /\ IF run.attempts >= MaxAttempts
                  THEN Goto("enter", [run EXCEPT !.prep = "none"])
                  ELSE \E prep \in Preps : Goto("prepared", Prepared(run, prep))

FirstPrepared ==
  /\ pc = "prepared"
  /\ IF PreStepStop # "none" THEN CloseUnstarted(run, PreStepStop)
     ELSE /\ IF run.prep = "hardLimit"
             THEN Goto("prune", [run EXCEPT !.trigger = "hardLimit"])
             ELSE Goto("trigger", run)
          /\ UNCHANGED claims
  /\ NoRow /\ UNCHANGED <<env, token, oversized, loop>>

\* pre_step_compaction_trigger.
TriggerOf(prep) ==
  CASE prep = "hardLimit" -> "hardLimit" [] prep = "pressure" -> "pressure"
    [] OTHER -> "none"

\* Before any summary, pressure is first met by a prune pass.
Trigger ==
  /\ pc = "trigger"
  /\ NoRow /\ UNCHANGED <<env, token, oversized, loop>>
  /\ LET trigger == TriggerOf(run.prep) IN
     CASE trigger = "pressure" /\ ~run.summaryTried ->
            Goto("prune", [run EXCEPT !.trigger = "pressure"]) /\ UNCHANGED claims
       [] trigger = "hardLimit" /\ run.summaryTried -> CloseUnstarted(run, "error")
       [] trigger = "hardLimit" /\ ~run.summaryTried ->
            Goto("compact", [run EXCEPT !.trigger = trigger]) /\ UNCHANGED claims
       [] OTHER -> Goto("enter", [run EXCEPT !.trigger = "none"]) /\ UNCHANGED claims

-----------------------------------------------------------------------------
(* prune_oversized_tool_results.                                           *)

PassOutcome(r) == IF r.progress THEN "progress" ELSE "noProgress"
Pruned(r, outcome) == Goto("pruned", [r EXCEPT !.outcome = outcome, !.progress = FALSE])

\* Between two pairs: cancellation, the end of the pass (also a changed or
\* untransformable row, and memory mode), or the next marker.
PruneNext ==
  /\ pc = "prune"
  /\ UNCHANGED <<env, claims, token, oversized, loop>>
  /\ \/ cancelled /\ Pruned(run, "cancelled") /\ NoRow
     \/ ~cancelled /\ Pruned(run, PassOutcome(run)) /\ NoRow
     \/ /\ Durable /\ ~cancelled /\ oversized # {}
        /\ Pruned(Refused(run), "limit") /\ NoRow
     \/ /\ Durable /\ ~cancelled
        /\ L!Row(log).orphans < MaxOrphans
        /\ \E c \in oversized : Commit(L!AfterPrune(log, c, FALSE))
        /\ Goto("rewrite", run)

\* The replacement follows its marker in the same critical section; when it is
\* refused the marker stays an orphan.
PruneRewrite ==
  /\ pc = "rewrite"
  /\ UNCHANGED <<env, claims, token, loop>>
  /\ \/ /\ Commit(L!AfterRewrite(log)) /\ oversized' = oversized \ {log.marker}
        /\ Goto("pruneBarrier", [run EXCEPT !.fresh = FALSE, !.outcome = "progress"])
     \/ \E outcome \in {"limit", "noProgress"} :
          /\ Goto("pruneBarrier", [run EXCEPT !.outcome = outcome])
          /\ NoRow /\ UNCHANGED oversized

PruneBarrier ==
  /\ pc = "pruneBarrier" /\ Flush
  /\ CASE observer = "down" -> Pruned([run EXCEPT !.lost = TRUE], "observer")
       [] observer = "up" /\ run.outcome = "progress" ->
            Goto("prune", [run EXCEPT !.progress = TRUE, !.outcome = "none"])
       [] observer = "up" /\ run.outcome = "limit" -> Pruned(Refused(run), "limit")
       [] OTHER -> Pruned(run, PassOutcome(run))
  /\ UNCHANGED <<env, claims, token, oversized, loop>>

PruneStop(outcome) == IF outcome = "cancelled" THEN "aborted" ELSE outcome

\* After a hard-limit pass the stop checks come first; the preparation is
\* rebuilt when something was replaced.
HardPruned ==
  /\ pc = "pruned" /\ run.trigger = "hardLimit"
  /\ LET r == [run EXCEPT !.outcome = "none"] IN
     CASE PreStepStop # "none" -> CloseUnstarted(r, PreStepStop)
       [] PreStepStop = "none" /\ run.outcome = "progress" ->
            \E prep \in Preps :
              Goto("reprepared", Prepared(r, prep)) /\ UNCHANGED claims
       [] PreStepStop = "none" /\ run.outcome = "noProgress" ->
            Goto("trigger", r) /\ UNCHANGED claims
       [] OTHER -> CloseUnstarted(r, PruneStop(run.outcome))
  /\ NoRow /\ UNCHANGED <<env, token, oversized, loop>>

Reprepared ==
  /\ pc = "reprepared"
  /\ IF PreStepStop # "none" THEN CloseUnstarted(run, PreStepStop)
     ELSE Goto("trigger", run) /\ UNCHANGED claims
  /\ NoRow /\ UNCHANGED <<env, token, oversized, loop>>

\* After a pressure pass the outcome comes first.
PressurePruned ==
  /\ pc = "pruned" /\ run.trigger = "pressure"
  /\ LET r == [run EXCEPT !.outcome = "none"] IN
     CASE run.outcome = "progress" ->
            \E prep \in Preps :
              Goto("pressed", [Prepared(r, prep) EXCEPT !.trigger = TriggerOf(prep)])
              /\ UNCHANGED claims
       [] run.outcome = "noProgress" -> Goto("pressed", r) /\ UNCHANGED claims
       [] OTHER -> CloseUnstarted(r, PruneStop(run.outcome))
  /\ NoRow /\ UNCHANGED <<env, token, oversized, loop>>

Pressed ==
  /\ pc = "pressed"
  /\ IF PreStepStop # "none" THEN CloseUnstarted(run, PreStepStop)
     ELSE /\ Goto(IF run.trigger = "none" THEN "enter" ELSE "compact", run)
          /\ UNCHANGED claims
  /\ NoRow /\ UNCHANGED <<env, token, oversized, loop>>

-----------------------------------------------------------------------------
(* compact_once: one summary request inside a compaction bracket.          *)

Compacted(r, outcome) == Goto("compacted", [r EXCEPT !.outcome = outcome])
CloseBracket(r, outcome) == Goto("closeBracket", [r EXCEPT !.outcome = outcome])

\* The summary must leave one attempt to the conversation itself.  Every
\* failure to build or preflight its request is advisory; an attempt is
\* counted from the preflight on.
Compact ==
  /\ pc = "compact"
  /\ NoRow /\ UNCHANGED <<env, token, oversized, loop>>
  /\ LET counted == [run EXCEPT !.attempts = @ + 1, !.summaryTried = TRUE] IN
     CASE Interrupt # "none" -> Compacted(run, Interrupt) /\ UNCHANGED claims
       [] Interrupt = "none" /\ run.attempts + 1 >= MaxAttempts ->
            Compacted(run, "noProgress") /\ UNCHANGED claims
       [] OTHER ->
            \/ \E r \in {run, counted} : Compacted(r, "noProgress") /\ UNCHANGED claims
            \/ Compacted(Refused(counted), Refusal) /\ UNCHANGED claims
            \/ claims' = claims \cup {"bracketEnd"} /\ Goto("bracketStart", counted)

BracketStart ==
  /\ pc = "bracketStart"
  /\ \/ /\ Commit(L!AfterCompactionStart(log, log.turn, FALSE))
        /\ Goto("bracketBarrier", run) /\ UNCHANGED claims
     \/ /\ claims' = claims \ {"bracketEnd"} /\ NoRow
        /\ Compacted(Refused(run), Refusal) \/ Compacted(run, "noProgress")
  /\ UNCHANGED <<env, token, oversized, loop>>

BracketBarrier ==
  /\ pc = "bracketBarrier" /\ Flush
  /\ CASE observer = "down" -> CloseBracket([run EXCEPT !.lost = TRUE], "observer")
       [] observer = "up" /\ Interrupt # "none" -> CloseBracket(run, Interrupt)
       [] OTHER -> CloseBracket(run, "noProgress") \/ Goto("summarizing", run)
  /\ UNCHANGED <<env, claims, token, oversized, loop>>

\* collect_summary selects with cancellation first, then the deadline; usage
\* reported until then may still exceed the token budget.  The provider may
\* also stay silent.
SummaryStopped ==
  /\ pc = "summarizing" /\ Interrupt # "none"
  /\ CloseBracket(run, Interrupt) \/ CloseBracket(run, "error")
  /\ NoRow /\ UNCHANGED <<env, claims, token, oversized, loop>>

SummaryItem ==
  /\ pc = "summarizing" /\ Interrupt = "none"
  /\ \/ Goto("summaryReady", run)
     \/ \E outcome \in {"noProgress", "error"} : CloseBracket(run, outcome)
  /\ NoRow /\ UNCHANGED <<env, claims, token, oversized, loop>>

SummaryReady ==
  /\ pc = "summaryReady"
  /\ IF Interrupt # "none" THEN CloseBracket(run, Interrupt) /\ NoRow
     ELSE \/ Commit(L!AfterSummary(log)) /\ Goto("summaryLogged", run)
          \/ CloseBracket(Refused(run), Refusal) /\ NoRow
          \/ CloseBracket(run, "noProgress") /\ NoRow
  /\ UNCHANGED <<env, claims, token, oversized, loop>>

\* The token budget, then the stops, then the replacement itself (which must
\* shrink what it shadows).
SummaryLogged ==
  /\ pc = "summaryLogged"
  /\ UNCHANGED <<env, claims, token, loop>>
  /\ \/ CloseBracket(run, "error") /\ NoRow /\ UNCHANGED oversized
     \/ /\ Interrupt # "none" /\ CloseBracket(run, Interrupt)
        /\ NoRow /\ UNCHANGED oversized
     \/ /\ Interrupt = "none"
        /\ CloseBracket(run, "noProgress") \/ CloseBracket(Refused(run), Refusal)
        /\ NoRow /\ UNCHANGED oversized
     \/ /\ Interrupt = "none"
        /\ \E shadowed \in SUBSET log.results :
             /\ Commit(L!AfterCheckpoint(log, shadowed))
             /\ oversized' = oversized \ shadowed
        /\ Goto("closeBracket", [run EXCEPT !.fresh = FALSE, !.outcome = "progress"])

\* close_failed_bracket, and the success end: preferred or the exact claimed
\* row, so the bracket always closes.
EndBracket ==
  /\ pc = "closeBracket"
  /\ Commit(L!AfterCompactionEnd(log))
  /\ claims' = claims \ {"bracketEnd"} /\ Goto("endBracketBarrier", run)
  /\ UNCHANGED <<env, token, oversized, loop>>

EndBracketBarrier ==
  /\ pc = "endBracketBarrier" /\ Flush
  /\ IF observer = "down" THEN Compacted([run EXCEPT !.lost = TRUE], "observer")
     ELSE Compacted(run, run.outcome)
  /\ UNCHANGED <<env, claims, token, oversized, loop>>

\* Only a replacement is followed by a new preparation.
AfterCompaction ==
  /\ pc = "compacted"
  /\ LET r == [run EXCEPT !.outcome = "none", !.trigger = "none"] IN
     CASE run.outcome = "progress" ->
            IF PreStepStop # "none" THEN CloseUnstarted(r, PreStepStop)
            ELSE \E prep \in Preps : Goto("enter", Prepared(r, prep)) /\ UNCHANGED claims
       [] run.outcome = "noProgress" ->
            IF run.trigger = "hardLimit" THEN CloseUnstarted(r, "error")
            ELSE Goto("enter", r) /\ UNCHANGED claims
       [] run.outcome = "cancelled" -> CloseUnstarted(r, "aborted")
       [] OTHER -> CloseUnstarted(r, run.outcome)
  /\ NoRow /\ UNCHANGED <<env, token, oversized, loop>>

-----------------------------------------------------------------------------
(* The step: UnstartedStepClaims::enter and run_step.                      *)

\* What still exceeds the request limits is not sent.
EnterStep ==
  /\ pc = "enter"
  /\ \/ /\ run.prep = "hardLimit" /\ CloseUnstarted(run, "error") /\ NoRow
     \/ /\ run.prep # "hardLimit"
        /\ Commit(L!AfterStepStart(log, run.steps + 1))
        /\ claims' = claims \ {"stepStart"}
        /\ Goto(IF run.inputs THEN "inputs" ELSE "attempt",
                [run EXCEPT !.steps = @ + 1, !.retries = 0])
  /\ UNCHANGED <<env, token, oversized, loop>>

\* The proposed messages join the surface the first request was built for.
LogInputs ==
  /\ pc = "inputs" /\ Commit(L!AfterNote(log))
  /\ Goto("attempt", [run EXCEPT !.inputs = FALSE])
  /\ UNCHANGED <<env, claims, token, oversized, loop>>

\* The head of run_step's loop; the first preparation is used once.
NextAttempt ==
  /\ pc = "attempt"
  /\ CASE Interrupt # "none" -> StepDone(run, Interrupt)
       [] Interrupt = "none" /\ run.attempts >= MaxAttempts -> StepDone(run, "error")
       [] OTHER ->
            LET r == [run EXCEPT !.attempts = @ + 1] IN
            IF run.prep # "none" THEN Goto("header", r)
            ELSE \E prep \in Preps \ {"pressure"} : Goto("header", Prepared(r, prep))
  /\ NoRow /\ UNCHANGED <<env, claims, token, oversized, loop>>

\* request/header: forced for the first request of this loop, else when the
\* header changed.  The output-token limit is checked first.
LogHeader ==
  /\ pc = "header"
  /\ UNCHANGED <<env, claims, token, oversized>>
  /\ \/ StepDone(run, "error") /\ NoRow /\ UNCHANGED loop
     \/ /\ run.prep \notin {"deferred", "hardLimit"}
        /\ \/ /\ Commit(L!AfterNote(log)) /\ Goto("context", run)
              /\ loop' = [loop EXCEPT !.headerLogged = TRUE]
           \/ /\ loop.headerLogged /\ Goto("context", run)
              /\ NoRow /\ UNCHANGED loop
           \/ StepDone(Refused(run), Refusal) /\ NoRow /\ UNCHANGED loop

LogContext ==
  /\ pc = "context"
  /\ \/ (Commit(L!AfterNote(log)) \/ NoRow) /\ Goto("dispatch", run)
     \/ StepDone(Refused(run), Refusal) /\ NoRow
  /\ UNCHANGED <<env, claims, token, oversized, loop>>

\* A request that cannot be built, or whose preflight no longer matches the
\* surface, ends the step; else dispatch_barrier, the stop checks once more,
\* and begin_attempt.
Undispatchable ==
  /\ pc = "dispatch" /\ StepDone(run, "error")
  /\ NoRow /\ UNCHANGED <<env, claims, token, oversized, loop>>

Dispatch_Unflushed ==
  /\ pc = "dispatch" /\ run.prep # "preparedFailure" /\ run.fresh
  /\ IF observer = "down"
     THEN StepDone([run EXCEPT !.lost = TRUE], "observer") /\ UNCHANGED <<log, token>>
     ELSE IF Interrupt # "none" THEN StepDone(run, Interrupt) /\ UNCHANGED <<log, token>>
     ELSE /\ log' = L!AfterDispatch(log) /\ token' = "open"
          /\ Goto("streaming", [run EXCEPT !.prep = "none", !.fresh = FALSE])
  /\ UNCHANGED <<dirty, observer, env, claims, oversized, loop>>

Dispatch ==
  /\ pc = "dispatch" /\ run.prep # "preparedFailure" /\ run.fresh
  /\ dirty' = FALSE
  /\ IF observer = "down"
     THEN StepDone([run EXCEPT !.lost = TRUE], "observer") /\ UNCHANGED <<log, token>>
     ELSE IF Interrupt # "none" THEN StepDone(run, Interrupt) /\ UNCHANGED <<log, token>>
     ELSE /\ log' = L!AfterDispatch(log) /\ token' = "open"
          /\ Goto("streaming", [run EXCEPT !.prep = "none", !.fresh = FALSE])
  /\ UNCHANGED <<observer, env, claims, oversized, loop>>

\* consume_stream: biased to the stops; each chunk is a row; the end of the
\* stream seals a finished attempt, and is a protocol error otherwise.  The
\* provider may also stay silent.
StreamStopped_OnlyCancel ==
  /\ pc = "streaming" /\ cancelled /\ StepDone(run, "cancelled")
  /\ NoRow /\ UNCHANGED <<env, claims, token, oversized, loop>>

StreamStopped ==
  /\ pc = "streaming" /\ Interrupt # "none" /\ StepDone(run, Interrupt)
  /\ NoRow /\ UNCHANGED <<env, claims, token, oversized, loop>>

StreamItem ==
  /\ pc = "streaming" /\ Interrupt = "none"
  /\ UNCHANGED <<env, claims, token, oversized, loop>>
  /\ \/ /\ log.attempt = "streaming"
        /\ \E finish \in {"more", "ok"} \cup L!Failures :
             Commit(L!AfterChunk(log, finish, TRUE))
        /\ UNCHANGED <<pc, run>>
     \/ /\ log.attempt = "finished" /\ log' = L!AfterSeal(log)
        /\ Goto("sealed", run) /\ UNCHANGED <<dirty, observer>>
     \/ StepDone(Refused(run), Refusal) /\ NoRow
     \/ StepDone(run, "error") /\ NoRow

Interrupted ==
  /\ pc = "sealed" /\ Interrupt # "none" /\ StepDone(run, Interrupt)
  /\ NoRow /\ UNCHANGED <<env, claims, token, oversized, loop>>

\* A failed attempt ends the step, or its llm/retry row closes the attempt.
FailedAttempt ==
  /\ pc = "sealed" /\ Interrupt = "none" /\ log.finish \in L!Failures
  /\ UNCHANGED <<env, claims, oversized, loop>>
  /\ \/ StepDone(run, "error") /\ NoRow /\ UNCHANGED token
     \/ /\ run.retries < MaxRetries /\ run.attempts < MaxAttempts
        /\ \/ StepDone(Refused(run), Refusal) /\ NoRow /\ UNCHANGED token
           \/ /\ Commit(L!AfterRetry(log, log.turn, log.step, run.retries + 1, TRUE))
              /\ token' = "closed" /\ Goto("retryBarrier", run)

RetryBarrier ==
  /\ pc = "retryBarrier" /\ Flush /\ token' = "none"
  /\ IF observer = "down" THEN StepDone([run EXCEPT !.lost = TRUE], "observer")
     ELSE Goto("backoff", [run EXCEPT !.retries = @ + 1])
  /\ UNCHANGED <<env, claims, oversized, loop>>

Backoff_NoRow ==
  /\ pc = "backoff"
  /\ UNCHANGED <<env, claims, token, oversized, loop>>
  /\ IF Interrupt # "none" THEN StepDone(run, Interrupt) /\ NoRow
     ELSE \/ NoRow /\ Goto("attempt", run)
          \/ StepDone(Refused(run), Refusal) /\ NoRow

\* The delay races the stops; they are looked at again when it has elapsed.
Backoff ==
  /\ pc = "backoff"
  /\ UNCHANGED <<env, claims, token, oversized, loop>>
  /\ IF Interrupt # "none" THEN StepDone(run, Interrupt) /\ NoRow
     ELSE \/ /\ Commit(L!AfterRetryStarted(log, log.turn, log.step, run.retries))
             /\ Goto("attempt", run)
          \/ StepDone(Refused(run), Refusal) /\ NoRow

\* commit_successful_attempt: invalid tool calls end the step; an answer
\* without calls (a truncated one loses its calls) closes the attempt.
Answer ==
  /\ pc = "sealed" /\ Interrupt = "none" /\ log.finish = "ok"
  /\ UNCHANGED <<env, claims, oversized, loop>>
  /\ \/ StepDone(run, "error") /\ NoRow /\ UNCHANGED token
     \/ StepDone(Refused(run), Refusal) /\ NoRow /\ UNCHANGED token
     \/ \E outcome \in {"completed", "maxTokens"} :
          /\ Commit(L!AfterAssistant(log, <<>>, TRUE))
          /\ token' = "closed" /\ Goto("answered", [run EXCEPT !.outcome = outcome])
     \/ \E calls \in L!CallLists \ {<<>>} :
          /\ Commit(L!AfterAssistant(log, calls, TRUE))
          /\ token' = "closed" /\ Goto("roundBarrier", [run EXCEPT !.todo = calls])

AnswerBarrier ==
  /\ pc = "answered" /\ Flush /\ token' = "none"
  /\ IF observer = "down" THEN StepDone([run EXCEPT !.lost = TRUE], "observer")
     ELSE StepDone(run, run.outcome)
  /\ UNCHANGED <<env, claims, oversized, loop>>

-----------------------------------------------------------------------------
(* commit_tool_round, one call after the other.                            *)

RoundBarrier ==
  /\ pc = "roundBarrier" /\ Flush /\ token' = "none"
  /\ Goto("round", [run EXCEPT !.lost = @ \/ observer = "down"])
  /\ UNCHANGED <<env, claims, oversized, loop>>

Running(c) == log.call[c].stage = "started"

RoundCall ==
  /\ pc = "round" /\ run.todo # <<>> /\ \A c \in Calls : ~Running(c)
  /\ Commit(L!AfterToolCall(log, Head(run.todo)))
  /\ Goto("round", [run EXCEPT !.todo = Tail(@)])
  /\ UNCHANGED <<env, claims, token, oversized, loop>>

\* The barrier before a tool is dispatched (not when the round is stopping).
RoundFlush ==
  /\ pc = "round" /\ (\E c \in Calls : Running(c)) /\ dirty /\ Flush
  /\ Goto("round", [run EXCEPT !.lost = @ \/ observer = "down"])
  /\ UNCHANGED <<env, claims, token, oversized, loop>>

\* The result row; a preferred result that does not fit latches the limit, and
\* the first stop seen after it is latched for the turn.
RoundResult ==
  /\ pc = "round"
  /\ \E c \in Calls, code \in {"ok", "error"}, full \in BOOLEAN :
       /\ Running(c) /\ (full => Durable /\ code = "error")
       /\ Commit(L!AfterToolResult(log, c, code))
       /\ oversized' \in {oversized \ {c}, oversized \cup {c}}
       /\ run' = [run EXCEPT !.limit = @ \/ full,
                             !.stop = IF @ = "none" THEN Interrupt ELSE @]
  /\ UNCHANGED <<pc, env, claims, token, loop>>

\* A tool that failed without a definite result: a memory session has no row
\* for that, and leaves the call unanswered.
RoundFailed ==
  /\ pc = "round" /\ ~Durable /\ \E c \in Calls : Running(c)
  /\ StepDone([run EXCEPT !.todo = <<>>,
                          !.stop = IF @ = "none" THEN Interrupt ELSE @], "error")
  /\ loop' = [loop EXCEPT !.unresolved = TRUE]
  /\ NoRow /\ UNCHANGED <<env, claims, token, oversized>>

RoundDone ==
  /\ pc = "round" /\ run.todo = <<>> /\ \A c \in Calls : ~Running(c)
  /\ IF run.limit THEN StepDone(run, "limit")
     ELSE IF run.lost THEN StepDone(run, "observer")
     ELSE IF run.stop # "none" THEN StepDone(run, run.stop)
     ELSE \E outcome \in {"completed", "continue", "error"} : StepDone(run, outcome)
  /\ NoRow /\ UNCHANGED <<env, claims, token, oversized, loop>>

-----------------------------------------------------------------------------
(* The end of step and turn.                                               *)

Disposition == IF run.outcome = "cancelled" THEN "cancelled" ELSE "failed"

\* An open attempt is closed by the step's own end row.
EndStep ==
  /\ pc = "stepEnd"
  /\ Durable => \A c \in Calls : log.call[c].stage \in {"absent", "answered"}
  /\ Commit(L!AfterStepEnd(log, log.step))
  /\ claims' = claims \ {"stepEnd"}
  /\ IF token = "open" THEN token' = "closed" /\ Goto("endBarrier", run)
     ELSE UNCHANGED token /\ Goto("classify", run)
  /\ UNCHANGED <<env, oversized, loop>>

EndBarrier ==
  /\ pc = "endBarrier" /\ Flush /\ token' = "none"
  /\ Goto("classify",
          IF observer = "down"
          THEN [run EXCEPT !.lost = TRUE, !.outcome = "observer", !.stop = "none"]
          ELSE run)
  /\ UNCHANGED <<env, claims, oversized, loop>>

TurnReason(outcome) == IF outcome = "cancelled" THEN "aborted" ELSE outcome

\* The latched limit, the latched stop, the stops as they are now, the outcome.
Classify ==
  /\ pc = "classify"
  /\ LET r == [run EXCEPT !.outcome = "none", !.stop = "none", !.prep = "none",
                          !.fresh = FALSE] IN
     IF run.limit THEN Close(r, "limit")
     ELSE IF run.stop # "none" THEN Close(r, TurnReason(run.stop))
     ELSE IF Interrupt # "none" THEN Close(r, TurnReason(Interrupt))
     ELSE IF run.outcome = "continue" THEN Goto("top", r)
     ELSE Close(r, TurnReason(run.outcome))
  /\ NoRow /\ UNCHANGED <<env, claims, token, oversized, loop>>

\* turn/end as computed, or the claimed fallback; then the reason is that of
\* the fallback.
EndTurn_KeepsReason ==
  /\ pc = "closing" /\ Commit(L!AfterTurnEnd(log, log.turn))
  /\ claims' = claims \ {"turnEnd"}
  /\ \/ /\ Goto("finalBarrier", run)
        /\ loop' = [loop EXCEPT !.recorded = run.reason]
     \/ /\ Goto("finalBarrier", [run EXCEPT !.fallback = TRUE])
        /\ loop' = [loop EXCEPT !.recorded = Refusal]
  /\ UNCHANGED <<env, token, oversized>>

EndTurn ==
  /\ pc = "closing" /\ Commit(L!AfterTurnEnd(log, log.turn))
  /\ claims' = claims \ {"turnEnd"}
  /\ \/ /\ Goto("finalBarrier", run)
        /\ loop' = [loop EXCEPT !.recorded = run.reason]
     \/ /\ Goto("finalBarrier", [run EXCEPT !.fallback = TRUE, !.reason = Refusal])
        /\ loop' = [loop EXCEPT !.recorded = Refusal]
  /\ UNCHANGED <<env, token, oversized>>

ReturnsErr_NoLimit == observer = "down" \/ (run.fallback /\ Durable)

ReturnsErr == observer = "down" \/ run.limit \/ (run.fallback /\ Durable)

FinishTurn ==
  /\ pc = "finalBarrier" /\ Flush
  /\ loop' = [loop EXCEPT !.result = IF ReturnsErr THEN "err" ELSE "ok",
                          !.reason = run.reason,
                          !.poisoned = ReturnsErr \/ loop.unresolved]
  /\ Goto("idle", NewRun)
  /\ UNCHANGED <<env, claims, token, oversized>>

-----------------------------------------------------------------------------

Step ==
  \/ Opened \/ Top \/ FirstPrepared \/ Trigger
  \/ PruneNext \/ PruneRewrite \/ PruneBarrier \/ HardPruned \/ Reprepared
  \/ PressurePruned \/ Pressed
  \/ Compact \/ BracketStart \/ BracketBarrier \/ SummaryStopped \/ SummaryReady
  \/ SummaryLogged \/ EndBracket \/ EndBracketBarrier \/ AfterCompaction
  \/ EnterStep \/ LogInputs \/ NextAttempt \/ LogHeader \/ LogContext
  \/ Undispatchable \/ Dispatch \/ StreamStopped \/ Interrupted
  \/ FailedAttempt \/ RetryBarrier \/ Backoff \/ Answer \/ AnswerBarrier
  \/ RoundBarrier \/ RoundCall \/ RoundFlush \/ RoundResult \/ RoundFailed \/ RoundDone
  \/ EndStep \/ EndBarrier \/ Classify \/ EndTurn \/ FinishTurn

Provider == StreamItem \/ SummaryItem

Next == StartTurn \/ Step \/ Provider \/ Cancel \/ Expire \/ Abandon

Spec == Init /\ [][Next]_vars

\* The driver is polled and the deadline passes.  The provider promises
\* nothing; the tools of a round do end (Step has their results).
FairSpec == Spec /\ WF_vars(Step) /\ WF_vars(Expire)

-----------------------------------------------------------------------------
(* Properties.                                                             *)

\* Every component of the state has its type.
TypeOK ==
  /\ L!TypeOK
  /\ cancelled \in BOOLEAN /\ expired \in BOOLEAN /\ dirty \in BOOLEAN
  /\ observer \in {"up", "down"} /\ token \in {"none", "open", "closed"}
  /\ claims \subseteq Unstarted \cup {"turnEnd", "bracketEnd"}
  /\ oversized \subseteq log.results
  /\ run.steps \in 0..MaxSteps /\ run.attempts \in 0..MaxAttempts
  /\ run.retries \in 0..MaxRetries
  /\ run.prep \in Preps \cup {"none"}
  /\ loop.result \in {"none", "ok", "err"}

\* The driver never submits a row that the log would refuse.
LogFollowsGrammar == L!Spec

\* Whatever is open in the log has an owner: its closing row is reserved, so
\* that no refusal can keep the turn from closing it, and an open attempt is
\* the one of the token.
OpenIsOwned ==
  pc # "idle" =>
    /\ log.turn # 0 => "turnEnd" \in claims
    /\ log.step # 0 => "stepEnd" \in claims
    /\ log.compaction # "none" => "bracketEnd" \in claims
    /\ token = "open" <=> log.attempt \in L!OpenAttempt
    /\ token = "closed" => log.attempt \in {"retryScheduled", "committed", "outside"}

\* A provider stream, for an answer or a summary, is opened only when every
\* earlier row is flushed and seen by the observer, and when neither stop had
\* come and no limit was latched; the request of an answer still matches the
\* surface, whatever was pruned, summarised or appended since its preparation,
\* and the request of a summary leaves an attempt for the step it makes room for.
DispatchIsSound ==
  [][pc' \in {"streaming", "summarizing"} /\ pc' # pc =>
       /\ ~dirty' /\ observer' = "up"
       /\ ~cancelled /\ ~expired /\ ~run.limit /\ ~run.lost
       /\ pc' = "streaming" => run.fresh
       /\ pc' = "summarizing" => run'.attempts < MaxAttempts]_vars

\* A latched limit, a lost observer and a fallback turn end of a durable
\* session are never reported as an outcome, and the loop takes no turn after.
FailureNeverHidden ==
  [][pc # "idle" /\ pc' = "idle" /\
     (run.limit \/ run.lost \/ (run.fallback /\ Durable)) =>
       loop'.result = "err" /\ loop'.poisoned]_vars

\* What run_turn returns is what turn/end recorded, and is not made up: an
\* aborted turn was cancelled, a timed out one reached its deadline.
ReturnedIsRecorded ==
  pc = "idle" /\ loop.result = "ok" =>
    /\ loop.reason = loop.recorded
    /\ loop.reason = "aborted" => cancelled
    /\ loop.reason = "timeout" => expired

\* A loop that may take another turn left nothing behind: no open boundary,
\* attempt or bracket, no claim, nothing unflushed, no call unanswered.
ReadyForNextTurn ==
  pc = "idle" /\ ~loop.poisoned =>
    /\ log.turn = 0 /\ log.attempt = "outside" /\ log.compaction = "none"
    /\ claims = {} /\ token = "none" /\ ~dirty /\ observer = "up"
    /\ ~loop.unresolved

\* A turn leaves a record of how it ended, and nothing else.
TurnLeavesRecordOnly == ReturnedIsRecorded /\ ReadyForNextTurn

\* What is open has its closing row reserved, and what a turn leaves is a record
\* of how it ended.
OpenIsClosed == OpenIsOwned /\ TurnLeavesRecordOnly

\* Every turn returns, whatever the provider, the tools and the session do.
TurnEnds == pc # "idle" ~> pc = "idle"
=============================================================================
