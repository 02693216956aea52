------------------------------- MODULE ToolRound -------------------------------
(***************************************************************************)
(* One tool round of a step (src/src/agent/mod.rs, commit_tool_round and   *)
(* what it calls): the assistant message and its tool calls are claimed    *)
(* and committed, then each call in turn is recorded, prepared, approved,  *)
(* run and answered.  A call either asks for a read (its preparation is    *)
(* the whole tool), a file mutation, or, when its name is that of an owned *)
(* action (shell, plugin), a foreground action.                            *)
(*                                                                         *)
(* What the tool really does outside is the variable effect; the module is *)
(* about how it relates to what the log says of it, while the caller may   *)
(* cancel, the turn deadline pass, the session observer be lost, the       *)
(* session refuse room and the user answer late, wrongly or never.         *)
(***************************************************************************)
EXTENDS Naturals, FiniteSets, Sequences

CONSTANTS Durable,    \* Session::is_durable
          Calls,      \* tool call ids
          Approvals   \* approval ids

ASSUME OneApprovalPerCall == Cardinality(Approvals) >= Cardinality(Calls)
ASSUME RoundIds ==
  /\ Durable \in BOOLEAN
  /\ IsFiniteSet(Calls) /\ IsFiniteSet(Approvals) /\ "none" \notin Calls

VARIABLES pc, log,
          cancelled, expired,  \* the caller's token, the turn deadline
          observer, dirty,     \* as in TurnDriver
          plan,     \* [order, owned, policy]: PlannedTool, ToolClaimProfile
          claims,   \* EventClaims held by the round
          room,     \* calls whose result claim holds the maximum result
          tool,     \* locals of the call being resolved
          round,    \* locals of commit_tool_round
          decision, \* the approval outcome of a call
          answer,   \* what the result row of a call says
          effect    \* what the tool of a call did outside

\* One turn, one step: the round is the only writer.
L == INSTANCE SessionProjection
       WITH MaxTurns <- 1, MaxSteps <- 1, MaxRetries <- 0, MaxOrphans <- 0

env == <<cancelled, expired>>
rows == <<log, dirty, observer>>
audit == <<decision, answer>>
vars == <<pc, env, rows, plan, claims, room, tool, round, audit, effect>>

Policies == {"allow", "ask", "deny"}
Refusals == L!Outcomes \ {"allowed"}
Answers == {"read", "done", "unknown", "notDone", "notStarted", "fallback"} \cup Refusals

NewTool == [call |-> "none", approval |-> "none",
            outcome |-> "none",   \* ApprovalOutcome, not yet recorded
            answer |-> "none",    \* ToolRun, not yet settled
            required |-> FALSE,   \* ResultSettlement::PreferredRequired
            stop |-> "none"]      \* ToolStop

NewRound == [limit |-> FALSE, lost |-> FALSE, \* durable_limit, observer_unavailable
             cancelled |-> FALSE, failed |-> FALSE, \* infrastructure_failure
             concludes |-> FALSE, stop |-> "none",  \* concludes_turn, latched_stop
             outcome |-> "none"]

\* A finished provider attempt that declares the calls.
SealedStep ==
  L!AfterSeal(L!AfterChunk(L!AfterDispatch(
    L!AfterStepStart(L!AfterTurnStart(L!EmptyLog, 1), 1)), "ok", TRUE))

Init ==
  /\ pc = "claim" /\ log = SealedStep
  /\ cancelled = FALSE /\ expired = FALSE /\ observer \in {"up", "down"} /\ dirty = TRUE
  /\ plan \in [order : L!CallLists \ {<<>>}, owned : [Calls -> BOOLEAN],
               policy : [Calls -> Policies]]
  /\ claims = {} /\ room = {} /\ tool = NewTool /\ round = NewRound
  /\ decision = [c \in Calls |-> "none"] /\ answer = [c \in Calls |-> "none"]
  /\ effect = [c \in Calls |-> "none"]

-----------------------------------------------------------------------------
(* Vocabulary.                                                             *)

Planned == {plan.order[i] : i \in DOMAIN plan.order}

\* The call and result claims of each planned call, behind the assistant's.
CallClaim(c) == <<"call", c>>
ResultClaim(c) == <<"result", c>>
RoundClaims == {<<"assistant", "round">>} \cup {CallClaim(c) : c \in Planned}
                 \cup {ResultClaim(c) : c \in Planned}

\* publish_committed feeds the observer with each committed row.
Commit(l) ==
  /\ log' = l /\ dirty' = TRUE
  /\ observer' \in (IF observer = "up" THEN {"up", "down"} ELSE {"down"})
NoRow == UNCHANGED rows

\* dispatch_barrier.
Flush == dirty' = FALSE /\ UNCHANGED <<log, observer>>
Noticed(r) == [r EXCEPT !.lost = @ \/ observer = "down"]

Goto(p, t) == pc' = p /\ tool' = t

\* sample_tool_stop.
Interrupt == IF cancelled THEN "cancelled" ELSE IF expired THEN "timeout" ELSE "none"
First(current, observed) == IF current = "none" THEN observed ELSE current

\* A definite ToolRun, to be settled; the fallback row may replace it.
Answered(said, stop) ==
  Goto("settle", [tool EXCEPT !.answer = said, !.required = FALSE, !.stop = stop])

\* latch_durable_limit and SESSION_LIMIT, or a memory decline.
OutOfRoom(said) ==
  IF Durable THEN /\ round' = [round EXCEPT !.limit = TRUE]
                  /\ Answered("notStarted", "none")
  ELSE Answered(said, "none") /\ UNCHANGED round

-----------------------------------------------------------------------------
(* The environment.                                                        *)

Ended == {"returned", "abandoned"}

Cancel ==
  /\ pc \notin Ended /\ ~cancelled /\ cancelled' = TRUE
  /\ UNCHANGED <<pc, expired, rows, plan, claims, room, tool, round, audit, effect>>
Expire ==
  /\ pc \notin Ended /\ ~expired /\ expired' = TRUE
  /\ UNCHANGED <<pc, cancelled, rows, plan, claims, room, tool, round, audit, effect>>

\* Where the round awaits the session, a storage failure ends it with Err.
AtSession == {"commit", "barrier", "call", "dispatch", "ask", "asked", "decide",
              "decided", "settle"}
Abandon ==
  /\ pc \in AtSession /\ pc' = "abandoned"
  /\ UNCHANGED <<env, rows, plan, claims, room, tool, round, audit, effect>>

-----------------------------------------------------------------------------
(* The round's head: claims, assistant message, barrier.                   *)

ClaimRound_LeaksCalls ==
  /\ pc = "claim" /\ NoRow
  /\ \/ claims' = RoundClaims /\ pc' = "commit" /\ UNCHANGED round
     \/ /\ pc' = "returned" /\ claims' = RoundClaims \ {<<"assistant", "round">>}
        /\ round' = [round EXCEPT !.limit = Durable, !.outcome = "error"]
  /\ UNCHANGED <<env, plan, room, tool, audit, effect>>

\* claim_batch, and the prestart ceilings of the owned actions; a refusal
\* leaves no claim behind.
ClaimRound ==
  /\ pc = "claim" /\ NoRow
  /\ \/ claims' = RoundClaims /\ pc' = "commit" /\ UNCHANGED round
     \/ /\ pc' = "returned" /\ UNCHANGED claims
        /\ round' = [round EXCEPT !.limit = Durable, !.outcome = "error"]
  /\ UNCHANGED <<env, plan, room, tool, audit, effect>>

CommitAssistant ==
  /\ pc = "commit" /\ Commit(L!AfterAssistant(log, plan.order, TRUE))
  /\ claims' = claims \ {<<"assistant", "round">>} /\ pc' = "barrier"
  /\ UNCHANGED <<env, plan, room, tool, round, audit, effect>>

RoundBarrier ==
  /\ pc = "barrier" /\ Flush
  /\ round' = Noticed(round) /\ pc' = "call"
  /\ UNCHANGED <<env, plan, claims, room, tool, audit, effect>>

\* The calls whose tool/call row is still claimed, in the order of the plan.
NextCall(c) ==
  \E i \in DOMAIN plan.order :
    /\ plan.order[i] = c /\ CallClaim(c) \in claims
    /\ \A j \in 1..(i - 1) : CallClaim(plan.order[j]) \notin claims

\* Nothing is dispatched in a round that is stopping.
Stopping == round.failed \/ round.lost \/ round.cancelled \/ cancelled

RecordCall ==
  /\ pc = "call"
  /\ \E c \in Planned :
       LET t == [NewTool EXCEPT !.call = c] IN
       /\ NextCall(c) /\ Commit(L!AfterToolCall(log, c))
       /\ claims' = claims \ {CallClaim(c)}
       /\ IF round.limit \/ Stopping
          THEN Goto("settle", [t EXCEPT !.answer = "notStarted"])
          ELSE Goto("dispatch", t)
  /\ round' = [round EXCEPT !.cancelled = @ \/ (~round.limit /\ Stopping /\ cancelled)]
  /\ UNCHANGED <<env, plan, room, audit, effect>>

\* The call is durable and seen before its tool learns of it.
DispatchBarrier ==
  /\ pc = "dispatch" /\ Flush
  /\ round' = Noticed(round)
  /\ IF observer = "down" THEN Answered("notStarted", "none") ELSE Goto("prepare", tool)
  /\ UNCHANGED <<env, plan, claims, room, audit, effect>>

-----------------------------------------------------------------------------
(* run_one_tool and the setup of an action: nothing outside is changed.    *)

\* An outcome without definite result; settled as unknown.
Unresolved(stop) == Answered("unknown", stop)

\* Unknown tool, unusable arguments, preparation timeout.
RefuseCall ==
  /\ pc = "prepare" /\ Answered("notStarted", "none")
  /\ NoRow /\ UNCHANGED <<env, plan, claims, room, round, audit, effect>>

\* Cancellation and deadline win over a preparation that has just ended.
PreparationStopped ==
  /\ pc = "prepare" /\ Interrupt # "none"
  /\ Answered("notStarted", Interrupt)
  /\ NoRow /\ UNCHANGED <<env, plan, claims, room, round, audit, effect>>

\* Complete, Mutation, Action, or an executor that broke its contract.
Prepared ==
  /\ pc = "prepare" /\ Interrupt = "none"
  /\ LET owned == plan.owned[tool.call] IN
       \/ Answered(IF owned THEN "notStarted" ELSE "read", "none")
       \/ ~owned /\ Goto("resolve", tool)
       \/ owned /\ Goto("setup", tool)
       \/ Unresolved("none")
  /\ NoRow /\ UNCHANGED <<env, plan, claims, room, round, audit, effect>>

\* While a setup or an action is awaited its first stop is latched; the child
\* token is cancelled, and it is awaited to its end.
NoticeStop ==
  /\ pc \in {"setup", "acting"} /\ tool.stop = "none" /\ Interrupt # "none"
  /\ tool' = [tool EXCEPT !.stop = Interrupt]
  /\ NoRow /\ UNCHANGED <<pc, env, plan, claims, room, round, audit, effect>>

\* preserve_or_sample_tool_stop after merge_action_stop: the action may report
\* a deadline before the driver sees the cancellation.
StopSeen ==
  IF tool.stop # "none" THEN {tool.stop}
  ELSE {Interrupt} \cup (IF expired THEN {"timeout"} ELSE {})

SetupEnds ==
  /\ pc = "setup"
  /\ \E stop \in StopSeen :
       \/ Answered("notStarted", stop)
       \/ Unresolved(stop)
       \/ stop = "none" /\ Goto("resolve", tool)
  /\ NoRow /\ UNCHANGED <<env, plan, claims, room, round, audit, effect>>

-----------------------------------------------------------------------------
(* resolve_mutation and resolve_action: policy, room, approval.            *)

Policy == plan.policy[tool.call]

DeniedByPolicy ==
  /\ pc = "resolve" /\ Policy = "deny" /\ Answered("notStarted", "none")
  /\ NoRow /\ UNCHANGED <<env, plan, claims, room, round, audit, effect>>

\* The configured limits, then the session's room for the largest result.
NoRoom ==
  /\ pc = "resolve" /\ Policy # "deny"
  /\ \/ Answered("notStarted", "none") /\ UNCHANGED round
     \/ OutOfRoom("notStarted")
  /\ NoRow /\ UNCHANGED <<env, plan, claims, room, audit, effect>>

Reserve_Nothing ==
  /\ pc = "resolve" /\ Policy # "deny"
  /\ Goto(IF Policy = "ask" THEN "ask" ELSE "start", tool)
  /\ NoRow /\ UNCHANGED <<env, plan, claims, room, round, audit, effect>>

Reserve ==
  /\ pc = "resolve" /\ Policy # "deny"
  /\ room' = room \cup {tool.call}
  /\ Goto(IF Policy = "ask" THEN "ask" ELSE "start", tool)
  /\ NoRow /\ UNCHANGED <<env, plan, claims, round, audit, effect>>

\* No approval id, or no room for its two rows: nobody is asked.
CannotAsk ==
  /\ pc = "ask"
  /\ \/ Answered("unavailable", "none") /\ UNCHANGED round
     \/ OutOfRoom("unavailable")
  /\ NoRow /\ UNCHANGED <<env, plan, claims, room, audit, effect>>

\* Both rows are claimed before the question is recorded.
Ask ==
  /\ pc = "ask"
  /\ \E a \in Approvals :
       /\ a \notin log.owned
       /\ Commit(L!AfterAsk(log, a, tool.call))
       /\ claims' = claims \cup {<<"decided", a>>}
       /\ Goto("asked", [tool EXCEPT !.approval = a])
  /\ UNCHANGED <<env, plan, room, round, audit, effect>>

\* The user is asked only when the question is visible.
AskedBarrier ==
  /\ pc = "asked" /\ Flush
  /\ round' = Noticed(round)
  /\ IF observer = "down"
     THEN Goto("decide", [tool EXCEPT !.outcome = "unavailable"])
     ELSE Goto("waiting", tool)
  /\ UNCHANGED <<env, plan, claims, room, audit, effect>>

ApprovalStopped_ByUserOnly ==
  /\ pc = "waiting" /\ cancelled
  /\ Goto("decide", [tool EXCEPT !.outcome = "cancelled", !.stop = Interrupt])
  /\ NoRow /\ UNCHANGED <<env, plan, claims, room, round, audit, effect>>

\* request_approval: a stop is a cancelled approval, also when the answer has
\* just arrived.
ApprovalStopped ==
  /\ pc = "waiting" /\ Interrupt # "none"
  /\ Goto("decide", [tool EXCEPT !.outcome = "cancelled", !.stop = Interrupt])
  /\ NoRow /\ UNCHANGED <<env, plan, claims, room, round, audit, effect>>

ApprovalAnswer ==
  /\ pc = "waiting" /\ Interrupt = "none"
  /\ \E outcome \in L!Outcomes : Goto("decide", [tool EXCEPT !.outcome = outcome])
  /\ NoRow /\ UNCHANGED <<env, plan, claims, room, round, audit, effect>>

Decide ==
  /\ pc = "decide" /\ Commit(L!AfterDecide(log, tool.approval, tool.outcome))
  /\ claims' = claims \ {<<"decided", tool.approval>>}
  /\ decision' = [decision EXCEPT ![tool.call] = tool.outcome]
  /\ Goto("decided", tool)
  /\ UNCHANGED <<env, plan, room, round, answer, effect>>

DecidedBarrier_Blind ==
  /\ pc = "decided" /\ Flush
  /\ round' = Noticed(round)
  /\ IF tool.outcome = "allowed" /\ tool.stop = "none" THEN Goto("start", tool)
     ELSE IF tool.outcome = "allowed" THEN Answered("notStarted", tool.stop)
     ELSE Answered(tool.outcome, tool.stop)
  /\ UNCHANGED <<env, plan, claims, room, audit, effect>>

\* Only a visible permission, given before any stop, is used.
DecidedBarrier ==
  /\ pc = "decided" /\ Flush
  /\ round' = Noticed(round)
  /\ IF tool.outcome = "allowed" /\ tool.stop = "none" /\ observer = "up"
     THEN Goto("start", tool)
     ELSE IF tool.outcome = "allowed" THEN Answered("notStarted", tool.stop)
     ELSE Answered(tool.outcome, tool.stop)
  /\ UNCHANGED <<env, plan, claims, room, audit, effect>>

-----------------------------------------------------------------------------
(* The effect.                                                             *)

\* The last sample before the effect: final_stop, commit_mutation.
StoppedBeforeStart ==
  /\ pc = "start" /\ Interrupt # "none"
  /\ Answered("notStarted", Interrupt)
  /\ NoRow /\ UNCHANGED <<env, plan, claims, room, round, audit, effect>>

StartEffect ==
  /\ pc = "start" /\ Interrupt = "none"
  /\ effect' = [effect EXCEPT ![tool.call] = "running"]
  /\ Goto("acting", tool)
  /\ NoRow /\ UNCHANGED <<env, plan, claims, room, round, audit>>

EffectEnds_FallbackAllowed ==
  /\ pc = "acting"
  /\ \E stop \in StopSeen, real \in {"none", "performed"} :
       /\ effect' = [effect EXCEPT ![tool.call] = real]
       /\ \/ Unresolved(stop)
          \/ real = "performed" /\ Answered("done", stop)
          \/ real = "none" /\ Answered("notDone", stop)
  /\ NoRow /\ UNCHANGED <<env, plan, claims, room, round, audit>>

\* The tool ends and says what it did (StartedAndQuiescent, Committed; or
\* NotStarted, NotCommitted), or ends without a definite word.
EffectEnds ==
  /\ pc = "acting"
  /\ \E stop \in StopSeen, real \in {"none", "performed"} :
       /\ effect' = [effect EXCEPT ![tool.call] = real]
       /\ \/ Unresolved(stop)
          \/ /\ real = "performed"
             /\ Goto("settle", [tool EXCEPT !.answer = "done", !.required = TRUE,
                                            !.stop = stop])
          \/ real = "none" /\ Answered("notDone", stop)
  /\ NoRow /\ UNCHANGED <<env, plan, claims, room, round, audit>>

-----------------------------------------------------------------------------
(* Settling the answer.                                                    *)

\* The code of the result row, as the log grammar reads it.
CodeOf(said) ==
  CASE said \in {"read", "done"} -> "ok"
    [] said \in Refusals -> said
    [] OTHER -> "error"

\* settle_tool_result, settle_settled: the preferred row, or the claimed one
\* where the preferred does not fit and need not.  With the room of the largest
\* result the driver's own rows fit; a tool's result may be more than it said.
Fits == tool.call \in room /\ tool.answer \notin {"done", "notDone"}
Fallbacks == IF tool.required \/ Fits THEN {} ELSE {"fallback"}

ResultRow(said) ==
  /\ Commit(L!AfterToolResult(log, tool.call, CodeOf(said)))
  /\ answer' = [answer EXCEPT ![tool.call] = said]
  /\ claims' = claims \ {ResultClaim(tool.call)}

\* The tool's own stop is latched, then the one the round itself sees now.
AfterResult(r, said, concludes) ==
  LET stop == First(First(r.stop, tool.stop), Interrupt) IN
  [r EXCEPT !.stop = stop,
            !.cancelled = @ \/ "cancelled" \in {tool.stop, stop},
            !.failed = @ \/ "timeout" \in {tool.stop, stop},
            !.concludes = @ \/ (concludes /\ said \in {"read", "done"})]

Settle ==
  /\ pc = "settle" /\ tool.answer # "unknown"
  /\ \E said \in {tool.answer} \cup Fallbacks, concludes \in BOOLEAN :
       /\ ResultRow(said)
       /\ round' = AfterResult(round, said, concludes)
  /\ Goto("call", NewTool)
  /\ UNCHANGED <<env, plan, room, decision, effect>>

SettleUnknown_Continues ==
  /\ pc = "settle" /\ tool.answer = "unknown" /\ Durable
  /\ \E said \in {"unknown"} \cup Fallbacks : ResultRow(said)
  /\ round' = AfterResult(round, "unknown", FALSE)
  /\ Goto("call", NewTool)
  /\ UNCHANGED <<env, plan, room, decision, effect>>

\* settle_unknown_tool_outcome: no further tool will start.
SettleUnknown ==
  /\ pc = "settle" /\ tool.answer = "unknown" /\ Durable
  /\ \E said \in {"unknown"} \cup Fallbacks : ResultRow(said)
  /\ round' = [round EXCEPT !.failed = TRUE, !.stop = First(@, tool.stop)]
  /\ Goto("call", NewTool)
  /\ UNCHANGED <<env, plan, room, decision, effect>>

Return(r, outcome) == pc' = "returned" /\ round' = [r EXCEPT !.outcome = outcome]

LeaveUnanswered_KeepsLater ==
  /\ pc = "settle" /\ tool.answer = "unknown" /\ ~Durable
  /\ claims' = claims \ {ResultClaim(tool.call)}
  /\ Return([round EXCEPT !.stop = First(@, tool.stop)], "error")
  /\ NoRow /\ UNCHANGED <<env, plan, room, tool, audit, effect>>

\* A memory session has no row for an unknown outcome: the call stays open on
\* the surface and the claims of every later call are given back.
LeaveUnanswered ==
  /\ pc = "settle" /\ tool.answer = "unknown" /\ ~Durable
  /\ claims' = {}
  /\ Return([round EXCEPT !.stop = First(@, tool.stop)], "error")
  /\ NoRow /\ UNCHANGED <<env, plan, room, tool, audit, effect>>

\* Every call is answered.
RoundDone ==
  /\ pc = "call" /\ \A c \in Planned : CallClaim(c) \notin claims
  /\ Return(round, IF round.limit \/ round.lost \/ round.failed THEN "error"
                   ELSE IF round.cancelled THEN "cancelled"
                   ELSE IF round.concludes THEN "completed" ELSE "continue")
  /\ NoRow /\ UNCHANGED <<env, plan, claims, room, tool, audit, effect>>

-----------------------------------------------------------------------------

Step ==
  \/ ClaimRound \/ CommitAssistant \/ RoundBarrier \/ RecordCall \/ DispatchBarrier
  \/ RefuseCall \/ PreparationStopped \/ NoticeStop
  \/ DeniedByPolicy \/ NoRoom \/ Reserve \/ CannotAsk \/ Ask \/ AskedBarrier
  \/ ApprovalStopped \/ Decide \/ DecidedBarrier
  \/ StoppedBeforeStart \/ StartEffect
  \/ Settle \/ SettleUnknown \/ LeaveUnanswered \/ RoundDone

\* Setups and effects end: they own a deadline and a kill of their own.
Tool == SetupEnds \/ EffectEnds

Next == Step \/ Tool \/ Prepared \/ ApprovalAnswer \/ Cancel \/ Expire \/ Abandon

Spec == Init /\ [][Next]_vars

\* The driver is polled, time passes (its timeout is what ends a preparation
\* that hangs), a started setup or effect ends.  The user at the approval
\* prompt may stay silent.
FairSpec == Spec /\ WF_vars(Step) /\ WF_vars(Tool) /\ WF_vars(Expire)

-----------------------------------------------------------------------------
(* Properties.                                                             *)

Stops == {"none", "cancelled", "timeout"}

TypeOK ==
  /\ pc \in AtSession \cup Ended \cup
            {"claim", "prepare", "setup", "resolve", "waiting", "start", "acting"}
  /\ cancelled \in BOOLEAN /\ expired \in BOOLEAN /\ dirty \in BOOLEAN
  /\ observer \in {"up", "down"}
  /\ claims \subseteq RoundClaims \cup ({"decided"} \X Approvals)
  /\ room \subseteq Calls
  /\ tool \in [call : Calls \cup {"none"},
               approval : Approvals \cup {"none"},
               outcome : L!Outcomes \cup {"none"}, answer : Answers \cup {"none"},
               required : BOOLEAN, stop : Stops]
  /\ round \in [limit : BOOLEAN, lost : BOOLEAN, cancelled : BOOLEAN, failed : BOOLEAN,
                concludes : BOOLEAN, stop : Stops,
                outcome : {"none", "error", "cancelled", "completed", "continue"}]
  /\ decision \in [Calls -> L!Outcomes \cup {"none"}]
  /\ answer \in [Calls -> Answers \cup {"none"}]
  /\ effect \in [Calls -> {"none", "running", "performed"}]

\* Every row the round writes continues the log (the module's rows are rows of
\* SessionProjection, whatever order the stops and losses come in).
LogFollowsGrammar == [][L!Next]_log

\* A tool changes something outside only when all of this holds at that moment:
\* its call and its permission are flushed and seen by the observer, the policy
\* or the user allows it, its truthful result has room, no stop has come, and no
\* earlier call of the round was cut off, lost or refused room.
EffectIsAuthorised ==
  [][\A c \in Calls : effect[c] = "none" /\ effect'[c] = "running" =>
       /\ ~dirty /\ observer = "up"
       /\ log.call[c].stage = "started" /\ ResultClaim(c) \in claims /\ c \in room
       /\ \/ plan.policy[c] = "allow"
          \/ plan.policy[c] = "ask" /\ decision[c] = "allowed"
       /\ Interrupt = "none" /\ round.stop = "none"
       /\ ~round.limit /\ ~round.lost /\ ~round.failed
       /\ \A d \in Calls : effect[d] # "running" /\ answer[d] # "unknown"]_vars

\* What a tool did is what its row says: a performed effect is answered by its
\* own result or as unknown, never by a fallback or as not done, and "done" is
\* never said of a tool that did nothing.
EffectAnsweredTruthfully ==
  \A c \in Calls :
    /\ effect[c] = "performed" =>
         \/ answer[c] \in {"done", "unknown"}
         \/ answer[c] = "none" /\ (pc \in Ended \/ tool.call = c)
    /\ answer[c] = "done" => effect[c] = "performed"
    /\ effect[c] = "running" => tool.call = c /\ pc = "acting"

\* When the round returns, no claim is left; every recorded call is answered,
\* and every declared call was recorded.  The one exception is the call whose
\* outcome a memory session cannot record: it is the last one, and an error.
RoundLeavesNothingOpen ==
  pc = "returned" =>
    /\ claims = {} /\ log.asked = {}
    /\ \/ round.outcome = "error" /\ \A c \in Planned : log.call[c].stage = "absent"
       \/ \A c \in Planned : answer[c] # "none"
       \/ /\ ~Durable /\ round.outcome = "error"
          /\ \E i \in DOMAIN plan.order :
               \A j \in DOMAIN plan.order : answer[plan.order[j]] # "none" <=> j < i

\* A round lets the turn go on (or conclude) only when nothing is in doubt: no
\* stop was seen by it, no limit met, no observer lost, no outcome unknown; and
\* it concludes only on the word of a result that is really in the log.
ContinueIsClean ==
  pc = "returned" /\ round.outcome \in {"continue", "completed"} =>
    /\ round.stop = "none" /\ ~round.limit /\ ~round.lost
    /\ \A c \in Planned : answer[c] # "unknown"
    /\ round.outcome = "completed" =>
         \E c \in Planned : answer[c] \in {"read", "done"}

\* The round returns, though the user never answers and a preparation hangs.
RoundReturns == <>(pc \in Ended)
=============================================================================
