------------------------------ MODULE ToolAnswer ------------------------------
(* The answer of one tool call: what the registry and the tools behind it     *)
(* build (tools/registry.rs, tools/shell.rs, tools/plugin/action.rs,          *)
(* tools/patch.rs), through the stages that the agent leads it through, with  *)
(* the stops that race each stage and the contract that every result of an    *)
(* owned action is held to (agent/tool.rs).                                   *)
(* What happens behind a stage is in PatchApply, WorkspaceMutation,           *)
(* ProcessSupervisor and PluginActor; the log is in ToolRound.                *)
EXTENDS Naturals

VARIABLES
  tool,      \* what was called
  stage,     \* where the call is
  due,       \* the stops that have come: of the caller, the turn, the stage
  inner,     \* what the tool has noticed of them
  latched,   \* what the agent has noticed
  begun,     \* whether something was really started, sent or changed
  settled,   \* whether a plugin's answer was received
  unseen,    \* whether the observer was lost
  answer     \* the result and the stop that the round gets

vars == <<tool, stage, due, inner, latched, begun, settled, unseen, answer>>

Tools == {"read", "patch", "bash", "plugin"}
Stops == {"caller", "turn"}
Sources == Stops \cup {"local"}
Stages == {"asked", "prepare", "mutation", "setup", "question", "launch", "process", "call",
           "answered"}

\* ToolClaimProfile, ActionContract: what the agent expects of the call
Contract == CASE tool = "bash" -> "shell" [] tool = "plugin" -> "plugin" [] OTHER -> "standard"
Owned == Contract # "standard"

NoResult == [by |-> "none", code |-> "none", begun |-> FALSE, settled |-> FALSE, status |-> "none"]
NoAnswer == [why |-> "open", at |-> "asked", stop |-> "none", result |-> NoResult]
Clear == [stop |-> "none", turn |-> "none", seen |-> {}]

TypeOK ==
  /\ tool \in Tools /\ stage \in Stages /\ due \subseteq Sources
  /\ inner.stop \in Sources \cup {"none"} /\ inner.turn \in Stops \cup {"none"}
  /\ inner.seen \subseteq Sources /\ latched \in Stops \cup {"none"}
  /\ {begun, settled, unseen} \subseteq BOOLEAN
  /\ answer.why \in {"open", "result", "lost", "refused"} /\ answer.stop \in Stops \cup {"none"}

Init ==
  /\ tool \in Tools /\ stage = "asked" /\ due = {} /\ inner = Clear /\ latched = "none"
  /\ begun = FALSE /\ settled = FALSE /\ unseen = FALSE /\ answer = NoAnswer

(* Stops.                                                                     *)
\* every select is biased: the caller first, then the turn
FirstOf(some) ==
  CASE "caller" \in some -> "caller" [] "turn" \in some -> "turn" [] "local" \in some -> "local"
    [] OTHER -> "none"
TurnStop == FirstOf(due \cap Stops)

\* preserve_or_sample_tool_stop, merge_action_stop
Sampled_KeepsOnly(current) == current
Sampled(current) == IF current # "none" THEN current ELSE TurnStop
Merged(current, reported) == IF current # "none" THEN current ELSE reported

\* a deadline of a stage only passes in that stage
Come(s) ==
  /\ stage # "answered" /\ s \notin due
  /\ s = "local" => stage \in {"prepare", "setup", "launch", "process", "call"}
  /\ due' = due \cup {s}
  /\ UNCHANGED <<tool, stage, inner, latched, begun, settled, unseen, answer>>

Noticed(l, s) ==
  [stop |-> IF l.stop = "none" THEN s ELSE l.stop,
   turn |-> IF l.turn = "none" /\ s \in Stops THEN s ELSE l.turn,
   seen |-> l.seen \cup {s}]

\* the loop around the blocking job of a shell action
InnerSees ==
  /\ tool = "bash" /\ stage \in {"setup", "launch"} /\ due \ inner.seen # {}
  /\ inner' = Noticed(inner, FirstOf(due \ inner.seen))
  /\ UNCHANGED <<tool, stage, due, latched, begun, settled, unseen, answer>>

\* a job that ended does not freeze the stops: they are all sampled again
Final(l) ==
  [l EXCEPT !.stop = IF @ = "none" THEN FirstOf(due \ l.seen) ELSE @,
            !.turn = IF @ = "none" THEN FirstOf((due \ l.seen) \cap Stops) ELSE @]

\* the agent's loop around an owned action
AgentSees ==
  /\ Owned /\ stage \in {"setup", "launch", "process", "call"}
  /\ latched = "none" /\ due \cap Stops # {} /\ latched' = TurnStop
  /\ UNCHANGED <<tool, stage, due, inner, begun, settled, unseen, answer>>

(* Results.                                                                   *)
\* shell_error_result, shell_prestart_result
ShellError(code) == [NoResult EXCEPT !.by = "shell", !.code = code]
\* plugin_error_result, settled_success, plugin_meta
PluginResult(code, dispatched, peer) ==
  [NoResult EXCEPT !.by = "plugin", !.code = code, !.begun = dispatched, !.settled = peer]
\* a result of the read-only tools, and of the patch tool
Plain(code) == [NoResult EXCEPT !.by = "standard", !.code = code]
Changed(code, committed) == [Plain(code) EXCEPT !.begun = committed]

NotStartedResult(code) ==
  CASE Contract = "shell" -> ShellError(code) [] Contract = "plugin" -> PluginResult(code, FALSE, FALSE)
    [] OTHER -> Plain(code)

\* validate_action_result, validate_plugin_action_result
Accepts(result, started) ==
  CASE Contract = "shell" ->
         result.by = "shell" /\ result.begun = started /\ (result.status # "none" <=> started)
    [] Contract = "plugin" ->
         /\ result.by = "plugin" /\ result.begun = started
         /\ result.settled => started
         /\ started /\ ~result.settled => result.code = "TOOL_OUTCOME_UNKNOWN"
    [] OTHER -> TRUE
IsError(result) == result.code # "ok"

Ended(why, stop, result) ==
  /\ stage' = "answered" /\ answer' = [why |-> why, at |-> stage, stop |-> stop, result |-> result]
  /\ UNCHANGED <<tool, due, inner, latched>>
Answered(result, stop) == Ended("result", stop, result) /\ UNCHANGED <<begun, settled, unseen>>
Lost(stop) == Ended("lost", stop, NoResult) /\ UNCHANGED <<begun, settled, unseen>>

\* what the agent is told of an action that did not start, or that did
NotStarted(reported, result) ==
  /\ Ended(IF Accepts(result, FALSE) /\ IsError(result) THEN "result" ELSE "refused",
           Sampled(Merged(latched, reported)), result)
  /\ UNCHANGED <<begun, settled, unseen>>
Started(reported, result) ==
  Ended(IF Accepts(result, TRUE) THEN "result" ELSE "refused",
        Sampled(Merged(latched, reported)), result)
Unresolved(reported) == Lost(Sampled(Merged(latched, reported)))

(* Preparation.                                                               *)
\* prestart_failure: an ordinary call that was stopped is "cancelled"
Prestart(code, stop) ==
  Answered(IF Owned \/ stop = "none" THEN NotStartedResult(code) ELSE Plain("ABORTED"), stop)

Enters(next) ==
  /\ stage' = next /\ due' = due \ {"local"} /\ inner' = Clear /\ latched' = "none"
  /\ UNCHANGED <<tool, begun, settled, unseen, answer>>

\* run_one_tool, as far as the registry
Ask ==
  /\ stage = "asked"
  /\ \/ \E code \in {"UNKNOWN_TOOL", "INVALID_TOOL_ARGUMENTS"} : Prestart(code, "none")
     \/ IF TurnStop # "none" THEN Prestart("ABORTED_BEFORE_DISPATCH", TurnStop)
        ELSE Enters("prepare")

\* what the registry completes a call with at once
Completes ==
  CASE tool = "read" -> {Plain("ok"), Plain("FAILED")}
    [] tool = "patch" -> {Plain("FAILED")}
    [] tool = "bash" -> {ShellError("INVALID_ARGS")}
    [] tool = "plugin" -> {PluginResult(c, FALSE, FALSE) : c \in {"INVALID_ARGS", "PLUGIN_UNAVAILABLE"}}

Prepare ==
  /\ stage = "prepare"
  /\ IF due # {}
     THEN Prestart(IF TurnStop = "none" THEN "TOOL_TIMEOUT" ELSE "ABORTED_BEFORE_DISPATCH", TurnStop)
     ELSE \/ Lost("none")
          \/ \E result \in Completes :
               /\ Ended(IF Accepts(result, FALSE) THEN "result" ELSE "refused", "none", result)
               /\ UNCHANGED <<begun, settled, unseen>>
          \/ tool = "patch" /\ Enters("mutation")
          \/ Owned /\ Enters("setup")

(* The setup of an action.                                                    *)
\* what a blocking job of the shell comes to, once the stops were sampled
JobEnds(next) ==
  LET l == Final(inner) IN
  /\ tool = "bash"
  /\ \/ Unresolved(l.turn)
     \/ /\ l.stop # "none"
        /\ NotStarted(l.turn, ShellError(IF l.stop = "local" THEN "TOOL_TIMEOUT"
                                         ELSE "ABORTED_BEFORE_DISPATCH"))
     \/ l.stop = "none" /\ NotStarted("none", ShellError("FAILED"))
     \/ l.stop = "none" /\ next

\* PreparedToolAction::decline, PreparedToolMutation::decline
Declined(code, stop) ==
  LET result == IF Owned THEN NotStartedResult(code) ELSE Changed(code, FALSE) IN
  Ended(IF Accepts(result, FALSE) /\ IsError(result) THEN "result" ELSE "refused", stop, result)

\* resolve_action, once the setup is ready: the stops, the policy, the room
Ready ==
  LET stop == Sampled(latched) IN
  IF stop # "none"
  THEN Declined("ABORTED_BEFORE_DISPATCH", stop) /\ UNCHANGED <<begun, settled, unseen>>
  ELSE \/ /\ \E code \in {"POLICY_DENIED", "TOOL_OUTPUT_BUDGET_EXCEEDED"} : Declined(code, "none")
          /\ UNCHANGED <<begun, settled, unseen>>
       \/ Prestart("SESSION_LIMIT", "none")
       \/ Enters("question")

\* setup_stop of a plugin action
PluginSetup ==
  /\ tool = "plugin"
  /\ CASE TurnStop # "none" ->
            NotStarted(TurnStop, PluginResult("ABORTED_BEFORE_DISPATCH", FALSE, FALSE))
       [] TurnStop = "none" /\ due # {} ->
            NotStarted("none", PluginResult("PLUGIN_TIMEOUT", FALSE, FALSE))
       [] OTHER -> Ready

Setup == stage = "setup" /\ (JobEnds(Ready) \/ PluginSetup)

(* The question, and what follows it.                                         *)
Reasons ==
  {"APPROVAL_REJECTED", "APPROVAL_CANCELLED", "APPROVAL_UNAVAILABLE"}
    \cup (IF stage = "mutation" THEN {"POLICY_DENIED", "TOOL_OUTPUT_BUDGET_EXCEEDED"} ELSE {})

\* request_approval tells the stop that ended it, if one did
Question ==
  /\ stage \in {"question", "mutation"} /\ UNCHANGED <<begun, settled>>
  /\ \/ \E code \in Reasons, stop \in {"none", TurnStop} :
          Declined(code, stop) /\ UNCHANGED unseen
     \/ \E stop \in {"none", TurnStop} : Declined("ABORTED_BEFORE_DISPATCH", stop) /\ unseen' = TRUE
     \/ IF TurnStop # "none"
        THEN Declined("ABORTED_BEFORE_DISPATCH", TurnStop) /\ UNCHANGED unseen
        ELSE Owned /\ Enters(IF tool = "bash" THEN "launch" ELSE "call") /\ UNCHANGED unseen

\* a commit has changed the file or not, and says so (ToolCommitOutcome)
Commit ==
  /\ stage = "mutation" /\ TurnStop = "none" /\ UNCHANGED <<settled, unseen>>
  /\ \/ begun' = TRUE /\ \E code \in {"ok", "FAILED"} : Ended("result", "none", Changed(code, TRUE))
     \/ begun' = FALSE /\ Ended("result", "none", Changed("FAILED", FALSE))

\* run_prepared_action
Launched ==
  stage' = "process" /\ UNCHANGED <<tool, due, inner, latched, begun, settled, unseen, answer>>
Launch == stage = "launch" /\ JobEnds(Launched)

(* A process: ProcessSupervisor.                                              *)
Spawn ==
  /\ stage = "process" /\ ~begun /\ begun' = TRUE
  /\ UNCHANGED <<tool, stage, due, inner, latched, settled, unseen, answer>>

\* map_process_outcome, process_start_failure_result
ProcessFails ==
  /\ stage = "process" /\ ~begun
  /\ \/ NotStarted("none", ShellError("FAILED"))
     \/ due # {} /\ NotStarted(TurnStop, ShellError(IF TurnStop = "none" THEN "TOOL_TIMEOUT"
                                                    ELSE "ABORTED_BEFORE_DISPATCH"))

\* process_report_result, started_result
ProcessReports ==
  /\ stage = "process" /\ begun /\ UNCHANGED <<begun, settled, unseen>>
  /\ \E status \in {"exit", "signal"}, code \in {"ok", "FAILED"}, reported \in {"none", TurnStop} :
       Started(reported,
               [ShellError(code) EXCEPT !.begun = TRUE, !.status = status])

ProcessLost == stage = "process" /\ begun /\ Unresolved(TurnStop)

(* A call of a plugin: PluginActor.                                           *)
Dispatched ==
  /\ stage = "call" /\ ~begun /\ begun' = TRUE
  /\ UNCHANGED <<tool, stage, due, inner, latched, settled, unseen, answer>>
PeerAnswers ==
  /\ stage = "call" /\ begun /\ ~settled /\ settled' = TRUE
  /\ UNCHANGED <<tool, stage, due, inner, latched, begun, unseen, answer>>

\* stop_parts: the code and the stop of the turn
StopCode == IF TurnStop = "none" THEN "PLUGIN_TIMEOUT" ELSE "ABORTED"

\* normalize_outcome of a call that was never sent
NeverSent ==
  /\ stage = "call" /\ ~begun
  /\ \/ \E code \in {"INVALID_ARGS", "PLUGIN_BUSY", "PLUGIN_UNAVAILABLE"} :
          NotStarted("none", PluginResult(code, FALSE, FALSE))
     \/ due # {} /\ NotStarted(TurnStop, PluginResult(StopCode, FALSE, FALSE))
     \/ Unresolved(TurnStop)

\* normalize_outcome of a call that was sent
AfterSettlement_AsUnsettled == PluginResult(StopCode, TRUE, FALSE)
AfterSettlement == PluginResult(StopCode, TRUE, TRUE)

WasSent ==
  /\ stage = "call" /\ begun
  /\ \/ /\ settled /\ UNCHANGED <<begun, settled, unseen>>
        /\ \/ \E code \in {"ok", "FAILED", "PLUGIN_OUTPUT_INVALID"} :
                Started("none", PluginResult(code, TRUE, TRUE))
           \/ due # {} /\ Started(TurnStop, AfterSettlement)
     \/ /\ ~settled /\ UNCHANGED <<begun, settled, unseen>>
        /\ \E reported \in {"none", TurnStop} :
             Started(reported, PluginResult("TOOL_OUTCOME_UNKNOWN", TRUE, FALSE))
     \/ Unresolved(TurnStop)

Next ==
  \/ \E s \in Sources : Come(s)
  \/ InnerSees \/ AgentSees \/ Ask \/ Prepare \/ Setup \/ Question \/ Commit \/ Launch
  \/ Spawn \/ ProcessFails \/ ProcessReports \/ ProcessLost
  \/ Dispatched \/ PeerAnswers \/ NeverSent \/ WasSent

Spec == Init /\ [][Next]_vars

Told == answer.why = "result"

(* The tools keep the contract: no result of theirs is ever refused, for then *)
(* what was done would be answered as a failure of the machinery.             *)
ContractKept == answer.why # "refused"

(* A result says that something was started, sent or changed exactly when it  *)
(* was, and that the outcome is unknown exactly when no answer of the plugin  *)
(* was received.                                                              *)
ResultIsTrue ==
  Told =>
    /\ answer.result.begun = begun /\ answer.result.settled = settled
    /\ answer.result.code = "TOOL_OUTCOME_UNKNOWN" <=> tool = "plugin" /\ begun /\ ~settled

(* A call that was stopped before it began says so together with the stop of  *)
(* the turn, or the observer is lost, which stops the turn too; and no stop   *)
(* that came while an action was set up or ran is overlooked.                 *)
StopIsTold ==
  /\ answer.stop # "none" => answer.stop \in due
  /\ Told /\ answer.result.code = "ABORTED_BEFORE_DISPATCH" => answer.stop # "none" \/ unseen
  /\ answer.at \in {"setup", "launch", "process", "call"} /\ due \cap Stops # {} => answer.stop # "none"

ToolTellsTruth == ContractKept /\ ResultIsTrue /\ StopIsTold
================================================================================
