------------------------------- MODULE MCTools -------------------------------
(* What happens around a tool call: the room that the ledger keeps for the    *)
(* row of its result, the plugin actor, the supervisor of a shell command, its *)
(* output, or the commit of file changes.  They share no state here, and a     *)
(* behaviour is about the one that its first state names.                      *)
EXTENDS MCSessionLedger

CONSTANTS c1, c2, m1, m2, NoCall, User, Nobody
CONSTANTS Calls, QueueCap, MaxLines
CONSTANTS MaxPid, MaxWraps, MaxHiccups
CONSTANTS Changes, MaxEdits

\* The numbers of processes start over at most once while a command runs: that
\* is what the two passes over the process table can see through.
ASSUME ToolsAssumption ==
  /\ {c1, c2} \subseteq Calls /\ {m1, m2} \subseteq Changes
  /\ NoCall \notin Calls /\ "junk" \notin Calls /\ Nobody \notin Changes
  /\ MaxPid \in Nat /\ MaxWraps \in {0, 1} /\ MaxHiccups \in Nat

VARIABLES tool
VARIABLES host, state, shutdown, call, queue, actor, peer, wire, lines
VARIABLES stage, stopped, outer, outcome, run, leader, group, kernel, scan
VARIABLES target, edits, moved, lock, change, staging
VARIABLES script, taken, opened, tail, observed, flags, primary, code, phase, space, result

Plugin == INSTANCE PluginActor
Process == INSTANCE ProcessSupervisor
Workspace == INSTANCE WorkspaceMutation

\* What a command may write: little, enough for a tail, and what is dear to encode.
Written ==
  {<<>>, <<"a", "newline", "a", "a">>, <<"control", "control", "control", "a", "control">>}
Output == INSTANCE ShellOutput
            WITH Scripts <- [{"out", "err"} -> Written], Retained <- 3, Observable <- 5,
                 Chunk <- 4, MaxContent <- 20, Spare <- 2, MaxFaults <- 1, open <- opened

pluginVars == <<host, state, shutdown, call, queue, actor, peer, wire, lines>>
processVars == <<stage, stopped, outer, outcome, run, leader, group, kernel, scan>>
workspaceVars == <<target, edits, moved, lock, change, staging>>
outputVars ==
  <<script, taken, opened, tail, observed, flags, primary, code, phase, space, result>>
toolVars == <<tool, vars, pluginVars, processVars, workspaceVars, outputVars>>

ToolsInit ==
  /\ tool \in {"ledger", "plugin", "process", "workspace", "output"}
  /\ IF tool = "ledger" THEN BothInit ELSE Init
  /\ Plugin!Init /\ Process!Init /\ Workspace!Init /\ Output!Init
  /\ (tool # "output" => flags = {} /\ \A p \in Output!Pipes : script[p] = <<>>)
  /\ (tool # "workspace" => target = Workspace!Absent)

UsesLedger ==
  tool = "ledger"
    /\ UNCHANGED <<tool, pluginVars, processVars, workspaceVars, outputVars>>
UsesPlugin ==
  tool = "plugin" /\ UNCHANGED <<tool, vars, processVars, workspaceVars, outputVars>>
UsesProcess ==
  tool = "process" /\ UNCHANGED <<tool, vars, pluginVars, workspaceVars, outputVars>>
UsesWorkspace ==
  tool = "workspace" /\ UNCHANGED <<tool, vars, pluginVars, processVars, outputVars>>
UsesOutput ==
  tool = "output" /\ UNCHANGED <<tool, vars, pluginVars, processVars, workspaceVars>>

ToolsNext ==
  \/ UsesLedger /\ BothNext
  \/ UsesPlugin /\ Plugin!Next
  \/ UsesProcess /\ Process!Next
  \/ UsesWorkspace /\ Workspace!Next
  \/ UsesOutput /\ Output!Next

\* The fairness of each module, of the steps of this composition.  A behaviour is
\* about one module only, so that steps of different ones may share a condition.
Fairness ==
  /\ WF_toolVars((UsesPlugin /\ Plugin!ActorRuns) \/ (UsesProcess /\ Process!WorkerEnds))
  /\ WF_toolVars((UsesPlugin /\ Plugin!HostCloses) \/ (UsesProcess /\ Process!Starts))
  /\ WF_toolVars((UsesPlugin /\ Plugin!Send(c1)) \/ (UsesProcess /\ Process!Stop("command")))
  /\ WF_toolVars((UsesPlugin /\ Plugin!Send(c2)) \/ (UsesProcess /\ Process!Grace))
  /\ WF_toolVars(\/ UsesPlugin /\ Plugin!Due(c1, "deadline")
                 \/ UsesProcess /\ Process!PipeDrainTimeout)
  /\ WF_toolVars((UsesPlugin /\ Plugin!Due(c2, "deadline")) \/ (UsesProcess /\ Process!Polls))
  /\ WF_toolVars((UsesWorkspace /\ Workspace!Commit(m1)) \/ (UsesProcess /\ Process!Jobs))
  /\ WF_toolVars((UsesWorkspace /\ Workspace!Commit(m2)) \/ (UsesProcess /\ Process!JoinScan))
  /\ WF_toolVars(\/ UsesLedger /\ storage = "closing" /\ ShutdownStep
                 \/ UsesProcess /\ Process!FinishLost)
  /\ WF_toolVars(UsesProcess /\ Process!KilledExit)

ToolsSpec ==
  ToolsInit /\ [][ToolsNext]_toolVars /\ Fairness

\* What a tool answers is what happened: to a call on the wire of a plugin, to
\* the process of a command, and to the file that a change was for.
AnswersTellEffect ==
  /\ Plugin!AnswersTellWire /\ Plugin!WaitersAreHeld
  /\ Process!ProcessOutcome
  /\ Workspace!CommitAgrees

\* The text of a command says what of its output is missing.
OutputIsTold == Output!OutputIsTold

\* Whatever a plugin, a command or a file system does, a call that was sent is
\* answered, a host that stops comes to its end, a command ends, a commit returns,
\* and a session that shuts down closes its storage.  As a behaviour is about one
\* module, goals of different ones share a formula.
OneOf(plugin, process, workspace, ledger) ==
  \/ tool = "plugin" /\ plugin
  \/ tool = "process" /\ process
  \/ tool = "workspace" /\ workspace
  \/ tool = "ledger" /\ ledger

ToolsSettle ==
  /\ OneOf(Plugin!Waits(c1), Process!Runs, Workspace!Begun(m1), storage = "closing")
       ~> OneOf(Plugin!Answered(c1), Process!Done, Workspace!Returned(m1), Shut)
  /\ OneOf(Plugin!Waits(c2), FALSE, Workspace!Begun(m2), FALSE)
       ~> OneOf(Plugin!Answered(c2), FALSE, Workspace!Returned(m2), FALSE)
  /\ OneOf(Plugin!Closes, FALSE, FALSE, FALSE) ~> OneOf(Plugin!Closed, FALSE, FALSE, FALSE)
=============================================================================
