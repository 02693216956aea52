-------------------------- MODULE ProcessSupervisor --------------------------
(* One foreground shell command: the checks before it (resolve_action_setup, *)
(* run_prepared_action), the loop that owns the process and its pipes        *)
(* (drive_process), the jobs that read the process table and reap the        *)
(* leader, and the processes of the group themselves.                        *)
(*                                                                           *)
(* A member of the group is its process number.  The kernel hands numbers    *)
(* out upwards and starts over at the top; a pass over the table visits them *)
(* upwards as well, while members fork and exit.  The leader comes first.    *)
EXTENDS Naturals, FiniteSets

CONSTANTS
  MaxPid,       \* bound: numbers of members
  MaxWraps,     \* bound: times the numbers start over while one command runs
  MaxHiccups    \* bound: passes that could not read the table

VARIABLES
  stage,    \* "setup", "approval", "check", "ready", "running", "lost", "done"
  stopped,  \* a stop was latched while the job of the stage ran
  outer,    \* the latched stop is the turn's: a cancellation or its deadline
  outcome,  \* what the model is told
  run,      \* RunningProcess: causes, timers, signals, pipes
  leader,   \* "none", "running", "zombie", "reaped"
  group,    \* the numbers of the other live members
  kernel,   \* the last number handed out, how often they started over
  scan      \* the pass over the process table

vars == <<stage, stopped, outer, outcome, run, leader, group, kernel, scan>>

NoScan == [on |-> FALSE, at |-> 0, live |-> FALSE]

TypeOK ==
  /\ stage \in {"setup", "approval", "check", "ready", "running", "lost", "done"}
  /\ stopped \in BOOLEAN /\ outer \in BOOLEAN
  /\ outcome \in {"none", "not started", "infrastructure", "declined",
                  "quiescent", "lost", "dropped"}
  /\ run.phase \in {"observing", "reaping", "draining"}
  /\ run.primary \in {"none", "stop", "limit", "pipe", "background", "drain"}
  /\ run.open \in 0..2 /\ run.passes \in 0..2
  /\ leader \in {"none", "running", "zombie", "reaped"}
  /\ group \subseteq 1..MaxPid
  /\ kernel \in [last : 0..MaxPid, wraps : 0..MaxWraps, hiccups : 0..MaxHiccups]
  /\ scan \in [on : BOOLEAN, at : 0..MaxPid, live : BOOLEAN]

Init ==
  /\ stage = "setup" /\ stopped = FALSE /\ outer = FALSE /\ outcome = "none"
  /\ run = [phase |-> "observing", primary |-> "none", natural |-> FALSE,
            armed |-> FALSE, term |-> FALSE, kill |-> FALSE, grace |-> FALSE,
            passes |-> 0, open |-> 0, cut |-> FALSE, anchor |-> "none",
            hit |-> "none"]
  /\ leader = "none" /\ group = {}
  /\ kernel = [last |-> 0, wraps |-> 0, hiccups |-> 0]
  /\ scan = NoScan

-----------------------------------------------------------------------------
(* Before the process: a blocking job is always awaited, and stops are       *)
(* latched while it runs.                                                    *)

Finished(what) ==
  /\ stage' = "done" /\ outcome' = what /\ stopped' = FALSE

LatchStop ==
  /\ stage \in {"setup", "check"}
  /\ \E turn \in BOOLEAN :
       /\ (IF turn THEN ~outer ELSE ~stopped)
       /\ outer' = (outer \/ turn)
  /\ stopped' = TRUE
  /\ UNCHANGED <<stage, outcome, run, leader, group, kernel, scan>>

\* The job ended: a panic is told first, then the latched stop, then its error.
WorkerEnds ==
  /\ stage \in {"setup", "check"}
  /\ \/ Finished("infrastructure")
     \/ Finished("not started")
     \/ /\ ~stopped
        /\ stage' = IF stage = "setup" THEN "approval" ELSE "ready"
        /\ UNCHANGED <<outcome, stopped>>
  /\ UNCHANGED <<outer, run, leader, group, kernel, scan>>

Decide ==
  /\ stage = "approval"
  /\ \/ stage' = "check" /\ UNCHANGED <<outcome, stopped>>
     \/ Finished("declined")
  /\ UNCHANGED <<outer, run, leader, group, kernel, scan>>

\* A stop is sampled, the pipes are tried, a stop is sampled again, and the
\* process may not start.
NotSpawned ==
  /\ stage = "ready"
  /\ \E turn \in BOOLEAN : outer' = turn
  /\ Finished("not started")
  /\ UNCHANGED <<run, leader, group, kernel, scan>>

-----------------------------------------------------------------------------
(* What the supervisor does about a cause.  run.hit is the leader's state    *)
(* when the group was last signalled.                                        *)

Hit(r) == IF r.armed THEN leader ELSE r.hit

Killed(r) ==
  IF r.kill THEN r ELSE [r EXCEPT !.kill = TRUE, !.grace = FALSE, !.hit = Hit(r)]

ClosePipes(r) == [r EXCEPT !.open = 0, !.cut = @ \/ r.open > 0]

Caused(r, cause) == IF r.primary = "none" THEN [r EXCEPT !.primary = cause] ELSE r

\* ensure_cleanup_started: nothing is signalled once the guard is disarmed.
Cleaned(r) ==
  IF r.primary = "none" THEN r
  ELSE IF ~r.armed
  THEN IF r.primary \in {"stop", "limit"} THEN ClosePipes(r) ELSE r
  ELSE IF r.primary = "limit" THEN ClosePipes(Killed(r))
  ELSE IF r.term \/ r.kill THEN r
  ELSE [r EXCEPT !.term = TRUE, !.grace = TRUE, !.hit = Hit(r)]

Disarmed(r) == [r EXCEPT !.armed = FALSE, !.grace = FALSE]

Spawn ==
  /\ stage = "ready" /\ stage' = "running"
  /\ leader' = "running"
  /\ \E boundary \in {"none", "turn", "action"}, pipesFail \in BOOLEAN :
       LET began == [run EXCEPT !.armed = TRUE, !.open = 2, !.hit = "none",
                                !.primary = IF boundary = "none" THEN "none" ELSE "stop"]
           piped == IF pipesFail THEN ClosePipes(Caused(began, "pipe")) ELSE began
       IN /\ outer' = (boundary = "turn")
          /\ run' = IF piped.primary = "none" THEN piped
                    ELSE [piped EXCEPT !.term = TRUE, !.grace = TRUE, !.hit = "running"]
  /\ UNCHANGED <<stopped, outcome, group, kernel, scan>>

-----------------------------------------------------------------------------
(* The events of the loop.  It ends as soon as the leader is reaped and both *)
(* pipes are done; only a stop is still sampled before that.                 *)

Drained == run.phase = "draining" /\ run.open = 0
Running == stage = "running" /\ ~Drained

\* A cancellation, or the deadline of the turn, the action or the command.
Stop(kind) ==
  /\ stage = "running"
  /\ CASE kind = "turn" -> ~outer
       [] kind = "action" -> run.primary = "none"
       [] kind = "command" -> run.primary = "none" /\ ~run.natural
  /\ outer' = (outer \/ kind = "turn")
  /\ run' = Cleaned(Caused(run, "stop"))
  /\ UNCHANGED <<stage, stopped, outcome, leader, group, kernel, scan>>

Grace ==
  /\ Running /\ run.grace
  /\ run' = Cleaned(Killed(run))
  /\ UNCHANGED <<stage, stopped, outer, outcome, leader, group, kernel, scan>>

PipeDrainTimeout ==
  /\ Running /\ run.phase = "draining"
  /\ run' = Cleaned(ClosePipes(Caused(run, "drain")))
  /\ UNCHANGED <<stage, stopped, outer, outcome, leader, group, kernel, scan>>

\* One pipe ends, fails, or delivers the byte that is one too many.
HandlePipe ==
  /\ Running /\ run.open > 0
  /\ run' \in {Cleaned([run EXCEPT !.open = @ - 1]),
               Cleaned(Caused([run EXCEPT !.open = @ - 1, !.cut = TRUE], "pipe")),
               Cleaned(ClosePipes(Killed(Caused(run, "limit"))))}
  /\ UNCHANGED <<stage, stopped, outer, outcome, leader, group, kernel, scan>>

\* The exit of the leader is seen, and the leader is left as a zombie.
ObserveLeader ==
  /\ Running /\ run.phase = "observing" /\ leader = "zombie" /\ ~run.natural
  /\ run' = Cleaned([run EXCEPT !.natural = TRUE])
  /\ UNCHANGED <<stage, stopped, outer, outcome, leader, group, kernel, scan>>

StartScan ==
  /\ Running /\ run.phase = "observing" /\ run.natural /\ ~scan.on
  /\ scan' = [NoScan EXCEPT !.on = TRUE]
  /\ UNCHANGED <<stage, stopped, outer, outcome, run, leader, group, kernel>>

ScanEntry ==
  /\ scan.on /\ scan.at < MaxPid
  /\ scan' = [scan EXCEPT !.at = @ + 1, !.live = @ \/ scan.at + 1 \in group]
  /\ UNCHANGED <<stage, stopped, outer, outcome, run, leader, group, kernel>>

\* The guard is disarmed before anything may reap the leader.
BeginReap_StillArmed(r) == [r EXCEPT !.phase = "reaping"]
BeginReap(r) == [Disarmed(r) EXCEPT !.phase = "reaping"]

EnoughPasses_One(passes) == passes >= 1
EnoughPasses(passes) == passes >= 2

AfterComplete ==
  LET passed == [run EXCEPT !.passes = @ + 1]
  IN IF EnoughPasses(passed.passes) THEN BeginReap(passed) ELSE passed

\* A pass that met a live member asks for the background to be stopped; one
\* that could not read everything tells nothing; a complete one counts.
ScanEvent ==
  /\ Running /\ scan.on /\ scan.at = MaxPid
  /\ scan' = NoScan
  /\ \/ /\ scan.live
        /\ run' = Cleaned(Caused([run EXCEPT !.passes = 0], "background"))
        /\ UNCHANGED kernel
     \/ /\ kernel.hiccups < MaxHiccups
        /\ kernel' = [kernel EXCEPT !.hiccups = @ + 1]
        /\ run' = Cleaned([run EXCEPT !.passes = 0])
     \/ /\ ~scan.live
        /\ run' = Cleaned(AfterComplete)
        /\ UNCHANGED kernel
  /\ UNCHANGED <<stage, stopped, outer, outcome, leader, group>>

\* The blocking job that waits for the child.
ReapJob ==
  /\ run.phase = "reaping" /\ leader = "zombie"
  /\ leader' = "reaped"
  /\ UNCHANGED <<stage, stopped, outer, outcome, run, group, kernel, scan>>

ReapEvent ==
  /\ Running /\ run.phase = "reaping" /\ leader = "reaped"
  /\ run' = Cleaned([run EXCEPT !.phase = "draining"])
  /\ UNCHANGED <<stage, stopped, outer, outcome, leader, group, kernel, scan>>

FinishReport ==
  /\ stage = "running" /\ Drained
  /\ Finished("quiescent")
  /\ UNCHANGED <<outer, run, leader, group, kernel, scan>>

-----------------------------------------------------------------------------
(* Lost ownership: the table cannot be trusted (the exit was seen and the    *)
(* group may be killed), or the exit itself cannot be read.                  *)

LoseOwnership ==
  /\ Running
  /\ \/ /\ run.phase = "observing" /\ leader = "zombie"
        /\ run' = [ClosePipes(run) EXCEPT !.anchor = "unknown"]
        /\ UNCHANGED scan
     \/ /\ run.phase = "observing" /\ scan.on
        /\ run' = [ClosePipes(run) EXCEPT !.anchor = "exited"]
        /\ scan' = NoScan
     \/ /\ run.phase = "reaping" /\ leader = "reaped"
        /\ run' = [ClosePipes(run) EXCEPT !.anchor = "unknown"]
        /\ UNCHANGED scan
  /\ stage' = "lost"
  /\ UNCHANGED <<stopped, outer, outcome, leader, group, kernel>>

\* Stops of the turn are still latched while jobs are awaited.
LatchWhileLost ==
  /\ stage = "lost" /\ ~outer
  /\ outer' = TRUE
  /\ run' = Caused(run, "stop")
  /\ UNCHANGED <<stage, stopped, outcome, leader, group, kernel, scan>>

JoinScan ==
  /\ stage = "lost" /\ scan.on /\ scan.at = MaxPid
  /\ scan' = NoScan
  /\ UNCHANGED <<stage, stopped, outer, outcome, run, leader, group, kernel>>

FinishLost ==
  /\ stage = "lost" /\ ~scan.on
  /\ run' = Disarmed(IF run.anchor = "exited" THEN Killed(run) ELSE run)
  /\ leader' = "reaped"
  /\ Finished("lost")
  /\ UNCHANGED <<outer, group, kernel, scan>>

\* The future is dropped: an armed guard kills the group of a leader that is
\* still there.
DropFuture ==
  /\ stage \in {"running", "lost"}
  /\ run' = IF run.armed /\ leader # "reaped"
            THEN [run EXCEPT !.kill = TRUE, !.grace = FALSE, !.hit = Hit(run)]
            ELSE run
  /\ Finished("dropped")
  /\ UNCHANGED <<outer, leader, group, kernel, scan>>

-----------------------------------------------------------------------------
(* The processes.  A member that has KILL pending forks no more.             *)

Alive == leader = "running" \/ group # {}

Fork ==
  /\ Alive /\ ~run.kill
  /\ \E pid \in (1..MaxPid) \ group :
       LET wraps == IF pid > kernel.last THEN kernel.wraps ELSE kernel.wraps + 1
       IN /\ wraps <= MaxWraps
          /\ group' = group \cup {pid}
          /\ kernel' = [kernel EXCEPT !.last = pid, !.wraps = wraps]
  /\ UNCHANGED <<stage, stopped, outer, outcome, run, leader, scan>>

LeaderExits ==
  /\ leader = "running"
  /\ leader' = "zombie"
  /\ UNCHANGED <<stage, stopped, outer, outcome, run, group, kernel, scan>>

MemberExits(pid) ==
  /\ pid \in group
  /\ group' = group \ {pid}
  /\ UNCHANGED <<stage, stopped, outer, outcome, run, leader, kernel, scan>>

-----------------------------------------------------------------------------
Before == LatchStop \/ WorkerEnds \/ Decide \/ NotSpawned \/ Spawn
Stops == \E kind \in {"turn", "action", "command"} : Stop(kind)
Events == Grace \/ PipeDrainTimeout \/ HandlePipe \/ ObserveLeader \/ StartScan
            \/ ScanEvent \/ ReapEvent \/ FinishReport
Jobs == ScanEntry \/ ReapJob
Lost == LoseOwnership \/ LatchWhileLost \/ JoinScan \/ FinishLost
Processes == Fork \/ LeaderExits \/ \E pid \in 1..MaxPid : MemberExits(pid)

Next == Before \/ Stops \/ Events \/ Jobs \/ Lost \/ DropFuture \/ Processes

Spec == Init /\ [][Next]_vars

Starts == NotSpawned \/ Spawn
Polls == ObserveLeader \/ StartScan \/ ScanEvent \/ ReapEvent \/ FinishReport
KilledExit == run.kill /\ (LeaderExits \/ \E pid \in 1..MaxPid : MemberExits(pid))

\* Jobs end, timers fire, the runtime polls the loop, and killed processes
\* exit.
Fairness ==
  /\ WF_vars(WorkerEnds) /\ WF_vars(Starts) /\ WF_vars(Stop("command"))
  /\ WF_vars(Grace) /\ WF_vars(PipeDrainTimeout) /\ WF_vars(Polls)
  /\ WF_vars(Jobs) /\ WF_vars(JoinScan) /\ WF_vars(FinishLost)
  /\ WF_vars(KilledExit)

-----------------------------------------------------------------------------
(* Correctness.                                                              *)

\* A signal goes to the group only while its leader is unreaped: afterwards
\* the number may belong to somebody else's processes.
SignalsOwnGroup == run.hit \in {"none", "running", "zombie"}

\* A report of a quiescent command is true: the leader is reaped, no member
\* of its group lives on, whatever the members did during the passes, and a
\* natural end means nobody was signalled, no stop was latched and no output
\* was cut off.  A command that never started left no process, and one whose
\* ownership was lost can no longer be signalled.
ReportIsTrue ==
  /\ (outcome = "quiescent" => leader = "reaped" /\ group = {})
  /\ (outcome = "quiescent" /\ run.primary = "none"
        => ~run.term /\ ~run.kill /\ ~outer /\ ~run.cut)
  /\ (outcome \in {"not started", "infrastructure", "declined"} => leader = "none")
  /\ (outcome = "lost" => leader = "reaped" /\ ~run.armed)

ProcessOutcome == SignalsOwnGroup /\ ReportIsTrue

\* A command that was approved has to come to an end.
Runs == stage \in {"check", "ready", "running", "lost"}
Done == stage = "done"
=============================================================================
