----------------------------- MODULE PluginActor -----------------------------
(* One managed plugin: the thread that owns the child process and its pipes  *)
(* (run_actor), the futures that queue calls for it (invoke), the host that  *)
(* starts and stops it, and the peer at the other end of the pipes.          *)
(*                                                                           *)
(* A record of the protocol is a value: a call, its result, or "junk" for    *)
(* everything the actor cannot match.  The pipe and the line buffer behind   *)
(* it are one sequence.  Signals are delivered some time later, if at all,   *)
(* so sending one changes nothing here: the peer may exit at any time.       *)
EXTENDS Naturals, SequencesExt

CONSTANTS
  Calls,     \* tool calls that may ask for the plugin
  NoCall,    \* the actor drives no call
  QueueCap,  \* calls the queue holds
  MaxLines   \* bound: unread records in the output pipe

VARIABLES
  host,      \* "starting", "greeted", "up", "closing", "failing", "closed",
             \* "dropped"
  state,     \* the published state of the actor
  shutdown,  \* the flag that preempts the queue
  call,      \* the future of each call: where it is, what is due, its answer
  queue,     \* the bounded channel of commands
  actor,     \* where the thread is, and the locals it decides by
  peer,      \* the leader of the process group and its descendants
  wire,      \* how much of each call was written to the peer
  lines      \* what the peer wrote and the actor has not taken

vars == <<host, state, shutdown, call, queue, actor, peer, wire, lines>>

Answers ==
  {"Settled", "InvalidOutput", "Busy", "Unavailable", "StoppedBefore",
   "StoppedAfter", "Unknown", "LostBefore", "LostDispatched"}

TypeOK ==
  /\ host \in {"starting", "greeted", "up", "closing", "failing", "closed",
             "dropped"}
  /\ state \in {"starting", "ready", "faulted", "stopping", "exited"}
  /\ shutdown \in BOOLEAN
  /\ call \in [Calls -> [pc : {"idle", "passed", "waiting", "answered"},
                         due : SUBSET {"cancel", "deadline"},
                         answer : Answers \cup {"none"}]]
  /\ queue \in SeqOf(Calls, QueueCap)
  /\ actor.call \in Calls \cup {NoCall}
  /\ peer \in [leader : {"none", "running", "zombie", "reaped"}, kids : BOOLEAN]
  /\ wire \in [Calls -> {"no", "part", "all"}]
  /\ lines \in SeqOf(Calls \cup {"junk"}, MaxLines)

Init ==
  /\ host = "starting" /\ state = "starting" /\ shutdown = FALSE
  /\ call = [c \in Calls |-> [pc |-> "idle", due |-> {}, answer |-> "none"]]
  /\ queue = <<>>
  /\ actor = [pc |-> "spawn", mode |-> "none", then |-> "none", call |-> NoCall,
              evidence |-> "no", stop |-> "none", fault |-> "none",
              flag |-> FALSE, report |-> "none"]
  /\ peer = [leader |-> "none", kids |-> FALSE]
  /\ wire = [c \in Calls |-> "no"]
  /\ lines = <<>>

-----------------------------------------------------------------------------
(* What is due for a call.  The turn's and the action's deadline are one:    *)
(* they differ in the label of the stop only.                                *)

StopOf(c, stopping) ==
  IF stopping \/ "cancel" \in call[c].due THEN "caller"
  ELSE IF "deadline" \in call[c].due THEN "deadline" ELSE "none"

Latched(c) == IF actor.stop # "none" THEN actor.stop ELSE StopOf(c, shutdown)

\* The calls of a map from calls to answers receive them.
Answer(answers) ==
  call' = [c \in Calls |->
             IF c \in DOMAIN answers
             THEN [pc |-> "answered", due |-> {}, answer |-> answers[c]]
             ELSE call[c]]

To(c, answer) == [d \in {c} |-> answer]
With(c, answer, others) ==
  [d \in {c} \cup DOMAIN others |-> IF d = c THEN answer ELSE others[d]]

RejectForShutdown == [c \in Range(queue) |-> "StoppedBefore"]

RejectForFault ==
  [c \in Range(queue) |->
     IF StopOf(c, FALSE) = "none" THEN "Unavailable" ELSE "StoppedBefore"]

\* What one look at both pipes and at the leader may report besides lines.
\* Losing the leader is reported before anything that was read.
PumpReports ==
  {"Process", "OutputLimit", "OwnershipLost"}
    \cup (IF peer.leader = "running" \/ lines # <<>> THEN {"none"} ELSE {})

\* How the cleanup begins after a fault.
CleanupAfter(fault) == IF fault = "OutputLimit" THEN "kill" ELSE "term"

\* A partial write counts as no dispatch.
FatalOutcome_PartIsNothing(evidence, stop, fault, report) ==
  IF report = "lost"
  THEN IF evidence = "no" THEN "LostBefore" ELSE "LostDispatched"
  ELSE IF evidence = "all" THEN "Unknown"
  ELSE IF stop # "none" \/ fault = "WriteTimeout" THEN "StoppedBefore"
  ELSE "Unavailable"

FatalOutcome(evidence, stop, fault, report) ==
  IF report = "lost"
  THEN IF evidence = "no" THEN "LostBefore" ELSE "LostDispatched"
  ELSE IF evidence # "no" THEN "Unknown"
  ELSE IF stop # "none" \/ fault = "WriteTimeout" THEN "StoppedBefore"
  ELSE "Unavailable"

-----------------------------------------------------------------------------
(* The thread, from the start of the process to the greeting.                *)

\* No process is left behind, or one whose end could not be proved.
StartFails ==
  /\ actor.pc = "spawn"
  /\ \E lost \in BOOLEAN :
       /\ (lost => ~shutdown)
       /\ state' = IF lost THEN "faulted" ELSE "exited"
       /\ actor' = [actor EXCEPT !.pc = "finished",
                                 !.report = IF lost THEN "lost" ELSE "quiet"]
  /\ UNCHANGED <<host, shutdown, call, queue, peer, wire, lines>>

StartProcess ==
  /\ actor.pc = "spawn" /\ ~shutdown
  /\ peer' = [leader |-> "running", kids |-> FALSE]
  /\ actor' = [actor EXCEPT !.pc = "hello"]
  /\ UNCHANGED <<host, state, shutdown, call, queue, wire, lines>>

\* The thread cleans up in one of three ways and then does what is left.
CleanUp(mode, then) ==
  [actor EXCEPT !.pc = "cleanup", !.mode = mode, !.then = then]

\* A bad line, a lost peer, the deadline or a shutdown ends the handshake.
HandshakeFails ==
  /\ actor.pc = "hello"
  /\ \E fault \in {"Protocol", "Process", "OutputLimit", "OwnershipLost"} :
       actor' = CleanUp(CleanupAfter(fault), "finish")
  /\ state' = "faulted"
  /\ UNCHANGED <<host, shutdown, call, queue, peer, wire, lines>>

HelloArrives ==
  /\ actor.pc = "hello" /\ peer.leader = "running" /\ lines = <<>>
  /\ actor' = [actor EXCEPT !.pc = "flag"]
  /\ UNCHANGED <<host, state, shutdown, call, queue, peer, wire, lines>>

\* The flag is read, and the state stored a moment later: a request to stop
\* in between is overwritten by READY, but the flag still stops the loop.
ReadFlag ==
  /\ actor.pc = "flag"
  /\ actor' = [actor EXCEPT !.pc = "announce", !.flag = shutdown]
  /\ UNCHANGED <<host, state, shutdown, call, queue, peer, wire, lines>>

Announce ==
  /\ actor.pc = "announce"
  /\ state' = IF actor.flag THEN "stopping" ELSE "ready"
  /\ host' = IF host = "starting" THEN "greeted" ELSE host
  /\ shutdown' = (shutdown \/ host # "starting")
  /\ actor' = [actor EXCEPT !.pc = "loop", !.flag = FALSE]
  /\ UNCHANGED <<call, queue, peer, wire, lines>>

-----------------------------------------------------------------------------
(* The loop of the thread between calls.                                     *)

LoopStops ==
  /\ actor.pc = "loop" /\ shutdown
  /\ Answer(RejectForShutdown) /\ queue' = <<>>
  /\ actor' = CleanUp("close", "shutdown")
  /\ UNCHANGED <<host, state, shutdown, peer, wire, lines>>

LoopRuns ==
  /\ actor.pc = "loop" /\ ~shutdown
  /\ actor' = [actor EXCEPT !.pc = "pump"]
  /\ UNCHANGED <<host, state, shutdown, call, queue, peer, wire, lines>>

\* A fault, or any line while no call is open, ends the plugin; what is
\* queued is answered before the cleanup, and not again after it.
IdleFault ==
  /\ actor.pc = "pump"
  /\ \E fault \in IF lines # <<>> THEN {"OwnershipLost", "Protocol"}
                 ELSE PumpReports \ {"none"} :
       actor' = CleanUp(CleanupAfter(fault), "finish")
  /\ state' = "faulted"
  /\ Answer(RejectForFault) /\ queue' = <<>>
  /\ UNCHANGED <<host, shutdown, peer, wire, lines>>

IdleTurns ==
  /\ actor.pc = "pump" /\ peer.leader = "running" /\ lines = <<>>
  /\ queue = <<>>
  /\ actor' = IF host = "dropped" THEN CleanUp("close", "finish")
              ELSE [actor EXCEPT !.pc = "loop"]
  /\ UNCHANGED <<host, state, shutdown, call, queue, peer, wire, lines>>

TakeCall ==
  /\ actor.pc = "pump" /\ peer.leader = "running" /\ lines = <<>>
  /\ queue # <<>>
  /\ queue' = Tail(queue)
  /\ actor' = [actor EXCEPT !.pc = "write", !.call = Head(queue)]
  /\ UNCHANGED <<host, state, shutdown, call, peer, wire, lines>>

-----------------------------------------------------------------------------
(* One call: its record is written, its result awaited, and after a stop the *)
(* grace for a result that is under way.                                     *)

\* The call ends with an answer and the plugin lives on, unless the call was
\* stopped by the shutdown of the plugin.
Continue(answer) ==
  LET done == [actor EXCEPT !.call = NoCall, !.evidence = "no", !.stop = "none"]
      last == answer \in {"StoppedBefore", "StoppedAfter"} /\ shutdown
  IN IF last
     THEN /\ Answer(With(actor.call, answer, RejectForShutdown))
          /\ queue' = <<>>
          /\ actor' = [done EXCEPT !.pc = "cleanup", !.mode = "close",
                                   !.then = "shutdown"]
          /\ UNCHANGED state
     ELSE /\ Answer(To(actor.call, answer))
          /\ actor' = [done EXCEPT !.pc = "loop"]
          /\ UNCHANGED <<queue, state>>

\* The call is answered only when the cleanup tells what is known of the peer.
Fatal(evidence, stop, fault) ==
  /\ state' = "faulted"
  /\ actor' = [CleanUp(CleanupAfter(fault), "answer")
                 EXCEPT !.evidence = evidence, !.stop = stop, !.fault = fault]
  /\ UNCHANGED <<call, queue>>

StopBeforeDispatch ==
  /\ actor.pc = "write" /\ actor.evidence = "no"
  /\ Latched(actor.call) # "none"
  /\ Continue("StoppedBefore")
  /\ UNCHANGED <<host, shutdown, peer, wire, lines>>

MayWrite ==
  /\ actor.pc = "write"
  /\ (actor.evidence = "no" => Latched(actor.call) = "none")

\* The write deadline is no later than the deadlines of the call.
WriteTimeout ==
  /\ MayWrite
  /\ Fatal(actor.evidence, Latched(actor.call), "WriteTimeout")
  /\ UNCHANGED <<host, shutdown, peer, wire, lines>>

WriteFails ==
  /\ MayWrite /\ "deadline" \notin call[actor.call].due
  /\ Fatal(actor.evidence, Latched(actor.call), "Process")
  /\ UNCHANGED <<host, shutdown, peer, wire, lines>>

\* The evidence once the pipe took none, some or all of the rest.
Evidence(amount) == IF amount = "none" THEN actor.evidence ELSE amount

WriteSome ==
  /\ MayWrite /\ "deadline" \notin call[actor.call].due
  /\ \E amount \in {"none", "part", "all"}, report \in PumpReports :
       LET evidence == Evidence(amount)
           stop == Latched(actor.call)
       IN /\ wire' = [wire EXCEPT ![actor.call] =
                        IF amount = "none" THEN @ ELSE amount]
          /\ IF report = "OwnershipLost"
             THEN Fatal(evidence, stop, report)
             ELSE IF lines # <<>> /\ evidence # "all"
             THEN Fatal(evidence, stop, "Protocol")
             ELSE IF lines = <<>> /\ report # "none"
             THEN Fatal(evidence, stop, report)
             ELSE /\ actor' = [actor EXCEPT
                                 !.pc = IF evidence = "all" THEN "result" ELSE "write",
                                 !.evidence = evidence, !.stop = stop]
                  /\ UNCHANGED <<call, queue, state>>
  /\ UNCHANGED <<host, shutdown, peer, lines>>

\* A matching line is taken and answers the call, any other one is a fault.
TakeResult(answers) ==
  /\ lines # <<>>
  /\ IF Head(lines) = actor.call
     THEN \E answer \in answers : Continue(answer)
     ELSE Fatal(actor.evidence, Latched(actor.call), "Protocol")
  /\ lines' = Tail(lines)
  /\ UNCHANGED <<host, shutdown, peer, wire>>

ReadResult ==
  /\ actor.pc = "result"
  /\ TakeResult(IF Latched(actor.call) = "none"
                THEN {"Settled", "InvalidOutput"} ELSE {"StoppedAfter"})

WaitFails ==
  /\ actor.pc = "result"
  /\ \E fault \in PumpReports \ {"none"} :
       /\ (lines # <<>> => fault = "OwnershipLost")
       /\ (lines = <<>> /\ Latched(actor.call) # "none" => fault = "Process")
       /\ Fatal(actor.evidence, Latched(actor.call), fault)
  /\ UNCHANGED <<host, shutdown, peer, wire, lines>>

\* A latched stop is told to the peer, which has a grace to answer.
SendCancel ==
  /\ actor.pc = "result" /\ lines = <<>>
  /\ Latched(actor.call) # "none"
  /\ actor' = [actor EXCEPT !.pc = "grace", !.stop = Latched(actor.call)]
  /\ UNCHANGED <<host, state, shutdown, call, queue, peer, wire, lines>>

GraceResult == actor.pc = "grace" /\ TakeResult({"StoppedAfter"})

\* The grace is over, or the peer or its pipes failed in it.
GraceEnds ==
  /\ actor.pc = "grace"
  /\ \E fault \in {"Process", "OutputLimit", "OwnershipLost"} :
       Fatal(actor.evidence, actor.stop, fault)
  /\ UNCHANGED <<host, shutdown, peer, wire, lines>>

-----------------------------------------------------------------------------
(* The end of the process and of the thread.                                 *)

\* The leader is reaped once it exited and its group was seen empty.
Quiescent ==
  /\ actor.pc = "cleanup" /\ peer.leader = "zombie" /\ ~peer.kids
  /\ peer' = [peer EXCEPT !.leader = "reaped"]
  /\ actor' = [actor EXCEPT !.pc = "settle", !.report = "quiet", !.mode = "none"]
  /\ UNCHANGED <<host, state, shutdown, call, queue, wire, lines>>

\* Closed input, then TERM, then KILL, each with its deadline; a member that
\* outlives the last one, or a leader nobody can observe, is given up.
Escalate ==
  /\ actor.pc = "cleanup"
  /\ actor' = CASE actor.mode = "close" -> [actor EXCEPT !.mode = "term"]
                [] actor.mode = "term" -> [actor EXCEPT !.mode = "kill"]
                [] actor.mode = "kill" ->
                     [actor EXCEPT !.pc = "settle", !.report = "lost", !.mode = "none"]
  /\ UNCHANGED <<host, state, shutdown, call, queue, peer, wire, lines>>

LoseLeader ==
  /\ actor.pc = "cleanup"
  /\ actor' = [actor EXCEPT !.pc = "settle", !.report = "lost", !.mode = "none"]
  /\ UNCHANGED <<host, state, shutdown, call, queue, peer, wire, lines>>

\* What is still to be answered, and the state EXITED.
Settle ==
  /\ actor.pc = "settle"
  /\ CASE actor.then = "shutdown" -> Answer(RejectForShutdown) /\ queue' = <<>>
       [] actor.then = "finish" -> UNCHANGED <<call, queue>>
       [] actor.then = "answer" ->
            /\ Answer(With(actor.call, FatalOutcome(actor.evidence, actor.stop,
                                                 actor.fault, actor.report),
                        RejectForFault))
            /\ queue' = <<>>
  /\ state' = "exited"
  /\ actor' = [actor EXCEPT !.pc = "finished", !.then = "none", !.call = NoCall,
                            !.evidence = "no", !.stop = "none", !.fault = "none"]
  /\ lines' = <<>>
  /\ UNCHANGED <<host, shutdown, peer, wire>>

\* The receiver goes with the thread: a call that was queued after the last
\* rejection finds its answer channel closed.
ThreadEnds ==
  /\ actor.pc = "finished"
  /\ Answer([c \in Range(queue) |-> "LostDispatched"]) /\ queue' = <<>>
  /\ actor' = [actor EXCEPT !.pc = "gone"]
  /\ UNCHANGED <<host, state, shutdown, peer, wire, lines>>

-----------------------------------------------------------------------------
(* The future of a call: the published state is read first, the command sent *)
(* later.                                                                    *)

Invoke(c) ==
  /\ host \in {"up", "closing"} /\ call[c].pc = "idle"
  /\ IF state = "ready" THEN call' = [call EXCEPT ![c].pc = "passed"]
     ELSE Answer(To(c, "Unavailable"))
  /\ UNCHANGED <<host, state, shutdown, queue, actor, peer, wire, lines>>

Send(c) ==
  /\ call[c].pc = "passed"
  /\ IF actor.pc = "gone" THEN Answer(To(c, "Unavailable")) /\ UNCHANGED queue
     ELSE IF Len(queue) = QueueCap THEN Answer(To(c, "Busy")) /\ UNCHANGED queue
     ELSE /\ call' = [call EXCEPT ![c].pc = "waiting"]
          /\ queue' = Append(queue, c)
  /\ UNCHANGED <<host, state, shutdown, actor, peer, wire, lines>>

\* Sending does not look at what is due, so it is due from then on.
Due(c, what) ==
  /\ call[c].pc = "waiting" /\ what \notin call[c].due
  /\ call' = [call EXCEPT ![c].due = @ \cup {what}]
  /\ UNCHANGED <<host, state, shutdown, queue, actor, peer, wire, lines>>

-----------------------------------------------------------------------------
(* The host.                                                                 *)

RequestShutdown ==
  /\ shutdown' = TRUE
  /\ state' = IF state \in {"starting", "ready"} THEN "stopping" ELSE state

\* The greeting is accepted.
HostStarts ==
  /\ host = "greeted" /\ host' = "up"
  /\ UNCHANGED <<state, shutdown, call, queue, actor, peer, wire, lines>>

\* Startup failed, was cancelled, timed out or declared colliding tools; or
\* the program shuts its plugins down.
Shutdown ==
  /\ host \in {"starting", "greeted", "up"}
  /\ host' = IF host = "up" THEN "closing" ELSE "failing"
  /\ RequestShutdown
  /\ UNCHANGED <<call, queue, actor, peer, wire, lines>>

HostCloses ==
  /\ host \in {"closing", "failing"} /\ actor.pc = "gone"
  /\ host' = "closed"
  /\ UNCHANGED <<state, shutdown, call, queue, actor, peer, wire, lines>>

\* Without an orderly shutdown the flag is set and the group is killed.
DropHost ==
  /\ host \in {"starting", "greeted", "up", "closing", "failing"}
  /\ \A c \in Calls : call[c].pc \in {"idle", "answered"}
  /\ host' = "dropped"
  /\ RequestShutdown
  /\ UNCHANGED <<call, queue, actor, peer, wire, lines>>

-----------------------------------------------------------------------------
(* The peer.                                                                 *)

\* A peer answers a call it read as a whole, once, or writes anything else.
PeerWrites(l) ==
  /\ peer.leader = "running" \/ (peer.leader = "zombie" /\ peer.kids)
  /\ Len(lines) < MaxLines
  /\ (l \in Calls => wire[l] = "all" /\ l \notin Range(lines))
  /\ actor.pc \notin {"cleanup", "settle", "finished", "gone"}
  /\ lines' = Append(lines, l)
  /\ UNCHANGED <<host, state, shutdown, call, queue, actor, peer, wire>>

PeerForks ==
  /\ peer.leader = "running" /\ ~peer.kids
  /\ peer' = [peer EXCEPT !.kids = TRUE]
  /\ UNCHANGED <<host, state, shutdown, call, queue, actor, wire, lines>>

LeaderExits ==
  /\ peer.leader = "running"
  /\ peer' = [peer EXCEPT !.leader = "zombie"]
  /\ UNCHANGED <<host, state, shutdown, call, queue, actor, wire, lines>>

KidsExit ==
  /\ peer.kids
  /\ peer' = [peer EXCEPT !.kids = FALSE]
  /\ UNCHANGED <<host, state, shutdown, call, queue, actor, wire, lines>>

-----------------------------------------------------------------------------
Start == StartFails \/ StartProcess \/ HandshakeFails \/ HelloArrives
           \/ ReadFlag \/ Announce
Loop == LoopStops \/ LoopRuns \/ IdleFault \/ IdleTurns \/ TakeCall
DriveCall == StopBeforeDispatch \/ WriteTimeout \/ WriteFails \/ WriteSome
               \/ ReadResult \/ WaitFails \/ SendCancel \/ GraceResult \/ GraceEnds
Finish == Quiescent \/ Escalate \/ LoseLeader \/ Settle \/ ThreadEnds

ActorStep == Start \/ Loop \/ DriveCall \/ Finish
CallStep(c) == Invoke(c) \/ Send(c) \/ \E what \in {"cancel", "deadline"} : Due(c, what)
HostStep == HostStarts \/ Shutdown \/ HostCloses \/ DropHost
PeerStep == (\E l \in Calls \cup {"junk"} : PeerWrites(l))
              \/ PeerForks \/ LeaderExits \/ KidsExit

Next == ActorStep \/ (\E c \in Calls : CallStep(c)) \/ HostStep \/ PeerStep

Spec == Init /\ [][Next]_vars

\* Only a result may stay away for ever.
ActorRuns ==
  /\ (actor.pc = "result" => lines # <<>> \/ Latched(actor.call) # "none")
  /\ ActorStep

\* The thread runs on, each of its other waits has a deadline of its own; a
\* call that passed the check is sent and has a deadline, and the host waits
\* for a thread that ended.
Fairness ==
  /\ WF_vars(ActorRuns)
  /\ \A c \in Calls : WF_vars(Send(c)) /\ WF_vars(Due(c, "deadline"))
  /\ WF_vars(HostCloses)

-----------------------------------------------------------------------------
(* Correctness.                                                              *)

\* How an answer is recorded for the model.
Recorded(answer) ==
  CASE answer \in {"Settled", "InvalidOutput", "StoppedAfter", "Unknown"} -> "started"
    [] answer \in {"Busy", "Unavailable", "StoppedBefore"} -> "not started"
    [] answer = "LostDispatched" -> "started, lost"
    [] answer = "LostBefore" -> "infrastructure"

\* Whatever ended a call, its answer tells what reached the plugin: no byte of
\* a call that is recorded as not started was ever written, a settled one was
\* written as a whole, and an unknown outcome is told only of a plugin that is
\* proved to have stopped and can do nothing more.
AnswersTellWire ==
  \A c \in {d \in Calls : call[d].pc = "answered"} :
    LET answer == call[c].answer
    IN /\ (Recorded(answer) \in {"not started", "infrastructure"} => wire[c] = "no")
       /\ (answer \in {"Settled", "InvalidOutput", "StoppedAfter"} => wire[c] = "all")
       /\ (answer = "Unknown" => wire[c] # "no" /\ peer.leader = "reaped" /\ ~peer.kids)

\* No byte of a call is written after its answer, and what the future of a
\* call awaits is open: it is queued, driven, or about to be answered.
WaitersAreHeld ==
  \A c \in Calls :
    (call[c].pc = "waiting") <=> (c \in Range(queue) \/ c = actor.call)

\* A call that was sent, and a host that shuts down and waits for its thread:
\* both have to be answered, whatever the plugin does.
Waits(c) == call[c].pc = "waiting"
Answered(c) == call[c].pc = "answered"
Closes == host \in {"closing", "failing"}
Closed == host \in {"closed", "dropped"}

\* The design: a call is reported as dispatched only when the host wrote, or
\* may have written, some of it.
DispatchedWasWritten ==
  \A c \in Calls : call[c].answer = "LostDispatched" => wire[c] # "no"
=============================================================================
