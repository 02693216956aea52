--------------------------- MODULE InteractiveTurn ---------------------------
(***************************************************************************)
(* The interactive front end while a turn runs: one task polls the agent's *)
(* future, five signal streams, the terminal in both directions, and the   *)
(* two channels on which the agent's rows and its questions arrive.        *)
(*                                                                         *)
(* The agent, inside the future, commits the prompt, may ask questions one *)
(* after the other, and ends its turn; or it ends the turn before the      *)
(* prompt is committed.  A question reaches the terminal as a              *)
(* durable row and as an envelope that carries the way to answer it; the   *)
(* two are joined, shown, and answered from a selector that reads the      *)
(* keyboard only after stale input was thrown away.  The first stop is     *)
(* latched, cancels the agent, and ends the turn once the future is done.  *)
(*                                                                         *)
(* A turn runs in two loops with the same body: until the future is done,  *)
(* and then until the end of the turn is rendered.  Each is split at its   *)
(* select: "top" is what it does before, "select" what becomes ready.      *)
(***************************************************************************)
EXTENDS Naturals, Sequences, SequencesExt, FiniteSets

CONSTANTS Questions,   \* a sequence: the approval ids, in the order they are asked
          Exits,       \* a sequence: the terminating signals, in the order polled
          MaxTurns,    \* bounds of the model: turns, and what comes from outside,
          MaxMoves     \* that is signals, keys and faults together

ASSUME ExitNames ==
  /\ Exits \in Seq(STRING)
  /\ ToSet(Exits) \cap {"none", "suspend", "interrupt", "eof", "failure"} = {}
ASSUME QuestionNames == "none" \notin ToSet(Questions)

VARIABLES
  enhanced,  \* the presentation with a dock, else the linear one
  pc,        \* where the front end is
  turn,      \* the number of the turn
  agent,     \* the future of run_turn: at, the question it is about, its result
  events,    \* committed rows on their way to the terminal
  faulted,   \* the observer of committed rows was given up
  envelopes, \* the channel of questions, capacity one
  response,  \* what was sent as the answer of each question
  cancelled, \* the cancellation token of the turn
  signals,   \* signal classes that are ready
  typed,     \* bytes in the terminal's input queue, as keys
  join,      \* ApprovalJoin
  panel,     \* ApprovalUiState with its selector
  frame,     \* the pending output
  stop,      \* the latched StopIntent
  seen,      \* what of the turn was seen: its end, its rendered end, its prompt
  outcome,   \* the disposition run_turn returned
  history,   \* committed prompt, first terminating signal taken, inconsistency
  moves      \* how many signals, keys and faults there were

uiVars == <<join, panel, frame, stop, seen>>
worldVars == <<signals, typed, moves>>
agentVars == <<agent, events, faulted, response>>
vars == <<enhanced, pc, turn, agent, events, faulted, envelopes, response, cancelled,
          signals, typed, join, panel, frame, stop, seen, outcome, history, moves>>

None == "none"
NoFrame == [what |-> None, at |-> None]
EmptyJoin == [asked |-> None, envelope |-> None, active |-> None, awaiting |-> None,
              decided |-> {}, ended |-> FALSE]
NoPanel == [at |-> "inactive", choice |-> "reject", escape |-> None]
NothingSeen == [end |-> FALSE, rendered |-> FALSE, prompt |-> FALSE]
NoHistory == [prompt |-> FALSE, exit |-> None, broken |-> None]
NoAgent == [at |-> None, q |-> None, result |-> None, late |-> FALSE]
Decisions == {"allow", "reject", "cancel"}
Terminating == ToSet(Exits)
Signals == Terminating \cup {"suspend", "interrupt"}

Init ==
  /\ enhanced \in BOOLEAN
  /\ pc = "idle" /\ turn = 0 /\ agent = NoAgent
  /\ events = <<>> /\ faulted = FALSE /\ envelopes = <<>>
  /\ response = [q \in ToSet(Questions) |-> None]
  /\ cancelled = FALSE /\ signals = {} /\ typed = <<>>
  /\ join = EmptyJoin /\ panel = NoPanel /\ frame = NoFrame
  /\ stop = None /\ seen = NothingSeen /\ outcome = None /\ history = NoHistory
  /\ moves = 0

Move == moves < MaxMoves /\ moves' = moves + 1
Fault == Move

-----------------------------------------------------------------------------
(* Stops.                                                                   *)

\* A terminating signal overrides any local stop, and no other terminating one.
ObserveSignal(s, signal) ==
  CASE signal \in Terminating -> IF s \in Terminating THEN s ELSE signal
    [] signal = "suspend" -> IF s \in {None, "interrupt"} THEN "suspend" ELSE s
    [] OTHER -> IF s = None THEN "interrupt" ELSE s

ObserveFailure(s) == IF s \in Terminating THEN s ELSE "failure"

\* The streams are polled in a fixed order, the strongest class first, so that
\* the classes that are ready with it make no other stop of what it made.
Strongest(pending) ==
  IF pending \cap Terminating # {}
  THEN Exits[Min({i \in DOMAIN Exits : Exits[i] \in pending})]
  ELSE IF "suspend" \in pending THEN "suspend" ELSE "interrupt"
Drained(s) == IF signals = {} THEN s ELSE ObserveSignal(s, Strongest(signals))

\* The terminating signal that is taken first from now on is remembered.
Taking(pending) ==
  IF history.exit = None /\ pending \cap Terminating # {} THEN Strongest(pending)
  ELSE history.exit

\* latch_active_failure: the failure, the token, the pending frame.
Fail ==
  /\ stop' = ObserveFailure(stop) /\ cancelled' = TRUE /\ frame' = NoFrame
\* The same for a state the front end takes to be impossible.
Broken == Fail /\ history' = [history EXCEPT !.broken = "join"]

StopWith(s) == stop' = s /\ cancelled' = TRUE /\ frame' = NoFrame

-----------------------------------------------------------------------------
(* The agent.  It advances only when the front end polls its future, which  *)
(* comes after the signals in the first loop and first once it is stopped.  *)

Polled_UnlessStopped == pc = "select" /\ agent.at # "done" /\ stop = None /\ signals = {}
Polled == pc = "select" /\ agent.at # "done" /\ (stop # None \/ signals = {})

\* A committed row goes to the observer, unless the projection of it fails.
Publish(kind, q) ==
  \/ /\ ~faulted
     /\ events' = Append(events, [kind |-> kind, q |-> q, turn |-> turn])
     /\ UNCHANGED <<faulted, moves>>
  \/ /\ ~faulted /\ Fault /\ faulted' = TRUE /\ UNCHANGED events
  \/ /\ faulted /\ UNCHANGED <<events, faulted, moves>>

AgentOnly == UNCHANGED <<enhanced, turn, cancelled, signals, typed, uiVars, outcome>>

CommitPrompt ==
  /\ Polled /\ agent.at = "start"
  /\ Publish("prompt", None)
  /\ agent' = [agent EXCEPT !.at = "run"]
  /\ history' = [history EXCEPT !.prompt = TRUE]
  /\ AgentOnly /\ UNCHANGED <<pc, envelopes, response>>

Ask ==
  /\ Polled /\ agent.at = "run" /\ ~cancelled /\ ~faulted /\ ~agent.late
  /\ \E i \in DOMAIN Questions :
       LET q == Questions[i] IN
       /\ response[q] = None /\ \A j \in 1..i - 1 : response[Questions[j]] # None
       /\ Publish("asked", q)
       /\ agent' = [agent EXCEPT !.at = "ask", !.q = q]
       /\ response' = [response EXCEPT ![q] = "asked"]
  /\ AgentOnly /\ UNCHANGED <<pc, envelopes, history>>

\* TerminalApprovalProvider: nothing is sent when the turn is cancelled.
SendEnvelope ==
  /\ Polled /\ agent.at = "ask"
  /\ IF cancelled \/ faulted \/ Len(envelopes) = 1
     THEN agent' = [agent EXCEPT !.at = "decide"] /\ UNCHANGED envelopes
     ELSE agent' = [agent EXCEPT !.at = "wait"] /\ envelopes' = Append(envelopes, agent.q)
  /\ AgentOnly /\ UNCHANGED <<pc, events, faulted, response, history, moves>>

\* request_approval: the cancellation, the deadline of the turn, or the answer.
StopWaiting ==
  /\ Polled /\ agent.at = "wait"
  /\ \/ /\ cancelled \/ response[agent.q] \in Decisions
        /\ agent' = [agent EXCEPT !.at = "decide"]
     \/ ~cancelled /\ agent' = [agent EXCEPT !.at = "decide", !.late = TRUE]
  /\ AgentOnly /\ UNCHANGED <<pc, events, faulted, envelopes, response, history, moves>>

CommitDecision ==
  /\ Polled /\ agent.at = "decide"
  /\ Publish("decided", agent.q)
  /\ agent' = [agent EXCEPT !.at = "run", !.q = None]
  /\ AgentOnly /\ UNCHANGED <<pc, envelopes, response, history>>

\* run_turn_inner ends any turn alike, also one whose prompt never became a row:
\* cancelled or late before its first step, or one that no room, no summary or no
\* pruning could be found for.
CommitTurnEnd ==
  /\ Polled /\ agent.at \in {"start", "run"}
  /\ Publish("turnEnd", None)
  /\ agent' = [agent EXCEPT !.at = "end"]
  /\ AgentOnly /\ UNCHANGED <<pc, envelopes, response, history>>

\* A turn that lost its observer is an error; another error may come anywhere.
AgentReturns ==
  /\ Polled
  /\ \/ /\ agent.at = "end" /\ ~faulted /\ UNCHANGED moves
        /\ \E r \in {"ok", "full"} : agent' = [NoAgent EXCEPT !.at = "done", !.result = r]
     \/ /\ agent.at = "end" /\ faulted /\ UNCHANGED moves
        /\ agent' = [NoAgent EXCEPT !.at = "done", !.result = "error"]
     \/ /\ agent.at # "end" /\ Fault
        /\ agent' = [NoAgent EXCEPT !.at = "done", !.result = "error"]
  /\ pc' = "drain"
  /\ AgentOnly /\ UNCHANGED <<events, faulted, envelopes, response, history>>

AgentStep ==
  \/ CommitPrompt \/ Ask \/ SendEnvelope \/ StopWaiting
  \/ CommitDecision \/ CommitTurnEnd \/ AgentReturns

-----------------------------------------------------------------------------
(* ApprovalJoin: a question becomes active when both its row and its        *)
(* envelope are there; whatever cannot be is an error.                      *)

\* The agent no longer waits for the answer of q.
ResponseClosed(q) == agent.at # "wait" \/ agent.q # q

\* try_activate: the halves must be of one question.
Joined(j) ==
  IF j.asked = None \/ j.envelope = None THEN j
  ELSE [j EXCEPT !.asked = None, !.envelope = None, !.active = j.asked]
Fits(j) == j.asked = None \/ j.envelope = None \/ j.asked = j.envelope

CanAsk(j, q) ==
  /\ ~j.ended /\ q \notin j.decided
  /\ {j.asked, j.active, j.awaiting} = {None}
  /\ Fits([j EXCEPT !.asked = q])

\* A late envelope, of a question that is over or was answered, is dropped.
Ignores_OnlyAnswered(j, q) == j.ended \/ j.awaiting = q
Ignores(j, q) == j.ended \/ ResponseClosed(q) \/ q \in j.decided \/ j.awaiting = q
CanReceive(j, q) ==
  Ignores(j, q) \/ (j.envelope = None /\ j.active = None /\ Fits([j EXCEPT !.envelope = q]))

CanDecide(j, q) == ~j.ended /\ {j.active, j.asked, j.awaiting} \subseteq {None, q}
Without(q, half) == IF half = q THEN None ELSE half
AfterDecided(j, q) ==
  [j EXCEPT !.asked = Without(q, @), !.envelope = Without(q, @), !.active = Without(q, @),
            !.awaiting = Without(q, @), !.decided = @ \cup {q}]

-----------------------------------------------------------------------------
(* Output.  One frame at a time; what follows it depends on what it shows.  *)

Shows(what) == frame' = [what |-> what, at |-> "fresh"]
Completed_KeepsInput ==
  CASE frame.what \in {"question", "again"} ->
         panel' = [panel EXCEPT !.at = "arming"] /\ typed' = <<>> /\ UNCHANGED seen
    [] frame.what = "selector" ->
         panel' = [panel EXCEPT !.at = "accepting"] /\ UNCHANGED <<seen, typed>>
    [] frame.what = "end" ->
         seen' = [seen EXCEPT !.rendered = TRUE] /\ UNCHANGED <<panel, typed>>
    [] OTHER -> UNCHANGED <<panel, typed, seen>>

\* complete_ready_frame, for a frame that was written to its last byte.  The
\* input that was typed before the question, and then before the selector,
\* was on the screen is thrown away; then the keyboard must stay quiet.
Completed ==
  CASE frame.what \in {"question", "again"} ->
         /\ panel' = [panel EXCEPT !.at = "arming"] /\ typed' = <<>>
         /\ UNCHANGED seen
    [] frame.what = "selector" ->
         /\ panel' = [panel EXCEPT !.at = "accepting"] /\ typed' = <<>>
         /\ UNCHANGED seen
    [] frame.what = "end" ->
         seen' = [seen EXCEPT !.rendered = TRUE] /\ UNCHANGED <<panel, typed>>
    [] OTHER -> UNCHANGED <<panel, typed, seen>>
\* The states of the panel each of them takes for granted.
Completable ==
  /\ frame.what \in {"question", "again"} => panel.at = "inactive"
  /\ frame.what = "selector" => panel.at = "rendering"

-----------------------------------------------------------------------------
(* The top of both loops.                                                   *)

Done == agent.at = "done"

\* What the second loop drains, and a lost observer, may latch a stop.
StopAtTop ==
  LET s == IF Done THEN Drained(stop) ELSE stop IN
  IF faulted THEN ObserveFailure(s) ELSE s

TopStopped ==
  /\ pc = "top" /\ StopAtTop # None
  /\ stop' = StopAtTop /\ panel' = NoPanel
  /\ cancelled' = (cancelled \/ faulted)
  /\ frame' = IF Done \/ faulted THEN NoFrame ELSE frame
  /\ signals' = IF Done THEN {} ELSE signals
  /\ history' = IF Done THEN [history EXCEPT !.exit = Taking(signals)] ELSE history
  /\ pc' = IF Done THEN "finish" ELSE "select"
  /\ UNCHANGED <<enhanced, turn, agentVars, envelopes, typed, join, seen, outcome, moves>>

\* A written frame is completed, or the terminal refuses what comes after it;
\* a question that became active is put on the screen, in the first loop only.
TopGoesOn ==
  /\ pc = "top" /\ StopAtTop = None
  /\ \/ /\ frame.at = "written" /\ ~Completable
        /\ Fail /\ pc' = "top"
        /\ history' = [history EXCEPT !.broken =
                         IF Done /\ frame.what = "selector" THEN "late" ELSE "join"]
        /\ UNCHANGED <<panel, seen, typed, moves>>
     \/ /\ frame.at = "written" /\ frame.what \in {"question", "again", "selector"}
        /\ Fault /\ Fail /\ pc' = "top" /\ panel' = NoPanel
        /\ UNCHANGED <<seen, typed, history>>
     \/ /\ IF frame.at = "written" THEN Completable /\ Completed
           ELSE UNCHANGED <<panel, seen, typed>>
        /\ LET kept == IF frame.at = "written" THEN NoFrame ELSE frame IN
           /\ IF ~Done /\ kept = NoFrame /\ join.active # None /\ panel'.at = "inactive"
              THEN Shows("question") ELSE frame' = kept
           /\ pc' = IF Done /\ seen.end /\ kept = NoFrame THEN "finish" ELSE "select"
        /\ UNCHANGED <<stop, cancelled, history, moves>>
  /\ UNCHANGED <<enhanced, turn, agentVars, envelopes, signals, join, outcome>>

-----------------------------------------------------------------------------
(* The select: signals come first, then the future, then the work.          *)

Selecting == pc = "select" /\ stop = None
UiOnly == UNCHANGED <<enhanced, turn, agent, events, faulted, envelopes, signals, outcome>>

\* Once the turn is stopped only the future and more signals are awaited.
StopSignal ==
  /\ pc = "select" /\ signals # {}
  /\ LET s == Strongest(signals) IN
     /\ stop' = ObserveSignal(stop, s) /\ signals' = signals \ {s}
     /\ history' = [history EXCEPT !.exit = Taking({s})]
     /\ cancelled' = TRUE
     /\ frame' = IF stop = None THEN NoFrame ELSE frame
  /\ pc' = "top"
  /\ UNCHANGED <<enhanced, turn, agentVars, envelopes, typed, join, panel, seen,
                 outcome, moves>>

Worked == pc' = "top" /\ UiOnly

\* The deadline of a frame, or of the second loop; or the terminal fails.
FrameExpires ==
  /\ Selecting /\ (frame # NoFrame \/ Done)
  /\ Fail
  /\ Worked /\ UNCHANGED <<response, typed, join, panel, seen, history, moves>>

\* So does a window that changes while text is half on the screen.
TerminalFails ==
  /\ Selecting /\ Fault /\ Fail
  /\ Worked /\ UNCHANGED <<response, typed, join, panel, seen, history>>

Write ==
  /\ Selecting /\ frame.at = "fresh"
  /\ frame' = [frame EXCEPT !.at = "written"]
  /\ Worked
  /\ UNCHANGED <<response, typed, join, panel, seen, stop, cancelled, history, moves>>

\* The keyboard was quiet: stale input goes, and the selector is drawn.
ApprovalArmed ==
  /\ Selecting /\ panel.at = "arming"
  /\ IF frame # NoFrame THEN Broken /\ panel' = [NoPanel EXCEPT !.at = "rendering"]
     ELSE /\ panel' = [NoPanel EXCEPT !.at = "rendering"] /\ Shows("selector")
          /\ UNCHANGED <<stop, cancelled, history>>
  /\ typed' = <<>>
  /\ Worked /\ UNCHANGED <<response, join, seen, moves>>

Envelope ==
  /\ Selecting /\ envelopes # <<>>
  /\ LET q == Head(envelopes) IN
     IF ~CanReceive(join, q) THEN Broken /\ UNCHANGED join
     ELSE /\ join' = IF Ignores(join, q) THEN join ELSE Joined([join EXCEPT !.envelope = q])
          /\ UNCHANGED <<stop, cancelled, frame, history>>
  /\ envelopes' = Tail(envelopes) /\ pc' = "top"
  /\ UNCHANGED <<enhanced, turn, agentVars, signals, typed, panel, seen, outcome, moves>>

-----------------------------------------------------------------------------
(* Rows.  They are taken only while no frame is pending.                    *)

\* process_event; what produces a frame differs in the two presentations.
Process(row) ==
  CASE row.kind = "prompt" ->
         /\ seen' = [seen EXCEPT !.prompt = TRUE]
         /\ IF enhanced THEN Shows("text") ELSE UNCHANGED frame
         /\ UNCHANGED <<join, panel>>
    [] row.kind = "asked" ->
         join' = Joined([join EXCEPT !.asked = row.q]) /\ UNCHANGED <<frame, panel, seen>>
    [] row.kind = "decided" ->
         /\ join' = AfterDecided(join, row.q) /\ panel' = NoPanel
         /\ IF enhanced THEN UNCHANGED frame ELSE Shows("text")
         /\ UNCHANGED seen
    [] row.kind = "turnEnd" ->
         /\ join' = [join EXCEPT !.ended = TRUE]
         /\ seen' = [seen EXCEPT !.end = TRUE]
         /\ Shows("end") /\ UNCHANGED panel

\* The rows each of them takes for granted.
CanProcess(row) ==
  /\ row.turn = turn
  /\ row.kind = "asked" => CanAsk(join, row.q)
  /\ row.kind = "decided" => CanDecide(join, row.q)
  /\ row.kind = "turnEnd" => ~join.ended

Event ==
  /\ Selecting /\ frame = NoFrame /\ events # <<>>
  /\ IF CanProcess(Head(events))
     THEN Process(Head(events)) /\ UNCHANGED <<stop, cancelled, history>>
     ELSE Broken /\ UNCHANGED <<join, panel, seen>>
  /\ events' = Tail(events) /\ pc' = "top"
  /\ UNCHANGED <<enhanced, turn, agent, faulted, envelopes, response, signals, typed,
                 outcome, moves>>

-----------------------------------------------------------------------------
(* The keyboard.                                                            *)

\* Bytes are not read while the selector waits to be drawn.
Suppressed == frame # NoFrame /\ panel.at \in {"rendering", "accepting"}

\* A key is typed by somebody who sees the selector of a question, or not.
Type ==
  /\ Move /\ pc \notin {"idle", "closed"}
  /\ \E key \in {"up", "enter", "esc", "junk", "eof"} :
       typed' = Append(typed, [key |-> key,
                               saw |-> IF panel.at = "accepting" THEN join.active ELSE None])
  /\ UNCHANGED <<enhanced, pc, turn, agentVars, envelopes, cancelled, signals, uiVars,
                 outcome, history>>

Up == [reject |-> "allow", allow |-> "cancel", cancel |-> "reject"]

\* ApprovalSelector::feed of one key.  In the enhanced presentation a choice
\* that allows must have been on the screen before its Enter was read.
FeedKey(f, key) ==
  IF f.update \in Decisions \cup {"invalid"} THEN f
  ELSE IF f.escape THEN [f EXCEPT !.update = "cancel"]
  ELSE CASE key = "up" -> [f EXCEPT !.choice = Up[@], !.moved = TRUE, !.update = "redraw"]
         [] key = "enter" ->
              [f EXCEPT !.update = IF enhanced /\ f.moved /\ f.choice = "allow"
                                   THEN "invalid" ELSE f.choice]
         [] key = "esc" -> [f EXCEPT !.escape = TRUE]
         [] OTHER -> [f EXCEPT !.update = "invalid"]
Fed(keys) == FoldLeft(LAMBDA f, k : FeedKey(f, k.key),
                      [choice |-> panel.choice, escape |-> panel.escape # None, moved |-> FALSE,
                       update |-> None], keys)

\* The answer goes to the agent, if it still waits; its row will settle it.
Answer(choice) ==
  /\ join' = [join EXCEPT !.active = None, !.awaiting = join.active]
  /\ response' = [response EXCEPT ![join.active] =
                    IF ResponseClosed(join.active) THEN @ ELSE choice]
  /\ panel' = NoPanel
  /\ UNCHANGED <<frame, stop, cancelled, history>>

\* feed and dispatch_approval_update.
Feed(keys) ==
  LET f == Fed(keys) IN
  IF join.active = None \/ (f.update \in {"redraw", "invalid"} /\ frame # NoFrame)
  THEN Broken /\ UNCHANGED <<join, panel, response>>
  ELSE CASE f.update \in Decisions -> Answer(f.update)
         [] f.update = "invalid" ->
              /\ Shows("again") /\ panel' = NoPanel
              /\ UNCHANGED <<join, response, stop, cancelled, history>>
         [] OTHER ->
              /\ panel' = [panel EXCEPT !.choice = f.choice, !.escape =
                              IF ~f.escape THEN None
                              ELSE IF f.update = "redraw" THEN "untimed" ELSE "timed"]
              /\ IF f.update = "redraw" THEN Shows("redraw") ELSE UNCHANGED frame
              /\ UNCHANGED <<join, response, stop, cancelled, history>>

\* Keys that were not meant for a question go to the composer, which may ask to
\* leave; a paste there is followed by a fence that throws input away.
Compose(keys, rest) ==
  \/ typed' = rest /\ UNCHANGED <<stop, cancelled, frame, signals, history>>
  \/ /\ enhanced /\ \E i \in DOMAIN keys : keys[i].key = "enter"
     /\ StopWith("eof") /\ typed' = rest /\ UNCHANGED <<signals, history>>
  \/ /\ enhanced /\ keys[1].key = "junk"
     /\ IF signals = {} THEN typed' = <<>> /\ UNCHANGED <<stop, cancelled, frame, signals, history>>
        ELSE LET s == Strongest(signals) IN
             /\ StopWith(ObserveSignal(stop, s)) /\ signals' = signals \ {s}
             /\ history' = [history EXCEPT !.exit = Taking({s})]
             /\ typed' = rest

\* A read.  The first loop looks for signals and a lost observer once more
\* before it lets the input do anything.
Read ==
  /\ Selecting /\ typed # <<>> /\ ~Suppressed
  /\ \E n \in 1..Len(typed) :
       LET keys == SubSeq(typed, 1, n)
           rest == SubSeq(typed, n + 1, Len(typed))
           s == IF faulted THEN ObserveFailure(Drained(stop)) ELSE Drained(stop) IN
       /\ \A i \in 2..n : keys[i].key # "eof"
       /\ IF keys[1].key = "eof"
          THEN /\ n = 1 /\ StopWith("eof") /\ typed' = rest
               /\ UNCHANGED <<join, panel, response, signals, history>>
          ELSE IF ~Done /\ s # None
          THEN /\ StopWith(s) /\ typed' = rest /\ signals' = {}
               /\ history' = [history EXCEPT !.exit = Taking(signals)]
               /\ UNCHANGED <<join, panel, response>>
          ELSE CASE panel.at = "accepting" ->
                      Feed(keys) /\ typed' = rest /\ UNCHANGED signals
                 [] panel.at = "inactive" ->
                      Compose(keys, rest) /\ UNCHANGED <<join, panel, response>>
                 [] OTHER ->
                      /\ typed' = rest
                      /\ UNCHANGED <<join, panel, response, stop, cancelled, frame, signals, history>>
  /\ pc' = "top"
  /\ UNCHANGED <<enhanced, turn, agent, events, faulted, envelopes, seen, outcome, moves>>

\* A lone Escape cancels the question after a moment without another byte.
EscapeExpires ==
  /\ Selecting /\ panel.at = "accepting" /\ panel.escape = "timed"
  /\ IF join.active = None THEN Broken /\ UNCHANGED <<join, response, panel>>
     ELSE Answer("cancel")
  /\ Worked /\ UNCHANGED <<typed, seen, moves>>

\* An input the decoder cannot take in leaves run_turn at once, and the future
\* with it; the agent is shut down as it is.
LeaveAtOnce ==
  /\ Selecting /\ enhanced /\ panel.at = "inactive" /\ typed # <<>> /\ Fault
  /\ outcome' = "error" /\ pc' = "shutdown"
  /\ UNCHANGED <<enhanced, turn, agentVars, envelopes, cancelled, signals, typed, uiVars,
                 history>>

Work ==
  \/ FrameExpires \/ TerminalFails \/ Write \/ ApprovalArmed \/ Envelope
  \/ Event \/ Read \/ EscapeExpires \/ LeaveAtOnce

-----------------------------------------------------------------------------
(* The end of a turn.                                                       *)

\* What is ready when the future is done still counts.
Drain ==
  /\ pc = "drain"
  /\ LET s == IF faulted THEN ObserveFailure(Drained(stop)) ELSE Drained(stop)
         after == IF agent.result = "error" THEN ObserveFailure(s) ELSE s IN
     /\ stop' = after
     /\ pc' = IF after = None THEN "top" ELSE "finish"
  /\ history' = [history EXCEPT !.exit = Taking(signals)]
  /\ signals' = {} /\ panel' = NoPanel /\ cancelled' = (cancelled \/ faulted)
  /\ frame' = IF faulted THEN NoFrame ELSE frame
  /\ UNCHANGED <<enhanced, turn, agentVars, envelopes, typed, join, seen, outcome, moves>>

Finish ==
  /\ pc = "finish"
  /\ LET s == IF faulted THEN ObserveFailure(Drained(stop)) ELSE Drained(stop) IN
     /\ stop' = s
     /\ pc' = IF enhanced /\ s = None THEN "receipt" ELSE "reset"
  /\ history' = [history EXCEPT !.exit = Taking(signals)]
  /\ signals' = {} /\ panel' = NoPanel
  /\ UNCHANGED <<enhanced, turn, agentVars, envelopes, cancelled, typed, join, frame, seen,
                 outcome, moves>>

\* The receipt of the turn; a signal may interrupt its writing.
WriteReceipt ==
  /\ pc = "receipt" /\ pc' = "reset"
  /\ \/ /\ signals = {}
        /\ seen' = [seen EXCEPT !.rendered = TRUE]
        /\ UNCHANGED <<stop, signals, history, moves>>
     \/ /\ signals # {}
        /\ LET s == Strongest(signals) IN
           /\ stop' = ObserveSignal(stop, s) /\ signals' = signals \ {s}
           /\ history' = [history EXCEPT !.exit = Taking({s})]
        /\ UNCHANGED <<seen, moves>>
     \/ Fault /\ stop' = ObserveFailure(stop) /\ UNCHANGED <<seen, signals, history>>
  /\ UNCHANGED <<enhanced, turn, agentVars, envelopes, cancelled, typed, join, panel, frame,
                 outcome>>

\* What a turn without a stop must leave in the join.
Settled(j) == j.ended /\ {j.asked, j.envelope, j.active, j.awaiting} = {None}

\* After a stop the rows that are ready are still looked through for the prompt.
LooksThrough_Never == FALSE
LooksThrough_AnyRow == events # <<>>
LooksThrough == \E i \in DOMAIN events : events[i].kind = "prompt"

Returns(o) == outcome' = o /\ pc' = IF o \in {"continue", "suspend"} THEN "settle" ELSE "shutdown"

\* Both channels are emptied, the join is closed and the stop becomes the result.
Reset ==
  /\ pc = "reset"
  /\ join' = EmptyJoin /\ envelopes' = <<>> /\ frame' = NoFrame
  /\ IF stop = None THEN UNCHANGED <<events, seen>>
     ELSE events' = <<>> /\ seen' = [seen EXCEPT !.prompt = @ \/ LooksThrough]
  /\ LET astray == \E i \in DOMAIN events : events[i].turn # turn IN
     IF IF stop = None THEN ~Settled(join) ELSE astray
     THEN Returns("error") /\ history' = [history EXCEPT !.broken = "join"]
     ELSE CASE stop = None \/ (stop = "interrupt" /\ seen.rendered) ->
                 /\ Returns(IF agent.result = "full" THEN "exit1" ELSE "continue")
                 /\ UNCHANGED history
            [] stop = "interrupt" /\ ~seen.rendered ->
                 pc' = "stopped" /\ UNCHANGED <<outcome, history>>
            [] stop = "suspend" /\ ~enhanced ->
                 pc' = "suspended" /\ UNCHANGED <<outcome, history>>
            [] OTHER ->
                 /\ Returns(CASE stop = "eof" -> "exit0" [] stop = "suspend" -> "suspend"
                              [] stop = "failure" -> "error" [] OTHER -> "signal")
                 /\ UNCHANGED history
  /\ UNCHANGED <<enhanced, turn, agent, faulted, response, cancelled, signals, typed, panel,
                 stop, moves>>

AfterTurn == UNCHANGED <<enhanced, turn, agentVars, envelopes, cancelled, join, panel, frame,
                         stop, seen>>

\* The notice that the turn was stopped; a signal may interrupt its writing.
WriteStopped ==
  /\ pc = "stopped"
  /\ LET s == IF enhanced THEN Strongest(signals) ELSE Drained(None) IN
     \/ /\ signals = {}
        /\ Returns(IF agent.result = "full" THEN "exit1" ELSE "continue")
        /\ UNCHANGED <<signals, history, moves>>
     \/ /\ signals # {}
        /\ signals' = IF enhanced THEN signals \ {s} ELSE {}
        /\ history' = [history EXCEPT !.exit = Taking(signals \ signals')]
        /\ CASE s \in Terminating -> Returns("signal")
             [] s = "suspend" /\ enhanced -> Returns("suspend")
             [] s = "suspend" /\ ~enhanced -> pc' = "suspended" /\ UNCHANGED outcome
             [] OTHER -> Returns(IF agent.result = "full" THEN "exit1" ELSE "continue")
        /\ UNCHANGED moves
     \/ Fault /\ Drained(None) \notin Terminating /\ Returns("error") /\ UNCHANGED <<signals, history>>
  /\ AfterTurn /\ UNCHANGED typed

\* The process stops itself and is continued, in the foreground at last.
Suspended ==
  /\ pc = "suspended"
  /\ history' = [history EXCEPT !.exit = Taking(signals)]
  /\ signals' = {}
  /\ IF Drained(None) \in Terminating THEN Returns("signal") /\ UNCHANGED typed
     ELSE /\ Returns(IF agent.result = "full" THEN "exit1" ELSE "continue")
          /\ typed' = <<>>
  /\ AfterTurn /\ UNCHANGED moves

-----------------------------------------------------------------------------
(* Between turns: run_linear and run_enhanced.                              *)

BetweenTurns == UNCHANGED <<enhanced, agentVars, envelopes, cancelled, uiVars>>
Leaves(o) == outcome' = o /\ pc' = "shutdown"

\* The composer's prompt becomes history or a draft again; a suspension that
\* was put off until the screen could be detached follows.
Settle ==
  /\ pc = "settle"
  /\ pc' = IF outcome = "suspend" THEN "asleep" ELSE "idle"
  /\ BetweenTurns /\ UNCHANGED <<turn, signals, typed, outcome, history, moves>>

\* A submitted prompt; the join must have nothing left of an earlier turn.
BeginTurn ==
  /\ pc = "idle" /\ turn < MaxTurns /\ signals = {}
  /\ turn' = turn + 1
  /\ IF join # EmptyJoin
     THEN /\ Leaves("error") /\ history' = [history EXCEPT !.broken = "join"]
          /\ UNCHANGED <<agent, cancelled, stop, seen, frame, panel>>
     ELSE /\ pc' = "top" /\ agent' = [NoAgent EXCEPT !.at = "start"]
          /\ cancelled' = FALSE /\ stop' = None /\ seen' = NothingSeen
          /\ frame' = NoFrame /\ panel' = NoPanel /\ outcome' = None
          /\ history' = [history EXCEPT !.prompt = FALSE]
  /\ UNCHANGED <<enhanced, events, faulted, envelopes, response, signals, typed, join, moves>>

\* A signal at the prompt.  Ctrl+C there leaves only with an empty composer.
IdleSignal ==
  /\ pc = "idle" /\ signals # {}
  /\ LET s == IF enhanced THEN Strongest(signals) ELSE Drained(None) IN
     /\ signals' = IF enhanced THEN signals \ {s} ELSE {}
     /\ history' = [history EXCEPT !.exit = Taking(signals \ signals')]
     /\ CASE s \in Terminating -> Leaves("signal") /\ UNCHANGED typed
          [] s = "suspend" -> pc' = "asleep" /\ UNCHANGED <<typed, outcome>>
          [] OTHER -> \/ pc' = "idle" /\ UNCHANGED outcome
                         /\ typed' = IF enhanced THEN typed ELSE <<>>
                      \/ enhanced /\ Leaves("exit0") /\ UNCHANGED typed
  /\ BetweenTurns /\ UNCHANGED <<turn, moves>>

\* The end of input, or the command to leave; in the linear loop a signal that
\* became ready in the meantime goes first.
IdleLeave ==
  /\ pc = "idle" /\ signals = {} /\ Leaves("exit0")
  /\ BetweenTurns /\ UNCHANGED <<turn, signals, typed, history, moves>>

\* suspend_enhanced and suspend_and_resume: a terminating signal wins, and the
\* terminal is taken back only in the foreground.
Asleep ==
  /\ pc = "asleep"
  /\ history' = [history EXCEPT !.exit = Taking(signals)]
  /\ signals' = {}
  /\ IF Drained(None) \in Terminating THEN Leaves("signal") /\ UNCHANGED typed
     ELSE pc' = "idle" /\ typed' = <<>> /\ UNCHANGED outcome
  /\ BetweenTurns /\ UNCHANGED <<turn, moves>>

\* The dock is taken off the screen and the modes of the terminal are restored;
\* a signal may interrupt it, and a failing write may take its place.
CleanUp ==
  /\ pc = "shutdown"
  /\ \/ /\ signals \cap Terminating # {} /\ enhanced
        /\ LET s == Strongest(signals) IN
           /\ signals' = signals \ {s}
           /\ history' = [history EXCEPT !.exit = Taking({s})]
        /\ outcome' = "signal" /\ UNCHANGED moves
     \/ /\ enhanced /\ outcome # "error" /\ Fault /\ outcome' = "error"
        /\ UNCHANGED <<signals, history>>
     \/ UNCHANGED <<outcome, signals, history, moves>>
  /\ pc' = "joining"
  /\ BetweenTurns /\ UNCHANGED <<turn, typed>>

\* The agent is shut down while signals are latched: any that terminates
\* decides the exit, else what the loop returned, unless the session fails.
ShutDown ==
  /\ pc = "joining" /\ pc' = "closed"
  /\ history' = [history EXCEPT !.exit = Taking(signals)]
  /\ signals' = {}
  /\ \/ /\ outcome' = IF Drained(None) \in Terminating THEN "signal" ELSE outcome
        /\ UNCHANGED moves
     \/ /\ Fault /\ outcome # "signal" /\ Drained(None) \notin Terminating
        /\ outcome' = "error"
  /\ BetweenTurns /\ UNCHANGED <<turn, typed>>

BetweenSteps ==
  \/ Settle \/ BeginTurn \/ IdleSignal \/ IdleLeave \/ Asleep \/ CleanUp \/ ShutDown

SignalArrives ==
  /\ Move /\ pc # "closed"
  /\ \E s \in Signals \ signals : signals' = signals \cup {s}
  /\ UNCHANGED <<enhanced, pc, turn, agentVars, envelopes, cancelled, typed, uiVars,
                 outcome, history>>

TurnStep ==
  \/ TopStopped \/ TopGoesOn \/ StopSignal \/ Work \/ Drain \/ Finish \/ WriteReceipt
  \/ Reset \/ WriteStopped \/ Suspended

Next == AgentStep \/ TurnStep \/ BetweenSteps \/ Type \/ SignalArrives

Spec == Init /\ [][Next]_vars

\* Something that is ready is taken: the loops do not block, the future ends by
\* its deadline if by nothing else, and a frame or the second loop by theirs.
FairSpec == Spec /\ WF_vars(AgentStep \/ TurnStep)

-----------------------------------------------------------------------------
(* Properties.                                                              *)

\* Rows and envelopes arrive on two channels, decisions overtake answers, frames
\* block rows and deadlines pass in between: the join never meets halves that do
\* not belong together, a frame is never pending when the next one is due, and
\* a turn without a stop leaves nothing of itself behind.
FrontEndAgreesWithAgent == history.broken # "join"

\* An answer is given for the question the user was looking at when the key was
\* typed, never from stale input, and not once a stop was latched.
AnswerWasMeant ==
  [][\A q \in ToSet(Questions) : response'[q] \in Decisions /\ response[q] # response'[q] =>
       /\ stop = None /\ ~cancelled /\ join.active = q
       /\ \A i \in 1..(Len(typed) - Len(typed')) : typed[i].saw = q]_vars

\* A turn ends as its strongest stop says: the first terminating signal that was
\* taken decides, nothing else goes by that name, and a turn after which the
\* session goes on knows whether its prompt is in the log and hides no failure.
\* As long as the agent runs, a latched stop has cancelled it.
TurnEndsAsStopped ==
  /\ [][pc' \in {"settle", "shutdown"} /\ pc' # pc =>
          /\ outcome' = "signal" <=> history'.exit # None
          /\ pc' = "settle" =>
               /\ seen'.prompt = history.prompt
               /\ agent.result # "error"
               /\ stop = None => seen'.rendered]_vars
  /\ [](pc \in {"top", "select"} /\ stop # None => cancelled \/ Done)

\* A terminating signal that was taken keeps its exit code to the end: neither an
\* error of the output nor of the shutdown comes in its place.
ExitIntentKept == pc = "closed" /\ history.exit # None => outcome = "signal"

\* A turn that began returns, whatever the agent, the user and the terminal do.
TurnReturns == pc = "top" ~> pc \notin {"top", "select", "drain", "finish", "receipt", "reset"}
=============================================================================
