--------------------------- MODULE FrontEndProofs ----------------------------
(***************************************************************************)
(* What the interactive front end keeps, for any number of questions,      *)
(* signals, turns and moves, and for any texts and limits of its queue and *)
(* history, with proofs that the TLA+ proof system checks.                 *)
(*                                                                         *)
(* A turn: TurnInv has four parts that lean on each other.  PanelFits: the *)
(* keys that wait when the selector takes keys were typed by somebody who  *)
(* saw it, because everything typed before went when it was drawn.         *)
(* StopFits: what was taken of the signals, the stop and the cancellation  *)
(* say the same.  SightFits: the committed prompt is either seen or on its *)
(* way, and so is the end.  ChannelsInStep, for a turn that was not        *)
(* stopped: each row under way follows what the join has seen of the rows  *)
(* (RowsFollow), it is the only one that asks and nothing of its question  *)
(* was seen before (AskedOnce), and an agent that may ask again has left   *)
(* nothing of the last question anywhere (ChannelsFit).  From it follow    *)
(* that no state is met that the code calls an internal error, that an     *)
(* answer is meant, and that a turn ends as its stop says.                 *)
(*                                                                         *)
(* What is typed: PromptInv says that the queue is numbered behind what    *)
(* was sent (Numbered), that a turn holds the front of the queue or a      *)
(* prompt of its own (FrontReserved), that what the history shows was sent *)
(* before, so that it may take the place of a draft (Looked), and that no  *)
(* text is nowhere (NothingLost).                                          *)
(***************************************************************************)
EXTENDS MCFrontEnd, FiniteSetTheorems, SequenceTheorems, WellFoundedInduction, TLAPS

AllQuestions == ToSet(Questions)
SomeQuestion == AllQuestions \cup {None}
Asking == {"ask", "wait", "decide"}
InTurn == pc \in {"top", "select", "drain", "finish", "receipt", "reset"}
\* After a turn its stop may still be told, and the front end may be asleep.
AfterReset == pc \in {"idle", "settle", "asleep", "stopped", "suspended"}
\* Only a turn that was not stopped has to keep its channels in step.
Live == InTurn /\ stop = None

Rows == [kind : {"prompt", "asked", "decided", "turnEnd"}, q : SomeQuestion, turn : Nat]
Presses == [key : {"up", "enter", "esc", "junk", "eof"}, saw : SomeQuestion]
Agents == [at : {None, "start", "run", "end", "done"} \cup Asking, q : SomeQuestion,
           result : {None, "ok", "full", "error"}, late : BOOLEAN]
Joins == [asked : SomeQuestion, envelope : SomeQuestion, active : SomeQuestion,
          awaiting : SomeQuestion, decided : SUBSET AllQuestions, ended : BOOLEAN]
Frames == [what : {None, "question", "again", "selector", "end", "text", "redraw"},
           at : {None, "fresh", "written"}]
Sights == [end : BOOLEAN, rendered : BOOLEAN, prompt : BOOLEAN]
Histories == [prompt : BOOLEAN, exit : {None} \cup Terminating, broken : {None, "join", "late"}]
Stops == {None, "suspend", "interrupt", "eof", "failure"} \cup Terminating

TypeOK ==
  /\ enhanced \in BOOLEAN /\ faulted \in BOOLEAN /\ cancelled \in BOOLEAN
  /\ turn \in Nat /\ agent \in Agents /\ events \in Seq(Rows)
  /\ envelopes \in Seq(AllQuestions)
  /\ response \in [AllQuestions -> {None, "asked"} \cup Decisions]
  /\ signals \subseteq Signals /\ typed \in Seq(Presses)
  /\ join \in Joins /\ frame \in Frames /\ stop \in Stops
  /\ seen \in Sights /\ history \in Histories
  /\ panel.at \in {"inactive", "arming", "rendering", "accepting"}
  /\ panel = [at |-> panel.at, choice |-> panel.choice, escape |-> panel.escape]
  /\ agent.at \in Asking => agent.q \in AllQuestions
  /\ \A i \in DOMAIN events : events[i].kind \in {"asked", "decided"} => events[i].q \in AllQuestions

-----------------------------------------------------------------------------
(* Panel, frame and keyboard.                                               *)

\* The keys that wait for a selector were typed by somebody who saw it, a panel
\* is up, and a question is shown, only for a question that is active, and one
\* frame at a time drives the panel.
PanelFits ==
  /\ panel.at = "accepting" => \A i \in DOMAIN typed : typed[i].saw = join.active
  /\ (panel.at # "inactive" \/ frame.what \in {"question", "again"}) => join.active # None
  /\ panel.at # "inactive" => frame.what \notin {"question", "again"}
  /\ panel.at = "arming" => frame = NoFrame
  /\ stop = None /\ agent.at # "done" /\ frame.what = "selector" => panel.at = "rendering"
  /\ pc \notin {"top", "select", "drain", "finish"} => panel.at = "inactive"

-----------------------------------------------------------------------------
(* The stop, and what it was made of.                                       *)

Hard(s) == s \in Terminating \cup {"failure"}

StopFits ==
  /\ pc \in {"drain", "finish", "receipt", "reset"} => Done
  /\ pc \in {"top", "select"} /\ ~Done => (cancelled <=> stop # None)
  /\ InTurn => (history.exit # None <=> stop \in Terminating)
  /\ AfterReset => history.exit = None
  /\ InTurn /\ pc # "drain" /\ agent.result = "error" => Hard(stop)
  /\ pc \in {"receipt", "reset"} /\ faulted => Hard(stop)
  /\ pc \in {"stopped", "suspended"} =>
       stop \in {"interrupt", "suspend"} /\ ~faulted /\ agent.result # "error"

-----------------------------------------------------------------------------
(* The prompt and the end of the turn on the screen.                        *)

SightFits ==
  /\ (InTurn \/ pc \in {"stopped", "suspended"}) /\ ~faulted =>
       (history.prompt <=> seen.prompt \/ LooksThrough)
  /\ InTurn /\ stop = None /\ seen.end /\ frame.what # "end" => seen.rendered
  /\ pc \in {"finish", "receipt", "reset"} /\ stop = None => seen.end /\ frame.what # "end"
  /\ Live => seen.end = join.ended

-----------------------------------------------------------------------------
(* The two channels and the join.                                           *)

Halves == {join.asked, join.active, join.awaiting} \ {None}
AskedAt(i) == i \in DOMAIN events /\ events[i].kind = "asked"
NoRowAsks == \A i \in DOMAIN events : ~AskedAt(i)
RowOf(q) == \E i \in DOMAIN events : AskedAt(i) /\ events[i].q = q
InAsking(q) == faulted \/ Done \/ (agent.at \in Asking /\ agent.q = q)

\* The rows of a turn come in the order of its log, and each is the next of what
\* the join has seen of them.
RowsFollow ==
  /\ \A i \in DOMAIN events :
       events[i].kind = "turnEnd" => i = Len(events) /\ agent.at \in {"end", "done"}
  /\ \A i \in DOMAIN events :
       AskedAt(i) /\ i < Len(events) =>
         events[i + 1].kind = "decided" /\ events[i + 1].q = events[i].q
  /\ events # <<>> /\ AskedAt(Len(events)) => InAsking(events[Len(events)].q)
  /\ \A h \in Halves :
       IF events = <<>> THEN InAsking(h) ELSE events[1].kind = "decided" /\ events[1].q = h
  /\ join.ended => events = <<>> /\ Halves = {} /\ agent.at \in {"end", "done"}

\* A question is asked once: its row is the only one that asks, and nothing of
\* it was seen before.
AskedOnce ==
  /\ \A i, k \in DOMAIN events : AskedAt(i) /\ AskedAt(k) => i = k
  /\ \A i \in DOMAIN events :
       AskedAt(i) => events[i].q \notin join.decided \cup Halves
  /\ \A i, k \in DOMAIN events :
       i < k /\ AskedAt(k) => events[i].q # events[k].q
  /\ \A i \in DOMAIN events : events[i].q # None => response[events[i].q] # None
  /\ \A q \in join.decided \cup Halves : response[q] # None
  /\ agent.q # None => response[agent.q] # None
  /\ agent.at \in {"ask", "wait"} =>
       \A i \in DOMAIN events : events[i].kind = "decided" => events[i].q # agent.q

\* Nothing of a question is under way.
Quiet ==
  /\ envelopes = <<>> /\ NoRowAsks
  /\ join.envelope = None /\ join.active = None /\ join.asked = None
Only(q) ==
  /\ {join.envelope, join.active, join.asked} \subseteq {None, q}
  /\ \A i \in DOMAIN events : AskedAt(i) => events[i].q = q
Unseen == join.envelope = None /\ join.active = None

\* As long as the agent may ask again, it has had its answer.
ChannelsFit ==
  /\ join.active # None => join.asked = None /\ join.envelope = None
  /\ join.envelope # None => RowOf(join.envelope)
  /\ ~agent.late /\ ~faulted /\ agent.at \in {"start", "run", "decide"} => Quiet
  /\ agent.at = "ask" /\ ~faulted =>
       /\ envelopes = <<>> /\ Unseen /\ Only(agent.q)
       /\ RowOf(agent.q) \/ agent.q \in Halves
  /\ agent.at \in {"ask", "wait"} => ~agent.late
  /\ agent.at = "ask" => response[agent.q] \notin Decisions
  /\ agent.at = "wait" =>
       /\ ~faulted /\ Only(agent.q)
       /\ RowOf(agent.q) \/ agent.q \in Halves
       /\ response[agent.q] \in Decisions => Quiet
       /\ envelopes # <<>> => envelopes = <<agent.q>> /\ Unseen

ChannelsInStep == RowsFollow /\ AskedOnce /\ ChannelsFit

TurnInv ==
  /\ TypeOK /\ PanelFits /\ StopFits /\ SightFits
  /\ InTurn => \A i \in DOMAIN events : events[i].turn = turn
  /\ AfterReset => join = EmptyJoin /\ events = <<>> /\ envelopes = <<>>
  /\ Live => ChannelsInStep
  /\ history.broken # "join"

-----------------------------------------------------------------------------
(* What the operators on stops give.                                        *)

LEMMA Least ==
  ASSUME NEW T, T \subseteq Nat, T # {}
  PROVE  \E x \in T : \A y \in T : x <= y
<1> DEFINE R == {ss \in Nat \X Nat : ss[1] < ss[2]}
<1>1. IsWellFoundedOn(R, Nat)
  BY NatLessThanWellFounded DEF OpToRel
<1>2. \E x \in T : \A y \in T : ~ (<<y, x>> \in R)
  <2> HIDE DEF R
  <2> QED
    BY <1>1, WFMin
<1>3. PICK x \in T : \A y \in T : ~ (<<y, x>> \in R)
  BY <1>2
<1>4. ASSUME NEW y \in T PROVE x <= y
  <2>1. x \in Nat /\ y \in Nat
    OBVIOUS
  <2>2. y < x => <<y, x>> \in R
    BY <2>1
  <2> QED
    BY <1>3, <2>1, <2>2
<1> QED
  BY <1>4

LEMMA StopNames ==
  Terminating \cap {None, "suspend", "interrupt", "eof", "failure"} = {}
BY ExitNames DEF Terminating, None

\* The strongest of the signals that are ready is one of them.
LEMMA StrongestIs ==
  ASSUME NEW S
  PROVE  /\ S \cap Terminating # {} => Strongest(S) \in S \cap Terminating
         /\ S \cap Terminating = {} => Strongest(S) \in {"suspend", "interrupt"}
<1>1. CASE S \cap Terminating = {}
  BY <1>1 DEF Strongest
<1>2. CASE S \cap Terminating # {}
  <2> DEFINE T == {i \in DOMAIN Exits : Exits[i] \in S}
  <2>1. T \subseteq Nat /\ T # {}
    BY <1>2, ExitNames DEF Terminating, ToSet
  <2>2. Min(T) \in T
    <3> HIDE DEF T
    <3> QED
      BY <2>1, Least DEF Min
  <2>3. Strongest(S) = Exits[Min(T)]
    BY <1>2 DEF Strongest
  <2> QED
    BY <1>2, <2>2, <2>3 DEF Terminating, ToSet
<1> QED
  BY <1>1, <1>2

LEMMA Observed ==
  ASSUME NEW s \in Stops, NEW x, x \in Terminating \cup {"suspend", "interrupt"}
  PROVE  /\ ObserveSignal(s, x) \in Stops \ {None}
         /\ ObserveSignal(s, x) \in Terminating <=> s \in Terminating \/ x \in Terminating
         /\ Hard(s) => Hard(ObserveSignal(s, x))
BY StopNames DEF ObserveSignal, Stops, Hard, None

LEMMA ObservedFailure ==
  ASSUME NEW s \in Stops
  PROVE  /\ ObserveFailure(s) \in Stops \ {None} /\ Hard(ObserveFailure(s))
         /\ ObserveFailure(s) \in Terminating <=> s \in Terminating
BY StopNames DEF ObserveFailure, Stops, Hard, None

LEMMA DrainedIs ==
  ASSUME NEW s \in Stops, TypeOK
  PROVE  /\ Drained(s) \in Stops /\ (Drained(s) = None => s = None /\ signals = {})
         /\ Drained(s) \in Terminating <=> s \in Terminating \/ signals \cap Terminating # {}
         /\ Hard(s) => Hard(Drained(s))
<1> DEFINE x == Strongest(signals)
<1>1. /\ x \in Terminating \cup {"suspend", "interrupt"}
      /\ x \in Terminating <=> signals \cap Terminating # {}
  BY StrongestIs, StopNames
<1>2. /\ ObserveSignal(s, x) \in Stops \ {None}
      /\ ObserveSignal(s, x) \in Terminating <=> s \in Terminating \/ x \in Terminating
      /\ Hard(s) => Hard(ObserveSignal(s, x))
  <2> HIDE DEF x
  <2> QED
    BY <1>1, Observed
<1>3. Drained(s) = IF signals = {} THEN s ELSE ObserveSignal(s, x)
  BY DEF Drained
<1> QED
  BY <1>1, <1>2, <1>3

\* The first terminating signal is remembered.
LEMMA TakingIs ==
  ASSUME NEW S, TypeOK
  PROVE  /\ Taking(S) \in {None} \cup Terminating
         /\ Taking(S) # None <=> history.exit # None \/ S \cap Terminating # {}
<1>1. history.exit \in {None} \cup Terminating
  BY DEF TypeOK, Histories
<1> QED
  BY <1>1, StrongestIs, StopNames DEF Taking

-----------------------------------------------------------------------------
(* Which action writes which variable.                                      *)

LEMMA Writers ==
  ASSUME Next
  PROVE  /\ UNCHANGED turn \/ BeginTurn
         /\ UNCHANGED agent \/ AgentStep \/ BeginTurn
         /\ UNCHANGED <<events, faulted>> \/ CommitPrompt \/ Ask \/ CommitDecision \/ CommitTurnEnd
              \/ Event \/ Reset
         /\ UNCHANGED faulted \/ CommitPrompt \/ Ask \/ CommitDecision \/ CommitTurnEnd
         /\ UNCHANGED envelopes \/ SendEnvelope \/ Envelope \/ Reset
         /\ UNCHANGED response \/ Ask \/ Read \/ EscapeExpires
         /\ UNCHANGED join \/ Envelope \/ Event \/ Read \/ EscapeExpires \/ Reset
BY ZenonT(60) DEF Next, AgentStep, TurnStep, Work, BetweenSteps, CommitPrompt, Ask, SendEnvelope,
       StopWaiting, CommitDecision, CommitTurnEnd, AgentReturns, TopStopped, TopGoesOn,
       StopSignal, FrameExpires, TerminalFails, Write, ApprovalArmed, Envelope, Event, Read,
       EscapeExpires, LeaveAtOnce, Drain, Finish, WriteReceipt, Reset, WriteStopped, Suspended,
       Settle, BeginTurn, IdleSignal, IdleLeave, Asleep, CleanUp, ShutDown, Type, SignalArrives,
       AgentOnly, Worked, UiOnly, AfterTurn, BetweenTurns, agentVars, uiVars, Broken, Fail, Answer,
       Feed, Compose

LEMMA HistoryWriters ==
  ASSUME Next
  PROVE  /\ UNCHANGED history \/ CommitPrompt \/ TopStopped \/ TopGoesOn \/ StopSignal
              \/ ApprovalArmed \/ Envelope \/ Event \/ Read \/ EscapeExpires \/ Drain \/ Finish
              \/ WriteReceipt \/ Reset \/ WriteStopped \/ Suspended \/ BeginTurn \/ IdleSignal
              \/ Asleep \/ CleanUp \/ ShutDown
         /\ UNCHANGED cancelled \/ TopStopped \/ TopGoesOn \/ StopSignal \/ FrameExpires
              \/ TerminalFails \/ ApprovalArmed \/ Envelope \/ Event \/ Read \/ EscapeExpires
              \/ Drain \/ BeginTurn
         /\ UNCHANGED enhanced
BY ZenonT(60) DEF Next, AgentStep, TurnStep, Work, BetweenSteps, CommitPrompt, Ask, SendEnvelope,
       StopWaiting, CommitDecision, CommitTurnEnd, AgentReturns, TopStopped, TopGoesOn,
       StopSignal, FrameExpires, TerminalFails, Write, ApprovalArmed, Envelope, Event, Read,
       EscapeExpires, LeaveAtOnce, Drain, Finish, WriteReceipt, Reset, WriteStopped, Suspended,
       Settle, BeginTurn, IdleSignal, IdleLeave, Asleep, CleanUp, ShutDown, Type, SignalArrives,
       AgentOnly, Worked, UiOnly, AfterTurn, BetweenTurns, agentVars, uiVars, Broken, Fail, Answer,
       Feed, Compose

LEMMA ScreenWriters ==
  ASSUME Next
  PROVE  /\ UNCHANGED panel \/ TopStopped \/ TopGoesOn \/ ApprovalArmed \/ Event \/ Read
              \/ EscapeExpires \/ Drain \/ Finish \/ BeginTurn
         /\ UNCHANGED frame \/ TopStopped \/ TopGoesOn \/ StopSignal \/ FrameExpires
              \/ TerminalFails \/ Write \/ ApprovalArmed \/ Envelope \/ Event \/ Read
              \/ EscapeExpires \/ Drain \/ Reset \/ BeginTurn
         /\ UNCHANGED stop \/ TopStopped \/ TopGoesOn \/ StopSignal \/ FrameExpires
              \/ TerminalFails \/ ApprovalArmed \/ Envelope \/ Event \/ Read
              \/ EscapeExpires \/ Drain \/ Finish \/ WriteReceipt \/ BeginTurn
         /\ UNCHANGED typed \/ TopGoesOn \/ ApprovalArmed \/ Read \/ Suspended \/ IdleSignal
              \/ Asleep \/ Type
         /\ UNCHANGED seen \/ TopGoesOn \/ Event \/ WriteReceipt \/ Reset \/ BeginTurn
         /\ UNCHANGED signals \/ TopStopped \/ StopSignal \/ Read \/ Drain \/ Finish
              \/ WriteReceipt \/ WriteStopped \/ Suspended \/ IdleSignal \/ Asleep \/ CleanUp
              \/ ShutDown \/ SignalArrives
BY ZenonT(60) DEF Next, AgentStep, TurnStep, Work, BetweenSteps, CommitPrompt, Ask, SendEnvelope,
       StopWaiting, CommitDecision, CommitTurnEnd, AgentReturns, TopStopped, TopGoesOn,
       StopSignal, FrameExpires, TerminalFails, Write, ApprovalArmed, Envelope, Event, Read,
       EscapeExpires, LeaveAtOnce, Drain, Finish, WriteReceipt, Reset, WriteStopped, Suspended,
       Settle, BeginTurn, IdleSignal, IdleLeave, Asleep, CleanUp, ShutDown, Type, SignalArrives,
       AgentOnly, Worked, UiOnly, AfterTurn, BetweenTurns, agentVars, uiVars, Broken, Fail, Answer,
       Feed, Compose

-----------------------------------------------------------------------------
(* Types.                                                                   *)

LEMMA AgentTyped ==
  ASSUME TypeOK, Next
  PROVE  agent' \in Agents /\ (agent'.at \in Asking => agent'.q \in AllQuestions)
<1> USE DEF TypeOK, Agents, Asking, SomeQuestion, None
<1>1. CASE CommitPrompt
  BY <1>1 DEF CommitPrompt
<1>2. CASE Ask
  <2>1. PICK i \in DOMAIN Questions : agent' = [agent EXCEPT !.at = "ask", !.q = Questions[i]]
    BY <1>2 DEF Ask
  <2>2. Questions[i] \in AllQuestions
    BY DEF AllQuestions, ToSet
  <2> QED
    BY <2>1, <2>2
<1>3. CASE SendEnvelope
  BY <1>3 DEF SendEnvelope
<1>4. CASE StopWaiting
  BY <1>4 DEF StopWaiting
<1>5. CASE CommitDecision
  BY <1>5 DEF CommitDecision
<1>6. CASE CommitTurnEnd
  BY <1>6 DEF CommitTurnEnd
<1>7. CASE AgentReturns
  BY <1>7 DEF AgentReturns, NoAgent
<1>8. CASE BeginTurn
  BY <1>8 DEF BeginTurn, NoAgent
<1>9. CASE UNCHANGED agent
  BY <1>9
<1> QED
  BY <1>1, <1>2, <1>3, <1>4, <1>5, <1>6, <1>7, <1>8, <1>9, Writers DEF AgentStep

\* The row that an action of the agent adds, unless the observer is lost.
LEMMA PublishedTyped ==
  ASSUME TypeOK, NEW kind \in {"prompt", "asked", "decided", "turnEnd"}, NEW q \in SomeQuestion,
         Publish(kind, q), kind \in {"asked", "decided"} => q \in AllQuestions
  PROVE  /\ events' \in Seq(Rows) /\ faulted' \in BOOLEAN
         /\ \A i \in DOMAIN events' :
              events'[i].kind \in {"asked", "decided"} => events'[i].q \in AllQuestions
<1> DEFINE r == [kind |-> kind, q |-> q, turn |-> turn]
<1>1. r \in Rows
  BY DEF TypeOK, Rows
<1>2. events' = events \/ events' = Append(events, r)
  BY DEF Publish
<1>3. events \in Seq(Rows)
  BY DEF TypeOK
<1>4. CASE events' = Append(events, r)
  <2> HIDE DEF r
  <2>1. events' \in Seq(Rows)
    BY <1>1, <1>3, <1>4
  <2>2. ASSUME NEW i \in DOMAIN events' PROVE events'[i] = r \/ (i \in DOMAIN events /\ events'[i] = events[i])
    BY <1>1, <1>3, <1>4, <2>2
  <2>3. r.kind = kind /\ r.q = q
    BY DEF r
  <2> QED
    BY <2>1, <2>2, <2>3 DEF TypeOK, Publish
<1> QED
  BY <1>2, <1>4 DEF TypeOK, Publish

LEMMA ChannelsTyped ==
  ASSUME TypeOK, Next
  PROVE  /\ events' \in Seq(Rows) /\ faulted' \in BOOLEAN /\ turn' \in Nat
         /\ envelopes' \in Seq(AllQuestions)
         /\ response' \in [AllQuestions -> {None, "asked"} \cup Decisions]
         /\ \A i \in DOMAIN events' :
              events'[i].kind \in {"asked", "decided"} => events'[i].q \in AllQuestions
<1>1. turn' \in Nat
  <2>1. UNCHANGED turn \/ turn' = turn + 1
    BY Writers DEF BeginTurn
  <2> QED
    BY <2>1 DEF TypeOK
<1>2. envelopes' \in Seq(AllQuestions)
  <2>1. CASE SendEnvelope
    <3>1. envelopes' = envelopes \/ (envelopes' = Append(envelopes, agent.q) /\ agent.at = "ask")
      BY <2>1 DEF SendEnvelope
    <3>2. envelopes \in Seq(AllQuestions) /\ (agent.at = "ask" => agent.q \in AllQuestions)
      BY DEF TypeOK, Asking
    <3> QED
      BY <3>1, <3>2
  <2>2. CASE Envelope
    BY <2>2 DEF Envelope, TypeOK
  <2>3. CASE Reset
    BY <2>3 DEF Reset
  <2> QED
    BY <2>1, <2>2, <2>3, Writers DEF TypeOK
<1>3. response' \in [AllQuestions -> {None, "asked"} \cup Decisions]
  BY Writers DEF TypeOK, Ask, Read, EscapeExpires, Answer, Feed, Decisions
<1>4. ASSUME CommitPrompt \/ Ask \/ CommitDecision \/ CommitTurnEnd
      PROVE  \E kind \in {"prompt", "asked", "decided", "turnEnd"}, q \in SomeQuestion :
               Publish(kind, q) /\ (kind \in {"asked", "decided"} => q \in AllQuestions)
  <2>1. CASE Ask
    <3>1. PICK i \in DOMAIN Questions : Publish("asked", Questions[i])
      BY <2>1 DEF Ask
    <3>2. Questions[i] \in AllQuestions
      BY DEF AllQuestions, ToSet
    <3> QED
      BY <3>1, <3>2 DEF SomeQuestion
  <2>2. CASE CommitPrompt \/ CommitTurnEnd
    BY <2>2 DEF CommitPrompt, CommitTurnEnd, SomeQuestion
  <2>3. CASE CommitDecision
    BY <2>3 DEF CommitDecision, TypeOK, Asking, SomeQuestion
  <2> QED
    BY <1>4, <2>1, <2>2, <2>3
<1>5. /\ events' \in Seq(Rows) /\ faulted' \in BOOLEAN
      /\ \A i \in DOMAIN events' :
           events'[i].kind \in {"asked", "decided"} => events'[i].q \in AllQuestions
  <2>1. CASE CommitPrompt \/ Ask \/ CommitDecision \/ CommitTurnEnd
    BY <1>4, <2>1, PublishedTyped
  <2>2. CASE Event
    <3>1. events' = Tail(events) /\ events # <<>> /\ UNCHANGED faulted
      BY <2>2 DEF Event
    <3>2. /\ events' \in Seq(Rows)
          /\ \A i \in DOMAIN events' : i + 1 \in DOMAIN events /\ events'[i] = events[i + 1]
      BY <3>1 DEF TypeOK
    <3> QED
      BY <3>1, <3>2 DEF TypeOK
  <2>3. CASE Reset
    <3>1. (UNCHANGED events \/ events' = <<>>) /\ UNCHANGED faulted
      BY <2>3 DEF Reset
    <3>2. <<>> \in Seq(Rows) /\ DOMAIN <<>> = {}
      OBVIOUS
    <3>3. CASE events' = <<>>
      BY <3>1, <3>2, <3>3 DEF TypeOK
    <3> QED
      BY <3>1, <3>3 DEF TypeOK
  <2>4. CASE UNCHANGED <<events, faulted>>
    BY <2>4 DEF TypeOK
  <2>5. \/ CommitPrompt \/ Ask \/ CommitDecision \/ CommitTurnEnd \/ Event \/ Reset
        \/ UNCHANGED <<events, faulted>>
    BY Writers
  <2> QED
    BY <2>1, <2>2, <2>3, <2>4, <2>5
<1> QED
  BY <1>1, <1>2, <1>3, <1>5

\* What the join becomes, field by field.
LEMMA JoinedIs ==
  ASSUME NEW j \in Joins
  PROVE  /\ Joined(j) \in Joins
         /\ Joined(j).decided = j.decided /\ Joined(j).ended = j.ended
         /\ Joined(j).awaiting = j.awaiting
         /\ IF j.asked = None \/ j.envelope = None THEN Joined(j) = j
            ELSE Joined(j).asked = None /\ Joined(j).envelope = None /\ Joined(j).active = j.asked
BY DEF Joined, Joins, SomeQuestion

LEMMA HalfIs ==
  ASSUME NEW j \in Joins, NEW q \in AllQuestions
  PROVE  /\ [j EXCEPT !.envelope = q] \in Joins /\ [j EXCEPT !.asked = q] \in Joins
         /\ [j EXCEPT !.envelope = q].envelope = q /\ [j EXCEPT !.asked = q].asked = q
         /\ [j EXCEPT !.envelope = q].asked = j.asked
         /\ [j EXCEPT !.asked = q].envelope = j.envelope
         /\ \A k \in {[j EXCEPT !.envelope = q], [j EXCEPT !.asked = q]} :
              /\ k.active = j.active /\ k.awaiting = j.awaiting
              /\ k.decided = j.decided /\ k.ended = j.ended
BY DEF Joins, SomeQuestion

LEMMA DecidedIs ==
  ASSUME NEW j \in Joins, NEW q \in AllQuestions
  PROVE  /\ AfterDecided(j, q) \in Joins
         /\ AfterDecided(j, q).asked = Without(q, j.asked)
         /\ AfterDecided(j, q).envelope = Without(q, j.envelope)
         /\ AfterDecided(j, q).active = Without(q, j.active)
         /\ AfterDecided(j, q).awaiting = Without(q, j.awaiting)
         /\ AfterDecided(j, q).decided = j.decided \cup {q}
         /\ AfterDecided(j, q).ended = j.ended
BY DEF AfterDecided, Without, Joins, SomeQuestion

LEMMA EndedIs ==
  ASSUME NEW j \in Joins, NEW k, k = [j EXCEPT !.ended = TRUE]
  PROVE  /\ k \in Joins /\ k.ended
         /\ k.asked = j.asked /\ k.envelope = j.envelope /\ k.active = j.active
         /\ k.awaiting = j.awaiting /\ k.decided = j.decided
BY DEF Joins

LEMMA AnsweredIs ==
  ASSUME NEW j \in Joins, NEW k, k = [j EXCEPT !.active = None, !.awaiting = j.active]
  PROVE  /\ k \in Joins /\ k.active = None /\ k.awaiting = j.active
         /\ k.asked = j.asked /\ k.envelope = j.envelope
         /\ k.decided = j.decided /\ k.ended = j.ended
BY DEF Joins, SomeQuestion

LEMMA HeadTyped ==
  ASSUME TypeOK, events # <<>>
  PROVE  /\ Head(events) = events[1] /\ 1 \in DOMAIN events /\ events[1] \in Rows
         /\ events[1].kind \in {"asked", "decided"} => events[1].q \in AllQuestions
         /\ Tail(events) \in Seq(Rows) /\ Len(Tail(events)) = Len(events) - 1
         /\ \A i \in DOMAIN Tail(events) : i + 1 \in DOMAIN events /\ Tail(events)[i] = events[i + 1]
<1>1. events \in Seq(Rows) /\ 1 \in DOMAIN events
  BY DEF TypeOK
<1> QED
  BY <1>1 DEF TypeOK

LEMMA ProcessIs ==
  ASSUME NEW row \in Rows, Process(row)
  PROVE  \/ /\ row.kind = "prompt" /\ seen' = [seen EXCEPT !.prompt = TRUE]
            /\ Shows("text") \/ UNCHANGED frame
            /\ UNCHANGED <<join, panel>>
         \/ /\ row.kind = "asked" /\ join' = Joined([join EXCEPT !.asked = row.q])
            /\ UNCHANGED <<frame, panel, seen>>
         \/ /\ row.kind = "decided" /\ join' = AfterDecided(join, row.q) /\ panel' = NoPanel
            /\ Shows("text") \/ UNCHANGED frame
            /\ UNCHANGED seen
         \/ /\ row.kind = "turnEnd" /\ join' = [join EXCEPT !.ended = TRUE]
            /\ seen' = [seen EXCEPT !.end = TRUE] /\ Shows("end") /\ UNCHANGED panel
<1>1. row.kind \in {"prompt", "asked", "decided", "turnEnd"}
  BY DEF Rows
<1>2. CASE row.kind = "prompt"
  BY <1>2 DEF Process
<1>3. CASE row.kind = "asked"
  BY <1>3 DEF Process
<1>4. CASE row.kind = "decided"
  BY <1>4 DEF Process
<1>5. CASE row.kind = "turnEnd"
  BY <1>5 DEF Process
<1> QED
  BY <1>1, <1>2, <1>3, <1>4, <1>5

LEMMA JoinTyped ==
  ASSUME TypeOK, Next
  PROVE  join' \in Joins
<1>1. CASE Envelope
  <2>1. envelopes # <<>> /\ (join' = join \/ join' = Joined([join EXCEPT !.envelope = Head(envelopes)]))
    BY <1>1 DEF Envelope
  <2>2. Head(envelopes) \in AllQuestions /\ join \in Joins
    BY <2>1 DEF TypeOK
  <2>3. Joined([join EXCEPT !.envelope = Head(envelopes)]) \in Joins
    BY <2>2, HalfIs, JoinedIs
  <2> QED
    BY <2>1, <2>2, <2>3
<1>2. CASE Event
  <2>1. events # <<>> /\ (join' = join \/ Process(Head(events)))
    BY <1>2 DEF Event
  <2>2. CASE Process(Head(events))
    <3> DEFINE q == events[1].q
    <3>1. \/ UNCHANGED join
          \/ events[1].kind = "asked" /\ join' = Joined([join EXCEPT !.asked = q])
          \/ events[1].kind = "decided" /\ join' = AfterDecided(join, q)
          \/ join' = [join EXCEPT !.ended = TRUE]
      BY <2>1, <2>2, HeadTyped, ProcessIs
    <3>2. join \in Joins
      BY DEF TypeOK
    <3>3. events[1].kind \in {"asked", "decided"} => q \in AllQuestions
      BY <2>1, HeadTyped
    <3> HIDE DEF q
    <3>4. events[1].kind = "asked" => Joined([join EXCEPT !.asked = q]) \in Joins
      BY <3>2, <3>3, HalfIs, JoinedIs
    <3>5. events[1].kind = "decided" => AfterDecided(join, q) \in Joins
      BY <3>2, <3>3, DecidedIs
    <3> QED
      BY <3>1, <3>2, <3>4, <3>5, EndedIs
  <2> QED
    BY <2>1, <2>2 DEF TypeOK
<1>3. CASE Read \/ EscapeExpires
  <2>1. join' = join \/ join' = [join EXCEPT !.active = None, !.awaiting = join.active]
    BY <1>3 DEF Read, EscapeExpires, Feed, Answer
  <2> QED
    BY <2>1, AnsweredIs DEF TypeOK
<1>4. CASE Reset
  BY <1>4 DEF Reset, EmptyJoin, Joins, SomeQuestion
<1>5. UNCHANGED join \/ Envelope \/ Event \/ Read \/ EscapeExpires \/ Reset
  BY Writers
<1> QED
  BY <1>1, <1>2, <1>3, <1>4, <1>5 DEF TypeOK

\* What a read of the selector comes to, whatever the keys were.
LEMMA FeedIs ==
  ASSUME TypeOK, NEW keys, Feed(keys)
  PROVE  \/ /\ Broken /\ (join.active = None \/ frame # NoFrame)
            /\ UNCHANGED <<join, panel, response>>
         \/ join.active # None /\ \E c \in Decisions : Answer(c)
         \/ /\ join.active # None /\ frame = NoFrame /\ Shows("again") /\ panel' = NoPanel
            /\ UNCHANGED <<join, response, stop, cancelled, history>>
         \/ /\ join.active # None
            /\ \E c, e : panel' = [at |-> panel.at, choice |-> c, escape |-> e]
            /\ (frame = NoFrame /\ Shows("redraw")) \/ UNCHANGED frame
            /\ UNCHANGED <<join, response, stop, cancelled, history>>
<1> DEFINE f == Fed(keys)
           to == IF ~f.escape THEN None ELSE IF f.update = "redraw" THEN "untimed" ELSE "timed"
<1>1. CASE join.active = None \/ (f.update \in {"redraw", "invalid"} /\ frame # NoFrame)
  BY <1>1 DEF Feed
<1>2. CASE /\ join.active # None /\ ~(f.update \in {"redraw", "invalid"} /\ frame # NoFrame)
           /\ f.update \in Decisions
  BY <1>2 DEF Feed
<1>3. CASE /\ join.active # None /\ ~(f.update \in {"redraw", "invalid"} /\ frame # NoFrame)
           /\ f.update = "invalid"
  BY <1>3 DEF Feed, Decisions
<1>4. CASE /\ join.active # None /\ ~(f.update \in {"redraw", "invalid"} /\ frame # NoFrame)
           /\ f.update \notin Decisions /\ f.update # "invalid"
  <2>1. /\ panel' = [panel EXCEPT !.choice = f.choice, !.escape = to]
        /\ IF f.update = "redraw" THEN Shows("redraw") ELSE UNCHANGED frame
        /\ UNCHANGED <<join, response, stop, cancelled, history>>
    BY <1>4 DEF Feed
  <2>2. PICK a, c, e : panel = [at |-> a, choice |-> c, escape |-> e]
    BY DEF TypeOK
  <2> HIDE DEF to
  <2>3. panel' = [at |-> panel.at, choice |-> f.choice, escape |-> to]
    BY <2>1, <2>2
  <2> HIDE DEF f
  <2> QED
    BY <1>4, <2>1, <2>3
<1> QED
  BY <1>1, <1>2, <1>3, <1>4

LEMMA ReadIs ==
  ASSUME TypeOK, Read
  PROVE  \E n \in 1..Len(typed) :
           LET keys == SubSeq(typed, 1, n)
               rest == SubSeq(typed, n + 1, Len(typed)) IN
           /\ typed' = rest \/ (typed' = <<>> /\ UNCHANGED <<join, panel, response, stop>>)
           /\ \/ /\ StopWith("eof") /\ UNCHANGED <<join, panel, response, signals, history>>
              \/ /\ \E s \in {Drained(stop), ObserveFailure(Drained(stop))} : s # None /\ StopWith(s)
                 /\ signals' = {} /\ history' = [history EXCEPT !.exit = Taking(signals)]
                 /\ UNCHANGED <<join, panel, response>>
              \/ panel.at = "accepting" /\ Feed(keys) /\ typed' = rest /\ UNCHANGED signals
              \/ UNCHANGED <<join, panel, response, stop, cancelled, frame, signals, history>>
              \/ /\ signals # {} /\ StopWith(ObserveSignal(stop, Strongest(signals)))
                 /\ signals' = signals \ {Strongest(signals)}
                 /\ history' = [history EXCEPT !.exit = Taking({Strongest(signals)})]
                 /\ UNCHANGED <<join, panel, response>>
BY SMTT(60) DEF Read, Compose

PanelAt(at) == panel' = [at |-> at, choice |-> panel.choice, escape |-> panel.escape]

\* The frame once the written one is off: a question that became active.
NextFrame(kept) ==
  \/ frame' = kept
  \/ /\ ~Done /\ kept = NoFrame /\ join.active # None /\ panel'.at = "inactive"
     /\ Shows("question")

LEMMA TopGoesOnIs ==
  ASSUME TypeOK, TopGoesOn
  PROVE  /\ pc = "top" /\ StopAtTop = None
         /\ \/ /\ frame.at = "written" /\ ~Completable /\ Fail /\ pc' = "top"
               /\ history' = [history EXCEPT !.broken =
                                IF Done /\ frame.what = "selector" THEN "late" ELSE "join"]
               /\ UNCHANGED <<panel, seen, typed>>
            \/ Fail /\ pc' = "top" /\ panel' = NoPanel /\ UNCHANGED <<seen, typed, history>>
            \/ /\ UNCHANGED <<stop, cancelled, history>>
               /\ \/ /\ frame.at # "written" /\ NextFrame(frame) /\ UNCHANGED <<panel, seen, typed>>
                     /\ pc' = IF Done /\ seen.end /\ frame = NoFrame THEN "finish" ELSE "select"
                  \/ /\ frame.at = "written"
                     /\ pc' = IF Done /\ seen.end THEN "finish" ELSE "select"
                     /\ \/ /\ frame.what \in {"question", "again"} /\ panel.at = "inactive"
                           /\ PanelAt("arming") /\ typed' = <<>> /\ frame' = NoFrame
                           /\ UNCHANGED seen
                        \/ /\ frame.what = "selector" /\ panel.at = "rendering"
                           /\ PanelAt("accepting") /\ typed' = <<>> /\ frame' = NoFrame
                           /\ UNCHANGED seen
                        \/ /\ frame.what = "end" /\ seen' = [seen EXCEPT !.rendered = TRUE]
                           /\ NextFrame(NoFrame) /\ UNCHANGED <<panel, typed>>
                        \/ /\ frame.what \notin {"question", "again", "selector", "end"}
                           /\ NextFrame(NoFrame) /\ UNCHANGED <<panel, typed, seen>>
<1>1. PICK a, c, e : panel = [at |-> a, choice |-> c, escape |-> e]
  BY DEF TypeOK
<1>2. ASSUME NEW at, panel' = [panel EXCEPT !.at = at] PROVE PanelAt(at) /\ panel'.at = at
  BY <1>1, <1>2 DEF PanelAt
<1> DEFINE kept == IF frame.at = "written" THEN NoFrame ELSE frame
           Third == /\ IF frame.at = "written" THEN Completable /\ Completed
                       ELSE UNCHANGED <<panel, seen, typed>>
                    /\ IF ~Done /\ kept = NoFrame /\ join.active # None /\ panel'.at = "inactive"
                       THEN Shows("question") ELSE frame' = kept
                    /\ pc' = IF Done /\ seen.end /\ kept = NoFrame THEN "finish" ELSE "select"
                    /\ UNCHANGED <<stop, cancelled, history, moves>>
<1>3. /\ pc = "top" /\ StopAtTop = None
      /\ \/ /\ frame.at = "written" /\ ~Completable /\ Fail /\ pc' = "top"
            /\ history' = [history EXCEPT !.broken =
                             IF Done /\ frame.what = "selector" THEN "late" ELSE "join"]
            /\ UNCHANGED <<panel, seen, typed>>
         \/ Fail /\ pc' = "top" /\ panel' = NoPanel /\ UNCHANGED <<seen, typed, history>>
         \/ Third
  BY DEF TopGoesOn
<1>4. CASE Third /\ frame.at # "written"
  BY <1>3, <1>4 DEF NextFrame
<1>5. CASE Third /\ frame.at = "written"
  <2>1. /\ Completable /\ Completed /\ NextFrame(NoFrame)
        /\ panel'.at # "inactive" => frame' = NoFrame
        /\ pc' = IF Done /\ seen.end THEN "finish" ELSE "select"
        /\ UNCHANGED <<stop, cancelled, history>>
    BY <1>5 DEF NextFrame
  <2>2. CASE frame.what \in {"question", "again"}
    BY <1>2, <1>3, <1>5, <2>1, <2>2 DEF Completable, Completed
  <2>3. CASE frame.what = "selector"
    BY <1>2, <1>3, <1>5, <2>1, <2>3 DEF Completable, Completed
  <2>4. CASE frame.what = "end"
    BY <1>3, <1>5, <2>1, <2>4 DEF Completed
  <2>5. CASE frame.what \notin {"question", "again", "selector", "end"}
    BY <1>3, <1>5, <2>1, <2>5 DEF Completed
  <2> QED
    BY <2>2, <2>3, <2>4, <2>5
<1> HIDE DEF Third
<1> QED
  BY <1>3, <1>4, <1>5

\* The keys that a read of n of them leaves.
LEMMA RestIs ==
  ASSUME NEW S, NEW s \in Seq(S), NEW n \in 1..Len(s)
  PROVE  /\ SubSeq(s, n + 1, Len(s)) \in Seq(S) /\ Len(SubSeq(s, n + 1, Len(s))) = Len(s) - n
         /\ \A i \in 1..Len(s) - n : SubSeq(s, n + 1, Len(s))[i] = s[n + i] /\ n + i \in DOMAIN s
<1>1. n + 1 \in 1..Len(s) + 1 /\ Len(s) \in Nat
  OBVIOUS
<1>2. \A i \in n + 1..Len(s) : s[i] \in S
  OBVIOUS
<1> QED
  BY <1>1, <1>2, SubSeqProperties

LEMMA TypedTyped ==
  ASSUME TypeOK, Next
  PROVE  typed' \in Seq(Presses)
<1> typed \in Seq(Presses) /\ <<>> \in Seq(Presses)
  BY DEF TypeOK
<1>1. CASE TopGoesOn \/ ApprovalArmed
  <2>1. typed' \in {typed, <<>>}
    BY <1>1, TopGoesOnIs DEF ApprovalArmed
  <2> QED
    BY <2>1
<1>2. CASE Read
  <2>1. PICK n \in 1..Len(typed) : typed' \in {<<>>, SubSeq(typed, n + 1, Len(typed))}
    BY <1>2, ReadIs
  <2> QED
    BY <2>1, RestIs
<1>3. CASE Suspended \/ IdleSignal \/ Asleep
  <2>1. typed' \in {typed, <<>>}
    BY <1>3 DEF Suspended, IdleSignal, Asleep
  <2> QED
    BY <2>1
<1>4. CASE Type
  <2>1. PICK key \in {"up", "enter", "esc", "junk", "eof"} :
          typed' = Append(typed, [key |-> key,
                                  saw |-> IF panel.at = "accepting" THEN join.active ELSE None])
    BY <1>4 DEF Type
  <2>2. (IF panel.at = "accepting" THEN join.active ELSE None) \in SomeQuestion
    BY DEF TypeOK, Joins, SomeQuestion
  <2>3. [key |-> key, saw |-> IF panel.at = "accepting" THEN join.active ELSE None] \in Presses
    BY <2>2 DEF Presses
  <2> QED
    BY <2>1, <2>3
<1>5. \/ UNCHANGED typed \/ TopGoesOn \/ ApprovalArmed \/ Read \/ Suspended \/ IdleSignal
      \/ Asleep \/ Type
  BY ScreenWriters
<1> QED
  BY <1>1, <1>2, <1>3, <1>4, <1>5

LEMMA PanelTyped ==
  ASSUME TypeOK, Next
  PROVE  /\ panel'.at \in {"inactive", "arming", "rendering", "accepting"}
         /\ panel' = [at |-> panel'.at, choice |-> panel'.choice, escape |-> panel'.escape]
<1>1. panel' = NoPanel \/ UNCHANGED panel \/ PanelAt("arming") \/ PanelAt("accepting")
        \/ panel' = [NoPanel EXCEPT !.at = "rendering"]
        \/ \E c, e : panel' = [at |-> panel.at, choice |-> c, escape |-> e]
  <2>1. CASE TopStopped \/ Drain \/ Finish \/ BeginTurn \/ ApprovalArmed
    BY <2>1 DEF TopStopped, Drain, Finish, BeginTurn, ApprovalArmed
  <2>2. CASE TopGoesOn
    BY <2>2, TopGoesOnIs
  <2>3. CASE Event
    BY <2>3, HeadTyped, ProcessIs DEF Event
  <2>4. CASE Read
    BY <2>4, ReadIs, FeedIs DEF Answer
  <2>5. CASE EscapeExpires
    BY <2>5 DEF EscapeExpires, Answer
  <2>6. \/ UNCHANGED panel \/ TopStopped \/ TopGoesOn \/ ApprovalArmed \/ Event \/ Read
        \/ EscapeExpires \/ Drain \/ Finish \/ BeginTurn
    BY ScreenWriters
  <2> QED
    BY <2>1, <2>2, <2>3, <2>4, <2>5, <2>6
<1> QED
  BY <1>1 DEF NoPanel, PanelAt, TypeOK

LEMMA FrameTyped ==
  ASSUME TypeOK, Next
  PROVE  frame' \in Frames
<1> DEFINE Drawn(f) == f = frame \/ f = NoFrame \/ f = [frame EXCEPT !.at = "written"]
               \/ \E w \in {"question", "again", "selector", "end", "text", "redraw"} :
                     f = [what |-> w, at |-> "fresh"]
<1>1. Drawn(frame')
  <2>1. CASE TopGoesOn
    BY <2>1, TopGoesOnIs DEF NextFrame, Shows, Fail
  <2>2. CASE Event
    BY <2>2, HeadTyped, ProcessIs DEF Event, Shows, Broken, Fail
  <2>3. CASE Read
    BY <2>3, ReadIs, FeedIs DEF Answer, Shows, Broken, Fail, StopWith
  <2>4. CASE EscapeExpires \/ ApprovalArmed \/ Envelope \/ FrameExpires \/ TerminalFails \/ Write
    BY <2>4 DEF EscapeExpires, ApprovalArmed, Envelope, FrameExpires, TerminalFails, Write, Answer,
                Shows, Broken, Fail
  <2>5. CASE TopStopped \/ StopSignal \/ Drain \/ Reset \/ BeginTurn
    BY <2>5 DEF TopStopped, StopSignal, Drain, Reset, BeginTurn
  <2>6. \/ UNCHANGED frame \/ TopGoesOn \/ Event \/ Read \/ EscapeExpires \/ ApprovalArmed \/ Envelope
        \/ FrameExpires \/ TerminalFails \/ Write \/ TopStopped \/ StopSignal \/ Drain \/ Reset
        \/ BeginTurn
    BY ScreenWriters
  <2> QED
    BY <2>1, <2>2, <2>3, <2>4, <2>5, <2>6
<1> QED
  BY <1>1 DEF TypeOK, Frames, NoFrame

LEMMA SeenTyped ==
  ASSUME TypeOK, Next
  PROVE  seen' \in Sights
<1>1. CASE TopGoesOn
  <2>1. UNCHANGED seen \/ seen' = [seen EXCEPT !.rendered = TRUE]
    BY <1>1, TopGoesOnIs
  <2> QED
    BY <2>1 DEF TypeOK, Sights
<1>2. CASE Event
  <2>1. \/ UNCHANGED seen \/ seen' = [seen EXCEPT !.prompt = TRUE]
        \/ seen' = [seen EXCEPT !.end = TRUE]
    BY <1>2, HeadTyped, ProcessIs DEF Event
  <2> QED
    BY <2>1 DEF TypeOK, Sights
<1>3. CASE WriteReceipt \/ Reset \/ BeginTurn
  <2>1. PICK b \in BOOLEAN : b = (seen.prompt \/ LooksThrough)
    OBVIOUS
  <2>2. \/ UNCHANGED seen \/ seen' = NothingSeen \/ seen' = [seen EXCEPT !.rendered = TRUE]
        \/ seen' = [seen EXCEPT !.prompt = b]
    BY <1>3, <2>1 DEF WriteReceipt, Reset, BeginTurn
  <2>3. CASE seen' = [seen EXCEPT !.prompt = b]
    BY <2>3 DEF TypeOK, Sights
  <2>4. NothingSeen \in Sights
    BY DEF NothingSeen, Sights
  <2>5. CASE seen' = [seen EXCEPT !.rendered = TRUE]
    BY <2>5 DEF TypeOK, Sights
  <2> QED
    BY <2>2, <2>3, <2>4, <2>5 DEF TypeOK
<1>4. UNCHANGED seen \/ TopGoesOn \/ Event \/ WriteReceipt \/ Reset \/ BeginTurn
  BY ScreenWriters
<1> QED
  BY <1>1, <1>2, <1>3, <1>4 DEF TypeOK

LEMMA SignalsTyped ==
  ASSUME TypeOK, Next
  PROVE  signals' \subseteq Signals
<1>1. signals' \subseteq signals \/ SignalArrives
  <2>1. CASE Read
    BY <2>1, ReadIs
  <2>2. CASE \/ TopStopped \/ StopSignal \/ Drain \/ Finish \/ WriteReceipt \/ WriteStopped
             \/ Suspended \/ IdleSignal \/ Asleep \/ CleanUp \/ ShutDown
    BY <2>2 DEF TopStopped, StopSignal, Drain, Finish, WriteReceipt, WriteStopped, Suspended,
                IdleSignal, Asleep, CleanUp, ShutDown
  <2> QED
    BY <2>1, <2>2, ScreenWriters
<1>2. CASE SignalArrives
  BY <1>2 DEF SignalArrives, TypeOK
<1> QED
  BY <1>1, <1>2 DEF TypeOK

\* What becomes of the stop, step by step.
StopKept(s) == s \in {stop, ObserveFailure(stop), "eof", None}
StopHeard(s) ==
  \/ s \in {ObserveFailure(Drained(stop)), Drained(stop), ObserveFailure(ObserveFailure(Drained(stop)))}
  \/ signals # {} /\ s = ObserveSignal(stop, Strongest(signals))

LEMMA StopIs ==
  ASSUME TypeOK, Next
  PROVE  StopKept(stop') \/ StopHeard(stop')
<1>1. CASE TopGoesOn
  BY <1>1, TopGoesOnIs DEF Fail, StopKept
<1>2. CASE Event
  BY <1>2, HeadTyped, ProcessIs DEF Event, Broken, Fail, StopKept
<1>3. CASE Read
  BY <1>3, ReadIs, FeedIs DEF Answer, Broken, Fail, StopWith, StopKept, StopHeard
<1>4. CASE EscapeExpires \/ ApprovalArmed \/ Envelope \/ FrameExpires \/ TerminalFails
  BY <1>4 DEF EscapeExpires, ApprovalArmed, Envelope, FrameExpires, TerminalFails, Answer,
              Broken, Fail, StopKept
<1>5. CASE TopStopped \/ StopSignal \/ Finish \/ WriteReceipt \/ BeginTurn
  BY <1>5 DEF TopStopped, StopAtTop, StopSignal, Finish, WriteReceipt, BeginTurn, StopKept,
              StopHeard
<1>6. CASE Drain
  BY <1>6 DEF Drain, StopHeard
<1>7. \/ UNCHANGED stop \/ TopGoesOn \/ Event \/ Read \/ EscapeExpires \/ ApprovalArmed \/ Envelope
      \/ FrameExpires \/ TerminalFails \/ TopStopped \/ StopSignal \/ Drain \/ Finish
      \/ WriteReceipt \/ BeginTurn
  BY ScreenWriters
<1> QED
  BY <1>1, <1>2, <1>3, <1>4, <1>5, <1>6, <1>7 DEF StopKept

LEMMA StopTyped ==
  ASSUME TypeOK, Next
  PROVE  stop' \in Stops
<1>1. stop \in Stops /\ None \in Stops /\ "eof" \in Stops
  BY DEF TypeOK, Stops
<1>2. CASE StopKept(stop')
  BY <1>1, <1>2, ObservedFailure DEF StopKept
<1>3. /\ Drained(stop) \in Stops /\ ObserveFailure(Drained(stop)) \in Stops
      /\ ObserveFailure(ObserveFailure(Drained(stop))) \in Stops
  BY <1>1, DrainedIs, ObservedFailure
<1>4. CASE StopHeard(stop')
  <2>1. Strongest(signals) \in Terminating \cup {"suspend", "interrupt"}
    BY StrongestIs
  <2> QED
    BY <1>1, <1>3, <1>4, <2>1, Observed DEF StopHeard
<1> QED
  BY <1>2, <1>4, StopIs

\* What is remembered of a terminating signal, and of an inconsistency.
LEMMA HistoryTyped ==
  ASSUME TypeOK, Next
  PROVE  history' \in Histories
<1> history \in Histories
  BY DEF TypeOK
<1>1. \/ UNCHANGED history \/ history' = [history EXCEPT !.prompt = TRUE]
      \/ history' = [history EXCEPT !.prompt = FALSE]
      \/ \E b \in {"join", "late"} : history' = [history EXCEPT !.broken = b]
      \/ \E S : history' = [history EXCEPT !.exit = Taking(S)]
  <2>1. CASE TopGoesOn
    BY <2>1, TopGoesOnIs
  <2>2. CASE Event
    BY <2>2 DEF Event, Broken
  <2>3. CASE Read
    BY <2>3, ReadIs, FeedIs DEF Answer, Broken
  <2>4. CASE EscapeExpires \/ ApprovalArmed \/ Envelope
    BY <2>4 DEF EscapeExpires, ApprovalArmed, Envelope, Answer, Broken
  <2>5. CASE TopStopped \/ StopSignal \/ Drain \/ Finish \/ WriteReceipt \/ Reset
    BY <2>5 DEF TopStopped, StopSignal, Drain, Finish, WriteReceipt, Reset
  <2>6. CASE WriteStopped \/ Suspended \/ BeginTurn \/ IdleSignal \/ Asleep \/ CleanUp \/ ShutDown
    BY <2>6 DEF WriteStopped, Suspended, BeginTurn, IdleSignal, Asleep, CleanUp, ShutDown
  <2>7. CASE CommitPrompt
    BY <2>7 DEF CommitPrompt
  <2> QED
    BY <2>1, <2>2, <2>3, <2>4, <2>5, <2>6, <2>7, HistoryWriters
<1>2. CASE \E S : history' = [history EXCEPT !.exit = Taking(S)]
  <2>1. PICK S : history' = [history EXCEPT !.exit = Taking(S)]
    BY <1>2
  <2>2. Taking(S) \in {None} \cup Terminating
    BY TakingIs
  <2> QED
    BY <2>1, <2>2 DEF Histories
<1> QED
  BY <1>1, <1>2 DEF Histories

LEMMA CancelledTyped ==
  ASSUME TypeOK, Next
  PROVE  cancelled' \in BOOLEAN
<1>1. UNCHANGED cancelled \/ cancelled' \in BOOLEAN
  <2>1. CASE TopGoesOn
    BY <2>1, TopGoesOnIs DEF Fail
  <2>2. CASE Event
    BY <2>2 DEF Event, Broken, Fail
  <2>3. CASE Read
    BY <2>3, ReadIs, FeedIs DEF Answer, Broken, Fail, StopWith
  <2>4. CASE EscapeExpires \/ ApprovalArmed \/ Envelope \/ FrameExpires \/ TerminalFails
    BY <2>4 DEF EscapeExpires, ApprovalArmed, Envelope, FrameExpires, TerminalFails, Answer,
                Broken, Fail
  <2>5. CASE TopStopped \/ StopSignal \/ Drain \/ BeginTurn
    BY <2>5 DEF TopStopped, StopSignal, Drain, BeginTurn
  <2> QED
    BY <2>1, <2>2, <2>3, <2>4, <2>5, HistoryWriters
<1> QED
  BY <1>1 DEF TypeOK

LEMMA TypeStep ==
  ASSUME TypeOK, Next
  PROVE  TypeOK'
<1>1. enhanced' \in BOOLEAN
  BY HistoryWriters DEF TypeOK
<1> QED
  BY <1>1, AgentTyped, ChannelsTyped, JoinTyped, TypedTyped, PanelTyped, FrameTyped, SeenTyped,
     SignalsTyped, StopTyped, HistoryTyped, CancelledTyped DEF TypeOK

LEMMA TypeBegins == Init => TypeOK
<1> SUFFICES ASSUME Init PROVE TypeOK
  OBVIOUS
<1>1. agent \in Agents /\ agent.at \notin Asking
  BY DEF Init, NoAgent, Agents, Asking, SomeQuestion, None
<1>2. join \in Joins /\ frame \in Frames /\ seen \in Sights /\ history \in Histories
  BY DEF Init, EmptyJoin, Joins, NoFrame, Frames, NothingSeen, Sights, NoHistory, Histories,
         SomeQuestion
<1>3. events \in Seq(Rows) /\ envelopes \in Seq(AllQuestions) /\ typed \in Seq(Presses)
      /\ DOMAIN events = {}
  BY DEF Init
<1>4. panel.at = "inactive" /\ panel = [at |-> panel.at, choice |-> panel.choice, escape |-> panel.escape]
  BY DEF Init, NoPanel
<1>5. /\ enhanced \in BOOLEAN /\ faulted \in BOOLEAN /\ cancelled \in BOOLEAN
      /\ turn \in Nat /\ signals \subseteq Signals /\ stop \in Stops
      /\ response \in [AllQuestions -> {None, "asked"} \cup Decisions]
  BY DEF Init, Stops, AllQuestions
<1> QED
  BY <1>1, <1>2, <1>3, <1>4, <1>5 DEF TypeOK

-----------------------------------------------------------------------------
(* Panel, frame and keyboard.                                               *)

\* The first row is the next one, of a question that is not over.
LEMMA FirstRow ==
  ASSUME TypeOK, RowsFollow, events # <<>>, join.active # None
  PROVE  events[1].kind = "decided" /\ events[1].q = join.active
BY DEF RowsFollow, Halves

\* Keys are only taken away.
LEMMA KeysLeft ==
  ASSUME TypeOK, PanelFits, NEW n \in 1..Len(typed),
         typed' = SubSeq(typed, n + 1, Len(typed)) \/ typed' = <<>>
  PROVE  panel.at = "accepting" => \A i \in DOMAIN typed' : typed'[i].saw = join.active
<1>1. CASE typed' = SubSeq(typed, n + 1, Len(typed))
  <2>1. /\ typed \in Seq(Presses) /\ typed' \in Seq(Presses) /\ Len(typed') = Len(typed) - n
        /\ \A i \in 1..Len(typed) - n : typed'[i] = typed[n + i] /\ n + i \in DOMAIN typed
    BY <1>1, RestIs DEF TypeOK
  <2>2. DOMAIN typed' = 1..Len(typed) - n
    BY <2>1
  <2> QED
    BY <2>1, <2>2 DEF PanelFits
<1>2. CASE typed' = <<>>
  <2>1. DOMAIN <<>> = {}
    OBVIOUS
  <2> QED
    BY <1>2, <2>1
<1> QED
  BY <1>1, <1>2

LEMMA PanelReads ==
  ASSUME TypeOK, PanelFits, Read
  PROVE  PanelFits'
<1>1. /\ pc = "select" /\ stop = None /\ pc' = "top" /\ agent' = agent
      /\ ~Suppressed
  BY DEF Read, Selecting
<1>2. PICK n \in 1..Len(typed) :
        /\ typed' = SubSeq(typed, n + 1, Len(typed)) \/ typed' = <<>>
        /\ \/ \E s : StopWith(s) /\ UNCHANGED <<join, panel>>
           \/ panel.at = "accepting" /\ \E keys : Feed(keys)
           \/ UNCHANGED <<join, panel, stop, frame>>
  BY ReadIs
<1>3. panel.at = "accepting" => \A i \in DOMAIN typed' : typed'[i].saw = join.active
  BY <1>2, KeysLeft
<1>4. CASE \E s : StopWith(s) /\ UNCHANGED <<join, panel>>
  BY <1>1, <1>3, <1>4 DEF PanelFits, StopWith, NoFrame, None
<1>5. CASE UNCHANGED <<join, panel, stop, frame>>
  BY <1>1, <1>3, <1>5 DEF PanelFits
<1>6. CASE panel.at = "accepting" /\ \E keys : Feed(keys)
  <2>1. frame = NoFrame
    BY <1>1, <1>6 DEF Suppressed
  <2>2. PICK keys : Feed(keys)
    BY <1>6
  <2>3. \/ Broken /\ UNCHANGED <<join, panel>>
        \/ \E c \in Decisions : Answer(c)
        \/ join.active # None /\ Shows("again") /\ panel' = NoPanel /\ UNCHANGED <<join, stop>>
        \/ /\ \E c, e : panel' = [at |-> panel.at, choice |-> c, escape |-> e]
           /\ Shows("redraw") \/ UNCHANGED frame
           /\ UNCHANGED <<join, stop>>
    BY <2>2, FeedIs
  <2>4. CASE Broken /\ UNCHANGED <<join, panel>>
    BY <1>1, <1>3, <2>4 DEF PanelFits, Broken, Fail, NoFrame, None
  <2>5. CASE \E c \in Decisions : Answer(c)
    BY <1>1, <2>1, <2>5 DEF PanelFits, Answer, NoPanel, NoFrame, None
  <2>6. CASE join.active # None /\ Shows("again") /\ panel' = NoPanel /\ UNCHANGED <<join, stop>>
    BY <1>1, <2>6 DEF PanelFits, NoPanel, Shows
  <2>7. CASE /\ \E c, e : panel' = [at |-> panel.at, choice |-> c, escape |-> e]
             /\ Shows("redraw") \/ UNCHANGED frame
             /\ UNCHANGED <<join, stop>>
    <3>1. panel'.at = panel.at /\ UNCHANGED <<join, stop>> /\ frame' \in {frame, [what |-> "redraw", at |-> "fresh"]}
      BY <2>7 DEF Shows
    <3> QED
      BY <1>1, <1>3, <1>6, <2>1, <3>1 DEF PanelFits, NoFrame, None
  <2> QED
    BY <2>3, <2>4, <2>5, <2>6, <2>7
<1> QED
  BY <1>2, <1>4, <1>5, <1>6

LEMMA PanelTops ==
  ASSUME TypeOK, PanelFits, TopGoesOn
  PROVE  PanelFits'
<1>1. pc = "top" /\ pc' \in {"top", "select", "finish"} /\ UNCHANGED <<agent, join>>
  BY TopGoesOnIs DEF TopGoesOn, agentVars
<1>2. CASE Fail /\ panel' \in {panel, NoPanel} /\ UNCHANGED typed
  BY <1>1, <1>2 DEF PanelFits, Fail, NoPanel, NoFrame, None
<1>3. CASE UNCHANGED stop /\ frame.at # "written" /\ NextFrame(frame) /\ UNCHANGED <<panel, typed>>
  BY <1>1, <1>3 DEF PanelFits, NextFrame, Shows, NoFrame, None
<1>4. CASE /\ UNCHANGED stop /\ frame.what \in {"question", "again"}
           /\ PanelAt("arming") /\ typed' = <<>> /\ frame' = NoFrame
  BY <1>1, <1>4 DEF PanelFits, PanelAt, NoFrame, None
<1>5. CASE /\ UNCHANGED stop /\ panel.at = "rendering"
           /\ PanelAt("accepting") /\ typed' = <<>> /\ frame' = NoFrame
  <2>1. DOMAIN typed' = {}
    BY <1>5
  <2> QED
    BY <1>1, <1>5, <2>1 DEF PanelFits, PanelAt, NoFrame, None
<1>6. CASE UNCHANGED stop /\ NextFrame(NoFrame) /\ UNCHANGED <<panel, typed>>
  BY <1>1, <1>6 DEF PanelFits, NextFrame, Shows, NoFrame, None
<1>7. \/ Fail /\ panel' \in {panel, NoPanel} /\ UNCHANGED typed
      \/ UNCHANGED stop /\ frame.at # "written" /\ NextFrame(frame) /\ UNCHANGED <<panel, typed>>
      \/ /\ UNCHANGED stop /\ frame.what \in {"question", "again"}
         /\ PanelAt("arming") /\ typed' = <<>> /\ frame' = NoFrame
      \/ /\ UNCHANGED stop /\ panel.at = "rendering"
         /\ PanelAt("accepting") /\ typed' = <<>> /\ frame' = NoFrame
      \/ UNCHANGED stop /\ NextFrame(NoFrame) /\ UNCHANGED <<panel, typed>>
  BY TopGoesOnIs
<1> QED
  BY <1>2, <1>3, <1>4, <1>5, <1>6, <1>7

LEMMA PanelRows ==
  ASSUME TypeOK, PanelFits, RowsFollow, Event
  PROVE  PanelFits'
<1>1. /\ pc = "select" /\ pc' = "top" /\ frame = NoFrame /\ events # <<>>
      /\ UNCHANGED <<agent, typed>>
  BY DEF Event, Selecting
<1> DEFINE row == events[1]
<1>2. Head(events) = row /\ row \in Rows
  BY <1>1, HeadTyped
<1> HIDE DEF row
<1>3. join.active # None => row.kind = "decided"
  BY <1>1, FirstRow DEF row
<1>4. CASE ~CanProcess(row)
  <2>1. Broken /\ UNCHANGED <<join, panel>>
    BY <1>2, <1>4 DEF Event
  <2> QED
    BY <1>1, <2>1 DEF PanelFits, Broken, Fail, NoFrame, None
<1>5. CASE CanProcess(row)
  <2>1. Process(row) /\ UNCHANGED stop
    BY <1>2, <1>5 DEF Event
  <2>2. CASE row.kind = "decided"
    <3>1. panel' = NoPanel /\ frame' \in {frame, [what |-> "text", at |-> "fresh"]}
      BY <2>1, <2>2 DEF Process, Shows
    <3> QED
      BY <1>1, <3>1 DEF PanelFits, NoPanel, NoFrame, None
  <2>3. CASE row.kind # "decided"
    <3>1. UNCHANGED panel /\ panel.at = "inactive"
      BY <1>2, <1>3, <2>1, <2>3, ProcessIs DEF PanelFits
    <3>2. frame'.what \notin {"question", "again", "selector"}
      <4>1. UNCHANGED frame \/ Shows("text") \/ Shows("end")
        BY <1>2, <2>1, ProcessIs
      <4> QED
        BY <1>1, <4>1 DEF Shows, NoFrame, None
    <3> QED
      BY <1>1, <3>1, <3>2 DEF PanelFits
  <2> QED
    BY <2>2, <2>3
<1> QED
  BY <1>4, <1>5

LEMMA PanelStep ==
  ASSUME TurnInv, Next
  PROVE  PanelFits'
<1>1. TypeOK /\ PanelFits /\ StopFits /\ (Live => RowsFollow)
  BY DEF TurnInv, ChannelsInStep
<1>2. CASE AgentStep
  <2>1. /\ UNCHANGED <<panel, frame, typed, join, stop>> /\ pc = "select" /\ pc' \in {"select", "drain"}
        /\ agent.at # "done"
    BY <1>2 DEF AgentStep, CommitPrompt, Ask, SendEnvelope, StopWaiting, CommitDecision,
                CommitTurnEnd, AgentReturns, Polled, AgentOnly, uiVars
  <2> QED
    BY <1>1, <2>1 DEF PanelFits
<1>3. CASE TopStopped
  <2>1. /\ panel' = NoPanel /\ stop' # None /\ frame' \in {frame, NoFrame} /\ UNCHANGED <<join, agent>>
    BY <1>3 DEF TopStopped, agentVars
  <2> QED
    BY <1>1, <2>1 DEF PanelFits, NoPanel, NoFrame, None
<1>4. CASE StopSignal
  <2>1. stop' = ObserveSignal(stop, Strongest(signals)) /\ stop \in Stops
    BY <1>1, <1>4 DEF StopSignal, TypeOK
  <2>2. Strongest(signals) \in Terminating \cup {"suspend", "interrupt"}
    BY StrongestIs
  <2>3. stop' # None
    BY <2>1, <2>2, Observed
  <2>4. /\ UNCHANGED <<panel, typed, join, agent>> /\ frame' \in {frame, NoFrame} /\ pc' = "top"
    BY <1>4 DEF StopSignal, agentVars
  <2> QED
    BY <1>1, <2>3, <2>4 DEF PanelFits, NoFrame, None
<1>5. CASE FrameExpires \/ TerminalFails
  <2>1. Fail /\ UNCHANGED <<panel, typed, join, agent>> /\ pc' = "top"
    BY <1>5 DEF FrameExpires, TerminalFails, Worked, UiOnly
  <2> QED
    BY <1>1, <2>1 DEF PanelFits, Fail, NoFrame, None
<1>6. CASE Write
  <2>1. /\ UNCHANGED <<panel, typed, join, agent, stop>> /\ pc' = "top" /\ frame.at = "fresh"
        /\ frame'.what = frame.what
    BY <1>1, <1>6 DEF Write, Worked, UiOnly, TypeOK, Frames
  <2> QED
    BY <1>1, <2>1 DEF PanelFits, NoFrame, None
<1>7. CASE ApprovalArmed
  <2>1. panel' = [NoPanel EXCEPT !.at = "rendering"] /\ UNCHANGED <<join, agent>> /\ pc' = "top"
        /\ (Broken \/ Shows("selector")) /\ panel.at = "arming"
    BY <1>7 DEF ApprovalArmed, Worked, UiOnly
  <2>2. panel'.at = "rendering" /\ frame'.what \notin {"question", "again"}
    BY <2>1 DEF NoPanel, Broken, Fail, Shows, NoFrame, None
  <2> QED
    BY <1>1, <2>1, <2>2 DEF PanelFits
<1>8. CASE Envelope
  <2> DEFINE q == Head(envelopes)
  <2>1. /\ UNCHANGED <<panel, typed, agent>> /\ pc' = "top"
        /\ \/ Broken /\ UNCHANGED join
           \/ UNCHANGED <<join, frame, stop>>
           \/ join.active = None /\ UNCHANGED <<frame, stop>>
    BY <1>8 DEF Envelope, CanReceive, agentVars
  <2> QED
    BY <1>1, <2>1 DEF PanelFits, Broken, Fail, NoFrame, None
<1>9. CASE Event
  BY <1>1, <1>9, PanelRows DEF Event, Selecting, Live, InTurn
<1>10. CASE EscapeExpires
  <2>1. /\ UNCHANGED <<typed, agent>> /\ pc' = "top" /\ panel.at = "accepting" /\ stop = None
        /\ \/ Broken /\ UNCHANGED <<join, panel>>
           \/ Answer("cancel")
    BY <1>10 DEF EscapeExpires, Worked, UiOnly, Selecting
  <2>2. CASE Answer("cancel")
    BY <1>1, <2>1, <2>2 DEF PanelFits, Answer, NoPanel
  <2> QED
    BY <1>1, <2>1, <2>2 DEF PanelFits, Broken, Fail, NoFrame, None
<1>11. CASE LeaveAtOnce
  BY <1>1, <1>11 DEF LeaveAtOnce, PanelFits, uiVars, agentVars
<1>12. CASE Drain \/ Finish
  <2>1. /\ panel' = NoPanel /\ frame' \in {frame, NoFrame} /\ UNCHANGED <<join, agent>> /\ Done
    BY <1>1, <1>12 DEF Drain, Finish, agentVars, StopFits
  <2> QED
    BY <1>1, <2>1 DEF PanelFits, NoPanel, NoFrame, None, Done
<1>13. CASE WriteReceipt
  <2>1. UNCHANGED <<panel, typed, join, agent, frame>> /\ Done /\ pc = "receipt"
    BY <1>1, <1>13 DEF WriteReceipt, agentVars, StopFits
  <2> QED
    BY <1>1, <2>1 DEF PanelFits, Done
<1>14. CASE Reset
  <2>1. frame' = NoFrame /\ UNCHANGED <<panel, typed>> /\ pc = "reset"
    BY <1>14 DEF Reset
  <2> QED
    BY <1>1, <2>1 DEF PanelFits, NoFrame, None
<1>15. CASE BeginTurn
  <2>1. /\ pc = "idle" /\ UNCHANGED <<typed, join>>
        /\ \/ UNCHANGED <<panel, frame, stop, agent>>
           \/ panel' = NoPanel /\ frame' = NoFrame
    BY <1>15 DEF BeginTurn
  <2> QED
    BY <1>1, <2>1 DEF PanelFits, NoPanel, NoFrame, None
<1>16. CASE Type
  <2>1. /\ UNCHANGED <<panel, join, frame, stop, agent, pc>>
    BY <1>16 DEF Type, uiVars, agentVars
  <2>2. \E k : typed' = Append(typed, [key |-> k, saw |-> IF panel.at = "accepting" THEN join.active ELSE None])
    BY <1>16 DEF Type
  <2>3. panel.at = "accepting" => \A i \in DOMAIN typed' : typed'[i].saw = join.active
    BY <1>1, <2>2 DEF PanelFits, TypeOK
  <2> QED
    BY <1>1, <2>1, <2>3 DEF PanelFits
<1>17. CASE \/ WriteStopped \/ Suspended \/ Settle \/ IdleSignal \/ IdleLeave \/ Asleep \/ CleanUp
            \/ ShutDown \/ SignalArrives
  <2>1. /\ UNCHANGED <<panel, join, frame, stop, agent>>
        /\ UNCHANGED pc \/ pc \notin {"top", "select", "drain", "finish"}
        /\ UNCHANGED typed \/ pc \notin {"top", "select", "drain", "finish"}
    BY <1>17 DEF WriteStopped, Suspended, Settle, IdleSignal, IdleLeave, Asleep, CleanUp,
                 ShutDown, SignalArrives, AfterTurn, BetweenTurns, uiVars, agentVars
  <2> QED
    BY <1>1, <2>1 DEF PanelFits
<1> QED
  BY <1>1, <1>2, <1>3, <1>4, <1>5, <1>6, <1>7, <1>8, <1>9, <1>10, <1>11, <1>12, <1>13, <1>14,
     <1>15, <1>16, <1>17, PanelTops, PanelReads
     DEF Next, TurnStep, Work, BetweenSteps

-----------------------------------------------------------------------------
(* The stop, and what was taken for it.                                     *)

Deaf == UNCHANGED stop /\ history'.exit = history.exit
Fails == stop' = ObserveFailure(stop) /\ history'.exit = history.exit
HearsAll ==
  /\ stop' \in {Drained(stop), ObserveFailure(Drained(stop)),
                ObserveFailure(ObserveFailure(Drained(stop)))}
  /\ history'.exit = Taking(signals)
HearsOne ==
  /\ signals # {} /\ stop' = ObserveSignal(stop, Strongest(signals))
  /\ history'.exit = Taking({Strongest(signals)})
HearsEof == stop = None /\ stop' = "eof" /\ history'.exit = history.exit

\* Whatever is heard, the stop says what was taken, and a hard one stays.
LEMMA HeardIs ==
  ASSUME TypeOK, history.exit # None <=> stop \in Terminating,
         Deaf \/ Fails \/ HearsAll \/ HearsOne \/ HearsEof
  PROVE  /\ history'.exit # None <=> stop' \in Terminating
         /\ Hard(stop) => Hard(stop')
         /\ stop # None => stop' # None
<1>1. stop \in Stops
  BY DEF TypeOK
<1>2. CASE Deaf
  BY <1>2 DEF Deaf
<1>3. CASE Fails
  BY <1>1, <1>3, ObservedFailure DEF Fails
<1>4. CASE HearsAll
  <2> DEFINE d == Drained(stop)
  <2>1. /\ d \in Stops /\ (d = None => stop = None)
        /\ d \in Terminating <=> stop \in Terminating \/ signals \cap Terminating # {}
        /\ Hard(stop) => Hard(d)
    BY <1>1, DrainedIs
  <2>2. stop' \in {d, ObserveFailure(d), ObserveFailure(ObserveFailure(d))}
        /\ history'.exit = Taking(signals)
    BY <1>4 DEF HearsAll
  <2> HIDE DEF d
  <2>3. /\ stop' \in Terminating <=> d \in Terminating
        /\ Hard(d) => Hard(stop')
        /\ d # None => stop' # None
    BY <2>1, <2>2, ObservedFailure
  <2>4. history'.exit # None <=> history.exit # None \/ signals \cap Terminating # {}
    BY <2>2, TakingIs
  <2> QED
    BY <2>1, <2>3, <2>4
<1>5. CASE HearsOne
  <2> DEFINE x == Strongest(signals)
  <2>1. x \in Terminating \cup {"suspend", "interrupt"}
    BY StrongestIs
  <2>2. stop' = ObserveSignal(stop, x) /\ history'.exit = Taking({x})
    BY <1>5 DEF HearsOne
  <2> HIDE DEF x
  <2>3. Taking({x}) # None <=> history.exit # None \/ {x} \cap Terminating # {}
    BY TakingIs
  <2>4. {x} \cap Terminating # {} <=> x \in Terminating
    OBVIOUS
  <2> QED
    BY <1>1, <2>1, <2>2, <2>3, <2>4, Observed
<1>6. CASE HearsEof
  BY <1>6, StopNames DEF HearsEof, Hard, None
<1> QED
  BY <1>2, <1>3, <1>4, <1>5, <1>6

\* The history but for its inconsistency, or but for its exit.
Blames == history'.exit = history.exit /\ history'.prompt = history.prompt
Takes(S) ==
  /\ history'.exit = Taking(S) /\ history'.prompt = history.prompt
  /\ history'.broken = history.broken

LEMMA BlamesIs ==
  ASSUME TypeOK, NEW b, history' = [history EXCEPT !.broken = b]
  PROVE  Blames /\ history'.broken = b
BY DEF TypeOK, Histories, Blames

LEMMA BrokenIs ==
  ASSUME TypeOK, Broken
  PROVE  Fail /\ Blames
BY BlamesIs DEF Broken

LEMMA TakesIs ==
  ASSUME TypeOK, NEW S, history' = [history EXCEPT !.exit = Taking(S)]
  PROVE  Takes(S)
BY DEF TypeOK, Histories, Takes

LEMMA NotesIs ==
  ASSUME TypeOK, NEW b, history' = [history EXCEPT !.prompt = b]
  PROVE  /\ history'.exit = history.exit /\ history'.broken = history.broken
         /\ history'.prompt = b
BY DEF TypeOK, Histories

LEMMA TurnHears ==
  ASSUME TypeOK, Next, InTurn
  PROVE  Deaf \/ Fails \/ HearsAll \/ HearsOne \/ HearsEof
<1>1. CASE AgentStep
  <2>1. UNCHANGED stop /\ (UNCHANGED history \/ history' = [history EXCEPT !.prompt = TRUE])
    BY <1>1 DEF AgentStep, CommitPrompt, Ask, SendEnvelope, StopWaiting, CommitDecision,
                CommitTurnEnd, AgentReturns, AgentOnly, uiVars
  <2> QED
    BY <2>1, NotesIs DEF Deaf
<1>2. CASE TopStopped
  <2>1. \/ /\ Done /\ history' = [history EXCEPT !.exit = Taking(signals)]
           /\ stop' \in {Drained(stop), ObserveFailure(Drained(stop))}
        \/ /\ UNCHANGED history /\ stop' \in {stop, ObserveFailure(stop)}
    BY <1>2 DEF TopStopped, StopAtTop
  <2> QED
    BY <2>1, TakesIs DEF Deaf, Fails, HearsAll, Takes
<1>3. CASE TopGoesOn
  <2>1. \/ UNCHANGED <<stop, history>>
        \/ Fail /\ (UNCHANGED history \/ Blames)
    BY <1>3, TopGoesOnIs, BlamesIs
  <2> QED
    BY <2>1 DEF Deaf, Fails, Fail, Blames
<1>4. CASE StopSignal
  BY <1>4, TakesIs DEF StopSignal, HearsOne, Takes
<1>5. CASE \/ FrameExpires \/ TerminalFails \/ ApprovalArmed \/ Envelope \/ Event \/ EscapeExpires
           \/ Write \/ LeaveAtOnce
  <2>1. \/ UNCHANGED <<stop, history>>
        \/ Fail /\ (UNCHANGED history \/ Blames)
    BY <1>5, BrokenIs DEF FrameExpires, TerminalFails, ApprovalArmed, Envelope, Event,
                          EscapeExpires, Answer,
                Write, LeaveAtOnce, uiVars
  <2> QED
    BY <2>1 DEF Deaf, Fails, Fail, Blames
<1>6. CASE Read
  <2>1. stop = None
    BY <1>6 DEF Read, Selecting
  <2>2. \/ UNCHANGED <<stop, history>>
        \/ StopWith("eof") /\ UNCHANGED history
        \/ /\ \E x \in {Drained(stop), ObserveFailure(Drained(stop))} : StopWith(x)
           /\ history' = [history EXCEPT !.exit = Taking(signals)]
        \/ /\ signals # {} /\ StopWith(ObserveSignal(stop, Strongest(signals)))
           /\ history' = [history EXCEPT !.exit = Taking({Strongest(signals)})]
        \/ Broken
    <3>1. PICK n \in 1..Len(typed) :
             \/ StopWith("eof") /\ UNCHANGED history
             \/ /\ \E x \in {Drained(stop), ObserveFailure(Drained(stop))} : StopWith(x)
                /\ history' = [history EXCEPT !.exit = Taking(signals)]
             \/ Feed(SubSeq(typed, 1, n))
             \/ UNCHANGED <<stop, history>>
             \/ /\ signals # {} /\ StopWith(ObserveSignal(stop, Strongest(signals)))
                /\ history' = [history EXCEPT !.exit = Taking({Strongest(signals)})]
      BY <1>6, ReadIs
    <3>2. ASSUME NEW keys, Feed(keys) PROVE UNCHANGED <<stop, history>> \/ Broken
      BY <3>2, FeedIs DEF Answer
    <3> QED
      BY <3>1, <3>2
  <2> QED
    BY <2>1, <2>2, TakesIs, BrokenIs
       DEF Deaf, Fails, HearsAll, HearsOne, HearsEof, Fail, Blames, Takes, StopWith
<1>7. CASE Drain \/ Finish
  <2>1. /\ stop' \in {Drained(stop), ObserveFailure(Drained(stop)),
                      ObserveFailure(ObserveFailure(Drained(stop)))}
        /\ history' = [history EXCEPT !.exit = Taking(signals)]
    BY <1>7 DEF Drain, Finish
  <2> QED
    BY <2>1, TakesIs DEF HearsAll, Takes
<1>8. CASE WriteReceipt
  BY <1>8, TakesIs DEF WriteReceipt, Deaf, Fails, HearsOne, Takes
<1>9. CASE Reset
  <2>1. UNCHANGED stop /\ (UNCHANGED history \/ Blames)
    BY <1>9, BlamesIs DEF Reset
  <2> QED
    BY <2>1 DEF Deaf, Blames
<1>10. CASE Type \/ SignalArrives
  BY <1>10 DEF Type, SignalArrives, uiVars, Deaf
<1>11. CASE WriteStopped \/ Suspended \/ BetweenSteps
  BY <1>11 DEF WriteStopped, Suspended, BetweenSteps, Settle, BeginTurn, IdleSignal, IdleLeave,
               Asleep, CleanUp, ShutDown, InTurn
<1> QED
  BY <1>1, <1>2, <1>3, <1>4, <1>5, <1>6, <1>7, <1>8, <1>9, <1>10, <1>11
     DEF Next, TurnStep, Work

\* How a turn returns.
Going == outcome' \in {"exit1", "continue"} /\ pc' = IF outcome' = "continue" THEN "settle" ELSE "shutdown"

LEMMA ResetIs ==
  ASSUME TypeOK, Reset
  PROVE  \/ /\ stop = None /\ ~Settled(join) /\ outcome' = "error" /\ pc' = "shutdown"
            /\ history' = [history EXCEPT !.broken = "join"]
         \/ /\ stop # None /\ \E i \in DOMAIN events : events[i].turn # turn
            /\ outcome' = "error" /\ pc' = "shutdown"
            /\ history' = [history EXCEPT !.broken = "join"]
         \/ stop = None /\ Settled(join) /\ Going /\ UNCHANGED history
         \/ stop = "interrupt" /\ seen.rendered /\ Going /\ UNCHANGED history
         \/ stop = "interrupt" /\ pc' = "stopped" /\ UNCHANGED <<history, outcome>>
         \/ stop = "suspend" /\ pc' = "suspended" /\ UNCHANGED <<history, outcome>>
         \/ stop = "suspend" /\ outcome' = "suspend" /\ pc' = "settle" /\ UNCHANGED history
         \/ stop = "eof" /\ outcome' = "exit0" /\ pc' = "shutdown" /\ UNCHANGED history
         \/ stop = "failure" /\ outcome' = "error" /\ pc' = "shutdown" /\ UNCHANGED history
         \/ stop \in Terminating /\ outcome' = "signal" /\ pc' = "shutdown" /\ UNCHANGED history
<1>1. stop \in Stops /\ pc = "reset"
  BY DEF TypeOK, Reset
<1> DEFINE astray == \E i \in DOMAIN events : events[i].turn # turn
           r == IF agent.result = "full" THEN "exit1" ELSE "continue"
<1>2. Returns(r) => Going
  BY DEF Returns, Going
<1> HIDE DEF r
<1>3. CASE stop = None
  BY <1>2, <1>3 DEF Reset, Returns, None, r
<1>4. CASE stop # None /\ astray
  BY <1>4 DEF Reset, Returns
<1>5. CASE stop = "interrupt" /\ ~astray
  BY <1>2, <1>5 DEF Reset, None, r
<1>6. CASE stop = "suspend" /\ ~astray
  BY <1>6 DEF Reset, Returns, None
<1>7. CASE stop = "eof" /\ ~astray
  BY <1>7 DEF Reset, Returns, None
<1>8. CASE stop = "failure" /\ ~astray
  BY <1>8 DEF Reset, Returns, None
<1>9. CASE stop \in Terminating /\ ~astray
  <2>1. stop \notin {None, "interrupt", "suspend", "eof", "failure"}
    BY <1>9, StopNames
  <2> QED
    BY <1>9, <2>1 DEF Reset, Returns
<1> QED
  BY <1>1, <1>3, <1>4, <1>5, <1>6, <1>7, <1>8, <1>9 DEF Stops

\* A signal that is taken alone, or with all the others where they are drained.
LEMMA TakenAlone ==
  ASSUME TypeOK, signals # {}, history.exit = None,
         NEW x, x = IF enhanced THEN Strongest(signals) ELSE Drained(None),
         signals' = IF enhanced THEN signals \ {x} ELSE {},
         history' = [history EXCEPT !.exit = Taking(signals \ signals')]
  PROVE  /\ x \in Terminating \cup {"suspend", "interrupt"}
         /\ history'.exit # None <=> x \in Terminating
<1>1. /\ Strongest(signals) \in Terminating \cup {"suspend", "interrupt"}
      /\ signals \cap Terminating # {} => Strongest(signals) \in signals \cap Terminating
      /\ signals \cap Terminating = {} => Strongest(signals) \notin Terminating
  BY StrongestIs, StopNames
<1>2. Drained(None) = ObserveSignal(None, Strongest(signals))
  BY DEF Drained
<1>3. ASSUME NEW y \in Terminating \cup {"suspend", "interrupt"} PROVE ObserveSignal(None, y) = y
  BY <1>3, StopNames DEF ObserveSignal, None
<1>4. x = Strongest(signals)
  BY <1>1, <1>2, <1>3
<1>5. signals \ signals' = signals \/ signals \ signals' = signals \cap {x}
  OBVIOUS
<1> HIDE DEF Strongest
<1>6. x \in Terminating <=> (signals \ signals') \cap Terminating # {}
  BY <1>1, <1>4, <1>5
<1>7. history'.exit = Taking(signals \ signals')
  BY TakesIs DEF Takes
<1> QED
  BY <1>1, <1>4, <1>6, <1>7, TakingIs

\* What a step that takes a signal after the turn says of it.
Tells ==
  /\ pc' \in {"settle", "shutdown"} => (outcome' = "signal" <=> history'.exit # None)
  /\ AfterReset' => history'.exit = None

LEMMA StoppedTells ==
  ASSUME TypeOK, history.exit = None, WriteStopped
  PROVE  Tells
<1> DEFINE x == IF enhanced THEN Strongest(signals) ELSE Drained(None)
           r == IF agent.result = "full" THEN "exit1" ELSE "continue"
<1>1. Returns(r) => outcome' # "signal"
  BY DEF Returns
<1> HIDE DEF r
<1>2. \/ UNCHANGED history /\ (Returns(r) \/ Returns("error"))
      \/ /\ signals # {} /\ signals' = IF enhanced THEN signals \ {x} ELSE {}
         /\ history' = [history EXCEPT !.exit = Taking(signals \ signals')]
         /\ CASE x \in Terminating -> Returns("signal")
              [] x = "suspend" /\ enhanced -> Returns("suspend")
              [] x = "suspend" /\ ~enhanced -> pc' = "suspended" /\ UNCHANGED outcome
              [] OTHER -> Returns(r)
  BY DEF WriteStopped, r
<1>3. CASE UNCHANGED history /\ (Returns(r) \/ Returns("error"))
  BY <1>1, <1>3 DEF Tells, Returns
<1>4. CASE /\ signals # {} /\ signals' = IF enhanced THEN signals \ {x} ELSE {}
           /\ history' = [history EXCEPT !.exit = Taking(signals \ signals')]
           /\ CASE x \in Terminating -> Returns("signal")
                [] x = "suspend" /\ enhanced -> Returns("suspend")
                [] x = "suspend" /\ ~enhanced -> pc' = "suspended" /\ UNCHANGED outcome
                [] OTHER -> Returns(r)
  <2>1. /\ x \in Terminating \cup {"suspend", "interrupt"}
        /\ history'.exit # None <=> x \in Terminating
    BY <1>4, TakenAlone
  <2> HIDE DEF x
  <2>2. CASE x \in Terminating
    <3>1. x # "suspend"
      BY <2>2, StopNames
    <3>2. Returns("signal")
      BY <1>4, <2>2, <3>1
    <3> QED
      BY <2>1, <2>2, <3>2 DEF Tells, Returns, AfterReset
  <2>3. CASE x \notin Terminating
    <3>1. Returns("suspend") \/ (pc' = "suspended" /\ UNCHANGED outcome) \/ Returns(r)
      BY <1>4, <2>1, <2>3
    <3> QED
      BY <1>1, <2>1, <2>3, <3>1 DEF Tells, Returns
  <2> QED
    BY <2>2, <2>3
<1> QED
  BY <1>2, <1>3, <1>4

LEMMA IdleTells ==
  ASSUME TypeOK, history.exit = None, IdleSignal
  PROVE  Tells
<1> DEFINE x == IF enhanced THEN Strongest(signals) ELSE Drained(None)
<1>1. /\ x \in Terminating \cup {"suspend", "interrupt"}
      /\ history'.exit # None <=> x \in Terminating
  BY TakenAlone DEF IdleSignal
<1>2. /\ CASE x \in Terminating -> outcome' = "signal" /\ pc' = "shutdown"
           [] x = "suspend" -> pc' = "asleep"
           [] OTHER -> pc' = "idle" \/ (outcome' = "exit0" /\ pc' = "shutdown")
  BY DEF IdleSignal, Leaves
<1> HIDE DEF x
<1>3. CASE x \in Terminating
  <2>1. x # "suspend"
    BY <1>3, StopNames
  <2>2. outcome' = "signal" /\ pc' = "shutdown"
    BY <1>2, <1>3, <2>1
  <2> QED
    BY <1>1, <1>3, <2>2 DEF Tells, AfterReset
<1>4. CASE x \notin Terminating
  <2>1. pc' \in {"asleep", "idle"} \/ (outcome' = "exit0" /\ pc' = "shutdown")
    BY <1>1, <1>2, <1>4
  <2> QED
    BY <1>1, <1>4, <2>1 DEF Tells
<1> QED
  BY <1>3, <1>4

LEMMA SleepTells ==
  ASSUME TypeOK, history.exit = None, Suspended \/ Asleep
  PROVE  Tells
<1> DEFINE r == IF agent.result = "full" THEN "exit1" ELSE "continue"
<1>1. history' = [history EXCEPT !.exit = Taking(signals)]
  BY DEF Suspended, Asleep
<1>2. None \in Stops /\ None \notin Terminating
  BY StopNames DEF Stops
<1>3. history'.exit # None <=> Drained(None) \in Terminating
  BY <1>1, <1>2, TakesIs, TakingIs, DrainedIs DEF Takes
<1>4. Returns(r) => outcome' # "signal"
  BY DEF Returns
<1> HIDE DEF r
<1>5. IF Drained(None) \in Terminating THEN Returns("signal") \/ Leaves("signal")
      ELSE Returns(r) \/ pc' = "idle"
  BY DEF Suspended, Asleep, r
<1> QED
  BY <1>3, <1>4, <1>5 DEF Tells, Returns, Leaves, AfterReset

\* The future is done where the first loop was left, and a stop has cancelled it
\* as long as it is not.
Cancels ==
  /\ pc \in {"drain", "finish", "receipt", "reset"} => Done
  /\ pc \in {"top", "select"} /\ ~Done => (cancelled <=> stop # None)

LEMMA CancelsStep ==
  ASSUME TypeOK, Cancels, Next
  PROVE  Cancels'
<1> USE DEF Cancels, Done
<1>1. CASE AgentStep
  <2>1. /\ pc = "select" /\ ~Done /\ UNCHANGED <<cancelled, stop>>
        /\ UNCHANGED pc \/ AgentReturns
    BY <1>1 DEF AgentStep, CommitPrompt, Ask, SendEnvelope, StopWaiting, CommitDecision,
                CommitTurnEnd, AgentReturns, Polled, AgentOnly, uiVars
  <2>2. CASE AgentReturns
    BY <2>2 DEF AgentReturns, NoAgent
  <2> QED
    BY <2>1, <2>2
<1>2. CASE TopStopped
  <2>1. /\ UNCHANGED agent /\ pc = "top" /\ pc' = IF Done THEN "finish" ELSE "select"
        /\ stop' # None /\ cancelled' = (cancelled \/ faulted)
        /\ Done \/ faulted \/ stop' = stop
    BY <1>2 DEF TopStopped, StopAtTop, agentVars
  <2> QED
    BY <2>1 DEF TypeOK
<1>3. CASE TopGoesOn
  <2>1. UNCHANGED agent /\ pc = "top" /\ (pc' \in {"top", "select"} \/ (pc' = "finish" /\ Done))
    BY <1>3, TopGoesOnIs DEF TopGoesOn, agentVars
  <2>2. UNCHANGED <<stop, cancelled>> \/ Fail
    BY <1>3, TopGoesOnIs
  <2>3. Fail => stop' # None /\ cancelled'
    BY ObservedFailure DEF Fail, TypeOK
  <2> QED
    BY <2>1, <2>2, <2>3
<1>4. CASE StopSignal
  <2>1. UNCHANGED agent /\ pc' = "top" /\ cancelled' /\ stop' = ObserveSignal(stop, Strongest(signals))
    BY <1>4 DEF StopSignal, agentVars
  <2>2. Strongest(signals) \in Terminating \cup {"suspend", "interrupt"}
    BY StrongestIs
  <2>3. stop' # None
    BY <2>1, <2>2, Observed DEF TypeOK
  <2> QED
    BY <2>1, <2>3
<1>5. CASE Work
  <2>1. /\ UNCHANGED agent /\ pc = "select" /\ pc' \in {"top", "shutdown"}
    BY <1>5 DEF Work, FrameExpires, TerminalFails, Write, ApprovalArmed, Envelope, Event, Read,
                EscapeExpires, LeaveAtOnce, Selecting, Worked, UiOnly, agentVars
  <2>2. UNCHANGED <<stop, cancelled>> \/ Fail \/ \E s : s # None /\ StopWith(s)
    <3>1. CASE Read
      <4>1. Strongest(signals) \in Terminating \cup {"suspend", "interrupt"} /\ stop \in Stops
        BY StrongestIs DEF TypeOK
      <4>2. ObserveSignal(stop, Strongest(signals)) # None /\ None # "eof"
        BY <4>1, Observed DEF None
      <4>3. \/ \E s : s # None /\ StopWith(s)
            \/ \E keys : Feed(keys)
            \/ UNCHANGED <<stop, cancelled>>
        BY <3>1, <4>2, ReadIs
      <4> QED
        BY <4>3, FeedIs DEF Answer, Broken
    <3>2. CASE \/ FrameExpires \/ TerminalFails \/ Write \/ ApprovalArmed \/ Envelope \/ Event
               \/ EscapeExpires \/ LeaveAtOnce
      BY <3>2 DEF FrameExpires, TerminalFails, Write, ApprovalArmed, Envelope, Event,
                  EscapeExpires, LeaveAtOnce, Broken, Answer, uiVars
    <3> QED
      BY <1>5, <3>1, <3>2 DEF Work
  <2>3. (Fail \/ \E s : s # None /\ StopWith(s)) => stop' # None /\ cancelled'
    BY ObservedFailure DEF Fail, TypeOK, StopWith
  <2> QED
    BY <2>1, <2>2, <2>3
<1>6. CASE Drain \/ Finish \/ WriteReceipt
  <2>1. /\ UNCHANGED agent /\ pc \in {"drain", "finish", "receipt"}
    BY <1>6 DEF Drain, Finish, WriteReceipt, agentVars
  <2> QED
    BY <2>1
<1>7. CASE BeginTurn
  <2>1. pc' = "shutdown" \/ (pc' = "top" /\ cancelled' = FALSE /\ stop' = None)
    BY <1>7 DEF BeginTurn, Leaves
  <2> QED
    BY <2>1
<1>8. CASE Type \/ SignalArrives
  BY <1>8 DEF Type, SignalArrives, agentVars, uiVars
<1>9. CASE \/ Reset \/ WriteStopped \/ Suspended \/ Settle \/ IdleSignal \/ IdleLeave \/ Asleep
           \/ CleanUp \/ ShutDown
  <2>1. pc' \in {"settle", "shutdown", "stopped", "suspended", "idle", "asleep", "joining", "closed"}
    <3>1. CASE Reset
      BY <3>1, ResetIs DEF Going
    <3>2. CASE WriteStopped
      BY <3>2 DEF WriteStopped, Returns
    <3> QED
      BY <1>9, <3>1, <3>2 DEF Suspended, Settle, IdleSignal, IdleLeave, Asleep, CleanUp, ShutDown,
                              Returns, Leaves
  <2> QED
    BY <2>1
<1> QED
  BY <1>1, <1>2, <1>3, <1>4, <1>5, <1>6, <1>7, <1>8, <1>9 DEF Next, TurnStep, BetweenSteps

\* A turn that lost its observer, or whose agent failed, ends in a hard stop.
StaysHard ==
  /\ InTurn /\ pc # "drain" /\ agent.result = "error" => Hard(stop)
  /\ pc \in {"receipt", "reset"} /\ faulted => Hard(stop)

LEMMA StaysHardStep ==
  ASSUME TypeOK, Cancels, StaysHard, history.exit # None <=> stop \in Terminating, Next, InTurn
  PROVE  StaysHard'
<1>1. Hard(stop) => Hard(stop')
  BY TurnHears, HeardIs
<1> USE DEF StaysHard, InTurn
<1>2. CASE AgentStep
  <2>1. CASE AgentReturns
    BY <2>1 DEF AgentReturns
  <2>2. CASE CommitPrompt \/ Ask \/ SendEnvelope \/ StopWaiting \/ CommitDecision \/ CommitTurnEnd
    <3>1. pc = "select" /\ UNCHANGED <<pc, stop>>
      BY <2>2 DEF CommitPrompt, Ask, SendEnvelope, StopWaiting, CommitDecision, CommitTurnEnd,
                  Polled, AgentOnly, uiVars
    <3>2. agent'.result = agent.result
      BY <2>2 DEF CommitPrompt, Ask, SendEnvelope, StopWaiting, CommitDecision, CommitTurnEnd,
                  TypeOK, Agents
    <3> QED
      BY <3>1, <3>2
  <2> QED
    BY <1>2, <2>1, <2>2 DEF AgentStep
<1>3. CASE Drain
  <2> DEFINE d == IF faulted THEN ObserveFailure(Drained(stop)) ELSE Drained(stop)
  <2>1. d \in Stops
    BY DrainedIs, ObservedFailure DEF TypeOK
  <2>2. /\ stop' = IF agent.result = "error" THEN ObserveFailure(d) ELSE d
        /\ UNCHANGED agent /\ pc' \in {"top", "finish"}
    BY <1>3 DEF Drain, agentVars
  <2> HIDE DEF d
  <2> QED
    BY <2>1, <2>2, ObservedFailure
<1>4. CASE Finish
  <2>1. stop' = (IF faulted THEN ObserveFailure(Drained(stop)) ELSE Drained(stop))
        /\ UNCHANGED <<agent, faulted>> /\ pc = "finish"
    BY <1>4 DEF Finish, agentVars
  <2>2. faulted => Hard(stop')
    BY <2>1, DrainedIs, ObservedFailure DEF TypeOK
  <2> QED
    BY <1>1, <2>1, <2>2
<1>5. CASE WriteReceipt
  BY <1>1, <1>5 DEF WriteReceipt, agentVars
<1>6. CASE Type \/ SignalArrives
  BY <1>6 DEF Type, SignalArrives, agentVars, uiVars
<1>7. CASE TopStopped \/ TopGoesOn \/ StopSignal \/ Work
  <2>1. /\ UNCHANGED agent /\ pc \in {"top", "select"} /\ pc' \in {"top", "select", "finish", "shutdown"}
    BY <1>7 DEF TopStopped, TopGoesOn, StopSignal, Work, FrameExpires, TerminalFails, Write,
                ApprovalArmed, Envelope, Event, Read, EscapeExpires, LeaveAtOnce, Selecting, Worked,
                UiOnly, agentVars
  <2> QED
    BY <1>1, <2>1
<1>8. CASE Reset
  <2>1. pc' \notin {"top", "select", "drain", "finish", "receipt", "reset"}
    BY <1>8, ResetIs DEF Going
  <2> QED
    BY <2>1
<1>9. CASE \/ WriteStopped \/ Suspended \/ Settle \/ BeginTurn \/ IdleSignal \/ IdleLeave \/ Asleep
           \/ CleanUp \/ ShutDown
  BY <1>9 DEF WriteStopped, Suspended, Settle, BeginTurn, IdleSignal, IdleLeave, Asleep, CleanUp,
              ShutDown
<1> QED
  BY <1>2, <1>3, <1>4, <1>5, <1>6, <1>7, <1>8, <1>9 DEF Next, TurnStep, BetweenSteps

\* Where a step goes that was not in a turn.
LEMMA OutOfTurn ==
  ASSUME TypeOK, ~InTurn, Next
  PROVE  \/ /\ BeginTurn /\ pc = "idle" /\ pc' = "top" /\ join = EmptyJoin
            /\ stop' = None /\ agent'.result = None /\ agent'.at = "start" /\ agent'.q = None
            /\ ~agent'.late
            /\ history' = [history EXCEPT !.prompt = FALSE]
         \/ BeginTurn /\ pc = "idle" /\ join # EmptyJoin /\ pc' = "shutdown"
         \/ /\ WriteStopped \/ Suspended \/ Asleep \/ IdleSignal \/ IdleLeave
            /\ ~InTurn' /\ UNCHANGED <<stop, agent, faulted, seen, join, events, envelopes>>
            /\ AfterReset
         \/ /\ Settle \/ CleanUp \/ ShutDown \/ Type \/ SignalArrives
            /\ ~InTurn' /\ UNCHANGED <<stop, agent, faulted, seen, join, events, envelopes>>
            /\ UNCHANGED outcome \/ pc' \in {"joining", "closed"}
            /\ pc' \in {pc, "asleep", "idle", "joining", "closed"}
            /\ AfterReset' => AfterReset /\ UNCHANGED history
<1> USE DEF InTurn, AfterReset
<1>1. CASE BeginTurn
  BY <1>1 DEF BeginTurn, NoAgent, Leaves
<1>2. CASE WriteStopped
  <2>1. UNCHANGED <<stop, agent, faulted, seen, join, events, envelopes>> /\ pc = "stopped"
    BY <1>2 DEF WriteStopped, AfterTurn, agentVars
  <2>2. pc' \in {"settle", "shutdown", "suspended"}
    BY <1>2 DEF WriteStopped, Returns
  <2> QED
    BY <1>2, <2>1, <2>2
<1>3. CASE Suspended \/ Asleep \/ IdleSignal \/ IdleLeave
  <2>1. /\ UNCHANGED <<stop, agent, faulted, seen, join, events, envelopes>>
        /\ pc \in {"suspended", "asleep", "idle"}
    BY <1>3 DEF Suspended, Asleep, IdleSignal, IdleLeave, AfterTurn, BetweenTurns, agentVars, uiVars
  <2>2. pc' \in {"settle", "shutdown", "idle", "asleep"}
    BY <1>3 DEF Suspended, Asleep, IdleSignal, IdleLeave, Returns, Leaves
  <2> QED
    BY <1>3, <2>1, <2>2
<1>4. CASE Settle \/ CleanUp \/ ShutDown \/ Type \/ SignalArrives
  BY <1>4 DEF Settle, CleanUp, ShutDown, Type, SignalArrives, BetweenTurns, agentVars, uiVars
<1>5. ~(AgentStep \/ TopStopped \/ TopGoesOn \/ StopSignal \/ Work \/ Drain \/ Finish \/ WriteReceipt \/ Reset)
  BY DEF AgentStep, CommitPrompt, Ask, SendEnvelope, StopWaiting, CommitDecision, CommitTurnEnd,
         AgentReturns, Polled, TopStopped, TopGoesOn, StopSignal, Work, FrameExpires, TerminalFails,
         Write, ApprovalArmed, Envelope, Event, Read, EscapeExpires, LeaveAtOnce, Selecting,
         Drain, Finish, WriteReceipt, Reset
<1> QED
  BY <1>1, <1>2, <1>3, <1>4, <1>5 DEF Next, TurnStep, BetweenSteps

LEMMA NotHard == ~Hard(None) /\ ~Hard("interrupt") /\ ~Hard("suspend") /\ ~Hard("eof")
BY StopNames DEF Hard, None

LEMMA StopStep ==
  ASSUME TypeOK, StopFits, Next
  PROVE  StopFits'
<1>1. Cancels /\ Cancels'
  BY CancelsStep DEF StopFits, Cancels
<1>2. StaysHard
  BY DEF StopFits, StaysHard
<1> USE DEF InTurn, AfterReset
<1>3. CASE InTurn /\ ~Reset
  <2>1. history.exit # None <=> stop \in Terminating
    BY <1>3 DEF StopFits
  <2>2. history'.exit # None <=> stop' \in Terminating
    BY <1>3, <2>1, TurnHears, HeardIs
  <2>3. StaysHard'
    BY <1>1, <1>2, <1>3, <2>1, StaysHardStep
  <2>4. pc' \notin {"idle", "settle", "asleep", "stopped", "suspended"}
    BY <1>3 DEF Next, AgentStep, CommitPrompt, Ask, SendEnvelope, StopWaiting, CommitDecision,
        CommitTurnEnd, AgentReturns, TurnStep, BetweenSteps,
        TopStopped, TopGoesOn, StopSignal, Work, FrameExpires, TerminalFails,
        Write, ApprovalArmed, Envelope, Event, Read, EscapeExpires, LeaveAtOnce, Selecting, Worked,
        Drain, Finish, WriteReceipt, WriteStopped, Suspended, Settle, BeginTurn, IdleSignal,
        IdleLeave, Asleep, CleanUp, ShutDown, Type, SignalArrives
  <2> QED
    BY <1>1, <2>2, <2>3, <2>4 DEF StopFits, Cancels, StaysHard
<1>4. CASE Reset
  <2>1. /\ pc = "reset" /\ UNCHANGED <<agent, stop, faulted>>
    BY <1>4 DEF Reset
  <2>2. /\ pc' \in {"settle", "shutdown", "stopped", "suspended"}
        /\ pc' # "shutdown" => UNCHANGED history /\ stop \in {None, "interrupt", "suspend"}
        /\ pc' \in {"stopped", "suspended"} => stop \in {"interrupt", "suspend"}
    BY <1>4, ResetIs DEF Going
  <2>3. pc' # "shutdown" => ~Hard(stop) /\ history'.exit = None
    <3>1. stop \in {None, "interrupt", "suspend"} => stop \notin Terminating
      BY StopNames
    <3> QED
      BY <2>1, <2>2, <3>1, NotHard DEF StopFits
  <2> QED
    BY <1>1, <2>1, <2>2, <2>3 DEF StopFits, Cancels
<1>5. CASE ~InTurn
  <2>1. CASE BeginTurn /\ pc' = "top"
    <3>1. /\ stop' = None /\ agent'.result = None /\ history'.exit = history.exit
          /\ pc = "idle" /\ pc' = "top"
      BY <1>5, <2>1, OutOfTurn, NotesIs
    <3> QED
      BY <1>1, <3>1, StopNames DEF StopFits, Cancels, None
  <2>2. CASE BeginTurn /\ pc' = "shutdown"
    BY <1>1, <2>2 DEF StopFits, Cancels
  <2>3. CASE /\ WriteStopped \/ Suspended \/ Asleep \/ IdleSignal \/ IdleLeave
             /\ ~InTurn' /\ UNCHANGED <<stop, agent, faulted>> /\ AfterReset
    <3>1. history.exit = None
      BY <2>3 DEF StopFits
    <3>2. CASE IdleLeave
      BY <1>1, <2>3, <3>2 DEF IdleLeave, Leaves, StopFits, Cancels
    <3>3. CASE WriteStopped \/ Suspended \/ Asleep \/ IdleSignal
      <4>1. AfterReset' => history'.exit = None
        BY <3>1, <3>3, StoppedTells, SleepTells, IdleTells DEF Tells
      <4>2. pc' \in {"stopped", "suspended"} => pc = "stopped"
        BY <3>3 DEF WriteStopped, Suspended, Asleep, IdleSignal, Returns, Leaves
      <4> QED
        BY <1>1, <2>3, <4>1, <4>2 DEF StopFits, Cancels
    <3> QED
      BY <2>3, <3>2, <3>3
  <2>4. CASE /\ ~InTurn' /\ UNCHANGED <<stop, agent, faulted>>
             /\ pc' \in {pc, "asleep", "idle", "joining", "closed"}
             /\ AfterReset' => AfterReset /\ UNCHANGED history
    BY <1>1, <2>4 DEF StopFits, Cancels
  <2> QED
    BY <1>5, <2>1, <2>2, <2>3, <2>4, OutOfTurn
<1> QED
  BY <1>3, <1>4, <1>5 DEF Reset

-----------------------------------------------------------------------------
(* The channels.                                                            *)

\* A row more, a row less.
Longer(r) ==
  /\ Len(events) \in Nat /\ DOMAIN events = 1..Len(events)
  /\ Len(events') = Len(events) + 1 /\ DOMAIN events' = 1..Len(events) + 1
  /\ events'[Len(events) + 1] = r /\ events' # <<>>
  /\ \A i \in 1..Len(events) : events'[i] = events[i]
  /\ events = <<>> <=> Len(events) = 0
Shorter ==
  /\ Len(events) \in Nat /\ Len(events) > 0 /\ DOMAIN events = 1..Len(events)
  /\ Len(events') = Len(events) - 1 /\ DOMAIN events' = 1..Len(events) - 1
  /\ \A i \in 1..Len(events) - 1 : events'[i] = events[i + 1]
  /\ events' = <<>> <=> Len(events) = 1

LEMMA PublishedIs ==
  ASSUME TypeOK, NEW kind \in {"prompt", "asked", "decided", "turnEnd"}, NEW q \in SomeQuestion,
         Publish(kind, q)
  PROVE  \/ faulted' /\ UNCHANGED events
         \/ ~faulted /\ ~faulted' /\ Longer([kind |-> kind, q |-> q, turn |-> turn])
<1> DEFINE r == [kind |-> kind, q |-> q, turn |-> turn]
<1>1. r \in Rows /\ events \in Seq(Rows)
  BY DEF TypeOK, Rows
<1>2. \/ faulted' /\ UNCHANGED events
      \/ ~faulted /\ ~faulted' /\ events' = Append(events, r)
  BY DEF Publish
<1> HIDE DEF r
<1>3. ASSUME events' = Append(events, r) PROVE Longer(r)
  BY <1>1, <1>3 DEF Longer
<1> QED
  BY <1>2, <1>3 DEF r

LEMMA ShorterIs ==
  ASSUME TypeOK, events # <<>>, events' = Tail(events)
  PROVE  Shorter
<1>1. events \in Seq(Rows) /\ Len(events) \in Nat /\ DOMAIN events = 1..Len(events) /\ Len(events) > 0
  BY DEF TypeOK
<1>2. /\ events' \in Seq(Rows) /\ Len(events') = Len(events) - 1
      /\ \A i \in DOMAIN events' : events'[i] = events[i + 1]
  BY HeadTyped
<1> DEFINE rest == events'
<1>3. rest \in Seq(Rows)
  BY <1>2
<1> HIDE DEF rest
<1>4. DOMAIN rest = 1..Len(rest)
  BY <1>3
<1>5. rest = <<>> <=> Len(rest) = 0
  BY <1>3
<1> QED
  BY <1>1, <1>2, <1>4, <1>5 DEF Shorter, rest

\* What the agent commits follows what it committed before.
Commits(kind, q) ==
  /\ Publish(kind, q) /\ UNCHANGED <<join, envelopes>>
  /\ agent'.late = agent.late
  /\ \/ /\ kind = "prompt" /\ q = None /\ agent.at = "start" /\ agent'.at = "run"
        /\ agent'.q = agent.q /\ UNCHANGED response
     \/ /\ kind = "asked" /\ q \in AllQuestions /\ agent.at = "run" /\ agent'.at = "ask"
        /\ agent'.q = q /\ ~faulted /\ ~agent.late
        /\ response[q] = None /\ response' = [response EXCEPT ![q] = "asked"]
     \/ /\ kind = "decided" /\ q = agent.q /\ q \in AllQuestions /\ agent.at = "decide"
        /\ agent'.at = "run" /\ agent'.q = None /\ UNCHANGED response
     \/ /\ kind = "turnEnd" /\ q = None /\ agent.at \in {"start", "run"} /\ agent'.at = "end"
        /\ agent'.q = agent.q /\ UNCHANGED response

LEMMA CommitsIs ==
  ASSUME TypeOK, CommitPrompt \/ Ask \/ CommitDecision \/ CommitTurnEnd
  PROVE  \E kind \in {"prompt", "asked", "decided", "turnEnd"}, q \in SomeQuestion : Commits(kind, q)
<1>1. agent \in Agents
  BY DEF TypeOK
<1>2. CASE CommitPrompt
  <2>1. Commits("prompt", None)
    BY <1>1, <1>2 DEF CommitPrompt, Commits, Agents, AgentOnly, uiVars
  <2> QED
    BY <2>1 DEF SomeQuestion
<1>3. CASE Ask
  <2>1. PICK i \in DOMAIN Questions :
          /\ response[Questions[i]] = None /\ Publish("asked", Questions[i])
          /\ agent' = [agent EXCEPT !.at = "ask", !.q = Questions[i]]
          /\ response' = [response EXCEPT ![Questions[i]] = "asked"]
    BY <1>3 DEF Ask
  <2>2. Questions[i] \in AllQuestions
    BY DEF AllQuestions, ToSet
  <2>3. Commits("asked", Questions[i])
    BY <1>1, <1>3, <2>1, <2>2 DEF Ask, Commits, Agents, AgentOnly, uiVars
  <2> QED
    BY <2>2, <2>3 DEF SomeQuestion
<1>4. CASE CommitDecision
  <2>1. agent.q \in AllQuestions
    BY <1>4 DEF CommitDecision, TypeOK, Asking
  <2>2. Commits("decided", agent.q)
    BY <1>1, <1>4, <2>1 DEF CommitDecision, Commits, Agents, AgentOnly, uiVars
  <2> QED
    BY <2>1, <2>2 DEF SomeQuestion
<1>5. CASE CommitTurnEnd
  <2>1. Commits("turnEnd", None)
    BY <1>1, <1>5 DEF CommitTurnEnd, Commits, Agents, AgentOnly, uiVars
  <2> QED
    BY <2>1 DEF SomeQuestion
<1> QED
  BY <1>2, <1>3, <1>4, <1>5

LEMMA CommitsRows ==
  ASSUME TypeOK, RowsFollow, NEW kind \in {"prompt", "asked", "decided", "turnEnd"},
         NEW q \in SomeQuestion, Commits(kind, q)
  PROVE  RowsFollow'
<1> DEFINE r == [kind |-> kind, q |-> q, turn |-> turn]
<1>1. /\ agent.at \in {"start", "run", "decide"} /\ UNCHANGED join
      /\ ~join.ended
      /\ \A i \in DOMAIN events : events[i].kind # "turnEnd"
  BY DEF Commits, RowsFollow
<1>2. Halves' = Halves
  BY <1>1 DEF Halves
<1>3. CASE faulted' /\ UNCHANGED events
  BY <1>1, <1>2, <1>3 DEF RowsFollow, AskedAt, InAsking
<1>4. CASE ~faulted /\ ~faulted' /\ Longer(r)
  <2>1. r.kind = kind /\ r.q = q
    OBVIOUS
  <2> HIDE DEF r
  <2>2. ASSUME NEW x, InAsking(x) PROVE kind = "decided" /\ x = q
    BY <1>1, <1>4, <2>2 DEF InAsking, Commits, Asking, Done
  <2>3. ASSUME NEW i \in DOMAIN events', events'[i].kind = "turnEnd"
        PROVE  i = Len(events') /\ agent'.at \in {"end", "done"}
    BY <1>1, <1>4, <2>1, <2>3 DEF Longer, Commits
  <2>4. ASSUME NEW i \in DOMAIN events', AskedAt(i)', i < Len(events')
        PROVE  events'[i + 1].kind = "decided" /\ events'[i + 1].q = events'[i].q
    <3>1. i \in 1..Len(events) /\ AskedAt(i) /\ events'[i] = events[i] /\ Len(events) \in Nat
      BY <1>4, <2>4 DEF Longer, AskedAt
    <3>2. CASE i = Len(events)
      <4>1. InAsking(events[Len(events)].q)
        BY <1>4, <3>1, <3>2 DEF RowsFollow, Longer
      <4> QED
        BY <1>4, <2>1, <2>2, <3>1, <3>2, <4>1 DEF Longer
    <3>3. CASE i < Len(events)
      <4>1. i + 1 \in 1..Len(events)
        BY <3>1, <3>3
      <4>2. events[i + 1].kind = "decided" /\ events[i + 1].q = events[i].q
        BY <1>4, <3>1, <3>3 DEF RowsFollow, Longer
      <4> QED
        BY <1>4, <3>1, <4>1, <4>2 DEF Longer
    <3> QED
      BY <3>1, <3>2, <3>3
  <2>5. events'[Len(events')].kind = "asked" => InAsking(q)' /\ events'[Len(events')].q = q
    BY <1>4, <2>1 DEF Longer, InAsking, Commits, Asking
  <2>6. ASSUME NEW h \in Halves PROVE events'[1].kind = "decided" /\ events'[1].q = h
    <3>1. CASE events = <<>>
      <4>1. InAsking(h)
        BY <2>6, <3>1 DEF RowsFollow
      <4> QED
        BY <1>4, <2>1, <2>2, <3>1, <4>1 DEF Longer
    <3>2. CASE events # <<>>
      BY <1>4, <2>6, <3>2 DEF RowsFollow, Longer
    <3> QED
      BY <3>1, <3>2
  <2>7. events' # <<>>
    BY <1>4 DEF Longer
  <2> QED
    BY <1>1, <1>2, <2>3, <2>4, <2>5, <2>6, <2>7 DEF RowsFollow, AskedAt
<1>5. Publish(kind, q)
  BY DEF Commits
<1> QED
  BY <1>3, <1>4, <1>5, PublishedIs

LEMMA CommitsOnce ==
  ASSUME TypeOK, AskedOnce, NoRowAsks \/ faulted \/ agent.late \/ agent.at = "decide",
         NEW kind \in {"prompt", "asked", "decided", "turnEnd"},
         NEW q \in SomeQuestion, Commits(kind, q)
  PROVE  AskedOnce'
<1> DEFINE r == [kind |-> kind, q |-> q, turn |-> turn]
<1>1. /\ UNCHANGED join
      /\ kind = "asked" => NoRowAsks
      /\ kind \in {"prompt", "turnEnd"} => q = None
      /\ kind = "asked" => q # None /\ response[q] = None
      /\ kind = "decided" => q = agent.q /\ q # None
  BY QuestionNames DEF Commits, AllQuestions, None
<1>2. Halves' = Halves /\ join'.decided = join.decided
  BY <1>1 DEF Halves
<1>3. \A x : x # None /\ x \in AllQuestions /\ response[x] # None => response'[x] # None
  BY DEF Commits, TypeOK, None
<1>4. \A x \in join.decided \cup Halves : x \in AllQuestions /\ x # None
  BY QuestionNames DEF TypeOK, Joins, Halves, SomeQuestion, AllQuestions, None
<1>5. agent'.q # None => agent'.q \in AllQuestions /\ response'[agent'.q] # None
  BY <1>3 DEF Commits, TypeOK, AskedOnce, Agents, SomeQuestion, None
<1>6. \A x \in join.decided \cup Halves : response'[x] # None
  BY <1>3, <1>4 DEF AskedOnce
<1>7. ASSUME NEW i \in DOMAIN events, events[i].q # None PROVE events[i].q \in AllQuestions
  <2>1. events[i] \in Rows
    BY DEF TypeOK
  <2> QED
    BY <1>7, <2>1 DEF Rows, SomeQuestion
<1>8. agent'.at \in {"ask", "wait"} => kind = "asked" /\ agent'.q = q
  BY DEF Commits
<1>9. kind = "asked" => \A i \in DOMAIN events : events[i].q # q
  BY <1>1 DEF AskedOnce
<1>10. CASE UNCHANGED events
  <2>1. \A i \in DOMAIN events : events[i].q # None => response'[events[i].q] # None
    BY <1>3, <1>7 DEF AskedOnce
  <2> QED
    BY <1>2, <1>5, <1>6, <1>8, <1>9, <1>10, <2>1 DEF AskedOnce, AskedAt
<1>11. CASE Longer(r)
  <2>1. r.kind = kind /\ r.q = q
    OBVIOUS
  <2> HIDE DEF r
  <2>2. \A i \in DOMAIN events' :
          \/ i \in DOMAIN events /\ events'[i] = events[i]
          \/ i = Len(events) + 1 /\ events'[i] = r
    BY <1>11 DEF Longer
  <2>3. \A i, k \in DOMAIN events' : AskedAt(i)' /\ AskedAt(k)' => i = k
    BY <1>1, <2>1, <2>2 DEF AskedOnce, AskedAt, NoRowAsks
  <2>4. \A i \in DOMAIN events' : AskedAt(i)' => events'[i].q \notin join'.decided \cup Halves'
    BY <1>1, <1>2, <2>1, <2>2 DEF AskedOnce, AskedAt
  <2>5. ASSUME NEW i \in DOMAIN events', NEW k \in DOMAIN events', i < k, AskedAt(k)'
        PROVE  events'[i].q # events'[k].q
    <3>1. i \in DOMAIN events /\ events'[i] = events[i]
      BY <1>11, <2>5 DEF Longer
    <3>2. CASE k \in DOMAIN events /\ events'[k] = events[k]
      BY <2>5, <3>1, <3>2 DEF AskedOnce, AskedAt
    <3>3. CASE events'[k] = r
      BY <1>9, <2>1, <2>5, <3>1, <3>3 DEF AskedAt
    <3> QED
      BY <2>2, <3>2, <3>3
  <2>6. \A i \in DOMAIN events' : events'[i].q # None => response'[events'[i].q] # None
    <3>1. q # None => response'[q] # None
      <4>1. CASE kind = "asked"
        BY <4>1 DEF Commits, TypeOK, None
      <4>2. CASE kind = "decided"
        BY <1>1, <4>2 DEF Commits, AskedOnce
      <4> QED
        BY <1>1, <4>1, <4>2
    <3> QED
      BY <1>3, <1>7, <2>1, <2>2, <3>1 DEF AskedOnce
  <2>7. agent'.at \in {"ask", "wait"} =>
          \A i \in DOMAIN events' : events'[i].kind = "decided" => events'[i].q # agent'.q
    BY <1>8, <1>9, <2>1, <2>2
  <2> QED
    BY <1>2, <1>5, <1>6, <2>3, <2>4, <2>5, <2>6, <2>7 DEF AskedOnce
<1>12. Publish(kind, q)
  BY DEF Commits
<1> QED
  BY <1>10, <1>11, <1>12, PublishedIs

LEMMA CommitsFit ==
  ASSUME TypeOK, ChannelsFit, NEW kind \in {"prompt", "asked", "decided", "turnEnd"},
         NEW q \in SomeQuestion, Commits(kind, q)
  PROVE  ChannelsFit'
<1> DEFINE r == [kind |-> kind, q |-> q, turn |-> turn]
<1>1. UNCHANGED <<join, envelopes>> /\ agent'.late = agent.late
  BY DEF Commits
<1>2. agent'.at \in {"run", "ask", "end"} /\ agent.at \in {"start", "run", "decide"}
      /\ (agent'.at = "ask" <=> kind = "asked") /\ (kind = "asked" => ~agent.late /\ agent'.q = q)
      /\ (kind = "asked" => q \in AllQuestions /\ ~faulted)
  BY DEF Commits
<1>3. kind = "asked" => response'[q] \notin Decisions
  BY <1>2 DEF Commits, TypeOK, Decisions
<1>4. UNCHANGED events \/ Longer(r)
  BY PublishedIs DEF Commits
<1>5. ~faulted' => ~faulted /\ Longer(r)
  BY PublishedIs DEF Commits
<1>6. r.kind = kind /\ r.q = q
  OBVIOUS
<1> HIDE DEF r
<1>7. join.envelope # None => RowOf(join.envelope)'
  <2>1. join.envelope # None => RowOf(join.envelope)
    BY DEF ChannelsFit
  <2> QED
    BY <1>1, <1>4, <2>1 DEF RowOf, AskedAt, Longer
<1>8. ~agent'.late /\ ~faulted' => Quiet
  BY <1>1, <1>2, <1>5 DEF ChannelsFit
<1>9. ~agent'.late /\ ~faulted' /\ kind # "asked" => Quiet'
  BY <1>1, <1>5, <1>6, <1>8 DEF Quiet, NoRowAsks, AskedAt, Longer
<1>10. kind = "asked" /\ ~faulted' => envelopes' = <<>> /\ Unseen' /\ Only(q)' /\ RowOf(q)'
  <2>1. ASSUME kind = "asked", ~faulted' PROVE Only(q)' /\ RowOf(q)'
    BY <1>1, <1>2, <1>5, <1>6, <1>8, <2>1 DEF Quiet, NoRowAsks, AskedAt, Longer, Only, RowOf
  <2>2. ASSUME kind = "asked", ~faulted' PROVE envelopes' = <<>> /\ Unseen'
    BY <1>1, <1>2, <1>8, <2>2 DEF Quiet, Unseen
  <2> QED
    BY <2>1, <2>2
<1>11. join'.active # None => join'.asked = None /\ join'.envelope = None
  BY <1>1 DEF ChannelsFit
<1> QED
  BY <1>1, <1>2, <1>3, <1>7, <1>9, <1>10, <1>11 DEF ChannelsFit

LEMMA CommitsInStep ==
  ASSUME TypeOK, ChannelsInStep, CommitPrompt \/ Ask \/ CommitDecision \/ CommitTurnEnd
  PROVE  ChannelsInStep'
<1>1. PICK kind \in {"prompt", "asked", "decided", "turnEnd"}, q \in SomeQuestion : Commits(kind, q)
  BY CommitsIs
<1>2. NoRowAsks \/ faulted \/ agent.late \/ agent.at = "decide"
  BY <1>1 DEF ChannelsInStep, ChannelsFit, Quiet, Commits
<1> QED
  BY <1>1, <1>2, CommitsRows, CommitsOnce, CommitsFit DEF ChannelsInStep

LEMMA WaitingInStep ==
  ASSUME TypeOK, ChannelsInStep, SendEnvelope \/ StopWaiting, ~cancelled
  PROVE  ChannelsInStep'
<1>1. /\ UNCHANGED <<events, faulted, response, join>> /\ agent \in Agents
      /\ agent.at \in {"ask", "wait"}
  BY DEF SendEnvelope, StopWaiting, AgentOnly, uiVars, TypeOK
<1>2. agent'.at \in {"wait", "decide"} /\ agent'.q = agent.q
  BY <1>1 DEF SendEnvelope, StopWaiting, Agents
<1>3. agent'.at = "wait" => agent.at = "ask"
  BY <1>1 DEF SendEnvelope, StopWaiting, Agents
<1>4. RowsFollow'
  BY <1>1, <1>2 DEF ChannelsInStep, RowsFollow, AskedAt, InAsking, Asking, Halves, Done
<1>5. AskedOnce'
  BY <1>1, <1>2, <1>3 DEF ChannelsInStep, AskedOnce, AskedAt, Halves
<1>6. ChannelsFit'
  <2> USE DEF ChannelsInStep
  <2>1. CASE SendEnvelope
    <3>1. agent.at = "ask" /\ agent'.late = agent.late
      BY <1>1, <2>1 DEF SendEnvelope, Agents
    <3>2. CASE agent'.at = "decide"
      <4>1. faulted \/ Len(envelopes) = 1
        BY <1>1, <2>1, <3>2 DEF SendEnvelope, Agents
      <4>2. faulted
        <5>1. Len(<<>>) # 1
          OBVIOUS
        <5> QED
          BY <3>1, <4>1, <5>1 DEF ChannelsFit
      <4> QED
        BY <1>1, <3>2, <4>2 DEF ChannelsFit, RowOf, AskedAt
    <3>3. CASE agent'.at = "wait"
      <4>1. ~faulted /\ envelopes' = Append(envelopes, agent.q)
        BY <1>1, <2>1, <3>3 DEF SendEnvelope, Agents
      <4>2. envelopes' = <<agent.q>>
        BY <3>1, <4>1 DEF ChannelsFit
      <4> QED
        BY <1>1, <1>2, <3>1, <3>3, <4>1, <4>2 DEF ChannelsFit, RowOf, AskedAt, Only, Unseen, Halves
    <3> QED
      BY <1>2, <3>2, <3>3
  <2>2. CASE StopWaiting
    <3>1. agent.at = "wait" /\ agent'.at = "decide" /\ UNCHANGED envelopes
      BY <1>1, <2>2 DEF StopWaiting, Agents
    <3>2. agent'.late \/ response[agent.q] \in Decisions
      BY <1>1, <2>2 DEF StopWaiting, Agents
    <3> QED
      BY <1>1, <3>1, <3>2 DEF ChannelsFit, RowOf, AskedAt, Quiet, NoRowAsks
  <2> QED
    BY <2>1, <2>2
<1> QED
  BY <1>4, <1>5, <1>6 DEF ChannelsInStep

LEMMA ReturnInStep ==
  ASSUME TypeOK, ChannelsInStep, AgentReturns
  PROVE  ChannelsInStep'
<1>1. UNCHANGED <<events, faulted, response, join>>
  BY DEF AgentReturns, AgentOnly, uiVars
<1>2. agent'.at = "done" /\ agent'.q = None
  BY DEF AgentReturns, NoAgent
<1>3. RowsFollow'
  BY <1>1, <1>2 DEF ChannelsInStep, RowsFollow, AskedAt, InAsking, Halves, Done
<1>4. AskedOnce'
  BY <1>1, <1>2 DEF ChannelsInStep, AskedOnce, AskedAt, Halves
<1>5. ChannelsFit'
  BY <1>1, <1>2 DEF ChannelsInStep, ChannelsFit, RowOf, AskedAt
<1> QED
  BY <1>3, <1>4, <1>5 DEF ChannelsInStep

LEMMA BeginInStep ==
  ASSUME TypeOK, join = EmptyJoin, events = <<>>, envelopes = <<>>, agent'.at = "start",
         agent'.q = None, ~agent'.late, UNCHANGED <<events, envelopes, join, faulted>>
  PROVE  ChannelsInStep'
<1>1. /\ join'.asked = None /\ join'.envelope = None /\ join'.active = None
      /\ join'.awaiting = None /\ join'.decided = {} /\ ~join'.ended /\ Halves' = {}
  BY DEF EmptyJoin, Halves
<1>2. DOMAIN events' = {} /\ events' = <<>> /\ envelopes' = <<>>
  OBVIOUS
<1>3. RowsFollow'
  BY <1>1, <1>2 DEF RowsFollow, AskedAt
<1>4. AskedOnce'
  BY <1>1, <1>2 DEF AskedOnce, AskedAt
<1>5. ChannelsFit'
  BY <1>1, <1>2 DEF ChannelsFit, Quiet, NoRowAsks
<1> QED
  BY <1>3, <1>4, <1>5 DEF ChannelsInStep

\* An envelope moves the halves of a question together, or is dropped.
LEMMA EnvelopeIs ==
  ASSUME TypeOK, Envelope, stop' = None
  PROVE  LET q == Head(envelopes) IN
         /\ envelopes # <<>> /\ q \in AllQuestions /\ envelopes' = Tail(envelopes)
         /\ UNCHANGED <<agent, events, faulted, response>>
         /\ join'.awaiting = join.awaiting /\ join'.decided = join.decided
         /\ join'.ended = join.ended
         /\ \/ UNCHANGED join
            \/ /\ agent.at = "wait" /\ agent.q = q /\ ~join.ended /\ join.active = None
               /\ join.asked = None
               /\ join'.asked = None /\ join'.envelope = q /\ join'.active = None
            \/ /\ agent.at = "wait" /\ agent.q = q /\ ~join.ended /\ join.active = None
               /\ join.asked = q
               /\ join'.asked = None /\ join'.envelope = None /\ join'.active = q
<1> DEFINE q == Head(envelopes)
           j == [join EXCEPT !.envelope = q]
<1>1. /\ envelopes # <<>> /\ envelopes' = Tail(envelopes)
      /\ UNCHANGED <<agent, events, faulted, response>>
  BY DEF Envelope, agentVars
<1>2. q \in AllQuestions /\ join \in Joins
  BY <1>1 DEF TypeOK
<1>3. stop \in Stops
  BY DEF TypeOK
<1>4. CanReceive(join, q) /\ join' = IF Ignores(join, q) THEN join ELSE Joined(j)
  BY <1>3, ObservedFailure DEF Envelope, Broken, Fail
<1>5. CASE Ignores(join, q)
  BY <1>1, <1>2, <1>4, <1>5
<1>6. CASE ~Ignores(join, q)
  <2>1. ~join.ended /\ agent.at = "wait" /\ agent.q = q /\ join.active = None
        /\ join' = Joined(j) /\ Fits(j)
    BY <1>4, <1>6 DEF Ignores, ResponseClosed, CanReceive
  <2>2. /\ j \in Joins /\ j.envelope = q /\ j.asked = join.asked /\ j.active = join.active
        /\ j.awaiting = join.awaiting /\ j.decided = join.decided /\ j.ended = join.ended
    BY <1>2, HalfIs
  <2>3. q # None
    BY <1>2, QuestionNames DEF AllQuestions, None
  <2> HIDE DEF q, j
  <2>4. /\ Joined(j).decided = j.decided /\ Joined(j).ended = j.ended
        /\ Joined(j).awaiting = j.awaiting
        /\ IF j.asked = None \/ j.envelope = None THEN Joined(j) = j
           ELSE Joined(j).asked = None /\ Joined(j).envelope = None /\ Joined(j).active = j.asked
    BY <2>2, JoinedIs
  <2>5. join.asked = None \/ join.asked = q
    BY <2>1, <2>2, <2>3 DEF Fits
  <2> QED
    BY <1>1, <1>2, <2>1, <2>2, <2>3, <2>4, <2>5 DEF q
<1> QED
  BY <1>5, <1>6

LEMMA EnvelopeInStep ==
  ASSUME TypeOK, ChannelsInStep, Envelope, stop' = None
  PROVE  ChannelsInStep'
<1> DEFINE q == Head(envelopes)
<1>1. /\ envelopes # <<>> /\ q \in AllQuestions /\ envelopes' = Tail(envelopes)
      /\ UNCHANGED <<agent, events, faulted, response>>
      /\ join'.awaiting = join.awaiting /\ join'.decided = join.decided
      /\ join'.ended = join.ended
      /\ \/ UNCHANGED join
         \/ /\ agent.at = "wait" /\ agent.q = q /\ ~join.ended /\ join.active = None
            /\ join.asked = None
            /\ join'.asked = None /\ join'.envelope = q /\ join'.active = None
         \/ /\ agent.at = "wait" /\ agent.q = q /\ ~join.ended /\ join.active = None
            /\ join.asked = q
            /\ join'.asked = None /\ join'.envelope = None /\ join'.active = q
  BY EnvelopeIs
<1>2. q # None
  BY <1>1, QuestionNames DEF AllQuestions, None
<1> HIDE DEF q
<1>3. Halves' = Halves
  BY <1>1, <1>2 DEF Halves
<1>4. RowsFollow'
  BY <1>1, <1>3 DEF ChannelsInStep, RowsFollow, AskedAt, InAsking, Done
<1>5. AskedOnce'
  BY <1>1, <1>3 DEF ChannelsInStep, AskedOnce, AskedAt
<1>7. join'.active # None => join'.asked = None /\ join'.envelope = None
  BY <1>1 DEF ChannelsInStep, ChannelsFit
<1>8. join'.envelope # None => RowOf(join.envelope)'
  <2>1. CASE UNCHANGED join
    BY <1>1, <2>1 DEF ChannelsInStep, ChannelsFit, RowOf, AskedAt
  <2>2. CASE agent.at = "wait" /\ agent.q = q /\ join.active = None /\ join.asked = None /\ join'.envelope = q
             /\ ~UNCHANGED join
    <3>1. RowOf(q) \/ q \in Halves
      BY <2>2 DEF ChannelsInStep, ChannelsFit
    <3>2. q # join.awaiting
      BY <2>2 DEF Envelope, Ignores, Broken, Fail, q
    <3> QED
      BY <1>1, <2>2, <3>1, <3>2 DEF Halves, RowOf, AskedAt
  <2> QED
    BY <1>1, <2>1, <2>2
<1>9. Len(envelopes) # 0 /\ envelopes \in Seq(AllQuestions)
  BY <1>1 DEF TypeOK
<1>10. agent.at = "wait" => envelopes' = <<>> /\ ~faulted /\ Only(agent.q)' /\ agent.q = q
                            /\ response[agent.q] \notin Decisions
  <2> SUFFICES ASSUME agent.at = "wait"
               PROVE  envelopes' = <<>> /\ ~faulted /\ Only(agent.q)' /\ agent.q = q
                      /\ response[agent.q] \notin Decisions
    OBVIOUS
  <2>1. envelopes = <<agent.q>> /\ ~faulted /\ Only(agent.q)
    BY <1>1 DEF ChannelsInStep, ChannelsFit
  <2>2. envelopes' = <<>> /\ agent.q = q
    BY <1>1, <2>1 DEF q
  <2>3. response[agent.q] \notin Decisions
    BY <1>1 DEF ChannelsInStep, ChannelsFit, Quiet
  <2> QED
    BY <1>1, <2>1, <2>2, <2>3 DEF Only, AskedAt
<1>11. agent.at # "wait" => UNCHANGED join
  BY <1>1
<1>12. ~agent.late /\ ~faulted /\ agent.at \in {"start", "run", "decide"} => FALSE
  BY <1>1 DEF ChannelsInStep, ChannelsFit, Quiet
<1>13. agent.at = "ask" /\ ~faulted => FALSE
  BY <1>1 DEF ChannelsInStep, ChannelsFit
<1>14. /\ agent.at \in {"ask", "wait"} => ~agent.late
       /\ agent.at = "ask" => response[agent.q] \notin Decisions
       /\ agent.at = "wait" => RowOf(agent.q) \/ agent.q \in Halves
  BY DEF ChannelsInStep, ChannelsFit
<1>15. ChannelsFit'
  BY <1>1, <1>3, <1>7, <1>8, <1>10, <1>12, <1>13, <1>14 DEF ChannelsFit, RowOf, AskedAt
<1> QED
  BY <1>4, <1>5, <1>15 DEF ChannelsInStep

\* The answer to the question that is active; it is heard by an agent that waits for it.
LEMMA AnswerInStep ==
  ASSUME TypeOK, ChannelsInStep, join.active # None, NEW c \in Decisions, Answer(c),
         UNCHANGED <<agent, events, faulted, envelopes>>
  PROVE  ChannelsInStep'
<1> DEFINE q == join.active
<1>1. q \in AllQuestions /\ join \in Joins /\ q # None
  BY DEF TypeOK, Joins, SomeQuestion
<1>2. /\ join'.active = None /\ join'.awaiting = q
      /\ join'.asked = join.asked /\ join'.envelope = join.envelope
      /\ join'.decided = join.decided /\ join'.ended = join.ended
  BY <1>1, AnsweredIs DEF Answer
<1>3. join.asked = None /\ join.envelope = None
  BY DEF ChannelsInStep, ChannelsFit
<1>4. Halves' \subseteq Halves /\ q \in Halves /\ q \in Halves'
  BY <1>1, <1>2, <1>3 DEF Halves
<1>5. response' = [response EXCEPT ![q] = IF ResponseClosed(q) THEN @ ELSE c]
  BY DEF Answer
<1> HIDE DEF q
<1>6. /\ \A x \in AllQuestions : response[x] # None => response'[x] # None
      /\ ResponseClosed(q) => UNCHANGED response
      /\ \A x \in AllQuestions : x # q => response'[x] = response[x]
  BY <1>1, <1>5 DEF TypeOK, Decisions, None
<1>7. RowsFollow'
  BY <1>2, <1>4 DEF ChannelsInStep, RowsFollow, AskedAt, InAsking, Done
<1>8. \A x : RowOf(x)' <=> RowOf(x)
  BY DEF RowOf, AskedAt
<1>9. AskedOnce'
  <2>1. ASSUME NEW i \in DOMAIN events, events[i].q # None PROVE events[i].q \in AllQuestions
    <3>1. events[i] \in Rows
      BY DEF TypeOK
    <3> QED
      BY <2>1, <3>1 DEF Rows, SomeQuestion
  <2>2. join.decided \subseteq AllQuestions /\ Halves \subseteq AllQuestions
    BY DEF TypeOK, Joins, Halves, SomeQuestion
  <2>3. agent.q # None => agent.q \in AllQuestions
    BY DEF TypeOK, Agents, SomeQuestion
  <2> QED
    BY <1>2, <1>4, <1>6, <2>1, <2>2, <2>3 DEF ChannelsInStep, AskedOnce, AskedAt
<1>10. ~(~agent.late /\ ~faulted /\ agent.at \in {"start", "run", "decide"})
  BY <1>1 DEF ChannelsInStep, ChannelsFit, Quiet, q
<1>11. ~(agent.at = "ask" /\ ~faulted)
  BY <1>1 DEF ChannelsInStep, ChannelsFit, Unseen, q
<1>12. agent.at = "ask" => response'[agent.q] \notin Decisions /\ ~agent.late
  BY <1>6 DEF ChannelsInStep, ChannelsFit, ResponseClosed
<1>13. agent.at = "wait" => /\ ~faulted /\ ~agent.late /\ agent.q = q /\ Only(agent.q)' /\ Quiet'
  <2> SUFFICES ASSUME agent.at = "wait"
               PROVE  /\ ~faulted /\ ~agent.late /\ agent.q = q /\ Only(agent.q)' /\ Quiet'
    OBVIOUS
  <2>1. ~faulted /\ ~agent.late /\ Only(agent.q) /\ (envelopes # <<>> => Unseen)
    BY DEF ChannelsInStep, ChannelsFit
  <2>2. agent.q = q
    BY <1>1, <2>1 DEF Only, q
  <2>3. envelopes = <<>>
    BY <1>1, <2>1 DEF Unseen, q
  <2>4. NoRowAsks
    BY <1>4, <2>1, <2>2 DEF NoRowAsks, Only, ChannelsInStep, AskedOnce, AskedAt
  <2> QED
    BY <1>2, <1>3, <2>1, <2>2, <2>3, <2>4 DEF Only, Quiet, NoRowAsks, AskedAt
<1>14. ChannelsFit'
  BY <1>2, <1>3, <1>4, <1>8, <1>10, <1>11, <1>12, <1>13 DEF ChannelsFit, Quiet, Unseen
<1> QED
  BY <1>7, <1>9, <1>14 DEF ChannelsInStep

\* A row that is taken in, and what it does to the join.
LEMMA RowIs ==
  ASSUME TypeOK, ChannelsInStep, Event, stop' = None
  PROVE  LET q == events[1].q IN
         /\ Shorter /\ frame = NoFrame /\ Process(events[1])
         /\ UNCHANGED <<agent, faulted, envelopes, response>> /\ join \in Joins
         /\ ~join.ended
         /\ \/ events[1].kind = "prompt" /\ UNCHANGED join
            \/ /\ events[1].kind = "asked" /\ q \in AllQuestions /\ q \notin join.decided
               /\ join.asked = None /\ join.active = None /\ join.awaiting = None
               /\ join.envelope \in {None, q}
               /\ join'.asked = (IF join.envelope = None THEN q ELSE None)
               /\ join'.active = (IF join.envelope = None THEN None ELSE q)
               /\ join'.envelope = None /\ join'.awaiting = None
               /\ join'.decided = join.decided /\ ~join'.ended
            \/ /\ events[1].kind = "decided" /\ q \in AllQuestions
               /\ {join.active, join.asked, join.awaiting} \subseteq {None, q}
               /\ join'.active = None /\ join'.asked = None /\ join'.awaiting = None
               /\ join'.envelope = (IF join.envelope = q THEN None ELSE join.envelope)
               /\ join'.decided = join.decided \cup {q} /\ ~join'.ended
            \/ /\ events[1].kind = "turnEnd" /\ join'.ended
               /\ join'.asked = join.asked /\ join'.active = join.active
               /\ join'.awaiting = join.awaiting /\ join'.envelope = join.envelope
               /\ join'.decided = join.decided
<1> DEFINE row == events[1]
           q == row.q
           j == [join EXCEPT !.asked = q]
<1>1. /\ events # <<>> /\ events' = Tail(events) /\ frame = NoFrame
      /\ UNCHANGED <<agent, faulted, envelopes, response>> /\ join \in Joins
  BY DEF Event, TypeOK
<1>2. Head(events) = row /\ row \in Rows /\ (row.kind \in {"asked", "decided"} => q \in AllQuestions)
  BY <1>1, HeadTyped
<1>3. CanProcess(row) /\ Process(row)
  <2>1. stop \in Stops
    BY DEF TypeOK
  <2> QED
    BY <1>2, <2>1, ObservedFailure DEF Event, Broken, Fail
<1>4. Shorter
  BY <1>1, ShorterIs
<1>5. ~join.ended
  BY <1>1 DEF ChannelsInStep, RowsFollow
<1> HIDE DEF row
<1>6. \/ row.kind = "prompt" /\ UNCHANGED join
      \/ row.kind = "asked" /\ join' = Joined(j)
      \/ row.kind = "decided" /\ join' = AfterDecided(join, q)
      \/ row.kind = "turnEnd" /\ join' = [join EXCEPT !.ended = TRUE]
  BY <1>2, <1>3, ProcessIs
<1>7. CASE row.kind = "asked" /\ join' = Joined(j)
  <2>1. q \in AllQuestions /\ q # None
    BY <1>2, <1>7, QuestionNames DEF AllQuestions, None
  <2>2. q \notin join.decided /\ {join.asked, join.active, join.awaiting} = {None} /\ Fits(j)
    BY <1>3, <1>7 DEF CanProcess, CanAsk
  <2>3. /\ j \in Joins /\ j.asked = q /\ j.envelope = join.envelope /\ j.active = join.active
        /\ j.awaiting = join.awaiting /\ j.decided = join.decided /\ j.ended = join.ended
    BY <1>1, <2>1, HalfIs
  <2> HIDE DEF j
  <2>4. join.envelope \in {None, q}
    BY <2>1, <2>2, <2>3 DEF Fits
  <2>5. /\ Joined(j).decided = j.decided /\ Joined(j).ended = j.ended
        /\ Joined(j).awaiting = j.awaiting
        /\ IF j.asked = None \/ j.envelope = None THEN Joined(j) = j
           ELSE Joined(j).asked = None /\ Joined(j).envelope = None /\ Joined(j).active = j.asked
    BY <2>3, JoinedIs
  <2>6. join.asked = None /\ join.active = None /\ join.awaiting = None
    BY <2>2
  <2> HIDE DEF q
  <2> QED
    BY <1>1, <1>3, <1>4, <1>5, <1>7, <2>1, <2>2, <2>3, <2>4, <2>5, <2>6 DEF q, row
<1>8. CASE row.kind = "decided" /\ join' = AfterDecided(join, q)
  <2>1. q \in AllQuestions /\ CanDecide(join, q)
    BY <1>2, <1>3, <1>8 DEF CanProcess
  <2>2. /\ join'.asked = Without(q, join.asked)
        /\ join'.envelope = Without(q, join.envelope)
        /\ join'.active = Without(q, join.active)
        /\ join'.awaiting = Without(q, join.awaiting)
        /\ join'.decided = join.decided \cup {q}
        /\ join'.ended = join.ended
    BY <1>1, <1>8, <2>1, DecidedIs
  <2> QED
    BY <1>1, <1>3, <1>4, <1>5, <1>8, <2>1, <2>2 DEF CanDecide, Without, row
<1>9. CASE row.kind = "turnEnd" /\ join' = [join EXCEPT !.ended = TRUE]
  BY <1>1, <1>3, <1>4, <1>5, <1>9, EndedIs DEF row
<1>10. CASE row.kind = "prompt" /\ UNCHANGED join
  BY <1>1, <1>3, <1>4, <1>5, <1>10 DEF row
<1> QED
  BY <1>6, <1>7, <1>8, <1>9, <1>10

\* The halves the join holds afterwards.
LEMMA HalvesThen ==
  ASSUME TypeOK, ChannelsInStep, Event, stop' = None
  PROVE  /\ events[1].kind = "prompt" => Halves = {} /\ Halves' = {}
         /\ events[1].kind = "asked" => Halves = {} /\ Halves' = {events[1].q}
         /\ events[1].kind = "decided" => Halves \subseteq {events[1].q} /\ Halves' = {}
         /\ events[1].kind = "turnEnd" => Halves = {} /\ Halves' = {}
<1>1. events # <<>>
  BY DEF Event
<1>2. events[1].kind # "decided" => Halves = {}
  BY <1>1 DEF ChannelsInStep, RowsFollow
<1>3. CASE events[1].kind = "asked"
  <2>1. events[1].q # None
    BY <1>3, RowIs, QuestionNames DEF AllQuestions, None
  <2> QED
    BY <1>2, <1>3, <2>1, RowIs DEF Halves
<1>4. CASE events[1].kind = "decided"
  BY <1>4, RowIs DEF Halves
<1>5. CASE events[1].kind \in {"prompt", "turnEnd"}
  BY <1>2, <1>5, RowIs DEF Halves
<1> QED
  BY <1>3, <1>4, <1>5, RowIs

LEMMA EventRows ==
  ASSUME TypeOK, ChannelsInStep, Event, stop' = None
  PROVE  RowsFollow'
<1>1. Shorter /\ UNCHANGED <<agent, faulted>>
  BY RowIs
<1>2. events[1].kind \in {"prompt", "asked", "decided", "turnEnd"}
  BY RowIs
<1>3. RowsFollow
  BY DEF ChannelsInStep
<1>4. \A i \in DOMAIN events' : i + 1 \in DOMAIN events /\ events'[i] = events[i + 1]
      /\ (i < Len(events') <=> i + 1 < Len(events)) /\ (i = Len(events') <=> i + 1 = Len(events))
  BY <1>1 DEF Shorter
<1>5. ASSUME NEW i \in DOMAIN events', events'[i].kind = "turnEnd"
      PROVE  i = Len(events') /\ agent'.at \in {"end", "done"}
  BY <1>1, <1>3, <1>4, <1>5 DEF RowsFollow
<1>6. ASSUME NEW i \in DOMAIN events', AskedAt(i)', i < Len(events')
      PROVE  events'[i + 1].kind = "decided" /\ events'[i + 1].q = events'[i].q
  <2>1. i + 1 \in DOMAIN events /\ AskedAt(i + 1) /\ i + 1 < Len(events) /\ i + 1 \in DOMAIN events'
    BY <1>1, <1>4, <1>6 DEF Shorter, AskedAt
  <2>2. events[i + 1 + 1].kind = "decided" /\ events[i + 1 + 1].q = events[i + 1].q
    BY <1>3, <2>1 DEF RowsFollow
  <2> QED
    BY <1>4, <2>1, <2>2
<1>7. ASSUME events' # <<>>, events'[Len(events')].kind = "asked"
      PROVE  (faulted' \/ agent'.at = "done"
                \/ (agent'.at \in Asking /\ agent'.q = events'[Len(events')].q))
  <2>1. Len(events') \in DOMAIN events' /\ Len(events) \in DOMAIN events
        /\ events'[Len(events')] = events[Len(events)]
    BY <1>1, <1>7 DEF Shorter
  <2>2. InAsking(events[Len(events)].q)
    BY <1>3, <1>7, <2>1 DEF RowsFollow, AskedAt
  <2> QED
    BY <1>1, <2>1, <2>2 DEF InAsking, Done
<1>8. ASSUME NEW h \in Halves'
      PROVE  IF events' = <<>>
             THEN faulted' \/ agent'.at = "done" \/ (agent'.at \in Asking /\ agent'.q = h)
             ELSE events'[1].kind = "decided" /\ events'[1].q = h
  <2>1. events[1].kind = "asked" /\ h = events[1].q
    BY <1>2, <1>8, HalvesThen
  <2>2. CASE events' = <<>>
    <3>1. Len(events) = 1 /\ AskedAt(1) /\ events # <<>>
      BY <1>1, <2>1, <2>2 DEF Shorter, AskedAt
    <3>2. InAsking(h)
      BY <1>3, <2>1, <3>1 DEF RowsFollow
    <3> QED
      BY <1>1, <2>2, <3>2 DEF InAsking, Done
  <2>3. CASE events' # <<>>
    <3>1. 1 \in DOMAIN events /\ 1 \in DOMAIN events' /\ 1 < Len(events) /\ events'[1] = events[1 + 1]
      BY <1>1, <2>3 DEF Shorter
    <3>2. events[1 + 1].kind = "decided" /\ events[1 + 1].q = h
      BY <1>3, <2>1, <3>1 DEF RowsFollow, AskedAt
    <3> QED
      BY <2>3, <3>1, <3>2
  <2> QED
    BY <2>2, <2>3
<1>9. join'.ended => events' = <<>> /\ Halves' = {} /\ agent'.at \in {"end", "done"}
  <2>1. join'.ended => events[1].kind = "turnEnd"
    BY RowIs
  <2>2. events[1].kind = "turnEnd" => Len(events) = 1 /\ agent.at \in {"end", "done"}
    <3>1. 1 \in DOMAIN events
      BY <1>1 DEF Shorter
    <3> QED
      BY <1>3, <3>1 DEF RowsFollow
  <2> QED
    BY <1>1, <2>1, <2>2, HalvesThen DEF Shorter
<1> QED
  BY <1>5, <1>6, <1>7, <1>8, <1>9 DEF RowsFollow, AskedAt, InAsking, Done

LEMMA EventOnce ==
  ASSUME TypeOK, ChannelsInStep, Event, stop' = None
  PROVE  AskedOnce'
<1>1. Shorter /\ UNCHANGED <<agent, faulted, response>>
  BY RowIs
<1>2. AskedOnce
  BY DEF ChannelsInStep
<1>3. \A i \in DOMAIN events' : i + 1 \in DOMAIN events /\ events'[i] = events[i + 1] /\ 1 < i + 1
  BY <1>1 DEF Shorter
<1>4. 1 \in DOMAIN events
  BY <1>1 DEF Shorter
<1> DEFINE q == events[1].q
<1>5. events[1].kind \in {"asked", "decided"} => q \in AllQuestions /\ q # None
  BY RowIs, QuestionNames DEF AllQuestions, None
<1>6. join'.decided \cup Halves' \subseteq join.decided \cup Halves \cup
        (IF events[1].kind \in {"asked", "decided"} THEN {q} ELSE {})
  BY RowIs, HalvesThen
<1>7. \A x \in join'.decided \cup Halves' : response'[x] # None
  BY <1>1, <1>2, <1>4, <1>5, <1>6 DEF AskedOnce
<1>8. ASSUME NEW i \in DOMAIN events', AskedAt(i)' PROVE events'[i].q \notin join'.decided \cup Halves'
  <2>1. AskedAt(i + 1) /\ events'[i] = events[i + 1] /\ i + 1 \in DOMAIN events
    BY <1>3, <1>8 DEF AskedAt
  <2>2. events[i + 1].q # q
    BY <1>2, <1>3, <1>4, <2>1 DEF AskedOnce
  <2> QED
    BY <1>2, <1>6, <2>1, <2>2 DEF AskedOnce
<1>9. ASSUME NEW i \in DOMAIN events', NEW k \in DOMAIN events', AskedAt(k)'
      PROVE  /\ AskedAt(i)' => i = k
             /\ i < k => events'[i].q # events'[k].q
  <2>1. AskedAt(k + 1) /\ i + 1 \in DOMAIN events /\ k + 1 \in DOMAIN events /\ i \in Nat /\ k \in Nat
        /\ events'[i] = events[i + 1] /\ events'[k] = events[k + 1]
    BY <1>1, <1>3, <1>9 DEF AskedAt, Shorter
  <2>2. AskedAt(i)' => AskedAt(i + 1)
    BY <2>1 DEF AskedAt
  <2>3. AskedAt(i)' => i + 1 = k + 1
    BY <1>2, <2>1, <2>2 DEF AskedOnce
  <2>4. i + 1 < k + 1 => events[i + 1].q # events[k + 1].q
    BY <1>2, <2>1 DEF AskedOnce
  <2> QED
    BY <2>1, <2>3, <2>4
<1>10. ASSUME NEW i \in DOMAIN events'
       PROVE  /\ events'[i].q # None => response'[events'[i].q] # None
              /\ agent'.at \in {"ask", "wait"} /\ events'[i].kind = "decided" => events'[i].q # agent'.q
  BY <1>1, <1>2, <1>3 DEF AskedOnce
<1>11. agent'.q # None => response'[agent'.q] # None
  BY <1>1, <1>2 DEF AskedOnce
<1> QED
  BY <1>7, <1>8, <1>9, <1>10, <1>11 DEF AskedOnce

LEMMA EventFit ==
  ASSUME TypeOK, ChannelsInStep, Event, stop' = None
  PROVE  ChannelsFit'
<1> DEFINE q == events[1].q
<1>1. Shorter /\ UNCHANGED <<agent, faulted, response, envelopes>> /\ 1 \in DOMAIN events
      /\ events # <<>>
  BY RowIs DEF Shorter, Event
<1>2. ChannelsFit /\ AskedOnce /\ RowsFollow
  BY DEF ChannelsInStep
<1>3. \A i \in DOMAIN events' : i + 1 \in DOMAIN events /\ events'[i] = events[i + 1]
  BY <1>1 DEF Shorter
<1>4. ASSUME NEW x, RowOf(x), events[1].kind # "asked" PROVE RowOf(x)'
  <2>1. PICK k \in DOMAIN events : AskedAt(k) /\ events[k].q = x
    BY <1>4 DEF RowOf
  <2>2. k # 1 /\ k \in Nat /\ k - 1 \in DOMAIN events' /\ events'[k - 1] = events[k]
    BY <1>1, <1>4, <2>1 DEF AskedAt, Shorter
  <2> QED
    BY <2>1, <2>2 DEF RowOf, AskedAt
<1>5. NoRowAsks => NoRowAsks' /\ events[1].kind # "asked"
  BY <1>1, <1>3 DEF NoRowAsks, AskedAt
<1>6. ASSUME NEW x, \A i \in DOMAIN events : AskedAt(i) => events[i].q = x
      PROVE  \A i \in DOMAIN events' : AskedAt(i)' => events'[i].q = x
  BY <1>3, <1>6 DEF AskedAt
<1>7. events[1].kind = "asked" => AskedAt(1)
  BY <1>1 DEF AskedAt
<1>8. CASE events[1].kind = "asked"
  <2>1. /\ q \in AllQuestions /\ q # None /\ join.envelope \in {None, q}
        /\ join'.asked = (IF join.envelope = None THEN q ELSE None)
        /\ join'.active = (IF join.envelope = None THEN None ELSE q)
        /\ join'.envelope = None
    BY <1>8, RowIs, QuestionNames DEF AllQuestions, None
  <2>2. q \in Halves' /\ ~NoRowAsks /\ ~Quiet
    BY <1>1, <1>7, <1>8, HalvesThen DEF NoRowAsks, Quiet
  <2>3. \A x : Only(x) => x = q
    BY <1>1, <1>7, <1>8 DEF Only
  <2>4. Only(agent.q) => Only(agent.q)'
    BY <1>1, <1>6, <2>1, <2>3 DEF Only
  <2>5. Unseen => Unseen'
    BY <2>1 DEF Unseen
  <2>6. agent.at = "ask" /\ ~faulted => envelopes = <<>> /\ Unseen /\ Only(agent.q)
    BY <1>2 DEF ChannelsFit
  <2>7. agent.at = "wait" => /\ ~faulted /\ Only(agent.q) /\ response[agent.q] \notin Decisions
                             /\ envelopes # <<>> => envelopes = <<agent.q>> /\ Unseen
    BY <1>2, <2>2 DEF ChannelsFit
  <2>8. ~(~agent.late /\ ~faulted /\ agent.at \in {"start", "run", "decide"})
    BY <1>2, <2>2 DEF ChannelsFit
  <2>9. /\ agent.at \in {"ask", "wait"} => ~agent.late
        /\ agent.at = "ask" => response[agent.q] \notin Decisions
    BY <1>2 DEF ChannelsFit
  <2> HIDE DEF q
  <2> QED
    BY <1>1, <2>1, <2>2, <2>3, <2>4, <2>5, <2>6, <2>7, <2>8, <2>9 DEF ChannelsFit
<1>9. CASE events[1].kind # "asked"
  <2>1. /\ join'.asked \in {None, join.asked} /\ join'.active \in {None, join.active}
        /\ join'.envelope \in {None, join.envelope}
    BY <1>9, RowIs
  <2>2. \A x : Only(x) => Only(x)'
    BY <1>6, <2>1 DEF Only
  <2>3. (Quiet => Quiet') /\ (Unseen => Unseen')
    BY <1>1, <1>5, <2>1 DEF Quiet, Unseen
  <2>4. join'.envelope # None => RowOf(join.envelope)'
    <3>1. ASSUME join'.envelope # None PROVE RowOf(join.envelope) /\ join'.envelope = join.envelope
      BY <1>2, <2>1, <3>1 DEF ChannelsFit
    <3>2. ASSUME join'.envelope # None PROVE \E i \in DOMAIN events' : AskedAt(i)' /\ events'[i].q = join.envelope
      BY <1>4, <1>9, <3>1, <3>2 DEF RowOf
    <3> QED
      BY <3>1, <3>2 DEF RowOf
  <2>5. join'.active # None => join'.asked = None /\ join'.envelope = None
    BY <1>2, <2>1 DEF ChannelsFit
  <2>6. ASSUME agent.at \in {"ask", "wait"}, RowOf(agent.q) \/ agent.q \in Halves
        PROVE  RowOf(agent.q)'
    <3>1. agent.q \notin Halves
      BY <1>1, <1>2, <2>6 DEF RowsFollow, AskedOnce
    <3> QED
      BY <1>1, <1>4, <1>9, <2>6, <3>1 DEF RowOf
  <2>7. Only(agent.q) => Only(agent.q)'
    BY <1>1, <1>6, <2>1 DEF Only
  <2>8. CASE agent.at = "wait"
    <3>1. /\ ~faulted /\ Only(agent.q) /\ ~agent.late
          /\ RowOf(agent.q) \/ agent.q \in Halves
          /\ response[agent.q] \in Decisions => Quiet
          /\ envelopes # <<>> => envelopes = <<agent.q>> /\ Unseen
      BY <1>2, <2>8 DEF ChannelsFit
    <3>2. RowOf(agent.q)'
      BY <2>6, <2>8, <3>1
    <3> QED
      BY <1>1, <2>3, <2>4, <2>5, <2>7, <2>8, <3>1, <3>2 DEF ChannelsFit
  <2>9. CASE agent.at = "ask"
    <3>1. /\ ~agent.late /\ response[agent.q] \notin Decisions
          /\ ~faulted => /\ envelopes = <<>> /\ Unseen /\ Only(agent.q)
                         /\ RowOf(agent.q) \/ agent.q \in Halves
      BY <1>2, <2>9 DEF ChannelsFit
    <3>2. ~faulted => RowOf(agent.q)'
      BY <2>6, <2>9, <3>1
    <3> QED
      BY <1>1, <2>3, <2>4, <2>5, <2>7, <2>9, <3>1, <3>2 DEF ChannelsFit
  <2>10. CASE agent.at \notin {"ask", "wait"}
    <3>1. ~agent.late /\ ~faulted /\ agent.at \in {"start", "run", "decide"} => Quiet
      BY <1>2 DEF ChannelsFit
    <3> QED
      BY <1>1, <2>3, <2>4, <2>5, <2>10, <3>1 DEF ChannelsFit
  <2> QED
    BY <2>8, <2>9, <2>10
<1> QED
  BY <1>8, <1>9

LEMMA ReadInStep ==
  ASSUME TypeOK, ChannelsInStep, Read \/ EscapeExpires, stop' = None
  PROVE  ChannelsInStep'
<1>1. UNCHANGED <<agent, events, faulted, envelopes>>
  BY DEF Read, EscapeExpires, Worked, UiOnly
<1>2. stop \in Stops
  BY DEF TypeOK
<1>3. ~Broken
  BY <1>2, ObservedFailure DEF Broken, Fail
<1>4. UNCHANGED <<response, join>> \/ (join.active # None /\ \E c \in Decisions : Answer(c))
  <2>1. CASE EscapeExpires
    BY <1>3, <2>1 DEF EscapeExpires, Decisions
  <2>2. CASE Read
    <3>1. UNCHANGED <<response, join>> \/ \E keys : Feed(keys)
      BY <2>2, ReadIs
    <3>2. ASSUME NEW keys, Feed(keys)
          PROVE  UNCHANGED <<response, join>> \/ (join.active # None /\ \E c \in Decisions : Answer(c))
      BY <1>3, <3>2, FeedIs
    <3> QED
      BY <3>1, <3>2
  <2> QED
    BY <2>1, <2>2
<1>5. CASE UNCHANGED <<response, join>>
  BY <1>1, <1>5 DEF ChannelsInStep, RowsFollow, AskedOnce, ChannelsFit, AskedAt, InAsking, Done,
                    Halves, RowOf, Quiet, NoRowAsks, Only, Unseen
<1> QED
  BY <1>1, <1>4, <1>5, AnswerInStep

LEMMA ChannelsStep ==
  ASSUME TypeOK, StopFits, Live => ChannelsInStep,
         AfterReset => join = EmptyJoin /\ events = <<>> /\ envelopes = <<>>,
         Next, Live'
  PROVE  ChannelsInStep'
<1>1. CASE ~InTurn
  <2>1. InTurn' /\ stop' = None
    BY DEF Live
  <2>2. BeginTurn /\ AfterReset /\ pc' = "top" /\ agent'.at = "start" /\ agent'.q = None
        /\ ~agent'.late
    BY <1>1, <2>1, OutOfTurn DEF AfterReset, InTurn
  <2>3. UNCHANGED <<events, envelopes, join, faulted>>
    BY <2>2 DEF BeginTurn
  <2> QED
    BY <2>2, <2>3, BeginInStep
<1>2. CASE InTurn
  <2>1. stop = None
    <3>1. history.exit # None <=> stop \in Terminating
      BY <1>2 DEF StopFits
    <3> QED
      BY <1>2, <3>1, TurnHears, HeardIs DEF Live
  <2>2. ChannelsInStep /\ stop' = None
    BY <1>2, <2>1 DEF Live
  <2>3. CASE SendEnvelope \/ StopWaiting
    <3>1. ~cancelled
      <4>1. pc = "select" /\ ~Done
        BY <2>3 DEF SendEnvelope, StopWaiting, Polled, Done
      <4> QED
        BY <2>1, <4>1 DEF StopFits
    <3> QED
      BY <2>2, <2>3, <3>1, WaitingInStep
  <2>4. CASE CommitPrompt \/ Ask \/ CommitDecision \/ CommitTurnEnd
    BY <2>2, <2>4, CommitsInStep
  <2>5. CASE AgentReturns
    BY <2>2, <2>5, ReturnInStep
  <2>6. CASE Envelope
    BY <2>2, <2>6, EnvelopeInStep
  <2>7. CASE Event
    BY <2>2, <2>7, EventRows, EventOnce, EventFit DEF ChannelsInStep
  <2>8. CASE Read \/ EscapeExpires
    BY <2>2, <2>8, ReadInStep
  <2>9. CASE BeginTurn
    BY <1>2, <2>9 DEF BeginTurn, InTurn
  <2>10. CASE Reset
    <3>1. pc' \in {"shutdown", "settle", "stopped", "suspended"}
      BY <2>10, ResetIs DEF Going
    <3> QED
      BY <3>1 DEF Live, InTurn
  <2>11. CASE UNCHANGED <<agent, events, faulted, envelopes, response, join>>
    BY <2>2, <2>11 DEF ChannelsInStep, RowsFollow, AskedOnce, ChannelsFit, AskedAt, InAsking, Done,
                       Halves, RowOf, Quiet, NoRowAsks, Only, Unseen
  <2> QED
    BY <2>3, <2>4, <2>5, <2>6, <2>7, <2>8, <2>9, <2>10, <2>11, Writers DEF AgentStep
<1> QED
  BY <1>1, <1>2

\* The rows under way are of the turn, and after a turn nothing of it is.
OfTheTurn ==
  /\ InTurn => \A i \in DOMAIN events : events[i].turn = turn
  /\ AfterReset => join = EmptyJoin /\ events = <<>> /\ envelopes = <<>>

LEMMA OfTheTurnStep ==
  ASSUME TypeOK, OfTheTurn, Live => RowsFollow, Next
  PROVE  OfTheTurn'
<1>1. CASE CommitPrompt \/ Ask \/ CommitDecision \/ CommitTurnEnd
  <2>1. PICK kind \in {"prompt", "asked", "decided", "turnEnd"}, q \in SomeQuestion : Commits(kind, q)
    BY <1>1, CommitsIs
  <2>2. /\ pc = "select" /\ UNCHANGED <<pc, turn>>
        /\ UNCHANGED events \/ Longer([kind |-> kind, q |-> q, turn |-> turn])
    BY <1>1, <2>1, PublishedIs DEF CommitPrompt, Ask, CommitDecision, CommitTurnEnd, Polled,
                                   AgentOnly, Commits
  <2>3. \A i \in DOMAIN events' : events'[i].turn = turn
    BY <2>2 DEF OfTheTurn, InTurn, Longer
  <2> QED
    BY <2>2, <2>3 DEF OfTheTurn, InTurn, AfterReset
<1>2. CASE Event
  <2>1. /\ pc = "select" /\ pc' = "top" /\ UNCHANGED turn /\ events # <<>> /\ events' = Tail(events)
    BY <1>2 DEF Event, Selecting
  <2>2. \A i \in DOMAIN events' : events'[i].turn = turn
    BY <2>1, HeadTyped DEF OfTheTurn, InTurn
  <2> QED
    BY <2>1, <2>2 DEF OfTheTurn, InTurn, AfterReset
<1>3. CASE Reset
  <2>1. /\ pc = "reset" /\ join' = EmptyJoin /\ envelopes' = <<>>
        /\ IF stop = None THEN UNCHANGED events ELSE events' = <<>>
    BY <1>3 DEF Reset
  <2>2. stop = None /\ pc' # "shutdown" => Settled(join)
    <3>1. stop \notin Terminating \/ stop # None
      BY StopNames
    <3> QED
      BY <1>3, <3>1, StopNames, ResetIs DEF None
  <2>3. stop = None /\ pc' # "shutdown" => events = <<>>
    BY <2>1, <2>2 DEF Settled, RowsFollow, Live, InTurn
  <2>4. pc' \in {"settle", "shutdown", "stopped", "suspended"}
    BY <1>3, ResetIs DEF Going
  <2> QED
    BY <2>1, <2>3, <2>4 DEF OfTheTurn, InTurn, AfterReset
<1>4. CASE BeginTurn
  <2>1. pc = "idle" /\ UNCHANGED <<events, join, envelopes>> /\ pc' \in {"top", "shutdown"}
    BY <1>4 DEF BeginTurn, Leaves
  <2>2. events' = <<>> /\ DOMAIN <<>> = {}
    BY <2>1 DEF OfTheTurn, AfterReset
  <2>3. DOMAIN events' = {}
    BY <2>2
  <2> QED
    BY <2>1, <2>3 DEF OfTheTurn, InTurn, AfterReset
<1>5. CASE InTurn /\ UNCHANGED <<turn, events>> /\ ~Reset
  <2>1. pc' \notin {"idle", "settle", "asleep", "stopped", "suspended"}
    BY <1>5 DEF Next, AgentStep, CommitPrompt, Ask, SendEnvelope, StopWaiting, CommitDecision,
        CommitTurnEnd, AgentReturns, TurnStep, BetweenSteps,
        TopStopped, TopGoesOn, StopSignal, Work, FrameExpires, TerminalFails,
        Write, ApprovalArmed, Envelope, Event, Read, EscapeExpires, LeaveAtOnce, Selecting, Worked,
        Drain, Finish, WriteReceipt, WriteStopped, Suspended, Settle, BeginTurn, IdleSignal,
        IdleLeave, Asleep, CleanUp, ShutDown, Type, SignalArrives, InTurn
  <2> QED
    BY <1>5, <2>1 DEF OfTheTurn, AfterReset
<1>6. CASE ~InTurn /\ ~BeginTurn
  <2>1. ~InTurn' /\ UNCHANGED <<join, events, envelopes>> /\ (AfterReset' => AfterReset)
    BY <1>6, OutOfTurn
  <2> QED
    BY <2>1 DEF OfTheTurn
<1>7. UNCHANGED <<turn, events>> \/ BeginTurn \/ CommitPrompt \/ Ask \/ CommitDecision \/ CommitTurnEnd
        \/ Event \/ Reset
  BY Writers
<1> QED
  BY <1>1, <1>2, <1>3, <1>4, <1>5, <1>6, <1>7

-----------------------------------------------------------------------------
(* The front end meets no state it takes to be impossible.                  *)

LEMMA CanReceiveHead ==
  ASSUME TypeOK, ChannelsInStep, envelopes # <<>>
  PROVE  CanReceive(join, Head(envelopes))
<1> DEFINE q == Head(envelopes)
<1>1. q \in AllQuestions /\ join \in Joins /\ q # None
  BY QuestionNames DEF TypeOK, AllQuestions, None
<1>2. SUFFICES ASSUME ~Ignores(join, q) PROVE CanReceive(join, q)
  BY DEF CanReceive
<1>3. agent.at = "wait" /\ agent.q = q
  BY <1>2 DEF Ignores, ResponseClosed
<1>4. Unseen /\ Only(q)
  BY <1>3 DEF ChannelsInStep, ChannelsFit
<1>5. join.asked \in {None, q} /\ join.envelope = None /\ join.active = None
  BY <1>4 DEF Only, Unseen
<1>6. [join EXCEPT !.envelope = q].envelope = q /\ [join EXCEPT !.envelope = q].asked = join.asked
  BY <1>1, HalfIs
<1> QED
  BY <1>5, <1>6 DEF CanReceive, Fits

LEMMA CanProcessHead ==
  ASSUME TypeOK, ChannelsInStep, events # <<>>, events[1].turn = turn
  PROVE  CanProcess(events[1])
<1> DEFINE row == events[1]
           q == row.q
<1>1. /\ 1 \in DOMAIN events /\ join \in Joins
      /\ row.kind \in {"asked", "decided"} => q \in AllQuestions /\ q # None
  BY HeadTyped, QuestionNames DEF TypeOK, AllQuestions, None
<1>2. ~join.ended
  BY DEF ChannelsInStep, RowsFollow
<1>3. \A h \in Halves : row.kind = "decided" /\ q = h
  BY DEF ChannelsInStep, RowsFollow
<1>4. row.kind = "decided" => CanDecide(join, q)
  BY <1>2, <1>3 DEF CanDecide, Halves
<1>5. ASSUME row.kind = "asked" PROVE CanAsk(join, q)
  <2>1. join.asked = None /\ join.active = None /\ join.awaiting = None
    BY <1>3, <1>5 DEF Halves
  <2>2. AskedAt(1) /\ q \notin join.decided
    BY <1>1, <1>5 DEF ChannelsInStep, AskedOnce, AskedAt
  <2>3. join.envelope # None => join.envelope = q
    <3>1. ASSUME join.envelope # None PROVE RowOf(join.envelope)
      BY <3>1 DEF ChannelsInStep, ChannelsFit
    <3>2. ASSUME RowOf(join.envelope) PROVE join.envelope = q
      BY <1>1, <2>2, <3>2 DEF RowOf, ChannelsInStep, AskedOnce
    <3> QED
      BY <3>1, <3>2
  <2>4. /\ [join EXCEPT !.asked = q].asked = q
        /\ [join EXCEPT !.asked = q].envelope = join.envelope
    BY <1>1, <1>5, HalfIs
  <2> QED
    BY <1>2, <2>1, <2>2, <2>3, <2>4 DEF CanAsk, Fits
<1> QED
  BY <1>2, <1>4, <1>5 DEF CanProcess

LEMMA Unbroken ==
  ASSUME TurnInv, Next
  PROVE  history'.broken # "join"
<1>1. TypeOK /\ PanelFits /\ SightFits /\ OfTheTurn /\ (Live => ChannelsInStep)
      /\ history.broken # "join"
  BY DEF TurnInv, OfTheTurn
<1>2. CASE TopGoesOn
  <2>1. \/ UNCHANGED history
        \/ ~Completable /\ history' = [history EXCEPT !.broken =
                                         IF Done /\ frame.what = "selector" THEN "late" ELSE "join"]
    BY <1>1, <1>2, TopGoesOnIs
  <2>2. ~Done => stop = None
    BY <1>1, <1>2, ObservedFailure DEF TopGoesOn, StopAtTop, TypeOK
  <2>3. ~Completable => Done /\ frame.what = "selector"
    BY <1>1, <2>2 DEF PanelFits, Completable, Done
  <2> QED
    BY <1>1, <2>1, <2>3, BlamesIs
<1>3. CASE ApprovalArmed
  <2>1. frame = NoFrame
    BY <1>1, <1>3 DEF ApprovalArmed, PanelFits
  <2> QED
    BY <1>1, <1>3, <2>1 DEF ApprovalArmed
<1>4. CASE Envelope
  <2>1. Live /\ envelopes # <<>>
    BY <1>4 DEF Envelope, Selecting, Live, InTurn
  <2> QED
    BY <1>1, <1>4, <2>1, CanReceiveHead DEF Envelope
<1>5. CASE Event
  <2>1. Live /\ events # <<>> /\ pc = "select"
    BY <1>5 DEF Event, Selecting, Live, InTurn
  <2>2. 1 \in DOMAIN events /\ Head(events) = events[1]
    BY <1>1, <2>1, HeadTyped
  <2>3. events[1].turn = turn
    BY <1>1, <2>1, <2>2 DEF OfTheTurn, Live
  <2> QED
    BY <1>1, <1>5, <2>1, <2>2, <2>3, CanProcessHead DEF Event
<1>6. CASE EscapeExpires
  BY <1>1, <1>6 DEF EscapeExpires, PanelFits, Answer
<1>7. CASE Read
  <2>1. \/ UNCHANGED history
        \/ \E S : history' = [history EXCEPT !.exit = Taking(S)]
        \/ panel.at = "accepting" /\ \E keys : Feed(keys)
    BY <1>1, <1>7, ReadIs
  <2>2. CASE panel.at = "accepting" /\ \E keys : Feed(keys)
    <3>1. join.active # None /\ frame = NoFrame
      BY <1>1, <1>7, <2>2 DEF PanelFits, Read, Suppressed
    <3> QED
      BY <1>1, <2>2, <3>1, FeedIs DEF Answer
  <2> QED
    BY <1>1, <2>1, <2>2, TakesIs DEF Takes
<1>8. CASE Reset
  <2>1. UNCHANGED history \/ (stop = None /\ ~Settled(join)) \/ \E i \in DOMAIN events : events[i].turn # turn
    BY <1>1, <1>8, ResetIs
  <2>2. pc = "reset"
    BY <1>8 DEF Reset
  <2>3. stop = None => Settled(join)
    <3> SUFFICES ASSUME stop = None PROVE Settled(join)
      OBVIOUS
    <3>1. ChannelsInStep /\ join.ended
      BY <1>1, <2>2 DEF SightFits, Live, InTurn
    <3>2. events = <<>> /\ Halves = {}
      BY <3>1 DEF ChannelsInStep, RowsFollow
    <3>3. DOMAIN <<>> = {}
      OBVIOUS
    <3>4. \A x : ~RowOf(x)
      BY <3>2, <3>3 DEF RowOf
    <3>5. join.envelope = None
      BY <3>1, <3>4 DEF ChannelsInStep, ChannelsFit
    <3> QED
      BY <3>1, <3>2, <3>5 DEF Settled, Halves
  <2> QED
    BY <1>1, <2>1, <2>2, <2>3 DEF OfTheTurn, InTurn
<1>9. CASE BeginTurn
  <2>1. history' = [history EXCEPT !.prompt = FALSE]
    BY <1>1, <1>9 DEF BeginTurn, OfTheTurn, AfterReset
  <2> QED
    BY <1>1, <2>1, NotesIs
<1>10. CASE \/ TopStopped \/ StopSignal \/ Drain \/ Finish \/ WriteReceipt \/ WriteStopped
            \/ Suspended \/ IdleSignal \/ Asleep \/ CleanUp \/ ShutDown
  <2>1. UNCHANGED history \/ \E S : history' = [history EXCEPT !.exit = Taking(S)]
    BY <1>10 DEF TopStopped, StopSignal, Drain, Finish, WriteReceipt, WriteStopped, Suspended,
                 IdleSignal, Asleep, CleanUp, ShutDown
  <2> QED
    BY <1>1, <2>1, TakesIs DEF Takes
<1>11. CASE CommitPrompt
  BY <1>1, <1>11, NotesIs DEF CommitPrompt
<1>12. CASE UNCHANGED history
  BY <1>1, <1>12
<1> QED
  BY <1>2, <1>3, <1>4, <1>5, <1>6, <1>7, <1>8, <1>9, <1>10, <1>11, <1>12, HistoryWriters

-----------------------------------------------------------------------------
(* What of the turn was on the screen.                                      *)

SightWriters == CommitPrompt \/ TopGoesOn \/ Event \/ WriteReceipt \/ Reset \/ BeginTurn

\* Whether the prompt was committed and whether it is seen go together.
PromptSeen == ~faulted => (history.prompt <=> seen.prompt \/ LooksThrough)

LEMMA PromptKept ==
  ASSUME TypeOK, Next, ~SightWriters
  PROVE  history'.prompt = history.prompt /\ UNCHANGED seen
<1>1. UNCHANGED seen
  BY ScreenWriters DEF SightWriters
<1>2. CASE Read
  <2>1. \/ UNCHANGED history
        \/ \E S : history' = [history EXCEPT !.exit = Taking(S)]
        \/ \E keys : Feed(keys)
    BY <1>2, ReadIs
  <2>2. ASSUME NEW keys, Feed(keys) PROVE UNCHANGED history \/ Broken
    BY <2>2, FeedIs DEF Answer
  <2> QED
    BY <1>1, <2>1, <2>2, TakesIs, BrokenIs DEF Takes, Blames
<1>3. CASE ApprovalArmed \/ Envelope \/ EscapeExpires
  <2>1. UNCHANGED history \/ Broken
    BY <1>3 DEF ApprovalArmed, Envelope, EscapeExpires, Answer
  <2> QED
    BY <1>1, <2>1, BrokenIs DEF Blames
<1>4. CASE \/ TopStopped \/ StopSignal \/ Drain \/ Finish \/ WriteStopped
           \/ Suspended \/ IdleSignal \/ Asleep \/ CleanUp \/ ShutDown
  <2>1. UNCHANGED history \/ \E S : history' = [history EXCEPT !.exit = Taking(S)]
    BY <1>4 DEF TopStopped, StopSignal, Drain, Finish, WriteStopped, Suspended,
                IdleSignal, Asleep, CleanUp, ShutDown
  <2> QED
    BY <1>1, <2>1, TakesIs DEF Takes
<1> QED
  BY <1>1, <1>2, <1>3, <1>4, HistoryWriters DEF SightWriters

LEMMA PromptSeenStep ==
  ASSUME TypeOK, PromptSeen, Next, ~Reset, ~BeginTurn, Event => CanProcess(events[1])
  PROVE  PromptSeen'
<1>1. CASE CommitPrompt \/ Ask \/ CommitDecision \/ CommitTurnEnd
  <2>1. PICK kind \in {"prompt", "asked", "decided", "turnEnd"}, q \in SomeQuestion : Commits(kind, q)
    BY <1>1, CommitsIs
  <2> DEFINE r == [kind |-> kind, q |-> q, turn |-> turn]
  <2>2. r.kind = kind
    OBVIOUS
  <2> HIDE DEF r
  <2>3. faulted' \/ (~faulted /\ Longer(r))
    BY <2>1, PublishedIs DEF Commits, r
  <2>4. CASE Longer(r) /\ ~faulted
    <3>1. LooksThrough' <=> LooksThrough \/ kind = "prompt"
      BY <2>2, <2>4 DEF LooksThrough, Longer
    <3>2. history'.prompt <=> history.prompt \/ kind = "prompt"
      <4>1. CASE CommitPrompt
        <5>1. kind = "prompt"
          BY <2>1, <4>1 DEF Commits, CommitPrompt
        <5> QED
          BY <4>1, <5>1, NotesIs DEF CommitPrompt
      <4>2. CASE Ask \/ CommitDecision \/ CommitTurnEnd
        <5>1. UNCHANGED history /\ ~(agent.at = "start" /\ agent'.at = "run")
          <6>1. agent \in Agents
            BY DEF TypeOK
          <6>2. CASE Ask
            BY <6>2 DEF Ask
          <6>3. CASE CommitDecision
            BY <6>3 DEF CommitDecision
          <6>4. CASE CommitTurnEnd
            BY <6>1, <6>4 DEF CommitTurnEnd, Agents
          <6> QED
            BY <4>2, <6>2, <6>3, <6>4
        <5>2. kind = "prompt" => agent.at = "start" /\ agent'.at = "run"
          BY <2>1 DEF Commits
        <5> QED
          BY <5>1, <5>2
      <4> QED
        BY <1>1, <4>1, <4>2
    <3>3. UNCHANGED seen
      BY <1>1 DEF CommitPrompt, Ask, CommitDecision, CommitTurnEnd, AgentOnly, uiVars
    <3> QED
      BY <2>4, <3>1, <3>2, <3>3 DEF PromptSeen
  <2> QED
    BY <2>3, <2>4 DEF PromptSeen
<1>2. CASE Event
  <2>1. events # <<>> /\ events' = Tail(events) /\ UNCHANGED <<faulted, history>>
        /\ Process(events[1])
    BY <1>2, HeadTyped DEF Event
  <2>2. Shorter
    BY <2>1, ShorterIs
  <2>3. LooksThrough <=> LooksThrough' \/ events[1].kind = "prompt"
    <3>1. LooksThrough' => LooksThrough
      <4>1. \A i \in DOMAIN events' : i + 1 \in DOMAIN events /\ events'[i] = events[i + 1]
        BY <2>2 DEF Shorter
      <4> QED
        BY <4>1 DEF LooksThrough
    <3>2. events[1].kind = "prompt" => LooksThrough
      BY <2>2 DEF LooksThrough, Shorter
    <3>3. ASSUME NEW i \in DOMAIN events, events[i].kind = "prompt", i # 1 PROVE LooksThrough'
      <4>1. i - 1 \in DOMAIN events' /\ events'[i - 1] = events[i]
        BY <2>2, <3>3 DEF Shorter
      <4> QED
        BY <3>3, <4>1 DEF LooksThrough
    <3> QED
      BY <3>1, <3>2, <3>3 DEF LooksThrough
  <2>4. seen'.prompt <=> seen.prompt \/ events[1].kind = "prompt"
    <3>1. seen \in Sights /\ events[1] \in Rows
      BY <2>1, HeadTyped DEF TypeOK
    <3>2. \/ events[1].kind = "prompt" /\ seen' = [seen EXCEPT !.prompt = TRUE]
          \/ events[1].kind # "prompt" /\ UNCHANGED seen
          \/ events[1].kind # "prompt" /\ seen' = [seen EXCEPT !.end = TRUE]
      BY <2>1, <3>1, ProcessIs
    <3> QED
      BY <3>1, <3>2 DEF Sights
  <2> QED
    BY <2>1, <2>3, <2>4 DEF PromptSeen
<1>3. CASE UNCHANGED events /\ ~(CommitPrompt \/ Ask \/ CommitDecision \/ CommitTurnEnd \/ Event)
  <2>1. UNCHANGED faulted
    BY <1>3, Writers
  <2>2. seen'.prompt = seen.prompt /\ history'.prompt = history.prompt
    <3>1. CASE TopGoesOn
      <4>1. UNCHANGED seen \/ seen' = [seen EXCEPT !.rendered = TRUE]
        BY <3>1, TopGoesOnIs
      <4>2. UNCHANGED history \/ Blames
        BY <3>1, TopGoesOnIs, BlamesIs
      <4> QED
        BY <4>1, <4>2 DEF TypeOK, Sights, Blames
    <3>2. CASE WriteReceipt
      <4>1. UNCHANGED seen \/ seen' = [seen EXCEPT !.rendered = TRUE]
        BY <3>2 DEF WriteReceipt
      <4>2. UNCHANGED history \/ \E S : history' = [history EXCEPT !.exit = Taking(S)]
        BY <3>2 DEF WriteReceipt
      <4> QED
        BY <4>1, <4>2, TakesIs DEF TypeOK, Sights, Takes
    <3>3. CASE ~SightWriters
      BY <3>3, PromptKept
    <3> QED
      BY <1>3, <3>1, <3>2, <3>3 DEF SightWriters
  <2> QED
    BY <1>3, <2>1, <2>2 DEF PromptSeen, LooksThrough
<1> QED
  BY <1>1, <1>2, <1>3, Writers

\* The end of the turn is on the screen, or on its way there.
EndSeen ==
  /\ InTurn /\ stop = None /\ seen.end /\ frame.what # "end" => seen.rendered
  /\ pc \in {"finish", "receipt", "reset"} /\ stop = None => seen.end /\ frame.what # "end"
  /\ Live => seen.end = join.ended

LEMMA EndSeenStep ==
  ASSUME TypeOK, EndSeen, Live => ChannelsInStep, InTurn, Next, ~Reset, stop' = None
  PROVE  EndSeen'
<1>1. stop \in Stops /\ seen \in Sights /\ join \in Joins
  BY DEF TypeOK
<1>2. ~Fail /\ ~Broken
  BY <1>1, ObservedFailure DEF Fail, Broken
<1>3. CASE TopGoesOn
  <2>1. /\ pc = "top" /\ UNCHANGED <<stop, join>>
    BY <1>2, <1>3, TopGoesOnIs DEF TopGoesOn
  <2>2. CASE frame.at # "written" /\ NextFrame(frame) /\ UNCHANGED seen
             /\ pc' = IF Done /\ seen.end /\ frame = NoFrame THEN "finish" ELSE "select"
    BY <2>1, <2>2 DEF EndSeen, NextFrame, Shows, NoFrame, None, Live, InTurn
  <2>3. CASE /\ pc' = IF Done /\ seen.end THEN "finish" ELSE "select"
             /\ frame' = NoFrame \/ NextFrame(NoFrame)
             /\ \/ UNCHANGED seen /\ frame.what # "end"
                \/ seen' = [seen EXCEPT !.rendered = TRUE]
    <3>1. seen'.end = seen.end /\ (seen'.rendered \/ (seen'.rendered = seen.rendered /\ frame.what # "end"))
      BY <1>1, <2>3 DEF Sights
    <3>2. frame'.what # "end" /\ (Done => frame' = NoFrame)
      BY <2>3 DEF NextFrame, Shows, NoFrame, None
    <3>3. pc' \in {"finish", "select"} /\ (pc' = "finish" => seen.end)
      BY <2>3
    <3> QED
      BY <2>1, <3>1, <3>2, <3>3 DEF EndSeen, Live, InTurn
  <2> QED
    BY <1>2, <1>3, <2>2, <2>3, TopGoesOnIs
<1>4. CASE Event
  <2>1. Live /\ ChannelsInStep /\ pc' = "top"
    BY <1>4 DEF Event, Selecting, Live, InTurn
  <2>2. /\ frame = NoFrame /\ events # <<>> /\ ~join.ended /\ Process(events[1])
        /\ join'.ended <=> events[1].kind = "turnEnd"
    BY <1>4, <2>1, RowIs DEF Event
  <2>3. ~seen.end
    BY <2>1, <2>2 DEF EndSeen
  <2>4. events[1] \in Rows
    BY <2>2, HeadTyped
  <2>5. CASE events[1].kind = "turnEnd"
    <3>1. seen' = [seen EXCEPT !.end = TRUE] /\ frame'.what = "end"
      <4>1. seen' = [seen EXCEPT !.end = TRUE] /\ Shows("end")
        BY <2>2, <2>4, <2>5, ProcessIs
      <4> QED
        BY <4>1 DEF Shows
    <3> QED
      BY <1>1, <2>1, <2>2, <2>5, <3>1 DEF EndSeen, Sights
  <2>6. CASE events[1].kind # "turnEnd"
    <3>1. UNCHANGED seen \/ seen' = [seen EXCEPT !.prompt = TRUE]
      BY <2>2, <2>4, <2>6, ProcessIs
    <3>2. seen'.end = seen.end
      BY <1>1, <3>1 DEF Sights
    <3>3. join' \in Joins
      BY JoinTyped
    <3> QED
      <4>1. seen'.end = FALSE /\ join'.ended = FALSE
        BY <1>1, <2>2, <2>3, <2>6, <3>2, <3>3 DEF Sights, Joins
      <4> QED
        BY <2>1, <4>1 DEF EndSeen
  <2> QED
    BY <2>5, <2>6
<1>5. CASE WriteReceipt
  <2>1. /\ pc = "receipt" /\ pc' = "reset" /\ UNCHANGED <<frame, join>>
        /\ UNCHANGED seen \/ seen' = [seen EXCEPT !.rendered = TRUE]
    BY <1>5 DEF WriteReceipt
  <2>2. seen'.end = seen.end /\ (seen.rendered => seen'.rendered)
    BY <1>1, <2>1 DEF Sights
  <2>3. stop = None
    <3>1. \A x : ObserveSignal(stop, x) # None \/ x \notin Terminating \cup {"suspend", "interrupt"}
      BY <1>1, Observed
    <3> QED
      BY <1>1, <1>5, <3>1, StrongestIs, ObservedFailure DEF WriteReceipt
  <2> QED
    BY <2>1, <2>2, <2>3 DEF EndSeen, Live, InTurn
<1>6. CASE TopStopped
  BY <1>6 DEF TopStopped
<1>7. CASE Drain \/ Finish
  <2>1. stop = None /\ ~faulted
    BY <1>1, <1>7, DrainedIs, ObservedFailure DEF Drain, Finish
  <2>2. /\ UNCHANGED <<frame, join, seen>> /\ pc' \in {"top", "finish", "receipt", "reset"}
        /\ pc' \in {"finish", "receipt", "reset"} => pc = "finish"
    BY <1>7, <2>1 DEF Drain, Finish
  <2> QED
    BY <2>1, <2>2 DEF EndSeen, Live, InTurn
<1>8. CASE AgentStep
  <2>1. UNCHANGED <<frame, join, seen, stop>> /\ pc = "select" /\ pc' \in {"select", "drain"}
    BY <1>8 DEF AgentStep, CommitPrompt, Ask, SendEnvelope, StopWaiting, CommitDecision,
                CommitTurnEnd, AgentReturns, Polled, AgentOnly, uiVars
  <2> QED
    BY <2>1 DEF EndSeen, Live, InTurn
<1>9. CASE StopSignal
  <2>1. stop' = ObserveSignal(stop, Strongest(signals))
    BY <1>9 DEF StopSignal
  <2> QED
    BY <1>1, <2>1, StrongestIs, Observed
<1>10. CASE Write \/ ApprovalArmed \/ LeaveAtOnce \/ FrameExpires \/ TerminalFails \/ Envelope
            \/ Read \/ EscapeExpires
  <2>1. /\ pc = "select" /\ stop = None /\ pc' \in {"top", "shutdown"} /\ UNCHANGED seen
    BY <1>10 DEF Write, ApprovalArmed, LeaveAtOnce, FrameExpires, TerminalFails, Envelope, Read,
                 EscapeExpires, Selecting, Worked, uiVars
  <2>2. join'.ended = join.ended
    <3>1. CASE Envelope
      BY <3>1, EnvelopeIs
    <3>2. CASE Read \/ EscapeExpires
      <4>1. UNCHANGED join \/ \E c \in Decisions : Answer(c)
        <5>1. CASE EscapeExpires
          BY <5>1 DEF EscapeExpires, Decisions
        <5>2. CASE Read
          <6>1. UNCHANGED join \/ \E keys : Feed(keys)
            BY <5>2, ReadIs
          <6> QED
            BY <6>1, FeedIs
        <5> QED
          BY <3>2, <5>1, <5>2
      <4> QED
        BY <1>1, <4>1, AnsweredIs DEF Answer
    <3>3. CASE ~(Envelope \/ Read \/ EscapeExpires)
      BY <1>10, <3>3 DEF Write, ApprovalArmed, LeaveAtOnce, FrameExpires, TerminalFails, uiVars
    <3> QED
      BY <3>1, <3>2, <3>3
  <2>3. frame'.what = "end" <=> frame.what = "end"
    <3>1. CASE Write
      BY <3>1 DEF Write, TypeOK, Frames
    <3>2. CASE ApprovalArmed
      BY <1>2, <3>2 DEF ApprovalArmed, Shows, NoFrame, None
    <3>3. CASE Envelope \/ LeaveAtOnce \/ EscapeExpires
      BY <1>2, <3>3 DEF Envelope, LeaveAtOnce, EscapeExpires, Answer, uiVars
    <3>4. CASE FrameExpires \/ TerminalFails
      BY <1>2, <3>4 DEF FrameExpires, TerminalFails
    <3>5. CASE Read
      <4>1. ASSUME NEW x, x # None PROVE ~StopWith(x)
        BY <4>1 DEF StopWith
      <4>2. ObserveSignal(stop, Strongest(signals)) # None /\ "eof" # None
        BY <1>1, StrongestIs, Observed DEF None
      <4>3. UNCHANGED frame \/ \E keys : Feed(keys)
        BY <3>5, <4>1, <4>2, ReadIs
      <4>4. ASSUME NEW keys, Feed(keys)
            PROVE  UNCHANGED frame \/ (frame = NoFrame /\ (Shows("again") \/ Shows("redraw")))
        BY <1>2, <4>4, FeedIs DEF Answer
      <4> QED
        BY <4>3, <4>4 DEF Shows, NoFrame, None
    <3> QED
      BY <1>10, <3>1, <3>2, <3>3, <3>4, <3>5
  <2> QED
    BY <2>1, <2>2, <2>3 DEF EndSeen, Live, InTurn
<1>11. CASE Type \/ SignalArrives
  BY <1>11 DEF Type, SignalArrives, uiVars, EndSeen, Live, InTurn
<1>12. CASE WriteStopped \/ Suspended \/ BetweenSteps
  BY <1>12 DEF WriteStopped, Suspended, BetweenSteps, Settle, BeginTurn, IdleSignal, IdleLeave,
               Asleep, CleanUp, ShutDown, InTurn
<1> QED
  BY <1>3, <1>4, <1>5, <1>6, <1>7, <1>8, <1>9, <1>10, <1>11, <1>12 DEF Next, TurnStep, Work

LEMMA EventProcesses ==
  ASSUME TurnInv, Event
  PROVE  CanProcess(events[1])
<1>1. Live /\ events # <<>> /\ TypeOK /\ ChannelsInStep
  BY DEF TurnInv, Event, Selecting, Live, InTurn
<1>2. events[1].turn = turn
  BY <1>1, HeadTyped DEF TurnInv, Live
<1> QED
  BY <1>1, <1>2, CanProcessHead

LEMMA SightStep ==
  ASSUME TurnInv, Next
  PROVE  SightFits'
<1>1. TypeOK /\ SightFits /\ OfTheTurn /\ StopFits /\ (Live => ChannelsInStep) /\ EndSeen
  BY DEF TurnInv, OfTheTurn, SightFits, EndSeen
<1>2. CASE Reset
  <2>1. /\ UNCHANGED <<faulted, stop>> /\ pc = "reset"
        /\ stop # None => events' = <<>> /\ seen' = [seen EXCEPT !.prompt = @ \/ LooksThrough]
    BY <1>2 DEF Reset
  <2>2. /\ pc' \in {"settle", "shutdown", "stopped", "suspended"}
        /\ pc' \in {"stopped", "suspended"} => stop # None /\ UNCHANGED history
    BY <1>1, <1>2, ResetIs DEF Going, None
  <2>3. stop # None => (seen'.prompt <=> seen.prompt \/ LooksThrough)
    <3>1. PICK b \in BOOLEAN : b = (seen.prompt \/ LooksThrough)
      OBVIOUS
    <3>2. stop # None => seen' = [seen EXCEPT !.prompt = b]
      BY <2>1, <3>1
    <3> QED
      BY <1>1, <3>1, <3>2 DEF TypeOK, Sights
  <2>4. stop # None => ~LooksThrough'
    <3>1. DOMAIN <<>> = {}
      OBVIOUS
    <3> QED
      BY <2>1, <3>1 DEF LooksThrough
  <2> QED
    BY <1>1, <2>1, <2>2, <2>3, <2>4 DEF SightFits, InTurn, Live
<1>3. CASE BeginTurn
  <2>1. pc = "idle" /\ join = EmptyJoin /\ events = <<>>
    BY <1>1, <1>3 DEF BeginTurn, OfTheTurn, AfterReset
  <2>2. /\ seen' = NothingSeen /\ UNCHANGED <<events, join>> /\ pc' = "top" /\ stop' = None
        /\ history' = [history EXCEPT !.prompt = FALSE]
    BY <1>3, <2>1 DEF BeginTurn
  <2>3. history'.prompt = FALSE /\ ~seen'.prompt /\ seen'.end = FALSE /\ join'.ended = FALSE
    BY <1>1, <2>1, <2>2, NotesIs DEF NothingSeen, EmptyJoin
  <2>4. DOMAIN events' = {}
    <3>1. DOMAIN <<>> = {}
      OBVIOUS
    <3> QED
      BY <2>1, <2>2, <3>1
  <2> QED
    BY <2>2, <2>3, <2>4 DEF SightFits, LooksThrough
<1>4. CASE InTurn /\ ~Reset /\ ~BeginTurn
  <2>1. PromptSeen'
    BY <1>1, <1>4, PromptSeenStep, EventProcesses DEF SightFits, PromptSeen
  <2>2. stop' = None => EndSeen'
    BY <1>1, <1>4, EndSeenStep
  <2> QED
    BY <2>1, <2>2 DEF SightFits, PromptSeen, EndSeen, Live
<1>5. CASE ~InTurn /\ ~Reset /\ ~BeginTurn
  <2>1. ~InTurn'
    BY <1>1, <1>5, OutOfTurn
  <2>2. pc' \in {"stopped", "suspended"} => pc \in {"stopped", "suspended"}
    BY <1>1, <1>5, OutOfTurn DEF WriteStopped, Suspended, Asleep, IdleSignal, IdleLeave, Returns,
                                 Leaves
  <2>3. pc' \in {"stopped", "suspended"} => PromptSeen'
    BY <1>1, <1>5, <2>2, PromptSeenStep, EventProcesses DEF SightFits, PromptSeen
  <2> QED
    BY <2>1, <2>3 DEF SightFits, PromptSeen, Live, InTurn
<1> QED
  BY <1>2, <1>3, <1>4, <1>5

-----------------------------------------------------------------------------
(* The invariant of the front end.                                          *)

LEMMA Begins == Init => TurnInv
<1> SUFFICES ASSUME Init PROVE TurnInv
  OBVIOUS
<1>1. TypeOK
  BY TypeBegins
<1>2. /\ pc = "idle" /\ events = <<>> /\ join = EmptyJoin /\ envelopes = <<>> /\ panel.at = "inactive"
      /\ frame.what = None /\ stop = None /\ history.exit = None /\ history.broken = None
      /\ agent.at = None
  BY DEF Init, NoPanel, NoFrame, NoHistory, NoAgent
<1>3. PanelFits /\ StopFits /\ SightFits
  BY <1>2 DEF PanelFits, StopFits, SightFits, InTurn, AfterReset, Live, None
<1> QED
  BY <1>1, <1>2, <1>3 DEF TurnInv, InTurn, AfterReset, Live, None

LEMMA Steps ==
  ASSUME TurnInv, [Next]_vars
  PROVE  TurnInv'
<1>1. CASE Next
  <2>1. TypeOK /\ StopFits /\ OfTheTurn /\ (Live => ChannelsInStep) /\ (Live => RowsFollow)
        /\ (AfterReset => join = EmptyJoin /\ events = <<>> /\ envelopes = <<>>)
    BY DEF TurnInv, OfTheTurn, ChannelsInStep
  <2>2. TypeOK' /\ StopFits' /\ OfTheTurn'
    BY <1>1, <2>1, TypeStep, StopStep, OfTheTurnStep
  <2>3. Live' => ChannelsInStep'
    BY <1>1, <2>1, ChannelsStep
  <2>4. PanelFits' /\ SightFits' /\ history'.broken # "join"
    BY <1>1, PanelStep, SightStep, Unbroken
  <2> QED
    BY <2>2, <2>3, <2>4 DEF TurnInv, OfTheTurn
<1>2. CASE UNCHANGED vars
  <2>1. TypeOK' /\ PanelFits'
    BY <1>2 DEF vars, TurnInv, TypeOK, PanelFits
  <2>2. StopFits' /\ SightFits'
    BY <1>2 DEF vars, TurnInv, StopFits, SightFits, InTurn, AfterReset, Live, Done, Hard,
                LooksThrough
  <2>3. Live' => ChannelsInStep'
    BY <1>2 DEF vars, TurnInv, Live, InTurn, ChannelsInStep, RowsFollow, AskedOnce, ChannelsFit,
                AskedAt, InAsking, Done, Halves, RowOf, Quiet, NoRowAsks, Only, Unseen
  <2> QED
    BY <1>2, <2>1, <2>2, <2>3 DEF vars, TurnInv, InTurn, AfterReset
<1> QED
  BY <1>1, <1>2

\* Rows, questions, frames, keys and stops go together as the code takes for granted.
THEOREM TurnInvariant == Spec => []TurnInv
<1>1. Init => TurnInv
  BY Begins
<1>2. TurnInv /\ [Next]_vars => TurnInv'
  BY Steps
<1> QED
  BY <1>1, <1>2, PTL DEF Spec

\* interactive.rs run_turn, ApprovalJoin: none of the states the front end calls an
\* internal error is ever reached, whatever the order in which rows, envelopes, keys
\* and signals become ready.
THEOREM AgreesWithAgent == Spec => []FrontEndAgreesWithAgent
<1>1. TurnInv => FrontEndAgreesWithAgent
  BY DEF TurnInv, FrontEndAgreesWithAgent
<1> QED
  BY <1>1, TurnInvariant, PTL

-----------------------------------------------------------------------------
(* Answers.                                                                 *)

\* A decision is sent by one read of keys that were typed before the selector, or
\* by an Escape that nothing followed.
LEMMA AnswersMeantStep ==
  ASSUME TurnInv, [Next]_vars, NEW q \in ToSet(Questions),
         response'[q] \in Decisions, response[q] # response'[q]
  PROVE  /\ stop = None /\ ~cancelled /\ join.active = q
         /\ \A i \in 1..(Len(typed) - Len(typed')) : typed[i].saw = q
<1>1. TypeOK /\ PanelFits /\ StopFits
  BY DEF TurnInv
<1>2. ~UNCHANGED response /\ ~Ask
  <2>1. ASSUME Ask PROVE FALSE
    <3>1. PICK i \in DOMAIN Questions : response' = [response EXCEPT ![Questions[i]] = "asked"]
      BY <2>1 DEF Ask
    <3>2. q \in DOMAIN response
      BY <1>1 DEF TypeOK, AllQuestions
    <3>3. response'[q] \in {response[q], "asked"}
      BY <3>1, <3>2
    <3> QED
      BY <3>3 DEF Decisions
  <2> QED
    BY <2>1
<1>3. Next
  BY <1>2 DEF vars
<1>4. Read \/ EscapeExpires
  BY <1>2, <1>3, Writers
<1>5. ASSUME NEW c \in Decisions, Answer(c), join.active # None
      PROVE  join.active = q /\ agent.at = "wait"
  <2>1. response' = [response EXCEPT ![join.active] = IF ResponseClosed(join.active) THEN @ ELSE c]
    BY <1>5 DEF Answer
  <2>2. q \in DOMAIN response
    BY <1>1 DEF TypeOK, AllQuestions
  <2>3. join.active = q /\ ~ResponseClosed(q)
    BY <2>1, <2>2
  <2> QED
    BY <2>3 DEF ResponseClosed
<1>6. ASSUME agent.at = "wait" PROVE stop = None /\ ~cancelled
  <2>1. pc = "select" /\ stop = None /\ ~Done
    BY <1>4, <1>6 DEF Read, EscapeExpires, Selecting, Done
  <2> QED
    BY <1>1, <2>1 DEF StopFits
<1>7. panel.at = "accepting" => \A i \in DOMAIN typed : typed[i].saw = join.active
  BY <1>1 DEF PanelFits
<1>8. CASE EscapeExpires
  <2>1. Answer("cancel") /\ join.active # None /\ UNCHANGED typed
    BY <1>2, <1>8 DEF EscapeExpires
  <2>2. join.active = q /\ agent.at = "wait"
    BY <1>5, <2>1 DEF Decisions
  <2>3. 1..(Len(typed) - Len(typed')) = {}
    BY <1>1, <2>1 DEF TypeOK
  <2> QED
    BY <1>6, <2>2, <2>3
<1>9. CASE Read
  <2>1. PICK n \in 1..Len(typed) :
          /\ panel.at = "accepting" /\ Feed(SubSeq(typed, 1, n))
          /\ typed' = SubSeq(typed, n + 1, Len(typed))
    BY <1>1, <1>2, <1>9, ReadIs
  <2>2. join.active # None /\ \E c \in Decisions : Answer(c)
    BY <1>1, <1>2, <2>1, FeedIs
  <2>3. join.active = q /\ agent.at = "wait"
    BY <1>5, <2>2
  <2>4. typed \in Seq(Presses) /\ Len(typed') = Len(typed) - n /\ DOMAIN typed = 1..Len(typed)
    BY <1>1, <2>1, RestIs DEF TypeOK
  <2>5. \A i \in 1..(Len(typed) - Len(typed')) : i \in DOMAIN typed
    BY <2>4
  <2> QED
    BY <1>6, <1>7, <2>1, <2>3, <2>5
<1> QED
  BY <1>4, <1>8, <1>9

\* approval_ui.rs arms the selector only after stale input is gone, and run_turn
\* looks for stops before it lets a key through: an answer is for the question that
\* was on the screen when its keys were typed.
THEOREM AnswersMeant == Spec => AnswerWasMeant
<1>1. TurnInv /\ [Next]_vars =>
        [\A q \in ToSet(Questions) : response'[q] \in Decisions /\ response[q] # response'[q] =>
           /\ stop = None /\ ~cancelled /\ join.active = q
           /\ \A i \in 1..(Len(typed) - Len(typed')) : typed[i].saw = q]_vars
  BY AnswersMeantStep
<1> QED
  BY <1>1, TurnInvariant, PTL DEF Spec, AnswerWasMeant

-----------------------------------------------------------------------------
(* How a turn ends.                                                         *)

LEMMA EndsStep ==
  ASSUME TurnInv, Next, pc' \in {"settle", "shutdown"}, pc' # pc
  PROVE  /\ outcome' = "signal" <=> history'.exit # None
         /\ pc' = "settle" =>
              /\ seen'.prompt = history.prompt
              /\ agent.result # "error"
              /\ stop = None => seen'.rendered
<1>1. TypeOK /\ StopFits /\ SightFits /\ OfTheTurn
  BY DEF TurnInv, OfTheTurn
<1>2. history'.broken # "join"
  BY Unbroken
<1>3. CASE Reset
  <2>1. pc = "reset" /\ UNCHANGED <<agent, stop, faulted>>
        /\ IF stop = None THEN UNCHANGED seen
           ELSE events' = <<>> /\ seen' = [seen EXCEPT !.prompt = @ \/ LooksThrough]
    BY <1>3 DEF Reset
  <2>2. \/ /\ UNCHANGED history /\ outcome' # "signal" /\ stop \in {None, "interrupt", "suspend"}
        \/ /\ UNCHANGED history /\ outcome' # "signal" /\ stop \in {"eof", "failure"}
           /\ pc' = "shutdown"
        \/ stop \in Terminating /\ outcome' = "signal" /\ pc' = "shutdown" /\ UNCHANGED history
    BY <1>1, <1>2, <1>3, ResetIs, BlamesIs DEF Going
  <2>3. history.exit # None <=> stop \in Terminating
    BY <1>1, <2>1 DEF StopFits, InTurn
  <2>4. history.exit = history'.exit
    BY <2>2
  <2>5. outcome' = "signal" <=> history'.exit # None
    BY <2>2, <2>3, <2>4, StopNames
  <2>6. CASE pc' = "settle"
    <3>1. ~Hard(stop) /\ stop \in {None, "interrupt", "suspend"}
      BY <2>2, <2>6, NotHard, StopNames
    <3>2. ~faulted /\ agent.result # "error"
      BY <1>1, <2>1, <3>1 DEF StopFits, InTurn
    <3>3. history.prompt <=> seen.prompt \/ LooksThrough
      BY <1>1, <2>1, <3>2 DEF SightFits, InTurn
    <3>4. CASE stop = None
      <4>1. seen.end /\ seen.rendered /\ UNCHANGED seen /\ Settled(join)
        <5>1. Settled(join)
          <6>1. stop \notin Terminating
            BY <3>4, StopNames
          <6> QED
            BY <1>1, <1>2, <1>3, <3>4, <6>1, ResetIs, BlamesIs DEF None
        <5> QED
          BY <1>1, <2>1, <3>4, <5>1 DEF SightFits, InTurn
      <4>2. ~LooksThrough
        <5>1. Live /\ RowsFollow /\ join.ended
          BY <2>1, <3>4, <4>1 DEF TurnInv, Live, InTurn, ChannelsInStep, Settled
        <5>2. DOMAIN <<>> = {}
          OBVIOUS
        <5> QED
          BY <5>1, <5>2 DEF RowsFollow, LooksThrough
      <4> QED
        BY <1>1, <2>5, <3>2, <3>3, <4>1, <4>2 DEF TypeOK, Sights, Histories
    <3>5. CASE stop # None
      <4>1. PICK b \in BOOLEAN : b = (seen.prompt \/ LooksThrough)
        OBVIOUS
      <4>2. seen' = [seen EXCEPT !.prompt = b]
        BY <2>1, <3>5, <4>1
      <4>3. seen'.prompt = b /\ history.prompt \in BOOLEAN
        BY <1>1, <4>2 DEF TypeOK, Sights, Histories
      <4> QED
        BY <2>5, <3>2, <3>3, <3>5, <4>1, <4>3
    <3> QED
      BY <3>4, <3>5
  <2> QED
    BY <1>3, <2>5, <2>6
<1>4. CASE WriteStopped \/ Suspended
  <2>1. history.exit = None /\ pc \in {"stopped", "suspended"} /\ UNCHANGED seen
    BY <1>1, <1>4 DEF StopFits, AfterReset, WriteStopped, Suspended, AfterTurn
  <2>2. outcome' = "signal" <=> history'.exit # None
    BY <1>1, <1>4, <2>1, StoppedTells, SleepTells DEF Tells
  <2>3. ~faulted /\ agent.result # "error" /\ stop # None
    BY <1>1, <2>1 DEF StopFits, None
  <2>4. history.prompt <=> seen.prompt \/ LooksThrough
    BY <1>1, <2>1, <2>3 DEF SightFits
  <2>5. ~LooksThrough
    <3>1. DOMAIN <<>> = {}
      OBVIOUS
    <3> QED
      BY <1>1, <2>1, <3>1 DEF OfTheTurn, AfterReset, LooksThrough
  <2>6. seen \in Sights /\ history \in Histories
    BY <1>1 DEF TypeOK
  <2> QED
    BY <2>1, <2>2, <2>3, <2>4, <2>5, <2>6 DEF Sights, Histories
<1>5. CASE IdleSignal \/ Asleep
  <2>1. history.exit = None
    BY <1>1, <1>5 DEF StopFits, AfterReset, IdleSignal, Asleep
  <2>2. pc' # "settle"
    BY <1>5 DEF IdleSignal, Asleep, Leaves
  <2> QED
    BY <1>1, <1>5, <2>1, <2>2, SleepTells, IdleTells DEF Tells
<1>6. CASE IdleLeave
  BY <1>1, <1>6 DEF IdleLeave, Leaves, StopFits, AfterReset
<1>7. CASE BeginTurn
  <2>1. join = EmptyJoin /\ pc = "idle"
    BY <1>1, <1>7 DEF BeginTurn, OfTheTurn, AfterReset
  <2> QED
    BY <1>7, <2>1 DEF BeginTurn
<1>8. CASE LeaveAtOnce
  <2>1. outcome' = "error" /\ pc' = "shutdown" /\ UNCHANGED history /\ stop = None /\ InTurn
    BY <1>8 DEF LeaveAtOnce, Selecting, InTurn
  <2> QED
    BY <1>1, <2>1, StopNames DEF StopFits
<1>9. ~(\/ AgentStep \/ TopStopped \/ TopGoesOn \/ StopSignal \/ FrameExpires \/ TerminalFails \/ Write
        \/ ApprovalArmed \/ Envelope \/ Event \/ Read \/ EscapeExpires \/ Drain \/ Finish
        \/ WriteReceipt \/ Settle \/ CleanUp \/ ShutDown \/ Type \/ SignalArrives)
  BY DEF AgentStep, CommitPrompt, Ask, SendEnvelope, StopWaiting, CommitDecision, CommitTurnEnd,
         AgentReturns, TopStopped, TopGoesOn, StopSignal, FrameExpires, TerminalFails, Write,
         ApprovalArmed, Envelope, Event, Read, EscapeExpires, Worked, Drain, Finish, WriteReceipt,
         Settle, CleanUp, ShutDown, Type, SignalArrives
<1> QED
  BY <1>3, <1>4, <1>5, <1>6, <1>7, <1>8, <1>9 DEF Next, TurnStep, Work, BetweenSteps

\* run_turn returns what its strongest stop says, and its callers, run_linear and
\* run_enhanced, learn from it whether the prompt is in the log.
THEOREM EndsAsStopped == Spec => TurnEndsAsStopped
<1>1. TurnInv /\ [Next]_vars =>
        [pc' \in {"settle", "shutdown"} /\ pc' # pc =>
          /\ outcome' = "signal" <=> history'.exit # None
          /\ pc' = "settle" =>
               /\ seen'.prompt = history.prompt
               /\ agent.result # "error"
               /\ stop = None => seen'.rendered]_vars
  BY EndsStep
<1>2. TurnInv => (pc \in {"top", "select"} /\ stop # None => cancelled \/ Done)
  BY DEF TurnInv, StopFits
<1> QED
  BY <1>1, <1>2, TurnInvariant, PTL DEF Spec, TurnEndsAsStopped

-----------------------------------------------------------------------------
(* Prompts: the draft, the queue, the history and the turn that sends one.    *)

Written == 1..Len(Size)
Prompts == [id : Nat \ {0}, text : Written]

DraftTyped ==
  /\ entered \in 0..Len(Size) /\ composer \in Written \cup {0}
  /\ nav \in [on : BOOLEAN, offset : Nat, saved : Written \cup {0}]
  /\ past \in Seq(Written)

QueueTyped ==
  /\ phase \in {"idle", "draw", "turn", "over", "failed"}
  /\ queue \in Seq(Prompts) /\ nextId \in Nat /\ reserved \in Nat /\ sent \in Nat
  /\ active \in [text : Written \cup {0}, id : Nat, committed : BOOLEAN]

\* What waits was numbered in its order, behind what was sent.
Numbered ==
  /\ sent =< nextId
  /\ \A i \in 1..Len(queue) : sent < queue[i].id /\ queue[i].id =< nextId
  /\ \A i, k \in 1..Len(queue) : i < k => queue[i].id < queue[k].id

\* A turn has a prompt, and holds the front of the queue if it is from there.
FrontReserved ==
  /\ reserved = active.id
  /\ phase \notin {"draw", "turn"} => active.text = 0 /\ active.id = 0
  /\ phase \in {"draw", "turn"} => active.text # 0
  /\ active.id # 0 => queue # <<>> /\ queue[1] = [id |-> active.id, text |-> active.text]

\* What the history shows was sent before, so that showing another costs nothing;
\* a draft that is being sent left nothing in the composer.
Looked ==
  /\ \A i \in 1..Len(past) : past[i] \in gone
  /\ nav.on => composer # 0 /\ composer \in gone
  /\ ~nav.on => nav.saved = 0
  /\ phase = "draw" /\ active.id = 0 => composer = 0 /\ ~nav.on

NothingLost == phase # "failed" => 1..entered \subseteq Input!Held \cup gone

PromptInv == DraftTyped /\ QueueTyped /\ Numbered /\ FrontReserved /\ Looked /\ NothingLost

LEMMA PromptBegins ==
  ASSUME Input!Init PROVE PromptInv
<1>1. Len(Size) \in Nat
  BY PromptAssumption
<1>2. DraftTyped /\ QueueTyped
  BY <1>1 DEF Input!Init, Input!NoNav, Input!NoTurn, DraftTyped, QueueTyped
<1>3. Numbered /\ FrontReserved /\ Looked /\ NothingLost
  BY DEF Input!Init, Input!NoNav, Input!NoTurn, Numbered, FrontReserved, Looked, NothingLost
<1> QED
  BY <1>2, <1>3 DEF PromptInv

\* Every text that was somewhere still is, and a new one is in the composer.
LEMMA NothingGoes ==
  ASSUME PromptInv, gone \subseteq gone', phase' # "failed" => phase # "failed",
         \A t \in {composer, nav.saved, active.text} : t = 0 \/ t \in Input!Held' \cup gone',
         \A i \in 1..Len(queue) : queue[i].text \in Input!Held' \cup gone',
         entered' = entered \/ (entered' = entered + 1 /\ composer' = entered')
  PROVE  NothingLost'
<1>1. entered \in Nat /\ DOMAIN queue = 1..Len(queue)
  BY PromptAssumption DEF PromptInv, DraftTyped, QueueTyped
<1>2. ASSUME phase # "failed", NEW t \in 1..entered PROVE t \in Input!Held' \cup gone'
  <2>1. t \in Input!Held \cup gone /\ t # 0
    BY <1>1, <1>2 DEF PromptInv, NothingLost
  <2> QED
    BY <1>1, <2>1 DEF Input!Held
<1>3. composer' \in Input!Held'
  BY DEF Input!Held
<1> QED
  BY <1>1, <1>2, <1>3 DEF NothingLost

-----------------------------------------------------------------------------
(* Keys.                                                                     *)

LEMMA KeysLeave ==
  ASSUME PromptInv, UNCHANGED <<phase, reserved, active, past, sent>>,
         phase \in {"idle", "turn"}, DraftTyped', QueueTyped', Numbered', NothingLost',
         active.id # 0 => queue' # <<>> /\ queue'[1] = queue[1],
         gone \subseteq gone', nav'.on => composer' # 0 /\ composer' \in gone',
         ~nav'.on => nav'.saved = 0
  PROVE  PromptInv'
<1>1. FrontReserved' /\ Looked'
  BY DEF PromptInv, FrontReserved, Looked
<1> QED
  BY <1>1 DEF PromptInv

LEMMA DraftChanges ==
  ASSUME PromptInv, UNCHANGED <<phase, queue, nextId, reserved, active, past, sent>>,
         phase \in {"idle", "turn"}, DraftTyped', NothingLost', gone \subseteq gone',
         nav'.on => composer' # 0 /\ composer' \in gone', ~nav'.on => nav'.saved = 0
  PROVE  PromptInv'
<1>1. QueueTyped' /\ Numbered'
  BY DEF PromptInv, QueueTyped, Numbered
<1>2. active.id # 0 => queue' # <<>> /\ queue'[1] = queue[1]
  BY DEF PromptInv, FrontReserved
<1> QED
  BY <1>1, <1>2, KeysLeave

\* Another prompt of the history takes the place of the draft, which is kept, or
\* of one that was shown.
LEMMA HistoryShown ==
  ASSUME PromptInv, NEW offset \in Nat, offset < Len(past), Input!Show(offset),
         phase \in {"idle", "turn"},
         UNCHANGED <<phase, entered, queue, nextId, reserved, past, active, sent, gone>>
  PROVE  PromptInv'
<1>1. /\ past \in Seq(Written) /\ composer \in Written \cup {0} /\ DraftTyped /\ Looked
      /\ nav \in [on : BOOLEAN, offset : Nat, saved : Written \cup {0}]
  BY DEF PromptInv, DraftTyped
<1>2. PICK i \in 1..Len(past) : i = Len(past) - offset
  <2>1. Len(past) \in Nat
    BY <1>1
  <2>2. Len(past) - offset \in 1..Len(past)
    BY <2>1
  <2> QED
    BY <2>2
<1>3. /\ composer' = past[i] /\ composer' \in Written /\ composer' \in gone
      /\ nav' = [on |-> TRUE, offset |-> offset, saved |-> IF nav.on THEN nav.saved ELSE composer]
  BY <1>1, <1>2 DEF Input!Show, Input!NewestAt, Looked
<1>4. PICK saved \in Written \cup {0} : saved = IF nav.on THEN nav.saved ELSE composer
  BY <1>1
<1>5. nav' = [on |-> TRUE, offset |-> offset, saved |-> saved]
  BY <1>3, <1>4
<1>6. DraftTyped' /\ composer' # 0
  BY <1>1, <1>3, <1>5 DEF DraftTyped, Written
<1>7. saved \in Input!Held'
  BY <1>5 DEF Input!Held
<1>8. /\ composer = 0 \/ composer \in Input!Held' \cup gone'
      /\ nav.saved = 0 \/ nav.saved \in Input!Held' \cup gone'
  BY <1>1, <1>4, <1>7 DEF Looked
<1>9. active.text \in Input!Held' /\ \A j \in 1..Len(queue) : queue[j].text \in Input!Held'
  <2>1. DOMAIN queue = 1..Len(queue)
    BY DEF PromptInv, QueueTyped
  <2> QED
    BY <2>1 DEF Input!Held
<1>10. NothingLost'
  BY <1>8, <1>9, NothingGoes
<1> QED
  BY <1>3, <1>5, <1>6, <1>10, DraftChanges

LEMMA Typing ==
  ASSUME PromptInv, Input!Type \/ Input!Consume
  PROVE  PromptInv'
<1>1. /\ phase \in {"idle", "turn"} /\ nav' = Input!NoNav /\ gone' = gone \cup {composer, nav.saved}
      /\ UNCHANGED <<phase, queue, nextId, reserved, past, active, sent>>
      /\ \/ entered < Len(Size) /\ entered' = entered + 1 /\ composer' = entered + 1
         \/ entered' = entered /\ composer' = 0
  BY DEF Input!Type, Input!Consume, Input!KeyRead, Input!Reads
<1>2. Len(Size) \in Nat /\ entered \in 0..Len(Size) /\ DOMAIN queue = 1..Len(queue)
      /\ past \in Seq(Written)
  BY PromptAssumption DEF PromptInv, DraftTyped, QueueTyped
<1>3. nav'.on = FALSE /\ nav'.saved = 0 /\ nav' \in [on : BOOLEAN, offset : Nat, saved : Written \cup {0}]
  BY <1>1 DEF Input!NoNav
<1>4. DraftTyped'
  BY <1>1, <1>2, <1>3 DEF DraftTyped, Written
<1>5. active.text \in Input!Held' /\ \A j \in 1..Len(queue) : queue[j].text \in Input!Held'
  BY <1>1, <1>2 DEF Input!Held
<1>6. NothingLost'
  BY <1>1, <1>5, NothingGoes
<1> QED
  BY <1>1, <1>3, <1>4, <1>6, DraftChanges

LEMMA Looking ==
  ASSUME PromptInv, Input!HistoryPrevious \/ Input!HistoryNext \/ Input!ReverseSearch
  PROVE  PromptInv'
<1>1. /\ phase \in {"idle", "turn"}
      /\ UNCHANGED <<phase, entered, queue, nextId, reserved, past, active, sent, gone>>
  BY DEF Input!HistoryPrevious, Input!HistoryNext, Input!ReverseSearch, Input!KeyRead, Input!Reads
<1>2. /\ past \in Seq(Written) /\ Len(past) \in Nat /\ composer \in Written \cup {0}
      /\ nav \in [on : BOOLEAN, offset : Nat, saved : Written \cup {0}]
      /\ DraftTyped /\ Looked /\ Input!NextOffset \in Nat
  BY DEF PromptInv, DraftTyped, Input!NextOffset
<1>3. CASE Input!HistoryPrevious
  BY <1>1, <1>2, <1>3, HistoryShown DEF Input!HistoryPrevious
<1>4. CASE Input!ReverseSearch
  <2>1. PICK offset \in Input!NextOffset..(Len(past) - 1) : Input!Show(offset)
    BY <1>4 DEF Input!ReverseSearch
  <2>2. offset \in Nat /\ offset < Len(past)
    BY <1>2, <2>1
  <2> QED
    BY <1>1, <2>1, <2>2, HistoryShown
<1>5. CASE Input!HistoryNext
  <2>1. nav.on /\ nav.offset =< Len(past)
    BY <1>5 DEF Input!HistoryNext
  <2>2. CASE nav.offset # 0
    <3>1. nav.offset - 1 \in Nat /\ nav.offset - 1 < Len(past) /\ Input!Show(nav.offset - 1)
      BY <1>2, <1>5, <2>1, <2>2 DEF Input!HistoryNext
    <3> QED
      BY <1>1, <3>1, HistoryShown
  <2>3. CASE nav.offset = 0
    <3>1. composer' = nav.saved /\ nav' = Input!NoNav
      BY <1>5, <2>3 DEF Input!HistoryNext
    <3>2. nav'.on = FALSE /\ nav'.saved = 0 /\ nav' \in [on : BOOLEAN, offset : Nat, saved : Written \cup {0}]
      BY <3>1 DEF Input!NoNav
    <3>3. DraftTyped'
      BY <1>1, <1>2, <3>1, <3>2 DEF DraftTyped
    <3>4. /\ composer \in gone' /\ nav.saved \in Input!Held' /\ active.text \in Input!Held'
          /\ \A j \in 1..Len(queue) : queue[j].text \in Input!Held'
      <4>1. DOMAIN queue = 1..Len(queue)
        BY DEF PromptInv, QueueTyped
      <4> QED
        BY <1>1, <1>2, <2>1, <3>1, <4>1 DEF Input!Held, Looked
    <3>5. NothingLost'
      BY <1>1, <3>4, NothingGoes
    <3> QED
      BY <1>1, <3>2, <3>3, <3>5, DraftChanges
  <2> QED
    BY <2>2, <2>3
<1> QED
  BY <1>3, <1>4, <1>5

\* A prompt joins the queue behind those that wait.
LEMMA Enqueues ==
  ASSUME PromptInv, Input!EnqueueDraft
  PROVE  PromptInv'
<1>1. /\ phase \in {"idle", "turn"} /\ nav' = Input!NoNav /\ gone' = gone \cup {nav.saved}
      /\ composer # 0 /\ composer' = 0 /\ nextId' = nextId + 1
      /\ queue' = Append(queue, [id |-> nextId + 1, text |-> composer])
      /\ UNCHANGED <<phase, entered, reserved, past, active, sent>>
  BY DEF Input!EnqueueDraft, Input!KeyRead, Input!Reads
<1>2. /\ entered \in 0..Len(Size) /\ past \in Seq(Written) /\ composer \in Written
      /\ queue \in Seq(Prompts) /\ nextId \in Nat /\ sent \in Nat /\ Len(queue) \in Nat
      /\ DOMAIN queue = 1..Len(queue)
  BY <1>1 DEF PromptInv, DraftTyped, QueueTyped
<1>3. nav'.on = FALSE /\ nav'.saved = 0 /\ nav' \in [on : BOOLEAN, offset : Nat, saved : Written \cup {0}]
  BY <1>1 DEF Input!NoNav
<1>4. PICK p \in Prompts : p = [id |-> nextId + 1, text |-> composer]
  <2>1. nextId + 1 \in Nat \ {0}
    BY <1>2
  <2>2. [id |-> nextId + 1, text |-> composer] \in Prompts
    BY <1>2, <2>1 DEF Prompts
  <2> QED
    BY <2>2
<1>5. /\ queue' = Append(queue, p) /\ p.id = nextId + 1 /\ p.text = composer
      /\ queue' \in Seq(Prompts) /\ Len(queue') = Len(queue) + 1
      /\ \A i \in 1..Len(queue) : queue'[i] = queue[i]
      /\ queue'[Len(queue) + 1] = p /\ DOMAIN queue' = 1..(Len(queue) + 1)
  BY <1>1, <1>2, <1>4
<1>6. DraftTyped' /\ QueueTyped'
  BY <1>1, <1>2, <1>3, <1>5 DEF PromptInv, DraftTyped, QueueTyped
<1>7. Numbered'
  <2>1. \A i \in 1..Len(queue) : sent < queue[i].id /\ queue[i].id =< nextId /\ queue[i].id \in Nat
    <3>1. \A i \in 1..Len(queue) : queue[i] \in Prompts
      BY <1>2
    <3>2. \A i \in 1..Len(queue) : queue[i].id \in Nat
      BY <3>1 DEF Prompts
    <3> QED
      BY <3>2 DEF PromptInv, Numbered
  <2>2. /\ \A i \in 1..(Len(queue) + 1) : i \in 1..Len(queue) \/ i = Len(queue) + 1
        /\ sent =< nextId
    BY <1>2 DEF PromptInv, Numbered
  <2>3. \A i \in 1..(Len(queue) + 1) : sent < queue'[i].id /\ queue'[i].id =< nextId + 1
    BY <1>2, <1>5, <2>1, <2>2
  <2>4. \A i, k \in 1..(Len(queue) + 1) : i < k => queue'[i].id < queue'[k].id
    <3>1. SUFFICES ASSUME NEW i \in 1..(Len(queue) + 1), NEW k \in 1..(Len(queue) + 1), i < k
                   PROVE  queue'[i].id < queue'[k].id
      OBVIOUS
    <3>2. i \in 1..Len(queue) /\ queue'[i] = queue[i]
      BY <1>2, <1>5, <3>1
    <3>3. CASE k \in 1..Len(queue)
      BY <1>5, <3>1, <3>2, <3>3 DEF PromptInv, Numbered
    <3>4. CASE k = Len(queue) + 1
      BY <1>2, <1>5, <2>1, <3>2, <3>4
    <3> QED
      BY <2>2, <3>3, <3>4
  <2> QED
    BY <1>1, <1>2, <1>5, <2>2, <2>3, <2>4 DEF Numbered
<1>8. active.id # 0 => queue' # <<>> /\ queue'[1] = queue[1]
  <2>1. active.id # 0 => 1 \in 1..Len(queue)
    BY <1>2 DEF PromptInv, FrontReserved
  <2> QED
    BY <1>5, <2>1
<1>9. /\ active.text \in Input!Held' /\ nav.saved \in gone'
      /\ composer \in Input!Held'
      /\ \A j \in 1..Len(queue) : queue[j].text \in Input!Held'
  <2>1. \A j \in 1..(Len(queue) + 1) : queue'[j].text \in Input!Held'
    BY <1>5 DEF Input!Held
  <2>2. active.text \in Input!Held' /\ nav.saved \in gone'
    BY <1>1 DEF Input!Held
  <2>3. Len(queue) + 1 \in 1..(Len(queue) + 1) /\ \A j \in 1..Len(queue) : j \in 1..(Len(queue) + 1)
    BY <1>2
  <2> QED
    BY <1>5, <2>1, <2>2, <2>3
<1>10. NothingLost'
  BY <1>1, <1>9, NothingGoes
<1> QED
  BY <1>1, <1>3, <1>6, <1>7, <1>8, <1>10, KeysLeave

\* What waits keeps its numbers when the newest prompt gives its place to the draft.
LEMMA RecalledQueue ==
  ASSUME NEW q \in Seq(Prompts), q # <<>>, NEW draft \in Written \cup {0}
  PROVE  \E r \in Seq(Prompts) :
           /\ r = IF draft = 0 THEN Input!Front(q)
                  ELSE Append(Input!Front(q), [id |-> Input!Last(q).id, text |-> draft])
           /\ Len(r) = IF draft = 0 THEN Len(q) - 1 ELSE Len(q)
           /\ \A i \in 1..(Len(q) - 1) : r[i] = q[i]
           /\ draft # 0 => r[Len(q)].id = q[Len(q)].id /\ r[Len(q)].text = draft
<1>1. Len(q) \in Nat /\ Len(q) > 0 /\ Len(q) - 1 \in Nat
  OBVIOUS
<1>2. PICK f : f = Input!Front(q)
  OBVIOUS
<1>3. f \in Seq(Prompts) /\ Len(f) = Len(q) - 1 /\ \A i \in 1..(Len(q) - 1) : f[i] = q[i]
  <2>1. f = SubSeq(q, 1, Len(q) - 1)
    BY <1>2 DEF Input!Front
  <2> QED
    <3>1. /\ 1 \in Int /\ Len(q) - 1 \in Int /\ (Len(q) - 1) - 1 + 1 = Len(q) - 1
          /\ \A i \in 1..(Len(q) - 1) : q[i] \in Prompts /\ 1 + i - 1 = i
      BY <1>1
    <3>2. PICK n \in Nat : n = Len(q) - 1
      BY <1>1
    <3>3. /\ f \in Seq(Prompts) /\ Len(f) = n /\ \A i \in 1..n : f[i] = q[i]
      <4>1. f = SubSeq(q, 1, n) /\ n \in Int /\ \A i \in 1..n : q[i] \in Prompts
        BY <2>1, <3>1, <3>2
      <4>2. /\ f \in Seq(Prompts) /\ Len(f) = IF 1 =< n THEN n - 1 + 1 ELSE 0
            /\ \A i \in 1..(n - 1 + 1) : f[i] = q[1 + i - 1]
        BY <3>1, <4>1, SubSeqProperties
      <4>3. n - 1 + 1 = n /\ (1 =< n \/ n = 0) /\ \A i \in 1..n : 1 + i - 1 = i
        OBVIOUS
      <4>4. Len(f) = n
        BY <4>2, <4>3
      <4> QED
        BY <4>2, <4>3, <4>4
    <3> QED
      BY <3>2, <3>3
<1>4. CASE draft = 0
  BY <1>2, <1>3, <1>4
<1>5. CASE draft # 0
  <2>1. q[Len(q)] \in Prompts /\ Input!Last(q) = q[Len(q)]
    BY <1>1 DEF Input!Last
  <2>2. PICK p \in Prompts : p = [id |-> q[Len(q)].id, text |-> draft]
    BY <1>5, <2>1 DEF Prompts
  <2>3. PICK r : r = Append(f, p)
    OBVIOUS
  <2>4. /\ r \in Seq(Prompts) /\ Len(r) = Len(q) /\ r[Len(q)] = p
        /\ \A i \in 1..(Len(q) - 1) : r[i] = f[i]
    BY <1>1, <1>3, <2>3
  <2>5. p.id = q[Len(q)].id /\ p.text = draft
    BY <2>2
  <2>6. r = Append(Input!Front(q), [id |-> Input!Last(q).id, text |-> draft])
    BY <1>2, <2>1, <2>2, <2>3
  <2> QED
    BY <1>3, <1>5, <2>4, <2>5, <2>6
<1> QED
  BY <1>4, <1>5

LEMMA Recalls ==
  ASSUME PromptInv, Input!RecallLatest
  PROVE  PromptInv'
<1>1. /\ phase \in {"idle", "turn"} /\ nav' = Input!NoNav /\ gone' = gone \cup {nav.saved}
      /\ Input!Waiting # 0 /\ Input!Last(queue).id # reserved
      /\ composer' = Input!Last(queue).text /\ queue' = Input!Recalled(composer)
      /\ UNCHANGED <<phase, entered, nextId, reserved, past, active, sent>>
  BY DEF Input!RecallLatest, Input!KeyRead, Input!Reads
<1>2. /\ entered \in 0..Len(Size) /\ past \in Seq(Written) /\ composer \in Written \cup {0}
      /\ queue \in Seq(Prompts) /\ nextId \in Nat /\ sent \in Nat /\ Len(queue) \in Nat
      /\ DOMAIN queue = 1..Len(queue) /\ Input!Last(queue) = queue[Len(queue)]
      /\ reserved = active.id /\ reserved \in Nat
  BY DEF PromptInv, DraftTyped, QueueTyped, FrontReserved, Input!Last
<1>3. nav'.on = FALSE /\ nav'.saved = 0 /\ nav' \in [on : BOOLEAN, offset : Nat, saved : Written \cup {0}]
  BY <1>1 DEF Input!NoNav
<1>4. queue # <<>> /\ Len(queue) > 0 /\ (active.id # 0 => Len(queue) > 1)
  <2>1. active.id # 0 => queue # <<>> /\ queue[1].id = active.id
    BY DEF PromptInv, FrontReserved
  <2>2. CASE active.id = 0
    BY <1>1, <1>2, <2>2 DEF Input!Waiting
  <2>3. CASE active.id # 0
    BY <1>1, <1>2, <2>1, <2>3
  <2> QED
    BY <2>2, <2>3
<1>5. PICK n \in Nat : n = Len(queue) - 1 /\ n + 1 = Len(queue)
  <2>1. Len(queue) - 1 \in Nat /\ (Len(queue) - 1) + 1 = Len(queue)
    BY <1>2, <1>4
  <2> QED
    BY <2>1
<1>6. /\ queue' \in Seq(Prompts) /\ Len(queue') = IF composer = 0 THEN n ELSE n + 1
      /\ \A i \in 1..n : queue'[i] = queue[i]
      /\ composer # 0 => queue'[n + 1].id = queue[n + 1].id /\ queue'[n + 1].text = composer
  <2>1. PICK r \in Seq(Prompts) :
          /\ r = IF composer = 0 THEN Input!Front(queue)
                 ELSE Append(Input!Front(queue), [id |-> Input!Last(queue).id, text |-> composer])
          /\ Len(r) = IF composer = 0 THEN Len(queue) - 1 ELSE Len(queue)
          /\ \A i \in 1..(Len(queue) - 1) : r[i] = queue[i]
          /\ composer # 0 =>
               r[Len(queue)].id = queue[Len(queue)].id /\ r[Len(queue)].text = composer
    BY <1>2, <1>4, RecalledQueue
  <2>2. queue' = r
    BY <1>1, <2>1 DEF Input!Recalled
  <2> QED
    BY <1>5, <2>1, <2>2
<1>7. queue[n + 1] \in Prompts /\ composer' = queue[n + 1].text /\ composer' \in Written
  <2>1. n + 1 \in 1..Len(queue) /\ composer' = queue[Len(queue)].text
    BY <1>1, <1>2, <1>5
  <2>2. queue[n + 1] \in Prompts
    BY <1>2, <2>1
  <2> QED
    BY <1>5, <2>1, <2>2 DEF Prompts
<1>8. DraftTyped' /\ QueueTyped'
  BY <1>1, <1>2, <1>3, <1>6, <1>7 DEF PromptInv, DraftTyped, QueueTyped
<1>9. Numbered'
  <2>1. \A i \in 1..Len(queue') : i \in 1..(n + 1) /\ queue'[i].id = queue[i].id
    <3>1. ASSUME NEW i \in 1..Len(queue') PROVE i \in 1..(n + 1) /\ queue'[i].id = queue[i].id
      <4>1. CASE composer = 0
        <5>1. i \in 1..n /\ n \in Nat
          BY <1>6, <4>1
        <5> QED
          BY <1>6, <5>1
      <4>2. CASE composer # 0
        <5>1. i \in 1..(n + 1) /\ n \in Nat
          BY <1>6, <4>2
        <5>2. i \in 1..n \/ i = n + 1
          BY <5>1
        <5> QED
          BY <1>6, <4>2, <5>1, <5>2
      <4> QED
        BY <4>1, <4>2
    <3> QED
      BY <3>1
  <2>2. UNCHANGED <<nextId, sent>>
    BY <1>1
  <2> QED
    BY <1>5, <2>1, <2>2 DEF PromptInv, Numbered
<1>10. active.id # 0 => queue' # <<>> /\ queue'[1] = queue[1]
  BY <1>4, <1>5, <1>6
<1>11. /\ active.text \in Input!Held' /\ nav.saved \in gone'
       /\ composer = 0 \/ composer \in Input!Held'
       /\ \A j \in 1..Len(queue) : queue[j].text \in Input!Held'
  <2>1. DOMAIN queue' = 1..Len(queue')
    BY <1>6
  <2>2. \A j \in 1..Len(queue') : queue'[j].text \in Input!Held'
    BY <2>1 DEF Input!Held
  <2>3. active.text \in Input!Held' /\ nav.saved \in gone' /\ composer' \in Input!Held'
    BY <1>1 DEF Input!Held
  <2>4. ASSUME composer # 0 PROVE composer \in Input!Held'
    <3>1. n + 1 \in 1..Len(queue')
      BY <1>5, <1>6, <2>4
    <3> QED
      BY <1>6, <2>2, <2>4, <3>1
  <2>5. ASSUME NEW j \in 1..Len(queue) PROVE queue[j].text \in Input!Held'
    <3>1. CASE j = n + 1
      BY <1>7, <2>3, <3>1
    <3>2. CASE j \in 1..n
      <4>1. j \in 1..Len(queue')
        BY <1>5, <1>6, <3>2
      <4> QED
        BY <1>6, <2>2, <3>2, <4>1
    <3> QED
      BY <1>5, <3>1, <3>2
  <2> QED
    BY <2>3, <2>4, <2>5
<1>12. NothingLost'
  BY <1>1, <1>11, NothingGoes
<1> QED
  BY <1>1, <1>3, <1>8, <1>9, <1>10, <1>12, KeysLeave

LEMMA PromptKeys ==
  ASSUME PromptInv, Input!Keys
  PROVE  PromptInv'
BY Typing, Looking, Enqueues, Recalls DEF Input!Keys

-----------------------------------------------------------------------------
(* Turns.                                                                    *)

\* A turn begins, goes on or ends: the queue and its numbers are left alone.
LEMMA TurnChanges ==
  ASSUME PromptInv, UNCHANGED <<entered, queue, nextId, past, sent>>,
         phase' \in {"idle", "draw", "turn", "over"}, phase' = "failed" => phase = "failed",
         reserved' = active'.id,
         active' \in [text : Written \cup {0}, id : Nat, committed : BOOLEAN],
         composer' \in Written \cup {0}, gone \subseteq gone',
         nav' = nav \/ nav' = Input!NoNav, nav'.on => composer' # 0 /\ composer' \in gone',
         FrontReserved', phase' = "draw" /\ active'.id = 0 => composer' = 0 /\ ~nav'.on,
         NothingLost'
  PROVE  PromptInv'
<1>1. DraftTyped /\ QueueTyped /\ Numbered /\ Looked
  BY DEF PromptInv
<1>2. nav' \in [on : BOOLEAN, offset : Nat, saved : Written \cup {0}] /\ (~nav'.on => nav'.saved = 0)
  <2>1. CASE nav' = nav
    BY <1>1, <2>1 DEF DraftTyped, Looked
  <2>2. CASE nav' = Input!NoNav
    BY <2>2 DEF Input!NoNav
  <2> QED
    BY <2>1, <2>2
<1>3. DraftTyped'
  BY <1>1, <1>2 DEF DraftTyped
<1>4. QueueTyped'
  BY <1>1 DEF QueueTyped
<1>5. Numbered'
  BY <1>1 DEF Numbered
<1>6. Looked'
  BY <1>1, <1>2 DEF Looked
<1> QED
  BY <1>3, <1>4, <1>5, <1>6 DEF PromptInv

\* Texts that stay where they are.
LEMMA QueueHeld ==
  ASSUME PromptInv, queue' = queue
  PROVE  /\ \A j \in 1..Len(queue) : queue[j].text \in Input!Held'
         /\ composer' \in Input!Held' /\ nav'.saved \in Input!Held' /\ active'.text \in Input!Held'
<1>1. DOMAIN queue = 1..Len(queue)
  BY DEF PromptInv, QueueTyped
<1> QED
  BY <1>1 DEF Input!Held

LEMMA TurnBegins ==
  ASSUME PromptInv, Input!ReserveFront \/ Input!SubmitDraft
  PROVE  PromptInv'
<1>1. /\ phase = "idle" /\ phase' = "draw" /\ UNCHANGED <<entered, queue, nextId, past, sent>>
      /\ gone \subseteq gone'
  BY DEF Input!ReserveFront, Input!SubmitDraft
<1>2. /\ active.text = 0 /\ active.id = 0 /\ reserved = 0
      /\ composer \in Written \cup {0} /\ queue \in Seq(Prompts) /\ Looked
  BY <1>1 DEF PromptInv, FrontReserved, DraftTyped, QueueTyped
<1>3. CASE Input!ReserveFront
  <2>1. /\ Input!Waiting # 0 /\ reserved' = Head(queue).id /\ UNCHANGED <<composer, nav, gone>>
        /\ active' = [text |-> Head(queue).text, id |-> Head(queue).id, committed |-> FALSE]
    BY <1>3 DEF Input!ReserveFront
  <2>2. queue # <<>> /\ queue[1] \in Prompts /\ Head(queue) = queue[1]
    <3>1. Len(queue) # 0 /\ Len(queue) \in Nat
      BY <1>2, <2>1 DEF Input!Waiting
    <3>2. 1 \in 1..Len(queue) /\ queue # <<>>
      BY <1>2, <3>1
    <3> QED
      BY <1>2, <3>2
  <2>3. PICK p \in Prompts : p = queue[1] /\ p.id \in Nat \ {0} /\ p.text \in Written /\ p.text # 0
    BY <2>2 DEF Prompts, Written
  <2>4. /\ active' = [text |-> p.text, id |-> p.id, committed |-> FALSE] /\ reserved' = p.id
        /\ active'.text = p.text /\ active'.id = p.id
        /\ active' \in [text : Written \cup {0}, id : Nat, committed : BOOLEAN]
    BY <2>1, <2>2, <2>3
  <2>5. p = [id |-> p.id, text |-> p.text]
    BY DEF Prompts
  <2>6. FrontReserved'
    BY <1>1, <2>2, <2>3, <2>4, <2>5 DEF FrontReserved
  <2>7. NothingLost'
    BY <1>1, <1>2, <2>1, QueueHeld, NothingGoes
  <2>8. active'.id # 0
    BY <2>3, <2>4
  <2> QED
    BY <1>1, <1>2, <2>1, <2>4, <2>6, <2>7, <2>8, TurnChanges DEF Looked
<1>4. CASE Input!SubmitDraft
  <2>1. /\ composer # 0 /\ active' = [text |-> composer, id |-> 0, committed |-> FALSE]
        /\ composer' = 0 /\ gone' = gone \cup {nav.saved} /\ nav' = Input!NoNav
        /\ reserved' = reserved
    BY <1>4 DEF Input!SubmitDraft
  <2>2. /\ active'.text = composer /\ active'.id = 0
        /\ active' \in [text : Written \cup {0}, id : Nat, committed : BOOLEAN]
        /\ ~nav'.on
    BY <1>2, <2>1 DEF Input!NoNav
  <2>3. FrontReserved'
    BY <1>1, <1>2, <2>1, <2>2 DEF FrontReserved
  <2>4. composer \in Input!Held' /\ nav.saved \in gone'
    BY <2>1, <2>2 DEF Input!Held
  <2>5. NothingLost'
    BY <1>1, <1>2, <2>4, QueueHeld, NothingGoes
  <2> QED
    BY <1>1, <1>2, <2>1, <2>2, <2>3, <2>5, TurnChanges
<1> QED
  BY <1>3, <1>4

LEMMA TurnGoesOn ==
  ASSUME PromptInv, Input!DockDrawn \/ Input!PromptCommitted
  PROVE  PromptInv'
<1>1. /\ phase \in {"draw", "turn"} /\ phase' = "turn"
      /\ UNCHANGED <<entered, composer, queue, nextId, reserved, past, nav, sent, gone>>
      /\ active' = active \/ active' = [active EXCEPT !.committed = TRUE]
  BY DEF Input!DockDrawn, Input!PromptCommitted, Input!memory
<1>2. /\ active \in [text : Written \cup {0}, id : Nat, committed : BOOLEAN]
      /\ composer \in Written \cup {0} /\ FrontReserved /\ Looked
  BY DEF PromptInv, QueueTyped, DraftTyped
<1>3. /\ active' \in [text : Written \cup {0}, id : Nat, committed : BOOLEAN]
      /\ active'.text = active.text /\ active'.id = active.id
  BY <1>1, <1>2
<1>4. FrontReserved'
  BY <1>1, <1>2, <1>3 DEF FrontReserved
<1>5. NothingLost'
  BY <1>1, <1>3, QueueHeld, NothingGoes
<1> QED
  BY <1>1, <1>2, <1>3, <1>4, <1>5, TurnChanges DEF Looked, FrontReserved

LEMMA TurnInterrupted ==
  ASSUME PromptInv, Input!DrawInterrupted
  PROVE  PromptInv'
<1>1. PICK back : back = IF active.id = 0 THEN active.text ELSE composer
  OBVIOUS
<1>2. /\ phase = "draw" /\ reserved' = 0 /\ active' = Input!NoTurn /\ phase' \in {"idle", "over"}
      /\ UNCHANGED <<entered, queue, nextId, past, sent>>
      /\ \/ composer' = back /\ UNCHANGED <<nav, gone>>
         \/ composer' = 0 /\ gone' = gone \cup {back, nav.saved} /\ nav' = Input!NoNav
  BY <1>1 DEF Input!DrawInterrupted
<1>3. /\ active \in [text : Written \cup {0}, id : Nat, committed : BOOLEAN]
      /\ composer \in Written \cup {0} /\ FrontReserved /\ Looked /\ queue \in Seq(Prompts)
  BY DEF PromptInv, QueueTyped, DraftTyped
<1>4. /\ active'.text = 0 /\ active'.id = 0 /\ back \in Written \cup {0}
      /\ active' \in [text : Written \cup {0}, id : Nat, committed : BOOLEAN]
  BY <1>1, <1>2, <1>3 DEF Input!NoTurn
<1>5. FrontReserved'
  BY <1>2, <1>4 DEF FrontReserved
<1>6. /\ composer = 0 \/ composer = back
      /\ active.text = back \/ \E j \in 1..Len(queue) : queue[j].text = active.text
  <2>1. CASE active.id = 0
    BY <1>1, <1>2, <1>3, <2>1 DEF Looked
  <2>2. CASE active.id # 0
    <3>1. queue # <<>> /\ queue[1].text = active.text
      BY <1>3, <2>2 DEF FrontReserved
    <3>2. 1 \in 1..Len(queue)
      BY <1>3, <3>1
    <3> QED
      BY <1>1, <2>2, <3>1, <3>2
  <2> QED
    BY <2>1, <2>2
<1>7. back \in Input!Held' \cup gone' /\ nav.saved \in Input!Held' \cup gone' /\ gone \subseteq gone'
  BY <1>2, QueueHeld
<1>8. NothingLost'
  BY <1>2, <1>6, <1>7, QueueHeld, NothingGoes
<1>9. nav'.on => composer' # 0 /\ composer' \in gone'
  <2>1. CASE nav' = Input!NoNav
    BY <2>1 DEF Input!NoNav
  <2>2. CASE composer' = back /\ UNCHANGED <<nav, gone>>
    <3>1. nav.on => active.id # 0
      BY <1>2, <1>3 DEF Looked
    <3> QED
      BY <1>1, <1>3, <2>2, <3>1 DEF Looked
  <2> QED
    BY <1>2, <2>1, <2>2
<1> QED
  BY <1>2, <1>4, <1>5, <1>7, <1>8, <1>9, TurnChanges

LEMMA TurnReleased ==
  ASSUME PromptInv, Input!ReleaseReserved \/ Input!Leave
  PROVE  PromptInv'
<1>1. /\ reserved' = 0 /\ phase' \in {"idle", "over"} /\ active' = Input!NoTurn
      /\ UNCHANGED <<entered, composer, queue, nextId, past, nav, sent>> /\ gone \subseteq gone'
      /\ phase # "failed"
  BY DEF Input!ReleaseReserved, Input!Leave
<1>2. /\ composer \in Written \cup {0} /\ FrontReserved /\ Looked /\ queue \in Seq(Prompts)
  BY DEF PromptInv, QueueTyped, DraftTyped
<1>3. /\ active'.text = 0 /\ active'.id = 0
      /\ active' \in [text : Written \cup {0}, id : Nat, committed : BOOLEAN]
  BY <1>1 DEF Input!NoTurn
<1>4. FrontReserved'
  BY <1>1, <1>3 DEF FrontReserved
<1>5. active.text \in gone' \/ \E j \in 1..Len(queue) : queue[j].text = active.text
  <2>1. CASE Input!Leave
    BY <2>1 DEF Input!Leave
  <2>2. CASE Input!ReleaseReserved
    <3>1. queue # <<>> /\ queue[1].text = active.text
      BY <1>2, <2>2 DEF FrontReserved, Input!ReleaseReserved
    <3>2. 1 \in 1..Len(queue)
      BY <1>2, <3>1
    <3> QED
      BY <3>1, <3>2
  <2> QED
    BY <2>1, <2>2
<1>6. NothingLost'
  BY <1>1, <1>5, QueueHeld, NothingGoes
<1> QED
  BY <1>1, <1>2, <1>3, <1>4, <1>6, TurnChanges DEF Looked

LEMMA DraftRestored ==
  ASSUME PromptInv, Input!RestoreDraft
  PROVE  PromptInv'
<1>1. /\ phase = "turn" /\ active.id = 0 /\ active' = Input!NoTurn
      /\ UNCHANGED <<entered, nextId, past, sent, gone>>
  BY DEF Input!RestoreDraft
<1>2. /\ active \in [text : Written \cup {0}, id : Nat, committed : BOOLEAN]
      /\ composer \in Written \cup {0} /\ FrontReserved /\ Looked /\ DraftTyped /\ QueueTyped
      /\ Numbered
  BY DEF PromptInv, QueueTyped, DraftTyped
<1>3. /\ active'.text = 0 /\ active'.id = 0
      /\ active' \in [text : Written \cup {0}, id : Nat, committed : BOOLEAN]
  BY <1>1 DEF Input!NoTurn
<1>4. CASE composer = 0
  <2>1. /\ phase' = "idle" /\ composer' = active.text /\ UNCHANGED <<queue, reserved, nav>>
    BY <1>4 DEF Input!RestoreDraft
  <2>2. FrontReserved'
    BY <1>1, <1>2, <1>3, <2>1 DEF FrontReserved
  <2>3. NothingLost'
    BY <1>1, <1>4, <2>1, QueueHeld, NothingGoes
  <2>4. ~nav'.on
    BY <1>2, <1>4, <2>1 DEF Looked
  <2>5. reserved' = active'.id
    BY <1>1, <1>2, <1>3, <2>1 DEF FrontReserved
  <2> QED
    BY <1>1, <1>2, <1>3, <2>1, <2>2, <2>3, <2>4, <2>5, TurnChanges
<1>5. CASE composer # 0
  <2>1. phase' = "failed" /\ composer' = 0 /\ queue' = <<>> /\ nav' = Input!NoNav /\ reserved' = 0
    BY <1>5 DEF Input!RestoreDraft
  <2>2. nav'.on = FALSE /\ nav'.saved = 0 /\ nav' \in [on : BOOLEAN, offset : Nat, saved : Written \cup {0}]
    BY <2>1 DEF Input!NoNav
  <2>3. DraftTyped' /\ QueueTyped'
    BY <1>1, <1>2, <1>3, <2>1, <2>2 DEF DraftTyped, QueueTyped
  <2>4. Numbered' /\ FrontReserved' /\ NothingLost'
    BY <1>1, <1>2, <1>3, <2>1 DEF Numbered, FrontReserved, NothingLost
  <2>5. Looked'
    BY <1>1, <1>2, <2>1, <2>2 DEF Looked
  <2> QED
    BY <2>3, <2>4, <2>5 DEF PromptInv
<1> QED
  BY <1>4, <1>5

-----------------------------------------------------------------------------
(* What a settled prompt leaves behind.                                      *)

\* The history after a prompt holds that prompt and what was there.
LEMMA HistoryGrows ==
  ASSUME past \in Seq(Written), NEW text \in Written
  PROVE  \E h \in Seq(Written) :
           /\ h = Input!Recorded(text)
           /\ \A i \in 1..Len(h) : h[i] = text \/ \E j \in 1..Len(past) : h[i] = past[j]
<1> DEFINE T == {k \in 0..Len(past) : Input!Fits(Input!Kept(k), text)}
<1>1. Len(past) \in Nat /\ \A j \in 1..Len(past) : past[j] \in Written
  OBVIOUS
<1>2. Len(past) \in T
  <2>1. Input!Kept(Len(past)) = <<>>
    <3>1. SubSeq(past, Len(past) + 1, Len(past)) = <<>>
      BY <1>1, SubSeqEmpty
    <3> QED
      BY <3>1 DEF Input!Kept
  <2>2. Input!Fits(Input!Kept(Len(past)), text)
    BY <2>1, Zenon DEF Input!Fits
  <2>3. Len(past) \in 0..Len(past)
    BY <1>1
  <2> QED
    BY <2>2, <2>3
<1>3. PICK k \in 0..Len(past) : k = Input!Min(T)
  <2>1. T \subseteq Nat /\ T # {} /\ T \subseteq 0..Len(past)
    BY <1>1, <1>2
  <2> HIDE DEF T
  <2>2. \E x \in T : \A y \in T : x <= y
    BY <2>1, Least
  <2>3. Input!Min(T) \in T
    BY <2>2 DEF Input!Min
  <2> QED
    BY <2>1, <2>3
<1>4. Input!Recorded(text) = Append(Input!Kept(k), text)
  BY <1>3 DEF Input!Recorded
<1>5. PICK rest : rest = SubSeq(past, k + 1, Len(past))
  OBVIOUS
<1>6. rest \in Seq(Written) /\ \A i \in 1..Len(rest) : \E j \in 1..Len(past) : rest[i] = past[j]
  <2>1. k \in Nat /\ k =< Len(past) /\ k + 1 \in Int /\ Len(past) \in Int
        /\ \A i \in (k + 1)..Len(past) : past[i] \in Written
    BY <1>1
  <2>2. /\ rest \in Seq(Written)
        /\ Len(rest) = IF k + 1 =< Len(past) THEN Len(past) - (k + 1) + 1 ELSE 0
        /\ \A i \in 1..(Len(past) - (k + 1) + 1) : rest[i] = past[k + 1 + i - 1]
    BY <1>5, <2>1, SubSeqProperties
  <2>3. ASSUME NEW i \in 1..Len(rest) PROVE \E j \in 1..Len(past) : rest[i] = past[j]
    <3>1. k + 1 =< Len(past)
      BY <1>1, <2>1, <2>2
    <3>2. i \in 1..(Len(past) - (k + 1) + 1) /\ k + 1 + i - 1 \in 1..Len(past)
      BY <1>1, <2>1, <2>2, <3>1
    <3> QED
      BY <2>2, <3>2
  <2> QED
    BY <2>2, <2>3
<1>7. PICK h : h = Append(rest, text)
  OBVIOUS
<1>8. h \in Seq(Written) /\ \A i \in 1..Len(h) : h[i] = text \/ \E j \in 1..Len(past) : h[i] = past[j]
  <2>1. h \in Seq(Written) /\ Len(h) = Len(rest) + 1 /\ Len(rest) \in Nat
        /\ h[Len(rest) + 1] = text /\ \A i \in 1..Len(rest) : h[i] = rest[i]
    BY <1>6, <1>7
  <2>2. ASSUME NEW i \in 1..Len(h) PROVE i = Len(rest) + 1 \/ i \in 1..Len(rest)
    BY <2>1
  <2> QED
    BY <1>6, <2>1, <2>2
<1>9. h = Input!Recorded(text)
  BY <1>4, <1>5, <1>7 DEF Input!Kept
<1> QED
  BY <1>8, <1>9

\* A prompt of the queue leaves it, with its number behind those that still wait.
LEMMA FrontLeaves ==
  ASSUME PromptInv, active.id # 0, queue' = Tail(queue), sent' = active.id, nextId' = nextId
  PROVE  /\ queue' \in Seq(Prompts) /\ Numbered' /\ sent' \in Nat
         /\ \A j \in 1..Len(queue) : queue[j].text = active.text
                                     \/ \E i \in 1..Len(queue') : queue'[i] = queue[j]
<1>1. /\ queue \in Seq(Prompts) /\ queue # <<>> /\ Len(queue) \in Nat /\ queue[1].id = active.id
      /\ queue[1].text = active.text /\ nextId \in Nat /\ active.id \in Nat /\ Numbered
  BY DEF PromptInv, QueueTyped, FrontReserved
<1>2. /\ queue' \in Seq(Prompts) /\ Len(queue') = Len(queue) - 1
      /\ \A i \in 1..Len(queue') : queue'[i] = queue[i + 1]
  BY <1>1
<1>3. /\ 1 \in 1..Len(queue)
      /\ \A i \in 1..Len(queue') : i + 1 \in 1..Len(queue) /\ 1 < i + 1
      /\ \A j \in 1..Len(queue) : j = 1 \/ (j - 1 \in 1..Len(queue') /\ (j - 1) + 1 = j)
  BY <1>1, <1>2
<1>4. Numbered'
  <2>1. sent' =< nextId'
    BY <1>1, <1>3 DEF Numbered
  <2>2. \A i \in 1..Len(queue') : sent' < queue'[i].id /\ queue'[i].id =< nextId'
    BY <1>1, <1>2, <1>3 DEF Numbered
  <2>3. ASSUME NEW i \in 1..Len(queue'), NEW k \in 1..Len(queue'), i < k
        PROVE  queue'[i].id < queue'[k].id
    <3>1. i + 1 \in 1..Len(queue) /\ k + 1 \in 1..Len(queue) /\ i + 1 < k + 1
      BY <1>3, <2>3
    <3> QED
      BY <1>1, <1>2, <3>1 DEF Numbered
  <2> QED
    BY <2>1, <2>2, <2>3 DEF Numbered
<1>5. ASSUME NEW j \in 1..Len(queue)
      PROVE  queue[j].text = active.text \/ \E i \in 1..Len(queue') : queue'[i] = queue[j]
  <2>1. CASE j = 1
    BY <1>1, <2>1
  <2>2. CASE j # 1
    <3>1. j - 1 \in 1..Len(queue') /\ queue'[j - 1] = queue[j]
      BY <1>2, <1>3, <2>2
    <3> QED
      BY <3>1
  <2> QED
    BY <2>1, <2>2
<1> QED
  BY <1>1, <1>2, <1>4, <1>5

LEMMA Settles ==
  ASSUME PromptInv, Input!SettleCommitted
  PROVE  PromptInv'
<1>1. /\ phase = "turn" /\ phase' = "idle" /\ active' = Input!NoTurn
      /\ past' = Input!Recorded(active.text) /\ nav' = Input!RebasedNav
      /\ gone' = gone \cup {active.text} /\ UNCHANGED <<entered, composer, nextId>>
      /\ active.id = 0 => UNCHANGED <<queue, reserved, sent>>
      /\ active.id # 0 => queue' = Tail(queue) /\ reserved' = 0 /\ sent' = active.id
  BY DEF Input!SettleCommitted
<1>2. /\ DraftTyped /\ QueueTyped /\ Numbered /\ FrontReserved /\ Looked
      /\ past \in Seq(Written) /\ active.text \in Written
      /\ composer \in Written \cup {0}
      /\ nav \in [on : BOOLEAN, offset : Nat, saved : Written \cup {0}]
  BY <1>1 DEF PromptInv, DraftTyped, QueueTyped, FrontReserved
<1>3. /\ past' \in Seq(Written)
      /\ \A i \in 1..Len(past') : past'[i] = active.text \/ \E j \in 1..Len(past) : past'[i] = past[j]
  BY <1>1, <1>2, HistoryGrows
<1>4. /\ nav' \in [on : BOOLEAN, offset : Nat, saved : Written \cup {0}]
      /\ nav'.on = nav.on /\ nav'.saved = nav.saved
  <2>1. CASE nav.on
    <3>1. nav' = [nav EXCEPT !.offset = nav.offset + 1]
      BY <1>1, <2>1 DEF Input!RebasedNav
    <3>2. nav.offset + 1 \in Nat
      BY <1>2
    <3> QED
      BY <1>2, <3>1, <3>2
  <2>2. CASE ~nav.on
    BY <1>1, <1>2, <2>2 DEF Input!RebasedNav
  <2> QED
    BY <2>1, <2>2
<1>5. /\ active'.text = 0 /\ active'.id = 0
      /\ active' \in [text : Written \cup {0}, id : Nat, committed : BOOLEAN]
  BY <1>1 DEF Input!NoTurn
<1>6. /\ queue' \in Seq(Prompts) /\ Numbered' /\ sent' \in Nat /\ reserved' = 0
      /\ \A j \in 1..Len(queue) : queue[j].text = active.text
                                  \/ \E i \in 1..Len(queue') : queue'[i] = queue[j]
  <2>1. CASE active.id = 0
    <3>1. UNCHANGED <<queue, reserved, sent, nextId>>
      BY <1>1, <2>1
    <3> QED
      BY <1>2, <2>1, <3>1 DEF QueueTyped, Numbered, FrontReserved
  <2>2. CASE active.id # 0
    BY <1>1, <2>2, FrontLeaves
  <2> QED
    BY <2>1, <2>2
<1>7. DraftTyped'
  BY <1>1, <1>2, <1>3, <1>4 DEF DraftTyped
<1>8. QueueTyped'
  BY <1>1, <1>2, <1>5, <1>6 DEF QueueTyped
<1>9. FrontReserved'
  BY <1>1, <1>5, <1>6 DEF FrontReserved
<1>10. Looked'
  <2>1. \A i \in 1..Len(past') : past'[i] \in gone'
    BY <1>1, <1>2, <1>3 DEF Looked
  <2> QED
    BY <1>1, <1>2, <1>4, <2>1 DEF Looked
<1>11. NothingLost'
  <2>1. DOMAIN queue' = 1..Len(queue')
    BY <1>6
  <2>2. composer \in Input!Held' /\ nav.saved \in Input!Held' /\ active.text \in gone'
    BY <1>1, <1>4 DEF Input!Held
  <2>3. \A j \in 1..Len(queue') : queue'[j].text \in Input!Held'
    BY <2>1 DEF Input!Held
  <2>4. \A j \in 1..Len(queue) : queue[j].text \in Input!Held' \cup gone'
    BY <1>6, <2>2, <2>3
  <2> QED
    BY <1>1, <2>2, <2>4, NothingGoes
<1> QED
  BY <1>6, <1>7, <1>8, <1>9, <1>10, <1>11 DEF PromptInv

LEMMA PromptTurns ==
  ASSUME PromptInv, Input!Turns
  PROVE  PromptInv'
BY TurnBegins, TurnGoesOn, TurnInterrupted, Settles, TurnReleased, DraftRestored DEF Input!Turns

LEMMA PromptKeeps ==
  ASSUME PromptInv, [Input!Next]_inputVars
  PROVE  PromptInv'
<1>1. CASE Input!Next
  BY <1>1, PromptKeys, PromptTurns DEF Input!Next
<1>2. CASE UNCHANGED inputVars
  <2>1. /\ entered' = entered /\ composer' = composer /\ nav' = nav /\ past' = past
        /\ phase' = phase /\ queue' = queue /\ nextId' = nextId /\ reserved' = reserved
        /\ sent' = sent /\ active' = active /\ gone' = gone
    BY <1>2 DEF inputVars
  <2>2. DraftTyped' /\ QueueTyped' /\ Numbered'
    BY <2>1 DEF PromptInv, DraftTyped, QueueTyped, Numbered
  <2>3. FrontReserved' /\ Looked' /\ NothingLost'
    BY <2>1 DEF PromptInv, FrontReserved, Looked, NothingLost, Input!Held
  <2> QED
    BY <2>2, <2>3 DEF PromptInv
<1> QED
  BY <1>1, <1>2

LEMMA PromptTells ==
  ASSUME PromptInv
  PROVE  Input!PromptsKept
<1>1. DOMAIN queue = 1..Len(queue) /\ queue \in Seq(Prompts)
  BY DEF PromptInv, QueueTyped
<1>2. /\ \A i \in DOMAIN queue : sent < queue[i].id
      /\ \A i, k \in DOMAIN queue : i < k => queue[i].id < queue[k].id
  BY <1>1 DEF PromptInv, Numbered
<1>3. ASSUME active.id # 0
      PROVE  reserved = active.id /\ queue # <<>>
             /\ Head(queue) = [id |-> reserved, text |-> active.text]
  BY <1>1, <1>3 DEF PromptInv, FrontReserved
<1> QED
  BY <1>2, <1>3 DEF PromptInv, NothingLost, Input!PromptsKept

LEMMA FrontSteps ==
  ASSUME [FrontNext]_frontVars
  PROVE  [Input!Next]_inputVars
BY DEF FrontNext, Turns, Keys, Prepares, frontVars

-----------------------------------------------------------------------------
(* The invariant of what is typed.                                           *)

\* The composition takes the turn's steps and no other of its own.
THEOREM FrontTakesTurns == FrontSpec => Spec
<1>1. FrontInit => Init
  BY DEF FrontInit
<1>2. [FrontNext]_frontVars => [Next]_vars
  BY DEF FrontNext, Types, Turns, Keys, Prepares, frontVars
<1> QED
  BY <1>1, <1>2, PTL DEF FrontSpec, Spec

\* What the composer, the queue, the history and the turn hold fits together,
\* whatever keys are read and whichever way the turns end (run_enhanced).
THEOREM PromptInvariant == FrontSpec => []PromptInv
<1>1. FrontInit => PromptInv
  BY PromptBegins DEF FrontInit
<1>2. PromptInv /\ [FrontNext]_frontVars => PromptInv'
  BY FrontSteps, PromptKeeps
<1> QED
  BY <1>1, <1>2, PTL DEF FrontSpec

\* No text that was typed is lost while the loop's own bookkeeping holds, for any
\* sizes and limits of the queue and the history; what was queued is sent once,
\* the oldest first, and a turn holds the front of the queue (settle_enhanced_prompt).
THEOREM PromptsStay == FrontSpec => []PromptsKept
<1>1. PromptInv => PromptsKept
  BY PromptTells DEF PromptsKept
<1> QED
  BY <1>1, PromptInvariant, PTL

=============================================================================
