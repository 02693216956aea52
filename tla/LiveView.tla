------------------------------- MODULE LiveView -------------------------------
(***************************************************************************)
(* What the live view makes of the committed rows of a durable session:    *)
(* the projector of cards (src/src/tui/projector.rs), the renderer of the  *)
(* answer (src/src/cli/live.rs) and its markup.  The rows are those the    *)
(* grammar of SessionProjection accepts; each is seen as it is committed   *)
(* (InteractiveTurn has the channel between the two).                      *)
(*                                                                         *)
(* A text delta is the number of its row in the step; the text of a block  *)
(* is the sequence of its deltas, so two texts are equal when they are     *)
(* made of the same rows.  Block 0 is the block of an answer that is too   *)
(* large to be told by blocks.                                             *)
(***************************************************************************)
EXTENDS SessionProjection, SequencesExt

CONSTANTS Kinds,      \* the kinds of the content blocks: "text" or "reasoning"
          MaxDeltas,  \* bound: deltas of one step
          MaxKept,    \* MAX_ATTEMPT_TEXT_BYTES: deltas the renderer keeps
          MaxIndexed  \* MAX_INDEXED_ASSISTANT_BYTES: deltas of an indexed answer

VARIABLES told,    \* the deltas of the attempt, as the session has them
          rows,    \* deltas of the step
          answer,  \* the committed message of the step
          view,    \* UiProjector and the AttemptState of the LiveRenderer
          screen   \* what was written for the step, and the open markup

viewVars == <<log, told, rows, answer, view, screen>>

Blocks == DOMAIN Kinds
OfBlock(deltas, b) == SelectSeq(deltas, LAMBDA d : d.block = b)
NoAnswer == <<>>
NoAttempt == [step |-> 0, kept |-> <<>>, degraded |-> FALSE]
NewAttempt(s) == [NoAttempt EXCEPT !.step = s]
NoCard == [state |-> "none", result |-> FALSE]
NoCards == [s \in Steps |-> [c \in Calls |-> NoCard]]
NoLinks == [a \in Approvals |-> [step |-> 0, call |-> "none"]]
Quiet == [call |-> "none", step |-> 0]

EmptyView ==
  [attempt |-> NoAttempt, cards |-> NoCards, link |-> NoLinks, notice |-> Quiet,
   conflicts |-> 0, compaction |-> "none", pending |-> "none", orphans |-> 0]
EmptyScreen ==
  [text |-> [b \in Blocks \cup {0} |-> <<>>],  \* since the last line that starts anew
   key |-> -1, run |-> <<>>,                   \* markup_key and what it was given
   formatted |-> {}]                           \* runs that were finished as markup

InitView ==
  /\ Init /\ told = <<>> /\ rows = 0 /\ answer = NoAnswer
  /\ view = EmptyView /\ screen = EmptyScreen

-----------------------------------------------------------------------------
(* The markup of the terminal.                                             *)

Abort(sc) == [sc EXCEPT !.key = -1, !.run = <<>>]
Write(sc, b, deltas) ==
  LET keyed == IF sc.key = b THEN sc ELSE [Abort(sc) EXCEPT !.key = b] IN
  IF deltas = <<>> THEN sc
  ELSE IF b # 0 /\ Kinds[b] = "reasoning"
       THEN [sc EXCEPT !.text[b] = @ \o deltas]
       ELSE [keyed EXCEPT !.text[b] = @ \o deltas, !.run = @ \o deltas]
Finish(sc, b) ==
  IF sc.key # b \/ (b # 0 /\ Kinds[b] = "reasoning") THEN sc
  ELSE [Abort(sc) EXCEPT !.formatted = @ \cup {[block |-> b, run |-> sc.run]}]

\* "[final answer corrected]", "[final answer restated]", a scheduled retry:
\* what follows the line replaces what stands above it.
Anew(sc) == [Abort(sc) EXCEPT !.text = EmptyScreen.text]

Line(sc) == Abort(sc)

-----------------------------------------------------------------------------
(* The answer: deltas as they come, the message against them.              *)

Retain(attempt, d) ==
  IF attempt.degraded THEN attempt
  ELSE IF Len(attempt.kept) >= MaxKept
       THEN [attempt EXCEPT !.kept = <<>>, !.degraded = TRUE]
       ELSE [attempt EXCEPT !.kept = Append(@, d)]

RetainDelta(attempt, s, d) ==
  Retain(IF attempt.step = s THEN attempt ELSE NewAttempt(s), d)

\* StreamedBlock::compare: a fragment that is not a source of the message, or
\* whose text is not next in the block, is a mismatch.
Mismatch_TextOnly(kept, b, message) ==
  Len(OfBlock(kept, b)) > Len(OfBlock(message, b))
Mismatch(kept, b, message) ==
  \/ \E i \in DOMAIN kept : kept[i].block = b /\ kept[i] \notin ToSet(message)
  \/ ~IsPrefix(OfBlock(kept, b), OfBlock(message, b))

\* push_authoritative_block, for every block from the first.
WriteAll(sc, from) ==
  FoldLeft(LAMBDA acc, b : Finish(Write(acc, b, from[b]), b), sc, [b \in Blocks |-> b])

WholeText(message) ==
  SelectSeq(message, LAMBDA d : Kinds[d.block] = "text")

\* LiveRenderer::final_frame, written by the presenter.
FinalFrame(sc, attempt, s, message) ==
  LET mine == IF attempt.step = s THEN attempt ELSE NoAttempt
      text == [b \in Blocks |-> OfBlock(message, b)]
      rest == [b \in Blocks |->
                 SubSeq(text[b], Len(OfBlock(mine.kept, b)) + 1, Len(text[b]))]
  IN  IF Len(message) > MaxIndexed
      THEN Finish(Write(Anew(sc), 0, WholeText(message)), 0)
      ELSE IF mine.degraded \/ \E b \in Blocks : Mismatch(mine.kept, b, message)
           THEN WriteAll(Anew(sc), text)
           ELSE WriteAll(sc, rest)

-----------------------------------------------------------------------------
(* The cards.                                                              *)

Terminal == {"Completed", "Failed", "Denied", "Cancelled", "Unavailable", "OutcomeUnknown"}
Live == {"Preparing", "AwaitingApproval", "Allowed"}
Refused == {"Denied", "Cancelled", "Unavailable"}

AfterDecision == [allowed |-> "Allowed", rejected |-> "Denied",
                  cancelled |-> "Cancelled", unavailable |-> "Unavailable"]

\* request_tool: the same call of the same step keeps its first card.
RequestTool(v, s, c) ==
  IF v.cards[s][c] # NoCard THEN [v EXCEPT !.conflicts = @ + 1]
  ELSE [v EXCEPT !.cards[s][c] = [NoCard EXCEPT !.state = "Preparing"],
                 !.notice = [call |-> c, step |-> s]]

SetToolState(v, s, c, state) ==
  IF v.cards[s][c].state \in Terminal \cup {"none"} THEN v
  ELSE [v EXCEPT !.cards[s][c].state = state]

\* link_approval: the call the question names must be the only one with that
\* id which is not settled.
Candidates_AnyState(v, c) == {s \in Steps : v.cards[s][c] # NoCard}
Candidates(v, c) ==
  {s \in Steps : v.cards[s][c].state \notin Terminal \cup {"none"}}
LinkApproval(v, a, c) ==
  IF v.link[a].step # 0 \/ Cardinality(Candidates(v, c)) > 1
  THEN [v EXCEPT !.conflicts = @ + 1]
  ELSE IF Candidates(v, c) = {} THEN v
  ELSE LET s == CHOOSE x \in Candidates(v, c) : TRUE IN
       SetToolState([v EXCEPT !.link[a] = [step |-> s, call |-> c]], s, c, "AwaitingApproval")

Decide(v, a, outcome) ==
  LET l == v.link[a] IN
  IF l.step = 0 THEN v ELSE SetToolState(v, l.step, l.call, AfterDecision[outcome])

\* The order of the cards is not kept: the newest of some is any of them.
CardsIn(v, states) ==
  {x \in [step : Steps, call : Calls] :
     v.cards[x.step][x.call].state \in states /\ ~v.cards[x.step][x.call].result}
Newest(found, otherwise) == IF found = {} THEN {otherwise} ELSE found

\* finish_tool: a refusal stays what the card says.
Settled(state, code) ==
  IF state \in Refused THEN state
  ELSE IF code = "unknown" THEN "OutcomeUnknown"
  ELSE IF code = "ok" THEN "Completed" ELSE "Failed"
FinishTool(v, s, c, code) ==
  LET card == v.cards[s][c] IN
  IF card.result \/ card.state = "OutcomeUnknown" THEN [v EXCEPT !.conflicts = @ + 1]
  ELSE [v EXCEPT !.cards[s][c] = [state |-> Settled(card.state, code), result |-> TRUE]]

\* TurnEnd: what has no result and no decision against it is unknown.
CloseCards(cards) ==
  [s \in Steps |-> [c \in Calls |->
     IF cards[s][c].state \in Live THEN [cards[s][c] EXCEPT !.state = "OutcomeUnknown"]
     ELSE cards[s][c]]]

\* resolve_pending_prune, for every row that is not the rewrite itself.
Seen(v) ==
  [v EXCEPT !.pending = "none", !.orphans = @ + (IF v.pending = "none" THEN 0 ELSE 1)]

-----------------------------------------------------------------------------
(* A row is committed and seen.                                            *)

SeeTurnStart ==
  /\ TurnStart /\ view' = [EmptyView EXCEPT !.attempt = view.attempt]
  /\ screen' = screen /\ UNCHANGED <<told, rows, answer>>

SeeTurnEnd ==
  /\ TurnEnd
  /\ view' = [Seen(view) EXCEPT !.attempt = NoAttempt, !.notice = Quiet,
                                !.cards = CloseCards(@)]
  /\ screen' = Line(screen) /\ UNCHANGED <<told, rows, answer>>

SeeStepStart ==
  \E t \in Turns, s \in Steps :
    /\ CanStepStart(log, t, s) /\ log' = AfterStepStart(log, s)
    /\ view' = [Seen(view) EXCEPT !.attempt = NewAttempt(s)]
    /\ told' = <<>> /\ rows' = 0 /\ answer' = NoAnswer /\ screen' = EmptyScreen

SeeStepEnd ==
  \E t \in Turns, s \in Steps, disposition \in Dispositions \cup {"none"} :
    /\ CanStepEnd(log, t, s, disposition) /\ log' = AfterStepEnd(log, s)
    /\ view' = [Seen(view) EXCEPT !.attempt = IF @.step = s THEN NoAttempt ELSE @]
    /\ screen' = Abort(screen) /\ UNCHANGED <<told, rows, answer>>

SeeDelta ==
  \E t \in Turns, s \in Steps, b \in Blocks :
    /\ rows < MaxDeltas
    /\ CanChunk(log, t, s, TRUE) /\ log' = AfterChunk(log, "more", TRUE)
    /\ LET d == [block |-> b, row |-> rows + 1] IN
       /\ told' = Append(IF log.attempt = "ready" THEN <<>> ELSE told, d)
       /\ view' = [Seen(view) EXCEPT !.attempt = RetainDelta(@, s, d)]
       /\ screen' = Write(screen, b, <<d>>)
    /\ rows' = rows + 1 /\ UNCHANGED answer

\* The chunk that finishes the stream says nothing that is shown.
SeeFinish ==
  \E t \in Turns, s \in Steps, finish \in {"ok"} \cup Failures :
    /\ CanChunk(log, t, s, TRUE) /\ log' = AfterChunk(log, finish, TRUE)
    /\ told' = IF log.attempt = "ready" THEN <<>> ELSE told
    /\ view' = Seen(view) /\ UNCHANGED <<rows, answer, screen>>

SeeAssistant ==
  \E t \in Turns, s \in Steps, calls \in CallLists :
    /\ CanAssistant(log, t, s, calls, TRUE) /\ log' = AfterAssistant(log, calls, TRUE)
    /\ answer' = told
    /\ screen' = FinalFrame(screen, view.attempt, s, told)
    /\ view' = [Seen(view) EXCEPT !.attempt = NoAttempt]
    /\ UNCHANGED <<told, rows>>

SeeRetry ==
  \E t \in Turns, s \in Steps, n \in 1..MaxRetries :
    /\ CanRetry(log, t, s, n, TRUE) /\ log' = AfterRetry(log, t, s, n, TRUE)
    /\ view' = [Seen(view) EXCEPT !.attempt = NoAttempt]
    /\ screen' = Anew(screen) /\ UNCHANGED <<told, rows, answer>>

SeeRetryStarted ==
  /\ LlmRetryStarted /\ view' = Seen(view) /\ screen' = Line(screen)
  /\ UNCHANGED <<told, rows, answer>>

SeeToolCall ==
  \E t \in Turns, s \in Steps, c \in Calls :
    /\ CanToolCall(log, t, s, c) /\ log' = AfterToolCall(log, c)
    /\ view' = RequestTool(Seen(view), s, c)
    /\ screen' = Line(screen) /\ UNCHANGED <<told, rows, answer>>

SeeAsked ==
  \E a \in Approvals, c \in Calls :
    /\ CanAsk(log, a, c) /\ log' = AfterAsk(log, a, c)
    /\ view' = LinkApproval(Seen(view), a, c)
    /\ UNCHANGED <<told, rows, answer, screen>>

\* The notice: the newest call that is allowed, or that the refusal is being
\* recorded.
SeeDecided ==
  \E a \in Approvals, outcome \in Outcomes :
    /\ CanDecide(log, a) /\ log' = AfterDecide(log, a, outcome)
    /\ LET v == Decide(Seen(view), a, outcome) IN
       \E next \in IF outcome = "allowed" THEN Newest(CardsIn(v, {"Allowed"}), v.notice)
                   ELSE {v.link[a]} : view' = [v EXCEPT !.notice = next]
    /\ screen' = Line(screen) /\ UNCHANGED <<told, rows, answer>>

\* An error the log knows as one may be TOOL_OUTCOME_UNKNOWN.
SeeToolResult ==
  \E t \in Turns, s \in Steps, c \in Calls, code \in Codes, unknown \in BOOLEAN :
    /\ CanToolResult(log, t, s, c, code) /\ log' = AfterToolResult(log, c, code)
    /\ unknown => code = "error"
    /\ LET v == FinishTool(Seen(view), s, c, IF unknown THEN "unknown" ELSE code) IN
       \E next \in Newest(CardsIn(v, Live), Quiet) : view' = [v EXCEPT !.notice = next]
    /\ screen' = Line(screen) /\ UNCHANGED <<told, rows, answer>>

SeePrune ==
  \E c \in Calls, closes \in BOOLEAN :
    /\ Row(log).orphans < MaxOrphans
    /\ CanPrune(log, c, TRUE, closes) /\ log' = AfterPrune(log, c, closes)
    /\ view' = [Seen(view) EXCEPT !.pending = c]
    /\ UNCHANGED <<told, rows, answer, screen>>

SeeRewrite ==
  \E c \in Calls :
    /\ CanRewrite(log, c, TRUE) /\ log' = AfterRewrite(log)
    /\ view' = (IF c = view.pending THEN [view EXCEPT !.pending = "none"] ELSE Seen(view))
    /\ UNCHANGED <<told, rows, answer, screen>>

SeeCompaction ==
  /\ UNCHANGED <<told, rows, answer, screen>>
  /\ \/ CompactionStart /\ view' = [Seen(view) EXCEPT !.compaction = "Started"]
     \/ CompactionSummary /\ view' = [Seen(view) EXCEPT !.compaction = "Summarized"]
     \/ Checkpoint /\ view' = Seen(view)
     \/ \E success \in BOOLEAN :
          /\ CanCompactionEnd(log, success) /\ log' = AfterCompactionEnd(log)
          /\ view' = [Seen(view) EXCEPT !.compaction = IF success THEN "Completed" ELSE "Failed"]

\* Rows that are not shown, and the two changes of the attempt that are no rows.
SeeOther ==
  /\ UNCHANGED <<told, rows, answer, screen>>
  /\ \/ Note /\ view' = Seen(view)
     \/ (Dispatch \/ Seal) /\ UNCHANGED view

SeeNext ==
  \/ SeeTurnStart \/ SeeTurnEnd \/ SeeStepStart \/ SeeStepEnd
  \/ SeeDelta \/ SeeFinish \/ SeeAssistant \/ SeeRetry \/ SeeRetryStarted
  \/ SeeToolCall \/ SeeAsked \/ SeeDecided \/ SeeToolResult
  \/ SeePrune \/ SeeRewrite \/ SeeCompaction \/ SeeOther

ViewSpec == InitView /\ [][SeeNext]_viewVars

-----------------------------------------------------------------------------
(* Properties.                                                             *)

\* When the message of a step is committed, every block of it stands on the
\* screen exactly once since the last line that starts anew, or its whole text
\* does; what a failed attempt left is above such a line.
AnswerShownIsCommitted ==
  answer # NoAnswer =>
    \/ \A b \in Blocks : screen.text[b] = OfBlock(answer, b)
    \/ screen.text[0] = WholeText(answer) /\ \A b \in Blocks : screen.text[b] = <<>>

\* Only committed text is laid out as markup, and no markup stays open after
\* the message, so nothing later is read as its continuation.
OnlyCommittedIsFormatted ==
  /\ \A f \in screen.formatted :
       answer # NoAnswer /\ IsSuffix(f.run, IF f.block = 0 THEN WholeText(answer)
                                            ELSE OfBlock(answer, f.block))
  /\ log.turn = 0 => screen.key = -1

\* What the grammar of the log knows of a call that has begun.
StateOf(call) ==
  CASE call.approval = "pending" -> {"AwaitingApproval"}
    [] call.approval \in Outcomes \ {"allowed"} -> {AfterDecision[call.approval]}
    [] call.stage = "started" ->
         {IF call.approval = "none" THEN "Preparing" ELSE "Allowed"}
    [] call.result = "ok" -> {"Completed"}
    [] OTHER -> {"Failed", "OutcomeUnknown"}

\* The card of every call of the open step says what the log says of it; a
\* call id used again in a later step does not disturb the card of the earlier
\* one, no card waits when the turn is closed, and the line under the prompt
\* names a call that still has no result.
CardsTellLog ==
  /\ \A c \in Calls :
       log.step # 0 /\ log.call[c].stage \in {"started", "answered"} =>
         view.cards[log.step][c].state \in StateOf(log.call[c])
  /\ log.turn = 0 => \A s \in Steps, c \in Calls : view.cards[s][c].state \notin Live
  /\ view.conflicts = 0
  /\ view.notice.step # 0 => ~view.cards[view.notice.step][view.notice.call].result

\* The bracket and the prune marker the view shows are those of the log.
ContextTold ==
  /\ view.pending = log.marker /\ view.orphans <= log.orphans
  /\ log.compaction = "started" <=> view.compaction = "Started"
  /\ log.compaction \in {"summarized", "replaced"} <=> view.compaction = "Summarized"

ViewTellsLog ==
  AnswerShownIsCommitted /\ OnlyCommittedIsFormatted /\ CardsTellLog /\ ContextTold
=============================================================================
