---------------------------- MODULE InspectArchive ----------------------------
(***************************************************************************)
(* What Inspect and Review show (src/src/tui/view.rs): an archive of the   *)
(* current turn, filled by every committed event and cut at several limits *)
(* that its rows and its reasoning share, and the documents made of it.    *)
(* A text is a sequence of units, each on a line of its own.               *)
(***************************************************************************)
EXTENDS Integers, Sequences, FiniteSetsExt, SequencesExt

CONSTANTS MaxRows, MaxText, MaxReasoning, MaxBlocks,  \* MAX_INSPECT_*
          MaxOmissions,                               \* MAX_INSPECT_REASONING_OMISSION_STEPS
          MaxLines, MaxActivities,                    \* MAX_DETAIL_SOURCE_LINES, MAX_REVIEW_*
          Indices, Sizes, MaxTurns, MaxSteps, MaxDeltas, MaxFacts, MaxTools  \* bounds

VARIABLES log,     \* where the session is, and what the open attempt has said
          arc,     \* ViewArchive
          told,    \* history: the units of reasoning of every step, and their blocks
          stated,  \* history: the steps whose message restated their blocks
          facts,   \* history: the rows of the turn
          joined   \* history: the last turn that was joined, and its tool calls

vars == <<log, arc, told, stated, facts, joined>>

Steps == 1..MaxSteps
EmptyTurn == [rows |-> 0, meta |-> 0, text |-> 0, omittedRows |-> 0, blocks |-> <<>>,
              omissions |-> <<>>, bytes |-> 0, omitted |-> 0, degraded |-> FALSE]
NoReview == [turn |-> 0, shown |-> 0, omitted |-> 0]

Init ==
  /\ log = [turn |-> 0, open |-> "none", step |-> 0, attempt |-> <<>>, streaming |-> FALSE,
            units |-> 0, deltas |-> 0, facts |-> 0, retried |-> FALSE]
  /\ arc = [turn |-> EmptyTurn, review |-> NoReview, failed |-> 0]
  /\ told = [s \in Steps |-> <<>>] /\ stated = {} /\ facts = 0 /\ joined = [turn |-> 0, calls |-> 0]

Sum(seq) == FoldLeft(LAMBDA a, b : a + b, 0, seq)
Of(step, blocks) == SelectSeq(blocks, LAMBDA b : b.step = step)
Others(step, blocks) == SelectSeq(blocks, LAMBDA b : b.step # step)
Kept(blocks) == Sum([k \in DOMAIN blocks |-> Len(blocks[k].text)])
Lost(blocks) == Sum([k \in DOMAIN blocks |-> blocks[k].omitted])
Floor(n) == Max({n, 0})

-----------------------------------------------------------------------------
(* The archive.                                                            *)

\* push_row: a row takes one unit.
PushRow(a) ==
  IF a.rows = MaxRows \/ a.text + 1 > MaxText THEN [a EXCEPT !.omittedRows = @ + 1]
  ELSE [a EXCEPT !.rows = @ + 1, !.meta = @ + 1, !.text = @ + 1]

\* record_step_reasoning_omission
OmitInStep(a, step, n) ==
  LET at == SelectInSeq(a.omissions, LAMBDA o : o.step = step) IN
  IF at # 0
  THEN [a EXCEPT !.omissions[at].bytes = @ + n, !.omitted = @ + n]
  ELSE IF Len(a.omissions) = MaxOmissions
       THEN [a EXCEPT !.degraded = TRUE, !.omitted = @ + n]
       ELSE [a EXCEPT !.omissions = Append(@, [step |-> step, bytes |-> n]), !.omitted = @ + n]

\* append_reasoning
AppendReasoning(a, step, index, text) ==
  LET n == Len(text)
      at == SelectInSeq(a.blocks, LAMBDA b : b.step = step /\ b.index = index)
      b == IF at = 0 THEN [step |-> step, index |-> index, text |-> <<>>, final |-> FALSE,
                           original |-> 0, omitted |-> 0]
           ELSE a.blocks[at]
      full == a.bytes + n > MaxReasoning \/ a.text + n > MaxText
      c == [b EXCEPT !.original = @ + n,
                     !.omitted = IF full THEN @ + n ELSE @,
                     !.text = IF full THEN @ ELSE @ \o text]
      blocks == IF at = 0 THEN Append(a.blocks, c) ELSE [a.blocks EXCEPT ![at] = c]
  IN IF at = 0 /\ Len(a.blocks) = MaxBlocks THEN OmitInStep(a, step, n)
     ELSE IF full THEN [a EXCEPT !.blocks = blocks, !.omitted = @ + n]
     ELSE [a EXCEPT !.blocks = blocks, !.bytes = @ + n, !.text = @ + n]

\* One block of the message, in what room the others leave.
AddFinal(acc, block, step, bytes, text, others) ==
  LET room == Min({Floor(MaxReasoning - bytes - acc.kept), Floor(MaxText - text - acc.kept)})
      n == Min({Len(block.text), room})
  IN IF others + Len(acc.blocks) = MaxBlocks
     THEN [acc EXCEPT !.omitted = @ + Len(block.text)]
     ELSE [blocks |-> Append(acc.blocks,
                             [step |-> step, index |-> block.index,
                              text |-> SubSeq(block.text, 1, n), final |-> TRUE,
                              original |-> Len(block.text), omitted |-> Len(block.text) - n]),
           kept |-> acc.kept + n, omitted |-> acc.omitted + Len(block.text) - n]

\* replace_authoritative_reasoning
OldOmitted_BlocksOnly(a, step) == Lost(Of(step, a.blocks))
OldOmitted(a, step) ==
  Lost(Of(step, a.blocks))
  + Sum([k \in DOMAIN a.omissions |->
           IF a.omissions[k].step = step THEN a.omissions[k].bytes ELSE 0])
ReplaceReasoning(a, step, content) ==
  LET others == Others(step, a.blocks)
      old == Kept(Of(step, a.blocks))
      new == FoldLeft(LAMBDA acc, b :
                        AddFinal(acc, b, step, Floor(a.bytes - old), Floor(a.text - old),
                                 Len(others)),
                      [blocks |-> <<>>, kept |-> 0, omitted |-> 0], content)
  IN [a EXCEPT !.blocks = others \o new.blocks,
               !.omissions = SelectSeq(@, LAMBDA o : o.step # step),
               !.bytes = Floor(@ - old) + new.kept,
               !.text = Floor(@ - old) + new.kept,
               !.omitted = Floor(@ - OldOmitted(a, step)) + new.omitted]

-----------------------------------------------------------------------------
(* The committed events, in an order the log accepts.                      *)

Row(a) == arc' = [arc EXCEPT !.turn = PushRow(a)] /\ facts' = facts + 1

TurnStart ==
  /\ log.open = "none" /\ log.turn < MaxTurns
  /\ log' = [log EXCEPT !.turn = @ + 1, !.open = "turn", !.step = 0, !.units = 0, !.deltas = 0,
                        !.facts = 0, !.attempt = <<>>]
  /\ arc' = [arc EXCEPT !.turn = PushRow(EmptyTurn)]
  /\ facts' = 1 /\ told' = [s \in Steps |-> <<>>] /\ stated' = {}
  /\ UNCHANGED joined

StepStart ==
  /\ log.open = "turn" /\ log.step < MaxSteps
  /\ log' = [log EXCEPT !.open = "step", !.step = @ + 1, !.attempt = <<>>, !.streaming = TRUE,
                        !.retried = FALSE]
  /\ Row(arc.turn) /\ UNCHANGED <<told, stated, joined>>

\* A delta of reasoning of size n in block i.
Delta(i, n) ==
  LET text == [k \in 1..n |-> log.units + k]
      units == [k \in 1..n |-> [index |-> i, unit |-> text[k]]]
  IN
  /\ log.open = "step" /\ log.streaming /\ log.deltas < MaxDeltas
  /\ log' = [log EXCEPT !.units = @ + n, !.deltas = @ + 1, !.attempt = @ \o units]
  /\ arc' = [arc EXCEPT !.turn = AppendReasoning(@, log.step, i, text)]
  /\ told' = [told EXCEPT ![log.step] = @ \o units]
  /\ UNCHANGED <<stated, facts, joined>>

\* The attempt failed: the next one says its blocks from the start.
RetryScheduled ==
  /\ log.open = "step" /\ log.streaming /\ ~log.retried
  /\ log' = [log EXCEPT !.attempt = <<>>, !.retried = TRUE]
  /\ Row(arc.turn) /\ UNCHANGED <<told, stated, joined>>

\* The reasoning of a message, which the order of its blocks lists.
Units(said, i) ==
  LET of == SelectSeq(said, LAMBDA u : u.index = i) IN [k \in DOMAIN of |-> of[k].unit]
Content(said) ==
  LET order == SetToSortSeq({i \in Indices : Units(said, i) # <<>>}, <)
  IN [k \in DOMAIN order |-> [index |-> order[k], text |-> Units(said, order[k])]]

\* A message whose content was too large for the event is not indexed, and
\* leaves what was streamed.
AssistantMessage(indexed) ==
  /\ log.open = "step" /\ log.streaming
  /\ log' = [log EXCEPT !.streaming = FALSE]
  /\ IF indexed
     THEN /\ Row(ReplaceReasoning(arc.turn, log.step, Content(log.attempt)))
          /\ told' = [told EXCEPT ![log.step] = log.attempt]
          /\ stated' = stated \cup {log.step}
     ELSE Row(arc.turn) /\ UNCHANGED <<told, stated>>
  /\ UNCHANGED joined

StepEnd ==
  /\ log.open = "step" /\ log' = [log EXCEPT !.open = "turn", !.streaming = FALSE]
  /\ Row(arc.turn) /\ UNCHANGED <<told, stated, joined>>

\* Every other event that has a row: a message, a call, a result, a question,
\* a decision, the context, a compaction.
Fact ==
  /\ log.open # "none" /\ log.facts < MaxFacts
  /\ log' = [log EXCEPT !.facts = @ + 1]
  /\ Row(arc.turn) /\ UNCHANGED <<told, stated, joined>>

TurnEnd ==
  /\ log.open = "turn" /\ log' = [log EXCEPT !.open = "ended"]
  /\ Row(arc.turn) /\ UNCHANGED <<told, stated, joined>>

\* JoinedTurnView::from_joined_receipt, of the cards the projector kept.
Review(turn, cards, calls) ==
  LET shown == Min({cards, MaxActivities}) IN
  [turn |-> turn, shown |-> shown, omitted |-> Max({Floor(cards - shown), Floor(calls - shown)})]

\* freeze_joined_review: the turn was joined with the end the renderer saw; its
\* receipt or its review may fail.
Join(cards, calls, ok) ==
  /\ log.open = "ended" /\ log' = [log EXCEPT !.open = "none"]
  /\ arc' = IF ok THEN [arc EXCEPT !.review = Review(log.turn, cards, calls), !.failed = 0]
            ELSE [arc EXCEPT !.failed = log.turn]
  /\ joined' = [turn |-> log.turn, calls |-> calls]
  /\ UNCHANGED <<told, stated, facts>>

Next ==
  \/ TurnStart \/ StepStart \/ StepEnd \/ TurnEnd \/ Fact \/ RetryScheduled
  \/ \E i \in Indices, n \in Sizes : Delta(i, n)
  \/ \E indexed \in BOOLEAN : AssistantMessage(indexed)
  \/ \E cards, calls \in 0..MaxTools, ok \in BOOLEAN : Join(cards, calls, ok)

-----------------------------------------------------------------------------
(* The documents.                                                          *)

Line(what) == <<[what |-> what]>>
Caution(what) == <<[what |-> "caution", of |-> what]>>

\* DetailBuilder::omit and push_multiline
Omit(doc) ==
  [lines |-> Append(IF Len(doc.lines) = MaxLines THEN Front(doc.lines) ELSE doc.lines,
                    Caution("limit")[1]),
   omitted |-> TRUE]
Push(doc, lines) ==
  IF doc.omitted THEN doc
  ELSE IF Len(doc.lines) + Len(lines) > MaxLines THEN Omit(doc)
  ELSE [doc EXCEPT !.lines = @ \o lines]

\* DetailDocument::inspect
BlockLines(b) ==
  IF b.text = <<>> THEN Line("empty")
  ELSE [k \in DOMAIN b.text |-> [what |-> "reasoning", step |-> b.step, unit |-> b.text[k]]]
InspectParts(a) ==
  <<Line("REASONING")>>
  \o (IF a.blocks = <<>> THEN <<Line("none")>> ELSE <<>>)
  \o FlattenSeq([k \in DOMAIN a.blocks |-> <<Line("block"), Line("stamp"), BlockLines(a.blocks[k])>>])
  \o (IF a.omitted # 0 THEN <<Caution("reasoning")>> ELSE <<>>)
  \o <<Line("COMMITTED FACTS")>>
  \o [k \in 1..a.rows |-> Line("fact")]
  \o (IF a.omittedRows # 0 \/ a.degraded THEN <<Caution("rows")>> ELSE <<>>)
Inspect(a) == FoldLeft(Push, [lines |-> <<>>, omitted |-> FALSE], InspectParts(a))

\* DetailDocument::review
ReviewParts(r, failed) ==
  IF r.turn = 0 THEN <<IF failed # 0 THEN Caution("failed") ELSE Line("no turn")>>
  ELSE (IF failed # 0 /\ failed # r.turn THEN <<Caution("failed")>> ELSE <<>>)
       \o <<Line("headline"), Line("ACTIONS")>>
       \o [k \in 1..r.shown |-> Line("action")]
       \o (IF r.omitted # 0 THEN <<Caution("actions")>> ELSE <<>>)
ReviewDoc(r, failed) ==
  FoldLeft(Push, [lines |-> <<>>, omitted |-> FALSE], ReviewParts(r, failed))

-----------------------------------------------------------------------------
Warns(doc, of) == \E k \in DOMAIN doc.lines : doc.lines[k] = Caution(of)[1]
Count(doc, what) == Cardinality({k \in DOMAIN doc.lines : doc.lines[k].what = what})

\* The counters of the archive are those of what it holds, within its limits.
CountersAgree ==
  LET a == arc.turn IN
  /\ a.bytes = Kept(a.blocks) /\ a.text = a.meta + a.bytes
  /\ a.text <= MaxText /\ a.bytes <= MaxReasoning /\ Len(a.blocks) <= MaxBlocks
  /\ a.rows + a.omittedRows = facts
  /\ \A k \in DOMAIN a.blocks : a.blocks[k].original = Len(a.blocks[k].text) + a.blocks[k].omitted

\* Every unit of reasoning the turn stands by is shown or counted as omitted,
\* once, through retries and replacements; and what is shown of a block is what
\* was said in it, in its order, without holes once the message restated it.
ReasoningIsTold ==
  LET a == arc.turn
      missing(s) == Len(told[s]) - Kept(Of(s, a.blocks))
      lost == MapThenSumSet(missing, Steps)
  IN
  /\ IF a.degraded THEN a.omitted >= lost ELSE a.omitted = lost
  /\ \A k \in DOMAIN a.blocks :
       LET b == a.blocks[k]
           said == Units(told[b.step], b.index)
       IN IF b.step \in stated THEN IsPrefix(b.text, said)
          ELSE b.text = SelectSeq(said, LAMBDA u : Contains(b.text, u))

\* The document that the user reads says when it is not the whole turn.
LossIsSaid ==
  LET doc == Inspect(arc.turn) IN
  /\ Len(doc.lines) <= MaxLines
  /\ \/ Warns(doc, "limit")
     \/ /\ Count(doc, "fact") = facts \/ Warns(doc, "rows")
        /\ Count(doc, "reasoning") = MapThenSumSet(LAMBDA s : Len(told[s]), Steps)
           \/ Warns(doc, "reasoning")

\* A Review is of the turn that was joined last, or says that it is not, and it
\* says when calls of the turn are not on it.
ReviewIsLastTurn ==
  LET doc == ReviewDoc(arc.review, arc.failed) IN
  joined.turn # 0 =>
    \/ Warns(doc, "limit") \/ Warns(doc, "failed")
    \/ /\ arc.review.turn = joined.turn
       /\ Count(doc, "action") >= joined.calls \/ Warns(doc, "actions")

ArchiveTellsTurn == CountersAgree /\ ReasoningIsTold /\ LossIsSaid /\ ReviewIsLastTurn
=============================================================================
