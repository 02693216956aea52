----------------------------- MODULE WorkReceipt ------------------------------
(* What the terminal says of the tool calls of a turn: what the projector     *)
(* reads out of each result (tui/projector.rs), the card it commits to the    *)
(* scrollback, and the receipt at the end of the turn (tui/timeline.rs).      *)
(* The calls of a turn are answered one after the other, each as ToolAnswer   *)
(* has it; the rows between are in LiveView.                                  *)
EXTENDS ToolAnswer, SequencesExt

CONSTANTS
  Edits,     \* [file, diff, adds, removes]: changes that a patch may make; a
             \* line of a diff is its first character, "@@" starts a hunk
  MaxCalls   \* bound: calls of the turn

VARIABLES
  tools,     \* UiProjector::tools
  happened   \* what each of these calls did

receiptVars == <<vars, tools, happened>>

ReceiptInit == Init /\ tools = <<>> /\ happened = <<>>

-----------------------------------------------------------------------------
(* The facts of a result.                                                     *)

Refusals == {"Denied", "Cancelled", "Unavailable"}
Unknown == "TOOL_OUTCOME_UNKNOWN"

\* unified_diffstat: what stands before the first hunk are the names of the file
Diffstat_OfHeader(diff, mark) == Cardinality({i \in DOMAIN diff : diff[i] = mark})
Diffstat(diff, mark) ==
  Cardinality({i \in DOMAIN diff : diff[i] = mark /\ \E h \in 1..i : diff[h] = "@@"})

\* What was asked of the user, as the row of the decision has it.
Decided ==
  CASE answer.result.code = "APPROVAL_REJECTED" -> "Denied"
    [] answer.result.code = "APPROVAL_CANCELLED" -> "Cancelled"
    [] answer.result.code = "APPROVAL_UNAVAILABLE" -> "Unavailable"
    [] OTHER -> "Allowed"

\* An action without a result is settled as one whose outcome is unknown.
Code == IF Told THEN answer.result.code ELSE Unknown

\* finish_tool: a refusal stays what the card says
FinishedState_NoUnknown(decided, code) ==
  IF decided \in Refusals THEN decided
  ELSE IF code = "ok" THEN "Completed" ELSE "Failed"
FinishedState(decided, code) ==
  IF decided \in Refusals THEN decided
  ELSE IF code = Unknown THEN "OutcomeUnknown"
  ELSE IF code = "ok" THEN "Completed" ELSE "Failed"

NoFacts == [kind |-> "none"]

\* patch_facts: only the result of a mutation has them
PatchFacts(edit) ==
  IF tool # "patch" \/ answer.at # "mutation" \/ ~Told THEN NoFacts
  ELSE [kind |-> "patch", committed |-> answer.result.begun, file |-> edit.file,
        adds |-> Diffstat(edit.diff, "+"), removes |-> Diffstat(edit.diff, "-")]

\* shell_facts: of a command that was started, its status
ShellFacts(failing, timed) ==
  LET r == answer.result IN
  IF r.by # "shell" THEN NoFacts
  ELSE [kind |-> "shell", started |-> r.begun, status |-> r.status,
        failing |-> r.begun /\ (failing \/ r.status = "signal"), timed |-> r.begun /\ timed]

PluginFacts ==
  LET r == answer.result IN
  IF r.by # "plugin" THEN NoFacts
  ELSE [kind |-> "plugin", dispatched |-> r.begun, settled |-> r.settled]

Facts(edit, failing, timed) ==
  CASE PatchFacts(edit) # NoFacts -> PatchFacts(edit)
    [] ShellFacts(failing, timed) # NoFacts -> ShellFacts(failing, timed)
    [] OTHER -> PluginFacts

\* Whether the effect that a result tells of was done.
Effect(facts) ==
  CASE facts.kind = "patch" -> facts.committed
    [] facts.kind = "shell" -> facts.started
    [] facts.kind = "plugin" -> facts.dispatched
    [] OTHER -> FALSE

Activity(edit, failing, timed) ==
  LET facts == Facts(edit, failing, timed)
      state == FinishedState(Decided, Code)
  IN  [state |-> state, facts |-> facts,
       conflicting |-> state \in Refusals /\ Effect(facts)]

-----------------------------------------------------------------------------
(* The card of a call.                                                        *)

ToneOf == [Completed |-> "positive", Failed |-> "negative", OutcomeUnknown |-> "negative",
           Denied |-> "caution", Cancelled |-> "caution", Unavailable |-> "negative"]

\* plugin_outcome_unknown; every plugin result says it is quiescent
PluginUnknown(t) ==
  /\ t.facts.kind = "plugin"
  /\ \/ t.facts.dispatched # t.facts.settled
     \/ t.state = "Completed" /\ ~t.facts.dispatched

Card(tone, says) == [tone |-> tone, says |-> says]

PatchCard(t) ==
  LET f == t.facts IN
  CASE f.committed /\ t.state = "Failed" -> Card("caution", "changed with warning")
    [] f.committed /\ t.state # "Failed" -> Card("positive", "changed")
    [] OTHER -> Card("caution", "not changed")

ShellCard(t) ==
  LET f == t.facts IN
  CASE ~f.started -> Card("caution", "not started")
    [] f.started /\ f.timed -> Card("negative", "timed out")
    [] f.started /\ ~f.timed /\ f.status = "signal" -> Card("negative", "signal")
    [] OTHER -> IF t.state = "Failed" THEN Card("negative", "command failed")
                ELSE Card(IF f.failing THEN "negative" ELSE "positive", "exit")

PluginCard(t) ==
  Card(ToneOf[t.state], IF t.facts.dispatched THEN "plugin settled" ELSE "not dispatched")

\* ToolCardView::from_activity
CardOf(t) ==
  CASE t.state = "OutcomeUnknown" \/ PluginUnknown(t) -> Card("negative", "outcome unknown")
    [] t.state \in Refusals ->
         IF t.conflicting THEN Card("negative", "conflicting") ELSE Card("caution", "refused")
    [] OTHER ->
         CASE t.facts.kind = "patch" -> PatchCard(t)
           [] t.facts.kind = "shell" -> ShellCard(t)
           [] t.facts.kind = "plugin" -> PluginCard(t)
           [] OTHER -> Card(ToneOf[t.state], "settled")

-----------------------------------------------------------------------------
(* The receipt of the turn: WorkReceiptView::from_facts.                      *)

Those(P(_)) == {i \in DOMAIN tools : P(tools[i])}
Total(some, count(_)) ==
  FoldLeft(LAMBDA sum, i : sum + (IF i \in some THEN count(tools[i].facts) ELSE 0), 0,
           [i \in DOMAIN tools |-> i])

Changes == Those(LAMBDA t : t.facts.kind = "patch" /\ t.facts.committed)
Issues ==
  Those(LAMBDA t : \/ t.state \in Refusals \cup {"Failed", "OutcomeUnknown"}
                   \/ t.facts.kind = "shell" /\ (t.facts.failing \/ t.facts.timed)
                   \/ PluginUnknown(t) \/ t.conflicting)
Commands == Those(LAMBDA t : t.facts.kind = "shell" /\ t.facts.started)

Receipt ==
  [files |-> Cardinality({tools[i].facts.file : i \in Changes}),
   adds |-> Total(Changes, LAMBDA f : f.adds),
   removes |-> Total(Changes, LAMBDA f : f.removes),
   commands |-> Cardinality(Commands),
   issues |-> Cardinality(Issues)]

-----------------------------------------------------------------------------
(* A result is committed and seen, and the next call of the turn is asked.    *)

SeeResult ==
  /\ stage = "answered" /\ Len(tools) < MaxCalls
  /\ \E edit \in Edits, failing \in BOOLEAN, timed \in BOOLEAN :
       /\ tool = "patch" \/ edit = CHOOSE e \in Edits : TRUE
       /\ failing \/ timed =>
            tool = "bash" /\ Told /\ begun /\ answer.result.code = "ok"
       /\ tools' = Append(tools, Activity(edit, failing, timed))
       /\ happened' =
            Append(happened, [tool |-> tool, begun |-> begun, told |-> Told, edit |-> edit,
                              well |-> Told /\ answer.result.code = "ok" /\ ~failing /\ ~timed
                                       /\ answer.result.status # "signal"])
  /\ tool' \in Tools
  /\ stage' = "asked" /\ due' = {} /\ inner' = Clear /\ latched' = "none"
  /\ begun' = FALSE /\ settled' = FALSE /\ unseen' = FALSE /\ answer' = NoAnswer

Call == Len(tools) < MaxCalls /\ Next /\ UNCHANGED <<tools, happened>>

ReceiptNext == Call \/ SeeResult

ReceiptSpec == ReceiptInit /\ [][ReceiptNext]_receiptVars

-----------------------------------------------------------------------------
(* Properties.                                                                *)

\* No card denies an effect that was done or claims one that was not, whatever
\* stopped the call and wherever; what nobody knows is called unknown; and a card
\* is green only when the call did what it was asked.
Denials == {"not changed", "not started", "not dispatched", "refused", "settled"}
CardsTellEffects ==
  \A i \in DOMAIN tools :
    LET card == CardOf(tools[i]) did == happened[i] IN
    /\ did.begun => card.says \notin Denials
    /\ card.says \notin Denials \cup {"outcome unknown"} => did.begun
    /\ ~did.told => card.says = "outcome unknown"
    /\ card.tone = "positive" <=> did.well

\* The receipt counts each file that was changed once, the lines of every change,
\* every command that ran, and a turn without issue is one whose calls all went well.
ReceiptAddsUp ==
  LET done(t) == {i \in DOMAIN happened : happened[i].tool = t /\ happened[i].begun
                                          /\ happened[i].told}
      sum(count(_)) == FoldLeft(LAMBDA n, i : n + (IF i \in done("patch")
                                                   THEN count(happened[i].edit) ELSE 0),
                                0, [i \in DOMAIN happened |-> i])
  IN  /\ Receipt.files = Cardinality({happened[i].edit.file : i \in done("patch")})
      /\ Receipt.adds = sum(LAMBDA e : e.adds) /\ Receipt.removes = sum(LAMBDA e : e.removes)
      /\ Receipt.commands = Cardinality(done("bash"))
      /\ Receipt.issues = Cardinality({i \in DOMAIN happened : ~happened[i].well})

ReceiptTellsEffects == CardsTellEffects /\ ReceiptAddsUp
===============================================================================
