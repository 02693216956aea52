------------------------------ MODULE MCFrontEnd ------------------------------
(* The terminal front end: it takes keys, keeps what the user types, drives a *)
(* turn, and asks about a change that the patch tool has prepared.  The four  *)
(* share no state here, and a behaviour is about the one that its first state *)
(* names.                                                                     *)
EXTENDS InteractiveTurn

CONSTANTS q1, q2
CONSTANTS Size, MaxIds, MaxQueueItems, MaxQueueBytes, MaxHistoryItems, MaxHistoryBytes

ASSUME PromptAssumption == Size \in Seq(Nat)

\* Two questions, and two of the signals that terminate.
Asked == <<q1, q2>>
TwoExits == <<"terminate", "hangup">>
\* Three texts, the last of which fills the history alone.
Sizes == <<1, 1, 2>>

VARIABLES part
VARIABLES phase, entered, composer, queue, nextId, reserved, paused, past, nav, active, sent, gone
VARIABLES pressed, wire, chunk, fence, dec, line, undone, said, torn
VARIABLES original, operations, hunk, closed, marked, fate

Input == INSTANCE PromptInput
           WITH typed <- entered, history <- past
\* Reads that cut keys and pastes, and edits of one line.
Cuts == INSTANCE KeyInput
          WITH Keyboard <- {"CR", "Left", "^", "Long", "ESC"},
               Pastes <- {<<"ESC", "CR">>, <<"a", "CR", "LF", "a">>}, MaxPress <- 2, MaxAhead <- 2,
               MaxSeq <- 2, MaxPaste <- 3, MaxPrompt <- 3, MaxUndo <- 2, MaxPayload <- 3, Width <- 2,
               typed <- pressed, past <- undone
Edits == INSTANCE KeyInput
           WITH Keyboard <- {"a", "^", "Left", "Up", "Word", "Yank", "Undo"}, Pastes <- {},
                MaxPress <- 4, MaxAhead <- 1, MaxSeq <- 2, MaxPaste <- 3, MaxPrompt <- 3,
                MaxUndo <- 2, MaxPayload <- 3, Width <- 2, typed <- pressed, past <- undone

\* Files of every kind of ending, and one that is long enough for two hunks.
Ends(text, ending) == [text |-> text, ending |-> ending]
Files ==
  {<<>>, <<Ends("a", "none")>>, <<Ends("b", "lf")>>, <<Ends("a", "crlf"), Ends("b", "lf")>>,
   <<Ends("a", "crlf"), Ends("b", "crlf"), Ends("a", "crlf"), Ends("a", "none")>>}
Patch == INSTANCE PatchApply
           WITH Texts <- {"a", "b"}, Context <- 1, MaxRows <- 9, MaxHunks <- 2, MaxInserts <- 2

inputVars == <<phase, entered, composer, queue, nextId, reserved, paused, past, nav, active,
               sent, gone>>
keyVars == <<pressed, wire, chunk, fence, dec, line, undone, said, torn>>
patchVars == <<original, operations, hunk, closed, marked, fate>>
frontVars == <<part, inputVars, vars, keyVars, patchVars>>

FrontInit ==
  /\ part \in {"input", "turn", "cuts", "edits", "patch"}
  /\ Init /\ Input!Init /\ Cuts!Init /\ Patch!Init
  /\ (part # "turn" => enhanced)
  /\ (part # "patch" => original = <<>>)

Types == part = "input" /\ UNCHANGED <<part, vars, keyVars, patchVars>>
Turns == part = "turn" /\ UNCHANGED <<part, inputVars, keyVars, patchVars>>
Keys == UNCHANGED <<part, inputVars, vars, patchVars>>
Prepares == part = "patch" /\ UNCHANGED <<part, inputVars, vars, keyVars>>

FrontNext ==
  \/ Types /\ Input!Next
  \/ Turns /\ Next
  \/ part = "cuts" /\ Cuts!Next /\ Keys
  \/ part = "edits" /\ Edits!Next /\ Keys
  \/ Prepares /\ Patch!Next

\* The fairness of InteractiveTurn, of the steps of this composition.
FrontSpec == FrontInit /\ [][FrontNext]_frontVars /\ WF_frontVars(Turns /\ (AgentStep \/ TurnStep))

\* A prompt that was typed, queued or looked up is neither lost nor sent twice.
PromptsKept == Input!PromptsKept

\* What is typed arrives as it was typed, whatever way the reads cut it; and what
\* a question about a file shows is the change that the agent would make.
TextsArriveWhole ==
  /\ IF part = "edits" THEN Edits!TypingIsKept ELSE Cuts!TypingIsKept
  /\ Patch!PatchIsShown

\* What the interactive documentation promises of a draft while the queue is
\* recalled.
DraftSurvives == Input!DraftSurvives
=============================================================================
