----------------------------- MODULE MCSessionLog -----------------------------
(* What rows do: the grammar of a log, the log that survives a crash, the    *)
(* view, the archive and the receipt that the user is shown, and the memory  *)
(* that the rows of an attempt take.  They share no state here, and a        *)
(* behaviour is about the one that its first state names.                    *)
EXTENDS MCSessionProjection

CONSTANTS call, approval

VARIABLES part
VARIABLES crashed, disk, mode, plan, seed
VARIABLES seen, told, rows, answer, view, screen
VARIABLES used, attempt, holders, fold, op, reserve, batch, flight, usage, reported, count, storage
VARIABLES place, arc, thought, stated, facts, joined
VARIABLES tool, stage, due, inner, latched, begun, settled, unseen, result, tools, happened

Recovery == INSTANCE SessionRecovery
              WITH MaxTurns <- 2, MaxSteps <- 1, MaxRetries <- 1, MaxOrphans <- 1,
                   log <- crashed
\* The answer of a step with failed attempts, and the cards of two steps.
Answer == INSTANCE LiveView
            WITH Durable <- TRUE, Calls <- {call}, Approvals <- {approval}, MaxTurns <- 1,
                 MaxSteps <- 1, MaxRetries <- 1, MaxOrphans <- 0, Kinds <- <<"text", "reasoning">>,
                 MaxDeltas <- 3, MaxKept <- 2, MaxIndexed <- 2, log <- seen
Cards == INSTANCE LiveView
           WITH Durable <- TRUE, Calls <- {call}, Approvals <- {approval}, MaxTurns <- 1,
                MaxSteps <- 2, MaxRetries <- 1, MaxOrphans <- 1, Kinds <- <<"text">>,
                MaxDeltas <- 1, MaxKept <- 1, MaxIndexed <- 1, log <- seen
Account == INSTANCE AttemptMemory
            WITH Limit <- 12, Book <- 1, Control <- 1, Sizes <- {1, 2}, MaxBlocks <- 2,
                 MaxUsages <- 2, MaxAttempts <- 2, MaxSteps <- 2, claim <- reserve
\* The reasoning of two steps of a turn, and the reviews of two turns.
Archive == INSTANCE InspectArchive
             WITH MaxRows <- 4, MaxText <- 5, MaxReasoning <- 2, MaxBlocks <- 1, MaxOmissions <- 1,
                  MaxLines <- 9, MaxActivities <- 1, Indices <- {0, 1}, Sizes <- {1, 2},
                  MaxTurns <- 1, MaxSteps <- 2, MaxDeltas <- 3, MaxFacts <- 0, MaxTools <- 0,
                  log <- place, told <- thought
Reviews == INSTANCE InspectArchive
             WITH MaxRows <- 5, MaxText <- 8, MaxReasoning <- 3, MaxBlocks <- 2, MaxOmissions <- 1,
                  MaxLines <- 12, MaxActivities <- 1, Indices <- {0, 1}, Sizes <- {1, 2},
                  MaxTurns <- 2, MaxSteps <- 1, MaxDeltas <- 3, MaxFacts <- 1, MaxTools <- 2,
                  log <- place, told <- thought

\* Two changes of one file and one of another.
Made ==
  {[file |-> "a", diff |-> <<"-", "+", "@@", "+", "+">>, adds |-> 2, removes |-> 0],
   [file |-> "a", diff |-> <<"-", "+", "@@", " ", "-", "+", "@@", "-">>, adds |-> 1,
    removes |-> 2],
   [file |-> "b", diff |-> <<"-", "+", "@@", "-">>, adds |-> 0, removes |-> 1]}
Receipts == INSTANCE WorkReceipt WITH Edits <- Made, MaxCalls <- 2, answer <- result

recoveryVars == <<crashed, disk, mode, plan, seed>>
viewVars == <<seen, told, rows, answer, view, screen>>
memoryVars == <<used, attempt, holders, fold, op, reserve, batch, flight, usage, reported, count,
                storage>>
archiveVars == <<place, arc, thought, stated, facts, joined>>
receiptVars == <<tool, stage, due, inner, latched, begun, settled, unseen, result, tools, happened>>
rowVars == <<part, log, memoryLog, recoveryVars, viewVars, memoryVars, archiveVars, receiptVars>>

RowsInit ==
  /\ BothInit /\ Recovery!Init /\ Account!Init /\ Receipts!ReceiptInit
  /\ \/ /\ part \in {"grammar", "recovery", "memory", "cards", "receipts"}
        /\ Cards!InitView /\ Archive!Init
     \/ part = "answer" /\ Answer!InitView /\ Archive!Init
     \/ part = "archive" /\ Cards!InitView /\ Archive!Init
     \/ part = "reviews" /\ Cards!InitView /\ Reviews!Init
  /\ (part # "receipts" => tool = "read")

Continues == UNCHANGED <<part, recoveryVars, viewVars, memoryVars, archiveVars, receiptVars>>
Apart == UNCHANGED <<part, log, memoryLog>>
Lists == Apart /\ UNCHANGED <<recoveryVars, viewVars, memoryVars, archiveVars>>
Others == Apart /\ UNCHANGED receiptVars
Recovers == Others /\ UNCHANGED <<viewVars, memoryVars, archiveVars>>
Accounts == Others /\ UNCHANGED <<recoveryVars, viewVars, archiveVars>>
Shows == Others /\ UNCHANGED <<recoveryVars, memoryVars, archiveVars>>
Archives == Others /\ UNCHANGED <<recoveryVars, viewVars, memoryVars>>

RowsNext ==
  \/ part = "grammar" /\ BothNext /\ Continues
  \/ part = "recovery" /\ Recovery!Next /\ Recovers
  \/ part = "memory" /\ Account!Next /\ Accounts
  \/ part = "answer" /\ Answer!SeeNext /\ Shows
  \/ part = "cards" /\ Cards!SeeNext /\ Shows
  \/ part = "archive" /\ Archive!Next /\ Archives
  \/ part = "reviews" /\ Reviews!Next /\ Archives
  \/ part = "receipts" /\ Receipts!ReceiptNext /\ Lists

RowsSpec == RowsInit /\ [][RowsNext]_rowVars

CrashedLogResumes == Recovery!CrashedLogResumes
CreditsBalance == Account!CreditsBalance
\* What the user sees of a turn, as it goes on and afterwards; and the answers of
\* its tool calls, none of which is refused by the contract it is held to, tell
\* what happened, and the cards and the receipt what they tell.
ViewTellsLog ==
  CASE part = "answer" -> Answer!ViewTellsLog
    [] part = "cards" -> Cards!ViewTellsLog
    [] part = "archive" -> Archive!ArchiveTellsTurn
    [] part = "reviews" -> Reviews!ArchiveTellsTurn
    [] part = "receipts" -> Receipts!ToolTellsTruth /\ Receipts!ReceiptTellsEffects
    [] OTHER -> TRUE
=============================================================================
