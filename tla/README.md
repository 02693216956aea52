# A verification of dsh-rs

dsh-rs is a terminal coding agent in Rust.  A user's prompt starts a *turn*; the agent
loop sends the conversation to a provider, streams the answer, runs the tools the answer
asks for (some only after the user approved them), and repeats until the turn ends.
Everything that happens is a row of one append-only session log, which a durable session
writes to a journal file and from which a later process resumes.

These modules model that program: the session log and its admission, the journal behind it
and the resume from it, the agent loop that writes it, the tools that the loop runs, and the
front end around both.  TLC checks each model on a small instance; for most of them TLAPS
proves, for every value of the constants, what matters most.

All source paths are relative to the repository's `src/src/` unless they say otherwise.

## The system and its parts

| Part | State it keeps | Operations | Hard behaviour |
|---|---|---|---|
| Session ledger, `session/mod.rs` | accepted events and bytes, reserved events and bytes, the claims, the pending durable operation and batch, the attempt owner, the lifecycle | append, claim, settle, rebind, release, flush, barrier, begin and retire an attempt, shutdown | every durable wait may be dropped and settled by a later call; limits; a failing writer |
| Log grammar, `session/projection.rs`, `attempt_anchor.rs`, `event.rs`, `compaction.rs` | the fold of all rows: open turn and step, attempt slot, calls, approvals, retries, overflow recovery, open bracket | one transition per kind of row, refused or accepted | long legal sequences; two policies (durable, memory) |
| Journal, `session/journal.rs`, `store.rs` | a thread with the file, its offsets and its poison; a handle with at most one staged append, one command and one read in flight | create, append, barrier, read, finish | dropped waits, half written rows, failed rollback, crash |
| Resume and recovery, `session/resume.rs`, `recovery.rs` | a worker with the locked file, the plan, the commit state | prepare, commit, hand over, cancel | the file changes between prepare and commit; a crash in the middle; closing whatever a crash left open |
| Observer, `session/observer.rs` | a bounded channel of committed rows and a fault flag | publish, fault, drain | a full channel must stop the turn and not the session |
| Turn driver, `agent/mod.rs`, `agent/compaction.rs`, `agent/retry.rs` | limits and counters of the turn, its claims, the prepared request, the attempt token | `run_turn` | cancellation and deadline at every await; refused rows; retries, pruning and summaries before a step; one way out |
| Tool round, `agent/mod.rs`, `agent/tool.rs`, `agent/approval.rs` | the claims of the round, the call being resolved, the first stop | `commit_tool_round` | an effect outside that cannot be taken back, with stops, losses and limits around it |
| Provider, `provider/`, `model/` | a stream with deadlines, a decoder, an accumulator | next item, prepare and commit a chunk | silence, cut streams, limits |
| Processes and shell, `tools/process.rs`, `tools/shell.rs` | a process group, its pipes, its reaping | run, stop, reap | identifiers that are reused, descendants that hold pipes |
| Plugins, `tools/plugin/` | an actor thread, its process, a queue of calls | start, invoke, shutdown | both pipes full, calls queued at shutdown |
| Workspace, `tools/workspace.rs`, `tools/patch.rs` | a prepared mutation of one file | prepare, commit | the file changes after the approval; half done replacements |
| Approval join, `cli/approval_join.rs` | the two halves of a question | asked, envelope, answer, decided, end of turn | two channels in any order |
| Interactive loop, `cli/interactive.rs` and `cli/` | the latched stop, the terminal, pending output | a select over signals, turn, input, output | what is ready at the same time; suspension |
| Text interface, `tui/`, `cli/live.rs` | key decoder, composer, view, archive, markup, ledger of the screen's rows | keys to edits, rows to a picture | input cut anywhere, batches cut short, a screen nobody knows |
| Process frame, `cli/entry.rs`, `assembly.rs`, `script_driver.rs`, `terminal.rs` | latched signals, the owned futures, the modes of the terminal | assemble, run, suspend, clean up, exit | a signal at every await; the exit code; a terminal that hangs up |
| Resident credit, `resident_credit.rs` | one pool of bytes and its leases | acquire, split, merge, drop | a long sequence of them over retries, refusals and the end of an attempt |

How they meet.  The driver and the tool round own a `SessionReservation`: they claim room
for the rows that close what they are about to open, append their rows and settle their
claims.  The session validates a row against the fold, checks its room in the ledger,
commits it, publishes it to the observer, and in a durable session puts it into a batch
that goes to the journal before the next row.  A barrier makes all of it durable; the
driver takes one before a request leaves and the round takes one before a tool starts.
The interactive loop polls the turn's future, watches the observer's channel, answers the
approvals and cancels the turn.  `PROJECT.json` lists every part with its files, and every
hazard at its line with the properties that cover it or why none does yet.

What makes each part correct:

* ledger: a claim can always be settled, whatever was appended since, and nothing a
  dropped future left behind is lost, replaced or admitted against stale numbers;
* grammar: an accepted log is one a resume can close; brackets, retries, approvals and
  overflow recovery never leak over the boundary they belong to;
* journal: the file is always a prefix of what was accepted, with everything a barrier
  confirmed;
* resume and recovery: whatever a crash left is closed by rows the grammar accepts, and a
  repair changes only the file that its user was shown, as far as the thread can look;
* driver: only acceptable rows, no request before its past is durable, everything opened
  is closed, no failure is hidden, every turn returns;
* round: no effect without a durable permission, and no row that denies an effect;
* tools: what a tool answers is what happened to the process, the wire or the file;
* front end: what the user sees and answers is what the agent does and asks; nothing typed
  is lost or doubled; the first stop wins;
* every wait ends, under the fairness named below.

## The modules

Reading order, and what corresponds to what.  `PROJECT.json` gives the lines of the code for
every definition that stands for a piece of it of its own; a helper whose lines lie within
those of the definition that uses it is not listed.

### The log

**`SessionLedger`** (`session/mod.rs`).  `events` and `bytes` are what is committed,
`reserved` and `reservedBytes` the counters of the `SessionReservation`, `claim` the
`EventClaim`s with their fallback and ceiling, `op` the `PendingDurableOperation` with the
snapshot it was admitted against, `batch` the `PendingDurableBatch`, `storage` the
`SessionStorage` and the lifecycle, `attempt` the `ActiveAttempt`.  Every public operation
is an action; those that wait are split at the wait, so that "the future is dropped" is
the absence of the next step, and any other call may come instead.  `Fits` is the one
admission check.  Sizes are small numbers; what is in a row does not matter here.
`MCSessionLedger` has durable and memory sessions side by side.

**`SessionProjection`** (`session/projection.rs`, `attempt_anchor.rs`).  `log` is the fold
of all accepted rows.  For each kind of row there is a `Can...` operator, the conditions
under which the code accepts it, and an `After...` operator, the fold after it; an action
submits the row with any arguments.  `Durable` chooses between the strict policy and the
permissive one of memory sessions.

**`StableLog`** is what a journal promises, in three actions: rows are accepted and the
device changes, a barrier confirms, a process starts again from what is kept.  What is
kept is a prefix of the accepted rows, perhaps with a torn end, with all that was confirmed.

**`SessionJournal`** (`session/journal.rs`, `store.rs`, the commit of `resume.rs`).
`thread`, `disk` and `stable` are the thread, the file and the part of it that is
synchronised; `command` and `reply` the one-slot channel and the acknowledgement; `writer`
the `JournalWriter` (`pending`, `flight`, `read_flight`, cursor, poison); `call` the
session call that is polled, and `DropWait` its being dropped at any point.  A crash keeps
any prefix of what was not synchronised.  The next process scans, cuts, writes a suffix
and takes the file over.  `SL == INSTANCE StableLog WITH Row <- Rows, kept <- disk`.

**`SessionRecovery`** (`session/recovery.rs`) has the session that dies, the cold scanner
with its own admissions, the plan of closing rows, and the append of it, in which the
process may die again.  **`ResumeHandshake`** (`session/resume.rs`,
`cli/session_resume.rs`) has the thread and the front end of several processes on one
journal: lock, offer, commit after a second scan, hand-over, and somebody who ignores the
lock.  `foreign` has for each kind of change how far the thread had looked when it was made:
"before" the end of the second scan, "behindScan", or "behindCheck" of length and name.

**`SessionSurface`** is what the model is shown and what it costs: ranges of messages, the
measured anchor, what a compaction or a prune may replace.  **`ToolResultPruner`**
(`session/tool_result_pruner.rs`) is the pass that shortens tool results: every result is
read back, checked against the surface, cut in its middle and replaced by a pair of rows.
A file altered from outside is refused; a crash may fall between the two rows.
`Shortened`, the reference definition, says which text has to come out.
**`AttemptMemory`** (`resident_credit.rs` and its users) counts the bytes of an attempt.

### The agent

**`TurnDriver`** (`agent/mod.rs`, `agent/compaction.rs`).  `pc` names the await or the
decision the turn is at; `run` holds `Driver`, its counters and the locals; `claims` the
rows reserved to close what is open; `loop` what `run_turn` returned and whether the loop
is poisoned.  Its rows are the operators of `SessionProjection`, conjoined to the actions
without their guards: that every row is acceptable is a property of the driver, not an
assumption.  Cancellation, deadline, the loss of the observer, and the refusal of a row
that was not claimed may come at any step.

**`ToolRound`** (`agent/mod.rs`, `agent/tool.rs`).  One round with all its calls.  `plan`
fixes the order, the policy of each call and whether an owned action runs it; `tool` and
`round` are the locals; `decision`, `answer` and `effect` relate what was permitted, what
the log says and what was done outside.  Two readings of the stop token with nothing
between them that another task could observe are one step.

**`ProviderStream`** (`provider/deepseek.rs`, `model/`): the lazy stream of one answer, its
translation into chunks, and the validator of their order.

The round is abstract inside `TurnDriver` (one call, its rows and its ways to fail) and in
full in `ToolRound`; the ledger is abstract inside both (a claimed row is never refused,
any other may be), which is exactly what `FallbackAlwaysFits` says of the ledger; a
barrier there is one step, which is what `StableLogKept` says of the journal.

### The tools

**`ToolAnswer`** is the answer of one call through the registry, the stages it passes, the
stops that race each of them and the contract on results.  **`WorkReceipt`** continues it to the
cards and the receipt that the terminal makes of the results: each `meta` is read as the
projector reads it, a line of a diff is its first character.
**`ProcessSupervisor`** has a command, its process group in a kernel that reuses process
numbers, the passes over the process table, the timers and the pipes; **`ShellOutput`** the
text built of what the command wrote.  **`PluginActor`** has the actor's thread, its queue,
its host and a peer that may do anything.  **`WorkspaceMutation`** has several commits of
one name while others edit it; **`PatchApply`** how the patch and the shown diff are made.

### The front end

**`InteractiveTurn`** (`cli/interactive.rs`, `approval_join.rs`, `session/observer.rs`) is
the select loop of one turn, in its two halves, with the agent behind its future and two
channels.  **`PromptInput`** is draft, queue and history between turns, **`KeyInput`** the
way from bytes to the draft.  **`LiveView`** and **`InspectArchive`** are what is shown of
the rows, now and on inspection; **`MarkupStream`** how streamed text becomes styled text;
**`TerminalSurface`** the rows of the screen; **`TerminalModes`** who owns the terminal and
how it is set; **`ScriptRun`** the process around all of it, up to its exit code.

### Composites

`MCTurnDriver`, `MCToolRound`, `MCSessionLedger` and `MCSessionProjection` hold both kinds
of session.  `MCTools`, `MCFrontEnd`, `MCWaits`, `MCSessionLog` and `MCEdges` put modules
side by side that share no state: the first state chooses one and a behaviour is about it.
`MCFrontEnd`, for one, extends `InteractiveTurn` and has instances of `PromptInput`,
`KeyInput` (one that cuts reads, one that edits) and `PatchApply`.
This keeps one start of TLC per question; it adds no interleavings and claims none.  Where
components do interact (agent and front end, driver and log, journal and thread, resume
threads of several processes, mutations under one lock) the interaction is inside a module.

## What the runs check

Twelve runs; each is one `.cfg` with the module of the last column but one.

| Run | Module | What it asks |
|---|---|---|
| `round` | `MCToolRound` | every path of a round of tool calls, in durable sessions and in memory |
| `turn` | `MCTurnDriver` | every path of `run_turn`, in both |
| `tools` | `MCTools` | what a ledger, a plugin, a command, its output and a commit tell of what happened |
| `sessionlog` | `MCSessionLog` | the grammar, recovery, view, memory, archive, and the answers of tools with their cards |
| `edges` | `MCEdges` | the two devices, the journal's file and the screen, streamed markup, and the surface that the model is shown, with pruning |
| `waits` | `MCWaits` | whatever is waited for: driver, stream, resume, process, terminal |
| `frontend` | `MCFrontEnd` | turns, typing and shown patches |
| `interactive_exit`, `draft_kept` | `MCFrontEnd` | two promises of the documentation that the code breaks |
| `plugin_race` | `PluginActor` | the same of a plugin |
| `markup_degrades`, `markup_boundary` | `MCMarkupStream` | the same of the markup |

### The properties

*Ledger* (`tools`).  `LedgerInv` is the inductive invariant; with it `CapacityHeld` bounds
committed and protected room together.  `FallbackAlwaysFits` is the purpose of a claim: at
any moment its fallback would be admitted.  `IrreversibleResultKept` follows a result that
must not be replaced until it is committed.  `RetiredAfterSync` orders the end of an
attempt after a barrier that came after its closing row.

*Tools* (`tools`).  `AnswersTellEffect`: the answer to a call of a plugin agrees with what
was on the wire, and who waits is held; a command's outcome agrees with its process, and
nobody signals a number that was reused; a commit says truthfully whether it changed the
file.  `OutputIsTold`: the text of a command's output is complete or says it is not.
`ToolsSettle`: every call is answered,
every command ends, every commit returns, a host and a session that shut down do.

*Grammar* (`sessionlog`).  `BoundariesCloseClean`, `BracketOwnsQuietTurnInBoth` and
`BracketIsolated` are about what must not straddle a boundary or a bracket; `RetryOwnsSlot`
about a late report of an old retry; `OverflowNeedsReplacement` and
`RefusedCallNeverSucceeds` about what must come between two rows, however far apart.

*What rows do* (`sessionlog`).  `CrashedLogResumes`: whatever a crash left, the plan is
accepted row by row and closes everything, and planning again adds nothing.
`CreditsBalance`: every byte of the pool is held once.  `ViewTellsLog`: the live view and the
archive show what the rows say; no answer of a tool is refused by its contract, and cards
and receipt say what the answers say.

*Driver* (`turn`).  `LogFollowsGrammarInBoth` is the refinement: the rows of the driver are
a behaviour of `SessionProjection`.  `DispatchIsSound` relates a request to what was durable
and current when it left.  `OpenIsClosed`: what is open can be closed, and a turn that
ended left nothing open.  `FailureNeverHiddenInBoth` is about the one way out.

*Round* (`round`).  `EffectIsAuthorised` is the conjunction that must hold at the moment a
tool starts to change something; `EffectAnsweredTruthfully` that its row does not deny it;
`RoundEndsCleanInBoth` what the round hands back to the driver; `LogFollowsGrammarInBoth`
as above; `RoundReturns` is liveness.

*Journal, surface and screen* (`edges`).  `StableLogKept` is the refinement of `StableLog`.
`RowsKeepTheirPlace`: every accepted row is in exactly one of file, command, staged append
and batch, in order, and a read answers the row that was asked for.  `SurfaceIsSound`:
prices, ranges and anchors stay right under replacement, and a pruned result keeps its
meaning.  `ScreenTellsTruth`: a
ledger that is believed agrees with the screen, whatever failed or was resized, and streamed
text is shown once and in order.  `WaitsEnd` is liveness.

*Waits* (`waits`).  `StreamIsWhole`: a stream that ended well was complete.
`RepairsShownFile`: a repair changes only the file that was shown; no change that a look lay
ahead of survives it (see "The windows of a resume").  `LeavesAllSettled`: the
exit code, the session and the terminal at the end of a process.  `EveryWaitEnds` is liveness.

*Front end* (`frontend`).  `FrontEndAgreesWithAgent`: question, answer and decision on their
two channels in any order.  `AnswerWasMeant`: an answer
comes from a key pressed after the question was seen.  `TurnEndsAsStopped`: the strongest stop
wins, no failure is hidden, and the loop that goes on knows whether the prompt is in the log;
the agent ends a turn with its prompt or, stopped, late or without room before the first
step, without it.  `PromptsKept`: nothing sent or queued is lost or doubled.  `TextsArriveWhole`: what
is typed arrives as it was typed, and the shown patch is the one made.  `TurnReturns` is
liveness.

Every property has a mutant: a plausible slip in one definition that the run then
refutes.  The mutants are the operators named after a definition and the slip
(`Install_KeepsOldUsage`) that stand before it; no specification uses them.

### The bounds, and why they are enough

States are distinct ones as TLC counts them, of all the parts of a composite together.

| Run | States | Bounds |
|---|---|---|
| `round` | 1.5 M | 2 calls, 2 approvals |
| `turn` | 2.0 M | 2 turns of 2 steps, 3 attempts, 1 retry, 1 call |
| `tools` | 0.4 M | ledger: 2 claims, 4 events, 5 bytes; plugin: 2 calls, a queue of 1; process: 2 process numbers, 1 wrap, 1 failed pass; workspace: 2 changes, 2 edits; output: 2 scripts a pipe |
| `sessionlog` | 0.8 M | grammar: 1 turn, 2 steps, 2 calls, 2 approvals, 2 retries, 1 orphaned marker, in memory 2 turns of a step; recovery: 2 turns of a step; view: 3 deltas, 2 kept, and 2 steps with one call id; memory: a limit of 12 units, 2 attempts, 2 steps; archive: 4 or 5 rows; answers: 2 calls, 3 edits |
| `edges` | 0.6 M | journal: 4 rows, batches of 2, 2 dropped waits, 1 fault, 2 ends of a process; screen: 3 columns, heights 4 and 5, 2 texts, 1 fault; markup: small texts cut anywhere; surface: 5 rows; prune: a threshold of 4, 2 results, 2 passes, 1 alteration, 1 crash |
| `waits` | 0.3 M | driver: 1 turn; stream: 5 chunks, 1 block, 2 reads; resume: 2 processes, 2 rows missing, 1 foreign change from an opening of the file to the next; process: 4 kinds of signal, 3 sent; terminal: 3 events |
| `frontend` | 1.2 M | turn: 2 turns, 2 questions, 2 terminal moves; input: 3 ids, a queue of 2, a history of 2; keys: 2 presses of 5 keys and 2 pastes, 4 presses of 7 keys; patch: files of up to 4 lines, 2 hunks |

The ledger sees a claim only as itself or as one of the others, so two claims give every
relation between a claim, another claim and a free append; five bytes are fewer
than two of the largest fallbacks and an append need, so every refusal occurs.  The
grammar needs two steps for what may leak from one to the next and two calls and approvals
for what may be mixed up; a turn differs from the next only by its number.  The driver needs
a step after one that ran a tool, an attempt after a retry and one that a summary took, and a
turn after a turn; three attempts are the
least number at which a summary, a retry and an answer meet in a step.  A round needs a
call after the one that is stopped.  The journal needs a batch of two to be cut in the
middle, two dropped waits to abandon a command and then the call that resumes it, a fault
and two ends of a process, the second of them during the resume from the first.  A resume
needs a second process that comes while the first is committing, and a foreign change at each
place of the thread, one at a time because each look refuses for one kind of change whatever
else was changed; a commit a second commit
and an edit before and after each check; a turn of the front end two questions, so that the
envelope of one can meet the row of the other.  A cut key needs a sequence of two bytes, a
paste that holds an Enter, and what is typed behind it; an archive a row that falls out at
each of its limits.  Larger instances were run once where time allowed: two presses more of
the keys (5 M), three moves of the terminal (6 M), three edits of a file (0.2 M), recovery of
two steps (1.4 M), longer markup (25 M).

`MaxRow`, `MaxDrops`, `MaxFaults`, `MaxCrashes`, `MaxTurns`, `MaxOrphans`, `MaxEdits`,
`MaxMoves`, `MaxSent`, `MaxEvents` (of `TerminalModes`), `MaxPress`, `MaxAhead`, `MaxPasses`,
`MaxAlterations`, `MaxWraps` and `MaxHiccups` bound the models; most others are limits of the
code made small.  `QueueCap` is 2 in the code and 1 here, `Context` of a patch 3 and 1.  The
ids of `sessionlog` are symmetric: it checks safety only.  Deadlock is
checked except where a system ends: a closed session, a turn or a round that has returned,
used up bounds.

### Fairness

The async runtime polls a future that is awaited, so each step of the driver, of the round,
of a shutdown, of a journal call, of a polled stream, of a process's frame and of a
front end is weakly fair.  The threads of the journal and of a resume run; a commit runs on a blocking thread.
Time passes, so deadlines do: of a turn, of every read of a stream, of a call to a plugin,
of the stages of a command, of a process's clean-up.  A tool's setup and effect end, because
they own a deadline and a kill of their own (`tools/shell.rs`, `tools/plugin/action.rs`).
Nothing is assumed of the provider, of a plugin, of a command, of the user, of standard
input, or of who sends signals.  The actor of a plugin is fair in everything but the results
of its peer, which may stay away for ever.  A session that began to shut down is either shut
down again or dropped, and dropping it joins the thread.

In a composite only the chosen part ever has an enabled step, so conditions of different
parts share one `WF_` conjunct, and goals of different parts one leads-to.  What
`ProviderStream` shows of a poll (`PollEnds`) is what the fairness of `TurnDriver`'s wait for
the provider relies on.

## What is proved

For every value of the constants that satisfies the assumptions named in the modules, with
no bound on the length of a behaviour.  Each module of proofs has one inductive invariant,
a lemma for every action, and theorems that follow from the invariant.

*`ToolsProofs`, the ledger.*  The inductive invariant `LedgerInv` adds three facts to the
checked ones: the counters equal what the live claims protect (`CountersMatchClaims`, sums
of ceilings written as cardinalities of byte units so that the finite-set theorems apply),
a fallback never outgrows its ceiling, and exactly the owner of the pending operation is
pending.  Without the first, nothing connects the counter that admission reads to the claim
that needs the room.  `ClaimsAlwaysSettle` follows because a claim's own ceiling is part of
the protected bytes it may use.  `AttemptInv` (a barrier covers what was committed before
it, an open attempt was behind none) gives `RetirementIsDurable`; `IrreversibleNeverLost` is
an action property over the same invariant.

*`ToolsProofs`, the tools.*  Under `ToolsAssumption` alone, for any calls, changes and room in
the queue, and for any number of processes whose numbers start over at most once while a
command runs (`MaxWraps`; with twice the two passes can be deceived, see below).  Three
invariants are kept by every step of the composition, since a step of it is one module's
and a stutter of the others (`ToolsSteps`).

* `PluginInv`: a call waits exactly while it is queued, once, or driven by the thread
  (`IsHeld`); what the thread notes of its dispatch is what reached the wire (`IsNoted`); the
  thread has a call from taking it until it is settled, with a clean-up that still knows what
  to do after it (`Driven`), and a report that the plugin is gone is true (`PeerKnown`).  So
  each answer suits its call when it is given, whoever gives it (`Suits`).
* `ProcessInv`: what was latched, armed and signalled agrees with the place of the worker
  (`NotBegun`, `Guarded`, `Reported`).  The core is the two passes over the process table
  (`OnePass`, `TwoPasses`): a member that a pass did not see was born behind it, which takes
  numbers that started over; after the second complete pass that would need them to do so
  again, so the group is empty.
* `CommitInv`: the lock is held by exactly the commit that is past it (`LockHeld`); since its
  last check a commit sees its own baseline or a version, or a parent, changed after that
  check (`Checked`); only a whole candidate passes the last check (`StagingTold`);
  `BaselineKept`.

`AnswersAreTrue` is the property of the run.

*`SessionProjectionProofs`.*  `Consistent` is the conjunction of `TypeOK`, `MarkerHasRoom`,
`BoundaryConsistent`, `CallsConsistent` and `RetriesConsistent`.  The properties are not
inductive alone: that a bracket begins with nothing unsettled, for instance, needs that
the attempt is at rest while it is open (`BracketAtRest`) and that calls follow a committed
attempt (`CallsFollowCommit`); that the attempt slot waits for one retry needs that retries
are numbered by how many their step has had (`RetriesNumbered`).  There is one lemma per
kind of row, and frame lemmas for the parts a row leaves alone.

*`ToolRoundProofs`.*  For any finite sets of calls and approvals (`RoundIds`), any policies
and both kinds of session.  `IInv` says what every party of a live round has in hand:
`ToolHeld` (the call being resolved and how far its question is), `ClaimsHeld` (which closing
rows are still reserved), `LogKept` (which rows the log has of the calls before, of the
current one and of those after), `RoundClean` (which stops the round has noticed) and
`EffectKept` (what was done outside, under which decision).  The rows are described by
lemmas about the grammar's `After...` operators on the logs a round can extend (`RoundLogs`).
`EffectsAnswered` and `EffectsAuthorised` are the properties of the run; `NothingLeftOpen` and
`ContinuesClean` the two halves of what it hands back; `RowsFollowGrammar` the refinement of
`SessionProjection`.

*`RoundPolicyProofs`.*  `ToolRoundProofs` is about one policy, `MCToolRound` about a behaviour
that chooses one.  The proofs are taken twice, for the module as it stands and, with
`INSTANCE`, for a session in memory; the invariant is that of the policy that was chosen.
`RoundsEndClean` and `RowsFollowInBoth` are the two properties of the run that speak of both.

*`TurnDriverProofs`.*  For all limits from one upwards (`DriverLimits`), finite calls
(`DriverIds`), both kinds of session and any number of turns.  `IInv` follows the program
counter: `ClaimsAt` which closing rows are reserved, `LogAt` what the log looks like
(`PlaceAt`, `SlotAt`, `RetriesAt`, `CallsAt`, `BracketAt`), `RunAt` what is latched, `AtRest` what
holds between turns; a poisoned loop owes only its report.  For each row of the driver one
lemma says that the grammar admits it there (`...Admitted`) and one what the log is like
after it (`...Holds`).  `OpenClosed`, `DispatchSound` and `DriverFollowsGrammar` are the
properties of the run, `FailureReported` the durable part of the fourth.

*`SessionJournalProofs`.*  For any number of rows and any size of a batch (`JournalBounds`),
any number of dropped waits, faults, crashes and resumes, and a torn row that is no row
(`TornIsNoRow`).  The rows accepted but not in the file are in three places: the command in
the slot, what the writer has staged, and the batch.  `Located` says that file, slot, staged
and batch follow one another in the log without a gap while the thread works, which is why
a confirmation that finds the last three empty confirms the whole log; `SlotHeld`, the
protocol of the one slot, says that it does find them so: what is in flight is either in the
slot or answered, and nothing is sent behind it.  `FileHeld` (the file is the log up to a
row, perhaps with a torn one after it, and what is synchronised is whole) is all that a
poisoned thread or a crash needs.  `StorageHeld` and `AnswersHeld` tie the session's state and the
answers to it.  `RowsInPlace` is the invariant of the run; `JournalIsStable` the refinement of
`StableLog`, step by step.

*`WaitsProofs`.*  Resume: for any number of processes, none of which is called "free"
(`LockNames`).  The lock is held by exactly the thread that is past it (`LockHeld`); from the
second scan on, the rows missing are those shown, no edit is older than that scan and, from
the last check on, no growth or move older than that check (`Rescanned`); a thread commits because its
front end told it to (`Asked`).  `ShownFileRepaired` is the property of the run,
`OneThreadBehindLock` mutual exclusion.  Process: `ProcessInv` says at each place of the frame
which futures it owns, what was latched before and what the code of the exit is made of;
the code is decided long before it is used, so that each place has to carry it.  Terminal:
`TerminalInv` says who owns the terminal and in which modes it is at each place of the loop,
of a suspension and of the exit (`Kept`, `Owned`, `Docked`, `InFront`); that the shell gets the
terminal back follows only with what an owner that failed to restore it has noted.
`AllSettledThroughout` is `LeavesAllSettled`; `FirstSignalStays` and `QuietBehindShell` are
properties of the steps.  Stream: for any kinds of block in any order, any limits and any
number of reads (`WaitsAssumption`).  `StreamInv` follows the queue to its end: what waits in
it is a sequence of chunks that the validator, as it stands, accepts (`Flowing`), and which,
once the provider has finished, ends in the one finish (`Finishing`, `Finished`).  That an
event's chunks keep this is shown along the translator's loop over the blocks (`Translating`),
for the first block at which it would fail.  `StreamsWhole` is `StreamIsWhole`.

*`FrontEndProofs`, a turn.*  For any questions and terminating signals whose names are not
those of other stops (`QuestionNames`, `ExitNames`), any number of turns, keys, signals and
faults.  `TurnInv` has four parts.  `PanelFits`: keys that wait for an accepting selector
were typed by somebody who saw it.  `StopFits`: the latched stop, the cancellation and the
signals taken say the same.  `SightFits`: the committed prompt is seen or on its way, and so
is the end.  `ChannelsInStep`, for a turn without a stop: every row under way is the next of
what the join has seen (`RowsFollow`), a question is asked by one row and nothing of it was
seen before (`AskedOnce`), and an agent that may ask again has left nothing of its last
question in either channel (`ChannelsFit`).  That no halves are mixed up is not inductive
without the last: only because an answered question is gone from both channels can the next
one be asked.  `AgreesWithAgent`, `AnswersMeant` and `EndsAsStopped` are three properties of
the run, of which `FrontTakesTurns` says that it adds no step of its own to a turn.

*`FrontEndProofs`, the prompts.*  For texts of any sizes (`PromptAssumption`) and any limits of
the queue and the history.  That no text is lost (`NothingLost`) needs to know why each of the
moves may overwrite what it does: what the history shows was sent before, so a draft that is
only shown is not the last of its text (`Looked`); a turn holds either the front of the queue
or a prompt that left the composer empty (`FrontReserved`); and what waits was numbered behind
what was sent (`Numbered`), which keeps a recall from sending anything twice.
`PromptsStay` is `PromptsKept`.

Only model-checked:

* liveness, everywhere: the prover treats neither fairness nor ENABLED;
* what depends on data that is folded or recursive (credits that are sums over sequences,
  shortened texts, streamed markup, an archive cut at limits, prices of a surface): the
  provers used here cannot instantiate an induction theorem, and the least element of a set
  of numbers (`Least`, `FrontEndProofs`; `LeastOf`, `WaitsProofs`) replaces it only for numbers
  and for a loop of which each round is one equation;
* keys and patches (`TextsArriveWhole`), recovery (`CrashedLogResumes`): within reach of the
  method, not done;
* the composites of both policies but that of the round: `BracketOwnsQuietTurnInBoth` and the
  two of the driver are proved of the module with any `Durable` (`BracketQuiet`,
  `DriverFollowsGrammar`, `FailureReported`), and the composite checks both values.

## Where code and documentation disagree

* `interactive_exit` (`cli/interactive.rs:661`): a failed write that takes the dock off the
  screen replaces an exit by signal, and the process ends with the error's code.
* `draft_kept` (`cli/interactive.rs:788`): a cancelled prompt whose draft cannot be given
  back, because the user typed meanwhile, ends the program with both texts.
* `plugin_race` (`tools/plugin/actor.rs:450`): a call that was queued after the last
  rejection of the queue is reported as dispatched though no byte of it was written.
* `markup_degrades` (`tui/markup.rs:335`): text that degrades within a chunk is shown out of order.
* `markup_boundary` (`cli/interactive.rs:2235`): after a resize the next output may be glued
  to the text of the frame before it.

Each is a run that ends with a counterexample; the properties of the other runs exclude
exactly these cases, by a named condition.

Met on the way, without a run of their own:

* An I/O error downgrades a signal in three more places (`cli/entry.rs:260-265`,
  `cli/interactive.rs:270-290` and `694-712`, where a terminal that hung up turns a held
  SIGHUP into exit 1), against `docs/design/persistence-resume-compaction.md:2155`.
  `ScriptRun` and `TerminalModes` reserve them (`CleanupFailed`; an owner that is not restored).
* A process that is terminated while it is suspended behind its shell restores the terminal
  from the background, is stopped by SIGTTOU and ends only in front (`MustWait` in
  `TerminalModes`).  A SIGTSTP during assembly stops and then exits (`cli/entry.rs:266`).  A
  Ctrl+C that is noticed while the dock is detached gives the suspension up; one that comes
  while the line interface writes a notice ends the program with an agent error.
* A deadline that passes while the selector's frame is written ends an ordinary turn as a
  failure (`cli/interactive.rs:1966-1985`, `2847`).
* A byte sequence is torn when the rest of a read is dropped, flushed or timed out; what
  follows is then read as keys, so that an Enter inside a cut paste submits, though
  `docs/design/tui-v2.md:392` says a paste never does.  `KeyInput` marks such input as torn.
* `history_next` reports an invalid state when one commit evicts several entries; the pause
  of the queue is ended by any key; `/exit` typed with a waiting queue sends the queue first;
  recalling the queue while history is shown gives up the saved draft.
* A resize between the batches of a frame ends the turn with an output error, though
  `docs/design/tui-v2.md:785` has it redrawn; text cut short and written again may repeat rows.
* 32,768 processes started within the 10 ms between two looks at a group make its report
  wrong, as `docs/design/shell-and-processes.md:1133` admits (`MaxWraps = 2`).
* The cold scanner accepts a form of an overflow compaction's start that no session writes.
* After an overflow compaction the deltas of both attempts share a key of the live view until
  the answer is stated again; the same goes for reasoning in the archive.
* An approval that was given but whose row the observer missed declines the call as aborted
  before dispatch; the lost observer then ends the turn.

### The windows of a resume

The lock on a journal is advisory, so no code can look last.  The model lets somebody who
ignores it change the file at any moment, and `RepairsShownFile` says which changes can be
under a repair: an edit of the same length made behind the second scan
(`session/resume.rs:490`), and any change made behind the last `revalidate_commit`
(`session/resume.rs:496`), while `commit_recovery_suffix` cuts and writes
(`session/journal.rs:884`).  What was appended then is cut off, or overwritten as far as
the repair reaches, and a file that was moved away is repaired under its new name.  The
documentation promises a refusal only for changes made while the warning is shown
(`docs/design/persistence-resume-compaction.md:2441`), and that holds.  `missing` counts what
the thread has still to write; what a change in a window makes of the file is left open
until the file is opened again.

## What is not modelled

* Data, where no property is about it: texts, digests, usage, token estimates (every
  comparison comes out either way), layout, colours, widths of characters.
* Ledger: the bytes of a row beyond its size; the fold, which is the grammar's.
* Grammar: the folded chunks of an assistant message, replay digests.  Recovery: decoding,
  digests and byte limits of rows.
* Driver: durations of a backoff.
* Round: dropping the future of `run_turn` (the process ends, which is a matter of
  recovery); whether a tool tells the truth about an effect it did not start.  A stop is
  seen by a mutation slightly more often than the code's merge of stops would let it, which
  only adds behaviours.
* Journal: validation of a prune prefix (its failure is a poisoned thread), names,
  permissions and capacity of the store.  `docs/design/persistence-resume-compaction.md`
  defers guarantees on power loss; the model has the stronger fault anyway, with
  `sync_durable` taken at its word.
* Memory: the pools of the surface and of the token anchor.  Pruner: a picture is one kind of
  content; an alteration from outside changes one row; no resume after one.
* Stream: an event's bytes; a reason "length" stands for "tool_calls" too.
* Commands: valid multi-byte text in the output; a failing `waitid` on one's own child; the
  macOS process table; descriptors at spawn.  Patches: empty hunks; a malformed patch is any
  refusal.  Commits: a poisoned lock; `docs/design/file-changes-and-approval.md:81` documents the last window.
* Plugins: schema, configuration and JSON, which are pure.
* View and archive: memory sessions, the order of cards, a limit on blocks apart from the
  one on deltas.  Screen: graphemes of no width; a resize there and back that nobody saw.
* Markup: the linear presenter; a frame of several parts.
* Input: detail view keys, end of file, help, reverse search, history across sessions.
* Process: help, version and listing; signals come once each; an external SIGSTOP.
* The parts marked `not_modelled` in `PROJECT.json`, with their reasons.

## Plan

Done: all the parts above.  Left, in this order:

1. `CrashedLogResumes`: the lemmas about the grammar's operators that `TurnDriverProofs` has
   are the ones it starts from;
2. what `RoundPolicyProofs` does for the round, for the driver and the grammar.
