---------------------------- MODULE SessionRecovery ----------------------------
(***************************************************************************)
(* Crash and repair of a durable session log (src/src/session/recovery.rs, *)
(* with the admissions of projection.rs it uses).                          *)
(*                                                                         *)
(* A live session appends rows until its process dies.  A resume folds the *)
(* journal with the cold scanner, plans the rows that close what the crash *)
(* left open, and appends them; it can itself die after any of them.  disk *)
(* is the cold fold of the rows in the file: rows are only appended, so a  *)
(* crash that loses the last rows is one that came earlier, and the bytes  *)
(* of a row it tore are cut before the repair.  The cold scanner has its   *)
(* own admission of rows; that it accepts what the live session accepted   *)
(* is a property here and not an assumption.  How the process and its      *)
(* thread agree on a resume is ResumeHandshake.                            *)
(***************************************************************************)
EXTENDS Naturals, FiniteSets, Sequences, SequencesExt

CONSTANTS Calls, Approvals,                          \* ids, as in SessionProjection
          MaxTurns, MaxSteps, MaxRetries, MaxOrphans \* bounds, as there

VARIABLES log,    \* projection of the live session
          disk,   \* ColdScan: the fold of the rows in the file
          mode,   \* "live", "down", or "repairing"
          plan,   \* rows of the running repair still to append
          seed    \* RecoveredSeed: projection after the whole plan

L == INSTANCE SessionProjection WITH Durable <- TRUE

vars == <<log, disk, mode, plan, seed>>

-----------------------------------------------------------------------------
(* Rows, as they are encoded: who closed an attempt and why is not in them. *)

Rows ==
  [kind : {"turnStart"}, turn : L!Turns]
  \cup [kind : {"turnEnd"}, turn : L!Turns]
  \cup [kind : {"stepStart", "stepEnd"}, turn : L!Turns, step : L!Steps]
  \cup [kind : {"note"}, needsTurn : BOOLEAN]
  \cup [kind : {"chunk"}, finish : {"more", "ok"} \cup L!Failures]
  \cup [kind : {"assistant"}, calls : L!CallLists]
  \cup [kind : {"retry"}, number : 1..MaxRetries]
  \cup [kind : {"retryStarted"}, turn : L!Turns, step : L!Steps, number : 1..MaxRetries]
  \cup [kind : {"call", "prune", "rewrite"}, call : Calls]
  \cup [kind : {"asked"}, approval : Approvals, call : Calls]
  \cup [kind : {"decided"}, approval : Approvals, outcome : L!Outcomes]
  \cup [kind : {"result"}, call : Calls, code : L!Codes]
  \cup [kind : {"compactionStart"}, trigger : L!Triggers]
  \cup [kind : {"compactionEnd"}, success : BOOLEAN]
  \cup [kind : {"summary"}] \cup [kind : {"checkpoint"}, shadowed : SUBSET Calls]

\* Rows only recovery writes: "interrupted" is turn/end with that reason, and
\* the message id of a repair names the last row before the repair began
\* (anchor: how many rows ago that was).
RecoveryOnly(row) == row.kind \in {"interrupted", "repair", "endSeed"}

Open(l) == l.attempt \in L!OpenAttempt

\* What both admissions ask of a row.  end and closes are what they differ in:
\* the disposition of a step's open attempt, and whether a compaction row is
\* the closure of an overflowed attempt.
Admits(l, row, end, closes) ==
  CASE row.kind = "turnStart"    -> L!CanTurnStart(l, row.turn)
    [] row.kind = "turnEnd"      -> L!CanTurnEnd(l, row.turn, "normal")
    [] row.kind = "stepStart"    -> L!CanStepStart(l, row.turn, row.step)
    [] row.kind = "stepEnd"      -> L!CanStepEnd(l, row.turn, row.step, end)
    [] row.kind = "note"         -> L!CanNote(l, row.needsTurn)
    [] row.kind = "chunk"        -> L!CanChunk(l, l.turn, l.step, TRUE)
    [] row.kind = "assistant"    -> L!CanAssistant(l, l.turn, l.step, row.calls, TRUE)
    [] row.kind = "retry"        -> L!CanRetry(l, l.turn, l.step, row.number, TRUE)
    [] row.kind = "retryStarted" -> L!CanRetryStarted(l, row.turn, row.step, row.number)
    [] row.kind = "call"         -> L!CanToolCall(l, l.turn, l.step, row.call)
    [] row.kind = "asked"        -> L!CanAsk(l, row.approval, row.call)
    [] row.kind = "decided"      -> L!CanDecide(l, row.approval)
    [] row.kind = "result"       -> L!CanToolResult(l, l.turn, l.step, row.call, row.code)
    [] row.kind = "prune"        -> /\ L!Row(l).orphans < MaxOrphans
                                    /\ L!CanPrune(l, row.call, TRUE, closes)
    [] row.kind = "rewrite"      -> L!CanRewrite(l, row.call, TRUE)
    [] row.kind = "compactionStart" -> L!CanCompactionStart(l, l.turn, row.trigger, closes)
    [] row.kind = "summary"      -> L!CanSummary(l)
    [] row.kind = "checkpoint"   -> L!CanCheckpoint(l) /\ row.shadowed \subseteq l.results
    [] row.kind = "compactionEnd" -> L!CanCompactionEnd(l, row.success)
    [] OTHER                     -> FALSE

After(l, row, closes) ==
  CASE row.kind = "turnStart"    -> L!AfterTurnStart(l, row.turn)
    [] row.kind = "turnEnd"      -> L!AfterTurnEnd(l, row.turn)
    [] row.kind = "stepStart"    -> L!AfterStepStart(l, row.step)
    [] row.kind = "stepEnd"      -> L!AfterStepEnd(l, row.step)
    [] row.kind = "note"         -> L!AfterNote(l)
    [] row.kind = "chunk"        -> L!AfterChunk(l, row.finish, TRUE)
    [] row.kind = "assistant"    -> L!AfterAssistant(l, row.calls, TRUE)
    [] row.kind = "retry"        -> L!AfterRetry(l, l.turn, l.step, row.number, TRUE)
    [] row.kind = "retryStarted" -> L!AfterRetryStarted(l, row.turn, row.step, row.number)
    [] row.kind = "call"         -> L!AfterToolCall(l, row.call)
    [] row.kind = "asked"        -> L!AfterAsk(l, row.approval, row.call)
    [] row.kind = "decided"      -> L!AfterDecide(l, row.approval, row.outcome)
    [] row.kind = "result"       -> L!AfterToolResult(l, row.call, row.code)
    [] row.kind = "prune"        -> L!AfterPrune(l, row.call, closes)
    [] row.kind = "rewrite"      -> L!AfterRewrite(l)
    [] row.kind = "compactionStart" -> L!AfterCompactionStart(l, l.turn, closes)
    [] row.kind = "summary"      -> L!AfterSummary(l)
    [] row.kind = "checkpoint"   -> L!AfterCheckpoint(l, row.shadowed)
    [] row.kind = "compactionEnd" -> L!AfterCompactionEnd(l)

-----------------------------------------------------------------------------
(* The plan that closes an interrupted log: build_recovery_plan.           *)

NewScan == [log |-> L!EmptyLog,
            since |-> 0,          \* RecoveryCursor: rows since its root, 0 when None
            confirmed |-> FALSE,  \* RecoveryCursor::confirmed
            seeded |-> FALSE,     \* ends_with_seed
            ok |-> TRUE]          \* not StoreError::Corrupt

\* recovery_result_kind: a call whose intent is in the log may have had its
\* effect, unless its approval says it was never let run.
RepairCode(call) ==
  IF call.stage = "declared" THEN "notStarted"
  ELSE IF call.approval \in {"pending", "cancelled"} THEN "cancelled"
  ELSE IF call.approval \in {"rejected", "unavailable"} THEN call.approval
  ELSE "outcomeUnknown"

Unanswered(l) == SelectSeq(l.order, LAMBDA c : l.call[c].stage # "answered")
Undecided(l) == SelectSeq(Unanswered(l), LAMBDA c : l.call[c].approval = "pending")

StepClosers(l, since) ==
  LET calls == Unanswered(l)
      decisions == [i \in DOMAIN Undecided(l) |->
                      [kind |-> "decided", outcome |-> "cancelled",
                       approval |-> CHOOSE a \in l.asked : TRUE]]
      repairs == [i \in DOMAIN calls |->
                    [kind |-> "repair", call |-> calls[i],
                     code |-> RepairCode(l.call[calls[i]]),
                     anchor |-> since + Len(decisions) + i - 1]]
  IN decisions \o repairs
       \o <<[kind |-> "stepEnd", turn |-> l.turn, step |-> l.step]>>

Plan(l, since, seeded) ==
  (IF l.step = 0 THEN <<>> ELSE StepClosers(l, since))
    \o (IF l.turn = 0 THEN <<>> ELSE <<[kind |-> "interrupted", turn |-> l.turn]>>)
    \o (IF seeded THEN <<>> ELSE <<[kind |-> "endSeed"]>>)

\* apply_recovery_admission: a HistoricalScan row moves no compaction state;
\* end-seed drops what is left of it.
CanRepair(l, row) ==
  CASE row.kind = "decided"     -> l.turn # 0 /\ row.approval \in l.asked
    [] row.kind = "repair"      -> /\ l.step # 0
                                   /\ l.call[row.call].stage \in {"declared", "started"}
                                   /\ l.call[row.call].stage = "declared" =>
                                        row.code = "notStarted"
                                   /\ L!HonoursDecision(l, row.call, row.code)
    [] row.kind = "stepEnd"     -> /\ L!InStep(l, row.turn, row.step)
                                   /\ L!AllAnswered(l) /\ l.asked = {}
    [] row.kind = "interrupted" -> l.turn = row.turn /\ l.step = 0 /\ l.asked = {}
    [] row.kind = "endSeed"     -> l.attempt = "outside"
    [] OTHER                    -> FALSE

Unmoved(l, after) == [after EXCEPT !.marker = l.marker, !.orphans = l.orphans]

Repaired(l, row) ==
  CASE row.kind = "decided"     -> Unmoved(l, L!AfterDecide(l, row.approval, row.outcome))
    [] row.kind = "repair"      -> Unmoved(l, L!AfterToolResult(l, row.call, row.code))
    [] row.kind = "stepEnd"     -> Unmoved(l, L!AfterStepEnd(l, row.step))
    [] row.kind = "interrupted" -> Unmoved(l, L!AfterTurnEnd(l, row.turn))
    [] row.kind = "endSeed"     -> [l EXCEPT !.compaction = "none", !.owner = 0,
                                             !.marker = "none", !.orphans = 0]

\* The plan applied to a clone of the projection; ok when every row is admitted.
Rehearsed(l, rows) ==
  FoldLeft(LAMBDA acc, row : IF acc.ok /\ CanRepair(acc.log, row)
                             THEN [log |-> Repaired(acc.log, row), ok |-> TRUE]
                             ELSE [acc EXCEPT !.ok = FALSE],
           [log |-> l, ok |-> TRUE], rows)

-----------------------------------------------------------------------------
(* The cold scanner: scan_jsonl, apply_cold_event.                         *)

\* apply_scanned_row reads what closed an attempt from the fold.
ColdEnd(l) == IF Open(l) THEN "failed" ELSE "none"

ColdCloses_Never(l, row) == row.kind = "compactionStart" /\ row.trigger = "contextOverflow"

ColdCloses(l, row) ==
  \/ row.kind = "compactionStart" /\ row.trigger = "contextOverflow"
  \/ row.kind = "prune" /\ l.step # 0 /\ Open(l)

Corrupt(s) == [s EXCEPT !.ok = FALSE]

Ordinary(s, row) ==
  IF Admits(s.log, row, ColdEnd(s.log), ColdCloses(s.log, row))
  THEN [s EXCEPT !.log = After(s.log, row, ColdCloses(s.log, row)),
                 !.since = 0, !.confirmed = FALSE, !.seeded = FALSE]
  ELSE Corrupt(s)

\* recovery_event_matches: the row is the first one recovery would write now.
\* All but end-seed carry the time of the row before them (same).
Matches(s, row, same) ==
  LET next == Plan(s.log, s.since, FALSE)
  IN /\ next # <<>> /\ row = Head(next)
     /\ same \/ row.kind = "endSeed"

Rehearsable(s) == Rehearsed(s.log, Plan(s.log, s.since, FALSE)).ok

ByRecovery(s, row, confirmed) ==
  IF ~CanRepair(s.log, row) THEN Corrupt(s)
  ELSE IF row.kind = "endSeed"
       THEN [s EXCEPT !.log = Repaired(s.log, row), !.since = 0,
                      !.confirmed = FALSE, !.seeded = TRUE]
       ELSE [s EXCEPT !.log = Repaired(s.log, row), !.since = @ + 1,
                      !.confirmed = confirmed, !.seeded = FALSE]

\* is_tentative_recovery_start: recovery writes these too.
Tentative(row) == row.kind = "stepEnd" \/ (row.kind = "decided" /\ row.outcome = "cancelled")

Scanned(s, row, same) ==
  IF ~s.ok \/ (s.seeded /\ row.kind = "endSeed") THEN Corrupt(s)
  ELSE IF s.since # 0 THEN
    IF ~Rehearsable(s) THEN Corrupt(s)
    ELSE IF Matches(s, row, same) THEN ByRecovery(s, row, s.confirmed \/ RecoveryOnly(row))
    ELSE IF s.confirmed THEN Corrupt(s)
    ELSE Ordinary(s, row)
  ELSE IF Tentative(row) /\ ~Rehearsable(s) THEN Corrupt(s)
  ELSE IF Tentative(row) /\ Matches(s, row, same) THEN ByRecovery(s, row, FALSE)
  ELSE IF ~RecoveryOnly(row) THEN Ordinary(s, row)
  ELSE IF Rehearsable(s) /\ Matches(s, row, same) THEN ByRecovery(s, row, TRUE)
  ELSE Corrupt(s)

\* compaction_recovery_is_consistent.
Consistent(l) ==
  l.compaction # "none" =>
    l.asked = {} /\ \A c \in Calls : l.call[c].stage \in {"absent", "answered"}


\* prepare_recovery: the repair a crash cut short goes on from its own root.
PlanFor(s) == Plan(s.log, s.since, s.seeded)

Preparable(s) == s.ok /\ Consistent(s.log) /\ Rehearsed(s.log, PlanFor(s)).ok

-----------------------------------------------------------------------------
(* The process.                                                            *)

Init ==
  /\ log = L!EmptyLog /\ disk = NewScan
  /\ mode = "live" /\ plan = <<>> /\ seed = L!EmptyLog

Died == log' = L!EmptyLog /\ mode' = "down" /\ plan' = <<>> /\ seed' = L!EmptyLog

\* The process ends or dies, or the repair stops at a failed write; what is in
\* the file stays.
Crash == mode # "down" /\ Died /\ UNCHANGED disk

\* prepare_recovery, committed.
Resume ==
  /\ mode = "down" /\ Preparable(disk)
  /\ mode' = "repairing" /\ plan' = PlanFor(disk)
  /\ seed' = Rehearsed(disk.log, PlanFor(disk)).log
  /\ UNCHANGED <<log, disk>>

AppendRepair ==
  /\ mode = "repairing" /\ plan # <<>>
  /\ disk' = Scanned(disk, Head(plan), TRUE) /\ plan' = Tail(plan)
  /\ UNCHANGED <<log, mode, seed>>

\* Session::new_recovered.
Continue ==
  /\ mode = "repairing" /\ plan = <<>>
  /\ mode' = "live" /\ log' = seed /\ seed' = L!EmptyLog
  /\ UNCHANGED <<disk, plan>>

\* A row the session accepts; same: the clock has not moved since the last one.
\* append_prune_pair refuses a prune while an attempt is active.
AppendRow ==
  /\ mode = "live"
  /\ \E row \in Rows, end \in L!Dispositions \cup {"none"}, closes, same \in BOOLEAN :
       /\ row.kind # "stepEnd" => end = "none"
       /\ row.kind \notin {"prune", "compactionStart"} => ~closes
       /\ row.kind = "prune" /\ ~closes => ~Open(log)
       /\ ~Tentative(row) => same
       /\ Admits(log, row, end, closes)
       /\ log' = After(log, row, closes)
       /\ disk' = Scanned(disk, row, same)
  /\ UNCHANGED <<mode, plan, seed>>

\* A provider attempt begins and its fold is sealed without a row.
Dispatch ==
  /\ mode = "live"
  /\ \/ L!CanDispatch(log, log.turn, log.step) /\ log' = L!AfterDispatch(log)
     \/ L!CanSeal(log) /\ log' = L!AfterSeal(log)
  /\ UNCHANGED <<disk, mode, plan, seed>>

Next == Crash \/ Resume \/ AppendRepair \/ Continue \/ AppendRow \/ Dispatch

Spec == Init /\ [][Next]_vars

-----------------------------------------------------------------------------
(* Properties.                                                             *)

\* Whatever rows sessions and repairs wrote, and wherever they died, the cold
\* scan accepts the file, and the plan it leads to is admissible: no crash, not
\* even one inside an earlier repair, makes a log that cannot be resumed.
EveryLogResumes == Preparable(disk)

\* The attempt as far as rows tell: a dispatch or a seal has none.
Attempt(l) ==
  CASE l.attempt = "sealed" -> "finished"
    [] l.attempt = "ready" -> "streaming"
    [] OTHER -> l.attempt
Settled(l) ==
  [l EXCEPT !.attempt = Attempt(l), !.marker = "none",
            !.finish = IF Attempt(l) = "finished" THEN @ ELSE "none",
            !.orphans = @ + (IF l.marker = "none" THEN 0 ELSE 1)]

\* The cold scanner reconstructs what the live session knows, although it sees
\* neither dispatches nor dispositions, and takes some of the session's rows
\* for the start of a repair.  A resumed session starts from the same fold.
ScanRebuildsSession == mode = "live" => Settled(disk.log) = Settled(log)

\* Whatever row a crash or a cut comes after, the file resumes, and resumes to
\* the session that wrote it.
CrashedLogResumes == EveryLogResumes /\ ScanRebuildsSession
=============================================================================
