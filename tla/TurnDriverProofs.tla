--------------------------- MODULE TurnDriverProofs ---------------------------
(***************************************************************************)
(* Proofs about TurnDriver: whatever the limits, the calls and the mode of *)
(* the session, for any number of turns.                                   *)
(*                                                                         *)
(* The inductive invariant IInv says of a running turn, for each point it  *)
(* can be at, which closing rows it has reserved (ClaimsAt), what the log  *)
(* looks like (LogAt) and what it has latched (RunAt).  Between two turns  *)
(* AtRest holds; a loop that was poisoned owes nothing but its report.     *)
(***************************************************************************)
EXTENDS TurnDriver, FiniteSetTheorems, TLAPS

DriverCalls ==
  [stage : {"absent", "declared", "started", "answered"},
   approval : {"none"}, result : {"none"} \cup L!Codes]

Slots == {"outside"} \cup L!OpenAttempt \cup L!ClosedAttempt
Finishes == {"none", "ok"} \cup L!Failures
Brackets == {"none", "started", "summarized", "replaced"}
Retries == L!Turns \X L!Steps \X (1..MaxRetries)

\* The folds of the logs a driver writes: it asks for no approval and leaves
\* the recovery of a context overflow to the step that failed.
DriverLogs ==
  [turn : 0..MaxTurns, nextTurn : 1..(MaxTurns + 1),
   step : 0..MaxSteps, nextStep : 1..(MaxSteps + 1),
   attempt : Slots, finish : Finishes, overflow : {"unused"},
   order : Seq(Calls), call : [Calls -> DriverCalls],
   asked : {{}}, owned : {{}},
   scheduled : SUBSET Retries, started : SUBSET Retries,
   compaction : Brackets, owner : 0..MaxTurns,
   marker : Calls \cup {"none"}, orphans : 0..MaxOrphans,
   results : SUBSET Calls]

Words ==
  {"none", "progress", "noProgress", "limit", "budget", "observer", "cancelled",
   "timeout", "aborted", "error", "blocked", "completed", "maxTokens", "continue"}

Runs ==
  [steps : 0..MaxSteps, attempts : 0..MaxAttempts, retries : 0..MaxRetries,
   inputs : BOOLEAN, prep : Preps \cup {"none"}, fresh : BOOLEAN,
   trigger : {"none", "pressure", "hardLimit"}, progress : BOOLEAN,
   summaryTried : BOOLEAN, todo : Seq(Calls), outcome : Words, stop : Words,
   limit : BOOLEAN, lost : BOOLEAN, reason : Words, fallback : BOOLEAN]

Loops ==
  [poisoned : BOOLEAN, headerLogged : BOOLEAN, unresolved : BOOLEAN,
   result : {"none", "ok", "err"}, reason : Words, recorded : Words]

-----------------------------------------------------------------------------
(* The points of a turn.                                                   *)

\* The next step is claimed and not entered: without and with a bracket.
Unentered ==
  {"prepared", "trigger", "prune", "rewrite", "pruneBarrier", "pruned", "reprepared",
   "pressed", "compact", "endBracketBarrier", "compacted", "enter"}
Bracket ==
  {"bracketStart", "bracketBarrier", "summarizing", "summaryReady", "summaryLogged",
   "closeBracket"}

\* A step is open: before an attempt, during one, after it.
Asking == {"inputs", "attempt", "header", "context", "dispatch"}
Attempting == {"streaming", "sealed", "retryBarrier", "backoff", "answered"}
Rounds == {"roundBarrier", "round"}
Stepping == Asking \cup Attempting \cup Rounds \cup {"stepEnd"}

Boundary == {"opened", "top", "closing", "endBarrier", "classify"}
Points == Unentered \cup Bracket \cup Stepping \cup Boundary \cup {"finalBarrier"}

ClaimsAt(p) ==
  (IF p = "finalBarrier" THEN {} ELSE {"turnEnd"})
    \cup (IF p \in Unentered \cup Bracket THEN {"stepStart"} ELSE {})
    \cup (IF p \in Unentered \cup Bracket \cup Stepping THEN {"stepEnd"} ELSE {})
    \cup (IF p \in Bracket THEN {"bracketEnd"} ELSE {})

-----------------------------------------------------------------------------
(* The inductive invariant.                                                *)

\* A marker leaves room for the orphan it may become.
Marked(l) == l.marker # "none" => l.orphans < MaxOrphans

Typed ==
  /\ log \in DriverLogs /\ Marked(log) /\ run \in Runs /\ loop \in Loops
  /\ pc \in Points \cup {"idle"}
  /\ cancelled \in BOOLEAN /\ expired \in BOOLEAN /\ dirty \in BOOLEAN
  /\ observer \in {"up", "down"} /\ token \in {"none", "open", "closed"}
  /\ claims \subseteq Unstarted \cup {"turnEnd", "bracketEnd"}
  /\ oversized \subseteq log.results

PlaceAt(p, l, r) ==
  /\ IF p = "finalBarrier" THEN l.turn = 0 ELSE l.turn # 0 /\ l.nextTurn = l.turn
  /\ IF p \in Stepping THEN l.step # 0 /\ l.step = r.steps ELSE l.step = 0
  /\ p \notin Stepping \cup {"finalBarrier"} => l.nextStep = r.steps + 1
  /\ p \in Unentered \cup Bracket => r.steps < MaxSteps

SlotAt(p, l, tk) ==
  CASE p \in Asking -> tk = "none" /\ (l.attempt = "ready" \/ L!Compatible(l))
    [] p = "streaming" -> tk = "open" /\ l.attempt \in {"streaming", "finished"}
    [] p = "sealed" -> tk = "open" /\ l.attempt = "sealed"
    [] p = "retryBarrier" -> tk = "closed" /\ l.attempt = "retryScheduled"
    [] p = "backoff" -> tk = "none" /\ l.attempt = "retryScheduled"
    [] p \in {"answered", "roundBarrier"} -> tk = "closed" /\ l.attempt = "committed"
    [] p = "round" -> tk = "none" /\ l.attempt = "committed"
    [] p = "stepEnd" ->
         \/ tk = "open" /\ l.attempt \in L!OpenAttempt
         \/ tk = "none" /\ (l.attempt \in L!ClosedAttempt \/ L!Compatible(l))
    [] p = "endBarrier" -> tk = "closed" /\ l.attempt = "outside"
    [] OTHER -> tk = "none" /\ l.attempt = "outside"

\* The retries of the log are of this step or of earlier ones; those of this
\* step are the ones the driver has counted.
EarlierRetries(p, l, r) ==
  \A x \in l.scheduled :
    \/ x[1] < l.nextTurn
    \/ p # "finalBarrier" /\ x[1] = l.nextTurn /\ x[2] <= r.steps
OwnRetries(l, n) == L!RetriesOf(l, l.turn, l.step) = {<<l.turn, l.step, k>> : k \in 1..n}

RetriesAt(p, l, r) ==
  /\ l.started \subseteq l.scheduled /\ EarlierRetries(p, l, r)
  /\ p \in Asking \cup {"streaming", "sealed", "backoff"} => OwnRetries(l, r.retries)
  /\ p = "retryBarrier" =>
       /\ OwnRetries(l, r.retries + 1)
       /\ <<l.turn, l.step, r.retries + 1>> \notin l.started
  /\ p = "backoff" =>
       /\ r.retries # 0
       /\ <<l.turn, l.step, r.retries>> \notin l.started

\* The calls not yet started are the last ones of the answer.
Begun(l, todo) == Len(l.order) - Len(todo)
InOrder(l, todo) ==
  /\ Begun(l, todo) >= 0
  /\ \A i, j \in 1..Len(l.order) : i # j => l.order[i] # l.order[j]
  /\ \A i \in 1..Len(l.order) :
       IF i <= Begun(l, todo) THEN l.call[l.order[i]].stage \in {"started", "answered"}
       ELSE /\ l.order[i] = todo[i - Begun(l, todo)]
            /\ l.call[l.order[i]].stage = "declared"

CallsAt(p, l, r) ==
  /\ p \notin Rounds \cup {"answered", "stepEnd"} => l.call = L!NoCalls /\ l.order = <<>>
  /\ p \in Rounds /\ Durable => InOrder(l, r.todo)

BracketAt(p, l) ==
  /\ p \in {"bracketBarrier", "summarizing", "summaryReady"} => l.compaction = "started"
  /\ p = "summaryLogged" => l.compaction = "summarized"
  /\ p = "closeBracket" <=> l.compaction # "none" /\ p \notin Bracket \ {"closeBracket"}
  /\ p = "bracketStart" => l.compaction = "none"
  /\ l.compaction # "none" => l.owner = l.turn /\ l.marker = "none"
  /\ p = "rewrite" => Durable /\ l.marker \in l.results

LogAt(p, l, r, tk) ==
  /\ PlaceAt(p, l, r) /\ SlotAt(p, l, tk) /\ RetriesAt(p, l, r)
  /\ CallsAt(p, l, r) /\ BracketAt(p, l)

\* A latched limit leads straight to the end of the step or of the turn, and
\* what the driver reports of the stops and of the observer is so.
LatchedAt(p, r) ==
  r.limit =>
    \/ p \in {"round", "stepEnd", "endBarrier", "classify", "closing", "finalBarrier"}
    \/ /\ p \in {"pruned", "closeBracket", "endBracketBarrier", "compacted"}
       /\ r.outcome \in {"limit", "observer"}

Honest(w, c, e) == (w \in {"cancelled", "aborted"} => c) /\ (w = "timeout" => e)

RunAt(p, r, c, e, o) ==
  /\ LatchedAt(p, r)
  /\ r.lost => o = "down"
  /\ Honest(r.outcome, c, e) /\ Honest(r.stop, c, e) /\ Honest(r.reason, c, e)
  /\ p = "retryBarrier" => r.retries < MaxRetries
  /\ p \in {"bracketStart", "bracketBarrier"} => r.attempts < MaxAttempts

InTurn ==
  /\ ~loop.poisoned /\ claims = ClaimsAt(pc)
  /\ LogAt(pc, log, run, token)
  /\ RunAt(pc, run, cancelled, expired, observer)
  /\ pc = "finalBarrier" => loop.recorded = run.reason

\* What a turn may start from.
Rested(l) ==
  /\ l.turn = 0 /\ l.step = 0 /\ l.attempt = "outside" /\ l.compaction = "none"
  /\ l.call = L!NoCalls /\ l.order = <<>>
  /\ l.started \subseteq l.scheduled /\ \A x \in l.scheduled : x[1] < l.nextTurn

AtRest ==
  /\ TurnLeavesRecordOnly
  /\ run = NewRun /\ claims = {} /\ token = "none"
  /\ log.started \subseteq log.scheduled
  /\ ~loop.poisoned => Rested(log)

IInv == Typed /\ (pc # "idle" => InTurn) /\ (pc = "idle" => AtRest)

-----------------------------------------------------------------------------
(* The rows of a turn.                                                     *)

LEMMA Alphabets ==
  /\ L!OpenAttempt = {"streaming", "finished", "sealed"}
  /\ L!ClosedAttempt = {"ready", "retryScheduled", "committed"}
  /\ L!Failures = {"error", "overflow"}
  /\ L!Codes = {"ok", "error", "notStarted", "rejected", "cancelled", "unavailable"}
  /\ L!Turns = 1..MaxTurns /\ L!Steps = 1..MaxSteps
BY DEF L!OpenAttempt, L!ClosedAttempt, L!Failures, L!Codes, L!Outcomes, L!Turns, L!Steps

LEMMA Bounds ==
  /\ MaxSteps \in Nat /\ MaxSteps > 0 /\ MaxAttempts \in Nat /\ MaxAttempts > 0
  /\ MaxRetries \in Nat /\ MaxRetries > 0 /\ MaxTurns \in Nat /\ MaxOrphans \in Nat
BY DriverLimits, DriverIds

LEMMA CallFields ==
  /\ L!NoCall \in DriverCalls /\ L!NoCall.stage = "absent"
  /\ L!NoCalls \in [Calls -> DriverCalls]
  /\ \A c \in Calls : L!NoCalls[c].stage = "absent"
<1>1. PICK n : n = L!NoCall
  OBVIOUS
<1>2. n \in DriverCalls /\ n.stage = "absent"
  BY <1>1 DEF L!NoCall, DriverCalls
<1> QED
  BY <1>1, <1>2 DEF L!NoCalls

SamePlace(m, l) ==
  m.turn = l.turn /\ m.nextTurn = l.nextTurn /\ m.step = l.step /\ m.nextStep = l.nextStep
SameSlot(m, l) == m.attempt = l.attempt /\ m.finish = l.finish
SameCalls(m, l) == m.order = l.order /\ m.call = l.call
SameRetries(m, l) == m.scheduled = l.scheduled /\ m.started = l.started
SameBracket(m, l) == m.compaction = l.compaction /\ m.owner = l.owner

\* A row that the marker is not about leaves no marker.
Written(m) == m \in DriverLogs /\ m.marker = "none"

\* What a row says of nothing.
SameLog(m, l) ==
  /\ SamePlace(m, l) /\ SameSlot(m, l) /\ SameCalls(m, l) /\ SameRetries(m, l)
  /\ SameBracket(m, l) /\ m.results = l.results

LEMMA AnyRow ==
  ASSUME NEW l \in DriverLogs, Marked(l)
  PROVE  Written(L!Row(l)) /\ SameLog(L!Row(l), l)
<1>1. PICK n : n = l.orphans + (IF l.marker = "none" THEN 0 ELSE 1)
  OBVIOUS
<1>2. n \in 0..MaxOrphans
  BY <1>1, Bounds DEF DriverLogs, Marked
<1>3. PICK m \in DriverLogs : m = [l EXCEPT !.marker = "none", !.orphans = n]
  BY <1>2 DEF DriverLogs
<1>4. m = L!Row(l)
  BY <1>1, <1>3 DEF L!Row, DriverLogs
<1>5. m.marker = "none" /\ SameLog(m, l)
  BY <1>3 DEF DriverLogs, SameLog, SamePlace, SameSlot, SameCalls, SameRetries, SameBracket
<1> QED
  BY <1>4, <1>5 DEF Written

LEMMA TurnStartRow ==
  ASSUME NEW l \in DriverLogs, Marked(l), NEW t \in 1..MaxTurns
  PROVE  LET m == L!AfterTurnStart(l, t) IN
         /\ Written(m)
         /\ m.turn = t /\ m.nextTurn = l.nextTurn /\ m.step = 0 /\ m.nextStep = 1
         /\ SameSlot(m, l) /\ SameCalls(m, l) /\ SameRetries(m, l) /\ SameBracket(m, l)
         /\ m.results = l.results
<1>1. PICK r \in DriverLogs : r = L!Row(l)
  BY AnyRow DEF Written
<1>2. r.marker = "none" /\ SameLog(r, l)
  BY <1>1, AnyRow DEF Written
<1>3. t \in 0..MaxTurns /\ 0 \in 0..MaxSteps /\ 1 \in 1..(MaxSteps + 1)
  BY Bounds
<1>4. PICK m \in DriverLogs : m = [r EXCEPT !.turn = t, !.step = 0, !.nextStep = 1]
  BY <1>3 DEF DriverLogs
<1>5. /\ m.turn = t /\ m.nextTurn = r.nextTurn /\ m.step = 0 /\ m.nextStep = 1
      /\ SameSlot(m, r) /\ SameCalls(m, r) /\ SameRetries(m, r) /\ SameBracket(m, r)
      /\ m.results = r.results
      /\ m.marker = r.marker
  BY <1>4 DEF DriverLogs, SameSlot, SameCalls, SameRetries, SameBracket
<1>6. m = L!AfterTurnStart(l, t)
  BY <1>1, <1>2, <1>4 DEF L!AfterTurnStart
<1> QED
  BY <1>2, <1>5, <1>6
  DEF Written, SameLog, SamePlace, SameSlot, SameCalls, SameRetries, SameBracket

LEMMA TurnEndRow ==
  ASSUME NEW l \in DriverLogs, Marked(l), NEW t \in 1..MaxTurns
  PROVE  LET m == L!AfterTurnEnd(l, t) IN
         /\ Written(m)
         /\ m.turn = 0 /\ m.nextTurn = t + 1 /\ m.step = l.step
         /\ SameSlot(m, l) /\ SameCalls(m, l) /\ SameRetries(m, l) /\ SameBracket(m, l)
         /\ m.results = l.results
<1>1. PICK r \in DriverLogs : r = L!Row(l)
  BY AnyRow DEF Written
<1>2. r.marker = "none" /\ SameLog(r, l)
  BY <1>1, AnyRow DEF Written
<1>3. 0 \in 0..MaxTurns /\ t + 1 \in 1..(MaxTurns + 1)
  BY Bounds
<1>4. PICK m \in DriverLogs : m = [r EXCEPT !.turn = 0, !.nextTurn = t + 1]
  BY <1>3 DEF DriverLogs
<1>5. /\ m.turn = 0 /\ m.nextTurn = t + 1 /\ m.step = r.step
      /\ SameSlot(m, r) /\ SameCalls(m, r) /\ SameRetries(m, r) /\ SameBracket(m, r)
      /\ m.results = r.results
      /\ m.marker = r.marker
  BY <1>4 DEF DriverLogs, SameSlot, SameCalls, SameRetries, SameBracket
<1>6. m = L!AfterTurnEnd(l, t)
  BY <1>1, <1>2, <1>4 DEF L!AfterTurnEnd
<1> QED
  BY <1>2, <1>5, <1>6
  DEF Written, SameLog, SamePlace, SameSlot, SameCalls, SameRetries, SameBracket

LEMMA StepStartRow ==
  ASSUME NEW l \in DriverLogs, Marked(l), NEW s \in 1..MaxSteps
  PROVE  LET m == L!AfterStepStart(l, s) IN
         /\ Written(m)
         /\ m.turn = l.turn /\ m.nextTurn = l.nextTurn /\ m.step = s
         /\ m.nextStep = l.nextStep
         /\ m.attempt = IF Durable THEN "ready" ELSE l.attempt
         /\ m.order = <<>> /\ m.call = L!NoCalls
         /\ SameRetries(m, l) /\ SameBracket(m, l)
         /\ m.results = l.results
<1>1. PICK r \in DriverLogs : r = L!Row(l)
  BY AnyRow DEF Written
<1>2. r.marker = "none" /\ SameLog(r, l)
  BY <1>1, AnyRow DEF Written
<1>3. PICK a : a = IF Durable THEN "ready" ELSE r.attempt
  OBVIOUS
<1>4. /\ s \in 0..MaxSteps /\ <<>> \in Seq(Calls) /\ L!NoCalls \in [Calls -> DriverCalls]
      /\ a \in Slots
  <2>1. r.attempt \in Slots
    BY DEF DriverLogs
  <2>2. "ready" \in Slots
    BY Alphabets DEF Slots
  <2>3. s \in 0..MaxSteps
    BY Bounds
  <2> QED
    BY <1>3, <2>1, <2>2, <2>3, CallFields
<1>5. PICK m \in DriverLogs :
        m = [r EXCEPT !.step = s, !.order = <<>>, !.call = L!NoCalls, !.attempt = a]
  BY <1>4 DEF DriverLogs
<1>6. /\ m.turn = r.turn /\ m.nextTurn = r.nextTurn /\ m.step = s
      /\ m.nextStep = r.nextStep
      /\ m.attempt = IF Durable THEN "ready" ELSE r.attempt
      /\ m.order = <<>> /\ m.call = L!NoCalls
      /\ SameRetries(m, r) /\ SameBracket(m, r)
      /\ m.results = r.results
      /\ m.marker = r.marker
  BY <1>5, <1>3 DEF DriverLogs, SameRetries, SameBracket
<1>7. m = L!AfterStepStart(l, s)
  BY <1>1, <1>2, <1>3, <1>5 DEF L!AfterStepStart
<1> QED
  BY <1>2, <1>6, <1>7
  DEF Written, SameLog, SamePlace, SameSlot, SameCalls, SameRetries, SameBracket

LEMMA StepEndRow ==
  ASSUME NEW l \in DriverLogs, Marked(l), NEW s \in 1..MaxSteps
  PROVE  LET m == L!AfterStepEnd(l, s) IN
         /\ Written(m)
         /\ m.turn = l.turn /\ m.nextTurn = l.nextTurn
         /\ m.step = 0 /\ m.nextStep = s + 1 /\ m.attempt = "outside"
         /\ m.order = <<>> /\ m.call = L!NoCalls
         /\ SameRetries(m, l) /\ SameBracket(m, l)
         /\ m.results = l.results
<1>1. PICK r \in DriverLogs : r = L!Row(l)
  BY AnyRow DEF Written
<1>2. r.marker = "none" /\ SameLog(r, l)
  BY <1>1, AnyRow DEF Written
<1>3. /\ 0 \in 0..MaxSteps /\ s + 1 \in 1..(MaxSteps + 1)
      /\ <<>> \in Seq(Calls) /\ L!NoCalls \in [Calls -> DriverCalls]
      /\ "outside" \in Slots /\ "none" \in Finishes
  BY Bounds, CallFields DEF Slots, Finishes
<1>4. PICK m \in DriverLogs :
        m = [r EXCEPT !.step = 0, !.nextStep = s + 1, !.order = <<>>, !.call = L!NoCalls, !.attempt = "outside", !.finish = "none", !.overflow = "unused"]
  BY <1>3 DEF DriverLogs
<1>5. /\ m.turn = r.turn /\ m.nextTurn = r.nextTurn
      /\ m.step = 0 /\ m.nextStep = s + 1 /\ m.attempt = "outside"
      /\ m.order = <<>> /\ m.call = L!NoCalls
      /\ SameRetries(m, r) /\ SameBracket(m, r)
      /\ m.results = r.results
      /\ m.marker = r.marker
  BY <1>4 DEF DriverLogs, SameRetries, SameBracket
<1>6. m = L!AfterStepEnd(l, s)
  BY <1>1, <1>2, <1>4 DEF L!AfterStepEnd, L!Progress, DriverLogs
<1> QED
  BY <1>2, <1>5, <1>6
  DEF Written, SameLog, SamePlace, SameSlot, SameCalls, SameRetries, SameBracket

LEMMA DispatchRow ==
  ASSUME NEW l \in DriverLogs, Marked(l)
  PROVE  LET m == L!AfterDispatch(l) IN
         /\ m \in DriverLogs /\ m.marker = l.marker
         /\ m.attempt = "streaming" /\ m.orphans = l.orphans
         /\ SamePlace(m, l) /\ SameCalls(m, l) /\ SameRetries(m, l) /\ SameBracket(m, l)
         /\ m.results = l.results
<1>1. "streaming" \in Slots /\ "none" \in Finishes
  BY Alphabets DEF Slots, Finishes
<1>2. PICK m \in DriverLogs : m = [l EXCEPT !.attempt = "streaming", !.finish = "none"]
  BY <1>1 DEF DriverLogs
<1>3. /\ m.attempt = "streaming" /\ m.orphans = l.orphans
      /\ SamePlace(m, l) /\ SameCalls(m, l) /\ SameRetries(m, l) /\ SameBracket(m, l)
      /\ m.results = l.results
      /\ m.marker = l.marker
  BY <1>2 DEF DriverLogs, SamePlace, SameCalls, SameRetries, SameBracket
<1>4. m = L!AfterDispatch(l)
  BY <1>2 DEF L!AfterDispatch
<1> QED
  BY <1>3, <1>4
  DEF Written, SameLog, SamePlace, SameSlot, SameCalls, SameRetries, SameBracket

LEMMA ChunkRow ==
  ASSUME NEW l \in DriverLogs, Marked(l), NEW finish \in {"more", "ok"} \cup L!Failures
  PROVE  LET m == L!AfterChunk(l, finish, TRUE) IN
         /\ Written(m)
         /\ m.attempt \in {"streaming", "finished"}
         /\ SamePlace(m, l) /\ SameCalls(m, l) /\ SameRetries(m, l) /\ SameBracket(m, l)
         /\ m.results = l.results
<1>1. PICK r \in DriverLogs : r = L!Row(l)
  BY AnyRow DEF Written
<1>2. r.marker = "none" /\ SameLog(r, l)
  BY <1>1, AnyRow DEF Written
<1>3. PICK a, f : /\ a = IF finish = "more" THEN "streaming" ELSE "finished"
                  /\ f = IF finish = "more" THEN r.finish ELSE finish
  OBVIOUS
<1>4. a \in Slots /\ f \in Finishes
  BY <1>3, Alphabets DEF Slots, Finishes, DriverLogs
<1>5. PICK m \in DriverLogs : m = [r EXCEPT !.attempt = a, !.finish = f]
  BY <1>4 DEF DriverLogs
<1>6. /\ m.attempt \in {"streaming", "finished"}
      /\ SamePlace(m, r) /\ SameCalls(m, r) /\ SameRetries(m, r) /\ SameBracket(m, r)
      /\ m.results = r.results
      /\ m.marker = r.marker
  BY <1>5, <1>3 DEF DriverLogs, SamePlace, SameCalls, SameRetries, SameBracket
<1>7. m = L!AfterChunk(l, finish, TRUE)
  BY <1>1, <1>2, <1>3, <1>5 DEF L!AfterChunk
<1> QED
  BY <1>2, <1>6, <1>7
  DEF Written, SameLog, SamePlace, SameSlot, SameCalls, SameRetries, SameBracket

LEMMA SealRow ==
  ASSUME NEW l \in DriverLogs, Marked(l)
  PROVE  LET m == L!AfterSeal(l) IN
         /\ m \in DriverLogs /\ m.marker = l.marker
         /\ m.attempt = "sealed" /\ m.orphans = l.orphans
         /\ SamePlace(m, l) /\ SameCalls(m, l) /\ SameRetries(m, l) /\ SameBracket(m, l)
         /\ m.results = l.results
<1>1. "sealed" \in Slots
  BY Alphabets DEF Slots
<1>2. PICK m \in DriverLogs : m = [l EXCEPT !.attempt = "sealed"]
  BY <1>1 DEF DriverLogs
<1>3. /\ m.attempt = "sealed" /\ m.orphans = l.orphans
      /\ SamePlace(m, l) /\ SameCalls(m, l) /\ SameRetries(m, l) /\ SameBracket(m, l)
      /\ m.results = l.results
      /\ m.marker = l.marker
  BY <1>2 DEF DriverLogs, SamePlace, SameCalls, SameRetries, SameBracket
<1>4. m = L!AfterSeal(l)
  BY <1>2 DEF L!AfterSeal
<1> QED
  BY <1>3, <1>4
  DEF Written, SameLog, SamePlace, SameSlot, SameCalls, SameRetries, SameBracket

\* The log after another retry was scheduled.
Scheduled(m, l, t, s, n) ==
  /\ Written(m) /\ m.attempt = "retryScheduled" /\ m.started = l.started
  /\ m.scheduled = l.scheduled \cup {<<t, s, n>>}
  /\ SamePlace(m, l) /\ SameCalls(m, l) /\ SameBracket(m, l)
  /\ m.results = l.results

LEMMA RetryRow ==
  ASSUME NEW l \in DriverLogs, Marked(l), NEW t \in 1..MaxTurns, NEW s \in 1..MaxSteps,
         NEW n \in 1..MaxRetries
  PROVE  Scheduled(L!AfterRetry(l, t, s, n, TRUE), l, t, s, n)
<1>1. PICK r \in DriverLogs : r = L!Row(l)
  BY AnyRow DEF Written
<1>2. r.marker = "none" /\ SameLog(r, l)
  BY <1>1, AnyRow DEF Written
<1>3. PICK z : z = r.scheduled \cup {<<t, s, n>>}
  OBVIOUS
<1>4. z \in SUBSET Retries /\ "retryScheduled" \in Slots
  <2>1. r.scheduled \subseteq Retries
    BY DEF DriverLogs
  <2>2. <<t, s, n>> \in Retries
    BY Alphabets DEF Retries
  <2>3. "retryScheduled" \in Slots
    BY Alphabets DEF Slots
  <2> QED
    BY <1>3, <2>1, <2>2, <2>3
<1>5. PICK m \in DriverLogs : m = [r EXCEPT !.attempt = "retryScheduled", !.scheduled = z]
  BY <1>4 DEF DriverLogs
<1>6. /\ m.attempt = "retryScheduled" /\ m.started = r.started
      /\ m.scheduled = r.scheduled \cup {<<t, s, n>>}
      /\ SamePlace(m, r) /\ SameCalls(m, r) /\ SameBracket(m, r)
      /\ m.results = r.results
      /\ m.marker = r.marker
  BY <1>5, <1>3 DEF DriverLogs, SamePlace, SameCalls, SameBracket
<1>7. m = L!AfterRetry(l, t, s, n, TRUE)
  BY <1>1, <1>2, <1>3, <1>5 DEF L!AfterRetry
<1> QED
  BY <1>2, <1>6, <1>7
  DEF Scheduled, Written, SameLog, SamePlace, SameSlot, SameCalls, SameRetries, SameBracket

\* The log after an answer with calls.
Answered(m, l, calls) ==
  /\ Written(m) /\ m.attempt = "committed"
  /\ Durable => /\ m.order = calls
                /\ \A i \in DOMAIN calls : m.call[calls[i]].stage = "declared"
  /\ SamePlace(m, l) /\ SameRetries(m, l) /\ SameBracket(m, l)
  /\ m.results = l.results

LEMMA AssistantRow ==
  ASSUME NEW l \in DriverLogs, Marked(l), l.order = <<>>, l.call = L!NoCalls,
         NEW calls \in Seq(Calls)
  PROVE  Answered(L!AfterAssistant(l, calls, TRUE), l, calls)
<1>1. PICK r \in DriverLogs : r = L!Row(l)
  BY AnyRow DEF Written
<1>2. r.marker = "none" /\ SameLog(r, l)
  BY <1>1, AnyRow DEF Written
<1>3. PICK d : d = [L!NoCall EXCEPT !.stage = "declared"]
  OBVIOUS
<1>4. d \in DriverCalls /\ d.stage = "declared"
  BY <1>3, CallFields DEF DriverCalls
<1>5. PICK k, o : /\ k = IF Durable THEN L!Declared(r, calls) ELSE r.call
                  /\ o = IF Durable THEN r.order \o calls ELSE r.order
  OBVIOUS
<1>6. /\ k \in [Calls -> DriverCalls] /\ o \in Seq(Calls)
      /\ Durable => /\ o = calls
                    /\ \A i \in DOMAIN calls : k[calls[i]].stage = "declared"
  <2>1. \A i \in DOMAIN calls : calls[i] \in Calls
    OBVIOUS
  <2>2. r.order = <<>> /\ r.call = L!NoCalls /\ r.call \in [Calls -> DriverCalls]
    BY <1>2, CallFields DEF SameLog, SameCalls
  <2>3. ASSUME Durable
        PROVE  /\ k \in [Calls -> DriverCalls]
               /\ \A i \in DOMAIN calls : k[calls[i]].stage = "declared"
    BY <1>3, <1>4, <1>5, <2>1, <2>2, <2>3 DEF L!Declared
  <2>4. <<>> \o calls = calls
    OBVIOUS
  <2> QED
    BY <1>5, <2>2, <2>3, <2>4
<1>7. "committed" \in Slots
  BY Alphabets DEF Slots
<1>8. PICK m \in DriverLogs : m = [r EXCEPT !.attempt = "committed", !.order = o, !.call = k]
  BY <1>6, <1>7 DEF DriverLogs
<1>9. /\ m.attempt = "committed" /\ m.order = o /\ m.call = k
      /\ SamePlace(m, r) /\ SameRetries(m, r) /\ SameBracket(m, r)
      /\ m.results = r.results /\ m.marker = r.marker
  BY <1>8 DEF DriverLogs, SamePlace, SameRetries, SameBracket
<1>10. m = L!AfterAssistant(l, calls, TRUE)
  <2>1. k = IF Durable THEN L!Declared(l, calls) ELSE r.call
    BY <1>2, <1>5 DEF L!Declared, SameLog, SameCalls
  <2> QED
    BY <1>1, <1>5, <1>8, <2>1 DEF L!AfterAssistant
<1> QED
  BY <1>2, <1>6, <1>9, <1>10
  DEF Answered, Written, SameLog, SamePlace, SameRetries, SameBracket

LEMMA RetryStartedRow ==
  ASSUME NEW l \in DriverLogs, Marked(l), l.attempt = "retryScheduled",
         l.turn # 0, l.step # 0, NEW n \in 1..MaxRetries
  PROVE  LET m == L!AfterRetryStarted(l, l.turn, l.step, n) IN
         /\ Written(m)
         /\ m.attempt = "ready" /\ m.scheduled = l.scheduled
         /\ m.started = l.started \cup {<<l.turn, l.step, n>>}
         /\ SamePlace(m, l) /\ SameCalls(m, l) /\ SameBracket(m, l)
         /\ m.results = l.results
<1>1. PICK r \in DriverLogs : r = L!Row(l)
  BY AnyRow DEF Written
<1>2. r.marker = "none" /\ SameLog(r, l)
  BY <1>1, AnyRow DEF Written
<1>3. PICK z : z = r.started \cup {<<l.turn, l.step, n>>}
  OBVIOUS
<1>4. l.turn \in 1..MaxTurns /\ l.step \in 1..MaxSteps
  <2>1. l.turn \in 0..MaxTurns /\ l.step \in 0..MaxSteps
    BY DEF DriverLogs
  <2> QED
    BY <2>1, Bounds
<1>5. z \in SUBSET Retries /\ "ready" \in Slots
  <2>1. r.started \subseteq Retries
    BY DEF DriverLogs
  <2>2. <<l.turn, l.step, n>> \in Retries
    BY <1>4, Alphabets DEF Retries
  <2>3. "ready" \in Slots
    BY Alphabets DEF Slots
  <2> QED
    BY <1>3, <2>1, <2>2, <2>3
<1>6. PICK m \in DriverLogs : m = [r EXCEPT !.started = z, !.attempt = "ready"]
  BY <1>5 DEF DriverLogs
<1>7. /\ m.attempt = "ready" /\ m.scheduled = r.scheduled /\ m.started = z
      /\ SamePlace(m, r) /\ SameCalls(m, r) /\ SameBracket(m, r)
      /\ m.results = r.results /\ m.marker = r.marker
  BY <1>6 DEF DriverLogs, SamePlace, SameCalls, SameBracket
<1>8. L!ReopenSlot(l, l.turn, l.step) = "ready"
  BY DEF L!ReopenSlot, L!Reopens, L!InStep, L!Compatible
<1>9. m = L!AfterRetryStarted(l, l.turn, l.step, n)
  BY <1>1, <1>3, <1>6, <1>8 DEF L!AfterRetryStarted
<1> QED
  BY <1>2, <1>3, <1>7, <1>9
  DEF Written, SameLog, SamePlace, SameCalls, SameRetries, SameBracket

LEMMA ToolCallRow ==
  ASSUME NEW l \in DriverLogs, Marked(l), NEW c \in Calls
  PROVE  LET m == L!AfterToolCall(l, c) IN
         /\ Written(m)
         /\ m.order = l.order
         /\ \A d \in Calls \ {c} : m.call[d] = l.call[d]
         /\ m.call[c].stage = "started"
         /\ SamePlace(m, l) /\ SameSlot(m, l) /\ SameRetries(m, l) /\ SameBracket(m, l)
         /\ m.results = l.results
<1>1. PICK r \in DriverLogs : r = L!Row(l)
  BY AnyRow DEF Written
<1>2. r.marker = "none" /\ SameLog(r, l)
  BY <1>1, AnyRow DEF Written
<1>3. PICK x \in DriverCalls : x = r.call[c]
  BY DEF DriverLogs
<1>4. PICK y \in DriverCalls : y = [x EXCEPT !.stage = "started"]
  BY DEF DriverCalls
<1>5. y.stage = "started"
  BY <1>4 DEF DriverCalls
<1>6. PICK k \in [Calls -> DriverCalls] : k = [r.call EXCEPT ![c] = y]
  BY DEF DriverLogs
<1>7. PICK m \in DriverLogs : m = [r EXCEPT !.call = k]
  BY DEF DriverLogs
<1>8. /\ m.order = r.order /\ m.call = k
      /\ SamePlace(m, r) /\ SameSlot(m, r) /\ SameRetries(m, r) /\ SameBracket(m, r)
      /\ m.results = r.results /\ m.marker = r.marker
  BY <1>7 DEF DriverLogs, SamePlace, SameSlot, SameRetries, SameBracket
<1>9. k[c] = y /\ \A d \in Calls \ {c} : k[d] = r.call[d]
  BY <1>6 DEF DriverLogs
<1>10. m = L!AfterToolCall(l, c)
  BY <1>1, <1>3, <1>4, <1>6, <1>7 DEF L!AfterToolCall
<1> QED
  BY <1>2, <1>5, <1>8, <1>9, <1>10
  DEF Written, SameLog, SamePlace, SameSlot, SameCalls, SameRetries, SameBracket

LEMMA ToolResultRow ==
  ASSUME NEW l \in DriverLogs, Marked(l), NEW c \in Calls, NEW code \in {"ok", "error"}
  PROVE  LET m == L!AfterToolResult(l, c, code) IN
         /\ Written(m)
         /\ m.order = l.order
         /\ \A d \in Calls \ {c} : m.call[d] = l.call[d]
         /\ m.call[c].stage = IF Durable THEN "answered" ELSE "absent"
         /\ SamePlace(m, l) /\ SameSlot(m, l) /\ SameRetries(m, l) /\ SameBracket(m, l)
         /\ m.results = l.results \cup {c}
<1>1. PICK r \in DriverLogs : r = L!Row(l)
  BY AnyRow DEF Written
<1>2. r.marker = "none" /\ SameLog(r, l)
  BY <1>1, AnyRow DEF Written
<1>3. PICK x \in DriverCalls : x = r.call[c]
  BY DEF DriverLogs
<1>4. PICK a \in DriverCalls : a = [x EXCEPT !.stage = "answered", !.result = code]
  BY Alphabets DEF DriverCalls
<1>5. a.stage = "answered"
  BY <1>4 DEF DriverCalls
<1>6. PICK y \in DriverCalls : y = IF Durable THEN a ELSE L!NoCall
  BY CallFields
<1>7. y.stage = IF Durable THEN "answered" ELSE "absent"
  BY <1>5, <1>6, CallFields
<1>8. PICK k \in [Calls -> DriverCalls] : k = [r.call EXCEPT ![c] = y]
  BY DEF DriverLogs
<1>9. PICK z \in SUBSET Calls : z = r.results \cup {c}
  BY DEF DriverLogs
<1>10. PICK m \in DriverLogs : m = [r EXCEPT !.call = k, !.results = z]
  BY DEF DriverLogs
<1>11. /\ m.order = r.order /\ m.call = k
       /\ SamePlace(m, r) /\ SameSlot(m, r) /\ SameRetries(m, r) /\ SameBracket(m, r)
       /\ m.results = z /\ m.marker = r.marker
  BY <1>10 DEF DriverLogs, SamePlace, SameSlot, SameRetries, SameBracket
<1>12. k[c] = y /\ \A d \in Calls \ {c} : k[d] = r.call[d]
  BY <1>8 DEF DriverLogs
<1>13. m = L!AfterToolResult(l, c, code)
  BY <1>1, <1>3, <1>4, <1>6, <1>8, <1>9, <1>10 DEF L!AfterToolResult
<1> QED
  BY <1>2, <1>7, <1>9, <1>11, <1>12, <1>13
  DEF Written, SameLog, SamePlace, SameSlot, SameCalls, SameRetries, SameBracket

LEMMA PruneRow ==
  ASSUME NEW l \in DriverLogs, Marked(l), NEW c \in Calls, L!Row(l).orphans < MaxOrphans
  PROVE  LET m == L!AfterPrune(l, c, FALSE) IN
         /\ m \in DriverLogs /\ m.marker = c
         /\ Marked(m)
         /\ SamePlace(m, l) /\ SameSlot(m, l) /\ SameCalls(m, l) /\ SameRetries(m, l) /\ SameBracket(m, l)
         /\ m.results = l.results
<1>1. PICK r \in DriverLogs : r = L!Row(l)
  BY AnyRow DEF Written
<1>2. r.marker = "none" /\ SameLog(r, l)
  BY <1>1, AnyRow DEF Written
<1>3. PICK m \in DriverLogs : m = [r EXCEPT !.marker = c]
  BY DEF DriverLogs
<1>4. /\ Marked(m)
      /\ SamePlace(m, r) /\ SameSlot(m, r) /\ SameCalls(m, r) /\ SameRetries(m, r) /\ SameBracket(m, r)
      /\ m.results = r.results
      /\ m.marker = c
  BY <1>3, <1>2, <1>1, DriverIds DEF DriverLogs, SamePlace, SameSlot, SameCalls, SameRetries, SameBracket, Marked
<1>5. m = L!AfterPrune(l, c, FALSE)
  BY <1>1, <1>2, <1>3 DEF L!AfterPrune
<1> QED
  BY <1>2, <1>4, <1>5
  DEF Written, SameLog, SamePlace, SameSlot, SameCalls, SameRetries, SameBracket

LEMMA RewriteRow ==
  ASSUME NEW l \in DriverLogs, Marked(l)
  PROVE  LET m == L!AfterRewrite(l) IN
         /\ Written(m)
         /\ SamePlace(m, l) /\ SameSlot(m, l) /\ SameCalls(m, l) /\ SameRetries(m, l) /\ SameBracket(m, l)
         /\ m.results = l.results
<1>1. PICK m \in DriverLogs : m = [l EXCEPT !.marker = "none"]
  BY DEF DriverLogs
<1>2. /\ SamePlace(m, l) /\ SameSlot(m, l) /\ SameCalls(m, l) /\ SameRetries(m, l) /\ SameBracket(m, l)
      /\ m.results = l.results
      /\ m.marker = "none"
  BY <1>1 DEF DriverLogs, SamePlace, SameSlot, SameCalls, SameRetries, SameBracket
<1>3. m = L!AfterRewrite(l)
  BY <1>1 DEF L!AfterRewrite, L!Progress, DriverLogs
<1> QED
  BY <1>2, <1>3
  DEF Written, SameLog, SamePlace, SameSlot, SameCalls, SameRetries, SameBracket

LEMMA BracketStartRow ==
  ASSUME NEW l \in DriverLogs, Marked(l), NEW o \in 0..MaxTurns
  PROVE  LET m == L!AfterCompactionStart(l, o, FALSE) IN
         /\ Written(m)
         /\ m.compaction = "started" /\ m.owner = o
         /\ SamePlace(m, l) /\ SameSlot(m, l) /\ SameCalls(m, l) /\ SameRetries(m, l)
         /\ m.results = l.results
<1>1. PICK r \in DriverLogs : r = L!Row(l)
  BY AnyRow DEF Written
<1>2. r.marker = "none" /\ SameLog(r, l)
  BY <1>1, AnyRow DEF Written
<1>3. "started" \in Brackets
  BY DEF Brackets
<1>4. PICK m \in DriverLogs : m = [r EXCEPT !.compaction = "started", !.owner = o]
  BY <1>3 DEF DriverLogs
<1>5. /\ m.compaction = "started" /\ m.owner = o
      /\ SamePlace(m, r) /\ SameSlot(m, r) /\ SameCalls(m, r) /\ SameRetries(m, r)
      /\ m.results = r.results
      /\ m.marker = r.marker
  BY <1>4 DEF DriverLogs, SamePlace, SameSlot, SameCalls, SameRetries
<1>6. m = L!AfterCompactionStart(l, o, FALSE)
  BY <1>1, <1>2, <1>4 DEF L!AfterCompactionStart
<1> QED
  BY <1>2, <1>5, <1>6
  DEF Written, SameLog, SamePlace, SameSlot, SameCalls, SameRetries, SameBracket

LEMMA SummaryRow ==
  ASSUME NEW l \in DriverLogs, Marked(l)
  PROVE  LET m == L!AfterSummary(l) IN
         /\ Written(m)
         /\ m.compaction = "summarized" /\ m.owner = l.owner
         /\ SamePlace(m, l) /\ SameSlot(m, l) /\ SameCalls(m, l) /\ SameRetries(m, l)
         /\ m.results = l.results
<1>1. PICK r \in DriverLogs : r = L!Row(l)
  BY AnyRow DEF Written
<1>2. r.marker = "none" /\ SameLog(r, l)
  BY <1>1, AnyRow DEF Written
<1>3. "summarized" \in Brackets
  BY DEF Brackets
<1>4. PICK m \in DriverLogs : m = [r EXCEPT !.compaction = "summarized"]
  BY <1>3 DEF DriverLogs
<1>5. /\ m.compaction = "summarized" /\ m.owner = r.owner
      /\ SamePlace(m, r) /\ SameSlot(m, r) /\ SameCalls(m, r) /\ SameRetries(m, r)
      /\ m.results = r.results
      /\ m.marker = r.marker
  BY <1>4 DEF DriverLogs, SamePlace, SameSlot, SameCalls, SameRetries
<1>6. m = L!AfterSummary(l)
  BY <1>1, <1>2, <1>4 DEF L!AfterSummary
<1> QED
  BY <1>2, <1>5, <1>6
  DEF Written, SameLog, SamePlace, SameSlot, SameCalls, SameRetries, SameBracket

LEMMA CheckpointRow ==
  ASSUME NEW l \in DriverLogs, Marked(l), NEW x \in SUBSET l.results
  PROVE  LET m == L!AfterCheckpoint(l, x) IN
         /\ Written(m)
         /\ m.compaction = "replaced" /\ m.owner = l.owner
         /\ m.results = l.results \ x
         /\ SamePlace(m, l) /\ SameSlot(m, l) /\ SameCalls(m, l) /\ SameRetries(m, l)
<1>1. PICK r \in DriverLogs : r = L!Row(l)
  BY AnyRow DEF Written
<1>2. r.marker = "none" /\ SameLog(r, l)
  BY <1>1, AnyRow DEF Written
<1>3. PICK z : z = r.results \ x
  OBVIOUS
<1>4. z \in SUBSET Calls /\ "replaced" \in Brackets
  BY <1>3 DEF Brackets, DriverLogs
<1>5. PICK m \in DriverLogs :
        m = [r EXCEPT !.compaction = "replaced", !.overflow = "unused", !.results = z]
  BY <1>4 DEF DriverLogs
<1>6. /\ m.compaction = "replaced" /\ m.owner = r.owner
      /\ m.results = r.results \ x
      /\ SamePlace(m, r) /\ SameSlot(m, r) /\ SameCalls(m, r) /\ SameRetries(m, r)
      /\ m.marker = r.marker
  BY <1>5, <1>3 DEF DriverLogs, SamePlace, SameSlot, SameCalls, SameRetries
<1>7. m = L!AfterCheckpoint(l, x)
  BY <1>1, <1>2, <1>3, <1>5 DEF L!AfterCheckpoint, L!Progress, DriverLogs
<1> QED
  BY <1>2, <1>6, <1>7
  DEF Written, SameLog, SamePlace, SameSlot, SameCalls, SameRetries, SameBracket

LEMMA BracketEndRow ==
  ASSUME NEW l \in DriverLogs, Marked(l)
  PROVE  LET m == L!AfterCompactionEnd(l) IN
         /\ Written(m)
         /\ m.compaction = "none" /\ m.owner = 0
         /\ SamePlace(m, l) /\ SameSlot(m, l) /\ SameCalls(m, l) /\ SameRetries(m, l)
         /\ m.results = l.results
<1>1. PICK r \in DriverLogs : r = L!Row(l)
  BY AnyRow DEF Written
<1>2. r.marker = "none" /\ SameLog(r, l)
  BY <1>1, AnyRow DEF Written
<1>3. 0 \in 0..MaxTurns /\ "none" \in Brackets
  BY Bounds DEF Brackets
<1>4. PICK m \in DriverLogs : m = [r EXCEPT !.compaction = "none", !.owner = 0]
  BY <1>3 DEF DriverLogs
<1>5. /\ m.compaction = "none" /\ m.owner = 0
      /\ SamePlace(m, r) /\ SameSlot(m, r) /\ SameCalls(m, r) /\ SameRetries(m, r)
      /\ m.results = r.results
      /\ m.marker = r.marker
  BY <1>4 DEF DriverLogs, SamePlace, SameSlot, SameCalls, SameRetries
<1>6. m = L!AfterCompactionEnd(l)
  BY <1>1, <1>2, <1>4 DEF L!AfterCompactionEnd
<1> QED
  BY <1>2, <1>5, <1>6
  DEF Written, SameLog, SamePlace, SameSlot, SameCalls, SameRetries, SameBracket

-----------------------------------------------------------------------------
(* Moves that write no row.                                                *)

LEMMA Sets == "idle" \notin Points
BY DEF Points, Unentered, Bracket, Stepping, Asking, Attempting, Rounds, Boundary

LEMMA StopWords ==
  /\ PreStepStop \in {"none", "limit", "aborted", "timeout"}
  /\ Honest(PreStepStop, cancelled, expired)
  /\ Interrupt \in {"none", "cancelled", "timeout"}
  /\ Honest(Interrupt, cancelled, expired)
BY DEF PreStepStop, Interrupt, Honest

\* What the invariant reads of the locals of a turn.
Like(u, r) ==
  /\ u.steps = r.steps /\ u.attempts = r.attempts /\ u.retries = r.retries
  /\ u.limit = r.limit /\ u.lost = r.lost
  /\ u.outcome = r.outcome /\ u.stop = r.stop /\ u.reason = r.reason
LikeButOutcome(u, r) ==
  /\ u.steps = r.steps /\ u.attempts = r.attempts /\ u.retries = r.retries
  /\ u.limit = r.limit /\ u.lost = r.lost /\ u.stop = r.stop /\ u.reason = r.reason

LEMMA Closes ==
  ASSUME NEW r \in Runs, NEW w \in Words, Close(r, w)
  PROVE  /\ pc' = "closing" /\ run' \in Runs /\ run'.reason = w
         /\ run'.steps = r.steps /\ run'.attempts = r.attempts /\ run'.retries = r.retries
         /\ run'.limit = r.limit /\ run'.lost = r.lost
         /\ run'.outcome = r.outcome /\ run'.stop = r.stop
<1>1. PICK u \in Runs : u = [r EXCEPT !.reason = w]
  BY DEF Runs
<1>2. /\ u.reason = w /\ u.steps = r.steps /\ u.attempts = r.attempts
      /\ u.retries = r.retries /\ u.limit = r.limit /\ u.lost = r.lost
      /\ u.outcome = r.outcome /\ u.stop = r.stop
  BY <1>1 DEF Runs
<1> QED
  BY <1>1, <1>2 DEF Close

LEMMA Outcomes ==
  ASSUME NEW r \in Runs, NEW w \in Words
  PROVE  LET u == [r EXCEPT !.outcome = w] IN
         u \in Runs /\ u.outcome = w /\ LikeButOutcome(u, r)
<1>1. PICK u \in Runs : u = [r EXCEPT !.outcome = w]
  BY DEF Runs
<1>2. u.outcome = w /\ LikeButOutcome(u, r)
  BY <1>1 DEF Runs, LikeButOutcome
<1> QED
  BY <1>1, <1>2

LEMMA StepsDone ==
  ASSUME NEW r \in Runs, NEW w \in Words, StepDone(r, w)
  PROVE  /\ pc' = "stepEnd" /\ run' \in Runs /\ run'.outcome = w /\ LikeButOutcome(run', r)
BY Outcomes DEF StepDone

LEMMA BracketsDone ==
  ASSUME NEW r \in Runs, NEW w \in Words
  PROVE  /\ Compacted(r, w) =>
              /\ pc' = "compacted" /\ run' \in Runs /\ run'.outcome = w
              /\ LikeButOutcome(run', r)
         /\ CloseBracket(r, w) =>
              /\ pc' = "closeBracket" /\ run' \in Runs /\ run'.outcome = w
              /\ LikeButOutcome(run', r)
BY Outcomes DEF Compacted, CloseBracket, Goto

LEMMA PrunesDone ==
  ASSUME NEW r \in Runs, NEW w \in Words, Pruned(r, w)
  PROVE  /\ pc' = "pruned" /\ run' \in Runs /\ run'.outcome = w /\ LikeButOutcome(run', r)
<1>1. PICK u \in Runs : u = [r EXCEPT !.outcome = w, !.progress = FALSE]
  BY DEF Runs
<1>2. u.outcome = w /\ LikeButOutcome(u, r)
  BY <1>1 DEF Runs, LikeButOutcome
<1> QED
  BY <1>1, <1>2 DEF Pruned, Goto

LEMMA Refusals ==
  ASSUME NEW r \in Runs
  PROVE  /\ Refused(r) \in Runs /\ Refused(r).limit = (r.limit \/ Durable)
         /\ Refused(r).steps = r.steps /\ Refused(r).attempts = r.attempts
         /\ Refused(r).retries = r.retries /\ Refused(r).lost = r.lost
         /\ Refused(r).outcome = r.outcome /\ Refused(r).stop = r.stop
         /\ Refused(r).reason = r.reason
         /\ Refusal \in {"limit", "budget"} /\ Refusal \in Words /\ (Durable => Refusal = "limit")
<1>1. PICK b \in BOOLEAN : b = (r.limit \/ Durable)
  BY DriverIds DEF Runs
<1>2. PICK u \in Runs : u = [r EXCEPT !.limit = b]
  BY DEF Runs
<1>3. /\ u.limit = b /\ u.steps = r.steps /\ u.attempts = r.attempts
      /\ u.retries = r.retries /\ u.lost = r.lost
      /\ u.outcome = r.outcome /\ u.stop = r.stop /\ u.reason = r.reason
  BY <1>2 DEF Runs
<1>4. u = Refused(r)
  BY <1>1, <1>2 DEF Refused
<1> QED
  BY <1>1, <1>3, <1>4 DEF Refusal, Words

LEMMA Preparations ==
  ASSUME NEW r \in Runs, NEW prep \in Preps
  PROVE  Prepared(r, prep) \in Runs /\ Like(Prepared(r, prep), r)
<1>1. PICK u \in Runs : u = [r EXCEPT !.prep = prep, !.fresh = TRUE]
  BY DEF Runs
<1>2. Like(u, r)
  BY <1>1 DEF Runs, Like
<1> QED
  BY <1>1, <1>2 DEF Prepared

\* A turn that goes on keeps the invariant when its parts hold.
LEMMA GoesOn ==
  ASSUME Typed', pc' \in Points \ {"finalBarrier"}, ~loop'.poisoned,
         claims' = ClaimsAt(pc'), LogAt(pc', log', run', token'),
         RunAt(pc', run', cancelled', expired', observer')
  PROVE  IInv'
<1>1. pc' # "idle" /\ pc' # "finalBarrier"
  BY Sets
<1> QED
  BY <1>1 DEF IInv, InTurn

LEMMA ClaimsTyped ==
  \A p \in Points : ClaimsAt(p) \subseteq Unstarted \cup {"turnEnd", "bracketEnd"}
BY DEF ClaimsAt, Unstarted

\* Between the rows of its boundary and of its brackets a turn moves freely.
Quiet ==
  Unentered \cup {"bracketStart", "opened", "top", "closing", "classify"}

\* What every move keeps.
Keeps ==
  /\ UNCHANGED <<env, oversized>> /\ log' = log /\ observer' = observer
  /\ dirty' \in BOOLEAN /\ token' \in {"none", "open", "closed"}
  /\ loop' \in Loops /\ ~loop'.poisoned /\ run' \in Runs /\ run'.steps = run.steps
  /\ pc' \in Points \ {"finalBarrier"} /\ claims' = ClaimsAt(pc')
  /\ RunAt(pc', run', cancelled, expired, observer)

LEMMA KeepsHolds ==
  ASSUME IInv, Keeps, LogAt(pc', log, run', token')
  PROVE  IInv'
<1>1. Typed'
  BY ClaimsTyped DEF IInv, Typed, Keeps, env
<1> QED
  BY <1>1, GoesOn DEF Keeps, env

LEMMA QuietMoves ==
  ASSUME IInv, Keeps, pc \in Quiet, pc' \in Quiet \ {"rewrite"}, token' = token,
         pc' \in Unentered \cup Bracket => run'.steps < MaxSteps
  PROVE  IInv'
<1>1. LogAt(pc, log, run, token) /\ run'.steps = run.steps
  BY DEF IInv, InTurn, Keeps, Quiet, Unentered
<1>2. PlaceAt(pc', log, run')
  BY <1>1 DEF LogAt, PlaceAt, Quiet, Unentered, Bracket, Stepping, Asking, Attempting, Rounds
<1>3. SlotAt(pc', log, token')
  BY <1>1 DEF LogAt, SlotAt, Quiet, Unentered, Asking
<1>4. RetriesAt(pc', log, run')
  BY <1>1 DEF LogAt, RetriesAt, EarlierRetries, Quiet, Unentered, Asking
<1>5. CallsAt(pc', log, run')
  BY <1>1 DEF LogAt, CallsAt, Quiet, Unentered, Rounds
<1>6. BracketAt(pc', log)
  BY <1>1 DEF LogAt, BracketAt, Quiet, Unentered, Bracket
<1> QED
  BY <1>2, <1>3, <1>4, <1>5, <1>6, KeepsHolds DEF LogAt


\* An open bracket moves towards its end.
LEMMA BracketMoves ==
  ASSUME IInv, Keeps, token' = token,
         \/ pc = "bracketBarrier" /\ pc' \in {"summarizing", "closeBracket"}
         \/ pc = "summarizing" /\ pc' \in {"summaryReady", "closeBracket"}
         \/ pc \in {"summaryReady", "summaryLogged"} /\ pc' = "closeBracket"
  PROVE  IInv'
<1>1. LogAt(pc, log, run, token) /\ run'.steps = run.steps
  BY DEF IInv, InTurn, Keeps
<1>2. pc \in Bracket /\ pc' \in Bracket
  BY DEF Bracket
<1>3. PlaceAt(pc', log, run')
  BY <1>1, <1>2 DEF LogAt, PlaceAt, Bracket, Stepping, Asking, Attempting, Rounds
<1>4. SlotAt(pc', log, token')
  BY <1>1, <1>2 DEF LogAt, SlotAt, Bracket, Asking
<1>5. RetriesAt(pc', log, run')
  BY <1>1, <1>2 DEF LogAt, RetriesAt, EarlierRetries, Bracket, Asking
<1>6. CallsAt(pc', log, run')
  BY <1>1, <1>2 DEF LogAt, CallsAt, Bracket, Rounds
<1>7. BracketAt(pc', log)
  BY <1>1, <1>2 DEF LogAt, BracketAt, Bracket
<1> QED
  BY <1>3, <1>4, <1>5, <1>6, <1>7, KeepsHolds DEF LogAt

\* Before an attempt a step writes only notes.
Noted(m, l) == m \in DriverLogs /\ SameLog(m, l) /\ (m.marker = l.marker \/ m.marker = "none")

LEMMA NoteRow == ASSUME NEW l \in DriverLogs, Marked(l) PROVE Noted(L!AfterNote(l), l)
BY AnyRow DEF L!AfterNote, Noted, Written

LEMMA AskingHolds ==
  ASSUME NEW l, NEW m, NEW r, NEW u, NEW p \in Asking, NEW q \in Asking,
         LogAt(p, l, r, "none"), SameLog(m, l), m.marker = l.marker \/ m.marker = "none",
         u.steps = r.steps, u.retries = r.retries
  PROVE  LogAt(q, m, u, "none")
<1>1. PlaceAt(q, m, u)
  BY DEF LogAt, PlaceAt, SameLog, SamePlace, Stepping, Asking, Unentered, Bracket
<1>2. SlotAt(q, m, "none")
  BY DEF LogAt, SlotAt, SameLog, SameSlot, L!Compatible, Asking
<1>3. RetriesAt(q, m, u)
  BY DEF LogAt, RetriesAt, EarlierRetries, OwnRetries, L!RetriesOf, SameLog, SamePlace,
         SameRetries, Asking
<1>4. CallsAt(q, m, u)
  BY DEF LogAt, CallsAt, SameLog, SameCalls, Asking, Rounds
<1>5. BracketAt(q, m)
  BY DEF LogAt, BracketAt, SameLog, SamePlace, SameBracket, Asking, Bracket
<1> QED
  BY <1>1, <1>2, <1>3, <1>4, <1>5 DEF LogAt

\* From anywhere in a step to its end.
LEMMA StepEnds ==
  ASSUME IInv, Keeps, pc \in Stepping, pc' = "stepEnd",
         token' = IF token = "closed" THEN "none" ELSE token
  PROVE  IInv'
<1>1. LogAt(pc, log, run, token) /\ run'.steps = run.steps
  BY Sets DEF IInv, InTurn, Keeps, Points
<1>2. PlaceAt(pc', log, run')
  BY <1>1 DEF LogAt, PlaceAt, Stepping, Asking, Attempting, Rounds, Unentered, Bracket
<1>3. SlotAt(pc', log, token')
  BY <1>1, Alphabets DEF LogAt, SlotAt, Stepping, Asking, Attempting, Rounds
<1>4. RetriesAt(pc', log, run')
  BY <1>1 DEF LogAt, RetriesAt, EarlierRetries, Asking, Stepping, Attempting, Rounds
<1>5. CallsAt(pc', log, run')
  BY <1>1 DEF LogAt, CallsAt, Rounds
<1>6. BracketAt(pc', log)
  BY <1>1 DEF LogAt, BracketAt, Bracket, Stepping, Asking, Attempting, Rounds
<1> QED
  BY <1>2, <1>3, <1>4, <1>5, <1>6, KeepsHolds DEF LogAt

Fixed ==
  /\ log' = log /\ observer' = observer /\ dirty' \in BOOLEAN
  /\ UNCHANGED <<env, token, oversized, loop>>

\* What the reports of a turn may be, whatever it does next.
Sincere(r) ==
  /\ r.lost => observer = "down"
  /\ Honest(r.outcome, cancelled, expired) /\ Honest(r.stop, cancelled, expired)
  /\ Honest(r.reason, cancelled, expired)

\* A turn whose next step is claimed gives the claims back and closes, or
\* stays where it is.
LEMMA Unentering ==
  ASSUME IInv, Fixed, pc \in Unentered, NEW r \in Runs, NEW w \in Words,
         CloseUnstarted(r, w), Honest(w, cancelled, expired), Sincere(r),
         r.steps = run.steps
  PROVE  IInv'
<1>1. /\ pc' = "closing" /\ run' \in Runs /\ run'.steps = run.steps /\ Sincere(run')
      /\ claims' = claims \ Unstarted
  BY Closes DEF CloseUnstarted, Sincere
<1>2. Typed /\ InTurn /\ claims = ClaimsAt(pc)
  BY DEF IInv, InTurn, Unentered
<1>3. claims' = ClaimsAt(pc')
  BY <1>1, <1>2 DEF ClaimsAt, Unentered, Bracket, Stepping, Asking, Attempting, Rounds, Unstarted
<1>4. RunAt(pc', run', cancelled, expired, observer)
  BY <1>1 DEF RunAt, LatchedAt, Sincere
<1>5. Keeps
  BY <1>1, <1>2, <1>3, <1>4 DEF Keeps, Fixed, Typed, InTurn, Points, Boundary
<1> QED
  BY <1>1, <1>5, Fixed, QuietMoves DEF Fixed, Quiet, Unentered, Bracket

LEMMA Staying ==
  ASSUME IInv, Fixed, pc \in Unentered, NEW r \in Runs,
         NEW p \in Unentered \ {"rewrite"}, Goto(p, r), claims' = claims,
         LatchedAt(p, r), Sincere(r), r.steps = run.steps
  PROVE  IInv'
<1>1. pc' = p /\ run' = r
  BY DEF Goto
<1>2. Typed /\ InTurn /\ claims = ClaimsAt(pc) /\ run.steps < MaxSteps
  BY DEF IInv, InTurn, LogAt, PlaceAt, Unentered
<1>3. claims' = ClaimsAt(pc')
  BY <1>1, <1>2 DEF ClaimsAt, Unentered, Bracket, Stepping, Asking, Attempting, Rounds
<1>4. RunAt(pc', run', cancelled, expired, observer)
  BY <1>1 DEF RunAt, Sincere, Unentered
<1>5. Keeps
  BY <1>1, <1>2, <1>3, <1>4 DEF Keeps, Fixed, Typed, InTurn, Points, Unentered
<1> QED
  BY <1>1, <1>2, <1>5, QuietMoves DEF Fixed, Quiet

\* The locals with the outcome of the last pass taken out.
LEMMA Taken ==
  ASSUME IInv, pc # "idle"
  PROVE  /\ run \in Runs /\ Sincere(run) /\ LatchedAt(pc, run)
         /\ run.outcome \in Words /\ run.stop \in Words
         /\ LET i == [run EXCEPT !.outcome = "none"] IN
            /\ i \in Runs /\ i.steps = run.steps /\ Sincere(i) /\ i.limit = run.limit
            /\ i.outcome = "none"
<1>1. run \in Runs /\ Sincere(run) /\ LatchedAt(pc, run)
  BY DEF IInv, InTurn, RunAt, Sincere, Typed
<1>2. PICK i \in Runs : i = [run EXCEPT !.outcome = "none"]
  BY <1>1 DEF Runs, Words
<1>3. i.steps = run.steps /\ LikeButOutcome(i, run) /\ i.outcome = "none"
  BY <1>1, <1>2 DEF Runs, LikeButOutcome
<1>4. Sincere(i)
  BY <1>1, <1>3 DEF Sincere, Honest, LikeButOutcome
<1> QED
  BY <1>1, <1>2, <1>3, <1>4 DEF Runs, LikeButOutcome

LEMMA PreparedStays ==
  ASSUME NEW r \in Runs, NEW prep \in Preps, Sincere(r)
  PROVE  /\ Prepared(r, prep) \in Runs /\ Prepared(r, prep).steps = r.steps
         /\ Prepared(r, prep).limit = r.limit /\ Sincere(Prepared(r, prep))
BY Preparations DEF Like, Sincere

LEMMA HardPrunedHolds == IInv /\ HardPruned => IInv'
<1> SUFFICES ASSUME IInv, HardPruned PROVE IInv'
  OBVIOUS
<1> DEFINE i == [run EXCEPT !.outcome = "none"]
<1>1. pc = "pruned" /\ Fixed /\ pc \in Unentered /\ pc # "idle"
  BY DEF HardPruned, Fixed, NoRow, rows, IInv, Typed, Unentered
<1>2. \/ CloseUnstarted(i, PreStepStop)
      \/ \E prep \in Preps : /\ run.outcome = "progress" /\ claims' = claims
                             /\ Goto("reprepared", Prepared(i, prep))
      \/ run.outcome = "noProgress" /\ claims' = claims /\ Goto("trigger", i)
      \/ CloseUnstarted(i, PruneStop(run.outcome))
  BY DEF HardPruned
<1>3. /\ i \in Runs /\ i.steps = run.steps /\ Sincere(i) /\ i.limit = run.limit
      /\ run.outcome \in {"progress", "noProgress"} => ~i.limit
  BY <1>1, Taken DEF LatchedAt
<1> HIDE DEF i
<1>4. CASE CloseUnstarted(i, PreStepStop)
  BY <1>1, <1>3, <1>4, Unentering, StopWords DEF Words
<1>5. CASE \E prep \in Preps : /\ run.outcome = "progress" /\ claims' = claims
                               /\ Goto("reprepared", Prepared(i, prep))
  <2>1. PICK prep \in Preps : /\ run.outcome = "progress" /\ claims' = claims
                              /\ Goto("reprepared", Prepared(i, prep))
    BY <1>5
  <2>2. /\ Prepared(i, prep) \in Runs /\ Prepared(i, prep).steps = run.steps
        /\ ~Prepared(i, prep).limit /\ Sincere(Prepared(i, prep))
    BY <1>3, <2>1, PreparedStays
  <2> QED
    BY <1>1, <2>1, <2>2, Staying DEF LatchedAt, Unentered
<1>6. CASE run.outcome = "noProgress" /\ claims' = claims /\ Goto("trigger", i)
  BY <1>1, <1>3, <1>6, Staying DEF LatchedAt, Unentered
<1>7. CASE CloseUnstarted(i, PruneStop(run.outcome))
  <2>1. PruneStop(run.outcome) \in Words /\ Honest(PruneStop(run.outcome), cancelled, expired)
    BY <1>1, Taken DEF PruneStop, Sincere, Honest, Words
  <2> QED
    BY <1>1, <1>3, <1>7, <2>1, Unentering
<1> QED
  BY <1>2, <1>4, <1>5, <1>6, <1>7

LEMMA PressurePrunedHolds == IInv /\ PressurePruned => IInv'
<1> SUFFICES ASSUME IInv, PressurePruned PROVE IInv'
  OBVIOUS
<1> DEFINE i == [run EXCEPT !.outcome = "none"]
           j(prep) == [Prepared(i, prep) EXCEPT !.trigger = TriggerOf(prep)]
<1>1. pc = "pruned" /\ Fixed /\ pc \in Unentered /\ pc # "idle"
  BY DEF PressurePruned, Fixed, NoRow, rows, IInv, Typed, Unentered
<1>2. \/ \E prep \in Preps : /\ run.outcome = "progress" /\ claims' = claims
                             /\ Goto("pressed", j(prep))
      \/ run.outcome = "noProgress" /\ claims' = claims /\ Goto("pressed", i)
      \/ CloseUnstarted(i, PruneStop(run.outcome))
  BY DEF PressurePruned
<1>3. /\ i \in Runs /\ i.steps = run.steps /\ Sincere(i) /\ i.limit = run.limit
      /\ run.outcome \in {"progress", "noProgress"} => ~i.limit
  BY <1>1, Taken DEF LatchedAt
<1>4. ASSUME NEW prep \in Preps, ~i.limit
      PROVE  j(prep) \in Runs /\ j(prep).steps = run.steps /\ ~j(prep).limit /\ Sincere(j(prep))
  <2> HIDE DEF i
  <2>1. PICK k \in Runs : k = Prepared(i, prep)
    BY <1>3, PreparedStays
  <2>2. k.steps = run.steps /\ ~k.limit /\ Sincere(k)
    BY <1>3, <1>4, <2>1, PreparedStays
  <2>3. TriggerOf(prep) \in {"none", "pressure", "hardLimit"}
    BY DEF TriggerOf
  <2>4. PICK x \in Runs : x = [k EXCEPT !.trigger = TriggerOf(prep)]
    BY <2>3 DEF Runs
  <2>5. x.steps = k.steps /\ x.limit = k.limit /\ Like(x, k)
    BY <2>4 DEF Runs, Like
  <2>6. Sincere(x)
    BY <2>2, <2>5 DEF Sincere, Like
  <2> QED
    BY <2>1, <2>2, <2>4, <2>5, <2>6
<1> HIDE DEF i, j
<1>5. CASE \E prep \in Preps : /\ run.outcome = "progress" /\ claims' = claims
                               /\ Goto("pressed", j(prep))
  BY <1>1, <1>3, <1>4, <1>5, Staying DEF LatchedAt, Unentered
<1>6. CASE run.outcome = "noProgress" /\ claims' = claims /\ Goto("pressed", i)
  BY <1>1, <1>3, <1>6, Staying DEF LatchedAt, Unentered
<1>7. CASE CloseUnstarted(i, PruneStop(run.outcome))
  <2>1. PruneStop(run.outcome) \in Words /\ Honest(PruneStop(run.outcome), cancelled, expired)
    BY <1>1, Taken DEF PruneStop, Sincere, Honest, Words
  <2> QED
    BY <1>1, <1>3, <1>7, <2>1, Unentering
<1> QED
  BY <1>2, <1>5, <1>6, <1>7

LEMMA AfterCompactionHolds == IInv /\ AfterCompaction => IInv'
<1> SUFFICES ASSUME IInv, AfterCompaction PROVE IInv'
  OBVIOUS
<1> DEFINE i == [run EXCEPT !.outcome = "none", !.trigger = "none"]
<1>1. pc = "compacted" /\ Fixed /\ pc \in Unentered /\ pc # "idle"
  BY DEF AfterCompaction, Fixed, NoRow, rows, IInv, Typed, Unentered
<1>2. \/ CloseUnstarted(i, PreStepStop)
      \/ \E prep \in Preps : /\ run.outcome = "progress" /\ claims' = claims
                             /\ Goto("enter", Prepared(i, prep))
      \/ CloseUnstarted(i, "error")
      \/ run.outcome = "noProgress" /\ claims' = claims /\ Goto("enter", i)
      \/ run.outcome = "cancelled" /\ CloseUnstarted(i, "aborted")
      \/ CloseUnstarted(i, run.outcome)
  BY DEF AfterCompaction
<1>3. /\ i \in Runs /\ i.steps = run.steps /\ Sincere(i) /\ i.limit = run.limit
      /\ run.outcome \in {"progress", "noProgress"} => ~i.limit
      /\ run.outcome \in Words /\ Honest(run.outcome, cancelled, expired)
  <2>1. PICK j \in Runs : j = [run EXCEPT !.outcome = "none"]
    BY <1>1, Taken
  <2>2. j.steps = run.steps /\ Sincere(j) /\ j.limit = run.limit
    BY <1>1, <2>1, Taken
  <2>3. PICK k \in Runs : k = [j EXCEPT !.trigger = "none"]
    BY DEF Runs
  <2>4. k.steps = j.steps /\ Like(k, j)
    BY <2>3 DEF Runs, Like
  <2>5. Sincere(k) /\ k = i
    BY <2>1, <2>2, <2>3, <2>4 DEF Sincere, Like
  <2> QED
    BY <1>1, <2>2, <2>4, <2>5, Taken DEF LatchedAt, Like, Sincere
<1> HIDE DEF i
<1>4. CASE CloseUnstarted(i, PreStepStop)
  BY <1>1, <1>3, <1>4, Unentering, StopWords DEF Words
<1>5. CASE \E prep \in Preps : /\ run.outcome = "progress" /\ claims' = claims
                               /\ Goto("enter", Prepared(i, prep))
  <2>1. PICK prep \in Preps : /\ run.outcome = "progress" /\ claims' = claims
                              /\ Goto("enter", Prepared(i, prep))
    BY <1>5
  <2>2. /\ Prepared(i, prep) \in Runs /\ Prepared(i, prep).steps = run.steps
        /\ ~Prepared(i, prep).limit /\ Sincere(Prepared(i, prep))
    BY <1>3, <2>1, PreparedStays
  <2> QED
    BY <1>1, <2>1, <2>2, Staying DEF LatchedAt, Unentered
<1>6. CASE run.outcome = "noProgress" /\ claims' = claims /\ Goto("enter", i)
  BY <1>1, <1>3, <1>6, Staying DEF LatchedAt, Unentered
<1>7. CASE CloseUnstarted(i, "error")
  BY <1>1, <1>3, <1>7, Unentering DEF Words, Honest
<1>8. CASE run.outcome = "cancelled" /\ CloseUnstarted(i, "aborted")
  BY <1>1, <1>3, <1>8, Unentering DEF Words, Honest
<1>9. CASE CloseUnstarted(i, run.outcome)
  BY <1>1, <1>3, <1>9, Unentering
<1> QED
  BY <1>2, <1>4, <1>5, <1>6, <1>7, <1>8, <1>9

LEMMA CompactHolds == IInv /\ Compact => IInv'
<1> SUFFICES ASSUME IInv, Compact PROVE IInv'
  OBVIOUS
<1> DEFINE counted == [run EXCEPT !.attempts = @ + 1, !.summaryTried = TRUE]
<1>1. /\ pc = "compact" /\ Fixed /\ pc \in Unentered /\ pc # "idle"
      /\ Typed /\ InTurn /\ run.steps < MaxSteps /\ ~run.limit
  BY DEF Compact, Fixed, NoRow, rows, IInv, Typed, Unentered, InTurn, LogAt, PlaceAt, RunAt,
         LatchedAt
<1>2. \/ claims' = claims /\ \E w \in Words : /\ Honest(w, cancelled, expired)
                                              /\ Compacted(run, w)
      \/ /\ run.attempts + 1 < MaxAttempts
         /\ \/ claims' = claims /\ Compacted(counted, "noProgress")
            \/ claims' = claims /\ Compacted(Refused(counted), Refusal)
            \/ claims' = claims \cup {"bracketEnd"} /\ Goto("bracketStart", counted)
  <2>1. Interrupt \in Words /\ "noProgress" \in Words /\ Honest("noProgress", cancelled, expired)
    BY StopWords DEF Words, Honest
  <2>2. run.attempts + 1 >= MaxAttempts \/ run.attempts + 1 < MaxAttempts
    BY <1>1, Bounds DEF Typed, Runs
  <2> QED
    BY <2>1, <2>2, StopWords DEF Compact
<1>3. Sincere(run) /\ run \in Runs
  BY <1>1, Taken
<1>4. ASSUME run.attempts + 1 < MaxAttempts
      PROVE  /\ counted \in Runs /\ counted.attempts < MaxAttempts
             /\ counted.steps = run.steps /\ ~counted.limit /\ Sincere(counted)
  <2>1. PICK n \in 0..MaxAttempts : n = run.attempts + 1 /\ n < MaxAttempts
    BY <1>3, <1>4, Bounds DEF Runs
  <2>2. PICK k \in Runs : k = [run EXCEPT !.attempts = n, !.summaryTried = TRUE]
    BY <1>3 DEF Runs
  <2>3. /\ k.attempts = n /\ k.steps = run.steps /\ k.limit = run.limit
        /\ k.lost = run.lost /\ k.outcome = run.outcome /\ k.stop = run.stop
        /\ k.reason = run.reason
    BY <1>3, <2>2 DEF Runs
  <2>4. k = counted
    BY <2>1, <2>2
  <2> QED
    BY <1>1, <1>3, <2>1, <2>2, <2>3, <2>4 DEF Sincere
<1> HIDE DEF counted
<1>5. ASSUME NEW r \in Runs, NEW w \in Words, Compacted(r, w), claims' = claims,
             r.steps = run.steps, Sincere(r), Honest(w, cancelled, expired),
             r.limit => w = "limit"
      PROVE  IInv'
  <2>1. PICK u \in Runs : u = [r EXCEPT !.outcome = w]
    BY Outcomes
  <2>2. u.outcome = w /\ LikeButOutcome(u, r)
    BY <2>1, Outcomes
  <2>3. Goto("compacted", u) /\ Sincere(u) /\ LatchedAt("compacted", u) /\ u.steps = run.steps
    BY <1>5, <2>1, <2>2 DEF Compacted, Sincere, LatchedAt, LikeButOutcome
  <2> QED
    BY <1>1, <1>5, <2>3, Staying DEF Unentered
<1>6. CASE claims' = claims /\ \E w \in Words : /\ Honest(w, cancelled, expired)
                                                /\ Compacted(run, w)
  BY <1>1, <1>3, <1>5, <1>6
<1>7. CASE run.attempts + 1 < MaxAttempts /\ claims' = claims /\ Compacted(counted, "noProgress")
  BY <1>4, <1>5, <1>7 DEF Words, Honest
<1>8. CASE /\ run.attempts + 1 < MaxAttempts
           /\ claims' = claims /\ Compacted(Refused(counted), Refusal)
  <2>1. /\ Refused(counted) \in Runs /\ Refused(counted).steps = run.steps
        /\ Sincere(Refused(counted)) /\ (Refused(counted).limit => Refusal = "limit")
        /\ Refusal \in Words /\ Honest(Refusal, cancelled, expired)
    BY <1>4, <1>8, Refusals DEF Sincere, Honest
  <2> QED
    BY <1>5, <1>8, <2>1
<1>9. CASE /\ run.attempts + 1 < MaxAttempts
           /\ claims' = claims \cup {"bracketEnd"} /\ Goto("bracketStart", counted)
  <2>1. pc' = "bracketStart" /\ run' = counted
    BY <1>9 DEF Goto
  <2>2. claims' = ClaimsAt(pc')
    BY <1>1, <1>9, <2>1 DEF InTurn, ClaimsAt, Unentered, Bracket, Stepping, Asking, Attempting,
       Rounds
  <2>3. RunAt(pc', run', cancelled, expired, observer)
    BY <1>4, <1>9, <2>1 DEF RunAt, LatchedAt, Sincere
  <2>4. Keeps
    BY <1>1, <1>4, <1>9, <2>1, <2>2, <2>3 DEF Keeps, Fixed, Typed, InTurn, Points, Bracket
  <2> QED
    BY <1>1, <1>4, <1>9, <2>1, <2>4, QuietMoves DEF Fixed, Quiet
<1> QED
  BY <1>2, <1>6, <1>7, <1>8, <1>9

LEMMA PassEnds ==
  ASSUME IInv, Fixed, pc \in Unentered, NEW r \in Runs, NEW w \in Words, Pruned(r, w),
         claims' = claims, r.steps = run.steps, Sincere(r), Honest(w, cancelled, expired),
         r.limit => w \in {"limit", "observer"}
  PROVE  IInv'
<1>1. PICK u \in Runs : u = [r EXCEPT !.outcome = w, !.progress = FALSE]
  BY DEF Runs
<1>2. u.outcome = w /\ LikeButOutcome(u, r)
  BY <1>1 DEF Runs, LikeButOutcome
<1>3. Goto("pruned", u) /\ Sincere(u) /\ LatchedAt("pruned", u) /\ u.steps = run.steps
  BY <1>1, <1>2 DEF Pruned, Sincere, LatchedAt, LikeButOutcome
<1> QED
  BY <1>3, Staying DEF Unentered

LEMMA PruneBarrierHolds == IInv /\ PruneBarrier => IInv'
<1> SUFFICES ASSUME IInv, PruneBarrier PROVE IInv'
  OBVIOUS
<1> DEFINE d == [run EXCEPT !.lost = TRUE]
           i == [run EXCEPT !.progress = TRUE, !.outcome = "none"]
<1>1. /\ pc = "pruneBarrier" /\ Fixed /\ pc \in Unentered /\ pc # "idle"
      /\ claims' = claims /\ ~run.limit
  BY DEF PruneBarrier, Flush, Fixed, IInv, InTurn, RunAt, LatchedAt, Unentered
<1>2. run \in Runs /\ Sincere(run)
  BY <1>1, Taken
<1>3. \/ observer = "down" /\ Pruned(d, "observer")
      \/ Goto("prune", i)
      \/ Pruned(Refused(run), "limit")
      \/ Pruned(run, PassOutcome(run))
  BY <1>1 DEF PruneBarrier
<1>4. PICK x \in Runs : x = d
  BY <1>2 DEF Runs
<1>5. /\ x.steps = run.steps /\ x.outcome = run.outcome /\ x.stop = run.stop
      /\ x.reason = run.reason /\ x.limit = run.limit
  BY <1>2, <1>4 DEF Runs
<1>6. PICK y \in Runs : y = i
  BY <1>2 DEF Runs, Words
<1>7. y.outcome = "none" /\ LikeButOutcome(y, run)
  BY <1>2, <1>6 DEF Runs, LikeButOutcome
<1> HIDE DEF d, i
<1>8. CASE observer = "down" /\ Pruned(d, "observer")
  <2>1. Sincere(x) /\ "observer" \in Words /\ Honest("observer", cancelled, expired)
    BY <1>2, <1>5, <1>8 DEF Sincere, Words, Honest
  <2> QED
    BY <1>1, <1>4, <1>5, <1>8, <2>1, PassEnds
<1>9. CASE Goto("prune", i)
  <2>1. Sincere(y) /\ ~y.limit /\ y.steps = run.steps
    BY <1>1, <1>2, <1>7 DEF Sincere, LikeButOutcome, Honest
  <2> QED
    BY <1>1, <1>6, <1>9, <2>1, Staying DEF LatchedAt, Unentered
<1>10. CASE Pruned(Refused(run), "limit")
  <2>1. Refused(run) \in Runs /\ Sincere(Refused(run)) /\ Refused(run).steps = run.steps
    BY <1>2, Refusals DEF Sincere
  <2>2. "limit" \in Words /\ Honest("limit", cancelled, expired)
    BY DEF Words, Honest
  <2> QED
    BY <1>1, <1>10, <2>1, <2>2, PassEnds
<1>11. CASE Pruned(run, PassOutcome(run))
  <2>1. PassOutcome(run) \in Words /\ Honest(PassOutcome(run), cancelled, expired)
    BY DEF PassOutcome, Words, Honest
  <2> QED
    BY <1>1, <1>2, <1>11, <2>1, PassEnds
<1> QED
  BY <1>3, <1>8, <1>9, <1>10, <1>11

\* A turn closes where no step is claimed.
LEMMA ClosesHere ==
  ASSUME IInv, Fixed, pc \in {"opened", "top", "classify"}, NEW r \in Runs, NEW w \in Words,
         Close(r, w), claims' = claims, Honest(w, cancelled, expired), Sincere(r),
         r.steps = run.steps
  PROVE  IInv'
<1>1. /\ pc' = "closing" /\ run' \in Runs /\ run'.steps = run.steps /\ Sincere(run')
  BY Closes DEF Sincere
<1>2. Typed /\ InTurn /\ claims = ClaimsAt(pc)
  BY DEF IInv, InTurn
<1>3. claims' = ClaimsAt(pc')
  BY <1>1, <1>2 DEF ClaimsAt, Unentered, Bracket, Stepping, Asking, Attempting, Rounds
<1>4. RunAt(pc', run', cancelled, expired, observer)
  BY <1>1 DEF RunAt, LatchedAt, Sincere
<1>5. Keeps
  BY <1>1, <1>2, <1>3, <1>4 DEF Keeps, Fixed, Typed, InTurn, Points, Boundary
<1> QED
  BY <1>1, <1>5, QuietMoves DEF Fixed, Quiet, Unentered, Bracket

LEMMA TopHolds == IInv /\ Top => IInv'
<1> SUFFICES ASSUME IInv, Top PROVE IInv'
  OBVIOUS
<1> DEFINE i == [run EXCEPT !.prep = "none"]
<1>1. /\ pc = "top" /\ Fixed /\ pc # "idle" /\ Typed /\ InTurn /\ ~run.limit
  BY DEF Top, Fixed, NoRow, rows, IInv, Typed, InTurn, RunAt, LatchedAt
<1>2. run \in Runs /\ Sincere(run)
  BY <1>1, Taken
<1>3. \/ cancelled /\ Close(run, "aborted") /\ claims' = claims
      \/ expired /\ Close(run, "timeout") /\ claims' = claims
      \/ Close(run, "error") /\ claims' = claims
      \/ Close(Refused(run), Refusal) /\ claims' = claims
      \/ /\ ~(run.steps >= MaxSteps) /\ claims' = claims \cup Unstarted
         /\ \/ Goto("enter", i)
            \/ \E prep \in Preps : Goto("prepared", Prepared(run, prep))
  BY DEF Top
<1>4. CASE cancelled /\ Close(run, "aborted") /\ claims' = claims
  BY <1>1, <1>2, <1>4, ClosesHere DEF Words, Honest
<1>5. CASE expired /\ Close(run, "timeout") /\ claims' = claims
  BY <1>1, <1>2, <1>5, ClosesHere DEF Words, Honest
<1>6. CASE Close(run, "error") /\ claims' = claims
  BY <1>1, <1>2, <1>6, ClosesHere DEF Words, Honest
<1>7. CASE Close(Refused(run), Refusal) /\ claims' = claims
  <2>1. Refused(run) \in Runs /\ Sincere(Refused(run)) /\ Refused(run).steps = run.steps
    BY <1>2, Refusals DEF Sincere
  <2>2. Refusal \in Words /\ Honest(Refusal, cancelled, expired)
    BY <1>2, Refusals DEF Honest
  <2> QED
    BY <1>1, <1>7, <2>1, <2>2, ClosesHere
<1>8. ASSUME NEW r \in Runs, NEW p \in {"enter", "prepared"}, Goto(p, r), Like(r, run),
             ~(run.steps >= MaxSteps), claims' = claims \cup Unstarted
      PROVE  IInv'
  <2>1. pc' = p /\ run' = r /\ run'.steps = run.steps /\ run'.steps < MaxSteps
    BY <1>2, <1>8, Bounds DEF Goto, Like, Runs
  <2>2. claims' = ClaimsAt(pc')
    BY <1>1, <1>8, <2>1 DEF InTurn, ClaimsAt, Unentered, Bracket, Stepping, Asking, Attempting,
       Rounds, Unstarted
  <2>3. RunAt(pc', run', cancelled, expired, observer)
    BY <1>1, <1>2, <1>8, <2>1 DEF RunAt, LatchedAt, Sincere, Like
  <2>4. Keeps
    BY <1>1, <2>1, <2>2, <2>3 DEF Keeps, Fixed, Typed, InTurn, Points, Unentered
  <2> QED
    BY <1>1, <2>1, <2>4, QuietMoves DEF Fixed, Quiet, Unentered
<1>9. PICK x \in Runs : x = i
  BY <1>2 DEF Runs
<1>10. Like(x, run)
  BY <1>2, <1>9 DEF Runs, Like
<1> HIDE DEF i
<1> QED
  BY <1>2, <1>3, <1>4, <1>5, <1>6, <1>7, <1>8, <1>9, <1>10, Preparations

LEMMA ClassifyHolds == IInv /\ Classify => IInv'
<1> SUFFICES ASSUME IInv, Classify PROVE IInv'
  OBVIOUS
<1> DEFINE i == [run EXCEPT !.outcome = "none", !.stop = "none", !.prep = "none",
                            !.fresh = FALSE]
<1>1. /\ pc = "classify" /\ Fixed /\ pc # "idle" /\ Typed /\ InTurn /\ claims' = claims
  BY DEF Classify, Fixed, NoRow, rows, IInv, Typed
<1>2. run \in Runs /\ Sincere(run) /\ run.outcome \in Words /\ run.stop \in Words
  BY <1>1, Taken
<1>3. PICK x \in Runs : x = i
  <2>1. "none" \in Words /\ "none" \in Preps \cup {"none"}
    BY DEF Words
  <2> QED
    BY <1>2, <2>1 DEF Runs
<1>4. /\ x.steps = run.steps /\ x.limit = run.limit /\ Sincere(x)
      /\ x.outcome = "none" /\ x.stop = "none"
  <2>1. /\ x.steps = run.steps /\ x.limit = run.limit /\ x.lost = run.lost
        /\ x.outcome = "none" /\ x.stop = "none" /\ x.reason = run.reason
    BY <1>2, <1>3 DEF Runs
  <2> QED
    BY <1>2, <2>1 DEF Sincere, Honest
<1>5. \/ \E w \in {"limit", TurnReason(run.stop), TurnReason(Interrupt), TurnReason(run.outcome)} :
           Close(x, w)
      \/ ~run.limit /\ Goto("top", x)
  BY <1>1, <1>3 DEF Classify
<1>6. CASE \E w \in {"limit", TurnReason(run.stop), TurnReason(Interrupt),
                     TurnReason(run.outcome)} : Close(x, w)
  <2>1. ASSUME NEW w \in Words, Honest(w, cancelled, expired)
        PROVE  TurnReason(w) \in Words /\ Honest(TurnReason(w), cancelled, expired)
    BY <2>1 DEF TurnReason, Words, Honest
  <2>2. Interrupt \in Words /\ "limit" \in Words /\ Honest("limit", cancelled, expired)
    BY StopWords DEF Words, Honest
  <2> QED
    BY <1>1, <1>2, <1>4, <1>6, <2>1, <2>2, StopWords, ClosesHere DEF Sincere
<1>7. CASE ~run.limit /\ Goto("top", x)
  <2>1. pc' = "top" /\ run' = x /\ run'.steps = run.steps
    BY <1>4, <1>7 DEF Goto
  <2>2. claims' = ClaimsAt(pc')
    BY <1>1, <2>1 DEF InTurn, ClaimsAt, Unentered, Bracket, Stepping, Asking, Attempting, Rounds
  <2>3. RunAt(pc', run', cancelled, expired, observer)
    BY <1>4, <1>7, <2>1 DEF RunAt, LatchedAt, Sincere
  <2>4. Keeps
    BY <1>1, <2>1, <2>2, <2>3 DEF Keeps, Fixed, Typed, InTurn, Points, Boundary
  <2> QED
    BY <1>1, <2>1, <2>4, QuietMoves DEF Fixed, Quiet, Unentered, Bracket
<1> QED
  BY <1>5, <1>6, <1>7

LEMMA OpenedHolds == IInv /\ Opened => IInv'
<1> SUFFICES ASSUME IInv, Opened PROVE IInv'
  OBVIOUS
<1>1. /\ pc = "opened" /\ log' = log /\ observer' = observer /\ dirty' \in BOOLEAN
      /\ UNCHANGED <<env, token, oversized, loop>> /\ Typed /\ InTurn /\ run \in Runs
  BY DEF Opened, IInv, Typed, NoRow, rows, Flush
<1>2. PICK i \in Runs : i = [run EXCEPT !.inputs = TRUE]
  BY <1>1, Bounds DEF Runs
<1>3. Like(i, run)
  BY <1>2 DEF Runs, Like, LikeButOutcome
<1>4. /\ run' \in Runs /\ run'.steps = run.steps /\ pc' \in {"closing", "top"}
      /\ claims' = claims
  BY <1>1, <1>2, <1>3, Closes
  DEF Opened, Goto, Like, LikeButOutcome, Words
<1>5. RunAt(pc', run', cancelled, expired, observer)
  BY <1>1, <1>2, <1>3, Closes
  DEF Opened, Goto, Like, LikeButOutcome, Words, InTurn, RunAt, LatchedAt, Honest
<1>6. claims' = ClaimsAt(pc')
  BY <1>1, <1>4 DEF InTurn, ClaimsAt, Unentered, Bracket, Stepping, Asking, Attempting, Rounds,
     Unstarted
<1>7. Keeps
  BY <1>1, <1>4, <1>5, <1>6 DEF Keeps, Typed, InTurn, Points, Unentered, Bracket, Boundary
<1>8. pc' \in Unentered \cup Bracket => run.steps < MaxSteps
  BY <1>4 DEF Unentered, Bracket
<1> QED
  BY <1>1, <1>4, <1>7, <1>8, QuietMoves DEF Quiet, Unentered

LEMMA FirstPreparedHolds == IInv /\ FirstPrepared => IInv'
<1> SUFFICES ASSUME IInv, FirstPrepared PROVE IInv'
  OBVIOUS
<1>1. /\ pc = "prepared" /\ log' = log /\ observer' = observer /\ dirty' \in BOOLEAN
      /\ UNCHANGED <<env, token, oversized, loop>> /\ Typed /\ InTurn /\ run \in Runs
  BY DEF FirstPrepared, IInv, Typed, NoRow, rows, Flush
<1>2. PICK i \in Runs : i = [run EXCEPT !.trigger = "hardLimit"]
  BY <1>1, Bounds DEF Runs
<1>3. Like(i, run)
  BY <1>2 DEF Runs, Like, LikeButOutcome
<1>4. /\ run' \in Runs /\ run'.steps = run.steps /\ pc' \in {"closing", "prune", "trigger"}
      /\ claims' = IF pc' = "closing" THEN claims \ Unstarted ELSE claims
  BY <1>1, <1>2, <1>3, Closes, StopWords
  DEF FirstPrepared, Goto, CloseUnstarted, Like, LikeButOutcome, Words
<1>5. RunAt(pc', run', cancelled, expired, observer)
  BY <1>1, <1>2, <1>3, Closes, StopWords
  DEF FirstPrepared, Goto, CloseUnstarted, Like, LikeButOutcome, Words, InTurn, RunAt,
     LatchedAt, Honest
<1>6. claims' = ClaimsAt(pc')
  BY <1>1, <1>4 DEF InTurn, ClaimsAt, Unentered, Bracket, Stepping, Asking, Attempting, Rounds,
     Unstarted
<1>7. Keeps
  BY <1>1, <1>4, <1>5, <1>6 DEF Keeps, Typed, InTurn, Points, Unentered, Bracket, Boundary
<1>8. pc' \in Unentered \cup Bracket => run.steps < MaxSteps
  BY <1>1, <1>4 DEF InTurn, LogAt, PlaceAt, Unentered
<1> QED
  BY <1>1, <1>4, <1>7, <1>8, QuietMoves DEF Quiet, Unentered

LEMMA TriggerHolds == IInv /\ Trigger => IInv'
<1> SUFFICES ASSUME IInv, Trigger PROVE IInv'
  OBVIOUS
<1>1. pc = "trigger" /\ Fixed /\ pc \in Unentered /\ pc # "idle"
  BY DEF Trigger, Fixed, NoRow, rows, IInv, Typed, Unentered
<1>2. run \in Runs /\ Sincere(run) /\ ~run.limit
  BY <1>1, Taken DEF LatchedAt
<1>3. \/ CloseUnstarted(run, "error")
      \/ \E p \in {"prune", "compact", "enter"}, x \in {"pressure", "hardLimit", "none"} :
           Goto(p, [run EXCEPT !.trigger = x]) /\ claims' = claims
  BY DEF Trigger
<1>4. CASE CloseUnstarted(run, "error")
  BY <1>1, <1>2, <1>4, Unentering DEF Words, Honest
<1>5. CASE \E p \in {"prune", "compact", "enter"}, x \in {"pressure", "hardLimit", "none"} :
             Goto(p, [run EXCEPT !.trigger = x]) /\ claims' = claims
  <2>1. PICK p \in {"prune", "compact", "enter"}, x \in {"pressure", "hardLimit", "none"} :
          Goto(p, [run EXCEPT !.trigger = x]) /\ claims' = claims
    BY <1>5
  <2>2. PICK r \in Runs : r = [run EXCEPT !.trigger = x]
    BY <1>2 DEF Runs
  <2>3. Like(r, run)
    BY <1>2, <2>2 DEF Runs, Like
  <2>4. Sincere(r) /\ ~r.limit /\ r.steps = run.steps
    BY <1>2, <2>3 DEF Sincere, Like
  <2>5. Goto(p, r) /\ LatchedAt(p, r)
    BY <2>1, <2>2, <2>4 DEF LatchedAt
  <2> QED
    BY <1>1, <2>1, <2>4, <2>5, Staying DEF Unentered
<1> QED
  BY <1>3, <1>4, <1>5

LEMMA RepreparedHolds == IInv /\ Reprepared => IInv'
<1> SUFFICES ASSUME IInv, Reprepared PROVE IInv'
  OBVIOUS
<1>1. /\ pc = "reprepared" /\ log' = log /\ observer' = observer /\ dirty' \in BOOLEAN
      /\ UNCHANGED <<env, token, oversized, loop>> /\ Typed /\ InTurn /\ run \in Runs
  BY DEF Reprepared, IInv, Typed, NoRow, rows, Flush
<1>2. /\ run' \in Runs /\ run'.steps = run.steps /\ pc' \in {"closing", "trigger"}
      /\ claims' = IF pc' = "closing" THEN claims \ Unstarted ELSE claims
  BY <1>1, Closes, StopWords
  DEF Reprepared, Goto, CloseUnstarted, Like, LikeButOutcome, Words
<1>3. RunAt(pc', run', cancelled, expired, observer)
  BY <1>1, Closes, StopWords
  DEF Reprepared, Goto, CloseUnstarted, Like, LikeButOutcome, Words, InTurn, RunAt, LatchedAt,
     Honest
<1>4. claims' = ClaimsAt(pc')
  BY <1>1, <1>2 DEF InTurn, ClaimsAt, Unentered, Bracket, Stepping, Asking, Attempting, Rounds,
     Unstarted
<1>5. Keeps
  BY <1>1, <1>2, <1>3, <1>4 DEF Keeps, Typed, InTurn, Points, Unentered, Bracket, Boundary
<1>6. pc' \in Unentered \cup Bracket => run.steps < MaxSteps
  BY <1>1, <1>2 DEF InTurn, LogAt, PlaceAt, Unentered
<1> QED
  BY <1>1, <1>2, <1>5, <1>6, QuietMoves DEF Quiet, Unentered

LEMMA PressedHolds == IInv /\ Pressed => IInv'
<1> SUFFICES ASSUME IInv, Pressed PROVE IInv'
  OBVIOUS
<1>1. /\ pc = "pressed" /\ log' = log /\ observer' = observer /\ dirty' \in BOOLEAN
      /\ UNCHANGED <<env, token, oversized, loop>> /\ Typed /\ InTurn /\ run \in Runs
  BY DEF Pressed, IInv, Typed, NoRow, rows, Flush
<1>2. /\ run' \in Runs /\ run'.steps = run.steps /\ pc' \in {"closing", "enter", "compact"}
      /\ claims' = IF pc' = "closing" THEN claims \ Unstarted ELSE claims
  BY <1>1, Closes, StopWords
  DEF Pressed, Goto, CloseUnstarted, Like, LikeButOutcome, Words
<1>3. RunAt(pc', run', cancelled, expired, observer)
  BY <1>1, Closes, StopWords
  DEF Pressed, Goto, CloseUnstarted, Like, LikeButOutcome, Words, InTurn, RunAt, LatchedAt,
     Honest
<1>4. claims' = ClaimsAt(pc')
  BY <1>1, <1>2 DEF InTurn, ClaimsAt, Unentered, Bracket, Stepping, Asking, Attempting, Rounds,
     Unstarted
<1>5. Keeps
  BY <1>1, <1>2, <1>3, <1>4 DEF Keeps, Typed, InTurn, Points, Unentered, Bracket, Boundary
<1>6. pc' \in Unentered \cup Bracket => run.steps < MaxSteps
  BY <1>1, <1>2 DEF InTurn, LogAt, PlaceAt, Unentered
<1> QED
  BY <1>1, <1>2, <1>5, <1>6, QuietMoves DEF Quiet, Unentered

LEMMA EndBracketBarrierHolds == IInv /\ EndBracketBarrier => IInv'
<1> SUFFICES ASSUME IInv, EndBracketBarrier PROVE IInv'
  OBVIOUS
<1>1. /\ pc = "endBracketBarrier" /\ Fixed /\ pc \in Unentered /\ pc # "idle"
      /\ claims' = claims
  BY DEF EndBracketBarrier, Flush, Fixed, IInv, Unentered
<1>2. /\ run \in Runs /\ Sincere(run) /\ run.outcome \in Words
      /\ run.limit => run.outcome \in {"limit", "observer"}
  BY <1>1, Taken DEF LatchedAt
<1>3. PICK d \in Runs : d = [run EXCEPT !.lost = TRUE]
  BY <1>2 DEF Runs
<1>4. /\ d.steps = run.steps /\ d.limit = run.limit /\ d.lost
      /\ d.outcome = run.outcome /\ d.stop = run.stop /\ d.reason = run.reason
  BY <1>2, <1>3 DEF Runs
<1>5. \/ observer = "down" /\ Compacted(d, "observer")
      \/ Compacted(run, run.outcome)
  BY <1>3 DEF EndBracketBarrier
<1>6. ASSUME NEW r \in Runs, NEW w \in Words, Compacted(r, w), r.steps = run.steps,
             Sincere(r), Honest(w, cancelled, expired), r.limit => w \in {"limit", "observer"}
      PROVE  IInv'
  <2>1. PICK u \in Runs : u = [r EXCEPT !.outcome = w]
    BY Outcomes
  <2>2. u.outcome = w /\ LikeButOutcome(u, r)
    BY <2>1, Outcomes
  <2>3. Goto("compacted", u) /\ Sincere(u) /\ LatchedAt("compacted", u) /\ u.steps = run.steps
    BY <1>6, <2>1, <2>2 DEF Compacted, Sincere, LatchedAt, LikeButOutcome
  <2> QED
    BY <1>1, <2>3, Staying DEF Unentered
<1>7. CASE observer = "down" /\ Compacted(d, "observer")
  <2>1. Sincere(d) /\ "observer" \in Words /\ Honest("observer", cancelled, expired)
    BY <1>2, <1>4, <1>7 DEF Sincere, Words, Honest
  <2> QED
    BY <1>4, <1>6, <1>7, <2>1
<1>8. CASE Compacted(run, run.outcome)
  BY <1>2, <1>6, <1>8 DEF Sincere
<1> QED
  BY <1>5, <1>7, <1>8

-----------------------------------------------------------------------------
(* Rows before the step.                                                   *)

\* What every step that writes a row keeps.
Writes ==
  /\ UNCHANGED env /\ dirty' \in BOOLEAN /\ token' \in {"none", "open", "closed"}
  /\ observer' \in (IF observer = "up" THEN {"up", "down"} ELSE {"down"})
  /\ loop' \in Loops /\ ~loop'.poisoned /\ run' \in Runs
  /\ log' \in DriverLogs /\ Marked(log') /\ oversized' \subseteq log'.results
  /\ pc' \in Points \ {"finalBarrier"} /\ claims' = ClaimsAt(pc')

LEMMA WritesHolds ==
  ASSUME IInv, Writes, LogAt(pc', log', run', token'), pc # "idle",
         LatchedAt(pc', run'), Sincere(run'),
         pc' = "retryBarrier" => run'.retries < MaxRetries,
         pc' \in {"bracketStart", "bracketBarrier"} => run'.attempts < MaxAttempts
  PROVE  IInv'
<1>1. Typed'
  BY ClaimsTyped DEF IInv, Typed, Writes, env
<1>2. RunAt(pc', run', cancelled', expired', observer')
  BY DEF RunAt, Sincere, Writes, env, IInv, Typed
<1> QED
  BY <1>1, <1>2, GoesOn DEF Writes

\* Rows of the surface leave a quiet turn as it was.
LEMMA QuietRows ==
  ASSUME IInv, Writes, pc \in Unentered, pc' \in Unentered, token' = token,
         SameLog(log', log) \/ (/\ SamePlace(log', log) /\ SameSlot(log', log)
                                /\ SameCalls(log', log) /\ SameRetries(log', log)
                                /\ SameBracket(log', log)),
         pc' = "rewrite" => Durable /\ log'.marker \in log'.results,
         run' = run \/ Like(run', run), LatchedAt(pc', run'), Sincere(run')
  PROVE  IInv'
<1>1. LogAt(pc, log, run, token) /\ run'.steps = run.steps
  BY DEF IInv, InTurn, Unentered, Like
<1>2. /\ SamePlace(log', log) /\ SameSlot(log', log) /\ SameCalls(log', log)
      /\ SameRetries(log', log) /\ SameBracket(log', log)
  BY DEF SameLog
<1>3. PlaceAt(pc', log', run')
  BY <1>1, <1>2 DEF LogAt, PlaceAt, SamePlace, Unentered, Bracket, Stepping, Asking, Attempting,
     Rounds
<1>4. SlotAt(pc', log', token')
  BY <1>1, <1>2 DEF LogAt, SlotAt, SameSlot, Unentered, Asking
<1>5. RetriesAt(pc', log', run')
  BY <1>1, <1>2 DEF LogAt, RetriesAt, EarlierRetries, SamePlace, SameRetries, Unentered, Asking
<1>6. CallsAt(pc', log', run')
  BY <1>1, <1>2 DEF LogAt, CallsAt, SameCalls, Unentered, Rounds
<1>7. BracketAt(pc', log')
  BY <1>1, <1>2 DEF LogAt, BracketAt, SameBracket, SamePlace, Unentered, Bracket
<1>8. LogAt(pc', log', run', token')
  BY <1>3, <1>4, <1>5, <1>6, <1>7 DEF LogAt
<1>9. pc' # "retryBarrier" /\ pc' \notin {"bracketStart", "bracketBarrier"} /\ pc # "idle"
  BY DEF Unentered
<1> QED
  BY <1>8, <1>9, WritesHolds

LEMMA PruneNextHolds == IInv /\ PruneNext => IInv'
<1> SUFFICES ASSUME IInv, PruneNext PROVE IInv'
  OBVIOUS
<1>1. /\ pc = "prune" /\ pc \in Unentered /\ pc # "idle" /\ Typed /\ InTurn /\ ~run.limit
      /\ UNCHANGED <<env, claims, token, oversized, loop>>
  BY DEF PruneNext, IInv, InTurn, RunAt, LatchedAt, Unentered
<1>2. run \in Runs /\ Sincere(run)
  BY <1>1, Taken
<1>3. CASE cancelled /\ Pruned(run, "cancelled") /\ NoRow
  BY <1>1, <1>2, <1>3, PassEnds DEF Fixed, NoRow, rows, Typed, Words, Honest
<1>4. CASE Pruned(run, PassOutcome(run)) /\ NoRow
  <2>1. PassOutcome(run) \in Words /\ Honest(PassOutcome(run), cancelled, expired)
    BY DEF PassOutcome, Words, Honest
  <2> QED
    BY <1>1, <1>2, <1>4, <2>1, PassEnds DEF Fixed, NoRow, rows, Typed
<1>5. CASE Pruned(Refused(run), "limit") /\ NoRow
  <2>1. Refused(run) \in Runs /\ Sincere(Refused(run)) /\ Refused(run).steps = run.steps
    BY <1>2, Refusals DEF Sincere
  <2>2. "limit" \in Words /\ Honest("limit", cancelled, expired)
    BY DEF Words, Honest
  <2> QED
    BY <1>1, <1>5, <2>1, <2>2, PassEnds DEF Fixed, NoRow, rows, Typed
<1>6. CASE /\ Durable /\ L!Row(log).orphans < MaxOrphans
           /\ \E c \in oversized : Commit(L!AfterPrune(log, c, FALSE))
           /\ Goto("rewrite", run)
  <2>1. PICK c \in oversized : Commit(L!AfterPrune(log, c, FALSE))
    BY <1>6
  <2>2. c \in Calls /\ c \in log.results /\ log \in DriverLogs /\ Marked(log)
    BY <1>1 DEF Typed, DriverLogs
  <2>3. PICK m \in DriverLogs : m = L!AfterPrune(log, c, FALSE)
    BY <1>6, <2>2, PruneRow
  <2>4. /\ m.marker = c /\ Marked(m) /\ m.results = log.results /\ SamePlace(m, log)
        /\ SameSlot(m, log) /\ SameCalls(m, log) /\ SameRetries(m, log) /\ SameBracket(m, log)
    BY <1>6, <2>2, <2>3, PruneRow
  <2>5. log' = m /\ pc' = "rewrite" /\ run' = run
    BY <1>6, <2>1, <2>3 DEF Commit, Goto
  <2>6. claims' = ClaimsAt(pc')
    BY <1>1, <2>5 DEF InTurn, ClaimsAt, Unentered, Bracket, Stepping, Asking, Attempting, Rounds
  <2>7. Writes
    BY <1>1, <2>1, <2>4, <2>5, <2>6 DEF Writes, Commit, Typed, InTurn, Points, Unentered
  <2> QED
    BY <1>1, <1>2, <1>6, <2>2, <2>4, <2>5, <2>7, QuietRows DEF LatchedAt, Unentered
<1> QED
  BY <1>3, <1>4, <1>5, <1>6 DEF PruneNext

LEMMA PruneRewriteHolds == IInv /\ PruneRewrite => IInv'
<1> SUFFICES ASSUME IInv, PruneRewrite PROVE IInv'
  OBVIOUS
<1>1. /\ pc = "rewrite" /\ pc \in Unentered /\ pc # "idle" /\ Typed /\ InTurn /\ ~run.limit
      /\ UNCHANGED <<env, claims, token, loop>>
  BY DEF PruneRewrite, IInv, InTurn, RunAt, LatchedAt, Unentered
<1>2. run \in Runs /\ Sincere(run)
  BY <1>1, Taken
<1>3. CASE /\ Commit(L!AfterRewrite(log)) /\ oversized' = oversized \ {log.marker}
           /\ Goto("pruneBarrier", [run EXCEPT !.fresh = FALSE, !.outcome = "progress"])
  <2>1. PICK u \in Runs : u = [run EXCEPT !.fresh = FALSE, !.outcome = "progress"]
    BY <1>2 DEF Runs, Words
  <2>2. /\ u.steps = run.steps /\ u.limit = run.limit /\ u.lost = run.lost
        /\ u.outcome = "progress" /\ u.stop = run.stop /\ u.reason = run.reason
    BY <1>2, <2>1 DEF Runs
  <2>3. PICK m \in DriverLogs : m = L!AfterRewrite(log)
    BY <1>1, RewriteRow DEF Typed, Written
  <2>4. Written(m) /\ SameLog(m, log)
    BY <1>1, <2>3, RewriteRow DEF Typed, SameLog
  <2>5. log' = m /\ pc' = "pruneBarrier" /\ run' = u
    BY <1>3, <2>1, <2>3 DEF Commit, Goto
  <2>6. claims' = ClaimsAt(pc')
    BY <1>1, <2>5 DEF InTurn, ClaimsAt, Unentered, Bracket, Stepping, Asking, Attempting, Rounds
  <2>7. Writes
    BY <1>1, <1>3, <2>4, <2>5, <2>6
    DEF Writes, Commit, Typed, InTurn, Points, Unentered, Written, Marked, SameLog
  <2>8. Sincere(u) /\ ~u.limit
    BY <1>1, <1>2, <2>2 DEF Sincere, Honest
  <2>9. LogAt(pc', log', u, token')
    <3>1. LogAt(pc, log, run, token)
      BY <1>1 DEF InTurn
    <3> QED
      BY <1>1, <2>2, <2>4, <2>5, <3>1
      DEF LogAt, PlaceAt, SlotAt, RetriesAt, EarlierRetries, CallsAt, BracketAt, SameLog,
          SamePlace, SameSlot, SameCalls, SameRetries, SameBracket,
          Unentered, Bracket, Stepping, Asking, Attempting, Rounds
  <2> QED
    BY <1>1, <2>5, <2>7, <2>8, <2>9, WritesHolds DEF LatchedAt
<1>4. CASE \E outcome \in {"limit", "noProgress"} :
             /\ Goto("pruneBarrier", [run EXCEPT !.outcome = outcome])
             /\ NoRow /\ UNCHANGED oversized
  <2>1. PICK w \in {"limit", "noProgress"} :
          /\ Goto("pruneBarrier", [run EXCEPT !.outcome = w])
          /\ NoRow /\ UNCHANGED oversized
    BY <1>4
  <2>2. w \in Words /\ Honest(w, cancelled, expired)
    BY DEF Words, Honest
  <2>3. PICK u \in Runs : u = [run EXCEPT !.outcome = w]
    BY <1>2, <2>2, Outcomes
  <2>4. u.outcome = w /\ LikeButOutcome(u, run)
    BY <1>2, <2>2, <2>3, Outcomes
  <2>5. Sincere(u) /\ ~u.limit /\ u.steps = run.steps
    BY <1>1, <1>2, <2>2, <2>4 DEF Sincere, LikeButOutcome
  <2> QED
    BY <1>1, <2>1, <2>3, <2>5, Staying DEF Fixed, NoRow, rows, Typed, LatchedAt, Unentered
<1> QED
  BY <1>3, <1>4 DEF PruneRewrite

-----------------------------------------------------------------------------
(* The bracket of a summary.                                               *)

LEMMA BracketRows ==
  ASSUME IInv, Writes, pc \in Bracket, pc' \in Bracket \cup (Unentered \ {"rewrite"}),
         token' = token, SamePlace(log', log), SameSlot(log', log), SameCalls(log', log),
         SameRetries(log', log), BracketAt(pc', log'), run'.steps = run.steps,
         LatchedAt(pc', run'), Sincere(run'),
         pc' \in {"bracketStart", "bracketBarrier"} => run'.attempts < MaxAttempts
  PROVE  IInv'
<1>1. LogAt(pc, log, run, token)
  BY DEF IInv, InTurn, Bracket
<1>2. PlaceAt(pc', log', run')
  BY <1>1 DEF LogAt, PlaceAt, SamePlace, Unentered, Bracket, Stepping, Asking, Attempting, Rounds
<1>3. SlotAt(pc', log', token')
  BY <1>1 DEF LogAt, SlotAt, SameSlot, Unentered, Bracket, Asking
<1>4. RetriesAt(pc', log', run')
  BY <1>1 DEF LogAt, RetriesAt, EarlierRetries, SamePlace, SameRetries, Unentered, Bracket, Asking
<1>5. CallsAt(pc', log', run')
  BY <1>1 DEF LogAt, CallsAt, SameCalls, Unentered, Bracket, Rounds
<1>6. LogAt(pc', log', run', token')
  BY <1>2, <1>3, <1>4, <1>5 DEF LogAt
<1>7. pc' # "retryBarrier" /\ pc # "idle"
  BY DEF Unentered, Bracket
<1> QED
  BY <1>6, <1>7, WritesHolds

\* The claims of a bracket that goes on, and of one that has ended.
LEMMA BracketClaims ==
  ASSUME NEW p \in Bracket
  PROVE  /\ \A q \in Bracket : ClaimsAt(q) = ClaimsAt(p)
         /\ \A q \in Unentered : ClaimsAt(q) = ClaimsAt(p) \ {"bracketEnd"}
BY DEF ClaimsAt, Unentered, Bracket, Stepping, Asking, Attempting, Rounds

\* A bracket whose summary fails is closed.
LEMMA BracketCloses ==
  ASSUME IInv, Fixed,
         pc \in {"bracketBarrier", "summarizing", "summaryReady", "summaryLogged"},
         NEW r \in Runs, NEW w \in Words, CloseBracket(r, w), claims' = claims,
         r.steps = run.steps, Sincere(r), Honest(w, cancelled, expired),
         r.limit => w \in {"limit", "observer"}
  PROVE  IInv'
<1>1. /\ pc' = "closeBracket" /\ run' \in Runs /\ run'.outcome = w /\ LikeButOutcome(run', r)
  BY BracketsDone
<1>2. Typed /\ InTurn /\ claims = ClaimsAt(pc) /\ pc \in Bracket /\ pc' \in Bracket
  BY <1>1 DEF IInv, InTurn, Bracket
<1>3. claims' = ClaimsAt(pc')
  BY <1>2, BracketClaims
<1>4. RunAt(pc', run', cancelled, expired, observer)
  BY <1>1 DEF RunAt, LatchedAt, Sincere, LikeButOutcome
<1>5. Keeps
  BY <1>1, <1>2, <1>3, <1>4 DEF Keeps, Fixed, Typed, InTurn, Points, Bracket, LikeButOutcome
<1> QED
  BY <1>1, <1>5, BracketMoves DEF Fixed

\* What every case of a bracket starts from.
LEMMA InBracket ==
  ASSUME IInv, pc \in Bracket
  PROVE  /\ Typed /\ InTurn /\ pc # "idle" /\ run \in Runs /\ Sincere(run)
         /\ log \in DriverLogs /\ Marked(log) /\ LogAt(pc, log, run, token)
         /\ pc # "closeBracket" => ~run.limit
         /\ Refused(run) \in Runs /\ Refused(run).steps = run.steps
         /\ Sincere(Refused(run)) /\ (Refused(run).limit => pc = "closeBracket" \/ Durable)
         /\ Refusal \in Words /\ Honest(Refusal, cancelled, expired)
         /\ Durable => Refusal = "limit"
         /\ Interrupt \in Words /\ Honest(Interrupt, cancelled, expired)
         /\ {"noProgress", "error", "progress", "observer"} \subseteq Words
         /\ Honest("noProgress", cancelled, expired) /\ Honest("error", cancelled, expired)
         /\ Honest("progress", cancelled, expired) /\ Honest("observer", cancelled, expired)
<1>1. pc # "idle" /\ Typed /\ InTurn
  BY DEF IInv, Bracket
<1>2. run \in Runs /\ Sincere(run)
  BY <1>1, Taken
<1>3. pc # "closeBracket" => ~run.limit
  BY <1>1 DEF InTurn, RunAt, LatchedAt, Bracket
<1>4. /\ Refused(run) \in Runs /\ Refused(run).steps = run.steps /\ Sincere(Refused(run))
      /\ Refused(run).limit => run.limit \/ Durable
      /\ Refusal \in {"limit", "budget"} /\ Refusal \in Words /\ (Durable => Refusal = "limit")
  BY <1>2, Refusals DEF Sincere
<1>5. Interrupt \in Words /\ {"noProgress", "error", "progress", "observer"} \subseteq Words
  BY StopWords DEF Words
<1>6. \A w \in {"limit", "budget", "noProgress", "error", "progress", "observer"} :
        Honest(w, cancelled, expired)
  BY DEF Honest
<1> QED
  BY <1>1, <1>2, <1>3, <1>4, <1>5, <1>6, StopWords DEF Typed, InTurn

LEMMA BracketStartHolds == IInv /\ BracketStart => IInv'
<1> SUFFICES ASSUME IInv, BracketStart PROVE IInv'
  OBVIOUS
<1>1. /\ pc = "bracketStart" /\ pc \in Bracket /\ UNCHANGED <<env, token, oversized, loop>>
  BY DEF BracketStart, Bracket
<1>2. /\ Typed /\ InTurn /\ log.turn \in 0..MaxTurns /\ run.attempts < MaxAttempts
      /\ claims = ClaimsAt(pc) /\ ~run.limit /\ run.steps < MaxSteps
  BY <1>1, InBracket DEF Typed, InTurn, RunAt, DriverLogs, LogAt, PlaceAt
<1>3. CASE /\ Commit(L!AfterCompactionStart(log, log.turn, FALSE))
           /\ Goto("bracketBarrier", run) /\ UNCHANGED claims
  <2>1. PICK m \in DriverLogs : m = L!AfterCompactionStart(log, log.turn, FALSE)
    BY <1>1, <1>2, InBracket, BracketStartRow DEF Written
  <2>2. /\ Written(m) /\ SamePlace(m, log) /\ SameSlot(m, log) /\ SameCalls(m, log)
        /\ SameRetries(m, log) /\ m.compaction = "started" /\ m.owner = log.turn
        /\ m.results = log.results
    BY <1>1, <1>2, <2>1, InBracket, BracketStartRow
  <2>3. log' = m /\ pc' = "bracketBarrier" /\ run' = run /\ pc' \in Bracket
    BY <1>3, <2>1 DEF Commit, Goto, Bracket
  <2>4. claims' = ClaimsAt(pc')
    BY <1>1, <1>2, <1>3, <2>3, BracketClaims
  <2>5. Writes
    BY <1>1, <1>2, <1>3, <2>2, <2>3, <2>4
    DEF Writes, Commit, Typed, InTurn, Points, Written, Marked
  <2>6. BracketAt(pc', log')
    BY <2>2, <2>3 DEF BracketAt, SamePlace, Written, Bracket
  <2> QED
    BY <1>1, <1>2, <2>2, <2>3, <2>5, <2>6, InBracket, BracketRows DEF LatchedAt
<1>4. CASE /\ claims' = claims \ {"bracketEnd"} /\ NoRow
           /\ Compacted(Refused(run), Refusal) \/ Compacted(run, "noProgress")
  <2>1. PICK r \in Runs, w \in Words :
          /\ Compacted(r, w) /\ r.steps = run.steps /\ Sincere(r)
          /\ Honest(w, cancelled, expired) /\ (r.limit => w = "limit")
    BY <1>1, <1>2, <1>4, InBracket
  <2>2. /\ pc' = "compacted" /\ run' \in Runs /\ run'.outcome = w /\ LikeButOutcome(run', r)
        /\ pc' \in Unentered
    BY <2>1, BracketsDone DEF Unentered
  <2>3. claims' = ClaimsAt(pc')
    BY <1>1, <1>2, <1>4, <2>2, BracketClaims
  <2>4. RunAt(pc', run', cancelled, expired, observer)
    BY <2>1, <2>2 DEF RunAt, LatchedAt, Sincere, LikeButOutcome
  <2>5. Keeps
    BY <1>1, <1>2, <1>4, <2>1, <2>2, <2>3, <2>4
    DEF Keeps, NoRow, rows, Typed, InTurn, Points, LikeButOutcome
  <2>6. run'.steps < MaxSteps
    BY <1>2, <2>1, <2>2 DEF LikeButOutcome
  <2> QED
    BY <1>1, <2>2, <2>5, <2>6, QuietMoves DEF Quiet
<1> QED
  BY <1>3, <1>4 DEF BracketStart

LEMMA BracketBarrierHolds == IInv /\ BracketBarrier => IInv'
<1> SUFFICES ASSUME IInv, BracketBarrier PROVE IInv'
  OBVIOUS
<1> DEFINE d == [run EXCEPT !.lost = TRUE]
<1>1. /\ pc = "bracketBarrier" /\ pc \in Bracket /\ Fixed /\ claims' = claims
  BY DEF BracketBarrier, Bracket, Fixed, Flush
<1>2. Typed /\ InTurn /\ claims = ClaimsAt(pc) /\ ~run.limit /\ run \in Runs /\ Sincere(run)
  BY <1>1, InBracket DEF InTurn
<1>3. \/ observer = "down" /\ CloseBracket(d, "observer")
      \/ CloseBracket(run, Interrupt)
      \/ CloseBracket(run, "noProgress")
      \/ Goto("summarizing", run)
  BY DEF BracketBarrier
<1>4. PICK x \in Runs : x = d
  BY <1>2 DEF Runs
<1>5. LikeButOutcome([x EXCEPT !.lost = run.lost], run) /\ x.limit = run.limit
      /\ x.steps = run.steps /\ x.outcome = run.outcome /\ x.stop = run.stop
      /\ x.reason = run.reason
  BY <1>2, <1>4 DEF Runs, LikeButOutcome
<1> HIDE DEF d
<1>6. CASE observer = "down" /\ CloseBracket(d, "observer")
  <2>1. Sincere(x)
    BY <1>2, <1>5, <1>6 DEF Sincere
  <2> QED
    BY <1>1, <1>4, <1>5, <1>6, <2>1, InBracket, BracketCloses
<1>7. CASE CloseBracket(run, Interrupt)
  BY <1>1, <1>2, <1>7, InBracket, BracketCloses
<1>8. CASE CloseBracket(run, "noProgress")
  BY <1>1, <1>2, <1>8, InBracket, BracketCloses
<1>9. CASE Goto("summarizing", run)
  <2>1. pc' = "summarizing" /\ run' = run /\ pc' \in Bracket
    BY <1>9 DEF Goto, Bracket
  <2>2. claims' = ClaimsAt(pc')
    BY <1>1, <1>2, <2>1, BracketClaims
  <2>3. RunAt(pc', run', cancelled, expired, observer)
    BY <1>2, <2>1 DEF RunAt, LatchedAt, Sincere
  <2>4. Keeps
    BY <1>1, <1>2, <2>1, <2>2, <2>3 DEF Keeps, Fixed, Typed, InTurn, Points
  <2> QED
    BY <1>1, <2>1, <2>4, BracketMoves DEF Fixed
<1> QED
  BY <1>3, <1>6, <1>7, <1>8, <1>9

LEMMA SummaryStoppedHolds == IInv /\ SummaryStopped => IInv'
<1> SUFFICES ASSUME IInv, SummaryStopped PROVE IInv'
  OBVIOUS
<1>1. /\ pc = "summarizing" /\ pc \in Bracket /\ Fixed /\ claims' = claims
      /\ CloseBracket(run, Interrupt) \/ CloseBracket(run, "error")
  BY DEF SummaryStopped, Bracket, Fixed, NoRow, rows, IInv, Typed
<1> QED
  BY <1>1, InBracket, BracketCloses

LEMMA SummaryItemHolds == IInv /\ SummaryItem => IInv'
<1> SUFFICES ASSUME IInv, SummaryItem PROVE IInv'
  OBVIOUS
<1>1. /\ pc = "summarizing" /\ pc \in Bracket /\ Fixed /\ claims' = claims
      /\ \/ Goto("summaryReady", run)
         \/ CloseBracket(run, "noProgress")
         \/ CloseBracket(run, "error")
  BY DEF SummaryItem, Bracket, Fixed, NoRow, rows, IInv, Typed
<1>2. Typed /\ InTurn /\ claims = ClaimsAt(pc) /\ ~run.limit /\ run \in Runs /\ Sincere(run)
  BY <1>1, InBracket DEF InTurn
<1>3. CASE Goto("summaryReady", run)
  <2>1. pc' = "summaryReady" /\ run' = run /\ pc' \in Bracket
    BY <1>3 DEF Goto, Bracket
  <2>2. claims' = ClaimsAt(pc')
    BY <1>1, <1>2, <2>1, BracketClaims
  <2>3. RunAt(pc', run', cancelled, expired, observer)
    BY <1>2, <2>1 DEF RunAt, LatchedAt, Sincere
  <2>4. Keeps
    BY <1>1, <1>2, <2>1, <2>2, <2>3 DEF Keeps, Fixed, Typed, InTurn, Points
  <2> QED
    BY <1>1, <2>1, <2>4, BracketMoves DEF Fixed
<1> QED
  BY <1>1, <1>3, InBracket, BracketCloses

LEMMA SummaryReadyHolds == IInv /\ SummaryReady => IInv'
<1> SUFFICES ASSUME IInv, SummaryReady PROVE IInv'
  OBVIOUS
<1>1. /\ pc = "summaryReady" /\ pc \in Bracket
      /\ UNCHANGED <<env, claims, token, oversized, loop>>
  BY DEF SummaryReady, Bracket
<1>2. Typed /\ InTurn /\ claims = ClaimsAt(pc) /\ ~run.limit /\ run \in Runs /\ Sincere(run)
  BY <1>1, InBracket DEF InTurn
<1>3. \/ Commit(L!AfterSummary(log)) /\ Goto("summaryLogged", run)
      \/ /\ NoRow
         /\ \/ CloseBracket(run, Interrupt) \/ CloseBracket(Refused(run), Refusal)
            \/ CloseBracket(run, "noProgress")
  BY DEF SummaryReady
<1>4. CASE Commit(L!AfterSummary(log)) /\ Goto("summaryLogged", run)
  <2>1. PICK m \in DriverLogs : m = L!AfterSummary(log)
    BY <1>1, InBracket, SummaryRow DEF Written
  <2>2. /\ Written(m) /\ SamePlace(m, log) /\ SameSlot(m, log) /\ SameCalls(m, log)
        /\ SameRetries(m, log) /\ m.compaction = "summarized" /\ m.owner = log.owner
        /\ m.results = log.results
    BY <1>1, <2>1, InBracket, SummaryRow
  <2>3. log' = m /\ pc' = "summaryLogged" /\ run' = run /\ pc' \in Bracket
    BY <1>4, <2>1 DEF Commit, Goto, Bracket
  <2>4. claims' = ClaimsAt(pc')
    BY <1>1, <1>2, <2>3, BracketClaims
  <2>5. Writes
    BY <1>1, <1>2, <1>4, <2>2, <2>3, <2>4
    DEF Writes, Commit, Typed, InTurn, Points, Written, Marked
  <2>6. BracketAt(pc', log')
    BY <1>1, <1>2, <2>2, <2>3
    DEF InTurn, LogAt, BracketAt, SamePlace, Written, Bracket
  <2> QED
    BY <1>1, <1>2, <2>2, <2>3, <2>5, <2>6, BracketRows DEF LatchedAt
<1>5. CASE /\ NoRow
           /\ \/ CloseBracket(run, Interrupt) \/ CloseBracket(Refused(run), Refusal)
              \/ CloseBracket(run, "noProgress")
  <2>1. Fixed /\ claims' = claims
    BY <1>1, <1>2, <1>5 DEF Fixed, NoRow, rows, Typed
  <2>2. PICK r \in Runs, w \in Words :
          /\ CloseBracket(r, w) /\ r.steps = run.steps /\ Sincere(r)
          /\ Honest(w, cancelled, expired) /\ (r.limit => w = "limit")
    BY <1>1, <1>2, <1>5, InBracket
  <2> QED
    BY <1>1, <2>1, <2>2, BracketCloses
<1> QED
  BY <1>3, <1>4, <1>5

LEMMA SummaryLoggedHolds == IInv /\ SummaryLogged => IInv'
<1> SUFFICES ASSUME IInv, SummaryLogged PROVE IInv'
  OBVIOUS
<1> DEFINE i == [run EXCEPT !.fresh = FALSE, !.outcome = "progress"]
<1>1. /\ pc = "summaryLogged" /\ pc \in Bracket /\ UNCHANGED <<env, claims, token, loop>>
  BY DEF SummaryLogged, Bracket
<1>2. Typed /\ InTurn /\ claims = ClaimsAt(pc) /\ ~run.limit /\ run \in Runs /\ Sincere(run)
  BY <1>1, InBracket DEF InTurn
<1>3. \/ /\ \E shadowed \in SUBSET log.results :
               /\ Commit(L!AfterCheckpoint(log, shadowed))
               /\ oversized' = oversized \ shadowed
         /\ Goto("closeBracket", i)
      \/ /\ NoRow /\ UNCHANGED oversized
         /\ \/ CloseBracket(run, "error") \/ CloseBracket(run, Interrupt)
            \/ CloseBracket(run, "noProgress") \/ CloseBracket(Refused(run), Refusal)
  BY DEF SummaryLogged
<1>4. CASE /\ \E shadowed \in SUBSET log.results :
                /\ Commit(L!AfterCheckpoint(log, shadowed))
                /\ oversized' = oversized \ shadowed
           /\ Goto("closeBracket", i)
  <2>1. PICK x \in SUBSET log.results :
          Commit(L!AfterCheckpoint(log, x)) /\ oversized' = oversized \ x
    BY <1>4
  <2>2. PICK m \in DriverLogs : m = L!AfterCheckpoint(log, x)
    BY <1>1, InBracket, CheckpointRow DEF Written
  <2>3. /\ Written(m) /\ SamePlace(m, log) /\ SameSlot(m, log) /\ SameCalls(m, log)
        /\ SameRetries(m, log) /\ m.compaction = "replaced" /\ m.owner = log.owner
        /\ m.results = log.results \ x
    BY <1>1, <2>2, InBracket, CheckpointRow
  <2>4. PICK u \in Runs : u = i
    BY <1>2 DEF Runs, Words
  <2>5. u.outcome = "progress" /\ LikeButOutcome(u, run)
    BY <1>2, <2>4 DEF Runs, LikeButOutcome
  <2>6. log' = m /\ pc' = "closeBracket" /\ run' = u /\ pc' \in Bracket
    BY <1>4, <2>1, <2>2, <2>4 DEF Commit, Goto, Bracket
  <2>7. claims' = ClaimsAt(pc')
    BY <1>1, <1>2, <2>6, BracketClaims
  <2>8. Sincere(u) /\ ~u.limit /\ u.steps = run.steps
    BY <1>1, <1>2, <2>5 DEF Sincere, LikeButOutcome, Honest
  <2>9. Writes
    BY <1>1, <1>2, <2>1, <2>3, <2>6, <2>7
    DEF Writes, Commit, Typed, InTurn, Points, Written, Marked
  <2>10. BracketAt(pc', log')
    BY <1>1, <1>2, <2>3, <2>6
    DEF InTurn, LogAt, BracketAt, SamePlace, Written, Bracket
  <2> QED
    BY <1>1, <2>3, <2>6, <2>8, <2>9, <2>10, BracketRows DEF LatchedAt
<1>5. CASE /\ NoRow /\ UNCHANGED oversized
           /\ \/ CloseBracket(run, "error") \/ CloseBracket(run, Interrupt)
              \/ CloseBracket(run, "noProgress") \/ CloseBracket(Refused(run), Refusal)
  <2>1. Fixed /\ claims' = claims
    BY <1>1, <1>2, <1>5 DEF Fixed, NoRow, rows, Typed
  <2>2. PICK r \in Runs, w \in Words :
          /\ CloseBracket(r, w) /\ r.steps = run.steps /\ Sincere(r)
          /\ Honest(w, cancelled, expired) /\ (r.limit => w = "limit")
    BY <1>1, <1>2, <1>5, InBracket
  <2> QED
    BY <1>1, <2>1, <2>2, BracketCloses
<1> QED
  BY <1>3, <1>4, <1>5

LEMMA EndBracketHolds == IInv /\ EndBracket => IInv'
<1> SUFFICES ASSUME IInv, EndBracket PROVE IInv'
  OBVIOUS
<1>1. /\ pc = "closeBracket" /\ pc \in Bracket /\ UNCHANGED <<env, token, oversized, loop>>
      /\ claims' = claims \ {"bracketEnd"} /\ Commit(L!AfterCompactionEnd(log))
      /\ Goto("endBracketBarrier", run)
  BY DEF EndBracket, Bracket
<1>2. Typed /\ InTurn /\ claims = ClaimsAt(pc) /\ run \in Runs /\ Sincere(run)
  BY <1>1, InBracket DEF InTurn
<1>3. PICK m \in DriverLogs : m = L!AfterCompactionEnd(log)
  BY <1>1, InBracket, BracketEndRow DEF Written
<1>4. /\ Written(m) /\ SamePlace(m, log) /\ SameSlot(m, log) /\ SameCalls(m, log)
      /\ SameRetries(m, log) /\ m.compaction = "none" /\ m.results = log.results
  BY <1>1, <1>3, InBracket, BracketEndRow
<1>5. log' = m /\ pc' = "endBracketBarrier" /\ run' = run /\ pc' \in Unentered
  BY <1>1, <1>3 DEF Commit, Goto, Unentered
<1>6. claims' = ClaimsAt(pc')
  BY <1>1, <1>2, <1>5, BracketClaims
<1>7. Writes
  BY <1>1, <1>2, <1>4, <1>5, <1>6 DEF Writes, Commit, Typed, InTurn, Points, Written, Marked
<1>8. BracketAt(pc', log')
  BY <1>4, <1>5 DEF BracketAt, Bracket
<1>9. LatchedAt(pc', run')
  BY <1>1, <1>2, <1>5 DEF InTurn, RunAt, LatchedAt
<1> QED
  BY <1>1, <1>2, <1>4, <1>5, <1>7, <1>8, <1>9, BracketRows

-----------------------------------------------------------------------------
(* A step, up to its request.                                              *)

\* The claims of an open step.
LEMMA StepClaims ==
  /\ \A p, q \in Stepping : ClaimsAt(p) = ClaimsAt(q)
  /\ \A p \in Unentered, q \in Stepping : ClaimsAt(q) = ClaimsAt(p) \ {"stepStart"}
BY DEF ClaimsAt, Unentered, Bracket, Stepping, Asking, Attempting, Rounds

\* What every case of a step starts from.
LEMMA InStep ==
  ASSUME IInv, pc \in Stepping
  PROVE  /\ Typed /\ InTurn /\ pc # "idle" /\ run \in Runs /\ Sincere(run)
         /\ log \in DriverLogs /\ Marked(log) /\ LogAt(pc, log, run, token)
         /\ claims = ClaimsAt(pc)
         /\ log.turn \in 1..MaxTurns /\ log.step \in 1..MaxSteps
         /\ Refused(run) \in Runs /\ Refused(run).steps = run.steps
         /\ Sincere(Refused(run))
         /\ Refusal \in Words /\ Honest(Refusal, cancelled, expired)
         /\ Interrupt \in Words /\ Honest(Interrupt, cancelled, expired)
         /\ Words \ {"cancelled", "aborted", "timeout"} \subseteq
              {w \in Words : Honest(w, cancelled, expired)}
<1>1. pc # "idle" /\ Typed /\ InTurn
  BY DEF IInv, Stepping, Asking, Attempting, Rounds
<1>2. run \in Runs /\ Sincere(run)
  BY <1>1, Taken
<1>3. /\ Refused(run) \in Runs /\ Refused(run).steps = run.steps /\ Sincere(Refused(run))
      /\ Refusal \in {"limit", "budget"} /\ Refusal \in Words
  BY <1>2, Refusals DEF Sincere
<1>4. Interrupt \in Words
  BY StopWords DEF Words
<1>5. log.turn \in 1..MaxTurns /\ log.step \in 1..MaxSteps
  <2>1. log.turn # 0 /\ log.step # 0
    BY <1>1 DEF InTurn, LogAt, PlaceAt, Stepping, Asking, Attempting, Rounds
  <2>2. log.turn \in 0..MaxTurns /\ log.step \in 0..MaxSteps
    BY <1>1 DEF Typed, DriverLogs
  <2> QED
    BY <2>1, <2>2, Bounds
<1> QED
  BY <1>1, <1>2, <1>3, <1>4, <1>5, StopWords DEF Typed, InTurn, Honest

\* A step that gives up, or is done, goes to its end.
LEMMA StepCloses ==
  ASSUME IInv, pc \in Stepping, NEW r \in Runs, NEW w \in Words, StepDone(r, w),
         claims' = claims, r.steps = run.steps, Sincere(r), Honest(w, cancelled, expired),
         UNCHANGED <<env, oversized>>, log' = log, observer' = observer, dirty' \in BOOLEAN,
         loop' = loop \/ (loop' \in Loops /\ loop'.poisoned = loop.poisoned),
         token' = IF token = "closed" THEN "none" ELSE token
  PROVE  IInv'
<1>1. /\ pc' = "stepEnd" /\ pc' \in Stepping /\ run' \in Runs /\ run'.outcome = w
      /\ LikeButOutcome(run', r)
  BY StepsDone DEF Stepping
<1>2. Typed /\ InTurn /\ claims' = ClaimsAt(pc')
  BY <1>1, InStep, StepClaims
<1>3. RunAt(pc', run', cancelled, expired, observer)
  BY <1>1 DEF RunAt, LatchedAt, Sincere, LikeButOutcome
<1>4. Keeps
  BY <1>1, <1>2, <1>3 DEF Keeps, Typed, InTurn, Points, LikeButOutcome
<1> QED
  BY <1>1, <1>4, StepEnds

LEMMA EnterStepHolds == IInv /\ EnterStep => IInv'
<1> SUFFICES ASSUME IInv, EnterStep PROVE IInv'
  OBVIOUS
<1> DEFINE i == [run EXCEPT !.steps = @ + 1, !.retries = 0]
<1>1. /\ pc = "enter" /\ pc \in Unentered /\ pc # "idle"
      /\ UNCHANGED <<env, token, oversized, loop>>
      /\ Typed /\ InTurn /\ LogAt(pc, log, run, token) /\ claims = ClaimsAt(pc)
      /\ run.steps < MaxSteps /\ ~run.limit /\ token = "none" /\ log.attempt = "outside"
  BY DEF EnterStep, IInv, InTurn, LogAt, PlaceAt, SlotAt, RunAt, LatchedAt, Unentered, Asking
<1>2. run \in Runs /\ Sincere(run) /\ log \in DriverLogs /\ Marked(log)
  BY <1>1, Taken DEF Typed
<1>3. CASE CloseUnstarted(run, "error") /\ NoRow
  BY <1>1, <1>2, <1>3, Unentering DEF Fixed, NoRow, rows, Typed, Words, Honest
<1>4. CASE /\ Commit(L!AfterStepStart(log, run.steps + 1))
           /\ claims' = claims \ {"stepStart"}
           /\ Goto(IF run.inputs THEN "inputs" ELSE "attempt", i)
  <2>1. PICK s \in 1..MaxSteps : s = run.steps + 1
    BY <1>1, <1>2, Bounds DEF Runs
  <2> s \in 0..MaxSteps /\ 0 \in 0..MaxRetries
    BY Bounds
  <2>2. PICK u \in Runs : u = [run EXCEPT !.steps = s, !.retries = 0]
    BY <1>2 DEF Runs
  <2>3. /\ u = i /\ u.steps = s /\ u.retries = 0 /\ u.limit = run.limit /\ u.lost = run.lost
        /\ u.outcome = run.outcome /\ u.stop = run.stop /\ u.reason = run.reason
    BY <1>2, <2>1, <2>2 DEF Runs
  <2>4. PICK m \in DriverLogs : m = L!AfterStepStart(log, s)
    BY <1>2, StepStartRow DEF Written
  <2>5. /\ Written(m) /\ m.turn = log.turn /\ m.nextTurn = log.nextTurn /\ m.step = s
        /\ m.attempt = (IF Durable THEN "ready" ELSE log.attempt)
        /\ m.order = <<>> /\ m.call = L!NoCalls
        /\ SameRetries(m, log) /\ SameBracket(m, log) /\ m.results = log.results
    BY <1>2, <2>4, StepStartRow
  <2>6. pc' \in {"inputs", "attempt"} /\ pc' \in Stepping /\ log' = m /\ run' = u
    BY <1>4, <2>1, <2>3, <2>4 DEF Commit, Goto, Stepping, Asking
  <2>7. claims' = ClaimsAt(pc')
    BY <1>1, <1>4, <2>6, StepClaims
  <2>8. Writes
    BY <1>1, <1>4, <2>5, <2>6, <2>7 DEF Writes, Commit, Typed, InTurn, Points, Written, Marked
  <2>9. PlaceAt(pc', m, u)
    BY <1>1, <2>1, <2>3, <2>5, <2>6
    DEF LogAt, PlaceAt, Unentered, Bracket, Stepping, Asking, Attempting, Rounds
  <2>10. SlotAt(pc', m, token')
    BY <1>1, <2>5, <2>6 DEF SlotAt, L!Compatible, Asking
  <2>11. RetriesAt(pc', m, u)
    <3>1. m.turn = m.nextTurn /\ EarlierRetries(pc, log, run) /\ log.started \subseteq log.scheduled
      BY <1>1, <2>5 DEF LogAt, PlaceAt, RetriesAt, Unentered
    <3>2. \A x \in m.scheduled : x[1] < m.nextTurn \/ (x[1] = m.nextTurn /\ x[2] <= run.steps)
      BY <2>5, <3>1 DEF EarlierRetries, SameRetries
    <3>3. \A x \in m.scheduled : x[1] \in Nat /\ x[2] \in Nat
      <4>1. m.scheduled \subseteq Retries
        BY DEF DriverLogs
      <4>2. \A x \in Retries : x[1] \in Nat /\ x[2] \in Nat
        BY Alphabets, Bounds DEF Retries
      <4> QED
        BY <4>1, <4>2
    <3>4. run.steps \in Nat /\ m.nextTurn \in Nat
      <4>1. run.steps \in 0..MaxSteps
        BY <1>2 DEF Runs
      <4>2. m.nextTurn \in 1..(MaxTurns + 1)
        BY DEF DriverLogs
      <4> QED
        BY <4>1, <4>2, Bounds
    <3>5. L!RetriesOf(m, m.turn, m.step) = {}
      BY <2>1, <2>5, <3>1, <3>2, <3>3, <3>4 DEF L!RetriesOf
    <3>6. OwnRetries(m, u.retries)
      BY <2>3, <3>5 DEF OwnRetries
    <3>7. EarlierRetries(pc', m, u)
      BY <2>1, <2>3, <2>6, <3>2, <3>3, <3>4 DEF EarlierRetries
    <3> QED
      BY <2>5, <2>6, <3>1, <3>6, <3>7 DEF RetriesAt, SameRetries
  <2>12. CallsAt(pc', m, u)
    BY <2>5, <2>6 DEF CallsAt, Rounds
  <2>13. BracketAt(pc', m)
    BY <1>1, <2>5, <2>6 DEF LogAt, BracketAt, SameBracket, Written, Bracket
  <2>14. Sincere(u) /\ ~u.limit
    BY <1>1, <1>2, <2>3 DEF Sincere
  <2> QED
    BY <1>1, <2>6, <2>8, <2>9, <2>10, <2>11, <2>12, <2>13, <2>14, WritesHolds DEF LogAt, LatchedAt
<1> QED
  BY <1>3, <1>4 DEF EnterStep

LEMMA AskingRows ==
  ASSUME IInv, Writes, pc \in Asking, pc' \in Asking, token' = token, Noted(log', log),
         run'.steps = run.steps, run'.retries = run.retries, ~run'.limit, Sincere(run')
  PROVE  IInv'
<1>1. LogAt(pc, log, run, token) /\ token = "none"
  BY DEF IInv, InTurn, LogAt, SlotAt, Asking
<1>2. LogAt(pc', log', run', token')
  BY <1>1, AskingHolds DEF Noted
<1>3. pc # "idle" /\ pc' # "retryBarrier" /\ pc' \notin {"bracketStart", "bracketBarrier"}
  BY DEF Asking
<1> QED
  BY <1>2, <1>3, WritesHolds DEF LatchedAt

\* What a step that is still asking starts from.
LEMMA InAsking ==
  ASSUME IInv, pc \in Asking
  PROVE  /\ pc \in Stepping /\ ~run.limit /\ token = "none"
         /\ \A q \in Asking : q \in Points /\ q # "finalBarrier" /\ ClaimsAt(q) = claims
         /\ Noted(log, log) /\ ~loop.poisoned /\ loop \in Loops
<1>1. pc \in Stepping
  BY DEF Stepping
<1>2. Typed /\ InTurn /\ claims = ClaimsAt(pc)
  BY <1>1, InStep
<1>3. ~run.limit /\ token = "none"
  BY <1>2 DEF InTurn, RunAt, LatchedAt, LogAt, SlotAt, Asking
<1>4. \A q \in Asking : q \in Points /\ q # "finalBarrier" /\ ClaimsAt(q) = claims
  BY <1>1, <1>2, StepClaims DEF Points, Stepping, Asking
<1> QED
  BY <1>1, <1>2, <1>3, <1>4
  DEF Noted, SameLog, SamePlace, SameSlot, SameCalls, SameRetries, SameBracket, Typed, InTurn

\* A move among the points before an attempt, with or without a note.
LEMMA AskingMoves ==
  ASSUME IInv, pc \in Asking, NEW q \in Asking, NEW r \in Runs, Goto(q, r), claims' = claims,
         UNCHANGED <<env, token, oversized>>, Commit(L!AfterNote(log)) \/ NoRow,
         loop' = loop \/ (loop' \in Loops /\ loop'.poisoned = loop.poisoned),
         r.steps = run.steps, r.retries = run.retries, ~r.limit, Sincere(r)
  PROVE  IInv'
<1>1. /\ pc \in Stepping /\ token = "none" /\ q \in Points \ {"finalBarrier"}
      /\ ClaimsAt(q) = claims /\ Noted(log, log) /\ ~loop.poisoned /\ loop \in Loops
  BY InAsking
<1>2. Typed /\ log \in DriverLogs /\ Marked(log)
  BY <1>1, InStep
<1>3. Noted(L!AfterNote(log), log)
  BY <1>2, NoteRow
<1>4. pc' = q /\ run' = r
  BY DEF Goto
<1>5. Noted(log', log) /\ dirty' \in BOOLEAN
      /\ observer' \in (IF observer = "up" THEN {"up", "down"} ELSE {"down"})
  BY <1>1, <1>2, <1>3 DEF Commit, NoRow, rows, Typed
<1>6. Marked(log') /\ log' \in DriverLogs /\ log'.results = log.results
  <2>1. CASE Commit(L!AfterNote(log))
    BY <1>2, <1>5, <2>1, AnyRow DEF Commit, L!AfterNote, Written, Marked, Noted, SameLog
  <2>2. CASE NoRow
    BY <1>2, <2>2 DEF NoRow, rows
  <2> QED
    BY <2>1, <2>2
<1>7. Writes
  BY <1>1, <1>2, <1>4, <1>5, <1>6 DEF Writes, Typed
<1> QED
  BY <1>1, <1>4, <1>5, <1>7, AskingRows

LEMMA LogInputsHolds == IInv /\ LogInputs => IInv'
<1> SUFFICES ASSUME IInv, LogInputs PROVE IInv'
  OBVIOUS
<1>1. pc = "inputs" /\ pc \in Asking /\ "attempt" \in Asking
  BY DEF LogInputs, Asking
<1>2. run \in Runs /\ Sincere(run) /\ ~run.limit
  BY <1>1, InAsking, InStep
<1>3. PICK u \in Runs : u = [run EXCEPT !.inputs = FALSE]
  BY <1>2 DEF Runs
<1>4. Like(u, run)
  BY <1>2, <1>3 DEF Runs, Like
<1>5. Sincere(u) /\ ~u.limit
  BY <1>2, <1>4 DEF Sincere, Like
<1> QED
  BY <1>1, <1>3, <1>4, <1>5, AskingMoves DEF LogInputs, Like

LEMMA NextAttemptHolds == IInv /\ NextAttempt => IInv'
<1> SUFFICES ASSUME IInv, NextAttempt PROVE IInv'
  OBVIOUS
<1> DEFINE i == [run EXCEPT !.attempts = @ + 1]
<1>1. /\ pc = "attempt" /\ pc \in Asking /\ "header" \in Asking
      /\ NoRow /\ UNCHANGED <<env, claims, token, oversized, loop>>
  BY DEF NextAttempt, Asking
<1>2. run \in Runs /\ Sincere(run) /\ ~run.limit /\ pc \in Stepping /\ token = "none" /\ Typed
  BY <1>1, InAsking, InStep
<1>3. \/ StepDone(run, Interrupt)
      \/ StepDone(run, "error")
      \/ /\ ~(run.attempts >= MaxAttempts)
         /\ \/ Goto("header", i)
            \/ \E prep \in Preps : Goto("header", Prepared(i, prep))
  BY DEF NextAttempt
<1>4. CASE StepDone(run, Interrupt) \/ StepDone(run, "error")
  <2>1. PICK w \in Words : StepDone(run, w) /\ Honest(w, cancelled, expired)
    BY <1>2, <1>4, InStep DEF Words
  <2> QED
    BY <1>1, <1>2, <2>1, StepCloses DEF NoRow, rows, Typed
<1>5. CASE /\ ~(run.attempts >= MaxAttempts)
           /\ \/ Goto("header", i)
              \/ \E prep \in Preps : Goto("header", Prepared(i, prep))
  <2>1. PICK n \in 0..MaxAttempts : n = run.attempts + 1
    BY <1>2, <1>5, Bounds DEF Runs
  <2>2. PICK u \in Runs : u = [run EXCEPT !.attempts = n]
    BY <1>2 DEF Runs
  <2>3. /\ u.steps = run.steps /\ u.retries = run.retries /\ u.limit = run.limit
        /\ u.lost = run.lost /\ u.outcome = run.outcome /\ u.stop = run.stop
        /\ u.reason = run.reason
    BY <1>2, <2>2 DEF Runs
  <2>4. u = i /\ Sincere(u)
    BY <1>2, <2>1, <2>2, <2>3 DEF Sincere
  <2> HIDE DEF i
  <2>5. PICK r \in Runs : Goto("header", r) /\ Like(r, u)
    BY <1>5, <2>4, Preparations DEF Like
  <2>6. Sincere(r)
    BY <2>4, <2>5 DEF Sincere, Like
  <2> QED
    BY <1>1, <1>2, <2>3, <2>5, <2>6, AskingMoves DEF Like
<1> QED
  BY <1>3, <1>4, <1>5

LEMMA LogHeaderHolds == IInv /\ LogHeader => IInv'
<1> SUFFICES ASSUME IInv, LogHeader PROVE IInv'
  OBVIOUS
<1>1. /\ pc = "header" /\ pc \in Asking /\ "context" \in Asking
      /\ UNCHANGED <<env, claims, token, oversized>>
  BY DEF LogHeader, Asking
<1>2. /\ run \in Runs /\ Sincere(run) /\ ~run.limit /\ pc \in Stepping /\ token = "none"
      /\ Typed /\ loop \in Loops
  BY <1>1, InAsking, InStep
<1>3. PICK x \in Loops : x = [loop EXCEPT !.headerLogged = TRUE]
  BY <1>2 DEF Loops
<1>4. x.poisoned = loop.poisoned
  BY <1>2, <1>3 DEF Loops
<1>5. \/ Goto("context", run) /\ Commit(L!AfterNote(log)) /\ loop' = x
      \/ Goto("context", run) /\ NoRow /\ loop' = loop
      \/ /\ NoRow /\ loop' = loop
         /\ StepDone(run, "error") \/ StepDone(Refused(run), Refusal)
  BY <1>3 DEF LogHeader
<1>6. CASE /\ NoRow /\ loop' = loop
           /\ StepDone(run, "error") \/ StepDone(Refused(run), Refusal)
  <2>1. PICK r \in Runs, w \in Words : /\ StepDone(r, w) /\ Honest(w, cancelled, expired)
                                       /\ r.steps = run.steps /\ Sincere(r)
    BY <1>2, <1>6, InStep DEF Words
  <2> QED
    BY <1>1, <1>2, <1>6, <2>1, StepCloses DEF NoRow, rows, Typed
<1> QED
  BY <1>1, <1>2, <1>3, <1>4, <1>5, <1>6, AskingMoves

LEMMA LogContextHolds == IInv /\ LogContext => IInv'
<1> SUFFICES ASSUME IInv, LogContext PROVE IInv'
  OBVIOUS
<1>1. /\ pc = "context" /\ pc \in Asking /\ "dispatch" \in Asking
      /\ UNCHANGED <<env, claims, token, oversized, loop>>
  BY DEF LogContext, Asking
<1>2. run \in Runs /\ Sincere(run) /\ ~run.limit /\ pc \in Stepping /\ token = "none" /\ Typed
  BY <1>1, InAsking, InStep
<1>3. CASE StepDone(Refused(run), Refusal) /\ NoRow
  BY <1>1, <1>2, <1>3, InStep, StepCloses DEF NoRow, rows, Typed
<1> QED
  BY <1>1, <1>2, <1>3, AskingMoves DEF LogContext

LEMMA UndispatchableHolds == IInv /\ Undispatchable => IInv'
<1> SUFFICES ASSUME IInv, Undispatchable PROVE IInv'
  OBVIOUS
<1>1. /\ pc \in Asking /\ NoRow /\ UNCHANGED <<env, claims, token, oversized, loop>>
      /\ StepDone(run, "error")
  BY DEF Undispatchable, Asking
<1>2. /\ run \in Runs /\ Sincere(run) /\ pc \in Stepping /\ token = "none" /\ Typed
      /\ "error" \in Words /\ Honest("error", cancelled, expired)
  BY <1>1, InAsking, InStep DEF Words, Honest
<1> QED
  BY <1>1, <1>2, StepCloses DEF NoRow, rows, Typed

-----------------------------------------------------------------------------
(* A provider attempt.                                                     *)

\* A step that goes on keeps its place; its slot, its retries and its calls
\* are shown for each row.
LEMMA StepRows ==
  ASSUME IInv, pc \in Stepping, pc' \in Stepping, claims' = claims, UNCHANGED <<env, loop>>,
         dirty' \in BOOLEAN, token' \in {"none", "open", "closed"},
         observer' \in (IF observer = "up" THEN {"up", "down"} ELSE {"down"}),
         run' \in Runs, run'.steps = run.steps, LatchedAt(pc', run'), Sincere(run'),
         log' \in DriverLogs, Marked(log'), oversized' \subseteq log'.results,
         SamePlace(log', log), SameBracket(log', log), log'.marker = log.marker \/ Written(log'),
         SlotAt(pc', log', token'), RetriesAt(pc', log', run'), CallsAt(pc', log', run'),
         pc' = "retryBarrier" => run'.retries < MaxRetries
  PROVE  IInv'
<1>1. LogAt(pc, log, run, token) /\ Typed /\ InTurn /\ pc # "idle"
  BY InStep
<1>2. claims' = ClaimsAt(pc') /\ pc' \in Points \ {"finalBarrier"}
  BY <1>1, StepClaims DEF InTurn, Points, Stepping, Asking, Attempting, Rounds
<1>3. Writes
  BY <1>1, <1>2 DEF Writes, Typed, InTurn
<1>4. PlaceAt(pc', log', run')
  BY <1>1 DEF LogAt, PlaceAt, SamePlace, Stepping, Asking, Attempting, Rounds, Unentered, Bracket
<1>5. BracketAt(pc', log')
  BY <1>1 DEF LogAt, BracketAt, SameBracket, SamePlace, Written, Stepping, Asking, Attempting,
     Rounds, Bracket
<1>6. LogAt(pc', log', run', token')
  BY <1>4, <1>5 DEF LogAt
<1>7. pc' \notin {"bracketStart", "bracketBarrier"}
  BY DEF Stepping, Asking, Attempting, Rounds
<1> QED
  BY <1>1, <1>3, <1>6, <1>7, WritesHolds

\* A row that schedules or starts no retry leaves those of the step as they are.
LEMMA RetriesStay ==
  ASSUME NEW p \in Stepping, NEW q \in Stepping, NEW l, NEW m, NEW r, NEW u,
         RetriesAt(p, l, r), SamePlace(m, l), SameRetries(m, l),
         u.steps = r.steps, u.retries = r.retries,
         q \in Asking \cup {"streaming", "sealed"} => p \in Asking \cup {"streaming", "sealed"},
         q \notin {"retryBarrier", "backoff"}
  PROVE  RetriesAt(q, m, u)
BY DEF RetriesAt, EarlierRetries, OwnRetries, L!RetriesOf, SamePlace, SameRetries, Stepping,
       Asking, Attempting, Rounds

\* Outside of a round a step has no calls.
LEMMA CallsStay ==
  ASSUME NEW p \in Stepping \ (Rounds \cup {"answered", "stepEnd"}), NEW q \in Stepping \ Rounds,
         NEW l, NEW m, NEW r, NEW u, CallsAt(p, l, r), SameCalls(m, l)
  PROVE  CallsAt(q, m, u)
BY DEF CallsAt, SameCalls, Rounds

LEMMA DispatchHolds == IInv /\ Dispatch => IInv'
<1> SUFFICES ASSUME IInv, Dispatch PROVE IInv'
  OBVIOUS
<1> DEFINE d == [run EXCEPT !.lost = TRUE]
           i == [run EXCEPT !.prep = "none", !.fresh = FALSE]
<1>1. /\ pc = "dispatch" /\ pc \in Asking /\ pc \in Stepping /\ dirty' = FALSE
      /\ UNCHANGED <<observer, env, claims, oversized, loop>>
  BY DEF Dispatch, Asking, Stepping
<1>2. /\ Typed /\ run \in Runs /\ Sincere(run) /\ ~run.limit /\ token = "none"
      /\ log \in DriverLogs /\ Marked(log) /\ LogAt(pc, log, run, token)
  BY <1>1, InStep, InAsking
<1>3. \/ observer = "down" /\ StepDone(d, "observer") /\ UNCHANGED <<log, token>>
      \/ StepDone(run, Interrupt) /\ UNCHANGED <<log, token>>
      \/ log' = L!AfterDispatch(log) /\ token' = "open" /\ Goto("streaming", i)
  BY DEF Dispatch
<1>4. PICK x \in Runs : x = d
  BY <1>2 DEF Runs
<1>5. /\ x.steps = run.steps /\ x.outcome = run.outcome /\ x.stop = run.stop
      /\ x.reason = run.reason
  BY <1>2, <1>4 DEF Runs
<1>6. PICK u \in Runs : u = i
  BY <1>2 DEF Runs
<1>7. Like(u, run)
  BY <1>2, <1>6 DEF Runs, Like
<1> HIDE DEF d, i
<1>8. CASE observer = "down" /\ StepDone(d, "observer") /\ UNCHANGED <<log, token>>
  <2>1. Sincere(x) /\ "observer" \in Words /\ Honest("observer", cancelled, expired)
    BY <1>2, <1>5, <1>8 DEF Sincere, Words, Honest
  <2> QED
    BY <1>1, <1>2, <1>4, <1>5, <1>8, <2>1, StepCloses DEF env
<1>9. CASE StepDone(run, Interrupt) /\ UNCHANGED <<log, token>>
  BY <1>1, <1>2, <1>9, InStep, StepCloses DEF env
<1>10. CASE log' = L!AfterDispatch(log) /\ token' = "open" /\ Goto("streaming", i)
  <2>1. PICK m \in DriverLogs : m = L!AfterDispatch(log)
    BY <1>2, DispatchRow
  <2>2. /\ m.marker = log.marker /\ m.attempt = "streaming" /\ m.orphans = log.orphans
        /\ SamePlace(m, log) /\ SameCalls(m, log) /\ SameRetries(m, log) /\ SameBracket(m, log)
        /\ m.results = log.results
    BY <1>2, <2>1, DispatchRow
  <2>3. log' = m /\ pc' = "streaming" /\ run' = u /\ pc' \in Stepping
    BY <1>6, <1>10, <2>1 DEF Goto, Stepping, Attempting
  <2>4. SlotAt(pc', m, token')
    BY <1>10, <2>2, <2>3 DEF SlotAt, Asking
  <2>5. RetriesAt(pc', m, u)
    BY <1>1, <1>2, <1>7, <2>2, <2>3, RetriesStay DEF LogAt, Like
  <2>6. CallsAt(pc', m, u)
    BY <1>1, <1>2, <2>2, <2>3, CallsStay DEF LogAt, Asking, Rounds
  <2>7. Marked(m) /\ oversized' \subseteq m.results
    BY <1>1, <1>2, <2>2 DEF Marked, Typed
  <2>8. Sincere(u) /\ LatchedAt(pc', u) /\ u.steps = run.steps
    BY <1>2, <1>7 DEF Sincere, LatchedAt, Like
  <2> QED
    BY <1>1, <1>2, <1>10, <2>2, <2>3, <2>4, <2>5, <2>6, <2>7, <2>8, StepRows DEF Typed
<1> QED
  BY <1>3, <1>8, <1>9, <1>10

LEMMA StreamStoppedHolds == IInv /\ StreamStopped => IInv'
<1> SUFFICES ASSUME IInv, StreamStopped PROVE IInv'
  OBVIOUS
<1>1. /\ pc = "streaming" /\ pc \in Stepping /\ StepDone(run, Interrupt)
      /\ NoRow /\ UNCHANGED <<env, claims, token, oversized, loop>>
  BY DEF StreamStopped, Stepping, Attempting
<1>2. /\ Typed /\ run \in Runs /\ Sincere(run) /\ token = "open"
  BY <1>1, InStep DEF LogAt, SlotAt, Asking
<1> QED
  BY <1>1, <1>2, InStep, StepCloses DEF NoRow, rows, Typed

LEMMA InterruptedHolds == IInv /\ Interrupted => IInv'
<1> SUFFICES ASSUME IInv, Interrupted PROVE IInv'
  OBVIOUS
<1>1. /\ pc = "sealed" /\ pc \in Stepping /\ StepDone(run, Interrupt)
      /\ NoRow /\ UNCHANGED <<env, claims, token, oversized, loop>>
  BY DEF Interrupted, Stepping, Attempting
<1>2. /\ Typed /\ run \in Runs /\ Sincere(run) /\ token = "open"
  BY <1>1, InStep DEF LogAt, SlotAt, Asking
<1> QED
  BY <1>1, <1>2, InStep, StepCloses DEF NoRow, rows, Typed

\* A step that ends with a refusal or an error of its own.
LEMMA StepFails ==
  ASSUME IInv, pc \in Stepping, token # "closed", UNCHANGED <<env, claims, token, oversized, loop>>,
         NoRow, StepDone(run, "error") \/ StepDone(Refused(run), Refusal)
  PROVE  IInv'
<1>1. PICK r \in Runs, w \in Words : /\ StepDone(r, w) /\ Honest(w, cancelled, expired)
                                     /\ r.steps = run.steps /\ Sincere(r)
  BY InStep DEF Words
<1> QED
  BY <1>1, InStep, StepCloses DEF NoRow, rows, Typed

LEMMA StreamItemHolds == IInv /\ StreamItem => IInv'
<1> SUFFICES ASSUME IInv, StreamItem PROVE IInv'
  OBVIOUS
<1>1. /\ pc = "streaming" /\ pc \in Stepping /\ UNCHANGED <<env, claims, token, oversized, loop>>
  BY DEF StreamItem, Stepping, Attempting
<1>2. /\ Typed /\ run \in Runs /\ Sincere(run) /\ token = "open" /\ ~run.limit
      /\ log \in DriverLogs /\ Marked(log) /\ LogAt(pc, log, run, token)
      /\ log.attempt \in {"streaming", "finished"}
  BY <1>1, InStep DEF LogAt, SlotAt, Asking, InTurn, RunAt, LatchedAt
<1>3. CASE /\ \E finish \in {"more", "ok"} \cup L!Failures :
                Commit(L!AfterChunk(log, finish, TRUE))
           /\ UNCHANGED <<pc, run>>
  <2>1. PICK finish \in {"more", "ok"} \cup L!Failures : Commit(L!AfterChunk(log, finish, TRUE))
    BY <1>3
  <2>2. PICK m \in DriverLogs : m = L!AfterChunk(log, finish, TRUE)
    BY <1>2, ChunkRow DEF Written
  <2>3. /\ Written(m) /\ m.attempt \in {"streaming", "finished"}
        /\ SamePlace(m, log) /\ SameCalls(m, log) /\ SameRetries(m, log) /\ SameBracket(m, log)
        /\ m.results = log.results
    BY <1>2, <2>2, ChunkRow
  <2>4. /\ log' = m /\ pc' = pc /\ run' = run /\ dirty' \in BOOLEAN
        /\ observer' \in (IF observer = "up" THEN {"up", "down"} ELSE {"down"})
    BY <1>3, <2>1, <2>2 DEF Commit
  <2>5. SlotAt(pc', m, token')
    BY <1>1, <1>2, <2>3, <2>4 DEF SlotAt, Asking
  <2>6. RetriesAt(pc', m, run)
    BY <1>1, <1>2, <2>3, <2>4, RetriesStay DEF LogAt
  <2>7. CallsAt(pc', m, run)
    BY <1>1, <1>2, <2>3, <2>4, CallsStay DEF LogAt, Rounds
  <2>8. Marked(m) /\ oversized' \subseteq m.results
    BY <1>1, <1>2, <2>3 DEF Written, Marked, Typed
  <2> QED
    BY <1>1, <1>2, <2>3, <2>4, <2>5, <2>6, <2>7, <2>8, StepRows DEF LatchedAt, Typed
<1>4. CASE /\ log.attempt = "finished" /\ log' = L!AfterSeal(log)
           /\ Goto("sealed", run) /\ UNCHANGED <<dirty, observer>>
  <2>1. PICK m \in DriverLogs : m = L!AfterSeal(log)
    BY <1>2, SealRow
  <2>2. /\ m.marker = log.marker /\ m.attempt = "sealed" /\ m.orphans = log.orphans
        /\ SamePlace(m, log) /\ SameCalls(m, log) /\ SameRetries(m, log) /\ SameBracket(m, log)
        /\ m.results = log.results
    BY <1>2, <2>1, SealRow
  <2>3. log' = m /\ pc' = "sealed" /\ run' = run /\ pc' \in Stepping
    BY <1>4, <2>1 DEF Goto, Stepping, Attempting
  <2>4. SlotAt(pc', m, token')
    BY <1>1, <1>2, <2>2, <2>3 DEF SlotAt, Asking
  <2>5. RetriesAt(pc', m, run)
    BY <1>1, <1>2, <2>2, <2>3, RetriesStay DEF LogAt
  <2>6. CallsAt(pc', m, run)
    BY <1>1, <1>2, <2>2, <2>3, CallsStay DEF LogAt, Rounds
  <2>7. Marked(m) /\ oversized' \subseteq m.results
    BY <1>1, <1>2, <2>2 DEF Marked, Typed
  <2> QED
    BY <1>1, <1>2, <1>4, <2>2, <2>3, <2>4, <2>5, <2>6, <2>7, StepRows DEF LatchedAt, Typed
<1>5. CASE NoRow /\ (StepDone(run, "error") \/ StepDone(Refused(run), Refusal))
  BY <1>1, <1>2, <1>5, StepFails
<1> QED
  BY <1>3, <1>4, <1>5 DEF StreamItem

\* What a sealed attempt starts from.
LEMMA InSealed ==
  ASSUME IInv, pc = "sealed"
  PROVE  /\ pc \in Stepping /\ Typed /\ run \in Runs /\ Sincere(run) /\ ~run.limit
         /\ token = "open" /\ log \in DriverLogs /\ Marked(log) /\ LogAt(pc, log, run, token)
         /\ log.turn \in 1..MaxTurns /\ log.step \in 1..MaxSteps
         /\ log.nextTurn = log.turn /\ log.step = run.steps
         /\ log.call = L!NoCalls /\ log.order = <<>>
<1>1. pc \in Stepping /\ pc \notin Rounds \cup {"answered", "stepEnd", "finalBarrier"}
  BY DEF Stepping, Attempting, Rounds
<1>2. Typed /\ InTurn /\ LogAt(pc, log, run, token)
  BY <1>1, InStep
<1>3. token = "open" /\ ~run.limit
  BY <1>2 DEF LogAt, SlotAt, Asking, InTurn, RunAt, LatchedAt
<1>4. log.nextTurn = log.turn /\ log.step = run.steps /\ log.call = L!NoCalls /\ log.order = <<>>
  BY <1>1, <1>2 DEF LogAt, PlaceAt, CallsAt
<1> QED
  BY <1>1, <1>2, <1>3, <1>4, InStep

\* Another retry of the step.
LEMMA RetryAdded ==
  ASSUME NEW l \in DriverLogs, NEW m \in DriverLogs, NEW r \in Runs, NEW n \in 1..MaxRetries,
         n = r.retries + 1, RetriesAt("sealed", l, r), l.nextTurn = l.turn, l.step = r.steps,
         m.scheduled = l.scheduled \cup {<<l.turn, l.step, n>>}, m.started = l.started,
         SamePlace(m, l)
  PROVE  RetriesAt("retryBarrier", m, r)
<1>1. /\ l.started \subseteq l.scheduled /\ EarlierRetries("sealed", l, r)
      /\ OwnRetries(l, r.retries)
  BY DEF RetriesAt
<1>2. r.retries \in Nat /\ r.steps \in Nat
  <2>1. r.retries \in 0..MaxRetries /\ r.steps \in 0..MaxSteps
    BY DEF Runs
  <2> QED
    BY <2>1, Bounds
<1>3. 1..n = (1..r.retries) \cup {n} /\ n \notin 1..r.retries
  BY <1>2
<1>4. L!RetriesOf(m, m.turn, m.step) =
        L!RetriesOf(l, l.turn, l.step) \cup {<<l.turn, l.step, n>>}
  BY DEF L!RetriesOf, SamePlace
<1>5. OwnRetries(m, n)
  <2>1. L!RetriesOf(m, m.turn, m.step) =
          {<<l.turn, l.step, k>> : k \in 1..r.retries} \cup {<<l.turn, l.step, n>>}
    BY <1>1, <1>4 DEF OwnRetries
  <2> QED
    BY <1>3, <2>1 DEF OwnRetries, SamePlace
<1>6. <<l.turn, l.step, n>> \notin l.started
  <2> SUFFICES ASSUME <<l.turn, l.step, n>> \in l.started PROVE FALSE
    OBVIOUS
  <2>1. <<l.turn, l.step, n>> \in L!RetriesOf(l, l.turn, l.step)
    BY <1>1 DEF L!RetriesOf
  <2>2. PICK k \in 1..r.retries : <<l.turn, l.step, n>> = <<l.turn, l.step, k>>
    BY <1>1, <2>1 DEF OwnRetries
  <2> QED
    BY <1>3, <2>2
<1>7. EarlierRetries("retryBarrier", m, r)
  BY <1>1, <1>2 DEF EarlierRetries, SamePlace
<1> QED
  BY <1>1, <1>5, <1>6, <1>7 DEF RetriesAt, SamePlace, Asking

LEMMA FailedAttemptHolds == IInv /\ FailedAttempt => IInv'
<1> SUFFICES ASSUME IInv, FailedAttempt PROVE IInv'
  OBVIOUS
<1>1. pc = "sealed" /\ UNCHANGED <<env, claims, oversized, loop>>
  BY DEF FailedAttempt
<1>2. /\ pc \in Stepping /\ Typed /\ run \in Runs /\ Sincere(run) /\ ~run.limit
      /\ token = "open" /\ log \in DriverLogs /\ Marked(log) /\ LogAt(pc, log, run, token)
      /\ log.turn \in 1..MaxTurns /\ log.step \in 1..MaxSteps
      /\ log.nextTurn = log.turn /\ log.step = run.steps
  BY <1>1, InSealed
<1>3. CASE /\ NoRow /\ UNCHANGED token
           /\ StepDone(run, "error") \/ StepDone(Refused(run), Refusal)
  BY <1>1, <1>2, <1>3, StepFails
<1>4. CASE /\ run.retries < MaxRetries
           /\ Commit(L!AfterRetry(log, log.turn, log.step, run.retries + 1, TRUE))
           /\ token' = "closed" /\ Goto("retryBarrier", run)
  <2>1. PICK n \in 1..MaxRetries : n = run.retries + 1
    <3>1. run.retries \in 0..MaxRetries
      BY <1>2 DEF Runs
    <3> QED
      BY <1>4, <3>1, Bounds
  <2> PICK t \in 1..MaxTurns, s \in 1..MaxSteps : t = log.turn /\ s = log.step
    BY <1>2
  <2>2. PICK m \in DriverLogs : m = L!AfterRetry(log, t, s, n, TRUE)
    BY <1>2, RetryRow DEF Scheduled, Written
  <2>3. /\ Written(m) /\ m.attempt = "retryScheduled" /\ m.started = log.started
        /\ m.scheduled = log.scheduled \cup {<<t, s, n>>}
        /\ SamePlace(m, log) /\ SameCalls(m, log) /\ SameBracket(m, log)
        /\ m.results = log.results
    <3>1. Scheduled(L!AfterRetry(log, t, s, n, TRUE), log, t, s, n)
      BY <1>2, RetryRow
    <3> QED
      BY <2>2, <3>1 DEF Scheduled
  <2>4. /\ log' = m /\ pc' = "retryBarrier" /\ run' = run /\ pc' \in Stepping /\ dirty' = TRUE
        /\ observer' \in (IF observer = "up" THEN {"up", "down"} ELSE {"down"})
    BY <1>4, <2>1, <2>2 DEF Commit, Goto, Stepping, Attempting
  <2>5. SlotAt(pc', m, token')
    BY <1>4, <2>3, <2>4 DEF SlotAt, Asking
  <2>6. RetriesAt(pc', m, run)
    BY <1>1, <1>2, <2>1, <2>3, <2>4, RetryAdded DEF LogAt
  <2>7. CallsAt(pc', m, run)
    BY <1>1, <1>2, <2>3, <2>4, CallsStay DEF LogAt, Rounds
  <2>8. Marked(m) /\ oversized' \subseteq m.results
    BY <1>1, <1>2, <2>3 DEF Written, Marked, Typed
  <2> QED
    BY <1>1, <1>2, <1>4, <2>3, <2>4, <2>5, <2>6, <2>7, <2>8, StepRows DEF LatchedAt
<1> QED
  BY <1>3, <1>4 DEF FailedAttempt

LEMMA RetryBarrierHolds == IInv /\ RetryBarrier => IInv'
<1> SUFFICES ASSUME IInv, RetryBarrier PROVE IInv'
  OBVIOUS
<1> DEFINE d == [run EXCEPT !.lost = TRUE]
           i == [run EXCEPT !.retries = @ + 1]
<1>1. /\ pc = "retryBarrier" /\ pc \in Stepping /\ token' = "none" /\ log' = log
      /\ dirty' = FALSE /\ observer' = observer /\ UNCHANGED <<env, claims, oversized, loop>>
  BY DEF RetryBarrier, Flush, Stepping, Attempting
<1>2. /\ Typed /\ run \in Runs /\ Sincere(run) /\ ~run.limit /\ token = "closed"
      /\ log \in DriverLogs /\ Marked(log) /\ LogAt(pc, log, run, token)
      /\ log.attempt = "retryScheduled" /\ run.retries < MaxRetries
  BY <1>1, InStep DEF LogAt, SlotAt, Asking, InTurn, RunAt, LatchedAt
<1>3. \/ observer = "down" /\ StepDone(d, "observer")
      \/ Goto("backoff", i)
  BY DEF RetryBarrier
<1>4. PICK x \in Runs : x = d
  BY <1>2 DEF Runs
<1>5. /\ x.steps = run.steps /\ x.outcome = run.outcome /\ x.stop = run.stop
      /\ x.reason = run.reason
  BY <1>2, <1>4 DEF Runs
<1>6. PICK n \in 0..MaxRetries : n = run.retries + 1 /\ n # 0
  <2>1. run.retries \in 0..MaxRetries
    BY <1>2 DEF Runs
  <2> QED
    BY <1>2, <2>1, Bounds
<1>7. PICK u \in Runs : u = [run EXCEPT !.retries = n]
  BY <1>2 DEF Runs
<1>8. /\ u = i /\ u.retries = n /\ u.steps = run.steps /\ u.limit = run.limit
      /\ u.lost = run.lost /\ u.outcome = run.outcome /\ u.stop = run.stop
      /\ u.reason = run.reason
  BY <1>2, <1>6, <1>7 DEF Runs
<1> HIDE DEF d, i
<1>9. CASE observer = "down" /\ StepDone(d, "observer")
  <2>1. Sincere(x) /\ "observer" \in Words /\ Honest("observer", cancelled, expired)
    BY <1>2, <1>5, <1>9 DEF Sincere, Words, Honest
  <2> QED
    BY <1>1, <1>2, <1>4, <1>5, <1>9, <2>1, StepCloses
<1>10. CASE Goto("backoff", i)
  <2>1. pc' = "backoff" /\ run' = u /\ pc' \in Stepping
    BY <1>8, <1>10 DEF Goto, Stepping, Attempting
  <2>2. SlotAt(pc', log, token')
    BY <1>1, <1>2, <2>1 DEF SlotAt, Asking
  <2>3. RetriesAt(pc', log, u)
    BY <1>1, <1>2, <1>6, <1>8, <2>1 DEF LogAt, RetriesAt, EarlierRetries, Asking
  <2>4. CallsAt(pc', log, u)
    BY <1>1, <1>2, <2>1 DEF LogAt, CallsAt, Rounds
  <2>5. SamePlace(log, log) /\ SameBracket(log, log) /\ Sincere(u) /\ ~u.limit
    BY <1>2, <1>8 DEF SamePlace, SameBracket, Sincere
  <2> QED
    BY <1>1, <1>2, <1>8, <2>1, <2>2, <2>3, <2>4, <2>5, StepRows DEF LatchedAt, Typed
<1> QED
  BY <1>3, <1>9, <1>10

LEMMA BackoffHolds == IInv /\ Backoff => IInv'
<1> SUFFICES ASSUME IInv, Backoff PROVE IInv'
  OBVIOUS
<1>1. /\ pc = "backoff" /\ pc \in Stepping /\ UNCHANGED <<env, claims, token, oversized, loop>>
  BY DEF Backoff, Stepping, Attempting
<1>2. /\ Typed /\ run \in Runs /\ Sincere(run) /\ ~run.limit /\ token = "none"
      /\ log \in DriverLogs /\ Marked(log) /\ LogAt(pc, log, run, token)
      /\ log.attempt = "retryScheduled" /\ run.retries # 0
      /\ log.turn \in 1..MaxTurns /\ log.step \in 1..MaxSteps
  BY <1>1, InStep DEF LogAt, SlotAt, Asking, InTurn, RunAt, LatchedAt, RetriesAt
<1>3. \/ NoRow /\ StepDone(run, Interrupt)
      \/ NoRow /\ StepDone(Refused(run), Refusal)
      \/ /\ Commit(L!AfterRetryStarted(log, log.turn, log.step, run.retries))
         /\ Goto("attempt", run)
  BY DEF Backoff
<1>4. CASE NoRow /\ StepDone(run, Interrupt)
  BY <1>1, <1>2, <1>4, InStep, StepCloses DEF NoRow, rows, Typed
<1>5. CASE NoRow /\ StepDone(Refused(run), Refusal)
  BY <1>1, <1>2, <1>5, StepFails
<1>6. CASE /\ Commit(L!AfterRetryStarted(log, log.turn, log.step, run.retries))
           /\ Goto("attempt", run)
  <2>1. PICK n \in 1..MaxRetries : n = run.retries
    <3>1. run.retries \in 0..MaxRetries
      BY <1>2 DEF Runs
    <3> QED
      BY <1>2, <3>1, Bounds
  <2>2. PICK m \in DriverLogs : m = L!AfterRetryStarted(log, log.turn, log.step, n)
    BY <1>2, RetryStartedRow, Bounds DEF Written
  <2>3. /\ Written(m) /\ m.attempt = "ready" /\ m.scheduled = log.scheduled
        /\ m.started = log.started \cup {<<log.turn, log.step, n>>}
        /\ SamePlace(m, log) /\ SameCalls(m, log) /\ SameBracket(m, log)
        /\ m.results = log.results
    BY <1>2, <2>2, RetryStartedRow, Bounds
  <2>4. /\ log' = m /\ pc' = "attempt" /\ run' = run /\ pc' \in Stepping /\ dirty' = TRUE
        /\ observer' \in (IF observer = "up" THEN {"up", "down"} ELSE {"down"})
    BY <1>6, <2>1, <2>2 DEF Commit, Goto, Stepping, Asking
  <2>5. SlotAt(pc', m, token')
    BY <1>1, <1>2, <2>3, <2>4 DEF SlotAt, Asking
  <2>6. RetriesAt(pc', m, run)
    <3>1. /\ log.started \subseteq log.scheduled /\ EarlierRetries(pc, log, run)
          /\ OwnRetries(log, run.retries)
      BY <1>1, <1>2 DEF LogAt, RetriesAt
    <3>2. n \in 1..run.retries
      BY <2>1
    <3>3. <<log.turn, log.step, n>> \in log.scheduled
      BY <3>1, <3>2 DEF OwnRetries, L!RetriesOf
    <3> QED
      BY <1>1, <2>3, <2>4, <3>1, <3>3
      DEF RetriesAt, EarlierRetries, OwnRetries, L!RetriesOf, SamePlace
  <2>7. CallsAt(pc', m, run)
    BY <1>1, <1>2, <2>3, <2>4, CallsStay DEF LogAt, Rounds
  <2>8. Marked(m) /\ oversized' \subseteq m.results
    BY <1>1, <1>2, <2>3 DEF Written, Marked, Typed
  <2> QED
    BY <1>1, <1>2, <2>3, <2>4, <2>5, <2>6, <2>7, <2>8, StepRows DEF LatchedAt, Typed
<1> QED
  BY <1>3, <1>4, <1>5, <1>6

\* The calls of an answer, in their order.
LEMMA Answers ==
  ASSUME NEW calls \in L!CallLists
  PROVE  calls \in Seq(Calls) /\ \A i, j \in 1..Len(calls) : i # j => calls[i] # calls[j]
<1>1. PICK n \in 0..Cardinality(Calls) : calls \in [1..n -> Calls]
  <2>1. L!Cardinality(Calls) = Cardinality(Calls)
    BY DEF L!Cardinality, Cardinality
  <2> QED
    BY <2>1 DEF L!CallLists
<1>2. n \in Nat
  BY <1>1, FS_CardinalityType, DriverIds
<1>3. calls \in Seq(Calls) /\ DOMAIN calls = 1..Len(calls)
  BY <1>1, <1>2
<1> QED
  BY <1>3 DEF L!CallLists

LEMMA AnswerHolds == IInv /\ Answer => IInv'
<1> SUFFICES ASSUME IInv, Answer PROVE IInv'
  OBVIOUS
<1>1. pc = "sealed" /\ UNCHANGED <<env, claims, oversized, loop>>
  BY DEF Answer
<1>2. /\ pc \in Stepping /\ Typed /\ run \in Runs /\ Sincere(run) /\ ~run.limit
      /\ token = "open" /\ log \in DriverLogs /\ Marked(log) /\ LogAt(pc, log, run, token)
      /\ log.call = L!NoCalls /\ log.order = <<>>
  BY <1>1, InSealed
<1>3. CASE /\ NoRow /\ UNCHANGED token
           /\ StepDone(run, "error") \/ StepDone(Refused(run), Refusal)
  BY <1>1, <1>2, <1>3, StepFails
<1>4. ASSUME NEW calls \in Seq(Calls), Commit(L!AfterAssistant(log, calls, TRUE)),
             token' = "closed", NEW q \in {"answered", "roundBarrier"}, NEW u \in Runs,
             Goto(q, u), u.steps = run.steps, u.retries = run.retries, Sincere(u), ~u.limit,
             q = "roundBarrier" =>
               /\ u.todo = calls
               /\ \A i, j \in 1..Len(calls) : i # j => calls[i] # calls[j]
      PROVE  IInv'
  <2>1. PICK m \in DriverLogs : m = L!AfterAssistant(log, calls, TRUE)
    <3>1. Answered(L!AfterAssistant(log, calls, TRUE), log, calls)
      BY <1>2, <1>4, AssistantRow
    <3> QED
      BY <3>1 DEF Answered, Written
  <2>2. /\ Written(m) /\ m.attempt = "committed"
        /\ Durable => /\ m.order = calls
                      /\ \A i \in DOMAIN calls : m.call[calls[i]].stage = "declared"
        /\ SamePlace(m, log) /\ SameRetries(m, log) /\ SameBracket(m, log)
        /\ m.results = log.results
    <3>1. Answered(m, log, calls)
      BY <1>2, <1>4, <2>1, AssistantRow
    <3> QED
      BY <3>1 DEF Answered
  <2>3. /\ log' = m /\ pc' = q /\ run' = u /\ pc' \in Stepping /\ dirty' = TRUE
        /\ observer' \in (IF observer = "up" THEN {"up", "down"} ELSE {"down"})
    BY <1>4, <2>1 DEF Commit, Goto, Stepping, Attempting, Rounds
  <2>4. SlotAt(pc', m, token')
    BY <1>4, <2>2, <2>3 DEF SlotAt, Asking
  <2>5. RetriesAt(pc', m, u)
    <3>1. RetriesAt(pc, log, run) /\ q \notin Asking \cup {"streaming", "sealed"}
      BY <1>2 DEF LogAt, Asking
    <3> QED
      BY <1>2, <1>4, <2>2, <2>3, <3>1, RetriesStay
  <2>6. CallsAt(pc', m, u)
    <3>1. CASE q = "answered"
      BY <2>3, <3>1 DEF CallsAt, Rounds
    <3>2. CASE q = "roundBarrier" /\ Durable
      <4>1. /\ Len(calls) \in Nat /\ Len(m.order) - Len(u.todo) = 0
            /\ DOMAIN calls = 1..Len(calls)
        BY <1>4, <2>2, <3>2
      <4>2. \A i \in 1..Len(calls) : ~(i <= 0) /\ i - 0 = i
        OBVIOUS
      <4>3. \A i \in 1..Len(m.order) :
              /\ ~(i <= 0) /\ m.order[i] = u.todo[i - 0]
              /\ m.call[m.order[i]].stage = "declared"
        BY <1>4, <2>2, <3>2, <4>1, <4>2
      <4>4. \A i, j \in 1..Len(m.order) : i # j => m.order[i] # m.order[j]
        BY <1>4, <2>2, <3>2
      <4>5. Begun(m, u.todo) = 0
        BY <4>1 DEF Begun
      <4>6. InOrder(m, u.todo)
        BY <4>3, <4>4, <4>5 DEF InOrder
      <4> QED
        BY <2>3, <3>2, <4>6 DEF CallsAt, Rounds
    <3>3. CASE q = "roundBarrier" /\ ~Durable
      BY <2>3, <3>3 DEF CallsAt, Rounds
    <3> QED
      BY <3>1, <3>2, <3>3
  <2>7. Marked(m) /\ oversized' \subseteq m.results
    BY <1>1, <1>2, <2>2 DEF Written, Marked, Typed
  <2> QED
    BY <1>1, <1>2, <1>4, <2>2, <2>3, <2>4, <2>5, <2>6, <2>7, StepRows DEF LatchedAt
<1>5. CASE \E outcome \in {"completed", "maxTokens"} :
             /\ Commit(L!AfterAssistant(log, <<>>, TRUE))
             /\ token' = "closed" /\ Goto("answered", [run EXCEPT !.outcome = outcome])
  <2>1. PICK w \in {"completed", "maxTokens"} :
          /\ Commit(L!AfterAssistant(log, <<>>, TRUE))
          /\ token' = "closed" /\ Goto("answered", [run EXCEPT !.outcome = w])
    BY <1>5
  <2>2. w \in Words /\ Honest(w, cancelled, expired) /\ <<>> \in Seq(Calls)
    BY DEF Words, Honest
  <2>3. PICK u \in Runs : u = [run EXCEPT !.outcome = w]
    BY <1>2, <2>2, Outcomes
  <2>4. u.outcome = w /\ LikeButOutcome(u, run)
    BY <1>2, <2>2, <2>3, Outcomes
  <2>5. Sincere(u) /\ ~u.limit
    BY <1>2, <2>2, <2>4 DEF Sincere, LikeButOutcome
  <2> QED
    BY <1>4, <2>1, <2>2, <2>3, <2>4, <2>5 DEF LikeButOutcome
<1>6. CASE \E calls \in L!CallLists \ {<<>>} :
             /\ Commit(L!AfterAssistant(log, calls, TRUE))
             /\ token' = "closed" /\ Goto("roundBarrier", [run EXCEPT !.todo = calls])
  <2>1. PICK calls \in L!CallLists :
          /\ Commit(L!AfterAssistant(log, calls, TRUE))
          /\ token' = "closed" /\ Goto("roundBarrier", [run EXCEPT !.todo = calls])
    BY <1>6
  <2>2. calls \in Seq(Calls) /\ \A i, j \in 1..Len(calls) : i # j => calls[i] # calls[j]
    BY Answers
  <2>3. PICK u \in Runs : u = [run EXCEPT !.todo = calls]
    BY <1>2, <2>2 DEF Runs
  <2>4. u.todo = calls /\ Like(u, run)
    BY <1>2, <2>3 DEF Runs, Like
  <2>5. Sincere(u) /\ ~u.limit
    BY <1>2, <2>4 DEF Sincere, Like
  <2> QED
    BY <1>4, <2>1, <2>2, <2>3, <2>4, <2>5 DEF Like
<1> QED
  BY <1>3, <1>5, <1>6 DEF Answer

LEMMA AnswerBarrierHolds == IInv /\ AnswerBarrier => IInv'
<1> SUFFICES ASSUME IInv, AnswerBarrier PROVE IInv'
  OBVIOUS
<1> DEFINE d == [run EXCEPT !.lost = TRUE]
<1>1. /\ pc = "answered" /\ pc \in Stepping /\ token' = "none" /\ log' = log
      /\ dirty' = FALSE /\ observer' = observer /\ UNCHANGED <<env, claims, oversized, loop>>
  BY DEF AnswerBarrier, Flush, Stepping, Attempting
<1>2. /\ Typed /\ run \in Runs /\ Sincere(run) /\ token = "closed" /\ run.outcome \in Words
  BY <1>1, InStep, Taken DEF LogAt, SlotAt, Asking
<1>3. \/ observer = "down" /\ StepDone(d, "observer")
      \/ StepDone(run, run.outcome)
  BY DEF AnswerBarrier
<1>4. PICK x \in Runs : x = d
  BY <1>2 DEF Runs
<1>5. /\ x.steps = run.steps /\ x.outcome = run.outcome /\ x.stop = run.stop
      /\ x.reason = run.reason
  BY <1>2, <1>4 DEF Runs
<1> HIDE DEF d
<1>6. CASE observer = "down" /\ StepDone(d, "observer")
  <2>1. Sincere(x) /\ "observer" \in Words /\ Honest("observer", cancelled, expired)
    BY <1>2, <1>5, <1>6 DEF Sincere, Words, Honest
  <2> QED
    BY <1>1, <1>2, <1>4, <1>5, <1>6, <2>1, StepCloses
<1>7. CASE StepDone(run, run.outcome)
  BY <1>1, <1>2, <1>7, StepCloses DEF Sincere
<1> QED
  BY <1>3, <1>6, <1>7

-----------------------------------------------------------------------------
(* The tool round.                                                         *)

\* What a round starts from.
LEMMA InRound ==
  ASSUME IInv, pc \in Rounds
  PROVE  /\ pc \in Stepping /\ Typed /\ run \in Runs /\ Sincere(run) /\ LatchedAt(pc, run)
         /\ log \in DriverLogs /\ Marked(log) /\ LogAt(pc, log, run, token)
         /\ log.attempt = "committed" /\ (pc = "round" => token = "none")
         /\ SamePlace(log, log) /\ SameBracket(log, log) /\ SameRetries(log, log)
         /\ run.todo \in Seq(Calls) /\ (Durable => InOrder(log, run.todo))
<1>1. pc \in Stepping
  BY DEF Stepping
<1>2. Typed /\ InTurn /\ run \in Runs /\ LogAt(pc, log, run, token)
  BY <1>1, InStep
<1>3. log.attempt = "committed" /\ (pc = "round" => token = "none")
  BY <1>2 DEF LogAt, SlotAt, Asking, Rounds
<1>4. run.todo \in Seq(Calls) /\ (Durable => InOrder(log, run.todo)) /\ LatchedAt(pc, run)
  BY <1>2 DEF Runs, LogAt, CallsAt, InTurn, RunAt
<1> QED
  BY <1>1, <1>2, <1>3, <1>4, InStep DEF SamePlace, SameBracket, SameRetries

\* The driver noticing the loss of its observer.
LEMMA LossNoted ==
  ASSUME NEW r \in Runs, NEW u, u = [r EXCEPT !.lost = @ \/ observer = "down"], Sincere(r)
  PROVE  /\ u \in Runs /\ Sincere(u) /\ u.steps = r.steps /\ u.retries = r.retries
         /\ u.todo = r.todo /\ u.limit = r.limit
<1>1. PICK b \in BOOLEAN : b = (r.lost \/ observer = "down")
  BY DEF Runs
<1>2. PICK x \in Runs : x = [r EXCEPT !.lost = b]
  BY DEF Runs
<1>3. /\ x.lost = b /\ x.steps = r.steps /\ x.retries = r.retries /\ x.todo = r.todo
      /\ x.limit = r.limit /\ x.outcome = r.outcome /\ x.stop = r.stop /\ x.reason = r.reason
  BY <1>2 DEF Runs
<1>4. x = u
  BY <1>1, <1>2
<1> QED
  BY <1>1, <1>3, <1>4 DEF Sincere

\* A round goes on, its log as it is or with the rows of a call.
LEMMA RoundGoes ==
  ASSUME IInv, pc \in Rounds, pc' = "round", token' = "none", claims' = claims,
         UNCHANGED <<env, loop>>, dirty' \in BOOLEAN,
         observer' \in (IF observer = "up" THEN {"up", "down"} ELSE {"down"}),
         run' \in Runs, run'.steps = run.steps, run'.retries = run.retries, Sincere(run'),
         log' = log \/ Written(log'), oversized' \subseteq log'.results,
         SamePlace(log', log), SameSlot(log', log), SameRetries(log', log),
         SameBracket(log', log), Durable => InOrder(log', run'.todo)
  PROVE  IInv'
<1>1. /\ pc \in Stepping /\ pc' \in Stepping /\ Typed
      /\ log \in DriverLogs /\ Marked(log) /\ LogAt(pc, log, run, token)
  BY InRound DEF Stepping, Rounds
<1>2. log' \in DriverLogs /\ Marked(log')
  BY <1>1 DEF Written, Marked
<1>3. SlotAt(pc', log', token')
  BY InRound DEF SlotAt, SameSlot, Asking
<1>4. RetriesAt(pc', log', run')
  BY <1>1, RetriesStay DEF LogAt, Asking
<1>5. CallsAt(pc', log', run')
  BY DEF CallsAt, Rounds
<1> QED
  BY <1>1, <1>2, <1>3, <1>4, <1>5, StepRows DEF LatchedAt

LEMMA RoundBarrierHolds == IInv /\ RoundBarrier => IInv'
<1> SUFFICES ASSUME IInv, RoundBarrier PROVE IInv'
  OBVIOUS
<1>1. /\ pc \in Rounds /\ pc' = "round" /\ token' = "none" /\ log' = log
      /\ run' = [run EXCEPT !.lost = @ \/ observer = "down"]
      /\ dirty' \in BOOLEAN /\ observer' = observer /\ UNCHANGED <<env, claims, oversized, loop>>
  BY DEF RoundBarrier, Flush, Goto, Rounds
<1>2. Typed /\ run \in Runs /\ Sincere(run)
  BY <1>1, InRound
<1>3. /\ run' \in Runs /\ Sincere(run') /\ run'.steps = run.steps
      /\ run'.retries = run.retries /\ run'.todo = run.todo
  BY <1>1, <1>2, LossNoted
<1>4. SameSlot(log, log) /\ oversized' \subseteq log.results
      /\ observer' \in (IF observer = "up" THEN {"up", "down"} ELSE {"down"})
  BY <1>1, <1>2 DEF SameSlot, Typed
<1> QED
  BY <1>1, <1>2, <1>3, <1>4, InRound, RoundGoes

LEMMA RoundFlushHolds == IInv /\ RoundFlush => IInv'
<1> SUFFICES ASSUME IInv, RoundFlush PROVE IInv'
  OBVIOUS
<1>1. /\ pc \in Rounds /\ pc = "round" /\ pc' = "round" /\ token' = token /\ log' = log
      /\ run' = [run EXCEPT !.lost = @ \/ observer = "down"]
      /\ dirty' \in BOOLEAN /\ observer' = observer /\ UNCHANGED <<env, claims, oversized, loop>>
  BY DEF RoundFlush, Flush, Goto, Rounds
<1>2. Typed /\ run \in Runs /\ Sincere(run) /\ token = "none"
  BY <1>1, InRound
<1>3. /\ run' \in Runs /\ Sincere(run') /\ run'.steps = run.steps
      /\ run'.retries = run.retries /\ run'.todo = run.todo
  BY <1>1, <1>2, LossNoted
<1>4. SameSlot(log, log) /\ oversized' \subseteq log.results
      /\ observer' \in (IF observer = "up" THEN {"up", "down"} ELSE {"down"})
  BY <1>1, <1>2 DEF SameSlot, Typed
<1> QED
  BY <1>1, <1>2, <1>3, <1>4, InRound, RoundGoes

\* Call c is the n-th of the answer, the first not yet started; the rest follow.
IsNext(l, n, c, rest) ==
  /\ n \in 1..Len(l.order) /\ l.order[n] = c /\ l.call[c].stage = "declared"
  /\ \A i \in 1..Len(l.order) : i < n => l.call[l.order[i]].stage \in {"started", "answered"}
  /\ \A i \in 1..Len(l.order) :
       i > n => l.order[i] = rest[i - n] /\ l.call[l.order[i]].stage = "declared"
  /\ Begun(l, rest) = n
  /\ \A i \in 1..Len(l.order) : i # n => l.order[i] # c

LEMMA NextCall ==
  ASSUME NEW l \in DriverLogs, NEW todo \in Seq(Calls), todo # <<>>, InOrder(l, todo)
  PROVE  IsNext(l, Begun(l, todo) + 1, Head(todo), Tail(todo))
<1>1. /\ l.order \in Seq(Calls) /\ Len(l.order) \in Nat
      /\ Len(todo) \in Nat /\ Len(todo) > 0 /\ Len(Tail(todo)) = Len(todo) - 1
      /\ Head(todo) = todo[1]
      /\ \A k \in 1..(Len(todo) - 1) : Tail(todo)[k] = todo[k + 1]
  <2>1. l.order \in Seq(Calls)
    BY DEF DriverLogs
  <2> QED
    BY <2>1
<1>2. PICK b : b = Begun(l, todo)
  OBVIOUS
<1>3. b = Len(l.order) - Len(todo) /\ b \in Nat
  BY <1>1, <1>2 DEF Begun, InOrder
<1>4. b + 1 \in 1..Len(l.order) /\ ~(b + 1 <= b) /\ (b + 1) - b = 1
  BY <1>1, <1>3
<1>5. l.order[b + 1] = todo[1] /\ l.call[l.order[b + 1]].stage = "declared"
  BY <1>2, <1>4 DEF InOrder
<1>6. ASSUME NEW i \in 1..Len(l.order), i < b + 1
      PROVE  l.call[l.order[i]].stage \in {"started", "answered"}
  <2>1. i <= b
    BY <1>1, <1>3, <1>6
  <2> QED
    BY <1>2, <2>1 DEF InOrder
<1>7. ASSUME NEW i \in 1..Len(l.order), i > b + 1
      PROVE  l.order[i] = Tail(todo)[i - (b + 1)] /\ l.call[l.order[i]].stage = "declared"
  <2>1. ~(i <= b) /\ i - (b + 1) \in 1..(Len(todo) - 1) /\ (i - (b + 1)) + 1 = i - b
    BY <1>1, <1>3, <1>7
  <2>2. l.order[i] = todo[i - b] /\ l.call[l.order[i]].stage = "declared"
    BY <1>2, <2>1 DEF InOrder
  <2> QED
    BY <1>1, <2>1, <2>2
<1>8. Begun(l, Tail(todo)) = b + 1
  BY <1>1, <1>3 DEF Begun
<1>9. \A i \in 1..Len(l.order) : i # b + 1 => l.order[i] # Head(todo)
  BY <1>1, <1>4, <1>5 DEF InOrder
<1> QED
  BY <1>1, <1>2, <1>4, <1>5, <1>6, <1>7, <1>8, <1>9 DEF IsNext

LEMMA RoundCallHolds == IInv /\ RoundCall => IInv'
<1> SUFFICES ASSUME IInv, RoundCall PROVE IInv'
  OBVIOUS
<1>1. /\ pc \in Rounds /\ pc = "round" /\ pc' = "round" /\ run.todo # <<>>
      /\ Commit(L!AfterToolCall(log, Head(run.todo)))
      /\ run' = [run EXCEPT !.todo = Tail(@)]
      /\ UNCHANGED <<env, claims, token, oversized, loop>>
  BY DEF RoundCall, Goto, Rounds
<1>2. /\ Typed /\ run \in Runs /\ Sincere(run) /\ token = "none" /\ run.todo \in Seq(Calls)
      /\ log \in DriverLogs /\ Marked(log) /\ (Durable => InOrder(log, run.todo))
  BY <1>1, InRound
<1>3. PICK c \in Calls, rest \in Seq(Calls) : c = Head(run.todo) /\ rest = Tail(run.todo)
  <2>1. \A t \in Seq(Calls) : t # <<>> => Head(t) \in Calls /\ Tail(t) \in Seq(Calls)
    OBVIOUS
  <2> QED
    BY <1>1, <1>2, <2>1
<1>4. PICK u \in Runs : u = [run EXCEPT !.todo = rest]
  BY <1>2 DEF Runs
<1>5. u = run' /\ u.todo = rest /\ u.steps = run.steps /\ u.retries = run.retries /\ Sincere(u)
  <2>1. u.todo = rest /\ Like(u, run)
    BY <1>2, <1>4 DEF Runs, Like
  <2> QED
    BY <1>1, <1>2, <1>3, <1>4, <2>1 DEF Sincere, Like
<1>6. PICK m \in DriverLogs : m = L!AfterToolCall(log, c)
  BY <1>2, ToolCallRow DEF Written
<1>7. /\ Written(m) /\ m.order = log.order
      /\ \A d \in Calls \ {c} : m.call[d] = log.call[d]
      /\ m.call[c].stage = "started"
      /\ SamePlace(m, log) /\ SameSlot(m, log) /\ SameRetries(m, log) /\ SameBracket(m, log)
      /\ m.results = log.results
  BY <1>2, <1>6, ToolCallRow
<1>8. /\ log' = m /\ dirty' = TRUE
      /\ observer' \in (IF observer = "up" THEN {"up", "down"} ELSE {"down"})
  BY <1>1, <1>3, <1>6 DEF Commit
<1>9. ASSUME Durable PROVE InOrder(m, rest)
  <2>1. PICK n : n = Begun(log, run.todo) + 1
    OBVIOUS
  <2> IsNext(log, n, c, rest)
    BY <1>1, <1>2, <1>3, <1>9, <2>1, NextCall
  <2>2. /\ n \in 1..Len(log.order) /\ log.order[n] = c
        /\ \A i \in 1..Len(log.order) :
             i < n => log.call[log.order[i]].stage \in {"started", "answered"}
        /\ \A i \in 1..Len(log.order) :
             i > n => /\ log.order[i] = rest[i - n]
                      /\ log.call[log.order[i]].stage = "declared"
        /\ Begun(log, rest) = n
        /\ \A i \in 1..Len(log.order) : i # n => log.order[i] # c
    BY DEF IsNext
  <2>3. /\ log.order \in Seq(Calls) /\ Len(log.order) \in Nat /\ n \in Nat
        /\ \A i \in 1..Len(log.order) : log.order[i] \in Calls
    <3>1. log.order \in Seq(Calls)
      BY <1>2 DEF DriverLogs
    <3> QED
      BY <2>2, <3>1
  <2>4. Begun(m, rest) = n
    BY <1>7, <2>2 DEF Begun
  <2>5. \A i, j \in 1..Len(m.order) : i # j => m.order[i] # m.order[j]
    BY <1>2, <1>7, <1>9 DEF InOrder
  <2>6. ASSUME NEW i \in 1..Len(m.order)
        PROVE  IF i <= n THEN m.call[m.order[i]].stage \in {"started", "answered"}
               ELSE m.order[i] = rest[i - n] /\ m.call[m.order[i]].stage = "declared"
    <3>1. i \in 1..Len(log.order) /\ m.order[i] = log.order[i] /\ log.order[i] \in Calls
      BY <1>7, <2>3
    <3>2. CASE i = n
      BY <1>7, <2>2, <2>3, <3>1, <3>2
    <3>3. CASE i # n
      <4>1. m.call[m.order[i]] = log.call[log.order[i]]
        BY <1>7, <2>2, <3>1, <3>3
      <4>2. i < n \/ i > n
        BY <2>3, <3>1, <3>3
      <4>3. i < n <=> (i <= n /\ i # n)
        BY <2>3, <3>1
      <4>4. i > n => ~(i <= n)
        BY <2>3, <3>1
      <4> QED
        BY <2>2, <3>1, <3>3, <4>1, <4>2, <4>3, <4>4
    <3> QED
      BY <3>2, <3>3
  <2>7. n >= 0
    BY <2>3
  <2> QED
    BY <2>4, <2>5, <2>6, <2>7 DEF InOrder
<1> QED
  BY <1>1, <1>2, <1>5, <1>7, <1>8, <1>9, RoundGoes DEF Typed

LEMMA RoundResultHolds == IInv /\ RoundResult => IInv'
<1> SUFFICES ASSUME IInv, RoundResult PROVE IInv'
  OBVIOUS
<1>1. /\ pc \in Rounds /\ pc = "round" /\ pc' = "round"
      /\ UNCHANGED <<env, claims, token, loop>>
  BY DEF RoundResult, Rounds
<1>2. /\ Typed /\ run \in Runs /\ Sincere(run) /\ token = "none" /\ run.todo \in Seq(Calls)
      /\ log \in DriverLogs /\ Marked(log) /\ (Durable => InOrder(log, run.todo))
  BY <1>1, InRound
<1>3. PICK c \in Calls, code \in {"ok", "error"}, full \in BOOLEAN :
        /\ Running(c) /\ Commit(L!AfterToolResult(log, c, code))
        /\ oversized' \in {oversized \ {c}, oversized \cup {c}}
        /\ run' = [run EXCEPT !.limit = @ \/ full,
                              !.stop = IF @ = "none" THEN Interrupt ELSE @]
  BY DEF RoundResult
<1>4. PICK b \in BOOLEAN, w \in Words :
        b = (run.limit \/ full) /\ w = (IF run.stop = "none" THEN Interrupt ELSE run.stop)
  BY <1>2, StopWords DEF Runs, Words
<1>5. Honest(w, cancelled, expired)
  BY <1>2, <1>4, StopWords DEF Sincere
<1>6. PICK u \in Runs : u = [run EXCEPT !.limit = b, !.stop = w]
  BY <1>2 DEF Runs
<1>7. /\ u = run' /\ u.todo = run.todo /\ u.steps = run.steps /\ u.retries = run.retries
      /\ Sincere(u)
  <2>1. /\ u.todo = run.todo /\ u.steps = run.steps /\ u.retries = run.retries
        /\ u.lost = run.lost /\ u.outcome = run.outcome /\ u.stop = w /\ u.reason = run.reason
    BY <1>2, <1>6 DEF Runs
  <2>2. u = run'
    BY <1>3, <1>4, <1>6
  <2> QED
    BY <1>2, <1>5, <2>1, <2>2 DEF Sincere
<1>8. PICK m \in DriverLogs : m = L!AfterToolResult(log, c, code)
  BY <1>2, ToolResultRow DEF Written
<1>9. /\ Written(m) /\ m.order = log.order
      /\ \A d \in Calls \ {c} : m.call[d] = log.call[d]
      /\ m.call[c].stage = IF Durable THEN "answered" ELSE "absent"
      /\ SamePlace(m, log) /\ SameSlot(m, log) /\ SameRetries(m, log) /\ SameBracket(m, log)
      /\ m.results = log.results \cup {c}
  BY <1>2, <1>8, ToolResultRow
<1>10. /\ log' = m /\ dirty' = TRUE
       /\ observer' \in (IF observer = "up" THEN {"up", "down"} ELSE {"down"})
  BY <1>3, <1>8 DEF Commit
<1>11. ASSUME Durable PROVE InOrder(m, run.todo)
  <2>1. PICK n : n = Begun(log, run.todo)
    OBVIOUS
  <2>2. Begun(m, run.todo) = n
    BY <1>9, <2>1 DEF Begun
  <2>3. log.call[c].stage = "started"
    BY <1>3 DEF Running
  <2>4. \A i \in 1..Len(log.order) : log.order[i] \in Calls
    <3>1. log.order \in Seq(Calls)
      BY <1>2 DEF DriverLogs
    <3> QED
      BY <3>1
  <2>5. /\ n >= 0
        /\ \A i, j \in 1..Len(log.order) : i # j => log.order[i] # log.order[j]
        /\ \A i \in 1..Len(log.order) :
             IF i <= n THEN log.call[log.order[i]].stage \in {"started", "answered"}
             ELSE /\ log.order[i] = run.todo[i - n]
                  /\ log.call[log.order[i]].stage = "declared"
    BY <1>2, <1>11, <2>1 DEF InOrder
  <2>6. ASSUME NEW i \in 1..Len(log.order)
        PROVE  IF i <= n THEN m.call[log.order[i]].stage \in {"started", "answered"}
               ELSE log.order[i] = run.todo[i - n] /\ m.call[log.order[i]].stage = "declared"
    <3>1. CASE log.order[i] = c
      BY <1>9, <1>11, <2>3, <2>5, <3>1
    <3>2. CASE log.order[i] # c
      BY <1>9, <2>4, <2>5, <3>2
    <3> QED
      BY <3>1, <3>2
  <2> QED
    BY <1>9, <2>2, <2>5, <2>6 DEF InOrder
<1> QED
  BY <1>1, <1>2, <1>3, <1>7, <1>9, <1>10, <1>11, RoundGoes DEF Typed

LEMMA RoundFailedHolds == IInv /\ RoundFailed => IInv'
<1> SUFFICES ASSUME IInv, RoundFailed PROVE IInv'
  OBVIOUS
<1>1. /\ pc \in Rounds /\ pc = "round" /\ NoRow /\ UNCHANGED <<env, claims, token, oversized>>
      /\ StepDone([run EXCEPT !.todo = <<>>,
                              !.stop = IF @ = "none" THEN Interrupt ELSE @], "error")
      /\ loop' = [loop EXCEPT !.unresolved = TRUE]
  BY DEF RoundFailed, Rounds
<1>2. Typed /\ run \in Runs /\ Sincere(run) /\ token = "none" /\ pc \in Stepping /\ loop \in Loops
  BY <1>1, InRound DEF Typed
<1>3. PICK w \in Words : w = (IF run.stop = "none" THEN Interrupt ELSE run.stop)
  BY <1>2, StopWords DEF Runs, Words
<1>4. Honest(w, cancelled, expired)
  BY <1>2, <1>3, StopWords DEF Sincere
<1>5. <<>> \in Seq(Calls)
  OBVIOUS
<1>6. PICK u \in Runs : u = [run EXCEPT !.todo = <<>>, !.stop = w]
  BY <1>2, <1>5 DEF Runs
<1>7. /\ u.steps = run.steps /\ u.lost = run.lost /\ u.outcome = run.outcome /\ u.stop = w
      /\ u.reason = run.reason
  BY <1>2, <1>6 DEF Runs
<1>8. StepDone(u, "error") /\ Sincere(u) /\ "error" \in Words /\ Honest("error", cancelled, expired)
  BY <1>1, <1>2, <1>3, <1>4, <1>6, <1>7 DEF Sincere, Words, Honest
<1>9. PICK x \in Loops : x = [loop EXCEPT !.unresolved = TRUE]
  BY <1>2 DEF Loops
<1>10. x.poisoned = loop.poisoned
  BY <1>2, <1>9 DEF Loops
<1> QED
  BY <1>1, <1>2, <1>7, <1>8, <1>9, <1>10, StepCloses DEF NoRow, rows, Typed

LEMMA RoundDoneHolds == IInv /\ RoundDone => IInv'
<1> SUFFICES ASSUME IInv, RoundDone PROVE IInv'
  OBVIOUS
<1>1. /\ pc \in Rounds /\ pc = "round" /\ NoRow /\ UNCHANGED <<env, claims, token, oversized, loop>>
  BY DEF RoundDone, Rounds
<1>2. Typed /\ run \in Runs /\ Sincere(run) /\ token = "none" /\ pc \in Stepping
  BY <1>1, InRound
<1>3. PICK w \in Words : StepDone(run, w) /\ Honest(w, cancelled, expired)
  <2>1. /\ run.stop \in Words /\ Honest(run.stop, cancelled, expired)
        /\ {"limit", "observer", "completed", "continue", "error"} \subseteq Words
    BY <1>2 DEF Runs, Words, Sincere
  <2>2. \A w \in {"limit", "observer", "completed", "continue", "error"} :
          Honest(w, cancelled, expired)
    BY DEF Honest
  <2> QED
    BY <2>1, <2>2 DEF RoundDone
<1> QED
  BY <1>1, <1>2, <1>3, StepCloses DEF NoRow, rows, Typed

-----------------------------------------------------------------------------
(* The end of step and turn, and its start.                                *)

LEMMA EndStepHolds == IInv /\ EndStep => IInv'
<1> SUFFICES ASSUME IInv, EndStep PROVE IInv'
  OBVIOUS
<1>1. /\ pc = "stepEnd" /\ pc \in Stepping /\ pc # "idle" /\ UNCHANGED <<env, oversized, loop>>
      /\ Commit(L!AfterStepEnd(log, log.step)) /\ claims' = claims \ {"stepEnd"}
      /\ run' = run
      /\ IF token = "open" THEN token' = "closed" /\ pc' = "endBarrier"
         ELSE token' = token /\ pc' = "classify"
  BY DEF EndStep, Goto, Stepping
<1>2. /\ Typed /\ InTurn /\ run \in Runs /\ Sincere(run) /\ claims = ClaimsAt(pc)
      /\ log \in DriverLogs /\ Marked(log) /\ LogAt(pc, log, run, token)
      /\ log.step \in 1..MaxSteps /\ token \in {"open", "none"}
  BY <1>1, InStep DEF LogAt, SlotAt, Asking
<1>3. PICK m \in DriverLogs : m = L!AfterStepEnd(log, log.step)
  BY <1>2, StepEndRow DEF Written
<1>4. /\ Written(m) /\ m.turn = log.turn /\ m.nextTurn = log.nextTurn
      /\ m.step = 0 /\ m.nextStep = log.step + 1 /\ m.attempt = "outside"
      /\ m.order = <<>> /\ m.call = L!NoCalls
      /\ SameRetries(m, log) /\ SameBracket(m, log) /\ m.results = log.results
  BY <1>2, <1>3, StepEndRow
<1>5. /\ log' = m /\ dirty' = TRUE /\ pc' \in {"endBarrier", "classify"}
      /\ observer' \in (IF observer = "up" THEN {"up", "down"} ELSE {"down"})
  BY <1>1, <1>3 DEF Commit
<1>6. claims' = ClaimsAt(pc')
  BY <1>1, <1>2, <1>5 DEF ClaimsAt, Unentered, Bracket, Stepping, Asking, Attempting, Rounds
<1>7. Writes
  BY <1>1, <1>2, <1>4, <1>5, <1>6
  DEF Writes, Typed, InTurn, Points, Boundary, Written, Marked
<1>8. PlaceAt(pc', m, run)
  BY <1>1, <1>2, <1>4, <1>5
  DEF LogAt, PlaceAt, Stepping, Asking, Attempting, Rounds, Unentered, Bracket
<1>9. SlotAt(pc', m, token')
  BY <1>1, <1>2, <1>4 DEF SlotAt, Asking
<1>10. RetriesAt(pc', m, run)
  BY <1>1, <1>2, <1>4, <1>5 DEF LogAt, RetriesAt, EarlierRetries, SameRetries, Asking
<1>11. CallsAt(pc', m, run)
  BY <1>4, <1>5 DEF CallsAt, Rounds
<1>12. BracketAt(pc', m)
  BY <1>1, <1>2, <1>4, <1>5 DEF LogAt, BracketAt, SameBracket, Written, Bracket
<1> QED
  BY <1>1, <1>2, <1>5, <1>7, <1>8, <1>9, <1>10, <1>11, <1>12, WritesHolds DEF LogAt, LatchedAt

LEMMA EndBarrierHolds == IInv /\ EndBarrier => IInv'
<1> SUFFICES ASSUME IInv, EndBarrier PROVE IInv'
  OBVIOUS
<1> DEFINE d == [run EXCEPT !.lost = TRUE, !.outcome = "observer", !.stop = "none"]
<1>1. /\ pc = "endBarrier" /\ pc # "idle" /\ pc' = "classify" /\ token' = "none" /\ log' = log
      /\ dirty' = FALSE /\ observer' = observer /\ UNCHANGED <<env, claims, oversized, loop>>
      /\ (observer = "down" /\ run' = d) \/ run' = run
  BY DEF EndBarrier, Flush, Goto
<1>2. Typed /\ InTurn /\ run \in Runs /\ Sincere(run) /\ LogAt(pc, log, run, token)
  BY <1>1, Taken DEF IInv, InTurn
<1>3. PICK x \in Runs : x = d
  BY <1>2 DEF Runs, Words
<1>4. /\ x.steps = run.steps /\ x.outcome = "observer" /\ x.stop = "none"
      /\ x.reason = run.reason
  BY <1>2, <1>3 DEF Runs
<1> HIDE DEF d
<1>5. run' \in Runs /\ run'.steps = run.steps /\ Sincere(run')
  BY <1>1, <1>2, <1>3, <1>4 DEF Sincere, Honest
<1>6. claims' = ClaimsAt(pc')
  BY <1>1, <1>2 DEF InTurn, ClaimsAt, Unentered, Bracket, Stepping, Asking, Attempting, Rounds
<1>7. RunAt(pc', run', cancelled, expired, observer)
  BY <1>1, <1>5 DEF RunAt, LatchedAt, Sincere
<1>8. Keeps
  BY <1>1, <1>2, <1>5, <1>6, <1>7 DEF Keeps, Typed, InTurn, Points, Boundary
<1>9. LogAt(pc', log, run', token')
  BY <1>1, <1>2, <1>5
  DEF LogAt, PlaceAt, SlotAt, RetriesAt, EarlierRetries, CallsAt, BracketAt,
      Unentered, Bracket, Stepping, Asking, Attempting, Rounds
<1> QED
  BY <1>8, <1>9, KeepsHolds

LEMMA EndTurnHolds == IInv /\ EndTurn => IInv'
<1> SUFFICES ASSUME IInv, EndTurn PROVE IInv'
  OBVIOUS
<1> DEFINE f == [run EXCEPT !.fallback = TRUE, !.reason = Refusal]
<1>1. /\ pc = "closing" /\ pc # "idle" /\ pc' = "finalBarrier"
      /\ UNCHANGED <<env, token, oversized>>
      /\ Commit(L!AfterTurnEnd(log, log.turn)) /\ claims' = claims \ {"turnEnd"}
      /\ \/ run' = run /\ loop' = [loop EXCEPT !.recorded = run.reason]
         \/ run' = f /\ loop' = [loop EXCEPT !.recorded = Refusal]
  BY DEF EndTurn, Goto
<1>2. /\ Typed /\ InTurn /\ run \in Runs /\ Sincere(run) /\ LogAt(pc, log, run, token)
      /\ log \in DriverLogs /\ Marked(log) /\ loop \in Loops
  BY <1>1, Taken DEF IInv, InTurn, Typed
<1>3. log.turn \in 1..MaxTurns
  <2>1. log.turn \in 0..MaxTurns /\ log.turn # 0
    BY <1>1, <1>2 DEF LogAt, PlaceAt, DriverLogs
  <2> QED
    BY <2>1, Bounds
<1>4. Refusal \in Words /\ Honest(Refusal, cancelled, expired)
  BY <1>2, Refusals DEF Honest
<1>5. PICK x \in Runs : x = f
  BY <1>2, <1>4 DEF Runs
<1>6. /\ x.steps = run.steps /\ x.outcome = run.outcome /\ x.stop = run.stop
      /\ x.lost = run.lost /\ x.reason = Refusal
  BY <1>2, <1>4, <1>5 DEF Runs
<1> HIDE DEF f
<1>7. /\ run' \in Runs /\ run'.steps = run.steps /\ Sincere(run')
      /\ loop' = [loop EXCEPT !.recorded = run'.reason]
  BY <1>1, <1>2, <1>4, <1>5, <1>6 DEF Sincere
<1>8. run'.reason \in Words
  BY <1>7 DEF Runs
<1>9. PICK y \in Loops : y = [loop EXCEPT !.recorded = run'.reason]
  BY <1>2, <1>8 DEF Loops
<1>10. y = loop' /\ y.recorded = run'.reason /\ y.poisoned = loop.poisoned
  BY <1>2, <1>7, <1>8, <1>9 DEF Loops
<1>11. PICK m \in DriverLogs : m = L!AfterTurnEnd(log, log.turn)
  BY <1>2, <1>3, TurnEndRow DEF Written
<1>12. /\ Written(m) /\ m.turn = 0 /\ m.nextTurn = log.turn + 1 /\ m.step = log.step
       /\ SameSlot(m, log) /\ SameCalls(m, log) /\ SameRetries(m, log) /\ SameBracket(m, log)
       /\ m.results = log.results
  BY <1>2, <1>3, <1>11, TurnEndRow
<1>13. /\ log' = m /\ dirty' = TRUE
       /\ observer' \in (IF observer = "up" THEN {"up", "down"} ELSE {"down"})
  BY <1>1, <1>11 DEF Commit
<1>14. claims' = ClaimsAt(pc') /\ claims' = {}
  BY <1>1, <1>2 DEF InTurn, ClaimsAt, Unentered, Bracket, Stepping, Asking, Attempting, Rounds
<1>15. Typed'
  BY <1>1, <1>2, <1>7, <1>9, <1>10, <1>12, <1>13, <1>14
  DEF Typed, Written, Marked, env, Points, Unstarted
<1>16. PlaceAt(pc', m, run')
  BY <1>1, <1>2, <1>7, <1>12
  DEF LogAt, PlaceAt, Unentered, Bracket, Stepping, Asking, Attempting, Rounds
<1>17. SlotAt(pc', m, token')
  BY <1>1, <1>2, <1>12 DEF LogAt, SlotAt, SameSlot, Asking
<1>18. RetriesAt(pc', m, run')
  <2>1. log.nextTurn = log.turn /\ EarlierRetries(pc, log, run)
        /\ log.started \subseteq log.scheduled
    BY <1>1, <1>2 DEF LogAt, PlaceAt, RetriesAt
  <2>2. \A z \in m.scheduled : z[1] \in 1..MaxTurns
    BY Alphabets DEF DriverLogs, Retries
  <2>3. \A z \in m.scheduled : z[1] < m.nextTurn
    <3>1. \A z \in m.scheduled : z[1] < log.turn \/ z[1] = log.turn
      BY <1>12, <2>1 DEF EarlierRetries, SameRetries
    <3>2. \A k \in 1..MaxTurns : k < log.turn \/ k = log.turn => k < log.turn + 1
      BY <1>3, Bounds
    <3> QED
      BY <1>12, <2>2, <3>1, <3>2
  <2>4. pc' \notin Asking \cup {"streaming", "sealed", "retryBarrier", "backoff"}
    BY <1>1 DEF Asking
  <2>5. m.started \subseteq m.scheduled
    BY <1>12, <2>1 DEF SameRetries
  <2> QED
    BY <1>1, <2>3, <2>4, <2>5 DEF RetriesAt, EarlierRetries
<1>19. CallsAt(pc', m, run')
  BY <1>1, <1>2, <1>12 DEF LogAt, CallsAt, SameCalls, Rounds
<1>20. BracketAt(pc', m)
  BY <1>1, <1>2, <1>12 DEF LogAt, BracketAt, SameBracket, Bracket
<1>21. RunAt(pc', run', cancelled', expired', observer')
  BY <1>1, <1>2, <1>7, <1>13 DEF RunAt, LatchedAt, Sincere, env, Typed
<1> QED
  BY <1>1, <1>2, <1>10, <1>13, <1>14, <1>15, <1>16, <1>17, <1>18, <1>19, <1>20, <1>21
  DEF IInv, InTurn, LogAt

LEMMA FreshRun ==
  /\ NewRun \in Runs /\ NewRun.steps = 0 /\ NewRun.retries = 0 /\ NewRun.limit = FALSE
  /\ NewRun.lost = FALSE /\ NewRun.outcome = "none" /\ NewRun.stop = "none"
  /\ NewRun.reason = "none"
<1>1. 0 \in 0..MaxSteps /\ 0 \in 0..MaxAttempts /\ 0 \in 0..MaxRetries
  BY Bounds
<1>2. <<>> \in Seq(Calls)
  OBVIOUS
<1> QED
  BY <1>1, <1>2 DEF NewRun, Runs, Words

LEMMA FinishTurnHolds == IInv /\ FinishTurn => IInv'
<1> SUFFICES ASSUME IInv, FinishTurn PROVE IInv'
  OBVIOUS
<1>1. /\ pc = "finalBarrier" /\ pc # "idle" /\ pc' = "idle" /\ run' = NewRun
      /\ log' = log /\ dirty' = FALSE /\ observer' = observer
      /\ UNCHANGED <<env, claims, token, oversized>>
      /\ loop' = [loop EXCEPT !.result = IF ReturnsErr THEN "err" ELSE "ok",
                              !.reason = run.reason,
                              !.poisoned = ReturnsErr \/ loop.unresolved]
  BY DEF FinishTurn, Flush, Goto
<1>2. /\ Typed /\ InTurn /\ run \in Runs /\ Sincere(run) /\ LogAt(pc, log, run, token)
      /\ log \in DriverLogs /\ loop \in Loops /\ loop.recorded = run.reason
      /\ claims = ClaimsAt(pc) /\ run.reason \in Words
  BY <1>1, Taken DEF IInv, InTurn, Typed, Runs
<1>3. PICK b \in BOOLEAN : b = ReturnsErr
  BY <1>2, DriverIds DEF ReturnsErr, Runs
<1>4. PICK e \in BOOLEAN : e = (b \/ loop.unresolved)
  BY <1>2 DEF Loops
<1>5. PICK y \in Loops : y = [loop EXCEPT !.result = IF b THEN "err" ELSE "ok",
                                          !.reason = run.reason, !.poisoned = e]
  BY <1>2 DEF Loops
<1>6. /\ y.result = (IF b THEN "err" ELSE "ok") /\ y.reason = run.reason /\ y.poisoned = e
      /\ y.recorded = loop.recorded /\ y.unresolved = loop.unresolved
  BY <1>2, <1>5 DEF Loops
<1>7. y = loop'
  BY <1>1, <1>3, <1>4, <1>5
<1>8. /\ log.turn = 0 /\ log.step = 0 /\ log.attempt = "outside" /\ log.compaction = "none"
      /\ log.call = L!NoCalls /\ log.order = <<>> /\ token = "none" /\ claims = {}
      /\ log.started \subseteq log.scheduled /\ \A x \in log.scheduled : x[1] < log.nextTurn
  BY <1>1, <1>2
  DEF LogAt, PlaceAt, SlotAt, RetriesAt, EarlierRetries, CallsAt, BracketAt, ClaimsAt,
      Unentered, Bracket, Stepping, Asking, Attempting, Rounds
<1>9. ~b => observer = "up"
  BY <1>2, <1>3 DEF ReturnsErr, Typed
<1>10. ReturnedIsRecorded'
  BY <1>1, <1>2, <1>6, <1>7 DEF ReturnedIsRecorded, Sincere, Honest, env
<1>11. ReadyForNextTurn'
  BY <1>1, <1>4, <1>6, <1>7, <1>8, <1>9 DEF ReadyForNextTurn
<1>12. AtRest'
  BY <1>1, <1>8, <1>10, <1>11 DEF AtRest, TurnLeavesRecordOnly, Rested
<1>13. Typed'
  BY <1>1, <1>2, <1>5, <1>7, FreshRun DEF Typed, env
<1> QED
  BY <1>1, <1>12, <1>13 DEF IInv

LEMMA StartTurnHolds == IInv /\ StartTurn => IInv'
<1> SUFFICES ASSUME IInv, StartTurn PROVE IInv'
  OBVIOUS
<1>1. /\ pc = "idle" /\ ~loop.poisoned /\ log.nextTurn <= MaxTurns
      /\ cancelled' \in BOOLEAN /\ expired' = FALSE /\ UNCHANGED <<token, oversized>>
      /\ Typed /\ AtRest /\ Rested(log) /\ run = NewRun /\ claims = {} /\ token = "none"
  BY DEF StartTurn, IInv, AtRest
<1>2. log \in DriverLogs /\ Marked(log) /\ loop \in Loops
  BY <1>1 DEF Typed
<1>3. CASE /\ Commit(L!AfterTurnStart(log, log.nextTurn))
           /\ claims' = {"turnEnd"} /\ Goto("opened", NewRun) /\ loop' = loop
  <2>1. PICK t \in 1..MaxTurns : t = log.nextTurn
    <3>1. log.nextTurn \in 1..(MaxTurns + 1)
      BY <1>2 DEF DriverLogs
    <3> QED
      BY <1>1, <3>1, Bounds
  <2>2. PICK m \in DriverLogs : m = L!AfterTurnStart(log, t)
    BY <1>2, TurnStartRow DEF Written
  <2>3. /\ Written(m) /\ m.turn = t /\ m.nextTurn = log.nextTurn /\ m.step = 0
        /\ m.nextStep = 1
        /\ SameSlot(m, log) /\ SameCalls(m, log) /\ SameRetries(m, log) /\ SameBracket(m, log)
        /\ m.results = log.results
    BY <1>2, <2>2, TurnStartRow
  <2>4. /\ log' = m /\ dirty' = TRUE /\ pc' = "opened" /\ run' = NewRun
        /\ observer' \in (IF observer = "up" THEN {"up", "down"} ELSE {"down"})
    BY <1>3, <2>1, <2>2 DEF Commit, Goto
  <2>5. claims' = ClaimsAt(pc')
    BY <1>3, <2>4 DEF ClaimsAt, Unentered, Bracket, Stepping, Asking, Attempting, Rounds
  <2>6. pc' \in Points \ {"finalBarrier"}
    BY <2>4 DEF Points, Boundary
  <2>7. Typed'
    BY <1>1, <1>2, <1>3, <2>3, <2>4, <2>5, <2>6, FreshRun, ClaimsTyped
    DEF Typed, Written, Marked
  <2>8. PlaceAt(pc', m, NewRun)
    BY <2>1, <2>3, <2>4, FreshRun
    DEF PlaceAt, Unentered, Bracket, Stepping, Asking, Attempting, Rounds
  <2>9. SlotAt(pc', m, token')
    BY <1>1, <2>3, <2>4 DEF Rested, SlotAt, SameSlot, Asking
  <2>10. RetriesAt(pc', m, NewRun)
    BY <1>1, <2>3, <2>4 DEF Rested, RetriesAt, EarlierRetries, SameRetries, Asking
  <2>11. CallsAt(pc', m, NewRun)
    BY <1>1, <2>3, <2>4 DEF Rested, CallsAt, SameCalls, Rounds
  <2>12. BracketAt(pc', m)
    BY <1>1, <2>3, <2>4 DEF Rested, BracketAt, SameBracket, Bracket
  <2>13. RunAt(pc', NewRun, cancelled', expired', observer')
    BY <2>4, FreshRun DEF RunAt, LatchedAt, Honest
  <2> QED
    BY <1>1, <1>3, <2>4, <2>5, <2>6, <2>7, <2>8, <2>9, <2>10, <2>11, <2>12, <2>13, GoesOn
    DEF LogAt
<1>4. CASE /\ loop' = [loop EXCEPT !.poisoned = TRUE, !.result = "err"]
           /\ UNCHANGED <<pc, rows, claims, run>>
  <2>1. PICK y \in Loops : y = [loop EXCEPT !.poisoned = TRUE, !.result = "err"]
    BY <1>2 DEF Loops
  <2>2. y.poisoned = TRUE /\ y.result = "err"
    BY <1>2, <2>1 DEF Loops
  <2>3. Typed'
    BY <1>1, <1>4, <2>1 DEF Typed, rows
  <2>4. AtRest'
    BY <1>1, <1>4, <2>1, <2>2
    DEF AtRest, TurnLeavesRecordOnly, ReturnedIsRecorded, ReadyForNextTurn, rows
  <2> QED
    BY <1>1, <1>4, <2>3, <2>4 DEF IInv
<1> QED
  BY <1>3, <1>4 DEF StartTurn

-----------------------------------------------------------------------------
(* The environment.                                                        *)

LEMMA AbandonHolds == IInv /\ Abandon => IInv'
<1> SUFFICES ASSUME IInv, Abandon PROVE IInv'
  OBVIOUS
<1>1. /\ pc' = "idle" /\ claims' = {} /\ token' = "none" /\ run' = NewRun
      /\ loop' = [loop EXCEPT !.poisoned = TRUE, !.result = "err"]
      /\ UNCHANGED <<env, rows, oversized>> /\ Typed /\ loop \in Loops
      /\ log.started \subseteq log.scheduled
  BY DEF Abandon, IInv, Typed, InTurn, LogAt, RetriesAt
<1>2. PICK y \in Loops : y = [loop EXCEPT !.poisoned = TRUE, !.result = "err"]
  BY <1>1 DEF Loops
<1>3. y.poisoned = TRUE /\ y.result = "err"
  BY <1>1, <1>2 DEF Loops
<1>4. Typed'
  BY <1>1, <1>2, FreshRun DEF Typed, env, rows
<1>5. AtRest'
  BY <1>1, <1>2, <1>3
  DEF AtRest, TurnLeavesRecordOnly, ReturnedIsRecorded, ReadyForNextTurn, rows
<1> QED
  BY <1>1, <1>4, <1>5 DEF IInv

\* The stops come during a turn, which has said nothing of them yet.
LEMMA StopsHold == IInv /\ (Cancel \/ Expire) => IInv'
<1> SUFFICES ASSUME IInv, Cancel \/ Expire PROVE IInv'
  OBVIOUS
<1>1. /\ pc # "idle" /\ UNCHANGED <<pc, rows, claims, token, oversized, run, loop>>
      /\ (cancelled => cancelled') /\ (expired => expired')
      /\ cancelled' \in BOOLEAN /\ expired' \in BOOLEAN /\ Typed /\ InTurn
  BY DEF Cancel, Expire, IInv, Typed
<1>2. Typed'
  BY <1>1 DEF Typed, rows
<1>3. RunAt(pc', run', cancelled', expired', observer')
  BY <1>1 DEF InTurn, RunAt, Honest, rows
<1>4. InTurn'
  BY <1>1, <1>3 DEF InTurn, rows
<1> QED
  BY <1>1, <1>2, <1>4 DEF IInv

LEMMA StutterHolds == IInv /\ UNCHANGED vars => IInv'
<1> SUFFICES ASSUME IInv, UNCHANGED vars PROVE IInv'
  OBVIOUS
<1>1. UNCHANGED <<pc, log, cancelled, expired, observer, dirty, claims, token, oversized, run,
                  loop>>
  BY DEF vars, env, rows
<1>2. Typed' /\ (InTurn => InTurn') /\ (AtRest => AtRest')
  BY <1>1
  DEF IInv, Typed, InTurn, AtRest, TurnLeavesRecordOnly, ReturnedIsRecorded, ReadyForNextTurn
<1> QED
  BY <1>1, <1>2 DEF IInv

LEMMA InitHolds == Init => IInv
<1> SUFFICES ASSUME Init PROVE IInv
  OBVIOUS
<1>1. PICK l : l = L!EmptyLog
  OBVIOUS
<1>2. /\ 0 \in 0..MaxTurns /\ 1 \in 1..(MaxTurns + 1) /\ 0 \in 0..MaxSteps
      /\ 1 \in 1..(MaxSteps + 1) /\ 0 \in 0..MaxOrphans /\ <<>> \in Seq(Calls)
      /\ L!NoCalls \in [Calls -> DriverCalls]
  BY Bounds, CallFields
<1>3. l \in DriverLogs
  BY <1>1, <1>2 DEF L!EmptyLog, DriverLogs, Slots, Finishes, Brackets
<1>4. Rested(l) /\ Marked(l)
  BY <1>1 DEF L!EmptyLog, Rested, Marked
<1>5. loop \in Loops /\ loop.result = "none"
  BY DEF Init, Loops, Words
<1>6. Typed
  BY <1>1, <1>3, <1>4, <1>5, FreshRun DEF Init, Typed
<1>7. ReturnedIsRecorded /\ ReadyForNextTurn
  BY <1>1, <1>4, <1>5 DEF Init, ReturnedIsRecorded, ReadyForNextTurn, Rested
<1>8. log.started \subseteq log.scheduled
  BY <1>1, <1>4 DEF Init, Rested
<1> QED
  BY <1>1, <1>4, <1>6, <1>7, <1>8 DEF Init, IInv, AtRest, TurnLeavesRecordOnly

LEMMA StepHolds == IInv /\ [Next]_vars => IInv'
<1> SUFFICES ASSUME IInv, [Next]_vars PROVE IInv'
  OBVIOUS
<1>1. CASE \/ Opened \/ Top \/ FirstPrepared \/ Trigger \/ PruneNext \/ PruneRewrite
           \/ PruneBarrier \/ HardPruned \/ Reprepared \/ PressurePruned \/ Pressed
  BY <1>1, OpenedHolds, TopHolds, FirstPreparedHolds, TriggerHolds, PruneNextHolds,
     PruneRewriteHolds, PruneBarrierHolds, HardPrunedHolds, RepreparedHolds,
     PressurePrunedHolds, PressedHolds
<1>2. CASE \/ Compact \/ BracketStart \/ BracketBarrier \/ SummaryStopped \/ SummaryItem
           \/ SummaryReady \/ SummaryLogged \/ EndBracket \/ EndBracketBarrier \/ AfterCompaction
  BY <1>2, CompactHolds, BracketStartHolds, BracketBarrierHolds, SummaryStoppedHolds,
     SummaryItemHolds, SummaryReadyHolds, SummaryLoggedHolds, EndBracketHolds,
     EndBracketBarrierHolds, AfterCompactionHolds
<1>3. CASE \/ EnterStep \/ LogInputs \/ NextAttempt \/ LogHeader \/ LogContext
           \/ Undispatchable \/ Dispatch \/ StreamStopped \/ StreamItem \/ Interrupted
  BY <1>3, EnterStepHolds, LogInputsHolds, NextAttemptHolds, LogHeaderHolds, LogContextHolds,
     UndispatchableHolds, DispatchHolds, StreamStoppedHolds, StreamItemHolds, InterruptedHolds
<1>4. CASE \/ FailedAttempt \/ RetryBarrier \/ Backoff \/ Answer \/ AnswerBarrier
           \/ RoundBarrier \/ RoundCall \/ RoundFlush \/ RoundResult \/ RoundFailed \/ RoundDone
  BY <1>4, FailedAttemptHolds, RetryBarrierHolds, BackoffHolds, AnswerHolds, AnswerBarrierHolds,
     RoundBarrierHolds, RoundCallHolds, RoundFlushHolds, RoundResultHolds, RoundFailedHolds,
     RoundDoneHolds
<1>5. CASE \/ EndStep \/ EndBarrier \/ Classify \/ EndTurn \/ FinishTurn \/ StartTurn
           \/ Cancel \/ Expire \/ Abandon \/ UNCHANGED vars
  BY <1>5, EndStepHolds, EndBarrierHolds, ClassifyHolds, EndTurnHolds, FinishTurnHolds,
     StartTurnHolds, StopsHold, AbandonHolds, StutterHolds
<1> QED
  BY <1>1, <1>2, <1>3, <1>4, <1>5 DEF Next, Step, Provider

-----------------------------------------------------------------------------
(* What the invariant says.                                                *)

LEMMA SaysTyped == IInv => TypeOK
<1> SUFFICES ASSUME IInv PROVE TypeOK
  OBVIOUS
<1>1. log \in DriverLogs /\ run \in Runs /\ loop \in Loops /\ Typed
  BY DEF IInv, Typed
<1>2. log.started \subseteq log.scheduled
  BY DEF IInv, InTurn, LogAt, RetriesAt, AtRest
<1>3. log.asked = {} /\ log.owned = {}
  BY <1>1 DEF DriverLogs
<1>4. log \in L!Logs
  <2>1. DriverCalls \subseteq L!CallStates
    BY DEF DriverCalls, L!CallStates
  <2>2. log.call \in [Calls -> L!CallStates]
    BY <1>1, <2>1 DEF DriverLogs
  <2> QED
    BY <1>1, <2>2, Alphabets
    DEF DriverLogs, L!Logs, Slots, Finishes, Brackets, Retries
<1>5. /\ run.steps \in 0..MaxSteps /\ run.attempts \in 0..MaxAttempts
      /\ run.retries \in 0..MaxRetries /\ run.prep \in Preps \cup {"none"}
  BY <1>1 DEF Runs
<1>6. loop.result \in {"none", "ok", "err"}
  BY <1>1 DEF Loops
<1> QED
  BY <1>1, <1>2, <1>3, <1>4, <1>5, <1>6 DEF TypeOK, L!TypeOK, Typed

LEMMA SaysOwned == IInv => OpenIsOwned
<1> SUFFICES ASSUME IInv, pc # "idle" PROVE OpenIsOwned
  BY DEF OpenIsOwned
<1>1. /\ claims = ClaimsAt(pc) /\ PlaceAt(pc, log, run) /\ SlotAt(pc, log, token)
      /\ BracketAt(pc, log)
  BY DEF IInv, InTurn, LogAt
<1>2. log.turn # 0 => "turnEnd" \in claims
  BY <1>1 DEF PlaceAt, ClaimsAt
<1>3. log.step # 0 => "stepEnd" \in claims
  BY <1>1 DEF PlaceAt, ClaimsAt
<1>4. log.compaction # "none" => "bracketEnd" \in claims
  BY <1>1 DEF BracketAt, ClaimsAt, Bracket
<1>5. token = "open" <=> log.attempt \in L!OpenAttempt
  BY <1>1, Alphabets DEF SlotAt, L!Compatible, Asking
<1>6. token = "closed" => log.attempt \in {"retryScheduled", "committed", "outside"}
  BY <1>1 DEF SlotAt, Asking
<1> QED
  BY <1>2, <1>3, <1>4, <1>5, <1>6 DEF OpenIsOwned

LEMMA SaysClosed == IInv => OpenIsClosed
<1> SUFFICES ASSUME IInv PROVE OpenIsClosed
  OBVIOUS
<1>1. TurnLeavesRecordOnly
  BY DEF IInv, AtRest, TurnLeavesRecordOnly, ReturnedIsRecorded, ReadyForNextTurn
<1> QED
  BY <1>1, SaysOwned DEF OpenIsClosed

\* Only two actions open a provider stream.
LEMMA Openers ==
  ASSUME [Next]_vars, pc' \in {"streaming", "summarizing"}, pc' # pc
  PROVE  Dispatch \/ BracketBarrier
<1>1. pc' # pc /\ ~(UNCHANGED vars)
  BY DEF vars
<1>2. ~(\/ Opened \/ Top \/ FirstPrepared \/ Trigger \/ Reprepared \/ Pressed)
  BY DEF Opened, Top, FirstPrepared, Trigger, Reprepared, Pressed, Close, CloseUnstarted, Goto
<1>3. ~(\/ PruneNext \/ PruneRewrite \/ PruneBarrier \/ HardPruned \/ PressurePruned)
  BY DEF PruneNext, PruneRewrite, PruneBarrier, HardPruned, PressurePruned, Pruned, Close,
         CloseUnstarted, Goto
<1>4. ~(\/ Compact \/ BracketStart \/ SummaryStopped \/ SummaryItem \/ SummaryReady)
  BY DEF Compact, BracketStart, SummaryStopped, SummaryItem, SummaryReady, Compacted,
         CloseBracket, Goto
<1>5. ~(\/ SummaryLogged \/ EndBracket \/ EndBracketBarrier \/ AfterCompaction \/ EnterStep)
  BY DEF SummaryLogged, EndBracket, EndBracketBarrier, AfterCompaction, EnterStep, Compacted,
         CloseBracket, Close, CloseUnstarted, Goto
<1>6. ~(\/ LogInputs \/ NextAttempt \/ LogHeader \/ LogContext \/ Undispatchable
        \/ StreamStopped \/ StreamItem \/ Interrupted \/ FailedAttempt)
  BY <1>1 DEF LogInputs, NextAttempt, LogHeader, LogContext, Undispatchable, StreamStopped,
         StreamItem, Interrupted, FailedAttempt, StepDone, Goto
<1>7. ~(\/ RetryBarrier \/ Backoff \/ Answer \/ AnswerBarrier \/ RoundBarrier \/ RoundCall
        \/ RoundFlush \/ RoundResult \/ RoundFailed \/ RoundDone)
  BY <1>1 DEF RetryBarrier, Backoff, Answer, AnswerBarrier, RoundBarrier, RoundCall, RoundFlush,
         RoundResult, RoundFailed, RoundDone, StepDone, Goto
<1>8. ~(\/ EndStep \/ EndBarrier \/ Classify \/ EndTurn \/ FinishTurn \/ StartTurn
        \/ Cancel \/ Expire \/ Abandon)
  BY <1>1 DEF EndStep, EndBarrier, Classify, EndTurn, FinishTurn, StartTurn, Cancel, Expire,
         Abandon, Close, Goto
<1> QED
  BY <1>1, <1>2, <1>3, <1>4, <1>5, <1>6, <1>7, <1>8 DEF Next, Step, Provider

LEMMA NoInterrupt == Interrupt = "none" => ~cancelled /\ ~expired
BY DEF Interrupt

LEMMA DispatchStep ==
  ASSUME IInv, [Next]_vars, pc' \in {"streaming", "summarizing"}, pc' # pc
  PROVE  /\ ~dirty' /\ observer' = "up"
         /\ ~cancelled /\ ~expired /\ ~run.limit /\ ~run.lost
         /\ pc' = "streaming" => run.fresh
         /\ pc' = "summarizing" => run'.attempts < MaxAttempts
<1>1. Dispatch \/ BracketBarrier
  BY Openers
<1>2. CASE Dispatch
  <2>1. /\ pc = "dispatch" /\ pc # "idle" /\ run.fresh /\ dirty' = FALSE /\ observer' = observer
        /\ pc' = "streaming" /\ observer # "down" /\ Interrupt = "none"
    BY <1>2 DEF Dispatch, StepDone, Goto
  <2>2. observer = "up" /\ ~run.limit /\ ~run.lost
    BY <2>1 DEF IInv, Typed, InTurn, RunAt, LatchedAt
  <2> QED
    BY <2>1, <2>2, NoInterrupt
<1>3. CASE BracketBarrier
  <2>1. /\ pc = "bracketBarrier" /\ pc # "idle" /\ dirty' = FALSE /\ observer' = observer
        /\ pc' = "summarizing" /\ run' = run /\ observer # "down" /\ Interrupt = "none"
    <3>1. observer \in {"up", "down"}
      BY DEF IInv, Typed
    <3> QED
      BY <1>3, <3>1 DEF BracketBarrier, Flush, CloseBracket, Goto
  <2>2. observer = "up" /\ ~run.limit /\ ~run.lost /\ run.attempts < MaxAttempts
    BY <2>1 DEF IInv, Typed, InTurn, RunAt, LatchedAt
  <2> QED
    BY <2>1, <2>2, NoInterrupt
<1> QED
  BY <1>1, <1>2, <1>3

\* Only two actions give a turn up.
LEMMA Closers ==
  ASSUME IInv, [Next]_vars, pc # "idle", pc' = "idle"
  PROVE  FinishTurn \/ Abandon
<1>1. pc' # pc /\ ~(UNCHANGED vars)
  BY DEF vars
<1>2. ~(\/ Opened \/ Top \/ FirstPrepared \/ Trigger \/ Reprepared \/ Pressed)
  BY DEF Opened, Top, FirstPrepared, Trigger, Reprepared, Pressed, Close, CloseUnstarted, Goto
<1>3. ~(\/ PruneNext \/ PruneRewrite \/ PruneBarrier \/ HardPruned \/ PressurePruned)
  BY DEF PruneNext, PruneRewrite, PruneBarrier, HardPruned, PressurePruned, Pruned, Close,
         CloseUnstarted, Goto
<1>4. ~(\/ Compact \/ BracketStart \/ BracketBarrier \/ SummaryStopped \/ SummaryItem
        \/ SummaryReady)
  BY DEF Compact, BracketStart, BracketBarrier, SummaryStopped, SummaryItem, SummaryReady,
         Compacted, CloseBracket, Goto
<1>5. ~(\/ SummaryLogged \/ EndBracket \/ EndBracketBarrier \/ AfterCompaction \/ EnterStep)
  BY DEF SummaryLogged, EndBracket, EndBracketBarrier, AfterCompaction, EnterStep, Compacted,
         CloseBracket, Close, CloseUnstarted, Goto
<1>6. ~(\/ LogInputs \/ NextAttempt \/ LogHeader \/ LogContext \/ Undispatchable \/ Dispatch
        \/ StreamStopped \/ StreamItem \/ Interrupted \/ FailedAttempt)
  BY <1>1 DEF LogInputs, NextAttempt, LogHeader, LogContext, Undispatchable, Dispatch,
         StreamStopped, StreamItem, Interrupted, FailedAttempt, StepDone, Goto
<1>7. ~(\/ RetryBarrier \/ Backoff \/ Answer \/ AnswerBarrier \/ RoundBarrier \/ RoundCall
        \/ RoundFlush \/ RoundResult \/ RoundFailed \/ RoundDone)
  BY <1>1 DEF RetryBarrier, Backoff, Answer, AnswerBarrier, RoundBarrier, RoundCall, RoundFlush,
         RoundResult, RoundFailed, RoundDone, StepDone, Goto
<1>8. ~(\/ EndStep \/ EndBarrier \/ Classify \/ EndTurn \/ StartTurn \/ Cancel \/ Expire)
  BY <1>1 DEF EndStep, EndBarrier, Classify, EndTurn, StartTurn, Cancel, Expire, Close, Goto
<1> QED
  BY <1>1, <1>2, <1>3, <1>4, <1>5, <1>6, <1>7, <1>8 DEF Next, Step, Provider

LEMMA FailureStep ==
  ASSUME IInv, [Next]_vars, pc # "idle", pc' = "idle",
         run.limit \/ run.lost \/ (run.fallback /\ Durable)
  PROVE  loop'.result = "err" /\ loop'.poisoned
<1>1. loop \in Loops /\ run \in Runs
  BY DEF IInv, Typed
<1>2. CASE FinishTurn
  <2>1. run.lost => observer = "down"
    BY DEF IInv, InTurn, RunAt
  <2>2. ReturnsErr
    BY <2>1 DEF ReturnsErr
  <2>3. loop' = [loop EXCEPT !.result = "err", !.reason = run.reason, !.poisoned = TRUE]
    BY <1>2, <2>2 DEF FinishTurn
  <2>4. run.reason \in Words
    BY <1>1 DEF Runs
  <2>5. PICK y \in Loops : y = [loop EXCEPT !.result = "err", !.reason = run.reason,
                                            !.poisoned = TRUE]
    BY <1>1, <2>4 DEF Loops
  <2>6. y.result = "err" /\ y.poisoned = TRUE
    BY <1>1, <2>5 DEF Loops
  <2> QED
    BY <2>3, <2>5, <2>6
<1>3. CASE Abandon
  <2>1. PICK y \in Loops : y = [loop EXCEPT !.poisoned = TRUE, !.result = "err"]
    BY <1>1 DEF Loops
  <2>2. y.result = "err" /\ y.poisoned = TRUE
    BY <1>1, <2>1 DEF Loops
  <2> QED
    BY <1>3, <2>1, <2>2 DEF Abandon
<1> QED
  BY <1>2, <1>3, Closers
-----------------------------------------------------------------------------
(* Every row is one the grammar admits.                                    *)

Silent == UNCHANGED log

\* What the rows of a turn meet: no approval waits and no recovery runs, the
\* turn is open, and a bracket only where the turn is inside one.
LEMMA Meets ==
  ASSUME IInv, pc \in Points \ {"finalBarrier"}
  PROVE  /\ log \in DriverLogs /\ run \in Runs /\ LogAt(pc, log, run, token)
         /\ log.turn \in L!Turns /\ log.turn # 0 /\ log.asked = {} /\ log.owned = {}
         /\ log.overflow = "unused" /\ pc # "idle"
         /\ pc \in Stepping => log.step \in L!Steps /\ log.step # 0
         /\ pc \notin Stepping => log.step = 0 /\ log.nextStep = run.steps + 1
         /\ pc \notin Bracket \ {"bracketStart"} => L!Free(log)
<1>1. /\ pc # "idle" /\ Typed /\ LogAt(pc, log, run, token) /\ log \in DriverLogs
      /\ run \in Runs
  BY Sets DEF IInv, InTurn, Typed
<1>2. /\ log.asked = {} /\ log.owned = {} /\ log.overflow = "unused"
      /\ log.turn \in 0..MaxTurns /\ log.step \in 0..MaxSteps
  BY <1>1 DEF DriverLogs
<1>3. /\ log.turn # 0
      /\ pc \in Stepping => log.step # 0
      /\ pc \notin Stepping => log.step = 0 /\ log.nextStep = run.steps + 1
  BY <1>1 DEF LogAt, PlaceAt
<1>4. log.turn \in L!Turns /\ (pc \in Stepping => log.step \in L!Steps)
  <2>1. log.turn \in 1..MaxTurns
    BY <1>2, <1>3, Bounds
  <2>2. log.step # 0 => log.step \in 1..MaxSteps
    BY <1>2, Bounds
  <2> QED
    BY <1>3, <2>1, <2>2, Alphabets
<1>5. pc \notin Bracket \ {"bracketStart"} => L!Free(log)
  BY <1>1 DEF LogAt, BracketAt, L!Free, Bracket
<1> QED
  BY <1>1, <1>2, <1>3, <1>4, <1>5

LEMMA TurnStartAdmitted == IInv /\ StartTurn => L!TurnStart \/ Silent
<1> SUFFICES ASSUME IInv, StartTurn, ~Silent PROVE L!TurnStart
  OBVIOUS
<1>1. /\ ~loop.poisoned /\ log.turn = 0 /\ log.nextTurn <= MaxTurns /\ pc = "idle"
      /\ log' = L!AfterTurnStart(log, log.nextTurn)
  BY DEF StartTurn, Commit, Silent, rows
<1>2. log \in DriverLogs /\ log.compaction = "none"
  BY <1>1 DEF IInv, Typed, AtRest, Rested
<1>3. log.nextTurn \in L!Turns
  <2>1. log.nextTurn \in 1..(MaxTurns + 1)
    BY <1>2 DEF DriverLogs
  <2> QED
    BY <1>1, <2>1, Alphabets, Bounds
<1>4. L!CanTurnStart(log, log.nextTurn)
  BY <1>1, <1>2 DEF L!CanTurnStart, L!Free
<1> QED
  BY <1>1, <1>3, <1>4 DEF L!TurnStart

LEMMA TurnEndAdmitted == IInv /\ EndTurn => L!TurnEnd
<1> SUFFICES ASSUME IInv, EndTurn PROVE L!TurnEnd
  OBVIOUS
<1>1. /\ log' = L!AfterTurnEnd(log, log.turn) /\ pc = "closing"
      /\ pc \in Points \ {"finalBarrier"} /\ pc \notin Stepping /\ pc \notin Bracket
  BY DEF EndTurn, Commit, Points, Boundary, Stepping, Asking, Attempting, Rounds, Bracket
<1>2. L!CanTurnEnd(log, log.turn, "normal") /\ log.turn \in L!Turns
  BY <1>1, Meets DEF L!CanTurnEnd
<1> QED
  BY <1>1, <1>2 DEF L!TurnEnd

LEMMA StepStartAdmitted == IInv /\ EnterStep => L!StepStart \/ Silent
<1> SUFFICES ASSUME IInv, EnterStep, ~Silent PROVE L!StepStart
  OBVIOUS
<1>1. /\ log' = L!AfterStepStart(log, run.steps + 1) /\ pc = "enter"
      /\ pc \in Points \ {"finalBarrier"} /\ pc \notin Stepping /\ pc \notin Bracket
      /\ pc \in Unentered /\ pc \notin Asking
  BY DEF EnterStep, Commit, Silent, NoRow, rows, Points, Unentered, Stepping, Asking, Attempting,
         Rounds, Bracket
<1>2. log.attempt = "outside" /\ run.steps < MaxSteps
  BY <1>1, Meets DEF LogAt, SlotAt, PlaceAt
<1>3. run.steps + 1 \in L!Steps
  <2>1. run.steps \in 0..MaxSteps
    BY <1>1, Meets DEF Runs
  <2> QED
    BY <1>2, <2>1, Alphabets, Bounds
<1>4. L!CanStepStart(log, log.turn, run.steps + 1) /\ log.turn \in L!Turns
  BY <1>1, <1>2, Meets DEF L!CanStepStart
<1> QED
  BY <1>1, <1>3, <1>4 DEF L!StepStart

LEMMA StepEndAdmitted == IInv /\ EndStep => L!StepEnd
<1> SUFFICES ASSUME IInv, EndStep PROVE L!StepEnd
  OBVIOUS
<1>1. /\ log' = L!AfterStepEnd(log, log.step) /\ pc = "stepEnd"
      /\ Durable => \A c \in Calls : log.call[c].stage \in {"absent", "answered"}
      /\ pc \in Points \ {"finalBarrier"} /\ pc \in Stepping /\ pc \notin Bracket
      /\ pc \notin Asking
  BY DEF EndStep, Commit, Points, Stepping, Asking, Bracket
<1>2. \E d \in L!Dispositions \cup {"none"} : L!ClosesAttempt(log, d)
  <2>1. \/ log.attempt \in L!OpenAttempt
        \/ log.attempt \in L!ClosedAttempt \/ L!Compatible(log)
    BY <1>1, Meets DEF LogAt, SlotAt
  <2>2. log.attempt \in L!OpenAttempt => L!ClosesAttempt(log, "failed")
    BY DEF L!ClosesAttempt
  <2>3. log.attempt \in L!ClosedAttempt \/ L!Compatible(log) => L!ClosesAttempt(log, "none")
    BY DEF L!ClosesAttempt
  <2> QED
    BY <2>1, <2>2, <2>3 DEF L!Dispositions
<1>3. \A d : L!ClosesAttempt(log, d) => L!CanStepEnd(log, log.turn, log.step, d)
  BY <1>1, Meets DEF L!CanStepEnd, L!AllAnswered, L!InStep
<1>4. log.turn \in L!Turns /\ log.step \in L!Steps
  BY <1>1, Meets
<1> QED
  BY <1>1, <1>2, <1>3, <1>4 DEF L!StepEnd

LEMMA NoteAdmitted == IInv /\ (LogInputs \/ LogHeader \/ LogContext) => L!Note \/ Silent
<1> SUFFICES ASSUME IInv, LogInputs \/ LogHeader \/ LogContext, ~Silent PROVE L!Note
  OBVIOUS
<1>1. log' = L!AfterNote(log) /\ pc \in {"inputs", "header", "context"}
  BY DEF LogInputs, LogHeader, LogContext, Commit, Silent, NoRow, rows
<1>2. /\ pc \in Points \ {"finalBarrier"} /\ pc \notin Bracket
  BY <1>1 DEF Points, Stepping, Asking, Bracket
<1>3. L!CanNote(log, FALSE)
  BY <1>2, Meets DEF L!CanNote
<1> QED
  BY <1>1, <1>3 DEF L!Note

LEMMA DispatchAdmitted == IInv /\ Dispatch => L!Dispatch \/ Silent
<1> SUFFICES ASSUME IInv, Dispatch, ~Silent PROVE L!Dispatch
  OBVIOUS
<1>1. /\ log' = L!AfterDispatch(log) /\ pc = "dispatch" /\ pc \in Asking
      /\ pc \in Points \ {"finalBarrier"} /\ pc \in Stepping /\ pc \notin Bracket
  BY DEF Dispatch, Silent, Points, Stepping, Asking, Bracket
<1>2. log.attempt = "ready" \/ L!Compatible(log)
  BY <1>1, Meets DEF LogAt, SlotAt
<1>3. L!CanDispatch(log, log.turn, log.step)
  BY <1>1, <1>2, Meets DEF L!CanDispatch, L!MayReplay, L!InStep
<1> QED
  BY <1>1, <1>3, Meets DEF L!Dispatch

LEMMA StreamAdmitted == IInv /\ StreamItem => L!Chunk \/ L!Seal \/ Silent
<1> SUFFICES ASSUME IInv, StreamItem, ~Silent PROVE L!Chunk \/ L!Seal
  OBVIOUS
<1>1. /\ pc = "streaming" /\ pc \in Points \ {"finalBarrier"} /\ pc \in Stepping
      /\ pc \notin Bracket
  BY DEF StreamItem, Points, Stepping, Attempting, Bracket
<1>2. CASE log.attempt = "finished" /\ log' = L!AfterSeal(log)
  BY <1>2 DEF L!Seal, L!CanSeal
<1>3. CASE /\ log.attempt = "streaming"
           /\ \E finish \in {"more", "ok"} \cup L!Failures :
                log' = L!AfterChunk(log, finish, TRUE)
  <2>1. L!CanChunk(log, log.turn, log.step, TRUE)
    BY <1>1, <1>3, Meets DEF L!CanChunk, L!AttemptRow, L!InStep
  <2> QED
    BY <1>1, <1>3, <2>1, Meets DEF L!Chunk
<1> QED
  BY <1>2, <1>3 DEF StreamItem, Commit, Silent, NoRow, rows

\* A sealed attempt may be answered, or scheduled again when it failed.
LEMMA SealedMeets ==
  ASSUME IInv, pc = "sealed"
  PROVE  /\ log \in DriverLogs /\ run \in Runs /\ log.turn \in L!Turns /\ log.step \in L!Steps
         /\ L!Free(log) /\ L!InStep(log, log.turn, log.step)
         /\ L!AttemptRow(log, TRUE) /\ L!TerminalAttempt(log)
         /\ log.call = L!NoCalls /\ OwnRetries(log, run.retries)
<1>1. /\ pc \in Points \ {"finalBarrier"} /\ pc \in Stepping /\ pc \notin Bracket
      /\ pc \notin Asking
  BY DEF Points, Stepping, Asking, Attempting, Bracket
<1>2. log.attempt = "sealed" /\ OwnRetries(log, run.retries)
  BY <1>1, Meets DEF LogAt, SlotAt, RetriesAt
<1> QED
  BY <1>1, <1>2, Meets, InSealed DEF L!InStep, L!AttemptRow, L!TerminalAttempt

LEMMA AnswerAdmitted == IInv /\ Answer => L!AssistantMessage \/ Silent
<1> SUFFICES ASSUME IInv, Answer, ~Silent PROVE L!AssistantMessage
  OBVIOUS
<1>1. pc = "sealed" /\ log.finish = "ok"
  BY DEF Answer
<1>2. <<>> \in L!CallLists
  <2>1. L!Cardinality(Calls) = Cardinality(Calls) /\ Cardinality(Calls) \in Nat
    BY FS_CardinalityType, DriverIds DEF L!Cardinality, Cardinality
  <2>2. 0 \in 0..L!Cardinality(Calls) /\ <<>> \in [1..0 -> Calls]
    BY <2>1
  <2>3. \A i, j \in DOMAIN <<>> : i # j => <<>>[i] # <<>>[j]
    OBVIOUS
  <2> QED
    BY <2>2, <2>3 DEF L!CallLists
<1>3. PICK calls \in L!CallLists : log' = L!AfterAssistant(log, calls, TRUE)
  BY <1>2 DEF Answer, Commit, Silent, NoRow, rows
<1>4. calls \in Seq(Calls) /\ \A i, j \in 1..Len(calls) : i # j => calls[i] # calls[j]
  BY Answers
<1>5. \A i \in DOMAIN calls : calls[i] \in Calls
  BY <1>4
<1>6. DOMAIN calls = 1..Len(calls)
  BY <1>4
<1>7. L!CanAssistant(log, log.turn, log.step, calls, TRUE)
  BY <1>1, <1>4, <1>5, <1>6, SealedMeets, CallFields DEF L!CanAssistant
<1> QED
  BY <1>1, <1>3, <1>7, SealedMeets DEF L!AssistantMessage

\* The retries of a step are numbered without a gap.
LEMMA RetriesCounted ==
  ASSUME NEW l \in DriverLogs, NEW n \in Nat, OwnRetries(l, n)
  PROVE  L!Cardinality(L!RetriesOf(l, l.turn, l.step)) = n
<1> DEFINE f == [k \in 1..n |-> <<l.turn, l.step, k>>]
           S == {<<l.turn, l.step, k>> : k \in 1..n}
<1>1. f \in Bijection(1..n, S)
  <2>1. f \in [1..n -> S] /\ \A t \in S : \E k \in 1..n : f[k] = t
    OBVIOUS
  <2>2. \A i, j \in 1..n : f[i] = f[j] => i = j
    OBVIOUS
  <2> HIDE DEF f, S
  <2> QED
    BY <2>1, <2>2 DEF Bijection, Injection, Surjection, IsInjective
<1>2. IsFiniteSet(1..n) /\ Cardinality(1..n) = n
  BY FS_Interval
<1>3. Cardinality(S) = n
  BY <1>1, <1>2, FS_Bijection DEF ExistsBijection
<1>4. L!Cardinality(S) = Cardinality(S)
  BY DEF L!Cardinality, Cardinality
<1> QED
  BY <1>3, <1>4 DEF OwnRetries

LEMMA RetryAdmitted == IInv /\ FailedAttempt => L!LlmRetry \/ Silent
<1> SUFFICES ASSUME IInv, FailedAttempt, ~Silent PROVE L!LlmRetry
  OBVIOUS
<1>1. /\ pc = "sealed" /\ log.finish \in L!Failures /\ run.retries < MaxRetries
      /\ log' = L!AfterRetry(log, log.turn, log.step, run.retries + 1, TRUE)
  BY DEF FailedAttempt, Commit, Silent, NoRow, rows
<1>2. run.retries \in 0..MaxRetries
  BY <1>1, SealedMeets DEF Runs
<1>3. run.retries \in Nat /\ run.retries + 1 \in 1..MaxRetries
  BY <1>1, <1>2, Bounds
<1>4. L!Cardinality(L!RetriesOf(log, log.turn, log.step)) = run.retries
  BY <1>1, <1>3, SealedMeets, RetriesCounted
<1>5. L!CanRetry(log, log.turn, log.step, run.retries + 1, TRUE)
  BY <1>1, <1>4, SealedMeets DEF L!CanRetry
<1> QED
  BY <1>1, <1>3, <1>5, SealedMeets DEF L!LlmRetry

LEMMA RetryStartAdmitted == IInv /\ Backoff => L!LlmRetryStarted \/ Silent
<1> SUFFICES ASSUME IInv, Backoff, ~Silent PROVE L!LlmRetryStarted
  OBVIOUS
<1>1. /\ pc = "backoff" /\ pc \in Points \ {"finalBarrier"} /\ pc \in Stepping
      /\ pc \notin Bracket /\ pc \notin Asking
      /\ log' = L!AfterRetryStarted(log, log.turn, log.step, run.retries)
  BY DEF Backoff, Commit, Silent, NoRow, rows, Points, Stepping, Asking, Attempting, Bracket
<1>2. /\ log.attempt = "retryScheduled" /\ OwnRetries(log, run.retries) /\ run.retries # 0
      /\ <<log.turn, log.step, run.retries>> \notin log.started
  BY <1>1, Meets DEF LogAt, SlotAt, RetriesAt
<1>3. run.retries \in 1..MaxRetries
  <2>1. run.retries \in 0..MaxRetries
    BY <1>1, Meets DEF Runs
  <2> QED
    BY <1>2, <2>1, Bounds
<1>4. <<log.turn, log.step, run.retries>> \in log.scheduled
  <2>1. run.retries \in 1..run.retries
    BY <1>3
  <2> QED
    BY <1>2, <2>1 DEF OwnRetries, L!RetriesOf
<1>5. L!CanRetryStarted(log, log.turn, log.step, run.retries)
  BY <1>1, <1>2, <1>4, Meets DEF L!CanRetryStarted
<1> QED
  BY <1>1, <1>3, <1>5, Meets DEF L!LlmRetryStarted

LEMMA ToolCallAdmitted == IInv /\ RoundCall => L!ToolCall
<1> SUFFICES ASSUME IInv, RoundCall PROVE L!ToolCall
  OBVIOUS
<1>1. /\ pc = "round" /\ run.todo # <<>> /\ log' = L!AfterToolCall(log, Head(run.todo))
      /\ pc \in Points \ {"finalBarrier"} /\ pc \in Stepping /\ pc \notin Bracket
      /\ pc \in Rounds
  BY DEF RoundCall, Commit, Points, Stepping, Rounds, Bracket
<1>2. log \in DriverLogs /\ run.todo \in Seq(Calls) /\ (Durable => InOrder(log, run.todo))
  BY <1>1, InRound
<1>3. PICK c \in Calls, rest \in Seq(Calls) : c = Head(run.todo) /\ rest = Tail(run.todo)
  <2>1. \A t \in Seq(Calls) : t # <<>> => Head(t) \in Calls /\ Tail(t) \in Seq(Calls)
    OBVIOUS
  <2> QED
    BY <1>1, <1>2, <2>1
<1>4. ASSUME Durable PROVE L!IsNextCall(log, c)
  <2>1. PICK n : n = Begun(log, run.todo) + 1
    OBVIOUS
  <2>2. IsNext(log, n, c, rest)
    BY <1>1, <1>2, <1>3, <1>4, <2>1, NextCall
  <2>3. log.order \in Seq(Calls)
    BY <1>2 DEF DriverLogs
  <2>4. /\ DOMAIN log.order = 1..Len(log.order) /\ Len(log.order) \in Nat
        /\ n \in 1..Len(log.order)
    BY <2>2, <2>3 DEF IsNext
  <2>5. \A j \in 1..(n - 1) : j \in 1..Len(log.order) /\ j < n
    BY <2>4
  <2> QED
    BY <2>2, <2>4, <2>5 DEF IsNext, L!IsNextCall
<1>5. L!CanToolCall(log, log.turn, log.step, c)
  BY <1>1, <1>4, Meets DEF L!CanToolCall, L!InStep
<1> QED
  BY <1>1, <1>3, <1>5, Meets DEF L!ToolCall

LEMMA ToolResultAdmitted == IInv /\ RoundResult => L!ToolResult
<1> SUFFICES ASSUME IInv, RoundResult PROVE L!ToolResult
  OBVIOUS
<1>1. /\ pc = "round" /\ pc \in Points \ {"finalBarrier"} /\ pc \in Stepping
      /\ pc \notin Bracket
  BY DEF RoundResult, Points, Stepping, Rounds, Bracket
<1>2. PICK c \in Calls, code \in {"ok", "error"} :
        Running(c) /\ log' = L!AfterToolResult(log, c, code)
  BY DEF RoundResult, Commit
<1>3. log.call[c].approval = "none"
  <2>1. log.call[c] \in DriverCalls
    BY <1>1, Meets DEF DriverLogs
  <2> QED
    BY <2>1 DEF DriverCalls
<1>4. L!HonoursDecision(log, c, code)
  BY <1>3 DEF L!HonoursDecision, L!Outcomes
<1>5. L!CanToolResult(log, log.turn, log.step, c, code)
  BY <1>1, <1>2, <1>4, Meets DEF L!CanToolResult, L!InStep, Running
<1> QED
  BY <1>1, <1>2, <1>5, Meets, Alphabets DEF L!ToolResult

LEMMA PruneAdmitted == IInv /\ PruneNext => L!CompactionPrune \/ Silent
<1> SUFFICES ASSUME IInv, PruneNext, ~Silent PROVE L!CompactionPrune
  OBVIOUS
<1>1. /\ pc = "prune" /\ pc \in Points \ {"finalBarrier"} /\ pc \notin Bracket
      /\ Durable /\ L!Row(log).orphans < MaxOrphans
  BY DEF PruneNext, Silent, NoRow, rows, Points, Unentered, Bracket
<1>2. PICK c \in oversized : log' = L!AfterPrune(log, c, FALSE)
  BY DEF PruneNext, Commit, Silent, NoRow, rows
<1>3. c \in log.results /\ c \in Calls
  <2>1. oversized \subseteq log.results /\ log.results \subseteq Calls
    BY DEF IInv, Typed, DriverLogs
  <2> QED
    BY <2>1
<1>4. L!CanPrune(log, c, TRUE, FALSE)
  BY <1>1, <1>3, Meets DEF L!CanPrune
<1> QED
  BY <1>1, <1>2, <1>3, <1>4 DEF L!CompactionPrune

LEMMA RewriteAdmitted == IInv /\ PruneRewrite => L!Rewrite \/ Silent
<1> SUFFICES ASSUME IInv, PruneRewrite, ~Silent PROVE L!Rewrite
  OBVIOUS
<1>1. /\ pc = "rewrite" /\ pc \in Points \ {"finalBarrier"} /\ pc \notin Bracket
      /\ log' = L!AfterRewrite(log)
  BY DEF PruneRewrite, Commit, Silent, NoRow, rows, Points, Unentered, Bracket
<1>2. log.marker \in log.results
  BY <1>1, Meets DEF LogAt, BracketAt
<1>3. log.marker \in Calls
  BY <1>1, <1>2, Meets DEF DriverLogs
<1>4. L!CanRewrite(log, log.marker, TRUE)
  BY <1>1, <1>2, Meets DEF L!CanRewrite
<1> QED
  BY <1>1, <1>3, <1>4 DEF L!Rewrite

LEMMA BracketStartAdmitted == IInv /\ BracketStart => L!CompactionStart \/ Silent
<1> SUFFICES ASSUME IInv, BracketStart, ~Silent PROVE L!CompactionStart
  OBVIOUS
<1>1. /\ pc = "bracketStart" /\ pc \in Points \ {"finalBarrier"} /\ pc \notin Stepping
      /\ log' = L!AfterCompactionStart(log, log.turn, FALSE)
  BY DEF BracketStart, Commit, Silent, NoRow, rows, Points, Bracket, Stepping, Asking, Attempting,
         Rounds
<1>2. log.call = L!NoCalls
  BY <1>1, Meets DEF LogAt, CallsAt, Rounds
<1>3. \A c \in Calls : log.call[c].stage \in {"absent", "answered"}
  BY <1>2, CallFields
<1>4. L!CanCompactionStart(log, log.turn, "pressure", FALSE)
  BY <1>1, <1>3, Meets DEF L!CanCompactionStart, L!PlaceOf
<1>5. log.turn \in 0..MaxTurns
  BY <1>1, Meets DEF DriverLogs
<1> QED
  BY <1>1, <1>4, <1>5 DEF L!CompactionStart, L!Triggers

LEMMA SummaryAdmitted == IInv /\ SummaryReady => L!CompactionSummary \/ Silent
<1> SUFFICES ASSUME IInv, SummaryReady, ~Silent PROVE L!CompactionSummary
  OBVIOUS
<1>1. /\ pc = "summaryReady" /\ pc \in Points \ {"finalBarrier"}
      /\ log' = L!AfterSummary(log)
  BY DEF SummaryReady, Commit, Silent, NoRow, rows, Points, Bracket
<1>2. log.compaction = "started"
  BY <1>1, Meets DEF LogAt, BracketAt
<1> QED
  BY <1>1, <1>2 DEF L!CompactionSummary, L!CanSummary

LEMMA CheckpointAdmitted == IInv /\ SummaryLogged => L!Checkpoint \/ Silent
<1> SUFFICES ASSUME IInv, SummaryLogged, ~Silent PROVE L!Checkpoint
  OBVIOUS
<1>1. /\ pc = "summaryLogged" /\ pc \in Points \ {"finalBarrier"}
      /\ \E shadowed \in SUBSET log.results : log' = L!AfterCheckpoint(log, shadowed)
  BY DEF SummaryLogged, Commit, Silent, NoRow, rows, Points, Bracket
<1>2. log.compaction = "summarized" /\ log.marker = "none"
  BY <1>1, Meets DEF LogAt, BracketAt
<1> QED
  BY <1>1, <1>2 DEF L!Checkpoint, L!CanCheckpoint, L!NoMarker

LEMMA BracketEndAdmitted == IInv /\ EndBracket => L!CompactionEnd
<1> SUFFICES ASSUME IInv, EndBracket PROVE L!CompactionEnd
  OBVIOUS
<1>1. /\ pc = "closeBracket" /\ pc \in Points \ {"finalBarrier"}
      /\ log' = L!AfterCompactionEnd(log)
  BY DEF EndBracket, Commit, Points, Bracket
<1>2. log.compaction # "none" /\ log.owner = log.turn
  BY <1>1, Meets DEF LogAt, BracketAt
<1> QED
  BY <1>1, <1>2 DEF L!CompactionEnd, L!CanCompactionEnd

LEMMA Others ==
  ASSUME [Next]_vars
  PROVE  \/ Silent
         \/ StartTurn \/ EndTurn \/ EnterStep \/ EndStep \/ LogInputs \/ LogHeader \/ LogContext
         \/ Dispatch \/ StreamItem \/ Answer \/ FailedAttempt \/ Backoff \/ RoundCall
         \/ RoundResult \/ PruneNext \/ PruneRewrite \/ BracketStart \/ SummaryReady
         \/ SummaryLogged \/ EndBracket
<1>1. CASE \/ Opened \/ Top \/ FirstPrepared \/ Trigger \/ Reprepared \/ Pressed
           \/ HardPruned \/ PressurePruned \/ Compact \/ SummaryStopped \/ SummaryItem
           \/ AfterCompaction \/ NextAttempt \/ Undispatchable \/ StreamStopped \/ Interrupted
           \/ RoundFailed \/ RoundDone \/ Classify
  BY <1>1 DEF Opened, Top, FirstPrepared, Trigger, Reprepared, Pressed, HardPruned,
     PressurePruned, Compact, SummaryStopped, SummaryItem, AfterCompaction, NextAttempt,
     Undispatchable, StreamStopped, Interrupted, RoundFailed, RoundDone, Classify, NoRow, rows,
     Silent
<1>2. CASE \/ PruneBarrier \/ BracketBarrier \/ EndBracketBarrier \/ RetryBarrier
           \/ AnswerBarrier \/ RoundBarrier \/ RoundFlush \/ EndBarrier \/ FinishTurn
  BY <1>2 DEF PruneBarrier, BracketBarrier, EndBracketBarrier, RetryBarrier, AnswerBarrier,
     RoundBarrier, RoundFlush, EndBarrier, FinishTurn, Flush, Silent
<1>3. CASE Cancel \/ Expire \/ Abandon \/ UNCHANGED vars
  BY <1>3 DEF Cancel, Expire, Abandon, rows, vars, Silent
<1> QED
  BY <1>1, <1>2, <1>3 DEF Next, Step, Provider

LEMMA StepAdmitted == IInv /\ [Next]_vars => [L!Next]_log
<1> SUFFICES ASSUME IInv, [Next]_vars, ~Silent PROVE L!Next
  BY DEF Silent
<1>1. CASE StartTurn \/ EndTurn \/ EnterStep \/ EndStep \/ LogInputs \/ LogHeader \/ LogContext
  BY <1>1, TurnStartAdmitted, TurnEndAdmitted, StepStartAdmitted, StepEndAdmitted, NoteAdmitted
  DEF L!Next
<1>2. CASE \/ Dispatch \/ StreamItem \/ Answer \/ FailedAttempt \/ Backoff \/ RoundCall
           \/ RoundResult
  BY <1>2, DispatchAdmitted, StreamAdmitted, AnswerAdmitted, RetryAdmitted, RetryStartAdmitted,
     ToolCallAdmitted, ToolResultAdmitted
  DEF L!Next
<1>3. CASE \/ PruneNext \/ PruneRewrite \/ BracketStart \/ SummaryReady \/ SummaryLogged
           \/ EndBracket
  BY <1>3, PruneAdmitted, RewriteAdmitted, BracketStartAdmitted, SummaryAdmitted,
     CheckpointAdmitted, BracketEndAdmitted
  DEF L!Next
<1> QED
  BY <1>1, <1>2, <1>3, Others

-----------------------------------------------------------------------------
(* The theorems.                                                           *)

\* The points of a turn, what it has reserved, written and latched: the fact
\* the others rest on.
THEOREM DriverInvariant == Spec => []IInv
BY InitHolds, StepHolds, PTL DEF Spec

\* Every component of the driver and of its log keeps its type: no counter of
\* steps, attempts or retries runs past its limit (agent/mod.rs, run_turn).
THEOREM DriverTyped == Spec => []TypeOK
BY DriverInvariant, SaysTyped, PTL

\* What is open has its closing row reserved, the open attempt is that of the
\* token, and a loop that may take another turn left nothing behind
\* (UnstartedStepClaims, AttemptToken, run_turn's report).
THEOREM OpenClosed == Spec => []OpenIsClosed
BY DriverInvariant, SaysClosed, PTL

\* No provider stream is opened over unflushed or unseen rows, a stale request
\* or a stop that has come (dispatch_barrier and the checks around it).
THEOREM DispatchSound == Spec => DispatchIsSound
<1>1. IInv /\ [Next]_vars =>
        [pc' \in {"streaming", "summarizing"} /\ pc' # pc =>
           /\ ~dirty' /\ observer' = "up"
           /\ ~cancelled /\ ~expired /\ ~run.limit /\ ~run.lost
           /\ pc' = "streaming" => run.fresh
           /\ pc' = "summarizing" => run'.attempts < MaxAttempts]_vars
  BY DispatchStep
<1> QED
  BY <1>1, DriverInvariant, PTL DEF Spec, DispatchIsSound

\* A latched limit, a lost observer and the fallback turn end of a durable
\* session are reported as an error, and poison the loop (run_turn).
THEOREM FailureReported == Spec => FailureNeverHidden
<1>1. IInv /\ [Next]_vars =>
        [pc # "idle" /\ pc' = "idle" /\
           (run.limit \/ run.lost \/ (run.fallback /\ Durable)) =>
             loop'.result = "err" /\ loop'.poisoned]_vars
  BY FailureStep
<1> QED
  BY <1>1, DriverInvariant, PTL DEF Spec, FailureNeverHidden

\* The driver implements the grammar of the session log: whatever it submits,
\* the projection would admit (session/projection.rs, with_event).
THEOREM DriverFollowsGrammar == Spec => LogFollowsGrammar
<1>1. Init => L!Init
  BY DEF Init, L!Init
<1> QED
  BY <1>1, StepAdmitted, DriverInvariant, PTL DEF Spec, LogFollowsGrammar, L!Spec
=============================================================================
