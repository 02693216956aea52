----------------------------- MODULE AttemptMemory -----------------------------
(***************************************************************************)
(* The memory that one attempt of a durable session may take, from one     *)
(* pool (src/src/resident_credit.rs) shared by the fold of its chunks      *)
(* (session/attempt_anchor.rs), the row that waits (session/mod.rs), the   *)
(* row on its way to the writer (session/journal.rs) and the agent's copy  *)
(* of the finished attempt (agent/mod.rs).  Bytes are units; the chunks    *)
(* come in the order ProviderStream allows.                                *)
(***************************************************************************)
EXTENDS Integers, Sequences, FiniteSetsExt, SequencesExt

CONSTANTS Limit,        \* MAX_RESIDENT_ATTEMPT_JOURNAL_BYTES
          Book,         \* the tables of an attempt
          Control,      \* the allocation of its account
          Sizes,        \* what a block, a usage or a reason retains
          MaxBlocks, MaxUsages, MaxAttempts, MaxSteps  \* bounds

VARIABLES used,      \* ResidentCreditPoolInner::used
          attempt,   \* ActiveAttemptOwner and its AttemptResidentAccount
          holders,   \* who holds the guard of the account: "session", "agent"
          fold,      \* OpenAttempt or FinishedAttempt
          op,        \* PendingDurableOperation
          claim,     \* the claim of the closing row: its event and its empty row
          batch, flight,   \* the credit of the row that waits, and of the one sent
          usage,     \* UsageProjection
          reported,  \* history: the last usage every step reported
          count, storage

vars == <<used, attempt, holders, fold, op, claim, batch, flight, usage, reported, count, storage>>

Steps == 1..MaxSteps
NoAttempt == [phase |-> "none", book |-> 0, credit |-> 0, control |-> 0, block |-> 0,
              usage |-> 0, terminal |-> 0]
NoFold == [state |-> "none", blocks |-> <<>>, open |-> FALSE, usage |-> 0, terminal |-> 0,
           content |-> 0, usages |-> 0]
NoChunk == [type |-> "none"]
NoOp == [kind |-> "none", chunk |-> NoChunk, raw |-> 0, retained |-> 0, row |-> 0]

Init ==
  /\ used = 0 /\ attempt = NoAttempt /\ holders = {} /\ fold = NoFold /\ op = NoOp
  /\ claim = 0 /\ batch = 0 /\ flight = 0 /\ usage = [total |-> 0, step |-> 0, last |-> 0]
  /\ reported = [s \in Steps |-> 0] /\ count = [attempt |-> 0, step |-> 1]
  /\ storage = "active"

\* ResidentCreditPool::try_acquire
Room(bytes) == used + bytes <= Limit
Total(sizes) == FoldLeft(LAMBDA a, b : a + b, 0, sizes)

\* ChargedBytes::try_with_capacity: one unit is asked for, and the allocator may
\* give more, which has to be charged as well.
Rows == {1, 2}

-----------------------------------------------------------------------------
\* claim_batch, for the row that closes the step: its event and its row.
Claim(row) ==
  /\ storage = "active" /\ op = NoOp /\ claim = 0 /\ attempt = NoAttempt
  /\ row \in Rows /\ Room(1 + row)
  /\ claim' = 1 + row /\ used' = used + 1 + row
  /\ UNCHANGED <<attempt, holders, fold, op, batch, flight, usage, reported, count, storage>>

BeginAttempt ==
  /\ storage = "active" /\ op = NoOp /\ batch = 0 /\ attempt = NoAttempt /\ claim # 0
  /\ count.attempt < MaxAttempts
  /\ Room(Book + Control) /\ used' = used + Book + Control
  /\ attempt' = [NoAttempt EXCEPT !.phase = "open", !.book = Book, !.credit = Control,
                                  !.control = Control]
  /\ holders' = {"session"} \cup holders
  /\ fold' = [NoFold EXCEPT !.state = "streaming"]
  /\ count' = [count EXCEPT !.attempt = @ + 1]
  /\ UNCHANGED <<op, claim, batch, flight, usage, reported, storage>>

-----------------------------------------------------------------------------
\* OpenAttempt::prepare_chunk: the chunks the stream's order allows now.
Chunks ==
  IF fold.state # "streaming" THEN {}
  ELSE {c \in [type : {"start", "delta"}] :
          IF c.type = "start" THEN ~fold.open /\ Len(fold.blocks) < MaxBlocks ELSE fold.open}
       \cup {c \in [type : {"end"}, size : Sizes] : fold.open}
       \cup {c \in [type : {"usage"}, size : Sizes, tokens : 1..2] : fold.usages < MaxUsages}
       \cup {c \in [type : {"finish"}, size : Sizes, good : BOOLEAN] : c.good => ~fold.open}

RetainedBy(c) == IF c.type \in {"start", "delta"} THEN 0 ELSE c.size
NewBy(c) == IF c.type = "finish" /\ c.good /\ fold.blocks # <<>> THEN 1 ELSE 0

\* charge_prepared_event and charge_attempt_chunk_payload: the raw row is
\* charged, then the typed chunk, of which a part is retained.
RawRow == 1
ChunkPayload(c) == RetainedBy(c) + 1

PrepareChunk(c) ==
  LET charge == RawRow + ChunkPayload(c) IN
  /\ storage = "active" /\ attempt.phase = "open" /\ op = NoOp
  /\ Room(charge) /\ used' = used + charge
  /\ op' = [kind |-> "chunk", chunk |-> c, raw |-> 2, retained |-> RetainedBy(c), row |-> 0]
  /\ UNCHANGED <<attempt, holders, fold, claim, batch, flight, usage, reported, count, storage>>

\* The row ahead is sent; its credit goes with it and is freed by the answer.
Stage ==
  /\ storage = "active" /\ batch # 0 /\ flight = 0
  /\ flight' = batch /\ batch' = 0
  /\ UNCHANGED <<used, attempt, holders, fold, op, claim, usage, reported, count, storage>>
Acknowledged(ok) ==
  /\ flight # 0 /\ flight' = 0 /\ used' = used - flight
  /\ storage' = IF ok THEN storage ELSE "failed"
  /\ UNCHANGED <<attempt, holders, fold, op, claim, batch, usage, reported, count>>

\* A refused operation gives back what it was charged.
Refuse ==
  /\ op.kind = "chunk"
  /\ op' = NoOp /\ used' = used - op.raw - op.retained
  /\ UNCHANGED <<attempt, holders, fold, claim, batch, flight, usage, reported, count, storage>>

\* AttemptResidentAccount::install
Install_KeepsOldUsage(a, c) ==
  CASE c.type = "end" -> [a EXCEPT !.block = @ + c.size, !.credit = @ + c.size]
    [] c.type = "usage" -> [a EXCEPT !.usage = c.size, !.credit = @ + c.size]
    [] c.type = "finish" -> [a EXCEPT !.terminal = c.size + NewBy(c), !.credit = @ + c.size + NewBy(c)]
    [] OTHER -> a
Install(a, c) ==
  CASE c.type = "end" -> [a EXCEPT !.block = @ + c.size, !.credit = @ + c.size]
    [] c.type = "usage" -> [a EXCEPT !.usage = c.size, !.credit = @ - a.usage + c.size]
    [] c.type = "finish" ->
         LET dropped == IF c.good THEN 0 ELSE a.block IN
         [a EXCEPT !.block = @ - dropped, !.terminal = c.size + NewBy(c),
                   !.credit = @ - dropped + c.size + NewBy(c)]
    [] OTHER -> a

\* OpenAttempt::commit
Fold(f, c) ==
  CASE c.type = "start" -> [f EXCEPT !.open = TRUE]
    [] c.type = "end" -> [f EXCEPT !.open = FALSE, !.blocks = Append(@, c.size)]
    [] c.type = "usage" -> [f EXCEPT !.usage = c.size, !.usages = @ + 1]
    [] c.type = "finish" -> [f EXCEPT !.state = "finished", !.open = FALSE, !.terminal = c.size,
                                      !.content = NewBy(c),
                                      !.blocks = IF c.good THEN @ ELSE <<>>]
    [] OTHER -> f

\* UsageProjection::with_sample: a later sample of the same step replaces.
WithSample(u, s, tokens) ==
  [total |-> u.total - (IF u.step = s THEN u.last ELSE 0) + tokens, step |-> s, last |-> tokens]

\* try_commit_durable for a chunk: the growth of the tables, what the finish
\* adds and the row are charged, then everything is installed at once.
Charges(c, row, grown) == grown + NewBy(c) + row

CommitChunk(row, grown) ==
  LET c == op.chunk
      a == Install(attempt, c)
      more == Charges(c, row, grown)
      freed == attempt.credit + RetainedBy(c) + NewBy(c) - a.credit
  IN
  /\ storage = "active" /\ op.kind = "chunk" /\ batch = 0
  /\ row \in Rows /\ grown \in (IF c.type = "start" THEN {1} ELSE {0})
  /\ Room(more)
  /\ op' = NoOp
  /\ IF a # attempt /\ holders # {"session"}
     THEN \* Arc::get_mut fails: somebody else holds the account
          /\ storage' = "failed" /\ used' = used - op.raw - op.retained
          /\ UNCHANGED <<attempt, fold, batch, usage, reported>>
     ELSE /\ attempt' = [a EXCEPT !.book = @ + grown] /\ fold' = Fold(fold, c)
          /\ batch' = row /\ used' = used + more - op.raw - freed
          /\ IF c.type = "usage"
             THEN /\ usage' = WithSample(usage, count.step, c.tokens)
                  /\ reported' = [reported EXCEPT ![count.step] = c.tokens]
             ELSE UNCHANGED <<usage, reported>>
          /\ UNCHANGED storage
  /\ UNCHANGED <<holders, claim, flight, count>>

-----------------------------------------------------------------------------
\* seal_attempt: the agent takes the finished attempt, and a guard with it.
Seal ==
  /\ storage = "active" /\ attempt.phase = "open" /\ fold.state = "finished" /\ op = NoOp
  /\ fold' = [fold EXCEPT !.state = "sealed"] /\ holders' = holders \cup {"agent"}
  /\ UNCHANGED <<used, attempt, op, claim, batch, flight, usage, reported, count, storage>>

\* The account is freed with the last guard.
Release(who) ==
  /\ holders' = holders \ {who}
  /\ used' = used - (IF holders = {who} THEN attempt.credit ELSE 0)
                  - (IF who = "session" THEN attempt.book ELSE 0)
  /\ attempt' = CASE who = "session" /\ holders = {who} -> NoAttempt
                  [] who = "session" -> [attempt EXCEPT !.phase = "retired", !.book = 0]
                  [] holders = {who} -> NoAttempt
                  [] OTHER -> attempt

\* The agent drops its copy: at the end of the step, before a retry, or with
\* the future of its turn.
AgentDrops ==
  /\ "agent" \in holders /\ Release("agent")
  /\ fold' = IF fold.state = "sealed" THEN NoFold ELSE fold
  /\ UNCHANGED <<op, claim, batch, flight, usage, reported, count, storage>>

\* The closing row was charged when its claim was made.
Close ==
  /\ storage = "active" /\ attempt.phase = "open" /\ op = NoOp /\ claim # 0 /\ batch = 0
  /\ op' = [kind |-> "closure", chunk |-> NoChunk, raw |-> 1, retained |-> 0, row |-> claim - 1] /\ claim' = 0
  /\ UNCHANGED <<used, attempt, holders, fold, batch, flight, usage, reported, count, storage>>
CommitClosure ==
  /\ storage = "active" /\ op.kind = "closure" /\ batch = 0
  /\ op' = NoOp /\ batch' = op.row /\ used' = used - op.raw
  /\ attempt' = [attempt EXCEPT !.phase = "closed"]
  /\ fold' = IF fold.state = "sealed" THEN fold ELSE NoFold
  /\ UNCHANGED <<holders, claim, flight, usage, reported, count, storage>>

\* retire_attempt, after a barrier: nothing waits and nothing is on its way.
Retire(next) ==
  /\ storage = "active" /\ attempt.phase = "closed" /\ batch = 0 /\ flight = 0
  /\ next \in {count.step, count.step + 1} \cap Steps
  /\ Release("session") /\ count' = [count EXCEPT !.step = next]
  /\ UNCHANGED <<fold, op, claim, batch, flight, usage, reported, storage>>

Next ==
  \/ \E row \in Rows : Claim(row)
  \/ BeginAttempt
  \/ \E c \in Chunks : PrepareChunk(c)
  \/ Stage \/ \E ok \in BOOLEAN : Acknowledged(ok)
  \/ Refuse \/ \E row \in Rows, grown \in {0, 1} : CommitChunk(row, grown)
  \/ Seal \/ AgentDrops \/ Close \/ CommitClosure
  \/ \E next \in Steps : Retire(next)

Spec == Init /\ [][Next]_vars

-----------------------------------------------------------------------------
\* What is charged is what is held, wherever it is held: the account of an
\* attempt counts the blocks, the usage and the reason its fold still has, the
\* pool counts every lease once, and a row that is given up, replaced, sent or
\* retired frees its own.  So no order of chunks, refusals, answers of the
\* writer and drops leaks memory or frees it twice.
MemoryIsAccounted ==
  /\ used = attempt.book + attempt.credit + op.raw + op.retained + op.row + claim + batch + flight
  /\ used \in 0..Limit
  /\ attempt.credit = attempt.control + attempt.block + attempt.usage + attempt.terminal
  /\ fold.state # "none" =>
       /\ attempt.block = Total(fold.blocks) /\ attempt.usage = fold.usage
       /\ attempt.terminal = fold.terminal + fold.content

\* No step of the session finds the account of its open attempt held by
\* somebody else, so a chunk is never lost to a poisoned session.
AccountIsOwn == attempt.phase = "open" /\ fold.state = "streaming" => holders = {"session"}

\* The tokens of a session are what each step reported last, whatever retries
\* the step took.
UsageIsLastReported == usage.total = MapThenSumSet(LAMBDA s : reported[s], Steps)

CreditsBalance == MemoryIsAccounted /\ AccountIsOwn /\ UsageIsLastReported
=============================================================================
