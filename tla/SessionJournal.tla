---------------------------- MODULE SessionJournal ----------------------------
(***************************************************************************)
(* The journal of a durable session (src/src/session/journal.rs): one      *)
(* thread owns the file and its lock, and a JournalWriter inside the       *)
(* session sends it one command at a time and waits for the answer.        *)
(*                                                                         *)
(* Every wait may be dropped.  What was sent stays with the JournalWriter  *)
(* (flight, readFlight) and what was not stays staged (pending), so that   *)
(* the next call settles the same command first.  A failed write rolls the *)
(* file back to what was synchronised and poisons the thread; a failed     *)
(* session drops its JournalWriter, which joins the thread.  A crash keeps *)
(* of the unsynchronised rows any prefix, perhaps with a torn tail, and    *)
(* the next process resumes from the rows that are whole: it cuts the      *)
(* file, writes the rows that close what was left open and hands the file  *)
(* over to its own writer without releasing the lock.                      *)
(*                                                                         *)
(* Offsets count rows; row 0 is the header, which the creation of the      *)
(* journal writes and synchronises.                                        *)
(***************************************************************************)
EXTENDS Naturals, Sequences

CONSTANTS MaxRow,      \* the largest row identity (a bound of the model)
          MaxBatch,    \* committed rows that wait for the writer
          MaxDrops,    \* dropped waits (a bound of the model)
          MaxFaults,   \* failing device operations (a bound of the model)
          MaxCrashes,  \* processes that end (a bound of the model)
          Torn         \* a row that was cut short

ASSUME JournalBounds == MaxRow \in Nat /\ MaxBatch \in Nat
ASSUME TornIsNoRow == Torn \notin 0..MaxRow

VARIABLES
  log,        \* the rows of the session's event log, in order
  minted,     \* row identities used so far
  batch,      \* how many rows at the end of log wait in pending_batch
  confirmed,  \* rows the last successful barrier or shutdown confirmed
  storage,    \* SessionStorage, or how far the resume of the next process is
  shut,       \* the lifecycle is ShuttingDown
  writer,     \* the session's JournalWriter
  call,       \* the asynchronous call that is running
  answer,     \* the row the last successful read asked for, and the one it got
  sender,     \* the JournalWriter still holds the sender of the channel
  command,    \* the one slot of the channel
  reply,      \* the acknowledgement on its way back
  thread,     \* the thread that owns the file
  disk,       \* the rows of the file
  stable,     \* how many of them are synchronised
  drops, faults, crashes  \* what has been used of the bounds

sessionVars == <<log, minted, batch, confirmed, storage, shut>>
clientVars == <<writer, call, answer, sender>>
deviceVars == <<disk, stable, faults>>
bounds == <<drops, crashes>>
vars == <<log, minted, batch, confirmed, storage, shut, writer, call, answer,
          sender, command, reply, thread, disk, stable, drops, faults, crashes>>

Rows == 0..MaxRow
First(s, n) == SubSeq(s, 1, n)

NoRead  == [row |-> 0, cancelled |-> FALSE]
NoCall  == [op |-> "none", at |-> "main", row |-> 0, sent |-> FALSE, cancelled |-> FALSE]
NoAnswer == [asked |-> 0, got |-> 0]
NoCommand == [kind |-> "none", rows |-> <<>>, row |-> 0]
NoReply == [kind |-> "none", row |-> 0, physical |-> 0, durable |-> 0]
NoThread == [state |-> "none", physical |-> 0, durable |-> 0, poisoned |-> FALSE]

\* A JournalWriter whose file holds n synchronised rows.
FreshWriter(n) ==
  [pending |-> <<>>, flight |-> "none", read |-> NoRead, physical |-> n,
   durable |-> n, poisoned |-> FALSE, failed |-> FALSE]

Init ==
  /\ log = <<>> /\ minted = 0 /\ batch = 0 /\ confirmed = 0
  /\ storage = "deferred" /\ shut = FALSE
  /\ writer = FreshWriter(0) /\ call = NoCall /\ answer = NoAnswer /\ sender = FALSE
  /\ command = NoCommand /\ reply = NoReply /\ thread = NoThread
  /\ disk = <<>> /\ stable = 0
  /\ drops = 0 /\ faults = 0 /\ crashes = 0

Fault == faults < MaxFaults /\ faults' = faults + 1

-----------------------------------------------------------------------------
(* The thread.                                                             *)

\* The acknowledgement of a JournalWriter that is gone is lost.
Answer(kind, row, t) ==
  reply' = IF sender THEN [kind |-> kind, row |-> row, physical |-> t.physical,
                           durable |-> t.durable]
           ELSE NoReply

\* poison_and_rollback: the truncation itself may fail; the cursor moves anyway.
RollBack(contents) ==
  /\ disk' \in {contents, First(contents, thread.durable)}
  /\ thread' = [thread EXCEPT !.physical = thread.durable, !.poisoned = TRUE,
                              !.state = IF command.kind = "finish" THEN "gone" ELSE @]
  /\ Answer("error", 0, thread')
  /\ UNCHANGED stable

\* What a write that fails half way may leave: some of the rows, a torn one.
Partly(contents, rows) ==
  {contents \o First(rows, k) : k \in 0..Len(rows)}
    \cup {Append(contents \o First(rows, k), Torn) : k \in 0..(Len(rows) - 1)}

Written == First(disk, thread.physical)

\* Takes the command out of the slot, runs it and acknowledges it.
Serve(kind) ==
  /\ thread.state = "running" /\ command.kind = kind
  /\ command' = NoCommand
  /\ UNCHANGED <<sessionVars, clientVars, bounds>>

\* A poisoned thread touches the file no more, but Finish still releases it.
ServePoisoned(kind) ==
  /\ thread.poisoned
  /\ Serve(kind)
  /\ thread' = [thread EXCEPT !.state = IF kind = "finish" THEN "gone" ELSE @]
  /\ Answer("error", 0, thread)
  /\ UNCHANGED deviceVars

AppendRows ==
  /\ ~thread.poisoned
  /\ Serve("append")
  /\ \/ /\ disk' = Written \o command.rows
        /\ thread' = [thread EXCEPT !.physical = @ + Len(command.rows)]
        /\ Answer("ok", 0, thread')
        /\ UNCHANGED <<stable, faults>>
     \/ /\ Fault
        /\ \E contents \in Partly(Written, command.rows) : RollBack(contents)

\* Barrier and Finish synchronise the file; Finish then closes it.
Synchronise(kind) ==
  /\ ~thread.poisoned
  /\ Serve(kind)
  /\ \/ /\ stable' = Len(disk)
        /\ thread' = [thread EXCEPT !.durable = thread.physical,
                                    !.state = IF kind = "finish" THEN "gone" ELSE @]
        /\ Answer("ok", 0, thread')
        /\ UNCHANGED <<disk, faults>>
     \/ Fault /\ RollBack(disk)

\* A row is read only while it is durable, and checked against its digest.
ReadRow ==
  /\ ~thread.poisoned
  /\ Serve("read")
  /\ \/ /\ ~writer.read.cancelled /\ command.row <= thread.durable
        /\ Answer("row", disk[command.row], thread)
        /\ UNCHANGED <<thread, faults>>
     \/ /\ writer.read.cancelled
        /\ Answer("cancelled", 0, thread)
        /\ UNCHANGED <<thread, faults>>
     \/ /\ ~writer.read.cancelled /\ Fault
        /\ thread' = [thread EXCEPT !.poisoned = TRUE]
        /\ Answer("error", 0, thread)
  /\ UNCHANGED <<disk, stable>>

\* Without a sender the thread finishes what was queued and releases the file.
ThreadEnds ==
  /\ thread.state = "running" /\ ~sender /\ command = NoCommand
  /\ thread' = [thread EXCEPT !.state = "gone"]
  /\ UNCHANGED <<sessionVars, clientVars, command, reply, deviceVars, bounds>>

ThreadStep ==
  \/ AppendRows
  \/ \E kind \in {"barrier", "finish"} : Synchronise(kind)
  \/ ReadRow
  \/ \E kind \in {"append", "barrier", "read", "finish"} : ServePoisoned(kind)
  \/ ThreadEnds

-----------------------------------------------------------------------------
(* Creation: DeferredWriter owns the thread before any wait for it begins. *)

Materialize ==
  /\ storage = "deferred" /\ ~shut
  /\ storage' = "starting" /\ sender' = TRUE
  /\ thread' = [NoThread EXCEPT !.state = "creating"]
  /\ UNCHANGED <<log, minted, batch, confirmed, shut, writer, call, answer, command,
                 reply, deviceVars, bounds>>

\* The header is durable before the session hears of the file.
CreateFile ==
  /\ thread.state = "creating"
  /\ \/ /\ log' = <<0>> /\ disk' = <<0>> /\ stable' = 1
        /\ thread' = [state |-> "running", physical |-> 1, durable |-> 1, poisoned |-> FALSE]
        /\ Answer("ok", 0, thread')
        /\ UNCHANGED faults
     \/ /\ Fault
        /\ thread' = [thread EXCEPT !.state = "gone"]
        /\ Answer("error", 0, thread)
        /\ UNCHANGED <<log, disk, stable>>
  /\ UNCHANGED <<minted, batch, confirmed, storage, shut, clientVars, command, bounds>>

Materialized ==
  /\ storage = "starting" /\ reply.kind \in {"ok", "error"}
  /\ reply' = NoReply
  /\ IF reply.kind = "ok"
     THEN storage' = "active" /\ writer' = FreshWriter(reply.physical) /\ sender' = sender
     ELSE storage' = "failed" /\ writer' = writer /\ sender' = FALSE
  /\ UNCHANGED <<log, minted, batch, confirmed, shut, call, answer, command, thread,
                 deviceVars, bounds>>

-----------------------------------------------------------------------------
(* The session's calls.                                                    *)

\* One more event is committed and waits in the batch.
Accept ==
  /\ storage = "active" /\ ~shut /\ ~writer.poisoned /\ call = NoCall
  /\ batch < MaxBatch /\ minted < MaxRow
  /\ minted' = minted + 1
  /\ log' = Append(log, minted')
  /\ batch' = batch + 1
  /\ UNCHANGED <<confirmed, storage, shut, clientVars, command, reply, thread,
                 deviceVars, bounds>>

\* The same row is asked for again: the read that is under way will do.
Resumes_AnyRow(c) == c.op = "read" /\ c.at = "main"
Resumes(c) == c.op = "read" /\ c.at = "main" /\ c.row = writer.read.row

\* A call first hands the committed batch to the writer, if there is one.
Begin(c) ==
  /\ call = NoCall
  /\ call' = [c EXCEPT !.at = IF batch > 0 \/ c.op = "flush" THEN "flush" ELSE "main"]
  /\ writer' = IF writer.read = NoRead \/ Resumes(call') THEN writer
               ELSE [writer EXCEPT !.read.cancelled = TRUE]
  /\ UNCHANGED <<log, minted, batch, confirmed, answer, sender, command, reply,
                 thread, deviceVars, bounds>>

\* Flush and barrier calls, and reads of a row that is already an event.
BeginCall ==
  /\ storage = "active" /\ ~shut
  /\ \/ \E op \in {"flush", "barrier"} : Begin([NoCall EXCEPT !.op = op])
     \/ \E row \in 2..Len(log) : Begin([NoCall EXCEPT !.op = "read", !.row = row])
  /\ UNCHANGED <<storage, shut>>

\* The shutdown may be called again after its wait was dropped.
BeginShutdown ==
  /\ storage \in {"active", "finishing"}
  /\ Begin([NoCall EXCEPT !.op = "finish"])
  /\ shut' = TRUE
  /\ storage' = IF call'.at = "main" THEN "finishing" ELSE storage

\* A shutdown that finds the creation under way waits for it first.
ShutWhileStarting ==
  /\ storage = "starting" /\ ~shut
  /\ shut' = TRUE
  /\ UNCHANGED <<log, minted, batch, confirmed, storage, clientVars, command, reply,
                 thread, deviceVars, bounds>>

\* A session that has not begun to create its journal has nothing to release.
CloseUnstarted ==
  /\ storage = "deferred"
  /\ shut' = TRUE /\ storage' = "closed"
  /\ UNCHANGED <<log, minted, batch, confirmed, clientVars, command, reply, thread,
                 deviceVars, bounds>>

\* The future that waits is dropped; whatever it sent stays in the writer.
DropWait ==
  /\ call # NoCall /\ drops < MaxDrops
  /\ drops' = drops + 1 /\ call' = NoCall
  /\ UNCHANGED <<sessionVars, writer, answer, sender, command, reply, thread,
                 deviceVars, crashes>>

\* The token of a read: its call reads it too, a call that resumed it does not.
CancelRead ==
  /\ writer.read # NoRead \/ call.op = "read"
  /\ \/ /\ call.op = "read" /\ ~call.cancelled
        /\ call' = [call EXCEPT !.cancelled = TRUE]
        /\ writer' = IF call.sent THEN [writer EXCEPT !.read.cancelled = TRUE] ELSE writer
     \/ /\ writer.read # NoRead /\ ~call.sent /\ ~writer.read.cancelled
        /\ writer' = [writer EXCEPT !.read.cancelled = TRUE]
        /\ UNCHANGED call
  /\ UNCHANGED <<sessionVars, answer, sender, command, reply, thread, deviceVars, bounds>>

Waiting == writer.flight # "none" \/ writer.read # NoRead

\* The call goes on with w, ends with w, or ends by dropping the JournalWriter.
GoOn(w) == writer' = w /\ UNCHANGED <<storage, call, sender, batch>>
End(w) == writer' = w /\ call' = NoCall /\ UNCHANGED <<storage, sender, batch>>
DropWriter_KeepsSender ==
  /\ storage' = "failed" /\ sender' = sender /\ writer' = FreshWriter(0)
  /\ call' = NoCall /\ batch' = 0
DropWriter ==
  /\ storage' = "failed" /\ sender' = FALSE /\ writer' = FreshWriter(0)
  /\ call' = NoCall /\ batch' = 0

\* A writer error: finish() remembers it and still sends Finish, a read only
\* poisons the writer, every other call leaves the session without storage.
Fail(w) ==
  CASE call.op = "finish" /\ call.at = "main" ->
         GoOn([w EXCEPT !.poisoned = TRUE, !.failed = TRUE, !.pending = <<>>])
    [] call.op = "read" /\ call.at = "main" ->
         End([w EXCEPT !.poisoned = TRUE, !.failed = TRUE])
    [] OTHER -> DropWriter

\* ensure_usable, before anything else a call does.
Refuse ==
  /\ call # NoCall /\ writer.poisoned /\ ~Waiting
  /\ ~(call.op = "finish" /\ call.at = "main")
  /\ Fail(writer)
  /\ UNCHANGED <<log, minted, confirmed, shut, answer, command, reply, thread,
                 deviceVars, bounds>>

\* Closed or Failed, with the thread joined and its file released.
Close(w) ==
  /\ storage' = IF w.failed THEN "failed" ELSE "closed"
  /\ sender' = FALSE /\ call' = NoCall /\ writer' = FreshWriter(0)
  /\ UNCHANGED batch

\* A barrier call ends with a barrier, its own or one an earlier call sent; the
\* shutdown confirms only if nothing failed before it.
Confirms_AnyFlight == reply.kind = "ok" /\ call.at = "main" /\ call.op = "barrier"
Confirms ==
  /\ reply.kind = "ok" /\ call.at = "main"
  /\ \/ writer.flight = "barrier" /\ call.op = "barrier"
     \/ writer.flight = "finish" /\ ~writer.failed

SettleFlight ==
  /\ call # NoCall /\ writer.flight # "none" /\ reply.kind \in {"ok", "error"}
  /\ reply' = NoReply
  /\ LET landed == [writer EXCEPT !.flight = "none", !.physical = reply.physical,
                                  !.durable = reply.durable]
         lost == [writer EXCEPT !.flight = "none"]
     IN /\ IF writer.flight = "finish"
           THEN Close([lost EXCEPT !.failed = @ \/ reply.kind = "error"])
           ELSE IF reply.kind = "error" THEN Fail(lost)
           ELSE IF Confirms THEN End(landed)
           ELSE GoOn(landed)
        /\ confirmed' = IF Confirms THEN Len(log) ELSE confirmed
  /\ UNCHANGED <<log, minted, shut, answer, command, thread, deviceVars, bounds>>

\* A read of another row is abandoned; the row this call asked for is its result.
SettleRead ==
  /\ call # NoCall /\ writer.read # NoRead /\ reply.kind \in {"row", "cancelled", "error"}
  /\ reply' = NoReply
  /\ LET settled == [writer EXCEPT !.read = NoRead]
     IN IF reply.kind = "error" THEN Fail(settled)
        ELSE IF Resumes(call) THEN End(settled)
        ELSE GoOn(settled)
  /\ answer' = IF Resumes(call) /\ reply.kind = "row"
               THEN [asked |-> log[call.row], got |-> reply.row] ELSE answer
  /\ UNCHANGED <<log, minted, confirmed, shut, command, thread, deviceVars, bounds>>

-----------------------------------------------------------------------------
(* What a call does once nothing is in flight.                             *)

Ready == call # NoCall /\ ~Waiting /\ reply = NoReply

\* flush_committed_batch moves the batch into the writer before it awaits.
Stage ==
  /\ Ready /\ ~writer.poisoned
  /\ call.at = "flush" /\ writer.pending = <<>> /\ batch > 0
  /\ writer' = [writer EXCEPT !.pending = SubSeq(log, Len(log) - batch + 1, Len(log))]
  /\ batch' = 0
  /\ UNCHANGED <<log, minted, confirmed, storage, shut, call, answer, sender, command,
                 reply, thread, deviceVars, bounds>>

Send_KeepsStaged(kind, cmd) ==
  /\ command = NoCommand
  /\ command' = cmd
  /\ writer' = [writer EXCEPT !.flight = kind]
  /\ UNCHANGED <<sessionVars, call, answer, sender, reply, thread, deviceVars, bounds>>
Send(kind, cmd) ==
  /\ command = NoCommand
  /\ command' = cmd
  /\ writer' = [writer EXCEPT !.flight = kind, !.pending = <<>>]
  /\ UNCHANGED <<sessionVars, call, answer, sender, reply, thread, deviceVars, bounds>>

SendStaged ==
  /\ Ready /\ ~writer.poisoned /\ writer.pending # <<>>
  /\ Send("append", [NoCommand EXCEPT !.kind = "append", !.rows = writer.pending])

\* The batch is with the thread: the call proper begins.
Flushed ==
  /\ Ready /\ ~writer.poisoned
  /\ call.at = "flush" /\ writer.pending = <<>> /\ batch = 0
  /\ call' = IF call.op = "flush" THEN NoCall ELSE [call EXCEPT !.at = "main"]
  /\ storage' = IF call.op = "finish" THEN "finishing" ELSE storage
  /\ UNCHANGED <<log, minted, batch, confirmed, shut, writer, answer, sender, command,
                 reply, thread, deviceVars, bounds>>

Proper == Ready /\ call.at = "main" /\ writer.pending = <<>>

\* A read first makes its row durable.
NeedsBarrier ==
  \/ call.op = "barrier"
  \/ call.op = "read" /\ ~call.cancelled /\ writer.physical # writer.durable

SendBarrier ==
  /\ Proper /\ ~writer.poisoned /\ NeedsBarrier
  /\ Send("barrier", [NoCommand EXCEPT !.kind = "barrier"])

SendFinish ==
  /\ Proper /\ call.op = "finish"
  /\ Send("finish", [NoCommand EXCEPT !.kind = "finish"])

ReadCancelled ==
  /\ Proper /\ ~writer.poisoned /\ call.op = "read" /\ call.cancelled
  /\ End(writer)
  /\ UNCHANGED <<log, minted, confirmed, shut, answer, command, reply, thread,
                 deviceVars, bounds>>

SendRead ==
  /\ Proper /\ ~writer.poisoned /\ call.op = "read" /\ ~call.cancelled
  /\ writer.physical = writer.durable /\ call.row <= writer.durable
  /\ command = NoCommand
  /\ command' = [NoCommand EXCEPT !.kind = "read", !.row = call.row]
  /\ writer' = [writer EXCEPT !.read = [row |-> call.row, cancelled |-> FALSE]]
  /\ call' = [call EXCEPT !.sent = TRUE]
  /\ UNCHANGED <<sessionVars, answer, sender, reply, thread, deviceVars, bounds>>

\* The session is dropped without a shutdown: its JournalWriter joins the thread.
DropSession ==
  /\ storage \in {"deferred", "starting", "active", "finishing"} /\ call = NoCall
  /\ DropWriter /\ shut' = TRUE /\ reply' = NoReply
  /\ UNCHANGED <<log, minted, confirmed, answer, command, thread, deviceVars, bounds>>

CallStep ==
  \/ Refuse \/ SettleFlight \/ SettleRead \/ Stage \/ SendStaged \/ Flushed
  \/ SendBarrier \/ SendFinish \/ ReadCancelled \/ SendRead

-----------------------------------------------------------------------------
(* The end of a process, and the resume by the next one.                   *)

ResumeStages == {"scanned", "cut", "replayed"}

Forgotten ==
  /\ storage' = "absent" /\ shut' = FALSE /\ batch' = 0
  /\ writer' = FreshWriter(0) /\ call' = NoCall /\ sender' = FALSE
  /\ command' = NoCommand /\ reply' = NoReply /\ thread' = NoThread
  /\ answer' = NoAnswer

\* Of the rows that were not synchronised the device keeps some.
Crash ==
  /\ storage # "absent" /\ crashes < MaxCrashes
  /\ crashes' = crashes + 1
  /\ Forgotten
  /\ \E n \in stable..Len(disk) :
        disk' \in {First(disk, n)} \cup {Append(First(disk, k), Torn) : k \in stable..(n - 1)}
  /\ UNCHANGED <<log, minted, confirmed, stable, drops, faults>>

\* The process ends once its session released the file.
ProcessEnds ==
  /\ storage \in {"closed", "failed"} /\ thread.state \in {"none", "gone"}
  /\ crashes < MaxCrashes
  /\ crashes' = crashes + 1
  /\ Forgotten
  /\ UNCHANGED <<log, minted, confirmed, deviceVars, drops>>

\* The rows of the file that are whole.
Whole == IF disk # <<>> /\ disk[Len(disk)] = Torn THEN First(disk, Len(disk) - 1) ELSE disk

Resuming(from) ==
  /\ storage = from
  /\ UNCHANGED <<shut, call, answer, command, reply, bounds>>

\* The worker takes the lock, scans the file and plans; it has written nothing.
BeginResume ==
  /\ Resuming("absent") /\ Whole # <<>>
  /\ storage' = "scanned"
  /\ UNCHANGED <<log, minted, batch, confirmed, writer, sender, thread, deviceVars>>

CancelResume ==
  /\ Resuming("scanned")
  /\ storage' = "absent"
  /\ UNCHANGED <<log, minted, batch, confirmed, writer, sender, thread, deviceVars>>

\* commit_recovery_suffix, first: the file is cut to its whole rows, durably.
CutFile ==
  /\ Resuming("scanned")
  /\ \/ /\ log' = Whole /\ disk' = Whole /\ stable' = Len(Whole) /\ storage' = "cut"
        /\ UNCHANGED faults
     \/ /\ Fault /\ disk' \in {disk, Whole} /\ storage' = "absent"
        /\ UNCHANGED <<log, stable>>
  /\ UNCHANGED <<minted, batch, confirmed, writer, sender, thread>>

\* Then the rows that close what was left open, at most one here.
WriteSuffix ==
  /\ Resuming("cut")
  /\ \E n \in 0..1 :
        /\ minted + n <= MaxRow
        /\ minted' = minted + n
        /\ LET suffix == [i \in 1..n |-> minted + i]
           IN /\ log' = log \o suffix
              /\ \/ /\ disk' = disk \o suffix /\ storage' = "replayed"
                    /\ UNCHANGED faults
                 \/ /\ n > 0 /\ Fault
                    /\ disk' \in {disk} \cup Partly(disk, suffix) /\ storage' = "absent"
  /\ UNCHANGED <<batch, confirmed, writer, sender, thread, stable>>

\* Synchronised: the worker becomes the writer of the recovered session.
HandOver ==
  /\ Resuming("replayed")
  /\ \/ /\ stable' = Len(disk) /\ confirmed' = Len(log) /\ storage' = "active"
        /\ writer' = FreshWriter(Len(disk)) /\ sender' = TRUE
        /\ thread' = [state |-> "running", physical |-> Len(disk),
                      durable |-> Len(disk), poisoned |-> FALSE]
        /\ UNCHANGED faults
     \/ /\ Fault /\ storage' = "absent"
        /\ UNCHANGED <<stable, confirmed, writer, sender, thread>>
  /\ UNCHANGED <<log, minted, batch, disk>>

ResumeStep == BeginResume \/ CancelResume \/ CutFile \/ WriteSuffix \/ HandOver

-----------------------------------------------------------------------------
OwnerStep ==
  \/ Materialize \/ Materialized \/ Accept \/ BeginCall \/ BeginShutdown
  \/ ShutWhileStarting \/ CloseUnstarted \/ DropWait \/ CancelRead \/ DropSession

Next ==
  \/ CreateFile \/ ThreadStep \/ CallStep \/ OwnerStep
  \/ Crash \/ ProcessEnds \/ ResumeStep

Spec == Init /\ [][Next]_vars

\* The thread runs, a call that is polled goes on, and an owner that begins to
\* shut down ends: it calls again or drops the session, which joins the thread.
OwnerEnds == shut /\ (BeginShutdown \/ DropSession)
Fairness ==
  /\ WF_vars(CreateFile) /\ WF_vars(ThreadStep) /\ WF_vars(CallStep)
  /\ WF_vars(Materialized)
  /\ WF_vars(OwnerEnds)

FairSpec == Spec /\ Fairness

-----------------------------------------------------------------------------
(* Properties.                                                             *)

Flights == {"none", "append", "barrier", "finish"}
Replies == {"none", "ok", "error", "row", "cancelled"}
Offsets == 0..(MaxRow + 1)

\* Every variable has the type the code gives it, no more rows wait for the
\* writer than the batch may hold, and the thread never counts an offset as
\* durable that it has not written.
TypeOK ==
  /\ log \in Seq(Rows) /\ minted \in 0..MaxRow /\ batch \in 0..MaxBatch
  /\ confirmed \in 0..Len(log) /\ shut \in BOOLEAN /\ sender \in BOOLEAN
  /\ storage \in {"deferred", "starting", "active", "finishing", "failed", "closed",
                  "absent"} \cup ResumeStages
  /\ writer.pending \in Seq(Rows) /\ writer.flight \in Flights
  /\ writer.read.row \in Offsets /\ writer.read.cancelled \in BOOLEAN
  /\ writer.durable \in 0..writer.physical /\ writer.physical \in Offsets
  /\ writer.poisoned \in BOOLEAN /\ writer.failed \in BOOLEAN
  /\ call.op \in {"none", "flush", "barrier", "read", "finish"}
  /\ call.at \in {"flush", "main"} /\ call.row \in Offsets
  /\ call.sent \in BOOLEAN /\ call.cancelled \in BOOLEAN
  /\ command.kind \in {"none", "append", "barrier", "read", "finish"}
  /\ reply.kind \in Replies
  /\ thread.state \in {"none", "creating", "running", "gone"}
  /\ thread.durable \in 0..thread.physical /\ thread.physical \in Offsets
  /\ disk \in Seq(Rows \cup {Torn}) /\ stable \in 0..Len(disk)

\* The journal implements the stable log: whatever is dropped, fails, crashes
\* or is resumed, the file holds a prefix of the accepted rows, and every row
\* that a successful barrier, shutdown or resume confirmed.
SL == INSTANCE StableLog WITH Row <- Rows, kept <- disk
StableLogKept == SL!StableSpec

\* While the journal works, every accepted row is in exactly one place, in
\* order: in the file, in the command, staged, or in the batch.  A dropped wait
\* neither loses a row nor writes it twice.
EveryRowOnItsWay ==
  storage \in {"active", "finishing"} /\ ~thread.poisoned =>
    log = disk \o command.rows \o writer.pending
            \o SubSeq(log, Len(log) - batch + 1, Len(log))

\* A read that is resumed after a dropped wait, or that follows an abandoned
\* read of another row, returns the row it asked for.
ReadReturnsAskedRow == answer.got = answer.asked

Released == thread.state \in {"none", "gone"}

\* Rows are neither lost, repeated nor taken for one another.
RowsKeepTheirPlace == EveryRowOnItsWay /\ ReadReturnsAskedRow

\* Every call that is waited for ends, also after errors and dropped waits, and
\* a session that shuts down ends the thread and with it the file lock.
WaitsEnd ==
  /\ (call # NoCall) ~> (call = NoCall)
  /\ shut ~> Released
=============================================================================
