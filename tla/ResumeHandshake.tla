---------------------------- MODULE ResumeHandshake ----------------------------
(***************************************************************************)
(* How a resume is agreed on (src/src/session/resume.rs,                   *)
(* commit_recovery_suffix of journal.rs, cli/session_resume.rs): a thread  *)
(* locks the journal, prepares the repair and waits; the front end shows   *)
(* it, and commits or gives up; the thread looks at the file once more,    *)
(* appends the repair and becomes the writer of the session.               *)
(*                                                                         *)
(* Several processes may resume the same journal; any of them may die at   *)
(* any moment, and someone who ignores the lock may change or move the     *)
(* file.  What the rows of a repair are is SessionRecovery; here a log     *)
(* lacks some number of them.                                              *)
(***************************************************************************)
EXTENDS Naturals, FiniteSets

CONSTANTS Procs,     \* processes that resume this journal
          MaxRepair  \* bound: rows a crash can leave to repair

ASSUME LockNames == "free" \notin Procs /\ MaxRepair \in Nat

VARIABLES missing, \* rows the log lacks to be closed
          holder,  \* who holds the lock of the file, or "free"
          foreign, \* what someone else did to the opened file, and when
          front,   \* the front end and the resume object it holds
          worker,  \* dsh-session-resume thread
          shown,   \* PrepareToken: rows the prepared repair has
          link     \* the channels between the two

file == <<missing, holder, foreign>>
vars == <<file, front, worker, shown, link>>

\* The lock is advisory: each change was not made, or was made before the second
\* scan ended, behind it, or behind the last check of name and length.
Untouched == [edit |-> "no", grow |-> "no", move |-> "no"]

NoLink == [cancel |-> FALSE,   \* ResumeCore::cancel
           sender |-> FALSE,   \* the sender of the command channel lives
           command |-> "none", \* what is queued in it
           ready |-> "none",   \* ready oneshot
           ackOpen |-> FALSE,  \* the receiver of the commit's ack lives
           ack |-> "none",     \* the ack, delivered
           handoff |-> FALSE,  \* a sender of the writer's inbox lives
           signal |-> "none"]  \* SignalLatch of the front end

Init ==
  /\ missing \in 0..MaxRepair /\ holder = "free" /\ foreign = Untouched
  /\ front = [p \in Procs |-> "down"] /\ worker = [p \in Procs |-> "none"]
  /\ shown = [p \in Procs |-> 0] /\ link = [p \in Procs |-> NoLink]

-----------------------------------------------------------------------------
(* The thread.                                                             *)

\* Early ends of resume_worker: the file is closed, and the lock with it.
Exit(p, l) ==
  /\ worker' = [worker EXCEPT ![p] = "exited"]
  /\ shown' = [shown EXCEPT ![p] = 0]
  /\ link' = [link EXCEPT ![p] = l]
  /\ holder' = IF holder = p THEN "free" ELSE holder

Goes(p, to) ==
  worker' = [worker EXCEPT ![p] = to] /\ UNCHANGED <<holder, shown, link>>

NotReady(p) == Exit(p, [link[p] EXCEPT !.ready = "err"])

\* flock does not wait; then the name must still be that of the opened file.
\* What was edited or grown under an earlier resume is now the file as it is.
OpenAndLock(p) ==
  /\ worker[p] = "lock"
  /\ IF holder = "free" /\ foreign.move = "no"
     THEN /\ worker' = [worker EXCEPT ![p] = "scan"] /\ holder' = p
          /\ missing' \in IF foreign = Untouched THEN {missing} ELSE 0..MaxRepair
          /\ foreign' = Untouched
          /\ UNCHANGED <<shown, link>>
     ELSE NotReady(p) /\ UNCHANGED <<missing, foreign>>
  /\ UNCHANGED front

SameLengthAndName_LengthOnly == foreign.grow = "no"

\* What fstat of the open file and of its name tell.
SameLengthAndName == foreign.grow = "no" /\ foreign.move = "no"

\* prepare_locked: the scan polls the cancel flag and may fail; length and name
\* are checked after it.
Prepare(p) ==
  /\ worker[p] = "scan"
  /\ \/ /\ ~link[p].cancel /\ SameLengthAndName
        /\ worker' = [worker EXCEPT ![p] = "command"]
        /\ shown' = [shown EXCEPT ![p] = missing]
        /\ link' = [link EXCEPT ![p].ready = "ok"]
        /\ UNCHANGED holder
     \/ NotReady(p)
  /\ UNCHANGED <<missing, foreign, front>>

ReceiveCommand(p) ==
  /\ worker[p] = "command"
  /\ \/ /\ link[p].command = "commit"
        /\ worker' = [worker EXCEPT ![p] = "check"]
        /\ link' = [link EXCEPT ![p].command = "none"]
        /\ UNCHANGED <<holder, shown>>
     \/ /\ \/ link[p].command = "abort"
           \/ link[p].command = "none" /\ ~link[p].sender
        /\ Exit(p, link[p])
  /\ UNCHANGED <<missing, foreign, front>>

\* ack.send of an error, then the end of the thread.
Refuse(p) == Exit(p, [link[p] EXCEPT !.ack = IF link[p].ackOpen THEN "err" ELSE @])

\* revalidate_commit sees device, inode, length and name, not the content.
Revalidate(p, from, to) ==
  /\ worker[p] = from
  /\ IF SameLengthAndName THEN Goes(p, to) ELSE Refuse(p)
  /\ UNCHANGED <<missing, foreign, front>>

CheckBefore(p) == Revalidate(p, "check", "rescan")
CheckAfter(p) == Revalidate(p, "recheck", "truncate")

SameToken_IdentityOnly(p) == foreign.grow = "no"

\* The token of the second scan: identity, lengths and the hash of every byte of
\* the open file, whatever its name, and the suffix planned from them.
SameToken(p) == foreign.edit = "no" /\ foreign.grow = "no" /\ missing = shown[p]

Rescan(p) ==
  /\ worker[p] = "rescan"
  /\ IF SameToken(p) THEN Goes(p, "recheck") ELSE Refuse(p)
  /\ UNCHANGED <<missing, foreign, front>>

\* commit_recovery_suffix: the cut at the length that was scanned, whatever the
\* file has grown to, and its sync ...
Truncate(p) ==
  /\ worker[p] = "truncate"
  /\ Goes(p, "append") \/ Refuse(p)
  /\ UNCHANGED <<missing, foreign, front>>

\* ... the rows, rolled back if a write fails and the rollback does not ...
AppendRepair(p) ==
  /\ worker[p] = "append" /\ missing > 0
  /\ \/ missing' = missing - 1 /\ UNCHANGED <<holder, worker, shown, link>>
     \/ missing' \in {missing, shown[p]} /\ Refuse(p)
  /\ UNCHANGED <<foreign, front>>

\* ... and the last sync, then ack.send and the writer's loop.
Acknowledge(p) ==
  /\ worker[p] = "append" /\ missing = 0
  /\ \/ /\ link[p].ackOpen
        /\ worker' = [worker EXCEPT ![p] = "inbox"]
        /\ link' = [link EXCEPT ![p].ack = "ok", ![p].handoff = TRUE]
        /\ UNCHANGED <<holder, shown>>
     \/ ~link[p].ackOpen /\ Exit(p, link[p])
     \/ Refuse(p)
  /\ UNCHANGED <<missing, foreign, front>>

\* JournalInbox::run ends with its last sender.
InboxEnds(p) ==
  /\ worker[p] = "inbox" /\ ~link[p].handoff
  /\ Exit(p, link[p])
  /\ UNCHANGED <<missing, foreign, front>>

WorkerStep(p) ==
  \/ OpenAndLock(p) \/ Prepare(p) \/ ReceiveCommand(p)
  \/ CheckBefore(p) \/ Rescan(p) \/ CheckAfter(p)
  \/ Truncate(p) \/ AppendRepair(p) \/ Acknowledge(p) \/ InboxEnds(p)

-----------------------------------------------------------------------------
(* The front end.                                                          *)

Front(p, to, l) ==
  /\ front' = [front EXCEPT ![p] = to]
  /\ link' = [link EXCEPT ![p] = l]
  /\ UNCHANGED <<file, worker, shown>>

Begin(p) ==
  /\ front[p] = "down"
  /\ front' = [front EXCEPT ![p] = "preparing"]
  /\ worker' = [worker EXCEPT ![p] = "lock"]
  /\ link' = [link EXCEPT ![p] = [NoLink EXCEPT !.sender = TRUE]]
  /\ UNCHANGED <<file, shown>>

\* cancel_and_shutdown: the flag, and an Abort if the channel takes it.
Abort(l) == [l EXCEPT !.cancel = TRUE,
                      !.command = IF @ = "none" THEN "abort" ELSE @]

\* wait_ready; without an answer the sender was dropped by an ended thread.
WaitReady(p) ==
  /\ front[p] = "preparing"
  /\ \/ link[p].ready = "ok" /\ Front(p, "offered", link[p])
     \/ link[p].ready = "err" /\ Front(p, "leaving", Abort(link[p]))

\* A signal, a failed or late warning.
GiveUp(p) == front[p] \in {"preparing", "offered"} /\ Front(p, "leaving", Abort(link[p]))

BeginCommit(p) ==
  /\ front[p] = "offered"
  /\ Front(p, "flight", [link[p] EXCEPT !.command = "commit", !.ackOpen = TRUE])

\* A commit is not cancelled: a signal is latched until it has ended.
Latch(p) ==
  /\ front[p] = "flight" /\ link[p].signal # "stop"
  /\ \E s \in {"suspend", "stop"} : Front(p, "flight", [link[p] EXCEPT !.signal = s])

WaitCommit(p) ==
  /\ front[p] = "flight"
  /\ \/ link[p].ack = "ok" /\ Front(p, "committed", link[p])
     \/ link[p].ack = "err" /\ Front(p, "leaving", link[p])

\* finish_commit, finish_committed_resume.
FinishCommit(p) ==
  front[p] = "committed" /\ link[p].signal = "none" /\ Front(p, "live", link[p])

\* hold_session_during_suspend: stopped and continued as the writer of the file.
Hold(p) ==
  /\ front[p] = "committed" /\ link[p].signal = "suspend"
  /\ \E s \in {"none", "stop"} : Front(p, "committed", [link[p] EXCEPT !.signal = s])

\* The session or the cleanup writer is finished.
Close(p) == Front(p, "leaving", [link[p] EXCEPT !.handoff = FALSE])
CloseAfterSignal(p) == front[p] = "committed" /\ link[p].signal # "none" /\ Close(p)
CloseSession(p) == front[p] = "live" /\ Close(p)

Dropped_JoinsFirst(l) == [l EXCEPT !.cancel = TRUE, !.sender = FALSE]

\* PreparedSession::drop lets go of the ack and the handoff in it before the
\* core is joined.
Dropped(l) == [l EXCEPT !.cancel = TRUE, !.sender = FALSE,
                        !.ackOpen = FALSE, !.handoff = FALSE]

Drop(p) ==
  /\ front[p] \in {"preparing", "offered", "flight", "committed"}
  /\ Front(p, "leaving", Dropped(link[p]))

\* settle_exit, or the join of the drop.
Joined(p) ==
  /\ front[p] = "leaving" /\ worker[p] = "exited"
  /\ front' = [front EXCEPT ![p] = "down"]
  /\ worker' = [worker EXCEPT ![p] = "none"]
  /\ link' = [link EXCEPT ![p] = NoLink]
  /\ UNCHANGED <<file, shown>>

FrontStep(p) ==
  \/ WaitReady(p) \/ WaitCommit(p) \/ Joined(p)
  \/ FinishCommit(p) \/ Hold(p) \/ CloseAfterSignal(p)

\* The rows a live session writes leave something to repair, or nothing.
SessionWrites(p) ==
  /\ front[p] = "live" /\ worker[p] = "inbox"
  /\ missing' \in (0..MaxRepair) \ {missing}
  /\ UNCHANGED <<holder, foreign, front, worker, shown, link>>

\* The process dies; the kernel drops its lock.
Crash(p) ==
  /\ front[p] # "down"
  /\ front' = [front EXCEPT ![p] = "down"]
  /\ worker' = [worker EXCEPT ![p] = "none"]
  /\ shown' = [shown EXCEPT ![p] = 0]
  /\ link' = [link EXCEPT ![p] = NoLink]
  /\ holder' = IF holder = p THEN "free" ELSE holder
  /\ UNCHANGED <<missing, foreign>>

\* How far the thread behind the lock has looked.
When ==
  IF \E p \in Procs : worker[p] \in {"truncate", "append", "inbox"} THEN "behindCheck"
  ELSE IF \E p \in Procs : worker[p] = "recheck" THEN "behindScan" ELSE "before"

\* Someone who ignores the lock edits the file in place, changes its length, or
\* moves it away, at any moment.  Bound: one change from an opening of the file
\* to the next, as each look is for one kind of change and only ever refuses.
Foreign ==
  /\ foreign = Untouched
  /\ \E change \in DOMAIN foreign : foreign' = [foreign EXCEPT ![change] = When]
  /\ UNCHANGED <<missing, holder, front, worker, shown, link>>

Next ==
  \/ \E p \in Procs :
       \/ WorkerStep(p) \/ FrontStep(p)
       \/ Begin(p) \/ GiveUp(p) \/ BeginCommit(p) \/ Latch(p) \/ CloseSession(p) \/ Drop(p)
       \/ SessionWrites(p) \/ Crash(p)
  \/ Foreign

Spec == Init /\ [][Next]_vars

\* A thread that can go on does; the front end polls what it waits for, and a
\* suspended process is continued.
FairSpec ==
  /\ Spec
  /\ \A p \in Procs : WF_vars(WorkerStep(p)) /\ WF_vars(FrontStep(p))

-----------------------------------------------------------------------------
(* Properties.                                                             *)

\* Bytes change only in the file the user was shown (resume.rs:460): not after an
\* edit, a growth or a move that a look still lay ahead of, least of all while
\* the repair waited for the user (persistence-resume-compaction.md:2441), and
\* not when another process has written in between.  No code can look last: what
\* slips through is an edit of the same length behind the second scan, and any
\* change behind the last check (resume.rs:496), where a growth is cut off and
\* the repair follows a file that was moved.
RepairsShownFile ==
  \A p \in Procs : worker[p] \in {"truncate", "append"} =>
    /\ foreign.edit \in {"no", "behindScan", "behindCheck"}
    /\ foreign.grow \in {"no", "behindCheck"} /\ foreign.move \in {"no", "behindCheck"}
    /\ missing <= shown[p] /\ (worker[p] = "truncate" => missing = shown[p])
    /\ front[p] \notin {"preparing", "offered"}

\* No wait of a front end hangs, in whatever order the two ends let go
\* (resume.rs:48, 238, 319): every wait ends, and a resume that was given up
\* ends with the lock free.
WaitsEnd ==
  \A p \in Procs :
    front[p] \in {"preparing", "flight", "committed", "leaving"}
      ~> \/ front[p] \in {"offered", "live"}
         \/ front[p] = "down" /\ holder # p

=============================================================================
