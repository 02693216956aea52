-------------------------- MODULE WorkspaceMutation --------------------------
(* File changes of one process that want the same name: each is prepared     *)
(* from what the name leads to, shown, and committed under the workspace's   *)
(* lock by way of a private staging directory (PreparedWorkspaceMutation),   *)
(* while somebody else edits, removes or moves files.                        *)
(*                                                                           *)
(* What the name leads to is a version: who wrote it, and the number of the  *)
(* change, which stands for content, identity and times together.  A read of *)
(* the target compares its metadata before and after, so it is one step.     *)
EXTENDS Naturals, FiniteSets

CONSTANTS
  Changes,   \* the mutations that are prepared
  User,      \* everybody who does not take the lock
  Nobody,
  MaxEdits   \* bound: changes by others

VARIABLES
  target,    \* the version behind the name, or Absent
  edits,     \* changes of the target so far
  moved,     \* the parent's path leads elsewhere since, with the same meaning
             \* of "after" as for a version
  lock,      \* who holds the workspace's lock
  change,    \* each mutation: where it is, its operation, its baseline, result
  staging    \* the private directory of each mutation and what it holds

vars == <<target, edits, moved, lock, change, staging>>

Absent == [by |-> Nobody, number |-> 0, after |-> {}]
Unmoved == [is |-> FALSE, after |-> {}]

Held == {"locked", "stage", "staged", "written", "publish", "cleanup", "sync"}
Ended == {"complete", "declined", "not committed", "committed", "crashed"}

TypeOK ==
  /\ target.by \in Changes \cup {User, Nobody} /\ target.after \subseteq Changes
  /\ edits \in 0..(MaxEdits + Cardinality(Changes))
  /\ moved \in [is : BOOLEAN, after : SUBSET Changes]
  /\ lock \in Changes \cup {Nobody}
  /\ \A c \in Changes :
       /\ change[c].pc \in {"idle", "proposed", "lock"} \cup Held \cup Ended
       /\ change[c].op \in {"none", "create", "update"}
  /\ staging \in [Changes -> {"none", "directory", "part", "whole"}]

Init ==
  /\ target \in {Absent, [by |-> User, number |-> 1, after |-> {}]}
  /\ edits = target.number
  /\ moved = Unmoved
  /\ lock = Nobody
  /\ change = [c \in Changes |->
                 [pc |-> "idle", op |-> "none", base |-> Absent, cancelled |-> FALSE,
                  warning |-> FALSE, over |-> Absent, published |-> "none"]]
  /\ staging = [c \in Changes |-> "none"]

-----------------------------------------------------------------------------
Moves(c, pc) == change' = [change EXCEPT ![c].pc = pc]

At(c, pc) == change[c].pc = pc

\* The parent is still the same directory and the name leads to what was
\* prepared from: nothing for a creation, the exact version for an update.
Fresh_OnlyExists(c) == ~moved.is /\ (target.by = Nobody <=> change[c].op = "create")
Fresh(c) ==
  /\ ~moved.is
  /\ IF change[c].op = "create" THEN target.by = Nobody ELSE target = change[c].base

\* A directory is opened, read and closed; nothing is changed yet.
Prepare(c) ==
  /\ At(c, "idle")
  /\ \/ Moves(c, "complete")
     \/ \E op \in {"create", "update"} :
          /\ (op = "create" <=> target.by = Nobody)
          /\ ~moved.is
          /\ change' = [change EXCEPT ![c].pc = "proposed", ![c].op = op,
                                      ![c].base = target]
  /\ UNCHANGED <<target, edits, moved, lock, staging>>

\* The diff is shown; the answer comes when it comes.
Decide(c) ==
  /\ At(c, "proposed")
  /\ \E pc \in {"lock", "declined"} : Moves(c, pc)
  /\ UNCHANGED <<target, edits, moved, lock, staging>>

-----------------------------------------------------------------------------
(* commit                                                                    *)

\* A mutation that gives up forgets the lock.
NotCommitted_KeepsLock(c, left) ==
  /\ staging' = [staging EXCEPT ![c] = left]
  /\ change' = [change EXCEPT ![c].pc = "not committed",
                              ![c].warning = left # "none"]
  /\ UNCHANGED lock

\* Leaving without a publication, with what the removal of the staging left.
NotCommitted(c, left) ==
  /\ staging' = [staging EXCEPT ![c] = left]
  /\ change' = [change EXCEPT ![c].pc = "not committed",
                              ![c].warning = left # "none"]
  /\ lock' = IF lock = c THEN Nobody ELSE lock

\* cleanup_staging: the file first, then the directory; each may fail.
Left(c) == {"none", "directory", staging[c]}

Locked(c) ==
  /\ At(c, "lock")
  /\ \/ /\ change[c].cancelled
        /\ NotCommitted(c, "none")
     \/ /\ ~change[c].cancelled /\ lock = Nobody
        /\ lock' = c
        /\ Moves(c, "locked")
        /\ UNCHANGED staging
  /\ UNCHANGED <<target, edits, moved>>

Revalidate(c) ==
  /\ At(c, "locked")
  /\ IF change[c].cancelled \/ ~Fresh(c) THEN NotCommitted(c, "none")
     ELSE Moves(c, "stage") /\ UNCHANGED <<lock, staging>>
  /\ UNCHANGED <<target, edits, moved>>

\* A random name is drawn and the directory made; opening it may still fail.
MakeStaging(c) ==
  /\ At(c, "stage")
  /\ \/ \E left \in {"none", "directory"} : NotCommitted(c, left)
     \/ /\ Moves(c, "staged")
        /\ staging' = [staging EXCEPT ![c] = "directory"]
        /\ UNCHANGED lock
  /\ UNCHANGED <<target, edits, moved>>

\* The candidate is created, unless cancelled or impossible.
CreateCandidate(c) ==
  /\ At(c, "staged") /\ staging[c] = "directory"
  /\ \/ \E left \in Left(c) : NotCommitted(c, left)
     \/ /\ ~change[c].cancelled
        /\ staging' = [staging EXCEPT ![c] = "part"]
        /\ UNCHANGED <<lock, change>>
  /\ UNCHANGED <<target, edits, moved>>

\* Its chunks are written, its mode set and its bytes synchronised.
WriteCandidate(c) ==
  /\ At(c, "staged") /\ staging[c] = "part"
  /\ \/ \E left \in Left(c) : NotCommitted(c, left)
     \/ /\ ~change[c].cancelled
        /\ staging' = [staging EXCEPT ![c] = "whole"]
        /\ Moves(c, "written")
        /\ UNCHANGED lock
  /\ UNCHANGED <<target, edits, moved>>

LateRevalidate(c) ==
  /\ At(c, "written")
  /\ IF change[c].cancelled \/ ~Fresh(c)
     THEN \E left \in Left(c) : NotCommitted(c, left)
     ELSE Moves(c, "publish") /\ UNCHANGED <<lock, staging>>
  /\ UNCHANGED <<target, edits, moved>>

\* A link never replaces what is there, a rename does.
MayReplace(c) == change[c].op = "update"

\* The last cancellation point, and the one call that publishes.
Publish(c) ==
  /\ At(c, "publish")
  /\ \/ \E left \in Left(c) : NotCommitted(c, left) /\ UNCHANGED <<target, edits>>
     \/ /\ ~change[c].cancelled
        /\ target.by = Nobody \/ MayReplace(c)
        /\ edits' = edits + 1
        /\ target' = [by |-> c, number |-> edits', after |-> {}]
        /\ change' = [change EXCEPT ![c].pc = "cleanup", ![c].over = target,
                                    ![c].published =
                                      IF moved.is /\ c \notin moved.after
                                      THEN "astray" ELSE staging[c]]
        /\ staging' = [staging EXCEPT ![c] =
                         IF change[c].op = "update" THEN "directory" ELSE @]
        /\ UNCHANGED lock
  /\ UNCHANGED moved

CleanUp(c) ==
  /\ At(c, "cleanup")
  /\ \E left \in Left(c) :
       /\ staging' = [staging EXCEPT ![c] = left]
       /\ change' = [change EXCEPT ![c].pc = "sync", ![c].warning = left # "none"]
  /\ UNCHANGED <<target, edits, moved, lock>>

\* Whether the directory could be synchronised or not, the change is there.
SyncParent(c) ==
  /\ At(c, "sync")
  /\ Moves(c, "committed")
  /\ lock' = Nobody
  /\ UNCHANGED <<target, edits, moved, staging>>

Cancel(c) ==
  /\ change[c].pc \in {"proposed", "lock"} \cup Held /\ ~change[c].cancelled
  /\ change' = [change EXCEPT ![c].cancelled = TRUE]
  /\ UNCHANGED <<target, edits, moved, lock, staging>>

-----------------------------------------------------------------------------
(* The rest of the world.                                                    *)

\* Commits whose last check is behind them: nothing protects these any more.
Unprotected == {c \in Changes : At(c, "publish")}

UserEdits ==
  /\ edits < MaxEdits /\ edits' = edits + 1
  /\ \E by \in {User, Nobody} :
       /\ (by = Nobody => target.by # Nobody)
       /\ target' = [by |-> by, number |-> edits', after |-> Unprotected]
  /\ UNCHANGED <<moved, lock, change, staging>>

ParentMoves ==
  /\ ~moved.is
  /\ moved' = [is |-> TRUE, after |-> Unprotected]
  /\ UNCHANGED <<target, edits, lock, change, staging>>

\* The process dies: its lock with it, its staging directories stay.
Crash ==
  /\ \E c \in Changes : change[c].pc \in {"proposed", "lock"} \cup Held
  /\ change' = [c \in Changes |-> IF change[c].pc \in Ended THEN change[c]
                                  ELSE [change[c] EXCEPT !.pc = "crashed"]]
  /\ lock' = Nobody
  /\ UNCHANGED <<target, edits, moved, staging>>

-----------------------------------------------------------------------------
Commit(c) == Locked(c) \/ Revalidate(c) \/ MakeStaging(c) \/ CreateCandidate(c)
               \/ WriteCandidate(c) \/ LateRevalidate(c) \/ Publish(c)
               \/ CleanUp(c) \/ SyncParent(c)

Next ==
  \/ \E c \in Changes : Prepare(c) \/ Decide(c) \/ Commit(c) \/ Cancel(c)
  \/ UserEdits \/ ParentMoves \/ Crash

Spec == Init /\ [][Next]_vars

\* A commit runs on a blocking thread until it returns.
Fairness == \A c \in Changes : WF_vars(Commit(c))

-----------------------------------------------------------------------------
(* Correctness.                                                              *)

\* What was published replaced exactly what was shown in the diff, or what
\* somebody wrote after the last check; it was whole, the path still led
\* there, and a creation replaced nothing.  So no change of another commit is
\* ever lost, and no foreign edit but one in that last window.
PublishedOnBaseline ==
  \A c \in {d \in Changes : change[d].published # "none"} :
    /\ change[c].published = "whole"
    /\ IF change[c].op = "create" THEN change[c].over.by = Nobody
       ELSE change[c].over = change[c].base \/ c \in change[c].over.after

\* The answer agrees with the file: nothing of a change that is reported as
\* not committed was published, a reported commit was, and staging is left
\* behind only with a warning or by a crash.
AnswerAgrees ==
  \A c \in Changes :
    /\ (At(c, "committed") => change[c].published = "whole")
    /\ (change[c].pc \in {"not committed", "declined", "complete"}
          => change[c].published = "none")
    /\ (change[c].pc \in Ended /\ staging[c] # "none"
          => change[c].warning \/ At(c, "crashed"))

CommitAgrees == PublishedOnBaseline /\ AnswerAgrees

\* A commit that began has to return.
Begun(c) == change[c].pc \in {"lock"} \cup Held
Returned(c) == change[c].pc \in Ended
=============================================================================
