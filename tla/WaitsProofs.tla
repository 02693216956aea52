------------------------------ MODULE WaitsProofs ------------------------------
(***************************************************************************)
(* Proofs about what is waited for in a process (MCWaits): the resume of a *)
(* session, the process around its turn, its terminal, and the stream of   *)
(* an answer.                                                              *)
(*                                                                         *)
(* The resume.  Whatever number of processes resume one journal, die and   *)
(* are edited under, a repair changes only the file that was shown, and    *)
(* only after its front end asked for it.  The lock is held by exactly the *)
(* thread that is past it (LockHeld), so that nobody else appends between  *)
(* the second scan and the cut.  From that scan on the rows missing are    *)
(* those shown, and no foreign change that a look lay ahead of is unseen:  *)
(* an edit came behind the scan, a growth or a move behind the last check  *)
(* (Rescanned).  And a thread that commits was told to, by a front end     *)
(* that no longer offers the repair (Asked).                               *)
(*                                                                         *)
(* The process.  Each place of run_options knows what has been decided     *)
(* (Stands), so that the exit code is the one that the turn, or the signal *)
(* that was held, earned.                                                  *)
(*                                                                         *)
(* The terminal.  An owner that gave the settings back left the original   *)
(* ones (Kept), dsh is in front wherever it changes them (InFront), and    *)
(* the dock stands only where the loop counts on it (Docked); so that the  *)
(* shell finds its terminal, stopped or for good.                          *)
(*                                                                         *)
(* The stream.  The validator is followed to the end of what is queued     *)
(* (Queued): while the stream goes on the blocks of the translator are the *)
(* open ones and a finish has room (Flowing), and when it is over the last *)
(* chunk of the queue is the finish of an answer that came whole           *)
(* (Finishing, Finished).  That the chunks of an event go on with such a   *)
(* stream is shown along the loop over the blocks (Translating).           *)
(***************************************************************************)
EXTENDS MCWaits, WellFoundedInduction, TLAPS

Holding == {"scan", "command", "check", "rescan", "recheck", "truncate", "append", "inbox"}
Committing == {"check", "rescan", "recheck", "truncate", "append", "inbox"}
Before == {"down", "preparing", "offered"}

Links ==
  [cancel : BOOLEAN, sender : BOOLEAN, command : {"none", "commit", "abort"},
   ready : {"none", "ok", "err"}, ackOpen : BOOLEAN, ack : {"none", "ok", "err"},
   handoff : BOOLEAN, signal : {"none", "suspend", "stop"}]

Whens == {"no", "before", "behindScan", "behindCheck"}
Changes == [edit : Whens, grow : Whens, move : Whens]

Typed ==
  /\ missing \in Nat /\ holder \in Procs \cup {"free"}
  /\ foreign \in Changes
  /\ front \in [Procs -> Before \cup {"flight", "committed", "leaving", "live"}]
  /\ worker \in [Procs -> {"none", "lock", "exited"} \cup Holding]
  /\ shown \in [Procs -> Nat] /\ link \in [Procs -> Links]

\* One process: it holds the lock while its thread is past it.
HasLock(p) == worker[p] \in Holding <=> holder = p

\* What a thread at a place of the commit has seen of the file still holds.
HasSeen(p, place) ==
  /\ place \in {"recheck", "truncate"} => missing = shown[p]
  /\ place = "append" => missing <= shown[p]
  /\ place \in {"recheck", "truncate", "append"} => foreign.edit # "before"
  /\ place \in {"truncate", "append"} =>
       foreign.grow \in {"no", "behindCheck"} /\ foreign.move \in {"no", "behindCheck"}

IsRescanned(p) == HasSeen(p, worker[p])

\* Its thread commits only what the front end no longer merely offers, and
\* there is none without a front end.
IsAsked(p) ==
  /\ front[p] \in Before => link[p].command = "none" /\ worker[p] \notin Committing
  /\ front[p] = "down" => worker[p] = "none"

LockHeld == \A p \in Procs : HasLock(p)
Rescanned == \A p \in Procs : IsRescanned(p)
Asked == \A p \in Procs : IsAsked(p)

IInv == Typed /\ LockHeld /\ Rescanned /\ Asked

\* At most one thread is past the lock.
OneWriter ==
  \A p, q \in Procs : worker[p] \in Holding /\ worker[q] \in Holding => p = q

-----------------------------------------------------------------------------
(* What the invariant gives, and that it holds at the start.                 *)

LEMMA Tells == IInv => RepairsShownFile /\ OneWriter
<1> SUFFICES ASSUME IInv PROVE RepairsShownFile /\ OneWriter
  OBVIOUS
<1>1. RepairsShownFile
  <2> SUFFICES ASSUME NEW p \in Procs, worker[p] \in {"truncate", "append"}
               PROVE  /\ foreign.edit \in {"no", "behindScan", "behindCheck"}
                      /\ foreign.grow \in {"no", "behindCheck"}
                      /\ foreign.move \in {"no", "behindCheck"}
                      /\ missing <= shown[p] /\ (worker[p] = "truncate" => missing = shown[p])
                      /\ front[p] \notin {"preparing", "offered"}
    BY DEF RepairsShownFile
  <2>1. HasSeen(p, worker[p]) /\ foreign.edit \in Whens /\ missing \in Nat /\ shown[p] \in Nat
    BY DEF IInv, Typed, Changes, Rescanned, IsRescanned
  <2>2. front[p] \notin {"preparing", "offered"}
    BY DEF IInv, Asked, IsAsked, Before, Committing
  <2> QED
    BY <2>1, <2>2 DEF HasSeen, Whens
<1>2. OneWriter
  BY DEF IInv, LockHeld, HasLock, OneWriter
<1> QED
  BY <1>1, <1>2

LEMMA NoLinkTyped == NoLink \in Links /\ NoLink.command = "none"
BY DEF NoLink, Links

LEMMA Begins == Init => IInv
<1> SUFFICES ASSUME Init PROVE IInv
  OBVIOUS
<1>1. missing \in Nat
  BY LockNames DEF Init
<1>2. Typed
  BY <1>1, NoLinkTyped DEF Init, Typed, Before, Untouched, Changes, Whens
<1>3. ASSUME NEW p \in Procs PROVE HasLock(p) /\ IsRescanned(p) /\ IsAsked(p)
  BY NoLinkTyped, LockNames DEF Init, HasLock, Holding, IsRescanned, HasSeen, IsAsked, Committing
<1> QED
  BY <1>2, <1>3 DEF IInv, LockHeld, Rescanned, Asked

-----------------------------------------------------------------------------
(* A step of one process.                                                    *)

\* What such a step leaves alone: the ends of the others, the lock unless it
\* is free or its own, and the file unless another has the lock.
Own(p) ==
  /\ Typed'
  /\ \A q \in Procs : q # p =>
       front'[q] = front[q] /\ worker'[q] = worker[q] /\ shown'[q] = shown[q]
         /\ link'[q] = link[q]
  /\ foreign' = foreign \/ holder = "free"
  /\ \/ holder' = holder
     \/ holder' = "free" /\ holder = p
     \/ holder' = p /\ holder = "free"
  /\ missing' = missing \/ holder \in {p, "free"}

LEMMA OthersKeep ==
  ASSUME IInv, NEW p \in Procs, Own(p), HasLock(p)', IsRescanned(p)', IsAsked(p)'
  PROVE  IInv'
<1>1. ASSUME NEW q \in Procs, q # p PROVE HasLock(q)' /\ IsRescanned(q)' /\ IsAsked(q)'
  <2>1. HasLock(q) /\ IsRescanned(q) /\ IsAsked(q)
    BY DEF IInv, LockHeld, Rescanned, Asked
  <2>2. holder' = q <=> holder = q
    BY <1>1, LockNames DEF Own
  <2>3. HasLock(q)' /\ IsAsked(q)'
    BY <2>1, <2>2, <1>1 DEF Own, HasLock, IsAsked
  <2>4. IsRescanned(q)'
    <3>1. CASE missing' = missing /\ foreign' = foreign
      BY <3>1, <2>1, <1>1 DEF Own, IsRescanned, HasSeen
    <3>2. CASE holder \in {p, "free"}
      <4>1. holder # q
        BY <3>2, <1>1, LockNames
      <4>2. worker'[q] \notin Holding
        BY <4>1, <2>1, <1>1 DEF Own, HasLock
      <4> QED
        BY <4>2 DEF IsRescanned, HasSeen, Holding
    <3> QED
      BY <3>1, <3>2 DEF Own
  <2> QED
    BY <2>3, <2>4
<1>2. \A q \in Procs : HasLock(q)' /\ IsRescanned(q)' /\ IsAsked(q)'
  BY <1>1
<1> QED
  BY <1>2 DEF Own, IInv, LockHeld, Rescanned, Asked

\* The end of a thread, whatever it tells its front end.
LEMMA Exits ==
  ASSUME IInv, NEW p \in Procs, worker[p] # "none",
         NEW l \in Links, Exit(p, l), l.command = link[p].command,
         UNCHANGED <<foreign, front>>, missing' \in Nat, missing' = missing \/ holder = p
  PROVE  IInv'
<1>1. /\ worker' = [worker EXCEPT ![p] = "exited"] /\ shown' = [shown EXCEPT ![p] = 0]
      /\ link' = [link EXCEPT ![p] = l] /\ holder' = IF holder = p THEN "free" ELSE holder
  BY DEF Exit
<1>2. Typed'
  BY <1>1 DEF IInv, Typed
<1>3. Own(p)
  BY <1>1, <1>2 DEF Own, IInv, Typed
<1>4. worker'[p] = "exited" /\ link'[p] = l /\ holder' # p
  BY <1>1, LockNames DEF IInv, Typed
<1>5. HasLock(p)' /\ IsRescanned(p)' /\ IsAsked(p)'
  BY <1>4 DEF HasLock, IsRescanned, HasSeen, IsAsked, Holding, Committing, IInv, Asked
<1> QED
  BY <1>3, <1>5, OthersKeep

\* The links of a process are records of their type.
LEMMA LinkOf == ASSUME Typed, NEW p \in Procs PROVE link[p] \in Links
BY DEF Typed

LEMMA ExitsNotReady ==
  ASSUME IInv, NEW p \in Procs, worker[p] # "none", NotReady(p), UNCHANGED <<missing, foreign, front>>
  PROVE  IInv'
<1>1. PICK l \in Links : l = link[p]
  BY LinkOf DEF IInv
<1>2. PICK m \in Links : m = [l EXCEPT !.ready = "err"]
  BY DEF Links
<1>3. m.command = link[p].command
  BY <1>1, <1>2 DEF Links
<1>4. Exit(p, m)
  BY <1>1, <1>2 DEF NotReady
<1> QED
  BY <1>3, <1>4, Exits DEF IInv, Typed

LEMMA Refuses ==
  ASSUME IInv, NEW p \in Procs, worker[p] # "none", Refuse(p), UNCHANGED <<foreign, front>>,
         missing' \in Nat, missing' = missing \/ holder = p
  PROVE  IInv'
<1>1. PICK l \in Links : l = link[p]
  BY LinkOf DEF IInv
<1>2. PICK a \in {"none", "ok", "err"} : a = IF l.ackOpen THEN "err" ELSE l.ack
  BY DEF Links
<1>3. PICK m \in Links : m = [l EXCEPT !.ack = a]
  BY DEF Links
<1>4. m.command = link[p].command
  BY <1>1, <1>3 DEF Links
<1>5. Exit(p, m)
  BY <1>1, <1>2, <1>3 DEF Refuse
<1> QED
  BY <1>4, <1>5, Exits

\* A thread that goes on to a place from which it holds the lock as before.
LEMMA GoesOn ==
  ASSUME IInv, NEW p \in Procs, worker[p] \in Committing, NEW to \in Committing, Goes(p, to),
         UNCHANGED <<missing, foreign, front>>, HasSeen(p, to)
  PROVE  IInv'
<1>1. /\ worker' = [worker EXCEPT ![p] = to] /\ UNCHANGED <<holder, shown, link>>
  BY DEF Goes
<1>2. to \in Holding /\ worker[p] \in Holding
  BY DEF Committing, Holding
<1>3. Typed' /\ worker'[p] = to
  BY <1>1, <1>2 DEF IInv, Typed
<1>4. Own(p)
  BY <1>1, <1>3 DEF Own, IInv, Typed
<1>5. HasLock(p) /\ IsAsked(p)
  BY DEF IInv, LockHeld, Asked
<1>6. HasLock(p)' /\ IsAsked(p)'
  BY <1>1, <1>2, <1>3, <1>5 DEF HasLock, IsAsked, Before
<1>7. IsRescanned(p)'
  BY <1>1, <1>3 DEF IsRescanned, HasSeen
<1> QED
  BY <1>4, <1>6, <1>7, OthersKeep

-----------------------------------------------------------------------------
(* One lemma for each operation of the thread.                               *)

LEMMA OpensAndLocks ==
  ASSUME IInv, NEW p \in Procs, OpenAndLock(p)
  PROVE  IInv'
<1>0. worker[p] # "none" /\ front' = front
  BY DEF OpenAndLock
<1>1. CASE NotReady(p) /\ UNCHANGED <<missing, foreign>>
  BY <1>0, <1>1, ExitsNotReady
<1>2. CASE /\ holder = "free" /\ holder' = p
           /\ worker' = [worker EXCEPT ![p] = "scan"] /\ UNCHANGED <<shown, link>>
           /\ missing' \in (IF foreign = Untouched THEN {missing} ELSE 0..MaxRepair)
           /\ foreign' = Untouched
  <2>0. missing' \in Nat /\ foreign' \in Changes
    BY <1>2, LockNames DEF IInv, Typed, Untouched, Changes, Whens
  <2>1. Typed' /\ worker'[p] = "scan"
    BY <1>2, <2>0 DEF OpenAndLock, IInv, Typed, Holding
  <2>2. Own(p)
    BY <1>2, <2>1 DEF OpenAndLock, Own, IInv, Typed
  <2>3. HasLock(p)' /\ IsRescanned(p)' /\ IsAsked(p)'
    BY <1>2, <2>1 DEF OpenAndLock, HasLock, Holding, IsRescanned, HasSeen, IsAsked, Committing,
                         IInv, Asked
  <2> QED
    BY <2>2, <2>3, OthersKeep
<1> QED
  BY <1>1, <1>2 DEF OpenAndLock

LEMMA Prepares ==
  ASSUME IInv, NEW p \in Procs, Prepare(p)
  PROVE  IInv'
<1>1. CASE NotReady(p)
  BY <1>1, ExitsNotReady DEF Prepare
<1>2. CASE /\ worker' = [worker EXCEPT ![p] = "command"] /\ UNCHANGED holder
           /\ shown' = [shown EXCEPT ![p] = missing]
           /\ link' = [link EXCEPT ![p].ready = "ok"]
  <2>1. PICK l \in Links : l = link[p]
    BY LinkOf DEF IInv
  <2>2. PICK m \in Links : m = [l EXCEPT !.ready = "ok"]
    BY DEF Links
  <2>3. link' = [link EXCEPT ![p] = m] /\ m.command = l.command
    BY <1>2, <2>1, <2>2 DEF IInv, Typed, Links
  <2>4. Typed' /\ worker'[p] = "command" /\ link'[p] = m
    BY <1>2, <2>3 DEF Prepare, IInv, Typed, Holding
  <2>5. Own(p)
    BY <1>2, <2>3, <2>4 DEF Prepare, Own, IInv, Typed
  <2>6. HasLock(p)' /\ IsRescanned(p)' /\ IsAsked(p)'
    BY <1>2, <2>1, <2>3, <2>4
       DEF Prepare, HasLock, Holding, IsRescanned, HasSeen, IsAsked, Committing, IInv, Asked,
           LockHeld
  <2> QED
    BY <2>5, <2>6, OthersKeep
<1> QED
  BY <1>1, <1>2 DEF Prepare

LEMMA ReceivesCommand ==
  ASSUME IInv, NEW p \in Procs, ReceiveCommand(p)
  PROVE  IInv'
<1>1. PICK l \in Links : l = link[p]
  BY LinkOf DEF IInv
<1>2. CASE Exit(p, link[p])
  BY <1>1, <1>2, Exits DEF ReceiveCommand, IInv, Typed
<1>3. CASE /\ l.command = "commit"
           /\ worker' = [worker EXCEPT ![p] = "check"]
           /\ link' = [link EXCEPT ![p].command = "none"]
           /\ UNCHANGED <<holder, shown>>
  <2>1. PICK m \in Links : m = [l EXCEPT !.command = "none"]
    BY DEF Links
  <2>2. link' = [link EXCEPT ![p] = m]
    BY <1>1, <1>3, <2>1 DEF IInv, Typed
  <2>3. Typed' /\ worker'[p] = "check"
    BY <1>3, <2>2 DEF ReceiveCommand, IInv, Typed, Holding
  <2>4. Own(p)
    BY <1>3, <2>2, <2>3 DEF ReceiveCommand, Own, IInv, Typed
  <2>5. front[p] \notin Before
    BY <1>1, <1>3 DEF IInv, Asked, IsAsked
  <2>6. HasLock(p)' /\ IsRescanned(p)' /\ IsAsked(p)'
    BY <1>3, <2>3, <2>5
       DEF ReceiveCommand, HasLock, Holding, Before, IsRescanned, HasSeen, IsAsked, IInv, LockHeld
  <2> QED
    BY <2>4, <2>6, OthersKeep
<1> QED
  BY <1>1, <1>2, <1>3 DEF ReceiveCommand

LEMMA Checks ==
  ASSUME IInv, NEW p \in Procs, CheckBefore(p) \/ CheckAfter(p)
  PROVE  IInv'
<1>1. CASE Refuse(p)
  BY <1>1, Refuses DEF CheckBefore, CheckAfter, Revalidate, IInv, Typed
<1>2. CASE CheckBefore(p) /\ Goes(p, "rescan")
  BY <1>2, GoesOn DEF CheckBefore, Revalidate, Committing, HasSeen
<1>3. CASE CheckAfter(p) /\ SameLengthAndName /\ Goes(p, "truncate")
  <2>1. HasSeen(p, "recheck")
    BY <1>3 DEF CheckAfter, Revalidate, IInv, Rescanned, IsRescanned
  <2>2. HasSeen(p, "truncate")
    BY <1>3, <2>1 DEF HasSeen, SameLengthAndName
  <2> QED
    BY <1>3, <2>2, GoesOn DEF CheckAfter, Revalidate, Committing
<1> QED
  BY <1>1, <1>2, <1>3 DEF CheckBefore, CheckAfter, Revalidate

LEMMA Rescans ==
  ASSUME IInv, NEW p \in Procs, Rescan(p)
  PROVE  IInv'
<1>1. CASE Refuse(p)
  BY <1>1, Refuses DEF Rescan, IInv, Typed
<1>2. CASE SameToken(p) /\ Goes(p, "recheck")
  BY <1>2, GoesOn DEF Rescan, SameToken, Committing, HasSeen
<1> QED
  BY <1>1, <1>2 DEF Rescan

LEMMA Truncates ==
  ASSUME IInv, NEW p \in Procs, Truncate(p)
  PROVE  IInv'
<1>1. CASE Refuse(p)
  BY <1>1, Refuses DEF Truncate, IInv, Typed
<1>2. CASE Goes(p, "append")
  <2>1. HasSeen(p, "truncate") /\ missing \in Nat
    BY DEF Truncate, IInv, Typed, Rescanned, IsRescanned
  <2>2. HasSeen(p, "append")
    BY <2>1 DEF HasSeen
  <2> QED
    BY <1>2, <2>2, GoesOn DEF Truncate, Committing
<1> QED
  BY <1>1, <1>2 DEF Truncate

\* The rows that a commit writes, or takes back.
LEMMA Appends ==
  ASSUME IInv, NEW p \in Procs, AppendRepair(p)
  PROVE  IInv'
<1>1. missing \in Nat /\ shown[p] \in Nat /\ holder = p
  BY DEF AppendRepair, IInv, Typed, LockHeld, HasLock, Holding
<1>2. CASE missing' \in {missing, shown[p]} /\ Refuse(p)
  BY <1>1, <1>2, Refuses DEF AppendRepair
<1>3. CASE missing' = missing - 1 /\ UNCHANGED <<holder, worker, shown, link>>
  <2>1. missing' \in Nat
    BY <1>1, <1>3 DEF AppendRepair
  <2>2. Typed'
    BY <1>3, <2>1 DEF AppendRepair, IInv, Typed
  <2>3. Own(p)
    BY <1>1, <1>3, <2>2 DEF AppendRepair, Own
  <2>4. HasSeen(p, "append")
    BY DEF AppendRepair, IInv, Rescanned, IsRescanned
  <2>5. IsRescanned(p)'
    BY <1>1, <1>3, <2>4 DEF AppendRepair, IsRescanned, HasSeen
  <2>6. HasLock(p)' /\ IsAsked(p)'
    BY <1>3 DEF AppendRepair, HasLock, IsAsked, IInv, LockHeld, Asked
  <2> QED
    BY <2>3, <2>5, <2>6, OthersKeep
<1> QED
  BY <1>2, <1>3 DEF AppendRepair

LEMMA Acknowledges ==
  ASSUME IInv, NEW p \in Procs, Acknowledge(p)
  PROVE  IInv'
<1>1. PICK l \in Links : l = link[p]
  BY LinkOf DEF IInv
<1>2. CASE Refuse(p)
  BY <1>2, Refuses DEF Acknowledge, IInv, Typed
<1>3. CASE Exit(p, link[p])
  BY <1>1, <1>3, Exits DEF Acknowledge, IInv, Typed
<1>4. CASE /\ worker' = [worker EXCEPT ![p] = "inbox"] /\ UNCHANGED <<holder, shown>>
           /\ link' = [link EXCEPT ![p].ack = "ok", ![p].handoff = TRUE]
  <2>1. PICK m \in Links : m = [l EXCEPT !.ack = "ok", !.handoff = TRUE]
    BY DEF Links
  <2>2. link' = [link EXCEPT ![p] = m] /\ m.command = l.command
    BY <1>1, <1>4, <2>1, ZenonT(60) DEF IInv, Typed, Links
  <2>3. Typed' /\ worker'[p] = "inbox" /\ link'[p] = m
    BY <1>4, <2>2 DEF Acknowledge, IInv, Typed, Holding
  <2>4. Own(p)
    BY <1>4, <2>2, <2>3 DEF Acknowledge, Own, IInv, Typed
  <2>5. front[p] \notin Before
    BY DEF Acknowledge, IInv, Asked, IsAsked, Committing
  <2>6. HasLock(p)' /\ IsRescanned(p)' /\ IsAsked(p)'
    BY <1>4, <2>3, <2>5
       DEF Acknowledge, HasLock, Holding, Before, IsRescanned, HasSeen, IsAsked, IInv, LockHeld
  <2> QED
    BY <2>4, <2>6, OthersKeep
<1> QED
  BY <1>2, <1>3, <1>4 DEF Acknowledge

LEMMA InboxEnding ==
  ASSUME IInv, NEW p \in Procs, InboxEnds(p)
  PROVE  IInv'
<1>1. link[p] \in Links
  BY LinkOf DEF IInv
<1> QED
  BY <1>1, Exits DEF InboxEnds, IInv, Typed

LEMMA WorkerKeeps ==
  ASSUME IInv, NEW p \in Procs, WorkerStep(p)
  PROVE  IInv'
BY OpensAndLocks, Prepares, ReceivesCommand, Checks, Rescans, Truncates, Appends, Acknowledges,
   InboxEnding DEF WorkerStep

-----------------------------------------------------------------------------
(* The front end.                                                            *)

FrontPlaces == Before \cup {"flight", "committed", "leaving", "live"}

LEMMA FrontMoves ==
  ASSUME IInv, NEW p \in Procs, NEW to \in FrontPlaces, NEW l \in Links, Front(p, to, l),
         to # "down", to \in Before => l.command = "none" /\ worker[p] \notin Committing
  PROVE  IInv'
<1>1. /\ front' = [front EXCEPT ![p] = to] /\ link' = [link EXCEPT ![p] = l]
      /\ UNCHANGED <<missing, holder, foreign, worker, shown>>
  BY DEF Front, file
<1>2. Typed' /\ front'[p] = to /\ link'[p] = l
  BY <1>1 DEF IInv, Typed, FrontPlaces
<1>3. Own(p)
  BY <1>1, <1>2 DEF Own, IInv, Typed
<1>4. HasLock(p)' /\ IsRescanned(p)' /\ IsAsked(p)'
  BY <1>1, <1>2 DEF HasLock, IsRescanned, HasSeen, IsAsked, IInv, LockHeld, Rescanned
<1> QED
  BY <1>3, <1>4, OthersKeep

\* A front end that leaves its waits changes only its own ends of the link.
LEMMA LinksTyped ==
  ASSUME NEW l \in Links
  PROVE  /\ Abort(l) \in Links /\ Dropped(l) \in Links
         /\ [l EXCEPT !.command = "commit", !.ackOpen = TRUE] \in Links
         /\ [l EXCEPT !.handoff = FALSE] \in Links
         /\ \A s \in {"none", "suspend", "stop"} : [l EXCEPT !.signal = s] \in Links
<1>1. PICK c \in {"none", "commit", "abort"} : c = IF l.command = "none" THEN "abort" ELSE l.command
  BY DEF Links
<1>2. Abort(l) = [l EXCEPT !.cancel = TRUE, !.command = c]
  BY <1>1 DEF Abort
<1>3. Abort(l) \in Links
  BY <1>2 DEF Links
<1> QED
  BY <1>3 DEF Dropped, Links

LEMMA FrontKeeps ==
  ASSUME IInv, NEW p \in Procs,
         \/ WaitReady(p) \/ WaitCommit(p) \/ FinishCommit(p) \/ Hold(p) \/ CloseAfterSignal(p)
         \/ GiveUp(p) \/ BeginCommit(p) \/ Latch(p) \/ CloseSession(p) \/ Drop(p)
  PROVE  IInv'
<1> DEFINE l == link[p]
<1>1. l \in Links
  BY LinkOf DEF IInv
<1>2. IsAsked(p)
  BY DEF IInv, Asked
<1> HIDE DEF l
<1>3. CASE Front(p, "offered", l) /\ front[p] = "preparing"
  BY <1>1, <1>2, <1>3, FrontMoves DEF l, IsAsked, Before, FrontPlaces
<1>4. ASSUME NEW m \in Links, NEW to \in {"flight", "committed", "leaving", "live"}, Front(p, to, m)
      PROVE  IInv'
  BY <1>4, FrontMoves DEF Before, FrontPlaces
<1>5. CASE WaitReady(p)
  BY <1>1, <1>3, <1>4, <1>5, LinksTyped DEF l, WaitReady
<1>6. CASE WaitCommit(p) \/ FinishCommit(p)
  BY <1>1, <1>4, <1>6 DEF l, WaitCommit, FinishCommit
<1>7. CASE Hold(p) \/ Latch(p)
  BY <1>1, <1>4, <1>7, LinksTyped DEF l, Hold, Latch
<1>8. CASE GiveUp(p) \/ Drop(p)
  BY <1>1, <1>4, <1>8, LinksTyped DEF l, GiveUp, Drop
<1>9. CASE CloseAfterSignal(p) \/ CloseSession(p)
  BY <1>1, <1>4, <1>9, LinksTyped DEF l, CloseAfterSignal, CloseSession, Close
<1>10. CASE BeginCommit(p)
  BY <1>1, <1>4, <1>10, LinksTyped DEF l, BeginCommit
<1> QED
  BY <1>5, <1>6, <1>7, <1>8, <1>9, <1>10

LEMMA Starts ==
  ASSUME IInv, NEW p \in Procs, Begin(p)
  PROVE  IInv'
<1>1. PICK m \in Links : m = [NoLink EXCEPT !.sender = TRUE]
  BY NoLinkTyped DEF Links
<1>2. m.command = "none"
  BY <1>1, NoLinkTyped DEF Links
<1>3. /\ front' = [front EXCEPT ![p] = "preparing"] /\ worker' = [worker EXCEPT ![p] = "lock"]
      /\ link' = [link EXCEPT ![p] = m] /\ UNCHANGED <<missing, holder, foreign, shown>>
  BY <1>1 DEF Begin, file
<1>4. Typed' /\ worker'[p] = "lock" /\ link'[p] = m
  BY <1>3 DEF IInv, Typed, Before
<1>5. Own(p)
  BY <1>3, <1>4 DEF Own, IInv, Typed
<1>6. front'[p] = "preparing" /\ holder' # p
  BY <1>3 DEF Begin, IInv, Typed, LockHeld, HasLock, Asked, IsAsked, Holding
<1>7. HasLock(p)' /\ IsRescanned(p)' /\ IsAsked(p)'
  BY <1>2, <1>4, <1>6 DEF HasLock, Holding, IsRescanned, HasSeen, IsAsked, Committing
<1> QED
  BY <1>5, <1>7, OthersKeep

LEMMA Ends ==
  ASSUME IInv, NEW p \in Procs, Crash(p) \/ Joined(p)
  PROVE  IInv'
<1>1. /\ front' = [front EXCEPT ![p] = "down"] /\ worker' = [worker EXCEPT ![p] = "none"]
      /\ link' = [link EXCEPT ![p] = NoLink]
      /\ holder' = (IF holder = p THEN "free" ELSE holder)
      /\ shown' \in {shown, [shown EXCEPT ![p] = 0]} /\ UNCHANGED <<missing, foreign>>
  BY DEF Crash, Joined, file, IInv, LockHeld, HasLock, Holding
<1>2. Typed' /\ worker'[p] = "none" /\ link'[p] = NoLink
  BY <1>1, NoLinkTyped DEF IInv, Typed, Before
<1>3. Own(p)
  BY <1>1, <1>2 DEF Own, IInv, Typed
<1>4. HasLock(p)' /\ IsRescanned(p)' /\ IsAsked(p)'
  BY <1>1, <1>2, NoLinkTyped, LockNames
     DEF HasLock, Holding, IsRescanned, HasSeen, IsAsked, Committing, IInv, Typed
<1> QED
  BY <1>3, <1>4, OthersKeep

\* Rows that the session writes itself, with the lock and no repair under way.
LEMMA Writes ==
  ASSUME IInv, NEW p \in Procs, SessionWrites(p)
  PROVE  IInv'
<1>1. missing' \in Nat /\ holder = p
  BY LockNames DEF SessionWrites, IInv, LockHeld, HasLock, Holding
<1>2. Own(p)
  BY <1>1 DEF SessionWrites, Own, IInv, Typed
<1>3. HasLock(p)' /\ IsRescanned(p)' /\ IsAsked(p)'
  BY DEF SessionWrites, HasLock, IsRescanned, HasSeen, IsAsked, IInv, LockHeld, Asked
<1> QED
  BY <1>2, <1>3, OthersKeep

-----------------------------------------------------------------------------
(* Somebody who ignores the lock.                                            *)

\* A change is marked with what the thread behind the lock has looked at.
LEMMA OthersEdit ==
  ASSUME IInv, Foreign
  PROVE  IInv'
<1>1. PICK change \in {"edit", "grow", "move"} : foreign' = [Untouched EXCEPT ![change] = When]
  <2>1. DOMAIN Untouched = {"edit", "grow", "move"}
    BY DEF Untouched
  <2> QED
    BY <2>1 DEF Foreign
<1>2. foreign = Untouched /\ UNCHANGED <<missing, holder, front, worker, shown, link>>
  BY DEF Foreign
<1>3. /\ When \in Whens
      /\ (\E p \in Procs : worker[p] \in {"truncate", "append"}) => When = "behindCheck"
      /\ (\E p \in Procs : worker[p] = "recheck") => When # "before"
  BY DEF When, Whens
<1>4. /\ foreign'.edit \in {"no", When} /\ foreign'.grow \in {"no", When}
      /\ foreign'.move \in {"no", When} /\ foreign' \in Changes
  BY <1>1, <1>2, <1>3 DEF Untouched, Changes, Whens
<1>5. ASSUME NEW p \in Procs PROVE IsRescanned(p)'
  <2>1. HasSeen(p, worker[p])
    BY DEF IInv, Rescanned, IsRescanned
  <2> QED
    BY <1>2, <1>3, <1>4, <2>1 DEF IsRescanned, HasSeen
<1>6. Typed'
  BY <1>2, <1>4 DEF IInv, Typed
<1>7. LockHeld' /\ Asked'
  BY <1>2 DEF IInv, LockHeld, HasLock, Asked, IsAsked
<1> QED
  BY <1>5, <1>6, <1>7 DEF IInv, Rescanned

LEMMA Stays ==
  ASSUME IInv, UNCHANGED vars
  PROVE  IInv'
BY DEF vars, file, IInv, Typed, LockHeld, HasLock, Rescanned, IsRescanned, HasSeen, Asked, IsAsked

-----------------------------------------------------------------------------
(* The theorems.                                                             *)

LEMMA Keeps == IInv /\ [Next]_vars => IInv'
<1> SUFFICES ASSUME IInv, [Next]_vars PROVE IInv'
  OBVIOUS
<1>1. ASSUME NEW p \in Procs,
             \/ WorkerStep(p) \/ FrontStep(p)
             \/ Begin(p) \/ GiveUp(p) \/ BeginCommit(p) \/ Latch(p) \/ CloseSession(p) \/ Drop(p)
             \/ SessionWrites(p) \/ Crash(p)
      PROVE  IInv'
  BY <1>1, WorkerKeeps, FrontKeeps, Starts, Ends, Writes DEF FrontStep
<1>2. CASE Foreign
  BY <1>2, OthersEdit
<1>3. CASE UNCHANGED vars
  BY <1>3, Stays
<1> QED
  BY <1>1, <1>2, <1>3 DEF Next

\* The inductive invariant: lock, thread and front end of every process that
\* runs resume_worker agree, through crashes and edits by others.
THEOREM ResumeInvariant == Spec => []IInv
<1>1. Init => IInv
  BY Begins
<1>2. IInv /\ [Next]_vars => IInv'
  BY Keeps
<1> QED
  BY <1>1, <1>2, PTL DEF Spec

\* Bytes change only in the file the user was shown, and only after its front
\* end asked for it: an edit that slips through came behind the second scan of
\* resume.rs, a growth or a move behind the last revalidate_commit.
THEOREM ShownFileRepaired == Spec => []RepairsShownFile
<1>1. IInv => RepairsShownFile
  BY Tells
<1> QED
  BY <1>1, ResumeInvariant, PTL

\* However many processes resume a journal, one of their threads at most reads
\* or writes it behind the lock: no two repairs, and no repair under a writer.
THEOREM OneThreadBehindLock == Spec => []OneWriter
<1>1. IInv => OneWriter
  BY Tells
<1> QED
  BY <1>1, ResumeInvariant, PTL

-----------------------------------------------------------------------------
(* The process around its turn.                                              *)

\* Until the session is there nothing is held and nothing is decided.
Earliest == {"reading", "read", "preparing", "resuming", "paused"}
Building == {"assembling", "assembled", "cleaning", "cleaned", "turning"}
Closing == {"turned", "settling", "settled"}
Answering == {"writing", "wrote"}
Answers == {"completed", "ended", "agent"}

\* What each place of run_options has come to.
Stands ==
  /\ stage # "done" => exit = Process!Running
  /\ stage \in Earliest => session = "none" /\ latch = "none"
  /\ stage \in Earliest \cup Building => outcome = "none"
  /\ stage \in Earliest \cup Building \cup Closing \cup {"interactive"} => written = "nothing"
  /\ stage \in Answering =>
       session = "closed" /\ latch = "none" /\ outcome \in Answers /\ result = "ok"
  /\ stage \in Closing => outcome # "none"
  /\ stage = "settled" => result # "none"
  /\ stage = "writing" => written \in {"nothing", "part", "whole"}
  /\ stage = "stopped" => session \in {"none", "closed"} /\ latch # "none"
  /\ written # "nothing" => session = "closed" /\ outcome \in Answers

ProcessInv == Process!TypeOK /\ Stands /\ Process!ExitTellsRun

\* What an exit for a signal comes to.
LEMMA ExitsFor ==
  ASSUME NEW s \in Sent, Process!ExitFor(s)
  PROVE  /\ latch' = s
         /\ \/ s = "Suspend" /\ stage' = "stopped" /\ exit' = exit
            \/ s = "Suspend" /\ stage' = "done" /\ exit' = 1
            \/ s # "Suspend" /\ stage' = "done" /\ exit' = Process!Code[s]
  BY DEF Process!ExitFor, Process!Fail, Process!Exit, Process!ErrorCode

LEMMA Codes ==
  ASSUME NEW s \in Sent, s # "Suspend"
  PROVE  s \in DOMAIN Process!Code /\ Process!Code[s] \in {129, 130, 131, 143}
  BY WaitsAssumption DEF Process!Code

LEMMA Latches ==
  ASSUME NEW m, NEW l \in Sent \cup {"none"}, NEW s \in Sent
  PROVE  Process!Observe(m, l, s) \in Sent /\ (l = "none" => Process!Observe(m, l, s) = s)
  BY DEF Process!Observe, Process!None

\* What is drained is a signal that waited, or the one that was held.
LEMMA Drains ==
  ASSUME ready \subseteq Sent, NEW m, NEW l \in Sent \cup {"none"}
  PROVE  /\ Process!Drained(m, l) \in Sent \cup {"none"}
         /\ l # "none" => Process!Drained(m, l) # "none"
<1> DEFINE see(x, s) == Process!Seen(m, x, s)
<1>1. ASSUME NEW x \in Sent \cup {"none"}, NEW s
      PROVE  see(x, s) \in Sent \cup {"none"} /\ (x # "none" => see(x, s) # "none")
  BY <1>1, Latches, WaitsAssumption DEF Process!Seen
<1> HIDE DEF see
<1>2. Process!Drained(m, l) =
        see(see(see(see(see(l, "Quit"), "Terminate"), "Hangup"), "Suspend"), "Interrupt")
  BY DEF see, Process!Drained
<1> QED BY <1>1, <1>2

LEMMA TakesOne ==
  ASSUME NEW s, Process!Take(s), ready \subseteq Sent
  PROVE  s \in Sent /\ ready' \subseteq Sent
  BY DEF Process!Take

LEMMA ProcessStarts == Process!Init => ProcessInv
  BY WaitsAssumption DEF Process!Init, ProcessInv, Process!TypeOK, Stands, Process!ExitTellsRun,
     Process!ExitIsEarned, Process!SessionClosedFirst, Process!SignalDecides, Process!None,
     Process!Running, Earliest, Building, Closing, Answering, Answers

\* Where a signal waits, one is drained.
LEMMA DrainsSome ==
  ASSUME ready \subseteq Sent, NEW m, NEW t \in Sent, t \in ready
  PROVE  Process!Drained(m, "none") # "none"
<1> DEFINE see(x, s) == Process!Seen(m, x, s)
<1>1. ASSUME NEW x \in Sent \cup {"none"}, NEW s
      PROVE  /\ see(x, s) \in Sent \cup {"none"}
             /\ x # "none" \/ s \in ready => see(x, s) # "none"
  BY <1>1, Latches, WaitsAssumption DEF Process!Seen
<1> HIDE DEF see
<1>2. Process!Drained(m, "none") =
        see(see(see(see(see("none", "Quit"), "Terminate"), "Hangup"), "Suspend"), "Interrupt")
  BY DEF see, Process!Drained
<1> DEFINE quit == see("none", "Quit")
           term == see(quit, "Terminate")
           hang == see(term, "Hangup")
           susp == see(hang, "Suspend")
<1>3. quit \in Sent \cup {"none"} /\ ("Quit" \in ready => quit # "none")
  BY <1>1
<1>4. term \in Sent \cup {"none"} /\ (quit # "none" \/ "Terminate" \in ready => term # "none")
  BY <1>1, <1>3
<1>5. hang \in Sent \cup {"none"} /\ (term # "none" \/ "Hangup" \in ready => hang # "none")
  BY <1>1, <1>4
<1>6. susp \in Sent \cup {"none"} /\ (hang # "none" \/ "Suspend" \in ready => susp # "none")
  BY <1>1, <1>5
<1>7. susp # "none" \/ "Interrupt" \in ready => see(susp, "Interrupt") # "none"
  BY <1>1, <1>6
<1> QED BY <1>2, <1>3, <1>4, <1>5, <1>6, <1>7, WaitsAssumption

\* A signal that ends what is not yet, or no longer, in need of a settlement.
LEMMA SignalLeaves ==
  ASSUME ProcessInv, stage # "done", NEW s \in Sent, Process!ExitFor(s),
         ready' \subseteq Sent, UNCHANGED <<mode, sent, outcome, written>>,
         session' \in {"none", "closed"}, result' \in {"none", "ok", "failed"},
         written # "nothing" => session' = "closed"
  PROVE  ProcessInv'
<1>1. latch' = s /\ s # "none" /\ Process!TypeOK /\ exit = 256
  BY ExitsFor, WaitsAssumption DEF ProcessInv, Stands, Process!Running
<1> USE DEF ProcessInv, Process!TypeOK, Stands, Process!ExitTellsRun, Process!ExitIsEarned,
      Process!SessionClosedFirst, Process!SignalDecides, Process!None, Process!Running,
      Earliest, Building, Closing, Answering, Answers
<1>2. CASE s = "Suspend" /\ stage' = "stopped" /\ exit' = exit
  BY <1>1, <1>2
<1>3. CASE s = "Suspend" /\ stage' = "done" /\ exit' = 1
  BY <1>1, <1>3
<1>4. CASE s # "Suspend" /\ stage' = "done" /\ exit' = Process!Code[s]
  BY <1>1, <1>4, Codes
<1> QED BY <1>2, <1>3, <1>4, ExitsFor

LEMMA DrivesOn ==
  ASSUME ProcessInv, NEW from, NEW to, Process!Drive(from, to),
         \/ from = "assembling" /\ to = "assembled"
         \/ from = "cleaning" /\ to = "cleaned"
         \/ from = "settling" /\ to = "settled"
  PROVE  ProcessInv'
<1> USE DEF ProcessInv, Process!TypeOK, Stands, Process!ExitTellsRun, Process!ExitIsEarned,
      Process!SessionClosedFirst, Process!SignalDecides, Process!None, Process!Running,
      Earliest, Building, Closing, Answering, Answers
<1>1. CASE stage' = to /\ result' \in {"ok", "failed"} /\ UNCHANGED <<ready, latch>>
  BY <1>1 DEF Process!Drive
<1>2. ASSUME NEW s \in ready, Process!Take(s), latch' = Process!Observe(mode, latch, s),
             UNCHANGED <<stage, result>>
      PROVE  ProcessInv'
  <2>1. latch' \in Sent /\ ready' \subseteq Sent
    BY <1>2, TakesOne, Latches
  <2> QED BY <1>2, <2>1 DEF Process!Drive
<1> QED BY <1>1, <1>2 DEF Process!Drive

LEMMA ProcessSteps == ProcessInv /\ Process!Next => ProcessInv'
<1> SUFFICES ASSUME ProcessInv, Process!Next PROVE ProcessInv'
  OBVIOUS
<1> USE WaitsAssumption DEF ProcessInv, Process!TypeOK, Stands, Process!ExitTellsRun,
     Process!ExitIsEarned, Process!SessionClosedFirst, Process!SignalDecides, Process!CleanupFailed,
     Process!Terminating, Process!None,
     Process!Running, Earliest, Building, Closing, Answering, Answers
<1>d. \A m : \A l \in Sent \cup {"none"} :
        /\ Process!Drained(m, l) \in Sent \cup {"none"}
        /\ l # "none" => Process!Drained(m, l) # "none"
  BY Drains
<1>1. CASE Process!Raise
  BY <1>1 DEF Process!Raise
<1>2. CASE Process!Reads
  <2>1. ASSUME NEW s \in ready, Process!Take(s), Process!ExitFor(s), UNCHANGED result
        PROVE  ProcessInv'
    BY <1>2, <2>1, TakesOne, SignalLeaves DEF Process!Reads
  <2>2. CASE /\ ready = {} /\ stage' = "read" /\ result' \in {"ok", "failed"}
             /\ UNCHANGED <<ready, latch, exit>>
    BY <1>2, <2>2 DEF Process!Reads
  <2> QED BY <1>2, <2>1, <2>2 DEF Process!Reads
<1>3. CASE Process!ReadDrained
  <2> DEFINE l == Process!Drained(mode, "none")
  <2>1. CASE l # "none"
    <3>1. l \in Sent /\ Process!ExitFor(l)
      BY <1>d, <1>3, <2>1 DEF Process!ReadDrained
    <3>2. /\ stage = "read" /\ ready' = {} /\ UNCHANGED <<mode, sent, session, result, outcome, written>>
      BY <1>3 DEF Process!ReadDrained
    <3>3. /\ session' \in {"none", "closed"} /\ result' \in {"none", "ok", "failed"}
          /\ written # "nothing" => session' = "closed"
      BY <3>2
    <3> HIDE DEF l, ProcessInv
    <3> QED BY <3>1, <3>2, <3>3, SignalLeaves
  <2>2. CASE l = "none"
    BY <1>3, <2>2 DEF Process!ReadDrained, Process!Exit, Process!ErrorCode
  <2> QED BY <2>1, <2>2
<1>4. CASE Process!Prepare
  BY <1>4 DEF Process!Prepare, Process!Fail, Process!Exit, Process!ErrorCode
<1>5. CASE Process!Resume
  <2> DEFINE s == Process!Drained(mode, "none")
  <2>1. CASE ready = {} /\ stage' = "assembling" /\ session' = "session" /\ UNCHANGED <<ready, latch, exit>>
    BY <1>5, <2>1 DEF Process!Resume
  <2>2. CASE Process!Fail /\ UNCHANGED <<ready, latch, session>>
    BY <1>5, <2>2 DEF Process!Resume, Process!Fail, Process!Exit, Process!ErrorCode
  <2>3. CASE /\ ready # {} /\ ready' = {} /\ UNCHANGED <<session, latch>>
             /\ Process!Fail \/ UNCHANGED <<stage, exit>> \/ (stage' = "paused" /\ UNCHANGED exit)
    BY <1>5, <2>3 DEF Process!Resume, Process!Fail, Process!Exit, Process!ErrorCode
  <2>4. CASE ready # {} /\ ready' = {} /\ UNCHANGED session /\ Process!ExitFor(s)
    <3>1. s \in Sent
      <4>1. \E t \in Sent : t \in ready
        BY <2>4
      <4>2. s # "none"
        BY <4>1, DrainsSome
      <4> QED BY <4>2, <1>d
    <3> QED BY <3>1, <1>5, <2>4, SignalLeaves DEF Process!Resume
  <2> QED BY <1>5, <2>1, <2>2, <2>3, <2>4 DEF Process!Resume
<1>6. CASE Process!Unpause
  <2> DEFINE s == Process!Drained(mode, "none")
  <2>1. CASE s \in Process!Terminating
    BY <1>6, <1>d, <2>1, SignalLeaves DEF Process!Unpause
  <2>2. CASE s \notin Process!Terminating
    BY <1>6, <2>2 DEF Process!Unpause, Process!Fail, Process!Exit, Process!ErrorCode
  <2> QED BY <2>1, <2>2
<1>7. CASE Process!Continue
  <2>1. latch' \in Sent /\ stage' = "done" /\ ready' = {}
    BY <1>7, <1>d DEF Process!Continue, Process!Exit
  <2>2. CASE latch' = "Suspend"
    <3>1. exit' = 148
      BY <1>7, <2>2 DEF Process!Continue, Process!Exit, Process!Code
    <3> QED BY <1>7, <2>1, <2>2, <3>1 DEF Process!Continue
  <2>3. CASE latch' # "Suspend"
    <3>1. exit' = Process!Code[latch'] /\ exit' \in {129, 130, 131, 143}
      BY <1>7, <2>1, <2>3, Codes DEF Process!Continue, Process!Exit
    <3> QED BY <1>7, <2>1, <2>3, <3>1 DEF Process!Continue
  <2> QED BY <2>2, <2>3
<1>8. CASE Process!Assemble
  BY <1>8, DrivesOn DEF Process!Assemble
<1>9. CASE Process!Assembled
  BY <1>9, <1>d DEF Process!Assembled
<1>10. CASE Process!Clean
  BY <1>10, DrivesOn DEF Process!Clean
<1>11. CASE Process!Cleaned
  <2> DEFINE s == Process!Drained(mode, latch)
  <2>1. s \in Sent \cup {"none"}
    BY <1>d
  <2>2. CASE s = "none" \/ (session = "agent" /\ result = "failed")
    BY <1>11, <2>1, <2>2 DEF Process!Cleaned, Process!Fail, Process!Exit, Process!ErrorCode
  <2>3. CASE ~(s = "none" \/ (session = "agent" /\ result = "failed"))
    <3>1. Process!ExitFor(s) /\ s \in Sent
      BY <1>11, <2>1, <2>3 DEF Process!Cleaned
    <3> QED BY <1>11, <3>1, SignalLeaves DEF Process!Cleaned
  <2> QED BY <2>2, <2>3
<1>12. CASE Process!TurnEnds
  BY <1>12 DEF Process!TurnEnds
<1>13. CASE Process!TurnStops
  BY <1>13, TakesOne, Latches DEF Process!TurnStops
<1>14. CASE Process!TurnDrained
  BY <1>14, <1>d DEF Process!TurnDrained
<1>15. CASE Process!Settle
  BY <1>15, DrivesOn DEF Process!Settle
<1>16. CASE Process!Settled
  <2> DEFINE s == Process!Drained(mode, latch)
  <2>1. s \in Sent \cup {"none"}
    BY <1>d
  <2>2. CASE s # "none"
    <3>0. Process!Verdict(s) = "signal"
      BY <2>2 DEF Process!Verdict
    <3>1. Process!ExitFor(s) /\ s \in Sent
      BY <1>16, <2>1, <2>2, <3>0 DEF Process!Settled
    <3> QED BY <1>16, <3>1, SignalLeaves DEF Process!Settled
  <2>3. CASE s = "none" /\ (outcome \in {"storage", "output"} \/ result = "failed")
    <3>1. latch' = "none" /\ Process!Fail
      BY <1>16, <2>3 DEF Process!Settled, Process!Verdict
    <3> QED BY <1>16, <3>1 DEF Process!Settled, Process!Fail, Process!Exit, Process!ErrorCode
  <2>4. CASE s = "none" /\ ~(outcome \in {"storage", "output"} \/ result = "failed")
    <3>1. latch' = "none" /\ ((stage' = "writing" /\ UNCHANGED exit) \/ Process!Fail)
      BY <1>16, <2>4 DEF Process!Settled, Process!Verdict
    <3>2. outcome \in Answers /\ result = "ok"
      BY <1>16, <2>4 DEF Process!Settled
    <3> QED BY <1>16, <3>1, <3>2 DEF Process!Settled, Process!Fail, Process!Exit, Process!ErrorCode
  <2> QED BY <2>2, <2>3, <2>4
<1>17. CASE Process!Writes
  BY <1>17 DEF Process!Writes
<1>18. CASE Process!WriteStops
  BY <1>18, TakesOne, SignalLeaves DEF Process!WriteStops
<1>19. CASE Process!Deadline
  BY <1>19 DEF Process!Deadline, Process!Fail, Process!Exit, Process!ErrorCode
<1>20. CASE Process!WriteEnds
  BY <1>20 DEF Process!WriteEnds
<1>21. CASE Process!WriteDrained
  <2> DEFINE s == Process!Drained(mode, "none")
  <2>1. CASE s # "none"
    BY <1>21, <1>d, <2>1, SignalLeaves DEF Process!WriteDrained
  <2>2. CASE s = "none"
    BY <1>21, <2>2 DEF Process!WriteDrained, Process!Exit, Process!ErrorCode, Process!OrdinaryCode
  <2> QED BY <2>1, <2>2
<1> QED
  BY <1>1, <1>2, <1>3, <1>4, <1>5, <1>6, <1>7, <1>8, <1>9, <1>10, <1>11, <1>12, <1>13, <1>14,
     <1>15, <1>16, <1>17, <1>18, <1>19, <1>20, <1>21 DEF Process!Next, Process!Step

-----------------------------------------------------------------------------
(* The terminal.                                                             *)

GivenBack == {"none", "restored", "canonical"}
Away == {"stopping", "stopped", "woken"}
Fronting == {"banner", "enter", "entered", "loop", "turn", "suspend"}
Undocked == {"banner", "enter", "entered", "finish", "close", "leave", "drop", "done"} \cup Away

Places ==
  /\ kind \in {"linear", "enhanced"} /\ back \in {"loop", "enter", "leave"}
  /\ at \in {"banner", "enter", "entered", "loop", "turn", "suspend", "stopping", "stopped",
            "woken", "clean", "finish", "close", "leave", "drop", "done"}
Screen ==
  /\ tty \in {"original", "application", "selector"} /\ fore \in {"dsh", "shell"}
  /\ dock \in {"bare", "drawn", "cut"}
  /\ owner \in {"none", "application", "canonical", "restored", "selector"}
Flags == altered \in BOOLEAN /\ hung \in BOOLEAN /\ failed \in BOOLEAN
Latched == waiting \subseteq Terminal!Signals /\ held \in Terminal!Signals \cup {"none"}
Counts ==
  /\ left \in {0, 1, 129, 143, 256} /\ events \in 0..MaxEvents

\* Who has what: an owner that gave the settings back gave back the original
\* ones; the dock is only up where the loop or its clean-up counts on it; dsh is
\* in front wherever it takes or changes the terminal; and what is decided when
\* the process leaves is what the held signal says.
Kept == ~hung /\ owner \in GivenBack => tty = "original"

Owned ==
  /\ owner = "canonical" => back = "loop" /\ kind = "enhanced"
  /\ kind = "linear" => owner \in {"none", "selector"} /\ dock = "bare"
  /\ owner = "selector" => kind = "linear" /\ at = "turn"
  /\ at \in Away => owner \in GivenBack
  /\ at = "banner" => owner = "none"
  /\ at \in {"enter", "entered", "suspend", "clean", "finish"} \/ back = "enter" => kind = "enhanced"

Docked == at \in Undocked => dock # "drawn"

InFront == at \in Fronting /\ ~hung => fore = "dsh"

Decided ==
  at \in {"drop", "done"} /\ held \in Terminal!Terminating /\ owner \in {"none", "restored"}
    /\ ~(back = "enter" /\ failed)
  => left = Terminal!Code[held]

Settings == at = "done" /\ ~hung => tty = "original"

TerminalInv == Places /\ Screen /\ Flags /\ Latched /\ Counts /\ Kept /\ Owned /\ Docked /\ InFront /\ Decided /\ Settings

LEMMA TerminalStarts == Terminal!Init => TerminalInv
<1> SUFFICES ASSUME Terminal!Init PROVE TerminalInv
  OBVIOUS
<1> USE DEF Terminal!Init, Terminal!None
<1>1. Places /\ Screen /\ Flags
  BY DEF Places, Screen, Flags
<1>2. Latched /\ Counts
  BY WaitsAssumption DEF Latched, Counts, Terminal!Running
<1>3. Kept /\ Owned /\ Docked /\ InFront /\ Decided /\ Settings
  BY DEF Kept, Owned, Docked, InFront, Decided, Settings, GivenBack, Away, Fronting, Undocked,
     Terminal!Terminating
<1> QED BY <1>1, <1>2, <1>3 DEF TerminalInv

LEMMA TerminalTyped == TerminalInv => Terminal!TypeOK
  BY DEF TerminalInv, Places, Screen, Flags, Latched, Counts, Terminal!TypeOK, Terminal!Running, Terminal!None

LEMMA TerminalTells == TerminalInv => Terminal!TerminalGivenBack
  BY DEF TerminalInv, Places, Kept, Owned, Docked, Decided, Settings, Terminal!TerminalGivenBack,
     Terminal!ShellHasItsTerminal, Terminal!SignalDecides, Terminal!Early, Terminal!None, GivenBack,
     Away, Undocked

LEMMA TerminalCodes ==
  ASSUME NEW s \in Terminal!Terminating
  PROVE  Terminal!Code[s] \in {129, 143}
  BY DEF Terminal!Code, Terminal!Terminating

LEMMA TerminalSteps == TerminalInv /\ Terminal!Next => TerminalInv'
<1> SUFFICES ASSUME TerminalInv, Terminal!Next PROVE TerminalInv'
  OBVIOUS
<1> USE DEF TerminalInv, Terminal!None, Terminal!Terminating, Terminal!Inside, Terminal!Modes
<1>1. CASE Terminal!Outside
  <2> USE <1>1 DEF Terminal!Outside
  <2>1. Places'
    BY DEF Places
  <2>2. Screen'
    BY DEF Screen
  <2>3. Flags'
    BY DEF Flags
  <2>4. Latched'
    BY DEF Latched, Flags, Terminal!Signals
  <2>5. Counts'
    BY WaitsAssumption, TerminalCodes DEF Counts, Flags
  <2>6. Kept'
    BY DEF Places, Screen, Flags, Kept, Owned, GivenBack, Away, InFront, Fronting
  <2>7. Owned'
    BY DEF Places, Screen, Owned, GivenBack, Away
  <2>8. Docked'
    BY DEF Places, Screen, Owned, Docked, Away, GivenBack, Undocked
  <2>9. InFront'
    BY DEF Places, Screen, Flags, InFront, Fronting
  <2>10. Decided'
    BY DEF Places, Screen, Flags, Latched, Decided
  <2>11. Settings'
    BY DEF Places, Screen, Flags, Owned, Kept, Settings, GivenBack
  <2> QED BY <2>1, <2>2, <2>3, <2>4, <2>5, <2>6, <2>7, <2>8, <2>9, <2>10, <2>11
<1>2. CASE Terminal!Continue
  <2> USE <1>2 DEF Terminal!Continue
  <2>1. Places'
    BY DEF Places
  <2>2. Screen'
    BY DEF Screen
  <2>3. Flags'
    BY DEF Flags
  <2>4. Latched'
    BY DEF Latched, Flags, Terminal!Signals
  <2>5. Counts'
    BY WaitsAssumption, TerminalCodes DEF Counts, Flags
  <2>6. Kept'
    BY DEF Places, Screen, Flags, Kept, Owned, GivenBack, Away, InFront, Fronting
  <2>7. Owned'
    BY DEF Places, Screen, Owned, GivenBack, Away
  <2>8. Docked'
    BY DEF Places, Screen, Owned, Docked, Away, GivenBack, Undocked
  <2>9. InFront'
    BY DEF Places, Screen, Flags, InFront, Fronting
  <2>10. Decided'
    BY DEF Places, Screen, Flags, Latched, Decided
  <2>11. Settings'
    BY DEF Places, Screen, Flags, Owned, Kept, Settings, GivenBack
  <2> QED BY <2>1, <2>2, <2>3, <2>4, <2>5, <2>6, <2>7, <2>8, <2>9, <2>10, <2>11
<1>3. CASE Terminal!Foreground
  <2> USE <1>3 DEF Terminal!Foreground
  <2>1. Places'
    BY DEF Places
  <2>2. Screen'
    BY DEF Screen
  <2>3. Flags'
    BY DEF Flags
  <2>4. Latched'
    BY DEF Latched, Flags, Terminal!Signals
  <2>5. Counts'
    BY WaitsAssumption, TerminalCodes DEF Counts, Flags
  <2>6. Kept'
    BY DEF Places, Screen, Flags, Kept, Owned, GivenBack, Away, InFront, Fronting
  <2>7. Owned'
    BY DEF Places, Screen, Owned, GivenBack, Away
  <2>8. Docked'
    BY DEF Places, Screen, Owned, Docked, Away, GivenBack, Undocked
  <2>9. InFront'
    BY DEF Places, Screen, Flags, InFront, Fronting
  <2>10. Decided'
    BY DEF Places, Screen, Flags, Latched, Decided
  <2>11. Settings'
    BY DEF Places, Screen, Flags, Owned, Kept, Settings, GivenBack
  <2> QED BY <2>1, <2>2, <2>3, <2>4, <2>5, <2>6, <2>7, <2>8, <2>9, <2>10, <2>11
<1>4. CASE Terminal!Banner
  <2> USE <1>4 DEF Terminal!Banner, Terminal!Fails, Terminal!IdleSignal, Terminal!Take
  <2>1. Places'
    BY DEF Places
  <2>2. Screen'
    BY DEF Screen
  <2>3. Flags'
    BY DEF Flags
  <2>4. Latched'
    BY DEF Latched, Flags, Terminal!Signals
  <2>5. Counts'
    BY WaitsAssumption, TerminalCodes DEF Counts, Flags
  <2>6. Kept'
    BY DEF Places, Screen, Flags, Kept, Owned, GivenBack, Away, InFront, Fronting
  <2>7. Owned'
    BY DEF Places, Screen, Owned, GivenBack, Away
  <2>8. Docked'
    BY DEF Places, Screen, Owned, Docked, Away, GivenBack, Undocked
  <2>9. InFront'
    BY DEF Places, Screen, Flags, InFront, Fronting
  <2>10. Decided'
    BY DEF Places, Screen, Flags, Latched, Decided
  <2>11. Settings'
    BY DEF Places, Screen, Flags, Owned, Kept, Settings, GivenBack
  <2> QED BY <2>1, <2>2, <2>3, <2>4, <2>5, <2>6, <2>7, <2>8, <2>9, <2>10, <2>11
<1>5. CASE Terminal!Enter
  <2> USE <1>5 DEF Terminal!Enter, Terminal!IsCanonical, Terminal!Set, Terminal!Fails,
     Terminal!IsOurs
  <2>1. Places'
    BY DEF Places
  <2>2. Screen'
    BY DEF Screen
  <2>3. Flags'
    BY DEF Flags
  <2>4. Latched'
    BY DEF Latched, Flags, Terminal!Signals
  <2>5. Counts'
    BY WaitsAssumption, TerminalCodes DEF Counts, Flags
  <2>6. Kept'
    BY DEF Places, Screen, Flags, Kept, Owned, GivenBack, Away, InFront, Fronting
  <2>7. Owned'
    BY DEF Places, Screen, Owned, GivenBack, Away
  <2>8. Docked'
    BY DEF Places, Screen, Owned, Docked, Away, GivenBack, Undocked
  <2>9. InFront'
    BY DEF Places, Screen, Flags, InFront, Fronting
  <2>10. Decided'
    BY DEF Places, Screen, Flags, Latched, Decided
  <2>11. Settings'
    BY DEF Places, Screen, Flags, Owned, Kept, Settings, GivenBack
  <2> QED BY <2>1, <2>2, <2>3, <2>4, <2>5, <2>6, <2>7, <2>8, <2>9, <2>10, <2>11
<1>6. CASE Terminal!Entered
  <2> USE <1>6 DEF Terminal!Entered, Terminal!IsApplication, Terminal!Refused, Terminal!CanSet,
     Terminal!Set, Terminal!IsOurs
  <2>1. Places'
    BY DEF Places
  <2>2. Screen'
    BY DEF Screen
  <2>3. Flags'
    BY DEF Flags
  <2>4. Latched'
    BY DEF Latched, Flags, Terminal!Signals
  <2>5. Counts'
    BY WaitsAssumption, TerminalCodes DEF Counts, Flags
  <2>6. Kept'
    BY DEF Places, Screen, Flags, Kept, Owned, GivenBack, Away, InFront, Fronting
  <2>7. Owned'
    BY DEF Places, Screen, Owned, GivenBack, Away
  <2>8. Docked'
    BY DEF Places, Screen, Owned, Docked, Away, GivenBack, Undocked
  <2>9. InFront'
    BY DEF Places, Screen, Flags, InFront, Fronting
  <2>10. Decided'
    BY DEF Places, Screen, Flags, Latched, Decided
  <2>11. Settings'
    BY DEF Places, Screen, Flags, Owned, Kept, Settings, GivenBack
  <2> QED BY <2>1, <2>2, <2>3, <2>4, <2>5, <2>6, <2>7, <2>8, <2>9, <2>10, <2>11
<1>7. CASE Terminal!LineLoop
  <2> USE <1>7 DEF Terminal!LineLoop, Terminal!IsCanonical, Terminal!Fails, Terminal!IdleSignal,
     Terminal!NoticeSignal, Terminal!Take, Terminal!IsOurs
  <2>1. Places'
    BY DEF Places
  <2>2. Screen'
    BY DEF Screen
  <2>3. Flags'
    BY DEF Flags
  <2>4. Latched'
    BY DEF Latched, Flags, Terminal!Signals
  <2>5. Counts'
    BY WaitsAssumption, TerminalCodes DEF Counts, Flags
  <2>6. Kept'
    BY DEF Places, Screen, Flags, Kept, Owned, GivenBack, Away, InFront, Fronting
  <2>7. Owned'
    BY DEF Places, Screen, Owned, GivenBack, Away
  <2>8. Docked'
    BY DEF Places, Screen, Owned, Docked, Away, GivenBack, Undocked
  <2>9. InFront'
    BY DEF Places, Screen, Flags, InFront, Fronting
  <2>10. Decided'
    BY DEF Places, Screen, Flags, Latched, Decided
  <2>11. Settings'
    BY DEF Places, Screen, Flags, Owned, Kept, Settings, GivenBack
  <2> QED BY <2>1, <2>2, <2>3, <2>4, <2>5, <2>6, <2>7, <2>8, <2>9, <2>10, <2>11
<1>8. CASE Terminal!EnhancedLoop
  <2> USE <1>8 DEF Terminal!EnhancedLoop, Terminal!IsApplication, Terminal!Take, Terminal!Fails,
     Terminal!IsOurs
  <2>1. Places'
    BY DEF Places
  <2>2. Screen'
    BY DEF Screen
  <2>3. Flags'
    BY DEF Flags
  <2>4. Latched'
    BY DEF Latched, Flags, Terminal!Signals
  <2>5. Counts'
    BY WaitsAssumption, TerminalCodes DEF Counts, Flags
  <2>6. Kept'
    BY DEF Places, Screen, Flags, Kept, Owned, GivenBack, Away, InFront, Fronting
  <2>7. Owned'
    BY DEF Places, Screen, Owned, GivenBack, Away
  <2>8. Docked'
    BY DEF Places, Screen, Owned, Docked, Away, GivenBack, Undocked
  <2>9. InFront'
    BY DEF Places, Screen, Flags, InFront, Fronting
  <2>10. Decided'
    BY DEF Places, Screen, Flags, Latched, Decided
  <2>11. Settings'
    BY DEF Places, Screen, Flags, Owned, Kept, Settings, GivenBack
  <2> QED BY <2>1, <2>2, <2>3, <2>4, <2>5, <2>6, <2>7, <2>8, <2>9, <2>10, <2>11
<1>9. CASE Terminal!Ask
  <2> USE <1>9 DEF Terminal!Ask, Terminal!IsCanonical, Terminal!Set, Terminal!IsOurs
  <2>1. Places'
    BY DEF Places
  <2>2. Screen'
    BY DEF Screen
  <2>3. Flags'
    BY DEF Flags
  <2>4. Latched'
    BY DEF Latched, Flags, Terminal!Signals
  <2>5. Counts'
    BY WaitsAssumption, TerminalCodes DEF Counts, Flags
  <2>6. Kept'
    BY DEF Places, Screen, Flags, Kept, Owned, GivenBack, Away, InFront, Fronting
  <2>7. Owned'
    BY DEF Places, Screen, Owned, GivenBack, Away
  <2>8. Docked'
    BY DEF Places, Screen, Owned, Docked, Away, GivenBack, Undocked
  <2>9. InFront'
    BY DEF Places, Screen, Flags, InFront, Fronting
  <2>10. Decided'
    BY DEF Places, Screen, Flags, Latched, Decided
  <2>11. Settings'
    BY DEF Places, Screen, Flags, Owned, Kept, Settings, GivenBack
  <2> QED BY <2>1, <2>2, <2>3, <2>4, <2>5, <2>6, <2>7, <2>8, <2>9, <2>10, <2>11
<1>10. CASE Terminal!Answer
  <2> USE <1>10 DEF Terminal!Answer, Terminal!Fails, Terminal!Released, Terminal!CanSet,
     Terminal!Set
  <2>1. Places'
    BY DEF Places
  <2>2. Screen'
    BY DEF Screen
  <2>3. Flags'
    BY DEF Flags
  <2>4. Latched'
    BY DEF Latched, Flags, Terminal!Signals
  <2>5. Counts'
    BY WaitsAssumption, TerminalCodes DEF Counts, Flags
  <2>6. Kept'
    BY DEF Places, Screen, Flags, Kept, Owned, GivenBack, Away, InFront, Fronting
  <2>7. Owned'
    BY DEF Places, Screen, Owned, GivenBack, Away
  <2>8. Docked'
    BY DEF Places, Screen, Owned, Docked, Away, GivenBack, Undocked
  <2>9. InFront'
    BY DEF Places, Screen, Flags, InFront, Fronting
  <2>10. Decided'
    BY DEF Places, Screen, Flags, Latched, Decided
  <2>11. Settings'
    BY DEF Places, Screen, Flags, Owned, Kept, Settings, GivenBack
  <2> QED BY <2>1, <2>2, <2>3, <2>4, <2>5, <2>6, <2>7, <2>8, <2>9, <2>10, <2>11
<1>11. CASE Terminal!TurnEnds
  <2> USE <1>11 DEF Terminal!TurnEnds, Terminal!Take, Terminal!Fails, Terminal!Released,
     Terminal!CanSet, Terminal!Set
  <2>1. Places'
    BY DEF Places
  <2>2. Screen'
    BY DEF Screen
  <2>3. Flags'
    BY DEF Flags
  <2>4. Latched'
    BY DEF Latched, Flags, Terminal!Signals
  <2>5. Counts'
    BY WaitsAssumption, TerminalCodes DEF Counts, Flags
  <2>6. Kept'
    BY DEF Places, Screen, Flags, Kept, Owned, GivenBack, Away, InFront, Fronting
  <2>7. Owned'
    BY DEF Places, Screen, Owned, GivenBack, Away
  <2>8. Docked'
    BY DEF Places, Screen, Owned, Docked, Away, GivenBack, Undocked
  <2>9. InFront'
    BY DEF Places, Screen, Flags, InFront, Fronting
  <2>10. Decided'
    BY DEF Places, Screen, Flags, Latched, Decided
  <2>11. Settings'
    BY DEF Places, Screen, Flags, Owned, Kept, Settings, GivenBack
  <2> QED BY <2>1, <2>2, <2>3, <2>4, <2>5, <2>6, <2>7, <2>8, <2>9, <2>10, <2>11
<1>12. CASE Terminal!Suspend
  <2> USE <1>12 DEF Terminal!Suspend, Terminal!CanSet, Terminal!Set
  <2>1. Places'
    BY DEF Places
  <2>2. Screen'
    BY DEF Screen
  <2>3. Flags'
    BY DEF Flags
  <2>4. Latched'
    BY DEF Latched, Flags, Terminal!Signals
  <2>5. Counts'
    BY WaitsAssumption, TerminalCodes DEF Counts, Flags
  <2>6. Kept'
    BY DEF Places, Screen, Flags, Kept, Owned, GivenBack, Away, InFront, Fronting
  <2>7. Owned'
    BY DEF Places, Screen, Owned, GivenBack, Away
  <2>8. Docked'
    BY DEF Places, Screen, Owned, Docked, Away, GivenBack, Undocked
  <2>9. InFront'
    BY DEF Places, Screen, Flags, InFront, Fronting
  <2>10. Decided'
    BY DEF Places, Screen, Flags, Latched, Decided
  <2>11. Settings'
    BY DEF Places, Screen, Flags, Owned, Kept, Settings, GivenBack
  <2> QED BY <2>1, <2>2, <2>3, <2>4, <2>5, <2>6, <2>7, <2>8, <2>9, <2>10, <2>11
<1>13. CASE Terminal!Stop
  <2> USE <1>13 DEF Terminal!Stop
  <2>1. Places'
    BY DEF Places
  <2>2. Screen'
    BY DEF Screen
  <2>3. Flags'
    BY DEF Flags
  <2>4. Latched'
    BY DEF Latched, Flags, Terminal!Signals
  <2>5. Counts'
    BY WaitsAssumption, TerminalCodes DEF Counts, Flags
  <2>6. Kept'
    BY DEF Places, Screen, Flags, Kept, Owned, GivenBack, Away, InFront, Fronting
  <2>7. Owned'
    BY DEF Places, Screen, Owned, GivenBack, Away
  <2>8. Docked'
    BY DEF Places, Screen, Owned, Docked, Away, GivenBack, Undocked
  <2>9. InFront'
    BY DEF Places, Screen, Flags, InFront, Fronting
  <2>10. Decided'
    BY DEF Places, Screen, Flags, Latched, Decided
  <2>11. Settings'
    BY DEF Places, Screen, Flags, Owned, Kept, Settings, GivenBack
  <2> QED BY <2>1, <2>2, <2>3, <2>4, <2>5, <2>6, <2>7, <2>8, <2>9, <2>10, <2>11
<1>14. CASE Terminal!Woken
  <2> USE <1>14 DEF Terminal!Woken, Terminal!IsCanonical, Terminal!Set, Terminal!IsOurs
  <2>1. Places'
    BY DEF Places
  <2>2. Screen'
    BY DEF Screen
  <2>3. Flags'
    BY DEF Flags
  <2>4. Latched'
    BY DEF Latched, Flags, Terminal!Signals
  <2>5. Counts'
    BY WaitsAssumption, TerminalCodes DEF Counts, Flags
  <2>6. Kept'
    BY DEF Places, Screen, Flags, Kept, Owned, GivenBack, Away, InFront, Fronting
  <2>7. Owned'
    BY DEF Places, Screen, Owned, GivenBack, Away
  <2>8. Docked'
    BY DEF Places, Screen, Owned, Docked, Away, GivenBack, Undocked
  <2>9. InFront'
    BY DEF Places, Screen, Flags, InFront, Fronting
  <2>10. Decided'
    BY DEF Places, Screen, Flags, Latched, Decided
  <2>11. Settings'
    BY DEF Places, Screen, Flags, Owned, Kept, Settings, GivenBack
  <2> QED BY <2>1, <2>2, <2>3, <2>4, <2>5, <2>6, <2>7, <2>8, <2>9, <2>10, <2>11
<1>15. CASE Terminal!Clean
  <2> USE <1>15 DEF Terminal!Clean, Terminal!Take
  <2>1. Places'
    BY DEF Places
  <2>2. Screen'
    BY DEF Screen
  <2>3. Flags'
    BY DEF Flags
  <2>4. Latched'
    BY DEF Latched, Flags, Terminal!Signals
  <2>5. Counts'
    BY WaitsAssumption, TerminalCodes DEF Counts, Flags
  <2>6. Kept'
    BY DEF Places, Screen, Flags, Kept, Owned, GivenBack, Away, InFront, Fronting
  <2>7. Owned'
    BY DEF Places, Screen, Owned, GivenBack, Away
  <2>8. Docked'
    BY DEF Places, Screen, Owned, Docked, Away, GivenBack, Undocked
  <2>9. InFront'
    BY DEF Places, Screen, Flags, InFront, Fronting
  <2>10. Decided'
    BY DEF Places, Screen, Flags, Latched, Decided
  <2>11. Settings'
    BY DEF Places, Screen, Flags, Owned, Kept, Settings, GivenBack
  <2> QED BY <2>1, <2>2, <2>3, <2>4, <2>5, <2>6, <2>7, <2>8, <2>9, <2>10, <2>11
<1>16. CASE Terminal!Finish
  <2> USE <1>16 DEF Terminal!Finish, Terminal!CanSet, Terminal!MustWait, Terminal!Set
  <2>1. Places'
    BY DEF Places
  <2>2. Screen'
    BY DEF Screen
  <2>3. Flags'
    BY DEF Flags
  <2>4. Latched'
    BY DEF Latched, Flags, Terminal!Signals
  <2>5. Counts'
    BY WaitsAssumption, TerminalCodes DEF Counts, Flags
  <2>6. Kept'
    BY DEF Places, Screen, Flags, Kept, Owned, GivenBack, Away, InFront, Fronting
  <2>7. Owned'
    BY DEF Places, Screen, Owned, GivenBack, Away
  <2>8. Docked'
    BY DEF Places, Screen, Owned, Docked, Away, GivenBack, Undocked
  <2>9. InFront'
    BY DEF Places, Screen, Flags, InFront, Fronting
  <2>10. Decided'
    BY DEF Places, Screen, Flags, Latched, Decided
  <2>11. Settings'
    BY DEF Places, Screen, Flags, Owned, Kept, Settings, GivenBack
  <2> QED BY <2>1, <2>2, <2>3, <2>4, <2>5, <2>6, <2>7, <2>8, <2>9, <2>10, <2>11
<1>17. CASE Terminal!Close
  <2> USE <1>17 DEF Terminal!Close, Terminal!Take, Terminal!Early
  <2>1. Places'
    BY DEF Places
  <2>2. Screen'
    BY DEF Screen
  <2>3. Flags'
    BY DEF Flags
  <2>4. Latched'
    BY DEF Latched, Flags, Terminal!Signals
  <2>5. Counts'
    <3>1. left' \in {left, 1} /\ events' = events
      OBVIOUS
    <3> QED BY <3>1 DEF Counts
  <2>6. Kept'
    BY DEF Places, Screen, Flags, Kept, Owned, GivenBack, Away, InFront, Fronting
  <2>7. Owned'
    BY DEF Places, Screen, Owned, GivenBack, Away
  <2>8. Docked'
    BY DEF Places, Screen, Owned, Docked, Away, GivenBack, Undocked
  <2>9. InFront'
    BY DEF Places, Screen, Flags, InFront, Fronting
  <2>10. Decided'
    BY DEF Places, Screen, Flags, Latched, Decided
  <2>11. Settings'
    BY DEF Places, Screen, Flags, Owned, Kept, Settings, GivenBack
  <2> QED BY <2>1, <2>2, <2>3, <2>4, <2>5, <2>6, <2>7, <2>8, <2>9, <2>10, <2>11
<1>18. CASE Terminal!Leave
  <2> USE <1>18 DEF Terminal!Leave, Terminal!Early
  <2>1. Places'
    BY DEF Places
  <2>2. Screen'
    BY DEF Screen
  <2>3. Flags'
    BY DEF Flags
  <2>4. Latched'
    BY DEF Latched, Flags, Terminal!Signals
  <2>5. Counts'
    BY WaitsAssumption, TerminalCodes DEF Counts, Flags
  <2>6. Kept'
    BY DEF Places, Screen, Flags, Kept, Owned, GivenBack, Away, InFront, Fronting
  <2>7. Owned'
    BY DEF Places, Screen, Owned, GivenBack, Away
  <2>8. Docked'
    BY DEF Places, Screen, Owned, Docked, Away, GivenBack, Undocked
  <2>9. InFront'
    BY DEF Places, Screen, Flags, InFront, Fronting
  <2>10. Decided'
    BY DEF Places, Screen, Flags, Latched, Decided
  <2>11. Settings'
    BY DEF Places, Screen, Flags, Owned, Kept, Settings, GivenBack
  <2> QED BY <2>1, <2>2, <2>3, <2>4, <2>5, <2>6, <2>7, <2>8, <2>9, <2>10, <2>11
<1>19. CASE Terminal!Drop
  <2> USE <1>19 DEF Terminal!Drop, Terminal!CanSet, Terminal!MustWait, Terminal!Set
  <2>1. Places'
    BY DEF Places
  <2>2. Screen'
    BY DEF Screen
  <2>3. Flags'
    BY DEF Flags
  <2>4. Latched'
    BY DEF Latched, Flags, Terminal!Signals
  <2>5. Counts'
    BY WaitsAssumption, TerminalCodes DEF Counts, Flags
  <2>6. Kept'
    BY DEF Places, Screen, Flags, Kept, Owned, GivenBack, Away, InFront, Fronting
  <2>7. Owned'
    BY DEF Places, Screen, Owned, GivenBack, Away
  <2>8. Docked'
    BY DEF Places, Screen, Owned, Docked, Away, GivenBack, Undocked
  <2>9. InFront'
    BY DEF Places, Screen, Flags, InFront, Fronting
  <2>10. Decided'
    BY DEF Places, Screen, Flags, Latched, Decided
  <2>11. Settings'
    BY DEF Places, Screen, Flags, Owned, Kept, Settings, GivenBack
  <2> QED BY <2>1, <2>2, <2>3, <2>4, <2>5, <2>6, <2>7, <2>8, <2>9, <2>10, <2>11
<1> QED BY <1>1, <1>2, <1>3, <1>4, <1>5, <1>6, <1>7, <1>8, <1>9, <1>10, <1>11, <1>12, <1>13,
   <1>14, <1>15, <1>16, <1>17, <1>18, <1>19 DEF Terminal!Next, Terminal!Step

-----------------------------------------------------------------------------
(* The theorems.                                                             *)

LEMMA ProcessStutters == ProcessInv /\ UNCHANGED processVars => ProcessInv'
<1> SUFFICES ASSUME ProcessInv, UNCHANGED processVars PROVE ProcessInv'
  OBVIOUS
<1> USE DEF processVars
<1>1. Process!TypeOK'
  BY DEF ProcessInv, Process!TypeOK
<1>2. Stands' /\ Process!ExitTellsRun'
  BY DEF ProcessInv, Stands, Process!ExitTellsRun, Process!ExitIsEarned,
     Process!SessionClosedFirst, Process!SignalDecides, Process!CleanupFailed
<1> QED BY <1>1, <1>2 DEF ProcessInv

LEMMA TerminalStutters == TerminalInv /\ UNCHANGED terminalVars => TerminalInv'
<1> SUFFICES ASSUME TerminalInv, UNCHANGED terminalVars PROVE TerminalInv'
  OBVIOUS
<1> USE DEF terminalVars, TerminalInv
<1>1. Places' /\ Screen' /\ Flags' /\ Latched' /\ Counts'
  BY DEF Places, Screen, Flags, Latched, Counts
<1>2. Kept' /\ Owned' /\ Docked' /\ InFront' /\ Decided' /\ Settings'
  BY DEF Kept, Owned, Docked, InFront, Decided, Settings
<1> QED BY <1>1, <1>2

\* A process exits with what its turn or the first signal earned, and its session
\* is closed by then (run_one_turn, exit_after_settlement): for any number of
\* signals of any kinds, at any time.
THEOREM ProcessExitsAsItRan == Process!Init /\ [][Process!Next]_processVars => []Process!ExitTellsRun
<1>1. ProcessInv /\ [Process!Next]_processVars => ProcessInv'
  BY ProcessSteps, ProcessStutters
<1>2. ProcessInv => Process!ExitTellsRun
  BY DEF ProcessInv
<1> QED BY <1>1, <1>2, ProcessStarts, PTL

\* Whenever the shell is in front, stopped or for good, its terminal is as it
\* gave it, and a terminating signal that was seen decides the exit code
\* (terminal.rs: finish, restore_for_suspend, drop): whatever happens outside.
THEOREM ShellGetsItsTerminal ==
  Terminal!Init /\ [][Terminal!Next]_terminalVars => []Terminal!TerminalGivenBack
<1>1. TerminalInv /\ [Terminal!Next]_terminalVars => TerminalInv'
  BY TerminalSteps, TerminalStutters
<1> QED BY <1>1, TerminalStarts, TerminalTells, PTL

\* What is drained, or seen, never takes the place of a terminating signal.
LEMMA TerminatingStays ==
  ASSUME NEW m, NEW l \in Process!Terminating
  PROVE  /\ \A s : Process!Observe(m, l, s) = l
         /\ Process!Drained(m, l) = l
<1>1. l # "none" /\ l # "Interrupt" /\ Process!IsExit(m, l)
  BY DEF Process!Terminating, Process!IsExit
<1>2. ASSUME NEW s PROVE Process!Observe(m, l, s) = l
  BY <1>1 DEF Process!Observe, Process!None
<1>3. \A s : Process!Seen(m, l, s) = l
  BY <1>2 DEF Process!Seen
<1> QED BY <1>2, <1>3 DEF Process!Drained

\* A terminating signal that was seen is never replaced by another one
\* (SignalLatch::observe), on any way out.
THEOREM FirstSignalStays == Process!Init /\ [][Process!Next]_processVars => Process!FirstOneStays
<1>1. ASSUME ProcessInv, Process!Next, latch \in Process!Terminating PROVE latch' = latch
  <2>1. latch # "none" /\ (\A s : Process!Observe(mode, latch, s) = latch)
          /\ Process!Drained(mode, latch) = latch
    BY <1>1, TerminatingStays DEF Process!Terminating
  <2>2. stage \notin Earliest \cup Answering
    BY <1>1, <2>1 DEF ProcessInv, Stands
  <2> USE <1>1, <2>1, <2>2 DEF Earliest, Answering
  <2>3. CASE Process!Raise \/ Process!Reads \/ Process!ReadDrained \/ Process!Prepare
             \/ Process!Resume \/ Process!Unpause \/ Process!Continue
    BY <2>3 DEF Process!Raise, Process!Reads, Process!ReadDrained, Process!Prepare,
       Process!Resume, Process!Unpause, Process!Continue
  <2>4. CASE Process!Assemble \/ Process!Assembled \/ Process!Clean \/ Process!Settle
    BY <2>4 DEF Process!Assemble, Process!Assembled, Process!Clean, Process!Settle, Process!Drive
  <2>5. CASE Process!Cleaned
    BY <2>5 DEF Process!Cleaned, Process!ExitFor
  <2>6. CASE Process!TurnEnds \/ Process!TurnStops \/ Process!TurnDrained
    BY <2>6 DEF Process!TurnEnds, Process!TurnStops, Process!TurnDrained
  <2>7. CASE Process!Settled
    BY <2>7 DEF Process!Settled, Process!ExitFor
  <2>8. CASE Process!Writes \/ Process!WriteStops \/ Process!Deadline \/ Process!WriteEnds
             \/ Process!WriteDrained
    BY <2>8 DEF Process!Writes, Process!WriteStops, Process!Deadline, Process!WriteEnds,
       Process!WriteDrained
  <2> QED BY <2>3, <2>4, <2>5, <2>6, <2>7, <2>8 DEF Process!Next, Process!Step
<1>2. ProcessInv /\ [Process!Next]_processVars =>
        [(latch \in Process!Terminating) => latch' = latch]_(Process!vars)
  BY <1>1 DEF processVars, Process!vars
<1>3. ProcessInv /\ [Process!Next]_processVars => ProcessInv'
  BY ProcessSteps, ProcessStutters
<1> QED BY <1>2, <1>3, ProcessStarts, PTL DEF Process!FirstOneStays

\* The clean-up of the enhanced interface runs behind the shell only after a
\* terminating signal, or without a terminal.
Behind == at = "clean" /\ fore = "shell" /\ ~hung => held \in Terminal!Terminating

\* Nothing is drawn while the shell is in front, but for a terminating signal
\* (suspend_enhanced and the clean-up of run_enhanced).
THEOREM QuietBehindShell == Terminal!Init /\ [][Terminal!Next]_terminalVars => Terminal!QuietBehind
<1> DEFINE Quiet == dock' # dock => fore = "dsh" \/ held \in Terminal!Terminating \/ hung
<1>1. ASSUME TerminalInv, Behind, Terminal!Next PROVE Behind' /\ Quiet
  <2> USE <1>1 DEF TerminalInv, Behind, Places, Screen, Flags, Owned, Docked, InFront, Fronting,
        Undocked, GivenBack, Away, Terminal!None, Terminal!Terminating, Terminal!Inside, Terminal!Modes
  <2>1. CASE Terminal!Outside
    BY <2>1 DEF Terminal!Outside
  <2>2. CASE Terminal!Continue
    BY <2>2 DEF Terminal!Continue
  <2>3. CASE Terminal!Foreground
    BY <2>3 DEF Terminal!Foreground
  <2>4. CASE Terminal!Banner
    BY <2>4 DEF Terminal!Banner, Terminal!Fails, Terminal!IdleSignal, Terminal!Take
  <2>5. CASE Terminal!Enter
    BY <2>5 DEF Terminal!Enter, Terminal!IsCanonical, Terminal!Set, Terminal!Fails,
       Terminal!IsOurs
  <2>6. CASE Terminal!Entered
    BY <2>6 DEF Terminal!Entered, Terminal!IsApplication, Terminal!Refused, Terminal!CanSet,
       Terminal!Set, Terminal!IsOurs
  <2>7. CASE Terminal!LineLoop
    BY <2>7 DEF Terminal!LineLoop, Terminal!IsCanonical, Terminal!Fails, Terminal!IdleSignal,
       Terminal!NoticeSignal, Terminal!Take, Terminal!IsOurs
  <2>8. CASE Terminal!EnhancedLoop
    BY <2>8 DEF Terminal!EnhancedLoop, Terminal!IsApplication, Terminal!Take, Terminal!Fails,
       Terminal!IsOurs
  <2>9. CASE Terminal!Ask
    BY <2>9 DEF Terminal!Ask, Terminal!IsCanonical, Terminal!Set, Terminal!IsOurs
  <2>10. CASE Terminal!Answer
    BY <2>10 DEF Terminal!Answer, Terminal!Fails, Terminal!Released, Terminal!CanSet,
       Terminal!Set
  <2>11. CASE Terminal!TurnEnds
    BY <2>11 DEF Terminal!TurnEnds, Terminal!Take, Terminal!Fails, Terminal!Released,
       Terminal!CanSet, Terminal!Set
  <2>12. CASE Terminal!Suspend
    BY <2>12 DEF Terminal!Suspend, Terminal!CanSet, Terminal!Set
  <2>13. CASE Terminal!Stop
    BY <2>13 DEF Terminal!Stop
  <2>14. CASE Terminal!Woken
    BY <2>14 DEF Terminal!Woken, Terminal!IsCanonical, Terminal!Set, Terminal!IsOurs
  <2>15. CASE Terminal!Clean
    BY <2>15 DEF Terminal!Clean, Terminal!Take
  <2>16. CASE Terminal!Finish
    BY <2>16 DEF Terminal!Finish, Terminal!CanSet, Terminal!MustWait, Terminal!Set
  <2>17. CASE Terminal!Close
    BY <2>17 DEF Terminal!Close, Terminal!Take, Terminal!Early
  <2>18. CASE Terminal!Leave
    BY <2>18 DEF Terminal!Leave, Terminal!Early
  <2>19. CASE Terminal!Drop
    BY <2>19 DEF Terminal!Drop, Terminal!CanSet, Terminal!MustWait, Terminal!Set
  <2> QED BY <2>1, <2>2, <2>3, <2>4, <2>5, <2>6, <2>7, <2>8, <2>9, <2>10, <2>11, <2>12, <2>13,
     <2>14, <2>15, <2>16, <2>17, <2>18, <2>19 DEF Terminal!Next, Terminal!Step
<1>2. TerminalInv /\ Behind /\ [Terminal!Next]_terminalVars =>
        TerminalInv' /\ Behind' /\ [Quiet]_(Terminal!vars)
  <2>1. TerminalInv /\ Behind /\ UNCHANGED terminalVars => Behind' /\ UNCHANGED Terminal!vars
    BY DEF Behind, terminalVars, Terminal!vars
  <2> QED BY <1>1, <2>1, TerminalSteps, TerminalStutters
<1>3. Terminal!Init => Behind
  BY DEF Terminal!Init, Behind
<1> QED BY <1>2, <1>3, TerminalStarts, PTL DEF Terminal!QuietBehind

-----------------------------------------------------------------------------
(* The stream of an answer.                                                  *)

Reasons == {"none"} \cup Stream!Successes \cup Stream!Failures
Chunks == [kind : {"start", "delta", "end", "usage", "finish"}, block : Nat, reason : Reasons]
Validators ==
  [open : SUBSET Nat, seen : SUBSET Nat, usage : BOOLEAN, finished : BOOLEAN, count : Nat]

\* The blocks that the first n chunks start, or end.
Told(chunks, n, what) == {chunks[j].block : j \in {j \in 1..n : chunks[j].kind = what}}

\* The validator behind the first n chunks.
AcceptedTo(v, s, n) ==
  [open |-> (v.open \cup Told(s, n, "start")) \ Told(s, n, "end"),
   seen |-> v.seen \cup Told(s, n, "start"),
   usage |-> v.usage \/ \E j \in 1..n : s[j].kind = "usage",
   finished |-> v.finished \/ \E j \in 1..n : s[j].kind = "finish",
   count |-> v.count + n]

LEMMA PrefixTells ==
  ASSUME NEW v, NEW s, NEW n \in Nat, NEW p, DOMAIN p = 1..n, Len(p) = n,
         \A j \in 1..n : p[j] = s[j]
  PROVE  Stream!Accepted(v, p) = AcceptedTo(v, s, n)
<1>1. Stream!ToSet(p) = {s[j] : j \in 1..n}
  BY DEF Stream!ToSet
<1>2. ASSUME NEW what PROVE Stream!Blocks(p, what) = Told(s, n, what)
  BY <1>1 DEF Stream!Blocks, Told
<1>3. ASSUME NEW what
      PROVE  (\E c \in Stream!ToSet(p) : c.kind = what) <=> (\E j \in 1..n : s[j].kind = what)
  BY <1>1
<1>4. Stream!Blocks(p, "start") = Told(s, n, "start") /\ Stream!Blocks(p, "end") = Told(s, n, "end")
  BY <1>2
<1>5. /\ (\E c \in Stream!ToSet(p) : c.kind = "usage") <=> (\E j \in 1..n : s[j].kind = "usage")
      /\ (\E c \in Stream!ToSet(p) : c.kind = "finish") <=> (\E j \in 1..n : s[j].kind = "finish")
  BY <1>3
<1> QED BY <1>4, <1>5 DEF Stream!Accepted, AcceptedTo

LEMMA PrefixIs ==
  ASSUME NEW v, NEW s \in Seq(Chunks), NEW n \in 0..Len(s)
  PROVE  Stream!Accepted(v, SubSeq(s, 1, n)) = AcceptedTo(v, s, n)
<1> DEFINE p == SubSeq(s, 1, n)
<1>1. n \in Nat /\ DOMAIN p = 1..n /\ Len(p) = n /\ \A j \in 1..n : p[j] = s[j]
  OBVIOUS
<1> HIDE DEF p
<1>2. Stream!Accepted(v, p) = AcceptedTo(v, s, n)
  BY <1>1, PrefixTells
<1> QED BY <1>2 DEF p

LEMMA WholeIs ==
  ASSUME NEW v, NEW s \in Seq(Chunks)
  PROVE  Stream!Accepted(v, s) = AcceptedTo(v, s, Len(s))
<1>1. Len(s) \in Nat /\ DOMAIN s = 1..Len(s)
  OBVIOUS
<1> QED BY <1>1, PrefixTells

\* What is accepted is accepted chunk by chunk.
LEMMA AcceptsEach ==
  ASSUME NEW v, NEW s \in Seq(Chunks)
  PROVE  Stream!AcceptsAll(v, s)
           <=> \A i \in 1..Len(s) : Stream!Accepts(AcceptedTo(v, s, i - 1), s[i])
<1>1. ASSUME NEW i \in 1..Len(s)
      PROVE  Stream!Accepted(v, SubSeq(s, 1, i - 1)) = AcceptedTo(v, s, i - 1)
  BY PrefixIs
<1> QED BY <1>1 DEF Stream!AcceptsAll

\* The block that one chunk starts, or ends.
BlockOf(h, what) == IF h.kind = what THEN {h.block} ELSE {}
\* The validator behind one chunk.
AcceptedOne(v, h) ==
  [open |-> (v.open \cup BlockOf(h, "start")) \ BlockOf(h, "end"),
   seen |-> v.seen \cup BlockOf(h, "start"),
   usage |-> v.usage \/ h.kind = "usage", finished |-> v.finished \/ h.kind = "finish",
   count |-> v.count + 1]

LEMMA OneIs ==
  ASSUME NEW v, NEW h \in Chunks
  PROVE  Stream!Accepted(v, <<h>>) = AcceptedOne(v, h)
<1>1. DOMAIN <<h>> = 1..1 /\ Len(<<h>>) = 1 /\ \A j \in 1..1 : <<h>>[j] = h
  OBVIOUS
<1>2. Stream!Accepted(v, <<h>>) = AcceptedTo(v, <<h>>, 1)
  BY <1>1, PrefixTells
<1> DEFINE one == <<h>>
<1> HIDE DEF one
<1>3. ASSUME NEW what
      PROVE  /\ Told(one, 1, what) = BlockOf(h, what)
             /\ (\E j \in 1..1 : one[j].kind = what) <=> h.kind = what
  <2>1. \A j \in 1..1 : one[j] = h
    BY DEF one
  <2> QED BY <2>1 DEF Told, BlockOf
<1>4. AcceptedTo(v, one, 1) = AcceptedOne(v, h)
  BY <1>3 DEF AcceptedTo, AcceptedOne
<1> QED BY <1>2, <1>4 DEF one

LEMMA OneKeeps ==
  ASSUME NEW v \in Validators, NEW h \in Chunks, v.open \subseteq v.seen
  PROVE  /\ AcceptedOne(v, h) \in Validators
         /\ AcceptedOne(v, h).open \subseteq AcceptedOne(v, h).seen
<1>1. ASSUME NEW what PROVE BlockOf(h, what) \in SUBSET Nat
  BY DEF BlockOf, Chunks
<1> QED BY <1>1 DEF AcceptedOne, Validators

LEMMA NoneIs ==
  ASSUME NEW v \in Validators, NEW s
  PROVE  AcceptedTo(v, s, 0) = v
<1>1. ASSUME NEW what PROVE Told(s, 0, what) = {} /\ ~ \E j \in 1..0 : s[j].kind = what
  <2>1. 1..0 = {}
    OBVIOUS
  <2> QED BY <2>1 DEF Told
<1>2. v = [open |-> v.open, seen |-> v.seen, usage |-> v.usage, finished |-> v.finished,
           count |-> v.count]
  BY DEF Validators
<1>3. v.open \in SUBSET Nat /\ v.seen \in SUBSET Nat /\ v.count + 0 = v.count
  BY DEF Validators
<1>4. /\ (v.open \cup Told(s, 0, "start")) \ Told(s, 0, "end") = v.open
      /\ v.seen \cup Told(s, 0, "start") = v.seen
  BY <1>1
<1>5. (v.usage \/ \E j \in 1..0 : s[j].kind = "usage") = v.usage
  BY <1>1 DEF Validators
<1>6. (v.finished \/ \E j \in 1..0 : s[j].kind = "finish") = v.finished
  BY <1>1 DEF Validators
<1> QED BY <1>2, <1>3, <1>4, <1>5, <1>6 DEF AcceptedTo

\* What is behind the rest of a queue of which the head was delivered.  A block
\* that has ended is not started again.
LEMMA RestIs ==
  ASSUME NEW v \in Validators, v.open \subseteq v.seen, NEW n \in Nat, NEW s, NEW t,
         \A i \in 1..n + 1 : Stream!Accepts(AcceptedTo(v, s, i - 1), s[i]),
         \A i \in 1..n : t[i] = s[i + 1]
  PROVE  AcceptedTo(AcceptedOne(v, s[1]), t, n) = AcceptedTo(v, s, n + 1)
<1> DEFINE h == s[1]
           w == AcceptedOne(v, h)
<1>1. ASSUME NEW what
      PROVE  /\ Told(s, n + 1, what) = Told(t, n, what) \cup BlockOf(h, what)
             /\ (\E j \in 1..n + 1 : s[j].kind = what)
                  <=> (h.kind = what \/ \E j \in 1..n : t[j].kind = what)
  <2>1. ASSUME NEW j \in 1..n + 1 PROVE j = 1 \/ (j - 1 \in 1..n /\ t[j - 1] = s[j])
    OBVIOUS
  <2>2. ASSUME NEW j \in 1..n PROVE j + 1 \in 1..n + 1 /\ t[j] = s[j + 1]
    OBVIOUS
  <2>3. 1 \in 1..n + 1
    OBVIOUS
  <2> QED BY <2>1, <2>2, <2>3 DEF Told, BlockOf
<1>2. h.kind = "end" => h.block \in v.seen
  <2>1. Stream!Accepts(v, h)
    BY NoneIs
  <2> QED BY <2>1 DEF Stream!Accepts
<1>3. ASSUME NEW j \in 1..n, t[j].kind = "start" PROVE t[j].block \notin v.seen
  <2>1. Stream!Accepts(AcceptedTo(v, s, j), s[j + 1]) /\ s[j + 1] = t[j]
    OBVIOUS
  <2>2. v.seen \subseteq AcceptedTo(v, s, j).seen
    BY DEF AcceptedTo
  <2> QED BY <2>1, <2>2, <1>3 DEF Stream!Accepts
<1>4. h.kind = "end" => h.block \notin Told(t, n, "start")
  BY <1>2, <1>3 DEF Told
<1> HIDE DEF h
<1>5. (w.open \cup Told(t, n, "start")) \ Told(t, n, "end")
        = (v.open \cup Told(s, n + 1, "start")) \ Told(s, n + 1, "end")
  BY <1>1, <1>4 DEF AcceptedOne, BlockOf
<1>6. w.seen \cup Told(t, n, "start") = v.seen \cup Told(s, n + 1, "start")
  BY <1>1 DEF AcceptedOne
<1>7. w.count + n = v.count + (n + 1)
  BY DEF AcceptedOne, Validators
<1>8. w.usage = (v.usage \/ h.kind = "usage") /\ w.finished = (v.finished \/ h.kind = "finish")
  BY DEF AcceptedOne
<1> HIDE DEF w
<1>9. AcceptedTo(w, t, n) = AcceptedTo(v, s, n + 1)
  BY <1>1, <1>5, <1>6, <1>7, <1>8 DEF AcceptedTo
<1> QED BY <1>9 DEF w, h

\* One chunk is delivered of a queue that is accepted as a whole.
LEMMA HeadGoes ==
  ASSUME NEW v \in Validators, v.open \subseteq v.seen,
         NEW s \in Seq(Chunks), s # <<>>, Stream!AcceptsAll(v, s)
  PROVE  LET w == Stream!Accepted(v, <<Head(s)>>) IN
         /\ Stream!Accepts(v, Head(s)) /\ w \in Validators /\ w.open \subseteq w.seen
         /\ Stream!AcceptsAll(w, Tail(s)) /\ Stream!Accepted(w, Tail(s)) = Stream!Accepted(v, s)
<1> DEFINE h == Head(s)
           t == Tail(s)
           w == Stream!Accepted(v, <<h>>)
<1>1. /\ h \in Chunks /\ h = s[1] /\ t \in Seq(Chunks) /\ Len(t) = Len(s) - 1
      /\ Len(s) \in Nat \ {0}
      /\ \A j \in 1..Len(t) : t[j] = s[j + 1]
  OBVIOUS
<1>2. \A i \in 1..Len(s) : Stream!Accepts(AcceptedTo(v, s, i - 1), s[i])
  BY AcceptsEach
<1>3. w = AcceptedOne(v, h)
  BY <1>1, OneIs
<1> HIDE DEF w, h, t
<1>4. Stream!Accepts(v, h)
  BY <1>1, <1>2, NoneIs
<1>5. w \in Validators /\ w.open \subseteq w.seen
  BY <1>1, <1>3, OneKeeps
<1>6. ASSUME NEW n \in 0..Len(t) PROVE AcceptedTo(w, t, n) = AcceptedTo(v, s, n + 1)
  <2>1. n \in Nat /\ \A i \in 1..n + 1 : i \in 1..Len(s)
    BY <1>1
  <2>2. \A i \in 1..n : t[i] = s[i + 1]
    BY <1>1
  <2> QED BY <1>1, <1>2, <1>3, <2>1, <2>2, RestIs
<1>7. Stream!AcceptsAll(w, t)
  <2>1. ASSUME NEW i \in 1..Len(t) PROVE Stream!Accepts(AcceptedTo(w, t, i - 1), t[i])
    <3>1. i - 1 \in 0..Len(t) /\ i + 1 \in 1..Len(s) /\ t[i] = s[i + 1] /\ (i - 1) + 1 = (i + 1) - 1
      BY <1>1
    <3> QED BY <3>1, <1>2, <1>6
  <2> QED BY <2>1, <1>1, AcceptsEach
<1>8. Stream!Accepted(w, t) = Stream!Accepted(v, s)
  <2>1. AcceptedTo(w, t, Len(t)) = AcceptedTo(v, s, Len(s))
    BY <1>1, <1>6
  <2> QED BY <1>1, <2>1, WholeIs
<1> QED BY <1>4, <1>5, <1>7, <1>8 DEF w, h, t

-----------------------------------------------------------------------------
\* Chunks that go on with a stream of m blocks, and of n behind them: each block
\* above m is started once, and told of only when it is started.
Opening(s, m, n) ==
  /\ s \in Seq(Chunks)
  /\ \A j \in 1..Len(s) : s[j].kind \in {"start", "delta"} /\ s[j].block \in 1..n
  /\ \A j \in 1..Len(s) : s[j].kind = "start" =>
       s[j].block > m /\ \A k \in 1..j - 1 : s[k].kind = "start" => s[k].block # s[j].block
  /\ \A j \in 1..Len(s) : s[j].kind = "delta" =>
       s[j].block <= m \/ \E k \in 1..j - 1 : s[k].kind = "start" /\ s[k].block = s[j].block
  /\ \A b \in m + 1..n : \E j \in 1..Len(s) : s[j].kind = "start" /\ s[j].block = b

LEMMA StartIs ==
  ASSUME NEW b \in Nat
  PROVE  /\ Stream!Chunk("start", b, "none") \in Chunks
         /\ Stream!Chunk("delta", b, "none") \in Chunks
  BY DEF Stream!Chunk, Chunks, Reasons

LEMMA AppendIs ==
  ASSUME NEW S, NEW q \in Seq(S), NEW e \in S
  PROVE  /\ Append(q, e) \in Seq(S) /\ Len(Append(q, e)) = Len(q) + 1
         /\ DOMAIN Append(q, e) = 1..Len(q) + 1 /\ Append(q, e)[Len(q) + 1] = e
         /\ \A j \in 1..Len(q) : Append(q, e)[j] = q[j]
         /\ q \o <<e>> = Append(q, e) /\ q \o <<>> = q
OBVIOUS

LEMMA TellsOfBlock ==
  ASSUME NEW m \in Nat, NEW n \in Nat, m <= n, NEW s, Opening(s, m, n), NEW b \in 1..n
  PROVE  Opening(Append(s, Stream!Chunk("delta", b, "none")), m, n)
<1>0. /\ \A j \in 1..Len(s) : s[j].kind = "start" =>
           s[j].block > m /\ \A k \in 1..j - 1 : s[k].kind = "start" => s[k].block # s[j].block
      /\ \A j \in 1..Len(s) : s[j].kind = "delta" =>
           s[j].block <= m \/ \E k \in 1..j - 1 : s[k].kind = "start" /\ s[k].block = s[j].block
  BY DEF Opening
<1> DEFINE c == Stream!Chunk("delta", b, "none")
           t == Append(s, c)
<1>1. c \in Chunks /\ c.kind = "delta" /\ c.block = b
  <2>1. c \in Chunks
    BY StartIs
  <2> QED BY <2>1 DEF Stream!Chunk
<1> HIDE DEF c
<1>2. /\ t \in Seq(Chunks) /\ Len(t) = Len(s) + 1 /\ t[Len(t)] = c /\ Len(s) \in Nat
      /\ \A j \in 1..Len(s) : t[j] = s[j]
  BY <1>1 DEF Opening
<1> HIDE DEF t
<1>3. \A j \in 1..Len(t) : j \in 1..Len(s) \/ j = Len(t)
  BY <1>2
<1>4. b <= m \/ \E k \in 1..Len(t) - 1 : t[k].kind = "start" /\ t[k].block = b
  <2>1. CASE b > m
    <3>0. b \in m + 1..n
      BY <2>1
    <3>1. PICK j \in 1..Len(s) : s[j].kind = "start" /\ s[j].block = b
      BY <3>0 DEF Opening
    <3> QED BY <3>1, <1>2
  <2> QED BY <2>1
<1>5. \A j \in 1..Len(t) : t[j].kind \in {"start", "delta"} /\ t[j].block \in 1..n
  BY <1>1, <1>2, <1>3 DEF Opening
<1>6. ASSUME NEW j \in 1..Len(t), t[j].kind = "start"
      PROVE  t[j].block > m /\ \A k \in 1..j - 1 : t[k].kind = "start" => t[k].block # t[j].block
  <2>1. j \in 1..Len(s) /\ t[j] = s[j] /\ s[j].kind = "start"
    BY <1>1, <1>2, <1>3, <1>6
  <2>2. \A k \in 1..j - 1 : t[k] = s[k]
    BY <2>1, <1>2
  <2> QED BY <1>0, <2>1, <2>2
<1>7. ASSUME NEW j \in 1..Len(t), t[j].kind = "delta"
      PROVE  t[j].block <= m \/ \E k \in 1..j - 1 : t[k].kind = "start" /\ t[k].block = t[j].block
  <2>1. CASE j \in 1..Len(s)
    <3>1. \A k \in 1..j - 1 : k \in 1..Len(s) /\ t[k] = s[k]
      BY <2>1, <1>2
    <3>2. t[j] = s[j] /\ s[j].kind = "delta"
      BY <2>1, <1>2, <1>7
    <3> QED BY <3>1, <3>2, <2>1, <1>0
  <2>2. CASE j = Len(t)
    BY <2>2, <1>1, <1>2, <1>4
  <2> QED BY <2>1, <2>2, <1>3
<1>8. ASSUME NEW x \in m + 1..n PROVE \E j \in 1..Len(t) : t[j].kind = "start" /\ t[j].block = x
  <2>1. PICK j \in 1..Len(s) : s[j].kind = "start" /\ s[j].block = x
    BY DEF Opening
  <2> QED BY <2>1, <1>2
<1>9. Opening(t, m, n)
  BY <1>2, <1>5, <1>6, <1>7, <1>8 DEF Opening
<1> QED BY <1>9 DEF t, c

LEMMA OpensBlock ==
  ASSUME NEW m \in Nat, NEW n \in Nat, m <= n, NEW s, Opening(s, m, n)
  PROVE  Opening(Append(s, Stream!Chunk("start", n + 1, "none")), m, n + 1)
<1>0. /\ \A j \in 1..Len(s) : s[j].kind = "start" =>
           s[j].block > m /\ \A k \in 1..j - 1 : s[k].kind = "start" => s[k].block # s[j].block
      /\ \A j \in 1..Len(s) : s[j].kind = "delta" =>
           s[j].block <= m \/ \E k \in 1..j - 1 : s[k].kind = "start" /\ s[k].block = s[j].block
  BY DEF Opening
<1> DEFINE c == Stream!Chunk("start", n + 1, "none")
           t == Append(s, c)
<1>1. c \in Chunks /\ c.kind = "start" /\ c.block = n + 1
  <2>1. c \in Chunks
    BY StartIs
  <2> QED BY <2>1 DEF Stream!Chunk
<1> HIDE DEF c
<1>2. /\ t \in Seq(Chunks) /\ Len(t) = Len(s) + 1 /\ t[Len(t)] = c /\ Len(s) \in Nat
      /\ \A j \in 1..Len(s) : t[j] = s[j]
  BY <1>1 DEF Opening
<1> HIDE DEF t
<1>3. \A j \in 1..Len(t) : j \in 1..Len(s) \/ j = Len(t)
  BY <1>2
<1>4. \A j \in 1..Len(s) : s[j].kind \in {"start", "delta"} /\ s[j].block \in 1..n
  BY DEF Opening
<1>5. \A j \in 1..Len(t) : t[j].kind \in {"start", "delta"} /\ t[j].block \in 1..n + 1
  <2>1. \A x \in 1..n : x \in 1..n + 1
    OBVIOUS
  <2>2. n + 1 \in 1..n + 1
    OBVIOUS
  <2> QED BY <1>1, <1>2, <1>3, <1>4, <2>1, <2>2
<1>6. ASSUME NEW j \in 1..Len(t), t[j].kind = "start"
      PROVE  t[j].block > m /\ \A k \in 1..j - 1 : t[k].kind = "start" => t[k].block # t[j].block
  <2>1. \A k \in 1..j - 1 : k \in 1..Len(s) /\ t[k] = s[k]
    BY <1>2
  <2>2. CASE j \in 1..Len(s)
    <3>1. t[j] = s[j] /\ s[j].kind = "start"
      BY <2>2, <1>2, <1>6
    <3> QED BY <3>1, <2>1, <2>2, <1>0
  <2>3. CASE j = Len(t)
    <3>1. t[j].block = n + 1
      BY <2>3, <1>1, <1>2
    <3>2. \A k \in 1..j - 1 : t[k].block \in 1..n
      BY <2>1, <1>4
    <3>3. \A x \in 1..n : x # n + 1
      OBVIOUS
    <3> QED BY <3>1, <3>2, <3>3
  <2> QED BY <2>2, <2>3, <1>3
<1>7. ASSUME NEW j \in 1..Len(t), t[j].kind = "delta"
      PROVE  t[j].block <= m \/ \E k \in 1..j - 1 : t[k].kind = "start" /\ t[k].block = t[j].block
  <2>1. j \in 1..Len(s)
    BY <1>1, <1>2, <1>3, <1>7
  <2>2. \A k \in 1..j - 1 : k \in 1..Len(s) /\ t[k] = s[k]
    BY <2>1, <1>2
  <2>3. t[j] = s[j] /\ s[j].kind = "delta"
    BY <2>1, <1>2, <1>7
  <2> QED BY <2>1, <2>2, <2>3, <1>0
<1>8. ASSUME NEW x \in m + 1..n + 1 PROVE \E j \in 1..Len(t) : t[j].kind = "start" /\ t[j].block = x
  <2>1. CASE x = n + 1
    BY <2>1, <1>1, <1>2
  <2>2. CASE x \in m + 1..n
    <3>1. PICK j \in 1..Len(s) : s[j].kind = "start" /\ s[j].block = x
      BY <2>2 DEF Opening
    <3> QED BY <3>1, <1>2
  <2> QED BY <2>1, <2>2
<1>9. Opening(t, m, n + 1)
  BY <1>2, <1>5, <1>6, <1>7, <1>8 DEF Opening
<1> QED BY <1>9 DEF t, c

\* What is known of a translation that is under way, of a stream with m blocks.
Translating(was, m) ==
  /\ was.blocks \in Seq(STRING) /\ m <= Len(was.blocks)
  /\ Opening(was.chunks, m, Len(was.blocks))

LEMMA AddsTo ==
  ASSUME NEW m \in Nat, NEW was, Translating(was, m), NEW what \in STRING
  PROVE  Translating(Stream!AddTo(was, what), m)
<1> DEFINE opens == ~Stream!Contains(was.blocks, what)
           blocks == IF opens THEN Append(was.blocks, what) ELSE was.blocks
           index == CHOOSE i \in DOMAIN blocks : blocks[i] = what
           start == IF opens THEN <<Stream!Chunk("start", index, "none")>> ELSE <<>>
           delta == <<Stream!Chunk("delta", index, "none")>>
           n == Len(was.blocks)
<1>1. /\ Stream!AddTo(was, what).blocks = blocks
      /\ Stream!AddTo(was, what).chunks = was.chunks \o start \o delta
  BY DEF Stream!AddTo
<1>2. was.chunks \in Seq(Chunks) /\ was.blocks \in Seq(STRING) /\ n \in Nat /\ m <= n
  BY DEF Translating, Opening
<1>3. CASE opens
  <2>1. blocks = Append(was.blocks, what)
    BY <1>3
  <2> HIDE DEF blocks
  <2>2. /\ blocks \in Seq(STRING) /\ Len(blocks) = n + 1 /\ blocks[n + 1] = what
        /\ DOMAIN blocks = 1..n + 1
        /\ \A i \in 1..n : blocks[i] = was.blocks[i]
    BY <2>1, <1>2, AppendIs
  <2>3. \A i \in 1..n : was.blocks[i] # what
    BY <1>3 DEF Stream!Contains
  <2>4. index = n + 1
    <3>1. \A i \in DOMAIN blocks : blocks[i] = what <=> i = n + 1
      BY <2>2, <2>3, <1>2
    <3>2. n + 1 \in DOMAIN blocks
      BY <2>2, <1>2
    <3> QED BY <3>1, <3>2
  <2> DEFINE t == Append(was.chunks, Stream!Chunk("start", n + 1, "none"))
  <2>5. was.chunks \o start \o delta = Append(t, Stream!Chunk("delta", n + 1, "none"))
    <3> DEFINE a == Stream!Chunk("start", n + 1, "none")
               b == Stream!Chunk("delta", n + 1, "none")
    <3>1. a \in Chunks /\ b \in Chunks
      BY <1>2, StartIs
    <3>2. start = <<a>> /\ delta = <<b>>
      BY <1>3, <2>4
    <3> HIDE DEF a, b, start, delta
    <3>3. was.chunks \o <<a>> = Append(was.chunks, a) /\ Append(was.chunks, a) \in Seq(Chunks)
      BY <3>1, <1>2, AppendIs
    <3>4. Append(was.chunks, a) \o <<b>> = Append(Append(was.chunks, a), b)
      BY <3>1, <3>3, AppendIs
    <3> QED BY <3>2, <3>3, <3>4 DEF a, b
  <2>6. Opening(t, m, n + 1)
    BY <1>2, OpensBlock DEF Translating
  <2> HIDE DEF t, start, delta
  <2>7. Opening(Append(t, Stream!Chunk("delta", n + 1, "none")), m, n + 1)
    <3>1. n + 1 \in Nat /\ m <= n + 1 /\ n + 1 \in 1..n + 1
      BY <1>2
    <3> QED BY <3>1, <2>6, TellsOfBlock
  <2>8. m <= n + 1
    BY <1>2
  <2> QED BY <1>1, <2>2, <2>5, <2>7, <2>8 DEF Translating
<1>4. CASE ~opens
  <2>1. blocks = was.blocks /\ start = <<>>
    BY <1>4
  <2>2. \E i \in DOMAIN was.blocks : was.blocks[i] = what
    BY <1>4, <1>2 DEF Stream!Contains
  <2>3. index \in 1..n
    BY <2>1, <2>2, <1>2
  <2> HIDE DEF index
  <2>4. was.chunks \o start \o delta = Append(was.chunks, Stream!Chunk("delta", index, "none"))
    <3>1. Stream!Chunk("delta", index, "none") \in Chunks
      BY <2>3, StartIs
    <3>2. was.chunks \o <<>> = was.chunks
      BY <3>1, <1>2, AppendIs
    <3> DEFINE b == Stream!Chunk("delta", index, "none")
    <3> HIDE DEF b
    <3>3. was.chunks \o <<b>> = Append(was.chunks, b)
      BY <3>1, <1>2, AppendIs DEF b
    <3> QED BY <3>2, <3>3, <2>1 DEF b
  <2>5. Opening(Append(was.chunks, Stream!Chunk("delta", index, "none")), m, n)
    BY <2>3, <1>2, TellsOfBlock DEF Translating
  <2> QED BY <1>1, <1>2, <2>1, <2>4, <2>5 DEF Translating
<1> QED BY <1>3, <1>4

LEMMA LeastOf ==
  ASSUME NEW T, T \subseteq Nat, T # {}
  PROVE  \E x \in T : \A y \in T : x <= y
<1> DEFINE R == {ss \in Nat \X Nat : ss[1] < ss[2]}
<1>1. IsWellFoundedOn(R, Nat)
  BY NatLessThanWellFounded DEF OpToRel
<1>2. \E x \in T : \A y \in T : ~ (<<y, x>> \in R)
  <2> HIDE DEF R
  <2> QED
    BY <1>1, WFMin
<1>3. PICK x \in T : \A y \in T : ~ (<<y, x>> \in R)
  BY <1>2
<1>4. ASSUME NEW y \in T PROVE x <= y
  <2>1. x \in Nat /\ y \in Nat
    OBVIOUS
  <2>2. y < x => <<y, x>> \in R
    BY <2>1
  <2> QED
    BY <1>3, <2>1, <2>2
<1> QED
  BY <1>4

\* There is a function for the loop over the kinds of blocks: it is extended one
\* kind after the other.
IsLoop(f, n, t, delta) ==
  f = [i \in 0..n |->
         IF i = 0 THEN [blocks |-> t.blocks, chunks |-> <<>>]
         ELSE IF Kinds[i] \in delta.adds THEN Stream!AddTo(f[i - 1], Kinds[i]) ELSE f[i - 1]]

LEMMA LoopExists ==
  ASSUME NEW t, NEW delta, NEW n \in Nat
  PROVE  \E f : IsLoop(f, n, t, delta)
<1> DEFINE P(k) == \E f : IsLoop(f, k, t, delta)
<1>1. P(0)
  <2> DEFINE f == [i \in 0..0 |-> [blocks |-> t.blocks, chunks |-> <<>>]]
  <2>1. IsLoop(f, 0, t, delta)
    BY DEF IsLoop
  <2> QED BY <2>1
<1>2. ASSUME NEW k \in Nat, P(k) PROVE P(k + 1)
  <2>1. PICK f : IsLoop(f, k, t, delta)
    BY <1>2
  <2> DEFINE last == IF Kinds[k + 1] \in delta.adds THEN Stream!AddTo(f[k], Kinds[k + 1]) ELSE f[k]
             g == [i \in 0..k + 1 |-> IF i = k + 1 THEN last ELSE f[i]]
  <2>2. /\ DOMAIN f = 0..k
        /\ f[0] = [blocks |-> t.blocks, chunks |-> <<>>]
        /\ \A i \in 1..k : f[i] = IF Kinds[i] \in delta.adds THEN Stream!AddTo(f[i - 1], Kinds[i])
                                  ELSE f[i - 1]
    BY <2>1 DEF IsLoop
  <2>3. g[0] = f[0] /\ (\A i \in 0..k : g[i] = f[i]) /\ g[k + 1] = last
    OBVIOUS
  <2>4. ASSUME NEW i \in 0..k + 1
        PROVE g[i] = IF i = 0 THEN [blocks |-> t.blocks, chunks |-> <<>>]
                     ELSE IF Kinds[i] \in delta.adds THEN Stream!AddTo(g[i - 1], Kinds[i])
                     ELSE g[i - 1]
    <3> HIDE DEF g
    <3>1. CASE i = 0
      BY <3>1, <2>2, <2>3
    <3>2. CASE i \in 1..k
      <4>1. i - 1 \in 0..k /\ i \in 0..k /\ i # 0
        BY <3>2
      <4> QED BY <4>1, <3>2, <2>2, <2>3
    <3>3. CASE i = k + 1
      <4>1. i - 1 = k /\ k \in 0..k /\ i # 0
        BY <3>3
      <4> QED BY <4>1, <3>3, <2>3
    <3> QED BY <3>1, <3>2, <3>3
  <2>5. IsLoop(g, k + 1, t, delta)
    BY <2>4 DEF IsLoop
  <2> QED BY <2>5
<1> HIDE DEF P
<1>3. \A k \in Nat : P(k)
  <2> DEFINE B == {k \in Nat : ~P(k)}
  <2>1. SUFFICES ASSUME B # {} PROVE FALSE
    OBVIOUS
  <2>2. PICK x \in B : \A y \in B : x <= y
    BY <2>1, LeastOf
  <2>3. x # 0 /\ x - 1 \in Nat /\ ~(x <= x - 1) /\ (x - 1) + 1 = x
    BY <1>1
  <2>4. P(x - 1)
    BY <2>2, <2>3
  <2> QED BY <2>3, <2>4, <1>2
<1> QED BY <1>3 DEF P
\* What the loop keeps, to its end.
LEMMA Translates ==
  ASSUME NEW t, NEW delta, t.blocks \in Seq(STRING)
  PROVE  Translating(Stream!Translated(t, delta), Len(t.blocks))
<1> DEFINE after == CHOOSE f : IsLoop(f, Len(Kinds), t, delta)
           m == Len(t.blocks)
<1>1. Len(Kinds) \in Nat /\ (\A i \in 1..Len(Kinds) : Kinds[i] \in STRING) /\ m \in Nat
  BY WaitsAssumption
<1>2. Stream!Translated(t, delta) = after[Len(Kinds)]
  BY DEF Stream!Translated, IsLoop
<1>3. IsLoop(after, Len(Kinds), t, delta)
  BY <1>1, LoopExists
<1> HIDE DEF after
<1>4. /\ after[0] = [blocks |-> t.blocks, chunks |-> <<>>]
      /\ \A i \in 1..Len(Kinds) :
           after[i] = IF Kinds[i] \in delta.adds THEN Stream!AddTo(after[i - 1], Kinds[i])
                      ELSE after[i - 1]
  <2>1. 0 \in 0..Len(Kinds) /\ \A i \in 1..Len(Kinds) : i \in 0..Len(Kinds) /\ i # 0
    BY <1>1
  <2> QED BY <1>3, <2>1 DEF IsLoop
<1>5. Translating(after[0], m)
  <2>1. after[0].blocks = t.blocks /\ after[0].chunks = <<>>
    BY <1>4
  <2>2. Opening(<<>>, m, m)
    <3>1. <<>> \in Seq(Chunks) /\ 1..Len(<<>>) = {} /\ m + 1..m = {}
      BY <1>1
    <3> QED BY <3>1 DEF Opening
  <2> QED BY <2>1, <2>2, <1>1 DEF Translating
<1>6. ASSUME NEW i \in 1..Len(Kinds), Translating(after[i - 1], m) PROVE Translating(after[i], m)
  <2>1. Kinds[i] \in STRING
    BY <1>1
  <2>2. Translating(Stream!AddTo(after[i - 1], Kinds[i]), m)
    BY <1>1, <1>6, <2>1, AddsTo
  <2> QED BY <1>4, <1>6, <2>2
<1>7. Translating(after[Len(Kinds)], m)
  <2> DEFINE B == {i \in 0..Len(Kinds) : ~Translating(after[i], m)}
  <2>1. SUFFICES ASSUME B # {} PROVE FALSE
    BY <1>1
  <2>2. PICK x \in B : \A y \in B : x <= y
    <3>1. B \subseteq Nat
      BY <1>1
    <3> HIDE DEF B
    <3> QED BY <2>1, <3>1, LeastOf
  <2>3. x # 0 /\ x \in 1..Len(Kinds) /\ x - 1 \in 0..Len(Kinds) /\ ~(x <= x - 1)
    BY <1>1, <1>5
  <2>4. Translating(after[x - 1], m)
    BY <2>2, <2>3
  <2> QED BY <2>3, <2>4, <1>6
<1> QED BY <1>2, <1>7

\* A validator in the middle of a stream of n blocks.
Midway(v, n) == v \in Validators /\ v.open = 1..n /\ v.seen = 1..n /\ ~v.usage /\ ~v.finished

LEMMA AcceptsOpening ==
  ASSUME NEW m \in Nat, NEW n \in Nat, m <= n, NEW v, Midway(v, m), NEW s, Opening(s, m, n),
         v.count + Len(s) < MaxChunks
  PROVE  /\ Stream!AcceptsAll(v, s) /\ Midway(Stream!Accepted(v, s), n)
         /\ Stream!Accepted(v, s).count = v.count + Len(s)
<1>1. /\ s \in Seq(Chunks) /\ Len(s) \in Nat /\ v.count \in Nat /\ MaxChunks \in Nat
      /\ \A j \in 1..Len(s) :
           s[j] \in Chunks /\ s[j].kind \in {"start", "delta"} /\ s[j].block \in 1..n
  BY WaitsAssumption DEF Opening, Midway, Validators
<1>2. /\ \A j \in 1..Len(s) : s[j].kind = "start" =>
           s[j].block > m /\ \A k \in 1..j - 1 : s[k].kind = "start" => s[k].block # s[j].block
      /\ \A j \in 1..Len(s) : s[j].kind = "delta" =>
           s[j].block <= m \/ \E k \in 1..j - 1 : s[k].kind = "start" /\ s[k].block = s[j].block
      /\ \A b \in m + 1..n : \E j \in 1..Len(s) : s[j].kind = "start" /\ s[j].block = b
  BY DEF Opening
<1>3. ASSUME NEW k \in 0..Len(s)
      PROVE  /\ Told(s, k, "end") = {}
             /\ \A j \in 1..k : s[j].kind # "usage" /\ s[j].kind # "finish"
             /\ AcceptedTo(v, s, k).open = 1..m \cup Told(s, k, "start")
             /\ AcceptedTo(v, s, k).seen = 1..m \cup Told(s, k, "start")
             /\ ~AcceptedTo(v, s, k).usage /\ ~AcceptedTo(v, s, k).finished
             /\ AcceptedTo(v, s, k).count = v.count + k
  <2>1. \A j \in 1..k : j \in 1..Len(s)
    BY <1>1
  <2>2. \A j \in 1..k : s[j].kind # "end" /\ s[j].kind # "usage" /\ s[j].kind # "finish"
    BY <1>1, <2>1
  <2>3. Told(s, k, "end") = {}
    BY <2>2 DEF Told
  <2> QED BY <2>2, <2>3 DEF AcceptedTo, Midway
<1>4. ASSUME NEW j \in 1..Len(s) PROVE Stream!Accepts(AcceptedTo(v, s, j - 1), s[j])
  <2> DEFINE w == AcceptedTo(v, s, j - 1)
             c == s[j]
  <2>1. j - 1 \in 0..Len(s)
    BY <1>1
  <2>2. /\ w.open = 1..m \cup Told(s, j - 1, "start") /\ w.seen = 1..m \cup Told(s, j - 1, "start")
        /\ ~w.usage /\ ~w.finished /\ w.count = v.count + (j - 1)
    BY <2>1, <1>3
  <2>3. c.kind \in {"start", "delta"} /\ c.block \in 1..n
    BY <1>1
  <2>4. c.kind = "start" => c.block \notin w.seen
    <3>1. ASSUME c.kind = "start"
          PROVE  c.block \notin 1..m /\ c.block \notin Told(s, j - 1, "start")
      <4>1. c.block > m /\ \A k \in 1..j - 1 : s[k].kind = "start" => s[k].block # c.block
        BY <1>2, <3>1
      <4>2. c.block \notin 1..m
        BY <4>1, <2>3
      <4>3. c.block \notin Told(s, j - 1, "start")
        BY <4>1 DEF Told
      <4> QED BY <4>2, <4>3
    <3> QED BY <3>1, <2>2
  <2>5. c.kind = "delta" => c.block \in w.open
    <3>1. ASSUME c.kind = "delta"
          PROVE  c.block \in 1..m \/ c.block \in Told(s, j - 1, "start")
      <4>1. c.block <= m \/ \E k \in 1..j - 1 : s[k].kind = "start" /\ s[k].block = c.block
        BY <1>2, <3>1
      <4>2. CASE c.block <= m
        BY <4>2, <2>3
      <4>3. CASE \E k \in 1..j - 1 : s[k].kind = "start" /\ s[k].block = c.block
        BY <4>3 DEF Told
      <4> QED BY <4>1, <4>2, <4>3
    <3> QED BY <3>1, <2>2
  <2>6. w.count < MaxChunks /\ w.count + 1 # MaxChunks
    BY <1>1, <2>2
  <2> HIDE DEF w, c
  <2>7. Stream!Accepts(w, c)
    BY <2>2, <2>3, <2>4, <2>5, <2>6 DEF Stream!Accepts
  <2> QED BY <2>7 DEF w, c
<1>5. Stream!AcceptsAll(v, s)
  BY <1>1, <1>4, AcceptsEach
<1> DEFINE w == Stream!Accepted(v, s)
<1>6. w = AcceptedTo(v, s, Len(s))
  BY <1>1, WholeIs
<1>7. Told(s, Len(s), "start") = m + 1..n
  <2>1. ASSUME NEW j \in 1..Len(s), s[j].kind = "start" PROVE s[j].block \in m + 1..n
    BY <1>1, <1>2, <2>1
  <2>2. ASSUME NEW b \in m + 1..n PROVE \E j \in 1..Len(s) : s[j].kind = "start" /\ s[j].block = b
    BY <1>2
  <2> QED BY <2>1, <2>2 DEF Told
<1>8. 1..m \cup m + 1..n = 1..n
  OBVIOUS
<1>9. w.open = 1..n /\ w.seen = 1..n /\ ~w.usage /\ ~w.finished /\ w.count = v.count + Len(s)
  <2>1. Len(s) \in 0..Len(s)
    BY <1>1
  <2> QED BY <2>1, <1>3, <1>6, <1>7, <1>8
<1>10. w \in Validators
  <2>1. w = [open |-> w.open, seen |-> w.seen, usage |-> w.usage, finished |-> w.finished,
             count |-> w.count]
    BY <1>6 DEF AcceptedTo
  <2>2. w.usage \in BOOLEAN /\ w.finished \in BOOLEAN
    BY <1>6 DEF AcceptedTo
  <2>3. 1..n \in SUBSET Nat /\ v.count + Len(s) \in Nat
    BY <1>1
  <2> HIDE DEF w
  <2> QED BY <2>1, <2>2, <2>3, <1>9 DEF Validators
<1> QED BY <1>5, <1>9, <1>10 DEF Midway

-----------------------------------------------------------------------------
\* The end of a stream of n blocks, with the usage or without it.
Ending(s, n, u) ==
  /\ s \in Seq(Chunks) /\ Len(s) = n + (IF u THEN 2 ELSE 1)
  /\ \A j \in 1..n : s[j].kind = "end" /\ s[j].block = j
  /\ u => s[n + 1].kind = "usage"
  /\ s[Len(s)].kind = "finish"

\* The last chunks of an answer.
LEMMA FinalsAre ==
  ASSUME NEW t, t.blocks \in Seq(STRING), t.usage \in BOOLEAN,
         Stream!MapFinishReason(t) # "malformed"
  PROVE  LET s == Stream!FinalChunks(t) IN
         Ending(s, Len(t.blocks), t.usage) /\ s[Len(s)].reason \in {"stop", "length", "error"}
<1> DEFINE n == Len(t.blocks)
           ends == [i \in 1..n |-> Stream!Chunk("end", i, "none")]
           usage == Stream!Chunk("usage", 0, "none")
           reason == Stream!MapFinishReason(t)
           finish == Stream!Chunk("finish", 0, reason)
           s == Stream!FinalChunks(t)
<1>1. n \in Nat
  OBVIOUS
<1>2. reason \in {"stop", "length", "error"}
  BY DEF Stream!MapFinishReason
<1>3. /\ ends \in Seq(Chunks) /\ Len(ends) = n
      /\ \A j \in 1..n : ends[j].kind = "end" /\ ends[j].block = j
  BY <1>1 DEF Stream!Chunk, Chunks, Reasons
<1>4. usage \in Chunks /\ usage.kind = "usage"
  BY DEF Stream!Chunk, Chunks, Reasons
<1>5. finish \in Chunks /\ finish.kind = "finish" /\ finish.reason = reason
  <2> HIDE DEF reason
  <2>1. finish = [kind |-> "finish", block |-> 0, reason |-> reason]
    BY DEF Stream!Chunk
  <2>2. reason \in Reasons
    BY <1>2 DEF Reasons, Stream!Successes, Stream!Failures
  <2> QED BY <2>1, <2>2 DEF Chunks
<1>6. s = ends \o (IF t.usage THEN <<usage>> ELSE <<>>) \o <<finish>>
  BY DEF Stream!FinalChunks, Stream!Finish
<1> HIDE DEF ends, usage, finish, s, reason
<1>7. CASE t.usage
  <2> DEFINE q == Append(ends, usage)
  <2>1. /\ q \in Seq(Chunks) /\ Len(q) = n + 1 /\ q[n + 1] = usage /\ ends \o <<usage>> = q
        /\ \A j \in 1..n : q[j] = ends[j]
    BY <1>3, <1>4, AppendIs
  <2> HIDE DEF q
  <2>2. /\ s \in Seq(Chunks) /\ Len(s) = n + 2 /\ s[n + 2] = finish
        /\ \A j \in 1..n + 1 : s[j] = q[j]
    <3>1. s = q \o <<finish>>
      BY <1>6, <1>7, <2>1
    <3>2. /\ q \o <<finish>> \in Seq(Chunks) /\ Len(q \o <<finish>>) = (n + 1) + 1
          /\ (q \o <<finish>>)[(n + 1) + 1] = finish
          /\ \A j \in 1..n + 1 : (q \o <<finish>>)[j] = q[j]
      BY <2>1, <1>5, AppendIs
    <3> QED BY <3>1, <3>2, <1>1
  <2>3. \A j \in 1..n : s[j] = ends[j]
    BY <2>1, <2>2, <1>1
  <2>4. s[n + 1] = usage
    BY <2>1, <2>2, <1>1
  <2>5. s[Len(s)] = finish
    BY <2>2
  <2> QED BY <2>2, <2>3, <2>4, <2>5, <1>2, <1>3, <1>4, <1>5, <1>7 DEF s, Ending
<1>8. CASE ~t.usage
  <2>1. s = Append(ends, finish)
    <3>1. ends \o <<>> = ends /\ ends \o <<finish>> = Append(ends, finish)
      BY <1>3, <1>5, AppendIs
    <3> QED BY <3>1, <1>6, <1>8
  <2>2. /\ s \in Seq(Chunks) /\ Len(s) = n + 1 /\ s[n + 1] = finish
        /\ \A j \in 1..n : s[j] = ends[j]
    BY <2>1, <1>3, <1>5, AppendIs
  <2>3. s[Len(s)] = finish
    BY <2>2
  <2> QED BY <2>2, <2>3, <1>2, <1>3, <1>5, <1>8 DEF s, Ending
<1> QED BY <1>7, <1>8

\* It is accepted of a validator in the middle of the stream, up to the limit.
LEMMA AcceptsEnding ==
  ASSUME NEW n \in Nat, NEW u \in BOOLEAN, NEW s, Ending(s, n, u), NEW v, Midway(v, n),
         v.count + Len(s) <= MaxChunks
  PROVE  /\ Stream!AcceptsAll(v, s)
         /\ Stream!Accepted(v, s).open = {} /\ Stream!Accepted(v, s).seen = 1..n
         /\ Stream!Accepted(v, s).usage = u
<1>1. /\ s \in Seq(Chunks) /\ Len(s) = n + (IF u THEN 2 ELSE 1)
      /\ \A j \in 1..n : s[j].kind = "end" /\ s[j].block = j
      /\ u => s[n + 1].kind = "usage"
      /\ s[Len(s)].kind = "finish" /\ n \in Nat /\ Len(s) \in Nat
  BY DEF Ending
<1>2. v.count \in Nat /\ MaxChunks \in Nat /\ v.count + Len(s) <= MaxChunks
  BY WaitsAssumption DEF Midway, Validators
<1>3. ASSUME NEW j \in 1..Len(s)
      PROVE  j \in 1..n \/ (u /\ j = n + 1 /\ j # Len(s)) \/ j = Len(s)
  <2>1. CASE u
    BY <2>1, <1>1
  <2>2. CASE ~u
    BY <2>2, <1>1
  <2> QED BY <2>1, <2>2
<1>4. ASSUME NEW k \in 0..Len(s)
      PROVE  /\ AcceptedTo(v, s, k).open = 1..n \ Told(s, k, "end")
             /\ AcceptedTo(v, s, k).seen = 1..n
             /\ AcceptedTo(v, s, k).count = v.count + k
             /\ AcceptedTo(v, s, k).usage <=> \E j \in 1..k : s[j].kind = "usage"
             /\ AcceptedTo(v, s, k).finished <=> \E j \in 1..k : s[j].kind = "finish"
  <2>1. \A j \in 1..k : j \in 1..Len(s)
    BY <1>1
  <2>2. \A j \in 1..k : s[j].kind # "start"
    BY <1>1, <1>3, <2>1
  <2>3. Told(s, k, "start") = {}
    BY <2>2 DEF Told
  <2> QED BY <2>3 DEF AcceptedTo, Midway
<1>5. ASSUME NEW j \in 1..Len(s) PROVE Stream!Accepts(AcceptedTo(v, s, j - 1), s[j])
  <2>1. /\ j - 1 \in 0..Len(s) /\ \A k \in 1..j - 1 : k \in 1..Len(s) /\ k # Len(s)
    BY <1>1
  <2>2. ~AcceptedTo(v, s, j - 1).finished
    <3>1. \A k \in 1..j - 1 : s[k].kind # "finish"
      BY <1>1, <1>3, <2>1
    <3> QED BY <3>1, <2>1, <1>4
  <2>3. /\ AcceptedTo(v, s, j - 1).count < MaxChunks
        /\ AcceptedTo(v, s, j - 1).count + 1 = MaxChunks => j = Len(s)
    <3>1. AcceptedTo(v, s, j - 1).count = v.count + (j - 1)
      BY <2>1, <1>4
    <3>2. j \in Nat /\ j <= Len(s) /\ Len(s) \in Nat
      BY <1>1
    <3> QED BY <3>1, <3>2, <1>2
  <2>4. CASE j \in 1..n
    <3>1. s[j].kind = "end" /\ s[j].block = j
      BY <2>4, <1>1
    <3>2. \A k \in 1..j - 1 : k \in 1..n /\ s[k].block = k /\ k # j
      BY <2>4, <1>1
    <3>3. j \notin Told(s, j - 1, "end")
      BY <3>2 DEF Told
    <3>4. j \in AcceptedTo(v, s, j - 1).open
      BY <3>3, <2>1, <2>4, <1>4
    <3> QED BY <1>1, <2>2, <2>3, <3>1, <3>4 DEF Stream!Accepts
  <2>5. CASE u /\ j = n + 1 /\ j # Len(s)
    <3>1. s[j].kind = "usage"
      BY <2>5, <1>1
    <3>2. \A k \in 1..j - 1 : s[k].kind # "usage"
      BY <2>5, <1>1
    <3>3. ~AcceptedTo(v, s, j - 1).usage
      BY <3>2, <2>1, <1>4
    <3> QED BY <2>2, <2>3, <2>5, <3>1, <3>3 DEF Stream!Accepts
  <2>6. CASE j = Len(s)
    <3>1. s[j].kind = "finish"
      BY <2>6, <1>1
    <3>2. \A b \in 1..n : b \in 1..j - 1 /\ s[b].kind = "end" /\ s[b].block = b
      BY <2>6, <1>1
    <3>3. 1..n \subseteq Told(s, j - 1, "end")
      BY <3>2 DEF Told
    <3>4. AcceptedTo(v, s, j - 1).open = {}
      BY <3>3, <2>1, <1>4
    <3> QED BY <2>2, <2>3, <3>1, <3>4 DEF Stream!Accepts
  <2> QED BY <2>4, <2>5, <2>6, <1>3
<1>6. Stream!AcceptsAll(v, s)
  BY <1>1, <1>5, AcceptsEach
<1>7. Stream!Accepted(v, s) = AcceptedTo(v, s, Len(s))
  BY <1>1, WholeIs
<1>8. Len(s) \in 0..Len(s) /\ \A b \in 1..n : b \in 1..Len(s)
  BY <1>1
<1>9. 1..n \subseteq Told(s, Len(s), "end")
  BY <1>1, <1>8 DEF Told
<1>10. AcceptedTo(v, s, Len(s)).open = {} /\ AcceptedTo(v, s, Len(s)).seen = 1..n
  BY <1>4, <1>8, <1>9
<1>11. AcceptedTo(v, s, Len(s)).usage = u
  <2>1. (\E j \in 1..Len(s) : s[j].kind = "usage") <=> u
    <3>1. CASE u
      <4>1. n + 1 \in 1..Len(s)
        BY <3>1, <1>1
      <4> QED BY <3>1, <4>1, <1>1
    <3>2. CASE ~u
      BY <3>2, <1>1, <1>3
    <3> QED BY <3>1, <3>2
  <2>2. AcceptedTo(v, s, Len(s)).usage \in BOOLEAN
    BY DEF AcceptedTo
  <2>3. AcceptedTo(v, s, Len(s)).usage <=> u
    BY <2>1, <1>4, <1>8
  <2> QED BY <2>2, <2>3
<1> QED BY <1>6, <1>7, <1>10, <1>11

LEMMA AcceptsFinals ==
  ASSUME NEW t, t.blocks \in Seq(STRING), t.usage \in BOOLEAN,
         Stream!MapFinishReason(t) # "malformed", NEW v, Midway(v, Len(t.blocks)),
         v.count + Len(Stream!FinalChunks(t)) <= MaxChunks
  PROVE  LET s == Stream!FinalChunks(t)
             w == Stream!Accepted(v, s)
         IN  /\ Stream!AcceptsAll(v, s)
             /\ w.open = {} /\ w.seen = 1..Len(t.blocks) /\ w.usage = t.usage
<1>1. Ending(Stream!FinalChunks(t), Len(t.blocks), t.usage) /\ Len(t.blocks) \in Nat
  BY FinalsAre
<1> QED BY <1>1, AcceptsEnding
-----------------------------------------------------------------------------
\* The reasons that an event announces.
Announced == {"none", "stop", "length", "odd", "bad"}

\* The validator when all that is queued is delivered.
Queued == Stream!Accepted(validator, pending)

StreamTyped ==
  /\ phase \in {"start", "sending", "error body", "reading", "waiting", "done"}
  /\ reader \in [items : Seq(Stream!Items), failed : BOOLEAN, reads : Nat]
  /\ translator \in [blocks : Seq(STRING), finish : Announced, usage : BOOLEAN]
  /\ validator \in Validators /\ validator.open \subseteq validator.seen
  /\ pending \in Seq(Chunks) /\ said \in {"none"} \cup Stream!Successes \cup Stream!Failures

\* No [DONE] is decoded of a body that fails.
DoneFits == \A i \in 1..Len(reader.items) : reader.items[i].tag = "done" => ~reader.failed

\* While the stream goes on its blocks are open, and a finish has room.
Flowing ==
  phase # "done" =>
    /\ said = "none" /\ Midway(Queued, Len(translator.blocks)) /\ Queued.count < MaxChunks
    /\ phase # "reading" => pending = <<>>

\* A validator that saw the whole of an answer that was received as a whole.
Complete(v) ==
  /\ v.open = {} /\ v.seen = 1..Len(translator.blocks) /\ v.usage = translator.usage
  /\ ~reader.failed

\* A stream that is over has its finish at the end of the queue, or told it.
Finishing ==
  phase = "done" /\ said = "none" =>
    /\ pending # <<>>
    /\ pending[Len(pending)].kind = "finish"
    /\ pending[Len(pending)].reason \in {"stop", "length", "error"}
    /\ pending[Len(pending)].reason \in Stream!Successes => Complete(Queued)

Finished ==
  said # "none" =>
    /\ phase = "done" /\ pending = <<>> /\ validator.finished
    /\ said \in Stream!Successes => Complete(validator)
    /\ said = "aborted" => withdrawn

StreamInv ==
  /\ StreamTyped /\ DoneFits /\ Stream!AcceptsAll(validator, pending)
  /\ Flowing /\ Finishing /\ Finished

LEMMA StreamTells == StreamInv => Stream!StreamIsWhole
<1> SUFFICES ASSUME StreamInv PROVE Stream!StreamIsWhole
  OBVIOUS
<1>1. said # "broken"
  BY DEF StreamInv, StreamTyped, Stream!Successes, Stream!Failures
<1>2. phase = "done" /\ pending = <<>> => said # "none"
  BY DEF StreamInv, Finishing
<1>3. said \in Stream!Successes => said # "none"
  BY DEF Stream!Successes
<1>4. said = "aborted" => said # "none"
  OBVIOUS
<1> QED BY <1>1, <1>2, <1>3, <1>4 DEF StreamInv, Finished, Complete, Stream!StreamIsWhole

LEMMA AcceptsNone ==
  ASSUME NEW v \in Validators
  PROVE  Stream!AcceptsAll(v, <<>>) /\ Stream!Accepted(v, <<>>) = v
<1>1. <<>> \in Seq(Chunks) /\ Len(<<>>) = 0 /\ 1..0 = {}
  OBVIOUS
<1>2. Stream!AcceptsAll(v, <<>>)
  BY <1>1, AcceptsEach
<1>3. Stream!Accepted(v, <<>>) = AcceptedTo(v, <<>>, 0)
  BY <1>1, WholeIs
<1> QED BY <1>2, <1>3, NoneIs

LEMMA StreamStarts == Stream!Init => StreamInv
<1> SUFFICES ASSUME Stream!Init PROVE StreamInv
  OBVIOUS
<1>1. validator = [open |-> {}, seen |-> {}, usage |-> FALSE, finished |-> FALSE, count |-> 0]
  BY DEF Stream!Init, Stream!NewValidator
<1>2. validator \in Validators /\ validator.open \subseteq validator.seen
  BY <1>1 DEF Validators
<1>3. phase = "start" /\ pending = <<>> /\ said = "none"
  BY DEF Stream!Init
<1>4. Stream!AcceptsAll(validator, pending) /\ Queued = validator
  BY <1>2, <1>3, AcceptsNone DEF Queued
<1>5. /\ translator \in [blocks : Seq(STRING), finish : Announced, usage : BOOLEAN]
      /\ translator.blocks = <<>>
  <2>1. <<>> \in Seq(STRING) /\ "none" \in Announced
    BY DEF Announced
  <2>2. translator = [blocks |-> <<>>, finish |-> "none", usage |-> FALSE]
    BY DEF Stream!Init
  <2> QED BY <2>1, <2>2
<1>6. reader \in [items : Seq(Stream!Items), failed : BOOLEAN, reads : Nat] /\ reader.items = <<>>
  BY DEF Stream!Init
<1>7. StreamTyped /\ DoneFits
  BY <1>2, <1>3, <1>5, <1>6 DEF StreamTyped, DoneFits
<1>8. Len(translator.blocks) = 0 /\ 1..0 = {} /\ 0 < MaxChunks
  BY <1>5, WaitsAssumption
<1>9. Flowing
  BY <1>1, <1>2, <1>3, <1>4, <1>8 DEF Flowing, Midway
<1> QED BY <1>3, <1>4, <1>7, <1>9 DEF StreamInv, Finishing, Finished

\* Until a finish was told, one can be.
LEMMA RoomIsKept ==
  ASSUME StreamInv, said = "none"
  PROVE  ~validator.finished /\ validator.count < MaxChunks
<1>1. validator \in Validators /\ pending \in Seq(Chunks) /\ Len(pending) \in Nat
      /\ validator.count \in Nat /\ MaxChunks \in Nat
  <2>1. validator \in Validators /\ pending \in Seq(Chunks)
    BY DEF StreamInv, StreamTyped
  <2>2. validator.count \in Nat
    BY <2>1 DEF Validators
  <2> QED BY <2>1, <2>2, WaitsAssumption
<1>2. CASE phase # "done"
  <2>1. Queued = AcceptedTo(validator, pending, Len(pending))
    BY <1>1, WholeIs DEF Queued
  <2>2. Queued.count = validator.count + Len(pending) /\ (validator.finished => Queued.finished)
    BY <2>1 DEF AcceptedTo
  <2>3. ~Queued.finished /\ Queued.count < MaxChunks
    BY <1>2 DEF StreamInv, Flowing, Midway
  <2> QED BY <1>1, <2>2, <2>3
<1>3. CASE phase = "done"
  <2>1. pending # <<>> /\ Stream!AcceptsAll(validator, pending)
    BY <1>3 DEF StreamInv, Finishing
  <2>2. Stream!Accepts(validator, Head(pending))
    BY <1>1, <2>1, HeadGoes DEF StreamInv, StreamTyped
  <2> QED BY <2>2 DEF Stream!Accepts
<1> QED BY <1>2, <1>3

LEMMA FinishIs ==
  ASSUME NEW reason \in Reasons
  PROVE  /\ Stream!Finish(reason) \in Chunks
         /\ Stream!Finish(reason).kind = "finish" /\ Stream!Finish(reason).reason = reason
  BY DEF Stream!Finish, Stream!Chunk, Chunks

LEMMA AcceptsFailure ==
  ASSUME StreamInv, said = "none", NEW reason \in Stream!Failures
  PROVE  Stream!Accepts(validator, Stream!Finish(reason))
<1>1. reason \in Reasons
  BY DEF Reasons
<1>2. Stream!Finish(reason).kind = "finish" /\ Stream!Finish(reason).reason = reason
  BY <1>1, FinishIs
<1> QED BY <1>2, RoomIsKept DEF Stream!Accepts

\* A failure that is told at once.
LEMMA FailsAtOnce ==
  ASSUME StreamInv, said = "none", NEW reason \in Stream!Failures, Stream!FinishWith(reason),
         pending' = <<>>, reason = "aborted" => withdrawn', UNCHANGED translator,
         reader' \in [items : Seq(Stream!Items), failed : BOOLEAN, reads : Nat], DoneFits'
  PROVE  StreamInv'
<1> DEFINE c == Stream!Finish(reason)
<1>1. c \in Chunks /\ c.kind = "finish" /\ c.reason = reason
  BY FinishIs DEF Reasons
<1>2. Stream!Accepts(validator, c)
  BY AcceptsFailure
<1> HIDE DEF c
<1>3. phase' = "done" /\ validator' = Stream!Accepted(validator, <<c>>) /\ said' = reason
  BY <1>1, <1>2 DEF Stream!FinishWith, Stream!Deliver, c
<1>4. validator' = AcceptedOne(validator, c)
  BY <1>1, <1>3, OneIs
<1>5. validator \in Validators /\ validator.open \subseteq validator.seen
      /\ translator \in [blocks : Seq(STRING), finish : Announced, usage : BOOLEAN]
  BY DEF StreamInv, StreamTyped
<1>6. validator' \in Validators /\ validator'.open \subseteq validator'.seen
  BY <1>1, <1>4, <1>5, OneKeeps
<1>7. validator'.finished
  BY <1>1, <1>4 DEF AcceptedOne
<1>8. Stream!AcceptsAll(validator', pending')
  BY <1>6, AcceptsNone
<1>9. reason \notin Stream!Successes /\ reason # "none"
  BY DEF Stream!Successes, Stream!Failures
<1>10. StreamTyped'
  BY <1>3, <1>5, <1>6 DEF StreamTyped
<1> QED BY <1>3, <1>7, <1>8, <1>9, <1>10 DEF StreamInv, Flowing, Finishing, Finished

\* A step that takes nothing of the queue and queues nothing.
LEMMA Stalls ==
  ASSUME StreamInv, UNCHANGED <<translator, pending, validator, said>>,
         \/ phase' = phase
         \/ /\ phase # "done" /\ pending = <<>>
            /\ phase' \in {"sending", "error body", "reading", "waiting"},
         withdrawn => withdrawn',
         reader' \in [items : Seq(Stream!Items), failed : BOOLEAN, reads : Nat], DoneFits',
         phase = "done" => reader'.failed = reader.failed
  PROVE  StreamInv'
<1>1. Queued' = Queued
  BY DEF Queued
<1>2. StreamTyped'
  BY DEF StreamInv, StreamTyped
<1>3. Flowing'
  BY <1>1 DEF StreamInv, Flowing
<1>4. phase = "done" => phase' = "done" /\ (\A v : Complete(v) => Complete(v)')
  BY DEF Complete
<1>5. phase # "done" => phase' # "done" /\ said = "none"
  BY DEF StreamInv, Flowing
<1>6. Finishing'
  BY <1>1, <1>4, <1>5 DEF StreamInv, Finishing, Complete
<1>7. Finished'
  BY <1>4, <1>5 DEF StreamInv, Finished, Complete
<1> QED BY <1>2, <1>3, <1>6, <1>7 DEF StreamInv

LEMMA ReadsOn ==
  ASSUME StreamInv, reader.items # <<>>, reader' = [reader EXCEPT !.items = Tail(@)]
  PROVE  /\ reader' \in [items : Seq(Stream!Items), failed : BOOLEAN, reads : Nat]
         /\ DoneFits' /\ reader'.failed = reader.failed
         /\ Head(reader.items) \in Stream!Items
         /\ Head(reader.items).tag = "done" => ~reader.failed
<1>1. reader \in [items : Seq(Stream!Items), failed : BOOLEAN, reads : Nat] /\ DoneFits
  BY DEF StreamInv, StreamTyped
<1>2. reader'.items = Tail(reader.items) /\ reader'.failed = reader.failed
      /\ reader.items \in Seq(Stream!Items)
  BY <1>1
<1>3. reader' \in [items : Seq(Stream!Items), failed : BOOLEAN, reads : Nat]
  <2>1. Tail(reader.items) \in Seq(Stream!Items)
    BY <1>2
  <2> QED BY <1>1, <2>1
<1>4. Len(reader'.items) = Len(reader.items) - 1 /\ Len(reader.items) \in Nat \ {0}
      /\ \A i \in 1..Len(reader.items) - 1 : reader'.items[i] = reader.items[i + 1]
  BY <1>2
<1>5. DoneFits'
  <2>1. ASSUME NEW i \in 1..Len(reader'.items), reader'.items[i].tag = "done" PROVE ~reader'.failed
    <3>1. i + 1 \in 1..Len(reader.items) /\ reader.items[i + 1].tag = "done"
      BY <1>4, <2>1
    <3> QED BY <1>1, <1>2, <3>1 DEF DoneFits
  <2> QED BY <2>1 DEF DoneFits
<1>6. Head(reader.items) = reader.items[1] /\ 1 \in 1..Len(reader.items)
  BY <1>2, <1>4
<1>7. Head(reader.items) \in Stream!Items
  BY <1>2, <1>6
<1>8. Head(reader.items).tag = "done" => ~reader.failed
  <2>1. \A i \in 1..Len(reader.items) : reader.items[i].tag = "done" => ~reader.failed
    BY <1>1 DEF DoneFits
  <2>2. reader.items[1].tag = "done" => ~reader.failed
    BY <2>1, <1>6
  <2> QED BY <2>2, <1>6
<1> QED BY <1>2, <1>3, <1>5, <1>7, <1>8

LEMMA WaitsEmpty == StreamInv /\ Stream!Waits => said = "none" /\ pending = <<>> /\ phase # "done"
  BY DEF StreamInv, Stream!Waits, Flowing

LEMMA ReaderStays ==
  ASSUME StreamInv, UNCHANGED reader
  PROVE  reader' \in [items : Seq(Stream!Items), failed : BOOLEAN, reads : Nat] /\ DoneFits'
  BY DEF StreamInv, StreamTyped, DoneFits

LEMMA HeadTailAre ==
  ASSUME NEW S, NEW q \in Seq(S), q # <<>>
  PROVE  /\ Head(q) \in S /\ Head(q) = q[1] /\ Tail(q) \in Seq(S) /\ Len(Tail(q)) = Len(q) - 1
         /\ Len(q) \in Nat \ {0} /\ \A i \in 1..Len(Tail(q)) : Tail(q)[i] = q[i + 1]
         /\ Tail(q) = <<>> <=> Len(q) = 1
<1>1. /\ Head(q) \in S /\ Head(q) = q[1] /\ Tail(q) \in Seq(S) /\ Len(Tail(q)) = Len(q) - 1
      /\ Len(q) \in Nat \ {0} /\ \A i \in 1..Len(Tail(q)) : Tail(q)[i] = q[i + 1]
  OBVIOUS
<1>2. ASSUME NEW p \in Seq(S) PROVE p = <<>> <=> Len(p) = 0
  OBVIOUS
<1>3. Tail(q) = <<>> <=> Len(Tail(q)) = 0
  BY <1>1, <1>2
<1> QED BY <1>1, <1>3

LEMMA StreamYields == StreamInv /\ Stream!Yield => StreamInv'
<1> SUFFICES ASSUME StreamInv, Stream!Yield PROVE StreamInv'
  OBVIOUS
<1> DEFINE h == Head(pending)
           t == Tail(pending)
           w == Stream!Accepted(validator, <<h>>)
<1>1. /\ validator \in Validators /\ validator.open \subseteq validator.seen
      /\ pending \in Seq(Chunks) /\ pending # <<>> /\ Stream!AcceptsAll(validator, pending)
  BY DEF StreamInv, StreamTyped, Stream!Yield
<1>2. /\ Stream!Accepts(validator, h) /\ w \in Validators /\ w.open \subseteq w.seen
      /\ Stream!AcceptsAll(w, t) /\ Stream!Accepted(w, t) = Queued
  BY <1>1, HeadGoes DEF Queued
<1>3. /\ validator' = w /\ pending' = t /\ phase' = phase
      /\ said' = IF h.kind = "finish" THEN h.reason ELSE said
      /\ UNCHANGED <<translator, reader, withdrawn>>
  BY <1>2 DEF Stream!Yield, Stream!Deliver
<1>4. said = "none"
  BY <1>1 DEF StreamInv, Finished
<1>5. h \in Chunks /\ h = pending[1] /\ t \in Seq(Chunks) /\ Len(t) = Len(pending) - 1
      /\ Len(pending) \in Nat \ {0} /\ (\A i \in 1..Len(t) : t[i] = pending[i + 1])
      /\ (t = <<>> <=> Len(pending) = 1)
  BY <1>1, HeadTailAre
<1>6. w = AcceptedOne(validator, h)
  BY <1>5, OneIs
<1> HIDE DEF h, t, w
<1>7. Queued' = Queued
  BY <1>2, <1>3 DEF Queued
<1>8. CASE h.kind = "finish"
  \* nothing is accepted behind a finish
  <2>1. w.finished
    BY <1>6, <1>8 DEF AcceptedOne
  <2>2. t = <<>>
    <3>1. SUFFICES ASSUME t # <<>> PROVE FALSE
      OBVIOUS
    <3>2. Stream!Accepts(w, Head(t))
      BY <1>2, <1>5, <3>1, HeadGoes
    <3> QED BY <2>1, <3>2 DEF Stream!Accepts
  <2>3. Queued = w
    BY <1>2, <2>2, AcceptsNone
  <2>4. phase = "done"
    BY <2>1, <2>3 DEF StreamInv, Flowing, Midway
  <2>5. /\ h.reason \in {"stop", "length", "error"}
        /\ h.reason \in Stream!Successes => Complete(w)
    BY <1>4, <1>5, <2>2, <2>3, <2>4 DEF StreamInv, Finishing
  <2>6. said' = h.reason
    BY <1>3, <1>8
  <2>7. StreamTyped'
    BY <1>2, <1>3, <1>5, <2>5, <2>6 DEF StreamInv, StreamTyped, Stream!Successes, Stream!Failures
  <2>8. Finished'
    BY <1>3, <2>1, <2>2, <2>4, <2>5, <2>6 DEF Finished, Complete
  <2>9. DoneFits' /\ Flowing' /\ Finishing' /\ Stream!AcceptsAll(validator', pending')
    BY <1>2, <1>3, <2>4, <2>5, <2>6 DEF StreamInv, DoneFits, Flowing, Finishing
  <2> QED BY <2>7, <2>8, <2>9 DEF StreamInv
<1>9. CASE h.kind # "finish"
  <2>1. said' = "none"
    BY <1>3, <1>4, <1>9
  <2>2. StreamTyped' /\ DoneFits'
    BY <1>2, <1>3, <1>4, <1>5, <2>1 DEF StreamInv, StreamTyped, DoneFits
  <2>3. phase # "done" => phase = "reading"
    BY <1>1 DEF StreamInv, Flowing
  <2>4. Flowing'
    BY <1>3, <1>7, <2>1, <2>3 DEF StreamInv, Flowing
  <2>5. Finishing'
    <3>1. CASE phase = "done"
      <4>1. pending[Len(pending)].kind = "finish"
        BY <1>4, <3>1 DEF StreamInv, Finishing
      <4>2. Len(pending) # 1
        BY <4>1, <1>5, <1>9
      <4>3. t # <<>> /\ t[Len(t)] = pending[Len(pending)]
        BY <4>2, <1>5
      <4> QED BY <1>3, <1>4, <1>7, <3>1, <4>3 DEF StreamInv, Finishing, Complete
    <3> QED BY <3>1, <1>3 DEF Finishing
  <2>6. Finished'
    BY <2>1 DEF Finished
  <2> QED BY <1>2, <1>3, <2>2, <2>4, <2>5, <2>6 DEF StreamInv
<1> QED BY <1>8, <1>9

\* What is queued instead of chunks that have no room.
LEMMA GivesUp ==
  ASSUME StreamInv, said = "none", pending = <<>>, NEW chunks, NEW then,
         Stream!Enqueue(chunks, then), Stream!ExceedsBudget(chunks), UNCHANGED <<validator, said>>,
         reader' \in [items : Seq(Stream!Items), failed : BOOLEAN, reads : Nat], DoneFits',
         translator' \in [blocks : Seq(STRING), finish : Announced, usage : BOOLEAN]
  PROVE  StreamInv'
<1> DEFINE c == Stream!Finish("error")
<1>1. "error" \in Stream!Failures /\ "error" \in Reasons /\ "error" \notin Stream!Successes
  BY DEF Stream!Failures, Stream!Successes, Reasons
<1>2. Stream!Accepts(validator, c) /\ c \in Chunks /\ c.kind = "finish" /\ c.reason = "error"
  BY <1>1, AcceptsFailure, FinishIs
<1>3. phase' = "done" /\ pending' = <<c>>
  BY <1>2 DEF Stream!Enqueue
<1> HIDE DEF c
<1>4. /\ <<c>> \in Seq(Chunks) /\ Len(<<c>>) = 1 /\ <<c>>[1] = c /\ <<c>> # <<>>
      /\ \A i \in 1..Len(<<c>>) : i = 1
  BY <1>2
<1>5. validator \in Validators
  BY DEF StreamInv, StreamTyped
<1>6. Stream!AcceptsAll(validator, <<c>>)
  <2>1. Stream!Accepts(AcceptedTo(validator, <<c>>, 1 - 1), <<c>>[1])
    BY <1>2, <1>4, <1>5, NoneIs
  <2> QED BY <2>1, <1>4, AcceptsEach
<1>7. StreamTyped'
  BY <1>3, <1>4 DEF StreamInv, StreamTyped
<1> QED BY <1>1, <1>2, <1>3, <1>4, <1>6, <1>7 DEF StreamInv, Flowing, Finishing, Finished

LEMMA StreamTakesData == StreamInv /\ Stream!TakeData => StreamInv'
<1> SUFFICES ASSUME StreamInv, Stream!TakeData PROVE StreamInv'
  OBVIOUS
<1> DEFINE item == Head(reader.items)
           t == translator
<1>1. phase = "reading" /\ pending = <<>> /\ said = "none"
  BY DEF Stream!TakeData, Stream!GoesOn, StreamInv, Flowing
<1>2. reader.items # <<>> /\ reader' = [reader EXCEPT !.items = Tail(@)] /\ UNCHANGED withdrawn
  BY DEF Stream!TakeData
<1>3. /\ reader' \in [items : Seq(Stream!Items), failed : BOOLEAN, reads : Nat] /\ DoneFits'
      /\ reader'.failed = reader.failed /\ item \in Stream!Items
      /\ item.tag = "done" => ~reader.failed
  BY <1>2, ReadsOn
<1>4. validator \in Validators /\ Queued = validator
      /\ translator \in [blocks : Seq(STRING), finish : Announced, usage : BOOLEAN]
      /\ validator.open \subseteq validator.seen
  BY <1>1, AcceptsNone DEF StreamInv, StreamTyped, Queued
<1>5. Midway(validator, Len(t.blocks)) /\ t.blocks \in Seq(STRING) /\ t.usage \in BOOLEAN
      /\ Len(t.blocks) \in Nat /\ validator.count \in Nat /\ MaxChunks \in Nat
  BY <1>1, <1>4, WaitsAssumption DEF StreamInv, Flowing, Validators
<1>6. CASE Stream!FinishWith("error") /\ UNCHANGED <<translator, pending>>
  <2>1. "error" \in Stream!Failures
    BY DEF Stream!Failures
  <2> QED BY <1>1, <1>3, <1>6, <2>1, FailsAtOnce
<1>7. CASE /\ item.tag = "delta"
           /\ translator' = [blocks |-> Stream!Grown(t, item),
                             finish |-> IF item.finish = "none" THEN t.finish ELSE item.finish,
                             usage |-> t.usage \/ item.usage]
           /\ Stream!Enqueue(Stream!DeltaChunks(t, item), "reading")
           /\ UNCHANGED <<validator, said>>
  <2> DEFINE s == Stream!DeltaChunks(t, item)
             grown == Stream!Grown(t, item)
             m == Len(t.blocks)
             n == Len(grown)
  <2>1. grown \in Seq(STRING) /\ m <= n /\ Opening(s, m, n)
    BY <1>5, Translates DEF Translating, Stream!Grown, Stream!DeltaChunks
  <2>2. item.finish \in Announced /\ item.usage \in BOOLEAN
    <3>1. item \in Stream!Deltas
      BY <1>3, <1>7 DEF Stream!Items, Stream!Item
    <3>2. PICK adds \in SUBSET Stream!ToSet(Kinds),
               finish \in Announced, usage \in BOOLEAN :
            item = Stream!Item("delta", adds, finish, usage)
      BY <3>1 DEF Stream!Deltas, Announced
    <3>3. item.finish = finish /\ item.usage = usage
      BY <3>2 DEF Stream!Item
    <3> QED BY <3>3
  <2> HIDE DEF s, grown
  <2>3. translator' \in [blocks : Seq(STRING), finish : Announced, usage : BOOLEAN]
        /\ translator'.blocks = grown
    <3>1. (IF item.finish = "none" THEN t.finish ELSE item.finish) \in Announced
      BY <1>4, <2>2
    <3>2. (t.usage \/ item.usage) \in BOOLEAN
      OBVIOUS
    <3>3. translator' = [blocks |-> grown,
                         finish |-> IF item.finish = "none" THEN t.finish ELSE item.finish,
                         usage |-> t.usage \/ item.usage]
      BY <1>7 DEF grown
    <3> QED BY <2>1, <3>1, <3>2, <3>3
  <2>4. Stream!Enqueue(s, "reading")
    BY <1>7 DEF s
  <2>5. CASE Stream!ExceedsBudget(s)
    BY <1>1, <1>3, <1>7, <2>3, <2>4, <2>5, GivesUp
  <2>6. CASE ~Stream!ExceedsBudget(s)
    <3>1. s \in Seq(Chunks) /\ Len(s) \in Nat /\ DOMAIN s = 1..Len(s)
          /\ \A j \in 1..Len(s) : s[j].kind \in {"start", "delta"}
      BY <2>1 DEF Opening
    <3>2. \A c \in Stream!ToSet(s) : c.kind # "finish"
      BY <3>1 DEF Stream!ToSet
    <3>3. validator.count + Len(s) < MaxChunks
      <4>1. ~(validator.count + Len(s) > MaxChunks) /\ validator.count + Len(s) # MaxChunks
        BY <2>6, <3>2 DEF Stream!ExceedsBudget
      <4> QED BY <4>1, <1>5, <3>1
    <3>4. n \in Nat /\ m \in Nat
      BY <2>1, <1>5
    <3>5. /\ Stream!AcceptsAll(validator, s) /\ Midway(Stream!Accepted(validator, s), n)
          /\ Stream!Accepted(validator, s).count = validator.count + Len(s)
      BY <1>5, <2>1, <3>3, <3>4, AcceptsOpening
    <3>6. phase' = "reading" /\ pending' = s
      BY <2>4, <2>6, <3>5 DEF Stream!Enqueue
    <3>7. UNCHANGED <<validator, said>>
      BY <1>7
    <3>8. StreamTyped'
      BY <1>1, <1>3, <1>4, <2>3, <3>1, <3>6, <3>7 DEF StreamTyped
    <3>9. Queued' = Stream!Accepted(validator, s)
      BY <3>6, <3>7 DEF Queued
    <3>10. Flowing'
      BY <1>1, <2>3, <3>3, <3>5, <3>6, <3>7, <3>9 DEF Flowing
    <3>11. Finishing' /\ Finished'
      BY <1>1, <3>6, <3>7 DEF Finishing, Finished
    <3> QED BY <1>3, <3>5, <3>6, <3>7, <3>8, <3>10, <3>11 DEF StreamInv
  <2> QED BY <2>5, <2>6
<1>8. CASE /\ item.tag = "done" /\ Stream!MapFinishReason(t) # "malformed"
           /\ Stream!Enqueue(Stream!FinalChunks(t), "done")
           /\ UNCHANGED <<translator, validator, said>>
  <2> DEFINE s == Stream!FinalChunks(t)
  <2>1. Ending(s, Len(t.blocks), t.usage) /\ s[Len(s)].reason \in {"stop", "length", "error"}
    BY <1>5, <1>8, FinalsAre
  <2>2. validator.count + Len(s) <= MaxChunks =>
          /\ Stream!AcceptsAll(validator, s)
          /\ Stream!Accepted(validator, s).open = {}
          /\ Stream!Accepted(validator, s).seen = 1..Len(t.blocks)
          /\ Stream!Accepted(validator, s).usage = t.usage
    BY <1>5, <1>8, AcceptsFinals
  <2> HIDE DEF s
  <2>3. Stream!Enqueue(s, "done")
    BY <1>8 DEF s
  <2>4. UNCHANGED <<translator, validator, said>>
    BY <1>8
  <2>5. CASE Stream!ExceedsBudget(s)
    BY <1>1, <1>3, <1>4, <2>3, <2>4, <2>5, GivesUp
  <2>6. CASE ~Stream!ExceedsBudget(s)
    <3>1. s \in Seq(Chunks) /\ Len(s) \in Nat \ {0} /\ s[Len(s)].kind = "finish"
      <4>1. s \in Seq(Chunks) /\ s[Len(s)].kind = "finish"
            /\ Len(s) = Len(t.blocks) + (IF t.usage THEN 2 ELSE 1)
        BY <2>1 DEF Ending
      <4>2. Len(s) \in Nat
        <5>1. s \in Seq(Chunks)
          BY <4>1
        <5> HIDE <4>1
        <5> QED BY <5>1
      <4>3. Len(s) # 0
        <5>1. CASE t.usage
          BY <5>1, <4>1, <1>5
        <5>2. CASE ~t.usage
          BY <5>2, <4>1, <1>5
        <5> QED BY <5>1, <5>2
      <4> QED BY <4>1, <4>2, <4>3
    <3>2. validator.count + Len(s) <= MaxChunks
      <4>1. ~(validator.count + Len(s) > MaxChunks)
        BY <2>6 DEF Stream!ExceedsBudget
      <4> QED BY <4>1, <1>5, <3>1
    <3>3. phase' = "done" /\ pending' = s /\ Stream!AcceptsAll(validator, s)
      BY <2>2, <2>3, <2>6, <3>2 DEF Stream!Enqueue
    <3>4. StreamTyped'
      BY <1>1, <1>3, <1>4, <2>4, <3>1, <3>3 DEF StreamTyped
    <3>5. Queued' = Stream!Accepted(validator, s)
      BY <3>3, <2>4 DEF Queued
    <3>6. Complete(Queued)'
      BY <1>3, <1>8, <2>2, <2>4, <3>2, <3>5 DEF Complete
    <3>7. s # <<>>
      BY <3>1
    <3>8. Flowing' /\ Finishing' /\ Finished'
      BY <1>1, <2>1, <2>4, <3>1, <3>3, <3>6, <3>7 DEF Flowing, Finishing, Finished
    <3> QED BY <1>3, <2>4, <3>3, <3>4, <3>8 DEF StreamInv
  <2> QED BY <2>5, <2>6
<1> QED BY <1>6, <1>7, <1>8 DEF Stream!TakeData

LEMMA StreamSteps == StreamInv /\ Stream!Next => StreamInv'
<1> SUFFICES ASSUME StreamInv, Stream!Next PROVE StreamInv'
  OBVIOUS
<1>0. {"error", "aborted", "timeout"} \subseteq Stream!Failures
  BY DEF Stream!Failures
<1>1. CASE Stream!Poll
  BY <1>1, ReaderStays, Stalls DEF Stream!Poll
<1>2. CASE Stream!Abort
  <2>1. said = "none"
    BY <1>2 DEF Stream!Abort, Stream!Aborting, StreamInv, Finished
  <2> QED BY <1>0, <1>2, <2>1, ReaderStays, FailsAtOnce DEF Stream!Abort, Stream!Aborting
<1>3. CASE Stream!Yield
  BY <1>3, StreamYields
<1>4. CASE Stream!Start
  <2>1. /\ phase = "start" /\ pending = <<>> /\ said = "none"
        /\ UNCHANGED <<withdrawn, reader, translator, pending>>
    BY <1>4 DEF Stream!Start, Stream!GoesOn, StreamInv, Flowing
  <2>2. CASE Stream!FinishWith("error")
    BY <1>0, <2>1, <2>2, ReaderStays, FailsAtOnce
  <2>3. CASE phase' = "sending" /\ UNCHANGED <<validator, said>>
    BY <2>1, <2>3, ReaderStays, Stalls
  <2> QED BY <1>4, <2>2, <2>3 DEF Stream!Start
<1>5. CASE Stream!TimedOut
  BY <1>0, <1>5, WaitsEmpty, ReaderStays, FailsAtOnce DEF Stream!TimedOut
<1>6. CASE Stream!WaitCancelled
  BY <1>0, <1>6, WaitsEmpty, ReaderStays, FailsAtOnce DEF Stream!WaitCancelled
<1>7. CASE Stream!TakeComment
  <2>1. reader.items # <<>> /\ reader' = [reader EXCEPT !.items = Tail(@)]
        /\ UNCHANGED <<phase, withdrawn, translator, pending, validator, said>>
    BY <1>7 DEF Stream!TakeComment
  <2> QED BY <2>1, ReadsOn, Stalls
<1>8. CASE Stream!TakeData
  BY <1>8, StreamTakesData
<1>9. CASE Stream!DecoderFails
  <2>1. pending = <<>> /\ said = "none" /\ UNCHANGED <<withdrawn, reader, translator, pending>>
        /\ Stream!FinishWith("error")
    BY <1>9 DEF Stream!DecoderFails, Stream!GoesOn, StreamInv, Flowing
  <2> QED BY <1>0, <2>1, ReaderStays, FailsAtOnce
<1>10. CASE Stream!WaitForBody
  <2>1. phase = "reading" /\ phase' = "waiting" /\ pending = <<>>
        /\ UNCHANGED <<withdrawn, reader, translator, pending, validator, said>>
    BY <1>10 DEF Stream!WaitForBody, Stream!GoesOn
  <2> QED BY <2>1, ReaderStays, Stalls
<1>11. CASE Stream!Ended
  BY <1>11, ReaderStays, Stalls DEF Stream!Ended
<1>12. CASE Stream!Respond
  <2>1. pending = <<>> /\ said = "none" /\ phase # "done"
        /\ UNCHANGED <<withdrawn, reader, translator, pending>>
    BY <1>12, WaitsEmpty DEF Stream!Respond, Stream!Ready
  <2>2. CASE Stream!FinishWith("error")
    BY <1>0, <2>1, <2>2, ReaderStays, FailsAtOnce
  <2>3. CASE phase' \in {"reading", "error body"} /\ UNCHANGED <<validator, said>>
    BY <2>1, <2>3, ReaderStays, Stalls
  <2> QED BY <1>12, <2>2, <2>3 DEF Stream!Respond
<1>13. CASE Stream!ReadErrorBody
  BY <1>0, <1>13, WaitsEmpty, ReaderStays, FailsAtOnce DEF Stream!ReadErrorBody, Stream!Ready
<1>14. CASE Stream!BodyEnds
  BY <1>0, <1>14, WaitsEmpty, ReaderStays, FailsAtOnce DEF Stream!BodyEnds, Stream!Ready
<1>15. ASSUME NEW items \in Stream!Batches, NEW broken \in BOOLEAN, Stream!ReadBody(items, broken)
       PROVE  StreamInv'
  <2>1. /\ pending = <<>> /\ phase = "waiting" /\ phase' = "reading"
        /\ \A i \in 1..Len(items) : items[i].tag = "done" => ~broken
        /\ reader' = [items |-> items, failed |-> broken,
                      reads |-> IF broken THEN reader.reads ELSE reader.reads + 1]
        /\ UNCHANGED <<withdrawn, translator, pending, validator, said>>
    BY <1>15, WaitsEmpty DEF Stream!ReadBody, Stream!Ready
  <2>2. items \in Seq(Stream!Items)
    <3>1. CASE items = <<>>
      BY <3>1
    <3>2. CASE \E i \in Stream!Items : items = <<i>>
      BY <3>2
    <3>3. CASE \E i, j \in Stream!Items : items = <<i, j>>
      BY <3>3
    <3> QED BY <3>1, <3>2, <3>3 DEF Stream!Batches
  <2>3. reader' \in [items : Seq(Stream!Items), failed : BOOLEAN, reads : Nat]
    <3>1. reader.reads \in Nat
      BY DEF StreamInv, StreamTyped
    <3>2. (IF broken THEN reader.reads ELSE reader.reads + 1) \in Nat
      BY <3>1
    <3> QED BY <2>1, <2>2, <3>2
  <2>4. DoneFits'
    BY <2>1 DEF DoneFits
  <2> QED BY <2>1, <2>3, <2>4, Stalls
<1>16. CASE Stream!Cancel
  BY <1>16, ReaderStays, Stalls DEF Stream!Cancel
<1>17. CASE Stream!TimePasses
  BY <1>17, ReaderStays, Stalls DEF Stream!TimePasses
<1> QED BY <1>1, <1>2, <1>3, <1>4, <1>5, <1>6, <1>7, <1>8, <1>9, <1>10, <1>11, <1>12, <1>13,
     <1>14, <1>15, <1>16, <1>17 DEF Stream!Next, Stream!Step, Stream!Peer

LEMMA StreamStutters == StreamInv /\ UNCHANGED streamVars => StreamInv'
<1> SUFFICES ASSUME StreamInv, UNCHANGED streamVars PROVE StreamInv'
  OBVIOUS
<1>1. UNCHANGED <<phase, withdrawn, reader, translator, pending, validator, said>>
  BY DEF streamVars
<1> QED BY <1>1, ReaderStays, Stalls

-----------------------------------------------------------------------------
(* The composition.                                                          *)

LEMMA EachGoesOn ==
  [WaitsNext]_waitVars => [Process!Next]_processVars /\ [Terminal!Next]_terminalVars
                            /\ [Next]_vars
  BY DEF WaitsNext, waitVars, Drives, Streams, Resumes, Lives, Shows

\* Both, for the composition that the run checks.
THEOREM AllSettledThroughout == WaitsSpec => []LeavesAllSettled
<1>1. WaitsInit => Process!Init /\ Terminal!Init
  BY DEF WaitsInit
<1>2. WaitsInit /\ [][WaitsNext]_waitVars => []Process!ExitTellsRun
  BY <1>1, EachGoesOn, ProcessExitsAsItRan, PTL
<1>3. WaitsInit /\ [][WaitsNext]_waitVars => []Terminal!TerminalGivenBack
  BY <1>1, EachGoesOn, ShellGetsItsTerminal, PTL
<1>4. Process!ExitTellsRun /\ Terminal!TerminalGivenBack => LeavesAllSettled
  BY DEF LeavesAllSettled
<1> QED BY <1>2, <1>3, <1>4, PTL DEF WaitsSpec

\* The stream of an answer is one the grammar accepts to its end, whatever the
\* provider sends, for all limits and every order of blocks.
THEOREM StreamsWhole == WaitsSpec => []StreamIsWhole
<1>1. WaitsInit => StreamInv
  BY StreamStarts DEF WaitsInit
<1>2. StreamInv /\ [WaitsNext]_waitVars => StreamInv'
  BY StreamSteps, StreamStutters DEF WaitsNext, waitVars, Drives, Streams, Resumes, Lives, Shows
<1>3. StreamInv => StreamIsWhole
  BY StreamTells DEF StreamIsWhole
<1> QED BY <1>1, <1>2, <1>3, PTL DEF WaitsSpec
=============================================================================
