------------------------------ MODULE StableLog ------------------------------
(***************************************************************************)
(* What the journal promises the session: the rows it accepted are kept on *)
(* the device in the order they were accepted, and those a barrier         *)
(* confirmed are never lost, changed or overtaken, whatever fails.         *)
(*                                                                         *)
(* The device may lag behind the session, and after a failure or a crash   *)
(* it may hold less than it did and end in a row that was cut short; but   *)
(* never less than what was confirmed, and never anything but a prefix.    *)
(***************************************************************************)
EXTENDS Naturals, Sequences

CONSTANTS Row,   \* the rows a session may write
          Torn   \* a row that was cut short

VARIABLES log,        \* rows the session has accepted
          confirmed,  \* how many of them the last barrier confirmed
          kept        \* what the device holds

stableVars == <<log, confirmed, kept>>

First(s, n) == SubSeq(s, 1, n)

\* d is what a device may hold of the rows in s when n of them are confirmed.
HoldsAtLeast(d, s, n) ==
  \E m \in n..Len(s) : d = First(s, m) \/ d = Append(First(s, m), Torn)

StableInit == log = <<>> /\ confirmed = 0 /\ kept = <<>>

\* Rows are accepted, or the device changes, or both.
Write ==
  /\ log' \in Seq(Row)
  /\ Len(log) <= Len(log') /\ log = First(log', Len(log))
  /\ HoldsAtLeast(kept', log', confirmed)
  /\ UNCHANGED confirmed

Confirm ==
  /\ kept = log
  /\ confirmed' = Len(log)
  /\ UNCHANGED <<log, kept>>

\* A later process starts from what the device holds.
Restart ==
  /\ \E n \in confirmed..Len(log) : log' = First(log, n) /\ kept' = log'
  /\ UNCHANGED confirmed

StableNext == Write \/ Confirm \/ Restart

StableSpec == StableInit /\ [][StableNext]_stableVars
=============================================================================
