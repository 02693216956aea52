------------------------- MODULE MCSessionProjection -------------------------
(* SessionProjection with small id sets, under both validation policies: log *)
(* is the log of a durable session, memoryLog that of a session in memory,   *)
(* and a process writes only one of them.                                    *)
EXTENDS SessionProjection, TLC

VARIABLE memoryLog

Memory == INSTANCE SessionProjection
            WITH Durable <- FALSE, log <- memoryLog,
                 MaxTurns <- 2, MaxSteps <- 1, MaxRetries <- 1

BothInit == Init /\ Memory!Init
BothNext ==
  \/ Next /\ Memory!Init /\ UNCHANGED memoryLog
  \/ Memory!Next /\ Init /\ UNCHANGED log

BothSpec == BothInit /\ [][BothNext]_<<log, memoryLog>>

\* The memory grammar, where attempt-shaped rows need no token until one is
\* begun, keeps the owner of a compaction bracket as well.
BracketOwnsQuietTurnInBoth == BracketOwnsQuietTurn /\ Memory!BracketOwnsQuietTurn

Symmetry == Permutations(Calls) \cup Permutations(Approvals)
=============================================================================
