----------------------------- MODULE MCTurnDriver -----------------------------
(* TurnDriver with small id sets, over a durable session and over one in      *)
(* memory: durable is chosen once.                                            *)
EXTENDS TurnDriver

VARIABLE durable

Memory == INSTANCE TurnDriver WITH Durable <- FALSE

BothInit == durable \in BOOLEAN /\ IF durable THEN Init ELSE Memory!Init
BothNext == UNCHANGED durable /\ IF durable THEN Next ELSE Memory!Next

BothStep == UNCHANGED durable /\ IF durable THEN Step ELSE Memory!Step
BothExpire == UNCHANGED durable /\ Expire

BothSpec == BothInit /\ [][BothNext]_<<vars, durable>>

\* Each mode writes only rows of its own grammar.
LogFollowsGrammarInBoth == [][IF durable THEN L!Next ELSE Memory!L!Next]_log

\* What each mode holds to be a failure is reported as one.
FailureNeverHiddenInBoth ==
  [][pc # "idle" /\ pc' = "idle" /\
     (run.limit \/ run.lost \/ (run.fallback /\ durable)) =>
       loop'.result = "err" /\ loop'.poisoned]_vars
=============================================================================
