------------------------------ MODULE MCToolRound ------------------------------
(* ToolRound with small id sets, over a durable session and over one in       *)
(* memory: durable is chosen once.                                            *)
EXTENDS ToolRound

VARIABLE durable

Memory == INSTANCE ToolRound WITH Durable <- FALSE

BothInit == durable \in BOOLEAN /\ IF durable THEN Init ELSE Memory!Init
BothNext == UNCHANGED durable /\ IF durable THEN Next ELSE Memory!Next

BothSpec ==
  /\ BothInit /\ [][BothNext]_<<vars, durable>>
  /\ WF_vars(IF durable THEN Step ELSE Memory!Step)
  /\ WF_vars(Tool) /\ WF_vars(Expire)

\* A durable round never leaves a call open; a memory round leaves at most the
\* last one, whose outcome it cannot record.  And in both the turn goes on only
\* when nothing is in doubt.
RoundEndsCleanInBoth ==
  /\ IF durable THEN RoundLeavesNothingOpen ELSE Memory!RoundLeavesNothingOpen
  /\ ContinueIsClean

\* Each mode writes only rows of its own grammar.
LogFollowsGrammarInBoth == [][IF durable THEN L!Next ELSE Memory!L!Next]_log
=============================================================================
