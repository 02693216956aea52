--------------------------- MODULE MCSessionLedger ---------------------------
(* Model checking of SessionLedger in both modes at once: storage = "memory" *)
(* tells the mode of a session and never changes.                           *)
EXTENDS SessionLedger

Memory == INSTANCE SessionLedger WITH Durable <- FALSE

BothInit == Init \/ Memory!Init
BothNext == IF storage = "memory" THEN Memory!Next ELSE Next

BothSpec == /\ BothInit /\ [][BothNext]_vars
            /\ WF_vars(storage = "closing" /\ ShutdownStep)
=============================================================================
