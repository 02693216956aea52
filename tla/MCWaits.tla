-------------------------------- MODULE MCWaits --------------------------------
(* What is waited for in a process: the driver of one turn, the stream of an *)
(* answer, the thread of a resume, the process around its turn, and its      *)
(* terminal.  They share no state here, and a behaviour is about the one     *)
(* that its first state names.                                               *)
EXTENDS ResumeHandshake, Sequences

CONSTANTS c1, p1, p2
CONSTANTS Sent, MaxSent, MaxEvents
CONSTANTS Kinds, MaxChunks, MaxBlocks, MaxReads

ASSUME WaitsAssumption ==
  /\ Sent \subseteq {"Quit", "Terminate", "Hangup", "Suspend", "Interrupt"}
  /\ MaxSent \in Nat /\ MaxEvents \in Nat
  /\ Kinds \in Seq(STRING) /\ MaxChunks \in Nat \ {0} /\ MaxBlocks \in Nat /\ MaxReads \in Nat

\* An answer with a text and a call.
TextAndCall == <<"text", "call">>

VARIABLES part
VARIABLES durable, pc, log, cancelled, expired, observer, dirty, claims, token, oversized, run, loop
VARIABLES phase, polled, idle, withdrawn, reader, translator, pending, validator, said
VARIABLES mode, stage, ready, sent, latch, session, result, outcome, written, exit
VARIABLES kind, tty, altered, hung, fore, dock, owner, at, back, waiting, held, failed, left, events

Driver == INSTANCE MCTurnDriver
            WITH Durable <- TRUE, Calls <- {c1}, Approvals <- {}, MaxSteps <- 2,
                 MaxAttempts <- 3, MaxRetries <- 1, MaxTurns <- 1, MaxOrphans <- 1
Stream == INSTANCE ProviderStream
            WITH cancelled <- withdrawn
Process == INSTANCE ScriptRun
             WITH pc <- stage
Terminal == INSTANCE TerminalModes
              WITH front <- fore, ready <- waiting, exit <- left

driverVars == <<durable, pc, log, cancelled, expired, observer, dirty, claims, token, oversized,
                run, loop>>
streamVars == <<phase, polled, idle, withdrawn, reader, translator, pending, validator, said>>
processVars == <<mode, stage, ready, sent, latch, session, result, outcome, written, exit>>
terminalVars == <<kind, tty, altered, hung, fore, dock, owner, at, back, waiting, held, failed,
                  left, events>>
waitVars == <<part, vars, driverVars, streamVars, processVars, terminalVars>>

WaitsInit ==
  /\ part \in {"driver", "stream", "resume", "process", "terminal"}
  /\ Driver!BothInit /\ Stream!Init /\ Init /\ Process!Init /\ Terminal!Init
  /\ (part # "driver" => durable) /\ (part # "resume" => missing = 0)
  /\ (part # "process" => mode = "Script" /\ stage = "reading")
  /\ (part # "terminal" => kind = "linear")

Drives == part = "driver" /\ UNCHANGED <<part, streamVars, vars, processVars, terminalVars>>
Streams == part = "stream" /\ UNCHANGED <<part, driverVars, vars, processVars, terminalVars>>
Resumes == part = "resume" /\ UNCHANGED <<part, driverVars, streamVars, processVars, terminalVars>>
Lives == part = "process" /\ UNCHANGED <<part, driverVars, streamVars, vars, terminalVars>>
Shows == part = "terminal" /\ UNCHANGED <<part, driverVars, streamVars, vars, processVars>>

WaitsNext ==
  \/ Drives /\ Driver!BothNext
  \/ Streams /\ Stream!Next
  \/ Resumes /\ Next
  \/ Lives /\ Process!Next
  \/ Shows /\ Terminal!Next

\* The fairness of each module, of the steps of this composition.  Only one of
\* them is enabled in a behaviour, so that their conditions can share a conjunct.
WaitsSpec ==
  /\ WaitsInit /\ [][WaitsNext]_waitVars
  /\ WF_waitVars(\/ Drives /\ Driver!BothStep
                 \/ Streams /\ Stream!Step
                 \/ Resumes /\ WorkerStep(p1)
                 \/ Lives /\ Process!Step
                 \/ Shows /\ Terminal!Step)
  /\ WF_waitVars(\/ Drives /\ Driver!BothExpire
                 \/ Streams /\ Stream!TimePasses
                 \/ Resumes /\ FrontStep(p1)
                 \/ Lives /\ Process!Deadline)
  /\ WF_waitVars(Resumes /\ WorkerStep(p2))
  /\ WF_waitVars(Resumes /\ FrontStep(p2))

StreamIsWhole == Stream!StreamIsWhole

\* A process exits with the code that its turn or the first signal earned, its
\* session closed, and its terminal given back.
LeavesAllSettled == Process!ExitTellsRun /\ Terminal!TerminalGivenBack

\* Every turn returns, whatever the provider, the tools and the session do;
\* every poll of a stream is answered though the provider falls silent; no wait
\* of a front end for the thread of a resume hangs; and a process with a prompt
\* ends, by the first terminating signal that it saw, quiet behind the shell.
EveryWaitEnds ==
  /\ Driver!TurnEnds /\ Stream!PollEnds /\ WaitsEnd
  /\ Process!ProcessEnds /\ Process!FirstOneStays
  /\ Terminal!SignalEnds /\ Terminal!QuietBehind
=============================================================================
