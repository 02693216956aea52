------------------------------- MODULE ScriptRun -------------------------------
(* One dsh process, from its installed signal streams to its exit code        *)
(* (src/cli/entry.rs, assembly.rs, script_driver.rs, script_io.rs,            *)
(* shutdown.rs, signal.rs, storage_failure.rs).  The session, the tools and   *)
(* the turn are owned futures that the process drives to their end while it   *)
(* latches signals; a thread writes the answer under a deadline.  A process   *)
(* with a terminal is followed until the interactive loop takes over.         *)
EXTENDS Naturals

CONSTANTS
  Sent,       \* the kinds of signal that are sent, of those in Polled
  MaxSent     \* how many signals are sent (bound)

VARIABLES
  mode,       \* DriverMode
  pc,         \* where run_options stands
  ready,      \* the signals that wait in their streams: one of a kind
  sent,       \* how many were sent
  latch,      \* the signal that SignalLatch holds
  session,    \* whose the session is
  result,     \* what the future that was driven last came to
  outcome,    \* what the turn came to
  written,    \* how far the answer was written
  exit        \* the exit code

vars == <<mode, pc, ready, sent, latch, session, result, outcome, written, exit>>

None == "none"
Running == 256

(* Signals: the order in which they are polled, and what they exit with.      *)
Polled == <<"Quit", "Terminate", "Hangup", "Suspend", "Interrupt">>
Code == [Interrupt |-> 130, Hangup |-> 129, Quit |-> 131, Terminate |-> 143]
Terminating == {"Hangup", "Quit", "Terminate"}
IsExit(m, s) == s \in Terminating \/ (m = "Script" /\ s = "Interrupt")

\* SignalLatch::observe
Observe(m, held, s) ==
  IF \/ held = None
     \/ ~IsExit(m, held) /\ IsExit(m, s)
     \/ held = "Interrupt" /\ m = "Interactive" /\ s = "Suspend"
  THEN s ELSE held

\* drain_ready: every kind at most once, as they are polled
Seen(m, held, s) == IF s \in ready THEN Observe(m, held, s) ELSE held

Drained(m, held) ==
  LET outranked == Seen(m, Seen(m, Seen(m, held, "Quit"), "Terminate"), "Hangup")
  IN  Seen(m, Seen(m, outranked, "Suspend"), "Interrupt")

Rank(s) == CHOOSE i \in DOMAIN Polled : Polled[i] = s

\* next(): the strongest signal that is ready
Take(s) == s \in ready /\ (\A t \in ready : Rank(s) <= Rank(t)) /\ ready' = ready \ {s}

TypeOK ==
  /\ mode \in {"Script", "Interactive"}
  /\ pc \in {"reading", "read", "preparing", "resuming", "paused", "assembling", "assembled",
             "cleaning", "cleaned", "turning", "turned", "settling", "settled", "writing",
             "wrote", "stopped", "interactive", "done"}
  /\ ready \subseteq Sent /\ sent \in 0..MaxSent
  /\ latch \in Sent \cup {None}
  /\ session \in {"none", "session", "agent", "closed"}
  /\ result \in {None, "ok", "failed"}
  /\ outcome \in {None, "completed", "ended", "agent", "storage", "output"}
  /\ written \in {"nothing", "part", "whole", "told", "lost"}
  /\ exit \in {0, 1, 2, 129, 130, 131, 143, 148, Running}

Init ==
  /\ \/ mode = "Script" /\ pc \in {"reading", "preparing", "resuming"}
     \/ mode = "Interactive" /\ pc \in {"preparing", "resuming"}
  /\ ready = {} /\ sent = 0 /\ latch = None /\ session = "none"
  /\ result = None /\ outcome = None /\ written = "nothing" /\ exit = Running

Raise ==
  /\ pc \notin {"done", "interactive"} /\ sent < MaxSent
  /\ \E s \in Sent : ready' = ready \cup {s}
  /\ sent' = sent + 1
  /\ UNCHANGED <<mode, pc, latch, session, result, outcome, written, exit>>

(* Ends of the process.                                                       *)
ErrorCode == [input |-> 2, other |-> 1]

OrdinaryCode == IF outcome = "completed" THEN 0 ELSE 1

Exit(code) == pc' = "done" /\ exit' = code

Fail == Exit(ErrorCode.other)

\* exit_after_settlement, exit_after_startup_signal, exit_for_input_signal,
\* exit_after_completed_io_signal and exit_for_output_signal are alike: a
\* suspension stops the process first, and what came meanwhile decides.
ExitFor(s) ==
  /\ latch' = s
  /\ IF s = "Suspend" THEN \/ pc' = "stopped" /\ exit' = exit
                           \/ Fail
     ELSE Exit(Code[s])

Continue ==
  /\ pc = "stopped"
  /\ latch' = Drained(mode, latch) /\ ready' = {}
  /\ Exit(IF latch' \in DOMAIN Code THEN Code[latch'] ELSE 148)
  /\ UNCHANGED <<mode, sent, session, result, outcome, written>>

(* The prompt of a pipe, read by a thread that may block for ever.            *)
Reads ==
  /\ pc = "reading"
  /\ \/ \E s \in ready : Take(s) /\ ExitFor(s) /\ UNCHANGED result
     \/ /\ ready = {} /\ pc' = "read" /\ result' \in {"ok", "failed"}
        /\ UNCHANGED <<ready, latch, exit>>
  /\ UNCHANGED <<mode, sent, session, outcome, written>>

ReadDrained ==
  /\ pc = "read" /\ ready' = {}
  /\ LET l == Drained(mode, None)
     IN  IF l # None THEN ExitFor(l)
         ELSE /\ UNCHANGED latch
              /\ IF result = "failed" THEN Exit(ErrorCode.input)
                 ELSE pc' \in {"preparing", "resuming"} /\ UNCHANGED exit
  /\ UNCHANGED <<mode, sent, session, result, outcome, written>>

(* The session.  session_resume::resume gives back a session or has closed it *)
(* itself; a local signal sends the user of a terminal through it once more.  *)
Prepare ==
  /\ pc = "preparing"
  /\ \/ pc' = "assembling" /\ session' = "session" /\ UNCHANGED exit
     \/ Fail /\ UNCHANGED session
  /\ UNCHANGED <<mode, ready, sent, latch, result, outcome, written>>

Resume ==
  /\ pc = "resuming"
  /\ \/ ready = {} /\ pc' = "assembling" /\ session' = "session" /\ UNCHANGED <<ready, latch, exit>>
     \/ Fail /\ UNCHANGED <<ready, latch, session>>
     \/ /\ ready # {} /\ ready' = {} /\ UNCHANGED session
        /\ LET s == Drained(mode, None)
           IN  CASE mode = "Interactive" /\ s = "Interrupt" ->
                      UNCHANGED latch /\ (Fail \/ UNCHANGED <<pc, exit>>)
                 [] mode = "Interactive" /\ s = "Suspend" ->
                      UNCHANGED latch /\ (Fail \/ (pc' = "paused" /\ UNCHANGED exit))
                 [] OTHER -> ExitFor(s)
  /\ UNCHANGED <<mode, sent, result, outcome, written>>

\* suspend_and_resume: the terminal must be the foreground's and still valid
Unpause ==
  /\ pc = "paused" /\ ready' = {}
  /\ LET s == Drained(mode, None)
     IN  IF s \in Terminating THEN ExitFor(s)
         ELSE /\ UNCHANGED latch
              /\ \/ pc' \in {"paused", "resuming"} /\ UNCHANGED exit
                 \/ Fail
  /\ UNCHANGED <<mode, sent, session, result, outcome, written>>

(* A future that is never dropped: it ends, or a signal is latched meanwhile. *)
Drive(from, to) ==
  /\ pc = from
  /\ \/ pc' = to /\ result' \in {"ok", "failed"} /\ UNCHANGED <<ready, latch>>
     \/ \E s \in ready : /\ Take(s) /\ latch' = Observe(mode, latch, s)
                         /\ UNCHANGED <<pc, result>>
  /\ UNCHANGED <<mode, sent, session, outcome, written, exit>>

\* assemble_session takes the session and hands it on, or back if it failed
Assemble == Drive("assembling", "assembled")

Assembled ==
  /\ pc = "assembled" /\ ready' = {}
  /\ latch' = Drained(mode, latch)
  /\ session' = IF result = "ok" THEN "agent" ELSE "session"
  /\ pc' = IF result = "failed" \/ latch' # None THEN "cleaning"
           ELSE IF mode = "Script" THEN "turning" ELSE "interactive"
  /\ UNCHANGED <<mode, sent, result, outcome, written, exit>>

Clean == Drive("cleaning", "cleaned")

Cleaned ==
  /\ pc = "cleaned" /\ ready' = {} /\ session' = "closed"
  /\ LET s == Drained(mode, latch)
     IN  IF s = None \/ (session = "agent" /\ result = "failed")
         THEN latch' = s /\ Fail ELSE ExitFor(s)
  /\ UNCHANGED <<mode, sent, result, outcome, written>>

(* The turn: before a signal is held, signals are polled first, then last.    *)
TurnEnds ==
  /\ pc = "turning" /\ (latch = None => ready = {})
  /\ outcome' \in {"completed", "ended", "agent", "storage", "output"}
  /\ pc' = "turned"
  /\ UNCHANGED <<mode, ready, sent, latch, session, result, written, exit>>

TurnStops ==
  /\ pc = "turning"
  /\ \E s \in ready : Take(s) /\ latch' = Observe(mode, latch, s)
  /\ UNCHANGED <<mode, pc, sent, session, result, outcome, written, exit>>

TurnDrained ==
  /\ pc = "turned" /\ ready' = {} /\ latch' = Drained(mode, latch) /\ pc' = "settling"
  /\ UNCHANGED <<mode, sent, session, result, outcome, written, exit>>

Settle == Drive("settling", "settled")

\* A shutdown whose error is not looked at.
Verdict_ShutdownForgotten(s) ==
  IF s # None THEN "signal"
  ELSE IF outcome \in {"storage", "output"} THEN "error"
  ELSE "answer"

\* run_one_turn: the signal, then the turn's error, then the shutdown's
Verdict(s) ==
  IF s # None THEN "signal"
  ELSE IF outcome \in {"storage", "output"} \/ result = "failed" THEN "error"
  ELSE "answer"

Settled ==
  /\ pc = "settled" /\ ready' = {} /\ session' = "closed"
  /\ LET s == Drained(mode, latch)
     IN  CASE Verdict(s) = "signal" -> ExitFor(s)
           [] Verdict(s) = "error" -> latch' = s /\ Fail
           [] OTHER -> latch' = s /\ ((pc' = "writing" /\ UNCHANGED exit) \/ Fail)
  /\ UNCHANGED <<mode, sent, result, outcome, written>>

(* The answer: a thread writes it, and may hang in the kernel.                *)
Writes ==
  /\ pc = "writing" /\ written # "whole"
  /\ written' \in {"part", "whole"}
  /\ UNCHANGED <<mode, pc, ready, sent, latch, session, result, outcome, exit>>

\* wait_event: a signal, the deadline, then the thread's answer
WriteStops ==
  /\ pc = "writing"
  /\ \E s \in ready : Take(s) /\ ExitFor(s)
  /\ UNCHANGED <<mode, sent, session, result, outcome, written>>

Deadline ==
  /\ pc = "writing" /\ ready = {} /\ Fail
  /\ UNCHANGED <<mode, ready, sent, latch, session, result, outcome, written>>

WriteEnds ==
  /\ pc = "writing" /\ ready = {} /\ pc' = "wrote"
  /\ \/ written' = "lost"
     \/ written = "whole" /\ written' = "told"
  /\ UNCHANGED <<mode, ready, sent, latch, session, result, outcome, exit>>

WriteDrained ==
  /\ pc = "wrote" /\ ready' = {}
  /\ LET s == Drained(mode, None)
     IN  IF s # None THEN ExitFor(s)
         ELSE /\ UNCHANGED latch
              /\ Exit(IF written = "told" THEN OrdinaryCode ELSE ErrorCode.other)
  /\ UNCHANGED <<mode, sent, session, result, outcome, written>>

(* A step that the process owes: a prompt may never end, a stopped process may *)
(* never be continued, and the thread that writes may hang.                    *)
Step ==
  \/ ReadDrained \/ Prepare \/ Resume \/ Assemble \/ Assembled \/ Clean \/ Cleaned
  \/ TurnEnds \/ TurnStops \/ TurnDrained \/ Settle \/ Settled
  \/ WriteStops \/ WriteDrained

Next == Step \/ Raise \/ Reads \/ Unpause \/ Continue \/ Writes \/ Deadline \/ WriteEnds

Spec == Init /\ [][Next]_vars /\ WF_vars(Step) /\ WF_vars(Deadline)

(* Code 0 is only for a completed turn whose session was closed without an    *)
(* error and whose answer was handed over whole, and no process with such a   *)
(* turn exits otherwise unless a signal was seen (entry.rs and                *)
(* script_driver.rs: run_one_turn).                                           *)
ExitIsEarned ==
  pc = "done" =>
    (exit = 0 <=> latch = None /\ outcome = "completed" /\ result = "ok" /\ written = "told")

(* Nothing of an answer is shown before the session that holds it was closed, *)
(* and no process exits while it owns a session: the journal's lock and its   *)
(* writer thread are given back first.                                        *)
SessionClosedFirst ==
  /\ written # "nothing" => session = "closed" /\ outcome \in {"completed", "ended", "agent"}
  /\ pc = "done" => session \in {"none", "closed"}

CleanupFailed == outcome = None /\ session = "closed" /\ result = "failed"

(* docs/design/persistence-resume-compaction.md: TERM, HUP and QUIT preserve  *)
(* their exit codes, and an I/O error cannot downgrade them.                  *)
SignalOutranksError == pc = "done" /\ latch \in Terminating => exit = Code[latch]

(* What the process exits with is the signal that it held, but for a clean-up *)
(* that failed after a signal during the assembly.                            *)
SignalDecides ==
  pc = "done" /\ latch # None /\ ~CleanupFailed =>
    exit = IF latch = "Suspend" THEN IF exit = 1 THEN 1 ELSE 148 ELSE Code[latch]

ExitTellsRun == ExitIsEarned /\ SessionClosedFirst /\ SignalDecides

(* A terminating signal that was seen is never replaced by another one.       *)
FirstOneStays == [][(latch \in Terminating) => latch' = latch]_vars

(* The process ends once it has its prompt, whatever the turn, the session    *)
(* and the terminal do, unless somebody has stopped it.                       *)
ProcessEnds ==
  pc # "reading" ~> pc \in {"done", "interactive", "stopped", "paused"}
=============================================================================
