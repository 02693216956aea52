----------------------------- MODULE TerminalModes -----------------------------
(* Who has the terminal, and in which mode: the line interface and the        *)
(* enhanced one from the banner to the exit (src/cli/terminal.rs, and the     *)
(* loops, suspend_enhanced and the clean-up of src/cli/interactive.rs), with  *)
(* a shell that continues the stopped process in front or behind, settings    *)
(* that somebody else changes, and a terminal that hangs up.                  *)
EXTENDS Naturals

CONSTANT MaxEvents    \* what the user, the shell and others do (bound)

VARIABLES
  kind,       \* the interface
  tty,        \* whose settings the terminal has
  altered,    \* whether somebody changed something in them
  hung,       \* whether the terminal is gone
  front,      \* whose process group is in the foreground
  dock,       \* the dock: not there, drawn, or cut by a failed write
  owner,      \* TerminalSessionState, or the selector's mode
  at,         \* where the interface stands
  back,       \* where it goes on when the process is continued
  ready,      \* signals that wait
  held,       \* the signal that is latched
  failed,     \* whether the result is an error
  exit,       \* the exit code
  events      \* how much has happened outside

vars ==
  <<kind, tty, altered, hung, front, dock, owner, at, back, ready, held, failed, exit, events>>

None == "none"
Terminating == {"Terminate", "Hangup"}
Code == [Terminate |-> 143, Hangup |-> 129]
Signals == Terminating \cup {"Suspend", "Interrupt"}
Running == 256

\* validate_terminal_identity, validate_canonical_termios, validate_application_termios
IsOurs == ~hung /\ front = "dsh"
IsCanonical == IsOurs /\ tty = "original" /\ ~altered
IsApplication == IsOurs /\ owner = "application" /\ tty = "application" /\ ~altered

\* tcsetattr: a process behind the shell is stopped by it, and a terminal that
\* is gone refuses
CanSet == ~hung /\ front = "dsh"
MustWait == ~hung /\ front = "shell"
Set(mode) == tty' = mode /\ altered' = FALSE

TypeOK ==
  /\ kind \in {"linear", "enhanced"} /\ tty \in {"original", "application", "selector"}
  /\ altered \in BOOLEAN /\ hung \in BOOLEAN /\ front \in {"dsh", "shell"}
  /\ dock \in {"bare", "drawn", "cut"}
  /\ owner \in {None, "application", "canonical", "restored", "selector"}
  /\ at \in {"banner", "enter", "entered", "loop", "turn", "suspend", "stopping", "stopped",
             "woken", "clean", "finish", "close", "leave", "drop", "done"}
  /\ back \in {"loop", "enter", "leave"}
  /\ ready \subseteq Signals /\ held \in Signals \cup {None}
  /\ failed \in BOOLEAN /\ exit \in {0, 1, 129, 143, Running} /\ events \in 0..MaxEvents

Init ==
  /\ kind \in {"linear", "enhanced"} /\ tty = "original" /\ altered = FALSE /\ hung = FALSE
  /\ front = "dsh" /\ dock = "bare" /\ owner = None /\ at = "banner"
  /\ back = (IF kind = "enhanced" THEN "enter" ELSE "loop")
  /\ ready = {} /\ held = None /\ failed = FALSE /\ exit = Running /\ events = 0

Inside == UNCHANGED <<kind, hung, front, events>>
Modes == <<tty, altered, owner>>

(* Outside.                                                                   *)
Outside ==
  /\ events < MaxEvents /\ at # "done" /\ events' = events + 1
  /\ \/ \E s \in Signals \ {"Hangup"} : ready' = ready \cup {s} /\ UNCHANGED <<altered, hung>>
     \/ ~hung /\ altered' = TRUE /\ UNCHANGED <<ready, hung>>
     \/ ~hung /\ hung' = TRUE /\ ready' = ready \cup {"Hangup"} /\ UNCHANGED altered
  /\ UNCHANGED <<kind, tty, front, dock, owner, at, back, held, failed, exit>>

\* fg, or bg, or a kill that continues the process where it is
Continue ==
  /\ at = "stopped" /\ at' = "woken" /\ front' \in {"dsh", "shell"}
  /\ UNCHANGED <<Modes, kind, hung, dock, back, ready, held, failed, exit, events>>

\* fg for a process that a tcsetattr stopped
Foreground ==
  /\ at \in {"finish", "drop"} /\ front = "shell" /\ front' = "dsh"
  /\ UNCHANGED <<Modes, kind, hung, dock, at, back, ready, held, failed, exit, events>>

(* Signals.                                                                   *)
Stronger(s) == CASE s = "Terminate" -> {} [] s = "Hangup" -> {"Terminate"}
                 [] s = "Suspend" -> Terminating [] OTHER -> Signals \ {"Interrupt"}
Take(s) == s \in ready /\ ready \cap Stronger(s) = {} /\ ready' = ready \ {s}

Fails(next) == failed' = TRUE /\ at' = next /\ UNCHANGED <<back, held>>

\* handle_idle_signal: the line interface, and the banner
IdleSignal(next) ==
  \E s \in ready :
    /\ Take(s) /\ UNCHANGED failed
    /\ CASE s = "Interrupt" -> at' = next /\ UNCHANGED <<back, held>>
         [] s = "Suspend" -> at' = "stopping" /\ back' = next /\ UNCHANGED held
         [] OTHER -> at' = "close" /\ held' = s /\ UNCHANGED back

Banner ==
  /\ at = "banner" /\ Inside /\ UNCHANGED <<Modes, dock, exit>>
  /\ \/ ready = {} /\ at' = back /\ UNCHANGED <<ready, back, held, failed>>
     \/ hung /\ Fails("close") /\ UNCHANGED ready
     \/ IdleSignal(back)

(* The enhanced interface takes the terminal over.                            *)
Enter ==
  /\ at = "enter" /\ Inside /\ UNCHANGED <<dock, ready, exit>>
  /\ IF IsCanonical
     THEN Set("application") /\ owner' = "application" /\ at' = "entered"
          /\ UNCHANGED <<back, held, failed>>
     ELSE Fails("close") /\ UNCHANGED Modes

\* An owner that is built only when the new mode was validated.
Refused_Unowned == owner' = None /\ UNCHANGED <<tty, altered>>

\* the new mode was not accepted: finish, whatever comes of it
Refused ==
  IF CanSet THEN Set("original") /\ owner' = "restored" ELSE UNCHANGED Modes

\* revalidate_application right after the change, and the first dock
Entered ==
  /\ at = "entered" /\ Inside /\ UNCHANGED <<ready, held, exit>>
  /\ IF IsApplication
     THEN dock' = "drawn" /\ at' = "loop" /\ back' = "loop" /\ UNCHANGED <<Modes, failed>>
     ELSE Refused /\ failed' = TRUE /\ at' = "close" /\ UNCHANGED <<dock, back>>

(* Between turns.                                                             *)
\* a signal while a notice is written is never handled: it leaves the loop
NoticeSignal ==
  \E s \in ready : /\ Take(s) /\ at' = "close" /\ held' = s
                   /\ failed' = (s \notin Terminating) /\ UNCHANGED back

LineLoop ==
  /\ kind = "linear" /\ at = "loop" /\ Inside /\ UNCHANGED <<Modes, dock, exit>>
  /\ \/ ~IsCanonical /\ Fails("close") /\ UNCHANGED ready
     \/ IsCanonical /\ IdleSignal("loop")
     \/ IsCanonical /\ NoticeSignal
     \/ /\ IsCanonical /\ ready = {} /\ UNCHANGED <<ready, back, held, failed>>
        /\ at' \in {"turn", "close"}

EnhancedLoop ==
  /\ kind = "enhanced" /\ at = "loop" /\ Inside /\ UNCHANGED <<Modes, back, exit>>
  /\ \/ ~IsApplication /\ Fails("clean") /\ UNCHANGED <<ready, dock>>
     \/ /\ UNCHANGED failed /\ \E s \in ready : Take(s) /\
          CASE s = "Interrupt" -> at' \in {"loop", "clean"} /\ UNCHANGED <<held, dock>>
            [] s = "Suspend" -> at' = "suspend" /\ UNCHANGED <<held, dock>>
            [] OTHER -> at' = "clean" /\ held' = s /\ UNCHANGED dock
     \/ /\ IsApplication /\ ready = {} /\ UNCHANGED <<ready, held, failed>>
        /\ at' \in {"turn", "clean"} /\ dock' = "drawn"

(* A turn: the line interface may take the selector's mode for a question.    *)
Ask ==
  /\ kind = "linear" /\ at = "turn" /\ owner = None /\ IsCanonical /\ ready = {}
  /\ Set("selector") /\ owner' = "selector"
  /\ Inside /\ UNCHANGED <<dock, at, back, ready, held, failed, exit>>

\* ApprovalTerminalMode::restore, and its Drop when the terminal refuses
Released ==
  IF owner = "selector" THEN /\ owner' = None
                             /\ IF CanSet THEN Set("original") ELSE UNCHANGED <<tty, altered>>
  ELSE UNCHANGED Modes

Answer ==
  /\ at = "turn" /\ owner = "selector" /\ ready = {} /\ Released
  /\ IF hung THEN Fails("close") ELSE UNCHANGED <<at, back, held, failed>>
  /\ Inside /\ UNCHANGED <<dock, ready, exit>>

TurnEnds ==
  /\ at = "turn" /\ Inside /\ UNCHANGED <<dock, exit>> /\ Released
  /\ LET over == IF kind = "enhanced" THEN "clean" ELSE "close"
     IN  \/ ready = {} /\ at' = "loop" /\ UNCHANGED <<ready, back, held, failed>>
         \/ hung /\ Fails(over) /\ UNCHANGED ready
         \/ \E s \in ready : /\ Take(s)
              /\ CASE s \in Terminating -> at' = over /\ held' = s /\ UNCHANGED <<back, failed>>
                   [] s \notin Terminating /\ hung -> Fails(over)
                   [] s = "Interrupt" /\ ~hung -> at' = "loop" /\ UNCHANGED <<back, held, failed>>
                   [] OTHER -> /\ IF kind = "enhanced" THEN at' = "suspend" /\ UNCHANGED back
                                  ELSE at' = "stopping" /\ back' = "loop"
                               /\ UNCHANGED <<held, failed>>

(* suspend_enhanced: the dock is taken away, then the mode; another signal    *)
(* gives the suspension up.                                                   *)
Suspend ==
  /\ at = "suspend" /\ Inside /\ UNCHANGED <<ready, held, exit>>
  /\ \/ ready # {} /\ at' = "loop" /\ UNCHANGED <<Modes, dock, back, failed>>
     \/ /\ dock' = IF hung THEN "cut" ELSE "bare"
        /\ IF CanSet THEN /\ Set("original") /\ owner' = "canonical" /\ at' = "stopping"
                          /\ back' = "loop" /\ UNCHANGED failed
           ELSE failed' = TRUE /\ at' = "clean" /\ UNCHANGED <<Modes, back>>

\* self_suspend: the shell sees it and takes the foreground
Stop ==
  /\ at = "stopping" /\ at' = "stopped" /\ front' = "shell"
  /\ UNCHANGED <<Modes, kind, hung, dock, back, ready, held, failed, exit, events>>

\* suspend_and_resume, and the loop of suspend_enhanced
Woken ==
  /\ at = "woken" /\ Inside /\ ready' = {} /\ UNCHANGED exit
  /\ LET over == IF owner = "canonical" THEN "clean" ELSE "close"
     IN  CASE ready \cap Terminating # {} ->
                /\ held' = IF "Terminate" \in ready THEN "Terminate" ELSE "Hangup"
                /\ at' = (IF back = "leave" THEN "leave" ELSE over)
                /\ UNCHANGED <<Modes, dock, back, failed>>
           [] ready \cap Terminating = {} /\ front = "shell" /\ ~hung ->
                at' = "stopping" /\ UNCHANGED <<Modes, dock, back, held, failed>>
           [] ready \cap Terminating = {} /\ (hung \/ ~IsCanonical) /\ (front = "dsh" \/ hung) ->
                /\ failed' = TRUE /\ held' = None
                /\ at' = (IF back = "leave" THEN "leave" ELSE over)
                /\ UNCHANGED <<Modes, dock, back>>
           [] OTHER ->
                /\ at' = back /\ held' = None /\ UNCHANGED <<back, failed>>
                /\ IF owner = "canonical"
                   THEN Set("application") /\ owner' = "application" /\ dock' = "drawn"
                   ELSE UNCHANGED <<Modes, dock>>

(* The way out.                                                               *)
\* run_enhanced: the dock is detached or the whole screen reset, within a deadline
Clean ==
  /\ at = "clean" /\ at' = "finish" /\ Inside /\ UNCHANGED <<Modes, back, exit>>
  /\ \/ /\ dock' = "bare" /\ ~hung /\ UNCHANGED <<ready, held, failed>>
     \/ /\ dock' = "cut" /\ failed' = (failed \/ held = None) /\ UNCHANGED <<ready, held>>
     \/ /\ dock' = "cut" /\ UNCHANGED failed
        /\ \E s \in ready : Take(s) /\ held' = IF held \in Terminating THEN held ELSE s

\* TerminalSession::finish
Finish ==
  /\ at = "finish" /\ ~MustWait /\ at' = "close" /\ Inside
  /\ UNCHANGED <<dock, back, ready, held, exit>>
  /\ IF CanSet THEN Set("original") /\ owner' = "restored" /\ UNCHANGED failed
     ELSE failed' = TRUE /\ UNCHANGED Modes

\* whether the enhanced interface never came to its loop
Early == back = "enter"

\* agent_with_signals: the shutdown is driven to its end
Close ==
  /\ at = "close" /\ Inside /\ UNCHANGED <<Modes, dock, back>>
  /\ \/ /\ ready = {} /\ at' = "leave" /\ UNCHANGED <<ready, held, exit>>
        /\ failed' \in {failed} \cup (IF Early THEN {} ELSE {TRUE})
     \/ /\ ready = {} /\ Early /\ ~failed
        /\ at' = "drop" /\ failed' = TRUE /\ exit' = 1 /\ UNCHANGED <<ready, held>>
     \/ /\ \E s \in ready : Take(s) /\ held' = IF held \in Terminating
                                                  \/ (held = "Suspend" /\ s = "Interrupt")
                                               THEN held ELSE s
        /\ UNCHANGED <<at, failed, exit>>

\* finish_signal_after_shutdown: it needs a terminal that was given back;
\* shutdown_after_enhanced_error: only a terminating signal counts
Leave ==
  /\ at = "leave" /\ Inside /\ UNCHANGED <<Modes, dock, ready, failed>>
  /\ LET restored == owner \in {None, "restored"}
     IN  IF held = "Suspend" /\ restored /\ ~Early
         THEN at' = "stopping" /\ back' = "leave" /\ UNCHANGED <<held, exit>>
         ELSE /\ at' = "drop" /\ UNCHANGED <<back, held>>
              /\ exit' = IF held \in Terminating /\ (restored \/ Early) THEN Code[held]
                         ELSE IF failed \/ ~restored THEN 1 ELSE 0

\* TerminalSession::drop, the backstop
Drop ==
  /\ at = "drop" /\ at' = "done" /\ Inside
  /\ ~(owner \in {"application", "canonical"} /\ MustWait)
  /\ IF owner \in {"application", "canonical"}
     THEN /\ dock' = IF dock = "drawn" THEN "cut" ELSE dock
          /\ IF CanSet THEN Set("original") ELSE UNCHANGED <<tty, altered>>
     ELSE UNCHANGED <<dock, tty, altered>>
  /\ UNCHANGED <<owner, back, ready, held, failed, exit>>

Step ==
  \/ Banner \/ Enter \/ Entered \/ LineLoop \/ EnhancedLoop \/ Answer \/ TurnEnds
  \/ Suspend \/ Stop \/ Woken \/ Clean \/ Finish \/ Close \/ Leave \/ Drop

Next == Step \/ Ask \/ Outside \/ Continue \/ Foreground

Spec == Init /\ [][Next]_vars /\ WF_vars(Step)

(* Whenever the shell has the terminal back, stopped or for good, it has the  *)
(* settings it gave, and no dock stands on it that dsh still counts on,       *)
(* whatever failed on the way (terminal.rs: finish, restore_for_suspend and   *)
(* the backstops).                                                            *)
ShellHasItsTerminal ==
  at \in {"stopped", "done"} /\ ~hung => tty = "original" /\ dock # "drawn"

(* A terminating signal that was seen decides the exit code, unless the       *)
(* terminal could not be given back or the interface never came to its loop.  *)
SignalDecides ==
  at = "done" /\ held \in Terminating /\ owner \in {None, "restored"} /\ ~(Early /\ failed) =>
    exit = Code[held]

TerminalGivenBack == ShellHasItsTerminal /\ SignalDecides

(* Nothing is drawn while the shell is in front, but for a terminating signal *)
(* (docs/design/interactive-cli.md: "the driver writes nothing").             *)
QuietBehind == [][dock' # dock => front = "dsh" \/ held \in Terminating \/ hung]_vars

(* A terminating signal ends the process, unless setting the terminal from    *)
(* behind the shell stops it once more.                                       *)
SignalEnds == held \in Terminating ~> at = "done" \/ MustWait
=============================================================================
