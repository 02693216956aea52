----------------------------- MODULE PromptInput ------------------------------
(* What the user types: the draft in the composer, the queue of prompts for  *)
(* the turns to come, the history of what was sent (InputMemory), and the     *)
(* loop that turns them into turns and settles each one (run_enhanced).       *)
(*                                                                           *)
(* A text is a number, 0 for none; an edit makes a new text of an old one.    *)
(* What a turn does is InteractiveTurn's matter: here it commits the prompt   *)
(* at some point or never, and ends.                                          *)
EXTENDS Naturals, Sequences, SequencesExt, FiniteSetsExt

CONSTANTS
  Size,           \* a sequence: the bytes of text i; its length bounds the texts
  MaxIds,         \* bound on the ids of the queue
  MaxQueueItems,  \* MAX_QUEUE_ITEMS
  MaxQueueBytes,  \* MAX_QUEUE_BYTES
  MaxHistoryItems,\* MAX_HISTORY_ITEMS
  MaxHistoryBytes \* MAX_HISTORY_BYTES

VARIABLES
  phase,   \* "idle", "draw" the dock of a turn, "turn", "over" when the program
           \* ends, "failed" when its own bookkeeping ended it
  typed,   \* texts so far
  composer,\* the draft
  queue,   \* PromptQueue: prompts with their LocalPromptId
  nextId,  \* the last LocalPromptId
  reserved,\* reserved_front, 0 for none
  paused,  \* auto_queue_paused
  history, \* PromptHistory, the oldest first
  nav,     \* HistoryNavigation: the offset from the newest, and the draft it hides
  active,  \* the prompt of the turn: its text, its id in the queue, whether committed
  sent,    \* the id of the queue that was last admitted (history variable)
  gone     \* texts that were committed, or that the user gave up (history variable)

vars == <<phase, typed, composer, queue, nextId, reserved, paused, history, nav, active, sent, gone>>
memory == <<composer, queue, nextId, reserved, history, nav>>

NoNav == [on |-> FALSE, offset |-> 0, saved |-> 0]
NoTurn == [text |-> 0, id |-> 0, committed |-> FALSE]
Texts == 1..Len(Size)

TypeOK ==
  /\ phase \in {"idle", "draw", "turn", "over", "failed"}
  /\ typed \in 0..Len(Size) /\ composer \in Texts \cup {0}
  /\ Len(queue) <= MaxQueueItems /\ Len(history) <= MaxHistoryItems
  /\ paused \in BOOLEAN /\ nav.on \in BOOLEAN /\ nav.saved \in Texts \cup {0}
  /\ active.committed \in BOOLEAN /\ (reserved # 0 => phase \in {"draw", "turn"})

Init ==
  /\ phase = "idle" /\ typed = 0 /\ composer = 0 /\ queue = <<>> /\ nextId = 0 /\ reserved = 0
  /\ paused = FALSE /\ history = <<>> /\ nav = NoNav /\ active = NoTurn /\ sent = 0 /\ gone = {}

-----------------------------------------------------------------------------
(* Keys.  The idle loop reads them only while nothing is to be sent.         *)

Waiting == Len(queue) - (IF reserved = 0 THEN 0 ELSE 1)
Bytes(items) == FoldSeq(LAMBDA p, total : Size[p.text] + total, 0, items)
SizeOf(text) == IF text = 0 THEN 0 ELSE Size[text]

AutoSubmits == phase = "idle" /\ Waiting # 0 /\ ~paused
Reads == phase = "turn" \/ (phase = "idle" /\ ~AutoSubmits)

\* Any key ends the pause after a prompt that was not admitted.
KeyRead == Reads /\ paused' = (paused /\ phase = "turn")

\* A draft that changes is no longer a step of the history it came from.
Type ==
  /\ KeyRead /\ typed < Len(Size)
  /\ typed' = typed + 1 /\ composer' = typed + 1
  /\ gone' = gone \cup {composer, nav.saved} /\ nav' = NoNav
  /\ UNCHANGED <<phase, queue, nextId, reserved, history, active, sent>>

\* A command of the front end, or all of it deleted.
Consume ==
  /\ KeyRead /\ composer # 0
  /\ composer' = 0 /\ gone' = gone \cup {composer, nav.saved} /\ nav' = NoNav
  /\ UNCHANGED <<phase, typed, queue, nextId, reserved, history, active, sent>>

\* Enter while a turn runs; a queue at its limit keeps the draft.
EnqueueDraft ==
  /\ phase = "turn" /\ KeyRead /\ composer # 0 /\ nextId < MaxIds
  /\ Len(queue) < MaxQueueItems /\ Bytes(queue) + SizeOf(composer) <= MaxQueueBytes
  /\ queue' = Append(queue, [id |-> nextId + 1, text |-> composer]) /\ nextId' = nextId + 1
  /\ composer' = 0 /\ gone' = gone \cup {nav.saved} /\ nav' = NoNav
  /\ UNCHANGED <<phase, typed, reserved, history, active, sent>>

\* The mistake a check would meet: the draft is not put in the prompt's place.
Recalled_DraftDropped(draft) == Front(queue)
\* The newest prompt that waits trades places with the draft.
Recalled(draft) ==
  LET latest == Last(queue) IN
  IF draft = 0 THEN Front(queue) ELSE Append(Front(queue), [id |-> latest.id, text |-> draft])
RecallLatest ==
  /\ KeyRead /\ Waiting # 0 /\ Last(queue).id # reserved
  /\ Bytes(Front(queue)) + SizeOf(composer) <= MaxQueueBytes
  /\ queue' = Recalled(composer) /\ composer' = Last(queue).text
  /\ gone' = gone \cup {nav.saved} /\ nav' = NoNav
  /\ UNCHANGED <<phase, typed, nextId, reserved, history, active, sent>>

NewestAt(offset) == history[Len(history) - offset]
NextOffset == IF nav.on THEN nav.offset + 1 ELSE 0
Show(offset) ==
  /\ composer' = NewestAt(offset)
  /\ nav' = [on |-> TRUE, offset |-> offset, saved |-> IF nav.on THEN nav.saved ELSE composer]

HistoryPrevious ==
  /\ KeyRead /\ Waiting = 0 /\ NextOffset < Len(history) /\ Show(NextOffset)
  /\ UNCHANGED <<phase, typed, queue, nextId, reserved, history, active, sent, gone>>

\* A search goes on with any older prompt that holds the draft it began with.
ReverseSearch ==
  /\ KeyRead /\ \E offset \in NextOffset..(Len(history) - 1) : Show(offset)
  /\ UNCHANGED <<phase, typed, queue, nextId, reserved, history, active, sent, gone>>

\* The way back, and behind the newest prompt the draft itself.  When several
\* entries made room for one recorded meanwhile, the next newer is not there.
HistoryNext ==
  /\ KeyRead /\ nav.on /\ nav.offset <= Len(history)
  /\ IF nav.offset = 0 THEN composer' = nav.saved /\ nav' = NoNav ELSE Show(nav.offset - 1)
  /\ UNCHANGED <<phase, typed, queue, nextId, reserved, history, active, sent, gone>>

-----------------------------------------------------------------------------
(* Turns.                                                                    *)

\* The oldest prompt of the queue is sent before any draft; it keeps its place.
ReserveFront ==
  /\ phase = "idle" /\ Waiting # 0
  /\ phase' = "draw" /\ reserved' = Head(queue).id
  /\ active' = [text |-> Head(queue).text, id |-> Head(queue).id, committed |-> FALSE]
  /\ paused' = FALSE
  /\ UNCHANGED <<typed, composer, queue, nextId, history, nav, sent, gone>>

SubmitDraft ==
  /\ phase = "idle" /\ Waiting = 0 /\ composer # 0
  /\ phase' = "draw" /\ active' = [text |-> composer, id |-> 0, committed |-> FALSE]
  /\ composer' = 0 /\ gone' = gone \cup {nav.saved} /\ nav' = NoNav /\ paused' = FALSE
  /\ UNCHANGED <<typed, queue, nextId, reserved, history, sent>>

DockDrawn ==
  /\ phase = "draw" /\ phase' = "turn"
  /\ UNCHANGED <<typed, memory, paused, active, sent, gone>>

\* A signal while the dock is drawn: no key was read since the prompt was taken,
\* and it goes back to where it came from before the signal is looked at.
DrawInterrupted ==
  LET back == IF active.id = 0 THEN active.text ELSE composer IN
  /\ phase = "draw" /\ reserved' = 0 /\ active' = NoTurn
  /\ \/ phase' = "idle" /\ composer' = back /\ UNCHANGED <<nav, gone>>
     \/ /\ back # 0 /\ phase' = "idle"
        /\ composer' = 0 /\ gone' = gone \cup {back, nav.saved} /\ nav' = NoNav
     \/ phase' = "over" /\ composer' = back /\ UNCHANGED <<nav, gone>>
  /\ UNCHANGED <<typed, queue, nextId, paused, history, sent>>

\* The message of the user reaches the session, and the loop sees it.
PromptCommitted ==
  /\ phase = "turn" /\ ~active.committed
  /\ active' = [active EXCEPT !.committed = TRUE]
  /\ UNCHANGED <<phase, typed, composer, queue, nextId, reserved, paused, history, nav, sent, gone>>

\* The oldest entries make room for the new one, for which all of the room is
\* enough; a navigation under way counts from the newest and moves on by one.
Fits(rest, text) ==
  \/ rest = <<>>
  \/ /\ Len(rest) < MaxHistoryItems
     /\ FoldSeq(LAMBDA t, total : Size[t] + total, 0, rest) + Size[text] <= MaxHistoryBytes
Kept(k) == SubSeq(history, k + 1, Len(history))
Recorded(text) ==
  LET evict == Min({k \in 0..Len(history) : Fits(Kept(k), text)})
  IN Append(Kept(evict), text)
RebasedNav == IF nav.on THEN [nav EXCEPT !.offset = @ + 1] ELSE nav

\* settle_enhanced_prompt, behind a turn that leaves the loop running.
SettleCommitted ==
  /\ phase = "turn" /\ active.committed
  /\ IF active.id = 0 THEN UNCHANGED <<queue, reserved, sent>>
     ELSE queue' = Tail(queue) /\ reserved' = 0 /\ sent' = active.id
  /\ history' = Recorded(active.text) /\ nav' = RebasedNav
  /\ phase' = "idle" /\ active' = NoTurn /\ paused' = FALSE /\ gone' = gone \cup {active.text}
  /\ UNCHANGED <<typed, composer, nextId>>

\* A queued prompt that was not admitted stays in front, and waits for a key.
ReleaseReserved ==
  /\ phase = "turn" /\ ~active.committed /\ active.id # 0
  /\ reserved' = 0 /\ paused' = TRUE /\ phase' = "idle" /\ active' = NoTurn
  /\ UNCHANGED <<typed, composer, queue, nextId, history, nav, sent, gone>>

\* A draft goes back to the composer, when nothing was typed there meanwhile;
\* what else was typed ends the program.
RestoreDraft ==
  /\ phase = "turn" /\ ~active.committed /\ active.id = 0
  /\ IF composer = 0
     THEN /\ phase' = "idle" /\ composer' = active.text /\ active' = NoTurn
          /\ UNCHANGED <<queue, reserved, nav>>
     ELSE /\ phase' = "failed" /\ composer' = 0 /\ queue' = <<>> /\ nav' = NoNav
          /\ reserved' = 0 /\ active' = NoTurn
  /\ UNCHANGED <<typed, nextId, paused, history, sent, gone>>

\* Exit, end of input, a signal or a fault that ends the program.
Leave ==
  /\ phase \in {"idle", "turn"} /\ phase' = "over" /\ reserved' = 0
  /\ active' = NoTurn /\ gone' = gone \cup {active.text}
  /\ UNCHANGED <<typed, composer, queue, nextId, paused, history, nav, sent>>

Keys ==
  \/ Type \/ Consume \/ EnqueueDraft \/ RecallLatest
  \/ HistoryPrevious \/ HistoryNext \/ ReverseSearch
Turns ==
  \/ ReserveFront \/ SubmitDraft \/ DockDrawn \/ DrawInterrupted \/ PromptCommitted
  \/ SettleCommitted \/ ReleaseReserved \/ RestoreDraft \/ Leave
Next == Keys \/ Turns

Spec == Init /\ [][Next]_vars

-----------------------------------------------------------------------------
(* Properties.                                                               *)

Held == {composer, nav.saved, active.text} \cup {queue[i].text : i \in DOMAIN queue}

\* Whatever is typed, queued, recalled and looked up while turns begin, commit
\* and are refused, every text is somewhere until it was sent or given up; what
\* was queued is sent once, the oldest first; and a turn holds the front of the
\* queue for itself.
PromptsKept ==
  /\ (phase # "failed" => 1..typed \subseteq Held \cup gone)
  /\ \A i \in DOMAIN queue : sent < queue[i].id
  /\ \A i, k \in DOMAIN queue : i < k => queue[i].id < queue[k].id
  /\ (phase \in {"draw", "turn"} /\ active.id # 0 =>
        reserved = active.id /\ queue # <<>> /\ Head(queue) = [id |-> reserved, text |-> active.text])

\* A draft survives running work and its cancellation (tui-v2.md).
DraftSurvives == 1..typed \subseteq Held \cup gone
=============================================================================
