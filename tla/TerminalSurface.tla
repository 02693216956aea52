---------------------------- MODULE TerminalSurface ----------------------------
(***************************************************************************)
(* The screen of the enhanced front end (src/src/tui/inline_screen.rs,     *)
(* dock.rs, the view of tui/view.rs and what cli/interactive.rs does with  *)
(* them): text scrolls above a dock that owns the bottom rows, and every   *)
(* change is a batch of coordinates staged against a ledger of where the   *)
(* text ends.  The batch may be cut short by a signal, a failure or a      *)
(* resize; then nobody knows what is on the screen.                        *)
(* A resize keeps the top rows in place, as the terminal of the tests      *)
(* (tui/terminal_model.rs) does.                                           *)
(***************************************************************************)
EXTENDS Integers, Sequences, FiniteSetsExt, SequencesExt

CONSTANTS Columns, Heights, MinDetail,  \* MIN_ENHANCED_ROWS
          FullDock, SmallDock,          \* rows of the dock, and of the rescue dock
          Chunks,                       \* texts: widths of graphemes, 0 for a line feed
          Fixed, Docs,                  \* fixed rows of a panel, lines a document may have
          MaxTexts, MaxKeys, MaxAsks, MaxFaults  \* bounds; a fault: a resize, a cut, a stop

VARIABLES term,    \* the emulator: its rows, what scrolled out of them, its cursor
          screen,  \* InlineScreen: the ledger
          write,   \* the batch that is being written
          text,    \* the text that waits to be written
          view,    \* ViewState
          loop,    \* what else the loop remembers: the last size, a redraw, the approval
          said,    \* history: the units on the screen and in the scrollback, in order
          typed,   \* history: what was on the screen when a key reached the composer
          used     \* what has been used of the bounds

vars == <<term, screen, write, text, view, loop, said, typed, used>>

Repeat(n, x) == [k \in 1..n |-> x]

-----------------------------------------------------------------------------
(* The terminal.                                                           *)

Cell(what, unit) == [what |-> what, unit |-> unit]
Blank == Cell("blank", 0)
BlankRow == Repeat(Columns, Blank)
Size == Len(term.rows)

\* A line feed also returns the cursor (ONLCR).
LineFeed(t) ==
  IF t.r = Len(t.rows)
  THEN [t EXCEPT !.hist = Append(@, t.rows[1]), !.rows = Append(Tail(@), BlankRow),
                 !.c = 1, !.wrap = FALSE]
  ELSE [t EXCEPT !.r = @ + 1, !.c = 1, !.wrap = FALSE]

Put(t, cell, width) ==
  LET u == IF t.wrap \/ t.c + width - 1 > Columns THEN LineFeed(t) ELSE t
      row == [u.rows[u.r] EXCEPT ![u.c] = cell]
      full == IF width = 2 THEN [row EXCEPT ![u.c + 1] = Cell("wide", cell.unit)] ELSE row
  IN [u EXCEPT !.rows[u.r] = full, !.c = @ + width, !.wrap = u.c + width > Columns]

Op(op, r, c, cell, width) == [op |-> op, r |-> r, c |-> c, cell |-> cell, width |-> width]
Cup(r, c) == Op("cup", r, c, Blank, 0)
EraseLine == Op("el", 0, 0, Blank, 0)
Feed == Op("lf", 0, 0, Blank, 0)
Write(cell, width) == Op("put", 0, 0, cell, width)

Apply(t, o) ==
  CASE o.op = "cup" -> [t EXCEPT !.r = Min({o.r, Len(t.rows)}), !.c = Min({o.c, Columns}),
                                 !.wrap = FALSE]
    [] o.op = "el" -> [t EXCEPT !.rows[t.r] = BlankRow, !.wrap = FALSE]
    [] o.op = "lf" -> LineFeed(t)
    [] o.op = "put" -> Put(t, o.cell, o.width)
Run(t, ops) == FoldLeft(Apply, t, ops)
First(seq, n) == SubSeq(seq, 1, n)

\* POISON_REATTACH_BYTES, POISON_TEARDOWN_BYTES: ED2 and home
Reset(t) == [t EXCEPT !.rows = Repeat(Len(t.rows), BlankRow), !.r = 1, !.c = 1, !.wrap = FALSE]

Resized(t, n) ==
  [t EXCEPT !.rows = [k \in 1..n |-> IF k <= Len(t.rows) THEN t.rows[k] ELSE BlankRow],
            !.r = Min({@, n})]

-----------------------------------------------------------------------------
(* The batches of InlineScreen.                                            *)

\* DockFrame::layout and layout_detail: how many rows, and what they show.
Rows(size, mode) ==
  IF mode = "focus" THEN IF size < MinDetail THEN SmallDock ELSE FullDock ELSE size - 1
Frame(size, mode, shows) == [size |-> size, rows |-> Rows(size, mode), shows |-> shows]

ClearRows(from, to) == FlattenSeq([k \in 1..(to + 1 - from) |-> <<Cup(from + k - 1, 1), EraseLine>>])
ClearBottom(f) == ClearRows(f.size - f.rows + 1, f.size)
RenderBottom(f) ==
  FlattenSeq([k \in 1..f.rows |-> <<Cup(f.size - f.rows + k, 1), EraseLine,
                                    Write(Cell(f.shows, 0), 1)>>])
  \o <<Cup(f.size, 1)>>

Detached == [state |-> "detached", size |-> 0, dock |-> 0, row |-> 0, col |-> 0, full |-> FALSE,
             seal |-> [unit |-> 0, width |-> 0, col |-> 0]]
Poisoned == [Detached EXCEPT !.state = "poisoned"]
NoSeal == Detached.seal
Fresh(f) == [Detached EXCEPT !.state = "ready", !.size = f.size, !.dock = f.rows,
                             !.row = f.size - f.rows, !.col = 1]

Batch(ops, next) == [ops |-> ops, next |-> next]
StageAttach(f) ==
  Batch(<<Cup(f.size, 1)>> \o Repeat(f.rows + 1, Feed) \o RenderBottom(f), Fresh(f))
StageDock(f) == Batch(ClearBottom(f) \o RenderBottom(f), screen)
\* reserve_dock_space: the rows that the dock needs scroll out at the top.
MakeRoom(f, scrolls) ==
  IF scrolls = 0 THEN <<>> ELSE <<Cup(f.size, 1)>> \o Repeat(scrolls, Feed)
StageReanchor_NoScroll(f) ==
  Batch(ClearRows(screen.size - screen.dock + 1, screen.size) \o RenderBottom(f),
        [screen EXCEPT !.dock = f.rows, !.row = Min({@, f.size - f.rows})])
StageReanchor(f) ==
  LET scrolls == Max({0, screen.row - (f.size - f.rows)}) IN
  Batch(ClearRows(screen.size - screen.dock + 1, screen.size) \o MakeRoom(f, scrolls)
          \o RenderBottom(f),
        [screen EXCEPT !.dock = f.rows, !.row = @ - scrolls])
StageResize(f) ==
  Batch(ClearRows(screen.size - screen.dock + 1, Min({screen.size, f.size}))
          \o <<Cup(f.size, 1)>> \o Repeat(f.rows + 1, Feed) \o RenderBottom(f),
        Fresh(f))
StageDetach ==
  Batch(ClearRows(screen.row + 1, screen.size) \o <<Cup(screen.row, screen.col), Feed>>, Detached)

\* stage_surface
StageSurface(f) ==
  IF screen.state = "detached" THEN StageAttach(f)
  ELSE IF f.size # loop.last THEN StageResize(f)
  ELSE IF f.rows # screen.dock THEN StageReanchor(f)
  ELSE StageDock(f)

\* advance_line_feed, advance_soft_wrap
Advance(l) == [l EXCEPT !.row = Min({@ + 1, l.size}), !.col = 1, !.full = FALSE, !.seal = NoSeal]

\* A grapheme, and where the ledger says that it stands.
Grapheme(acc, unit, width) ==
  LET l == IF acc.led.full \/ acc.led.col - 1 + width > Columns THEN Advance(acc.led) ELSE acc.led
      next == l.col + width
      led == IF next > Columns
             THEN [l EXCEPT !.col = Columns, !.full = TRUE,
                            !.seal = [unit |-> unit, width |-> width, col |-> l.col]]
             ELSE [l EXCEPT !.col = next]
  IN [ops |-> Append(acc.ops, Write(Cell("text", unit), width)), led |-> led, unit |-> unit]
Item(acc, width) ==
  IF width = 0 THEN [acc EXCEPT !.ops = Append(@, Feed), !.led = Advance(@)]
  ELSE Grapheme(acc, acc.unit + 1, width)

\* stage_transcript: a full line is sealed again before the text goes on.
StageText(f, chunk) ==
  LET start == IF screen.full
               THEN <<Cup(screen.row, screen.seal.col),
                      Write(Cell("text", screen.seal.unit), screen.seal.width)>>
               ELSE <<Cup(screen.row, screen.col)>>
      acc == FoldLeft(Item, [ops |-> ClearBottom(f) \o start, led |-> screen,
                             unit |-> used.units], chunk)
      scrolls == Max({0, acc.led.row - (f.size - f.rows)})
  IN Batch(acc.ops \o MakeRoom(f, scrolls) \o RenderBottom(f),
           [acc.led EXCEPT !.row = @ - scrolls])

\* validate_ready_frame
Valid(f) ==
  /\ screen.state = "ready" /\ f.size = screen.size /\ f.rows = screen.dock
  /\ screen.row \in 1..(screen.size - screen.dock)

-----------------------------------------------------------------------------
(* ViewState.                                                              *)

Focus == [mode |-> "focus", offset |-> 0, revision |-> 0]
NoWrite == [intent |-> "none", ops |-> <<>>, next |-> Detached, request |-> Focus,
            offset |-> 0, total |-> 0, page |-> 0]
Idle == write.intent = "none"

RequestMode(v, mode) ==
  IF v.requested.mode = mode THEN v
  ELSE [v EXCEPT !.requested = [mode |-> mode, offset |-> 0, revision |-> @.revision + 1]]
RequestOffset(v, n) ==
  IF v.requested.mode = "focus" \/ v.requested.offset = n THEN v
  ELSE [v EXCEPT !.requested.offset = n, !.requested.revision = @ + 1]
ScrollLines(v, delta) ==
  RequestOffset(v, Min({Max({0, v.requested.offset + delta}), Max({0, v.total - v.page})}))

\* SurfaceCommit of a frame that the document of n lines filled.
Surface(intent, batch, request, size, n) ==
  LET page == size - 1 - Fixed IN
  [intent |-> intent, ops |-> batch.ops, next |-> batch.next, request |-> request,
   offset |-> IF request.mode = "focus" THEN 0 ELSE Min({request.offset, Max({0, n - page})}),
   total |-> IF request.mode = "focus" THEN 0 ELSE n,
   page |-> IF request.mode = "focus" THEN 0 ELSE page]

CommitView(v, w) ==
  IF w.request.revision # v.requested.revision \/ w.request.mode # v.requested.mode THEN v
  ELSE [v EXCEPT !.requested.offset = w.offset,
                 !.committed = [w.request EXCEPT !.offset = w.offset],
                 !.total = w.total, !.page = w.page]

-----------------------------------------------------------------------------
(* The loop.                                                               *)

NoText == [kind |-> "none", chunk |-> <<>>]

Init ==
  /\ \E n \in Heights :
       /\ term = [rows |-> Repeat(n, BlankRow), hist |-> <<>>, r |-> 1, c |-> 1, wrap |-> FALSE]
       /\ loop = [last |-> n, redraw |-> FALSE, again |-> FALSE, ask |-> "none", run |-> "on"]
  /\ screen = Detached /\ text = NoText
  /\ view = [requested |-> Focus, committed |-> Focus, total |-> 0, page |-> 0]
  /\ write = NoWrite /\ said = <<>> /\ typed = {}
  /\ used = [units |-> 0, texts |-> 0, keys |-> 0, faults |-> 0, asks |-> 0]

Running == loop.run = "on"
Ready == screen.state = "ready"
Units(rows) ==
  LET texts == SelectSeq(FlattenSeq(rows), LAMBDA c : c.what = "text")
  IN [k \in DOMAIN texts |-> texts[k].unit]
\* What of the front end is on the screen.
OnScreen == {cell.what : cell \in UNION {Range(row) : row \in Range(term.rows)}}
              \ {"blank", "text", "wide"}

\* dock_interaction: the approval is on the dock once its selector is drawn.
Selecting == loop.ask \in {"selector", "accepting"}
Surfaced(v) == Frame(Size, v.requested.mode, IF Selecting THEN "approval" ELSE v.requested.mode)
\* enhanced_surface_frame
Forced(v) == IF Selecting \/ Size < MinDetail THEN RequestMode(v, "focus") ELSE v

\* recover_poisoned_screen
Recover ==
  /\ Running /\ Idle /\ screen.state = "poisoned"
  /\ term' = Reset(term) /\ screen' = Detached /\ said' = Units(term.hist)
  /\ UNCHANGED <<write, text, view, loop, typed, used>>

\* reconcile_active_geometry, or a redraw that was asked for
MustDraw == ~Ready \/ loop.again \/ Size # loop.last \/ (loop.redraw /\ text = NoText)
Draw ==
  /\ Running /\ Idle /\ screen.state # "poisoned" /\ MustDraw
  /\ view' = Forced(view)
  /\ \E n \in Docs :
       write' = Surface("dock", StageSurface(Surfaced(view')), view'.requested, Size, n)
  /\ loop' = [loop EXCEPT !.redraw = @ /\ text # NoText, !.again = FALSE]
  /\ UNCHANGED <<term, screen, text, said, typed, used>>

\* A frame arrives of an event of the turn, or of the front end itself between turns.
TextArrives(kind, chunk) ==
  /\ Running /\ Idle /\ text = NoText /\ ~loop.redraw /\ ~loop.again /\ loop.ask = "none" /\ Ready
  /\ used.texts < MaxTexts /\ used' = [used EXCEPT !.texts = @ + 1]
  /\ text' = [kind |-> kind, chunk |-> chunk]
  /\ loop' = [loop EXCEPT !.redraw = (kind = "turn" /\ view.requested.mode # "focus")]
  /\ UNCHANGED <<term, screen, write, view, said, typed>>

\* The text that waits is staged below what was drawn last.
Stage(f) ==
  \E n \in Docs : write' = Surface("text", StageText(f, text.chunk), view.committed, Size, n)
Drawn == Frame(Size, view.committed.mode, view.committed.mode)

\* complete_ready_frame: another size than the one that was drawn is an error.
BeginWrite ==
  /\ Running /\ Idle /\ ~loop.again /\ text.kind \in {"turn", "preview"} /\ Ready
  /\ IF Size = loop.last /\ Valid(Drawn) THEN Stage(Drawn) /\ UNCHANGED loop
     ELSE /\ loop' = [loop EXCEPT !.run = IF Size = loop.last THEN "refused" ELSE "moved"]
          /\ UNCHANGED write
  /\ UNCHANGED <<term, screen, text, view, said, typed, used>>
\* write_enhanced_terminal_frame
BeginFinal ==
  /\ Running /\ Idle /\ text.kind = "final" /\ ~MustDraw
  /\ IF Valid(Drawn) THEN Stage(Drawn) /\ UNCHANGED loop
     ELSE loop' = [loop EXCEPT !.run = "refused"] /\ UNCHANGED write
  /\ UNCHANGED <<term, screen, text, view, said, typed, used>>
BeginSelector ==
  /\ Running /\ Idle /\ ~loop.again /\ text.kind = "selector" /\ Ready
  /\ IF Size # loop.last
     THEN loop' = [loop EXCEPT !.run = "moved"] /\ UNCHANGED <<view, write>>
     ELSE /\ view' = Forced(view)
          /\ write' = Surface("selector", StageSurface(Surfaced(view')), view'.requested, Size, 0)
          /\ UNCHANGED loop
  /\ UNCHANGED <<term, screen, text, said, typed, used>>

NewUnits(chunk) ==
  [k \in 1..Len(SelectSeq(chunk, LAMBDA w : w # 0)) |-> used.units + k]

\* InlineScreen::commit and what follows a frame that is on the screen.
Complete ==
  /\ ~Idle /\ term' = Run(term, write.ops) /\ screen' = write.next /\ write' = NoWrite
  /\ IF write.intent = "detach" THEN UNCHANGED view ELSE view' = CommitView(view, write)
  /\ CASE write.intent = "dock" ->
            /\ loop' = [loop EXCEPT !.last = Size, !.ask = IF @ = "asked" THEN "preview" ELSE @]
            /\ \E chunk \in Chunks :
                 text' = IF loop.ask = "asked" THEN [kind |-> "preview", chunk |-> chunk] ELSE text
            /\ UNCHANGED <<said, used>>
       [] write.intent = "text" ->
            /\ said' = said \o NewUnits(text.chunk)
            /\ used' = [used EXCEPT !.units = @ + Len(NewUnits(text.chunk))]
            /\ loop' = [loop EXCEPT !.ask = IF @ = "preview" THEN "arming" ELSE @]
            /\ text' = NoText
       [] write.intent = "selector" ->
            /\ loop' = [loop EXCEPT !.ask = "accepting"]
            /\ text' = NoText /\ UNCHANGED <<said, used>>
       [] OTHER ->
            /\ loop' = [loop EXCEPT !.run = "suspended"] /\ UNCHANGED <<text, said, used>>
  /\ UNCHANGED typed

\* The terminal has another size when the first k operations are written.
CutByResize(k, n) ==
  LET t == Resized(Run(term, First(write.ops, k)), n) IN
  /\ ~Idle /\ k \in 0..(Len(write.ops) - 1) /\ n # Size
  /\ used.faults < MaxFaults /\ used' = [used EXCEPT !.faults = @ + 1]
  /\ write' = NoWrite
  /\ IF write.intent = "detach"
     THEN /\ term' = Reset(t) /\ screen' = Detached /\ said' = Units(t.hist)
          /\ loop' = [loop EXCEPT !.run = "suspended"]
     ELSE /\ term' = t /\ UNCHANGED said
          /\ screen' = IF k = 0 THEN screen ELSE Poisoned
          /\ loop' = [loop EXCEPT
                        !.run = IF k # 0 /\ write.intent = "text" /\ text.kind # "final"
                                THEN "torn" ELSE @,
                        !.again = (write.intent = "dock")]
  /\ UNCHANGED <<text, view, typed>>

\* A signal ends the turn, and what was pending is dropped.
CutByStop(k) ==
  /\ ~Idle /\ k \in 0..(Len(write.ops) - 1)
  /\ used.faults < MaxFaults /\ used' = [used EXCEPT !.faults = @ + 1]
  /\ write' = NoWrite /\ term' = Run(term, First(write.ops, k))
  /\ screen' = IF k = 0 THEN screen ELSE Poisoned
  /\ text' = NoText
  /\ loop' = [loop EXCEPT !.ask = "none", !.redraw = TRUE,
                          !.run = IF write.intent = "detach" THEN "exit" ELSE @]
  /\ UNCHANGED <<view, said, typed>>

\* apply_detail_key
DetailKey(v, key) ==
  CASE key = "inspect" -> RequestMode(v, "focus")
    [] key = "tab" -> RequestMode(v, IF v.requested.mode = "inspect" THEN "review" ELSE "inspect")
    [] key = "down" -> ScrollLines(v, 1)
    [] key = "up" -> ScrollLines(v, -1)
    [] OTHER -> v

\* apply_enhanced_input: keys are dropped until the view they ask for is drawn.
FocusKey(key) ==
  /\ view' = IF key \in {"inspect", "review"} THEN RequestMode(view, key) ELSE view
  /\ typed' = IF key = "char" THEN typed \cup OnScreen ELSE typed
Key(key) ==
  /\ Running /\ Ready /\ loop.ask \in {"none", "preview"}
  /\ write.intent = "text" \/ (Idle /\ text = NoText /\ ~loop.redraw /\ ~loop.again)
  /\ used.keys < MaxKeys /\ used' = [used EXCEPT !.keys = @ + 1]
  /\ IF view.requested # view.committed THEN UNCHANGED <<view, typed>>
     ELSE IF view.committed.mode = "focus" THEN FocusKey(key)
     ELSE view' = DetailKey(view, key) /\ UNCHANGED typed
  /\ loop' = [loop EXCEPT !.redraw = @ \/ view' # view \/ view.requested # view.committed]
  /\ UNCHANGED <<term, screen, write, text, said>>

\* A question of the agent: the panel is closed before its preview is shown.
Ask ==
  /\ Running /\ Idle /\ text = NoText /\ ~loop.redraw /\ ~loop.again /\ loop.ask = "none" /\ Ready
  /\ used.asks < MaxAsks /\ used' = [used EXCEPT !.asks = @ + 1]
  /\ view' = RequestMode(view, "focus")
  /\ loop' = [loop EXCEPT !.ask = "asked", !.redraw = TRUE]
  /\ UNCHANGED <<term, screen, write, text, said, typed>>
Armed ==
  /\ Running /\ Idle /\ text = NoText /\ ~loop.redraw /\ ~loop.again /\ loop.ask = "arming" /\ Ready
  /\ loop' = [loop EXCEPT !.ask = "selector"]
  /\ text' = [kind |-> "selector", chunk |-> <<>>]
  /\ UNCHANGED <<term, screen, write, view, said, typed, used>>
Answer ==
  /\ Running /\ Idle /\ text = NoText /\ loop.ask = "accepting"
  /\ loop' = [loop EXCEPT !.ask = "none"]
  /\ UNCHANGED <<term, screen, write, text, view, said, typed, used>>

\* suspend_enhanced, what the shell writes meanwhile, and the return.
Suspend ==
  /\ Running /\ Idle /\ text = NoText /\ loop.ask = "none" /\ screen.state # "detached"
  /\ used.faults < MaxFaults /\ used' = [used EXCEPT !.faults = @ + 1]
  /\ IF Ready
     THEN write' = [NoWrite EXCEPT !.intent = "detach", !.ops = StageDetach.ops]
          /\ UNCHANGED <<term, screen, said, loop>>
     ELSE /\ term' = Reset(term) /\ screen' = Detached /\ said' = Units(term.hist)
          /\ loop' = [loop EXCEPT !.run = "suspended"] /\ UNCHANGED write
  /\ UNCHANGED <<text, view, typed>>
Shell ==
  /\ loop.run = "suspended" /\ used.texts < MaxTexts
  /\ term' = LineFeed(Put(term, Cell("text", used.units + 1), 1))
  /\ said' = Append(said, used.units + 1)
  /\ used' = [used EXCEPT !.units = @ + 1, !.texts = @ + 1]
  /\ UNCHANGED <<screen, write, text, view, loop, typed>>
Resume ==
  /\ loop.run = "suspended" /\ loop' = [loop EXCEPT !.run = "on", !.redraw = TRUE]
  /\ UNCHANGED <<term, screen, write, text, view, said, typed, used>>

Resize(n) ==
  /\ loop.run \in {"on", "suspended"} /\ Idle /\ n # Size
  /\ Size = loop.last \/ screen.state = "detached"
  /\ used.faults < MaxFaults /\ used' = [used EXCEPT !.faults = @ + 1]
  /\ term' = Resized(term, n) /\ said' = Units(term.hist \o Resized(term, n).rows)
  /\ UNCHANGED <<screen, write, text, view, loop, typed>>

Next ==
  \/ Recover \/ Draw \/ BeginWrite \/ BeginFinal \/ BeginSelector \/ Complete
  \/ \E kind \in {"turn", "final"}, chunk \in Chunks : TextArrives(kind, chunk)
  \/ \E k \in DOMAIN write.ops : CutByStop(k - 1) \/ \E n \in Heights : CutByResize(k - 1, n)
  \/ \E key \in {"inspect", "review", "tab", "up", "down", "char"} : Key(key)
  \/ Ask \/ Armed \/ Answer \/ Suspend \/ Shell \/ Resume
  \/ \E n \in Heights : Resize(n)

Spec == Init /\ [][Next]_vars

-----------------------------------------------------------------------------
(* Properties.                                                             *)

Settled ==
  /\ Running /\ Idle /\ Ready /\ Size = loop.last
  /\ ~loop.again /\ (loop.redraw => text # NoText)

\* Nothing of the dock or of a panel, which may hold a draft, ever scrolls out
\* of the screen.
NoPanelInHistory ==
  \A row \in Range(term.hist) : \A cell \in Range(row) : cell.what \in {"blank", "text", "wide"}

\* The text reads as it was written: nothing is overwritten, lost or repeated,
\* by the dock, by a panel that grows, by a resize or by the shell's return.
TextIsWhole ==
  Idle /\ screen.state # "poisoned" /\ loop.run \notin {"torn", "exit"}
    => Units(term.hist \o term.rows) = said

\* The ledger knows where the dock is and where the text ends, and no frame
\* that the loop stages is refused.
LedgerIsTrue ==
  /\ loop.run # "refused"
  /\ Settled =>
       \A r \in 1..Size : \A c \in 1..Columns :
         LET what == term.rows[r][c].what IN
         /\ (what \notin {"blank", "text", "wide"}) <=> (r > Size - screen.dock /\ c = 1)
         /\ r = screen.row /\ ~screen.full /\ c >= screen.col => what = "blank"
         /\ r = screen.row /\ screen.full /\ c = screen.seal.col
              => term.rows[r][c].unit = screen.seal.unit
         /\ r > screen.row => what \notin {"text", "wide"}

\* What the keys act on is what the user sees: a key reaches the composer only
\* from a screen without a panel, no redraw that a key asked for is forgotten,
\* and an answer is taken only from the selector.
KeysMeetScreen ==
  /\ typed \cap {"inspect", "review"} = {}
  /\ Settled /\ text = NoText =>
       /\ view.requested = view.committed
       /\ OnScreen \subseteq {view.committed.mode, "approval"}
       /\ loop.ask = "accepting" => OnScreen = {"approval"}

ScreenTellsTruth == NoPanelInHistory /\ TextIsWhole /\ LedgerIsTrue /\ KeysMeetScreen
=============================================================================
