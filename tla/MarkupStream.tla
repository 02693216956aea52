----------------------------- MODULE MarkupStream -----------------------------
(***************************************************************************)
(* How the text of the assistant becomes styled text on the screen         *)
(* (src/src/tui/markup.rs and EnhancedPresenter in cli/live.rs).  Text     *)
(* arrives in chunks that are cut anywhere, so a line prefix, an inline    *)
(* code or a fence that is not complete yet is held back; what turns out   *)
(* not to be markup, or to be too long, is shown as it was written.  A     *)
(* frame is prepared with the presenter that comes after it, which         *)
(* replaces the presenter only once the frame is on the screen.            *)
(***************************************************************************)
EXTENDS Integers, Sequences, FiniteSetsExt, SequencesExt

CONSTANTS Keys, Chunks,                       \* streams, and the chunks of text that may arrive
          MaxPrefix, MaxInline, MaxFence,     \* MAX_LINE_PREFIX_BYTES, MAX_INLINE_CODE_BYTES, ...
          MaxLabel, MaxRuns,                  \* of a language, MAX_STYLE_RUNS
          MaxFrame,                           \* text in one frame
          MaxText, MaxOther, MaxCuts          \* bounds: characters, other frames, boundaries

VARIABLES presenter,  \* EnhancedPresenter
          ready,      \* the frame that is being written, and the presenter after it
          shown,      \* history: what was written
          given,      \* history: the text of each stream
          used        \* what has been used of the bounds

vars == <<presenter, ready, shown, given, used>>

Tick == "tick"
First(s, n) == SubSeq(s, 1, n)
Rest(s, n) == SubSeq(s, n + 1, Len(s))
Lead(s, S) == Max({n \in 0..Len(s) : \A k \in 1..n : s[k] \in S})
Fences(s) == Len(s) >= 3 /\ \A k \in 1..3 : s[k] = Tick
Trim(s) ==
  LET tail == Lead(Reverse(s), {" "}) IN
  Rest(First(s, Len(s) - tail), Lead(First(s, Len(s) - tail), {" "}))

-----------------------------------------------------------------------------
(* The prefix of a line.                                                   *)

Decision(kind, format, marker) == [kind |-> kind, format |-> format, marker |-> marker]
Body(format, marker) == Decision("body", format, marker)
Paragraph == Body("paragraph", 0)
Undecided(eol) == IF eol THEN Paragraph ELSE Decision("more", "paragraph", 0)

Heading(p, eol) ==
  LET n == Lead(p, {"#"}) IN
  IF n > 3 THEN Paragraph
  ELSE IF Len(p) = n THEN Undecided(eol)
  ELSE IF p[n + 1] = " " THEN Body("heading", n + 1) ELSE Paragraph
TwoBytes(p, format, eol) ==
  IF Len(p) = 1 THEN Undecided(eol) ELSE IF p[2] = " " THEN Body(format, 2) ELSE Paragraph
Ordered(p, eol) ==
  LET n == Lead(p, {"1"}) IN
  IF n > 3 \/ (Len(p) > n /\ p[n + 1] # ".") THEN Paragraph
  ELSE IF Len(p) <= n + 1 THEN Undecided(eol)
  ELSE IF p[n + 2] = " " THEN Body("list", n + 2) ELSE Paragraph
Fence(p, eol) ==
  LET label == Trim(Rest(p, 3)) IN
  IF Len(p) < 3 /\ Lead(p, {Tick}) = Len(p) THEN Undecided(eol)
  ELSE IF ~Fences(p) THEN Paragraph
  ELSE IF ~eol THEN Undecided(FALSE)
  ELSE IF Len(label) > MaxLabel \/ \E k \in DOMAIN label : label[k] \in {" ", Tick, "#"}
       THEN Decision("literal", "paragraph", 0)
       ELSE Decision("fence", IF label = <<"d">> THEN "diff" ELSE "code", 0)

Classify(p, eol) ==
  IF p = <<>> THEN Undecided(eol)
  ELSE CASE p[1] = "#" -> Heading(p, eol)
         [] p[1] \in {"-", "+"} -> TwoBytes(p, "list", eol)
         [] p[1] = ">" -> TwoBytes(p, "quote", eol)
         [] p[1] = "1" -> Ordered(p, eol)
         [] p[1] = Tick -> Fence(p, eol)
         [] OTHER -> Paragraph

BodyStyle(format) == IF format \in {"heading", "quote"} THEN format ELSE "assistant"
MarkerStyle(format) == IF format = "list" THEN "accent" ELSE BodyStyle(format)

-----------------------------------------------------------------------------
(* What is written.                                                        *)

NoCloser == [text |-> <<>>, viable |-> TRUE]
NoMarkup == [block |-> "markdown", kind |-> "code", buffer |-> <<>>, closer |-> NoCloser,
             line |-> "prefix", prefix |-> <<>>, pending |-> <<>>, disabled |-> FALSE,
             runs |-> 0, last |-> "none", degraded |-> FALSE, omitted |-> FALSE]
\* The presenter, what it wrote, the text that the frame has room for, and
\* history: whether text was shown in front of an earlier one that is held,
\* and whether a line was taken to be over that is not.
Start(room) == [start |-> TRUE, role |-> "none", key |-> 0, m |-> NoMarkup, out |-> <<>>,
                room |-> room, late |-> FALSE, glued |-> FALSE]

Item(ch, style, key) == [ch |-> ch, style |-> style, key |-> key]
WriteOut(p, items) == [p EXCEPT !.out = @ \o items, !.room = @ - Len(items)]
LineStart(p) ==
  IF p.start THEN p ELSE [WriteOut(p, <<Item("nl", "none", 0)>>) EXCEPT !.start = TRUE]
Feed(p) ==
  [WriteOut(p, <<Item("nl", "none", p.key)>>) EXCEPT !.m.last = "none", !.start = TRUE]

\* emit: one style start too many, and everything that follows is plain.
Emit(p, style, text) ==
  LET want == IF p.m.degraded THEN "assistant" ELSE style
      starts == want # "assistant" /\ p.m.last # want
      over == starts /\ p.m.runs = MaxRuns
      shape == IF over THEN "assistant" ELSE want
      q == WriteOut(p, [k \in DOMAIN text |-> Item(text[k], shape, p.key)])
  IN IF text = <<>> THEN p
     ELSE [q EXCEPT !.m.degraded = @ \/ over, !.m.last = shape, !.start = FALSE,
                    !.m.runs = IF starts /\ ~over THEN @ + 1 ELSE @]

Omit(p) ==
  LET q == LineStart(p)
      r == WriteOut(q, <<Item("omitted", "muted", 0), Item("nl", "none", 0)>>)
  IN [r EXCEPT !.m = [NoMarkup EXCEPT !.runs = p.m.runs, !.degraded = p.m.degraded,
                                      !.omitted = TRUE]]
HasRoom(p, text) == Len(text) <= p.room

-----------------------------------------------------------------------------
(* MarkupState.                                                            *)

RECURSIVE InlineFrom(_, _, _)
InlineFrom(p, style, text) ==
  LET at == IF Tick \in Range(text) THEN Lead(text, Range(text) \ {Tick}) + 1 ELSE 0
      size == Len(p.m.pending) + (IF at = 0 THEN Len(text) ELSE at)
      free == [p EXCEPT !.m.pending = <<>>]
  IN CASE text = <<>> -> p
       [] text # <<>> /\ p.m.pending = <<>> /\ at = 0 -> Emit(p, style, text)
       [] text # <<>> /\ p.m.pending = <<>> /\ at # 0 ->
            InlineFrom([Emit(p, style, First(text, at - 1)) EXCEPT !.m.pending = <<Tick>>],
                       style, Rest(text, at))
       [] text # <<>> /\ p.m.pending # <<>> /\ size > MaxInline ->
            [Emit(free, style, p.m.pending \o text) EXCEPT !.m.disabled = TRUE]
       [] text # <<>> /\ p.m.pending # <<>> /\ size <= MaxInline /\ at = 0 ->
            [p EXCEPT !.m.pending = @ \o text]
       [] text # <<>> /\ p.m.pending # <<>> /\ size <= MaxInline /\ at # 0 ->
            InlineFrom(Emit(free, "code", p.m.pending \o First(text, at)), style, Rest(text, at))
Inline(p, style, text) ==
  IF p.m.disabled \/ p.m.degraded THEN Emit(p, style, text) ELSE InlineFrom(p, style, text)
FlushInline(p) ==
  Emit([p EXCEPT !.m.pending = <<>>], BodyStyle(p.m.line), p.m.pending)

Resolve(p, d) ==
  LET q == [p EXCEPT !.m.line = d.format, !.m.prefix = <<>>] IN
  IF d.kind = "body"
  THEN Inline(Emit(q, MarkerStyle(d.format), First(p.m.prefix, d.marker)),
              BodyStyle(d.format), Rest(p.m.prefix, d.marker))
  ELSE Emit([q EXCEPT !.m.disabled = TRUE], "assistant", p.m.prefix)

RECURSIVE Markdown(_, _)
Markdown(p, text) ==
  LET held == [p EXCEPT !.m.prefix = Append(@, Head(text))]
      d == Classify(held.m.prefix, FALSE)
  IN IF text = <<>> THEN p
     ELSE IF p.m.degraded THEN Emit(p, "assistant", text)
     ELSE IF p.m.line # "prefix" THEN Inline(p, BodyStyle(p.m.line), text)
     ELSE IF Len(p.m.prefix) = MaxPrefix
     THEN Markdown(Resolve(p, IF Fences(p.m.prefix) THEN Decision("literal", "paragraph", 0)
                              ELSE Paragraph), text)
     ELSE Markdown(IF d.kind = "more" THEN held ELSE Resolve(held, d), Tail(text))

EndLine(p) ==
  LET d == Classify(p.m.prefix, TRUE)
      q == IF p.m.line = "prefix" THEN Resolve(p, d) ELSE p
  IN IF p.m.line = "prefix" /\ d.kind = "fence"
     THEN [p EXCEPT !.m = [@ EXCEPT !.block = "held", !.kind = d.format, !.closer = NoCloser,
                                    !.buffer = Append(p.m.prefix, "nl"), !.prefix = <<>>,
                                    !.pending = <<>>, !.disabled = FALSE]]
     ELSE [Feed(FlushInline(q)) EXCEPT !.m.line = "prefix", !.m.disabled = FALSE]
FinishLine(p) ==
  LET d == Classify(p.m.prefix, TRUE) IN
  FlushInline(IF p.m.line # "prefix" THEN p
              ELSE Resolve(p, IF d.kind = "fence" THEN Decision("literal", "paragraph", 0) ELSE d))

\* The pieces of a text, each up to and including a line feed.
Piece(text) == First(text, Min({Lead(text, Range(text) \ {"nl"}) + 1, Len(text)}))
EndsLine(text) == text # <<>> /\ Last(text) = "nl"
Content(text) == IF EndsLine(text) THEN Front(text) ELSE text

LiteralPiece(p, piece) ==
  LET q == Emit(p, "assistant", Content(piece)) IN IF EndsLine(piece) THEN Feed(q) ELSE q
RECURSIVE Literal(_, _)
Literal(p, text) ==
  IF text = <<>> THEN p
  ELSE Literal(LiteralPiece(p, Piece(text)), Rest(text, Len(Piece(text))))

DiffStyle(line) ==
  CASE line # <<>> /\ line[1] = "+" -> "add" [] line # <<>> /\ line[1] = "-" -> "remove"
    [] OTHER -> "code"
RECURSIVE FenceLines(_, _, _)
FenceLines(p, text, first) ==
  LET piece == Piece(text)
      rest == Rest(text, Len(piece))
      q == Emit(p, IF first \/ rest = <<>> THEN "muted"
                   ELSE IF p.m.kind = "diff" THEN DiffStyle(Content(piece)) ELSE "code",
                Content(piece))
  IN IF text = <<>> THEN p
     ELSE FenceLines(IF EndsLine(piece) THEN Feed(q) ELSE q, rest, FALSE)
ClosedFence(p, text) == IF HasRoom(p, text) THEN FenceLines(p, text, TRUE) ELSE Omit(p)

\* CloserTracker
Observe(c, text) ==
  LET t == c.text \o text
      ok == Len(t) <= MaxPrefix /\ \A k \in DOMAIN t : t[k] = IF k <= 3 THEN Tick ELSE " "
  IN IF ~c.viable \/ text = <<>> THEN c ELSE [text |-> IF ok THEN t ELSE <<>>, viable |-> ok]
Closes(c) == c.viable /\ Len(c.text) >= 3

\* A fence that is too long to be held is shown, and read on for its end.
HeldPiece(p, piece) ==
  LET c == Observe(p.m.closer, Content(piece))
      ends == EndsLine(piece) /\ Closes(c)
      buffer == p.m.buffer \o piece
      fits == Len(buffer) <= MaxFence
      next == [p EXCEPT !.m.closer = IF EndsLine(piece) THEN NoCloser ELSE c,
                        !.m.buffer = IF fits /\ ~ends THEN buffer ELSE <<>>]
  IN CASE fits /\ ends -> ClosedFence([next EXCEPT !.m.block = "markdown"], buffer)
       [] fits /\ ~ends -> next
       [] ~fits -> [Literal(next, buffer) EXCEPT !.m.block = IF ends THEN "markdown" ELSE "plain"]
PlainPiece(p, piece) ==
  LET c == Observe(p.m.closer, Content(piece))
      ends == EndsLine(piece) /\ Closes(c)
  IN [LiteralPiece(p, piece) EXCEPT !.m.closer = IF EndsLine(piece) THEN NoCloser ELSE c,
                                    !.m.block = IF ends THEN "markdown" ELSE "plain"]

RECURSIVE Pieces(_, _)
Pieces(p, text) ==
  LET piece == Piece(text)
      content == Markdown(p, Content(piece))
      next == CASE p.m.degraded ->
                     [LiteralPiece(p, piece) EXCEPT !.late = @ \/ p.m.pending # <<>>]
                [] ~p.m.degraded /\ p.m.block = "markdown" ->
                     IF EndsLine(piece) THEN EndLine(content) ELSE content
                [] ~p.m.degraded /\ p.m.block = "held" -> HeldPiece(p, piece)
                [] ~p.m.degraded /\ p.m.block = "plain" -> PlainPiece(p, piece)
  IN IF text = <<>> \/ p.m.omitted THEN p ELSE Pieces(next, Rest(text, Len(piece)))
Push(p, text) ==
  IF p.m.omitted THEN p ELSE IF HasRoom(p, text) THEN Pieces(p, text) ELSE Omit(p)

\* finish_inner; an answer that is cut off never closes a fence.
Finish(p, authoritative) ==
  LET closed == authoritative /\ Closes(p.m.closer)
      q == CASE p.m.block = "markdown" -> FinishLine(p)
             [] p.m.block = "held" /\ closed -> ClosedFence(p, p.m.buffer)
             [] p.m.block = "held" /\ ~closed -> Literal(p, p.m.buffer)
             [] p.m.block = "plain" -> p
  IN [(IF p.m.omitted THEN p ELSE q) EXCEPT !.m = NoMarkup]

Held(m) == m.buffer \o m.prefix \o m.pending

-----------------------------------------------------------------------------
(* EnhancedPresenter.                                                      *)

Header(p) ==
  WriteOut(LineStart(p), <<Item("DSH", "accent", 0), Item("nl", "none", 0)>>)
PendingHeader(p) == IF p.role # "assistant" /\ Held(p.m) # <<>> THEN Header(p) ELSE p

End(p, authoritative) ==
  IF p.key = 0 THEN p
  ELSE [Finish(PendingHeader(p), authoritative) EXCEPT !.key = 0, !.role = "none"]
MarkupPart(p, key, text) ==
  LET q == IF p.key # key THEN [End(p, FALSE) EXCEPT !.key = key] ELSE p
      r == IF q.role # "assistant" THEN Header(q) ELSE q
  IN [Push(r, text) EXCEPT !.role = "assistant"]
FinishPart(p, key) == IF key \in {0, p.key} THEN End(p, TRUE) ELSE p
\* A line of the product, and a fragment of another role
LinePart(p) ==
  WriteOut(LineStart(End(p, FALSE)), <<Item("other", "notice", 0), Item("nl", "none", 0)>>)
RolePart(p) ==
  LET q == End(p, FALSE)
      r == IF q.role # "user" THEN LineStart(q) ELSE q
  IN [WriteOut(r, <<Item("other", "user", 0)>>) EXCEPT !.start = FALSE, !.role = "user"]
Boundary(p) == [p EXCEPT !.start = TRUE, !.role = "none"]

NotReady == [on |-> FALSE, next |-> Start(0), key |-> 0, text |-> <<>>]
Init ==
  /\ presenter = Start(0) /\ ready = NotReady /\ shown = <<>> /\ given = [k \in Keys |-> <<>>]
  /\ used = [text |-> 0, other |-> 0, cuts |-> 0]

Fresh == [presenter EXCEPT !.room = MaxFrame]
Prepared(next, key, text) == [on |-> TRUE, next |-> next, key |-> key, text |-> text]
PrepareText(key, text) ==
  /\ ~ready.on /\ used.text + Len(text) <= MaxText
  /\ ready' = Prepared(MarkupPart(Fresh, key, text), key, text)
  /\ used' = [used EXCEPT !.text = @ + Len(text)]
  /\ UNCHANGED <<presenter, shown, given>>
PrepareOther(next) ==
  /\ ~ready.on /\ used.other < MaxOther /\ used' = [used EXCEPT !.other = @ + 1]
  /\ ready' = Prepared(next, 0, <<>>) /\ UNCHANGED <<presenter, shown, given>>
PrepareFinish(key) == PrepareOther(FinishPart(Fresh, key))

\* The frame is on the screen, or the turn failed while it was written.
Commit ==
  /\ ready.on /\ ready' = NotReady
  /\ presenter' = [ready.next EXCEPT !.out = <<>>, !.room = 0]
  /\ shown' = shown \o ready.next.out
  /\ given' = IF ready.key = 0 THEN given ELSE [given EXCEPT ![ready.key] = @ \o ready.text]
  /\ UNCHANGED used
Drop_KeepsNext ==
  /\ ready.on /\ ready' = NotReady /\ presenter' = [ready.next EXCEPT !.out = <<>>, !.room = 0]
  /\ UNCHANGED <<shown, given, used>>
Drop == ready.on /\ ready' = NotReady /\ UNCHANGED <<presenter, shown, given, used>>
\* The screen has another size: the text, that of a prepared frame as well,
\* goes on in a row of its own.
Redrawn ==
  /\ used.cuts < MaxCuts /\ used' = [used EXCEPT !.cuts = @ + 1]
  /\ presenter' = Boundary(presenter)
  /\ ready' = IF ready.on
              THEN [ready EXCEPT !.next = [Boundary(@) EXCEPT !.glued = @ \/ ~ready.next.start]]
              ELSE ready
  /\ shown' = Append(shown, Item("cut", "none", 0)) /\ UNCHANGED given

Next ==
  \/ \E key \in Keys, text \in Chunks : PrepareText(key, text)
  \/ \E key \in Keys \cup {0} : PrepareFinish(key)
  \/ PrepareOther(End(Fresh, FALSE)) \/ PrepareOther(LinePart(Fresh)) \/ PrepareOther(RolePart(Fresh))
  \/ Commit \/ Drop \/ Redrawn

Spec == Init /\ [][Next]_vars

-----------------------------------------------------------------------------
(* Properties.                                                             *)

Of(items, key) == SelectSeq(items, LAMBDA i : i.key = key)
TextOf(items, key) == LET mine == Of(items, key) IN [k \in DOMAIN mine |-> mine[k].ch]
Omits(items) == \E k \in DOMAIN items : items[k].ch = "omitted"
Ample == 1000
Ended == shown \o End([presenter EXCEPT !.room = Ample], TRUE).out

\* Whatever chunks the text comes in, what was shown and what is held back is
\* the text of each stream, in order and nothing else (MarkupState::push).
TextIsKept ==
  \A key \in Keys :
    TextOf(shown, key) \o (IF presenter.key = key THEN Held(presenter.m) ELSE <<>>) = given[key]

\* A stream that nothing interrupts looks as if it had come in one piece; where
\* a frame had no room, the rest of it is left out and said to be.
CutsLeaveNoTrace ==
  used.other = 0 /\ used.cuts = 0 =>
    \A key \in Keys :
      (\A other \in Keys \ {key} : given[other] = <<>>) =>
        IF Omits(shown) THEN IsPrefix(TextOf(shown, key), given[key]) /\ Last(shown).ch = "nl"
        ELSE Of(Ended, key)
               = Of(End(MarkupPart(Start(Ample), key, given[key]), TRUE).out, key)

\* The assistant's text stands under its header, and a header or a line of the
\* product begins a row.
HeadersStand ==
  \A i \in DOMAIN shown :
    LET marks == {j \in 1..i : shown[j].ch \in {"DSH", "other"}} IN
    /\ shown[i].key # 0 => marks # {} /\ shown[Max(marks)].ch = "DSH"
    /\ shown[i].ch = "DSH" \/ shown[i].style = "notice" =>
         i = 1 \/ shown[i - 1].ch \in {"nl", "cut"}

\* What the user reads is what the assistant wrote: whole, in order, shaped as
\* if no chunk had been cut, and under its header.  Left out are the two states
\* that the findings are about: text that was shown in front of a held one, and
\* a line taken to be over when the prepared frame had to move.
TextIsWhole ==
  /\ ~presenter.late /\ ~Omits(shown) => TextIsKept
  /\ ~presenter.late => CutsLeaveNoTrace
  /\ ~presenter.glued => HeadersStand

\* The limit of style starts "degrades to ordinary copyable text" (docs/design/
\* tui-v2.md:767): plain, and in the order in which it was written.
DegradedTextIsCopyable == Omits(shown) \/ TextIsKept

\* A change of the size of the window "starts a fresh transcript boundary"
\* (docs/design/tui-v2.md:450): what follows a boundary begins a row, and so
\* does every header.
BoundaryIsFresh == HeadersStand
=============================================================================
