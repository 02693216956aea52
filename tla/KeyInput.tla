------------------------------- MODULE KeyInput -------------------------------
(* From the bytes of the terminal to the draft: the key decoder (KeyDecoder), *)
(* the loop that feeds it with what it reads and throws away the rest of a    *)
(* read after some events (apply_enhanced_input), and the composer with its   *)
(* undo records and its yank (Composer).                                      *)
(*                                                                            *)
(* A byte is named for what it means on its own; "S" and "E" stand for the    *)
(* parameters 200 and 201 of a paste.  A text is a sequence of characters of  *)
(* one byte, of which "^" joins the character in front of it to one grapheme. *)
EXTENDS Integers, Sequences, SequencesExt, FiniteSets, TLC

CONSTANTS
  Keyboard,   \* the keys that the user presses
  Pastes,     \* the contents that the user pastes
  MaxPress,   \* bound on what the user does
  MaxAhead,   \* bound on what the user does before it is read
  MaxSeq,     \* MAX_CSI_BYTES
  MaxPaste,   \* MAX_PASTE_BYTES
  MaxPrompt,  \* MAX_PROMPT_BYTES
  MaxUndo,    \* MAX_UNDO_RECORDS
  MaxPayload, \* MAX_UNDO_PAYLOAD_BYTES
  Width       \* columns of the composer

VARIABLES
  typed,   \* what the user did, in order
  wire,    \* the bytes of it that were not read, each with the number of its press
  chunk,   \* what is left of the bytes of one read
  fence,   \* whether what comes is thrown away until it is quiet (PasteFence)
  dec,     \* KeyDecoder, with the presses it is in the middle of
  line,    \* Composer
  past,    \* what each undo record would bring back (history variable)
  said,    \* the events of the last byte, with the presses they come from (history variable)
  torn     \* the presses of which bytes were dropped or waited for too long (history variable)

vars == <<typed, wire, chunk, fence, dec, line, past, said, torn>>

-----------------------------------------------------------------------------
(* The keyboard.                                                             *)

PasteEnd == <<"ESC", "[", "E", "~">>

Sends(press) ==
  CASE press.key = "Left"  -> <<"ESC", "[", "D">>
    [] press.key = "^"     -> <<"lead", "cont">>
    [] press.key = "Up"    -> <<"ESC", "[", "A">>
    [] press.key = "Down"  -> <<"ESC", "[", "B">>
    [] press.key = "Long"  -> <<"ESC", "[", "S", "S", "S", "D">>
    [] press.key = "Paste" -> <<"ESC", "[", "S", "~">> \o press.text \o PasteEnd
    [] OTHER               -> <<press.key>>

Presses == [key : Keyboard, text : {<<>>}] \cup [key : {"Paste"}, text : Pastes]

Ground == [mode |-> "ground", seq |-> <<>>, utf |-> FALSE, text |-> <<>>, match |-> 0, ids |-> {}]
NoColumn == -1
Blank == [text |-> <<>>, cursor |-> 0, preferred |-> NoColumn, undo |-> <<>>, yank |-> <<>>]

Init ==
  /\ typed = <<>> /\ wire = <<>> /\ chunk = <<>> /\ fence = FALSE
  /\ dec = Ground /\ line = Blank /\ past = <<>> /\ said = <<>> /\ torn = {}

Ids(bytes) == {bytes[i].id : i \in DOMAIN bytes}

\* A lone Escape means what it says only when nothing follows it at once.
Press ==
  /\ Len(typed) < MaxPress /\ Cardinality(Ids(wire)) < MaxAhead
  /\ \A i \in Ids(wire) \cup dec.ids : typed[i].key # "ESC"
  /\ \E press \in Presses :
       LET bytes == Sends(press)
       IN  /\ press.key = "ESC" => wire = <<>> /\ dec.ids = {}
           /\ typed' = Append(typed, press)
           /\ wire' = wire \o [i \in DOMAIN bytes |-> [b |-> bytes[i], id |-> Len(typed')]]
  /\ UNCHANGED <<chunk, fence, dec, line, past, said, torn>>

-----------------------------------------------------------------------------
(* KeyDecoder: a byte gives the next state and at most two events.           *)

Event(key, ids) == [key |-> key, ids |-> ids, text |-> <<>>]
Gives(d, events) == [dec |-> d, events |-> events]
Controls == {"CR", "LF", "Home", "End", "Back", "Delete", "Word", "Before", "After", "Yank", "Undo"}
Parameter(b) == b \in {"S", "E", " "}
Final(b) == b \in {"[", "O", "A", "B", "D", "~", "a"}
Arrow == "A" :> "Up" @@ "B" :> "Down" @@ "D" :> "Left"
Printable(b) == Parameter(b) \/ Final(b)

FeedUtf8(b, ids) ==
  CASE dec.utf /\ b = "cont"   -> Gives(Ground, <<Event("^", ids)>>)
    [] ~dec.utf /\ b = "lead"  -> Gives([Ground EXCEPT !.utf = TRUE, !.ids = ids], <<>>)
    [] OTHER                   -> Gives(Ground, <<Event("Rejected", ids)>>)

FeedGround(b, ids) ==
  CASE dec.utf \/ b \in {"lead", "cont"} -> FeedUtf8(b, ids)
    [] b = "ESC"                         -> Gives([Ground EXCEPT !.mode = "escape", !.ids = ids], <<>>)
    [] b \in Controls \/ Printable(b)    -> Gives(Ground, <<Event(b, ids)>>)
    [] OTHER                             -> Gives(Ground, <<Event("Rejected", ids)>>)

FeedEscape(b, id, ids) ==
  CASE b = "[" -> Gives([dec EXCEPT !.mode = "csi", !.ids = ids], <<>>)
    [] b = "O" -> Gives([dec EXCEPT !.mode = "ss3", !.ids = ids], <<>>)
    [] OTHER   -> LET next == FeedGround(b, {id})
                  IN  [next EXCEPT !.events = <<Event("ESC", dec.ids)>> \o next.events]

FeedCsi(b, ids) ==
  LET seq == Append(dec.seq, b)
      kept == [dec EXCEPT !.seq = seq, !.ids = ids]
  IN CASE b = "ESC" -> Gives([Ground EXCEPT !.mode = "escape", !.ids = ids], <<Event("Rejected", ids)>>)
       [] b # "ESC" /\ Len(seq) > MaxSeq ->
            Gives(IF Final(b) THEN Ground ELSE [Ground EXCEPT !.mode = "drain", !.ids = ids],
                  <<Event("Rejected", ids)>>)
       [] Len(seq) <= MaxSeq /\ Parameter(b) -> Gives(kept, <<>>)
       [] Len(seq) <= MaxSeq /\ seq \in {<<k>> : k \in DOMAIN Arrow} ->
            Gives(Ground, <<Event(Arrow[b], ids)>>)
       [] Len(seq) <= MaxSeq /\ seq = <<"S", "~">> ->
            Gives([Ground EXCEPT !.mode = "paste", !.ids = ids], <<Event("PasteStarted", ids)>>)
       [] OTHER -> Gives(Ground, <<Event("Rejected", ids)>>)

FeedDrain(b, ids) ==
  IF Final(b) THEN Gives(Ground, <<Event("Rejected", ids)>>)
  ELSE Gives([dec EXCEPT !.ids = ids], <<>>)

FeedSs3(b, ids) ==
  Gives(Ground, <<Event(IF b \in DOMAIN Arrow THEN Arrow[b] ELSE "Rejected", ids)>>)

\* What looked like the end of the paste and is not belongs to its text.
PasteContent_MatchForgotten(text, b) ==
  IF b = "ESC" THEN [dec EXCEPT !.text = text, !.match = 1]
  ELSE [dec EXCEPT !.text = Append(text, b), !.match = 0]
PasteContent(text, b) ==
  LET missed == text \o SubSeq(PasteEnd, 1, dec.match)
  IN  IF b = "ESC" THEN [dec EXCEPT !.text = missed, !.match = 1]
      ELSE [dec EXCEPT !.text = Append(missed, b), !.match = 0]
PasteFinish(ids) ==
  IF Len(dec.text) > MaxPaste \/ "lead" \in Range(dec.text) THEN Event("PasteRejected", ids)
  ELSE [Event("Paste", ids) EXCEPT !.text = dec.text]

FeedPaste(b, ids) ==
  CASE b # PasteEnd[dec.match + 1]      -> Gives([PasteContent(dec.text, b) EXCEPT !.ids = ids], <<>>)
    [] dec.match + 1 = Len(PasteEnd)    -> Gives(Ground, <<PasteFinish(ids)>>)
    [] OTHER                            -> Gives([dec EXCEPT !.match = @ + 1, !.ids = ids], <<>>)

Fed(b, id) ==
  LET ids == dec.ids \cup {id}
  IN CASE dec.mode = "ground" -> FeedGround(b, ids)
       [] dec.mode = "escape" -> FeedEscape(b, id, ids)
       [] dec.mode = "csi"    -> FeedCsi(b, ids)
       [] dec.mode = "drain"  -> FeedDrain(b, ids)
       [] dec.mode = "ss3"    -> FeedSs3(b, ids)
       [] dec.mode = "paste"  -> FeedPaste(b, ids)

-----------------------------------------------------------------------------
(* Composer.  A cursor stands between two graphemes.                         *)

Boundary(text, i) ==
  i = 0 \/ i = Len(text) \/ text[i + 1] # "^" \/ text[i] = "nl"
Boundaries(text) == {i \in 0..Len(text) : Boundary(text, i)}
Least(S) == CHOOSE i \in S : \A j \in S : i <= j
Most(S) == CHOOSE i \in S : \A j \in S : i >= j

PreviousStart(l) == Most({i \in Boundaries(l.text) : i < l.cursor})
NextEnd(l) == Least({i \in Boundaries(l.text) : i > l.cursor})
AtOrAfter(text, i) == Least({j \in Boundaries(text) : j >= i})
LineStart(l) == Most({0} \cup {i \in 1..l.cursor : l.text[i] = "nl"})
LineEnd(l) == Least({Len(l.text)} \cup {i \in l.cursor..(Len(l.text) - 1) : l.text[i + 1] = "nl"})

\* The first character of the last word in front of the cursor.
Space(text, i) == text[i] \in {" ", "nl"} /\ Boundary(text, i)
WordStart(l) ==
  LET solid == {i \in 1..l.cursor : ~Space(l.text, i)}
      last == Most(solid)
  IN  IF solid = {} THEN 0 ELSE Most({0} \cup {i \in 1..last : Space(l.text, i)})

\* Where a boundary is seen: a full row goes on in the next one.
Grapheme(text, i) == Boundary(text, i - 1) /\ text[i] # "^"
VisualAt(text, i) ==
  LET place[j \in 0..i] ==
        IF j = 0 THEN [row |-> 0, column |-> 0]
        ELSE LET at == place[j - 1]
             IN CASE text[j] = "nl" -> [row |-> at.row + 1, column |-> 0]
                  [] text[j] # "nl" /\ ~Grapheme(text, j) -> at
                  [] Grapheme(text, j) /\ text[j] # "nl" /\ at.column = Width ->
                       [row |-> at.row + 1, column |-> 1]
                  [] OTHER -> [at EXCEPT !.column = @ + 1]
  IN  place[i]

Distance(x, y) == IF x < y THEN y - x ELSE x - y
\* The boundary of a row that is nearest to a column, the left one of two.
Nearest(text, row, column) ==
  LET At(i) == VisualAt(text, i)
      on == {i \in Boundaries(text) : At(i).row = row}
      near == {i \in on : \A j \in on : Distance(At(i).column, column) <= Distance(At(j).column, column)}
      left == {i \in near : \A j \in near : At(i).column <= At(j).column}
  IN  Least(left)

RowExists(l, row) == \E i \in Boundaries(l.text) : VisualAt(l.text, i).row = row
MoveVertical(l, by) ==
  LET here == VisualAt(l.text, l.cursor)
      column == IF l.preferred = NoColumn THEN here.column ELSE l.preferred
  IN  IF ~RowExists(l, here.row + by) THEN l
      ELSE [l EXCEPT !.cursor = Nearest(l.text, here.row + by, column), !.preferred = column]

Payload(undo) == FoldSeq(LAMBDA r, total : Len(r.deleted) + total, 0, undo)

\* The oldest records go, until the new one has room.
Evicted(undo, deleted) ==
  Least({k \in 0..Len(undo) :
           /\ Len(undo) - k < MaxUndo
           /\ Payload(SubSeq(undo, k + 1, Len(undo))) + Len(deleted) <= MaxPayload})

Fits(l, from, to, text) == Len(l.text) - (to - from) + Len(text) <= MaxPrompt

\* A change of the line, with what it leaves undone of earlier changes.
ApplyEdit_CursorAfter(l, from, to, text, yanks) ==
  LET deleted == SubSeq(l.text, from + 1, to)
      whole == SubSeq(l.text, 1, from) \o text \o SubSeq(l.text, to + 1, Len(l.text))
      kept == SubSeq(l.undo, Evicted(l.undo, deleted) + 1, Len(l.undo))
  IN  [text |-> whole, cursor |-> AtOrAfter(whole, from + Len(text)), preferred |-> NoColumn,
       undo |-> Append(kept, [start |-> from, inserted |-> Len(text), deleted |-> deleted,
                              cursor |-> from]),
       yank |-> IF yanks THEN deleted ELSE l.yank]
ApplyEdit(l, from, to, text, yanks) ==
  LET deleted == SubSeq(l.text, from + 1, to)
      whole == SubSeq(l.text, 1, from) \o text \o SubSeq(l.text, to + 1, Len(l.text))
      kept == SubSeq(l.undo, Evicted(l.undo, deleted) + 1, Len(l.undo))
  IN  [text |-> whole, cursor |-> AtOrAfter(whole, from + Len(text)), preferred |-> NoColumn,
       undo |-> Append(kept, [start |-> from, inserted |-> Len(text), deleted |-> deleted,
                              cursor |-> l.cursor]),
       yank |-> IF yanks THEN deleted ELSE l.yank]

UndoneBy(l, record) ==
  [l EXCEPT !.text = SubSeq(@, 1, record.start) \o record.deleted
                     \o SubSeq(@, record.start + record.inserted + 1, Len(@)),
            !.cursor = record.cursor, !.preferred = NoColumn]
Undo(l) == [UndoneBy(l, Last(l.undo)) EXCEPT !.undo = Front(@)]
TakeDraft(l) == [l EXCEPT !.text = <<>>, !.cursor = 0, !.preferred = NoColumn, !.undo = <<>>]

\* insert_paste: a line end of any kind is a newline.
Normalized(text) ==
  LET ends == {i \in DOMAIN text : text[i] = "LF" /\ i > 1 /\ text[i - 1] = "CR"}
      kept == SetToSortSeq(DOMAIN text \ ends, <)
  IN  [i \in DOMAIN kept |-> IF text[kept[i]] \in {"CR", "LF"} THEN "nl" ELSE text[kept[i]]]

-----------------------------------------------------------------------------
(* apply_enhanced_input: what an event does to the line.                     *)

\* The stretch of the text that a key replaces, and what it puts there.
Edits(l, event) ==
  LET c == l.cursor
      at == <<c, c>>
  IN CASE Printable(event.key) \/ event.key = "^" -> [range |-> at, text |-> <<event.key>>]
       [] event.key = "LF"     -> [range |-> at, text |-> <<"nl">>]
       [] event.key = "Paste"  -> [range |-> at, text |-> Normalized(event.text)]
       [] event.key = "Yank"   -> [range |-> at, text |-> l.yank]
       [] event.key = "Back" /\ c > 0 -> [range |-> <<PreviousStart(l), c>>, text |-> <<>>]
       [] event.key = "Delete" /\ c < Len(l.text) -> [range |-> <<c, NextEnd(l)>>, text |-> <<>>]
       [] event.key = "Word"   -> [range |-> <<WordStart(l), c>>, text |-> <<>>]
       [] event.key = "Before" -> [range |-> <<LineStart(l), c>>, text |-> <<>>]
       [] event.key = "After"  -> [range |-> <<c, LineEnd(l)>>, text |-> <<>>]
       [] OTHER                -> [range |-> at, text |-> <<>>]

Moved(l, key) ==
  CASE key = "Left" /\ l.cursor > 0 -> [l EXCEPT !.cursor = PreviousStart(l), !.preferred = NoColumn]
    [] key = "Home" -> [l EXCEPT !.cursor = LineStart(l), !.preferred = NoColumn]
    [] key = "End"  -> [l EXCEPT !.cursor = LineEnd(l), !.preferred = NoColumn]
    [] key = "Up"   -> MoveVertical(l, -1)
    [] key = "Down" -> MoveVertical(l, 1)
    [] OTHER        -> l

Changes(l, event) ==
  LET e == Edits(l, event) IN e.range[1] < e.range[2] \/ e.text # <<>>
Refused(l, event) ==
  LET e == Edits(l, event) IN Changes(l, event) /\ ~Fits(l, e.range[1], e.range[2], e.text)

\* The line after an event, together with the history of its undo records.
After(state, event) ==
  LET l == state.line
      e == Edits(l, event)
      next == ApplyEdit(l, e.range[1], e.range[2], e.text, event.key \in {"Word", "Before", "After"})
      evicted == Len(l.undo) + 1 - Len(next.undo)
  IN CASE Refused(l, event) -> state
       [] Changes(l, event) /\ ~Refused(l, event) ->
            [line |-> next,
             past |-> Append(SubSeq(state.past, evicted + 1, Len(state.past)), [text |-> l.text, cursor |-> l.cursor])]
       [] event.key = "Undo" /\ l.undo # <<>> -> [line |-> Undo(l), past |-> Front(state.past)]
       [] event.key = "CR" -> [line |-> TakeDraft(l), past |-> <<>>]
       [] OTHER -> [state EXCEPT !.line = Moved(l, event.key)]

\* After these the rest of the read is not fed.
Breaks(l, event) ==
  event.key \in {"Rejected", "Paste", "PasteRejected", "CR"} \/ Refused(l, event)

Handle(events) ==
  LET final == FoldLeft(After, [line |-> line, past |-> past], events)
  IN  line' = final.line /\ past' = final.past

-----------------------------------------------------------------------------
(* The loop.                                                                 *)

\* A read takes what has come so far.
Read ==
  /\ chunk = <<>> /\ ~fence
  /\ \E n \in 1..Len(wire) :
       chunk' = SubSeq(wire, 1, n) /\ wire' = SubSeq(wire, n + 1, Len(wire))
  /\ UNCHANGED <<typed, fence, dec, line, past, said, torn>>

\* What is decoded together with a torn press is torn as well.
Spread(ids) == IF ids \cap torn = {} THEN torn ELSE torn \cup ids

Feed ==
  /\ chunk # <<>>
  /\ LET byte == Head(chunk)
         fed == Fed(byte.b, byte.id)
         stops == fed.events # <<>> /\ Breaks(line, Last(fed.events))
     IN  /\ dec' = fed.dec /\ said' = fed.events /\ Handle(fed.events)
         /\ chunk' = IF stops THEN <<>> ELSE Tail(chunk)
         /\ torn' = Spread(dec.ids \cup {byte.id})
                      \cup (IF stops THEN Ids(Tail(chunk)) ELSE {})
         /\ fence' = (fed.events # <<>> /\ Last(fed.events).key \in {"Paste", "PasteRejected"})
  /\ UNCHANGED <<typed, wire>>

\* expire_enhanced_escape: what follows an Escape has not come in time.
Expire ==
  /\ chunk = <<>> /\ ~fence /\ dec.mode \in {"escape", "csi", "drain", "ss3"}
  /\ said' = CASE dec.mode = "escape" -> <<Event("ESC", dec.ids)>>
               [] dec.mode = "drain"  -> <<>>
               [] OTHER               -> <<Event("Rejected", dec.ids)>>
  /\ torn' = torn \cup {i \in dec.ids : typed[i].key # "ESC"}
  /\ dec' = Ground
  /\ UNCHANGED <<typed, wire, chunk, fence, line, past>>

\* complete_paste_input_fence: what comes is dropped, and when it is quiet the
\* queue of the terminal is flushed and the decoder starts a new epoch.  More of
\* a press may come later.
Dropped(n) ==
  /\ wire' = SubSeq(wire, n + 1, Len(wire))
  /\ torn' = torn \cup Ids(SubSeq(wire, 1, n)) \cup dec.ids
FenceEnds ==
  /\ fence /\ \E n \in 0..Len(wire) : Dropped(n)
  /\ fence' = FALSE /\ dec' = Ground /\ said' = <<>>
  /\ UNCHANGED <<typed, chunk, line, past>>

\* Ctrl+C with a draft: the terminal drops its queue, the loop its decoder's state.
Interrupt ==
  /\ chunk = <<>> /\ line.text # <<>>
  /\ \E n \in 0..Len(wire) : Dropped(n)
  /\ fence' = FALSE /\ dec' = Ground /\ said' = <<>> /\ line' = TakeDraft(line) /\ past' = <<>>
  /\ UNCHANGED <<typed, chunk>>

Next == Press \/ Read \/ Feed \/ Expire \/ FenceEnds \/ Interrupt

Spec == Init /\ [][Next]_vars

-----------------------------------------------------------------------------
TypeOK ==
  /\ Len(typed) <= MaxPress /\ torn \subseteq DOMAIN typed /\ dec.ids \subseteq DOMAIN typed
  /\ Len(line.text) <= MaxPrompt /\ line.cursor \in Boundaries(line.text)
  /\ Len(line.undo) <= MaxUndo /\ Payload(line.undo) <= MaxPayload /\ fence \in BOOLEAN

\* However the bytes are cut into reads, and whatever a pasted text contains, an
\* event is what the user did, unless bytes of it were dropped or came too late:
\* a line end in a paste sends nothing, and a key is never taken for another.
Means(press, event) ==
  CASE press.key = "Paste" ->
         \/ event.key = "PasteStarted"
         \/ event.key = "Paste" /\ event.text = press.text
         \/ event.key = "PasteRejected" /\ (Len(press.text) > MaxPaste \/ "lead" \in Range(press.text))
    [] press.key \in {"Long", "bad"} -> event.key = "Rejected"
    [] OTHER -> event.key = press.key
EventsAreMeant ==
  \A event \in Range(said) :
    event.ids \cap torn = {} => \E i \in DOMAIN typed : event.ids = {i} /\ Means(typed[i], event)

\* Undo gives back, one after the other, the texts that were there before each
\* change, with the cursor where it was, however far the oldest were evicted.
UndoTellsPast ==
  LET back[n \in 0..Len(line.undo)] ==
        IF n = 0 THEN line ELSE UndoneBy(back[n - 1], line.undo[Len(line.undo) - n + 1])
  IN  /\ Len(past) = Len(line.undo)
      /\ \A n \in 1..Len(line.undo) :
           LET then == past[Len(past) - n + 1]
           IN  back[n].text = then.text /\ back[n].cursor = then.cursor

\* A row down and a row up come back to the same place on the screen.
UpTakesDownBack ==
  LET here == VisualAt(line.text, line.cursor)
      down == MoveVertical(line, 1)
      back == MoveVertical(down, -1)
  IN  RowExists(line, here.row + 1) => VisualAt(back.text, back.cursor) = here

TypingIsKept == TypeOK /\ EventsAreMeant /\ UndoTellsPast /\ UpTakesDownBack
=============================================================================
