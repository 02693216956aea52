--------------------------- MODULE ToolResultPruner ---------------------------
(* The pass that shortens large tool results without a model: every result    *)
(* on the surface is read back from the file, checked against what the        *)
(* surface holds, cut in its middle, and replaced by a pair of rows           *)
(* (session/tool_result_pruner.rs, SessionReservation in session/mod.rs).     *)
(* Who starts a pass and what follows is in TurnDriver, the prices of the     *)
(* surface are in SessionSurface.                                             *)
EXTENDS Naturals, FiniteSets, SequencesExt

CONSTANTS
  Contents,               \* contents that a tool may answer with
  Threshold, HeadPoints, TailPoints,  \* ToolResultPruneConfig
  Marker,                 \* PRUNED_MIDDLE_MARKER, as its code points
  MaxResults,             \* bound: results
  MaxPasses,              \* bound: passes
  MaxAlterations,         \* bound: rows of the file that are changed from outside
  MaxCrashes              \* bound: crashes

VARIABLES
  results,  \* what each tool answered
  journal,  \* the rows of the file and of the batch behind it
  flushed,  \* how many of them were synchronized
  surface,  \* the results that the model is shown, with the row of each
  pass,     \* the running pass or the last one
  latched,  \* no row is accepted any more
  altered, crashes

pruneVars == <<results, journal, flushed, surface, pass, latched, altered, crashes>>

\* A block of a content: text, or something that pruning keeps as it is.
Text(chars) == [text |-> TRUE, chars |-> chars]
Image == [text |-> FALSE, chars |-> <<>>]

Row(kind, of, target, content) ==
  [kind |-> kind, of |-> of, target |-> target, content |-> content]
Node(of, seq, content) == [of |-> of, seq |-> seq, content |-> content]
NoReport == [replacements |-> 0, original |-> 0, pruned |-> 0]
NoPass == [at |-> "idle", left |-> <<>>, data |-> <<>>, report |-> NoReport, outcome |-> "none",
           since |-> 0, number |-> 0]

PruneInit ==
  /\ results = <<>> /\ journal = <<>> /\ flushed = 0 /\ surface = <<>>
  /\ pass = NoPass /\ latched = FALSE /\ altered = 0 /\ crashes = 0

-----------------------------------------------------------------------------
(* The transform.                                                             *)

ValidConfig == Threshold > 0 /\ HeadPoints + Len(Marker) + TailPoints <= Threshold

\* Code points of the text in the first n blocks.
PointsOf(content, n) == FoldLeft(LAMBDA sum, b : sum + Len(b.chars), 0, SubSeq(content, 1, n))
Points(content) == PointsOf(content, Len(content))
Cut(n, bound) == IF n < bound THEN n ELSE bound

\* The part of block i that lies in the removed middle, as an interval of its text.
Intersects(content, i) ==
  /\ content[i].text
  /\ PointsOf(content, i - 1) < Points(content) - TailPoints
  /\ PointsOf(content, i) > HeadPoints
Prefix(content, i) ==
  LET cursor == PointsOf(content, i - 1) IN
  SubSeq(content[i].chars, 1, IF HeadPoints < cursor THEN 0
                              ELSE Cut(HeadPoints - cursor, Len(content[i].chars)))
Suffix(content, i) ==
  LET cursor == PointsOf(content, i - 1)
      end == Points(content) - TailPoints
      from == IF end < cursor THEN 0 ELSE Cut(end - cursor, Len(content[i].chars))
  IN  SubSeq(content[i].chars, from + 1, Len(content[i].chars))

\* The marker is written once, in the first block that loses something.
MarkerOf_EachBlock(content, i) == Marker
MarkerOf(content, i) ==
  IF \E j \in 1..(i - 1) : Intersects(content, j) THEN <<>> ELSE Marker

BlockEdit(content, i) ==
  IF Intersects(content, i)
  THEN Text(Prefix(content, i) \o MarkerOf(content, i) \o Suffix(content, i))
  ELSE content[i]

\* prune_raw_tool_result_data: a text that is left empty is dropped
Pruned(content) ==
  SelectSeq([i \in DOMAIN content |-> BlockEdit(content, i)],
            LAMBDA b : b.text => b.chars # <<>>)

Counted(report, content) ==
  [replacements |-> report.replacements + 1,
   original |-> report.original + Points(content),
   pruned |-> report.pruned + HeadPoints + Len(Marker) + TailPoints]

-----------------------------------------------------------------------------
(* The surface.                                                               *)

\* Row n is folded into the surface; a marker alone changes nothing.
After(nodes, rows, n) ==
  LET row == rows[n] IN
  CASE row.kind = "result" -> Append(nodes, Node(row.of, n, row.content))
    [] row.kind = "rewrite" ->
         [i \in DOMAIN nodes |-> IF nodes[i].seq = row.target
                                 THEN Node(row.of, n, row.content) ELSE nodes[i]]
    [] OTHER -> nodes
Resumed(rows) == FoldLeft(LAMBDA nodes, n : After(nodes, rows, n), <<>>, [n \in DOMAIN rows |-> n])

Snapshot(seq) == CHOOSE node \in ToSet(surface) : node.seq = seq
Candidates == [i \in DOMAIN surface |-> surface[i].seq]

-----------------------------------------------------------------------------
(* The pass.                                                                  *)

End(outcome) ==
  pass' = [pass EXCEPT !.at = "idle", !.left = <<>>, !.data = <<>>, !.outcome = outcome]
Flush == flushed' = Len(journal)

\* A tool is done between two passes; its row waits in the batch.
Answer ==
  /\ pass.at = "idle" /\ ~latched /\ Len(results) < MaxResults
  /\ \E content \in Contents :
       LET rows == Append(journal, Row("result", Len(results) + 1, 0, content)) IN
       /\ results' = Append(results, content)
       /\ journal' = rows
       /\ surface' = After(surface, rows, Len(rows))
  /\ pass' = [pass EXCEPT !.outcome = "none"]
  /\ UNCHANGED <<flushed, latched, altered, crashes>>

Begin ==
  /\ pass.at = "idle" /\ ~latched /\ ValidConfig /\ pass.number < MaxPasses
  /\ pass' = [NoPass EXCEPT !.at = "next", !.left = Candidates, !.since = Len(journal),
                            !.number = pass.number + 1]
  /\ UNCHANGED <<results, journal, flushed, surface, latched, altered, crashes>>

\* The token is sampled before each read, in it, and before a pair.
Cancelled ==
  /\ pass.at \in {"next", "read"} /\ pass.left # <<>>
  /\ End("cancelled") /\ (Flush \/ UNCHANGED flushed)
  /\ UNCHANGED <<results, journal, surface, latched, altered, crashes>>

Finish ==
  /\ pass.at = "next" /\ pass.left = <<>>
  /\ End("done")
  /\ UNCHANGED <<results, journal, flushed, surface, latched, altered, crashes>>

\* masked_data_sha256: the digest of all that a row says but its content.
SameRest(row, node) == row.of = node.of

\* What the file has must be what the surface was built of.
Matches_SameRest(row, node) == SameRest(row, node)
Matches(row, node) == SameRest(row, node) /\ row.content = node.content

\* read_validated_surface_row: the batch is flushed, the row is read and checked
Read ==
  /\ pass.at = "next" /\ pass.left # <<>>
  /\ \/ Flush /\ Matches(journal[Head(pass.left)], Snapshot(Head(pass.left)))
        /\ pass' = [pass EXCEPT !.at = "read", !.data = journal[Head(pass.left)].content]
        /\ UNCHANGED latched
     \/ Flush /\ ~Matches(journal[Head(pass.left)], Snapshot(Head(pass.left)))
        /\ latched' = TRUE /\ End("corrupt")
     \/ latched' = TRUE /\ End("failed") /\ (Flush \/ UNCHANGED flushed)
  /\ UNCHANGED <<results, journal, surface, altered, crashes>>

\* ValidatedRawRow::prune: the threshold itself is not exceeded
Keep ==
  /\ pass.at = "read" /\ Points(pass.data) <= Threshold
  /\ pass' = [pass EXCEPT !.at = "next", !.left = Tail(@), !.data = <<>>]
  /\ UNCHANGED <<results, journal, flushed, surface, latched, altered, crashes>>

Large == pass.at = "read" /\ Points(pass.data) > Threshold

\* append_prune_pair: no room for the two rows
Refused ==
  /\ Large /\ End("limit")
  /\ UNCHANGED <<results, journal, flushed, surface, latched, altered, crashes>>

\* The marker is committed and its rewrite is not: it is flushed all the same.
MarkerOnly ==
  /\ Large
  /\ LET rows == Append(journal, Row("prune", 0, Head(pass.left), <<>>)) IN
     /\ journal' = rows
     /\ \/ flushed' = Len(rows) /\ UNCHANGED latched
        \/ UNCHANGED flushed /\ latched' = TRUE
  /\ End("pair")
  /\ UNCHANGED <<results, surface, altered, crashes>>

Pair ==
  /\ Large
  /\ LET seq == Head(pass.left)
         rows == journal \o <<Row("prune", 0, seq, <<>>),
                              Row("rewrite", journal[seq].of, seq, Pruned(pass.data))>>
     IN  /\ journal' = rows
         /\ surface' = After(surface, rows, Len(rows))
  /\ pass' = [pass EXCEPT !.at = "barrier"]
  /\ UNCHANGED <<results, flushed, latched, altered, crashes>>

Barrier ==
  /\ pass.at = "barrier"
  /\ \/ /\ Flush /\ UNCHANGED latched
        /\ pass' = [pass EXCEPT !.at = "next", !.left = Tail(@), !.data = <<>>,
                                !.report = Counted(@, pass.data)]
     \/ UNCHANGED flushed /\ latched' = TRUE /\ End("failed")
  /\ UNCHANGED <<results, journal, surface, altered, crashes>>

\* Somebody changes a character of a row in the file while the program runs.
Alter ==
  /\ altered < MaxAlterations
  /\ \E n \in 1..flushed :
       \E b \in DOMAIN journal[n].content :
         /\ journal[n].content[b].chars # <<>>
         /\ journal' = [journal EXCEPT ![n].content[b].chars[1] = "?"]
  /\ altered' = altered + 1
  /\ UNCHANGED <<results, flushed, surface, pass, latched, crashes>>

\* The process dies with some of the batch written, and the file is resumed.
Crash ==
  /\ crashes < MaxCrashes /\ altered = 0
  /\ \E n \in flushed..Len(journal) :
       LET rows == SubSeq(journal, 1, n) IN
       /\ journal' = rows /\ flushed' = n /\ surface' = Resumed(rows)
       /\ results' = SubSeq(results, 1, Len(SelectSeq(rows, LAMBDA r : r.kind = "result")))
  /\ pass' = [NoPass EXCEPT !.number = pass.number]
  /\ latched' = FALSE /\ crashes' = crashes + 1
  /\ UNCHANGED altered

PruneNext ==
  \/ Answer \/ Begin \/ Cancelled \/ Finish \/ Read \/ Keep \/ Refused
  \/ MarkerOnly \/ Pair \/ Barrier \/ Alter \/ Crash

PruneSpec == PruneInit /\ [][PruneNext]_pruneVars

-----------------------------------------------------------------------------
(* Properties.                                                                *)

\* A content as one stream: its characters, and the other blocks between them.
Stream(content) ==
  FoldLeft(LAMBDA s, b : IF b.text THEN s \o [i \in DOMAIN b.chars |-> Text(<<b.chars[i]>>)]
                         ELSE Append(s, b), <<>>, content)

\* The same stream with the marker in the place of the first character of its
\* middle, without the others of the middle, and with everything else in its order.
Shortened(content) ==
  LET s == Stream(content)
      char(i) == Cardinality({j \in 1..i : s[j].text})
      keeps(i) == ~s[i].text \/ char(i) <= HeadPoints \/ char(i) > Points(content) - TailPoints
      piece(i) == IF keeps(i) THEN <<s[i]>>
                  ELSE IF char(i) = HeadPoints + 1
                  THEN [j \in DOMAIN Marker |-> Text(<<Marker[j]>>)] ELSE <<>>
  IN  FlattenSeq([i \in DOMAIN s |-> piece(i)])

\* However a text is divided into blocks, the model sees all of it or its head,
\* one marker and its tail, with the images where they were; nothing that was
\* changed in the file gets there.
ModelSeesResult ==
  \A i \in DOMAIN surface :
    LET node == surface[i] whole == results[node.of] IN
    \/ node.content = whole
    \/ /\ Points(whole) > Threshold
       /\ Stream(node.content) = Shortened(whole)
       /\ \A b \in ToSet(node.content) : b.text => b.chars # <<>>

\* A pass that came to its end leaves nothing that another one would shorten, and
\* tells how many results were shortened, and by how much, whatever passes were
\* given up before it.
PassIsTold ==
  pass.at = "idle" /\ pass.outcome = "done" =>
    LET done == {i \in DOMAIN surface : surface[i].seq > pass.since}
        sum(count(_)) == FoldLeft(LAMBDA n, i : n + (IF i \in done THEN count(surface[i]) ELSE 0),
                                  0, [i \in DOMAIN surface |-> i])
    IN  /\ \A i \in DOMAIN surface : Points(surface[i].content) <= Threshold
        /\ pass.report.replacements = Cardinality(done)
        /\ pass.report.original = sum(LAMBDA node : Points(results[node.of]))
        /\ pass.report.pruned = sum(LAMBDA node : Points(node.content))

\* After a crash anywhere in a pass, what is resumed is what the model had seen
\* of the rows that were kept; a marker without its rewrite changes nothing.
PairsResume == altered = 0 => Resumed(journal) = surface

PruneKeepsMeaning == ModelSeesResult /\ PassIsTold /\ PairsResume
===============================================================================
