------------------------------ MODULE PatchApply ------------------------------
(* The preparation of a file change (tools/patch.rs): a patch is applied to   *)
(* the text of its target, strictly, and the diff that the user is asked      *)
(* about is built anew from the operations that were applied.                 *)
(* The patch is revealed line by line; what the code does in two passes over  *)
(* it, and again for the diff, is done as its lines come.                     *)
EXTENDS Naturals, Sequences, FiniteSetsExt, SequencesExt

CONSTANTS
  Files,       \* what the target may hold: lines, each with its ending
  Texts,       \* what a line may say
  Context,     \* the lines of context around a change (3)
  MaxRows,     \* MAX_APPROVAL_PREVIEW_BYTES, MAX_CANONICAL_DIFF_JSON_BYTES
  MaxHunks,    \* bound: hunks of a patch
  MaxInserts   \* bound: lines that a patch adds

VARIABLES
  original,    \* the target as it was read
  operations,  \* what was done so far: lines kept, deleted, inserted
  hunk,        \* where the open hunk starts
  closed,      \* the hunks that were applied
  marked,      \* the sides of the patch that were said to end without a newline
  fate         \* where the preparation is

vars == <<original, operations, hunk, closed, marked, fate>>

Endings == {"lf", "crlf", "none"}
Kinds == {"Equal", "Delete", "Insert"}
Lines == [text : Texts, ended : BOOLEAN]
NoHunk == [from |-> 0, made |-> 0]

(* normalize_existing_text: one kind of ending, and none but the last line    *)
(* without one.                                                               *)
HasCrLf == \E i \in DOMAIN original : original[i].ending = "crlf"
Mixed == HasCrLf /\ \E i \in DOMAIN original : original[i].ending = "lf"
Before == [i \in DOMAIN original |->
             [text |-> original[i].text, ended |-> original[i].ending # "none"]]

LinesOf(some) == [i \in DOMAIN some |-> some[i].line]
Consumes(kind) == SelectSeq(operations, LAMBDA o : o.op \in {"Equal", kind})
Source == Len(Consumes("Delete"))
Candidate == LinesOf(Consumes("Insert"))
CandidateAtEof == Candidate # <<>> /\ ~Last(Candidate).ended

\* the candidate gets the endings of the file back
CandidateRaw ==
  [i \in DOMAIN Candidate |->
     [text |-> Candidate[i].text,
      ending |-> IF ~Candidate[i].ended THEN "none" ELSE IF HasCrLf THEN "crlf" ELSE "lf"]]

TypeOK ==
  /\ original \in Files /\ operations \in Seq([op : Kinds, line : Lines])
  /\ hunk.from \in 0..Len(operations) + 1 /\ closed \in 0..MaxHunks
  /\ marked \subseteq {"old", "new"}
  /\ fate \in {"read", "between", "hunk", "refused", "aborted", "prompt", "broken"}

Init ==
  /\ original \in Files /\ operations = <<>> /\ hunk = NoHunk /\ closed = 0
  /\ marked = {} /\ fate = "read"

Alive == fate \in {"read", "between", "hunk"}

\* a preparation that ends without a prompt drops what it had
Ends(how) ==
  fate' = how /\ operations' = <<>> /\ hunk' = NoHunk /\ closed' = 0 /\ marked' = {}
  /\ UNCHANGED original

Cancelled == Alive /\ Ends("aborted")

\* the arguments or the text of the patch are not of the form that is accepted
Malformed == fate = "read" /\ Ends("refused")

Normalize ==
  /\ fate = "read"
  /\ IF Mixed THEN Ends("refused")
     ELSE fate' = "between" /\ UNCHANGED <<original, operations, hunk, closed, marked>>

\* range_index
RangeIndex(start, length) == IF length = 0 THEN start ELSE start - 1

\* the lines before the hunk are kept
Skipped(upto) ==
  [i \in 1..upto - Source |-> [op |-> "Equal", line |-> Before[Source + i]]]

\* an unended line can only be the last of the candidate
CannotFollow(kept) == kept # <<>> /\ CandidateAtEof

OpenHunk ==
  /\ fate = "between" /\ closed < MaxHunks
  /\ \E index \in 0..Len(Before) + 1 :
       IF index < Source \/ index > Len(Before) \/ marked # {} \/ CannotFollow(Skipped(index))
       THEN Ends("refused")
       ELSE /\ fate' = "hunk"
            /\ operations' = operations \o Skipped(index)
            /\ hunk' = [from |-> Len(operations') + 1,
                        made |-> Len(Candidate) + Len(Skipped(index))]
            /\ UNCHANGED <<original, closed, marked>>

\* validate_no_newline_markers: a line that has no newline is followed by a marker
Sides(kind) ==
  CASE kind = "Equal" -> {"old", "new"} [] kind = "Delete" -> {"old"} [] OTHER -> {"new"}

\* apply_strict: a context line and a deleted one are the next of the target
Fits(kind, line) ==
  /\ Sides(kind) \cap marked = {}
  /\ kind # "Insert" => Source < Len(Before) /\ Before[Source + 1] = line
  /\ kind # "Delete" => ~CandidateAtEof

Inserted == Len(SelectSeq(operations, LAMBDA o : o.op = "Insert"))

HunkLine(kind, line) ==
  /\ fate = "hunk" /\ (kind = "Insert" => Inserted < MaxInserts)
  /\ IF ~Fits(kind, line) THEN Ends("refused")
     ELSE /\ operations' = Append(operations, [op |-> kind, line |-> line])
          /\ marked' = IF line.ended THEN marked ELSE marked \cup Sides(kind)
          /\ UNCHANGED <<original, hunk, closed, fate>>

\* the range that the header names for the new file has to be where it is made
CloseHunk ==
  LET added == Len(Candidate) - hunk.made IN
  /\ fate = "hunk" /\ Len(operations) >= hunk.from
  /\ \E start \in 0..Len(Before) + MaxInserts :
       IF (start = 0 /\ added > 0) \/ RangeIndex(start, added) # hunk.made THEN Ends("refused")
       ELSE /\ fate' = "between" /\ closed' = closed + 1 /\ hunk' = NoHunk
            /\ UNCHANGED <<original, operations, marked>>

(* The canonical diff.                                                        *)
\* reject_redundant_edits: in one run of edits a line is not deleted and inserted
Redundant(done) ==
  \E i, j \in DOMAIN done :
    /\ done[i].op = "Delete" /\ done[j].op = "Insert" /\ done[i].line = done[j].line
    /\ \A k \in Min({i, j})..Max({i, j}) : done[k].op # "Equal"

Changes(done) == {i \in DOMAIN done : done[i].op # "Equal"}

\* clusters: a change that follows many kept lines starts a new one
Clusters(done) ==
  {i \in Changes(done) : \A j \in Changes(done) : j < i => i - j - 1 > 2 * Context}

\* the changes from the first to the next cluster, with their context
Extent(done, first) ==
  LET later == {i \in Clusters(done) : i > first}
      last == Max({i \in Changes(done) : \A n \in later : i < n})
  IN  [start |-> IF first > Context THEN first - Context ELSE 1,
       end |-> Min({last + Context, Len(done)})]

\* format_hunk_range: an empty range names the line before it
FormatHunkRange_AlwaysNext(prefix, length) == [start |-> prefix + 1, length |-> length]

FormatHunkRange(prefix, length) ==
  [start |-> IF length = 0 THEN prefix ELSE prefix + 1, length |-> length]

\* the rows of one operation
Rendered(o) ==
  LET kind == CASE o.op = "Equal" -> "Context" [] o.op = "Delete" -> "Removal"
                [] OTHER -> "Addition"
      row == [kind |-> kind, text |-> o.line.text]
  IN  IF o.line.ended THEN <<row>> ELSE <<row, [kind |-> "NoNewline", text |-> ""]>>

CanonicalHunk(done, first) ==
  LET extent == Extent(done, first)
      count(upto, kind) ==
        Len(SelectSeq(SubSeq(done, 1, upto), LAMBDA o : o.op \in {"Equal", kind}))
      range(kind) ==
        FormatHunkRange(count(extent.start - 1, kind),
                        count(extent.end, kind) - count(extent.start - 1, kind))
      shown == SubSeq(done, extent.start, extent.end)
  IN  [old |-> range("Delete"), new |-> range("Insert"),
       rows |-> FlattenSeq([i \in DOMAIN shown |-> Rendered(shown[i])])]

CanonicalDiff(done) ==
  LET firsts == SetToSortSeq(Clusters(done), <)
  IN  [i \in DOMAIN firsts |-> CanonicalHunk(done, firsts[i])]

\* two headers of the file, and one of each hunk
RowCount(diff) == FoldLeft(LAMBDA sum, h : sum + 1 + Len(h.rows), 2, diff)

\* what the diff says it adds and removes is counted over the operations it shows
CountOf(done, kind) == Len(SelectSeq(done, LAMBDA o : o.op = kind))
RowsOf(diff, kind) ==
  FoldLeft(LAMBDA sum, h : sum + Len(SelectSeq(h.rows, LAMBDA r : r.kind = kind)), 0, diff)

\* ApprovalPrompt::canonical_patch checks the counts and the rows again
PromptHolds(diff, done) ==
  /\ RowCount(diff) >= 3 /\ diff # <<>>
  /\ RowsOf(diff, "Addition") = CountOf(done, "Insert")
  /\ RowsOf(diff, "Removal") = CountOf(done, "Delete")

Prepared ==
  LET done == operations \o Skipped(Len(Before))
      diff == CanonicalDiff(done)
  IN  /\ fate = "between" /\ closed > 0
      /\ IF \/ CannotFollow(Skipped(Len(Before)))
            \/ LinesOf(SelectSeq(done, LAMBDA o : o.op # "Delete")) = Before
            \/ Redundant(done) \/ Changes(done) = {} \/ RowCount(diff) > MaxRows
         THEN Ends("refused")
         ELSE /\ fate' = IF PromptHolds(diff, done) THEN "prompt" ELSE "broken"
              /\ operations' = done /\ UNCHANGED <<original, hunk, closed, marked>>

Next ==
  \/ Cancelled \/ Malformed \/ Normalize \/ OpenHunk \/ CloseHunk \/ Prepared
  \/ \E kind \in Kinds, line \in Lines : HunkLine(kind, line)

Spec == Init /\ [][Next]_vars

(* Reading a unified diff, as a user does: the lines of one side of a hunk,   *)
(* and the file that its hunks make of another.                               *)
SideOf(rows, kind) ==
  LET at == SelectSeq([i \in DOMAIN rows |-> i], LAMBDA i : rows[i].kind \in {"Context", kind})
  IN  [i \in DOMAIN at |->
         [text |-> rows[at[i]].text,
          ended |-> ~(at[i] < Len(rows) /\ rows[at[i] + 1].kind = "NoNewline")]]

FirstLine(range) == IF range.length = 0 THEN range.start + 1 ELSE range.start

ReadsAs(diff, before, after, old, new, gone, come) ==
  LET apply(made, h) ==
        [lines |-> made.lines \o SubSeq(before, made.next, FirstLine(h[old]) - 1)
                     \o SideOf(h.rows, come),
         next |-> FirstLine(h[old]) + h[old].length]
      all == FoldLeft(apply, [lines |-> <<>>, next |-> 1], diff)
  IN  /\ \A i \in DOMAIN diff : FirstLine(diff[i][old]) + diff[i][old].length =< Len(before) + 1
      /\ all.lines \o SubSeq(before, all.next, Len(before)) = after
      /\ \A i \in DOMAIN diff :
           SideOf(diff[i].rows, gone) =
             SubSeq(before, FirstLine(diff[i][old]), FirstLine(diff[i][old]) + diff[i][old].length - 1)

(* The diff that the user approves makes of the file exactly the text that is *)
(* written, and takes it back: nothing is changed that is not shown, whatever *)
(* hunks the model cut its patch into.                                        *)
ShownIsWritten ==
  fate = "prompt" =>
    LET diff == CanonicalDiff(operations)
    IN  /\ ReadsAs(diff, Before, Candidate, "old", "new", "Removal", "Addition")
        /\ ReadsAs(diff, Candidate, Before, "new", "old", "Addition", "Removal")

(* A line that the patch does not change keeps its bytes, its ending too, and *)
(* the new file can be patched again: it has one kind of ending.              *)
UntouchedKept ==
  LET place(kind, i) ==
        Len(SelectSeq(SubSeq(operations, 1, i), LAMBDA o : o.op \in {"Equal", kind}))
  IN  fate = "prompt" =>
        /\ \A i \in DOMAIN operations : operations[i].op = "Equal" =>
             original[place("Delete", i)] = CandidateRaw[place("Insert", i)]
        /\ \A i \in 1..Len(Candidate) - 1 : Candidate[i].ended

(* A patch that was applied can always be asked about.                        *)
NeverBroken == fate # "broken"

PatchIsShown == ShownIsWritten /\ UntouchedKept /\ NeverBroken
================================================================================
