-------------------------- MODULE SessionJournalProofs --------------------------
(***************************************************************************)
(* Proofs about SessionJournal: for any number of rows, dropped waits,     *)
(* faults and ends of processes the file implements the stable log, and no *)
(* row is lost, doubled or taken for another.                              *)
(*                                                                         *)
(* The rows of the session are in four places: the file, the command in    *)
(* the slot, what the writer has staged, and the batch.  While the thread  *)
(* is not poisoned these follow one another without a gap (Located), which *)
(* is why a confirmation that finds the last three empty confirms the      *)
(* whole log.  That it does find them so is what the one-slot protocol     *)
(* gives (SlotHeld): what is in flight is either in the slot or answered,  *)
(* and nothing is staged behind it.  Everything else, poisoned threads and *)
(* crashes, only needs that the file is the log up to a row, with at most  *)
(* a torn one after it, and that what is synchronised is whole (FileHeld). *)
(***************************************************************************)
EXTENDS SessionJournal, SequenceTheorems, TLAPS

FileRows == Rows \cup {Torn}
Storages ==
  {"deferred", "starting", "active", "finishing", "failed", "closed", "absent"}
    \cup ResumeStages
Reads == [row : Offsets, cancelled : BOOLEAN]
Writers ==
  [pending : Seq(Rows), flight : Flights, read : Reads, physical : Offsets, durable : Offsets,
   poisoned : BOOLEAN, failed : BOOLEAN]
Calls ==
  [op : {"none", "flush", "barrier", "read", "finish"}, at : {"flush", "main"}, row : Offsets,
   sent : BOOLEAN, cancelled : BOOLEAN]
Commands ==
  [kind : {"none", "append", "barrier", "read", "finish"}, rows : Seq(Rows), row : Offsets]
Acks == [kind : Replies, row : FileRows, physical : Offsets, durable : Offsets]
Threads ==
  [state : {"none", "creating", "running", "gone"}, physical : Offsets, durable : Offsets,
   poisoned : BOOLEAN]

Typed ==
  /\ log \in Seq(Rows) /\ minted \in 0..MaxRow /\ Len(log) <= minted + 1
  /\ batch \in 0..MaxBatch /\ batch <= Len(log)
  /\ confirmed \in Nat /\ stable \in Nat
  /\ shut \in BOOLEAN /\ sender \in BOOLEAN /\ storage \in Storages
  /\ writer \in Writers /\ writer.durable <= writer.physical
  /\ call \in Calls /\ command \in Commands
  /\ reply \in Acks /\ reply.durable <= reply.physical
  /\ thread \in Threads /\ thread.durable <= thread.physical
  /\ disk \in Seq(FileRows)

\* d is l up to a row that is not before n, perhaps with a torn row after it.
Holds(d, l, n) ==
  \E w \in n..Len(l) :
    /\ Len(d) = w \/ (Len(d) = w + 1 /\ d[w + 1] = Torn)
    /\ \A i \in 1..w : d[i] = l[i]

\* The file, and what the thread believes of it.
FileHeld ==
  /\ confirmed <= stable /\ Holds(disk, log, stable)
  /\ thread.state # "none" => thread.durable = stable
  /\ thread.state # "none" /\ ~thread.poisoned => thread.physical = Len(disk)

\* s is the part of l that starts after the first k rows.
Part(s, l, k) == \A i \in 1..Len(s) : s[i] = l[k + i]

\* Of the log l the file has the first rows, d; then come those in the slot, c,
\* those that are staged, p, and the batch, b rows.
Gapless(d, c, p, b, l) ==
  /\ Len(d) + Len(c) + Len(p) + b <= Len(l)
  /\ Part(d, l, 0) /\ Part(c, l, Len(d)) /\ Part(p, l, Len(d) + Len(c))
Complete(d, c, p, b, l) == Len(d) + Len(c) + Len(p) + b = Len(l)

\* Where the rows are.  A session that gave its writer up loses the end of them.
Located ==
  thread.state # "none" /\ ~thread.poisoned =>
    /\ Gapless(disk, command.rows, writer.pending, batch, log)
    /\ sender => Complete(disk, command.rows, writer.pending, batch, log)

Detached == {"deferred", "starting", "failed", "closed", "absent"} \cup ResumeStages
Unowned == {"deferred", "absent"} \cup ResumeStages

\* What there is at each stage of the storage.
StorageHeld ==
  /\ storage \in Detached => call = NoCall /\ writer = FreshWriter(0) /\ batch = 0
  /\ sender <=> storage \in {"starting", "active", "finishing"}
  /\ storage \in Unowned => thread = NoThread /\ command = NoCommand /\ reply = NoReply
  /\ storage = "deferred" => log = <<>> /\ disk = <<>>
  /\ storage = "starting" =>
       /\ thread.state # "none" /\ command = NoCommand
       /\ reply.kind = "ok" => thread.state = "running"
  /\ storage = "active" => thread.state = "running"
  /\ storage = "finishing" => thread.state \in {"running", "gone"}
  /\ thread.state = "creating" =>
       /\ log = <<>> /\ disk = <<>> /\ command = NoCommand /\ reply = NoReply
       /\ ~thread.poisoned /\ storage \in {"starting", "failed"}
  /\ storage \in {"cut", "replayed"} => disk = log

\* What is in flight is in the slot or answered, and nothing is staged behind it.
SlotHeld ==
  /\ writer.flight # "none" => writer.read = NoRead
  /\ Waiting => writer.pending = <<>>
  /\ command.kind # "append" => command.rows = <<>>
  /\ sender /\ command.kind \in {"append", "barrier", "finish"} => writer.flight = command.kind
  /\ command.kind = "read" =>
       /\ command.row > 0
       /\ sender => writer.read # NoRead /\ writer.read.row = command.row
  /\ reply # NoReply => command = NoCommand
  /\ call # NoCall /\ call.at = "main" => batch = 0
  /\ storage = "finishing" => batch = 0
  /\ writer.flight = "finish" => storage = "finishing"
  /\ call.op = "finish" /\ call.at = "main" => storage = "finishing"
  /\ call.op = "read" => call.row > 0
  /\ call.sent => /\ call.op = "read" /\ call.at = "main"
                  /\ writer.read # NoRead /\ writer.read.row = call.row

\* What an answer says.
AnswersHeld ==
  /\ reply.kind = "ok" /\ writer.flight \in {"barrier", "finish"} =>
       ~thread.poisoned /\ stable = Len(disk)
  /\ reply.kind = "row" =>
       /\ writer.read # NoRead /\ writer.read.row \in 1..Len(log)
       /\ reply.row = log[writer.read.row]
  /\ ReadReturnsAskedRow

IInv == Typed /\ FileHeld /\ Located /\ StorageHeld /\ SlotHeld /\ AnswersHeld

-----------------------------------------------------------------------------
(* Rows, and what holds of a file.                                           *)

LEMMA FirstIs ==
  ASSUME NEW S, NEW s \in Seq(S), NEW n \in 0..Len(s)
  PROVE  /\ First(s, n) \in Seq(S) /\ Len(First(s, n)) = n
         /\ \A i \in 1..n : First(s, n)[i] = s[i]
<1>1. Len(s) \in Nat /\ \A i \in 1..n : s[i] \in S
  BY LenProperties
<1>2. \A i \in 1..n : 1 + i - 1 = i
  OBVIOUS
<1> QED
  BY <1>1, <1>2, SubSeqProperties, Z3 DEF First

LEMMA RowsAreFileRows ==
  ASSUME NEW s \in Seq(Rows)
  PROVE  s \in Seq(FileRows)
<1>1. s \in [1..Len(s) -> Rows] /\ Len(s) \in Nat
  BY LenProperties
<1>2. s \in [1..Len(s) -> FileRows]
  BY <1>1 DEF FileRows
<1> QED
  BY <1>1, <1>2, IsASeq

\* A prefix of a file, whole or torn, holds what the file held up to there.
LEMMA HoldsFirst ==
  ASSUME NEW d \in Seq(FileRows), NEW l \in Seq(Rows), NEW n \in Nat, Holds(d, l, n),
         NEW k \in n..Len(d)
  PROVE  /\ First(d, k) \in Seq(FileRows) /\ Holds(First(d, k), l, n)
         /\ k < Len(d) => /\ Append(First(d, k), Torn) \in Seq(FileRows)
                         /\ Holds(Append(First(d, k), Torn), l, n)
<1>1. PICK w \in n..Len(l) : /\ Len(d) = w \/ (Len(d) = w + 1 /\ d[w + 1] = Torn)
                             /\ \A i \in 1..w : d[i] = l[i]
  BY DEF Holds
<1>2. Len(d) \in Nat /\ Len(l) \in Nat
  OBVIOUS
<1> DEFINE f == First(d, k)
<1>3. f \in Seq(FileRows) /\ Len(f) = k /\ \A i \in 1..k : f[i] = d[i]
  BY <1>2, FirstIs
<1> HIDE DEF f
<1>4. Holds(f, l, n)
  <2>1. CASE k <= w
    <3>1. k \in n..Len(l) /\ Len(f) = k /\ \A i \in 1..k : f[i] = l[i]
      BY <2>1, <1>1, <1>2, <1>3
    <3> QED
      BY <3>1 DEF Holds
  <2>2. CASE k > w
    <3>1. k = w + 1 /\ Len(f) = w + 1 /\ f[w + 1] = Torn /\ \A i \in 1..w : f[i] = l[i]
      BY <2>2, <1>1, <1>2, <1>3
    <3> QED
      BY <3>1 DEF Holds
  <2> QED
    BY <2>1, <2>2, <1>1, <1>2
<1>5. ASSUME k < Len(d)
      PROVE  Append(f, Torn) \in Seq(FileRows) /\ Holds(Append(f, Torn), l, n)
  <2>1. Torn \in FileRows
    BY DEF FileRows
  <2>2. /\ Append(f, Torn) \in Seq(FileRows) /\ Len(Append(f, Torn)) = k + 1
        /\ Append(f, Torn)[k + 1] = Torn
        /\ \A i \in 1..k : Append(f, Torn)[i] = f[i]
    BY <1>3, <2>1, AppendProperties
  <2>3. k \in n..Len(l) /\ \A i \in 1..k : Append(f, Torn)[i] = l[i]
    BY <1>1, <1>2, <1>3, <1>5, <2>2
  <2> QED
    BY <2>2, <2>3 DEF Holds
<1> QED
  BY <1>3, <1>4, <1>5 DEF f

\* l2 has all rows of l, and perhaps more.
Longer(l, l2) == Len(l) <= Len(l2) /\ \A i \in 1..Len(l) : l2[i] = l[i]

LEMMA HoldsLonger ==
  ASSUME NEW d \in Seq(FileRows), NEW l \in Seq(Rows), NEW l2 \in Seq(Rows), NEW n \in Nat,
         NEW m \in 0..n, Holds(d, l, n), Longer(l, l2)
  PROVE  Holds(d, l2, m)
<1>1. PICK w \in n..Len(l) : /\ Len(d) = w \/ (Len(d) = w + 1 /\ d[w + 1] = Torn)
                             /\ \A i \in 1..w : d[i] = l[i]
  BY DEF Holds
<1>2. Len(l) \in Nat /\ Len(l2) \in Nat
  OBVIOUS
<1>3. Len(l) <= Len(l2) /\ \A i \in 1..Len(l) : l2[i] = l[i]
  BY DEF Longer
<1>4. w \in Nat /\ w \in m..Len(l2) /\ w <= Len(l)
  BY <1>2, <1>3
<1>5. \A i \in 1..w : d[i] = l2[i]
  BY <1>1, <1>2, <1>3, <1>4
<1> QED
  BY <1>1, <1>4, <1>5 DEF Holds

LEMMA HoldsIs ==
  ASSUME NEW d \in Seq(FileRows), NEW l \in Seq(Rows), NEW n \in Nat, NEW m \in 0..n,
         Holds(d, l, n)
  PROVE  SL!HoldsAtLeast(d, l, m)
<1>1. PICK w \in n..Len(l) : /\ Len(d) = w \/ (Len(d) = w + 1 /\ d[w + 1] = Torn)
                             /\ \A i \in 1..w : d[i] = l[i]
  BY DEF Holds
<1>2. Len(d) \in Nat /\ Len(l) \in Nat /\ l \in Seq(FileRows) /\ Torn \in FileRows
  BY RowsAreFileRows DEF FileRows
<1> DEFINE f == First(l, w)
<1>3. f \in Seq(FileRows) /\ Len(f) = w /\ \A i \in 1..w : f[i] = l[i]
  BY <1>1, <1>2, FirstIs
<1>4. f = SL!First(l, w)
  BY DEF First, SL!First
<1> HIDE DEF f
<1>5. CASE Len(d) = w
  <2>1. d = f
    BY <1>5, <1>1, <1>3, SeqEqual
  <2> QED
    BY <2>1, <1>1, <1>4, <1>2 DEF SL!HoldsAtLeast
<1>6. CASE Len(d) = w + 1 /\ d[w + 1] = Torn
  <2>1. /\ Append(f, Torn) \in Seq(FileRows) /\ Len(Append(f, Torn)) = w + 1
        /\ Append(f, Torn)[w + 1] = Torn
        /\ \A i \in 1..w : Append(f, Torn)[i] = f[i]
    BY <1>2, <1>3, AppendProperties
  <2>2. \A i \in 1..(w + 1) : d[i] = Append(f, Torn)[i]
    BY <1>6, <1>1, <1>2, <1>3, <2>1
  <2>3. d = Append(f, Torn)
    BY <1>6, <2>1, <2>2, SeqEqual
  <2> QED
    BY <2>3, <1>1, <1>4, <1>2 DEF SL!HoldsAtLeast
<1> QED
  BY <1>1, <1>5, <1>6

LEMMA LongerPart ==
  ASSUME NEW l \in Seq(Rows), NEW l2 \in Seq(Rows), Longer(l, l2), NEW s \in Seq(FileRows),
         NEW k \in Nat, k + Len(s) <= Len(l), Part(s, l, k)
  PROVE  Part(s, l2, k)
<1>1. Len(s) \in Nat /\ Len(l) \in Nat
  OBVIOUS
<1>2. ASSUME NEW i \in 1..Len(s) PROVE s[i] = l2[k + i]
  <2>1. k + i \in 1..Len(l)
    BY <1>1
  <2> QED
    BY <2>1 DEF Longer, Part
<1> QED
  BY <1>2 DEF Part

LEMMA JoinedPart ==
  ASSUME NEW l, NEW s \in Seq(FileRows), NEW t \in Seq(FileRows), NEW k \in Nat,
         Part(s, l, k), Part(t, l, k + Len(s))
  PROVE  /\ s \o t \in Seq(FileRows) /\ Len(s \o t) = Len(s) + Len(t)
         /\ Part(s \o t, l, k)
<1>1. /\ s \o t \in Seq(FileRows) /\ Len(s \o t) = Len(s) + Len(t)
      /\ \A i \in 1..(Len(s) + Len(t)) :
           (s \o t)[i] = IF i <= Len(s) THEN s[i] ELSE t[i - Len(s)]
  BY ConcatProperties
<1>2. ASSUME NEW i \in 1..(Len(s) + Len(t)) PROVE (s \o t)[i] = l[k + i]
  <2>1. CASE i <= Len(s)
    BY <2>1, <1>1 DEF Part
  <2>2. CASE i > Len(s)
    <3>1. i - Len(s) \in 1..Len(t) /\ k + Len(s) + (i - Len(s)) = k + i
      BY <2>2
    <3> QED
      BY <3>1, <2>2, <1>1 DEF Part
  <2> QED
    BY <2>1, <2>2
<1> QED
  BY <1>1, <1>2 DEF Part

\* The rows of the slot are written: they move from the command to the file.
LEMMA WriteMoves ==
  ASSUME NEW d \in Seq(FileRows), NEW c \in Seq(FileRows), NEW p \in Seq(FileRows),
         NEW b \in Nat, NEW l \in Seq(Rows), Gapless(d, c, p, b, l)
  PROVE  /\ d \o c \in Seq(FileRows) /\ Len(d \o c) = Len(d) + Len(c)
         /\ Len(d) + Len(c) <= Len(l) /\ Len(d) <= Len(d) + Len(c)
         /\ Gapless(d \o c, <<>>, p, b, l)
         /\ Complete(d, c, p, b, l) => Complete(d \o c, <<>>, p, b, l)
<1>1. Part(c, l, 0 + Len(d))
  BY DEF Gapless
<1>2. d \o c \in Seq(FileRows) /\ Len(d \o c) = Len(d) + Len(c) /\ Part(d \o c, l, 0)
  BY <1>1, JoinedPart DEF Gapless
<1>3. Part(<<>>, l, Len(d \o c)) /\ Len(<<>>) = 0
  BY DEF Part
<1> DEFINE e == d \o c
<1> HIDE DEF e
<1>4. e \in Seq(FileRows) /\ Len(e) = Len(d) + Len(c) /\ Part(e, l, 0) /\ Part(<<>>, l, Len(e))
  BY <1>2, <1>3 DEF e
<1>5. Len(d) + Len(c) <= Len(l) /\ Len(d) <= Len(d) + Len(c)
  BY DEF Gapless
<1>6. /\ Gapless(e, <<>>, p, b, l)
      /\ Complete(d, c, p, b, l) => Complete(e, <<>>, p, b, l)
  BY <1>3, <1>4 DEF Gapless, Complete
<1> QED
  BY <1>2, <1>5, <1>6 DEF e

\* What is staged is sent: it moves to the slot.
LEMMA SendMoves ==
  ASSUME NEW d \in Seq(FileRows), NEW p \in Seq(FileRows),
         NEW b \in Nat, NEW l \in Seq(Rows), Gapless(d, <<>>, p, b, l)
  PROVE  /\ Gapless(d, p, <<>>, b, l)
         /\ Complete(d, <<>>, p, b, l) => Complete(d, p, <<>>, b, l)
<1>1. Len(<<>>) = 0 /\ Part(<<>>, l, Len(d) + Len(p)) /\ Len(d) + 0 = Len(d)
  BY DEF Part
<1> QED
  BY <1>1 DEF Gapless, Complete

\* The last b rows of the log.
LEMMA LastRows ==
  ASSUME NEW l \in Seq(Rows), NEW b \in Nat, b <= Len(l)
  PROVE  LET rest == SubSeq(l, Len(l) - b + 1, Len(l))
         IN /\ rest \in Seq(Rows) /\ Len(rest) = b
            /\ \A i \in 1..b : rest[i] = l[(Len(l) - b) + i]
<1> DEFINE rest == SubSeq(l, Len(l) - b + 1, Len(l))
<1>1. Len(l) \in Nat
  OBVIOUS
<1>2. \A i \in (Len(l) - b + 1)..Len(l) : l[i] \in Rows
  BY <1>1, ElementOfSeq
<1>3. /\ rest \in Seq(Rows)
      /\ Len(rest) = IF Len(l) - b + 1 <= Len(l)
                       THEN Len(l) - (Len(l) - b + 1) + 1 ELSE 0
      /\ \A i \in 1..(Len(l) - (Len(l) - b + 1) + 1) :
           rest[i] = l[(Len(l) - b + 1) + i - 1]
  BY <1>1, <1>2, SubSeqProperties
<1> HIDE DEF rest
<1>4. Len(rest) = b
  BY <1>1, <1>3
<1>5. \A i \in 1..b : rest[i] = l[(Len(l) - b) + i]
  <2> TAKE i \in 1..b
  <2>1. /\ i \in 1..(Len(l) - (Len(l) - b + 1) + 1)
        /\ (Len(l) - b + 1) + i - 1 = (Len(l) - b) + i
    BY <1>1
  <2> QED
    BY <2>1, <1>3
<1> QED
  BY <1>3, <1>4, <1>5 DEF rest

\* The batch are the last rows of the log; it is staged.
LEMMA StageMoves ==
  ASSUME NEW d \in Seq(FileRows), NEW c \in Seq(FileRows),
         NEW b \in Nat, NEW l \in Seq(Rows), Gapless(d, c, <<>>, b, l),
         Complete(d, c, <<>>, b, l)
  PROVE  LET rest == SubSeq(l, Len(l) - b + 1, Len(l))
         IN /\ rest \in Seq(Rows)
            /\ Gapless(d, c, rest, 0, l) /\ Complete(d, c, rest, 0, l)
<1> DEFINE rest == SubSeq(l, Len(l) - b + 1, Len(l))
<1>1. Len(<<>>) = 0 /\ Len(l) \in Nat /\ Len(d) \in Nat /\ Len(c) \in Nat
  OBVIOUS
<1>2. b <= Len(l) /\ Len(d) + Len(c) = Len(l) - b
  BY <1>1 DEF Complete
<1>3. rest \in Seq(Rows) /\ Len(rest) = b /\ \A i \in 1..b : rest[i] = l[(Len(l) - b) + i]
  BY <1>2, LastRows
<1> HIDE DEF rest
<1>4. Part(rest, l, Len(d) + Len(c))
  BY <1>2, <1>3 DEF Part
<1>5. Gapless(d, c, rest, 0, l) /\ Complete(d, c, rest, 0, l)
  BY <1>1, <1>2, <1>3, <1>4 DEF Gapless, Complete
<1> QED
  BY <1>3, <1>5 DEF rest

\* One more row is accepted.
LEMMA AcceptMoves ==
  ASSUME NEW d \in Seq(FileRows), NEW c \in Seq(FileRows), NEW p \in Seq(FileRows),
         NEW b \in Nat, NEW l \in Seq(Rows), Gapless(d, c, p, b, l), NEW x \in Rows
  PROVE  /\ Append(l, x) \in Seq(Rows) /\ Len(Append(l, x)) = Len(l) + 1
         /\ Longer(l, Append(l, x))
         /\ Gapless(d, c, p, b + 1, Append(l, x))
         /\ Complete(d, c, p, b, l) => Complete(d, c, p, b + 1, Append(l, x))
<1> DEFINE m == Append(l, x)
<1>1. m \in Seq(Rows) /\ Len(m) = Len(l) + 1 /\ \A i \in 1..Len(l) : m[i] = l[i]
  BY AppendProperties
<1> HIDE DEF m
<1>2. Longer(l, m)
  BY <1>1 DEF Longer
<1>3. Len(d) \in Nat /\ Len(c) \in Nat /\ Len(p) \in Nat /\ Len(l) \in Nat
  OBVIOUS
<1>4. Part(d, m, 0) /\ Part(c, m, Len(d)) /\ Part(p, m, Len(d) + Len(c))
  <2>1. /\ 0 + Len(d) <= Len(l) /\ Len(d) + Len(c) <= Len(l)
        /\ (Len(d) + Len(c)) + Len(p) <= Len(l) /\ Len(d) + Len(c) \in Nat
    BY <1>3 DEF Gapless
  <2> QED
    BY <1>1, <1>2, <1>3, <2>1, LongerPart DEF Gapless
<1>5. /\ Gapless(d, c, p, b + 1, m)
      /\ Complete(d, c, p, b, l) => Complete(d, c, p, b + 1, m)
  BY <1>1, <1>3, <1>4 DEF Gapless, Complete
<1> QED
  BY <1>1, <1>2, <1>5 DEF m

\* A session that gives its writer up loses what it has staged, and the batch.
LEMMA DropMoves ==
  ASSUME NEW d \in Seq(FileRows), NEW c \in Seq(FileRows), NEW p \in Seq(FileRows),
         NEW b \in Nat, NEW l \in Seq(Rows), Gapless(d, c, p, b, l)
  PROVE  Gapless(d, c, <<>>, 0, l) /\ Gapless(d, c, <<>>, b, l)
<1>1. Len(<<>>) = 0 /\ Part(<<>>, l, Len(d) + Len(c))
  BY DEF Part
<1> QED
  BY <1>1 DEF Gapless

\* The file, and all that is on its way to it, is the log.
InPlaces(d, c, p, b, l) == l = d \o c \o p \o SubSeq(l, Len(l) - b + 1, Len(l))

LEMMA CompleteIsAll ==
  ASSUME NEW d \in Seq(FileRows), NEW c \in Seq(FileRows), NEW p \in Seq(FileRows),
         NEW b \in Nat, NEW l \in Seq(Rows), Gapless(d, c, p, b, l), Complete(d, c, p, b, l)
  PROVE  InPlaces(d, c, p, b, l)
<1> DEFINE sent == d \o c
           handed == sent \o p
           rest == SubSeq(l, Len(l) - b + 1, Len(l))
           all == handed \o rest
<1>1. /\ sent \in Seq(FileRows) /\ Gapless(sent, <<>>, p, b, l)
      /\ Complete(sent, <<>>, p, b, l)
  BY WriteMoves
<1>2. <<>> \in Seq(FileRows)
  OBVIOUS
<1> HIDE DEF sent
<1>3. Gapless(sent, p, <<>>, b, l) /\ Complete(sent, p, <<>>, b, l)
  BY <1>1, SendMoves
<1>4. /\ handed \in Seq(FileRows) /\ Gapless(handed, <<>>, <<>>, b, l)
      /\ Complete(handed, <<>>, <<>>, b, l)
  BY <1>1, <1>2, <1>3, WriteMoves
<1> HIDE DEF handed
<1>5. /\ rest \in Seq(Rows) /\ Gapless(handed, <<>>, rest, 0, l)
      /\ Complete(handed, <<>>, rest, 0, l)
  BY <1>2, <1>4, StageMoves
<1> HIDE DEF rest
<1>6. rest \in Seq(FileRows)
  BY <1>5, RowsAreFileRows
<1>7. Gapless(handed, rest, <<>>, 0, l) /\ Complete(handed, rest, <<>>, 0, l)
  BY <1>4, <1>5, <1>6, SendMoves
<1>8. /\ all \in Seq(FileRows) /\ Gapless(all, <<>>, <<>>, 0, l)
      /\ Complete(all, <<>>, <<>>, 0, l)
  BY <1>2, <1>4, <1>6, <1>7, WriteMoves
<1> HIDE DEF all
<1>9. Len(all) = Len(l) /\ l \in Seq(FileRows) /\ \A i \in 1..Len(l) : all[i] = l[i]
  BY <1>8, Len(<<>>) = 0, RowsAreFileRows DEF Complete, Gapless, Part
<1>10. all = l
  BY <1>8, <1>9, SeqEqual
<1> QED
  BY <1>10 DEF all, rest, handed, sent, InPlaces

\* What is whole of a file.
LEMMA WholeIs ==
  ASSUME IInv
  PROVE  \E w \in stable..Len(log) : Whole = First(log, w)
<1>1. /\ disk \in Seq(FileRows) /\ log \in Seq(Rows) /\ stable \in Nat
      /\ Holds(disk, log, stable)
  BY DEF IInv, Typed, FileHeld
<1>2. PICK w \in stable..Len(log) : /\ Len(disk) = w \/ (Len(disk) = w + 1 /\ disk[w + 1] = Torn)
                                  /\ \A i \in 1..w : disk[i] = log[i]
  BY <1>1 DEF Holds
<1>3. Len(disk) \in Nat /\ Len(log) \in Nat /\ log \in Seq(FileRows) /\ Torn \notin Rows
  BY <1>1, RowsAreFileRows, TornIsNoRow DEF Rows
<1>4. /\ First(log, w) \in Seq(FileRows) /\ Len(First(log, w)) = w
      /\ \A i \in 1..w : First(log, w)[i] = log[i]
  <2>1. w \in 0..Len(log)
    BY <1>1, <1>2, <1>3
  <2> QED
    BY <2>1, <1>3, FirstIs
<1>5. CASE Len(disk) = w
  <2>1. disk = First(log, w)
    BY <1>1, <1>2, <1>4, <1>5, SeqEqual
  <2>2. disk # <<>> => disk[Len(disk)] \in Rows
    <3> SUFFICES ASSUME disk # <<>> PROVE disk[Len(disk)] \in Rows
      OBVIOUS
    <3>1. Len(disk) \in 1..w
      BY <1>1, <1>5, EmptySeq
    <3>2. log[Len(disk)] \in Rows
      BY <3>1, <1>1, <1>2, <1>3, ElementOfSeq
    <3> QED
      BY <3>1, <3>2, <1>2
  <2>3. Whole = disk
    BY <2>2, <1>3 DEF Whole
  <2> QED
    BY <2>1, <2>3
<1>6. CASE Len(disk) = w + 1 /\ disk[w + 1] = Torn
  <2>1. Len(disk) # 0 /\ Len(disk) - 1 = w
    BY <1>1, <1>2, <1>3, <1>6
  <2>2. Whole = First(disk, w)
    BY <2>1, <1>6, Len(<<>>) = 0 DEF Whole
  <2>3. /\ First(disk, w) \in Seq(FileRows) /\ Len(First(disk, w)) = w
        /\ \A i \in 1..w : First(disk, w)[i] = disk[i]
    BY <1>1, <1>3, <1>6, FirstIs
  <2>4. First(disk, w) = First(log, w)
    BY <2>3, <1>2, <1>4, SeqEqual
  <2> QED
    BY <2>2, <2>4
<1> QED
  BY <1>2, <1>5, <1>6

-----------------------------------------------------------------------------
(* What the invariant gives, and that it holds at the start.                 *)

LEMMA Types == IInv => TypeOK
<1> SUFFICES ASSUME IInv PROVE TypeOK
  OBVIOUS
<1>1. stable \in Nat /\ confirmed \in Nat /\ confirmed <= stable
  BY DEF IInv, Typed, FileHeld
<1>2. PICK w \in stable..Len(log) : Len(disk) = w \/ Len(disk) = w + 1
  BY DEF IInv, FileHeld, Holds
<1>3. Len(log) \in Nat /\ log \in Seq(Rows) /\ disk \in Seq(FileRows)
  BY DEF IInv, Typed
<1>4. confirmed \in 0..Len(log) /\ stable \in 0..Len(disk)
  BY <1>1, <1>2, <1>3
<1>5. /\ writer \in Writers /\ writer.durable \in 0..writer.physical
      /\ thread \in Threads /\ thread.durable \in 0..thread.physical
  <2>1. /\ writer \in Writers /\ writer.durable <= writer.physical
        /\ thread \in Threads /\ thread.durable <= thread.physical
    BY DEF IInv, Typed
  <2>2. /\ writer.durable \in Nat /\ writer.physical \in Nat
        /\ thread.durable \in Nat /\ thread.physical \in Nat
    BY <2>1, JournalBounds DEF Writers, Threads, Offsets
  <2> QED
    BY <2>1, <2>2
<1>6. /\ writer.pending \in Seq(Rows) /\ writer.flight \in Flights
      /\ writer.read.row \in Offsets /\ writer.read.cancelled \in BOOLEAN
      /\ writer.physical \in Offsets /\ writer.poisoned \in BOOLEAN /\ writer.failed \in BOOLEAN
  BY <1>5 DEF Writers, Reads
<1>7. /\ call.op \in {"none", "flush", "barrier", "read", "finish"}
      /\ call.at \in {"flush", "main"} /\ call.row \in Offsets
      /\ call.sent \in BOOLEAN /\ call.cancelled \in BOOLEAN
      /\ command.kind \in {"none", "append", "barrier", "read", "finish"}
      /\ reply.kind \in Replies
  BY DEF IInv, Typed, Calls, Commands, Acks
<1>8. thread.state \in {"none", "creating", "running", "gone"} /\ thread.physical \in Offsets
  BY <1>5 DEF Threads
<1>9. /\ minted \in 0..MaxRow /\ batch \in 0..MaxBatch /\ shut \in BOOLEAN
      /\ sender \in BOOLEAN
      /\ storage \in {"deferred", "starting", "active", "finishing", "failed", "closed",
                      "absent"} \cup ResumeStages
  BY DEF IInv, Typed, Storages
<1> QED
  BY <1>3, <1>4, <1>5, <1>6, <1>7, <1>8, <1>9 DEF TypeOK, FileRows

LEMMA KeepsPlaces == IInv => RowsKeepTheirPlace
<1> SUFFICES ASSUME IInv PROVE RowsKeepTheirPlace
  OBVIOUS
<1> SUFFICES ASSUME storage \in {"active", "finishing"}, ~thread.poisoned
             PROVE  log = disk \o command.rows \o writer.pending
                            \o SubSeq(log, Len(log) - batch + 1, Len(log))
  BY DEF IInv, AnswersHeld, RowsKeepTheirPlace, EveryRowOnItsWay
<1>1. /\ log \in Seq(Rows) /\ disk \in Seq(FileRows) /\ batch \in Nat
      /\ command.rows \in Seq(FileRows) /\ writer.pending \in Seq(FileRows)
  <2>1. /\ log \in Seq(Rows) /\ disk \in Seq(FileRows)
        /\ command.rows \in Seq(Rows) /\ writer.pending \in Seq(Rows)
    BY DEF IInv, Typed, Commands, Writers
  <2>2. batch \in Nat
    BY JournalBounds DEF IInv, Typed
  <2> QED
    BY <2>1, <2>2, RowsAreFileRows
<1>2. /\ Gapless(disk, command.rows, writer.pending, batch, log)
      /\ Complete(disk, command.rows, writer.pending, batch, log)
  BY DEF IInv, StorageHeld, Located
<1>3. InPlaces(disk, command.rows, writer.pending, batch, log)
  BY <1>1, <1>2, CompleteIsAll
<1> QED
  BY <1>3 DEF InPlaces

LEMMA Begins == Init => IInv
<1> SUFFICES ASSUME Init PROVE IInv
  OBVIOUS
<1>1. <<>> \in Seq(Rows) /\ <<>> \in Seq(FileRows) /\ Len(<<>>) = 0
  OBVIOUS
<1>2. 0 \in Rows /\ 0 \in Offsets /\ 0 \in FileRows
  BY JournalBounds DEF Rows, Offsets, FileRows
<1>3. /\ FreshWriter(0) \in Writers /\ NoCall \in Calls /\ NoCommand \in Commands
      /\ NoReply \in Acks /\ NoThread \in Threads
  BY <1>1, <1>2 DEF Writers, Reads, Calls, Commands, Acks, Threads, Flights, Replies,
     FreshWriter, NoRead, NoCall, NoCommand, NoReply, NoThread
<1>4. Typed
  <2>1. FreshWriter(0).durable = 0 /\ FreshWriter(0).physical = 0
    BY DEF FreshWriter
  <2>2. /\ NoReply.durable = 0 /\ NoReply.physical = 0
        /\ NoThread.durable = 0 /\ NoThread.physical = 0
    BY DEF NoReply, NoThread
  <2>3. /\ log \in Seq(Rows) /\ disk \in Seq(FileRows) /\ Len(log) = 0
        /\ minted = 0 /\ batch = 0 /\ confirmed = 0 /\ stable = 0
    BY <1>1 DEF Init
  <2>4. /\ writer \in Writers /\ writer.durable <= writer.physical
        /\ reply \in Acks /\ reply.durable <= reply.physical
        /\ thread \in Threads /\ thread.durable <= thread.physical
        /\ call \in Calls /\ command \in Commands
    BY <1>3, <2>1, <2>2 DEF Init
  <2>5. shut \in BOOLEAN /\ sender \in BOOLEAN /\ storage \in Storages
    BY DEF Init, Storages
  <2> QED
    BY <2>3, <2>4, <2>5, JournalBounds DEF Typed
<1>5. Holds(<<>>, <<>>, 0)
  BY <1>1 DEF Holds
<1>6. FileHeld /\ Located
  BY <1>5 DEF Init, FileHeld, Located, NoThread
<1>7. StorageHeld /\ SlotHeld /\ AnswersHeld
  BY DEF Init, StorageHeld, Detached, Unowned, SlotHeld, Waiting, AnswersHeld,
     ReadReturnsAskedRow, FreshWriter, NoRead, NoCall, NoCommand, NoReply, NoThread, NoAnswer,
     ResumeStages
<1> QED
  BY <1>4, <1>6, <1>7 DEF IInv

-----------------------------------------------------------------------------
(* The thread.                                                               *)

\* The sequences that the steps below take apart, and the numbers that they
\* calculate with.
LEMMA Sequences ==
  ASSUME IInv
  PROVE  /\ log \in Seq(Rows) /\ disk \in Seq(FileRows)
         /\ command.rows \in Seq(Rows) /\ command.rows \in Seq(FileRows)
         /\ writer.pending \in Seq(Rows) /\ writer.pending \in Seq(FileRows)
BY RowsAreFileRows DEF IInv, Typed, Commands, Writers

LEMMA Numbers ==
  ASSUME IInv
  PROVE  /\ Len(log) \in Nat /\ Len(disk) \in Nat
         /\ Len(command.rows) \in Nat /\ Len(writer.pending) \in Nat
         /\ batch \in Nat /\ stable \in Nat /\ confirmed \in Nat /\ minted \in Nat
         /\ thread.physical \in Nat /\ thread.durable \in Nat
         /\ Len(log) <= MaxRow + 1
<1>1. /\ Len(log) \in Nat /\ Len(disk) \in Nat
      /\ Len(command.rows) \in Nat /\ Len(writer.pending) \in Nat
  BY Sequences
<1>2. /\ batch \in Nat /\ stable \in Nat /\ confirmed \in Nat /\ minted \in Nat
      /\ thread.physical \in Nat /\ thread.durable \in Nat
  BY JournalBounds DEF IInv, Typed, Threads, Offsets
<1>3. minted \in 0..MaxRow /\ Len(log) <= minted + 1
  BY DEF IInv, Typed
<1>4. Len(log) <= MaxRow + 1
  BY <1>1, <1>3, JournalBounds
<1> QED
  BY <1>1, <1>2, <1>4

\* What holds while the thread is sound.
LEMMA Places ==
  ASSUME IInv, thread.state # "none", ~thread.poisoned
  PROVE  /\ Gapless(disk, command.rows, writer.pending, batch, log)
         /\ sender => Complete(disk, command.rows, writer.pending, batch, log)
         /\ thread.physical = Len(disk) /\ thread.durable = stable
         /\ stable \in 0..Len(disk)
<1>1. /\ thread.physical = Len(disk) /\ thread.durable = stable
      /\ thread.durable <= thread.physical /\ stable \in Nat /\ Len(disk) \in Nat
  BY Numbers DEF IInv, Typed, FileHeld
<1> QED
  BY <1>1 DEF IInv, Located

LEMMA Nothing ==
  /\ 0 \in Rows /\ 0 \in FileRows /\ 0 \in Offsets
  /\ NoCommand \in Commands /\ NoCommand.kind = "none" /\ NoCommand.rows = <<>>
  /\ NoReply \in Acks /\ NoReply.kind = "none" /\ NoReply.durable <= NoReply.physical
  /\ {"ok", "error", "row", "cancelled"} = Replies \ {"none"}
BY JournalBounds DEF Rows, FileRows, Offsets, NoCommand, Commands, NoReply, Acks, Replies

LEMMA AnswerIs ==
  ASSUME NEW kind \in {"ok", "error", "row", "cancelled"}, NEW row \in FileRows, NEW t \in Threads,
         t.durable <= t.physical, Answer(kind, row, t)
  PROVE  /\ reply' \in Acks /\ reply'.durable <= reply'.physical
         /\ reply'.kind \in {kind, "none"} /\ (reply'.kind = kind => reply'.row = row)
         /\ sender => reply'.kind = kind
         /\ ~sender => reply' = NoReply
<1> DEFINE r == [kind |-> kind, row |-> row, physical |-> t.physical, durable |-> t.durable]
<1>1. r \in Acks /\ r.kind = kind /\ r.row = row /\ r.durable <= r.physical
  BY DEF Acks, Threads, Replies
<1> HIDE DEF r
<1>2. reply' = IF sender THEN r ELSE NoReply
  BY DEF Answer, r
<1> QED
  BY <1>1, <1>2, Nothing

\* A command that was taken out of the slot disturbs neither the stages of the
\* storage nor the slot.
LEMMA ServeKeeps ==
  ASSUME IInv, NEW kind \in {"append", "barrier", "read", "finish"}, Serve(kind),
         thread'.state = "running" \/ (kind = "finish" /\ thread'.state = "gone")
  PROVE  StorageHeld' /\ SlotHeld'
<1>1. /\ UNCHANGED <<log, batch, storage, writer, call, sender>>
      /\ command' = NoCommand /\ command.kind = kind /\ thread.state = "running"
  BY DEF Serve, sessionVars, clientVars
<1>2. NoCommand.kind = "none" /\ NoCommand.rows = <<>>
  BY DEF NoCommand
<1>3. SlotHeld'
  BY <1>1, <1>2 DEF IInv, SlotHeld, Waiting
<1>4. command # NoCommand
  BY <1>1, <1>2
<1>5. storage \notin Unowned \cup {"starting"}
  BY <1>1, <1>4 DEF IInv, StorageHeld
<1>6. kind = "finish" => storage # "active"
  BY <1>1 DEF IInv, StorageHeld, SlotHeld
<1>7. StorageHeld'
  BY <1>1, <1>5, <1>6 DEF IInv, StorageHeld, Unowned, ResumeStages
<1> QED
  BY <1>3, <1>7

\* What RollBack and a refused command make of the thread.
LEMMA PoisonedKeeps ==
  ASSUME IInv, NEW kind \in {"append", "barrier", "read", "finish"}, Serve(kind),
         thread' \in Threads, thread'.poisoned, thread'.durable = thread.durable,
         thread'.durable <= thread'.physical,
         thread'.state = "running" \/ (kind = "finish" /\ thread'.state = "gone"),
         disk' \in Seq(FileRows), Holds(disk', log, stable), UNCHANGED stable,
         NEW t \in Threads, t.durable <= t.physical, Answer("error", 0, t)
  PROVE  IInv' /\ UNCHANGED <<log, confirmed>>
<1>1. UNCHANGED <<sessionVars, clientVars>> /\ command' = NoCommand /\ thread.state = "running"
  BY DEF Serve
<1>2. UNCHANGED <<log, minted, batch, confirmed, storage, shut, writer, call, answer, sender>>
  BY <1>1 DEF sessionVars, clientVars
<1>3. /\ reply' \in Acks /\ reply'.durable <= reply'.physical
      /\ reply'.kind \in {"error", "none"}
  BY AnswerIs, Nothing
<1>4. NoCommand \in Commands
  BY Nothing
<1>5. Typed'
  BY <1>1, <1>2, <1>3, <1>4 DEF IInv, Typed
<1>6. FileHeld'
  BY <1>1, <1>2 DEF IInv, FileHeld
<1>7. Located'
  BY DEF Located
<1>8. StorageHeld' /\ SlotHeld'
  BY ServeKeeps
<1>9. AnswersHeld'
  BY <1>2, <1>3 DEF IInv, AnswersHeld, ReadReturnsAskedRow
<1> QED
  BY <1>2, <1>5, <1>6, <1>7, <1>8, <1>9 DEF IInv

LEMMA RollBackKeeps ==
  ASSUME IInv, NEW kind \in {"append", "barrier", "read", "finish"}, Serve(kind),
         NEW contents \in Seq(FileRows), Holds(contents, log, stable), RollBack(contents)
  PROVE  IInv' /\ UNCHANGED <<log, confirmed>>
<1>1. /\ thread \in Threads /\ thread.state = "running" /\ command.kind = kind
      /\ thread.durable = stable /\ stable \in Nat /\ log \in Seq(Rows)
  BY Numbers DEF IInv, Typed, FileHeld, Serve
<1>2. PICK t \in Threads : t = [thread EXCEPT !.physical = thread.durable, !.poisoned = TRUE,
                                          !.state = IF kind = "finish" THEN "gone" ELSE @]
  BY <1>1 DEF Threads
<1>3. /\ thread' = t /\ t.poisoned /\ t.durable = thread.durable /\ t.physical = thread.durable
      /\ t.state = "running" \/ (kind = "finish" /\ t.state = "gone")
  BY <1>1, <1>2 DEF RollBack, Threads
<1>4. stable \in stable..Len(contents)
  BY <1>1 DEF Holds
<1>5. disk' \in Seq(FileRows) /\ Holds(disk', log, stable)
  BY <1>1, <1>4, HoldsFirst DEF RollBack
<1>6. Answer("error", 0, t) /\ UNCHANGED stable /\ t.durable <= t.physical
  BY <1>1, <1>3 DEF RollBack
<1> QED
  BY <1>3, <1>5, <1>6, PoisonedKeeps

LEMMA RefusesKeep ==
  ASSUME IInv, NEW kind \in {"append", "barrier", "read", "finish"}, ServePoisoned(kind)
  PROVE  IInv' /\ UNCHANGED <<log, confirmed>>
<1>1. /\ thread \in Threads /\ thread.durable <= thread.physical /\ thread.poisoned
      /\ Serve(kind) /\ thread.state = "running" /\ disk' = disk /\ stable' = stable
      /\ disk \in Seq(FileRows) /\ Holds(disk, log, stable)
  BY DEF IInv, Typed, FileHeld, ServePoisoned, Serve, deviceVars
<1>2. PICK t \in Threads : t = [thread EXCEPT !.state = IF kind = "finish" THEN "gone" ELSE @]
  BY <1>1 DEF Threads
<1>3. /\ thread' = t /\ t.poisoned /\ t.durable = thread.durable /\ t.physical = thread.physical
      /\ t.state = "running" \/ (kind = "finish" /\ t.state = "gone")
  BY <1>1, <1>2 DEF ServePoisoned, Threads
<1>4. Answer("error", 0, thread)
  BY DEF ServePoisoned
<1> QED
  BY <1>1, <1>3, <1>4, PoisonedKeeps

\* Some first rows of the log hold it, also with a torn row after them.
LEMMA HoldsPart ==
  ASSUME NEW l \in Seq(Rows), NEW s \in Seq(FileRows), Len(s) <= Len(l), Part(s, l, 0),
         NEW n \in 0..Len(s)
  PROVE  /\ Holds(s, l, n)
         /\ Append(s, Torn) \in Seq(FileRows) /\ Holds(Append(s, Torn), l, n)
<1>1. Len(s) \in n..Len(l) /\ Len(s) \in Nat
  OBVIOUS
<1>2. \A i \in 1..Len(s) : s[i] = l[i]
  BY DEF Part
<1>3. /\ Append(s, Torn) \in Seq(FileRows) /\ Len(Append(s, Torn)) = Len(s) + 1
      /\ Append(s, Torn)[Len(s) + 1] = Torn
      /\ \A i \in 1..Len(s) : Append(s, Torn)[i] = s[i]
  BY AppendProperties DEF FileRows
<1> QED
  BY <1>1, <1>2, <1>3 DEF Holds

\* Whatever is written of a command leaves the log up to a row.
LEMMA PartlyHolds ==
  ASSUME NEW l \in Seq(Rows), NEW s \in Seq(FileRows), NEW t \in Seq(Rows),
         NEW p \in Seq(FileRows), NEW b \in Nat, Gapless(s, t, p, b, l),
         NEW n \in 0..Len(s), NEW contents \in Partly(s, t)
  PROVE  contents \in Seq(FileRows) /\ Holds(contents, l, n)
<1>1. /\ Len(s) \in Nat /\ Len(t) \in Nat /\ t \in Seq(FileRows) /\ n \in Nat
      /\ Part(s, l, 0) /\ Part(t, l, Len(s)) /\ Len(s) + Len(t) <= Len(l)
  BY RowsAreFileRows, WriteMoves DEF Gapless
<1>2. ASSUME NEW k \in 0..Len(t)
      PROVE  LET d == s \o First(t, k)
             IN /\ d \in Seq(FileRows) /\ Len(d) = Len(s) + k /\ Part(d, l, 0)
  <2> DEFINE f == First(t, k)
  <2>1. f \in Seq(FileRows) /\ Len(f) = k /\ \A i \in 1..k : f[i] = t[i]
    BY <1>1, FirstIs
  <2> HIDE DEF f
  <2>2. Part(f, l, Len(s))
    <3>1. \A i \in 1..Len(t) : t[i] = l[Len(s) + i]
      BY <1>1 DEF Part
    <3>2. \A i \in 1..k : i \in 1..Len(t)
      BY <1>1
    <3> QED
      BY <2>1, <3>1, <3>2 DEF Part
  <2> QED
    <3>0. 0 + Len(s) = Len(s) /\ Part(s, l, 0)
      BY <1>1
    <3>1. /\ s \o f \in Seq(FileRows) /\ Len(s \o f) = Len(s) + Len(f) /\ Part(s \o f, l, 0)
      BY <2>1, <2>2, <3>0, JoinedPart
    <3> QED
      BY <2>1, <3>1 DEF f
<1>3. ASSUME NEW k \in 0..Len(t)
      PROVE  LET d == s \o First(t, k)
             IN /\ d \in Seq(FileRows) /\ Holds(d, l, n)
                /\ Append(d, Torn) \in Seq(FileRows) /\ Holds(Append(d, Torn), l, n)
  <2> DEFINE d == s \o First(t, k)
  <2>1. d \in Seq(FileRows) /\ Len(d) = Len(s) + k /\ Part(d, l, 0)
    BY <1>2
  <2> HIDE DEF d
  <2>2. Len(d) <= Len(l) /\ n \in 0..Len(d)
    BY <1>1, <2>1
  <2> QED
    BY <2>1, <2>2, HoldsPart DEF d
<1>4. PICK k \in 0..Len(t) : \/ contents = s \o First(t, k)
                             \/ contents = Append(s \o First(t, k), Torn)
  <2>1. CASE contents \in {s \o First(t, k) : k \in 0..Len(t)}
    BY <2>1
  <2>2. CASE contents \in {Append(s \o First(t, k), Torn) : k \in 0..(Len(t) - 1)}
    <3>1. PICK k \in 0..(Len(t) - 1) : contents = Append(s \o First(t, k), Torn)
      BY <2>2
    <3>2. k \in 0..Len(t)
      BY <1>1
    <3> QED
      BY <3>1, <3>2
  <2> QED
    BY <2>1, <2>2 DEF Partly
<1> QED
  BY <1>3, <1>4

LEMMA AppendsKeep ==
  ASSUME IInv, AppendRows
  PROVE  IInv' /\ UNCHANGED <<log, confirmed>>
<1>1. /\ ~thread.poisoned /\ Serve("append") /\ thread.state = "running"
      /\ command.kind = "append"
  BY DEF AppendRows, Serve
<1>2. /\ Gapless(disk, command.rows, writer.pending, batch, log)
      /\ sender => Complete(disk, command.rows, writer.pending, batch, log)
      /\ thread.physical = Len(disk) /\ thread.durable = stable
      /\ stable \in 0..Len(disk) /\ batch \in Nat
  BY <1>1, Places, Numbers
<1>3. Written = disk
  BY <1>2, Sequences, SubSeqFull DEF Written, First
<1>4. CASE Fault /\ \E contents \in Partly(Written, command.rows) : RollBack(contents)
  <2>1. PICK contents \in Partly(disk, command.rows) : RollBack(contents)
    BY <1>3, <1>4
  <2>2. contents \in Seq(FileRows) /\ Holds(contents, log, stable)
    BY <1>2, Sequences, PartlyHolds
  <2> QED
    BY <1>1, <2>1, <2>2, RollBackKeeps
<1>5. CASE /\ disk' = disk \o command.rows
           /\ thread' = [thread EXCEPT !.physical = @ + Len(command.rows)]
           /\ Answer("ok", 0, thread')
           /\ UNCHANGED <<stable, faults>>
  <2>1. /\ UNCHANGED <<log, minted, batch, confirmed, storage, shut, writer, call, answer, sender>>
        /\ command' = NoCommand /\ stable' = stable
    BY <1>1, <1>5 DEF Serve, sessionVars, clientVars
  <2>2. /\ disk' \in Seq(FileRows) /\ Len(disk') = Len(disk) + Len(command.rows)
        /\ Len(disk) + Len(command.rows) <= Len(log)
        /\ Gapless(disk', <<>>, writer.pending, batch, log)
        /\ Complete(disk, command.rows, writer.pending, batch, log) =>
             Complete(disk', <<>>, writer.pending, batch, log)
    BY <1>2, <1>5, Sequences, WriteMoves
  <2>3. PICK n \in Nat : n = Len(disk')
    BY <2>2
  <2>4. n \in Offsets /\ stable \in 0..n /\ n <= Len(log)
    <3>1. Len(disk) + Len(command.rows) = n /\ n <= Len(log) /\ Len(disk) <= n
      BY <1>2, <2>2, <2>3, Sequences, WriteMoves
    <3>2. Len(log) \in Nat /\ Len(log) <= MaxRow + 1 /\ Len(disk) \in Nat
      BY Numbers
    <3> QED
      BY <3>1, <3>2, <1>2, JournalBounds DEF Offsets
  <2>5. PICK t \in Threads : t = [thread EXCEPT !.physical = n]
    BY <2>4 DEF IInv, Typed, Threads
  <2>6. thread \in Threads
    BY DEF IInv, Typed
  <2>7. /\ thread' = t /\ t.physical = n /\ t.durable = stable
        /\ t.state = "running" /\ ~t.poisoned /\ t.durable <= t.physical
    <3>1. thread.physical + Len(command.rows) = n
      BY <1>2, <2>2, <2>3
    <3> QED
      BY <1>1, <1>2, <1>5, <2>4, <2>5, <2>6, <3>1 DEF Threads
  <2>8. Answer("ok", 0, t) /\ 0 \in FileRows
    BY <1>5, <2>7, Nothing
  <2>9. /\ reply' \in Acks /\ reply'.durable <= reply'.physical
        /\ reply'.kind \in {"ok", "none"} /\ (~sender => reply' = NoReply)
    BY <2>7, <2>8, AnswerIs
  <2>10. NoCommand \in Commands /\ NoCommand.rows = <<>> /\ NoReply.kind = "none"
    BY Nothing
  <2>11. Typed'
    BY <2>1, <2>2, <2>7, <2>9, <2>10 DEF IInv, Typed
  <2>12. FileHeld'
    <3>1. Holds(disk', log, stable)
      BY <2>2, <2>3, <2>4, Sequences, HoldsPart DEF Gapless
    <3> QED
      BY <3>1, <1>2, <2>1, <2>3, <2>7 DEF IInv, FileHeld
  <2>13. Located'
    BY <1>2, <2>1, <2>2, <2>10 DEF Located
  <2>14. StorageHeld' /\ SlotHeld'
    BY <1>1, <2>7, ServeKeeps
  <2>15. AnswersHeld'
    <3>1. sender => writer.flight = "append"
      BY <1>1 DEF IInv, SlotHeld
    <3> QED
      BY <3>1, <2>1, <2>9, <2>10 DEF IInv, AnswersHeld, ReadReturnsAskedRow
  <2> QED
    BY <2>1, <2>11, <2>12, <2>13, <2>14, <2>15 DEF IInv
<1> QED
  BY <1>3, <1>4, <1>5 DEF AppendRows

LEMMA SynchronisesKeep ==
  ASSUME IInv, NEW kind \in {"barrier", "finish"}, Synchronise(kind)
  PROVE  IInv' /\ UNCHANGED <<log, confirmed>>
<1>1. /\ ~thread.poisoned /\ Serve(kind) /\ thread.state = "running"
      /\ command.kind = kind
  BY DEF Synchronise, Serve
<1>2. /\ Gapless(disk, command.rows, writer.pending, batch, log)
      /\ sender => Complete(disk, command.rows, writer.pending, batch, log)
      /\ thread.physical = Len(disk) /\ thread.durable = stable
      /\ stable \in 0..Len(disk) /\ thread \in Threads
  BY <1>1, Places DEF IInv, Typed
<1>3. disk \in Seq(FileRows) /\ Holds(disk, log, stable) /\ command.rows = <<>>
  BY <1>1 DEF IInv, Typed, FileHeld, SlotHeld
<1>4. CASE Fault /\ RollBack(disk)
  BY <1>1, <1>3, <1>4, RollBackKeeps
<1>5. CASE /\ stable' = Len(disk)
           /\ thread' = [thread EXCEPT !.durable = thread.physical,
                                       !.state = IF kind = "finish" THEN "gone" ELSE @]
           /\ Answer("ok", 0, thread')
           /\ UNCHANGED <<disk, faults>>
  <2>1. /\ UNCHANGED <<log, minted, batch, confirmed, storage, shut, writer, call, answer, sender>>
        /\ command' = NoCommand /\ disk' = disk /\ stable' = Len(disk)
    BY <1>1, <1>5 DEF Serve, sessionVars, clientVars
  <2>2. PICK t \in Threads : t = [thread EXCEPT !.durable = thread.physical,
                                       !.state = IF kind = "finish" THEN "gone" ELSE @]
    BY <1>2 DEF Threads
  <2>3. /\ thread' = t /\ t.physical = Len(disk) /\ t.durable = Len(disk) /\ ~t.poisoned
        /\ t.state = "running" \/ (kind = "finish" /\ t.state = "gone")
    BY <1>1, <1>2, <1>5, <2>2 DEF Threads
  <2>4. t.durable <= t.physical /\ confirmed <= Len(disk) /\ Len(disk) \in Nat
    <3>1. /\ confirmed <= stable /\ confirmed \in Nat /\ stable \in Nat
          /\ Len(disk) \in Nat
      BY Numbers DEF IInv, FileHeld
    <3> QED
      BY <1>2, <2>3, <3>1
  <2>5. Answer("ok", 0, t) /\ 0 \in FileRows
    BY <1>5, <2>3, Nothing
  <2>6. /\ reply' \in Acks /\ reply'.durable <= reply'.physical
        /\ reply'.kind \in {"ok", "none"} /\ (~sender => reply' = NoReply)
    BY <2>4, <2>5, AnswerIs
  <2>7. NoCommand \in Commands /\ NoCommand.rows = <<>> /\ NoReply.kind = "none"
    BY Nothing
  <2>8. Typed'
    BY <2>1, <2>3, <2>4, <2>6, <2>7 DEF IInv, Typed
  <2>9. FileHeld'
    <3>1. Len(disk) <= Len(log) /\ Part(disk, log, 0)
      <4>1. Len(disk) + Len(command.rows) <= Len(log) /\ Len(disk) <= Len(disk) + Len(command.rows)
        BY <1>2, Sequences, Numbers, WriteMoves
      <4>2. Len(disk) <= Len(log)
        BY <1>3, <4>1, <2>4, Len(<<>>) = 0
      <4> QED
        BY <4>2, <1>2 DEF Gapless
    <3>2. Holds(disk, log, Len(disk))
      BY <3>1, <2>4, Sequences, HoldsPart
    <3> QED
      BY <3>2, <2>1, <2>3, <2>4 DEF FileHeld
  <2>10. Located'
    BY <1>2, <1>3, <2>1, <2>7 DEF Located
  <2>11. StorageHeld' /\ SlotHeld'
    BY <1>1, <2>3, ServeKeeps
  <2>12. AnswersHeld'
    BY <2>1, <2>3, <2>6, <2>7 DEF IInv, AnswersHeld, ReadReturnsAskedRow
  <2> QED
    BY <2>1, <2>8, <2>9, <2>10, <2>11, <2>12 DEF IInv
<1> QED
  BY <1>4, <1>5 DEF Synchronise

LEMMA ReadsKeep ==
  ASSUME IInv, ReadRow
  PROVE  IInv' /\ UNCHANGED <<log, confirmed>>
<1>1. /\ ~thread.poisoned /\ Serve("read") /\ thread.state = "running"
      /\ command.kind = "read" /\ disk' = disk /\ stable' = stable
  BY DEF ReadRow, Serve
<1>2. /\ UNCHANGED <<log, minted, batch, confirmed, storage, shut, writer, call, answer, sender>>
      /\ command' = NoCommand
  BY <1>1 DEF Serve, sessionVars, clientVars
<1>3. /\ Gapless(disk, command.rows, writer.pending, batch, log)
      /\ sender => Complete(disk, command.rows, writer.pending, batch, log)
      /\ thread.durable = stable /\ stable \in 0..Len(disk) /\ thread \in Threads
      /\ thread.durable <= thread.physical
  BY <1>1, Places DEF IInv, Typed
<1>4. /\ command.rows = <<>> /\ command.row > 0 /\ command.row \in Nat
      /\ sender => writer.read # NoRead /\ writer.read.row = command.row
      /\ disk \in Seq(FileRows) /\ Holds(disk, log, stable)
  BY <1>1 DEF IInv, Typed, FileHeld, SlotHeld, Commands, Offsets
<1>5. NoCommand \in Commands /\ NoCommand.rows = <<>> /\ NoReply.kind = "none"
  BY Nothing
<1>6. CASE ~writer.read.cancelled /\ Fault /\ thread' = [thread EXCEPT !.poisoned = TRUE]
           /\ Answer("error", 0, thread)
  <2>1. PICK t \in Threads : t = [thread EXCEPT !.poisoned = TRUE]
    BY <1>3 DEF Threads
  <2>2. /\ thread' = t /\ t.poisoned /\ t.durable = thread.durable
        /\ t.physical = thread.physical /\ t.state = "running"
    BY <1>1, <1>3, <1>6, <2>1 DEF Threads
  <2> QED
    BY <1>1, <1>3, <1>4, <1>6, <2>2, PoisonedKeeps
<1>7. ASSUME thread' = thread, NEW kind \in {"row", "cancelled"}, NEW row \in FileRows,
             Answer(kind, row, thread),
             kind = "row" => /\ command.row <= thread.durable /\ row = disk[command.row]
      PROVE  IInv' /\ UNCHANGED <<log, confirmed>>
  <2>1. /\ reply' \in Acks /\ reply'.durable <= reply'.physical
        /\ reply'.kind \in {kind, "none"} /\ (~sender => reply' = NoReply)
        /\ reply'.kind = kind => reply'.row = row
    BY <1>3, <1>7, AnswerIs
  <2>2. Typed'
    BY <1>1, <1>2, <1>5, <1>7, <2>1 DEF IInv, Typed
  <2>3. FileHeld'
    BY <1>1, <1>2, <1>7 DEF IInv, FileHeld
  <2>4. Located'
    BY <1>1, <1>2, <1>3, <1>4, <1>5, <1>7 DEF Located
  <2>5. StorageHeld' /\ SlotHeld'
    BY <1>1, <1>7, ServeKeeps
  <2>6. AnswersHeld'
    <3>1. kind = "row" => /\ command.row \in 1..Len(log) /\ disk[command.row] = log[command.row]
      <4>1. PICK w \in stable..Len(log) : \A i \in 1..w : disk[i] = log[i]
        BY <1>4 DEF Holds
      <4>2. Len(log) \in Nat /\ stable \in Nat
        BY Numbers
      <4> QED
        BY <1>3, <1>4, <1>7, <4>1, <4>2
    <3> QED
      BY <3>1, <1>2, <1>4, <1>5, <1>7, <2>1 DEF IInv, AnswersHeld, ReadReturnsAskedRow
  <2> QED
    BY <1>2, <2>2, <2>3, <2>4, <2>5, <2>6 DEF IInv
<1>8. CASE /\ command.row <= thread.durable /\ thread' = thread
           /\ Answer("row", disk[command.row], thread)
  <2>1. disk[command.row] \in FileRows
    <3>1. command.row \in 1..Len(disk)
      BY <1>3, <1>4, <1>8, Numbers
    <3> QED
      BY <3>1, <1>4, ElementOfSeq
  <2> QED
    BY <1>7, <1>8, <2>1
<1>9. CASE thread' = thread /\ Answer("cancelled", 0, thread)
  BY <1>7, <1>9, Nothing
<1> QED
  BY <1>6, <1>8, <1>9 DEF ReadRow

LEMMA ThreadEndKeeps ==
  ASSUME IInv, ThreadEnds
  PROVE  IInv' /\ UNCHANGED <<log, confirmed>>
<1>1. /\ thread.state = "running" /\ ~sender /\ command = NoCommand
      /\ thread \in Threads /\ thread.durable <= thread.physical
  BY DEF ThreadEnds, IInv, Typed
<1>2. PICK t \in Threads : t = [thread EXCEPT !.state = "gone"]
  BY <1>1 DEF Threads
<1>3. /\ thread' = t /\ t.state = "gone" /\ t.durable = thread.durable
      /\ t.physical = thread.physical /\ t.poisoned = thread.poisoned
  BY <1>1, <1>2 DEF ThreadEnds, Threads
<1>4. UNCHANGED <<log, minted, batch, confirmed, storage, shut, writer, call, answer, sender,
                  command, reply, disk, stable>>
  BY DEF ThreadEnds, sessionVars, clientVars, deviceVars
<1>5. Typed'
  BY <1>1, <1>3, <1>4 DEF IInv, Typed
<1>6. FileHeld' /\ Located'
  BY <1>1, <1>3, <1>4 DEF IInv, FileHeld, Located
<1>7. storage \notin Unowned
  BY <1>1 DEF IInv, StorageHeld, NoThread
<1>8. StorageHeld'
  BY <1>1, <1>3, <1>4, <1>7 DEF IInv, StorageHeld, Unowned, ResumeStages
<1>9. SlotHeld' /\ AnswersHeld'
  BY <1>3, <1>4 DEF IInv, SlotHeld, Waiting, AnswersHeld, ReadReturnsAskedRow
<1> QED
  BY <1>4, <1>5, <1>6, <1>8, <1>9 DEF IInv

-----------------------------------------------------------------------------
(* The creation of the file, and the rows that are accepted.                 *)

LEMMA FreshIs ==
  ASSUME NEW n \in Offsets
  PROVE  /\ FreshWriter(n) \in Writers /\ FreshWriter(n).pending = <<>>
         /\ FreshWriter(n).flight = "none" /\ FreshWriter(n).read = NoRead
         /\ FreshWriter(n).physical = n /\ FreshWriter(n).durable = n
         /\ ~FreshWriter(n).poisoned /\ ~FreshWriter(n).failed
         /\ FreshWriter(n).durable <= FreshWriter(n).physical
<1>1. NoRead \in Reads /\ <<>> \in Seq(Rows)
  BY JournalBounds DEF NoRead, Reads, Offsets
<1> QED
  BY <1>1, JournalBounds DEF FreshWriter, Writers, Flights, Offsets

LEMMA NoCallIs ==
  NoCall \in Calls /\ NoCall.op = "none" /\ NoCall.at = "main" /\ ~NoCall.sent
BY Nothing DEF NoCall, Calls

LEMMA MaterializeKeeps ==
  ASSUME IInv, Materialize
  PROVE  IInv' /\ UNCHANGED <<log, confirmed>>
<1>1. /\ storage = "deferred" /\ storage' = "starting" /\ sender'
      /\ UNCHANGED <<log, minted, batch, confirmed, shut, writer, call, answer, command,
                     reply, disk, stable>>
  BY DEF Materialize, deviceVars
<1>2. PICK t \in Threads : t = [NoThread EXCEPT !.state = "creating"]
  BY Nothing DEF NoThread, Threads
<1>3. /\ thread' = t /\ t.state = "creating" /\ t.durable = 0 /\ t.physical = 0 /\ ~t.poisoned
  BY <1>2 DEF Materialize, NoThread, Threads
<1>4. /\ thread = NoThread /\ command = NoCommand /\ reply = NoReply /\ log = <<>> /\ disk = <<>>
      /\ call = NoCall /\ writer = FreshWriter(0) /\ batch = 0
  BY <1>1 DEF IInv, StorageHeld, Unowned, Detached
<1>5. /\ NoCommand.kind = "none" /\ NoReply.kind = "none" /\ NoCommand.rows = <<>>
      /\ 0 \in Offsets
  BY Nothing
<1>6. Typed'
  BY <1>1, <1>3 DEF IInv, Typed, Storages
<1>7. FileHeld'
  <2>1. stable = 0
    BY <1>4, Numbers, Len(<<>>) = 0 DEF IInv, FileHeld, Holds
  <2> QED
    BY <2>1, <1>1, <1>3, <1>4, Len(<<>>) = 0 DEF IInv, FileHeld
<1>8. Located'
  BY <1>1, <1>4, <1>5, FreshIs, Len(<<>>) = 0 DEF Located, Gapless, Complete, Part
<1>9. StorageHeld'
  BY <1>1, <1>3, <1>4, <1>5 DEF IInv, StorageHeld, Unowned, Detached, ResumeStages
<1>10. SlotHeld'
  BY <1>1, <1>4, <1>5, FreshIs, NoCallIs DEF SlotHeld, Waiting
<1>11. AnswersHeld'
  BY <1>1, <1>4, <1>5 DEF IInv, AnswersHeld, ReadReturnsAskedRow
<1> QED
  BY <1>1, <1>6, <1>7, <1>8, <1>9, <1>10, <1>11 DEF IInv

LEMMA CreatesKeep ==
  ASSUME IInv, CreateFile
  PROVE  IInv' /\ Longer(log, log') /\ UNCHANGED confirmed
<1>1. /\ thread.state = "creating" /\ log = <<>> /\ disk = <<>> /\ command = NoCommand
      /\ reply = NoReply /\ ~thread.poisoned /\ storage \in {"starting", "failed"}
      /\ thread \in Threads /\ thread.durable <= thread.physical
  BY DEF IInv, Typed, StorageHeld, CreateFile
<1>2. /\ call = NoCall /\ writer = FreshWriter(0) /\ batch = 0
      /\ sender <=> storage = "starting"
  BY <1>1 DEF IInv, StorageHeld, Detached
<1>3. UNCHANGED <<minted, batch, confirmed, storage, shut, writer, call, answer, sender, command>>
  BY DEF CreateFile, clientVars
<1>4. /\ NoCommand.kind = "none" /\ NoReply.kind = "none" /\ NoCommand.rows = <<>>
      /\ 0 \in Offsets /\ 0 \in FileRows /\ 0 \in Rows
  BY Nothing
<1>5. stable = 0 /\ confirmed = 0
  <2>1. confirmed <= stable /\ confirmed \in Nat /\ stable \in Nat /\ Len(log) = 0
        /\ \E w \in stable..Len(log) : TRUE
    BY <1>1, Numbers, Len(<<>>) = 0 DEF IInv, FileHeld, Holds
  <2> QED
    BY <2>1
<1>6. writer.pending = <<>> /\ writer.flight = "none" /\ writer.read = NoRead
  BY <1>2, <1>4, FreshIs
<1>7. CASE /\ log' = <<0>> /\ disk' = <<0>> /\ stable' = 1
           /\ thread' = [state |-> "running", physical |-> 1, durable |-> 1, poisoned |-> FALSE]
           /\ Answer("ok", 0, thread')
  <2>1. 1 \in Offsets
    BY JournalBounds DEF Offsets
  <2>2. /\ thread' \in Threads /\ thread'.durable = 1 /\ thread'.physical = 1
        /\ thread'.state = "running" /\ ~thread'.poisoned /\ thread'.durable <= thread'.physical
    BY <1>7, <2>1 DEF Threads
  <2>3. PICK t \in Threads : thread' = t
    BY <2>2
  <2>4. /\ reply' \in Acks /\ reply'.durable <= reply'.physical
        /\ reply'.kind \in {"ok", "none"} /\ (~sender => reply' = NoReply)
    BY <1>4, <1>7, <2>2, <2>3, AnswerIs
  <2>5. /\ log' \in Seq(Rows) /\ disk' \in Seq(FileRows) /\ Len(log') = 1 /\ Len(disk') = 1
        /\ disk'[1] = log'[1]
    BY <1>4, <1>7
  <2>6. Typed'
    <3>1. Len(log') <= minted + 1 /\ stable' \in Nat
      BY <1>7, <2>5, Numbers
    <3>2. batch <= Len(log')
      BY <1>2, <2>5
    <3> QED
      BY <1>3, <2>2, <2>4, <2>5, <3>1, <3>2 DEF IInv, Typed
  <2>7. FileHeld'
    BY <1>3, <1>5, <1>7, <2>2, <2>5 DEF FileHeld, Holds
  <2>8. Located'
    BY <1>2, <1>3, <1>1, <1>4, <1>6, <2>5, Len(<<>>) = 0
       DEF Located, Gapless, Complete, Part
  <2>9. StorageHeld'
    BY <1>1, <1>2, <1>3, <2>2 DEF StorageHeld, Unowned, Detached, ResumeStages
  <2>10. SlotHeld'
    BY <1>1, <1>2, <1>3, <1>4, <1>6, NoCallIs DEF SlotHeld, Waiting
  <2>11. AnswersHeld'
    BY <1>3, <1>6, <2>4, <1>4 DEF IInv, AnswersHeld, ReadReturnsAskedRow
  <2>12. Longer(log, log')
    BY <1>1, <2>5, Len(<<>>) = 0 DEF Longer
  <2> QED
    BY <1>3, <2>6, <2>7, <2>8, <2>9, <2>10, <2>11, <2>12 DEF IInv
<1>8. CASE /\ thread' = [thread EXCEPT !.state = "gone"]
           /\ Answer("error", 0, thread)
           /\ UNCHANGED <<log, disk, stable>>
  <2>1. PICK t \in Threads : t = [thread EXCEPT !.state = "gone"]
    BY <1>1 DEF Threads
  <2>2. /\ thread' = t /\ t.durable = thread.durable /\ t.physical = thread.physical
        /\ t.state = "gone" /\ ~t.poisoned
    BY <1>1, <1>8, <2>1 DEF Threads
  <2>3. /\ reply' \in Acks /\ reply'.durable <= reply'.physical
        /\ reply'.kind \in {"error", "none"} /\ (~sender => reply' = NoReply)
    BY <1>1, <1>4, <1>8, AnswerIs
  <2>4. Typed'
    BY <1>1, <1>3, <1>8, <2>2, <2>3 DEF IInv, Typed
  <2>5. FileHeld' /\ Located'
    BY <1>1, <1>3, <1>8, <2>2 DEF IInv, FileHeld, Located
  <2>6. StorageHeld'
    BY <1>1, <1>2, <1>3, <2>2, <2>3 DEF StorageHeld, Unowned, Detached, ResumeStages
  <2>7. SlotHeld'
    BY <1>1, <1>2, <1>3, <1>4, <1>6, NoCallIs DEF SlotHeld, Waiting
  <2>8. AnswersHeld'
    BY <1>3, <1>4, <2>3 DEF IInv, AnswersHeld, ReadReturnsAskedRow
  <2>9. Longer(log, log')
    BY <1>8, Numbers DEF Longer
  <2> QED
    BY <1>3, <2>4, <2>5, <2>6, <2>7, <2>8, <2>9 DEF IInv
<1> QED
  BY <1>7, <1>8 DEF CreateFile

LEMMA MaterializedKeeps ==
  ASSUME IInv, Materialized
  PROVE  IInv' /\ UNCHANGED <<log, confirmed>>
<1>1. /\ storage = "starting" /\ reply.kind \in {"ok", "error"} /\ reply' = NoReply
      /\ UNCHANGED <<log, minted, batch, confirmed, shut, call, answer, command, thread,
                     disk, stable>>
  BY DEF Materialized, deviceVars
<1>2. /\ call = NoCall /\ writer = FreshWriter(0) /\ batch = 0 /\ sender
      /\ thread.state # "none" /\ command = NoCommand
      /\ reply.kind = "ok" => thread.state = "running"
      /\ thread.state # "creating"
  <2>1. thread.state # "creating"
    BY <1>1, Nothing DEF IInv, StorageHeld
  <2> QED
    BY <1>1, <2>1 DEF IInv, StorageHeld, Detached
<1>3. /\ NoCommand.kind = "none" /\ NoReply.kind = "none" /\ NoCommand.rows = <<>>
      /\ 0 \in Offsets /\ reply.physical \in Offsets
      /\ NoReply \in Acks /\ NoReply.durable <= NoReply.physical
  BY Nothing DEF IInv, Typed, Acks
<1>4. PICK n \in Offsets : n = IF reply.kind = "ok" THEN reply.physical ELSE 0
  BY <1>3
<1>5. /\ writer' = FreshWriter(n)
      /\ \/ storage' = "active" /\ sender' /\ reply.kind = "ok"
         \/ storage' = "failed" /\ ~sender' /\ n = 0
      /\ sender' \in BOOLEAN
  <2>1. CASE reply.kind = "ok"
    <3>1. storage' = "active" /\ writer' = FreshWriter(reply.physical) /\ sender' = sender
      BY <2>1 DEF Materialized
    <3>2. sender' /\ sender' \in BOOLEAN
      BY <3>1, <1>2 DEF IInv, Typed
    <3>3. n = reply.physical
      BY <2>1, <1>4
    <3>4. writer' = FreshWriter(n)
      BY <3>1, <3>3
    <3> QED
      BY <2>1, <3>1, <3>2, <3>4
  <2>2. CASE reply.kind = "error"
    <3>1. storage' = "failed" /\ writer' = writer /\ sender' = FALSE
      BY <2>2 DEF Materialized
    <3> QED
      BY <2>2, <3>1, <1>2, <1>4
  <2> QED
    BY <2>1, <2>2, <1>1
<1>6. /\ FreshWriter(n) \in Writers /\ FreshWriter(n).pending = <<>>
      /\ FreshWriter(n).flight = "none" /\ FreshWriter(n).read = NoRead
      /\ FreshWriter(n).durable <= FreshWriter(n).physical
      /\ FreshWriter(0).pending = <<>> /\ FreshWriter(0).read = NoRead
  BY <1>3, FreshIs
<1>7. Typed'
  BY <1>1, <1>3, <1>5, <1>6 DEF IInv, Typed, Storages
<1>8. FileHeld'
  BY <1>1 DEF IInv, FileHeld
<1>9. Located'
  BY <1>1, <1>2, <1>5, <1>6 DEF IInv, Located
<1>10. StorageHeld'
  BY <1>1, <1>2, <1>5 DEF StorageHeld, Unowned, Detached, ResumeStages
<1>11. SlotHeld'
  BY <1>1, <1>2, <1>3, <1>5, <1>6, NoCallIs DEF SlotHeld, Waiting
<1>12. AnswersHeld'
  BY <1>1, <1>3 DEF IInv, AnswersHeld, ReadReturnsAskedRow
<1> QED
  BY <1>1, <1>7, <1>8, <1>9, <1>10, <1>11, <1>12 DEF IInv

LEMMA AcceptsKeep ==
  ASSUME IInv, Accept
  PROVE  IInv' /\ Longer(log, log') /\ UNCHANGED confirmed
<1>1. /\ storage = "active" /\ call = NoCall /\ batch < MaxBatch /\ minted < MaxRow
      /\ minted' = minted + 1 /\ log' = Append(log, minted + 1) /\ batch' = batch + 1
      /\ UNCHANGED <<confirmed, storage, shut, writer, call, answer, sender, command, reply,
                     thread, disk, stable>>
  BY DEF Accept, clientVars, deviceVars
<1>2. /\ batch \in Nat /\ batch' \in 0..MaxBatch /\ minted' \in 0..MaxRow
      /\ minted + 1 \in Rows
  <2>1. batch \in Nat /\ minted \in Nat
    BY Numbers
  <2> QED
    BY <1>1, <2>1, JournalBounds DEF Rows
<1>3. /\ log' \in Seq(Rows) /\ Len(log') = Len(log) + 1 /\ Longer(log, log')
  BY <1>1, <1>2, Sequences, AppendProperties DEF Longer
<1>4. Typed'
  <2>1. batch <= Len(log) /\ Len(log) <= minted + 1
    BY DEF IInv, Typed
  <2>2. batch' <= Len(log') /\ Len(log') <= minted' + 1
    BY <2>1, <1>1, <1>3, Numbers
  <2> QED
    BY <2>2, <1>1, <1>2, <1>3 DEF IInv, Typed
<1>5. FileHeld'
  <2>1. Holds(disk, log', stable)
    <3>1. stable \in Nat /\ stable \in 0..stable /\ disk \in Seq(FileRows)
          /\ Holds(disk, log, stable)
      BY Numbers, Sequences DEF IInv, FileHeld
    <3> QED
      BY <3>1, <1>3, Sequences, HoldsLonger
  <2> QED
    BY <2>1, <1>1 DEF IInv, FileHeld
<1>6. Located'
  <2>1. ASSUME thread.state # "none", ~thread.poisoned
        PROVE  /\ Gapless(disk, command.rows, writer.pending, batch + 1, Append(log, minted + 1))
               /\ sender => Complete(disk, command.rows, writer.pending, batch + 1,
                                     Append(log, minted + 1))
    BY <2>1, <1>2, Places, Sequences, AcceptMoves
  <2> QED
    BY <2>1, <1>1 DEF Located
<1>7. StorageHeld'
  BY <1>1 DEF IInv, StorageHeld, Unowned, Detached, ResumeStages
<1>8. SlotHeld'
  BY <1>1 DEF IInv, SlotHeld, Waiting
<1>9. AnswersHeld'
  <2>1. \A i \in 1..Len(log) : i \in 1..Len(log') /\ log'[i] = log[i]
    BY <1>3, Numbers DEF Longer
  <2> QED
    BY <2>1, <1>1 DEF IInv, AnswersHeld, ReadReturnsAskedRow
<1> QED
  BY <1>1, <1>3, <1>4, <1>5, <1>6, <1>7, <1>8, <1>9 DEF IInv

-----------------------------------------------------------------------------
(* The calls of the session.                                                 *)

\* v has in flight and staged what w has.
SameFlight(w, v) ==
  /\ v \in Writers /\ v.durable <= v.physical
  /\ v.pending = w.pending /\ v.flight = w.flight /\ v.read.row = w.read.row
  /\ v.read = NoRead <=> w.read = NoRead

\* v has nothing in flight, and staged what w has.
Settled(w, v) ==
  /\ v \in Writers /\ v.durable <= v.physical
  /\ v.pending = w.pending /\ v.flight = "none" /\ v.read = NoRead

\* What a call may be in a session whose writer is w and whose batch has b rows.
Sound(c, w, b, stage) ==
  /\ c \in Calls
  /\ c # NoCall /\ c.at = "main" => b = 0
  /\ c.op = "finish" /\ c.at = "main" => stage = "finishing"
  /\ c.op = "read" => c.row > 0
  /\ c.sent => c.op = "read" /\ c.at = "main" /\ w.read # NoRead /\ w.read.row = c.row

\* A session with a call owns its writer and its thread.
LEMMA Owned ==
  ASSUME IInv, call # NoCall \/ Waiting \/ storage \in {"active", "finishing"}
  PROVE  /\ storage \in {"active", "finishing"} /\ sender
         /\ thread.state \in {"running", "gone"}
         /\ Sound(call, writer, batch, storage) /\ SameFlight(writer, writer)
         /\ writer \in Writers /\ call \in Calls /\ batch \in Nat
<1>1. 0 \in Offsets
  BY Nothing
<1>2. storage \notin Detached
  <2>1. CASE call # NoCall
    BY <2>1 DEF IInv, StorageHeld
  <2>2. CASE Waiting
    BY <2>2, <1>1, FreshIs DEF IInv, StorageHeld, Waiting
  <2>3. CASE storage \in {"active", "finishing"}
    BY <2>3 DEF Detached, ResumeStages
  <2> QED
    BY <2>1, <2>2, <2>3
<1>3. storage \in {"active", "finishing"}
  BY <1>2 DEF IInv, Typed, Storages, Detached
<1>4. sender /\ thread.state \in {"running", "gone"}
  BY <1>3 DEF IInv, StorageHeld
<1>5. Sound(call, writer, batch, storage)
  BY DEF IInv, Typed, SlotHeld, Sound
<1>6. SameFlight(writer, writer) /\ writer \in Writers /\ call \in Calls /\ batch \in Nat
  BY JournalBounds DEF IInv, Typed, SameFlight
<1> QED
  BY <1>3, <1>4, <1>5, <1>6

\* A call that begins, goes on or ends moves no row.
LEMMA ClientKeeps ==
  ASSUME IInv, storage \in {"active", "finishing"},
         UNCHANGED <<log, minted, batch, sender, command, thread, disk, stable>>,
         storage' \in {storage, "finishing"}, storage' = "finishing" => batch = 0,
         shut' \in BOOLEAN, confirmed' \in Nat, confirmed' <= stable, ReadReturnsAskedRow',
         Sound(call', writer', batch, storage'),
         \/ SameFlight(writer, writer') /\ reply' = reply
         \/ Settled(writer, writer') /\ reply' = NoReply /\ command = NoCommand
  PROVE  IInv'
<1>1. /\ sender /\ thread.state \in {"running", "gone"}
      /\ storage = "active" => thread.state = "running"
  BY Owned DEF IInv, StorageHeld
<1>2. /\ writer' \in Writers /\ writer'.durable <= writer'.physical
      /\ writer'.pending = writer.pending
  BY DEF SameFlight, Settled
<1>3. /\ NoReply \in Acks /\ NoReply.durable <= NoReply.physical /\ NoReply.kind = "none"
      /\ NoCommand.kind = "none"
  BY Nothing
<1>4. Typed'
  BY <1>2, <1>3 DEF IInv, Typed, Sound, Storages
<1>5. FileHeld'
  BY DEF IInv, FileHeld
<1>6. Located'
  BY <1>2 DEF IInv, Located
<1>7. StorageHeld'
  BY <1>1 DEF IInv, StorageHeld, Unowned, Detached, ResumeStages
<1>8. CASE SameFlight(writer, writer') /\ reply' = reply
  <2>1. SlotHeld'
    BY <1>8 DEF IInv, SlotHeld, Waiting, SameFlight, Sound
  <2>2. AnswersHeld'
    BY <1>8 DEF IInv, AnswersHeld, SameFlight
  <2> QED
    BY <1>4, <1>5, <1>6, <1>7, <2>1, <2>2 DEF IInv
<1>9. CASE Settled(writer, writer') /\ reply' = NoReply /\ command = NoCommand
  <2>1. SlotHeld'
    BY <1>3, <1>9 DEF IInv, SlotHeld, Waiting, Settled, Sound
  <2>2. AnswersHeld'
    BY <1>3, <1>9 DEF AnswersHeld
  <2> QED
    BY <1>4, <1>5, <1>6, <1>7, <2>1, <2>2 DEF IInv
<1> QED
  BY <1>8, <1>9

\* A session that gives its writer up forgets what was staged, and the batch.
LEMMA GiveUpKeeps ==
  ASSUME IInv, UNCHANGED <<log, minted, command, thread, disk, stable>>,
         storage' \in {"failed", "closed"}, storage' = "closed" => thread.state # "creating",
         sender' = FALSE, writer' = FreshWriter(0), call' = NoCall, batch' = 0,
         shut' \in BOOLEAN, confirmed' \in Nat, confirmed' <= stable, ReadReturnsAskedRow',
         reply' = NoReply \/ (reply' = reply /\ writer.read = NoRead)
  PROVE  IInv'
<1>1. /\ NoReply \in Acks /\ NoReply.durable <= NoReply.physical /\ NoReply.kind = "none"
      /\ NoCommand.kind = "none" /\ 0 \in Offsets
  BY Nothing
<1>2. /\ writer' \in Writers /\ writer'.durable <= writer'.physical
      /\ writer'.pending = <<>> /\ writer'.flight = "none" /\ writer'.read = NoRead
  BY <1>1, FreshIs
<1>3. Typed'
  <2>1. batch' \in 0..MaxBatch /\ batch' <= Len(log)
    BY Numbers, JournalBounds
  <2>2. reply' \in Acks /\ reply'.durable <= reply'.physical
    BY <1>1 DEF IInv, Typed
  <2> QED
    BY <1>2, <2>1, <2>2, NoCallIs DEF IInv, Typed, Storages
<1>4. FileHeld'
  BY DEF IInv, FileHeld
<1>5. Located'
  <2>1. ASSUME thread.state # "none", ~thread.poisoned
        PROVE  Gapless(disk, command.rows, <<>>, 0, log)
    BY <2>1, Places, Numbers, Sequences, DropMoves
  <2> QED
    BY <1>2, <2>1 DEF Located
<1>6. StorageHeld'
  BY DEF IInv, StorageHeld, Unowned, Detached, ResumeStages
<1>7. SlotHeld'
  BY <1>1, <1>2, NoCallIs DEF IInv, SlotHeld, Waiting
<1>8. AnswersHeld'
  BY <1>1, <1>2 DEF IInv, AnswersHeld
<1> QED
  BY <1>3, <1>4, <1>5, <1>6, <1>7, <1>8 DEF IInv

\* A writer whose read was cancelled still waits for it.
LEMMA CancelledIs ==
  ASSUME NEW w \in Writers, w.durable <= w.physical
  PROVE  LET v == [w EXCEPT !.read.cancelled = TRUE]
         IN /\ v \in Writers /\ v.durable <= v.physical /\ v.read # NoRead
            /\ v.read.row = w.read.row /\ v.pending = w.pending /\ v.flight = w.flight
<1>1. PICK v \in Writers : v = [w EXCEPT !.read.cancelled = TRUE]
  BY DEF Writers, Reads
<1>2. /\ v.durable = w.durable /\ v.physical = w.physical /\ v.pending = w.pending
      /\ v.flight = w.flight /\ v.read.row = w.read.row /\ v.read.cancelled
  BY <1>1 DEF Writers, Reads
<1> QED
  BY <1>1, <1>2 DEF NoRead

LEMMA BeginKeeps ==
  ASSUME IInv, storage \in {"active", "finishing"}, NEW c \in Calls, Begin(c),
         c.op = "read" => c.row > 0, ~c.sent,
         storage' = IF c.op = "finish" /\ call'.at = "main" THEN "finishing" ELSE storage,
         shut' \in BOOLEAN
  PROVE  IInv' /\ UNCHANGED <<log, confirmed>>
<1>1. /\ call = NoCall
      /\ call' = [c EXCEPT !.at = IF batch > 0 \/ c.op = "flush" THEN "flush" ELSE "main"]
      /\ UNCHANGED <<log, minted, batch, confirmed, answer, sender, command, reply, thread,
                     disk, stable>>
  BY DEF Begin, deviceVars
<1>2. PICK n \in Calls :
        n = [c EXCEPT !.at = IF batch > 0 \/ c.op = "flush" THEN "flush" ELSE "main"]
  BY DEF Calls
<1>3. /\ call' = n /\ n.op = c.op /\ n.row = c.row /\ n.sent = c.sent
      /\ n.at = IF batch > 0 \/ c.op = "flush" THEN "flush" ELSE "main"
  BY <1>1, <1>2 DEF Calls
<1>4. n.at = "main" => batch = 0
  BY <1>3, Numbers
<1>5. storage' \in {storage, "finishing"} /\ (storage' = "finishing" => batch = 0)
  BY <1>3, <1>4 DEF IInv, SlotHeld
<1>6. SameFlight(writer, writer')
  <2>1. CASE writer' = writer
    BY <2>1, Owned
  <2>2. CASE writer.read # NoRead /\ writer' = [writer EXCEPT !.read.cancelled = TRUE]
    <3>1. writer \in Writers /\ writer.durable <= writer.physical
      BY DEF IInv, Typed
    <3> QED
      BY <3>1, <2>2, CancelledIs DEF SameFlight
  <2> QED
    BY <2>1, <2>2 DEF Begin
<1>7. Sound(call', writer', batch, storage')
  BY <1>3, <1>4 DEF Sound
<1>8. confirmed' \in Nat /\ confirmed' <= stable /\ ReadReturnsAskedRow'
  BY <1>1, Numbers DEF IInv, FileHeld, AnswersHeld, ReadReturnsAskedRow
<1> QED
  BY <1>1, <1>5, <1>6, <1>7, <1>8, ClientKeeps

LEMMA BeginCallKeeps ==
  ASSUME IInv, BeginCall
  PROVE  IInv' /\ UNCHANGED <<log, confirmed>>
<1>1. storage = "active" /\ storage' = storage /\ shut' = shut /\ shut \in BOOLEAN
  BY DEF BeginCall, IInv, Typed
<1>2. CASE \E op \in {"flush", "barrier"} : Begin([NoCall EXCEPT !.op = op])
  <2>1. PICK op \in {"flush", "barrier"} : Begin([NoCall EXCEPT !.op = op])
    BY <1>2
  <2>2. PICK c \in Calls : c = [NoCall EXCEPT !.op = op]
    BY NoCallIs DEF Calls
  <2>3. c.op = op /\ ~c.sent
    BY <2>2, NoCallIs DEF Calls
  <2> QED
    BY <1>1, <2>1, <2>2, <2>3, BeginKeeps
<1>3. CASE \E row \in 2..Len(log) : Begin([NoCall EXCEPT !.op = "read", !.row = row])
  <2>1. PICK row \in 2..Len(log) : Begin([NoCall EXCEPT !.op = "read", !.row = row])
    BY <1>3
  <2>2. row \in Offsets /\ row > 0
    BY Numbers, JournalBounds DEF Offsets
  <2>3. PICK c \in Calls : c = [NoCall EXCEPT !.op = "read", !.row = row]
    BY <2>2, NoCallIs DEF Calls
  <2>4. c.op = "read" /\ c.row = row /\ ~c.sent
    BY <2>2, <2>3, NoCallIs DEF Calls
  <2> QED
    BY <1>1, <2>1, <2>2, <2>3, <2>4, BeginKeeps
<1> QED
  BY <1>2, <1>3 DEF BeginCall

LEMMA BeginShutdownKeeps ==
  ASSUME IInv, BeginShutdown
  PROVE  IInv' /\ UNCHANGED <<log, confirmed>>
<1>1. PICK c \in Calls : c = [NoCall EXCEPT !.op = "finish"]
  BY NoCallIs DEF Calls
<1>2. c.op = "finish" /\ ~c.sent
  BY <1>1, NoCallIs DEF Calls
<1> QED
  BY <1>1, <1>2, BeginKeeps DEF BeginShutdown

LEMMA DropWaitKeeps ==
  ASSUME IInv, DropWait
  PROVE  IInv' /\ UNCHANGED <<log, confirmed>>
<1>1. /\ call # NoCall /\ call' = NoCall
      /\ UNCHANGED <<log, minted, batch, confirmed, storage, shut, writer, answer, sender, command,
                     reply, thread, disk, stable>>
  BY DEF DropWait, sessionVars, deviceVars
<1>2. storage \in {"active", "finishing"} /\ SameFlight(writer, writer)
  BY <1>1, Owned
<1>3. Sound(NoCall, writer, batch, storage)
  BY NoCallIs DEF Sound
<1>4. confirmed \in Nat /\ confirmed <= stable /\ ReadReturnsAskedRow' /\ shut \in BOOLEAN
  BY <1>1, Numbers DEF IInv, Typed, FileHeld, AnswersHeld, ReadReturnsAskedRow
<1>5. storage = "finishing" => batch = 0
  BY DEF IInv, SlotHeld
<1> QED
  BY <1>1, <1>2, <1>3, <1>4, <1>5, ClientKeeps

LEMMA CancelReadKeeps ==
  ASSUME IInv, CancelRead
  PROVE  IInv' /\ UNCHANGED <<log, confirmed>>
<1>1. UNCHANGED <<log, minted, batch, confirmed, storage, shut, answer, sender, command,
                  reply, thread, disk, stable>>
  BY DEF CancelRead, sessionVars, deviceVars
<1>2. /\ storage \in {"active", "finishing"} /\ SameFlight(writer, writer)
      /\ writer \in Writers /\ writer.durable <= writer.physical /\ call \in Calls
      /\ Sound(call, writer, batch, storage)
  BY Owned, NoCallIs DEF CancelRead, IInv, Typed, Waiting
<1>3. confirmed \in Nat /\ confirmed <= stable /\ ReadReturnsAskedRow' /\ shut \in BOOLEAN
  BY <1>1, Numbers DEF IInv, Typed, FileHeld, AnswersHeld, ReadReturnsAskedRow
<1>4. storage = "finishing" => batch = 0
  BY DEF IInv, SlotHeld
<1>5. writer.read # NoRead => SameFlight(writer, [writer EXCEPT !.read.cancelled = TRUE])
  BY <1>2, CancelledIs DEF SameFlight
<1>6. CASE /\ call.op = "read" /\ call' = [call EXCEPT !.cancelled = TRUE]
           /\ writer' = IF call.sent THEN [writer EXCEPT !.read.cancelled = TRUE] ELSE writer
  <2>1. PICK n \in Calls : n = [call EXCEPT !.cancelled = TRUE]
    BY <1>2 DEF Calls
  <2>2. /\ call' = n /\ n.op = call.op /\ n.at = call.at /\ n.row = call.row /\ n.sent = call.sent
    BY <1>2, <1>6, <2>1 DEF Calls
  <2>3. SameFlight(writer, writer')
    <3>1. call.sent => writer.read # NoRead
      BY <1>2 DEF Sound
    <3> QED
      BY <1>2, <1>5, <1>6, <3>1
  <2>4. Sound(call', writer', batch, storage)
    <3>1. call # NoCall
      BY <1>6, NoCallIs
    <3> QED
      BY <1>2, <2>2, <2>3, <3>1 DEF Sound, SameFlight
  <2> QED
    BY <1>1, <1>2, <1>3, <1>4, <2>3, <2>4, ClientKeeps
<1>7. CASE /\ writer.read # NoRead /\ writer' = [writer EXCEPT !.read.cancelled = TRUE]
           /\ call' = call
  <2>1. SameFlight(writer, writer')
    BY <1>5, <1>7
  <2>2. Sound(call', writer', batch, storage)
    BY <1>2, <1>7, <2>1 DEF Sound, SameFlight
  <2> QED
    BY <1>1, <1>2, <1>3, <1>4, <2>1, <2>2, ClientKeeps
<1> QED
  BY <1>6, <1>7 DEF CancelRead

LEMMA ShutWhileStartingKeeps ==
  ASSUME IInv, ShutWhileStarting
  PROVE  IInv' /\ UNCHANGED <<log, confirmed>>
<1>1. /\ shut' = TRUE
      /\ UNCHANGED <<log, minted, batch, confirmed, storage, writer, call, answer, sender, command,
                     reply, thread, disk, stable>>
  BY DEF ShutWhileStarting, clientVars, deviceVars
<1> QED
  BY <1>1 DEF IInv, Typed, FileHeld, Located, StorageHeld, SlotHeld, Waiting, AnswersHeld,
     ReadReturnsAskedRow

LEMMA CloseUnstartedKeeps ==
  ASSUME IInv, CloseUnstarted
  PROVE  IInv' /\ UNCHANGED <<log, confirmed>>
<1>1. /\ storage = "deferred" /\ shut' = TRUE /\ storage' = "closed"
      /\ UNCHANGED <<log, minted, batch, confirmed, writer, call, answer, sender, command,
                     reply, thread, disk, stable>>
  BY DEF CloseUnstarted, clientVars, deviceVars
<1>2. /\ thread = NoThread /\ call = NoCall /\ writer = FreshWriter(0) /\ batch = 0 /\ ~sender
      /\ command = NoCommand /\ reply = NoReply
  BY <1>1 DEF IInv, StorageHeld, Unowned, Detached
<1>3. NoThread.state = "none" /\ sender = FALSE
  BY <1>2 DEF NoThread, IInv, Typed
<1>4. /\ confirmed' \in Nat /\ confirmed' <= stable /\ ReadReturnsAskedRow'
  BY <1>1, Numbers DEF IInv, Typed, FileHeld, AnswersHeld, ReadReturnsAskedRow
<1> QED
  BY <1>1, <1>2, <1>3, <1>4, GiveUpKeeps

LEMMA DropSessionKeeps ==
  ASSUME IInv, DropSession
  PROVE  IInv' /\ UNCHANGED <<log, confirmed>>
<1>1. /\ shut' = TRUE /\ reply' = NoReply /\ storage' = "failed" /\ sender' = FALSE
      /\ writer' = FreshWriter(0) /\ call' = NoCall /\ batch' = 0
      /\ UNCHANGED <<log, minted, confirmed, answer, command, thread, disk, stable>>
  BY DEF DropSession, DropWriter, deviceVars
<1>2. /\ confirmed' \in Nat /\ confirmed' <= stable /\ ReadReturnsAskedRow'
  BY <1>1, Numbers DEF IInv, Typed, FileHeld, AnswersHeld, ReadReturnsAskedRow
<1> QED
  BY <1>1, <1>2, GiveUpKeeps

\* What a failing call does with a writer that has nothing in flight.
LEMMA FailKeeps ==
  ASSUME IInv, call # NoCall, NEW w \in Writers, Fail(w), w.durable <= w.physical,
         UNCHANGED <<log, minted, confirmed, shut, command, thread, disk, stable>>,
         ReadReturnsAskedRow',
         w.pending = writer.pending, w.flight = "none", w.read = NoRead,
         \/ reply' = NoReply /\ command = NoCommand /\ writer.pending = <<>>
         \/ reply' = reply /\ ~Waiting /\ ~(call.op = "finish" /\ call.at = "main")
  PROVE  IInv'
<1>1. /\ storage \in {"active", "finishing"} /\ call \in Calls
      /\ Sound(call, writer, batch, storage) /\ thread.state \in {"running", "gone"}
  BY Owned
<1>2. confirmed' \in Nat /\ confirmed' <= stable /\ shut' \in BOOLEAN
  BY Numbers DEF IInv, Typed, FileHeld
<1>3. storage = "finishing" => batch = 0
  BY DEF IInv, SlotHeld
<1>4. CASE call.op = "finish" /\ call.at = "main"
  <2>1. PICK v \in Writers :
          v = [w EXCEPT !.poisoned = TRUE, !.failed = TRUE, !.pending = <<>>]
    BY <<>> \in Seq(Rows) DEF Writers
  <2>2. /\ v.flight = "none" /\ v.read = NoRead /\ v.pending = <<>>
        /\ v.durable = w.durable /\ v.physical = w.physical
    BY <2>1 DEF Writers
  <2>3. /\ writer' = v /\ UNCHANGED <<storage, call, sender, batch>>
        /\ reply' = NoReply /\ command = NoCommand /\ writer.pending = <<>>
    BY <1>4, <2>1 DEF Fail, GoOn
  <2>4. Settled(writer, writer')
    BY <2>2, <2>3 DEF Settled
  <2>5. Sound(call', writer', batch, storage')
    BY <1>1, <1>4, <2>3 DEF Sound
  <2> QED
    BY <1>1, <1>2, <1>3, <2>3, <2>4, <2>5, ClientKeeps
<1>5. CASE call.op = "read" /\ call.at = "main"
  <2>1. PICK v \in Writers : v = [w EXCEPT !.poisoned = TRUE, !.failed = TRUE]
    BY DEF Writers
  <2>2. /\ v.flight = "none" /\ v.read = NoRead /\ v.pending = w.pending
        /\ v.durable = w.durable /\ v.physical = w.physical
    BY <2>1 DEF Writers
  <2>3. writer' = v /\ call' = NoCall /\ UNCHANGED <<storage, sender, batch>>
    BY <1>5, <2>1 DEF Fail, End
  <2>4. Settled(writer, writer')
    BY <2>2, <2>3 DEF Settled
  <2>5. Sound(call', writer', batch, storage')
    BY <2>3, NoCallIs DEF Sound
  <2>6. ~Waiting => SameFlight(writer, writer')
    BY <2>2, <2>3 DEF SameFlight, Waiting
  <2> QED
    BY <1>1, <1>2, <1>3, <2>3, <2>4, <2>5, <2>6, ClientKeeps
<1>6. CASE ~(call.op = "finish" /\ call.at = "main") /\ ~(call.op = "read" /\ call.at = "main")
  <2>1. DropWriter
    BY <1>6 DEF Fail
  <2> QED
    BY <1>2, <2>1, GiveUpKeeps DEF DropWriter, Waiting
<1> QED
  BY <1>4, <1>5, <1>6

LEMMA RefuseKeeps ==
  ASSUME IInv, Refuse
  PROVE  IInv' /\ UNCHANGED <<log, confirmed>>
<1>1. /\ call # NoCall /\ ~Waiting /\ ~(call.op = "finish" /\ call.at = "main") /\ Fail(writer)
      /\ UNCHANGED <<log, minted, confirmed, shut, answer, command, reply, thread, disk, stable>>
  BY DEF Refuse, deviceVars
<1>2. writer \in Writers /\ writer.durable <= writer.physical /\ ReadReturnsAskedRow'
  BY <1>1 DEF IInv, Typed, AnswersHeld, ReadReturnsAskedRow
<1> QED
  BY <1>1, <1>2, FailKeeps DEF Waiting

\* A confirmation finds the whole log in the file.
LEMMA ConfirmsAll ==
  ASSUME IInv, call # NoCall, Confirms
  PROVE  disk = log /\ stable = Len(log) /\ Len(log) \in Nat
<1>1. /\ reply.kind = "ok" /\ writer.flight \in {"barrier", "finish"} /\ call.at = "main"
  BY DEF Confirms
<1>2. ~thread.poisoned /\ stable = Len(disk) /\ sender /\ thread.state # "none"
  BY <1>1, Owned DEF IInv, AnswersHeld
<1>3. command.rows = <<>> /\ writer.pending = <<>> /\ batch = 0
  BY <1>1, Nothing DEF IInv, SlotHeld, Waiting
<1>4. Gapless(disk, <<>>, <<>>, 0, log) /\ Complete(disk, <<>>, <<>>, 0, log)
  BY <1>2, <1>3, Places
<1>5. Len(disk) = Len(log) /\ \A i \in 1..Len(log) : disk[i] = log[i]
  BY <1>4, Len(<<>>) = 0, Numbers DEF Gapless, Complete, Part
<1>6. log \in Seq(FileRows) /\ disk \in Seq(FileRows)
  BY Sequences, RowsAreFileRows
<1> QED
  BY <1>2, <1>5, <1>6, Numbers, SeqEqual

LEMMA SettleFlightKeeps ==
  ASSUME IInv, SettleFlight
  PROVE  IInv' /\ \/ UNCHANGED <<log, confirmed>>
                  \/ disk = log /\ confirmed' = Len(log) /\ UNCHANGED <<log, disk>>
<1>1. /\ call # NoCall /\ writer.flight # "none" /\ reply.kind \in {"ok", "error"}
      /\ reply' = NoReply
      /\ UNCHANGED <<log, minted, shut, answer, command, thread, disk, stable>>
      /\ confirmed' = IF Confirms THEN Len(log) ELSE confirmed
  BY DEF SettleFlight, deviceVars
<1> DEFINE landed == [writer EXCEPT !.flight = "none", !.physical = reply.physical,
                                    !.durable = reply.durable]
           lost == [writer EXCEPT !.flight = "none"]
<1>2. IF writer.flight = "finish"
      THEN Close([lost EXCEPT !.failed = @ \/ reply.kind = "error"])
      ELSE IF reply.kind = "error" THEN Fail(lost)
      ELSE IF Confirms THEN End(landed)
      ELSE GoOn(landed)
  BY DEF SettleFlight
<1> HIDE DEF landed, lost
<1>3. /\ storage \in {"active", "finishing"} /\ writer \in Writers /\ call \in Calls
      /\ Sound(call, writer, batch, storage) /\ thread.state \in {"running", "gone"}
      /\ reply \in Acks /\ reply.durable <= reply.physical /\ shut \in BOOLEAN
      /\ writer.durable <= writer.physical
  BY <1>1, Owned DEF IInv, Typed
<1>4. /\ command = NoCommand /\ writer.pending = <<>> /\ writer.read = NoRead
      /\ storage = "finishing" => batch = 0
  BY <1>1, Nothing DEF IInv, SlotHeld, Waiting
<1>5. ~call.sent
  BY <1>3, <1>4 DEF Sound
<1>6. lost \in Writers /\ lost.flight = "none" /\ lost.read = NoRead /\ lost.pending = <<>>
      /\ lost.durable <= lost.physical
  <2>1. PICK v \in Writers : v = [writer EXCEPT !.flight = "none"]
    BY <1>3 DEF Writers, Flights
  <2>2. /\ v.flight = "none" /\ v.read = writer.read /\ v.pending = writer.pending
        /\ v.durable = writer.durable /\ v.physical = writer.physical
    BY <1>3, <2>1 DEF Writers
  <2> QED
    BY <2>1, <2>2, <1>3, <1>4 DEF lost
<1>7. Settled(writer, landed)
  <2>1. PICK v \in Writers : v = [writer EXCEPT !.flight = "none", !.physical = reply.physical,
                                               !.durable = reply.durable]
    BY <1>3 DEF Writers, Flights, Acks
  <2>2. /\ v.flight = "none" /\ v.read = writer.read /\ v.pending = writer.pending
        /\ v.durable = reply.durable /\ v.physical = reply.physical
    BY <1>3, <2>1 DEF Writers
  <2> QED
    BY <2>1, <2>2, <1>3, <1>4 DEF landed, Settled
<1>8. /\ confirmed' \in Nat /\ confirmed' <= stable /\ ReadReturnsAskedRow'
      /\ Confirms => disk = log
  <2>1. Confirms => disk = log /\ stable = Len(log) /\ Len(log) \in Nat
    BY <1>1, ConfirmsAll
  <2>2. confirmed <= stable /\ confirmed \in Nat /\ ReadReturnsAskedRow
    BY DEF IInv, Typed, FileHeld, AnswersHeld
  <2> QED
    BY <1>1, <2>1, <2>2 DEF ReadReturnsAskedRow
<1>9. IInv'
  <2>1. CASE writer.flight = "finish"
    <3>1. Close([lost EXCEPT !.failed = @ \/ reply.kind = "error"])
      BY <1>2, <2>1
    <3>2. /\ storage' \in {"failed", "closed"} /\ sender' = FALSE /\ call' = NoCall
          /\ writer' = FreshWriter(0) /\ batch' = batch
      BY <3>1 DEF Close
    <3>3. batch' = 0
      BY <1>4, <2>1, <3>2 DEF IInv, SlotHeld
    <3> QED
      BY <1>1, <1>3, <1>8, <3>2, <3>3, GiveUpKeeps
  <2>2. CASE writer.flight # "finish" /\ reply.kind = "error"
    <3>1. Fail(lost) /\ ~Confirms
      BY <1>2, <2>2 DEF Confirms
    <3> QED
      BY <1>1, <1>4, <1>6, <1>8, <3>1, FailKeeps
  <2>3. CASE writer.flight # "finish" /\ reply.kind # "error" /\ Confirms
    <3>1. writer' = landed /\ call' = NoCall /\ UNCHANGED <<storage, sender, batch>>
      BY <1>2, <2>3 DEF End
    <3>2. Sound(call', writer', batch, storage')
      BY <3>1, NoCallIs DEF Sound
    <3> QED
      BY <1>1, <1>3, <1>4, <1>7, <1>8, <3>1, <3>2, ClientKeeps
  <2>4. CASE writer.flight # "finish" /\ reply.kind # "error" /\ ~Confirms
    <3>1. writer' = landed /\ UNCHANGED <<storage, call, sender, batch>>
      BY <1>2, <2>4 DEF GoOn
    <3>2. Sound(call', writer', batch, storage')
      BY <3>1, <1>3, <1>5 DEF Sound
    <3> QED
      BY <1>1, <1>3, <1>4, <1>7, <1>8, <3>1, <3>2, ClientKeeps
  <2> QED
    BY <2>1, <2>2, <2>3, <2>4
<1> QED
  BY <1>1, <1>8, <1>9

LEMMA SettleReadKeeps ==
  ASSUME IInv, SettleRead
  PROVE  IInv' /\ UNCHANGED <<log, confirmed>>
<1>1. /\ call # NoCall /\ writer.read # NoRead /\ reply.kind \in {"row", "cancelled", "error"}
      /\ reply' = NoReply
      /\ answer' = IF Resumes(call) /\ reply.kind = "row"
                   THEN [asked |-> log[call.row], got |-> reply.row] ELSE answer
      /\ UNCHANGED <<log, minted, confirmed, shut, command, thread, disk, stable>>
  BY DEF SettleRead, deviceVars
<1> DEFINE settled == [writer EXCEPT !.read = NoRead]
<1>2. IF reply.kind = "error" THEN Fail(settled)
      ELSE IF Resumes(call) THEN End(settled)
      ELSE GoOn(settled)
  BY DEF SettleRead
<1> HIDE DEF settled
<1>3. /\ storage \in {"active", "finishing"} /\ writer \in Writers /\ call \in Calls
      /\ Sound(call, writer, batch, storage) /\ shut \in BOOLEAN
      /\ writer.durable <= writer.physical
  BY <1>1, Owned DEF IInv, Typed
<1>4. /\ command = NoCommand /\ writer.pending = <<>> /\ writer.flight = "none"
      /\ storage = "finishing" => batch = 0
  BY <1>1, Nothing DEF IInv, SlotHeld, Waiting
<1>5. Settled(writer, settled) /\ settled.pending = <<>>
  <2>1. NoRead \in Reads
    BY Nothing DEF NoRead, Reads
  <2>2. PICK v \in Writers : v = [writer EXCEPT !.read = NoRead]
    BY <1>3, <2>1 DEF Writers
  <2>3. /\ v.flight = writer.flight /\ v.read = NoRead /\ v.pending = writer.pending
        /\ v.durable = writer.durable /\ v.physical = writer.physical
    BY <1>3, <2>2 DEF Writers
  <2> QED
    BY <2>2, <2>3, <1>3, <1>4 DEF settled, Settled
<1>6. confirmed' \in Nat /\ confirmed' <= stable
  BY <1>1, Numbers DEF IInv, FileHeld
<1>7. ReadReturnsAskedRow'
  <2>1. CASE Resumes(call) /\ reply.kind = "row"
    <3>1. reply.row = log[call.row]
      BY <2>1 DEF Resumes, IInv, AnswersHeld
    <3> QED
      BY <1>1, <2>1, <3>1 DEF ReadReturnsAskedRow
  <2>2. CASE ~(Resumes(call) /\ reply.kind = "row")
    BY <1>1, <2>2 DEF ReadReturnsAskedRow, IInv, AnswersHeld
  <2> QED
    BY <2>1, <2>2
<1>8. CASE reply.kind = "error"
  <2>1. Fail(settled)
    BY <1>2, <1>8
  <2>2. settled \in Writers /\ settled.durable <= settled.physical /\ settled.flight = "none"
        /\ settled.read = NoRead /\ settled.pending = writer.pending
    BY <1>5 DEF Settled
  <2> QED
    BY <1>1, <1>4, <1>7, <2>1, <2>2, FailKeeps
<1>9. CASE reply.kind # "error" /\ Resumes(call)
  <2>1. writer' = settled /\ call' = NoCall /\ UNCHANGED <<storage, sender, batch>>
    BY <1>2, <1>9 DEF End
  <2>2. Sound(call', writer', batch, storage')
    BY <2>1, NoCallIs DEF Sound
  <2> QED
    BY <1>1, <1>3, <1>4, <1>5, <1>6, <1>7, <2>1, <2>2, ClientKeeps
<1>10. CASE reply.kind # "error" /\ ~Resumes(call)
  <2>1. writer' = settled /\ UNCHANGED <<storage, call, sender, batch>>
    BY <1>2, <1>10 DEF GoOn
  <2>2. ~call.sent
    BY <1>3, <1>10 DEF Sound, Resumes
  <2>3. Sound(call', writer', batch, storage')
    BY <2>1, <2>2, <1>3 DEF Sound
  <2> QED
    BY <1>1, <1>3, <1>4, <1>5, <1>6, <1>7, <2>1, <2>3, ClientKeeps
<1> QED
  BY <1>1, <1>8, <1>9, <1>10

LEMMA StageKeeps ==
  ASSUME IInv, Stage
  PROVE  IInv' /\ UNCHANGED <<log, confirmed>>
<1> DEFINE rest == SubSeq(log, Len(log) - batch + 1, Len(log))
<1>1. /\ call # NoCall /\ ~Waiting /\ reply = NoReply /\ call.at = "flush"
      /\ writer.pending = <<>> /\ batch > 0 /\ batch' = 0
      /\ UNCHANGED <<log, minted, confirmed, storage, shut, call, answer, sender, command, reply,
                     thread, disk, stable>>
  BY DEF Stage, Ready, deviceVars
<1>2. writer' = [writer EXCEPT !.pending = rest]
  BY DEF Stage
<1>3. batch \in Nat /\ batch <= Len(log) /\ log \in Seq(Rows)
  BY Numbers DEF IInv, Typed
<1>4. rest \in Seq(Rows)
  BY <1>3, LastRows
<1>5. \A d, c : Gapless(d, c, <<>>, batch, log) /\ Complete(d, c, <<>>, batch, log)
                 /\ d \in Seq(FileRows) /\ c \in Seq(FileRows)
               => Gapless(d, c, rest, 0, log) /\ Complete(d, c, rest, 0, log)
  BY <1>3, StageMoves
<1> HIDE DEF rest
<1>6. PICK v \in Writers : v = [writer EXCEPT !.pending = rest]
  BY <1>4 DEF IInv, Typed, Writers
<1>7. /\ writer' = v /\ v.pending = rest /\ v.flight = writer.flight /\ v.read = writer.read
      /\ v.durable = writer.durable /\ v.physical = writer.physical
  <2>1. writer \in Writers
    BY DEF IInv, Typed
  <2> QED
    BY <1>2, <1>6, <2>1 DEF Writers
<1>8. storage \in {"active", "finishing"} /\ sender
  BY <1>1, Owned
<1>9. Typed'
  BY <1>1, <1>3, <1>7, JournalBounds DEF IInv, Typed
<1>10. FileHeld'
  BY <1>1 DEF IInv, FileHeld
<1>11. Located'
  <2>1. ASSUME thread.state # "none", ~thread.poisoned
        PROVE  /\ Gapless(disk, command.rows, rest, 0, log)
               /\ Complete(disk, command.rows, rest, 0, log)
    BY <2>1, <1>1, <1>5, <1>8, Places, Sequences
  <2> QED
    BY <2>1, <1>1, <1>7 DEF Located
<1>12. StorageHeld'
  BY <1>1, <1>8 DEF IInv, StorageHeld, Unowned, Detached, ResumeStages
<1>13. SlotHeld'
  BY <1>1, <1>7 DEF IInv, SlotHeld, Waiting
<1>14. AnswersHeld'
  BY <1>1, <1>7 DEF IInv, AnswersHeld, ReadReturnsAskedRow
<1> QED
  BY <1>1, <1>9, <1>10, <1>11, <1>12, <1>13, <1>14 DEF IInv

\* What is sent was staged, and nothing else is in flight.
LEMMA SendKeeps ==
  ASSUME IInv, Ready, NEW kind \in {"append", "barrier", "finish"}, NEW cmd \in Commands,
         Send(kind, cmd), cmd.kind = kind, cmd.rows = writer.pending,
         kind # "append" => cmd.rows = <<>>, kind = "finish" => storage = "finishing"
  PROVE  IInv' /\ UNCHANGED <<log, confirmed>>
<1>1. /\ call # NoCall /\ ~Waiting /\ reply = NoReply /\ command = NoCommand /\ command' = cmd
      /\ writer' = [writer EXCEPT !.flight = kind, !.pending = <<>>]
      /\ UNCHANGED <<log, minted, batch, confirmed, storage, shut, call, answer, sender, reply,
                     thread, disk, stable>>
  BY DEF Ready, Send, sessionVars, deviceVars
<1>2. /\ storage \in {"active", "finishing"} /\ sender /\ writer \in Writers
      /\ Sound(call, writer, batch, storage)
  BY <1>1, Owned
<1>3. PICK v \in Writers : v = [writer EXCEPT !.flight = kind, !.pending = <<>>]
  BY <1>2, <<>> \in Seq(Rows) DEF Writers, Flights
<1>4. /\ writer' = v /\ v.pending = <<>> /\ v.flight = kind /\ v.read = writer.read
      /\ v.durable = writer.durable /\ v.physical = writer.physical
  BY <1>1, <1>2, <1>3 DEF Writers
<1>5. writer.read = NoRead /\ ~call.sent /\ NoReply.kind = "none" /\ NoCommand.rows = <<>>
  BY <1>1, <1>2, Nothing DEF Waiting, Sound
<1>6. Typed'
  BY <1>1, <1>4 DEF IInv, Typed
<1>7. FileHeld'
  BY <1>1 DEF IInv, FileHeld
<1>8. Located'
  <2>1. ASSUME thread.state # "none", ~thread.poisoned
        PROVE  /\ Gapless(disk, writer.pending, <<>>, batch, log)
               /\ Complete(disk, writer.pending, <<>>, batch, log)
    <3>1. /\ Gapless(disk, <<>>, writer.pending, batch, log)
          /\ Complete(disk, <<>>, writer.pending, batch, log)
      BY <2>1, <1>1, <1>2, <1>5, Places
    <3> QED
      BY <3>1, Sequences, Numbers, SendMoves
  <2> QED
    BY <2>1, <1>1, <1>4 DEF Located
<1>9. StorageHeld'
  BY <1>1, <1>2 DEF IInv, StorageHeld, Unowned, Detached, ResumeStages
<1>10. SlotHeld'
  BY <1>1, <1>4, <1>5 DEF IInv, SlotHeld, Waiting
<1>11. AnswersHeld'
  BY <1>1, <1>5 DEF IInv, AnswersHeld, ReadReturnsAskedRow
<1> QED
  BY <1>1, <1>6, <1>7, <1>8, <1>9, <1>10, <1>11 DEF IInv

LEMMA SendStagedKeeps ==
  ASSUME IInv, SendStaged
  PROVE  IInv' /\ UNCHANGED <<log, confirmed>>
<1>1. /\ Ready
      /\ Send("append", [NoCommand EXCEPT !.kind = "append", !.rows = writer.pending])
  BY DEF SendStaged
<1>2. PICK c \in Commands : c = [NoCommand EXCEPT !.kind = "append", !.rows = writer.pending]
  BY Nothing, Sequences DEF Commands
<1>3. c.kind = "append" /\ c.rows = writer.pending
  BY <1>2, Nothing DEF Commands
<1> QED
  BY <1>1, <1>2, <1>3, SendKeeps

LEMMA SendOnlyKeeps ==
  ASSUME IInv, SendBarrier \/ SendFinish
  PROVE  IInv' /\ UNCHANGED <<log, confirmed>>
<1>1. PICK kind \in {"barrier", "finish"} :
        /\ Send(kind, [NoCommand EXCEPT !.kind = kind])
        /\ kind = "finish" => call.op = "finish"
  BY DEF SendBarrier, SendFinish
<1>2. Ready /\ call.at = "main" /\ writer.pending = <<>>
  BY DEF SendBarrier, SendFinish, Proper
<1>3. PICK c \in Commands : c = [NoCommand EXCEPT !.kind = kind]
  BY Nothing DEF Commands
<1>4. c.kind = kind /\ c.rows = <<>>
  BY <1>3, Nothing DEF Commands
<1>5. kind = "finish" => storage = "finishing"
  BY <1>1, <1>2 DEF IInv, SlotHeld
<1> QED
  BY <1>1, <1>2, <1>3, <1>4, <1>5, SendKeeps

LEMMA FlushedKeeps ==
  ASSUME IInv, Flushed
  PROVE  IInv' /\ UNCHANGED <<log, confirmed>>
<1>1. /\ call # NoCall /\ call.at = "flush" /\ writer.pending = <<>> /\ batch = 0
      /\ call' = IF call.op = "flush" THEN NoCall ELSE [call EXCEPT !.at = "main"]
      /\ storage' = IF call.op = "finish" THEN "finishing" ELSE storage
      /\ UNCHANGED <<log, minted, batch, confirmed, shut, writer, answer, sender, command, reply,
                     thread, disk, stable>>
  BY DEF Flushed, Ready, deviceVars
<1>2. /\ storage \in {"active", "finishing"} /\ call \in Calls /\ SameFlight(writer, writer)
      /\ Sound(call, writer, batch, storage)
  BY <1>1, Owned
<1>3. PICK n \in Calls : n = [call EXCEPT !.at = "main"]
  BY <1>2 DEF Calls
<1>4. n.op = call.op /\ n.row = call.row /\ n.sent = call.sent
  BY <1>2, <1>3 DEF Calls
<1>5. Sound(call', writer, batch, storage')
  <2>1. CASE call.op = "flush"
    BY <1>1, <2>1, NoCallIs DEF Sound
  <2>2. CASE call.op # "flush"
    BY <1>1, <1>2, <1>3, <1>4, <2>2 DEF Sound
  <2> QED
    BY <2>1, <2>2
<1>6. confirmed \in Nat /\ confirmed <= stable /\ ReadReturnsAskedRow' /\ shut \in BOOLEAN
  BY <1>1, Numbers DEF IInv, Typed, FileHeld, AnswersHeld, ReadReturnsAskedRow
<1> QED
  BY <1>1, <1>2, <1>5, <1>6, ClientKeeps

LEMMA ReadCancelledKeeps ==
  ASSUME IInv, ReadCancelled
  PROVE  IInv' /\ UNCHANGED <<log, confirmed>>
<1>1. /\ call # NoCall /\ call' = NoCall
      /\ UNCHANGED <<log, minted, batch, confirmed, storage, shut, writer, answer, sender, command,
                     reply, thread, disk, stable>>
  BY DEF ReadCancelled, Proper, Ready, End, deviceVars
<1>2. storage \in {"active", "finishing"} /\ SameFlight(writer, writer)
  BY <1>1, Owned
<1>3. Sound(NoCall, writer, batch, storage)
  BY NoCallIs DEF Sound
<1>4. confirmed \in Nat /\ confirmed <= stable /\ ReadReturnsAskedRow' /\ shut \in BOOLEAN
  BY <1>1, Numbers DEF IInv, Typed, FileHeld, AnswersHeld, ReadReturnsAskedRow
<1>5. storage = "finishing" => batch = 0
  BY DEF IInv, SlotHeld
<1> QED
  BY <1>1, <1>2, <1>3, <1>4, <1>5, ClientKeeps

LEMMA SendReadKeeps ==
  ASSUME IInv, SendRead
  PROVE  IInv' /\ UNCHANGED <<log, confirmed>>
<1>1. /\ call # NoCall /\ ~Waiting /\ reply = NoReply /\ command = NoCommand
      /\ call.at = "main" /\ call.op = "read" /\ writer.pending = <<>>
      /\ command' = [NoCommand EXCEPT !.kind = "read", !.row = call.row]
      /\ writer' = [writer EXCEPT !.read = [row |-> call.row, cancelled |-> FALSE]]
      /\ call' = [call EXCEPT !.sent = TRUE]
      /\ UNCHANGED <<log, minted, batch, confirmed, storage, shut, answer, sender, reply,
                     thread, disk, stable>>
  BY DEF SendRead, Proper, Ready, sessionVars, deviceVars
<1>2. /\ storage \in {"active", "finishing"} /\ sender /\ writer \in Writers /\ call \in Calls
      /\ Sound(call, writer, batch, storage)
  BY <1>1, Owned
<1>3. call.row \in Offsets /\ call.row > 0
  BY <1>1, <1>2 DEF Calls, Sound
<1>4. PICK c \in Commands : c = [NoCommand EXCEPT !.kind = "read", !.row = call.row]
  BY <1>3, Nothing DEF Commands
<1>5. command' = c /\ c.kind = "read" /\ c.row = call.row /\ c.rows = <<>>
  BY <1>1, <1>4, Nothing DEF Commands
<1>6. PICK r \in Reads : r = [row |-> call.row, cancelled |-> FALSE]
  BY <1>3 DEF Reads
<1>7. r.row = call.row /\ r # NoRead
  BY <1>3, <1>6 DEF NoRead
<1>8. PICK v \in Writers : v = [writer EXCEPT !.read = r]
  BY <1>2 DEF Writers
<1>9. /\ writer' = v /\ v.pending = <<>> /\ v.flight = "none" /\ v.read = r
      /\ v.durable = writer.durable /\ v.physical = writer.physical
  BY <1>1, <1>2, <1>6, <1>8 DEF Writers, Waiting
<1>10. PICK n \in Calls : n = [call EXCEPT !.sent = TRUE]
  BY <1>2 DEF Calls
<1>11. /\ call' = n /\ n.op = "read" /\ n.at = "main" /\ n.row = call.row /\ n.sent
  BY <1>1, <1>2, <1>10 DEF Calls
<1>12. NoReply.kind = "none" /\ NoCommand.rows = <<>>
  BY Nothing
<1>13. Typed'
  BY <1>1, <1>5, <1>9, <1>11 DEF IInv, Typed
<1>14. FileHeld'
  BY <1>1 DEF IInv, FileHeld
<1>15. Located'
  BY <1>1, <1>5, <1>9, <1>12 DEF IInv, Located
<1>16. StorageHeld'
  BY <1>1, <1>2 DEF IInv, StorageHeld, Unowned, Detached, ResumeStages
<1>17. SlotHeld'
  <2>1. batch = 0 /\ (storage = "finishing" => batch = 0)
    BY <1>1 DEF IInv, SlotHeld
  <2>2. /\ writer'.flight = "none" /\ writer'.pending = <<>> /\ writer'.read # NoRead
        /\ writer'.read.row = call.row /\ command'.kind = "read" /\ command'.row = call.row
        /\ command'.rows = <<>> /\ call'.op = "read" /\ call'.at = "main"
        /\ call'.row = call.row
    BY <1>5, <1>7, <1>9, <1>11
  <2> QED
    BY <2>1, <2>2, <1>1, <1>3 DEF SlotHeld, Waiting
<1>18. AnswersHeld'
  BY <1>1, <1>12 DEF IInv, AnswersHeld, ReadReturnsAskedRow
<1> QED
  BY <1>1, <1>13, <1>14, <1>15, <1>16, <1>17, <1>18 DEF IInv

-----------------------------------------------------------------------------
(* The end of a process, and the resume by the next one.                     *)

\* Between two processes there is only the file.
LEMMA UnownedKeeps ==
  ASSUME IInv, storage' \in {"absent"} \cup ResumeStages, ~sender', shut' \in BOOLEAN,
         sender' \in BOOLEAN, batch' = 0,
         writer' = FreshWriter(0), call' = NoCall, command' = NoCommand, reply' = NoReply,
         thread' = NoThread, ReadReturnsAskedRow', log' \in Seq(Rows), minted' \in 0..MaxRow,
         Len(log') <= minted' + 1, disk' \in Seq(FileRows), stable' \in Nat, confirmed' \in Nat,
         confirmed' <= stable', Holds(disk', log', stable'),
         storage' \in {"cut", "replayed"} => disk' = log'
  PROVE  IInv'
<1>1. /\ NoReply \in Acks /\ NoReply.durable <= NoReply.physical /\ NoReply.kind = "none"
      /\ NoCommand \in Commands /\ NoCommand.kind = "none" /\ NoCommand.rows = <<>>
      /\ 0 \in Offsets
  BY Nothing
<1>2. /\ writer' \in Writers /\ writer'.durable <= writer'.physical
      /\ writer'.pending = <<>> /\ writer'.flight = "none" /\ writer'.read = NoRead
  BY <1>1, FreshIs
<1>3. /\ thread' \in Threads /\ thread'.state = "none" /\ thread'.durable = 0
      /\ thread'.physical = 0
  BY <1>1 DEF NoThread, Threads
<1>4. Typed'
  <2>1. batch' \in 0..MaxBatch /\ batch' <= Len(log') /\ thread'.durable <= thread'.physical
    BY <1>3, JournalBounds
  <2> QED
    BY <1>1, <1>2, <1>3, <2>1, NoCallIs DEF Typed, Storages
<1>5. FileHeld' /\ Located'
  BY <1>3 DEF FileHeld, Located
<1>6. StorageHeld'
  BY <1>3 DEF StorageHeld, Detached, Unowned, ResumeStages
<1>7. SlotHeld'
  BY <1>1, <1>2, NoCallIs DEF SlotHeld, Waiting, ResumeStages
<1>8. AnswersHeld'
  BY <1>1 DEF AnswersHeld
<1> QED
  BY <1>4, <1>5, <1>6, <1>7, <1>8 DEF IInv

LEMMA CrashKeeps ==
  ASSUME IInv, Crash
  PROVE  IInv' /\ UNCHANGED <<log, confirmed>>
<1>1. /\ disk \in Seq(FileRows) /\ log \in Seq(Rows) /\ Holds(disk, log, stable)
      /\ stable \in Nat /\ minted \in 0..MaxRow /\ Len(log) <= minted + 1
      /\ confirmed \in Nat /\ confirmed <= stable /\ Len(disk) \in Nat
  BY Numbers DEF IInv, Typed, FileHeld
<1>2. PICK n \in stable..Len(disk) :
        disk' \in {First(disk, n)} \cup {Append(First(disk, k), Torn) : k \in stable..(n - 1)}
  BY DEF Crash
<1>3. disk' \in Seq(FileRows) /\ Holds(disk', log, stable)
  <2>1. CASE disk' = First(disk, n)
    BY <1>1, <2>1, HoldsFirst
  <2>2. CASE disk' \in {Append(First(disk, k), Torn) : k \in stable..(n - 1)}
    <3>1. PICK k \in stable..(n - 1) : disk' = Append(First(disk, k), Torn)
      BY <2>2
    <3>2. k \in stable..Len(disk) /\ k < Len(disk)
      BY <1>1, <1>2
    <3> QED
      BY <1>1, <3>1, <3>2, HoldsFirst
  <2> QED
    BY <1>2, <2>1, <2>2
<1>4. /\ UNCHANGED <<log, minted, confirmed, stable>>
      /\ storage' = "absent" /\ shut' = FALSE /\ batch' = 0 /\ writer' = FreshWriter(0)
      /\ call' = NoCall /\ sender' = FALSE /\ command' = NoCommand /\ reply' = NoReply
      /\ thread' = NoThread /\ answer' = NoAnswer
  BY DEF Crash, Forgotten
<1>5. ReadReturnsAskedRow'
  BY <1>4 DEF ReadReturnsAskedRow, NoAnswer
<1> QED
  BY <1>1, <1>3, <1>4, <1>5, UnownedKeeps

LEMMA ProcessEndKeeps ==
  ASSUME IInv, ProcessEnds
  PROVE  IInv' /\ UNCHANGED <<log, confirmed>>
<1>1. /\ disk \in Seq(FileRows) /\ log \in Seq(Rows) /\ Holds(disk, log, stable)
      /\ stable \in Nat /\ minted \in 0..MaxRow /\ Len(log) <= minted + 1
      /\ confirmed \in Nat /\ confirmed <= stable
  BY Numbers DEF IInv, Typed, FileHeld
<1>2. /\ UNCHANGED <<log, minted, confirmed, stable, disk>>
      /\ storage' = "absent" /\ shut' = FALSE /\ batch' = 0 /\ writer' = FreshWriter(0)
      /\ call' = NoCall /\ sender' = FALSE /\ command' = NoCommand /\ reply' = NoReply
      /\ thread' = NoThread /\ answer' = NoAnswer
  BY DEF ProcessEnds, Forgotten, deviceVars
<1>3. ReadReturnsAskedRow'
  BY <1>2 DEF ReadReturnsAskedRow, NoAnswer
<1> QED
  BY <1>1, <1>2, <1>3, UnownedKeeps

\* What a resume finds, whatever it has done so far.
LEMMA ResumingIs ==
  ASSUME IInv, NEW from \in {"absent"} \cup ResumeStages, Resuming(from)
  PROVE  /\ call' = NoCall /\ command' = NoCommand /\ reply' = NoReply
         /\ writer = FreshWriter(0) /\ thread = NoThread /\ batch = 0 /\ sender = FALSE
         /\ shut' \in BOOLEAN /\ ReadReturnsAskedRow'
         /\ disk \in Seq(FileRows) /\ log \in Seq(Rows) /\ Holds(disk, log, stable)
         /\ stable \in Nat /\ minted \in 0..MaxRow /\ Len(log) <= minted + 1
         /\ confirmed \in Nat /\ confirmed <= stable /\ Len(log) \in Nat
         /\ from \in {"cut", "replayed"} => disk = log
<1>1. storage = from /\ UNCHANGED <<shut, call, answer, command, reply>>
  BY DEF Resuming
<1>2. /\ call = NoCall /\ command = NoCommand /\ reply = NoReply /\ sender = FALSE
      /\ writer = FreshWriter(0) /\ thread = NoThread /\ batch = 0
      /\ from \in {"cut", "replayed"} => disk = log
  BY <1>1 DEF IInv, Typed, StorageHeld, Detached, Unowned, ResumeStages
<1>3. shut \in BOOLEAN /\ ReadReturnsAskedRow'
  BY <1>1 DEF IInv, Typed, AnswersHeld, ReadReturnsAskedRow
<1>4. /\ disk \in Seq(FileRows) /\ log \in Seq(Rows) /\ Holds(disk, log, stable)
      /\ stable \in Nat /\ minted \in 0..MaxRow /\ Len(log) <= minted + 1
      /\ confirmed \in Nat /\ confirmed <= stable /\ Len(log) \in Nat
  BY Numbers DEF IInv, Typed, FileHeld
<1> QED
  BY <1>1, <1>2, <1>3, <1>4

LEMMA ScanKeeps ==
  ASSUME IInv, BeginResume \/ CancelResume
  PROVE  IInv' /\ UNCHANGED <<log, confirmed>>
<1>1. PICK from \in {"absent", "scanned"} : Resuming(from)
  BY DEF BeginResume, CancelResume
<1>2. /\ UNCHANGED <<log, minted, batch, confirmed, writer, sender, thread, disk, stable>>
      /\ storage' \in {"absent", "scanned"}
  BY DEF BeginResume, CancelResume, deviceVars
<1> QED
  BY <1>1, <1>2, ResumingIs, UnownedKeeps DEF ResumeStages

\* Rows that stand at the start of the log hold it.
LEMMA PrefixHolds ==
  ASSUME NEW l \in Seq(Rows), NEW w \in 0..Len(l), NEW n \in 0..w
  PROVE  /\ First(l, w) \in Seq(Rows) /\ First(l, w) \in Seq(FileRows)
         /\ Len(First(l, w)) = w /\ Holds(First(l, w), l, n)
         /\ Holds(First(l, w), First(l, w), w)
<1>1. First(l, w) \in Seq(Rows) /\ Len(First(l, w)) = w /\ \A i \in 1..w : First(l, w)[i] = l[i]
  BY FirstIs
<1>2. w \in n..Len(l) /\ w \in w..w
  OBVIOUS
<1> QED
  BY <1>1, <1>2, RowsAreFileRows DEF Holds

LEMMA CutFileKeeps ==
  ASSUME IInv, CutFile
  PROVE  IInv' /\ UNCHANGED confirmed /\ (UNCHANGED log \/ SL!Restart)
<1>1. /\ Resuming("scanned")
      /\ UNCHANGED <<minted, batch, confirmed, writer, sender, thread>>
  BY DEF CutFile
<1>2. /\ call' = NoCall /\ command' = NoCommand /\ reply' = NoReply
      /\ writer = FreshWriter(0) /\ thread = NoThread /\ batch = 0 /\ sender = FALSE
      /\ shut' \in BOOLEAN /\ ReadReturnsAskedRow'
      /\ disk \in Seq(FileRows) /\ log \in Seq(Rows) /\ Holds(disk, log, stable)
      /\ stable \in Nat /\ minted \in 0..MaxRow /\ Len(log) <= minted + 1
      /\ confirmed \in Nat /\ confirmed <= stable /\ Len(log) \in Nat
  BY <1>1, ResumingIs DEF ResumeStages
<1>3. PICK w \in stable..Len(log) : Whole = First(log, w)
  BY WholeIs
<1>4. w \in 0..Len(log) /\ stable \in 0..w /\ confirmed <= w /\ w <= minted + 1 /\ w \in Nat
      /\ w \in confirmed..Len(log)
  BY <1>2
<1>5. /\ Whole \in Seq(Rows) /\ Whole \in Seq(FileRows) /\ Len(Whole) = w
      /\ Holds(Whole, log, stable) /\ Holds(Whole, Whole, w)
  BY <1>2, <1>3, <1>4, PrefixHolds
<1>6. CASE log' = Whole /\ disk' = Whole /\ stable' = Len(Whole) /\ storage' = "cut"
  <2>1. IInv'
    BY <1>1, <1>2, <1>4, <1>5, <1>6, UnownedKeeps DEF ResumeStages
  <2>2. log' = SL!First(log, w) /\ disk' = log'
    BY <1>3, <1>6 DEF First, SL!First
  <2>3. SL!Restart
    BY <2>2, <1>1, <1>4 DEF SL!Restart
  <2> QED
    BY <1>1, <2>1, <2>3
<1>7. CASE disk' \in {disk, Whole} /\ storage' = "absent" /\ UNCHANGED <<log, stable>>
  BY <1>1, <1>2, <1>5, <1>7, UnownedKeeps
<1> QED
  BY <1>6, <1>7 DEF CutFile

LEMMA SuffixKeeps ==
  ASSUME IInv, WriteSuffix
  PROVE  IInv' /\ Longer(log, log') /\ UNCHANGED confirmed
<1>1. /\ Resuming("cut")
      /\ UNCHANGED <<batch, confirmed, writer, sender, thread, stable>>
  BY DEF WriteSuffix
<1>2. /\ call' = NoCall /\ command' = NoCommand /\ reply' = NoReply
      /\ writer = FreshWriter(0) /\ thread = NoThread /\ batch = 0 /\ sender = FALSE
      /\ shut' \in BOOLEAN /\ ReadReturnsAskedRow'
      /\ disk \in Seq(FileRows) /\ log \in Seq(Rows) /\ Holds(disk, log, stable)
      /\ stable \in Nat /\ minted \in 0..MaxRow /\ Len(log) <= minted + 1
      /\ confirmed \in Nat /\ confirmed <= stable /\ Len(log) \in Nat /\ disk = log
  BY <1>1, ResumingIs DEF ResumeStages
<1>3. PICK n \in 0..1 :
        /\ minted + n <= MaxRow /\ minted' = minted + n
        /\ LET suffix == [i \in 1..n |-> minted + i]
           IN /\ log' = log \o suffix
              /\ \/ disk' = disk \o suffix /\ storage' = "replayed"
                 \/ disk' \in {disk} \cup Partly(disk, suffix) /\ storage' = "absent"
  BY DEF WriteSuffix
<1> DEFINE suffix == [i \in 1..n |-> minted + i]
<1>4. suffix \in Seq(Rows) /\ Len(suffix) = n
  <2>1. n \in Nat /\ minted \in Nat /\ MaxRow \in Nat
    BY Numbers, JournalBounds
  <2>2. suffix \in [1..n -> Rows]
    BY <2>1, <1>3 DEF Rows
  <2>3. suffix \in Seq(Rows)
    BY <2>1, <2>2, IsASeq
  <2> QED
    BY <2>1, <2>2, <2>3, LenProperties
<1>5. /\ log' = log \o suffix
      /\ \/ disk' = disk \o suffix /\ storage' = "replayed"
         \/ disk' \in {disk} \cup Partly(disk, suffix) /\ storage' = "absent"
  BY <1>3
<1> HIDE DEF suffix
<1>6. /\ log' \in Seq(Rows) /\ Len(log') = Len(log) + n
      /\ \A i \in 1..(Len(log) + n) :
           log'[i] = IF i <= Len(log) THEN log[i] ELSE suffix[i - Len(log)]
  BY <1>2, <1>4, <1>5, ConcatProperties
<1>7. Longer(log, log') /\ Len(log') <= minted' + 1 /\ minted' \in 0..MaxRow
      /\ Len(log') \in Nat /\ log' \in Seq(FileRows) /\ stable \in 0..stable
  <2>1. log' \in Seq(FileRows) /\ stable \in 0..stable
    BY <1>2, <1>6, RowsAreFileRows
  <2>2. minted \in Nat /\ n \in Nat /\ Len(log) \in Nat /\ MaxRow \in Nat
    BY Numbers, JournalBounds
  <2>3. Len(log') <= minted' + 1 /\ minted' \in 0..MaxRow /\ Len(log') \in Nat
        /\ Len(log) <= Len(log')
    BY <2>2, <1>2, <1>3, <1>6
  <2>4. \A i \in 1..Len(log) : log'[i] = log[i]
    BY <2>2, <1>6
  <2> QED
    BY <2>1, <2>3, <2>4 DEF Longer
<1>8. Holds(disk, log', stable)
  BY <1>2, <1>6, <1>7, HoldsLonger
<1>9. Gapless(disk, suffix, <<>>, 0, log')
  <2>1. \A i \in 1..n : suffix[i] = log'[Len(log) + i]
    <3> TAKE i \in 1..n
    <3>1. Len(log) + i \in 1..(Len(log) + n) /\ ~(Len(log) + i <= Len(log))
          /\ (Len(log) + i) - Len(log) = i
      BY <1>2
    <3> QED
      BY <3>1, <1>6
  <2>2. \A i \in 1..Len(log) : log[i] = log'[0 + i]
    BY <1>7 DEF Longer
  <2>3. Len(<<>>) = 0 /\ Len(disk) = Len(log) /\ Len(log) + n + 0 + 0 = Len(log') /\ n \in Nat
    BY <1>2, <1>6
  <2> QED
    BY <2>1, <2>2, <2>3, <1>2, <1>4 DEF Gapless, Part
<1>10. CASE disk' = disk \o suffix /\ storage' = "replayed"
  <2>1. disk' = log'
    BY <1>2, <1>5, <1>10
  <2>2. Holds(disk', log', stable)
    <3>1. stable <= Len(log)
      BY <1>2 DEF Holds
    <3>2. stable \in 0..Len(log') /\ Part(log', log', 0)
      BY <3>1, <1>2, <1>3, <1>6 DEF Part
    <3> QED
      BY <2>1, <3>2, <1>6, <1>7, HoldsPart
  <2> QED
    BY <2>1, <2>2, <1>1, <1>2, <1>6, <1>7, <1>10, UnownedKeeps DEF ResumeStages
<1>11. CASE disk' \in {disk} \cup Partly(disk, suffix) /\ storage' = "absent"
  <2>1. disk' \in Seq(FileRows) /\ Holds(disk', log', stable)
    <3>1. CASE disk' = disk
      BY <3>1, <1>2, <1>8
    <3>2. CASE disk' \in Partly(disk, suffix)
      <4>1. stable \in 0..Len(disk) /\ <<>> \in Seq(FileRows) /\ 0 \in Nat
        BY <1>2 DEF Holds
      <4> QED
        BY <3>2, <4>1, <1>2, <1>4, <1>6, <1>9, PartlyHolds
    <3> QED
      BY <3>1, <3>2, <1>11
  <2> QED
    BY <2>1, <1>1, <1>2, <1>6, <1>7, <1>11, UnownedKeeps
<1> QED
  BY <1>1, <1>5, <1>7, <1>10, <1>11

LEMMA HandOverKeeps ==
  ASSUME IInv, HandOver
  PROVE  IInv' /\ \/ UNCHANGED <<log, confirmed>>
                  \/ disk = log /\ confirmed' = Len(log) /\ UNCHANGED <<log, disk>>
<1>1. /\ Resuming("replayed")
      /\ UNCHANGED <<log, minted, batch, disk>>
  BY DEF HandOver
<1>2. /\ call' = NoCall /\ command' = NoCommand /\ reply' = NoReply
      /\ writer = FreshWriter(0) /\ thread = NoThread /\ batch = 0 /\ sender = FALSE
      /\ shut' \in BOOLEAN /\ ReadReturnsAskedRow'
      /\ disk \in Seq(FileRows) /\ log \in Seq(Rows) /\ Holds(disk, log, stable)
      /\ stable \in Nat /\ minted \in 0..MaxRow /\ Len(log) <= minted + 1
      /\ confirmed \in Nat /\ confirmed <= stable /\ Len(log) \in Nat /\ disk = log
  BY <1>1, ResumingIs DEF ResumeStages
<1>3. CASE storage' = "absent" /\ UNCHANGED <<stable, confirmed, writer, sender, thread>>
  BY <1>1, <1>2, <1>3, UnownedKeeps
<1>4. CASE /\ stable' = Len(disk) /\ confirmed' = Len(log) /\ storage' = "active"
           /\ writer' = FreshWriter(Len(disk)) /\ sender' = TRUE
           /\ thread' = [state |-> "running", physical |-> Len(disk),
                         durable |-> Len(disk), poisoned |-> FALSE]
  <2>1. PICK n \in Nat : n = Len(log)
    BY <1>2
  <2>2. n \in Offsets /\ n <= n
    BY <2>1, Numbers, JournalBounds DEF Offsets
  <2>3. /\ writer' = FreshWriter(n) /\ stable' = n /\ confirmed' = n
        /\ thread' = [state |-> "running", physical |-> n, durable |-> n, poisoned |-> FALSE]
    BY <1>2, <1>4, <2>1
  <2>4. /\ writer' \in Writers /\ writer'.durable <= writer'.physical
        /\ writer'.pending = <<>> /\ writer'.flight = "none" /\ writer'.read = NoRead
    BY <2>2, <2>3, FreshIs
  <2>5. /\ thread' \in Threads /\ thread'.state = "running" /\ thread'.durable = n
        /\ thread'.physical = n /\ ~thread'.poisoned
    BY <2>2, <2>3 DEF Threads
  <2>6. /\ NoReply \in Acks /\ NoReply.durable <= NoReply.physical /\ NoReply.kind = "none"
        /\ NoCommand \in Commands /\ NoCommand.kind = "none" /\ NoCommand.rows = <<>>
    BY Nothing
  <2>7. Typed'
    <3>1. batch' \in 0..MaxBatch /\ batch' <= Len(log') /\ thread'.durable <= thread'.physical
      BY <1>1, <1>2, <2>2, <2>5, JournalBounds
    <3> QED
      BY <1>1, <1>2, <1>4, <2>3, <2>4, <2>5, <2>6, <3>1, NoCallIs DEF Typed, Storages
  <2>8. Part(log, log, 0) /\ Holds(log, log, n)
    <3>1. Part(log, log, 0) /\ n \in 0..Len(log) /\ log \in Seq(FileRows)
      BY <1>2, <2>1 DEF Part
    <3> QED
      BY <3>1, <1>2, HoldsPart
  <2>9. FileHeld'
    BY <1>1, <1>2, <2>1, <2>2, <2>3, <2>5, <2>8 DEF FileHeld
  <2>10. Located'
    <3>1. Gapless(log, <<>>, <<>>, 0, log) /\ Complete(log, <<>>, <<>>, 0, log)
      BY <1>2, <2>8, Len(<<>>) = 0 DEF Gapless, Complete, Part
    <3> QED
      BY <3>1, <1>1, <1>2, <2>4, <2>6 DEF Located
  <2>11. StorageHeld'
    BY <1>4, <2>5 DEF StorageHeld, Detached, Unowned, ResumeStages
  <2>12. SlotHeld'
    BY <1>1, <1>2, <1>4, <2>4, <2>6, NoCallIs DEF SlotHeld, Waiting
  <2>13. AnswersHeld'
    BY <1>2, <2>6 DEF AnswersHeld
  <2> QED
    BY <1>1, <1>2, <1>4, <2>7, <2>9, <2>10, <2>11, <2>12, <2>13 DEF IInv
<1> QED
  BY <1>3, <1>4 DEF HandOver

-----------------------------------------------------------------------------
(* The theorems.                                                             *)

\* What a step does to the file: it writes, confirms or resumes.
LEMMA WritesAre ==
  ASSUME IInv, IInv', Longer(log, log'), UNCHANGED confirmed
  PROVE  SL!Write
<1>1. /\ log \in Seq(Rows) /\ log' \in Seq(Rows) /\ disk' \in Seq(FileRows)
      /\ confirmed \in Nat /\ confirmed <= stable' /\ stable' \in Nat
      /\ Holds(disk', log', stable')
  BY DEF IInv, Typed, FileHeld
<1>2. Len(log) \in 0..Len(log') /\ Len(log) <= Len(log') /\ confirmed \in 0..stable'
  BY <1>1 DEF Longer
<1>3. /\ First(log', Len(log)) \in Seq(Rows) /\ Len(First(log', Len(log))) = Len(log)
      /\ \A i \in 1..Len(log) : First(log', Len(log))[i] = log'[i]
  BY <1>1, <1>2, FirstIs
<1>4. log = First(log', Len(log))
  BY <1>1, <1>3, SeqEqual DEF Longer
<1>5. SL!HoldsAtLeast(disk', log', confirmed)
  BY <1>1, <1>2, HoldsIs
<1> QED
  BY <1>1, <1>2, <1>4, <1>5 DEF SL!Write, First, SL!First

LEMMA Same == ASSUME IInv, UNCHANGED log PROVE Longer(log, log')
BY Numbers DEF Longer

LEMMA StepKeeps ==
  ASSUME IInv, Next
  PROVE  IInv' /\ SL!StableNext
<1>1. CASE \/ AppendRows \/ \E kind \in {"barrier", "finish"} : Synchronise(kind)
           \/ ReadRow \/ ThreadEnds
           \/ \E kind \in {"append", "barrier", "read", "finish"} : ServePoisoned(kind)
  <2>1. IInv' /\ UNCHANGED <<log, confirmed>>
    BY <1>1, AppendsKeep, SynchronisesKeep, ReadsKeep, ThreadEndKeeps, RefusesKeep
  <2> QED
    BY <2>1, Same, WritesAre DEF SL!StableNext
<1>2. CASE \/ Materialize \/ Materialized \/ BeginCall \/ BeginShutdown \/ ShutWhileStarting
           \/ CloseUnstarted \/ DropWait \/ CancelRead \/ DropSession
  <2>1. IInv' /\ UNCHANGED <<log, confirmed>>
    BY <1>2, MaterializeKeeps, MaterializedKeeps, BeginCallKeeps, BeginShutdownKeeps,
       ShutWhileStartingKeeps, CloseUnstartedKeeps, DropWaitKeeps, CancelReadKeeps,
       DropSessionKeeps
  <2> QED
    BY <2>1, Same, WritesAre DEF SL!StableNext
<1>3. CASE \/ Refuse \/ SettleRead \/ Stage \/ SendStaged \/ Flushed
           \/ SendBarrier \/ SendFinish \/ ReadCancelled \/ SendRead
  <2>1. IInv' /\ UNCHANGED <<log, confirmed>>
    BY <1>3, RefuseKeeps, SettleReadKeeps, StageKeeps, SendStagedKeeps, FlushedKeeps,
       SendOnlyKeeps, ReadCancelledKeeps, SendReadKeeps
  <2> QED
    BY <2>1, Same, WritesAre DEF SL!StableNext
<1>4. CASE CreateFile \/ Accept \/ WriteSuffix
  <2>1. IInv' /\ Longer(log, log') /\ UNCHANGED confirmed
    BY <1>4, CreatesKeep, AcceptsKeep, SuffixKeeps
  <2> QED
    BY <2>1, WritesAre DEF SL!StableNext
<1>5. CASE SettleFlight \/ HandOver
  <2>1. IInv' /\ \/ UNCHANGED <<log, confirmed>>
                 \/ disk = log /\ confirmed' = Len(log) /\ UNCHANGED <<log, disk>>
    BY <1>5, SettleFlightKeeps, HandOverKeeps
  <2> QED
    BY <2>1, Same, WritesAre DEF SL!StableNext, SL!Confirm
<1>6. CASE Crash \/ ProcessEnds \/ BeginResume \/ CancelResume
  <2>1. IInv' /\ UNCHANGED <<log, confirmed>>
    BY <1>6, CrashKeeps, ProcessEndKeeps, ScanKeeps
  <2> QED
    BY <2>1, Same, WritesAre DEF SL!StableNext
<1>7. CASE CutFile
  <2>1. IInv' /\ UNCHANGED confirmed /\ (UNCHANGED log \/ SL!Restart)
    BY <1>7, CutFileKeeps
  <2> QED
    BY <2>1, Same, WritesAre DEF SL!StableNext
<1> QED
  BY <1>1, <1>2, <1>3, <1>4, <1>5, <1>6, <1>7
     DEF Next, ThreadStep, OwnerStep, CallStep, ResumeStep

LEMMA StutterKeeps ==
  ASSUME IInv, UNCHANGED vars
  PROVE  IInv'
<1>1. UNCHANGED <<log, minted, batch, confirmed, storage, shut, writer, call, answer, sender,
                  command, reply, thread, disk, stable>>
  BY DEF vars
<1> QED
  BY <1>1 DEF IInv, Typed, FileHeld, Located, StorageHeld, SlotHeld, Waiting, AnswersHeld,
     ReadReturnsAskedRow

\* The invariant the journal keeps: where every row of the log is, what is in
\* flight between the session and the thread, and what the file holds.
THEOREM JournalInvariant == Spec => []IInv
<1>1. IInv /\ [Next]_vars => IInv'
  BY StepKeeps, StutterKeeps
<1> QED
  BY <1>1, Begins, PTL DEF Spec

\* The journal is typed, and its thread never counts an offset as durable that
\* it has not written (JournalWriter and JournalThread in session/journal.rs).
THEOREM JournalTyped == Spec => []TypeOK
BY JournalInvariant, Types, PTL

\* While the journal works, every accepted row is in exactly one place and in
\* order, and a read answers the row that was asked for, however many waits are
\* dropped and however often they resume.
THEOREM RowsInPlace == Spec => []RowsKeepTheirPlace
BY JournalInvariant, KeepsPlaces, PTL

\* The journal implements the stable log: no dropped wait, device fault, crash
\* or interrupted resume loses a row that a barrier, a shutdown or a resume
\* confirmed, and the file is never anything but a prefix of the rows.
THEOREM JournalIsStable == Spec => StableLogKept
<1>1. Init => SL!StableInit
  BY DEF Init, SL!StableInit
<1>2. IInv /\ [Next]_vars => [SL!StableNext]_SL!stableVars
  <2> SUFFICES ASSUME IInv, [Next]_vars PROVE [SL!StableNext]_SL!stableVars
    OBVIOUS
  <2>1. CASE Next
    BY <2>1, StepKeeps
  <2>2. CASE UNCHANGED vars
    BY <2>2 DEF vars, SL!stableVars
  <2> QED
    BY <2>1, <2>2
<1> QED
  BY <1>1, <1>2, JournalInvariant, PTL DEF Spec, StableLogKept, SL!StableSpec
=============================================================================
