---------------------------- MODULE SessionSurface ----------------------------
(* The surface of a durable session: the messages the model is shown, what   *)
(* they cost, and how compaction and pruning replace them.  SessionProjection *)
(* has the grammar of the rows; this module has what they do to the surface.  *)
(*                                                                           *)
(* A message is its row, its price in tokens, the calls it makes and the call *)
(* it answers.  Ranges are positions of the surface: a replaced range stays   *)
(* where it was, so the numbers of its rows need not ascend.                  *)
EXTENDS Naturals, Integers, Sequences, SequencesExt, FiniteSetsExt

CONSTANTS
  MaxRows,    \* rows that reach the surface, the only ones counted (bound)
  MaxPrice,   \* tokens of one message (bound)
  MaxHeaders, \* request headers; header h > 0 costs h tokens (bound)
  MaxUsage,   \* tokens a provider reports (bound)
  MaxShadowed \* MAX_SOURCE_EVENT_SEQS - 2

VARIABLES
  row,       \* the number of the last surface row
  nodes,     \* surface_nodes
  tokens,    \* surface_tokens
  step,      \* Boundary::Step: open, its step_start_surface_tokens, the assistant has spoken
  pending,   \* calls of the step without a result
  header,    \* request_header, 0 for none
  anchor,    \* token_anchor
  generation,\* surface_generation
  bracket,   \* OpenCompaction: phase, rows of start and last event, the range
  claim,     \* prune_claim, 0 for none
  candidate  \* the CompactionCandidate the agent holds

vars == <<row, nodes, tokens, step, pending, header, anchor, generation, bracket, claim, candidate>>

Node(seq, kind, price, calls, answers) ==
  [seq |-> seq, kind |-> kind, tokens |-> price, calls |-> calls, answers |-> answers]
NoCall == <<0, 0>>
NoStep == [open |-> FALSE, start |-> 0, said |-> FALSE]
NoAnchor == [set |-> FALSE, header |-> 0, surface |-> 0, tokens |-> 0]
NoBracket == [phase |-> "none", shadowed |-> <<>>, tokens |-> 0]
NoCandidate == [generation |-> 0, shadowed |-> <<>>, header |-> 0]

TypeOK ==
  /\ row \in 0..MaxRows /\ header \in 0..MaxHeaders /\ claim \in 0..MaxRows
  /\ \A i \in DOMAIN nodes : nodes[i].kind \in {"user", "assistant", "result"} /\ nodes[i].seq <= row
  /\ tokens \in Nat /\ generation \in Nat
  /\ bracket.phase \in {"none", "started", "summarized", "replaced"}

Init ==
  /\ row = 0 /\ nodes = <<>> /\ tokens = 0 /\ step = NoStep /\ pending = {} /\ header = 0
  /\ anchor = NoAnchor /\ generation = 1 /\ bracket = NoBracket /\ claim = 0
  /\ candidate = NoCandidate

-----------------------------------------------------------------------------
(* What the surface costs and what may be cut off.                           *)

TokensOf(ns) == FoldSeq(LAMBDA n, total : n.tokens + total, 0, ns)
SeqsOf(ns) == [i \in DOMAIN ns |-> ns[i].seq]
Prefix(k) == SubSeq(nodes, 1, k)

\* tool_delta: calls count up, a result counts down.
ToolDelta(n) == IF n.kind = "result" THEN -1 ELSE Cardinality(n.calls)
Balance(ns) == FoldSeq(LAMBDA n, total : ToolDelta(n) + total, 0, ns)

\* The longest prefix without a half-open call, in front of the newest messages
\* that hold retain tokens; 0 when there is none.
KeepFrom(ns, retain) ==
  LET enough == {i \in 1..Len(ns) : TokensOf(SubSeq(ns, i, Len(ns))) >= retain}
  IN IF enough = {} THEN 1 ELSE Max(enough)
Cut_AtAnyMessage(ns, retain) == Min({KeepFrom(ns, retain) - 1, MaxShadowed})
Cut(ns, retain) ==
  LET last == Min({KeepFrom(ns, retain) - 1, MaxShadowed})
      balanced == {k \in 1..last : Balance(SubSeq(ns, 1, k)) = 0}
  IN IF ns = <<>> \/ balanced = {} \/ \E k \in 1..Len(ns) : Balance(SubSeq(ns, 1, k)) < 0
     THEN 0 ELSE Max(balanced)

\* Calls without a result behind them, over the whole surface.
Unresolved ==
  UNION {nodes[i].calls : i \in DOMAIN nodes} \ {nodes[i].answers : i \in DOMAIN nodes}

\* What the next request holds: the last measured request, corrected by what
\* the surface gained or lost since; estimated when the header has changed.
HeaderTokens(h) == h
ContextTotal ==
  IF ~anchor.set \/ anchor.header # header
  THEN HeaderTokens(header) + tokens
  ELSE IF tokens >= anchor.surface
       THEN anchor.tokens + (tokens - anchor.surface)
       ELSE Max({0, anchor.tokens - (anchor.surface - tokens)})

-----------------------------------------------------------------------------
(* Rows.                                                                     *)

\* A row that only appends; a marker it does not follow up on is an orphan.
Written == row < MaxRows /\ row' = row + 1
Append1(node) ==
  /\ bracket = NoBracket /\ Written /\ claim' = 0
  /\ nodes' = Append(nodes, node) /\ tokens' = tokens + node.tokens
  /\ generation' = generation + 1

Replace(from, to, node) ==
  /\ nodes' = SubSeq(nodes, 1, from - 1) \o <<node>> \o SubSeq(nodes, to + 1, Len(nodes))
  /\ tokens' = (tokens - TokensOf(SubSeq(nodes, from, to))) + node.tokens
  /\ generation' = generation + 1

UserMessage(price) ==
  /\ ~step.open
  /\ Append1(Node(row + 1, "user", price, {}, NoCall))
  /\ UNCHANGED <<step, pending, header, anchor, bracket, candidate>>

StepStart ==
  /\ ~step.open /\ bracket = NoBracket
  /\ step' = [open |-> TRUE, start |-> tokens, said |-> FALSE]
  /\ claim' = 0
  /\ UNCHANGED <<row, nodes, tokens, pending, header, anchor, generation, bracket, candidate>>

RequestHeader(h) ==
  /\ bracket = NoBracket
  /\ header' = h /\ claim' = 0
  /\ UNCHANGED <<row, nodes, tokens, step, pending, anchor, generation, bracket, candidate>>

\* The answer installs the anchor before its own message is appended: the
\* larger of what was reported and what is estimated.
Measured(surface, usage) ==
  LET estimated == HeaderTokens(header) + surface IN
  [set |-> TRUE, header |-> header, surface |-> surface,
   tokens |-> IF header # 0 /\ usage > estimated THEN usage ELSE estimated]

AssistantMessage(price, calls, usage) ==
  /\ step.open /\ ~step.said
  /\ (price = 0 => calls = {})
  /\ Append1(Node(row + 1, "assistant", price, {<<row + 1, c>> : c \in calls}, NoCall))
  /\ pending' = {<<row + 1, c>> : c \in calls}
  /\ anchor' = Measured(step.start + price, usage)
  /\ step' = [step EXCEPT !.said = TRUE]
  /\ UNCHANGED <<header, bracket, candidate>>

ToolResult(call, price) ==
  /\ call \in pending
  /\ Append1(Node(row + 1, "result", price, {}, call))
  /\ pending' = pending \ {call}
  /\ UNCHANGED <<step, header, anchor, bracket, candidate>>

StepEnd ==
  /\ step.open /\ pending = {} /\ bracket = NoBracket
  /\ step' = NoStep /\ claim' = 0
  /\ UNCHANGED <<row, nodes, tokens, pending, header, anchor, generation, bracket, candidate>>

\* A marker names one result and its price; the next row rewrites that result
\* with all of it but its content kept.
Prune(i) ==
  /\ bracket = NoBracket /\ nodes[i].kind = "result"
  /\ claim' = nodes[i].seq
  /\ UNCHANGED <<row, nodes, tokens, step, pending, header, anchor, generation, bracket, candidate>>

Rewrite(i, price) ==
  /\ bracket = NoBracket /\ claim # 0 /\ nodes[i].seq = claim
  /\ price <= nodes[i].tokens
  /\ Written /\ claim' = 0
  /\ Replace(i, i, [nodes[i] EXCEPT !.seq = row + 1, !.tokens = price])
  /\ UNCHANGED <<step, pending, header, anchor, bracket, candidate>>

-----------------------------------------------------------------------------
(* Compaction.                                                               *)

\* The agent selects what to shadow; every row may come before it starts.
Select(retain) ==
  /\ bracket = NoBracket /\ Cut(nodes, retain) > 0 /\ TokensOf(Prefix(Cut(nodes, retain))) > 0
  /\ candidate' = [generation |-> generation, header |-> header,
                   shadowed |-> SeqsOf(Prefix(Cut(nodes, retain)))]
  /\ UNCHANGED <<row, nodes, tokens, step, pending, header, anchor, generation, bracket, claim>>

\* The range is the oldest part of the surface and the one that the selection
\* itself would make, were it asked to retain what the range leaves.
IsCanonical(shadowed) ==
  LET k == Len(shadowed) IN
  /\ k \in 1..Min({Len(nodes), MaxShadowed}) /\ SeqsOf(Prefix(k)) = shadowed
  /\ Cut(nodes, TokensOf(SubSeq(nodes, k + 1, Len(nodes)))) = k

MayStart == bracket = NoBracket /\ pending = {} /\ candidate.header = header
CompactionStart ==
  /\ MayStart /\ candidate # NoCandidate
  /\ candidate.generation = generation /\ IsCanonical(candidate.shadowed)
  /\ bracket' = [phase |-> "started", shadowed |-> candidate.shadowed,
                 tokens |-> TokensOf(Prefix(Len(candidate.shadowed)))]
  /\ claim' = 0 /\ candidate' = NoCandidate
  /\ UNCHANGED <<row, nodes, tokens, step, pending, header, anchor, generation>>

CompactionSummary ==
  /\ bracket.phase = "started"
  /\ bracket' = [bracket EXCEPT !.phase = "summarized"]
  /\ UNCHANGED <<row, nodes, tokens, step, pending, header, anchor, generation, claim, candidate>>

\* The checkpoint takes the place of the range and has to cost less.
Checkpoint(price) ==
  /\ bracket.phase = "summarized" /\ price < bracket.tokens
  /\ Written
  /\ Replace(1, Len(bracket.shadowed), Node(row + 1, "user", price, {}, NoCall))
  /\ bracket' = [bracket EXCEPT !.phase = "replaced"]
  /\ UNCHANGED <<step, pending, header, anchor, claim, candidate>>

CompactionEnd ==
  /\ bracket # NoBracket /\ bracket' = NoBracket
  /\ UNCHANGED <<row, nodes, tokens, step, pending, header, anchor, generation, claim, candidate>>

\* A price is in units that a shortened message may fall below.
Prices == 1..MaxPrice

Next ==
  \/ \E price \in Prices : UserMessage(price)
  \/ StepStart \/ StepEnd
  \/ \E h \in 1..MaxHeaders : RequestHeader(h)
  \/ \E price \in Prices \cup {0}, calls \in SUBSET (1..2), usage \in {0, MaxUsage} :
       AssistantMessage(price, calls, usage)
  \/ \E call \in pending, price \in Prices : ToolResult(call, price)
  \/ \E i \in DOMAIN nodes : Prune(i) \/ \E price \in 0..MaxPrice : Rewrite(i, price)
  \/ \E retain \in 0..tokens : Select(retain)
  \/ CompactionStart \/ CompactionSummary \/ CompactionEnd
  \/ \E price \in 0..MaxPrice : Checkpoint(price)

Spec == Init /\ [][Next]_vars

-----------------------------------------------------------------------------
(* Properties.                                                               *)

\* Behind any sequence of turns, prunes and compactions: the counter is the
\* price of what is shown; a result is shown behind the call it answers, and a
\* call without its result is one that still runs; the size that decides on
\* the next compaction is never below the estimate of the next request; and a
\* selection made of the present surface is one the log accepts.
SurfaceIsSound ==
  /\ tokens = TokensOf(nodes)
  /\ Unresolved = pending
  /\ \A i \in DOMAIN nodes : nodes[i].kind = "result" =>
       \E j \in 1..(i - 1) : nodes[i].answers \in nodes[j].calls
  /\ ContextTotal >= HeaderTokens(header) + tokens
  /\ (MayStart /\ candidate.generation = generation => IsCanonical(candidate.shadowed))
=============================================================================
