------------------------------ MODULE ShellOutput ------------------------------
(* The output of one shell command, from its two pipes to the text of the     *)
(* tool result: the tails that are kept and the bytes that are counted        *)
(* (tools/process/capture.rs, the pipe events of tools/process.rs), and the   *)
(* text that has to fit into one block (tools/shell.rs).                      *)
EXTENDS Naturals, Sequences, FiniteSetsExt, SequencesExt

CONSTANTS
  Scripts,      \* what the command may want to write: [out, err]
  Retained,     \* RETAINED_TAIL_BYTES
  Observable,   \* MAX_OBSERVED_BYTES
  Chunk,        \* READ_CHUNK_BYTES
  MaxContent,   \* MAX_TOOL_CONTENT_BYTES
  Spare,        \* what the renderer sets aside for line ends
  MaxFaults     \* bound: faults of pipes and signals

VARIABLES
  script,     \* what the command wants to write to each stream
  taken,      \* how much of it was read
  open,       \* the pipes that are still read
  tail,       \* TailCapture of each stream
  observed,   \* ObservedBudget
  flags,      \* ProcessFlags
  primary,    \* ProcessPrimaryCause
  code,       \* whether the leader failed
  phase,      \* where the report is
  space,      \* what the renderer still gives to the streams
  result      \* the text, the part of each stream it shows, and which it calls truncated

vars == <<script, taken, open, tail, observed, flags, primary, code, phase, space, result>>

Pipes == {"out", "err"}
NL == "newline"
Encoded == [a |-> 1, newline |-> 2, control |-> 6]
Faults == {"setup", "read", "signal", "drain"}
Stops == {"stop", "timeout", "background"}

TypeOK ==
  /\ taken \in [Pipes -> Nat] /\ open \subseteq Pipes
  /\ \A p \in Pipes : /\ {script[p], tail[p].bytes} \subseteq Seq(DOMAIN Encoded)
                      /\ tail[p].cut \in BOOLEAN
  /\ observed \in Nat /\ flags \subseteq Faults \cup {"limit"}
  /\ primary \in Stops \cup {"natural", "setup", "read", "limit", "drain"} /\ code \in BOOLEAN
  /\ phase \in {"run", "drain", "report", "fit", "told", "panic"} /\ space \in Nat

Untold == [text |-> <<>>, shown |-> [p \in Pipes |-> <<>>], cut |-> [p \in Pipes |-> FALSE]]

\* adapt_pipes: when one pipe cannot be set up, neither is read
Init ==
  /\ script \in Scripts /\ taken = [p \in Pipes |-> 0] /\ observed = 0
  /\ phase = "run" /\ code = FALSE /\ space = 0 /\ result = Untold
  /\ \E fails \in BOOLEAN :
       /\ open = (IF fails THEN {} ELSE Pipes)
       /\ tail = [p \in Pipes |-> [bytes |-> <<>>, cut |-> fails]]
       /\ flags = (IF fails THEN {"setup"} ELSE {})
       /\ primary = (IF fails THEN "setup" ELSE "natural")

(* Reading.                                                                   *)
Living == phase \in {"run", "drain"}
Untouched == UNCHANGED <<script, code, phase, space, result>>
CanFail == Cardinality(flags \cap Faults) < MaxFaults

\* get_or_insert
Owns(cause) == primary' = IF primary = "natural" THEN cause ELSE primary

\* TailCapture::push
Pushed_ForgetsOlder(t, chunk) ==
  IF Len(chunk) >= Retained
  THEN [bytes |-> SubSeq(chunk, Len(chunk) - Retained + 1, Len(chunk)),
        cut |-> t.cut \/ Len(chunk) > Retained]
  ELSE LET all == t.bytes \o chunk
           over == IF Len(all) > Retained THEN Len(all) - Retained ELSE 0
       IN  [bytes |-> SubSeq(all, over + 1, Len(all)), cut |-> t.cut \/ over > 0]

Pushed(t, chunk) ==
  IF Len(chunk) >= Retained
  THEN [bytes |-> SubSeq(chunk, Len(chunk) - Retained + 1, Len(chunk)),
        cut |-> t.cut \/ t.bytes # <<>> \/ Len(chunk) > Retained]
  ELSE LET all == t.bytes \o chunk
           over == IF Len(all) > Retained THEN Len(all) - Retained ELSE 0
       IN  [bytes |-> SubSeq(all, over + 1, Len(all)), cut |-> t.cut \/ over > 0]

\* mark_truncated, close_pipes
Marked(tails, pipes) == [p \in Pipes |-> [tails[p] EXCEPT !.cut = @ \/ p \in pipes]]

\* ObservedBudget::next_read_len: one byte more than may come is asked for
NextReadLen ==
  IF observed > Observable THEN 0 ELSE Min({Observable - observed + 1, Chunk})

\* handle_pipe_result: bytes; the one that is too many closes both pipes
ReadBytes(p) ==
  /\ Living /\ p \in open /\ Untouched
  /\ \E upto \in taken[p] + 1 .. Min({taken[p] + NextReadLen, Len(script[p])}) :
       LET pushed == [tail EXCEPT ![p] = Pushed(@, SubSeq(script[p], taken[p] + 1, upto))]
       IN  /\ taken' = [taken EXCEPT ![p] = upto] /\ observed' = observed + upto - taken[p]
           /\ IF observed' > Observable
              THEN /\ flags' = flags \cup {"limit"} /\ Owns("limit")
                   /\ open' = {} /\ tail' = Marked(pushed, open)
              ELSE tail' = pushed /\ UNCHANGED <<flags, primary, open>>

\* the writers are gone: what is not in the pipe was never written
EndOfFile(p) ==
  /\ Living /\ p \in open /\ open' = open \ {p}
  /\ script' = [script EXCEPT ![p] = SubSeq(@, 1, taken[p])]
  /\ UNCHANGED <<taken, tail, observed, flags, primary, code, phase, space, result>>

ReadFails(p) ==
  /\ Living /\ p \in open /\ CanFail /\ Untouched
  /\ open' = open \ {p} /\ tail' = Marked(tail, {p})
  /\ flags' = flags \cup {"read"} /\ Owns("read") /\ UNCHANGED <<taken, observed>>

(* The process.                                                               *)
SignalFails ==
  /\ Living /\ primary # "natural" /\ CanFail /\ flags' = flags \cup {"signal"}
  /\ Untouched /\ UNCHANGED <<taken, open, tail, observed, primary>>

\* observe_stop; once the leader is reaped there is nothing to signal, and the
\* pipes are closed
Stop(cause) ==
  /\ Living /\ primary = "natural" /\ Owns(cause) /\ Untouched
  /\ phase = "drain" => cause = "stop"
  /\ IF phase = "drain" THEN open' = {} /\ tail' = Marked(tail, open) ELSE UNCHANGED <<open, tail>>
  /\ UNCHANGED <<taken, observed, flags>>

Reaped ==
  /\ phase = "run" /\ phase' = "drain" /\ code' \in BOOLEAN
  /\ UNCHANGED <<script, taken, tail, observed, flags, primary, open, space, result>>

\* somebody outside the group holds a pipe
DrainEnds ==
  /\ phase = "drain" /\ open # {} /\ CanFail /\ Untouched
  /\ open' = {} /\ tail' = Marked(tail, open)
  /\ flags' = flags \cup {"drain"} /\ Owns("drain") /\ UNCHANGED <<taken, observed>>

FinishReport ==
  /\ phase = "drain" /\ open = {} /\ phase' = "report"
  /\ UNCHANGED <<script, taken, open, tail, observed, flags, primary, code, space, result>>

(* The text.                                                                  *)
\* json_character_content_bytes; a line of the renderer counts as one
Cost(c) == IF c \in DOMAIN Encoded THEN Encoded[c] ELSE 1
Bytes(s) == FoldLeft(LAMBDA sum, c : sum + Cost(c), 0, s)

\* append_line
Line(output, line) ==
  IF output # <<>> /\ Last(output) # NL THEN output \o <<NL, line>> ELSE Append(output, line)

Said(line) ==
  CASE line \in Faults -> line \in flags
    [] line = "secondary limit" -> "limit" \in flags /\ primary # "limit"
    [] line = "primary" -> primary \in {"setup", "read", "limit", "background"}
    [] line = "timed out" -> primary = "timeout"
    [] line = "exit" -> code

Notices ==
  SelectSeq(
    <<"setup", "read", "signal", "drain", "secondary limit", "primary", "timed out", "exit">>, Said)

HadOutput == \E p \in Pipes : tail[p].bytes # <<>>

\* assemble_rendered_text
Assemble(shown, gone) ==
  LET out == IF gone["out"] THEN Line(shown["out"], "stdout tail") ELSE shown["out"]
      err == IF shown["err"] # <<>> \/ gone["err"]
             THEN Line(out, "stderr") \o <<NL>> \o shown["err"] ELSE out
      both == IF gone["err"] THEN Line(err, "stderr tail") ELSE err
      body == IF both = <<>> /\ ~HadOutput THEN <<"no output">> ELSE both
  IN  FoldLeft(Line, body, Notices)

\* suffix_with_encoded_budget
Suffix(s, budget) ==
  SubSeq(s, Min({i \in 1..Len(s) + 1 : Bytes(SubSeq(s, i, Len(s))) =< budget}), Len(s))

\* select_stream_suffixes: what one stream leaves over goes to the other
Selected(available) ==
  LET out == tail["out"].bytes
      err == tail["err"].bytes
      half == available \div 2
      rest == available - half
      left(s, budget) == budget - Bytes(Suffix(s, budget))
  IN  [p \in Pipes |->
         IF out = <<>> \/ err = <<>> THEN Suffix(tail[p].bytes, available)
         ELSE IF p = "out" THEN Suffix(out, half + left(err, rest))
         ELSE Suffix(err, rest + left(out, half))]

Gone(shown) == [p \in Pipes |-> tail[p].cut \/ shown[p] # tail[p].bytes]
Told(shown) ==
  phase' = "told" /\ result' = [text |-> Assemble(shown, Gone(shown)), shown |-> shown,
                                cut |-> Gone(shown)]

Kept == UNCHANGED <<script, taken, open, tail, observed, flags, primary, code>>

\* render_bounded_text: everything, or else room is made
Render ==
  LET all == [p \in Pipes |-> tail[p].bytes]
      none == [p \in Pipes |-> <<>>]
      fixed == Bytes(Assemble(none, Gone(none)))
  IN  /\ phase = "report" /\ Kept
      /\ IF Bytes(Assemble(all, Gone(all))) =< MaxContent THEN Told(all) /\ UNCHANGED space
         ELSE IF fixed > MaxContent THEN phase' = "panic" /\ UNCHANGED <<space, result>>
         ELSE /\ phase' = "fit" /\ UNCHANGED result
              /\ space' = IF MaxContent - fixed > Spare THEN MaxContent - fixed - Spare ELSE 0

Fit ==
  LET shown == Selected(space)
      encoded == Bytes(Assemble(shown, Gone(shown)))
  IN  /\ phase = "fit" /\ Kept
      /\ IF encoded =< MaxContent THEN Told(shown) /\ UNCHANGED space
         ELSE IF space = 0 THEN phase' = "panic" /\ UNCHANGED <<space, result>>
         ELSE /\ UNCHANGED <<phase, result>>
              /\ space' = IF space > encoded - MaxContent THEN space - (encoded - MaxContent) ELSE 0

Next ==
  \/ \E p \in Pipes : ReadBytes(p) \/ EndOfFile(p) \/ ReadFails(p)
  \/ \E cause \in Stops : Stop(cause)
  \/ SignalFails \/ Reaped \/ DrainEnds \/ FinishReport \/ Render \/ Fit

Spec == Init /\ [][Next]_vars

(* The result always fits and is always told (map_process_outcome expects it),*)
(* and no more than one byte past the limit is ever read.                     *)
AlwaysTold ==
  /\ phase # "panic" /\ observed =< Observable + 1
  /\ phase = "told" => Bytes(result.text) =< MaxContent

(* What the text shows of a stream is the end of what was read, and a stream  *)
(* that is not called truncated is shown as the command wrote it.             *)
TailIsTrue ==
  phase = "told" => \A p \in Pipes :
    /\ IsSuffix(result.shown[p], SubSeq(script[p], 1, taken[p]))
    /\ ~result.cut[p] => result.shown[p] = script[p]

(* Too much output is said in the text, whatever cause came first, and once.  *)
LimitIsSaid ==
  phase = "told" =>
    (observed > Observable <=>
       Len(SelectSeq(result.text, LAMBDA c : c = "secondary limit"
                                               \/ (c = "primary" /\ primary = "limit"))) = 1)

(* When neither stream could be shown whole, each got its half.               *)
NeitherStarves ==
  phase = "told" /\ space > 0 /\ (\A p \in Pipes : result.shown[p] # tail[p].bytes) =>
    \A p \in Pipes : Bytes(result.shown[p]) + 6 > space \div 2

OutputIsTold == AlwaysTold /\ TailIsTrue /\ LimitIsSaid /\ NeitherStarves
================================================================================
