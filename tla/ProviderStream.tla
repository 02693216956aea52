---------------------------- MODULE ProviderStream ----------------------------
(* One streamed answer of the model provider: the lazy stream that the turn  *)
(* polls (ProviderState::next_item), the translation of the provider's       *)
(* events into chunks (DeepSeekTranslator), and the grammar every chunk has  *)
(* to follow (StreamValidator).                                              *)
(*                                                                           *)
(* An event of the body is "comment", "junk" for data that does not parse or *)
(* is too large, "done", or a record: the blocks it adds to, the reason it   *)
(* announces, and whether it reports usage.  Chunks carry no text.  The       *)
(* reason "length" stands for "tool_calls" too: a success without content.    *)
EXTENDS Naturals, Sequences, SequencesExt

CONSTANTS
  Kinds,      \* a sequence: the blocks an answer may have, in the order of a delta
  MaxChunks,  \* MAX_PROVIDER_STREAM_CHUNKS
  MaxBlocks,  \* MAX_DEEPSEEK_BLOCKS
  MaxReads    \* reads after which MAX_DEEPSEEK_RESPONSE_BYTES is reached

VARIABLES
  phase,      \* Phase, with the three waits apart: "start", "sending",
              \* "error body", "reading", "waiting", "done"
  polled,     \* a call of next_item is under way
  idle,       \* its idle deadline: "unset", "set", "late"
  cancelled,  \* the token of the request
  reader,     \* ResponseReader: decoded items, the decoder's failure, reads
  translator, \* DeepSeekTranslator
  pending,    \* chunks that wait to be delivered
  validator,  \* StreamValidator of what was delivered
  said        \* the reason of the delivered finish, "broken" for an error

vars == <<phase, polled, idle, cancelled, reader, translator, pending, validator, said>>

Successes == {"stop", "length"}
Failures == {"aborted", "timeout", "error"}
Chunk(kind, block, reason) == [kind |-> kind, block |-> block, reason |-> reason]
Finish(reason) == Chunk("finish", 0, reason)

\* What stays of one event of the body.
Item(tag, adds, finish, usage) == [tag |-> tag, adds |-> adds, finish |-> finish, usage |-> usage]
Deltas == {Item("delta", adds, finish, usage) :
             adds \in SUBSET ToSet(Kinds),
             finish \in {"none", "stop", "length", "odd", "bad"}, usage \in BOOLEAN}
Items == Deltas \cup {Item(tag, {}, "none", FALSE) : tag \in {"comment", "junk", "done"}}

\* What one read decodes to: two events at most, the second one any marker.
Batches == {<<>>} \cup {<<i>> : i \in Items} \cup {<<i, j>> : i \in Items, j \in Items \ Deltas}

NewValidator == [open |-> {}, seen |-> {}, usage |-> FALSE, finished |-> FALSE, count |-> 0]

TypeOK ==
  /\ phase \in {"start", "sending", "error body", "reading", "waiting", "done"}
  /\ polled \in BOOLEAN /\ cancelled \in BOOLEAN
  /\ idle \in {"unset", "set", "late"}
  /\ reader.failed \in BOOLEAN /\ reader.reads \in 0..MaxReads
  /\ Len(translator.blocks) <= MaxBlocks
  /\ validator.open \subseteq validator.seen /\ validator.count \in 0..MaxChunks
  /\ said \in {"none", "broken"} \cup Successes \cup Failures

Init ==
  /\ phase = "start" /\ polled = FALSE /\ idle = "unset" /\ cancelled = FALSE
  /\ reader = [items |-> <<>>, failed |-> FALSE, reads |-> 0]
  /\ translator = [blocks |-> <<>>, finish |-> "none", usage |-> FALSE]
  /\ pending = <<>> /\ validator = NewValidator /\ said = "none"

-----------------------------------------------------------------------------
(* The grammar of a stream.                                                  *)

Accepts(v, chunk) ==
  /\ ~v.finished
  /\ v.count < MaxChunks /\ (v.count + 1 = MaxChunks => chunk.kind = "finish")
  /\ chunk.kind # "broken"
  /\ chunk.kind = "start" => chunk.block \notin v.seen
  /\ chunk.kind \in {"delta", "end"} => chunk.block \in v.open
  /\ chunk.kind = "usage" => ~v.usage
  /\ chunk.kind = "finish" => chunk.reason \in Failures \/ v.open = {}

Blocks(chunks, kind) == {c.block : c \in {c \in ToSet(chunks) : c.kind = kind}}

\* The validator behind chunks that it accepted one after the other.
Accepted(v, chunks) ==
  [open |-> (v.open \cup Blocks(chunks, "start")) \ Blocks(chunks, "end"),
   seen |-> v.seen \cup Blocks(chunks, "start"),
   usage |-> v.usage \/ \E c \in ToSet(chunks) : c.kind = "usage",
   finished |-> v.finished \/ \E c \in ToSet(chunks) : c.kind = "finish",
   count |-> v.count + Len(chunks)]

\* The dry run over a clone, before any of the chunks is queued.
AcceptsAll(v, chunks) ==
  \A i \in DOMAIN chunks : Accepts(Accepted(v, SubSeq(chunks, 1, i - 1)), chunks[i])

-----------------------------------------------------------------------------
(* The translation.                                                          *)

\* What is added to a block is told, and a block that is new is opened before that.
AddTo(was, kind) ==
  LET opens == ~Contains(was.blocks, kind)
      blocks == IF opens THEN Append(was.blocks, kind) ELSE was.blocks
      index == CHOOSE i \in DOMAIN blocks : blocks[i] = kind
  IN  [blocks |-> blocks,
       chunks |-> was.chunks \o (IF opens THEN <<Chunk("start", index, "none")>> ELSE <<>>)
                    \o <<Chunk("delta", index, "none")>>]

\* One event, block by block: the blocks that are there behind it, and its chunks.
Translated(t, delta) ==
  LET after[i \in 0..Len(Kinds)] ==
        IF i = 0 THEN [blocks |-> t.blocks, chunks |-> <<>>]
        ELSE IF Kinds[i] \in delta.adds THEN AddTo(after[i - 1], Kinds[i]) ELSE after[i - 1]
  IN  after[Len(Kinds)]

Grown(t, delta) == Translated(t, delta).blocks
TooManyBlocks(t, delta) == Len(Grown(t, delta)) > MaxBlocks
DeltaChunks(t, delta) == Translated(t, delta).chunks

\* What the reason last announced comes to.
MapFinishReason(t) ==
  CASE t.finish \in {"none", "stop"} -> IF t.blocks = <<>> THEN "error" ELSE "stop"
    [] t.finish = "length" -> "length"
    [] t.finish = "odd" -> "error"
    [] OTHER -> "malformed"

\* [DONE]: every block ends, usage is told, and the finish comes last.
FinalChunks(t) ==
  [i \in 1..Len(t.blocks) |-> Chunk("end", i, "none")]
    \o (IF t.usage THEN <<Chunk("usage", 0, "none")>> ELSE <<>>)
    \o <<Finish(MapFinishReason(t))>>

-----------------------------------------------------------------------------
(* Delivery.                                                                 *)

Deliver(chunk) ==
  /\ polled' = FALSE
  /\ IF Accepts(validator, chunk)
     THEN /\ validator' = Accepted(validator, <<chunk>>)
          /\ said' = IF chunk.kind = "finish" THEN chunk.reason ELSE said
     ELSE said' = "broken" /\ UNCHANGED validator

\* finish_with: one more chunk, past the queue, and the end of the stream.
FinishWith(reason) == phase' = "done" /\ Deliver(Finish(reason))

\* Room for a finish is kept; chunks that would take it are dropped for one.
ExceedsBudget(chunks) ==
  LET total == validator.count + Len(chunks) IN
  \/ total > MaxChunks
  \/ total = MaxChunks /\ \A c \in ToSet(chunks) : c.kind # "finish"

Enqueue(chunks, then) ==
  IF ExceedsBudget(chunks)
  THEN /\ phase' = "done"
       /\ pending' = IF Accepts(validator, Finish("error")) THEN <<Finish("error")>>
                     ELSE <<Chunk("broken", 0, "none")>>
  ELSE IF ~AcceptsAll(validator, chunks)
       THEN phase' = "done" /\ pending' = <<Chunk("broken", 0, "none")>>
       ELSE phase' = then /\ pending' = chunks

-----------------------------------------------------------------------------
(* The steps of next_item.                                                   *)

AtTop == polled /\ phase \in {"start", "reading", "done"}
Aborting_AfterFinish == cancelled
Aborting == cancelled /\ ~validator.finished
GoesOn == AtTop /\ ~Aborting /\ pending = <<>>
Waits == polled /\ phase \in {"sending", "error body", "waiting"}

Poll ==
  /\ ~polled
  /\ polled' = TRUE /\ idle' = "unset"
  /\ UNCHANGED <<phase, cancelled, reader, translator, pending, validator, said>>

\* The token is looked at first, and what was queued is given up.
Abort ==
  /\ AtTop /\ Aborting
  /\ pending' = <<>> /\ FinishWith("aborted")
  /\ UNCHANGED <<idle, cancelled, reader, translator>>

Yield ==
  /\ AtTop /\ ~Aborting /\ pending # <<>>
  /\ Deliver(Head(pending)) /\ pending' = Tail(pending)
  /\ phase' = IF Accepts(validator, Head(pending)) THEN phase ELSE "done"
  /\ UNCHANGED <<idle, cancelled, reader, translator>>

\* The request is built and a key found, or the answer is a failure.
Start ==
  /\ GoesOn /\ phase = "start"
  /\ \/ FinishWith("error") /\ UNCHANGED idle
     \/ phase' = "sending" /\ idle' = "set" /\ UNCHANGED <<polled, validator, said>>
  /\ UNCHANGED <<cancelled, reader, translator, pending>>

\* Of what is ready at once a wait takes the deadline first, then the token.
TimedOut ==
  /\ Waits /\ idle = "late" /\ FinishWith("timeout")
  /\ UNCHANGED <<idle, cancelled, reader, translator, pending>>

WaitCancelled ==
  /\ Waits /\ idle # "late" /\ cancelled /\ FinishWith("aborted")
  /\ UNCHANGED <<idle, cancelled, reader, translator, pending>>

Ready == Waits /\ idle # "late" /\ ~cancelled

\* The response: its body, none, a failing status with its own body, or nothing.
Respond ==
  /\ Ready /\ phase = "sending"
  /\ \/ FinishWith("error")
     \/ phase' \in {"reading", "error body"} /\ UNCHANGED <<polled, validator, said>>
  /\ UNCHANGED <<idle, cancelled, reader, translator, pending>>

ReadErrorBody ==
  /\ Ready /\ phase = "error body" /\ FinishWith("error")
  /\ UNCHANGED <<idle, cancelled, reader, translator, pending>>

SetOnce == idle' = IF idle = "unset" THEN "set" ELSE idle

\* A comment is a sign of life; data that yields no chunk is not.
TakeComment ==
  /\ GoesOn /\ phase = "reading" /\ reader.items # <<>> /\ Head(reader.items).tag = "comment"
  /\ reader' = [reader EXCEPT !.items = Tail(@)] /\ idle' = "set"
  /\ UNCHANGED <<phase, polled, cancelled, translator, pending, validator, said>>

\* Any data may be malformed in itself or make the answer too large.
TakeData ==
  /\ GoesOn /\ phase = "reading" /\ reader.items # <<>>
  /\ LET item == Head(reader.items) IN
     /\ item.tag # "comment"
     /\ reader' = [reader EXCEPT !.items = Tail(@)]
     /\ \/ FinishWith("error") /\ UNCHANGED <<translator, pending>>
        \/ /\ item.tag = "delta" /\ ~TooManyBlocks(translator, item)
           /\ translator' = [blocks |-> Grown(translator, item),
                             finish |-> IF item.finish = "none" THEN translator.finish
                                        ELSE item.finish,
                             usage |-> translator.usage \/ item.usage]
           /\ Enqueue(DeltaChunks(translator, item), "reading")
           /\ UNCHANGED <<polled, validator, said>>
        \/ /\ item.tag = "done" /\ MapFinishReason(translator) # "malformed"
           /\ Enqueue(FinalChunks(translator), "done")
           /\ UNCHANGED <<translator, polled, validator, said>>
  /\ SetOnce /\ UNCHANGED cancelled

\* A failure of the decoder is told after the items that came before it.
DecoderFails ==
  /\ GoesOn /\ phase = "reading" /\ reader.items = <<>> /\ reader.failed
  /\ FinishWith("error") /\ SetOnce
  /\ UNCHANGED <<cancelled, reader, translator, pending>>

WaitForBody ==
  /\ GoesOn /\ phase = "reading" /\ reader.items = <<>> /\ ~reader.failed
  /\ phase' = "waiting" /\ SetOnce
  /\ UNCHANGED <<polled, cancelled, reader, translator, pending, validator, said>>

\* Bytes arrive, the transport fails, or the body ends without [DONE]; nothing
\* is decoded after [DONE], nor once the response is too large.
ReadBody(items, failed) ==
  /\ Ready /\ phase = "waiting"
  /\ \A i \in 1..Len(items) : items[i].tag = "done" => i = Len(items) /\ ~failed
  /\ (reader.reads = MaxReads => failed)
  /\ reader' = [items |-> items, failed |-> failed,
                reads |-> IF failed THEN reader.reads ELSE reader.reads + 1]
  /\ phase' = "reading"
  /\ UNCHANGED <<polled, idle, cancelled, translator, pending, validator, said>>

BodyEnds ==
  /\ Ready /\ phase = "waiting" /\ FinishWith("error")
  /\ UNCHANGED <<idle, cancelled, reader, translator, pending>>

\* The stream is over: next_item gives nothing.
Ended ==
  /\ GoesOn /\ phase = "done" /\ polled' = FALSE
  /\ UNCHANGED <<phase, idle, cancelled, reader, translator, pending, validator, said>>

Cancel ==
  /\ ~cancelled /\ cancelled' = TRUE
  /\ UNCHANGED <<phase, polled, idle, reader, translator, pending, validator, said>>

TimePasses ==
  /\ polled /\ idle = "set" /\ idle' = "late"
  /\ UNCHANGED <<phase, polled, cancelled, reader, translator, pending, validator, said>>

Step ==
  \/ Abort \/ Yield \/ Start \/ TimedOut \/ WaitCancelled
  \/ TakeComment \/ TakeData \/ DecoderFails \/ WaitForBody \/ Ended
Peer ==
  \/ Respond \/ ReadErrorBody \/ BodyEnds
  \/ phase = "waiting" /\ \E items \in Batches, failed \in BOOLEAN : ReadBody(items, failed)

Next == Poll \/ Step \/ Peer \/ Cancel \/ TimePasses

Spec == Init /\ [][Next]_vars

\* The runtime polls a call that is under way, and time passes; nothing is
\* expected of the provider.
Fairness == WF_vars(Step) /\ WF_vars(TimePasses)

-----------------------------------------------------------------------------
(* Properties.                                                               *)

\* Whatever the provider sends, in whatever pieces, up to every limit, the
\* stream is one the grammar accepts to the end: it never breaks, it ends only
\* behind a finish, and a finish that is a success is told of an answer that
\* was received and delivered as a whole.
StreamIsWhole ==
  /\ said # "broken"
  /\ (phase = "done" /\ pending = <<>> => said # "none")
  /\ (said \in Successes =>
        /\ validator.open = {} /\ validator.seen = 1..Len(translator.blocks)
        /\ validator.usage = translator.usage /\ ~reader.failed)
  /\ (said = "aborted" => cancelled)

\* Every poll is answered though the provider falls silent.
PollEnds == polled ~> ~polled
=============================================================================
