---------------------------- MODULE SessionLedger ----------------------------
(***************************************************************************)
(* The admission ledger of a session (src/src/session/mod.rs): how the one *)
(* append owner protects room for the events that must be able to close    *)
(* what it opens.                                                          *)
(*                                                                         *)
(* A SessionReservation holds EventClaims.  A claim protects one event     *)
(* slot and a byte ceiling, so that its fallback event can always be       *)
(* committed; ordinary events may only use what no claim protects.  In     *)
(* durable mode a commit is two-phase: the candidate is installed as the   *)
(* session's single pending operation, with a SNAPSHOT of what the other   *)
(* claims protect, and is committed after the previous batch reached the   *)
(* journal writer.  The caller's future may be dropped between the two:    *)
(* the operation then stays with the session until the same caller, a      *)
(* barrier or the shutdown settles it.                                     *)
(*                                                                         *)
(* Bytes are one dimension: retained JSON bytes in memory mode, journal    *)
(* row bytes in durable mode (the dimension each mode bounds).             *)
(***************************************************************************)
EXTENDS Naturals, FiniteSets

CONSTANTS Claims,      \* identities of simultaneously live claims
          Durable,     \* SessionMode::Durable or SessionMode::Memory
          MaxEvents,   \* ordinary event limit of the mode
          MaxBytes,    \* ordinary byte limit of the mode
          MaxSize      \* largest single event, in bytes

ASSUME ClaimsFinite == IsFiniteSet(Claims)
ASSUME NoClaimIsFresh == "noClaim" \notin Claims
ASSUME DurableIsBool == Durable \in BOOLEAN
ASSUME LimitsAreNats == MaxEvents \in Nat /\ MaxBytes \in Nat /\ MaxSize \in Nat

VARIABLES events,         \* committed events (events.len() / logical_event_count)
          bytes,          \* committed bytes (accepted_journal_bytes)
          reserved,       \* reserved_events of the open reservation
          reservedBytes,  \* reserved_row_bytes / reserved_retained_json_bytes
          open,           \* a SessionReservation borrows the session
          claim,          \* the claims the turn driver holds
          op,             \* pending_operation
          batch,          \* the one committed row on its way to the writer
          synced,         \* events the last successful barrier covered
          storage,        \* SessionStorage plus the lifecycle flag
          barrierError,   \* barrier_error is Some
          attempt         \* active_attempt

ledgerVars == <<events, bytes, reserved, reservedBytes, claim>>
storeVars  == <<batch, synced, storage, barrierError>>
vars == <<events, bytes, reserved, reservedBytes, open, claim, op, batch,
          synced, storage, barrierError, attempt>>

Sizes == 1..MaxSize

\* The sum of size[c] over the claims in S, as the number of protected bytes.
ByteUnits(S, size) == {u \in S \X Sizes : u[2] <= size[u[1]]}
Total(S, size) == Cardinality(ByteUnits(S, size))

ClaimStates == {"ready", "pendingFallback", "pendingPreferred", "settled"}
Settled == [state |-> "settled", fallback |-> 0, ceiling |-> 0]
Live == {c \in Claims : claim[c].state # "settled"}
Ceiling == [c \in Claims |-> claim[c].ceiling]

ClaimKinds == {"preferred", "fallback", "exact", "preferredOnly", "stepEnd"}
FreeKinds  == {"ordinary", "chunk", "closure"}
NoClaim == "noClaim"
NoOp == [kind |-> "none", claim |-> NoClaim, size |-> 0,
         protectedEvents |-> 0, protectedBytes |-> 0]
NoAttempt == [phase |-> "none", seq |-> 0, barriered |-> FALSE, held |-> FALSE]

-----------------------------------------------------------------------------
\* Names that end in _<word> are deliberate mutations of the definition they
\* precede: the properties below must reject each of them.
\* durable_candidate_fits, and the checks of append_prepared and
\* try_commit_durable: the new event next to everything other claims protect.
Fits(size, protectedEvents, protectedBytes) ==
  /\ events + 1 + protectedEvents <= MaxEvents
  /\ bytes + size + protectedBytes <= MaxBytes

\* prepare_claim_bookkeeping: the counters without this claim.
OtherEvents == reserved - 1
OtherBytes(c) == reservedBytes - claim[c].ceiling

\* ensure_durable_active and ensure_memory_append.
CanAppend == IF Durable THEN storage = "active" /\ ~barrierError ELSE TRUE

\* validate_open_attempt_token: the token, its reservation and the phase match.
HoldsOpenAttempt == attempt.held /\ attempt.phase = "open"

\* The check every claim operation opens with.
Idle == CanAppend /\ op = NoOp

Init ==
  /\ events = 0 /\ bytes = 0
  /\ reserved = 0 /\ reservedBytes = 0
  /\ open = FALSE
  /\ claim = [c \in Claims |-> Settled]
  /\ op = NoOp
  /\ batch = "empty" /\ synced = 0
  /\ storage = IF Durable THEN "deferred" ELSE "memory"
  /\ barrierError = FALSE
  /\ attempt = NoAttempt

\* Session::reservation: a fresh owner whose counters start at zero.
OpenReservation ==
  /\ ~open /\ storage \notin {"closing", "closed"}
  /\ open' = TRUE
  /\ UNCHANGED <<ledgerVars, op, storeVars, attempt>>

\* The reservation goes out of scope: its counters and the authority of its
\* claims and of its attempt token vanish; an operation it left pending, and an
\* attempt it left open, stay with the session.
DropReservation ==
  /\ open
  /\ open' = FALSE
  /\ reserved' = 0 /\ reservedBytes' = 0
  /\ claim' = [c \in Claims |-> Settled]
  /\ op' = [op EXCEPT !.claim = NoClaim]
  /\ attempt' = [attempt EXCEPT !.held = FALSE]
  /\ UNCHANGED <<events, bytes, storeVars>>

ClaimBatch_WhileWaiting(S, size) ==
  /\ open /\ CanAppend
  /\ S # {} /\ S \cap Live = {}
  /\ events + reserved + Cardinality(S) <= MaxEvents
  /\ bytes + reservedBytes + Total(S, size) <= MaxBytes
  /\ reserved' = reserved + Cardinality(S)
  /\ reservedBytes' = reservedBytes + Total(S, size)
  /\ claim' = [c \in Claims |->
                 IF c \in S
                 THEN [state |-> "ready", fallback |-> size[c], ceiling |-> size[c]]
                 ELSE claim[c]]
  /\ UNCHANGED <<events, bytes, open, op, storeVars, attempt>>

\* claim_batch: all claims of the batch are protected, or none is.  The
\* resident pool and the allocator may refuse the batch; that changes nothing.
ClaimBatch(S, size) ==
  /\ open /\ Idle
  /\ S # {} /\ S \cap Live = {}
  /\ events + reserved + Cardinality(S) <= MaxEvents
  /\ bytes + reservedBytes + Total(S, size) <= MaxBytes
  /\ reserved' = reserved + Cardinality(S)
  /\ reservedBytes' = reservedBytes + Total(S, size)
  /\ claim' = [c \in Claims |->
                 IF c \in S
                 THEN [state |-> "ready", fallback |-> size[c], ceiling |-> size[c]]
                 ELSE claim[c]]
  /\ UNCHANGED <<events, bytes, open, op, storeVars, attempt>>

\* reserve_claim_retained_json_bytes: raise the ceiling, keep the fallback.
ReserveMoreBytes(c, requested) ==
  /\ open /\ Idle
  /\ claim[c].state = "ready" /\ requested > claim[c].ceiling
  /\ bytes + OtherBytes(c) + requested <= MaxBytes
  /\ claim' = [claim EXCEPT ![c].ceiling = requested]
  /\ reservedBytes' = OtherBytes(c) + requested
  /\ UNCHANGED <<events, bytes, reserved, open, op, storeVars, attempt>>

\* rebind_claim_fallback: another fallback within the protected ceiling.
RebindFallback(c, size) ==
  /\ open /\ Idle
  /\ claim[c].state = "ready" /\ size <= claim[c].ceiling
  /\ claim' = [claim EXCEPT ![c].fallback = size]
  /\ UNCHANGED <<events, bytes, reserved, reservedBytes, open, op, storeVars, attempt>>

\* finish_claim_bookkeeping, on the primed ledger.
FinishClaim(c) ==
  /\ claim' = [claim EXCEPT ![c] = Settled]
  /\ reserved' = OtherEvents
  /\ reservedBytes' = OtherBytes(c)

\* release: stop protecting a claim that will never be published.
Release(c) ==
  /\ open /\ Idle
  /\ claim[c].state = "ready"
  /\ FinishClaim(c)
  /\ UNCHANGED <<events, bytes, open, op, storeVars, attempt>>

-----------------------------------------------------------------------------
(* Memory mode: every operation validates and commits in one call.         *)

MemoryCommit(size) ==
  /\ events' = events + 1
  /\ bytes' = bytes + size
  /\ UNCHANGED <<open, op, storeVars>>

\* append and append_attempt_chunk_settled.
MemoryAppend(size) ==
  /\ ~Durable
  /\ Fits(size, reserved, reservedBytes)
  /\ MemoryCommit(size)
  /\ UNCHANGED <<reserved, reservedBytes, claim, attempt>>

\* settle: the preferred event when it fits, otherwise the fallback.
MemorySettle(c, preferred) ==
  /\ ~Durable /\ open /\ claim[c].state = "ready"
  /\ LET size == IF Fits(preferred, OtherEvents, OtherBytes(c))
                 THEN preferred ELSE claim[c].fallback
     IN Fits(size, OtherEvents, OtherBytes(c)) /\ MemoryCommit(size)
  /\ FinishClaim(c)
  /\ UNCHANGED attempt

\* settle_exact and settle_preferred_only: an event within the ceiling.
MemorySettleWithin(c, size) ==
  /\ ~Durable /\ open /\ claim[c].state = "ready"
  /\ size <= claim[c].ceiling
  /\ Fits(size, OtherEvents, OtherBytes(c))
  /\ MemoryCommit(size)
  /\ FinishClaim(c)
  /\ UNCHANGED attempt

\* append_attempt_closure_settled and settle_attempt_closure_exact_settled.
MemoryClose(size) ==
  /\ ~Durable /\ HoldsOpenAttempt
  /\ Fits(size, reserved, reservedBytes)
  /\ MemoryCommit(size)
  /\ attempt' = [attempt EXCEPT !.phase = "closed", !.seq = events + 1]
  /\ UNCHANGED <<reserved, reservedBytes, claim>>

MemoryStepEnd(c) ==
  /\ ~Durable /\ HoldsOpenAttempt /\ claim[c].state = "ready"
  /\ Fits(claim[c].fallback, OtherEvents, OtherBytes(c))
  /\ MemoryCommit(claim[c].fallback)
  /\ FinishClaim(c)
  /\ attempt' = [attempt EXCEPT !.phase = "closed", !.seq = events + 1]

-----------------------------------------------------------------------------
(* Durable mode: install the operation, then commit it.                    *)

Install(kind, c, size, protectedEvents, protectedBytes) ==
  op' = [kind |-> kind, claim |-> c, size |-> size,
         protectedEvents |-> protectedEvents, protectedBytes |-> protectedBytes]

BeginAppend_NoSnapshot(kind, size) ==
  /\ Durable /\ Idle
  /\ kind = "ordinary" \/ HoldsOpenAttempt
  /\ Install(kind, NoClaim, size, 0, 0)
  /\ UNCHANGED <<ledgerVars, open, storeVars, attempt>>

\* append_settled, append_attempt_chunk_settled, append_attempt_closure_settled:
\* the snapshot protects every claim.
BeginAppend(kind, size) ==
  /\ Durable /\ Idle
  /\ kind = "ordinary" \/ HoldsOpenAttempt
  /\ Install(kind, NoClaim, size, reserved, reservedBytes)
  /\ UNCHANGED <<ledgerVars, open, storeVars, attempt>>

BeginSettle_Unchecked(c, preferred) ==
  /\ Durable /\ open /\ Idle
  /\ claim[c].state = "ready"
  /\ Install("preferred", c, preferred, OtherEvents, OtherBytes(c))
  /\ claim' = [claim EXCEPT ![c].state = "pendingPreferred"]
  /\ UNCHANGED <<events, bytes, reserved, reservedBytes, open, storeVars, attempt>>

\* settle_settled: the preferred event may use unclaimed room; when it does not
\* fit, or the resident pool refuses it, the fallback is installed instead.
BeginSettle(c, preferred) ==
  /\ Durable /\ open /\ Idle
  /\ claim[c].state = "ready"
  /\ \/ /\ Fits(preferred, OtherEvents, OtherBytes(c))
        /\ Install("preferred", c, preferred, OtherEvents, OtherBytes(c))
        /\ claim' = [claim EXCEPT ![c].state = "pendingPreferred"]
     \/ /\ Install("fallback", c, claim[c].fallback, OtherEvents, OtherBytes(c))
        /\ claim' = [claim EXCEPT ![c].state = "pendingFallback"]
  /\ UNCHANGED <<events, bytes, reserved, reservedBytes, open, storeVars, attempt>>

\* settle_exact_settled, and the step/end that closes the open attempt.
BeginSettleExact(c, kind) ==
  /\ Durable /\ open /\ Idle
  /\ claim[c].state = "ready"
  /\ kind = "stepEnd" => HoldsOpenAttempt
  /\ Install(kind, c, claim[c].fallback, OtherEvents, OtherBytes(c))
  /\ claim' = [claim EXCEPT ![c].state = "pendingFallback"]
  /\ UNCHANGED <<events, bytes, reserved, reservedBytes, open, storeVars, attempt>>

\* settle_preferred_only_settled: after an irreversible effect the event must
\* fit in the claim's own ceiling, and its fallback is never used.
BeginPreferredOnly(c, preferred) ==
  /\ Durable /\ open /\ Idle
  /\ claim[c].state = "ready" /\ preferred <= claim[c].ceiling
  /\ Install("preferredOnly", c, preferred, OtherEvents, OtherBytes(c))
  /\ claim' = [claim EXCEPT ![c].state = "pendingPreferred"]
  /\ UNCHANGED <<events, bytes, reserved, reservedBytes, open, storeVars, attempt>>

Committable_OnlyActive ==
  Durable /\ op # NoOp /\ batch = "empty" /\ CanAppend

\* try_commit_durable waits (NeedsStorageSettle) until the previous batch has
\* been taken over and acknowledged by the journal writer.
Committable ==
  /\ Durable /\ op # NoOp /\ batch = "empty"
  /\ storage = "closing" \/ CanAppend

ClosesAttempt == op.kind \in {"closure", "stepEnd"}

\* Finish the bookkeeping of the claim the operation belongs to, if it is held.
FinishOwner ==
  IF op.claim \in Claims
  THEN FinishClaim(op.claim)
  ELSE UNCHANGED <<reserved, reservedBytes, claim>>

\* try_commit_durable: the row replaces its upper bound by its encoded length,
\* and the claim's bookkeeping finishes in the same call.
CommitOperation(encoded) ==
  /\ Committable
  /\ op.kind \in {"chunk", "closure", "stepEnd"} => attempt.phase = "open"
  /\ Fits(op.size, op.protectedEvents, op.protectedBytes)
  /\ encoded <= op.size
  /\ events' = events + 1
  /\ bytes' = bytes + encoded
  /\ batch' = "committed"
  /\ attempt' = IF ClosesAttempt
                THEN [attempt EXCEPT !.phase = "closed", !.seq = events + 1]
                ELSE attempt
  /\ FinishOwner
  /\ op' = NoOp
  /\ UNCHANGED <<open, synced, storage, barrierError>>

\* DurableAppendAttempt::Failed: a broken internal fact poisons the storage;
\* the operation is gone and its claim no longer protects anything.
PoisonInCommit ==
  /\ Committable
  /\ storage' = "failed"
  /\ op' = NoOp
  /\ FinishOwner
  /\ UNCHANGED <<events, bytes, open, batch, synced, barrierError, attempt>>

RejectOperation_DropsResult(inBarrier) ==
  /\ op # NoOp
  /\ Committable \/ storage = "failed"
  /\ inBarrier => op.kind \in FreeKinds /\ storage # "closing"
  /\ barrierError' = (barrierError \/ inBarrier)
  /\ op' = NoOp
  /\ claim' = IF op.claim \in Claims
              THEN [claim EXCEPT ![op.claim].state = "ready"] ELSE claim
  /\ UNCHANGED <<events, bytes, reserved, reservedBytes, open, batch, synced,
                 storage, attempt>>

\* A candidate rejected by the projection, the clock, the encoder, the resident
\* pool or a limit, or stopped by a writer that failed meanwhile.  It goes back
\* to its claim, except that a preferred-only operation stays pending; a
\* shutdown discards it.  A barrier remembers the error it met.
RejectOperation(inBarrier) ==
  /\ op # NoOp
  /\ Committable \/ storage = "failed"
  /\ inBarrier => op.kind \in FreeKinds /\ storage # "closing"
  /\ barrierError' = (barrierError \/ inBarrier)
  /\ IF op.kind = "preferredOnly" /\ storage # "closing"
     THEN UNCHANGED <<claim, op>>
     ELSE /\ op' = NoOp
          /\ claim' = IF op.claim \in Claims
                      THEN [claim EXCEPT ![op.claim].state = "ready"]
                      ELSE claim
  /\ UNCHANGED <<events, bytes, reserved, reservedBytes, open, batch, synced,
                 storage, attempt>>

\* flush_committed_batch: the writer takes the batch over; once it has taken
\* it, dropping the wait leaves the rows with the writer.
StageBatch ==
  /\ batch = "committed" /\ storage \in {"active", "closing"}
  /\ batch' = "staged"
  /\ UNCHANGED <<ledgerVars, open, op, synced, storage, barrierError, attempt>>

\* The writer acknowledges that the rows are in the file.
AcknowledgeBatch ==
  /\ batch = "staged" /\ storage \in {"active", "closing"}
  /\ batch' = "empty"
  /\ UNCHANGED <<ledgerVars, open, op, synced, storage, barrierError, attempt>>

\* fail_durable_writer: no row is acknowledged any more.
FailWriter ==
  /\ storage \in {"active", "closing"}
  /\ storage' = "failed"
  /\ UNCHANGED <<ledgerVars, open, op, batch, synced, barrierError, attempt>>

-----------------------------------------------------------------------------
(* Barriers, attempts and the lifecycle of the storage.                    *)

\* materialize_if_needed.
Materialize ==
  /\ storage = "deferred"
  /\ storage' \in {"active", "failed"}
  /\ UNCHANGED <<ledgerVars, open, op, batch, synced, barrierError, attempt>>

\* The last part of flush_barrier.  A pending claim operation makes it return
\* an error, but the committed rows are synchronized and the epoch advances.
Barrier ==
  /\ storage \in {"active", "memory"}
  /\ batch = "empty" /\ op.kind \notin FreeKinds
  /\ synced' = events
  /\ barrierError' = FALSE
  /\ attempt' = IF attempt.phase = "closed"
                THEN [attempt EXCEPT !.barriered = TRUE] ELSE attempt
  /\ UNCHANGED <<ledgerVars, open, op, batch, storage>>

\* begin_attempt: one provider stream at a time, opened behind a full barrier.
BeginAttempt ==
  /\ open /\ Idle /\ batch # "committed"
  /\ attempt = NoAttempt
  /\ attempt' = [phase |-> "open", seq |-> 0, barriered |-> FALSE, held |-> TRUE]
  /\ UNCHANGED <<ledgerVars, open, op, storeVars>>

RetireAttempt_BeforeBarrier ==
  /\ attempt.held /\ attempt.phase = "closed"
  /\ attempt' = NoAttempt
  /\ UNCHANGED <<ledgerVars, open, op, storeVars>>

\* retire_attempt: barrier_epoch is past the epoch the closure committed in.
RetireAttempt ==
  /\ attempt.held
  /\ attempt.phase = "closed" /\ attempt.barriered
  /\ attempt' = NoAttempt
  /\ UNCHANGED <<ledgerVars, open, op, storeVars>>

\* Session::shutdown owns the session, so no reservation borrows it; it settles
\* the operation and the batch left behind before it finishes the writer.
BeginShutdown ==
  /\ Durable /\ ~open /\ storage \in {"deferred", "active"}
  /\ storage' = IF storage = "deferred" THEN "closed" ELSE "closing"
  /\ barrierError' = FALSE
  /\ UNCHANGED <<ledgerVars, open, op, batch, synced, attempt>>

FinishShutdown ==
  /\ storage = "closing" /\ op = NoOp /\ batch = "empty"
  /\ storage' = "closed"
  /\ synced' = events
  /\ UNCHANGED <<ledgerVars, open, op, batch, barrierError, attempt>>

Next ==
  \/ OpenReservation \/ DropReservation
  \/ \E S \in SUBSET Claims : \E size \in [S -> Sizes] : ClaimBatch(S, size)
  \/ \E c \in Claims, n \in Sizes :
       ReserveMoreBytes(c, n) \/ RebindFallback(c, n)
         \/ MemorySettle(c, n) \/ MemorySettleWithin(c, n)
         \/ BeginSettle(c, n) \/ BeginPreferredOnly(c, n)
  \/ \E c \in Claims : Release(c) \/ MemoryStepEnd(c)
  \/ \E c \in Claims, kind \in {"exact", "stepEnd"} : BeginSettleExact(c, kind)
  \/ \E n \in Sizes : MemoryAppend(n) \/ MemoryClose(n) \/ CommitOperation(n)
  \/ \E kind \in FreeKinds, n \in Sizes : BeginAppend(kind, n)
  \/ \E inBarrier \in BOOLEAN : RejectOperation(inBarrier)
  \/ PoisonInCommit \/ StageBatch \/ AcknowledgeBatch \/ FailWriter
  \/ Materialize \/ Barrier \/ BeginAttempt \/ RetireAttempt
  \/ BeginShutdown \/ FinishShutdown

Spec == Init /\ [][Next]_vars

\* Session::shutdown is awaited to its end, and the journal's writer thread
\* answers every command it was sent, with a result or with an error.
ShutdownStep ==
  \/ \E n \in Sizes : CommitOperation(n)
  \/ RejectOperation(FALSE)
  \/ StageBatch \/ AcknowledgeBatch \/ FinishShutdown
FairSpec == Spec /\ WF_vars(storage = "closing" /\ ShutdownStep)

-----------------------------------------------------------------------------
(* Properties.                                                             *)

\* Type invariant of the ledger: every counter is a natural number, a claim
\* that is not settled protects at least one byte, and the attempt owner and
\* the pending operation are in one of the phases of the code.
TypeOK ==
  /\ events \in Nat /\ bytes \in Nat
  /\ reserved \in Nat /\ reservedBytes \in Nat
  /\ open \in BOOLEAN
  /\ claim \in [Claims -> [state : ClaimStates, fallback : 0..MaxSize,
                           ceiling : 0..MaxSize]]
  /\ op \in [kind : ClaimKinds \cup FreeKinds \cup {"none"},
             claim : Claims \cup {NoClaim}, size : 0..MaxSize,
             protectedEvents : Nat, protectedBytes : Nat]
  /\ batch \in {"empty", "committed", "staged"}
  /\ synced \in Nat
  /\ storage \in {"memory", "deferred", "active", "failed", "closing", "closed"}
  /\ barrierError \in BOOLEAN
  /\ attempt \in [phase : {"none", "open", "closed"}, seq : Nat,
                  barriered : BOOLEAN, held : BOOLEAN]

\* The incremental counters of the reservation (claim_batch, release,
\* finish_claim_bookkeeping, reserve_claim_retained_json_bytes) never drift
\* from what the live claims protect.
CountersMatchClaims ==
  /\ reserved = Cardinality(Live)
  /\ reservedBytes = Total(Live, Ceiling)

\* What is committed and what is protected never exceed the limits of the
\* mode together.
CapacityHeld ==
  /\ events + reserved <= MaxEvents
  /\ bytes + reservedBytes <= MaxBytes

\* The purpose of a claim: at any moment the fallback of any ready claim would
\* pass the admission checks, whatever was appended since it was claimed.
FallbackAlwaysFits ==
  \A c \in Claims : claim[c].state = "ready" =>
    Fits(claim[c].fallback, OtherEvents, OtherBytes(c))

\* A claim operation whose wait was dropped can still be resumed: it passes the
\* admission checks with the snapshot it was installed with, which still is
\* what the other claims protect (nothing else touches the ledger meanwhile).
PendingClaimResumable ==
  op.claim \in Claims =>
    /\ claim[op.claim].state \in {"pendingFallback", "pendingPreferred"}
    /\ op.protectedEvents = OtherEvents
    /\ op.protectedBytes = OtherBytes(op.claim)
    /\ Fits(op.size, op.protectedEvents, op.protectedBytes)

\* A pending operation of no claim (an ordinary append, a chunk, or what a dropped
\* reservation left behind) was admitted against at least everything that is
\* protected now, however late it is settled.
PendingAppendInvadesNoClaim ==
  op # NoOp /\ op.claim \notin Claims =>
    reserved <= op.protectedEvents /\ reservedBytes <= op.protectedBytes

\* A claim is pending exactly when it owns the session's pending operation, so
\* two claims can never wait at once and none waits for nothing.
OnePendingClaim ==
  \A c \in Claims :
    claim[c].state \in {"pendingFallback", "pendingPreferred"} <=> op.claim = c

\* The inductive strengthening of the invariants above: a claim's fallback never
\* outgrows its ceiling, and only the durable mode leaves an operation pending.
FallbackWithinCeiling == \A c \in Live : claim[c].fallback <= claim[c].ceiling
OnlyDurableWaits == op # NoOp => Durable
LedgerInv ==
  /\ TypeOK
  /\ CountersMatchClaims
  /\ CapacityHeld
  /\ FallbackWithinCeiling
  /\ OnlyDurableWaits
  /\ OnePendingClaim
  /\ PendingClaimResumable
  /\ PendingAppendInvadesNoClaim

\* The strengthening of RetiredAfterSync: a barrier covers every row committed
\* before it, and an open attempt has not been through any.
AttemptInv ==
  /\ synced <= events
  /\ attempt.phase = "closed" => attempt.seq <= events
  /\ attempt.barriered => attempt.phase = "closed" /\ attempt.seq <= synced

\* settle_preferred_only after an irreversible effect: while the session runs,
\* the pending event is either still the same one or was committed as it is;
\* it is never dropped, replaced, or settled by its fallback.
IrreversibleResultKept ==
  [][(op.kind = "preferredOnly" /\ storage' \notin {"failed", "closing"})
       => \/ op' = op \/ op' = [op EXCEPT !.claim = NoClaim]
          \/ op' = NoOp /\ events' = events + 1]_vars

Shut == storage \in {"closed", "failed"}

\* Session::shutdown always comes to an end: it settles the operation and the
\* batch that dropped waits left behind, whatever kind of operation that is,
\* and closes the journal unless the writer fails.
ShutdownEnds == storage = "closing" ~> Shut

\* retire_attempt: the owner of a provider attempt is given up only when the
\* row that closed it has been synchronized.
RetiredAfterSync ==
  [][attempt.phase = "closed" /\ attempt'.phase = "none" => attempt.seq <= synced]_vars
=============================================================================
