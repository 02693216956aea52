----------------------------- MODULE ToolsProofs -----------------------------
(***************************************************************************)
(* Proofs about what happens around a tool call.                           *)
(*                                                                         *)
(* SessionLedger: the counters of a reservation equal what its live claims *)
(* protect, the limits of the mode are never exceeded, and therefore every *)
(* claim's fallback, and every claim operation whose wait was dropped, can *)
(* always still be committed: for every set of claims, every limit and     *)
(* both modes.                                                             *)
(*                                                                         *)
(* MCTools: what a plugin, a shell command and a commit of file changes    *)
(* are reported to have done is what they did (AnswersTellEffect), for any *)
(* number of calls and changes, any room in the queue and any number of    *)
(* processes.                                                              *)
(***************************************************************************)
EXTENDS MCTools, FiniteSetTheorems, SequenceTheorems, TLAPS

-----------------------------------------------------------------------------
(* Sums of sizes, as cardinalities of sets of byte units.                  *)

\* A size table gives every claim a size of at most one event.
IsSizeTable(size) == \A c \in Claims : size[c] \in 0..MaxSize

\* The byte units of finitely many claims are finitely many.
LEMMA UnitsFinite ==
  ASSUME NEW S \in SUBSET Claims, NEW size
  PROVE  IsFiniteSet(ByteUnits(S, size)) /\ Total(S, size) \in Nat
<1>1. IsFiniteSet(S)
  BY ClaimsFinite, FS_Subset
<1>2. IsFiniteSet(Sizes)
  BY LimitsAreNats, FS_Interval DEF Sizes
<1>3. IsFiniteSet(S \X Sizes)
  BY <1>1, <1>2, FS_Product
<1>4. ByteUnits(S, size) \in SUBSET (S \X Sizes)
  BY DEF ByteUnits
<1>5. IsFiniteSet(ByteUnits(S, size))
  BY <1>3, <1>4, FS_Subset
<1> QED
  BY <1>5, FS_CardinalityType DEF Total

\* The sum over one claim is its size.
LEMMA TotalSingle ==
  ASSUME NEW c \in Claims, NEW size, size[c] \in 0..MaxSize
  PROVE  Total({c}, size) = size[c]
<1> DEFINE n == size[c]
           f == [i \in 1..n |-> <<c, i>>]
<1>1. n \in Nat /\ n <= MaxSize
  BY LimitsAreNats
<1>2. IsFiniteSet(1..n) /\ Cardinality(1..n) = n
  BY <1>1, FS_Interval, SMTT(20)
<1>3. f \in Bijection(1..n, ByteUnits({c}, size))
  <2>1. f \in [1..n -> ByteUnits({c}, size)]
    BY <1>1, LimitsAreNats DEF ByteUnits, Sizes
  <2>2. \A i, j \in 1..n : f[i] = f[j] => i = j
    OBVIOUS
  <2>3. \A u \in ByteUnits({c}, size) : \E i \in 1..n : f[i] = u
    BY <1>1, LimitsAreNats DEF ByteUnits, Sizes
  <2> QED
    BY <2>1, <2>2, <2>3 DEF Bijection, Injection, Surjection, IsInjective
<1>4. ExistsBijection(1..n, ByteUnits({c}, size))
  BY <1>3 DEF ExistsBijection
<1> QED
  BY <1>2, <1>4, FS_Bijection DEF Total

\* Sums over disjoint sets of claims add up.
LEMMA TotalUnion ==
  ASSUME NEW S \in SUBSET Claims, NEW T \in SUBSET Claims, S \cap T = {},
         NEW size
  PROVE  Total(S \cup T, size) = Total(S, size) + Total(T, size)
<1>1. IsFiniteSet(ByteUnits(S, size)) /\ IsFiniteSet(ByteUnits(T, size))
  BY UnitsFinite
<1>2. ByteUnits(S \cup T, size) = ByteUnits(S, size) \cup ByteUnits(T, size)
  BY DEF ByteUnits
<1>3. ByteUnits(S, size) \cap ByteUnits(T, size) = {}
  BY DEF ByteUnits
<1>4. Cardinality(ByteUnits(S, size) \cap ByteUnits(T, size)) = 0
  BY <1>3, FS_EmptySet
<1>5. Total(S, size) \in Nat /\ Total(T, size) \in Nat
  BY UnitsFinite
<1>6. Cardinality(ByteUnits(S, size) \cup ByteUnits(T, size)) =
        Cardinality(ByteUnits(S, size)) + Cardinality(ByteUnits(T, size))
          - Cardinality(ByteUnits(S, size) \cap ByteUnits(T, size))
  BY <1>1, FS_Union, Zenon
<1>7. Total(S \cup T, size) = Cardinality(ByteUnits(S, size) \cup ByteUnits(T, size))
  BY <1>2 DEF Total
<1>8. Total(S \cup T, size) = Total(S, size) + Total(T, size) - 0
  BY <1>4, <1>6, <1>7, Zenon DEF Total
<1> QED
  BY <1>5, <1>8

\* A sum depends only on the sizes of its own claims.
LEMMA TotalAgree ==
  ASSUME NEW S \in SUBSET Claims, NEW size1, NEW size2,
         \A c \in S : size1[c] = size2[c]
  PROVE  Total(S, size1) = Total(S, size2)
<1>1. ByteUnits(S, size1) = ByteUnits(S, size2)
  BY DEF ByteUnits
<1> QED
  BY <1>1 DEF Total

\* Taking one claim out of a sum takes its size out.
LEMMA TotalRemove ==
  ASSUME NEW S \in SUBSET Claims, NEW c \in S, NEW size, size[c] \in 0..MaxSize
  PROVE  Total(S, size) = Total(S \ {c}, size) + size[c]
<1>1. S = (S \ {c}) \cup {c} /\ (S \ {c}) \cap {c} = {}
  OBVIOUS
<1>2. Total(S, size) = Total(S \ {c}, size) + Total({c}, size)
  BY <1>1, TotalUnion
<1> QED
  BY <1>2, TotalSingle

-----------------------------------------------------------------------------
(* The room a live claim leaves to the others.                             *)

\* The live claims are finitely many and their ceilings form a size table.
LEMMA LiveFacts ==
  ASSUME TypeOK
  PROVE  /\ Live \in SUBSET Claims /\ IsFiniteSet(Live)
         /\ Cardinality(Live) \in Nat
         /\ \A c \in Claims : Ceiling[c] \in 0..MaxSize /\ Ceiling[c] = claim[c].ceiling
<1>1. Live \in SUBSET Claims
  BY DEF Live
<1>2. IsFiniteSet(Live)
  BY <1>1, ClaimsFinite, FS_Subset
<1>3. Cardinality(Live) \in Nat
  BY <1>2, FS_CardinalityType
<1>4. \A c \in Claims : Ceiling[c] \in 0..MaxSize /\ Ceiling[c] = claim[c].ceiling
  BY DEF TypeOK, Ceiling
<1> QED
  BY <1>1, <1>2, <1>3, <1>4

\* prepare_claim_bookkeeping never underflows: without a live claim the counters
\* are exactly what the other live claims protect.
LEMMA OtherRoom ==
  ASSUME TypeOK, CountersMatchClaims, NEW c \in Live
  PROVE  /\ OtherEvents \in Nat /\ OtherEvents = Cardinality(Live \ {c})
         /\ OtherBytes(c) \in Nat /\ OtherBytes(c) = Total(Live \ {c}, Ceiling)
         /\ reserved = OtherEvents + 1
         /\ reservedBytes = OtherBytes(c) + claim[c].ceiling
<1>1. Cardinality(Live \ {c}) = Cardinality(Live) - 1
  BY LiveFacts, FS_RemoveElement
<1>2. IsFiniteSet(Live \ {c})
  BY LiveFacts, FS_RemoveElement
<1>3. Cardinality(Live \ {c}) \in Nat
  BY <1>2, FS_CardinalityType
<1>4. Total(Live, Ceiling) = Total(Live \ {c}, Ceiling) + Ceiling[c]
  BY LiveFacts, TotalRemove
<1>5. Total(Live \ {c}, Ceiling) \in Nat
  BY LiveFacts, UnitsFinite
<1>6. c \in Claims /\ claim[c].ceiling \in Nat /\ Ceiling[c] = claim[c].ceiling
  BY LiveFacts, LimitsAreNats
<1>7. OtherEvents \in Nat /\ OtherEvents = Cardinality(Live \ {c}) /\ reserved = OtherEvents + 1
  BY <1>1, <1>3 DEF CountersMatchClaims, OtherEvents, TypeOK
<1>8. /\ OtherBytes(c) \in Nat /\ OtherBytes(c) = Total(Live \ {c}, Ceiling)
      /\ reservedBytes = OtherBytes(c) + claim[c].ceiling
  BY <1>4, <1>5, <1>6 DEF CountersMatchClaims, OtherBytes, TypeOK
<1> QED
  BY <1>7, <1>8

\* finish_claim_bookkeeping keeps the counters equal to the claims.
LEMMA FinishKeepsCounters ==
  ASSUME TypeOK, CountersMatchClaims, NEW c \in Live, FinishClaim(c)
  PROVE  CountersMatchClaims' /\ Live' = Live \ {c}
<1>1. Live' = Live \ {c}
  BY DEF Live, FinishClaim, Settled, TypeOK
<1>2. \A d \in Live \ {c} : Ceiling'[d] = Ceiling[d]
  BY DEF Live, FinishClaim, Ceiling, TypeOK
<1>3. Total(Live \ {c}, Ceiling') = Total(Live \ {c}, Ceiling)
  <2> DEFINE others == Live \ {c}
             after == Ceiling'
  <2>1. others \in SUBSET Claims
    BY DEF Live
  <2>2. \A d \in others : after[d] = Ceiling[d]
    BY <1>2
  <2> HIDE DEF others, after
  <2>3. Total(others, after) = Total(others, Ceiling)
    BY <2>1, <2>2, TotalAgree
  <2> QED
    BY <2>3 DEF others, after
<1>4. reserved' = Cardinality(Live \ {c}) /\ reservedBytes' = Total(Live \ {c}, Ceiling)
  BY OtherRoom DEF FinishClaim
<1> QED
  BY <1>1, <1>3, <1>4 DEF CountersMatchClaims

\* A step that keeps the live claims, their ceilings and the counters keeps the
\* counters equal to the claims.
LEMMA SameClaimsKeepCounters ==
  ASSUME CountersMatchClaims, UNCHANGED <<reserved, reservedBytes>>,
         Live' = Live, \A d \in Live : Ceiling'[d] = Ceiling[d]
  PROVE  CountersMatchClaims'
<1> DEFINE after == Ceiling'
<1>1. Live \in SUBSET Claims
  BY DEF Live
<1>2. \A d \in Live : after[d] = Ceiling[d]
  OBVIOUS
<1> HIDE DEF after
<1>3. Total(Live, after) = Total(Live, Ceiling)
  BY <1>1, <1>2, TotalAgree
<1> QED
  BY <1>3 DEF after, CountersMatchClaims

-----------------------------------------------------------------------------
(* Groups of actions that disturb the same conjuncts.                      *)

\* Steps that leave the ledger and the pending operation alone.
LEMMA QuietStep ==
  ASSUME LedgerInv, UNCHANGED <<ledgerVars, op>>, TypeOK'
  PROVE  LedgerInv'
<1>1. Live' = Live /\ Ceiling' = Ceiling
  BY DEF ledgerVars, Live, Ceiling
<1>2. CountersMatchClaims' /\ CapacityHeld' /\ FallbackWithinCeiling'
  BY <1>1 DEF LedgerInv, ledgerVars, CountersMatchClaims, CapacityHeld,
              FallbackWithinCeiling
<1>3. OnlyDurableWaits' /\ OnePendingClaim' /\ PendingClaimResumable'
  BY DEF LedgerInv, ledgerVars, OnlyDurableWaits, OnePendingClaim,
         PendingClaimResumable, OtherEvents, OtherBytes, Fits
<1>4. PendingAppendInvadesNoClaim'
  BY DEF LedgerInv, ledgerVars, PendingAppendInvadesNoClaim
<1> QED
  BY <1>2, <1>3, <1>4 DEF LedgerInv

\* Without a pending operation no claim is pending, and conversely.
LEMMA NothingPending ==
  ASSUME LedgerInv, op = NoOp
  PROVE  \A c \in Live : claim[c].state = "ready"
<1>1. op.claim = NoClaim
  BY DEF NoOp
<1>2. \A c \in Claims : c # NoClaim
  BY NoClaimIsFresh DEF NoClaim
<1> QED
  BY <1>1, <1>2 DEF LedgerInv, OnePendingClaim, Live, TypeOK, ClaimStates

\* Installing an operation that belongs to no claim.
LEMMA InstallFree ==
  ASSUME LedgerInv, Durable, op = NoOp, UNCHANGED ledgerVars, TypeOK',
         op'.claim = NoClaim, op'.protectedEvents = reserved,
         op'.protectedBytes = reservedBytes
  PROVE  LedgerInv'
<1>1. Live' = Live /\ Ceiling' = Ceiling
  BY DEF ledgerVars, Live, Ceiling
<1>2. CountersMatchClaims' /\ CapacityHeld' /\ FallbackWithinCeiling'
  BY <1>1 DEF LedgerInv, ledgerVars, CountersMatchClaims, CapacityHeld,
              FallbackWithinCeiling
<1>3. \A c \in Claims : c # NoClaim
  BY NoClaimIsFresh DEF NoClaim
<1>4. OnePendingClaim' /\ PendingClaimResumable'
  BY <1>3, NothingPending
     DEF LedgerInv, ledgerVars, OnePendingClaim, PendingClaimResumable, NoOp
<1>5. PendingAppendInvadesNoClaim'
  BY DEF ledgerVars, PendingAppendInvadesNoClaim, TypeOK
<1> QED
  BY <1>2, <1>4, <1>5 DEF LedgerInv, OnlyDurableWaits

\* Installing an operation for a ready claim that fits next to the others.
LEMMA InstallClaim ==
  ASSUME LedgerInv, Durable, op = NoOp, TypeOK',
         NEW c \in Live, NEW waiting \in {"pendingFallback", "pendingPreferred"},
         UNCHANGED <<events, bytes, reserved, reservedBytes>>,
         claim' = [claim EXCEPT ![c].state = waiting],
         op'.claim = c, op'.protectedEvents = OtherEvents,
         op'.protectedBytes = OtherBytes(c),
         Fits(op'.size, OtherEvents, OtherBytes(c))
  PROVE  LedgerInv'
<1>0. c \in Claims /\ TypeOK /\ CountersMatchClaims
  BY DEF Live, LedgerInv
<1>1. Live' = Live
  BY <1>0 DEF Live, TypeOK
<1>2. \A d \in Claims : /\ claim'[d].ceiling = claim[d].ceiling
                        /\ claim'[d].fallback = claim[d].fallback
                        /\ d # c => claim'[d].state = claim[d].state
  BY <1>0 DEF TypeOK
<1>3. Ceiling' = Ceiling
  BY <1>2 DEF Ceiling
<1>4. CountersMatchClaims'
  BY <1>0, <1>1, <1>3 DEF CountersMatchClaims
<1>5. CapacityHeld' /\ FallbackWithinCeiling'
  BY <1>1, <1>2 DEF LedgerInv, CapacityHeld, FallbackWithinCeiling, Live
<1>6. claim'[c].state = waiting
  BY <1>0 DEF TypeOK
<1>7. OnePendingClaim'
  BY <1>2, <1>6, NothingPending DEF OnePendingClaim, Live
<1>8. PendingClaimResumable'
  BY <1>0, <1>2, <1>6 DEF PendingClaimResumable, OtherEvents, OtherBytes, Fits
<1>9. PendingAppendInvadesNoClaim'
  BY <1>0 DEF PendingAppendInvadesNoClaim
<1> QED
  BY <1>4, <1>5, <1>7, <1>8, <1>9 DEF LedgerInv, OnlyDurableWaits

\* A live claim is settled: its operation, if any, is over, and what was
\* committed for it fitted next to what the other claims protect.
LEMMA SettleClaim ==
  ASSUME LedgerInv, TypeOK', NEW c \in Live, FinishClaim(c), op' = NoOp,
         op = NoOp \/ op.claim = c,
         events' + OtherEvents <= MaxEvents, bytes' + OtherBytes(c) <= MaxBytes
  PROVE  LedgerInv'
<1>0. c \in Claims /\ TypeOK /\ CountersMatchClaims
  BY DEF Live, LedgerInv
<1>1. CountersMatchClaims' /\ Live' = Live \ {c}
  BY <1>0, FinishKeepsCounters
<1>2. CapacityHeld'
  BY DEF CapacityHeld, FinishClaim
<1>3. \A d \in Claims \ {c} : claim'[d] = claim[d]
  BY <1>0 DEF FinishClaim, TypeOK
<1>4. claim'[c] = Settled
  BY <1>0 DEF FinishClaim, TypeOK
<1>5. FallbackWithinCeiling'
  BY <1>1, <1>3 DEF LedgerInv, FallbackWithinCeiling, Live
<1>6. op'.claim = NoClaim /\ \A d \in Claims : d # NoClaim
  BY NoClaimIsFresh DEF NoClaim, NoOp
<1>7. \A d \in Claims \ {c} : claim[d].state \notin {"pendingFallback", "pendingPreferred"}
  <2>1. CASE op = NoOp
    BY <2>1, <1>6 DEF LedgerInv, OnePendingClaim, NoOp
  <2>2. CASE op.claim = c
    BY <2>2 DEF LedgerInv, OnePendingClaim
  <2> QED
    BY <2>1, <2>2
<1>8. OnePendingClaim' /\ PendingClaimResumable'
  BY <1>3, <1>4, <1>6, <1>7 DEF OnePendingClaim, PendingClaimResumable, Settled
<1> QED
  BY <1>1, <1>2, <1>5, <1>8 DEF LedgerInv, OnlyDurableWaits, PendingAppendInvadesNoClaim

-----------------------------------------------------------------------------
(* Type correctness.  It rests on the counters: without OtherRoom nothing   *)
(* says that taking a claim out of them leaves natural numbers.            *)

\* Closing the attempt keeps its record well formed.
LEMMA CloseKeepsAttempt ==
  ASSUME TypeOK, attempt' = [attempt EXCEPT !.phase = "closed", !.seq = events + 1]
  PROVE  attempt' \in [phase : {"none", "open", "closed"}, seq : Nat,
                      barriered : BOOLEAN, held : BOOLEAN]
<1>1. events + 1 \in Nat
  BY DEF TypeOK
<1>2. attempt.barriered \in BOOLEAN /\ attempt.held \in BOOLEAN
  BY DEF TypeOK
<1>3. attempt' = [phase |-> "closed", seq |-> events + 1,
                 barriered |-> attempt.barriered, held |-> attempt.held]
  BY DEF TypeOK
<1> QED
  BY <1>1, <1>2, <1>3

\* Every step keeps the types.
LEMMA TypeStep ==
  ASSUME LedgerInv, Next
  PROVE  TypeOK'
<1> USE LimitsAreNats
<1>0. TypeOK /\ CountersMatchClaims
  BY DEF LedgerInv
<1>r. \A c \in Live : /\ OtherEvents \in Nat /\ OtherBytes(c) \in Nat
  BY <1>0, OtherRoom
<1>1. ASSUME OpenReservation
       PROVE TypeOK'
  BY <1>0, <1>1 DEF TypeOK, OpenReservation, ledgerVars, storeVars, NoAttempt
<1>2. ASSUME Materialize PROVE TypeOK'
  BY <1>0, <1>2 DEF TypeOK, Materialize, ledgerVars, storeVars, NoAttempt
<1>3. ASSUME StageBatch PROVE TypeOK'
  BY <1>0, <1>3 DEF TypeOK, StageBatch, ledgerVars, storeVars, NoAttempt
<1>4. ASSUME AcknowledgeBatch PROVE TypeOK'
  BY <1>0, <1>4 DEF TypeOK, AcknowledgeBatch, ledgerVars, storeVars, NoAttempt
<1>5. ASSUME FailWriter PROVE TypeOK'
  BY <1>0, <1>5 DEF TypeOK, FailWriter, ledgerVars, storeVars, NoAttempt
<1>6. ASSUME Barrier PROVE TypeOK'
  BY <1>0, <1>6 DEF TypeOK, Barrier, ledgerVars, storeVars, NoAttempt
<1>7. ASSUME BeginAttempt PROVE TypeOK'
  BY <1>0, <1>7 DEF TypeOK, BeginAttempt, ledgerVars, storeVars, NoAttempt
<1>8. ASSUME RetireAttempt PROVE TypeOK'
  BY <1>0, <1>8 DEF TypeOK, RetireAttempt, ledgerVars, storeVars, NoAttempt
<1>9. ASSUME BeginShutdown PROVE TypeOK'
  BY <1>0, <1>9 DEF TypeOK, BeginShutdown, ledgerVars, storeVars, NoAttempt
<1>10. ASSUME FinishShutdown PROVE TypeOK'
  BY <1>0, <1>10 DEF TypeOK, FinishShutdown, ledgerVars, storeVars, NoAttempt
<1>11. ASSUME DropReservation PROVE TypeOK'
  <2>1. claim' \in [Claims -> [state : ClaimStates, fallback : 0..MaxSize,
                             ceiling : 0..MaxSize]]
    BY <1>11 DEF DropReservation, Settled, ClaimStates
  <2>2. op' \in [kind : ClaimKinds \cup FreeKinds \cup {"none"},
               claim : Claims \cup {NoClaim}, size : 0..MaxSize,
               protectedEvents : Nat, protectedBytes : Nat]
    BY <1>0, <1>11 DEF DropReservation, TypeOK
  <2>3. attempt' \in [phase : {"none", "open", "closed"}, seq : Nat,
                    barriered : BOOLEAN, held : BOOLEAN]
    BY <1>0, <1>11 DEF DropReservation, TypeOK
  <2> QED
    BY <1>0, <1>11, <2>1, <2>2, <2>3 DEF TypeOK, DropReservation, storeVars
<1>12. ASSUME NEW S \in SUBSET Claims, NEW size \in [S -> Sizes], ClaimBatch(S, size) PROVE TypeOK'
  <2>1. IsFiniteSet(S) /\ Cardinality(S) \in Nat
    BY ClaimsFinite, FS_Subset, FS_CardinalityType
  <2>2. Total(S, size) \in Nat
    BY UnitsFinite
  <2>3. claim' \in [Claims -> [state : ClaimStates, fallback : 0..MaxSize,
                             ceiling : 0..MaxSize]]
    BY <1>0, <1>12 DEF TypeOK, ClaimBatch, ClaimStates, Sizes
  <2> QED
    BY <1>0, <1>12, <2>1, <2>2, <2>3 DEF TypeOK, ClaimBatch, storeVars
<1>13. ASSUME NEW c \in Claims, NEW n \in Sizes, ReserveMoreBytes(c, n) PROVE TypeOK'
  BY <1>0, <1>r, <1>13 DEF TypeOK, ReserveMoreBytes, Live, storeVars, Sizes
<1>14. ASSUME NEW c \in Claims, NEW n \in Sizes, RebindFallback(c, n) PROVE TypeOK'
  BY <1>0, <1>14 DEF TypeOK, RebindFallback, storeVars, Sizes
<1>15. ASSUME NEW c \in Claims, Release(c) PROVE TypeOK'
  BY <1>0, <1>r, <1>15 DEF TypeOK, Release, FinishClaim, Settled, ClaimStates, Live, storeVars
<1>16. ASSUME NEW n \in Sizes, MemoryAppend(n) PROVE TypeOK'
  BY <1>0, <1>16 DEF TypeOK, MemoryAppend, MemoryCommit, storeVars, Sizes
<1>17. ASSUME NEW c \in Claims, NEW n \in Sizes, MemorySettle(c, n) PROVE TypeOK'
  BY <1>0, <1>r, <1>17 DEF TypeOK, MemorySettle, MemoryCommit, Sizes, FinishClaim, Settled, ClaimStates, Live, storeVars
<1>18. ASSUME NEW c \in Claims, NEW n \in Sizes, MemorySettleWithin(c, n) PROVE TypeOK'
  BY <1>0, <1>r, <1>18 DEF TypeOK, MemorySettleWithin, MemoryCommit, Sizes, FinishClaim, Settled, ClaimStates, Live, storeVars
<1>19. ASSUME NEW n \in Sizes, MemoryClose(n) PROVE TypeOK'
  <2>1. attempt' \in [phase : {"none", "open", "closed"}, seq : Nat,
                    barriered : BOOLEAN, held : BOOLEAN]
    BY <1>0, <1>19, CloseKeepsAttempt DEF MemoryClose
  <2> QED
    BY <1>0, <1>19, <2>1 DEF TypeOK, MemoryClose, MemoryCommit, storeVars, Sizes
<1>20. ASSUME NEW c \in Claims, MemoryStepEnd(c) PROVE TypeOK'
  <2>1. attempt' \in [phase : {"none", "open", "closed"}, seq : Nat,
                    barriered : BOOLEAN, held : BOOLEAN]
    BY <1>0, <1>20, CloseKeepsAttempt DEF MemoryStepEnd
  <2>2. claim' \in [Claims -> [state : ClaimStates, fallback : 0..MaxSize,
                             ceiling : 0..MaxSize]]
    BY <1>0, <1>20 DEF TypeOK, MemoryStepEnd, FinishClaim, Settled, ClaimStates
  <2>3. c \in Live /\ claim[c].fallback \in Nat
    BY <1>0, <1>20 DEF TypeOK, MemoryStepEnd, Live
  <2>4. /\ events' \in Nat /\ bytes' \in Nat
        /\ reserved' \in Nat /\ reservedBytes' \in Nat
    BY <1>0, <1>r, <1>20, <2>3 DEF TypeOK, MemoryStepEnd, MemoryCommit, FinishClaim
  <2> QED
    BY <1>0, <1>20, <2>1, <2>2, <2>4 DEF TypeOK, MemoryStepEnd, MemoryCommit, storeVars
<1>21. ASSUME NEW kind \in FreeKinds, NEW n \in Sizes, BeginAppend(kind, n) PROVE TypeOK'
  BY <1>0, <1>21 DEF TypeOK, BeginAppend, Install, ledgerVars, storeVars, Sizes
<1>22. ASSUME NEW c \in Claims, NEW n \in Sizes, BeginSettle(c, n) PROVE TypeOK'
  BY <1>0, <1>r, <1>22 DEF TypeOK, BeginSettle, Install, Live, ClaimStates, ClaimKinds, storeVars, Sizes
<1>23. ASSUME NEW c \in Claims, NEW kind \in {"exact", "stepEnd"}, BeginSettleExact(c, kind) PROVE TypeOK'
  BY <1>0, <1>r, <1>23 DEF TypeOK, BeginSettleExact, Install, Live, ClaimStates, ClaimKinds, storeVars, Sizes
<1>24. ASSUME NEW c \in Claims, NEW n \in Sizes, BeginPreferredOnly(c, n) PROVE TypeOK'
  BY <1>0, <1>r, <1>24 DEF TypeOK, BeginPreferredOnly, Install, Live, ClaimStates, ClaimKinds, storeVars, Sizes
<1>25. ASSUME NEW n \in Sizes, CommitOperation(n) PROVE TypeOK'
  <2>1. op.claim \in Claims => op.claim \in Live
    BY <1>0 DEF LedgerInv, OnePendingClaim, Live
  <2>2. reserved' \in Nat /\ reservedBytes' \in Nat
    BY <1>0, <1>r, <1>25, <2>1 DEF CommitOperation, FinishOwner, FinishClaim, TypeOK
  <2>3. claim' \in [Claims -> [state : ClaimStates, fallback : 0..MaxSize,
                             ceiling : 0..MaxSize]]
    BY <1>0, <1>25 DEF TypeOK, CommitOperation, FinishOwner, FinishClaim, Settled, ClaimStates
  <2>4. attempt' \in [phase : {"none", "open", "closed"}, seq : Nat,
                    barriered : BOOLEAN, held : BOOLEAN]
    <3>1. CASE ClosesAttempt
      BY <1>0, <1>25, <3>1, CloseKeepsAttempt DEF CommitOperation
    <3>2. CASE ~ClosesAttempt
      BY <1>0, <1>25, <3>2 DEF CommitOperation, TypeOK
    <3> QED
      BY <3>1, <3>2
  <2>5. op' \in [kind : ClaimKinds \cup FreeKinds \cup {"none"},
               claim : Claims \cup {NoClaim}, size : 0..MaxSize,
               protectedEvents : Nat, protectedBytes : Nat]
        /\ events' \in Nat /\ bytes' \in Nat
    BY <1>0, <1>25 DEF CommitOperation, TypeOK, NoOp, Sizes
  <2> QED
    BY <1>0, <1>25, <2>2, <2>3, <2>4, <2>5 DEF TypeOK, CommitOperation
<1>26. ASSUME PoisonInCommit PROVE TypeOK'
  <2>1. op.claim \in Claims => op.claim \in Live
    BY <1>0 DEF LedgerInv, OnePendingClaim, Live
  <2>2. reserved' \in Nat /\ reservedBytes' \in Nat
    BY <1>0, <1>r, <1>26, <2>1 DEF PoisonInCommit, FinishOwner, FinishClaim, TypeOK
  <2>3. claim' \in [Claims -> [state : ClaimStates, fallback : 0..MaxSize,
                             ceiling : 0..MaxSize]]
    BY <1>0, <1>26 DEF TypeOK, PoisonInCommit, FinishOwner, FinishClaim, Settled, ClaimStates
  <2> QED
    BY <1>0, <1>26, <2>2, <2>3 DEF TypeOK, PoisonInCommit, Sizes, NoOp
<1>27. ASSUME NEW b \in BOOLEAN, RejectOperation(b) PROVE TypeOK'
  BY <1>0, <1>27 DEF TypeOK, RejectOperation, NoOp, ClaimStates
<1> QED
  BY <1>1, <1>2, <1>3, <1>4, <1>5, <1>6, <1>7, <1>8, <1>9, <1>10, <1>11, <1>12, <1>13, <1>14, <1>15, <1>16, <1>17, <1>18, <1>19, <1>20, <1>21, <1>22, <1>23, <1>24, <1>25, <1>26, <1>27 DEF Next

-----------------------------------------------------------------------------
(* The actions that reshape the ledger.                                    *)

\* Committing an event of no claim, checked against everything claims protect.
LEMMA CommitFree ==
  ASSUME LedgerInv, TypeOK', UNCHANGED <<reserved, reservedBytes, claim>>,
         op' = NoOp, op.claim \notin Claims,
         events' + reserved <= MaxEvents, bytes' + reservedBytes <= MaxBytes
  PROVE  LedgerInv'
<1>1. Live' = Live /\ Ceiling' = Ceiling
  BY DEF Live, Ceiling
<1>2. CountersMatchClaims' /\ CapacityHeld' /\ FallbackWithinCeiling'
  BY <1>1 DEF LedgerInv, CountersMatchClaims, CapacityHeld, FallbackWithinCeiling
<1>3. op'.claim = NoClaim /\ \A d \in Claims : d # NoClaim
  BY NoClaimIsFresh DEF NoClaim, NoOp
<1>4. OnePendingClaim' /\ PendingClaimResumable'
  BY <1>3 DEF LedgerInv, OnePendingClaim, PendingClaimResumable
<1> QED
  BY <1>2, <1>4 DEF LedgerInv, OnlyDurableWaits, PendingAppendInvadesNoClaim

\* A reservation that goes away protects nothing.
LEMMA DropStep ==
  ASSUME LedgerInv, TypeOK', DropReservation
  PROVE  LedgerInv'
<1>1. Live' = {}
  BY DEF DropReservation, Live, Settled
<1>2. Total({}, Ceiling') = 0 /\ Cardinality({}) = 0
  <2>1. \A size : ByteUnits({}, size) = {}
    BY DEF ByteUnits
  <2> QED
    BY <2>1, FS_EmptySet DEF Total
<1>3. CountersMatchClaims'
  BY <1>1, <1>2 DEF CountersMatchClaims, DropReservation
<1>4. CapacityHeld'
  BY LimitsAreNats DEF LedgerInv, CapacityHeld, DropReservation, TypeOK
<1>5. op'.claim = NoClaim /\ \A d \in Claims : d # NoClaim
  BY NoClaimIsFresh DEF NoClaim, DropReservation, LedgerInv, TypeOK
<1>6. OnePendingClaim' /\ PendingClaimResumable'
  BY <1>5 DEF OnePendingClaim, PendingClaimResumable, DropReservation, Settled
<1>7. OnlyDurableWaits'
  <2>1. CASE op = NoOp
    <3>1. op' = NoOp
      BY <2>1 DEF DropReservation, NoOp
    <3> QED
      BY <3>1 DEF OnlyDurableWaits
  <2>2. CASE op # NoOp
    BY <2>2 DEF LedgerInv, OnlyDurableWaits
  <2> QED
    BY <2>1, <2>2
<1>8. FallbackWithinCeiling'
  BY <1>1 DEF FallbackWithinCeiling
<1>9. PendingAppendInvadesNoClaim'
  <2>1. op'.protectedEvents \in Nat /\ op'.protectedBytes \in Nat
    BY DEF TypeOK
  <2> QED
    BY <2>1 DEF DropReservation, PendingAppendInvadesNoClaim
<1> QED
  BY <1>3, <1>4, <1>6, <1>7, <1>8, <1>9 DEF LedgerInv

\* claim_batch protects exactly what its claims ask for.
LEMMA ClaimBatchStep ==
  ASSUME LedgerInv, TypeOK', NEW S \in SUBSET Claims, NEW size \in [S -> Sizes],
         ClaimBatch(S, size)
  PROVE  LedgerInv'
<1> DEFINE after == Ceiling'
           live == Live
<1>0. TypeOK /\ CountersMatchClaims /\ live \in SUBSET Claims /\ S \cap live = {}
  BY DEF LedgerInv, ClaimBatch, Live
<1>1. Live' = live \cup S
  BY DEF ClaimBatch, Live
<1>2. /\ \A c \in S : after[c] = size[c]
      /\ \A c \in live : after[c] = Ceiling[c]
  BY <1>0 DEF ClaimBatch, Ceiling
<1>3. Total(live \cup S, after) = Total(live, Ceiling) + Total(S, size)
  <2> HIDE DEF after, live
  <2>1. Total(live \cup S, after) = Total(live, after) + Total(S, after)
    BY <1>0, TotalUnion
  <2>2. Total(live, after) = Total(live, Ceiling)
    BY <1>0, <1>2, TotalAgree
  <2>3. Total(S, after) = Total(S, size)
    BY <1>2, TotalAgree
  <2> QED
    BY <2>1, <2>2, <2>3
<1>4. Cardinality(live \cup S) = Cardinality(live) + Cardinality(S)
  <2>1. IsFiniteSet(live) /\ IsFiniteSet(S)
    BY ClaimsFinite, FS_Subset, <1>0
  <2>2. Cardinality(live) \in Nat /\ Cardinality(S) \in Nat
    BY <2>1, FS_CardinalityType
  <2>3. Cardinality(live \cap S) = 0
    BY <1>0, FS_EmptySet
  <2> HIDE DEF live
  <2>4. Cardinality(live \cup S) = Cardinality(live) + Cardinality(S) - Cardinality(live \cap S)
    BY <2>1, FS_Union, Zenon
  <2> QED
    BY <2>2, <2>3, <2>4
<1>5. CountersMatchClaims'
  BY <1>0, <1>1, <1>3, <1>4 DEF CountersMatchClaims, ClaimBatch
<1>6. Total(S, size) \in Nat /\ Cardinality(S) \in Nat
  BY UnitsFinite, ClaimsFinite, FS_Subset, FS_CardinalityType
<1>7. CapacityHeld'
  BY <1>0, <1>6 DEF CapacityHeld, ClaimBatch, TypeOK
<1>8. FallbackWithinCeiling'
  <2>1. \A c \in S : claim'[c].fallback <= claim'[c].ceiling
    BY LimitsAreNats DEF ClaimBatch, Sizes
  <2>2. \A c \in live : claim'[c].fallback <= claim'[c].ceiling
    BY <1>0 DEF ClaimBatch, LedgerInv, FallbackWithinCeiling
  <2> QED
    BY <1>1, <2>1, <2>2 DEF FallbackWithinCeiling
<1>9. op' = op /\ op = NoOp
  BY DEF ClaimBatch, Idle
<1>10. op'.claim = NoClaim /\ \A d \in Claims : d # NoClaim
  BY <1>9, NoClaimIsFresh DEF NoClaim, NoOp
<1>11. OnePendingClaim' /\ PendingClaimResumable'
  BY <1>9, <1>10, NothingPending
     DEF OnePendingClaim, PendingClaimResumable, ClaimBatch, LedgerInv, Live
<1> QED
  BY <1>5, <1>7, <1>8, <1>9, <1>11 DEF LedgerInv, OnlyDurableWaits,
                    PendingAppendInvadesNoClaim

\* reserve_claim_retained_json_bytes moves one ceiling and the byte counter.
LEMMA ReserveStep ==
  ASSUME LedgerInv, TypeOK', NEW c \in Claims, NEW n \in Sizes,
         ReserveMoreBytes(c, n)
  PROVE  LedgerInv'
<1> DEFINE after == Ceiling'
           rest == Live \ {c}
<1>0. TypeOK /\ CountersMatchClaims /\ c \in Live /\ n \in 0..MaxSize /\ n \in Nat
  BY LimitsAreNats DEF LedgerInv, ReserveMoreBytes, Live, Sizes
<1>1. Live' = Live
  BY <1>0 DEF ReserveMoreBytes, Live, TypeOK
<1>2. after[c] = n /\ \A d \in rest : after[d] = Ceiling[d]
  BY <1>0 DEF ReserveMoreBytes, Ceiling, TypeOK, Live
<1>3. Total(Live, after) = Total(rest, Ceiling) + n
  <2>1. Live \in SUBSET Claims /\ rest \in SUBSET Claims
    BY DEF Live
  <2> HIDE DEF after
  <2>2. Total(Live, after) = Total(rest, after) + after[c]
    BY <1>0, <1>2, <2>1, TotalRemove
  <2> HIDE DEF rest
  <2>3. Total(rest, after) = Total(rest, Ceiling)
    BY <1>2, <2>1, TotalAgree
  <2> QED
    BY <1>2, <2>2, <2>3
<1>4. CountersMatchClaims'
  BY <1>0, <1>1, <1>3, OtherRoom DEF CountersMatchClaims, ReserveMoreBytes
<1>5. CapacityHeld'
  <2>1. OtherBytes(c) \in Nat
    BY <1>0, OtherRoom
  <2> QED
    BY <1>0, <2>1, LimitsAreNats DEF LedgerInv, CapacityHeld, ReserveMoreBytes, TypeOK
<1>6. FallbackWithinCeiling'
  BY <1>0, <1>1 DEF LedgerInv, FallbackWithinCeiling, ReserveMoreBytes, TypeOK, Live
<1>7. op' = op /\ op = NoOp
  BY DEF ReserveMoreBytes, Idle
<1>8. op'.claim = NoClaim /\ \A d \in Claims : d # NoClaim
  BY <1>7, NoClaimIsFresh DEF NoClaim, NoOp
<1>9. OnePendingClaim' /\ PendingClaimResumable'
  BY <1>0, <1>7, <1>8, NothingPending
     DEF OnePendingClaim, PendingClaimResumable, ReserveMoreBytes, LedgerInv, TypeOK, Live
<1> QED
  BY <1>4, <1>5, <1>6, <1>7, <1>9 DEF LedgerInv, OnlyDurableWaits,
                    PendingAppendInvadesNoClaim

\* rebind_claim_fallback stays within the ceiling, so the ledger stands.
LEMMA RebindStep ==
  ASSUME LedgerInv, TypeOK', NEW c \in Claims, NEW n \in Sizes,
         RebindFallback(c, n)
  PROVE  LedgerInv'
<1>0. TypeOK /\ CountersMatchClaims /\ c \in Live
  BY DEF LedgerInv, RebindFallback, Live
<1>1. \A d \in Claims : /\ claim'[d].ceiling = claim[d].ceiling
                        /\ claim'[d].state = claim[d].state
                        /\ d # c => claim'[d].fallback = claim[d].fallback
  BY <1>0 DEF RebindFallback, TypeOK
<1>2. claim'[c].fallback = n /\ n <= claim[c].ceiling
  BY <1>0 DEF RebindFallback, TypeOK, Live
<1>3. Live' = Live /\ Ceiling' = Ceiling
  <2>1. Live' = Live
    BY <1>1 DEF Live
  <2>2. Ceiling' = Ceiling
    BY <1>1 DEF Ceiling
  <2> QED
    BY <2>1, <2>2
<1>4. CountersMatchClaims' /\ CapacityHeld'
  BY <1>3 DEF LedgerInv, CountersMatchClaims, CapacityHeld, RebindFallback
<1>5. FallbackWithinCeiling'
  <2>1. ASSUME NEW d \in Live PROVE claim'[d].fallback <= claim'[d].ceiling
    <3>1. d \in Claims
      BY DEF Live
    <3>2. CASE d = c
      BY <1>1, <1>2, <3>1, <3>2
    <3>3. CASE d # c
      BY <1>1, <3>1, <3>3 DEF LedgerInv, FallbackWithinCeiling
    <3> QED
      BY <3>2, <3>3
  <2> QED
    BY <1>3, <2>1 DEF FallbackWithinCeiling
<1>6. op' = op /\ op = NoOp /\ op.claim = NoClaim /\ \A d \in Claims : d # NoClaim
  BY NoClaimIsFresh DEF RebindFallback, Idle, NoClaim, NoOp
<1>7. OnePendingClaim'
  BY <1>1, <1>6 DEF OnePendingClaim, LedgerInv
<1>8. PendingClaimResumable'
  BY <1>6 DEF PendingClaimResumable
<1> QED
  BY <1>4, <1>5, <1>6, <1>7, <1>8 DEF LedgerInv, OnlyDurableWaits,
                    PendingAppendInvadesNoClaim

\* A rejected candidate goes back to its claim, or stays where it is.
LEMMA RejectStep ==
  ASSUME LedgerInv, TypeOK', NEW b \in BOOLEAN, RejectOperation(b)
  PROVE  LedgerInv'
<1>0. TypeOK
  BY DEF LedgerInv
<1>1. CASE UNCHANGED <<claim, op>>
  BY <1>1, QuietStep DEF RejectOperation, ledgerVars
<1>2. CASE /\ op' = NoOp
           /\ claim' = IF op.claim \in Claims
                       THEN [claim EXCEPT ![op.claim].state = "ready"] ELSE claim
  <2>1. \A d \in Claims : /\ claim'[d].ceiling = claim[d].ceiling
                          /\ claim'[d].fallback = claim[d].fallback
                          /\ d # op.claim => claim'[d].state = claim[d].state
                          /\ d = op.claim => claim'[d].state = "ready"
    BY <1>0, <1>2 DEF TypeOK
  <2>2. Live' = Live /\ Ceiling' = Ceiling
    <3>1. Live' = Live
      BY <2>1 DEF Live, LedgerInv, OnePendingClaim
    <3>2. Ceiling' = Ceiling
      BY <2>1 DEF Ceiling
    <3> QED
      BY <3>1, <3>2
  <2>3. CountersMatchClaims' /\ CapacityHeld'
    BY <2>2 DEF LedgerInv, CountersMatchClaims, CapacityHeld, RejectOperation
  <2>4. FallbackWithinCeiling'
    <3>1. ASSUME NEW d \in Live PROVE claim'[d].fallback <= claim'[d].ceiling
      BY <2>1 DEF LedgerInv, FallbackWithinCeiling, Live
    <3> QED
      BY <2>2, <3>1 DEF FallbackWithinCeiling
  <2>5. op'.claim = NoClaim /\ \A d \in Claims : d # NoClaim
    BY <1>2, NoClaimIsFresh DEF NoClaim, NoOp
  <2>6. OnePendingClaim'
    BY <2>1, <2>5 DEF OnePendingClaim, LedgerInv
  <2>7. PendingClaimResumable'
    BY <2>5 DEF PendingClaimResumable
  <2> QED
    BY <1>2, <2>3, <2>4, <2>6, <2>7 DEF LedgerInv, OnlyDurableWaits,
                    PendingAppendInvadesNoClaim
<1> QED
  BY <1>1, <1>2 DEF RejectOperation

-----------------------------------------------------------------------------
(* The ledger invariant holds in every behaviour.                          *)

\* Nothing is claimed, committed or pending initially.
LEMMA LedgerInit ==
  Init => LedgerInv
<1> SUFFICES ASSUME Init PROVE LedgerInv
  OBVIOUS
<1>1. TypeOK
  <2>1. claim \in [Claims -> [state : ClaimStates, fallback : 0..MaxSize,
                            ceiling : 0..MaxSize]]
    BY LimitsAreNats DEF Init, Settled, ClaimStates
  <2>2. NoOp \in [kind : ClaimKinds \cup FreeKinds \cup {"none"},
                 claim : Claims \cup {NoClaim}, size : 0..MaxSize,
                 protectedEvents : Nat, protectedBytes : Nat]
    BY LimitsAreNats DEF NoOp
  <2>3. storage \in {"deferred", "memory"}
    BY DurableIsBool DEF Init
  <2> QED
    BY <2>1, <2>2, <2>3 DEF Init, TypeOK, NoAttempt
<1>2. Live = {}
  BY DEF Init, Live, Settled
<1>3. Total({}, Ceiling) = 0 /\ Cardinality({}) = 0
  <2>1. ByteUnits({}, Ceiling) = {}
    BY DEF ByteUnits
  <2> QED
    BY <2>1, FS_EmptySet DEF Total
<1>4. CountersMatchClaims /\ CapacityHeld /\ FallbackWithinCeiling
  BY <1>2, <1>3, LimitsAreNats
     DEF Init, CountersMatchClaims, CapacityHeld, FallbackWithinCeiling
<1>5. op.claim = NoClaim /\ \A d \in Claims : d # NoClaim
  BY NoClaimIsFresh DEF Init, NoClaim, NoOp
<1>6. /\ OnlyDurableWaits /\ OnePendingClaim /\ PendingClaimResumable
      /\ PendingAppendInvadesNoClaim
  BY <1>5 DEF Init, OnlyDurableWaits, OnePendingClaim, PendingClaimResumable,
              PendingAppendInvadesNoClaim, Settled
<1> QED
  BY <1>1, <1>4, <1>6 DEF LedgerInv

\* Every step keeps the invariant: one step of the proof per action.
LEMMA LedgerStep ==
  ASSUME LedgerInv, [Next]_vars
  PROVE  LedgerInv'
<1>1. CASE UNCHANGED vars
  <2>1. TypeOK'
    BY <1>1 DEF LedgerInv, TypeOK, vars
  <2> QED
    BY <1>1, <2>1, QuietStep DEF vars, ledgerVars
<1>2. CASE Next
<2> USE <1>2
<2>0. TypeOK' /\ TypeOK /\ CountersMatchClaims
  BY <1>2, TypeStep DEF LedgerInv
<2>r. \A c \in Live : /\ OtherEvents \in Nat /\ OtherBytes(c) \in Nat
                     /\ reserved = OtherEvents + 1
                     /\ reservedBytes = OtherBytes(c) + claim[c].ceiling
  BY <2>0, OtherRoom
<2>l. \A c \in Claims : claim[c].state = "ready" => c \in Live
  BY DEF Live
<2>n. \A d \in Claims : d # NoClaim
  BY NoClaimIsFresh DEF NoClaim
<2>1. ASSUME OpenReservation PROVE LedgerInv'
  BY <2>0, <2>1, QuietStep DEF OpenReservation, ledgerVars
<2>2. ASSUME Materialize PROVE LedgerInv'
  BY <2>0, <2>2, QuietStep DEF Materialize, ledgerVars
<2>3. ASSUME StageBatch PROVE LedgerInv'
  BY <2>0, <2>3, QuietStep DEF StageBatch, ledgerVars
<2>4. ASSUME AcknowledgeBatch PROVE LedgerInv'
  BY <2>0, <2>4, QuietStep DEF AcknowledgeBatch, ledgerVars
<2>5. ASSUME FailWriter PROVE LedgerInv'
  BY <2>0, <2>5, QuietStep DEF FailWriter, ledgerVars
<2>6. ASSUME Barrier PROVE LedgerInv'
  BY <2>0, <2>6, QuietStep DEF Barrier, ledgerVars
<2>7. ASSUME BeginAttempt PROVE LedgerInv'
  BY <2>0, <2>7, QuietStep DEF BeginAttempt, ledgerVars
<2>8. ASSUME RetireAttempt PROVE LedgerInv'
  BY <2>0, <2>8, QuietStep DEF RetireAttempt, ledgerVars
<2>9. ASSUME BeginShutdown PROVE LedgerInv'
  BY <2>0, <2>9, QuietStep DEF BeginShutdown, ledgerVars
<2>10. ASSUME FinishShutdown PROVE LedgerInv'
  BY <2>0, <2>10, QuietStep DEF FinishShutdown, ledgerVars
<2>11. ASSUME DropReservation PROVE LedgerInv'
  BY <2>0, <2>11, DropStep
<2>12. ASSUME NEW S \in SUBSET Claims, NEW size \in [S -> Sizes], ClaimBatch(S, size) PROVE LedgerInv'
  BY <2>0, <2>12, ClaimBatchStep
<2>13. ASSUME NEW c \in Claims, NEW n \in Sizes, ReserveMoreBytes(c, n) PROVE LedgerInv'
  BY <2>0, <2>13, ReserveStep
<2>14. ASSUME NEW c \in Claims, NEW n \in Sizes, RebindFallback(c, n) PROVE LedgerInv'
  BY <2>0, <2>14, RebindStep
<2>15. ASSUME NEW c \in Claims, Release(c) PROVE LedgerInv'
  <3>1. c \in Live
    BY <2>15, <2>l DEF Release
  <3>2. events' + OtherEvents <= MaxEvents /\ bytes' + OtherBytes(c) <= MaxBytes
    BY <2>0, <2>r, <2>15, <3>1, LimitsAreNats
       DEF Release, LedgerInv, CapacityHeld, TypeOK
  <3>3. op = NoOp /\ op' = NoOp
    BY <2>15 DEF Release, Idle
  <3> QED
    BY <2>0, <2>15, <3>1, <3>2, <3>3, SettleClaim DEF Release
<2>16. ASSUME NEW n \in Sizes, MemoryAppend(n) PROVE LedgerInv'
  <3>1. op = NoOp /\ op' = NoOp /\ op.claim \notin Claims
    BY <2>n, <2>16 DEF MemoryAppend, MemoryCommit, LedgerInv, OnlyDurableWaits, NoOp
  <3>2. events' + reserved <= MaxEvents /\ bytes' + reservedBytes <= MaxBytes
    BY <2>0, <2>16, LimitsAreNats DEF MemoryAppend, Fits, MemoryCommit, TypeOK, Sizes
  <3> QED
    BY <2>0, <2>16, <3>1, <3>2, CommitFree DEF MemoryAppend
<2>17. ASSUME NEW n \in Sizes, MemoryClose(n) PROVE LedgerInv'
  <3>1. op = NoOp /\ op' = NoOp /\ op.claim \notin Claims
    BY <2>n, <2>17 DEF MemoryClose, MemoryCommit, LedgerInv, OnlyDurableWaits, NoOp
  <3>2. events' + reserved <= MaxEvents /\ bytes' + reservedBytes <= MaxBytes
    BY <2>0, <2>17, LimitsAreNats DEF MemoryClose, Fits, MemoryCommit, TypeOK, Sizes
  <3> QED
    BY <2>0, <2>17, <3>1, <3>2, CommitFree DEF MemoryClose
<2>18. ASSUME NEW c \in Claims, NEW n \in Sizes, MemorySettle(c, n) PROVE LedgerInv'
  <3>1. c \in Live
    BY <2>18, <2>l DEF MemorySettle
  <3>2. events' + OtherEvents <= MaxEvents /\ bytes' + OtherBytes(c) <= MaxBytes
    BY <2>0, <2>r, <2>18, <3>1, LimitsAreNats
       DEF MemorySettle, Fits, MemoryCommit, TypeOK, Sizes
  <3>3. op = NoOp /\ op' = NoOp
    BY <2>18 DEF MemorySettle, MemoryCommit, LedgerInv, OnlyDurableWaits
  <3> QED
    BY <2>0, <2>18, <3>1, <3>2, <3>3, SettleClaim DEF MemorySettle
<2>19. ASSUME NEW c \in Claims, NEW n \in Sizes, MemorySettleWithin(c, n) PROVE LedgerInv'
  <3>1. c \in Live
    BY <2>19, <2>l DEF MemorySettleWithin
  <3>2. events' + OtherEvents <= MaxEvents /\ bytes' + OtherBytes(c) <= MaxBytes
    BY <2>0, <2>r, <2>19, <3>1, LimitsAreNats
       DEF MemorySettleWithin, Fits, MemoryCommit, TypeOK, Sizes
  <3>3. op = NoOp /\ op' = NoOp
    BY <2>19 DEF MemorySettleWithin, MemoryCommit, LedgerInv, OnlyDurableWaits
  <3> QED
    BY <2>0, <2>19, <3>1, <3>2, <3>3, SettleClaim DEF MemorySettleWithin
<2>20. ASSUME NEW c \in Claims, MemoryStepEnd(c) PROVE LedgerInv'
  <3>1. c \in Live
    BY <2>20, <2>l DEF MemoryStepEnd
  <3>2. events' + OtherEvents <= MaxEvents /\ bytes' + OtherBytes(c) <= MaxBytes
    BY <2>0, <2>r, <2>20, <3>1, LimitsAreNats
       DEF MemoryStepEnd, Fits, MemoryCommit, TypeOK, Sizes
  <3>3. op = NoOp /\ op' = NoOp
    BY <2>20 DEF MemoryStepEnd, MemoryCommit, LedgerInv, OnlyDurableWaits
  <3> QED
    BY <2>0, <2>20, <3>1, <3>2, <3>3, SettleClaim DEF MemoryStepEnd
<2>21. ASSUME NEW kind \in FreeKinds, NEW n \in Sizes, BeginAppend(kind, n) PROVE LedgerInv'
  <3>1. /\ op'.claim = NoClaim /\ op'.protectedEvents = reserved
        /\ op'.protectedBytes = reservedBytes
    BY <2>21 DEF BeginAppend, Install
  <3> QED
    BY <2>0, <2>21, <3>1, InstallFree DEF BeginAppend, Idle
<2>22. ASSUME NEW c \in Claims, NEW n \in Sizes, BeginSettle(c, n) PROVE LedgerInv'
  <3>1. c \in Live /\ op = NoOp
    BY <2>22, <2>l DEF BeginSettle, Idle
  <3>2. claim[c].fallback <= claim[c].ceiling /\ claim[c].ceiling \in Nat /\ claim[c].fallback \in Nat
    BY <2>0, <3>1, LimitsAreNats DEF LedgerInv, FallbackWithinCeiling, TypeOK
  <3>3. \A k \in Nat : k <= claim[c].ceiling => Fits(k, OtherEvents, OtherBytes(c))
    BY <2>0, <2>r, <3>1, <3>2, LimitsAreNats DEF LedgerInv, CapacityHeld, Fits, TypeOK
  <3>4. CASE /\ Fits(n, OtherEvents, OtherBytes(c))
             /\ Install("preferred", c, n, OtherEvents, OtherBytes(c))
             /\ claim' = [claim EXCEPT ![c].state = "pendingPreferred"]
    <4>1. /\ op'.claim = c /\ op'.size = n /\ op'.protectedEvents = OtherEvents
          /\ op'.protectedBytes = OtherBytes(c)
      BY <3>4 DEF Install
    <4> QED
      BY <2>0, <2>22, <3>1, <3>4, <4>1, InstallClaim DEF BeginSettle
  <3>5. CASE /\ Install("fallback", c, claim[c].fallback, OtherEvents, OtherBytes(c))
             /\ claim' = [claim EXCEPT ![c].state = "pendingFallback"]
    <4>1. /\ op'.claim = c /\ op'.size = claim[c].fallback
          /\ op'.protectedEvents = OtherEvents /\ op'.protectedBytes = OtherBytes(c)
      BY <3>5 DEF Install
    <4>2. Fits(op'.size, OtherEvents, OtherBytes(c))
      BY <3>2, <3>3, <4>1
    <4> QED
      BY <2>0, <2>22, <3>1, <3>5, <4>1, <4>2, InstallClaim DEF BeginSettle
  <3> QED
    BY <2>22, <3>4, <3>5 DEF BeginSettle
<2>23. ASSUME NEW c \in Claims, NEW kind \in {"exact", "stepEnd"}, BeginSettleExact(c, kind) PROVE LedgerInv'
  <3>1. c \in Live /\ op = NoOp
    BY <2>23, <2>l DEF BeginSettleExact, Idle
  <3>2. claim[c].fallback <= claim[c].ceiling /\ claim[c].ceiling \in Nat /\ claim[c].fallback \in Nat
    BY <2>0, <3>1, LimitsAreNats DEF LedgerInv, FallbackWithinCeiling, TypeOK
  <3>3. \A k \in Nat : k <= claim[c].ceiling => Fits(k, OtherEvents, OtherBytes(c))
    BY <2>0, <2>r, <3>1, <3>2, LimitsAreNats DEF LedgerInv, CapacityHeld, Fits, TypeOK
  <3>4. /\ op'.claim = c /\ op'.size = claim[c].fallback
        /\ op'.protectedEvents = OtherEvents /\ op'.protectedBytes = OtherBytes(c)
    BY <2>23 DEF BeginSettleExact, Install
  <3>5. Fits(op'.size, OtherEvents, OtherBytes(c))
    BY <2>23, <3>2, <3>3, <3>4 DEF BeginSettleExact, Sizes
  <3> QED
    BY <2>0, <2>23, <3>1, <3>4, <3>5, InstallClaim DEF BeginSettleExact
<2>24. ASSUME NEW c \in Claims, NEW n \in Sizes, BeginPreferredOnly(c, n) PROVE LedgerInv'
  <3>1. c \in Live /\ op = NoOp
    BY <2>24, <2>l DEF BeginPreferredOnly, Idle
  <3>2. claim[c].fallback <= claim[c].ceiling /\ claim[c].ceiling \in Nat /\ claim[c].fallback \in Nat
    BY <2>0, <3>1, LimitsAreNats DEF LedgerInv, FallbackWithinCeiling, TypeOK
  <3>3. \A k \in Nat : k <= claim[c].ceiling => Fits(k, OtherEvents, OtherBytes(c))
    BY <2>0, <2>r, <3>1, <3>2, LimitsAreNats DEF LedgerInv, CapacityHeld, Fits, TypeOK
  <3>4. /\ op'.claim = c /\ op'.size = n
        /\ op'.protectedEvents = OtherEvents /\ op'.protectedBytes = OtherBytes(c)
    BY <2>24 DEF BeginPreferredOnly, Install
  <3>5. Fits(op'.size, OtherEvents, OtherBytes(c))
    BY <2>24, <3>2, <3>3, <3>4 DEF BeginPreferredOnly, Sizes
  <3> QED
    BY <2>0, <2>24, <3>1, <3>4, <3>5, InstallClaim DEF BeginPreferredOnly
<2>25. ASSUME NEW n \in Sizes, CommitOperation(n) PROVE LedgerInv'
  <3>1. op' = NoOp
    BY <2>25 DEF CommitOperation
  <3>2. CASE op.claim \in Claims
    <4>1. op.claim \in Live /\ FinishClaim(op.claim)
      BY <2>25, <3>2 DEF CommitOperation, FinishOwner, LedgerInv, OnePendingClaim, Live
    <4>2. events' + OtherEvents <= MaxEvents /\ bytes' + OtherBytes(op.claim) <= MaxBytes
      <5>1. /\ op.protectedEvents = OtherEvents
            /\ op.protectedBytes = OtherBytes(op.claim)
            /\ Fits(op.size, op.protectedEvents, op.protectedBytes)
        BY <3>2 DEF LedgerInv, PendingClaimResumable
      <5> QED
        BY <2>0, <2>r, <2>25, <4>1, <5>1, LimitsAreNats DEF CommitOperation, Fits, TypeOK, Sizes
    <4> QED
      BY <2>0, <3>1, <4>1, <4>2, SettleClaim
  <3>3. CASE op.claim \notin Claims
    <4>1. UNCHANGED <<reserved, reservedBytes, claim>>
      BY <2>25, <3>3 DEF CommitOperation, FinishOwner
    <4>2. events' + reserved <= MaxEvents /\ bytes' + reservedBytes <= MaxBytes
      BY <2>0, <2>25, <3>3, LimitsAreNats
         DEF CommitOperation, Committable, LedgerInv, PendingAppendInvadesNoClaim,
             Fits, TypeOK, Sizes
    <4> QED
      BY <2>0, <3>1, <3>3, <4>1, <4>2, CommitFree
  <3> QED
    BY <3>2, <3>3
<2>26. ASSUME PoisonInCommit PROVE LedgerInv'
  <3>1. op' = NoOp
    BY <2>26 DEF PoisonInCommit
  <3>2. CASE op.claim \in Claims
    <4>1. op.claim \in Live /\ FinishClaim(op.claim)
      BY <2>26, <3>2 DEF PoisonInCommit, FinishOwner, LedgerInv, OnePendingClaim, Live
    <4>2. events' + OtherEvents <= MaxEvents /\ bytes' + OtherBytes(op.claim) <= MaxBytes
      <5>1. /\ op.protectedEvents = OtherEvents
            /\ op.protectedBytes = OtherBytes(op.claim)
            /\ Fits(op.size, op.protectedEvents, op.protectedBytes)
        BY <3>2 DEF LedgerInv, PendingClaimResumable
      <5> QED
        BY <2>0, <2>r, <2>26, <4>1, <5>1, LimitsAreNats DEF PoisonInCommit, Fits, CapacityHeld, TypeOK
    <4> QED
      BY <2>0, <3>1, <4>1, <4>2, SettleClaim
  <3>3. CASE op.claim \notin Claims
    <4>1. UNCHANGED <<reserved, reservedBytes, claim>>
      BY <2>26, <3>3 DEF PoisonInCommit, FinishOwner
    <4>2. events' + reserved <= MaxEvents /\ bytes' + reservedBytes <= MaxBytes
      BY <2>26 DEF PoisonInCommit, LedgerInv, CapacityHeld
    <4> QED
      BY <2>0, <3>1, <3>3, <4>1, <4>2, CommitFree
  <3> QED
    BY <3>2, <3>3
<2>27. ASSUME NEW b \in BOOLEAN, RejectOperation(b) PROVE LedgerInv'
  BY <2>0, <2>27, RejectStep
<2> QED
  BY <2>1, <2>2, <2>3, <2>4, <2>5, <2>6, <2>7, <2>8, <2>9, <2>10, <2>11, <2>12, <2>13, <2>14, <2>15, <2>16, <2>17, <2>18, <2>19, <2>20, <2>21, <2>22, <2>23, <2>24, <2>25, <2>26, <2>27 DEF Next
<1> QED
  BY <1>1, <1>2

\* Every behaviour keeps the ledger invariant.
THEOREM LedgerInvariant == Spec => []LedgerInv
<1>1. LedgerInv /\ [Next]_vars => LedgerInv'
  BY LedgerStep
<1> QED
  BY LedgerInit, <1>1, PTL DEF Spec

\* The type invariant of the ledger (src/src/session/mod.rs, SessionReservation).
THEOREM TypeCorrect == Spec => []TypeOK
<1>1. LedgerInv => TypeOK
  BY DEF LedgerInv
<1> QED
  BY <1>1, LedgerInvariant, PTL

\* The counters of a reservation are at all times what its live claims protect.
THEOREM CountersExact == Spec => []CountersMatchClaims
<1>1. LedgerInv => CountersMatchClaims
  BY DEF LedgerInv
<1> QED
  BY <1>1, LedgerInvariant, PTL

\* Committed and protected together never exceed the limits of the mode.
THEOREM CapacityNeverExceeded == Spec => []CapacityHeld
<1>1. LedgerInv => CapacityHeld
  BY DEF LedgerInv
<1> QED
  BY <1>1, LedgerInvariant, PTL

\* Whatever was appended since, the fallback of a ready claim can be committed.
THEOREM ClaimsAlwaysSettle == Spec => []FallbackAlwaysFits
<1>1. ASSUME LedgerInv, NEW c \in Claims, claim[c].state = "ready"
      PROVE  Fits(claim[c].fallback, OtherEvents, OtherBytes(c))
  <2>1. c \in Live /\ TypeOK /\ CountersMatchClaims
    BY <1>1 DEF Live, LedgerInv
  <2>2. /\ OtherEvents \in Nat /\ OtherBytes(c) \in Nat
        /\ reserved = OtherEvents + 1
        /\ reservedBytes = OtherBytes(c) + claim[c].ceiling
    BY <2>1, OtherRoom
  <2>3. /\ claim[c].fallback <= claim[c].ceiling
        /\ claim[c].fallback \in Nat /\ claim[c].ceiling \in Nat
    BY <1>1, <2>1, LimitsAreNats DEF LedgerInv, FallbackWithinCeiling, TypeOK
  <2> QED
    BY <1>1, <2>1, <2>2, <2>3, LimitsAreNats DEF LedgerInv, CapacityHeld, Fits, TypeOK
<1>2. LedgerInv => FallbackAlwaysFits
  BY <1>1 DEF FallbackAlwaysFits
<1> QED
  BY <1>2, LedgerInvariant, PTL

\* A claim operation whose wait was dropped keeps a valid, current snapshot.
THEOREM DroppedWaitResumes == Spec => []PendingClaimResumable
<1>1. LedgerInv => PendingClaimResumable
  BY DEF LedgerInv
<1> QED
  BY <1>1, LedgerInvariant, PTL

-----------------------------------------------------------------------------
(* The two action properties.                                              *)

\* The event after an irreversible effect is kept or committed, step by step.
THEOREM IrreversibleNeverLost == Spec => IrreversibleResultKept
<1>1. ASSUME Next, op.kind = "preferredOnly", storage' \notin {"failed", "closing"}
      PROVE  \/ op' = op \/ op' = [op EXCEPT !.claim = NoClaim]
             \/ op' = NoOp /\ events' = events + 1
  <2>0. op # NoOp
    BY <1>1 DEF NoOp
  <2>1. CASE UNCHANGED op
    BY <2>1
  <2>2. CASE DropReservation
    BY <2>2 DEF DropReservation
  <2>3. CASE \E n \in Sizes : CommitOperation(n)
    BY <2>3 DEF CommitOperation
  <2>4. CASE PoisonInCommit
    BY <1>1, <2>4 DEF PoisonInCommit
  <2>5. CASE \E b \in BOOLEAN : RejectOperation(b)
    BY <1>1, <2>5 DEF RejectOperation
  <2>6. Next => \/ UNCHANGED op \/ DropReservation
                \/ \E n \in Sizes : CommitOperation(n)
                \/ PoisonInCommit \/ \E b \in BOOLEAN : RejectOperation(b)
    BY <2>0 DEF Next, OpenReservation, ClaimBatch, ReserveMoreBytes, RebindFallback,
         Release, MemorySettle, MemorySettleWithin, MemoryStepEnd, MemoryAppend,
         MemoryClose, MemoryCommit, BeginSettle, BeginPreferredOnly,
         BeginSettleExact, BeginAppend, Idle, StageBatch, AcknowledgeBatch,
         FailWriter, Materialize, Barrier, BeginAttempt, RetireAttempt,
         BeginShutdown, FinishShutdown
  <2> QED
    BY <1>1, <2>1, <2>2, <2>3, <2>4, <2>5, <2>6
<1>2. ASSUME [Next]_vars
      PROVE  [op.kind = "preferredOnly" /\ storage' \notin {"failed", "closing"}
              => \/ op' = op \/ op' = [op EXCEPT !.claim = NoClaim]
                 \/ op' = NoOp /\ events' = events + 1]_vars
  BY <1>1, <1>2
<1> QED
  BY <1>2, PTL DEF Spec, IrreversibleResultKept

\* Which actions touch the committed rows, the barrier or the attempt owner.
LEMMA AttemptActions ==
  ASSUME Next
  PROVE  \/ UNCHANGED <<events, synced, attempt>>
         \/ DropReservation \/ Barrier \/ BeginAttempt \/ RetireAttempt
         \/ FinishShutdown
         \/ \E n \in Sizes : MemoryAppend(n) \/ MemoryClose(n) \/ CommitOperation(n)
         \/ \E c \in Claims, n \in Sizes : MemorySettle(c, n) \/ MemorySettleWithin(c, n)
         \/ \E c \in Claims : MemoryStepEnd(c)
<1> DEFINE Still == UNCHANGED <<events, synced, attempt>>
<1> USE DEF ledgerVars, storeVars
<1>1. ASSUME NEW S, NEW size, ClaimBatch(S, size) PROVE Still
  BY <1>1 DEF ClaimBatch
<1>2. ASSUME NEW c, NEW n, ReserveMoreBytes(c, n) \/ RebindFallback(c, n)
      PROVE  Still
  BY <1>2 DEF ReserveMoreBytes, RebindFallback
<1>3. ASSUME NEW c, NEW n, BeginSettle(c, n) \/ BeginPreferredOnly(c, n)
      PROVE  Still
  BY <1>3 DEF BeginSettle, BeginPreferredOnly
<1>4. ASSUME NEW c, NEW kind, Release(c) \/ BeginSettleExact(c, kind)
      PROVE  Still
  BY <1>4 DEF Release, BeginSettleExact
<1>5. ASSUME NEW n, NEW kind, BeginAppend(kind, n) PROVE Still
  BY <1>5 DEF BeginAppend
<1>6. ASSUME NEW b, RejectOperation(b) PROVE Still
  BY <1>6 DEF RejectOperation
<1>7. ASSUME PoisonInCommit \/ StageBatch \/ AcknowledgeBatch \/ FailWriter PROVE Still
  BY <1>7 DEF PoisonInCommit, StageBatch, AcknowledgeBatch, FailWriter
<1>8. ASSUME OpenReservation \/ Materialize \/ BeginShutdown PROVE Still
  BY <1>8 DEF OpenReservation, Materialize, BeginShutdown
<1> HIDE DEF Still
<1>9. CASE Still
  BY <1>9 DEF Still
<1>10. CASE ~Still
  BY <1>10, <1>1, <1>2, <1>3, <1>4, <1>5, <1>6, <1>7, <1>8 DEF Next
<1> QED
  BY <1>9, <1>10

\* A barrier covers every row committed before it.
LEMMA AttemptStep ==
  ASSUME TypeOK, AttemptInv, [Next]_vars
  PROVE  AttemptInv'
<1> USE DEF AttemptInv
<1>1. CASE UNCHANGED <<events, synced, attempt>>
  BY <1>1
<1>2. ASSUME DropReservation PROVE AttemptInv'
  BY <1>2 DEF DropReservation, storeVars, TypeOK
<1>3. ASSUME NEW n \in Sizes, MemoryAppend(n) PROVE AttemptInv'
  BY <1>3 DEF MemoryAppend, MemoryCommit, storeVars, TypeOK
<1>4. ASSUME NEW c \in Claims, NEW n \in Sizes, MemorySettle(c, n) PROVE AttemptInv'
  BY <1>4 DEF MemorySettle, MemoryCommit, storeVars, TypeOK
<1>5. ASSUME NEW c \in Claims, NEW n \in Sizes, MemorySettleWithin(c, n) PROVE AttemptInv'
  BY <1>5 DEF MemorySettleWithin, MemoryCommit, storeVars, TypeOK
<1>6. ASSUME NEW n \in Sizes, MemoryClose(n) PROVE AttemptInv'
  BY <1>6 DEF MemoryClose, MemoryCommit, HoldsOpenAttempt, storeVars, TypeOK
<1>7. ASSUME NEW c \in Claims, MemoryStepEnd(c) PROVE AttemptInv'
  BY <1>7 DEF MemoryStepEnd, MemoryCommit, HoldsOpenAttempt, storeVars, TypeOK
<1>8. ASSUME NEW n \in Sizes, CommitOperation(n) PROVE AttemptInv'
  <2>1. CASE ClosesAttempt
    BY <1>8, <2>1 DEF CommitOperation, ClosesAttempt, TypeOK
  <2>2. CASE ~ClosesAttempt
    BY <1>8, <2>2 DEF CommitOperation, TypeOK
  <2> QED
    BY <2>1, <2>2
<1>9. ASSUME Barrier PROVE AttemptInv'
  BY <1>9 DEF Barrier, ledgerVars, TypeOK
<1>10. ASSUME BeginAttempt PROVE AttemptInv'
  BY <1>10 DEF BeginAttempt, ledgerVars, storeVars, TypeOK
<1>11. ASSUME RetireAttempt PROVE AttemptInv'
  BY <1>11 DEF RetireAttempt, NoAttempt, ledgerVars, storeVars, TypeOK
<1>12. ASSUME FinishShutdown PROVE AttemptInv'
  BY <1>12 DEF FinishShutdown, ledgerVars, TypeOK
<1>13. CASE Next
  BY <1>13, AttemptActions, <1>1, <1>2, <1>3, <1>4, <1>5, <1>6, <1>7, <1>8, <1>9, <1>10, <1>11, <1>12
<1>14. CASE UNCHANGED vars
  BY <1>14 DEF vars
<1> QED
  BY <1>13, <1>14

\* An ordinary append, or an operation a dropped reservation left pending, was
\* admitted next to everything that is protected now, however late it commits.
THEOREM LateAppendIsSafe == Spec => []PendingAppendInvadesNoClaim
<1>1. LedgerInv => PendingAppendInvadesNoClaim
  BY DEF LedgerInv
<1> QED
  BY <1>1, LedgerInvariant, PTL

\* Two claims never wait at once, and a claim that waits owns the operation.
THEOREM OneClaimWaits == Spec => []OnePendingClaim
<1>1. LedgerInv => OnePendingClaim
  BY DEF LedgerInv
<1> QED
  BY <1>1, LedgerInvariant, PTL

\* An attempt owner is retired only after the row that closed it is on disk.
THEOREM RetirementIsDurable == Spec => RetiredAfterSync
<1>1. Init => AttemptInv
  BY DEF Init, AttemptInv, NoAttempt
<1>2. TypeOK /\ AttemptInv /\ [Next]_vars => AttemptInv'
  BY AttemptStep
<1>3. ASSUME TypeOK, AttemptInv, [Next]_vars
      PROVE  [attempt.phase = "closed" /\ attempt'.phase = "none"
              => attempt.seq <= synced]_vars
  <2>1. ASSUME Next, attempt.phase = "closed", attempt'.phase = "none"
        PROVE  attempt.seq <= synced
    <3> DEFINE Kept == attempt'.phase # "none"
    <3>1. ASSUME UNCHANGED <<events, synced, attempt>> \/ BeginAttempt PROVE Kept
      BY <2>1, <3>1 DEF BeginAttempt
    <3>2. ASSUME DropReservation PROVE Kept
      BY <1>3, <2>1, <3>2 DEF DropReservation, TypeOK
    <3>3. ASSUME Barrier \/ FinishShutdown PROVE Kept
      BY <1>3, <2>1, <3>3 DEF Barrier, FinishShutdown, TypeOK
    <3>4. ASSUME NEW n \in Sizes, MemoryAppend(n) \/ MemoryClose(n) PROVE Kept
      BY <1>3, <2>1, <3>4 DEF MemoryAppend, MemoryClose, TypeOK
    <3>5. ASSUME NEW n \in Sizes, CommitOperation(n) PROVE Kept
      BY <1>3, <2>1, <3>5 DEF CommitOperation, TypeOK
    <3>6. ASSUME NEW c \in Claims, NEW n \in Sizes,
                 MemorySettle(c, n) \/ MemorySettleWithin(c, n)
          PROVE  Kept
      BY <2>1, <3>6 DEF MemorySettle, MemorySettleWithin
    <3>7. ASSUME NEW c \in Claims, MemoryStepEnd(c) PROVE Kept
      BY <1>3, <2>1, <3>7 DEF MemoryStepEnd, TypeOK
    <3>8. RetireAttempt
      <4>1. ~Kept
        BY <2>1
      <4> HIDE DEF Kept
      <4> QED
        BY <2>1, <4>1, AttemptActions, <3>1, <3>2, <3>3, <3>4, <3>5, <3>6, <3>7
    <3> QED
      BY <1>3, <2>1, <3>8 DEF RetireAttempt, AttemptInv
  <2> QED
    BY <1>3, <2>1
<1> QED
  BY <1>1, <1>2, <1>3, TypeCorrect, PTL DEF Spec, RetiredAfterSync

-----------------------------------------------------------------------------
(* The composition: a step of it is a step of one module and a stutter of the *)
(* others.                                                                   *)

LEMMA ToolsSteps ==
  ASSUME [ToolsNext]_toolVars
  PROVE  /\ [Plugin!Next]_pluginVars
         /\ [Process!Next]_processVars
         /\ [Workspace!Next]_workspaceVars
BY DEF ToolsNext, toolVars, UsesLedger, UsesPlugin, UsesProcess, UsesWorkspace, UsesOutput

-----------------------------------------------------------------------------
(* A commit of file changes: the lock, the last check and what is staged.     *)

Versions == [by : Changes \cup {User, Nobody}, number : Nat, after : SUBSET Changes]

Mutations ==
  [pc : {"idle", "proposed", "lock"} \cup Workspace!Held \cup Workspace!Ended,
   op : {"none", "create", "update"}, base : Versions,
   cancelled : BOOLEAN, warning : BOOLEAN, over : Versions,
   published : {"none", "astray", "directory", "part", "whole"}]

ChangesTyped ==
  /\ target \in Versions /\ edits \in Nat
  /\ moved \in [is : BOOLEAN, after : SUBSET Changes]
  /\ lock \in Changes \cup {Nobody}
  /\ change \in [Changes -> Mutations]
  /\ staging \in [Changes -> {"none", "directory", "part", "whole"}]

IsPublished == {"cleanup", "sync", "committed"}

\* One mutation: it holds the lock while it is inside.
HasLock(c) == change[c].pc \in Workspace!Held <=> lock = c

\* Its last check and what may have happened since.
IsChecked(c) ==
  Workspace!At(c, "publish") =>
    /\ moved.is => c \in moved.after
    /\ change[c].op # "create" => target = change[c].base \/ c \in target.after

\* What is staged, published and told at each place of its commit.
IsTold(c) ==
  /\ change[c].pc \in {"written", "publish"} => staging[c] = "whole"
  /\ change[c].pc \in {"idle", "proposed", "lock", "locked", "stage", "declined", "complete"}
       => staging[c] = "none"
  /\ change[c].pc \in IsPublished => change[c].published = "whole"
  /\ change[c].pc \notin IsPublished \cup {"crashed"} => change[c].published = "none"
  /\ change[c].published \in {"none", "whole"}
  /\ change[c].pc \in {"sync", "committed", "not committed"} /\ staging[c] # "none"
       => change[c].warning

\* What it replaced, if it published: a conjunct of PublishedOnBaseline.
OnBaseline(c) ==
  change[c].published # "none" =>
    IF change[c].op = "create" THEN change[c].over.by = Nobody
    ELSE change[c].over = change[c].base \/ c \in change[c].over.after

LockHeld == \A c \in Changes : HasLock(c)
Checked == \A c \in Changes : IsChecked(c)
StagingTold == \A c \in Changes : IsTold(c)
BaselineKept == \A c \in Changes : OnBaseline(c)

CommitInv == ChangesTyped /\ LockHeld /\ Checked /\ StagingTold /\ BaselineKept

-----------------------------------------------------------------------------
(* What the invariant gives, and that it holds at the start.                 *)

LEMMA CommitTells == CommitInv => Workspace!CommitAgrees
<1> SUFFICES ASSUME CommitInv PROVE Workspace!CommitAgrees
  OBVIOUS
<1>1. Workspace!PublishedOnBaseline
  BY DEF CommitInv, StagingTold, IsTold, BaselineKept, OnBaseline, Workspace!PublishedOnBaseline
<1>2. Workspace!AnswerAgrees
  BY DEF CommitInv, ChangesTyped, Mutations, StagingTold, IsTold, Workspace!AnswerAgrees, Workspace!At, IsPublished, Workspace!Ended
<1> QED
  BY <1>1, <1>2 DEF Workspace!CommitAgrees

LEMMA CommitBegins == Nobody \notin Changes /\ Workspace!Init => CommitInv
<1> SUFFICES ASSUME Nobody \notin Changes, Workspace!Init PROVE CommitInv
  OBVIOUS
<1> DEFINE idle == [pc |-> "idle", op |-> "none", base |-> Workspace!Absent, cancelled |-> FALSE,
                    warning |-> FALSE, over |-> Workspace!Absent, published |-> "none"]
           one == [by |-> User, number |-> 1, after |-> {}]
<1>1. Workspace!Absent \in Versions /\ Workspace!Absent.number = 0
  BY DEF Workspace!Absent, Versions
<1>2. one \in Versions /\ one.number = 1
  BY DEF Versions
<1>3. idle \in Mutations
  BY <1>1 DEF Mutations
<1>4. target \in Versions /\ edits \in Nat
  <2>1. CASE target = Workspace!Absent
    BY <2>1, <1>1, edits = target.number DEF Workspace!Init
  <2>2. CASE target = one
    BY <2>2, <1>2, edits = target.number DEF Workspace!Init
  <2> QED
    BY <2>1, <2>2 DEF Workspace!Init
<1>5. change \in [Changes -> Mutations] /\ \A c \in Changes : change[c] = idle
  <2>1. change = [c \in Changes |-> idle]
    BY DEF Workspace!Init
  <2> QED
    BY <2>1, <1>3
<1>6. ChangesTyped
  BY <1>4, <1>5 DEF Workspace!Init, ChangesTyped, Workspace!Unmoved
<1>7. ASSUME NEW c \in Changes PROVE HasLock(c) /\ IsChecked(c) /\ IsTold(c) /\ OnBaseline(c)
  BY <1>5 DEF Workspace!Init, HasLock, IsChecked, IsTold, OnBaseline, Workspace!Held, Workspace!At, IsPublished
<1> QED
  BY <1>6, <1>7 DEF CommitInv, LockHeld, Checked, StagingTold, BaselineKept

-----------------------------------------------------------------------------
(* A step of one mutation.                                                   *)

\* The mutation whose place and notes change, as a record of its own.
LEMMA ChangeChanged ==
  ASSUME ChangesTyped, NEW c \in Changes, NEW m \in Mutations,
         change' = [change EXCEPT ![c] = m]
  PROVE  /\ change' \in [Changes -> Mutations] /\ change'[c] = m
         /\ \A d \in Changes : d # c => change'[d] = change[d]
BY DEF ChangesTyped

\* The places a mutation goes to change nothing else of it.
LEMMA ChangeMoved ==
  ASSUME ChangesTyped, NEW c \in Changes,
         NEW pc \in {"idle", "proposed", "lock"} \cup Workspace!Held \cup Workspace!Ended, Workspace!Moves(c, pc)
  PROVE  /\ change' \in [Changes -> Mutations] /\ change'[c].pc = pc
         /\ change'[c].op = change[c].op /\ change'[c].base = change[c].base
         /\ change'[c].over = change[c].over
         /\ change'[c].published = change[c].published
         /\ change'[c].warning = change[c].warning
         /\ \A d \in Changes : d # c => change'[d] = change[d]
<1>1. PICK n \in Mutations : n = change[c]
  BY DEF ChangesTyped
<1>2. PICK m \in Mutations : m = [n EXCEPT !.pc = pc]
  BY DEF Mutations
<1>3. change' = [change EXCEPT ![c] = m]
  BY <1>1, <1>2 DEF Workspace!Moves, ChangesTyped
<1>4. /\ m.pc = pc /\ m.op = n.op /\ m.base = n.base /\ m.over = n.over
      /\ m.published = n.published /\ m.warning = n.warning
  BY <1>2 DEF Mutations
<1> QED
  BY <1>1, <1>3, <1>4, ChangeChanged

\* What a step of one mutation leaves alone, and the lock it may only take
\* when it is free and give back when it has it.
OwnStep(c) ==
  /\ change' \in [Changes -> Mutations]
  /\ staging' \in [Changes -> {"none", "directory", "part", "whole"}]
  /\ \A d \in Changes : d # c => change'[d] = change[d] /\ staging'[d] = staging[d]
  /\ \/ lock' = lock
     \/ lock' = Nobody /\ lock \in {c, Nobody}
     \/ lock' = c /\ lock = Nobody

\* Then everything is as it was for the others.
LEMMA OthersKeep ==
  ASSUME Nobody \notin Changes, CommitInv, NEW c \in Changes, OwnStep(c), UNCHANGED <<target, edits, moved>>,
         HasLock(c)', IsChecked(c)', IsTold(c)', OnBaseline(c)'
  PROVE  CommitInv'
<1>1. ChangesTyped'
  BY DEF OwnStep, CommitInv, ChangesTyped
<1>2. ASSUME NEW d \in Changes, d # c
      PROVE  HasLock(d)' /\ IsChecked(d)' /\ IsTold(d)' /\ OnBaseline(d)'
  <2>1. HasLock(d) /\ IsChecked(d) /\ IsTold(d) /\ OnBaseline(d)
    BY DEF CommitInv, LockHeld, Checked, StagingTold, BaselineKept
  <2>2. lock' = d <=> lock = d
    BY <1>2 DEF OwnStep
  <2>3. HasLock(d)'
    BY <2>1, <2>2, <1>2 DEF OwnStep, HasLock
  <2>4. IsChecked(d)'
    BY <2>1, <1>2 DEF OwnStep, IsChecked, Workspace!At
  <2>5. IsTold(d)' /\ OnBaseline(d)'
    BY <2>1, <1>2 DEF OwnStep, IsTold, OnBaseline, IsPublished
  <2> QED
    BY <2>3, <2>4, <2>5
<1>3. \A d \in Changes : HasLock(d)' /\ IsChecked(d)' /\ IsTold(d)' /\ OnBaseline(d)'
  BY <1>2
<1> QED
  BY <1>1, <1>3 DEF CommitInv, LockHeld, Checked, StagingTold, BaselineKept

\* Giving up before the publication.
LEMMA GivesUp ==
  ASSUME Nobody \notin Changes, CommitInv, NEW c \in Changes,
         change[c].pc \in {"lock", "locked", "stage", "staged", "written", "publish"},
         NEW left \in {"none", "directory", "part", "whole"},
         Workspace!NotCommitted(c, left), UNCHANGED <<target, edits, moved>>
  PROVE  CommitInv'
<1>1. PICK n \in Mutations : n = change[c]
  BY DEF CommitInv, ChangesTyped
<1>2. PICK w \in BOOLEAN : w = (left # "none")
  OBVIOUS
<1>3. PICK m \in Mutations : m = [n EXCEPT !.pc = "not committed", !.warning = w]
  BY DEF Mutations, Workspace!Ended
<1>4. change' = [change EXCEPT ![c] = m]
  BY <1>1, <1>2, <1>3 DEF Workspace!NotCommitted, CommitInv, ChangesTyped
<1>5. /\ m.pc = "not committed" /\ m.warning = (left # "none") /\ m.published = n.published
      /\ m.op = n.op /\ m.base = n.base /\ m.over = n.over
  BY <1>2, <1>3 DEF Mutations
<1>6. /\ change' \in [Changes -> Mutations] /\ change'[c] = m
      /\ \A d \in Changes : d # c => change'[d] = change[d]
  BY <1>4, ChangeChanged DEF CommitInv
<1>7. /\ staging' \in [Changes -> {"none", "directory", "part", "whole"}]
      /\ staging'[c] = left
      /\ \A d \in Changes : d # c => staging'[d] = staging[d]
  BY DEF Workspace!NotCommitted, CommitInv, ChangesTyped
<1>8. /\ lock \in Changes \cup {Nobody} /\ (lock = c => lock' = Nobody)
      /\ (lock # c => lock' = lock)
  BY DEF Workspace!NotCommitted, CommitInv, ChangesTyped
<1>9. OwnStep(c)
  BY <1>6, <1>7, <1>8 DEF OwnStep
<1>10. n.published = "none"
  BY <1>1 DEF CommitInv, StagingTold, IsTold, IsPublished
<1>11. HasLock(c)'
  BY <1>5, <1>6, <1>8 DEF HasLock, Workspace!Held
<1>12. IsChecked(c)' /\ IsTold(c)' /\ OnBaseline(c)'
  BY <1>5, <1>6, <1>7, <1>10 DEF IsChecked, IsTold, OnBaseline, Workspace!At, IsPublished
<1> QED
  BY <1>9, <1>11, <1>12, OthersKeep

\* Going on: the place changes, the notes do not.
LEMMA GoesOn ==
  ASSUME Nobody \notin Changes, CommitInv, NEW c \in Changes,
         NEW pc \in {"idle", "proposed", "lock"} \cup Workspace!Held \cup Workspace!Ended, Workspace!Moves(c, pc),
         staging' \in [Changes -> {"none", "directory", "part", "whole"}],
         \A d \in Changes : d # c => staging'[d] = staging[d],
         \/ lock' = lock
         \/ lock' = Nobody /\ lock \in {c, Nobody}
         \/ lock' = c /\ lock = Nobody,
         UNCHANGED <<target, edits, moved>>,
         pc \in Workspace!Held <=> lock' = c, IsChecked(c)', IsTold(c)'
  PROVE  CommitInv'
<1>1. /\ change' \in [Changes -> Mutations] /\ change'[c].pc = pc
      /\ change'[c].op = change[c].op /\ change'[c].base = change[c].base
      /\ change'[c].over = change[c].over /\ change'[c].published = change[c].published
      /\ \A d \in Changes : d # c => change'[d] = change[d]
  BY ChangeMoved DEF CommitInv
<1>2. OwnStep(c) /\ HasLock(c)'
  BY <1>1 DEF OwnStep, HasLock
<1>3. OnBaseline(c)'
  BY <1>1 DEF CommitInv, BaselineKept, OnBaseline
<1> QED
  BY <1>2, <1>3, OthersKeep

-----------------------------------------------------------------------------
(* One lemma for each operation.                                             *)

LEMMA Prepares ==
  ASSUME Nobody \notin Changes, CommitInv, NEW c \in Changes, Workspace!Prepare(c)
  PROVE  CommitInv'
<1>1. CASE Workspace!Moves(c, "complete")
  <2>1. change'[c].pc = "complete" /\ change'[c].published = change[c].published
    BY <1>1, ChangeMoved DEF CommitInv, Workspace!Ended
  <2>2. staging[c] = "none" /\ change[c].published = "none" /\ lock # c
    BY DEF Workspace!Prepare, Workspace!At, CommitInv, StagingTold, IsTold, IsPublished, LockHeld, HasLock, Workspace!Held
  <2>3. IsChecked(c)' /\ IsTold(c)' /\ ("complete" \in Workspace!Held <=> lock' = c)
    BY <2>1, <2>2 DEF Workspace!Prepare, IsChecked, IsTold, Workspace!At, IsPublished, Workspace!Held
  <2> QED
    BY <1>1, <2>3, GoesOn DEF Workspace!Prepare, Workspace!Ended, CommitInv, ChangesTyped
<1>2. ASSUME NEW kind \in {"create", "update"},
             change' = [change EXCEPT ![c].pc = "proposed", ![c].op = kind, ![c].base = target]
      PROVE  CommitInv'
  <2>1. PICK n \in Mutations : n = change[c]
    BY DEF CommitInv, ChangesTyped
  <2>2. PICK base \in Versions : base = target
    BY DEF CommitInv, ChangesTyped
  <2>3. PICK m \in Mutations : m = [n EXCEPT !.pc = "proposed", !.op = kind, !.base = base]
    BY DEF Mutations
  <2>4. change' = [change EXCEPT ![c] = m]
    BY <1>2, <2>1, <2>2, <2>3 DEF CommitInv, ChangesTyped
  <2>5. m.pc = "proposed" /\ m.published = n.published
    BY <2>3 DEF Mutations
  <2>6. /\ change' \in [Changes -> Mutations] /\ change'[c] = m
        /\ \A d \in Changes : d # c => change'[d] = change[d]
    BY <2>4, ChangeChanged DEF CommitInv
  <2>7. OwnStep(c)
    BY <2>6 DEF OwnStep, Workspace!Prepare, CommitInv, ChangesTyped
  <2>8. n.pc = "idle" /\ n.published = "none" /\ staging[c] = "none" /\ lock # c
    BY <2>1 DEF Workspace!Prepare, Workspace!At, CommitInv, StagingTold, IsTold, IsPublished, LockHeld, HasLock, Workspace!Held
  <2>9. HasLock(c)' /\ IsChecked(c)' /\ IsTold(c)' /\ OnBaseline(c)'
    BY <2>5, <2>6, <2>8
       DEF Workspace!Prepare, HasLock, Workspace!Held, IsChecked, Workspace!At, IsTold, OnBaseline, IsPublished
  <2> QED
    BY <2>7, <2>9, OthersKeep DEF Workspace!Prepare
<1> QED
  BY <1>1, <1>2 DEF Workspace!Prepare

LEMMA Decides ==
  ASSUME Nobody \notin Changes, CommitInv, NEW c \in Changes, Workspace!Decide(c)
  PROVE  CommitInv'
<1>1. PICK pc \in {"lock", "declined"} : Workspace!Moves(c, pc)
  BY DEF Workspace!Decide
<1>2. change'[c].pc = pc /\ change'[c].published = change[c].published
  BY <1>1, ChangeMoved DEF CommitInv, Workspace!Ended
<1>3. staging[c] = "none" /\ change[c].published = "none" /\ lock # c
  BY DEF Workspace!Decide, Workspace!At, CommitInv, StagingTold, IsTold, IsPublished, LockHeld, HasLock, Workspace!Held
<1>4. IsChecked(c)' /\ IsTold(c)' /\ (pc \in Workspace!Held <=> lock' = c)
  BY <1>2, <1>3 DEF Workspace!Decide, IsChecked, IsTold, Workspace!At, IsPublished, Workspace!Held
<1> QED
  BY <1>1, <1>4, GoesOn DEF Workspace!Decide, Workspace!Ended, CommitInv, ChangesTyped

\* What cleanup_staging can leave behind.
LEMMA LeftTyped ==
  ASSUME CommitInv, NEW c \in Changes
  PROVE  Workspace!Left(c) \subseteq {"none", "directory", "part", "whole"}
BY DEF Workspace!Left, CommitInv, ChangesTyped

LEMMA Locks ==
  ASSUME Nobody \notin Changes, CommitInv, NEW c \in Changes, Workspace!Locked(c)
  PROVE  CommitInv'
<1>1. CASE Workspace!NotCommitted(c, "none")
  BY <1>1, GivesUp DEF Workspace!Locked, Workspace!At
<1>2. CASE lock = Nobody /\ lock' = c /\ Workspace!Moves(c, "locked") /\ UNCHANGED staging
  <2>1. change'[c].pc = "locked" /\ change'[c].published = change[c].published
    BY <1>2, ChangeMoved DEF CommitInv, Workspace!Held
  <2>2. staging[c] = "none" /\ change[c].published = "none"
    BY DEF Workspace!Locked, Workspace!At, CommitInv, StagingTold, IsTold, IsPublished
  <2>3. IsChecked(c)' /\ IsTold(c)'
    BY <1>2, <2>1, <2>2 DEF IsChecked, IsTold, Workspace!At, IsPublished
  <2> QED
    BY <1>2, <2>3, GoesOn DEF Workspace!Locked, Workspace!Held, CommitInv, ChangesTyped
<1> QED
  BY <1>1, <1>2 DEF Workspace!Locked

LEMMA Revalidates ==
  ASSUME Nobody \notin Changes, CommitInv, NEW c \in Changes, Workspace!Revalidate(c)
  PROVE  CommitInv'
<1>1. CASE Workspace!NotCommitted(c, "none")
  BY <1>1, GivesUp DEF Workspace!Revalidate, Workspace!At
<1>2. CASE Workspace!Moves(c, "stage") /\ UNCHANGED <<lock, staging>>
  <2>1. change'[c].pc = "stage" /\ change'[c].published = change[c].published
    BY <1>2, ChangeMoved DEF CommitInv, Workspace!Held
  <2>2. staging[c] = "none" /\ change[c].published = "none" /\ lock = c
    BY DEF Workspace!Revalidate, Workspace!At, CommitInv, StagingTold, IsTold, IsPublished, LockHeld, HasLock, Workspace!Held
  <2>3. IsChecked(c)' /\ IsTold(c)'
    BY <1>2, <2>1, <2>2 DEF IsChecked, IsTold, Workspace!At, IsPublished
  <2> QED
    BY <1>2, <2>2, <2>3, GoesOn DEF Workspace!Revalidate, Workspace!Held, CommitInv, ChangesTyped
<1> QED
  BY <1>1, <1>2 DEF Workspace!Revalidate

LEMMA Stages ==
  ASSUME Nobody \notin Changes, CommitInv, NEW c \in Changes, Workspace!MakeStaging(c)
  PROVE  CommitInv'
<1>1. ASSUME NEW left \in {"none", "directory"}, Workspace!NotCommitted(c, left) PROVE CommitInv'
  BY <1>1, GivesUp DEF Workspace!MakeStaging, Workspace!At
<1>2. CASE /\ Workspace!Moves(c, "staged") /\ UNCHANGED lock
           /\ staging' = [staging EXCEPT ![c] = "directory"]
  <2>1. change'[c].pc = "staged" /\ change'[c].published = change[c].published
    BY <1>2, ChangeMoved DEF CommitInv, Workspace!Held
  <2>2. change[c].published = "none" /\ lock = c
    BY DEF Workspace!MakeStaging, Workspace!At, CommitInv, StagingTold, IsTold, IsPublished, LockHeld, HasLock, Workspace!Held
  <2>3. IsChecked(c)' /\ IsTold(c)'
    BY <1>2, <2>1, <2>2 DEF IsChecked, IsTold, Workspace!At, IsPublished
  <2>4. /\ staging' \in [Changes -> {"none", "directory", "part", "whole"}]
        /\ \A d \in Changes : d # c => staging'[d] = staging[d]
    BY <1>2 DEF CommitInv, ChangesTyped
  <2> QED
    BY <1>2, <2>2, <2>3, <2>4, GoesOn DEF Workspace!MakeStaging, Workspace!Held
<1> QED
  BY <1>1, <1>2 DEF Workspace!MakeStaging

LEMMA Creates ==
  ASSUME Nobody \notin Changes, CommitInv, NEW c \in Changes, Workspace!CreateCandidate(c)
  PROVE  CommitInv'
<1>1. ASSUME NEW left \in Workspace!Left(c), Workspace!NotCommitted(c, left) PROVE CommitInv'
  BY <1>1, GivesUp, LeftTyped DEF Workspace!CreateCandidate, Workspace!At
<1>2. CASE staging' = [staging EXCEPT ![c] = "part"] /\ UNCHANGED <<lock, change>>
  <2>1. /\ staging' \in [Changes -> {"none", "directory", "part", "whole"}]
        /\ \A d \in Changes : d # c => staging'[d] = staging[d]
    BY <1>2 DEF CommitInv, ChangesTyped
  <2>2. OwnStep(c)
    BY <1>2, <2>1 DEF OwnStep, CommitInv, ChangesTyped
  <2>3. HasLock(c) /\ IsChecked(c) /\ IsTold(c) /\ OnBaseline(c)
    BY DEF CommitInv, LockHeld, Checked, StagingTold, BaselineKept
  <2>4. HasLock(c)' /\ IsChecked(c)' /\ IsTold(c)' /\ OnBaseline(c)'
    BY <1>2, <2>3 DEF Workspace!CreateCandidate, HasLock, IsChecked, IsTold, OnBaseline, Workspace!At, IsPublished
  <2> QED
    BY <2>2, <2>4, OthersKeep DEF Workspace!CreateCandidate
<1> QED
  BY <1>1, <1>2 DEF Workspace!CreateCandidate

LEMMA Writes ==
  ASSUME Nobody \notin Changes, CommitInv, NEW c \in Changes, Workspace!WriteCandidate(c)
  PROVE  CommitInv'
<1>1. ASSUME NEW left \in Workspace!Left(c), Workspace!NotCommitted(c, left) PROVE CommitInv'
  BY <1>1, GivesUp, LeftTyped DEF Workspace!WriteCandidate, Workspace!At
<1>2. CASE /\ Workspace!Moves(c, "written") /\ UNCHANGED lock
           /\ staging' = [staging EXCEPT ![c] = "whole"]
  <2>1. change'[c].pc = "written" /\ change'[c].published = change[c].published
    BY <1>2, ChangeMoved DEF CommitInv, Workspace!Held
  <2>2. change[c].published = "none" /\ lock = c
    BY DEF Workspace!WriteCandidate, Workspace!At, CommitInv, StagingTold, IsTold, IsPublished, LockHeld, HasLock, Workspace!Held
  <2>3. /\ staging' \in [Changes -> {"none", "directory", "part", "whole"}]
        /\ staging'[c] = "whole" /\ \A d \in Changes : d # c => staging'[d] = staging[d]
    BY <1>2 DEF CommitInv, ChangesTyped
  <2>4. IsChecked(c)' /\ IsTold(c)'
    BY <2>1, <2>2, <2>3 DEF IsChecked, IsTold, Workspace!At, IsPublished
  <2> QED
    BY <1>2, <2>2, <2>3, <2>4, GoesOn DEF Workspace!WriteCandidate, Workspace!Held
<1> QED
  BY <1>1, <1>2 DEF Workspace!WriteCandidate

\* The last check makes the baseline hold at the place that publishes.
LEMMA LateRevalidates ==
  ASSUME Nobody \notin Changes, CommitInv, NEW c \in Changes, Workspace!LateRevalidate(c)
  PROVE  CommitInv'
<1>1. ASSUME NEW left \in Workspace!Left(c), Workspace!NotCommitted(c, left) PROVE CommitInv'
  BY <1>1, GivesUp, LeftTyped DEF Workspace!LateRevalidate, Workspace!At
<1>2. CASE Workspace!Fresh(c) /\ Workspace!Moves(c, "publish") /\ UNCHANGED <<lock, staging>>
  <2>1. /\ change'[c].pc = "publish" /\ change'[c].published = change[c].published
        /\ change'[c].op = change[c].op /\ change'[c].base = change[c].base
    BY <1>2, ChangeMoved DEF CommitInv, Workspace!Held
  <2>2. change[c].published = "none" /\ lock = c /\ staging[c] = "whole"
    BY DEF Workspace!LateRevalidate, Workspace!At, CommitInv, StagingTold, IsTold, IsPublished, LockHeld, HasLock, Workspace!Held
  <2>3. IsChecked(c)'
    BY <1>2, <2>1 DEF IsChecked, Workspace!At, Workspace!Fresh, Workspace!LateRevalidate
  <2>4. IsTold(c)'
    BY <1>2, <2>1, <2>2 DEF IsTold, IsPublished
  <2> QED
    BY <1>2, <2>2, <2>3, <2>4, GoesOn DEF Workspace!LateRevalidate, Workspace!Held, CommitInv, ChangesTyped
<1> QED
  BY <1>1, <1>2 DEF Workspace!LateRevalidate

LEMMA Synchronises ==
  ASSUME Nobody \notin Changes, CommitInv, NEW c \in Changes, Workspace!SyncParent(c)
  PROVE  CommitInv'
<1>1. /\ change'[c].pc = "committed" /\ change'[c].published = change[c].published
      /\ change'[c].warning = change[c].warning
  BY ChangeMoved DEF Workspace!SyncParent, CommitInv, Workspace!Ended
<1>2. /\ change[c].published = "whole" /\ lock = c
      /\ (staging[c] # "none" => change[c].warning)
  BY DEF Workspace!SyncParent, Workspace!At, CommitInv, StagingTold, IsTold, IsPublished, LockHeld, HasLock, Workspace!Held
<1>3. IsChecked(c)' /\ IsTold(c)' /\ ("committed" \in Workspace!Held <=> lock' = c)
  BY <1>1, <1>2 DEF Workspace!SyncParent, IsChecked, IsTold, Workspace!At, IsPublished, Workspace!Held
<1> QED
  BY <1>2, <1>3, GoesOn DEF Workspace!SyncParent, Workspace!Ended, CommitInv, ChangesTyped

LEMMA CleansUp ==
  ASSUME Nobody \notin Changes, CommitInv, NEW c \in Changes, Workspace!CleanUp(c)
  PROVE  CommitInv'
<1>1. PICK left \in {"none", "directory", "part", "whole"} :
        /\ staging' = [staging EXCEPT ![c] = left]
        /\ change' = [change EXCEPT ![c].pc = "sync", ![c].warning = left # "none"]
  BY LeftTyped DEF Workspace!CleanUp
<1>2. PICK n \in Mutations : n = change[c]
  BY DEF CommitInv, ChangesTyped
<1>3. PICK w \in BOOLEAN : w = (left # "none")
  OBVIOUS
<1>4. PICK m \in Mutations : m = [n EXCEPT !.pc = "sync", !.warning = w]
  BY DEF Mutations, Workspace!Held
<1>5. change' = [change EXCEPT ![c] = m]
  BY <1>1, <1>2, <1>3, <1>4 DEF CommitInv, ChangesTyped
<1>6. /\ m.pc = "sync" /\ m.warning = (left # "none") /\ m.published = n.published
      /\ m.op = n.op /\ m.base = n.base /\ m.over = n.over
  BY <1>3, <1>4 DEF Mutations
<1>7. /\ change' \in [Changes -> Mutations] /\ change'[c] = m
      /\ \A d \in Changes : d # c => change'[d] = change[d]
  BY <1>5, ChangeChanged DEF CommitInv
<1>8. /\ staging' \in [Changes -> {"none", "directory", "part", "whole"}]
      /\ staging'[c] = left /\ \A d \in Changes : d # c => staging'[d] = staging[d]
  BY <1>1 DEF CommitInv, ChangesTyped
<1>9. n.published = "whole" /\ lock = c /\ OnBaseline(c)
  BY <1>2 DEF Workspace!CleanUp, Workspace!At, CommitInv, StagingTold, IsTold, IsPublished, LockHeld, HasLock, Workspace!Held,
              BaselineKept
<1>10. OwnStep(c)
  BY <1>7, <1>8 DEF OwnStep, Workspace!CleanUp
<1>11. HasLock(c)' /\ IsChecked(c)' /\ IsTold(c)'
  BY <1>6, <1>7, <1>8, <1>9 DEF Workspace!CleanUp, HasLock, IsChecked, IsTold, Workspace!At, IsPublished, Workspace!Held
<1>12. OnBaseline(c)'
  BY <1>2, <1>6, <1>7, <1>9 DEF OnBaseline
<1> QED
  BY <1>10, <1>11, <1>12, OthersKeep DEF Workspace!CleanUp

LEMMA Cancels ==
  ASSUME Nobody \notin Changes, CommitInv, NEW c \in Changes, Workspace!Cancel(c)
  PROVE  CommitInv'
<1>1. PICK n \in Mutations : n = change[c]
  BY DEF CommitInv, ChangesTyped
<1>2. PICK m \in Mutations : m = [n EXCEPT !.cancelled = TRUE]
  BY DEF Mutations
<1>3. change' = [change EXCEPT ![c] = m]
  BY <1>1, <1>2 DEF Workspace!Cancel, CommitInv, ChangesTyped
<1>4. /\ m.pc = n.pc /\ m.warning = n.warning /\ m.published = n.published
      /\ m.op = n.op /\ m.base = n.base /\ m.over = n.over
  BY <1>2 DEF Mutations
<1>5. /\ change' \in [Changes -> Mutations] /\ change'[c] = m
      /\ \A d \in Changes : d # c => change'[d] = change[d]
  BY <1>3, ChangeChanged DEF CommitInv
<1>6. OwnStep(c)
  BY <1>5 DEF OwnStep, Workspace!Cancel, CommitInv, ChangesTyped
<1>7. HasLock(c) /\ IsChecked(c) /\ IsTold(c) /\ OnBaseline(c)
  BY DEF CommitInv, LockHeld, Checked, StagingTold, BaselineKept
<1>8. HasLock(c)' /\ OnBaseline(c)'
  BY <1>1, <1>4, <1>5, <1>7 DEF Workspace!Cancel, HasLock, OnBaseline
<1>9. IsChecked(c)'
  BY <1>1, <1>4, <1>5, <1>7 DEF Workspace!Cancel, IsChecked, Workspace!At
<1>10. IsTold(c)'
  BY <1>1, <1>4, <1>5, <1>7 DEF Workspace!Cancel, IsTold, IsPublished
<1> QED
  BY <1>6, <1>8, <1>9, <1>10, OthersKeep DEF Workspace!Cancel

\* The publication: nobody else has passed its last check, for nobody else
\* has the lock.
LEMMA Publishes ==
  ASSUME Nobody \notin Changes, CommitInv, NEW c \in Changes, Workspace!Publish(c)
  PROVE  CommitInv'
<1>1. ASSUME NEW left \in Workspace!Left(c), Workspace!NotCommitted(c, left), UNCHANGED <<target, edits>>
      PROVE  CommitInv'
  BY <1>1, GivesUp, LeftTyped DEF Workspace!Publish, Workspace!At
<1> DEFINE how == IF moved.is /\ c \notin moved.after THEN "astray" ELSE staging[c]
           now == [by |-> c, number |-> edits', after |-> {}]
           rest == IF change[c].op = "update" THEN "directory" ELSE staging[c]
<1>2. ASSUME target.by = Nobody \/ Workspace!MayReplace(c), edits' = edits + 1, target' = now,
             change' = [change EXCEPT ![c].pc = "cleanup", ![c].over = target,
                                      ![c].published = how],
             staging' = [staging EXCEPT ![c] = rest], UNCHANGED <<lock, moved>>
      PROVE  CommitInv'
  <2>1. /\ HasLock(c) /\ IsChecked(c) /\ IsTold(c) /\ Workspace!At(c, "publish")
        /\ \A d \in Changes : HasLock(d) /\ IsChecked(d) /\ IsTold(d) /\ OnBaseline(d)
    BY DEF Workspace!Publish, CommitInv, LockHeld, Checked, StagingTold, BaselineKept
  <2>2. lock = c /\ staging[c] = "whole"
    BY <2>1 DEF HasLock, IsTold, Workspace!At, Workspace!Held
  <2>3. how = "whole"
    BY <2>1, <2>2 DEF IsChecked
  <2>4. PICK n \in Mutations : n = change[c]
    BY DEF CommitInv, ChangesTyped
  <2>5. PICK over \in Versions : over = target
    BY DEF CommitInv, ChangesTyped
  <2>6. PICK m \in Mutations : m = [n EXCEPT !.pc = "cleanup", !.over = over,
                                            !.published = "whole"]
    BY DEF Mutations, Workspace!Held
  <2>7. change' = [change EXCEPT ![c] = m]
    BY <1>2, <2>3, <2>4, <2>5, <2>6 DEF CommitInv, ChangesTyped
  <2>8. /\ m.pc = "cleanup" /\ m.over = target /\ m.published = "whole"
        /\ m.op = n.op /\ m.base = n.base
    BY <2>5, <2>6 DEF Mutations
  <2>9. /\ change' \in [Changes -> Mutations] /\ change'[c] = m
        /\ \A d \in Changes : d # c => change'[d] = change[d]
    BY <2>7, ChangeChanged DEF CommitInv
  <2>10. /\ staging' \in [Changes -> {"none", "directory", "part", "whole"}]
         /\ \A d \in Changes : d # c => staging'[d] = staging[d]
    BY <1>2 DEF CommitInv, ChangesTyped
  <2>11. edits' \in Nat /\ now \in Versions
    BY <1>2 DEF CommitInv, ChangesTyped, Versions
  <2>12. ChangesTyped'
    BY <1>2, <2>9, <2>10, <2>11 DEF CommitInv, ChangesTyped
  <2>13. HasLock(c)' /\ IsChecked(c)' /\ IsTold(c)'
    BY <1>2, <2>2, <2>8, <2>9 DEF HasLock, IsChecked, IsTold, Workspace!At, Workspace!Held, IsPublished
  <2>14. OnBaseline(c)'
    BY <1>2, <2>1, <2>4, <2>8, <2>9 DEF OnBaseline, IsChecked, Workspace!MayReplace
  <2>15. ASSUME NEW d \in Changes, d # c
         PROVE  HasLock(d)' /\ IsChecked(d)' /\ IsTold(d)' /\ OnBaseline(d)'
    <3>1. change'[d] = change[d] /\ staging'[d] = staging[d] /\ ~Workspace!At(d, "publish")
      BY <2>1, <2>2, <2>9, <2>10, <2>15 DEF HasLock, Workspace!At, Workspace!Held
    <3>2. HasLock(d)' /\ IsChecked(d)' /\ OnBaseline(d)'
      BY <1>2, <2>1, <3>1 DEF HasLock, IsChecked, OnBaseline, Workspace!At
    <3>3. IsTold(d)'
      BY <2>1, <3>1 DEF IsTold, IsPublished
    <3> QED
      BY <3>2, <3>3
  <2>16. \A d \in Changes : HasLock(d)' /\ IsChecked(d)' /\ IsTold(d)' /\ OnBaseline(d)'
    BY <2>13, <2>14, <2>15
  <2> QED
    BY <2>12, <2>16 DEF CommitInv, LockHeld, Checked, StagingTold, BaselineKept
<1> QED
  BY <1>1, <1>2 DEF Workspace!Publish

-----------------------------------------------------------------------------
(* The rest of the world.                                                    *)

\* Whoever has passed its last check is told of a change that comes after it.
LEMMA OthersEdit ==
  ASSUME CommitInv, Workspace!UserEdits \/ Workspace!ParentMoves
  PROVE  CommitInv'
<1>1. Workspace!Unprotected \in SUBSET Changes
  BY DEF Workspace!Unprotected
<1>2. ChangesTyped'
  <2>1. CASE Workspace!UserEdits
    <3>1. PICK by \in {User, Nobody} :
            target' = [by |-> by, number |-> edits', after |-> Workspace!Unprotected]
      BY <2>1 DEF Workspace!UserEdits
    <3>2. edits' \in Nat /\ UNCHANGED <<moved, lock, change, staging>>
      BY <2>1 DEF Workspace!UserEdits, CommitInv, ChangesTyped
    <3>3. target' \in Versions
      BY <1>1, <3>1, <3>2 DEF Versions
    <3> QED
      BY <3>2, <3>3 DEF CommitInv, ChangesTyped
  <2>2. CASE Workspace!ParentMoves
    BY <1>1, <2>2 DEF Workspace!ParentMoves, CommitInv, ChangesTyped
  <2> QED
    BY <2>1, <2>2
<1>3. ASSUME NEW d \in Changes
      PROVE  HasLock(d)' /\ IsChecked(d)' /\ IsTold(d)' /\ OnBaseline(d)'
  <2>1. /\ UNCHANGED <<lock, change, staging>>
        /\ target' = target \/ target'.after = Workspace!Unprotected
        /\ moved' = moved \/ moved'.after = Workspace!Unprotected
    BY DEF Workspace!UserEdits, Workspace!ParentMoves
  <2>2. HasLock(d) /\ IsChecked(d) /\ IsTold(d) /\ OnBaseline(d)
    BY DEF CommitInv, LockHeld, Checked, StagingTold, BaselineKept
  <2>3. HasLock(d)' /\ IsTold(d)' /\ OnBaseline(d)'
    BY <2>1, <2>2 DEF HasLock, IsTold, OnBaseline
  <2>4. IsChecked(d)'
    BY <2>1, <2>2 DEF IsChecked, Workspace!At, Workspace!Unprotected
  <2> QED
    BY <2>3, <2>4
<1> QED
  BY <1>2, <1>3 DEF CommitInv, LockHeld, Checked, StagingTold, BaselineKept

LEMMA Crashes ==
  ASSUME Nobody \notin Changes, CommitInv, Workspace!Crash
  PROVE  CommitInv'
<1>1. ASSUME NEW d \in Changes
      PROVE  /\ change'[d] \in Mutations
             /\ HasLock(d)' /\ IsChecked(d)' /\ IsTold(d)' /\ OnBaseline(d)'
  <2>1. PICK n \in Mutations : n = change[d]
    BY DEF CommitInv, ChangesTyped
  <2>2. PICK m \in Mutations : m = [n EXCEPT !.pc = "crashed"]
    BY DEF Mutations, Workspace!Ended
  <2>3. change'[d] = IF n.pc \in Workspace!Ended THEN n ELSE m
    BY <2>1, <2>2 DEF Workspace!Crash
  <2>4. /\ m.pc = "crashed" /\ m.warning = n.warning /\ m.published = n.published
        /\ m.op = n.op /\ m.base = n.base /\ m.over = n.over
    BY <2>2 DEF Mutations
  <2>5. HasLock(d) /\ IsChecked(d) /\ IsTold(d) /\ OnBaseline(d)
    BY DEF CommitInv, LockHeld, Checked, StagingTold, BaselineKept
  <2>6. HasLock(d)'
    BY <2>3, <2>4 DEF HasLock, Workspace!Held, Workspace!Ended, Workspace!Crash
  <2>7. IsChecked(d)'
    BY <2>3, <2>4 DEF IsChecked, Workspace!At, Workspace!Ended
  <2>8. IsTold(d)'
    BY <2>1, <2>3, <2>4, <2>5 DEF IsTold, IsPublished, Workspace!Crash
  <2>9. OnBaseline(d)'
    BY <2>1, <2>3, <2>4, <2>5 DEF OnBaseline
  <2> QED
    BY <2>3, <2>6, <2>7, <2>8, <2>9
<1>2. change' \in [Changes -> Mutations]
  <2>1. change' = [d \in Changes |-> change'[d]]
    BY DEF Workspace!Crash
  <2> QED
    BY <1>1, <2>1
<1>3. ChangesTyped'
  BY <1>2 DEF Workspace!Crash, CommitInv, ChangesTyped
<1> QED
  BY <1>1, <1>3 DEF CommitInv, LockHeld, Checked, StagingTold, BaselineKept

LEMMA CommitStays ==
  ASSUME CommitInv, UNCHANGED workspaceVars
  PROVE  CommitInv'
<1>1. UNCHANGED <<target, edits, moved, lock, change, staging>>
  BY DEF workspaceVars
<1> QED
  BY <1>1 DEF CommitInv, ChangesTyped, LockHeld, Checked, StagingTold, BaselineKept, HasLock, IsChecked,
              IsTold, OnBaseline, Workspace!At

LEMMA CommitKeeps == Nobody \notin Changes /\ CommitInv /\ [Workspace!Next]_workspaceVars => CommitInv'
<1> SUFFICES ASSUME Nobody \notin Changes, CommitInv, [Workspace!Next]_workspaceVars PROVE CommitInv'
  OBVIOUS
<1>1. ASSUME NEW c \in Changes, Workspace!Prepare(c) \/ Workspace!Decide(c) \/ Workspace!Commit(c) \/ Workspace!Cancel(c) PROVE CommitInv'
  BY <1>1, Prepares, Decides, Cancels, Locks, Revalidates, Stages, Creates, Writes,
     LateRevalidates, Publishes, CleansUp, Synchronises DEF Workspace!Commit
<1>2. CASE Workspace!UserEdits \/ Workspace!ParentMoves
  BY <1>2, OthersEdit
<1>3. CASE Workspace!Crash
  BY <1>3, Crashes
<1>4. CASE UNCHANGED workspaceVars
  BY <1>4, CommitStays
<1> QED
  BY <1>1, <1>2, <1>3, <1>4 DEF Workspace!Next

-----------------------------------------------------------------------------
(* The process of a command: what the supervisor knows of it (Commands) and   *)
(* what its helpers change of that.                                           *)

Causes == {"none", "stop", "limit", "pipe", "background", "drain"}
Commands ==
  [phase : {"observing", "reaping", "draining"}, primary : Causes, natural : BOOLEAN,
   armed : BOOLEAN, term : BOOLEAN, kill : BOOLEAN, grace : BOOLEAN, passes : Nat,
   open : 0..2, cut : BOOLEAN, anchor : {"none", "unknown", "exited"},
   hit : {"none", "running", "zombie", "reaped"}]

\* Nothing was done to a command that has no cause yet.
IsQuiet(r) == r.primary = "none" => ~r.term /\ ~r.kill /\ ~r.grace /\ ~r.cut

\* What the helpers leave alone; a signal hits the leader as it is.
Touches(r, s) ==
  /\ s \in Commands
  /\ s.phase = r.phase /\ s.natural = r.natural /\ s.armed = r.armed /\ s.passes = r.passes
  /\ s.hit = r.hit \/ (r.armed /\ s.hit = leader)

LeaderTyped == leader \in {"none", "running", "zombie", "reaped"}

LEMMA ClosesIn ==
  ASSUME LeaderTyped, NEW r \in Commands
  PROVE  LET s == Process!ClosePipes(r)
         IN  /\ Touches(r, s) /\ s.primary = r.primary
             /\ s.term = r.term /\ s.kill = r.kill /\ s.grace = r.grace
             /\ s.hit = r.hit /\ s.open = 0
<1>1. PICK b \in BOOLEAN : b = (r.cut \/ r.open > 0)
  BY DEF Commands
<1>2. Process!ClosePipes(r) = [r EXCEPT !.open = 0, !.cut = b]
  BY <1>1 DEF Process!ClosePipes
<1>4. PICK s : s = [r EXCEPT !.open = 0, !.cut = b]
  OBVIOUS
<1>5. s \in Commands
  <2>1. s.cut \in BOOLEAN /\ s.open \in 0..2
    BY <1>4 DEF Commands
  <2> QED
    BY <1>4, <2>1 DEF Commands
<1>3. /\ s.phase = r.phase /\ s.natural = r.natural /\ s.armed = r.armed
      /\ s.passes = r.passes /\ s.hit = r.hit /\ s.primary = r.primary
      /\ s.term = r.term /\ s.kill = r.kill /\ s.grace = r.grace /\ s.open = 0
  BY <1>4 DEF Commands
<1> QED
  BY <1>2, <1>3, <1>4, <1>5 DEF Touches

LEMMA CausesIn ==
  ASSUME NEW r \in Commands, NEW cause \in Causes \ {"none"}
  PROVE  LET s == Process!Caused(r, cause)
         IN  Touches(r, s) /\ s.primary # "none"
BY DEF Commands, Causes, Process!Caused, Touches

LEMMA KillsIn ==
  ASSUME LeaderTyped, NEW r \in Commands
  PROVE  LET s == Process!Killed(r)
         IN  Touches(r, s) /\ s.primary = r.primary
<1>1. CASE r.kill
  BY <1>1 DEF Process!Killed, Touches
<1>2. CASE ~r.kill
  <2>1. PICK h \in {"none", "running", "zombie", "reaped"} : h = Process!Hit(r)
    BY DEF LeaderTyped, Process!Hit, Commands
  <2>2. Process!Killed(r) = [r EXCEPT !.kill = TRUE, !.grace = FALSE, !.hit = h]
    BY <1>2, <2>1 DEF Process!Killed
  <2>3. h = r.hit \/ (r.armed /\ h = leader)
    BY <2>1 DEF Process!Hit
  <2> QED
    BY <2>2, <2>3 DEF Touches, Commands
<1> QED
  BY <1>1, <1>2

LEMMA TouchesAgain ==
  ASSUME NEW r, NEW s, NEW t, Touches(r, s), Touches(s, t)
  PROVE  Touches(r, t)
BY DEF Touches

LEMMA TermsIn ==
  ASSUME LeaderTyped, NEW r \in Commands
  PROVE  LET s == [r EXCEPT !.term = TRUE, !.grace = TRUE, !.hit = Process!Hit(r)]
         IN  Touches(r, s) /\ s.primary = r.primary
<1>1. PICK h \in {"none", "running", "zombie", "reaped"} : h = Process!Hit(r)
  BY DEF LeaderTyped, Process!Hit, Commands
<1>2. h = r.hit \/ (r.armed /\ h = leader)
  BY <1>1 DEF Process!Hit
<1> QED
  BY <1>1, <1>2 DEF Touches, Commands

LEMMA CleansIn ==
  ASSUME LeaderTyped, NEW r \in Commands
  PROVE  LET s == Process!Cleaned(r)
         IN  Touches(r, s) /\ s.primary = r.primary /\ (r.primary = "none" => s = r)
<1>1. Touches(r, r)
  BY DEF Touches
<1>2. Touches(r, Process!ClosePipes(r)) /\ Process!ClosePipes(r).primary = r.primary
  BY ClosesIn
<1>3. Touches(r, Process!Killed(r)) /\ Process!Killed(r).primary = r.primary
  BY KillsIn
<1> DEFINE k == Process!Killed(r)
<1>4. k \in Commands
  BY <1>3 DEF Touches
<1>5. Touches(k, Process!ClosePipes(k)) /\ Process!ClosePipes(k).primary = k.primary
  <2> HIDE DEF k
  <2> QED
    BY <1>4, ClosesIn
<1>6. Touches(r, Process!ClosePipes(k)) /\ Process!ClosePipes(k).primary = r.primary
  BY <1>3, <1>5, TouchesAgain
<1>7. /\ Touches(r, [r EXCEPT !.term = TRUE, !.grace = TRUE, !.hit = Process!Hit(r)])
      /\ [r EXCEPT !.term = TRUE, !.grace = TRUE, !.hit = Process!Hit(r)].primary = r.primary
  BY TermsIn
<1> HIDE DEF k
<1> QED
  BY <1>1, <1>2, <1>6, <1>7 DEF Process!Cleaned, k

-----------------------------------------------------------------------------
(* The invariant of a command.                                               *)

CommandTyped ==
  /\ stage \in {"setup", "approval", "check", "ready", "running", "lost", "done"}
  /\ outer \in BOOLEAN /\ LeaderTyped /\ run \in Commands
  /\ outcome \in {"none", "not started", "infrastructure", "declined", "quiescent", "lost",
                  "dropped"}

TableTyped ==
  /\ group \subseteq 1..MaxPid
  /\ kernel.last \in 0..MaxPid /\ kernel.wraps \in 0..MaxWraps
  /\ kernel \in [last : 0..MaxPid, wraps : 0..MaxWraps, hiccups : Nat]
  /\ scan \in [on : BOOLEAN, at : 0..MaxPid, live : BOOLEAN]

\* There is nothing of a command that was not started.
NotBegun ==
  /\ stage \in {"setup", "approval", "check", "ready"} =>
       leader = "none" /\ run.hit = "none" /\ IsQuiet(run) /\ run.primary = "none"
  /\ stage \in {"running", "lost"} => leader # "none"
  /\ leader = "none" =>
       group = {} /\ run.phase = "observing" /\ ~run.natural /\ ~run.armed /\ run.passes = 0

\* The guard is disarmed before the leader is reaped, and nobody is left to
\* reap it for before its group is empty.
Guarded ==
  /\ run.armed => leader \in {"running", "zombie"}
  /\ run.hit # "reaped"
  /\ run.natural => leader \in {"zombie", "reaped"}
  /\ run.phase # "observing" => run.natural /\ ~run.armed /\ group = {}
  /\ run.phase = "draining" => leader = "reaped"
  /\ stage = "running" /\ leader = "reaped" => run.phase # "observing"

\* Until something was latched, nothing was signalled, stopped or cut off.
Unstopped == IsQuiet(run) /\ (outer => run.primary # "none")
Reported ==
  /\ stage = "running" => Unstopped
  /\ stage # "done" => outcome = "none"
  /\ outcome = "quiescent" => Unstopped /\ run.phase = "draining"
  /\ outcome \in {"not started", "infrastructure", "declined"} => leader = "none"
  /\ outcome = "lost" => leader = "reaped" /\ ~run.armed

\* A member that a pass misses was born behind it, so that the numbers had
\* started over.
Missed(g) == kernel.wraps = 1 /\ g =< kernel.last
Scans ==
  /\ scan.on => run.natural /\ run.phase = "observing"
  /\ run.passes > 0 => run.natural
  /\ kernel.wraps = 0 => \A g \in group : g =< kernel.last

OnePass == scan.on /\ ~scan.live => \A g \in group : g =< scan.at => Missed(g)
TwoPasses ==
  run.passes > 0 => /\ \A g \in group : Missed(g)
                    /\ scan.on /\ ~scan.live => \A g \in group : g > scan.at

CommandKnown == NotBegun /\ Guarded /\ Reported
TableKnown == Scans /\ OnePass /\ TwoPasses
ProcessInv == CommandTyped /\ TableTyped /\ CommandKnown /\ TableKnown

-----------------------------------------------------------------------------
(* Steps of the command that leave its place, its leader and the table alone. *)

\* What such a step does to the notes.
Follows(r, s) ==
  /\ Touches(r, s)
  /\ IsQuiet(r) => IsQuiet(s)
  /\ r.primary # "none" => s.primary # "none"

Still == UNCHANGED <<leader, group, kernel, scan>>

LEMMA TableStays ==
  ASSUME TableTyped, TableKnown, UNCHANGED <<group, kernel, scan>>,
         run'.passes = run.passes, run'.phase = run.phase, run.natural => run'.natural
  PROVE  TableTyped' /\ TableKnown'
<1>1. TableTyped'
  BY DEF TableTyped
<1>2. Scans'
  BY DEF TableKnown, Scans
<1>3. OnePass'
  BY DEF TableKnown, OnePass, Missed
<1>4. TwoPasses'
  BY DEF TableKnown, TwoPasses, Missed
<1> QED
  BY <1>1, <1>2, <1>3, <1>4 DEF TableKnown

LEMMA CommandStays ==
  ASSUME ProcessInv, stage = "running", Follows(run, run'), Still, UNCHANGED <<stage, outcome>>,
         outer' \in BOOLEAN, outer' => outer \/ run'.primary # "none"
  PROVE  ProcessInv'
<1>1. Touches(run, run')
  BY DEF Follows
<1>2. TableTyped' /\ TableKnown'
  BY <1>1, TableStays DEF Touches, Still, ProcessInv
<1>3. CommandTyped'
  BY <1>1 DEF ProcessInv, CommandTyped, Touches, Still, LeaderTyped
<1>4. NotBegun'
  BY <1>1 DEF ProcessInv, CommandKnown, NotBegun, Touches, Still
<1>5. Guarded'
  BY <1>1 DEF ProcessInv, CommandKnown, Guarded, Touches, Still
<1>6. Reported'
  BY DEF ProcessInv, CommandKnown, CommandTyped, Reported, Unstopped, Follows, Touches, Still
<1> QED
  BY <1>2, <1>3, <1>4, <1>5, <1>6 DEF ProcessInv, CommandKnown

LEMMA FollowsClean ==
  ASSUME LeaderTyped, NEW r, NEW s, Follows(r, s)
  PROVE  Follows(r, Process!Cleaned(s))
<1>1. s \in Commands
  BY DEF Follows, Touches
<1>2. PICK t : t = Process!Cleaned(s)
  OBVIOUS
<1>3. Touches(s, t) /\ t.primary = s.primary /\ (s.primary = "none" => t = s)
  BY <1>1, <1>2, CleansIn
<1>4. Touches(r, t)
  BY <1>3, TouchesAgain DEF Follows
<1> QED
  BY <1>2, <1>3, <1>4 DEF Follows, IsQuiet

LEMMA FollowsCause ==
  ASSUME NEW r \in Commands, NEW cause \in Causes \ {"none"}
  PROVE  Follows(r, Process!Caused(r, cause)) /\ Process!Caused(r, cause).primary # "none"
BY CausesIn DEF Follows, IsQuiet

LEMMA FollowsClose ==
  ASSUME LeaderTyped, NEW r, NEW s, Follows(r, s), s.primary # "none"
  PROVE  Follows(r, Process!ClosePipes(s)) /\ Process!ClosePipes(s).primary # "none"
<1>1. s \in Commands
  BY DEF Follows, Touches
<1>2. PICK t : t = Process!ClosePipes(s)
  OBVIOUS
<1>3. Touches(s, t) /\ t.primary = s.primary
  BY <1>1, <1>2, ClosesIn
<1>4. Touches(r, t)
  BY <1>3, TouchesAgain DEF Follows
<1> QED
  BY <1>2, <1>3, <1>4 DEF Follows, IsQuiet

LEMMA FollowsKill ==
  ASSUME LeaderTyped, NEW r, NEW s, Follows(r, s), s.primary # "none"
  PROVE  Follows(r, Process!Killed(s)) /\ Process!Killed(s).primary # "none"
<1>1. s \in Commands
  BY DEF Follows, Touches
<1>2. PICK t : t = Process!Killed(s)
  OBVIOUS
<1>3. Touches(s, t) /\ t.primary = s.primary
  BY <1>1, <1>2, KillsIn
<1>4. Touches(r, t)
  BY <1>3, TouchesAgain DEF Follows
<1> QED
  BY <1>2, <1>3, <1>4 DEF Follows, IsQuiet

LEMMA FollowsItself ==
  ASSUME NEW r \in Commands PROVE Follows(r, r)
BY DEF Follows, Touches

LEMMA StopsCommand ==
  ASSUME ProcessInv, NEW kind, Process!Stop(kind)
  PROVE  ProcessInv'
<1>1. LeaderTyped /\ run \in Commands
  BY DEF ProcessInv, CommandTyped
<1>2. /\ Follows(run, Process!Caused(run, "stop"))
      /\ Process!Caused(run, "stop").primary # "none"
  BY <1>1, FollowsCause DEF Causes
<1>3. Process!Caused(run, "stop") \in Commands
  BY <1>2 DEF Follows, Touches
<1>4. Follows(run, Process!Cleaned(Process!Caused(run, "stop")))
  BY <1>1, <1>2, FollowsClean
<1>5. run' = Process!Cleaned(Process!Caused(run, "stop"))
  BY DEF Process!Stop
<1>6. run'.primary # "none"
  BY <1>1, <1>2, <1>3, <1>5, CleansIn
<1>7. stage = "running" /\ Still /\ UNCHANGED <<stage, outcome>> /\ outer' \in BOOLEAN
  BY DEF Process!Stop, Still, ProcessInv, CommandTyped
<1> QED
  BY <1>4, <1>5, <1>6, <1>7, CommandStays

LEMMA GraceEnds ==
  ASSUME ProcessInv, Process!Grace
  PROVE  ProcessInv'
<1>1. LeaderTyped /\ run \in Commands /\ stage = "running" /\ run.primary # "none"
  BY DEF ProcessInv, CommandTyped, CommandKnown, Reported, Unstopped, IsQuiet, Process!Grace,
         Process!Running
<1>2. Follows(run, Process!Killed(run))
  BY <1>1, FollowsItself, FollowsKill
<1>3. Follows(run, Process!Cleaned(Process!Killed(run)))
  BY <1>1, <1>2, FollowsClean
<1>4. Still /\ UNCHANGED <<stage, outcome, outer>> /\ outer \in BOOLEAN
  BY DEF Process!Grace, Still, ProcessInv, CommandTyped
<1>5. Follows(run, run')
  BY <1>3 DEF Process!Grace
<1> QED
  BY <1>1, <1>4, <1>5, CommandStays

LEMMA DrainTimesOut ==
  ASSUME ProcessInv, Process!PipeDrainTimeout
  PROVE  ProcessInv'
<1>1. LeaderTyped /\ run \in Commands /\ stage = "running"
  BY DEF ProcessInv, CommandTyped, Process!PipeDrainTimeout, Process!Running
<1>2. /\ Follows(run, Process!Caused(run, "drain"))
      /\ Process!Caused(run, "drain").primary # "none"
  BY <1>1, FollowsCause DEF Causes
<1>3. Follows(run, Process!ClosePipes(Process!Caused(run, "drain")))
  BY <1>1, <1>2, FollowsClose
<1>4. Follows(run, Process!Cleaned(Process!ClosePipes(Process!Caused(run, "drain"))))
  BY <1>1, <1>3, FollowsClean
<1>5. Still /\ UNCHANGED <<stage, outcome, outer>> /\ outer \in BOOLEAN
  BY DEF Process!PipeDrainTimeout, Still, ProcessInv, CommandTyped
<1>6. Follows(run, run')
  BY <1>4 DEF Process!PipeDrainTimeout
<1> QED
  BY <1>1, <1>5, <1>6, CommandStays

LEMMA PipeEnds ==
  ASSUME ProcessInv, Process!HandlePipe
  PROVE  ProcessInv'
<1>1. LeaderTyped /\ run \in Commands /\ stage = "running" /\ run.open \in 1..2
  <2>1. LeaderTyped /\ run \in Commands /\ stage = "running" /\ run.open > 0
    BY DEF ProcessInv, CommandTyped, Process!HandlePipe, Process!Running
  <2>2. run.open \in 0..2
    BY <2>1 DEF Commands
  <2> QED
    BY <2>1, <2>2
<1>2. Still /\ UNCHANGED <<stage, outcome, outer>> /\ outer \in BOOLEAN
  BY DEF Process!HandlePipe, Still, ProcessInv, CommandTyped
<1>3. CASE run' = Process!Cleaned([run EXCEPT !.open = @ - 1])
  <2>1. PICK s : s = [run EXCEPT !.open = @ - 1]
    OBVIOUS
  <2>2. s.open \in 0..2
    BY <1>1, <2>1 DEF Commands
  <2>3. s \in Commands
    BY <1>1, <2>1, <2>2 DEF Commands
  <2>4. Follows(run, s)
    BY <1>1, <2>1, <2>3 DEF Follows, Touches, IsQuiet, Commands
  <2> QED
    BY <1>1, <1>2, <1>3, <2>1, <2>4, FollowsClean, CommandStays
<1>4. CASE run' = Process!Cleaned(Process!Caused([run EXCEPT !.open = @ - 1, !.cut = TRUE], "pipe"))
  <2>1. PICK s : s = [run EXCEPT !.open = @ - 1, !.cut = TRUE]
    OBVIOUS
  <2>2. s.open \in 0..2
    BY <1>1, <2>1 DEF Commands
  <2>3. s \in Commands
    BY <1>1, <2>1, <2>2 DEF Commands
  <2>4. Touches(run, s)
    BY <1>1, <2>1, <2>3 DEF Touches, Commands
  <2>5. PICK t : t = Process!Caused(s, "pipe")
    OBVIOUS
  <2>6. Touches(s, t) /\ t.primary # "none"
    BY <2>3, <2>5, CausesIn DEF Causes
  <2>7. Follows(run, t)
    BY <2>4, <2>6, TouchesAgain DEF Follows, IsQuiet
  <2> QED
    BY <1>1, <1>2, <1>4, <2>1, <2>5, <2>7, FollowsClean, CommandStays
<1>5. CASE run' = Process!Cleaned(Process!ClosePipes(Process!Killed(Process!Caused(run, "limit"))))
  <2>1. /\ Follows(run, Process!Caused(run, "limit"))
        /\ Process!Caused(run, "limit").primary # "none"
    BY <1>1, FollowsCause DEF Causes
  <2>2. /\ Follows(run, Process!Killed(Process!Caused(run, "limit")))
        /\ Process!Killed(Process!Caused(run, "limit")).primary # "none"
    BY <1>1, <2>1, FollowsKill
  <2>3. Follows(run, Process!ClosePipes(Process!Killed(Process!Caused(run, "limit"))))
    BY <1>1, <2>2, FollowsClose
  <2>4. Follows(run, run')
    BY <1>1, <1>5, <2>3, FollowsClean
  <2> QED
    BY <1>1, <1>2, <2>4, CommandStays
<1> QED
  BY <1>3, <1>4, <1>5 DEF Process!HandlePipe

-----------------------------------------------------------------------------
(* Before the process, and its start.                                        *)

LEMMA ProcessBegins ==
  ASSUME Process!Init PROVE ProcessInv
<1>1. run \in Commands
  BY DEF Process!Init, Commands, Causes
<1>2. CommandTyped
  BY <1>1 DEF Process!Init, CommandTyped, LeaderTyped
<1>3. TableTyped
  BY ToolsAssumption DEF Process!Init, TableTyped, Process!NoScan
<1>4. NotBegun
  BY DEF Process!Init, NotBegun, IsQuiet
<1>5. Guarded
  BY DEF Process!Init, Guarded
<1>6. Reported
  BY DEF Process!Init, Reported
<1>7. TableKnown
  BY DEF Process!Init, TableKnown, Scans, OnePass, TwoPasses, Process!NoScan
<1> QED
  BY <1>2, <1>3, <1>4, <1>5, <1>6, <1>7 DEF ProcessInv, CommandKnown

\* No process is left of a command that ends before its start.
LEMMA EndsUnspawned ==
  ASSUME ProcessInv, UNCHANGED run, Still, leader = "none", outer' \in BOOLEAN,
         \/ stage' \in {"setup", "approval", "check", "ready"} /\ outcome' = "none"
              /\ stage \in {"setup", "approval", "check", "ready"}
         \/ stage' = "done" /\ outcome' \in {"not started", "infrastructure", "declined"}
  PROVE  ProcessInv'
<1>1. TableTyped' /\ TableKnown'
  BY TableStays DEF Still, ProcessInv
<1>2. CommandTyped'
  BY DEF ProcessInv, CommandTyped, Still, LeaderTyped
<1>3. NotBegun'
  BY DEF ProcessInv, CommandKnown, NotBegun, Still
<1>4. Guarded'
  BY DEF ProcessInv, CommandKnown, Guarded, Still
<1>5. Reported'
  BY DEF Reported, Still
<1> QED
  BY <1>1, <1>2, <1>3, <1>4, <1>5 DEF ProcessInv, CommandKnown

LEMMA BeforeProcess ==
  ASSUME ProcessInv,
         Process!LatchStop \/ Process!WorkerEnds \/ Process!Decide \/ Process!NotSpawned
  PROVE  ProcessInv'
<1>1. stage \in {"setup", "approval", "check", "ready"}
  BY DEF Process!LatchStop, Process!WorkerEnds, Process!Decide, Process!NotSpawned
<1>2. leader = "none" /\ outcome = "none" /\ outer \in BOOLEAN
  BY <1>1 DEF ProcessInv, CommandKnown, NotBegun, Reported, CommandTyped
<1>3. UNCHANGED run /\ Still
  BY DEF Process!LatchStop, Process!WorkerEnds, Process!Decide, Process!NotSpawned, Still
<1>4. outer' \in BOOLEAN
  BY <1>2 DEF Process!LatchStop, Process!WorkerEnds, Process!Decide, Process!NotSpawned
<1>5. \/ stage' \in {"setup", "approval", "check", "ready"} /\ outcome' = "none"
      \/ stage' = "done" /\ outcome' \in {"not started", "infrastructure", "declined"}
  BY <1>1, <1>2 DEF Process!LatchStop, Process!WorkerEnds, Process!Decide, Process!NotSpawned,
                    Process!Finished
<1> QED
  BY <1>1, <1>2, <1>3, <1>4, <1>5, EndsUnspawned

LEMMA Spawns ==
  ASSUME ProcessInv, Process!Spawn
  PROVE  ProcessInv'
<1>1. /\ run \in Commands /\ leader = "none" /\ group = {} /\ run.phase = "observing"
      /\ ~run.natural /\ run.passes = 0 /\ IsQuiet(run) /\ run.primary = "none"
      /\ outcome = "none"
  BY DEF Process!Spawn, ProcessInv, CommandKnown, CommandTyped, NotBegun, Reported
<1>2. PICK boundary \in {"none", "turn", "action"}, pipesFail \in BOOLEAN :
        LET began == [run EXCEPT !.armed = TRUE, !.open = 2, !.hit = "none",
                                 !.primary = IF boundary = "none" THEN "none" ELSE "stop"]
            piped == IF pipesFail THEN Process!ClosePipes(Process!Caused(began, "pipe")) ELSE began
        IN  /\ outer' = (boundary = "turn")
            /\ run' = IF piped.primary = "none" THEN piped
                      ELSE [piped EXCEPT !.term = TRUE, !.grace = TRUE, !.hit = "running"]
  BY DEF Process!Spawn
<1>3. PICK first \in Causes : first = IF boundary = "none" THEN "none" ELSE "stop"
  BY DEF Causes
<1>4. PICK began : began = [run EXCEPT !.armed = TRUE, !.open = 2, !.hit = "none",
                                      !.primary = first]
  OBVIOUS
<1>5. /\ began \in Commands /\ began.armed /\ began.hit = "none" /\ began.primary = first
      /\ began.phase = "observing" /\ ~began.natural /\ began.passes = 0 /\ IsQuiet(began)
  <2>1. began.open \in 0..2 /\ began.armed = TRUE /\ began.primary \in Causes
    BY <1>1, <1>4 DEF Commands
  <2>2. began \in Commands
    BY <1>1, <1>4, <2>1 DEF Commands
  <2>3. /\ began.hit = "none" /\ began.primary = first
        /\ began.phase = run.phase /\ began.natural = run.natural /\ began.passes = run.passes
        /\ began.term = run.term /\ began.kill = run.kill /\ began.grace = run.grace
        /\ began.cut = run.cut
    BY <1>1, <1>4 DEF Commands
  <2> QED
    BY <1>1, <2>1, <2>2, <2>3 DEF IsQuiet
<1>6. PICK piped : piped = IF pipesFail THEN Process!ClosePipes(Process!Caused(began, "pipe"))
                           ELSE began
  OBVIOUS
<1>7. /\ piped \in Commands /\ piped.armed /\ piped.hit = "none"
      /\ piped.phase = "observing" /\ ~piped.natural /\ piped.passes = 0
      /\ IsQuiet(piped) /\ (began.primary # "none" => piped.primary # "none")
  <2>1. CASE ~pipesFail
    BY <2>1, <1>5, <1>6
  <2>2. CASE pipesFail
    <3>1. PICK caused : caused = Process!Caused(began, "pipe")
      OBVIOUS
    <3>2. Touches(began, caused) /\ caused.primary # "none" /\ caused.hit = began.hit
      BY <1>5, <3>1, CausesIn DEF Causes, Commands, Process!Caused
    <3>3. piped = Process!ClosePipes(caused)
      BY <1>6, <2>2, <3>1
    <3>4. LeaderTyped /\ caused \in Commands
      BY <3>2 DEF Touches, ProcessInv, CommandTyped
    <3>5. Touches(caused, piped) /\ piped.primary = caused.primary /\ piped.hit = caused.hit
      BY <3>3, <3>4, ClosesIn
    <3> QED
      BY <1>5, <3>2, <3>5 DEF Touches, IsQuiet
  <2> QED
    BY <2>1, <2>2
<1>8. PICK termed : termed = [piped EXCEPT !.term = TRUE, !.grace = TRUE, !.hit = "running"]
  OBVIOUS
<1>9. /\ termed \in Commands /\ termed.armed /\ termed.hit = "running"
      /\ termed.phase = "observing" /\ ~termed.natural /\ termed.passes = 0
      /\ termed.primary = piped.primary
  BY <1>7, <1>8 DEF Commands
<1>10. run' = IF piped.primary = "none" THEN piped ELSE termed
  BY <1>2, <1>3, <1>4, <1>6, <1>8
<1>11. /\ run' \in Commands /\ run'.hit \in {"none", "running"}
       /\ run'.phase = "observing" /\ ~run'.natural /\ run'.passes = 0
       /\ IsQuiet(run') /\ (outer' => run'.primary # "none") /\ outer' \in BOOLEAN
  BY <1>2, <1>3, <1>5, <1>7, <1>9, <1>10, ZenonT(40) DEF IsQuiet
<1>12. leader' = "running" /\ stage' = "running" /\ UNCHANGED <<outcome, group, kernel, scan>>
  BY DEF Process!Spawn
<1>13. TableTyped' /\ TableKnown'
  BY <1>1, <1>11, <1>12, TableStays DEF ProcessInv
<1>14. CommandTyped'
  BY <1>1, <1>11, <1>12 DEF CommandTyped, LeaderTyped
<1>15. NotBegun' /\ Guarded'
  BY <1>1, <1>11, <1>12 DEF NotBegun, Guarded
<1>16. Reported'
  BY <1>1, <1>11, <1>12 DEF Reported, Unstopped
<1> QED
  BY <1>13, <1>14, <1>15, <1>16 DEF ProcessInv, CommandKnown

-----------------------------------------------------------------------------
(* The leader, the passes over the table, and the reaping.                   *)

LEMMA SeesLeader ==
  ASSUME ProcessInv, Process!ObserveLeader
  PROVE  ProcessInv'
<1>1. LeaderTyped /\ run \in Commands /\ stage = "running" /\ leader = "zombie"
  BY DEF ProcessInv, CommandTyped, Process!ObserveLeader, Process!Running
<1>2. PICK s : s = [run EXCEPT !.natural = TRUE]
  OBVIOUS
<1>3. /\ s \in Commands /\ s.phase = run.phase /\ s.natural /\ s.armed = run.armed
      /\ s.passes = run.passes /\ s.hit = run.hit /\ s.primary = run.primary
      /\ s.term = run.term /\ s.kill = run.kill /\ s.grace = run.grace /\ s.cut = run.cut
  BY <1>1, <1>2 DEF Commands
<1>4. /\ Touches(s, run') /\ run'.primary = s.primary
      /\ (s.primary = "none" => run' = s)
  BY <1>1, <1>2, <1>3, CleansIn DEF Process!ObserveLeader
<1>5. Still /\ UNCHANGED <<stage, outcome, outer>>
  BY DEF Process!ObserveLeader, Still
<1>6. TableTyped' /\ TableKnown'
  BY <1>3, <1>4, <1>5, TableStays DEF Touches, ProcessInv, Still
<1>7. CommandTyped'
  BY <1>4, <1>5 DEF ProcessInv, CommandTyped, Touches, Still, LeaderTyped
<1>8. NotBegun' /\ Guarded'
  BY <1>1, <1>3, <1>4, <1>5 DEF ProcessInv, CommandKnown, NotBegun, Guarded, Touches, Still
<1>9. Reported'
  BY <1>1, <1>3, <1>4, <1>5 DEF ProcessInv, CommandKnown, Reported, Unstopped, IsQuiet
<1> QED
  BY <1>6, <1>7, <1>8, <1>9 DEF ProcessInv, CommandKnown

\* Steps of the table only.
LEMMA TableSteps ==
  ASSUME ProcessInv, UNCHANGED <<stage, outer, outcome, run, leader>>, TableTyped',
         TableKnown', leader = "none" \/ run.phase # "observing" => group' = {}
  PROVE  ProcessInv'
<1>1. CommandTyped'
  BY DEF ProcessInv, CommandTyped, LeaderTyped
<1>2. NotBegun' /\ Guarded'
  BY DEF ProcessInv, CommandKnown, NotBegun, Guarded
<1>3. Reported'
  BY DEF ProcessInv, CommandKnown, Reported, Unstopped
<1> QED
  BY <1>1, <1>2, <1>3 DEF ProcessInv, CommandKnown

LEMMA ScanBegins ==
  ASSUME ProcessInv, Process!StartScan
  PROVE  ProcessInv'
<1>1. /\ run.phase = "observing" /\ run.natural
      /\ UNCHANGED <<stage, outer, outcome, run, leader, group, kernel>>
  BY DEF Process!StartScan
<1>2. scan' = [on |-> TRUE, at |-> 0, live |-> FALSE]
  BY DEF Process!StartScan, Process!NoScan
<1>3. TableTyped'
  BY <1>1, <1>2, ToolsAssumption DEF ProcessInv, TableTyped
<1>4. \A g \in group : g \in Nat /\ g > 0
  BY ToolsAssumption DEF ProcessInv, TableTyped
<1>5. Scans'
  BY <1>1 DEF ProcessInv, TableKnown, Scans
<1>6. OnePass'
  BY <1>1, <1>2, <1>4 DEF OnePass
<1>7. TwoPasses'
  BY <1>1, <1>2, <1>4 DEF ProcessInv, TableKnown, TwoPasses, Missed
<1>8. leader # "none"
  BY <1>1 DEF ProcessInv, CommandKnown, NotBegun
<1> QED
  BY <1>1, <1>3, <1>5, <1>6, <1>7, <1>8, TableSteps DEF TableKnown

\* An entry at a time: a member that is there is met.
LEMMA ScanGoesOn ==
  ASSUME ProcessInv, Process!ScanEntry
  PROVE  ProcessInv'
<1>1. scan.on /\ scan.at < MaxPid /\ UNCHANGED <<stage, outer, outcome, run, leader, group, kernel>>
  BY DEF Process!ScanEntry
<1>2. PICK live \in BOOLEAN : live = (scan.live \/ scan.at + 1 \in group)
  OBVIOUS
<1>3. scan' = [scan EXCEPT !.at = @ + 1, !.live = live]
  BY <1>2 DEF Process!ScanEntry
<1>4. scan \in [on : BOOLEAN, at : 0..MaxPid, live : BOOLEAN] /\ MaxPid \in Nat
  BY ToolsAssumption DEF ProcessInv, TableTyped
<1>5. scan'.on /\ scan'.at = scan.at + 1 /\ scan'.live = live /\ scan'.at \in 0..MaxPid
  BY <1>1, <1>3, <1>4
<1>6. scan' \in [on : BOOLEAN, at : 0..MaxPid, live : BOOLEAN]
  BY <1>3, <1>4, <1>5
<1>7. TableTyped'
  BY <1>1, <1>6 DEF ProcessInv, TableTyped
<1>8. \A g \in group : g \in Nat
  BY ToolsAssumption DEF ProcessInv, TableTyped
<1>9. Scans'
  BY <1>1 DEF ProcessInv, TableKnown, Scans
<1>10. ASSUME ~live, NEW g \in group
       PROVE  /\ g =< scan'.at => g =< scan.at
              /\ g > scan.at => g > scan'.at
  <2>1. g # scan.at + 1
    BY <1>2, <1>10
  <2>2. g \in Nat /\ scan.at \in Nat
    BY <1>4, <1>8
  <2>3. /\ g =< scan.at + 1 => g =< scan.at
        /\ g > scan.at => g > scan.at + 1
    BY <2>1, <2>2
  <2> QED
    BY <1>5, <2>3
<1>11. OnePass'
  BY <1>1, <1>2, <1>5, <1>10 DEF ProcessInv, TableKnown, OnePass, Missed
<1>12. TwoPasses'
  BY <1>1, <1>2, <1>5, <1>10 DEF ProcessInv, TableKnown, TwoPasses, Missed
<1>13. leader # "none" /\ run.phase = "observing"
  BY <1>1 DEF ProcessInv, CommandKnown, NotBegun, TableKnown, Scans
<1> QED
  BY <1>1, <1>7, <1>9, <1>11, <1>12, <1>13, TableSteps DEF TableKnown

\* Without a pass there is nothing to know of one.
LEMMA NoPass ==
  ASSUME TableTyped, TableKnown, UNCHANGED <<group, kernel>>, scan' = Process!NoScan,
         \A g \in group : run'.passes > 0 => Missed(g),
         run'.passes > 0 => run'.natural
  PROVE  TableTyped' /\ TableKnown'
<1>1. scan' = [on |-> FALSE, at |-> 0, live |-> FALSE]
  BY DEF Process!NoScan
<1>2. TableTyped'
  BY <1>1, ToolsAssumption DEF TableTyped
<1>3. Scans' /\ OnePass'
  BY <1>1 DEF TableKnown, Scans, OnePass
<1>4. TwoPasses'
  BY <1>1 DEF TwoPasses, Missed
<1> QED
  BY <1>2, <1>3, <1>4 DEF TableKnown

LEMMA ScanEnds ==
  ASSUME ProcessInv, Process!ScanEvent
  PROVE  ProcessInv'
<1>1. /\ LeaderTyped /\ run \in Commands /\ stage = "running" /\ scan.on /\ scan.at = MaxPid
      /\ scan' = Process!NoScan /\ UNCHANGED <<stage, outer, outcome, leader, group>>
  BY DEF ProcessInv, CommandTyped, Process!ScanEvent, Process!Running
<1>2. run.natural /\ run.phase = "observing" /\ leader \in {"zombie", "reaped"}
  BY <1>1 DEF ProcessInv, TableKnown, Scans, CommandKnown, Guarded
<1>3. leader = "zombie"
  BY <1>1, <1>2 DEF ProcessInv, CommandKnown, Guarded
<1>4. \A g \in group : g \in Nat /\ g =< MaxPid
  BY ToolsAssumption DEF ProcessInv, TableTyped
<1>5. Unstopped /\ outcome = "none" /\ outer \in BOOLEAN
  BY <1>1 DEF ProcessInv, CommandKnown, Reported, CommandTyped
<1> DEFINE reset == [run EXCEPT !.passes = 0]
           passed == [run EXCEPT !.passes = @ + 1]
<1>6. PICK r \in Commands : r = reset
  BY <1>1 DEF Commands
<1>7. /\ r.phase = run.phase /\ r.natural = run.natural /\ r.armed = run.armed /\ r.passes = 0
      /\ r.hit = run.hit /\ r.primary = run.primary /\ IsQuiet(r)
  BY <1>1, <1>5, <1>6 DEF Commands, IsQuiet, Unstopped
<1>8. ASSUME Touches(r, run'), IsQuiet(run'), r.primary # "none" => run'.primary # "none",
             TableTyped', TableKnown'
      PROVE  ProcessInv'
  <2>1. CommandTyped'
    BY <1>1, <1>8 DEF ProcessInv, CommandTyped, Touches, LeaderTyped
  <2>2. NotBegun' /\ Guarded'
    BY <1>1, <1>3, <1>2, <1>7, <1>8 DEF ProcessInv, CommandKnown, NotBegun, Guarded, Touches
  <2>3. Reported'
    BY <1>1, <1>5, <1>7, <1>8 DEF Reported, Unstopped
  <2> QED
    BY <1>8, <2>1, <2>2, <2>3 DEF ProcessInv, CommandKnown
<1>9. CASE run' = Process!Cleaned(Process!Caused(r, "background")) /\ UNCHANGED kernel
  <2>1. Follows(r, Process!Caused(r, "background"))
    BY FollowsCause DEF Causes
  <2>2. Follows(r, run')
    BY <1>1, <1>9, <2>1, FollowsClean
  <2>3. run'.passes = 0
    BY <1>7, <2>2 DEF Follows, Touches
  <2>4. TableTyped' /\ TableKnown'
    BY <1>1, <1>9, <2>3, NoPass DEF ProcessInv
  <2> QED
    BY <1>7, <1>8, <2>2, <2>4 DEF Follows
<1>10. CASE /\ kernel' = [kernel EXCEPT !.hiccups = @ + 1]
            /\ run' = Process!Cleaned(r)
  <2>1. Follows(r, r)
    BY FollowsItself
  <2>2. Follows(r, run')
    BY <1>1, <1>10, <2>1, FollowsClean
  <2>3. run'.passes = 0
    BY <1>7, <2>2 DEF Follows, Touches
  <2>4. /\ kernel'.last = kernel.last /\ kernel'.wraps = kernel.wraps
        /\ kernel' \in [last : 0..MaxPid, wraps : 0..MaxWraps, hiccups : Nat]
    BY <1>10 DEF ProcessInv, TableTyped
  <2>5. scan' = [on |-> FALSE, at |-> 0, live |-> FALSE]
    BY <1>1 DEF Process!NoScan
  <2>6. TableTyped'
    BY <1>1, <2>4, <2>5, ToolsAssumption DEF ProcessInv, TableTyped
  <2>7. TableKnown'
    BY <1>1, <2>3, <2>4, <2>5 DEF ProcessInv, TableKnown, Scans, OnePass, TwoPasses
  <2> QED
    BY <1>7, <1>8, <2>2, <2>6, <2>7 DEF Follows
<1>11. CASE ~scan.live /\ run' = Process!Cleaned(Process!AfterComplete) /\ UNCHANGED kernel
  <2>1. PICK p \in Commands : p = passed
    <3>1. PICK n \in Nat : n = run.passes + 1
      BY <1>1 DEF Commands
    <3>2. passed = [run EXCEPT !.passes = n]
      BY <3>1
    <3>3. [run EXCEPT !.passes = n] \in Commands
      BY <1>1 DEF Commands
    <3> QED
      BY <3>2, <3>3
  <2>2. /\ p.phase = run.phase /\ p.natural = run.natural /\ p.armed = run.armed
        /\ p.passes = run.passes + 1 /\ p.hit = run.hit /\ p.primary = run.primary
        /\ p.term = run.term /\ p.kill = run.kill /\ p.grace = run.grace /\ p.cut = run.cut
        /\ run.passes \in Nat
    BY <1>1, <2>1 DEF Commands
  <2>3. IsQuiet(p)
    BY <1>5, <2>2 DEF IsQuiet, Unstopped
  <2>4. \A g \in group : Missed(g) /\ run.passes = 0
    <3>1. \A g \in group : Missed(g)
      BY <1>1, <1>4, <1>11 DEF ProcessInv, TableKnown, OnePass
    <3>2. run.passes > 0 => group = {}
      BY <1>1, <1>4, <1>11, ToolsAssumption DEF ProcessInv, TableKnown, TwoPasses
    <3> QED
      BY <2>2, <3>1, <3>2
  <2>5. CASE ~Process!EnoughPasses(p.passes)
    <3>1. run' = Process!Cleaned(p)
      BY <1>11, <2>1, <2>5 DEF Process!AfterComplete
    <3>2. Follows(p, run')
      BY <1>1, <3>1, FollowsItself, FollowsClean
    <3>3. Touches(p, run') /\ IsQuiet(run') /\ (p.primary # "none" => run'.primary # "none")
      BY <2>3, <3>2 DEF Follows
    <3>4. TableTyped' /\ TableKnown'
      BY <1>1, <1>2, <1>11, <2>2, <2>4, <3>3, NoPass DEF ProcessInv, Touches
    <3>5. CommandTyped'
      BY <1>1, <3>3 DEF ProcessInv, CommandTyped, Touches, LeaderTyped
    <3>6. NotBegun' /\ Guarded'
      BY <1>1, <1>3, <1>2, <2>2, <3>3
         DEF ProcessInv, CommandKnown, NotBegun, Guarded, Touches
    <3>7. Reported'
      BY <1>1, <1>5, <2>2, <3>3 DEF Reported, Unstopped
    <3> QED
      BY <3>4, <3>5, <3>6, <3>7 DEF ProcessInv, CommandKnown
  <2>6. CASE Process!EnoughPasses(p.passes)
    <3>1. group = {}
      BY <2>2, <2>4, <2>6 DEF Process!EnoughPasses
    <3>2. PICK e \in Commands : e = [p EXCEPT !.armed = FALSE, !.grace = FALSE, !.phase = "reaping"]
      BY DEF Commands
    <3>3. /\ e.phase = "reaping" /\ e.natural = run.natural /\ ~e.armed /\ e.hit = run.hit
          /\ e.primary = run.primary /\ IsQuiet(e)
      BY <2>2, <2>3, <3>2 DEF Commands, IsQuiet
    <3>4. e = Process!BeginReap(p)
      BY <3>2 DEF Process!BeginReap, Process!Disarmed, Commands
    <3>5. run' = Process!Cleaned(e)
      BY <1>11, <2>1, <2>6, <3>4 DEF Process!AfterComplete
    <3>6. Follows(e, run')
      BY <1>1, <3>5, FollowsItself, FollowsClean
    <3>7. Touches(e, run') /\ IsQuiet(run') /\ (e.primary # "none" => run'.primary # "none")
      BY <3>3, <3>6 DEF Follows
    <3>8. TableTyped' /\ TableKnown'
      BY <1>1, <1>2, <1>11, <3>1, <3>3, <3>7, NoPass DEF ProcessInv, Touches
    <3>9. CommandTyped'
      BY <1>1, <3>7 DEF ProcessInv, CommandTyped, Touches, LeaderTyped
    <3>10. NotBegun' /\ Guarded'
      BY <1>1, <1>3, <1>2, <3>1, <3>3, <3>7
         DEF ProcessInv, CommandKnown, NotBegun, Guarded, Touches
    <3>11. Reported'
      BY <1>1, <1>5, <3>3, <3>7 DEF Reported, Unstopped
    <3> QED
      BY <3>8, <3>9, <3>10, <3>11 DEF ProcessInv, CommandKnown
  <2> QED
    BY <2>5, <2>6
<1> QED
  BY <1>6, <1>9, <1>10, <1>11 DEF Process!ScanEvent

LEMMA Reaps ==
  ASSUME ProcessInv, Process!ReapJob
  PROVE  ProcessInv'
<1>1. /\ run.phase = "reaping" /\ leader = "zombie" /\ leader' = "reaped"
      /\ UNCHANGED <<stage, outer, outcome, run, group, kernel, scan>>
  BY DEF Process!ReapJob
<1>2. TableTyped' /\ TableKnown'
  BY <1>1, TableStays DEF ProcessInv
<1>3. CommandTyped'
  BY <1>1 DEF ProcessInv, CommandTyped, LeaderTyped
<1>4. NotBegun' /\ Guarded'
  BY <1>1 DEF ProcessInv, CommandKnown, NotBegun, Guarded
<1>5. Reported'
  BY <1>1 DEF ProcessInv, CommandKnown, Reported, Unstopped
<1> QED
  BY <1>2, <1>3, <1>4, <1>5 DEF ProcessInv, CommandKnown

\* A change of phase, or of what is known of a lost leader, in a pass or not.
LEMMA ReapSeen ==
  ASSUME ProcessInv, Process!ReapEvent
  PROVE  ProcessInv'
<1>1. /\ LeaderTyped /\ run \in Commands /\ stage = "running" /\ run.phase = "reaping"
      /\ leader = "reaped" /\ Still /\ UNCHANGED <<stage, outcome, outer>>
  BY DEF ProcessInv, CommandTyped, Process!ReapEvent, Process!Running, Still
<1>2. PICK s \in Commands : s = [run EXCEPT !.phase = "draining"]
  BY <1>1 DEF Commands
<1>3. /\ s.phase = "draining" /\ s.natural = run.natural /\ s.armed = run.armed
      /\ s.passes = run.passes /\ s.hit = run.hit /\ s.primary = run.primary
      /\ s.term = run.term /\ s.kill = run.kill /\ s.grace = run.grace /\ s.cut = run.cut
  BY <1>1, <1>2 DEF Commands
<1>4. run' = Process!Cleaned(s)
  BY <1>2 DEF Process!ReapEvent
<1>5. Follows(s, run')
  BY <1>1, <1>4, FollowsItself, FollowsClean
<1>6. Touches(s, run') /\ (s.primary # "none" => run'.primary # "none")
      /\ (IsQuiet(s) => IsQuiet(run'))
  BY <1>5 DEF Follows
<1>7. run.natural /\ group = {} /\ ~run.armed /\ ~scan.on
  BY <1>1 DEF ProcessInv, CommandKnown, Guarded, TableKnown, Scans
<1>8. TableTyped'
  BY <1>1 DEF ProcessInv, TableTyped, Still
<1>9. TableKnown'
  BY <1>1, <1>3, <1>6, <1>7 DEF TableKnown, Scans, OnePass, TwoPasses, Touches, Still
<1>10. CommandTyped'
  BY <1>1, <1>6 DEF ProcessInv, CommandTyped, LeaderTyped, Touches, Still
<1>11. NotBegun' /\ Guarded'
  BY <1>1, <1>3, <1>6, <1>7 DEF ProcessInv, CommandKnown, NotBegun, Guarded, Touches, Still
<1>12. Reported'
  BY <1>1, <1>3, <1>6 DEF ProcessInv, CommandKnown, Reported, Unstopped, IsQuiet
<1> QED
  BY <1>8, <1>9, <1>10, <1>11, <1>12 DEF ProcessInv, CommandKnown

LEMMA Reports ==
  ASSUME ProcessInv, Process!FinishReport
  PROVE  ProcessInv'
<1>1. /\ stage = "running" /\ run.phase = "draining" /\ stage' = "done"
      /\ outcome' = "quiescent" /\ Still /\ UNCHANGED <<run, outer>>
  BY DEF Process!FinishReport, Process!Drained, Process!Finished, Still
<1>2. TableTyped' /\ TableKnown'
  BY <1>1, TableStays DEF ProcessInv, Still
<1>3. CommandTyped'
  BY <1>1 DEF ProcessInv, CommandTyped, LeaderTyped, Still
<1>4. NotBegun' /\ Guarded'
  BY <1>1 DEF ProcessInv, CommandKnown, NotBegun, Guarded, Still
<1>5. Reported'
  BY <1>1 DEF ProcessInv, CommandKnown, Reported, Unstopped
<1> QED
  BY <1>2, <1>3, <1>4, <1>5 DEF ProcessInv, CommandKnown

-----------------------------------------------------------------------------
(* A lost or dropped command.                                                *)

\* Once nobody will report a quiescent command, only the guard matters.
LEMMA LeaderLost ==
  ASSUME ProcessInv, stage' # "running", outer' \in BOOLEAN, Touches(run, run'),
         UNCHANGED <<leader, group, kernel>>,
         scan' = scan \/ scan' = Process!NoScan,
         stage \in {"running", "lost"}, outcome = "none",
         \/ stage' = "lost" /\ outcome' = outcome
         \/ stage' = "done" /\ outcome' = "dropped"
  PROVE  ProcessInv'
<1>1. TableTyped' /\ TableKnown'
  <2>1. CASE scan' = scan
    BY <2>1, TableStays DEF Touches, ProcessInv
  <2>2. CASE scan' = Process!NoScan
    <3>1. \A g \in group : run.passes > 0 => Missed(g)
      BY DEF ProcessInv, TableKnown, TwoPasses
    <3>2. run.passes > 0 => run.natural
      BY DEF ProcessInv, TableKnown, Scans
    <3> QED
      BY <2>2, <3>1, <3>2, NoPass DEF Touches, ProcessInv
  <2> QED
    BY <2>1, <2>2
<1>2. CommandTyped'
  BY DEF ProcessInv, CommandTyped, LeaderTyped, Touches
<1>3. NotBegun' /\ Guarded'
  BY DEF ProcessInv, CommandKnown, NotBegun, Guarded, Touches
<1>4. Reported'
  BY DEF ProcessInv, CommandKnown, Reported
<1> QED
  BY <1>1, <1>2, <1>3, <1>4 DEF ProcessInv, CommandKnown

LEMMA LosesOwnership ==
  ASSUME ProcessInv, Process!LoseOwnership
  PROVE  ProcessInv'
<1>1. /\ LeaderTyped /\ run \in Commands /\ stage = "running" /\ stage' = "lost"
      /\ outcome = "none" /\ UNCHANGED <<outer, outcome, leader, group, kernel>>
      /\ outer \in BOOLEAN
  BY DEF ProcessInv, CommandTyped, CommandKnown, Reported, Process!LoseOwnership, Process!Running
<1>2. scan' = scan \/ scan' = Process!NoScan
  BY DEF Process!LoseOwnership
<1>3. PICK anchor \in {"unknown", "exited"} :
        run' = [Process!ClosePipes(run) EXCEPT !.anchor = anchor]
  BY DEF Process!LoseOwnership
<1>4. PICK s : s = Process!ClosePipes(run)
  OBVIOUS
<1>5. Touches(run, s)
  BY <1>1, <1>4, ClosesIn
<1>6. run' = [s EXCEPT !.anchor = anchor] /\ s \in Commands
  BY <1>3, <1>4, <1>5 DEF Touches
<1>7. Touches(s, run')
  BY <1>6 DEF Touches, Commands
<1>8. Touches(run, run')
  BY <1>5, <1>7, TouchesAgain
<1> QED
  BY <1>1, <1>2, <1>8, LeaderLost

LEMMA LatchesWhileLost ==
  ASSUME ProcessInv, Process!LatchWhileLost
  PROVE  ProcessInv'
<1>1. /\ run \in Commands /\ stage = "lost" /\ outcome = "none" /\ outer' \in BOOLEAN
      /\ UNCHANGED <<stage, outcome, leader, group, kernel, scan>>
  BY DEF ProcessInv, CommandTyped, CommandKnown, Reported, Process!LatchWhileLost
<1>2. Touches(run, run')
  BY <1>1, CausesIn DEF Process!LatchWhileLost, Causes
<1> QED
  BY <1>1, <1>2, LeaderLost

LEMMA JoinsScan ==
  ASSUME ProcessInv, Process!JoinScan
  PROVE  ProcessInv'
<1>1. /\ run \in Commands /\ stage = "lost" /\ outcome = "none" /\ outer' \in BOOLEAN
      /\ UNCHANGED <<stage, outcome, run, leader, group, kernel>> /\ scan' = Process!NoScan
  BY DEF ProcessInv, CommandTyped, CommandKnown, Reported, Process!JoinScan
<1>2. Touches(run, run')
  BY <1>1 DEF Touches
<1> QED
  BY <1>1, <1>2, LeaderLost

LEMMA FinishesLost ==
  ASSUME ProcessInv, Process!FinishLost
  PROVE  ProcessInv'
<1>1. /\ LeaderTyped /\ run \in Commands /\ stage = "lost" /\ outer \in BOOLEAN
      /\ leader # "none"
      /\ stage' = "done" /\ outcome' = "lost" /\ leader' = "reaped"
      /\ UNCHANGED <<outer, group, kernel, scan>>
  BY DEF ProcessInv, CommandTyped, CommandKnown, NotBegun, Process!FinishLost, Process!Finished
<1>2. PICK s : s = IF run.anchor = "exited" THEN Process!Killed(run) ELSE run
  OBVIOUS
<1>3. Touches(run, s)
  BY <1>1, <1>2, KillsIn DEF Touches
<1>4. run' = [s EXCEPT !.armed = FALSE, !.grace = FALSE] /\ s \in Commands
  BY <1>2, <1>3 DEF Process!FinishLost, Process!Disarmed, Touches
<1>5. /\ run' \in Commands /\ run'.phase = run.phase /\ run'.natural = run.natural
      /\ run'.passes = run.passes /\ ~run'.armed
      /\ run'.hit = run.hit \/ (run.armed /\ run'.hit = leader)
  BY <1>3, <1>4 DEF Touches, Commands
<1>6. TableTyped' /\ TableKnown'
  BY <1>1, <1>5, TableStays DEF ProcessInv
<1>7. CommandTyped'
  BY <1>1, <1>5 DEF CommandTyped, LeaderTyped
<1>8. NotBegun' /\ Guarded'
  BY <1>1, <1>5 DEF ProcessInv, CommandKnown, NotBegun, Guarded
<1>9. Reported'
  BY <1>1, <1>5 DEF Reported
<1> QED
  BY <1>6, <1>7, <1>8, <1>9 DEF ProcessInv, CommandKnown

LEMMA Drops ==
  ASSUME ProcessInv, Process!DropFuture
  PROVE  ProcessInv'
<1>1. /\ LeaderTyped /\ run \in Commands /\ stage \in {"running", "lost"} /\ outer' \in BOOLEAN
      /\ outcome = "none" /\ stage' = "done" /\ outcome' = "dropped"
      /\ UNCHANGED <<leader, group, kernel, scan>>
  BY DEF ProcessInv, CommandTyped, CommandKnown, Reported, Process!DropFuture, Process!Finished
<1>2. Touches(run, run')
  <2>1. PICK h \in {"none", "running", "zombie", "reaped"} : h = Process!Hit(run)
    BY <1>1 DEF LeaderTyped, Process!Hit, Commands
  <2>2. h = run.hit \/ (run.armed /\ h = leader)
    BY <2>1 DEF Process!Hit
  <2>3. run' = run \/ run' = [run EXCEPT !.kill = TRUE, !.grace = FALSE, !.hit = h]
    BY <2>1 DEF Process!DropFuture
  <2>4. Touches(run, run)
    BY <1>1 DEF Touches
  <2>5. ASSUME run' = [run EXCEPT !.kill = TRUE, !.grace = FALSE, !.hit = h]
        PROVE  Touches(run, run')
    BY <1>1, <2>2, <2>5 DEF Touches, Commands
  <2> QED
    BY <2>3, <2>4, <2>5
<1> QED
  BY <1>1, <1>2, LeaderLost

-----------------------------------------------------------------------------
(* The processes of the group.                                               *)

\* A new member is born ahead of the pass, or the numbers start over for it.
LEMMA Forks ==
  ASSUME ProcessInv, Process!Fork
  PROVE  ProcessInv'
<1>1. /\ leader = "running" \/ group # {}
      /\ UNCHANGED <<stage, outer, outcome, run, leader, scan>>
  BY DEF Process!Fork, Process!Alive
<1>2. PICK pid \in (1..MaxPid) \ group :
        LET wraps == IF pid > kernel.last THEN kernel.wraps ELSE kernel.wraps + 1
        IN  /\ wraps =< MaxWraps /\ group' = group \cup {pid}
            /\ kernel' = [kernel EXCEPT !.last = pid, !.wraps = wraps]
  BY DEF Process!Fork
<1>3. PICK wraps : wraps = IF pid > kernel.last THEN kernel.wraps ELSE kernel.wraps + 1
  OBVIOUS
<1>4. /\ kernel \in [last : 0..MaxPid, wraps : 0..MaxWraps, hiccups : Nat]
      /\ MaxPid \in Nat /\ MaxWraps \in {0, 1} /\ pid \in 1..MaxPid
      /\ kernel.last \in Nat /\ kernel.wraps \in {0, 1}
  BY ToolsAssumption DEF ProcessInv, TableTyped
<1>5. wraps \in 0..MaxWraps /\ wraps =< 1
  BY <1>2, <1>3, <1>4
<1>6. kernel' = [kernel EXCEPT !.last = pid, !.wraps = wraps] /\ group' = group \cup {pid}
  BY <1>2, <1>3
<1>7. /\ kernel'.last = pid /\ kernel'.wraps = wraps
      /\ kernel' \in [last : 0..MaxPid, wraps : 0..MaxWraps, hiccups : Nat]
  <2>1. kernel'.last = pid /\ kernel'.wraps = wraps /\ pid \in 0..MaxPid
    BY <1>4, <1>6
  <2> QED
    BY <1>4, <1>5, <1>6, <2>1
<1>8. TableTyped'
  BY <1>1, <1>2, <1>6, <1>7 DEF ProcessInv, TableTyped
<1>9. scan.at \in Nat /\ pid \in Nat /\ \A g \in group : g \in Nat
  BY <1>4 DEF ProcessInv, TableTyped
<1>10. kernel.wraps = 0 => \A g \in group : g =< kernel.last
  BY DEF ProcessInv, TableKnown, Scans
<1>11. \/ wraps = kernel.wraps /\ pid > kernel.last
       \/ wraps = 1 /\ kernel.wraps = 0
  BY <1>3, <1>4, <1>5
<1>12. wraps = 0 => \A g \in group' : g =< pid
  BY <1>4, <1>6, <1>9, <1>10, <1>11
<1>13. Scans'
  BY <1>1, <1>7, <1>12 DEF ProcessInv, TableKnown, Scans
<1>14. scan.on \/ run.passes > 0 => run.natural /\ group # {}
  BY <1>1 DEF ProcessInv, TableKnown, Scans, CommandKnown, Guarded
<1>15. OnePass'
  <2> SUFFICES ASSUME scan.on, ~scan.live, NEW g \in group', g =< scan.at
               PROVE  wraps = 1 /\ g =< pid
    BY <1>1, <1>6, <1>7 DEF OnePass, Missed
  <2>1. OnePass
    BY DEF ProcessInv, TableKnown
  <2>2. CASE g \in group
    <3>1. kernel.wraps = 1 /\ g =< kernel.last
      BY <2>1, <2>2 DEF OnePass, Missed
    <3> QED
      BY <1>4, <1>9, <1>11, <2>2, <3>1
  <2>3. CASE g = pid
    <3>1. PICK parent \in group : TRUE
      BY <1>14
    <3>2. CASE kernel.wraps = 1
      BY <1>9, <1>11, <2>3, <3>2
    <3>3. CASE kernel.wraps = 0
      <4>1. parent > scan.at /\ parent =< kernel.last
        BY <1>9, <1>10, <2>1, <3>3 DEF OnePass, Missed
      <4> QED
        BY <1>4, <1>9, <1>11, <2>3, <4>1
    <3> QED
      BY <1>4, <3>2, <3>3
  <2> QED
    BY <1>6, <2>2, <2>3
<1>16. TwoPasses'
  <2> SUFFICES ASSUME run.passes > 0
               PROVE  /\ wraps = 1 /\ \A g \in group' : g =< pid
                      /\ scan.on /\ ~scan.live => \A g \in group' : g > scan.at
    BY <1>1, <1>7 DEF TwoPasses, Missed
  <2>1. /\ \A g \in group : kernel.wraps = 1 /\ g =< kernel.last
        /\ scan.on /\ ~scan.live => \A g \in group : g > scan.at
    BY DEF ProcessInv, TableKnown, TwoPasses, Missed
  <2>2. PICK parent \in group : TRUE
    BY <1>14
  <2>3. wraps = 1 /\ pid > kernel.last
    BY <1>4, <1>11, <2>1, <2>2
  <2>4. \A g \in group' : g =< pid
    BY <1>4, <1>6, <1>9, <2>1, <2>3
  <2>5. scan.on /\ ~scan.live => pid > scan.at
    BY <1>4, <1>9, <2>1, <2>2, <2>3
  <2> QED
    BY <1>6, <2>1, <2>3, <2>4, <2>5
<1>17. leader # "none" /\ run.phase = "observing"
  BY <1>1 DEF ProcessInv, CommandKnown, NotBegun, Guarded
<1> QED
  BY <1>1, <1>8, <1>13, <1>15, <1>16, <1>17, TableSteps DEF TableKnown

LEMMA MembersExit ==
  ASSUME ProcessInv, NEW pid, Process!MemberExits(pid)
  PROVE  ProcessInv'
<1>1. group' \subseteq group /\ UNCHANGED <<stage, outer, outcome, run, leader, kernel, scan>>
  BY DEF Process!MemberExits
<1>2. TableTyped'
  BY <1>1 DEF ProcessInv, TableTyped
<1>3. Scans'
  BY <1>1 DEF ProcessInv, TableKnown, Scans
<1>4. OnePass' /\ TwoPasses'
  BY <1>1 DEF ProcessInv, TableKnown, OnePass, TwoPasses, Missed
<1>5. leader = "none" \/ run.phase # "observing" => group' = {}
  BY <1>1 DEF ProcessInv, CommandKnown, NotBegun, Guarded
<1> QED
  BY <1>1, <1>2, <1>3, <1>4, <1>5, TableSteps DEF TableKnown

LEMMA LeaderEnds ==
  ASSUME ProcessInv, Process!LeaderExits
  PROVE  ProcessInv'
<1>1. /\ leader = "running" /\ leader' = "zombie"
      /\ UNCHANGED <<stage, outer, outcome, run, group, kernel, scan>>
  BY DEF Process!LeaderExits
<1>2. TableTyped' /\ TableKnown'
  BY <1>1, TableStays DEF ProcessInv
<1>3. CommandTyped'
  BY <1>1 DEF ProcessInv, CommandTyped, LeaderTyped
<1>4. NotBegun' /\ Guarded'
  BY <1>1 DEF ProcessInv, CommandKnown, NotBegun, Guarded
<1>5. Reported'
  BY <1>1 DEF ProcessInv, CommandKnown, Reported, Unstopped
<1> QED
  BY <1>2, <1>3, <1>4, <1>5 DEF ProcessInv, CommandKnown

LEMMA ProcessStays ==
  ASSUME ProcessInv, UNCHANGED processVars
  PROVE  ProcessInv'
<1>1. UNCHANGED <<stage, outer, outcome, run, leader, group, kernel, scan>>
  BY DEF processVars
<1>2. leader = "none" \/ run.phase # "observing" => group' = {}
  BY <1>1 DEF ProcessInv, CommandKnown, NotBegun, Guarded
<1>3. TableTyped' /\ TableKnown'
  BY <1>1, TableStays DEF ProcessInv
<1> QED
  BY <1>1, <1>2, <1>3, TableSteps

LEMMA ProcessKeeps == ProcessInv /\ [Process!Next]_processVars => ProcessInv'
<1> SUFFICES ASSUME ProcessInv, [Process!Next]_processVars PROVE ProcessInv'
  OBVIOUS
<1>1. CASE Process!Before
  BY <1>1, BeforeProcess, Spawns DEF Process!Before
<1>2. CASE Process!Stops
  BY <1>2, StopsCommand DEF Process!Stops
<1>3. CASE Process!Events
  BY <1>3, GraceEnds, DrainTimesOut, PipeEnds, SeesLeader, ScanBegins, ScanEnds, ReapSeen,
     Reports DEF Process!Events
<1>4. CASE Process!Jobs
  BY <1>4, ScanGoesOn, Reaps DEF Process!Jobs
<1>5. CASE Process!Lost
  BY <1>5, LosesOwnership, LatchesWhileLost, JoinsScan, FinishesLost DEF Process!Lost
<1>6. CASE Process!DropFuture
  BY <1>6, Drops
<1>7. CASE Process!Processes
  BY <1>7, Forks, LeaderEnds, MembersExit DEF Process!Processes
<1>8. CASE UNCHANGED processVars
  BY <1>8, ProcessStays
<1> QED
  BY <1>1, <1>2, <1>3, <1>4, <1>5, <1>6, <1>7, <1>8 DEF Process!Next

LEMMA ProcessTells == ProcessInv => Process!ProcessOutcome
<1> SUFFICES ASSUME ProcessInv PROVE Process!ProcessOutcome
  OBVIOUS
<1>1. Process!SignalsOwnGroup
  BY DEF ProcessInv, CommandTyped, CommandKnown, Guarded, Commands, Process!SignalsOwnGroup
<1>2. Process!ReportIsTrue
  BY DEF ProcessInv, CommandTyped, CommandKnown, Guarded, Reported, Unstopped, IsQuiet,
         Process!ReportIsTrue
<1> QED
  BY <1>1, <1>2 DEF Process!ProcessOutcome

-----------------------------------------------------------------------------
(* A managed plugin: the invariant of its thread, its queue and its calls.   *)

CallRecords ==
  [pc : {"idle", "passed", "waiting", "answered"}, due : SUBSET {"cancel", "deadline"},
   answer : Plugin!Answers \cup {"none"}]

Threads ==
  [pc : {"spawn", "hello", "flag", "announce", "loop", "pump", "write", "result", "grace",
         "cleanup", "settle", "finished", "gone"},
   mode : {"none", "close", "term", "kill"}, then : {"none", "shutdown", "finish", "answer"},
   call : Calls \cup {NoCall}, evidence : {"no", "part", "all"},
   stop : {"none", "caller", "deadline"},
   fault : {"none", "Protocol", "Process", "OutputLimit", "OwnershipLost", "WriteTimeout"},
   flag : BOOLEAN, report : {"none", "lost", "quiet"}]

PluginTyped ==
  /\ call \in [Calls -> CallRecords] /\ wire \in [Calls -> {"no", "part", "all"}]
  /\ shutdown \in BOOLEAN
  /\ peer \in [leader : {"none", "running", "zombie", "reaped"}, kids : BOOLEAN]

\* A call is queued once, and not while it is driven.
Queued ==
  /\ queue \in Seq(Calls)
  /\ \A i, j \in 1..Len(queue) : queue[i] = queue[j] => i = j
  /\ actor.call \notin Plugin!Range(queue)

\* Nothing of the plugin is left.
AtRest == peer.leader = "reaped" /\ ~peer.kids

\* The thread has a call from taking it to telling its outcome, and what it
\* knows of the peer is true.
Driven ==
  /\ actor \in Threads
  /\ actor.pc \in {"write", "result", "grace"} => actor.call # NoCall
  /\ actor.pc \in {"result", "grace"} => actor.evidence = "all"
  /\ actor.pc \in {"cleanup", "settle"} =>
       actor.then # "none" /\ (actor.then = "answer" <=> actor.call # NoCall)
  /\ actor.pc \notin {"write", "result", "grace", "cleanup", "settle"} => actor.call = NoCall
  /\ actor.call = NoCall => actor.evidence = "no"
  /\ actor.pc = "cleanup" => actor.mode # "none"
  /\ actor.pc = "settle" => actor.report # "none"

PeerKnown ==
  /\ actor.pc = "settle" /\ actor.report = "quiet" => AtRest
  /\ actor.pc = "spawn" => peer.leader = "none"

\* One call: it is held while it waits, its dispatch is what the thread has
\* noted, and its answer fits what was written.
IsHeld(c) == call[c].pc = "waiting" <=> (c \in Plugin!Range(queue) \/ c = actor.call)
IsNoted(c) ==
  call[c].pc # "answered" => wire[c] = IF c = actor.call THEN actor.evidence ELSE "no"
Suits(c, answer) ==
  /\ Plugin!Recorded(answer) \in {"not started", "infrastructure"} => wire[c] = "no"
  /\ answer \in {"Settled", "InvalidOutput", "StoppedAfter"} => wire[c] = "all"
  /\ answer = "Unknown" => wire[c] # "no" /\ AtRest
IsAnswered(c) ==
  call[c].pc = "answered" => call[c].answer \in Plugin!Answers /\ Suits(c, call[c].answer)

CallsKnown == \A c \in Calls : IsHeld(c) /\ IsNoted(c) /\ IsAnswered(c)
PluginInv == PluginTyped /\ Queued /\ Driven /\ PeerKnown /\ CallsKnown

LEMMA PluginBegins ==
  ASSUME Plugin!Init PROVE PluginInv
<1>1. PluginTyped
  BY DEF Plugin!Init, PluginTyped, CallRecords
<1>2. Queued
  <2>1. queue = <<>> /\ Plugin!Range(queue) = {}
    BY DEF Plugin!Init, Plugin!Range
  <2> QED
    BY <2>1 DEF Queued
<1>3. Driven /\ PeerKnown
  BY DEF Plugin!Init, Driven, PeerKnown, Threads
<1>4. CallsKnown
  BY ToolsAssumption DEF Plugin!Init, CallsKnown, IsHeld, IsNoted, IsAnswered, Plugin!Range
<1> QED
  BY <1>1, <1>2, <1>3, <1>4 DEF PluginInv

\* A step that answers nobody, writes nothing and takes no call.
LEMMA QuietKeeps ==
  ASSUME PluginInv, UNCHANGED <<call, queue, wire>>, actor'.call = actor.call,
         actor'.evidence = actor.evidence, AtRest => AtRest',
         peer' \in [leader : {"none", "running", "zombie", "reaped"}, kids : BOOLEAN],
         shutdown' \in BOOLEAN, Driven', PeerKnown'
  PROVE  PluginInv'
<1>1. PluginTyped'
  BY DEF PluginInv, PluginTyped
<1>2. Queued'
  BY DEF PluginInv, Queued
<1>3. CallsKnown'
  BY DEF PluginInv, CallsKnown, IsHeld, IsNoted, IsAnswered, Suits
<1> QED
  BY <1>1, <1>2, <1>3 DEF PluginInv

\* As long as the peer is left alone, only the thread's own notes are to be shown.
LEMMA ThreadKeeps ==
  ASSUME PluginInv, UNCHANGED <<shutdown, call, queue, peer, wire>>, actor'.call = actor.call,
         actor'.evidence = actor.evidence, Driven', PeerKnown'
  PROVE  PluginInv'
<1>1. /\ peer' \in [leader : {"none", "running", "zombie", "reaped"}, kids : BOOLEAN]
      /\ shutdown' \in BOOLEAN /\ (AtRest => AtRest')
  BY DEF PluginInv, PluginTyped, AtRest
<1> QED
  BY <1>1, QuietKeeps

LEMMA PluginStarts ==
  ASSUME PluginInv, Plugin!Start
  PROVE  PluginInv'
<1>1. /\ actor \in Threads /\ Driven /\ PeerKnown /\ shutdown \in BOOLEAN
      /\ peer \in [leader : {"none", "running", "zombie", "reaped"}, kids : BOOLEAN]
  BY DEF PluginInv, Driven, PluginTyped
<1>2. actor.call = NoCall /\ actor.evidence = "no"
  BY <1>1 DEF Driven, Plugin!Start, Plugin!StartFails, Plugin!StartProcess, Plugin!HandshakeFails,
              Plugin!HelloArrives, Plugin!ReadFlag, Plugin!Announce
<1>3. CASE Plugin!StartFails
  <2>1. PICK report \in {"lost", "quiet"} :
          actor' = [actor EXCEPT !.pc = "finished", !.report = report]
    BY <1>3 DEF Plugin!StartFails
  <2>2. Driven' /\ PeerKnown' /\ actor'.call = NoCall /\ actor'.evidence = "no"
    BY <1>1, <1>2, <2>1, ZenonT(40) DEF Driven, PeerKnown, Threads
  <2> QED
    BY <1>2, <1>3, <2>2, ThreadKeeps DEF Plugin!StartFails
<1>4. CASE Plugin!StartProcess
  <2>1. actor' = [actor EXCEPT !.pc = "hello"] /\ peer.leader = "none"
        /\ peer' = [leader |-> "running", kids |-> FALSE]
    BY <1>1, <1>4 DEF Plugin!StartProcess, PeerKnown
  <2>2. Driven' /\ PeerKnown' /\ actor'.call = NoCall /\ actor'.evidence = "no"
    BY <1>1, <1>2, <2>1 DEF Driven, PeerKnown, Threads
  <2>3. AtRest => AtRest'
    BY <2>1 DEF AtRest
  <2> QED
    BY <1>1, <1>2, <1>4, <2>1, <2>2, <2>3, QuietKeeps DEF Plugin!StartProcess
<1>5. CASE Plugin!HandshakeFails
  <2>1. PICK mode \in {"term", "kill"} :
          actor' = [actor EXCEPT !.pc = "cleanup", !.mode = mode, !.then = "finish"]
    BY <1>5 DEF Plugin!HandshakeFails, Plugin!CleanUp, Plugin!CleanupAfter
  <2>2. Driven' /\ PeerKnown' /\ actor'.call = NoCall /\ actor'.evidence = "no"
    BY <1>1, <1>2, <2>1, ZenonT(40) DEF Driven, PeerKnown, Threads
  <2> QED
    BY <1>2, <1>5, <2>2, ThreadKeeps DEF Plugin!HandshakeFails
<1>6. CASE Plugin!HelloArrives
  <2>1. actor' = [actor EXCEPT !.pc = "flag"]
    BY <1>6 DEF Plugin!HelloArrives
  <2>2. Driven' /\ PeerKnown' /\ actor'.call = NoCall /\ actor'.evidence = "no"
    BY <1>1, <1>2, <2>1 DEF Driven, PeerKnown, Threads
  <2> QED
    BY <1>2, <1>6, <2>2, ThreadKeeps DEF Plugin!HelloArrives
<1>7. CASE Plugin!ReadFlag
  <2>1. actor' = [actor EXCEPT !.pc = "announce", !.flag = shutdown]
    BY <1>7 DEF Plugin!ReadFlag
  <2>2. Driven' /\ PeerKnown' /\ actor'.call = NoCall /\ actor'.evidence = "no"
    BY <1>1, <1>2, <2>1 DEF Driven, PeerKnown, Threads
  <2> QED
    BY <1>2, <1>7, <2>2, ThreadKeeps DEF Plugin!ReadFlag
<1>8. CASE Plugin!Announce
  <2>1. actor' = [actor EXCEPT !.pc = "loop", !.flag = FALSE] /\ shutdown' \in BOOLEAN
        /\ UNCHANGED <<call, queue, peer, wire>>
    BY <1>1, <1>8 DEF Plugin!Announce
  <2>2. Driven' /\ PeerKnown' /\ actor'.call = NoCall /\ actor'.evidence = "no"
    BY <1>1, <1>2, <2>1 DEF Driven, PeerKnown, Threads
  <2>3. AtRest => AtRest'
    BY <2>1 DEF AtRest
  <2> QED
    BY <1>1, <1>2, <2>1, <2>2, <2>3, QuietKeeps
<1> QED
  BY <1>3, <1>4, <1>5, <1>6, <1>7, <1>8 DEF Plugin!Start

\* The calls that are answered at once: those that wait, each with an answer
\* that suits it, and whoever goes on waiting is still queued.
LEMMA AnswersKeep ==
  ASSUME PluginInv, NEW f, Plugin!Answer(f), DOMAIN f \subseteq Calls,
         \A c \in DOMAIN f : f[c] \in Plugin!Answers /\ Suits(c, f[c]),
         \A c \in Calls : call[c].pc = "waiting" /\ c \notin DOMAIN f
                            <=> c \in Plugin!Range(queue'),
         queue' = queue \/ queue' = <<>>,
         \A c \in DOMAIN f : call[c].pc # "answered",
         actor'.call = NoCall, UNCHANGED <<shutdown, peer, wire>>, Driven', PeerKnown'
  PROVE  PluginInv'
<1>1. ASSUME NEW c \in Calls
      PROVE  /\ c \in DOMAIN f => call'[c] = [pc |-> "answered", due |-> {}, answer |-> f[c]]
             /\ c \notin DOMAIN f => call'[c] = call[c]
  BY DEF Plugin!Answer
<1>2. ASSUME NEW c \in Calls PROVE call'[c] \in CallRecords
  <2>1. call[c] \in CallRecords
    BY DEF PluginInv, PluginTyped
  <2>2. CASE c \in DOMAIN f
    <3>1. PICK a \in Plugin!Answers : a = f[c]
      BY <2>2
    <3>2. [pc |-> "answered", due |-> {}, answer |-> a] \in CallRecords
      BY DEF CallRecords
    <3> QED
      BY <1>1, <2>2, <3>1, <3>2
  <2>3. CASE c \notin DOMAIN f
    BY <1>1, <2>1, <2>3
  <2> QED
    BY <2>2, <2>3
<1>3. PluginTyped'
  <2>1. call' = [c \in Calls |-> call'[c]]
    BY DEF Plugin!Answer
  <2>2. call' \in [Calls -> CallRecords]
    BY <1>2, <2>1
  <2> QED
    BY <2>2 DEF PluginInv, PluginTyped
<1>4. Queued'
  <2>1. NoCall \notin Calls
    BY ToolsAssumption
  <2>2. CASE queue' = <<>>
    BY <2>2 DEF Queued, Plugin!Range
  <2>3. CASE queue' = queue
    <3>1. Plugin!Range(queue) \subseteq Calls
      BY DEF PluginInv, Queued, Plugin!Range
    <3> QED
      BY <2>1, <2>3, <3>1 DEF PluginInv, Queued
  <2> QED
    BY <2>2, <2>3
<1>5. ASSUME NEW c \in Calls PROVE IsHeld(c)' /\ IsNoted(c)' /\ IsAnswered(c)'
  <2>1. c # NoCall
    BY ToolsAssumption
  <2>2. IsHeld(c) /\ IsNoted(c) /\ IsAnswered(c)
    BY DEF PluginInv, CallsKnown
  <2>6. /\ c \in DOMAIN f => call'[c].pc = "answered" /\ call'[c].answer = f[c]
        /\ c \notin DOMAIN f => call'[c] = call[c]
    <3>1. CASE c \in DOMAIN f
      <4>1. call'[c] = [pc |-> "answered", due |-> {}, answer |-> f[c]]
        BY <1>1, <3>1
      <4> QED
        BY <3>1, <4>1
    <3>2. CASE c \notin DOMAIN f
      BY <1>1, <3>2
    <3> QED
      BY <3>1, <3>2
  <2>7. call'[c].pc = "waiting" <=> call[c].pc = "waiting" /\ c \notin DOMAIN f
    BY <2>6
  <2>8. call[c].pc = "waiting" /\ c \notin DOMAIN f <=> c \in Plugin!Range(queue')
    OBVIOUS
  <2>3. IsHeld(c)'
    BY <2>1, <2>7, <2>8 DEF IsHeld
  <2>4. IsNoted(c)'
    <3>1. CASE c \in DOMAIN f
      BY <2>6, <3>1 DEF IsNoted
    <3>2. CASE c \notin DOMAIN f
      <4>1. CASE c = actor.call
        <5>1. call[c].pc = "waiting" /\ c \in Plugin!Range(queue')
          BY <2>2, <3>2, <4>1 DEF IsHeld
        <5> QED
          BY <4>1, <5>1 DEF PluginInv, Queued, Plugin!Range
      <4>2. CASE c # actor.call
        BY <2>1, <2>2, <2>6, <3>2, <4>2 DEF IsNoted
      <4> QED
        BY <4>1, <4>2
    <3> QED
      BY <3>1, <3>2
  <2>5. IsAnswered(c)'
    <3>1. AtRest' = AtRest /\ wire' = wire
      BY DEF AtRest
    <3>2. CASE c \in DOMAIN f
      BY <2>6, <3>1, <3>2 DEF IsAnswered, Suits
    <3>3. CASE c \notin DOMAIN f
      BY <2>2, <2>6, <3>1, <3>3 DEF IsAnswered, Suits
    <3> QED
      BY <3>2, <3>3
  <2> QED
    BY <2>3, <2>4, <2>5
<1>6. CallsKnown'
  BY <1>5 DEF CallsKnown
<1> QED
  BY <1>3, <1>4, <1>6 DEF PluginInv

\* What every call in the queue is told suits it: none of it was written.
LEMMA QueueSuits ==
  ASSUME PluginInv, NEW c \in Plugin!Range(queue)
  PROVE  /\ c \in Calls /\ call[c].pc = "waiting" /\ c # actor.call
         /\ \A a \in {"StoppedBefore", "Unavailable", "LostDispatched"} :
              a \in Plugin!Answers /\ Suits(c, a)
<1>1. c \in Calls /\ c # actor.call
  BY DEF PluginInv, Queued, Plugin!Range
<1>2. call[c].pc = "waiting" /\ wire[c] = "no"
  BY <1>1 DEF PluginInv, CallsKnown, IsHeld, IsNoted
<1>3. \A a \in {"StoppedBefore", "Unavailable", "LostDispatched"} :
        a \in Plugin!Answers /\ Suits(c, a)
  BY <1>2 DEF Plugin!Answers, Suits, Plugin!Recorded
<1> QED
  BY <1>1, <1>2, <1>3

\* The whole queue is answered, and with it no other call.
LEMMA QueueAnswered ==
  ASSUME PluginInv, actor.call = NoCall, NEW f, Plugin!Answer(f),
         DOMAIN f = Plugin!Range(queue),
         \A c \in Plugin!Range(queue) : f[c] \in {"StoppedBefore", "Unavailable", "LostDispatched"},
         queue' = <<>>, actor'.call = NoCall, UNCHANGED <<shutdown, peer, wire>>,
         Driven', PeerKnown'
  PROVE  PluginInv'
<1>1. DOMAIN f \subseteq Calls
  BY QueueSuits
<1>2. \A c \in DOMAIN f : f[c] \in Plugin!Answers /\ Suits(c, f[c]) /\ call[c].pc # "answered"
  BY QueueSuits
<1>3. Plugin!Range(queue') = {}
  BY DEF Plugin!Range
<1>4. \A c \in Calls : call[c].pc = "waiting" /\ c \notin DOMAIN f <=> c \in Plugin!Range(queue')
  BY <1>3, ToolsAssumption DEF PluginInv, CallsKnown, IsHeld
<1> QED
  BY <1>1, <1>2, <1>4, AnswersKeep

LEMMA RejectsQueue ==
  /\ DOMAIN Plugin!RejectForShutdown = Plugin!Range(queue)
  /\ DOMAIN Plugin!RejectForFault = Plugin!Range(queue)
  /\ \A c \in Plugin!Range(queue) :
       /\ Plugin!RejectForShutdown[c] = "StoppedBefore"
       /\ Plugin!RejectForFault[c] \in {"StoppedBefore", "Unavailable"}
BY DEF Plugin!RejectForShutdown, Plugin!RejectForFault

-----------------------------------------------------------------------------
(* The thread between calls.                                                 *)

LEMMA ElementsOfTail ==
  ASSUME NEW S, NEW q \in Seq(S), q # <<>>, \A i, j \in 1..Len(q) : q[i] = q[j] => i = j
  PROVE  /\ Tail(q) \in Seq(S) /\ Head(q) \in S
         /\ Plugin!Range(q) = {Head(q)} \cup Plugin!Range(Tail(q))
         /\ Head(q) \notin Plugin!Range(Tail(q))
         /\ \A i, j \in 1..Len(Tail(q)) : Tail(q)[i] = Tail(q)[j] => i = j
<1>1. /\ Len(q) \in Nat /\ Len(q) > 0 /\ DOMAIN q = 1..Len(q)
      /\ Head(q) = q[1] /\ q[1] \in S
      /\ Tail(q) \in Seq(S) /\ Len(Tail(q)) = Len(q) - 1 /\ DOMAIN Tail(q) = 1..(Len(q) - 1)
      /\ \A i \in 1..(Len(q) - 1) : Tail(q)[i] = q[i + 1]
  OBVIOUS
<1>2. \A i \in 1..(Len(q) - 1) : i + 1 \in 1..Len(q) /\ i + 1 # 1
  BY <1>1
<1>3. Plugin!Range(Tail(q)) = {q[i + 1] : i \in 1..(Len(q) - 1)}
  <2>1. Plugin!Range(Tail(q)) = {Tail(q)[i] : i \in 1..(Len(q) - 1)}
    BY <1>1 DEF Plugin!Range
  <2> QED
    BY <1>1, <2>1
<1>4. Head(q) \notin Plugin!Range(Tail(q))
  BY <1>1, <1>2, <1>3
<1>5. Plugin!Range(q) = {Head(q)} \cup Plugin!Range(Tail(q))
  <2>1. ASSUME NEW i \in 1..Len(q), i # 1 PROVE q[i] \in Plugin!Range(Tail(q))
    <3>1. i - 1 \in 1..(Len(q) - 1) /\ (i - 1) + 1 = i
      BY <1>1, <2>1
    <3> QED
      BY <1>3, <3>1
  <2>2. ASSUME NEW i \in 1..(Len(q) - 1) PROVE q[i + 1] \in Plugin!Range(q)
    BY <1>1, <1>2 DEF Plugin!Range
  <2>3. q[1] \in Plugin!Range(q)
    BY <1>1 DEF Plugin!Range
  <2>4. Plugin!Range(q) = {q[i] : i \in 1..Len(q)}
    BY <1>1 DEF Plugin!Range
  <2> QED
    BY <1>1, <1>3, <2>1, <2>2, <2>3, <2>4
<1>6. \A i, j \in 1..Len(Tail(q)) : Tail(q)[i] = Tail(q)[j] => i = j
  BY <1>1, <1>2
<1> QED
  BY <1>1, <1>4, <1>5, <1>6

LEMMA ElementsOfAppend ==
  ASSUME NEW S, NEW q \in Seq(S), NEW e \in S, e \notin Plugin!Range(q),
         \A i, j \in 1..Len(q) : q[i] = q[j] => i = j
  PROVE  /\ Append(q, e) \in Seq(S)
         /\ Plugin!Range(Append(q, e)) = Plugin!Range(q) \cup {e}
         /\ \A i, j \in 1..Len(Append(q, e)) : Append(q, e)[i] = Append(q, e)[j] => i = j
<1>1. /\ Len(q) \in Nat /\ DOMAIN q = 1..Len(q)
      /\ Append(q, e) \in Seq(S) /\ Len(Append(q, e)) = Len(q) + 1
      /\ DOMAIN Append(q, e) = 1..(Len(q) + 1)
      /\ \A i \in 1..Len(q) : Append(q, e)[i] = q[i]
      /\ Append(q, e)[Len(q) + 1] = e
  OBVIOUS
<1>2. \A i \in 1..(Len(q) + 1) : i \in 1..Len(q) \/ i = Len(q) + 1
  BY <1>1
<1>3. \A i \in 1..Len(q) : q[i] # e /\ i \in 1..(Len(q) + 1)
  BY <1>1 DEF Plugin!Range
<1>4. Plugin!Range(Append(q, e)) = Plugin!Range(q) \cup {e}
  <2>1. Plugin!Range(Append(q, e)) = {Append(q, e)[i] : i \in 1..(Len(q) + 1)}
    BY <1>1 DEF Plugin!Range
  <2>2. Plugin!Range(q) = {q[i] : i \in 1..Len(q)}
    BY <1>1 DEF Plugin!Range
  <2>3. Len(q) + 1 \in 1..(Len(q) + 1)
    BY <1>1
  <2> QED
    BY <1>1, <1>2, <1>3, <2>1, <2>2, <2>3
<1>5. \A i, j \in 1..(Len(q) + 1) : Append(q, e)[i] = Append(q, e)[j] => i = j
  BY <1>1, <1>2, <1>3
<1> QED
  BY <1>1, <1>4, <1>5

LEMMA PluginLoops ==
  ASSUME PluginInv, Plugin!Loop
  PROVE  PluginInv'
<1>1. actor \in Threads /\ Driven /\ PeerKnown
  BY DEF PluginInv, Driven
<1>2. actor.call = NoCall /\ actor.evidence = "no"
  BY <1>1 DEF Driven, Plugin!Loop, Plugin!LoopStops, Plugin!LoopRuns, Plugin!IdleFault,
              Plugin!IdleTurns, Plugin!TakeCall
<1>3. CASE Plugin!LoopStops
  <2>1. actor' = [actor EXCEPT !.pc = "cleanup", !.mode = "close", !.then = "shutdown"]
        /\ UNCHANGED <<shutdown, peer, wire>>
    BY <1>3 DEF Plugin!LoopStops, Plugin!CleanUp
  <2>2. Driven' /\ PeerKnown' /\ actor'.call = NoCall
    BY <1>1, <1>2, <2>1, ZenonT(40) DEF Driven, PeerKnown, Threads
  <2>3. Plugin!Answer(Plugin!RejectForShutdown) /\ queue' = <<>>
    BY <1>3 DEF Plugin!LoopStops
  <2> QED
    BY <1>2, <2>1, <2>2, <2>3, RejectsQueue, QueueAnswered
<1>4. CASE Plugin!LoopRuns
  <2>1. actor' = [actor EXCEPT !.pc = "pump"]
    BY <1>4 DEF Plugin!LoopRuns
  <2>2. Driven' /\ PeerKnown' /\ actor'.call = NoCall /\ actor'.evidence = "no"
    BY <1>1, <1>2, <2>1 DEF Driven, PeerKnown, Threads
  <2> QED
    BY <1>2, <1>4, <2>2, ThreadKeeps DEF Plugin!LoopRuns
<1>5. CASE Plugin!IdleFault
  <2>1. PICK mode \in {"term", "kill"} :
          actor' = [actor EXCEPT !.pc = "cleanup", !.mode = mode, !.then = "finish"]
    BY <1>5 DEF Plugin!IdleFault, Plugin!CleanUp, Plugin!CleanupAfter
  <2>2. Driven' /\ PeerKnown' /\ actor'.call = NoCall
    BY <1>1, <1>2, <2>1, ZenonT(40) DEF Driven, PeerKnown, Threads
  <2>3. Plugin!Answer(Plugin!RejectForFault) /\ queue' = <<>> /\ UNCHANGED <<shutdown, peer, wire>>
    BY <1>5 DEF Plugin!IdleFault
  <2> QED
    BY <1>2, <2>2, <2>3, RejectsQueue, QueueAnswered
<1>6. CASE Plugin!IdleTurns
  <2>1. \/ actor' = [actor EXCEPT !.pc = "cleanup", !.mode = "close", !.then = "finish"]
        \/ actor' = [actor EXCEPT !.pc = "loop"]
    BY <1>6 DEF Plugin!IdleTurns, Plugin!CleanUp
  <2>2. Driven' /\ PeerKnown' /\ actor'.call = NoCall /\ actor'.evidence = "no"
    <3>1. CASE actor' = [actor EXCEPT !.pc = "cleanup", !.mode = "close", !.then = "finish"]
      BY <1>1, <1>2, <3>1, ZenonT(40) DEF Driven, PeerKnown, Threads
    <3>2. CASE actor' = [actor EXCEPT !.pc = "loop"]
      BY <1>1, <1>2, <3>2 DEF Driven, PeerKnown, Threads
    <3> QED
      BY <2>1, <3>1, <3>2
  <2> QED
    BY <1>2, <1>6, <2>2, ThreadKeeps DEF Plugin!IdleTurns
<1>7. CASE Plugin!TakeCall
  <2>1. /\ queue # <<>> /\ queue' = Tail(queue) /\ UNCHANGED <<shutdown, call, peer, wire>>
        /\ actor' = [actor EXCEPT !.pc = "write", !.call = Head(queue)]
    BY <1>7 DEF Plugin!TakeCall
  <2>2. /\ Tail(queue) \in Seq(Calls) /\ Head(queue) \in Calls
        /\ Plugin!Range(queue) = {Head(queue)} \cup Plugin!Range(Tail(queue))
        /\ Head(queue) \notin Plugin!Range(Tail(queue))
        /\ \A i, j \in 1..Len(Tail(queue)) : Tail(queue)[i] = Tail(queue)[j] => i = j
    BY <2>1, ElementsOfTail DEF PluginInv, Queued
  <2>3. PICK next \in Calls : next = Head(queue)
    BY <2>2
  <2>4. actor' = [actor EXCEPT !.pc = "write", !.call = next] /\ next # NoCall
    BY <2>1, <2>3, ToolsAssumption
  <2>5. Driven' /\ PeerKnown' /\ actor'.call = next /\ actor'.evidence = "no"
    BY <1>1, <1>2, <2>4 DEF Driven, PeerKnown, Threads
  <2>6. PluginTyped'
    BY <2>1 DEF PluginInv, PluginTyped
  <2>7. Queued'
    BY <2>1, <2>2, <2>3, <2>5 DEF Queued
  <2>8. CallsKnown'
    <3>1. ASSUME NEW c \in Calls PROVE IsHeld(c)' /\ IsNoted(c)' /\ IsAnswered(c)'
      <4>1. IsHeld(c) /\ IsNoted(c) /\ IsAnswered(c) /\ c # actor.call
        BY <1>2, ToolsAssumption DEF PluginInv, CallsKnown
      <4>2. IsHeld(c)'
        BY <2>1, <2>2, <2>3, <2>5, <4>1 DEF IsHeld
      <4>3. IsNoted(c)' /\ IsAnswered(c)'
        BY <2>1, <2>5, <4>1 DEF IsNoted, IsAnswered, Suits, AtRest
      <4> QED
        BY <4>2, <4>3
    <3> QED
      BY <3>1 DEF CallsKnown
  <2> QED
    BY <2>5, <2>6, <2>7, <2>8 DEF PluginInv
<1> QED
  BY <1>3, <1>4, <1>5, <1>6, <1>7 DEF Plugin!Loop

-----------------------------------------------------------------------------
(* The thread with a call.                                                   *)

\* The call of the thread is answered, and the queue with it when the plugin
\* shuts down.
LEMMA Continues ==
  ASSUME PluginInv, actor.pc \in {"write", "result", "grace"}, NEW answer \in Plugin!Answers,
         Suits(actor.call, answer), Plugin!Continue(answer), UNCHANGED <<shutdown, peer, wire>>
  PROVE  PluginInv'
<1>1. /\ actor \in Threads /\ Driven /\ PeerKnown /\ actor.call \in Calls
      /\ actor.call \notin Plugin!Range(queue) /\ call[actor.call].pc = "waiting"
  BY DEF PluginInv, Driven, Queued, Threads, CallsKnown, IsHeld
<1> DEFINE done == [actor EXCEPT !.call = NoCall, !.evidence = "no", !.stop = "none"]
<1>4. PICK free : free = done
  OBVIOUS
<1>5. free \in Threads /\ free.call = NoCall /\ free.evidence = "no" /\ actor.call # NoCall
  BY <1>1, <1>4, ToolsAssumption DEF Threads
<1>2. CASE /\ Plugin!Answer(Plugin!With(actor.call, answer, Plugin!RejectForShutdown))
           /\ queue' = <<>>
           /\ actor' = [done EXCEPT !.pc = "cleanup", !.mode = "close", !.then = "shutdown"]
  <2>1. Driven' /\ PeerKnown' /\ actor'.call = NoCall
    <3>1. actor' = [free EXCEPT !.pc = "cleanup", !.mode = "close", !.then = "shutdown"]
      BY <1>2, <1>4
    <3>2. /\ actor' \in Threads /\ actor'.pc = "cleanup" /\ actor'.call = NoCall
          /\ actor'.evidence = "no" /\ actor'.mode = "close" /\ actor'.then = "shutdown"
      BY <1>5, <3>1, ZenonT(40) DEF Threads
    <3> QED
      BY <3>2 DEF Driven, PeerKnown
  <2>2. PICK f : f = Plugin!With(actor.call, answer, Plugin!RejectForShutdown)
    OBVIOUS
  <2>3. /\ DOMAIN f = {actor.call} \cup Plugin!Range(queue) /\ f[actor.call] = answer
        /\ \A c \in Plugin!Range(queue) : f[c] = "StoppedBefore"
    BY <1>1, <2>2, RejectsQueue DEF Plugin!With
  <2>4. DOMAIN f \subseteq Calls /\ \A c \in DOMAIN f : f[c] \in Plugin!Answers /\ Suits(c, f[c])
    BY <1>1, <2>3, QueueSuits
  <2>5. \A c \in DOMAIN f : call[c].pc # "answered"
    BY <1>1, <2>3, QueueSuits
  <2>6. \A c \in Calls : call[c].pc = "waiting" /\ c \notin DOMAIN f <=> c \in Plugin!Range(queue')
    BY <1>2, <2>3 DEF PluginInv, CallsKnown, IsHeld, Plugin!Range
  <2> QED
    BY <1>2, <2>1, <2>2, <2>4, <2>5, <2>6, AnswersKeep
<1>3. CASE /\ Plugin!Answer(Plugin!To(actor.call, answer))
           /\ actor' = [done EXCEPT !.pc = "loop"] /\ queue' = queue
  <2>1. Driven' /\ PeerKnown' /\ actor'.call = NoCall
    <3>1. actor' = [free EXCEPT !.pc = "loop"]
      BY <1>3, <1>4
    <3>2. /\ actor' \in Threads /\ actor'.pc = "loop" /\ actor'.call = NoCall
          /\ actor'.evidence = "no" 
      BY <1>5, <3>1 DEF Threads
    <3> QED
      BY <3>2 DEF Driven, PeerKnown
  <2>2. PICK f : f = Plugin!To(actor.call, answer)
    OBVIOUS
  <2>3. DOMAIN f = {actor.call} /\ f[actor.call] = answer
    BY <2>2 DEF Plugin!To
  <2>4. \A c \in Calls : call[c].pc = "waiting" /\ c \notin DOMAIN f <=> c \in Plugin!Range(queue')
    BY <1>1, <1>3, <2>3 DEF PluginInv, CallsKnown, IsHeld
  <2> QED
    BY <1>1, <1>3, <2>1, <2>2, <2>3, <2>4, AnswersKeep
<1> QED
  BY <1>2, <1>3 DEF Plugin!Continue

LEMMA Stopped ==
  ASSUME PluginInv
  PROVE  /\ Plugin!Latched(actor.call) \in {"none", "caller", "deadline"}
         /\ actor.evidence \in {"no", "part", "all"} /\ actor.stop \in {"none", "caller", "deadline"}
<1>1. actor \in Threads
  BY DEF PluginInv, Driven
<1> QED
  BY <1>1 DEF Threads, Plugin!Latched, Plugin!StopOf

\* The plugin ends first; what it was told stays as it is noted.
LEMMA FatalDrives ==
  ASSUME Driven, PeerKnown, UNCHANGED peer, actor.pc \in {"write", "result", "grace"},
         NEW evidence \in {"no", "part", "all"}, NEW stop \in {"none", "caller", "deadline"},
         NEW fault \in {"Protocol", "Process", "OutputLimit", "OwnershipLost", "WriteTimeout"},
         Plugin!Fatal(evidence, stop, fault)
  PROVE  Driven' /\ PeerKnown' /\ actor'.call = actor.call /\ actor'.evidence = evidence
         /\ UNCHANGED <<call, queue>>
<1>1. PICK mode \in {"term", "kill"} :
        actor' = [[actor EXCEPT !.pc = "cleanup", !.mode = mode, !.then = "answer"]
                    EXCEPT !.evidence = evidence, !.stop = stop, !.fault = fault]
  BY DEF Plugin!Fatal, Plugin!CleanUp, Plugin!CleanupAfter
<1>2. actor \in Threads /\ actor.call # NoCall
  BY DEF Driven
<1>3. PICK a : a = [actor EXCEPT !.pc = "cleanup", !.mode = mode, !.then = "answer"]
  OBVIOUS
<1>4. /\ a \in Threads /\ a.pc = "cleanup" /\ a.mode = mode /\ a.then = "answer"
      /\ a.call = actor.call
  BY <1>2, <1>3, ZenonT(40) DEF Threads
<1>5. actor' = [a EXCEPT !.evidence = evidence, !.stop = stop, !.fault = fault]
  BY <1>1, <1>3
<1>6. /\ actor' \in Threads /\ actor'.pc = "cleanup" /\ actor'.mode = mode
      /\ actor'.then = "answer" /\ actor'.call = actor.call /\ actor'.evidence = evidence
  BY <1>4, <1>5 DEF Threads
<1>7. Driven' /\ PeerKnown'
  BY <1>2, <1>6 DEF Driven, PeerKnown
<1> QED
  BY <1>6, <1>7 DEF Plugin!Fatal

LEMMA FatalKeeps ==
  ASSUME PluginInv, actor.pc \in {"write", "result", "grace"},
         NEW fault \in {"Protocol", "Process", "OutputLimit", "OwnershipLost", "WriteTimeout"},
         NEW stop \in {"none", "caller", "deadline"},
         Plugin!Fatal(actor.evidence, stop, fault), UNCHANGED <<shutdown, peer, wire>>
  PROVE  PluginInv'
<1>1. Driven /\ PeerKnown /\ actor.evidence \in {"no", "part", "all"}
  BY Stopped DEF PluginInv
<1>2. /\ Driven' /\ PeerKnown' /\ actor'.call = actor.call /\ actor'.evidence = actor.evidence
      /\ UNCHANGED <<call, queue>>
  BY <1>1, FatalDrives
<1> QED
  BY <1>2, ThreadKeeps

LEMMA CallDriven ==
  ASSUME PluginInv, actor.pc \in {"write", "result", "grace"}
  PROVE  /\ actor.call \in Calls /\ actor.call # NoCall /\ actor \in Threads
         /\ call[actor.call].pc = "waiting" /\ wire[actor.call] = actor.evidence
         /\ actor.pc # "write" => actor.evidence = "all"
<1>1. actor.call \in Calls /\ actor.call # NoCall /\ actor \in Threads
  BY DEF PluginInv, Driven, Threads
<1>2. call[actor.call].pc = "waiting"
  BY <1>1 DEF PluginInv, CallsKnown, IsHeld
<1>3. wire[actor.call] = actor.evidence
  BY <1>1, <1>2 DEF PluginInv, CallsKnown, IsNoted
<1> QED
  BY <1>1, <1>2, <1>3 DEF PluginInv, Driven

\* What the pipe took is what the thread notes.
LEMMA WriteKeeps ==
  ASSUME PluginInv, actor.pc = "write", NEW evidence \in {"no", "part", "all"},
         wire' = [wire EXCEPT ![actor.call] = evidence],
         UNCHANGED <<shutdown, call, queue, peer>>, actor'.call = actor.call,
         actor'.evidence = evidence, Driven', PeerKnown'
  PROVE  PluginInv'
<1>1. actor.call \in Calls /\ call[actor.call].pc = "waiting"
  BY CallDriven
<1>2. PluginTyped' /\ Queued'
  BY DEF PluginInv, PluginTyped, Queued
<1>3. wire \in [Calls -> {"no", "part", "all"}]
  BY DEF PluginInv, PluginTyped
<1>4. ASSUME NEW c \in Calls PROVE IsHeld(c)' /\ IsNoted(c)' /\ IsAnswered(c)'
  <2>1. IsHeld(c) /\ IsNoted(c) /\ IsAnswered(c)
    BY DEF PluginInv, CallsKnown
  <2>2. IsHeld(c)'
    BY <2>1 DEF IsHeld
  <2>3. CASE c = actor.call
    BY <1>1, <1>3, <2>2, <2>3 DEF IsNoted, IsAnswered
  <2>4. CASE c # actor.call
    <3>1. wire'[c] = wire[c]
      BY <1>1, <1>3, <2>4
    <3> QED
      BY <2>1, <2>2, <2>4, <3>1 DEF IsNoted, IsAnswered, Suits, AtRest
  <2> QED
    BY <2>3, <2>4
<1> QED
  BY <1>2, <1>4 DEF PluginInv, CallsKnown

LEMMA WritesSome ==
  ASSUME PluginInv, Plugin!WriteSome
  PROVE  PluginInv'
<1>1. actor.pc = "write"
  BY DEF Plugin!WriteSome, Plugin!MayWrite
<1>2. /\ actor.call \in Calls /\ actor.call # NoCall /\ actor \in Threads
      /\ wire[actor.call] = actor.evidence /\ Driven /\ PeerKnown
      /\ wire \in [Calls -> {"no", "part", "all"}]
  BY <1>1, CallDriven DEF PluginInv, PluginTyped
<1>3. PICK amount \in {"none", "part", "all"}, report \in Plugin!PumpReports :
        /\ wire' = [wire EXCEPT ![actor.call] = IF amount = "none" THEN @ ELSE amount]
        /\ \/ report = "OwnershipLost" /\ Plugin!Fatal(Plugin!Evidence(amount), Plugin!Latched(actor.call), report)
           \/ Plugin!Fatal(Plugin!Evidence(amount), Plugin!Latched(actor.call), "Protocol")
           \/ report # "none" /\ Plugin!Fatal(Plugin!Evidence(amount), Plugin!Latched(actor.call), report)
           \/ /\ actor' = [actor EXCEPT
                             !.pc = IF Plugin!Evidence(amount) = "all" THEN "result" ELSE "write",
                             !.evidence = Plugin!Evidence(amount),
                             !.stop = Plugin!Latched(actor.call)]
              /\ UNCHANGED <<call, queue>>
  BY DEF Plugin!WriteSome
<1>4. PICK evidence \in {"no", "part", "all"} :
        /\ evidence = Plugin!Evidence(amount)
        /\ wire' = [wire EXCEPT ![actor.call] = evidence]
  <2>1. actor.evidence \in {"no", "part", "all"}
    BY <1>2 DEF Threads
  <2> QED
    BY <1>2, <1>3, <2>1 DEF Plugin!Evidence
<1>5. PICK stop \in {"none", "caller", "deadline"} : stop = Plugin!Latched(actor.call)
  BY Stopped
<1>6. Plugin!PumpReports \subseteq {"none", "Process", "OutputLimit", "OwnershipLost"}
  BY DEF Plugin!PumpReports
<1>7. UNCHANGED <<shutdown, peer>>
  BY DEF Plugin!WriteSome
<1>8. /\ Driven' /\ PeerKnown' /\ actor'.call = actor.call /\ actor'.evidence = evidence
      /\ UNCHANGED <<call, queue>>
  <2>1. ASSUME NEW fault \in {"Protocol", "Process", "OutputLimit", "OwnershipLost", "WriteTimeout"},
               Plugin!Fatal(evidence, stop, fault)
        PROVE  <1>8
    BY <1>1, <1>2, <1>7, <2>1, FatalDrives
  <2>2. CASE /\ actor' = [actor EXCEPT !.pc = IF evidence = "all" THEN "result" ELSE "write",
                                       !.evidence = evidence, !.stop = stop]
             /\ UNCHANGED <<call, queue>>
    <3>1. PICK pc \in {"write", "result"} : pc = IF evidence = "all" THEN "result" ELSE "write"
      OBVIOUS
    <3>3. actor' = [actor EXCEPT !.pc = pc, !.evidence = evidence, !.stop = stop]
      BY <2>2, <3>1
    <3>4. /\ actor' \in Threads /\ actor'.pc = pc
          /\ actor'.call = actor.call /\ actor'.evidence = evidence
      BY <1>2, <3>3, ZenonT(40) DEF Threads
    <3>2. Driven' /\ PeerKnown'
      BY <1>2, <3>1, <3>4 DEF Driven, PeerKnown
    <3> QED
      BY <2>2, <3>2, <3>4
  <2> QED
    BY <1>3, <1>4, <1>5, <1>6, <2>1, <2>2
<1> QED
  BY <1>1, <1>4, <1>7, <1>8, WriteKeeps

\* A result is taken: it suits a call that was written as a whole.
LEMMA ResultKeeps ==
  ASSUME PluginInv, actor.pc \in {"result", "grace"},
         NEW answers \in SUBSET {"Settled", "InvalidOutput", "StoppedAfter"},
         Plugin!TakeResult(answers)
  PROVE  PluginInv'
<1>1. /\ wire[actor.call] = "all" /\ UNCHANGED <<shutdown, peer, wire>>
      /\ Plugin!Latched(actor.call) \in {"none", "caller", "deadline"}
  BY CallDriven, Stopped DEF Plugin!TakeResult
<1>2. ASSUME NEW answer \in answers, Plugin!Continue(answer) PROVE PluginInv'
  <2>1. answer \in Plugin!Answers /\ Suits(actor.call, answer)
    BY <1>1 DEF Plugin!Answers, Suits, Plugin!Recorded
  <2> QED
    BY <1>1, <1>2, <2>1, Continues
<1>3. CASE Plugin!Fatal(actor.evidence, Plugin!Latched(actor.call), "Protocol")
  BY <1>1, <1>3, FatalKeeps
<1> QED
  BY <1>2, <1>3 DEF Plugin!TakeResult

LEMMA PluginDrives ==
  ASSUME PluginInv, Plugin!DriveCall
  PROVE  PluginInv'
<1>1. actor.pc \in {"write", "result", "grace"}
  BY DEF Plugin!DriveCall, Plugin!StopBeforeDispatch, Plugin!WriteTimeout, Plugin!WriteFails,
         Plugin!WriteSome, Plugin!MayWrite, Plugin!ReadResult, Plugin!WaitFails,
         Plugin!SendCancel, Plugin!GraceResult, Plugin!GraceEnds
<1>2. /\ Plugin!Latched(actor.call) \in {"none", "caller", "deadline"}
      /\ actor.stop \in {"none", "caller", "deadline"}
  BY Stopped
<1>3. CASE Plugin!StopBeforeDispatch
  <2>1. actor.evidence = "no" /\ Plugin!Continue("StoppedBefore") /\ UNCHANGED <<shutdown, peer, wire>>
    BY <1>3 DEF Plugin!StopBeforeDispatch
  <2>2. wire[actor.call] = "no"
    BY <1>1, <2>1, CallDriven
  <2>3. "StoppedBefore" \in Plugin!Answers /\ Suits(actor.call, "StoppedBefore")
    BY <2>2 DEF Plugin!Answers, Suits, Plugin!Recorded
  <2> QED
    BY <1>1, <2>1, <2>3, Continues
<1>4. CASE Plugin!WriteTimeout
  BY <1>1, <1>2, <1>4, FatalKeeps DEF Plugin!WriteTimeout
<1>5. CASE Plugin!WriteFails
  BY <1>1, <1>2, <1>5, FatalKeeps DEF Plugin!WriteFails
<1>6. CASE Plugin!WriteSome
  BY <1>6, WritesSome
<1>7. CASE Plugin!ReadResult
  BY <1>7, ResultKeeps DEF Plugin!ReadResult
<1>8. CASE Plugin!WaitFails
  <2>1. PICK fault \in Plugin!PumpReports \ {"none"} :
          Plugin!Fatal(actor.evidence, Plugin!Latched(actor.call), fault)
    BY <1>8 DEF Plugin!WaitFails
  <2>2. fault \in {"Protocol", "Process", "OutputLimit", "OwnershipLost", "WriteTimeout"}
    BY DEF Plugin!PumpReports
  <2> QED
    BY <1>1, <1>2, <1>8, <2>1, <2>2, FatalKeeps DEF Plugin!WaitFails
<1>9. CASE Plugin!SendCancel
  <2>1. /\ Driven /\ PeerKnown /\ actor \in Threads /\ actor.evidence = "all" /\ actor.call # NoCall
        /\ actor' = [actor EXCEPT !.pc = "grace", !.stop = Plugin!Latched(actor.call)]
    BY <1>1, <1>9, CallDriven DEF Plugin!SendCancel, PluginInv
  <2>2. /\ actor' \in Threads /\ actor'.pc = "grace" /\ actor'.call = actor.call
        /\ actor'.evidence = actor.evidence
    BY <1>2, <2>1 DEF Threads
  <2>3. Driven' /\ PeerKnown'
    BY <2>1, <2>2 DEF Driven, PeerKnown
  <2> QED
    BY <1>9, <2>2, <2>3, ThreadKeeps DEF Plugin!SendCancel
<1>10. CASE Plugin!GraceResult
  BY <1>10, ResultKeeps DEF Plugin!GraceResult
<1>11. CASE Plugin!GraceEnds
  <2>1. PICK fault \in {"Process", "OutputLimit", "OwnershipLost"} :
          Plugin!Fatal(actor.evidence, actor.stop, fault)
    BY <1>11 DEF Plugin!GraceEnds
  <2> QED
    BY <1>1, <1>2, <1>11, <2>1, FatalKeeps DEF Plugin!GraceEnds
<1> QED
  BY <1>3, <1>4, <1>5, <1>6, <1>7, <1>8, <1>9, <1>10, <1>11 DEF Plugin!DriveCall

-----------------------------------------------------------------------------
(* The end of the thread, the calls, the host and the peer.                  *)

LEMMA OutcomeSuits ==
  ASSUME PluginInv, actor.pc = "settle", actor.then = "answer"
  PROVE  \E answer \in Plugin!Answers :
           /\ answer = Plugin!FatalOutcome(actor.evidence, actor.stop, actor.fault, actor.report)
           /\ Suits(actor.call, answer)
<1>7. PICK answer :
        answer = Plugin!FatalOutcome(actor.evidence, actor.stop, actor.fault, actor.report)
  OBVIOUS
<1>1. /\ actor \in Threads /\ actor.call \in Calls /\ actor.report \in {"lost", "quiet"}
      /\ actor.report = "quiet" => AtRest
  BY DEF PluginInv, Driven, PeerKnown, Threads
<1>2. wire[actor.call] = actor.evidence
  BY <1>1 DEF PluginInv, CallsKnown, IsHeld, IsNoted
<1>3. answer \in Plugin!Answers
  BY <1>7 DEF Plugin!FatalOutcome, Plugin!Answers
<1>4. ASSUME actor.report = "lost" PROVE Suits(actor.call, answer)
  BY <1>2, <1>3, <1>4, <1>7 DEF Plugin!FatalOutcome, Suits, Plugin!Recorded
<1>5. ASSUME actor.report = "quiet", actor.evidence = "no" PROVE Suits(actor.call, answer)
  BY <1>2, <1>3, <1>5, <1>7 DEF Plugin!FatalOutcome, Suits, Plugin!Recorded
<1>6. ASSUME actor.report = "quiet", actor.evidence # "no" PROVE Suits(actor.call, answer)
  <2>1. answer = "Unknown"
    BY <1>6, <1>7 DEF Plugin!FatalOutcome
  <2>2. Plugin!Recorded("Unknown") = "started"
    BY DEF Plugin!Recorded
  <2> QED
    BY <1>1, <1>2, <1>3, <1>6, <2>1, <2>2 DEF Suits
<1>8. Suits(actor.call, answer)
  BY <1>1, <1>4, <1>5, <1>6
<1> QED
  BY <1>3, <1>7, <1>8

LEMMA PluginSettles ==
  ASSUME PluginInv, Plugin!Settle
  PROVE  PluginInv'
<1>1. /\ actor \in Threads /\ Driven /\ PeerKnown /\ actor.pc = "settle"
      /\ actor.then \in {"shutdown", "finish", "answer"}
      /\ actor.then = "answer" <=> actor.call # NoCall
  BY DEF PluginInv, Driven, Threads, Plugin!Settle
<1>2. /\ actor' = [actor EXCEPT !.pc = "finished", !.then = "none", !.call = NoCall,
                                !.evidence = "no", !.stop = "none", !.fault = "none"]
      /\ UNCHANGED <<shutdown, peer, wire>>
  BY DEF Plugin!Settle
<1>3. actor' \in Threads /\ actor'.pc = "finished" /\ actor'.call = NoCall /\ actor'.evidence = "no"
  BY <1>1, <1>2 DEF Threads
<1>4. Driven' /\ PeerKnown'
  BY <1>3 DEF Driven, PeerKnown
<1>5. CASE actor.then = "shutdown"
  <2>1. Plugin!Answer(Plugin!RejectForShutdown) /\ queue' = <<>>
    BY <1>5 DEF Plugin!Settle
  <2> QED
    BY <1>1, <1>2, <1>3, <1>4, <1>5, <2>1, RejectsQueue, QueueAnswered
<1>6. CASE actor.then = "finish"
  <2>1. UNCHANGED <<call, queue>>
    BY <1>6 DEF Plugin!Settle
  <2>2. actor.call = NoCall /\ actor.evidence = "no"
    BY <1>1, <1>6 DEF Driven
  <2> QED
    BY <1>2, <1>3, <1>4, <2>1, <2>2, ThreadKeeps
<1>7. CASE actor.then = "answer"
  <2>1. PICK answer \in Plugin!Answers :
          /\ Suits(actor.call, answer) /\ queue' = <<>>
          /\ Plugin!Answer(Plugin!With(actor.call, answer, Plugin!RejectForFault))
    BY <1>1, <1>7, OutcomeSuits DEF Plugin!Settle
  <2>2. PICK f : f = Plugin!With(actor.call, answer, Plugin!RejectForFault)
    OBVIOUS
  <2>3. /\ actor.call \in Calls /\ actor.call \notin Plugin!Range(queue)
        /\ call[actor.call].pc = "waiting"
    BY <1>1, <1>7 DEF PluginInv, Threads, Queued, CallsKnown, IsHeld
  <2>4. /\ DOMAIN f = {actor.call} \cup Plugin!Range(queue) /\ f[actor.call] = answer
        /\ \A c \in Plugin!Range(queue) : f[c] \in {"StoppedBefore", "Unavailable"}
    BY <2>2, <2>3, RejectsQueue DEF Plugin!With
  <2>5. DOMAIN f \subseteq Calls /\ \A c \in DOMAIN f : f[c] \in Plugin!Answers /\ Suits(c, f[c])
    BY <2>1, <2>3, <2>4, QueueSuits
  <2>6. \A c \in DOMAIN f : call[c].pc # "answered"
    BY <2>3, <2>4, QueueSuits
  <2>7. \A c \in Calls : call[c].pc = "waiting" /\ c \notin DOMAIN f <=> c \in Plugin!Range(queue')
    BY <2>1, <2>4 DEF PluginInv, CallsKnown, IsHeld, Plugin!Range
  <2> QED
    BY <1>2, <1>3, <1>4, <2>1, <2>2, <2>5, <2>6, <2>7, AnswersKeep
<1> QED
  BY <1>1, <1>5, <1>6, <1>7

LEMMA PluginEnds ==
  ASSUME PluginInv, Plugin!Finish
  PROVE  PluginInv'
<1>1. actor \in Threads /\ Driven /\ PeerKnown
  BY DEF PluginInv, Driven
<1>2. peer \in [leader : {"none", "running", "zombie", "reaped"}, kids : BOOLEAN]
      /\ shutdown \in BOOLEAN
  BY DEF PluginInv, PluginTyped
<1>3. CASE Plugin!Quiescent
  <2>1. /\ actor.pc = "cleanup" /\ peer.leader = "zombie" /\ ~peer.kids
        /\ peer' = [peer EXCEPT !.leader = "reaped"]
        /\ actor' = [actor EXCEPT !.pc = "settle", !.report = "quiet", !.mode = "none"]
        /\ UNCHANGED <<shutdown, call, queue, wire>>
    BY <1>3 DEF Plugin!Quiescent
  <2>2. /\ actor' \in Threads /\ actor'.pc = "settle" /\ actor'.report = "quiet"
        /\ actor'.then = actor.then /\ actor'.call = actor.call /\ actor'.evidence = actor.evidence
    BY <1>1, <2>1 DEF Threads
  <2>3. /\ peer' \in [leader : {"none", "running", "zombie", "reaped"}, kids : BOOLEAN]
        /\ peer'.leader = "reaped" /\ ~peer'.kids
    BY <1>2, <2>1
  <2>4. Driven' /\ PeerKnown' /\ AtRest'
    BY <1>1, <2>1, <2>2, <2>3 DEF Driven, PeerKnown, AtRest
  <2> QED
    BY <1>2, <2>1, <2>2, <2>3, <2>4, QuietKeeps
<1>4. CASE Plugin!Escalate
  <2>1. actor.pc = "cleanup" /\ actor.mode \in {"close", "term", "kill"}
    BY <1>1, <1>4 DEF Plugin!Escalate, Driven, Threads
  <2>2. \/ actor' = [actor EXCEPT !.mode = "term"]
        \/ actor' = [actor EXCEPT !.mode = "kill"]
        \/ actor' = [actor EXCEPT !.pc = "settle", !.report = "lost", !.mode = "none"]
    BY <1>4, <2>1 DEF Plugin!Escalate
  <2>3. /\ actor' \in Threads /\ actor'.then = actor.then /\ actor'.call = actor.call
        /\ actor'.evidence = actor.evidence
        /\ \/ actor'.pc = "cleanup" /\ actor'.mode # "none"
           \/ actor'.pc = "settle" /\ actor'.report = "lost"
    <3>1. CASE actor' = [actor EXCEPT !.mode = "term"]
      BY <1>1, <2>1, <3>1 DEF Threads
    <3>2. CASE actor' = [actor EXCEPT !.mode = "kill"]
      BY <1>1, <2>1, <3>2 DEF Threads
    <3>3. CASE actor' = [actor EXCEPT !.pc = "settle", !.report = "lost", !.mode = "none"]
      BY <1>1, <2>1, <3>3 DEF Threads
    <3> QED
      BY <2>2, <3>1, <3>2, <3>3
  <2>4. Driven' /\ PeerKnown'
    BY <1>1, <2>1, <2>3 DEF Driven, PeerKnown
  <2> QED
    BY <1>4, <2>3, <2>4, ThreadKeeps DEF Plugin!Escalate
<1>5. CASE Plugin!LoseLeader
  <2>1. actor.pc = "cleanup"
        /\ actor' = [actor EXCEPT !.pc = "settle", !.report = "lost", !.mode = "none"]
    BY <1>5 DEF Plugin!LoseLeader
  <2>2. /\ actor' \in Threads /\ actor'.then = actor.then /\ actor'.call = actor.call
        /\ actor'.evidence = actor.evidence /\ actor'.pc = "settle" /\ actor'.report = "lost"
    BY <1>1, <2>1 DEF Threads
  <2>3. Driven' /\ PeerKnown'
    BY <1>1, <2>1, <2>2 DEF Driven, PeerKnown
  <2> QED
    BY <1>5, <2>2, <2>3, ThreadKeeps DEF Plugin!LoseLeader
<1>6. CASE Plugin!Settle
  BY <1>6, PluginSettles
<1>7. CASE Plugin!ThreadEnds
  <2>1. /\ actor.pc = "finished" /\ queue' = <<>> /\ UNCHANGED <<shutdown, peer, wire>>
        /\ actor' = [actor EXCEPT !.pc = "gone"]
        /\ Plugin!Answer([c \in Plugin!Range(queue) |-> "LostDispatched"])
    BY <1>7 DEF Plugin!ThreadEnds
  <2>2. actor.call = NoCall /\ actor.evidence = "no"
    BY <1>1, <2>1 DEF Driven
  <2>3. actor' \in Threads /\ actor'.pc = "gone" /\ actor'.call = NoCall /\ actor'.evidence = "no"
    BY <1>1, <2>1, <2>2 DEF Threads
  <2>4. Driven' /\ PeerKnown'
    BY <2>3 DEF Driven, PeerKnown
  <2>5. PICK f : f = [c \in Plugin!Range(queue) |-> "LostDispatched"]
    OBVIOUS
  <2>6. DOMAIN f = Plugin!Range(queue) /\ \A c \in Plugin!Range(queue) : f[c] = "LostDispatched"
    BY <2>5
  <2> QED
    BY <2>1, <2>2, <2>3, <2>4, <2>5, <2>6, QueueAnswered
<1> QED
  BY <1>3, <1>4, <1>5, <1>6, <1>7 DEF Plugin!Finish

\* The thread is left alone.
LEMMA CallsKeep ==
  ASSUME PluginInv, UNCHANGED <<shutdown, actor, peer, wire>>,
         call' \in [Calls -> CallRecords], Queued',
         \A c \in Calls : IsHeld(c)' /\ IsNoted(c)' /\ IsAnswered(c)'
  PROVE  PluginInv'
<1>1. PluginTyped'
  BY DEF PluginInv, PluginTyped
<1>2. Driven' /\ PeerKnown'
  BY DEF PluginInv, Driven, PeerKnown, AtRest
<1> QED
  BY <1>1, <1>2 DEF PluginInv, CallsKnown

\* One call changes, in a way that leaves the others and the thread alone.
LEMMA OneCallKeeps ==
  ASSUME PluginInv, UNCHANGED <<shutdown, actor, peer, wire>>, Queued',
         NEW c \in Calls, NEW r \in CallRecords, call' = [call EXCEPT ![c] = r],
         \A d \in Calls \ {c} : d \in Plugin!Range(queue') <=> d \in Plugin!Range(queue),
         IsHeld(c)', call[c].pc # "answered",
         r.pc = "answered" =>
           r.answer \in Plugin!Answers /\ Suits(c, r.answer)
  PROVE  PluginInv'
<1>1. call' \in [Calls -> CallRecords]
  BY DEF PluginInv, PluginTyped
<1>2. ASSUME NEW d \in Calls PROVE IsHeld(d)' /\ IsNoted(d)' /\ IsAnswered(d)'
  <2>1. IsHeld(d) /\ IsNoted(d) /\ IsAnswered(d) /\ call \in [Calls -> CallRecords]
    BY DEF PluginInv, CallsKnown, PluginTyped
  <2>2. CASE d = c
    <3>1. call'[d] = r
      BY <2>1, <2>2
    <3> QED
      BY <2>1, <2>2, <3>1 DEF IsNoted, IsAnswered, Suits, AtRest
  <2>3. CASE d # c
    <3>1. call'[d] = call[d]
      BY <2>1, <2>3
    <3> QED
      BY <2>1, <2>3, <3>1 DEF IsHeld, IsNoted, IsAnswered, Suits, AtRest
  <2> QED
    BY <2>2, <2>3
<1> QED
  BY <1>1, <1>2, CallsKeep

\* A call that was not sent is refused.
LEMMA RefusedKeeps ==
  ASSUME PluginInv, UNCHANGED <<shutdown, queue, actor, peer, wire>>,
         NEW c \in Calls, call[c].pc \in {"idle", "passed"},
         NEW answer \in {"Unavailable", "Busy"}, Plugin!Answer(Plugin!To(c, answer))
  PROVE  PluginInv'
<1>1. IsHeld(c) /\ IsNoted(c) /\ call \in [Calls -> CallRecords]
  BY DEF PluginInv, CallsKnown, PluginTyped
<1>2. wire[c] = "no" /\ c \notin Plugin!Range(queue) /\ c # actor.call
  BY <1>1 DEF IsHeld, IsNoted
<1>3. answer \in Plugin!Answers /\ Suits(c, answer)
  BY <1>2 DEF Plugin!Answers, Suits, Plugin!Recorded
<1>4. PICK r : r = [pc |-> "answered", due |-> {}, answer |-> answer]
  OBVIOUS
<1>5. r \in CallRecords /\ r.pc = "answered" /\ r.answer = answer
  BY <1>3, <1>4 DEF CallRecords
<1>6. call' = [call EXCEPT ![c] = r]
  BY <1>1, <1>4 DEF Plugin!Answer, Plugin!To
<1>7. IsHeld(c)'
  BY <1>1, <1>2, <1>5, <1>6 DEF IsHeld
<1>8. Queued'
  BY DEF PluginInv, Queued
<1> QED
  BY <1>3, <1>5, <1>6, <1>7, <1>8, OneCallKeeps

LEMMA CallStepKeeps ==
  ASSUME PluginInv, NEW c \in Calls, Plugin!CallStep(c)
  PROVE  PluginInv'
<1>1. IsHeld(c) /\ IsNoted(c) /\ call \in [Calls -> CallRecords] /\ Queued
  BY DEF PluginInv, CallsKnown, PluginTyped
<1>2. CASE Plugin!Invoke(c)
  <2>1. call[c].pc = "idle" /\ UNCHANGED <<shutdown, queue, actor, peer, wire>>
    BY <1>2 DEF Plugin!Invoke
  <2>2. CASE Plugin!Answer(Plugin!To(c, "Unavailable"))
    BY <2>1, <2>2, RefusedKeeps
  <2>3. CASE call' = [call EXCEPT ![c].pc = "passed"]
    <3>1. PICK r : r = [call[c] EXCEPT !.pc = "passed"]
      OBVIOUS
    <3>2. r \in CallRecords /\ r.pc = "passed" /\ call' = [call EXCEPT ![c] = r]
      BY <1>1, <2>3, <3>1 DEF CallRecords
    <3>3. IsHeld(c)'
      BY <1>1, <2>1, <3>2 DEF IsHeld
    <3>4. Queued'
      BY <1>1, <2>1 DEF Queued
    <3> QED
      BY <2>1, <3>2, <3>3, <3>4, OneCallKeeps
  <2> QED
    BY <1>2, <2>2, <2>3 DEF Plugin!Invoke
<1>3. CASE Plugin!Send(c)
  <2>1. call[c].pc = "passed" /\ UNCHANGED <<shutdown, actor, peer, wire>>
    BY <1>3 DEF Plugin!Send
  <2>2. CASE Plugin!Answer(Plugin!To(c, "Unavailable")) /\ UNCHANGED queue
    BY <2>1, <2>2, RefusedKeeps
  <2>3. CASE Plugin!Answer(Plugin!To(c, "Busy")) /\ UNCHANGED queue
    BY <2>1, <2>3, RefusedKeeps
  <2>4. CASE call' = [call EXCEPT ![c].pc = "waiting"] /\ queue' = Append(queue, c)
    <3>1. PICK r : r = [call[c] EXCEPT !.pc = "waiting"]
      OBVIOUS
    <3>2. r \in CallRecords /\ r.pc = "waiting" /\ call' = [call EXCEPT ![c] = r]
      BY <1>1, <2>4, <3>1 DEF CallRecords
    <3>3. c \notin Plugin!Range(queue) /\ c # actor.call
      BY <1>1, <2>1 DEF IsHeld
    <3>4. /\ queue' \in Seq(Calls) /\ Plugin!Range(queue') = Plugin!Range(queue) \cup {c}
          /\ \A i, j \in 1..Len(queue') : queue'[i] = queue'[j] => i = j
      BY <1>1, <2>4, <3>3, ElementsOfAppend DEF Queued
    <3>5. Queued'
      BY <1>1, <2>1, <3>3, <3>4 DEF Queued
    <3>6. IsHeld(c)'
      BY <1>1, <3>2, <3>4 DEF IsHeld
    <3> QED
      BY <2>1, <3>2, <3>4, <3>5, <3>6, OneCallKeeps
  <2> QED
    BY <1>3, <2>2, <2>3, <2>4 DEF Plugin!Send
<1>4. ASSUME NEW what \in {"cancel", "deadline"}, Plugin!Due(c, what) PROVE PluginInv'
  <2>1. /\ call[c].pc = "waiting" /\ UNCHANGED <<shutdown, queue, actor, peer, wire>>
        /\ call' = [call EXCEPT ![c].due = @ \cup {what}]
    BY <1>4 DEF Plugin!Due
  <2>2. PICK r : r = [call[c] EXCEPT !.due = @ \cup {what}]
    OBVIOUS
  <2>3. r \in CallRecords /\ r.pc = "waiting" /\ call' = [call EXCEPT ![c] = r]
    <3>1. call[c].due \cup {what} \in SUBSET {"cancel", "deadline"} /\ call[c] \in CallRecords
      BY <1>1 DEF CallRecords
    <3>2. r \in CallRecords /\ r.pc = "waiting"
      BY <2>1, <2>2, <3>1 DEF CallRecords
    <3> QED
      BY <1>1, <2>1, <2>2, <3>2
  <2>4. IsHeld(c)'
    BY <1>1, <2>1, <2>3 DEF IsHeld
  <2>5. Queued'
    BY <1>1, <2>1 DEF Queued
  <2> QED
    BY <2>1, <2>3, <2>4, <2>5, OneCallKeeps
<1> QED
  BY <1>2, <1>3, <1>4 DEF Plugin!CallStep

LEMMA PeerKeeps ==
  ASSUME PluginInv, Plugin!PeerStep
  PROVE  PluginInv'
<1>1. UNCHANGED <<shutdown, call, queue, actor, wire>>
  BY DEF Plugin!PeerStep, Plugin!PeerWrites, Plugin!PeerForks, Plugin!LeaderExits, Plugin!KidsExit
<1>2. /\ peer \in [leader : {"none", "running", "zombie", "reaped"}, kids : BOOLEAN]
      /\ shutdown \in BOOLEAN /\ Driven /\ PeerKnown
  BY DEF PluginInv, PluginTyped
<1>3. /\ peer' \in [leader : {"none", "running", "zombie", "reaped"}, kids : BOOLEAN]
      /\ peer.leader = "reaped" /\ ~peer.kids => peer' = peer
      /\ peer.leader = "none" => peer'.leader = "none"
  <2>1. CASE UNCHANGED peer
    BY <1>2, <2>1
  <2>2. CASE Plugin!PeerForks
    BY <1>2, <2>2 DEF Plugin!PeerForks
  <2>3. CASE Plugin!LeaderExits
    BY <1>2, <2>3 DEF Plugin!LeaderExits
  <2>4. CASE Plugin!KidsExit
    BY <1>2, <2>4 DEF Plugin!KidsExit
  <2> QED
    BY <2>1, <2>2, <2>3, <2>4 DEF Plugin!PeerStep, Plugin!PeerWrites
<1>4. Driven' /\ PeerKnown' /\ (AtRest => AtRest')
  BY <1>1, <1>2, <1>3 DEF Driven, PeerKnown, AtRest
<1> QED
  BY <1>1, <1>2, <1>3, <1>4, QuietKeeps

LEMMA PluginKeeps ==
  ASSUME PluginInv, [Plugin!Next]_pluginVars
  PROVE  PluginInv'
<1>1. CASE UNCHANGED pluginVars
  <2>1. UNCHANGED <<shutdown, call, queue, actor, peer, wire>>
    BY <1>1 DEF pluginVars
  <2>2. Driven' /\ PeerKnown'
    BY <2>1 DEF PluginInv, Driven, PeerKnown, AtRest
  <2> QED
    BY <2>1, <2>2, ThreadKeeps
<1>2. CASE Plugin!HostStep
  <2>1. UNCHANGED <<call, queue, actor, peer, wire>> /\ (shutdown' = shutdown \/ shutdown' = TRUE)
    BY <1>2 DEF Plugin!HostStep, Plugin!HostStarts, Plugin!Shutdown, Plugin!HostCloses,
                Plugin!DropHost, Plugin!RequestShutdown
  <2>2. Driven' /\ PeerKnown' /\ (AtRest => AtRest')
    BY <2>1 DEF PluginInv, Driven, PeerKnown, AtRest
  <2>3. /\ peer' \in [leader : {"none", "running", "zombie", "reaped"}, kids : BOOLEAN]
        /\ shutdown' \in BOOLEAN
    BY <2>1 DEF PluginInv, PluginTyped
  <2> QED
    BY <2>1, <2>2, <2>3, QuietKeeps
<1> QED
  BY <1>1, <1>2, PluginStarts, PluginLoops, PluginDrives, PluginEnds, CallStepKeeps, PeerKeeps
     DEF Plugin!Next, Plugin!ActorStep

LEMMA PluginTells ==
  ASSUME PluginInv
  PROVE  Plugin!AnswersTellWire /\ Plugin!WaitersAreHeld
<1>1. Plugin!WaitersAreHeld
  BY DEF PluginInv, CallsKnown, IsHeld, Plugin!WaitersAreHeld
<1>2. ASSUME NEW c \in {d \in Calls : call[d].pc = "answered"}
      PROVE  Suits(c, call[c].answer)
  BY DEF PluginInv, CallsKnown, IsAnswered
<1>3. Plugin!AnswersTellWire
  BY <1>2 DEF Plugin!AnswersTellWire, Suits, AtRest
<1> QED
  BY <1>1, <1>3

-----------------------------------------------------------------------------
(* The theorems about tools.                                                 *)

\* The inductive invariant: the lock, the last check and the staging directory
\* of every mutation agree with the place it has reached in
\* PreparedWorkspaceMutation::commit.
THEOREM MutationInvariant == ToolsSpec => []CommitInv
<1>1. ToolsInit => CommitInv
  BY ToolsAssumption, CommitBegins DEF ToolsInit
<1>2. CommitInv /\ [ToolsNext]_toolVars => CommitInv'
  BY ToolsAssumption, CommitKeeps, ToolsSteps
<1> QED
  BY <1>1, <1>2, PTL DEF ToolsSpec

\* No commit overwrites what was not shown in its diff, except what somebody
\* wrote after the last revalidation; what it publishes is whole; and its
\* answer (committed, not committed, staging left behind) is true.
THEOREM CommitsAgree == ToolsSpec => []Workspace!CommitAgrees
BY MutationInvariant, CommitTells, PTL

\* The inductive invariant of the supervisor of a command: its causes, its
\* signals and the report agree with the place the worker has reached, and the
\* passes over the process table that it trusts have missed nobody.
THEOREM CommandInvariant == ToolsSpec => []ProcessInv
<1>1. ToolsInit => ProcessInv
  BY ToolsAssumption, ProcessBegins DEF ToolsInit
<1>2. ProcessInv /\ [ToolsNext]_toolVars => ProcessInv'
  BY ToolsAssumption, ProcessKeeps, ToolsSteps
<1> QED
  BY <1>1, <1>2, PTL DEF ToolsSpec

\* A command that is reported as quiescent left nobody of its group behind, and
\* a natural end was neither signalled nor stopped nor cut off; a signal never
\* goes to a group whose leader was reaped (send_signal, finish_report).
THEOREM CommandsReported == ToolsSpec => []Process!ProcessOutcome
BY CommandInvariant, ProcessTells, PTL

\* The inductive invariant of a plugin: a call waits exactly while it is queued
\* or driven, the thread's evidence is what reached the wire, and whatever was
\* answered suits it.
THEOREM PluginInvariant == ToolsSpec => []PluginInv
<1>1. ToolsInit => PluginInv
  BY PluginBegins DEF ToolsInit
<1>2. PluginInv /\ [ToolsNext]_toolVars => PluginInv'
  BY PluginKeeps, ToolsSteps
<1> QED
  BY <1>1, <1>2, PTL DEF ToolsSpec

\* The answer to a call of a plugin agrees with what was written of it, and a
\* call that awaits its answer is held by the queue or by the thread, for any
\* number of calls and any room in the queue.
THEOREM CallsAnswered == ToolsSpec => [](Plugin!AnswersTellWire /\ Plugin!WaitersAreHeld)
BY PluginInvariant, PluginTells, PTL

\* What a tool is reported to have done is what it did: a call of a plugin, a
\* command, and a change of a file.
THEOREM AnswersAreTrue == ToolsSpec => []AnswersTellEffect
<1>1. Plugin!AnswersTellWire /\ Plugin!WaitersAreHeld /\ Process!ProcessOutcome
        /\ Workspace!CommitAgrees => AnswersTellEffect
  BY DEF AnswersTellEffect
<1> QED
  BY <1>1, CallsAnswered, CommandsReported, CommitsAgree, PTL
=============================================================================
