--------------------------- MODULE RoundPolicyProofs --------------------------
(***************************************************************************)
(* A tool round over a durable session and one over a session in memory,   *)
(* as MCToolRound puts them side by side.  ToolRoundProofs is about one    *)
(* policy; here it is taken twice, as it stands and for a session in       *)
(* memory, and the invariant of a behaviour is that of the policy it chose.*)
(*                                                                         *)
(* InMemory and the Memory of MCToolRound stand for the same formulas under*)
(* two names: the first lemmas say so, action by action.                   *)
(***************************************************************************)
EXTENDS MCToolRound, ToolRoundProofs

InMemory == INSTANCE ToolRoundProofs WITH Durable <- FALSE

-----------------------------------------------------------------------------
(* A session in memory under either name.                                  *)

LEMMA StepsAgree == Memory!Next => InMemory!Next
<1> USE DEF Memory!NoRow, InMemory!NoRow, Memory!rows, InMemory!rows, Memory!CallClaim,
            InMemory!CallClaim, Memory!Planned, InMemory!Planned, Memory!ResultClaim,
            InMemory!ResultClaim, Memory!env, InMemory!env, Memory!audit, InMemory!audit,
            Memory!Commit, InMemory!Commit, Memory!L!Row, InMemory!L!Row, Memory!L!NoCall,
            InMemory!L!NoCall, Memory!Flush, InMemory!Flush, Memory!Noticed, InMemory!Noticed,
            Memory!NewTool, InMemory!NewTool, Memory!Goto, InMemory!Goto, Memory!Answered,
            InMemory!Answered, Memory!Interrupt, InMemory!Interrupt, Memory!Policy,
            InMemory!Policy, Memory!L!Outcomes, InMemory!L!Outcomes, Memory!First,
            InMemory!First, Memory!Unresolved, InMemory!Unresolved
<1>1. Memory!ClaimRound => InMemory!ClaimRound
  BY DEF Memory!ClaimRound, InMemory!ClaimRound, Memory!RoundClaims, InMemory!RoundClaims
<1>2. Memory!CommitAssistant => InMemory!CommitAssistant
  BY DEF Memory!CommitAssistant, InMemory!CommitAssistant, Memory!L!AfterAssistant,
         InMemory!L!AfterAssistant, Memory!L!Declared, InMemory!L!Declared
<1>3. Memory!RoundBarrier => InMemory!RoundBarrier
  BY DEF Memory!RoundBarrier, InMemory!RoundBarrier
<1>4. Memory!RecordCall => InMemory!RecordCall
  BY DEF Memory!RecordCall, InMemory!RecordCall, Memory!NextCall, InMemory!NextCall,
         Memory!L!AfterToolCall, InMemory!L!AfterToolCall, Memory!Stopping,
         InMemory!Stopping
<1>5. Memory!DispatchBarrier => InMemory!DispatchBarrier
  BY DEF Memory!DispatchBarrier, InMemory!DispatchBarrier
<1>6. Memory!RefuseCall => InMemory!RefuseCall
  BY DEF Memory!RefuseCall, InMemory!RefuseCall
<1>7. Memory!PreparationStopped => InMemory!PreparationStopped
  BY DEF Memory!PreparationStopped, InMemory!PreparationStopped
<1>8. Memory!NoticeStop => InMemory!NoticeStop
  BY DEF Memory!NoticeStop, InMemory!NoticeStop
<1>9. Memory!DeniedByPolicy => InMemory!DeniedByPolicy
  BY DEF Memory!DeniedByPolicy, InMemory!DeniedByPolicy
<1>10. Memory!NoRoom => InMemory!NoRoom
  BY DEF Memory!NoRoom, InMemory!NoRoom, Memory!OutOfRoom, InMemory!OutOfRoom
<1>11. Memory!Reserve => InMemory!Reserve
  BY DEF Memory!Reserve, InMemory!Reserve
<1>12. Memory!CannotAsk => InMemory!CannotAsk
  BY DEF Memory!CannotAsk, InMemory!CannotAsk, Memory!OutOfRoom, InMemory!OutOfRoom
<1>13. Memory!Ask => InMemory!Ask
  BY DEF Memory!Ask, InMemory!Ask, Memory!L!AfterAsk, InMemory!L!AfterAsk
<1>14. Memory!AskedBarrier => InMemory!AskedBarrier
  BY DEF Memory!AskedBarrier, InMemory!AskedBarrier
<1>15. Memory!ApprovalStopped => InMemory!ApprovalStopped
  BY DEF Memory!ApprovalStopped, InMemory!ApprovalStopped
<1>16. Memory!Decide => InMemory!Decide
  BY DEF Memory!Decide, InMemory!Decide, Memory!L!AfterDecide, InMemory!L!AfterDecide
<1>17. Memory!DecidedBarrier => InMemory!DecidedBarrier
  BY DEF Memory!DecidedBarrier, InMemory!DecidedBarrier
<1>18. Memory!StoppedBeforeStart => InMemory!StoppedBeforeStart
  BY DEF Memory!StoppedBeforeStart, InMemory!StoppedBeforeStart
<1>19. Memory!StartEffect => InMemory!StartEffect
  BY DEF Memory!StartEffect, InMemory!StartEffect
<1>20. Memory!Settle => InMemory!Settle
  BY DEF Memory!Settle, InMemory!Settle, Memory!Fallbacks, InMemory!Fallbacks, Memory!Fits,
         InMemory!Fits, Memory!ResultRow, InMemory!ResultRow, Memory!L!AfterToolResult,
         InMemory!L!AfterToolResult, Memory!CodeOf, InMemory!CodeOf, Memory!Refusals,
         InMemory!Refusals, Memory!AfterResult, InMemory!AfterResult
<1>21. Memory!SettleUnknown => InMemory!SettleUnknown
  BY DEF Memory!SettleUnknown, InMemory!SettleUnknown, Memory!Fallbacks, InMemory!Fallbacks,
         Memory!Fits, InMemory!Fits, Memory!ResultRow, InMemory!ResultRow,
         Memory!L!AfterToolResult, InMemory!L!AfterToolResult, Memory!CodeOf,
         InMemory!CodeOf, Memory!Refusals, InMemory!Refusals
<1>22. Memory!LeaveUnanswered => InMemory!LeaveUnanswered
  BY DEF Memory!LeaveUnanswered, InMemory!LeaveUnanswered, Memory!Return, InMemory!Return
<1>23. Memory!RoundDone => InMemory!RoundDone
  BY DEF Memory!RoundDone, InMemory!RoundDone, Memory!Return, InMemory!Return
<1>24. Memory!SetupEnds => InMemory!SetupEnds
  BY DEF Memory!SetupEnds, InMemory!SetupEnds, Memory!StopSeen, InMemory!StopSeen
<1>25. Memory!EffectEnds => InMemory!EffectEnds
  BY DEF Memory!EffectEnds, InMemory!EffectEnds, Memory!StopSeen, InMemory!StopSeen
<1>26. Memory!Prepared => InMemory!Prepared
  BY DEF Memory!Prepared, InMemory!Prepared
<1>27. Memory!ApprovalAnswer => InMemory!ApprovalAnswer
  BY DEF Memory!ApprovalAnswer, InMemory!ApprovalAnswer
<1>28. Memory!Cancel => InMemory!Cancel
  BY DEF Memory!Cancel, InMemory!Cancel, Memory!Ended, InMemory!Ended
<1>29. Memory!Expire => InMemory!Expire
  BY DEF Memory!Expire, InMemory!Expire, Memory!Ended, InMemory!Ended
<1>30. Memory!Abandon => InMemory!Abandon
  BY DEF Memory!Abandon, InMemory!Abandon, Memory!AtSession, InMemory!AtSession
<1> QED
  BY <1>1, <1>2, <1>3, <1>4, <1>5, <1>6, <1>7, <1>8, <1>9, <1>10, <1>11, <1>12, <1>13,
     <1>14, <1>15, <1>16, <1>17, <1>18, <1>19, <1>20, <1>21, <1>22, <1>23, <1>24, <1>25,
     <1>26, <1>27, <1>28, <1>29, <1>30
     DEF Memory!Next, InMemory!Next, Memory!Step, InMemory!Step, Memory!Tool, InMemory!Tool

\* A row that continues the log does.
LEMMA RowsAgree == InMemory!L!Next => Memory!L!Next
<1> USE DEF InMemory!L!Turns, Memory!L!Turns, InMemory!L!Free, Memory!L!Free, InMemory!L!Row,
            Memory!L!Row, InMemory!L!Steps, Memory!L!Steps, InMemory!L!NoCall, Memory!L!NoCall,
            InMemory!L!InStep, Memory!L!InStep, InMemory!L!Compatible, Memory!L!Compatible,
            InMemory!L!AttemptRow, Memory!L!AttemptRow, InMemory!L!TerminalAttempt,
            Memory!L!TerminalAttempt
<1>1. InMemory!L!TurnStart => Memory!L!TurnStart
  BY DEF InMemory!L!TurnStart, Memory!L!TurnStart, InMemory!L!CanTurnStart,
         Memory!L!CanTurnStart, InMemory!L!AfterTurnStart, Memory!L!AfterTurnStart
<1>2. InMemory!L!TurnEnd => Memory!L!TurnEnd
  BY DEF InMemory!L!TurnEnd, Memory!L!TurnEnd, InMemory!L!CanTurnEnd, Memory!L!CanTurnEnd,
         InMemory!L!AfterTurnEnd, Memory!L!AfterTurnEnd
<1>3. InMemory!L!StepStart => Memory!L!StepStart
  BY DEF InMemory!L!StepStart, Memory!L!StepStart, InMemory!L!CanStepStart,
         Memory!L!CanStepStart, InMemory!L!AfterStepStart, Memory!L!AfterStepStart,
         InMemory!L!NoCalls, Memory!L!NoCalls
<1>4. InMemory!L!StepEnd => Memory!L!StepEnd
  BY DEF InMemory!L!StepEnd, Memory!L!StepEnd, InMemory!L!Dispositions,
         Memory!L!Dispositions, InMemory!L!CanStepEnd, Memory!L!CanStepEnd,
         InMemory!L!AllAnswered, Memory!L!AllAnswered, InMemory!L!ClosesAttempt,
         Memory!L!ClosesAttempt, InMemory!L!ClosedAttempt, Memory!L!ClosedAttempt,
         InMemory!L!OpenAttempt, Memory!L!OpenAttempt, InMemory!L!AfterStepEnd,
         Memory!L!AfterStepEnd, InMemory!L!NoCalls, Memory!L!NoCalls
<1>5. InMemory!L!Note => Memory!L!Note
  BY DEF InMemory!L!Note, Memory!L!Note, InMemory!L!CanNote, Memory!L!CanNote,
         InMemory!L!AfterNote, Memory!L!AfterNote
<1>6. InMemory!L!Dispatch => Memory!L!Dispatch
  BY DEF InMemory!L!Dispatch, Memory!L!Dispatch, InMemory!L!CanDispatch,
         Memory!L!CanDispatch, InMemory!L!MayReplay, Memory!L!MayReplay,
         InMemory!L!AfterDispatch, Memory!L!AfterDispatch
<1>7. InMemory!L!Chunk => Memory!L!Chunk
  BY DEF InMemory!L!Chunk, Memory!L!Chunk, InMemory!L!Failures, Memory!L!Failures,
         InMemory!L!CanChunk, Memory!L!CanChunk, InMemory!L!MayReplay, Memory!L!MayReplay,
         InMemory!L!AfterChunk, Memory!L!AfterChunk
<1>8. InMemory!L!Seal => Memory!L!Seal
  BY DEF InMemory!L!Seal, Memory!L!Seal, InMemory!L!CanSeal, Memory!L!CanSeal,
         InMemory!L!AfterSeal, Memory!L!AfterSeal
<1>9. InMemory!L!AssistantMessage => Memory!L!AssistantMessage
  BY DEF InMemory!L!AssistantMessage, Memory!L!AssistantMessage, InMemory!L!CallLists,
         Memory!L!CallLists, InMemory!L!Cardinality, Memory!L!Cardinality,
         InMemory!L!CanAssistant, Memory!L!CanAssistant, InMemory!L!AfterAssistant,
         Memory!L!AfterAssistant, InMemory!L!Declared, Memory!L!Declared
<1>10. InMemory!L!LlmRetry => Memory!L!LlmRetry
  BY DEF InMemory!L!LlmRetry, Memory!L!LlmRetry, InMemory!L!CanRetry, Memory!L!CanRetry,
         InMemory!L!Failures, Memory!L!Failures, InMemory!L!RetriesOf, Memory!L!RetriesOf,
         InMemory!L!Cardinality, Memory!L!Cardinality, InMemory!L!AfterRetry,
         Memory!L!AfterRetry
<1>11. InMemory!L!LlmRetryStarted => Memory!L!LlmRetryStarted
  BY DEF InMemory!L!LlmRetryStarted, Memory!L!LlmRetryStarted, InMemory!L!CanRetryStarted,
         Memory!L!CanRetryStarted, InMemory!L!Reopens, Memory!L!Reopens,
         InMemory!L!AfterRetryStarted, Memory!L!AfterRetryStarted, InMemory!L!ReopenSlot,
         Memory!L!ReopenSlot
<1>12. InMemory!L!ToolCall => Memory!L!ToolCall
  BY DEF InMemory!L!ToolCall, Memory!L!ToolCall, InMemory!L!CanToolCall,
         Memory!L!CanToolCall, InMemory!L!IsNextCall, Memory!L!IsNextCall,
         InMemory!L!AfterToolCall, Memory!L!AfterToolCall
<1>13. InMemory!L!ApprovalAsked => Memory!L!ApprovalAsked
  BY DEF InMemory!L!ApprovalAsked, Memory!L!ApprovalAsked, InMemory!L!CanAsk,
         Memory!L!CanAsk, InMemory!L!AfterAsk, Memory!L!AfterAsk
<1>14. InMemory!L!ApprovalDecided => Memory!L!ApprovalDecided
  BY DEF InMemory!L!ApprovalDecided, Memory!L!ApprovalDecided, InMemory!L!Outcomes,
         Memory!L!Outcomes, InMemory!L!CanDecide, Memory!L!CanDecide,
         InMemory!L!AfterDecide, Memory!L!AfterDecide
<1>15. InMemory!L!ToolResult => Memory!L!ToolResult
  BY DEF InMemory!L!ToolResult, Memory!L!ToolResult, InMemory!L!Codes, Memory!L!Codes,
         InMemory!L!Outcomes, Memory!L!Outcomes, InMemory!L!CanToolResult,
         Memory!L!CanToolResult, InMemory!L!HonoursDecision, Memory!L!HonoursDecision,
         InMemory!L!AfterToolResult, Memory!L!AfterToolResult
<1>16. InMemory!L!CompactionPrune => Memory!L!CompactionPrune
  BY DEF InMemory!L!CompactionPrune, Memory!L!CompactionPrune, InMemory!L!CanPrune,
         Memory!L!CanPrune, InMemory!L!CanOverflow, Memory!L!CanOverflow,
         InMemory!L!AfterPrune, Memory!L!AfterPrune
<1>17. InMemory!L!Rewrite => Memory!L!Rewrite
  BY DEF InMemory!L!Rewrite, Memory!L!Rewrite, InMemory!L!CanRewrite, Memory!L!CanRewrite,
         InMemory!L!NoMarker, Memory!L!NoMarker, InMemory!L!AfterRewrite,
         Memory!L!AfterRewrite, InMemory!L!Progress, Memory!L!Progress
<1>18. InMemory!L!CompactionStart => Memory!L!CompactionStart
  BY DEF InMemory!L!CompactionStart, Memory!L!CompactionStart, InMemory!L!Triggers,
         Memory!L!Triggers, InMemory!L!CanCompactionStart, Memory!L!CanCompactionStart,
         InMemory!L!PlaceOf, Memory!L!PlaceOf, InMemory!L!CanOverflow, Memory!L!CanOverflow,
         InMemory!L!AfterCompactionStart, Memory!L!AfterCompactionStart
<1>19. InMemory!L!CompactionSummary => Memory!L!CompactionSummary
  BY DEF InMemory!L!CompactionSummary, Memory!L!CompactionSummary, InMemory!L!CanSummary,
         Memory!L!CanSummary, InMemory!L!AfterSummary, Memory!L!AfterSummary
<1>20. InMemory!L!Checkpoint => Memory!L!Checkpoint
  BY DEF InMemory!L!Checkpoint, Memory!L!Checkpoint, InMemory!L!CanCheckpoint,
         Memory!L!CanCheckpoint, InMemory!L!NoMarker, Memory!L!NoMarker,
         InMemory!L!AfterCheckpoint, Memory!L!AfterCheckpoint, InMemory!L!Progress,
         Memory!L!Progress
<1>21. InMemory!L!CompactionEnd => Memory!L!CompactionEnd
  BY DEF InMemory!L!CompactionEnd, Memory!L!CompactionEnd, InMemory!L!CanCompactionEnd,
         Memory!L!CanCompactionEnd, InMemory!L!AfterCompactionEnd,
         Memory!L!AfterCompactionEnd
<1> QED
  BY <1>1, <1>2, <1>3, <1>4, <1>5, <1>6, <1>7, <1>8, <1>9, <1>10, <1>11, <1>12, <1>13,
     <1>14, <1>15, <1>16, <1>17, <1>18, <1>19, <1>20, <1>21 DEF InMemory!L!Next,
     Memory!L!Next

\* A round begins with the same log.
LEMMA BeginsAgree == Memory!Init => InMemory!Init
BY DEF Memory!Init, InMemory!Init, Memory!SealedStep, InMemory!SealedStep,
       Memory!L!AfterSeal, InMemory!L!AfterSeal, Memory!L!AfterChunk, InMemory!L!AfterChunk,
       Memory!L!Row, InMemory!L!Row, Memory!L!AfterDispatch, InMemory!L!AfterDispatch,
       Memory!L!AfterStepStart, InMemory!L!AfterStepStart, Memory!L!NoCalls,
       InMemory!L!NoCalls, Memory!L!NoCall, InMemory!L!NoCall, Memory!L!AfterTurnStart,
       InMemory!L!AfterTurnStart, Memory!L!EmptyLog, InMemory!L!EmptyLog,
       Memory!L!CallLists, InMemory!L!CallLists, Memory!L!Cardinality,
       InMemory!L!Cardinality, Memory!Policies, InMemory!Policies, Memory!NewTool,
       InMemory!NewTool, Memory!NewRound, InMemory!NewRound

\* What it may leave open is the same.
LEMMA OpenAgree == InMemory!RoundLeavesNothingOpen => Memory!RoundLeavesNothingOpen
BY DEF Memory!RoundLeavesNothingOpen, InMemory!RoundLeavesNothingOpen, Memory!Planned,
       InMemory!Planned

-----------------------------------------------------------------------------
(* The invariant of a round, whichever session it writes to.               *)

\* Each policy has its own invariant: a session in memory may return with a call
\* that it could not answer.
BothInv == IF durable THEN IInv ELSE InMemory!IInv

\* The assumptions on the ids hold for a session in memory too.
LEMMA MemoryIds == InMemory!OneApprovalPerCall /\ InMemory!RoundIds
<1>1. InMemory!OneApprovalPerCall
  BY OneApprovalPerCall DEF InMemory!OneApprovalPerCall, Cardinality, InMemory!Cardinality
<1>2. InMemory!RoundIds
  BY RoundIds DEF InMemory!RoundIds, IsFiniteSet, InMemory!IsFiniteSet
<1> QED
  BY <1>1, <1>2

LEMMA BothBegin == BothInit => BothInv
<1>1. CASE durable
  BY <1>1, InitHolds DEF BothInit, BothInv
<1>2. CASE ~durable
  <2>1. BothInit => InMemory!Init
    BY <1>2, BeginsAgree DEF BothInit
  <2>2. InMemory!Init => InMemory!IInv
    BY MemoryIds, InMemory!InitHolds
  <2> QED
    BY <1>2, <2>1, <2>2 DEF BothInv
<1> QED
  BY <1>1, <1>2

LEMMA BothSteps ==
  ASSUME [BothNext]_<<vars, durable>>
  PROVE  /\ durable' = durable
         /\ IF durable THEN [Next]_vars ELSE [InMemory!Next]_InMemory!vars
<1>1. vars' = vars => InMemory!vars' = InMemory!vars
  BY DEF vars, env, rows, audit, InMemory!vars, InMemory!env, InMemory!rows, InMemory!audit
<1> QED
  BY <1>1, StepsAgree DEF BothNext

LEMMA BothKeeps ==
  ASSUME BothInv, [BothNext]_<<vars, durable>>
  PROVE  BothInv'
<1>1. durable' = durable /\ IF durable THEN [Next]_vars ELSE [InMemory!Next]_InMemory!vars
  BY BothSteps
<1>2. CASE durable
  <2>1. IInv'
    BY <1>1, <1>2, IInvHolds DEF BothInv
  <2> QED
    BY <1>1, <1>2, <2>1 DEF BothInv
<1>3. CASE ~durable
  <2>1. InMemory!IInv /\ [InMemory!Next]_InMemory!vars => InMemory!IInv'
    BY MemoryIds, InMemory!IInvHolds
  <2>2. InMemory!IInv'
    BY <1>1, <1>3, <2>1 DEF BothInv
  <2> QED
    BY <1>1, <1>3, <2>2 DEF BothInv
<1> QED
  BY <1>2, <1>3

-----------------------------------------------------------------------------
(* Theorems.                                                               *)

\* However a round of either session ends, no claim is left and every recorded
\* call is answered, but for the last one of a session in memory, whose outcome
\* has no row; and the turn goes on only when nothing is in doubt
\* (commit_tool_round, settle_unknown_tool_outcome).
THEOREM RoundsEndClean == BothSpec => []RoundEndsCleanInBoth
<1>1. BothInv => RoundEndsCleanInBoth
  <2>1. CASE durable
    BY <2>1 DEF BothInv, IInv, RoundEndsCleanInBoth
  <2>2. CASE ~durable
    <3>1. InMemory!IInv => InMemory!RoundLeavesNothingOpen /\ InMemory!ContinueIsClean
      BY DEF InMemory!IInv
    <3>2. InMemory!ContinueIsClean => ContinueIsClean
      BY DEF InMemory!ContinueIsClean, ContinueIsClean, InMemory!Planned, Planned
    <3> QED
      BY <2>2, <3>1, <3>2, OpenAgree DEF BothInv, RoundEndsCleanInBoth
  <2> QED
    BY <2>1, <2>2
<1> QED
  BY <1>1, BothBegin, BothKeeps, PTL DEF BothSpec

\* Every row that a round writes is one that the log of its session takes
\* (prepare_durable_event of a durable session, with_event of one in memory).
THEOREM RowsFollowInBoth == BothSpec => LogFollowsGrammarInBoth
<1>1. BothInv /\ [BothNext]_<<vars, durable>> =>
        [IF durable THEN L!Next ELSE Memory!L!Next]_log
  <2> SUFFICES ASSUME BothInv, [BothNext]_<<vars, durable>>
               PROVE  [IF durable THEN L!Next ELSE Memory!L!Next]_log
    OBVIOUS
  <2>1. IF durable THEN [Next]_vars ELSE [InMemory!Next]_InMemory!vars
    BY BothSteps
  <2>2. CASE durable
    <3>1. [L!Next]_log
      BY <2>1, <2>2, RowFollows DEF BothInv
    <3> QED
      BY <2>2, <3>1
  <2>3. CASE ~durable
    <3>1. InMemory!IInv /\ [InMemory!Next]_InMemory!vars => [InMemory!L!Next]_log
      BY MemoryIds, InMemory!RowFollows
    <3>2. [Memory!L!Next]_log
      BY <2>1, <2>3, <3>1, RowsAgree DEF BothInv
    <3> QED
      BY <2>3, <3>2
  <2> QED
    BY <2>2, <2>3
<1> QED
  BY <1>1, BothBegin, BothKeeps, PTL DEF BothSpec, LogFollowsGrammarInBoth

=============================================================================
