---------------------------- MODULE ToolRoundProofs ----------------------------
(***************************************************************************)
(* Proofs about ToolRound: with any calls, approvals and policies, over a  *)
(* durable session and over one in memory.                                 *)
(*                                                                         *)
(* The inductive invariant IInv says of a live round what each of its      *)
(* parties has in hand: the claims that are left (ClaimsHeld), the rows    *)
(* the log has (LogKept), what the round has noticed (RoundClean) and what *)
(* the tools did outside (EffectKept).  Once the round has ended only the  *)
(* properties themselves are kept.                                         *)
(***************************************************************************)
EXTENDS ToolRound, FiniteSetTheorems, TLAPS

\* The folds of the logs that a round extends: one turn, one step, no bracket.
RoundLogs ==
  [turn : {0, 1}, nextTurn : {1}, step : {0, 1}, nextStep : {1},
   attempt : {"outside", "ready", "streaming", "finished", "sealed", "committed"},
   finish : {"none", "ok"}, overflow : {"unused"},
   order : Seq(Calls), call : [Calls -> L!CallStates],
   asked : SUBSET Approvals, owned : SUBSET Approvals,
   scheduled : {{}}, started : {{}},
   compaction : {"none"}, owner : {0}, marker : {"none"}, orphans : {0},
   results : SUBSET Calls]

-----------------------------------------------------------------------------
(* The inductive invariant.                                                *)

PlanTyped ==
  plan \in [order : L!CallLists \ {<<>>}, owned : [Calls -> BOOLEAN],
            policy : [Calls -> Policies]]

Before == {"claim", "commit"}
Resolving == {"dispatch", "prepare", "setup", "resolve", "ask", "asked", "waiting",
              "decide", "decided", "start", "acting", "settle"}
Unasked == {"dispatch", "prepare", "setup", "resolve", "ask"}
Asking == {"asked", "waiting", "decide"}
Granted == {"ask", "asked", "waiting", "decide", "decided", "start", "acting"}
Visible == {"prepare", "setup", "resolve", "ask", "waiting", "start", "acting"}

ToolHeld ==
  /\ IF pc \in Resolving THEN tool.call \in Planned ELSE tool = NewTool
  /\ pc = "settle" => tool.answer # "none"
  /\ pc \in {"decide", "decided"} => tool.outcome \in L!Outcomes
  /\ pc \in Asking => tool.approval \in Approvals

\* The calls are recorded in the order of the plan, and each result claim is
\* held until its call is answered.
ClaimsHeld ==
  /\ pc = "claim" => claims = {}
  /\ pc = "commit" => claims = RoundClaims
  /\ pc \in Before => \A c \in Calls : answer[c] = "none"
  /\ pc \notin Before =>
       /\ <<"assistant", "round">> \notin claims
       /\ \A c \in Planned : ResultClaim(c) \in claims <=> answer[c] = "none"
       /\ \A c \in Calls :
            answer[c] # "none" <=> c \in Planned /\ CallClaim(c) \notin claims /\ c # tool.call
       /\ \A i, j \in DOMAIN plan.order :
            i < j /\ CallClaim(plan.order[i]) \in claims => CallClaim(plan.order[j]) \in claims
       /\ \A a \in Approvals : <<"decided", a>> \in claims <=> pc \in Asking /\ a = tool.approval
  /\ pc \in Resolving =>
       /\ CallClaim(tool.call) \notin claims
       /\ \A i, j \in DOMAIN plan.order :
            i < j /\ plan.order[i] = tool.call => CallClaim(plan.order[j]) \in claims

\* What the log says of a call is what its claims and the locals say.
LogKept ==
  /\ log \in RoundLogs /\ log.turn = 1 /\ log.step = 1 /\ log.finish = "ok"
  /\ pc \in Before => /\ log.attempt = "sealed" /\ log.order = <<>>
                      /\ \A c \in Calls : log.call[c] = L!NoCall
  /\ log.asked = IF pc \in Asking THEN {tool.approval} ELSE {}
  /\ Durable /\ pc \notin Before =>
       /\ log.order = plan.order
       /\ \A c \in Planned :
            IF CallClaim(c) \in claims THEN log.call[c] = [L!NoCall EXCEPT !.stage = "declared"]
            ELSE log.call[c].stage \in {"started", "answered"}
       /\ \A c \in Calls : log.call[c].approval = "pending" <=> pc \in Asking /\ c = tool.call
  /\ pc \in Resolving => log.call[tool.call].stage = "started"
  /\ Durable =>
       /\ pc \in Unasked => log.call[tool.call] = [L!NoCall EXCEPT !.stage = "started"]
       /\ pc = "decided" => log.call[tool.call].approval = tool.outcome
       /\ pc \in {"start", "acting"} => log.call[tool.call].approval \in {"none", "allowed"}
       /\ pc = "settle" /\ log.call[tool.call].approval \in Refusals =>
            tool.answer = log.call[tool.call].approval /\ tool.call \in room

\* While a call is on its way to its effect nothing has gone wrong, and what
\* the log says of it can be seen.
RoundClean ==
  /\ round.stop # "none" => round.failed \/ round.cancelled
  /\ \A c \in Calls : answer[c] = "unknown" => round.failed
  /\ round.concludes => \E c \in Planned : answer[c] \in {"read", "done"}
  /\ pc \in Resolving \ {"settle"} => ~round.limit /\ ~round.failed /\ ~round.cancelled
  /\ pc \in Resolving \ {"settle", "decide", "decided"} => ~round.lost
  /\ pc \in {"decide", "decided"} /\ round.lost => tool.outcome # "allowed"
  /\ pc \in Visible => ~dirty /\ observer = "up"

EffectKept ==
  /\ \A c \in Calls :
       /\ effect[c] = "running" <=> pc = "acting" /\ c = tool.call
       /\ effect[c] = "performed" =>
            \/ answer[c] \in {"done", "unknown"}
            \/ c = tool.call /\ pc = "settle" /\ tool.answer \in {"unknown", "done"}
       /\ answer[c] = "done" => effect[c] = "performed"
  /\ pc = "settle" /\ tool.answer = "done" => tool.required /\ effect[tool.call] = "performed"
  /\ tool.required => pc = "settle" /\ tool.answer = "done"
  /\ pc = "settle" /\ tool.answer = "unknown" /\ effect[tool.call] = "performed" =>
       tool.call \in room
  /\ pc \in Granted => tool.call \in room
  /\ pc \in Asking \cup {"ask", "decided"} => plan.policy[tool.call] = "ask"
  /\ pc = "decided" => decision[tool.call] = tool.outcome
  /\ pc \in {"start", "acting"} =>
       \/ plan.policy[tool.call] = "allow"
       \/ plan.policy[tool.call] = "ask" /\ decision[tool.call] = "allowed"

Live == ToolHeld /\ ClaimsHeld /\ LogKept /\ RoundClean /\ EffectKept

IInv ==
  /\ TypeOK /\ PlanTyped
  /\ pc \notin Ended => Live
  /\ EffectAnsweredTruthfully /\ RoundLeavesNothingOpen /\ ContinueIsClean

-----------------------------------------------------------------------------
(* The rows of the round.                                                  *)

LEMMA Words ==
  /\ L!Outcomes = {"allowed", "rejected", "cancelled", "unavailable"}
  /\ Refusals = {"rejected", "cancelled", "unavailable"}
  /\ L!Codes = {"ok", "error", "notStarted", "rejected", "cancelled", "unavailable"}
BY DEF L!Outcomes, Refusals, L!Codes

LEMMA StateOfCall ==
  /\ L!NoCall \in L!CallStates /\ L!NoCall.stage = "absent" /\ L!NoCall.approval = "none"
  /\ L!NoCalls = [c \in Calls |-> L!NoCall] /\ L!NoCalls \in [Calls -> L!CallStates]
<1>1. PICK n : n = L!NoCall
  OBVIOUS
<1>2. n \in L!CallStates /\ n.stage = "absent" /\ n.approval = "none"
  BY <1>1, Words DEF L!NoCall, L!CallStates
<1> QED
  BY <1>1, <1>2 DEF L!NoCalls

\* Without a marker a row changes only what it is about.
LEMMA RowIsQuiet == \A l \in RoundLogs : L!Row(l) = l
<1> SUFFICES ASSUME NEW l \in RoundLogs PROVE L!Row(l) = l
  OBVIOUS
<1>1. PICK n : n = l.orphans + (IF l.marker = "none" THEN 0 ELSE 1)
  OBVIOUS
<1>2. n = 0 /\ l.orphans = 0 /\ l.marker = "none"
  BY <1>1 DEF RoundLogs
<1>3. [l EXCEPT !.marker = "none", !.orphans = 0] = l
  BY <1>2 DEF RoundLogs
<1> QED
  BY <1>1, <1>2, <1>3 DEF L!Row

\* The fields a row of a call or an approval leaves alone.
SameStep(m, l) ==
  /\ m.turn = l.turn /\ m.step = l.step /\ m.attempt = l.attempt
  /\ m.finish = l.finish /\ m.order = l.order

\* How the log of the round looks before its first row.
Opened(l) == l.order = <<>> /\ l.call = L!NoCalls /\ l.asked = {}

LEMMA OpeningRows ==
  ASSUME NEW l \in RoundLogs, Opened(l)
  PROVE  /\ [l EXCEPT !.turn = 1, !.step = 0, !.nextStep = 1] \in RoundLogs
         /\ \A a \in {"ready", "outside"} :
              [l EXCEPT !.step = 1, !.order = <<>>, !.call = L!NoCalls, !.attempt = a]
                \in RoundLogs
         /\ [l EXCEPT !.attempt = "streaming", !.finish = "none"] \in RoundLogs
         /\ [l EXCEPT !.attempt = "finished", !.finish = "ok"] \in RoundLogs
         /\ [l EXCEPT !.attempt = "sealed"] \in RoundLogs
<1>1. [l EXCEPT !.turn = 1, !.step = 0, !.nextStep = 1] \in RoundLogs
  BY DEF RoundLogs
<1>2. <<>> \in Seq(Calls)
  OBVIOUS
<1>3. ASSUME NEW a \in {"ready", "outside"}
      PROVE [l EXCEPT !.step = 1, !.order = <<>>, !.call = L!NoCalls, !.attempt = a]
              \in RoundLogs
  BY <1>2, <1>3, StateOfCall DEF RoundLogs
<1>4. [l EXCEPT !.attempt = "streaming", !.finish = "none"] \in RoundLogs
  BY DEF RoundLogs
<1>5. [l EXCEPT !.attempt = "finished", !.finish = "ok"] \in RoundLogs
  BY DEF RoundLogs
<1>6. [l EXCEPT !.attempt = "sealed"] \in RoundLogs
  BY DEF RoundLogs
<1> QED
  BY <1>1, <1>3, <1>4, <1>5, <1>6

LEMMA SealedStepFields ==
  /\ SealedStep \in RoundLogs
  /\ SealedStep.turn = 1 /\ SealedStep.step = 1
  /\ SealedStep.attempt = "sealed" /\ SealedStep.finish = "ok" /\ Opened(SealedStep)
<1>1. L!EmptyLog \in RoundLogs
  <2>1. <<>> \in Seq(Calls)
    OBVIOUS
  <2> QED
    BY <2>1, StateOfCall DEF L!EmptyLog, RoundLogs
<1>2. PICK l0 \in RoundLogs : l0 = L!EmptyLog
  BY <1>1
<1>3. Opened(l0) /\ l0.attempt = "outside"
  BY <1>2 DEF L!EmptyLog, Opened
<1>4. PICK l1 \in RoundLogs : l1 = [l0 EXCEPT !.turn = 1, !.step = 0, !.nextStep = 1]
  BY <1>3, OpeningRows
<1>5. l1.turn = 1 /\ l1.attempt = "outside" /\ Opened(l1) /\ l1 = L!AfterTurnStart(l0, 1)
  BY <1>3, <1>4, RowIsQuiet, ZenonT(60) DEF RoundLogs, L!AfterTurnStart, Opened
<1>6. PICK a \in {"ready", "outside"} : a = IF Durable THEN "ready" ELSE l1.attempt
  BY <1>5
<1>7. PICK l2 \in RoundLogs :
        l2 = [l1 EXCEPT !.step = 1, !.order = <<>>, !.call = L!NoCalls, !.attempt = a]
  BY <1>5, OpeningRows
<1>8. l2.turn = 1 /\ l2.step = 1 /\ Opened(l2)
  BY <1>5, <1>7, StateOfCall DEF RoundLogs, Opened
<1>9. l2 = L!AfterStepStart(l1, 1)
  BY <1>6, <1>7, RowIsQuiet DEF L!AfterStepStart
<1>10. PICK l3 \in RoundLogs : l3 = [l2 EXCEPT !.attempt = "streaming", !.finish = "none"]
  BY <1>8, OpeningRows
<1>11. l3.turn = 1 /\ l3.step = 1 /\ Opened(l3) /\ l3 = L!AfterDispatch(l2)
  BY <1>8, <1>10 DEF RoundLogs, L!AfterDispatch, Opened
<1>12. PICK l4 \in RoundLogs : l4 = [l3 EXCEPT !.attempt = "finished", !.finish = "ok"]
  BY <1>11, OpeningRows
<1>13. l4.turn = 1 /\ l4.step = 1 /\ l4.finish = "ok" /\ Opened(l4)
  BY <1>11, <1>12 DEF RoundLogs, Opened
<1>14. l4 = L!AfterChunk(l3, "ok", TRUE)
  BY <1>12, RowIsQuiet DEF L!AfterChunk
<1>15. PICK l5 \in RoundLogs : l5 = [l4 EXCEPT !.attempt = "sealed"]
  BY <1>13, OpeningRows
<1>16. /\ l5.turn = 1 /\ l5.step = 1 /\ l5.finish = "ok" /\ l5.attempt = "sealed"
       /\ Opened(l5) /\ l5 = L!AfterSeal(l4)
  BY <1>13, <1>15 DEF RoundLogs, L!AfterSeal, Opened
<1>17. l5 = SealedStep
  BY <1>2, <1>5, <1>9, <1>11, <1>14, <1>16 DEF SealedStep
<1> QED
  BY <1>16, <1>17

\* The log after the assistant message that declares the calls.
Declares(m, l, calls) ==
  /\ m \in RoundLogs /\ m.turn = l.turn /\ m.step = l.step /\ m.finish = l.finish
  /\ m.asked = l.asked
  /\ Durable => /\ m.order = calls
                /\ \A c \in Calls :
                     m.call[c] = IF \E i \in DOMAIN calls : calls[i] = c
                                 THEN [L!NoCall EXCEPT !.stage = "declared"]
                                 ELSE L!NoCall

LEMMA AssistantRow ==
  ASSUME NEW l \in RoundLogs, Opened(l), NEW calls \in Seq(Calls)
  PROVE  Declares(L!AfterAssistant(l, calls, TRUE), l, calls)
<1>1. PICK o : o = IF Durable THEN l.order \o calls ELSE l.order
  OBVIOUS
<1>2. o \in Seq(Calls) /\ (Durable => o = calls)
  BY <1>1 DEF RoundLogs, Opened
<1>3. PICK d : d = [L!NoCall EXCEPT !.stage = "declared"]
  OBVIOUS
<1>4. d \in L!CallStates
  BY <1>3 DEF L!NoCall, L!CallStates
<1>5. PICK k : k = IF Durable THEN L!Declared(l, calls) ELSE l.call
  OBVIOUS
<1>6. /\ k \in [Calls -> L!CallStates]
      /\ Durable => \A c \in Calls :
           k[c] = IF \E i \in DOMAIN calls : calls[i] = c THEN d ELSE L!NoCall
  BY <1>3, <1>4, <1>5, StateOfCall DEF L!Declared, RoundLogs, Opened
<1>7. PICK m : m = [l EXCEPT !.attempt = "committed", !.order = o, !.call = k]
  OBVIOUS
<1>8. m = L!AfterAssistant(l, calls, TRUE)
  BY <1>1, <1>5, <1>7, RowIsQuiet DEF L!AfterAssistant
<1>9. [l EXCEPT !.attempt = "committed", !.order = o, !.call = k] \in RoundLogs
  BY <1>2, <1>6 DEF RoundLogs
<1>10. m.turn = l.turn /\ m.step = l.step /\ m.finish = l.finish /\ m.asked = l.asked
       /\ m.order = o /\ m.call = k
  BY <1>7 DEF RoundLogs
<1> QED
  BY <1>2, <1>3, <1>6, <1>7, <1>8, <1>9, <1>10, ZenonT(60) DEF Declares

LEMMA CallChange ==
  ASSUME NEW x \in L!CallStates
  PROVE  /\ [x EXCEPT !.stage = "started"] \in L!CallStates
         /\ \A o \in {"none", "pending"} \cup L!Outcomes : [x EXCEPT !.approval = o] \in L!CallStates
         /\ \A code \in L!Codes : [x EXCEPT !.stage = "answered", !.result = code] \in L!CallStates
BY DEF L!CallStates

Records(m, l, c) ==
  /\ m \in RoundLogs /\ SameStep(m, l) /\ m.asked = l.asked
  /\ m.call[c] = [l.call[c] EXCEPT !.stage = "started"]
  /\ \A d \in Calls : d # c => m.call[d] = l.call[d]

LEMMA ToolCallRow ==
  ASSUME NEW l \in RoundLogs, NEW c \in Calls
  PROVE  Records(L!AfterToolCall(l, c), l, c)
<1>1. l.call \in [Calls -> L!CallStates] /\ l.call[c] \in L!CallStates
  BY DEF RoundLogs
<1>2. PICK x \in L!CallStates : x = [l.call[c] EXCEPT !.stage = "started"]
  BY <1>1, CallChange
<1>3. PICK k \in [Calls -> L!CallStates] : k = [l.call EXCEPT ![c] = x]
  BY <1>1
<1>4. PICK m \in RoundLogs : m = [l EXCEPT !.call = k]
  BY DEF RoundLogs
<1>5. SameStep(m, l) /\ m.call = k /\ m.asked = l.asked
  BY <1>4 DEF RoundLogs, SameStep
<1>6. m = L!AfterToolCall(l, c)
  <2>1. k = [l.call EXCEPT ![c].stage = "started"]
    BY <1>2, <1>3
  <2> QED
    BY <1>4, <2>1, RowIsQuiet DEF L!AfterToolCall
<1> QED
  BY <1>1, <1>2, <1>3, <1>5, <1>6 DEF Records

Asks(m, l, a, c) ==
  /\ m \in RoundLogs /\ SameStep(m, l) /\ m.asked = l.asked \cup {a}
  /\ \A d \in Calls : m.call[d].stage = l.call[d].stage
  /\ Durable => /\ m.call[c].approval = "pending"
                /\ \A d \in Calls : d # c => m.call[d] = l.call[d]

LEMMA AskRow ==
  ASSUME NEW l \in RoundLogs, NEW a \in Approvals, NEW c \in Calls
  PROVE  Asks(L!AfterAsk(l, a, c), l, a, c)
<1>1. l.call \in [Calls -> L!CallStates] /\ l.call[c] \in L!CallStates
  BY DEF RoundLogs
<1>2. PICK o \in {"none", "pending"} \cup L!Outcomes :
        o = IF Durable THEN "pending" ELSE l.call[c].approval
  BY <1>1 DEF L!CallStates
<1>3. PICK x \in L!CallStates : x = [l.call[c] EXCEPT !.approval = o]
  BY <1>1, CallChange
<1>4. x.stage = l.call[c].stage /\ x.approval = o
  BY <1>1, <1>3 DEF L!CallStates
<1>5. PICK k \in [Calls -> L!CallStates] : k = [l.call EXCEPT ![c] = x]
  BY <1>1
<1>6. PICK w \in SUBSET Approvals, n \in SUBSET Approvals :
        w = l.asked \cup {a} /\ n = l.owned \cup {a}
  <2>1. l.asked \cup {a} \in SUBSET Approvals /\ l.owned \cup {a} \in SUBSET Approvals
    BY DEF RoundLogs
  <2> QED
    BY <2>1
<1>7. PICK m \in RoundLogs : m = [l EXCEPT !.asked = w, !.owned = n, !.call = k]
  BY DEF RoundLogs
<1>8. SameStep(m, l) /\ m.call = k /\ m.asked = w
  BY <1>7 DEF RoundLogs, SameStep
<1>9. m = L!AfterAsk(l, a, c)
  <2>1. k = [l.call EXCEPT ![c].approval = o]
    BY <1>3, <1>5
  <2>2. k = [l.call EXCEPT ![c].approval = IF Durable THEN "pending" ELSE @]
    BY <1>1, <1>2, <2>1
  <2> QED
    BY <1>6, <1>7, <2>2, RowIsQuiet DEF L!AfterAsk
<1> QED
  BY <1>1, <1>2, <1>4, <1>5, <1>6, <1>8, <1>9 DEF Asks

Decides(m, l, a, outcome) ==
  /\ m \in RoundLogs /\ SameStep(m, l) /\ m.asked = l.asked \ {a}
  /\ \A d \in Calls :
       /\ m.call[d].stage = l.call[d].stage
       /\ IF l.call[d].approval = "pending" THEN m.call[d].approval = outcome
          ELSE m.call[d] = l.call[d]

LEMMA DecideRow ==
  ASSUME NEW l \in RoundLogs, NEW a \in Approvals, NEW outcome \in L!Outcomes
  PROVE  Decides(L!AfterDecide(l, a, outcome), l, a, outcome)
<1> DEFINE decided == [d \in Calls |-> IF l.call[d].approval = "pending"
                                       THEN [l.call[d] EXCEPT !.approval = outcome]
                                       ELSE l.call[d]]
<1>1. l.call \in [Calls -> L!CallStates]
  BY DEF RoundLogs
<1>2. decided \in [Calls -> L!CallStates]
  BY <1>1, CallChange
<1>3. PICK k \in [Calls -> L!CallStates] : k = decided
  BY <1>2
<1>4. \A d \in Calls :
        /\ k[d].stage = l.call[d].stage
        /\ IF l.call[d].approval = "pending" THEN k[d].approval = outcome
           ELSE k[d] = l.call[d]
  BY <1>1, <1>3 DEF L!CallStates
<1>5. PICK w \in SUBSET Approvals : w = l.asked \ {a}
  <2>1. l.asked \ {a} \in SUBSET Approvals
    BY DEF RoundLogs
  <2> QED
    BY <2>1
<1>6. PICK m \in RoundLogs : m = [l EXCEPT !.asked = w, !.call = k]
  BY DEF RoundLogs
<1>7. SameStep(m, l) /\ m.call = k /\ m.asked = w
  BY <1>6 DEF RoundLogs, SameStep
<1>8. m = L!AfterDecide(l, a, outcome)
  BY <1>3, <1>5, <1>6, RowIsQuiet DEF L!AfterDecide
<1> QED
  BY <1>4, <1>5, <1>7, <1>8 DEF Decides

Resolves(m, l, c) ==
  /\ m \in RoundLogs /\ SameStep(m, l) /\ m.asked = l.asked
  /\ Durable => /\ m.call[c].stage = "answered"
                /\ m.call[c].approval = l.call[c].approval
  /\ \A d \in Calls : d # c => m.call[d] = l.call[d]

LEMMA ToolResultRow ==
  ASSUME NEW l \in RoundLogs, NEW c \in Calls, NEW code \in L!Codes
  PROVE  Resolves(L!AfterToolResult(l, c, code), l, c)
<1> DEFINE resolved == [l.call EXCEPT ![c] =
                          IF Durable THEN [@ EXCEPT !.stage = "answered", !.result = code]
                          ELSE L!NoCall]
<1>1. l.call \in [Calls -> L!CallStates] /\ l.call[c] \in L!CallStates
  BY DEF RoundLogs
<1>2. PICK x \in L!CallStates :
        x = IF Durable THEN [l.call[c] EXCEPT !.stage = "answered", !.result = code]
            ELSE L!NoCall
  BY <1>1, CallChange, StateOfCall
<1>3. Durable => x.stage = "answered" /\ x.approval = l.call[c].approval
  BY <1>1, <1>2 DEF L!CallStates
<1>4. PICK k \in [Calls -> L!CallStates] : k = [l.call EXCEPT ![c] = x]
  BY <1>1
<1>5. PICK w \in SUBSET Calls : w = l.results \cup {c}
  <2>1. l.results \cup {c} \in SUBSET Calls
    BY DEF RoundLogs
  <2> QED
    BY <2>1
<1>6. PICK m \in RoundLogs : m = [l EXCEPT !.call = k, !.results = w]
  BY DEF RoundLogs
<1>7. SameStep(m, l) /\ m.call = k /\ m.asked = l.asked
  BY <1>6 DEF RoundLogs, SameStep
<1>8. m = L!AfterToolResult(l, c, code)
  <2>1. k = resolved
    BY <1>2, <1>4
  <2> QED
    BY <1>5, <1>6, <2>1, RowIsQuiet DEF L!AfterToolResult
<1> QED
  BY <1>1, <1>3, <1>4, <1>7, <1>8 DEF Resolves


-----------------------------------------------------------------------------
(* The plan, and what a live state owes.                                   *)

LEMMA PlanFacts ==
  ASSUME PlanTyped
  PROVE  /\ plan.order \in Seq(Calls) /\ plan.order # <<>> /\ plan.order \in L!CallLists
         /\ Planned \subseteq Calls /\ DOMAIN plan.order = 1..Len(plan.order)
         /\ \A i \in DOMAIN plan.order : plan.order[i] \in Planned
         /\ \A i, j \in DOMAIN plan.order : i # j => plan.order[i] # plan.order[j]
<1>1. plan.order \in L!CallLists /\ plan.order # <<>>
  BY DEF PlanTyped
<1>2. PICK n \in 0..Cardinality(Calls) : plan.order \in [1..n -> Calls]
  <2>1. L!Cardinality(Calls) = Cardinality(Calls)
    BY DEF L!Cardinality, Cardinality
  <2> QED
    BY <1>1, <2>1 DEF L!CallLists
<1>3. n \in Nat
  BY <1>2, FS_CardinalityType, RoundIds
<1>4. plan.order \in Seq(Calls)
  BY <1>2, <1>3
<1>5. \A i, j \in DOMAIN plan.order : i # j => plan.order[i] # plan.order[j]
  BY <1>1 DEF L!CallLists
<1> QED
  BY <1>1, <1>2, <1>4, <1>5 DEF Planned

\* A live state owes no more than its parts.
LEMMA LiveOwes ==
  TypeOK /\ PlanTyped /\ pc \notin Ended /\ Live => IInv
<1> SUFFICES ASSUME TypeOK, PlanTyped, pc \notin Ended, Live PROVE IInv
  OBVIOUS
<1>1. EffectAnsweredTruthfully
  <2> SUFFICES ASSUME NEW c \in Calls
               PROVE  /\ effect[c] = "performed" =>
                           \/ answer[c] \in {"done", "unknown"}
                           \/ answer[c] = "none" /\ (pc \in Ended \/ tool.call = c)
                      /\ answer[c] = "done" => effect[c] = "performed"
                      /\ effect[c] = "running" => tool.call = c /\ pc = "acting"
    BY DEF EffectAnsweredTruthfully
  <2>1. pc = "settle" => answer[tool.call] = "none" \/ c # tool.call
    BY DEF Live, ClaimsHeld, Resolving, Before
  <2> QED
    BY <2>1 DEF Live, EffectKept
<1>2. RoundLeavesNothingOpen /\ ContinueIsClean
  BY DEF RoundLeavesNothingOpen, ContinueIsClean, Ended
<1> QED
  BY <1>1, <1>2 DEF IInv

LEMMA LiveOwesNext ==
  ASSUME TypeOK', PlanTyped', pc' \notin Ended, Live'
  PROVE  IInv'
<1>1. (TypeOK /\ PlanTyped /\ pc \notin Ended /\ Live => IInv)'
  BY LiveOwes, PTL
<1> QED
  BY <1>1 DEF Ended

LEMMA InitHolds == Init => IInv
<1> SUFFICES ASSUME Init PROVE IInv
  OBVIOUS
<1>1. TypeOK
  BY DEF Init, TypeOK, NewTool, NewRound, AtSession, Stops
<1>2. PlanTyped
  BY DEF Init, PlanTyped
<1>3. ToolHeld /\ ClaimsHeld
  BY DEF Init, ToolHeld, ClaimsHeld, Resolving, Before, Asking
<1>4. LogKept
  BY SealedStepFields, StateOfCall
  DEF Init, LogKept, Opened, Before, Asking, Resolving, Unasked
<1>5. RoundClean /\ EffectKept
  BY DEF Init, RoundClean, EffectKept, NewRound, NewTool, Resolving, Visible, Granted, Asking
<1> QED
  BY <1>1, <1>2, <1>3, <1>4, <1>5, LiveOwes DEF Live, Init, Ended

-----------------------------------------------------------------------------
(* Steps that leave the log alone.                                         *)

ToolRecords ==
  [call : Calls \cup {"none"}, approval : Approvals \cup {"none"},
   outcome : L!Outcomes \cup {"none"}, answer : Answers \cup {"none"},
   required : BOOLEAN, stop : Stops]

\* A call that moves on with its claims as they are.
LEMMA ClaimsStay ==
  ASSUME PlanTyped, ClaimsHeld, pc \in Resolving, pc' \in Resolving,
         pc \in Asking <=> pc' \in Asking,
         tool'.call = tool.call, tool'.approval = tool.approval,
         UNCHANGED <<plan, claims, answer>>
  PROVE  ClaimsHeld' /\ PlanTyped' /\ Planned' = Planned /\ RoundClaims' = RoundClaims
<1>1. PlanTyped' /\ Planned' = Planned /\ RoundClaims' = RoundClaims
  BY DEF PlanTyped, Planned, RoundClaims, CallClaim, ResultClaim
<1>2. pc \notin Before /\ pc' \notin Before
  BY DEF Resolving, Before
<1>3. ClaimsHeld'
  BY <1>1, <1>2, Zenon DEF ClaimsHeld, Before, CallClaim, ResultClaim
<1> QED
  BY <1>1, <1>3

\* A call whose run is over goes to be settled.
LEMMA ToSettle ==
  ASSUME IInv, pc \in Resolving \ (Asking \cup {"settle"}), pc' = "settle",
         NEW said \in Answers, NEW req \in BOOLEAN, NEW stop \in Stops,
         tool' = [tool EXCEPT !.answer = said, !.required = req, !.stop = stop],
         UNCHANGED <<env, plan, claims, room, answer, decision, log, observer>>,
         dirty' \in BOOLEAN,
         NEW limit \in BOOLEAN, NEW lost \in BOOLEAN,
         round' = [round EXCEPT !.limit = limit, !.lost = lost],
         NEW real \in {"none", "performed"},
         effect' = [effect EXCEPT ![tool.call] = real],
         real = "performed" => said = "unknown" \/ (said = "done" /\ req),
         real = "performed" => tool.call \in room,
         said = "done" => real = "performed" /\ req,
         req => said = "done",
         Durable /\ log.call[tool.call].approval \in Refusals =>
           said = log.call[tool.call].approval /\ tool.call \in room
  PROVE  IInv'
<1>1. TypeOK /\ PlanTyped /\ Live
  BY DEF IInv, Resolving, Ended
<1>2. tool.call \in Planned /\ tool.call \in Calls
  BY <1>1, PlanFacts DEF Live, ToolHeld
<1>3. /\ tool' \in ToolRecords /\ tool'.call = tool.call /\ tool'.approval = tool.approval
      /\ tool'.answer = said /\ tool'.required = req /\ tool'.outcome = tool.outcome
  BY <1>1 DEF TypeOK, ToolRecords
<1>4. ClaimsHeld' /\ PlanTyped' /\ Planned' = Planned /\ RoundClaims' = RoundClaims
  BY <1>1, <1>3, ClaimsStay DEF Live, Asking, Resolving
<1>5. /\ round' \in [limit : BOOLEAN, lost : BOOLEAN, cancelled : BOOLEAN, failed : BOOLEAN,
                     concludes : BOOLEAN, stop : Stops,
                     outcome : {"none", "error", "cancelled", "completed", "continue"}]
      /\ round'.stop = round.stop /\ round'.failed = round.failed
      /\ round'.cancelled = round.cancelled /\ round'.concludes = round.concludes
  BY <1>1 DEF TypeOK
<1>6. /\ effect' \in [Calls -> {"none", "running", "performed"}]
      /\ effect'[tool.call] = real
      /\ \A c \in Calls : c # tool.call => effect'[c] = effect[c]
  BY <1>1, <1>2 DEF TypeOK
<1>7. TypeOK'
  BY <1>1, <1>3, <1>4, <1>5, <1>6 DEF TypeOK, ToolRecords, AtSession, env
<1>8. ToolHeld'
  BY <1>2, <1>3, <1>4 DEF ToolHeld, Resolving, Asking, Answers, Refusals, L!Outcomes
<1>9. LogKept'
  BY <1>1, <1>2, <1>3, <1>4
  DEF Live, LogKept, Resolving, Asking, Before, Unasked, CallClaim
<1>10. RoundClean'
  BY <1>1, <1>4, <1>5 DEF Live, RoundClean, Resolving, Visible
<1>11. EffectKept'
  <2>1. answer[tool.call] = "none"
    BY <1>1, <1>2 DEF Live, ClaimsHeld, Resolving, Before
  <2> QED
    BY <1>1, <1>2, <1>3, <1>6, <2>1 DEF Live, EffectKept, Granted, Asking, Resolving
<1> QED
  BY <1>4, <1>7, <1>8, <1>9, <1>10, <1>11, LiveOwesNext DEF Live, Ended

\* The tool of a call that is not running has done nothing.
LEMMA NothingDone ==
  ASSUME IInv, pc \in Resolving \ {"settle", "acting"}
  PROVE  /\ TypeOK /\ PlanTyped /\ Live
         /\ tool.call \in Planned /\ tool.call \in Calls
         /\ answer[tool.call] = "none" /\ effect[tool.call] = "none"
         /\ Durable /\ pc \in Unasked \cup {"start"} =>
              log.call[tool.call].approval \notin Refusals
<1>1. TypeOK /\ PlanTyped /\ Live
  BY DEF IInv, Resolving, Ended
<1>2. tool.call \in Planned /\ tool.call \in Calls
  BY <1>1, PlanFacts DEF Live, ToolHeld
<1>3. answer[tool.call] = "none"
  BY <1>1, <1>2 DEF Live, ClaimsHeld, Resolving, Before
<1>4. effect[tool.call] = "none"
  BY <1>1, <1>2, <1>3 DEF Live, EffectKept, TypeOK
<1>5. ASSUME Durable, pc \in Unasked \cup {"start"}
      PROVE  log.call[tool.call].approval \notin Refusals
  <2>1. CASE pc \in Unasked
    <3>1. PICK x : x = log.call[tool.call]
      OBVIOUS
    <3>2. x = [L!NoCall EXCEPT !.stage = "started"]
      BY <1>1, <1>5, <2>1, <3>1 DEF Live, LogKept
    <3>3. x.approval = "none"
      BY <3>2 DEF L!NoCall
    <3> QED
      BY <3>1, <3>3, Words
  <2>2. CASE pc = "start"
    BY <1>1, <1>5, <2>2, Words DEF Live, LogKept
  <2> QED
    BY <1>5, <2>1, <2>2
<1> QED
  BY <1>1, <1>2, <1>3, <1>4, <1>5

LEMMA AnsweredStep ==
  ASSUME IInv, pc \in Unasked \cup {"start", "decided"},
         NEW said \in Answers \ {"done"}, NEW stop \in Stops, Answered(said, stop),
         UNCHANGED <<env, plan, claims, room, answer, decision, log, observer, effect>>,
         dirty' \in BOOLEAN,
         NEW limit \in BOOLEAN, NEW lost \in BOOLEAN,
         round' = [round EXCEPT !.limit = limit, !.lost = lost],
         Durable /\ pc = "decided" /\ log.call[tool.call].approval \in Refusals =>
           said = log.call[tool.call].approval
  PROVE  IInv'
<1>1. pc \in Resolving \ (Asking \cup {"settle", "acting"})
  BY DEF Unasked, Resolving, Asking
<1>2. /\ TypeOK /\ Live /\ tool.call \in Calls /\ effect[tool.call] = "none"
      /\ Durable /\ pc \in Unasked \cup {"start"} =>
           log.call[tool.call].approval \notin Refusals
  BY <1>1, NothingDone
<1>3. effect' = [effect EXCEPT ![tool.call] = "none"]
  BY <1>2 DEF TypeOK
<1>4. pc = "decided" => tool.call \in room
  BY <1>2 DEF Live, EffectKept, Granted
<1>5. Durable /\ log.call[tool.call].approval \in Refusals =>
        said = log.call[tool.call].approval /\ tool.call \in room
  BY <1>2, <1>4
<1>6. pc' = "settle" /\ tool' = [tool EXCEPT !.answer = said, !.required = FALSE, !.stop = stop]
  BY DEF Answered, Goto
<1> QED
  BY <1>1, <1>3, <1>5, <1>6, ToSettle

LEMMA SameRound ==
  ASSUME TypeOK
  PROVE  /\ round = [round EXCEPT !.limit = round.limit, !.lost = round.lost]
         /\ [round EXCEPT !.limit = TRUE] = [round EXCEPT !.limit = TRUE, !.lost = round.lost]
         /\ \E lost \in BOOLEAN :
              Noticed(round) = [round EXCEPT !.limit = round.limit, !.lost = lost]
         /\ round.limit \in BOOLEAN /\ round.lost \in BOOLEAN
BY DEF TypeOK, Noticed

LEMMA InterruptIsStop == Interrupt \in Stops
BY DEF Interrupt, Stops

LEMMA StopSeenIsStop == TypeOK => StopSeen \subseteq Stops
BY InterruptIsStop DEF StopSeen, TypeOK, Stops

\* The answers that leave the round's own notes alone.
LEMMA QuietAnswer ==
  ASSUME IInv, pc \in Unasked \cup {"start"}, UNCHANGED round,
         NEW said \in Answers \ {"done"}, NEW stop \in Stops, Answered(said, stop),
         NoRow, UNCHANGED <<env, plan, claims, room, audit, effect>>
  PROVE  IInv'
<1>1. TypeOK /\ dirty \in BOOLEAN
  BY DEF IInv, TypeOK
<1>2. UNCHANGED <<env, plan, claims, room, answer, decision, log, observer, effect>>
  BY DEF NoRow, rows, audit
<1>3. dirty' \in BOOLEAN
  BY <1>1 DEF NoRow, rows
<1>4. PICK limit \in BOOLEAN, lost \in BOOLEAN :
        round' = [round EXCEPT !.limit = limit, !.lost = lost]
  BY <1>1, SameRound
<1>5. pc # "decided"
  BY DEF Unasked
<1> QED
  BY <1>2, <1>3, <1>4, <1>5, AnsweredStep

LEMMA AnswerWords ==
  /\ {"read", "unknown", "notStarted", "notDone", "unavailable"} \subseteq Answers \ {"done"}
  /\ "done" \in Answers /\ Refusals \subseteq Answers \ {"done"} /\ "none" \in Stops
BY Words DEF Answers, Stops

LEMMA RefuseCallHolds == IInv /\ RefuseCall => IInv'
BY QuietAnswer, AnswerWords DEF RefuseCall, Unasked

LEMMA PreparationStoppedHolds == IInv /\ PreparationStopped => IInv'
BY QuietAnswer, AnswerWords, InterruptIsStop DEF PreparationStopped, Unasked

LEMMA DeniedByPolicyHolds == IInv /\ DeniedByPolicy => IInv'
BY QuietAnswer, AnswerWords DEF DeniedByPolicy, Unasked

LEMMA StoppedBeforeStartHolds == IInv /\ StoppedBeforeStart => IInv'
BY QuietAnswer, AnswerWords, InterruptIsStop DEF StoppedBeforeStart

LEMMA NoRoomHolds == IInv /\ NoRoom => IInv'
<1> SUFFICES ASSUME IInv, NoRoom PROVE IInv'
  OBVIOUS
<1>1. pc = "resolve" /\ TypeOK /\ NoRow
      /\ UNCHANGED <<env, plan, claims, room, audit, effect>>
  BY DEF NoRoom, IInv
<1>2. CASE Answered("notStarted", "none") /\ UNCHANGED round
  BY <1>1, <1>2, QuietAnswer, AnswerWords DEF Unasked
<1>3. CASE OutOfRoom("notStarted")
  <2>1. Answered("notStarted", "none")
    BY <1>3 DEF OutOfRoom
  <2>2. PICK limit \in BOOLEAN, lost \in BOOLEAN :
          round' = [round EXCEPT !.limit = limit, !.lost = lost]
    BY <1>1, <1>3, SameRound DEF OutOfRoom
  <2>3. UNCHANGED <<env, plan, claims, room, answer, decision, log, observer, effect>>
        /\ dirty' \in BOOLEAN
    BY <1>1 DEF NoRow, rows, audit, TypeOK
  <2> QED
    BY <1>1, <2>1, <2>2, <2>3, AnsweredStep, AnswerWords DEF Unasked
<1> QED
  BY <1>2, <1>3 DEF NoRoom

LEMMA CannotAskHolds == IInv /\ CannotAsk => IInv'
<1> SUFFICES ASSUME IInv, CannotAsk PROVE IInv'
  OBVIOUS
<1>1. pc = "ask" /\ TypeOK /\ NoRow
      /\ UNCHANGED <<env, plan, claims, room, audit, effect>>
  BY DEF CannotAsk, IInv
<1>2. CASE Answered("unavailable", "none") /\ UNCHANGED round
  BY <1>1, <1>2, QuietAnswer, AnswerWords DEF Unasked
<1>3. CASE OutOfRoom("unavailable")
  <2>1. PICK said \in {"notStarted", "unavailable"} : Answered(said, "none")
    BY <1>3 DEF OutOfRoom
  <2>2. PICK limit \in BOOLEAN, lost \in BOOLEAN :
          round' = [round EXCEPT !.limit = limit, !.lost = lost]
    BY <1>1, <1>3, SameRound DEF OutOfRoom
  <2>3. UNCHANGED <<env, plan, claims, room, answer, decision, log, observer, effect>>
        /\ dirty' \in BOOLEAN
    BY <1>1 DEF NoRow, rows, audit, TypeOK
  <2> QED
    BY <1>1, <2>1, <2>2, <2>3, AnsweredStep, AnswerWords DEF Unasked
<1> QED
  BY <1>2, <1>3 DEF CannotAsk

\* A call that is not yet over moves on.
LEMMA OnItsWay ==
  ASSUME IInv, pc \in Resolving \ {"settle"}, pc' \in Resolving \ {"settle"},
         pc \in Asking <=> pc' \in Asking,
         NEW o \in L!Outcomes \cup {"none"}, NEW stop \in Stops,
         tool' = [tool EXCEPT !.outcome = o, !.stop = stop],
         pc' \in {"decide", "decided"} => o \in L!Outcomes,
         UNCHANGED <<env, plan, claims, answer, decision, log, observer>>,
         dirty' \in BOOLEAN, room' \in SUBSET Calls,
         NEW lost \in BOOLEAN,
         round' = [round EXCEPT !.limit = round.limit, !.lost = lost],
         effect' \in [Calls -> {"none", "running", "performed"}]
  PROVE  /\ TypeOK' /\ PlanTyped' /\ ToolHeld' /\ ClaimsHeld' /\ Planned' = Planned
         /\ tool.call \in Planned /\ tool.call \in Calls
         /\ tool'.call = tool.call /\ tool'.approval = tool.approval
         /\ tool'.outcome = o /\ tool'.answer = tool.answer /\ tool'.required = tool.required
         /\ round'.limit = round.limit /\ round'.lost = lost
         /\ round'.stop = round.stop /\ round'.failed = round.failed
         /\ round'.cancelled = round.cancelled /\ round'.concludes = round.concludes
<1>1. TypeOK /\ PlanTyped /\ Live
  BY DEF IInv, Resolving, Ended
<1>2. tool.call \in Planned /\ tool.call \in Calls
  BY <1>1, PlanFacts DEF Live, ToolHeld
<1>3. /\ tool' \in ToolRecords /\ tool'.call = tool.call /\ tool'.approval = tool.approval
      /\ tool'.outcome = o /\ tool'.answer = tool.answer /\ tool'.required = tool.required
  BY <1>1 DEF TypeOK, ToolRecords
<1>4. ClaimsHeld' /\ PlanTyped' /\ Planned' = Planned /\ RoundClaims' = RoundClaims
  BY <1>1, <1>3, ClaimsStay DEF Live
<1>5. /\ round' \in [limit : BOOLEAN, lost : BOOLEAN, cancelled : BOOLEAN, failed : BOOLEAN,
                     concludes : BOOLEAN, stop : Stops,
                     outcome : {"none", "error", "cancelled", "completed", "continue"}]
      /\ round'.limit = round.limit /\ round'.lost = lost
      /\ round'.stop = round.stop /\ round'.failed = round.failed
      /\ round'.cancelled = round.cancelled /\ round'.concludes = round.concludes
  BY <1>1 DEF TypeOK
<1>6. TypeOK'
  BY <1>1, <1>3, <1>4, <1>5 DEF TypeOK, ToolRecords, AtSession, env, Resolving
<1>7. ToolHeld'
  BY <1>1, <1>2, <1>3, <1>4 DEF Live, ToolHeld, Resolving, Asking
<1> QED
  BY <1>2, <1>3, <1>4, <1>5, <1>6, <1>7

LEMMA SameTool ==
  ASSUME TypeOK
  PROVE  /\ tool = [tool EXCEPT !.outcome = tool.outcome, !.stop = tool.stop]
         /\ \A stop \in Stops :
              [tool EXCEPT !.stop = stop] = [tool EXCEPT !.outcome = tool.outcome, !.stop = stop]
         /\ tool.outcome \in L!Outcomes \cup {"none"} /\ tool.stop \in Stops
BY DEF TypeOK

\* A call that nobody has been asked about moves on, nothing else changes.
LEMMA QuietMove ==
  ASSUME IInv, pc \in {"dispatch", "prepare", "setup"},
         pc' \in {"prepare", "setup", "resolve"}, tool' = tool,
         UNCHANGED <<env, plan, claims, room, answer, decision, log, observer, effect>>,
         dirty' \in BOOLEAN, ~dirty', observer = "up",
         round' = [round EXCEPT !.limit = round.limit, !.lost = round.lost]
  PROVE  IInv'
<1>1. TypeOK /\ PlanTyped /\ Live
  BY DEF IInv, Ended
<1>2. /\ pc \in Resolving \ {"settle"} /\ pc' \in Resolving \ {"settle"}
      /\ pc \notin Asking /\ pc' \notin Asking
  BY DEF Resolving, Asking
<1>3. /\ effect' \in [Calls -> {"none", "running", "performed"}] /\ room' \in SUBSET Calls
      /\ round.lost \in BOOLEAN
      /\ tool' = [tool EXCEPT !.outcome = tool.outcome, !.stop = tool.stop]
      /\ tool.outcome \in L!Outcomes \cup {"none"} /\ tool.stop \in Stops
  BY <1>1, SameTool DEF TypeOK
<1>4. /\ TypeOK' /\ PlanTyped' /\ ToolHeld' /\ ClaimsHeld' /\ Planned' = Planned
      /\ tool.call \in Planned /\ tool.call \in Calls
      /\ round'.limit = round.limit /\ round'.lost = round.lost
      /\ round'.stop = round.stop /\ round'.failed = round.failed
      /\ round'.cancelled = round.cancelled /\ round'.concludes = round.concludes
  BY <1>2, <1>3, OnItsWay, ZenonT(60)
<1>5. LogKept'
  BY <1>1, <1>2, <1>4 DEF Live, LogKept, Before, Unasked, Resolving, CallClaim
<1>6. RoundClean'
  BY <1>1, <1>2, <1>4 DEF Live, RoundClean, Visible
<1>7. EffectKept'
  BY <1>1, <1>2, <1>4 DEF Live, EffectKept, Granted, Asking
<1> QED
  BY <1>2, <1>4, <1>5, <1>6, <1>7, LiveOwesNext DEF Live, Ended, Resolving

LEMMA NoticedFields ==
  ASSUME TypeOK
  PROVE  /\ observer = "up" =>
              Noticed(round) = [round EXCEPT !.limit = round.limit, !.lost = round.lost]
         /\ observer = "down" =>
              Noticed(round) = [round EXCEPT !.limit = round.limit, !.lost = TRUE]
BY DEF TypeOK, Noticed

LEMMA DispatchBarrierHolds == IInv /\ DispatchBarrier => IInv'
<1> SUFFICES ASSUME IInv, DispatchBarrier PROVE IInv'
  OBVIOUS
<1>1. /\ pc = "dispatch" /\ TypeOK /\ round' = Noticed(round) /\ dirty' = FALSE
      /\ UNCHANGED <<env, plan, claims, room, answer, decision, log, observer, effect>>
      /\ observer \in {"up", "down"}
  BY DEF DispatchBarrier, IInv, Flush, audit, TypeOK
<1>2. CASE observer = "down"
  <2>1. Answered("notStarted", "none")
    BY <1>2 DEF DispatchBarrier
  <2>2. round' = [round EXCEPT !.limit = round.limit, !.lost = TRUE] /\ round.limit \in BOOLEAN
    BY <1>1, <1>2, NoticedFields DEF TypeOK
  <2> QED
    BY <1>1, <2>1, <2>2, AnsweredStep, AnswerWords DEF Unasked
<1>3. CASE observer = "up"
  <2>1. pc' = "prepare" /\ tool' = tool
    BY <1>3 DEF DispatchBarrier, Goto
  <2>2. round' = [round EXCEPT !.limit = round.limit, !.lost = round.lost]
    BY <1>1, <1>3, NoticedFields
  <2> QED
    BY <1>1, <1>3, <2>1, <2>2, QuietMove
<1> QED
  BY <1>1, <1>2, <1>3

LEMMA VisibleMove ==
  ASSUME IInv, pc \in {"prepare", "setup"}, NoRow, UNCHANGED round
  PROVE  /\ observer = "up" /\ ~dirty' /\ dirty' \in BOOLEAN /\ UNCHANGED <<log, observer>>
         /\ round' = [round EXCEPT !.limit = round.limit, !.lost = round.lost]
<1>1. TypeOK /\ RoundClean
  BY DEF IInv, Live, Ended
<1>2. observer = "up" /\ dirty = FALSE
  BY <1>1 DEF RoundClean, Visible, TypeOK
<1>3. round' = [round EXCEPT !.limit = round.limit, !.lost = round.lost]
  BY <1>1, SameRound
<1>4. ~dirty' /\ dirty' \in BOOLEAN /\ UNCHANGED <<log, observer>>
  BY <1>2, Zenon DEF NoRow, rows
<1> QED
  BY <1>2, <1>3, <1>4

LEMMA PreparedHolds == IInv /\ Prepared => IInv'
<1> SUFFICES ASSUME IInv, Prepared PROVE IInv'
  OBVIOUS
<1>1. /\ pc = "prepare" /\ NoRow /\ UNCHANGED round
      /\ UNCHANGED <<env, plan, claims, room, audit, effect>>
      /\ UNCHANGED <<answer, decision>>
  BY DEF Prepared, audit
<1>2. CASE Answered(IF plan.owned[tool.call] THEN "notStarted" ELSE "read", "none")
  <2>1. PICK said \in {"notStarted", "read"} :
          said = IF plan.owned[tool.call] THEN "notStarted" ELSE "read"
    OBVIOUS
  <2> QED
    BY <1>1, <1>2, <2>1, QuietAnswer, AnswerWords DEF Unasked
<1>3. CASE Unresolved("none")
  BY <1>1, <1>3, QuietAnswer, AnswerWords DEF Unasked, Unresolved
<1>4. CASE Goto("resolve", tool) \/ Goto("setup", tool)
  BY <1>1, <1>4, VisibleMove, QuietMove DEF Goto
<1> QED
  BY <1>2, <1>3, <1>4 DEF Prepared

LEMMA SetupEndsHolds == IInv /\ SetupEnds => IInv'
<1> SUFFICES ASSUME IInv, SetupEnds PROVE IInv'
  OBVIOUS
<1>1. /\ pc = "setup" /\ NoRow /\ UNCHANGED round /\ TypeOK
      /\ UNCHANGED <<env, plan, claims, room, audit, effect>>
      /\ UNCHANGED <<answer, decision>>
  BY DEF SetupEnds, audit, IInv
<1>2. PICK stop \in StopSeen :
        \/ Answered("notStarted", stop)
        \/ Unresolved(stop)
        \/ stop = "none" /\ Goto("resolve", tool)
  BY DEF SetupEnds
<1>3. stop \in Stops
  BY <1>1, StopSeenIsStop
<1>4. CASE Answered("notStarted", stop) \/ Unresolved(stop)
  BY <1>1, <1>3, <1>4, QuietAnswer, AnswerWords DEF Unasked, Unresolved
<1>5. CASE Goto("resolve", tool)
  BY <1>1, <1>5, VisibleMove, QuietMove DEF Goto
<1> QED
  BY <1>2, <1>4, <1>5

LEMMA NoticeStopHolds == IInv /\ NoticeStop => IInv'
<1> SUFFICES ASSUME IInv, NoticeStop PROVE IInv'
  OBVIOUS
<1>1. TypeOK /\ PlanTyped /\ Live
  BY DEF IInv, NoticeStop, Ended
<1>2. /\ pc \in {"setup", "acting"} /\ pc' = pc
      /\ tool' = [tool EXCEPT !.outcome = tool.outcome, !.stop = Interrupt]
      /\ UNCHANGED <<env, plan, claims, answer, decision, log, observer, dirty, room, effect, round>>
  BY <1>1, SameTool, InterruptIsStop DEF NoticeStop, NoRow, rows, audit
<1>3. /\ effect' \in [Calls -> {"none", "running", "performed"}] /\ room' \in SUBSET Calls
      /\ round.lost \in BOOLEAN /\ dirty' \in BOOLEAN
      /\ round' = [round EXCEPT !.limit = round.limit, !.lost = round.lost]
      /\ tool.outcome \in L!Outcomes \cup {"none"} /\ Interrupt \in Stops
  BY <1>1, <1>2, SameTool, SameRound, InterruptIsStop DEF TypeOK
<1>4. pc \in Resolving \ {"settle"} /\ pc \notin Asking /\ pc' \notin {"decide", "decided"}
  BY <1>2 DEF Resolving, Asking
<1>5. /\ TypeOK' /\ PlanTyped' /\ ToolHeld' /\ ClaimsHeld' /\ Planned' = Planned
      /\ tool.call \in Planned /\ tool.call \in Calls
      /\ tool'.call = tool.call /\ tool'.approval = tool.approval
      /\ tool'.outcome = tool.outcome /\ tool'.answer = tool.answer
      /\ tool'.required = tool.required
  BY <1>2, <1>3, <1>4, OnItsWay
<1>6. LogKept'
  BY <1>1, <1>2, <1>5 DEF Live, LogKept, CallClaim
<1>7. RoundClean' /\ EffectKept'
  BY <1>1, <1>2, <1>5 DEF Live, RoundClean, EffectKept
<1> QED
  BY <1>2, <1>5, <1>6, <1>7, LiveOwesNext DEF Live, Ended

LEMMA ReserveHolds == IInv /\ Reserve => IInv'
<1> SUFFICES ASSUME IInv, Reserve PROVE IInv'
  OBVIOUS
<1>1. TypeOK /\ PlanTyped /\ Live
  BY DEF IInv, Reserve, Ended
<1>2. /\ pc = "resolve" /\ plan.policy[tool.call] # "deny"
      /\ pc' = IF plan.policy[tool.call] = "ask" THEN "ask" ELSE "start"
      /\ tool' = tool /\ room' = room \cup {tool.call}
      /\ UNCHANGED <<env, plan, claims, answer, decision, log, observer, dirty, effect, round>>
  BY DEF Reserve, NoRow, rows, audit, Goto, Policy
<1>3. /\ pc \in Resolving \ {"settle"} /\ pc' \in Resolving \ {"settle"}
      /\ pc \notin Asking /\ pc' \notin Asking /\ pc' \notin {"decide", "decided"}
  BY <1>2 DEF Resolving, Asking
<1>4. tool.call \in Calls
  BY <1>1, <1>3, PlanFacts DEF Live, ToolHeld
<1>5. /\ effect' \in [Calls -> {"none", "running", "performed"}] /\ room' \in SUBSET Calls
      /\ round.lost \in BOOLEAN /\ dirty' \in BOOLEAN
      /\ round' = [round EXCEPT !.limit = round.limit, !.lost = round.lost]
      /\ tool.outcome \in L!Outcomes \cup {"none"} /\ tool.stop \in Stops
      /\ tool' = [tool EXCEPT !.outcome = tool.outcome, !.stop = tool.stop]
  BY <1>1, <1>2, <1>4, SameTool, SameRound, ZenonT(60) DEF TypeOK
<1>6. /\ TypeOK' /\ PlanTyped' /\ ToolHeld' /\ ClaimsHeld' /\ Planned' = Planned
      /\ tool.call \in Planned
  BY <1>2, <1>3, <1>5, OnItsWay
<1>7. LogKept'
  <2>1. Durable => log.call[tool.call].approval = "none"
    <3>1. PICK x : x = log.call[tool.call]
      OBVIOUS
    <3>2. Durable => x = [L!NoCall EXCEPT !.stage = "started"]
      BY <1>1, <1>2, <3>1 DEF Live, LogKept, Unasked
    <3>3. Durable => x.approval = "none"
      BY <3>2 DEF L!NoCall
    <3> QED
      BY <3>1, <3>3
  <2> QED
    BY <1>1, <1>2, <1>3, <1>6, <2>1
    DEF Live, LogKept, CallClaim, Before, Unasked, Resolving
<1>8. RoundClean'
  BY <1>1, <1>2, <1>3, <1>6 DEF Live, RoundClean, Visible
<1>9. EffectKept'
  <2>1. plan.policy[tool.call] \in Policies
    BY <1>1, <1>4 DEF PlanTyped
  <2> QED
    BY <1>1, <1>2, <1>3, <1>6, <2>1 DEF Live, EffectKept, Granted, Asking, Policies
<1> QED
  BY <1>3, <1>6, <1>7, <1>8, <1>9, LiveOwesNext DEF Live, Ended, Resolving

\* The steps of a question whose row is in the log.
LEMMA AskingMove ==
  ASSUME IInv, pc \in {"asked", "waiting"}, pc' \in {"waiting", "decide"},
         NEW o \in L!Outcomes \cup {"none"}, NEW stop \in Stops,
         tool' = [tool EXCEPT !.outcome = o, !.stop = stop],
         pc' = "decide" => o \in L!Outcomes,
         UNCHANGED <<env, plan, claims, room, answer, decision, log, observer, effect>>,
         dirty' \in BOOLEAN, NEW lost \in BOOLEAN,
         round' = [round EXCEPT !.limit = round.limit, !.lost = lost],
         pc' = "waiting" => ~lost /\ ~dirty' /\ observer = "up",
         pc' = "decide" /\ lost => o # "allowed"
  PROVE  IInv'
<1>1. TypeOK /\ PlanTyped /\ Live
  BY DEF IInv, Ended
<1>2. /\ pc \in Resolving \ {"settle"} /\ pc' \in Resolving \ {"settle"}
      /\ pc \in Asking /\ pc' \in Asking
  BY DEF Resolving, Asking
<1>3. effect' \in [Calls -> {"none", "running", "performed"}] /\ room' \in SUBSET Calls
  BY <1>1 DEF TypeOK
<1>4. /\ TypeOK' /\ PlanTyped' /\ ToolHeld' /\ ClaimsHeld' /\ Planned' = Planned
      /\ tool.call \in Planned /\ tool.call \in Calls
      /\ tool'.call = tool.call /\ tool'.approval = tool.approval
      /\ tool'.outcome = o /\ tool'.answer = tool.answer /\ tool'.required = tool.required
      /\ round'.limit = round.limit /\ round'.lost = lost
      /\ round'.stop = round.stop /\ round'.failed = round.failed
      /\ round'.cancelled = round.cancelled /\ round'.concludes = round.concludes
  BY <1>2, <1>3, OnItsWay
<1>5. LogKept'
  BY <1>1, <1>2, <1>4 DEF Live, LogKept, CallClaim, Before, Unasked, Resolving, Asking
<1>6. RoundClean'
  BY <1>1, <1>2, <1>4 DEF Live, RoundClean, Visible
<1>7. EffectKept'
  BY <1>1, <1>2, <1>4 DEF Live, EffectKept, Granted, Asking
<1> QED
  BY <1>2, <1>4, <1>5, <1>6, <1>7, LiveOwesNext DEF Live, Ended, Resolving

LEMMA AskedBarrierHolds == IInv /\ AskedBarrier => IInv'
<1> SUFFICES ASSUME IInv, AskedBarrier PROVE IInv'
  OBVIOUS
<1>1. /\ pc = "asked" /\ TypeOK /\ RoundClean /\ round' = Noticed(round) /\ dirty' = FALSE
      /\ UNCHANGED <<env, plan, claims, room, answer, decision, log, observer, effect>>
      /\ observer \in {"up", "down"} /\ tool.stop \in Stops
  BY DEF AskedBarrier, IInv, Live, Ended, Flush, audit, TypeOK
<1>2. "unavailable" \in L!Outcomes
  BY Words
<1>3. CASE observer = "down"
  <2>1. pc' = "decide" /\ tool' = [tool EXCEPT !.outcome = "unavailable"]
    BY <1>3 DEF AskedBarrier, Goto
  <2>2. tool' = [tool EXCEPT !.outcome = "unavailable", !.stop = tool.stop]
    BY <1>1, <2>1 DEF TypeOK
  <2>3. PICK lost \in BOOLEAN : round' = [round EXCEPT !.limit = round.limit, !.lost = lost]
    BY <1>1, <1>3, NoticedFields
  <2>4. dirty' \in BOOLEAN /\ "unavailable" # "allowed" /\ pc' # "waiting"
    BY <1>1, <2>1
  <2> QED
    BY <1>1, <1>2, <2>1, <2>2, <2>3, <2>4, AskingMove
<1>4. CASE observer = "up"
  <2>1. pc' = "waiting" /\ tool' = tool
    BY <1>4 DEF AskedBarrier, Goto
  <2>2. tool' = [tool EXCEPT !.outcome = tool.outcome, !.stop = tool.stop]
        /\ tool.outcome \in L!Outcomes \cup {"none"}
    BY <1>1, <2>1, SameTool
  <2>3. round' = [round EXCEPT !.limit = round.limit, !.lost = round.lost]
        /\ round.lost \in BOOLEAN /\ ~round.lost
    BY <1>1, <1>4, NoticedFields DEF RoundClean, TypeOK, Resolving
  <2> QED
    BY <1>1, <1>4, <2>1, <2>2, <2>3, AskingMove
<1> QED
  BY <1>1, <1>3, <1>4

LEMMA WaitingRound ==
  ASSUME IInv, pc = "waiting", UNCHANGED round
  PROVE  round' = [round EXCEPT !.limit = round.limit, !.lost = FALSE]
<1>1. TypeOK /\ round.lost = FALSE
  BY DEF IInv, Live, Ended, RoundClean, Resolving, TypeOK
<1> QED
  BY <1>1, SameRound

LEMMA ApprovalStoppedHolds == IInv /\ ApprovalStopped => IInv'
<1> SUFFICES ASSUME IInv, ApprovalStopped PROVE IInv'
  OBVIOUS
<1>1. /\ pc = "waiting" /\ pc' = "decide" /\ UNCHANGED round
      /\ UNCHANGED <<env, plan, claims, room, answer, decision, log, observer, effect>>
      /\ dirty' \in BOOLEAN /\ tool' = [tool EXCEPT !.outcome = "cancelled", !.stop = Interrupt]
  BY DEF ApprovalStopped, IInv, NoRow, rows, audit, TypeOK, Goto
<1>2. "cancelled" \in L!Outcomes
  BY Words
<1> QED
  BY <1>1, <1>2, WaitingRound, AskingMove, InterruptIsStop

LEMMA ApprovalAnswerHolds == IInv /\ ApprovalAnswer => IInv'
<1> SUFFICES ASSUME IInv, ApprovalAnswer PROVE IInv'
  OBVIOUS
<1>1. PICK outcome \in L!Outcomes : Goto("decide", [tool EXCEPT !.outcome = outcome])
  BY DEF ApprovalAnswer
<1>2. /\ pc = "waiting" /\ pc' = "decide" /\ UNCHANGED round /\ TypeOK
      /\ UNCHANGED <<env, plan, claims, room, answer, decision, log, observer, effect>>
      /\ dirty' \in BOOLEAN /\ tool' = [tool EXCEPT !.outcome = outcome]
  BY <1>1 DEF ApprovalAnswer, IInv, NoRow, rows, audit, TypeOK, Goto
<1>3. tool' = [tool EXCEPT !.outcome = outcome, !.stop = tool.stop] /\ tool.stop \in Stops
  BY <1>2 DEF TypeOK
<1> QED
  BY <1>2, <1>3, WaitingRound, AskingMove

LEMMA DecidedBarrierHolds == IInv /\ DecidedBarrier => IInv'
<1> SUFFICES ASSUME IInv, DecidedBarrier PROVE IInv'
  OBVIOUS
<1>1. /\ pc = "decided" /\ round' = Noticed(round) /\ dirty' = FALSE /\ dirty' \in BOOLEAN
      /\ UNCHANGED <<env, plan, claims, room, answer, decision, log, observer, effect>>
  BY DEF DecidedBarrier, Flush, audit
<1>2. TypeOK /\ PlanTyped /\ Live /\ tool.call \in Planned /\ tool.call \in Calls
  BY <1>1, NothingDone DEF Resolving
<1>3. /\ tool.outcome \in L!Outcomes /\ tool.stop \in Stops
      /\ Durable => log.call[tool.call].approval = tool.outcome
      /\ decision[tool.call] = tool.outcome /\ plan.policy[tool.call] = "ask"
      /\ tool.call \in room /\ observer \in {"up", "down"}
  BY <1>1, <1>2 DEF Live, ToolHeld, LogKept, EffectKept, TypeOK, Granted
<1>4. CASE Answered("notStarted", tool.stop) /\ tool.outcome = "allowed"
  <2>1. PICK lost \in BOOLEAN : round' = [round EXCEPT !.limit = round.limit, !.lost = lost]
    BY <1>1, <1>2, SameRound
  <2>2. round.limit \in BOOLEAN
    BY <1>2 DEF TypeOK
  <2> QED
    BY <1>1, <1>3, <1>4, <2>1, <2>2, AnsweredStep, AnswerWords, Words
<1>5. CASE Answered(tool.outcome, tool.stop) /\ tool.outcome # "allowed"
  <2>1. PICK lost \in BOOLEAN : round' = [round EXCEPT !.limit = round.limit, !.lost = lost]
    BY <1>1, <1>2, SameRound
  <2>2. round.limit \in BOOLEAN /\ tool.outcome \in Answers \ {"done"}
    BY <1>2, <1>3, <1>5, AnswerWords, Words DEF TypeOK
  <2> QED
    BY <1>1, <1>3, <1>5, <2>1, <2>2, AnsweredStep
<1>6. CASE Goto("start", tool) /\ tool.outcome = "allowed" /\ observer = "up"
  <2>1. pc' = "start" /\ tool' = [tool EXCEPT !.outcome = tool.outcome, !.stop = tool.stop]
        /\ tool' = tool
    BY <1>2, <1>6, SameTool DEF Goto
  <2>2. round' = [round EXCEPT !.limit = round.limit, !.lost = round.lost]
        /\ round.lost \in BOOLEAN /\ ~round.lost
    BY <1>1, <1>2, <1>6, NoticedFields DEF Live, RoundClean, TypeOK
  <2>3. effect' \in [Calls -> {"none", "running", "performed"}] /\ room' \in SUBSET Calls
    BY <1>1, <1>2 DEF TypeOK
  <2>4. /\ pc \in Resolving \ {"settle"} /\ pc' \in Resolving \ {"settle"}
        /\ pc \notin Asking /\ pc' \notin Asking /\ pc' \notin {"decide", "decided"}
    BY <1>1, <2>1 DEF Resolving, Asking
  <2>5. /\ TypeOK' /\ PlanTyped' /\ ToolHeld' /\ ClaimsHeld' /\ Planned' = Planned
        /\ round'.limit = round.limit /\ round'.lost = round.lost
        /\ round'.stop = round.stop /\ round'.failed = round.failed
        /\ round'.cancelled = round.cancelled /\ round'.concludes = round.concludes
    <3>1. PICK o \in L!Outcomes \cup {"none"}, stop \in Stops, lost \in BOOLEAN :
            /\ tool' = [tool EXCEPT !.outcome = o, !.stop = stop]
            /\ round' = [round EXCEPT !.limit = round.limit, !.lost = lost]
            /\ lost = round.lost
      BY <1>3, <2>1, <2>2
    <3> QED
      BY <1>1, <2>3, <2>4, <3>1, OnItsWay
  <2>6. LogKept'
    BY <1>1, <1>2, <1>3, <1>6, <2>1, <2>4, <2>5
    DEF Live, LogKept, CallClaim, Before, Unasked, Resolving
  <2>7. RoundClean'
    BY <1>1, <1>2, <1>6, <2>1, <2>2, <2>4, <2>5 DEF Live, RoundClean, Visible
  <2>8. EffectKept'
    BY <1>1, <1>2, <1>3, <1>6, <2>1, <2>4 DEF Live, EffectKept, Granted, Asking
  <2> QED
    BY <2>4, <2>5, <2>6, <2>7, <2>8, LiveOwesNext DEF Live, Ended, Resolving
<1> QED
  BY <1>4, <1>5, <1>6 DEF DecidedBarrier

LEMMA StartEffectHolds == IInv /\ StartEffect => IInv'
<1> SUFFICES ASSUME IInv, StartEffect PROVE IInv'
  OBVIOUS
<1>1. pc \in Resolving \ {"settle", "acting"} /\ pc = "start"
  BY DEF StartEffect, Resolving
<1>2. /\ TypeOK /\ PlanTyped /\ Live /\ tool.call \in Planned /\ tool.call \in Calls
      /\ effect[tool.call] = "none"
  BY <1>1, NothingDone
<1>3. /\ pc' = "acting" /\ tool' = tool
      /\ tool' = [tool EXCEPT !.outcome = tool.outcome, !.stop = tool.stop]
      /\ effect' = [effect EXCEPT ![tool.call] = "running"]
      /\ UNCHANGED <<env, plan, claims, answer, decision, log, observer, dirty, room, round>>
  BY <1>2, SameTool DEF StartEffect, NoRow, rows, audit, Goto
<1>4. /\ effect' \in [Calls -> {"none", "running", "performed"}] /\ room' \in SUBSET Calls
      /\ round.lost \in BOOLEAN /\ dirty' \in BOOLEAN
      /\ round' = [round EXCEPT !.limit = round.limit, !.lost = round.lost]
      /\ tool.outcome \in L!Outcomes \cup {"none"} /\ tool.stop \in Stops
  BY <1>2, <1>3, SameTool, SameRound DEF TypeOK
<1>5. /\ pc \in Resolving \ {"settle"} /\ pc' \in Resolving \ {"settle"}
      /\ pc \notin Asking /\ pc' \notin Asking /\ pc' \notin {"decide", "decided"}
  BY <1>1, <1>3 DEF Resolving, Asking
<1>6. /\ TypeOK' /\ PlanTyped' /\ ToolHeld' /\ ClaimsHeld' /\ Planned' = Planned
  BY <1>3, <1>4, <1>5, OnItsWay, ZenonT(60)
<1>7. LogKept'
  BY <1>1, <1>2, <1>3, <1>5, <1>6 DEF Live, LogKept, CallClaim, Before, Unasked, Resolving
<1>8. RoundClean'
  BY <1>1, <1>2, <1>3, <1>5, <1>6 DEF Live, RoundClean, Visible
<1>9. EffectKept'
  <2>1. \A c \in Calls : effect'[c] = IF c = tool.call THEN "running" ELSE effect[c]
    BY <1>2, <1>3 DEF TypeOK
  <2>2. answer[tool.call] = "none"
    BY <1>1, NothingDone
  <2> QED
    BY <1>1, <1>2, <1>3, <2>1, <2>2 DEF Live, EffectKept, Granted, Asking
<1> QED
  BY <1>5, <1>6, <1>7, <1>8, <1>9, LiveOwesNext DEF Live, Ended, Resolving

LEMMA EffectEndsHolds == IInv /\ EffectEnds => IInv'
<1> SUFFICES ASSUME IInv, EffectEnds PROVE IInv'
  OBVIOUS
<1>1. /\ pc = "acting" /\ TypeOK /\ Live
      /\ UNCHANGED <<env, plan, claims, room, answer, decision, log, observer, dirty, round>>
  BY DEF EffectEnds, IInv, Ended, NoRow, rows, audit
<1>2. PICK stop \in StopSeen, real \in {"none", "performed"} :
        /\ effect' = [effect EXCEPT ![tool.call] = real]
        /\ \/ Unresolved(stop)
           \/ /\ real = "performed"
              /\ Goto("settle", [tool EXCEPT !.answer = "done", !.required = TRUE,
                                             !.stop = stop])
           \/ real = "none" /\ Answered("notDone", stop)
  BY DEF EffectEnds
<1>3. PICK said \in {"unknown", "done", "notDone"}, req \in BOOLEAN :
        /\ pc' = "settle"
        /\ tool' = [tool EXCEPT !.answer = said, !.required = req, !.stop = stop]
        /\ real = "performed" => said = "unknown" \/ (said = "done" /\ req)
        /\ said = "done" => real = "performed" /\ req
        /\ req => said = "done"
  <2>1. CASE Unresolved(stop)
    <3>1. pc' = "settle" /\ tool' = [tool EXCEPT !.answer = "unknown", !.required = FALSE,
                                                 !.stop = stop]
      BY <2>1 DEF Unresolved, Answered, Goto
    <3> QED
      BY <3>1, Zenon
  <2>2. CASE real = "performed" /\ Goto("settle", [tool EXCEPT !.answer = "done",
                                                    !.required = TRUE, !.stop = stop])
    <3>1. pc' = "settle" /\ tool' = [tool EXCEPT !.answer = "done", !.required = TRUE,
                                                 !.stop = stop]
      BY <2>2 DEF Goto
    <3> QED
      BY <2>2, <3>1, Zenon
  <2>3. CASE real = "none" /\ Answered("notDone", stop)
    <3>1. pc' = "settle" /\ tool' = [tool EXCEPT !.answer = "notDone", !.required = FALSE,
                                                 !.stop = stop]
      BY <2>3 DEF Answered, Goto
    <3> QED
      BY <2>3, <3>1, Zenon
  <2> QED
    BY <1>2, <2>1, <2>2, <2>3
<1>4. said \in Answers /\ stop \in Stops
  BY <1>1, <1>2, AnswerWords, StopSeenIsStop
<1>5. pc \in Resolving \ (Asking \cup {"settle"}) /\ tool.call \in room
      /\ (Durable => log.call[tool.call].approval \notin Refusals)
  BY <1>1, Words DEF Resolving, Asking, Live, EffectKept, Granted, LogKept
<1>6. round' = [round EXCEPT !.limit = round.limit, !.lost = round.lost]
      /\ round.limit \in BOOLEAN /\ round.lost \in BOOLEAN /\ dirty' \in BOOLEAN
  BY <1>1, SameRound DEF TypeOK
<1> QED
  BY <1>1, <1>2, <1>3, <1>4, <1>5, <1>6, ToSettle

-----------------------------------------------------------------------------
(* Steps that write a row, and steps between the calls.                    *)

LEMMA CommitTyped ==
  ASSUME TypeOK, NEW l, Commit(l)
  PROVE  log' = l /\ dirty' \in BOOLEAN /\ observer' \in {"up", "down"}
BY DEF Commit, TypeOK

LEMMA PlanStays ==
  ASSUME PlanTyped, plan' = plan
  PROVE  PlanTyped' /\ Planned' = Planned /\ RoundClaims' = RoundClaims
BY DEF PlanTyped, Planned, RoundClaims, CallClaim, ResultClaim

LEMMA CommitAssistantHolds == IInv /\ CommitAssistant => IInv'
<1> SUFFICES ASSUME IInv, CommitAssistant PROVE IInv'
  OBVIOUS
<1>1. /\ TypeOK /\ PlanTyped /\ Live /\ pc = "commit" /\ pc' = "barrier"
      /\ claims' = claims \ {<<"assistant", "round">>}
      /\ UNCHANGED <<env, plan, room, tool, round, answer, decision, effect>>
  BY DEF CommitAssistant, IInv, Ended, audit
<1>2. /\ log' = L!AfterAssistant(log, plan.order, TRUE)
      /\ dirty' \in BOOLEAN /\ observer' \in {"up", "down"}
  BY <1>1, CommitTyped DEF CommitAssistant
<1>3. PlanTyped' /\ Planned' = Planned /\ RoundClaims' = RoundClaims
  BY <1>1, PlanStays
<1>4. tool = NewTool /\ tool.call = "none" /\ "none" \notin Calls /\ claims = RoundClaims
  BY <1>1, RoundIds DEF Live, ToolHeld, Resolving, NewTool, ClaimsHeld
<1>5. /\ log \in RoundLogs /\ Opened(log) /\ log.turn = 1 /\ log.step = 1 /\ log.finish = "ok"
      /\ plan.order \in Seq(Calls) /\ Planned \subseteq Calls
  <2>1. log \in RoundLogs /\ log.call = L!NoCalls
    BY <1>1, StateOfCall DEF Live, LogKept, Before, RoundLogs
  <2> QED
    BY <1>1, <2>1, PlanFacts DEF Live, LogKept, Opened, Before, Asking
<1>6. /\ log' \in RoundLogs /\ log'.turn = 1 /\ log'.step = 1 /\ log'.finish = "ok"
      /\ log'.asked = {}
      /\ Durable => /\ log'.order = plan.order
                    /\ \A c \in Calls :
                         log'.call[c] = IF \E i \in DOMAIN plan.order : plan.order[i] = c
                                        THEN [L!NoCall EXCEPT !.stage = "declared"]
                                        ELSE L!NoCall
  <2>1. Declares(log', log, plan.order)
    BY <1>2, <1>5, AssistantRow
  <2> QED
    BY <1>5, <2>1 DEF Opened, Declares
<1>7. TypeOK'
  BY <1>1, <1>2, <1>3 DEF TypeOK, env, AtSession
<1>8. ToolHeld'
  BY <1>1, <1>4 DEF ToolHeld, Resolving, Asking
<1>9. ClaimsHeld'
  BY <1>1, <1>3, <1>4, <1>5, PlanFacts
  DEF ClaimsHeld, Live, Before, Resolving, Asking, RoundClaims, CallClaim, ResultClaim
<1>10. LogKept'
  <2>1. PICK d : d = [L!NoCall EXCEPT !.stage = "declared"]
    OBVIOUS
  <2>2. d.approval = "none"
    BY <2>1 DEF L!NoCall
  <2>3. \A c \in Planned : CallClaim(c) \in claims'
    BY <1>1, <1>4 DEF RoundClaims, CallClaim
  <2>4. Durable => /\ log'.order = plan'.order
                   /\ \A c \in Planned : log'.call[c] = d
                   /\ \A c \in Calls : log'.call[c].approval = "none"
    BY <1>1, <1>5, <1>6, <2>1, <2>2, StateOfCall DEF Planned
  <2> QED
    BY <1>1, <1>3, <1>6, <2>1, <2>3, <2>4
    DEF LogKept, Before, Asking, Resolving, Unasked, CallClaim
<1>11. RoundClean' /\ EffectKept'
  BY <1>1, <1>3, <1>4
  DEF Live, RoundClean, EffectKept, Resolving, Visible, Granted, Asking
<1> QED
  BY <1>1, <1>3, <1>7, <1>8, <1>9, <1>10, <1>11, LiveOwesNext DEF Live, Ended

LEMMA RoundBarrierHolds == IInv /\ RoundBarrier => IInv'
<1> SUFFICES ASSUME IInv, RoundBarrier PROVE IInv'
  OBVIOUS
<1>1. /\ TypeOK /\ PlanTyped /\ Live /\ pc = "barrier" /\ pc' = "call"
      /\ UNCHANGED <<env, plan, claims, room, tool, answer, decision, effect, log, observer>>
      /\ dirty' = FALSE /\ round' = Noticed(round)
  BY DEF RoundBarrier, IInv, Ended, audit, Flush
<1>2. PlanTyped' /\ Planned' = Planned /\ RoundClaims' = RoundClaims
  BY <1>1, PlanStays
<1>3. PICK lost \in BOOLEAN : round' = [round EXCEPT !.limit = round.limit, !.lost = lost]
  BY <1>1, SameRound
<1>4. /\ round' \in [limit : BOOLEAN, lost : BOOLEAN, cancelled : BOOLEAN, failed : BOOLEAN,
                     concludes : BOOLEAN, stop : Stops,
                     outcome : {"none", "error", "cancelled", "completed", "continue"}]
      /\ round'.stop = round.stop /\ round'.failed = round.failed
      /\ round'.cancelled = round.cancelled /\ round'.concludes = round.concludes
  BY <1>1, <1>3 DEF TypeOK
<1>5. TypeOK'
  BY <1>1, <1>2, <1>4 DEF TypeOK, env, AtSession
<1>6. ToolHeld' /\ ClaimsHeld'
  BY <1>1, <1>2
  DEF Live, ToolHeld, ClaimsHeld, Before, Resolving, Asking, CallClaim, ResultClaim
<1>7. LogKept'
  BY <1>1, <1>2 DEF Live, LogKept, Before, Resolving, Asking, Unasked, CallClaim
<1>8. RoundClean' /\ EffectKept'
  BY <1>1, <1>2, <1>4 DEF Live, RoundClean, EffectKept, Resolving, Visible, Granted, Asking
<1> QED
  BY <1>1, <1>2, <1>5, <1>6, <1>7, <1>8, LiveOwesNext DEF Live, Ended

LEMMA NextCallFacts ==
  ASSUME IInv, pc = "call", NEW c \in Planned, NextCall(c)
  PROVE  /\ TypeOK /\ PlanTyped /\ Live /\ c \in Calls /\ tool = NewTool
         /\ CallClaim(c) \in claims /\ answer[c] = "none"
         /\ \A i, j \in DOMAIN plan.order :
              i < j /\ plan.order[i] = c => CallClaim(plan.order[j]) \in claims \ {CallClaim(c)}
         /\ \A i, j \in DOMAIN plan.order :
              i < j /\ CallClaim(plan.order[i]) \in claims \ {CallClaim(c)}
                => CallClaim(plan.order[j]) \in claims \ {CallClaim(c)}
<1>1. TypeOK /\ PlanTyped /\ Live
  BY DEF IInv, Ended
<1>2. /\ c \in Calls /\ Planned \subseteq Calls /\ DOMAIN plan.order = 1..Len(plan.order)
      /\ Len(plan.order) \in Nat
      /\ \A i, j \in DOMAIN plan.order : i # j => plan.order[i] # plan.order[j]
  BY <1>1, PlanFacts
<1>3. tool = NewTool /\ CallClaim(c) \in claims
  BY <1>1 DEF Live, ToolHeld, Resolving, NextCall
<1>4. answer[c] = "none"
  BY <1>1, <1>2, <1>3 DEF Live, ClaimsHeld, Before
<1>5. PICK n \in DOMAIN plan.order :
        plan.order[n] = c /\ \A j \in 1..(n - 1) : CallClaim(plan.order[j]) \notin claims
  BY DEF NextCall
<1>6. \A i, j \in DOMAIN plan.order :
        i < j /\ CallClaim(plan.order[i]) \in claims => CallClaim(plan.order[j]) \in claims
  BY <1>1 DEF Live, ClaimsHeld, Before
<1>7. \A i \in DOMAIN plan.order : CallClaim(plan.order[i]) = CallClaim(c) => i = n
  BY <1>2, <1>5 DEF CallClaim
<1>8. ASSUME NEW i \in DOMAIN plan.order, NEW j \in DOMAIN plan.order, i < j,
             CallClaim(plan.order[i]) \in claims
      PROVE  CallClaim(plan.order[j]) \in claims \ {CallClaim(c)}
  <2>1. ~(i < n)
    BY <1>2, <1>5, <1>8
  <2>2. j # n
    BY <1>2, <1>8, <2>1
  <2> QED
    BY <1>6, <1>7, <1>8, <2>2
<1> QED
  BY <1>1, <1>2, <1>3, <1>4, <1>8

LEMMA RecordCallHolds == IInv /\ RecordCall => IInv'
<1> SUFFICES ASSUME IInv, RecordCall PROVE IInv'
  OBVIOUS
<1>1. PICK c \in Planned :
        /\ NextCall(c) /\ Commit(L!AfterToolCall(log, c))
        /\ claims' = claims \ {CallClaim(c)}
        /\ IF round.limit \/ Stopping
           THEN Goto("settle", [[NewTool EXCEPT !.call = c] EXCEPT !.answer = "notStarted"])
           ELSE Goto("dispatch", [NewTool EXCEPT !.call = c])
  BY DEF RecordCall
<1>2. /\ pc = "call"
      /\ round' = [round EXCEPT !.cancelled = @ \/ (~round.limit /\ Stopping /\ cancelled)]
      /\ UNCHANGED <<env, plan, room, answer, decision, effect>>
  BY DEF RecordCall, audit
<1>3. /\ TypeOK /\ PlanTyped /\ Live /\ c \in Calls /\ tool = NewTool
      /\ CallClaim(c) \in claims /\ answer[c] = "none"
  BY <1>1, <1>2, NextCallFacts
<1>4. PlanTyped' /\ Planned' = Planned /\ RoundClaims' = RoundClaims
  BY <1>2, <1>3, PlanStays
<1>5. /\ dirty' \in BOOLEAN /\ observer' \in {"up", "down"} /\ log' = L!AfterToolCall(log, c)
  BY <1>1, <1>3, CommitTyped
<1>6. log \in RoundLogs /\ log.turn = 1 /\ log.step = 1 /\ log.finish = "ok" /\ log.asked = {}
      /\ Records(log', log, c)
  BY <1>2, <1>3, <1>5, ToolCallRow DEF Live, LogKept, Asking
<1>7. PICK stopped \in BOOLEAN :
        /\ pc' = IF stopped THEN "settle" ELSE "dispatch"
        /\ tool' \in ToolRecords /\ tool'.call = c
        /\ tool'.answer = (IF stopped THEN "notStarted" ELSE "none")
        /\ ~tool'.required
        /\ ~stopped => ~round.limit /\ ~Stopping
  <2>1. PICK t : t = NewTool
    OBVIOUS
  <2>2. t \in ToolRecords /\ t.answer = "none" /\ ~t.required
    BY <2>1 DEF NewTool, ToolRecords, Stops
  <2>3. PICK u : u = [t EXCEPT !.call = c]
    OBVIOUS
  <2>4. u \in ToolRecords /\ u.call = c /\ u.answer = "none" /\ ~u.required
    BY <1>3, <2>2, <2>3 DEF ToolRecords
  <2>5. PICK v : v = [u EXCEPT !.answer = "notStarted"]
    OBVIOUS
  <2>6. v \in ToolRecords /\ v.call = c /\ v.answer = "notStarted" /\ ~v.required
    BY <2>4, <2>5, AnswerWords DEF ToolRecords
  <2>7. CASE round.limit \/ Stopping
    BY <1>1, <2>1, <2>3, <2>5, <2>6, <2>7 DEF Goto
  <2>8. CASE ~(round.limit \/ Stopping)
    BY <1>1, <2>1, <2>3, <2>4, <2>8 DEF Goto
  <2> QED
    BY <2>7, <2>8
<1>8. /\ round' \in [limit : BOOLEAN, lost : BOOLEAN, cancelled : BOOLEAN, failed : BOOLEAN,
                     concludes : BOOLEAN, stop : Stops,
                     outcome : {"none", "error", "cancelled", "completed", "continue"}]
      /\ round'.limit = round.limit /\ round'.lost = round.lost
      /\ round'.stop = round.stop /\ round'.failed = round.failed
      /\ round.cancelled => round'.cancelled
      /\ ~stopped => ~round'.cancelled
      /\ round'.concludes = round.concludes
      /\ ~stopped => ~round.limit /\ ~round.lost /\ ~round.failed
  BY <1>2, <1>3, <1>7 DEF TypeOK, Stopping
<1>9. TypeOK'
  BY <1>1, <1>2, <1>3, <1>4, <1>5, <1>7, <1>8 DEF TypeOK, ToolRecords, env, AtSession
<1>10. ToolHeld'
  BY <1>4, <1>7 DEF ToolHeld, Resolving, Asking
<1>11. ClaimsHeld'
  <2>1. /\ pc' \notin Before /\ pc' \in Resolving /\ pc' \notin Asking
        /\ pc \notin Before /\ pc \notin Asking
    BY <1>2, <1>7 DEF Before, Resolving, Asking
  <2>2. /\ <<"assistant", "round">> \notin claims'
        /\ \A d \in Planned : ResultClaim(d) \in claims' <=> answer[d] = "none"
        /\ \A a \in Approvals : <<"decided", a>> \notin claims'
    BY <1>1, <1>3, <2>1 DEF Live, ClaimsHeld, CallClaim, ResultClaim
  <2>3. \A d \in Calls :
          answer[d] # "none" <=> d \in Planned /\ CallClaim(d) \notin claims' /\ d # tool'.call
    <3>1. tool.call \notin Calls
      BY <1>3, RoundIds DEF NewTool
    <3> QED
      BY <1>1, <1>3, <1>7, <2>1, <3>1 DEF Live, ClaimsHeld, CallClaim
  <2>4. /\ CallClaim(c) \notin claims'
        /\ \A i, j \in DOMAIN plan.order :
             i < j /\ plan.order[i] = c => CallClaim(plan.order[j]) \in claims'
        /\ \A i, j \in DOMAIN plan.order :
             i < j /\ CallClaim(plan.order[i]) \in claims' => CallClaim(plan.order[j]) \in claims'
    BY <1>1, <1>2, NextCallFacts
  <2>5. plan' = plan /\ answer' = answer
    BY <1>2
  <2> QED
    BY <1>4, <1>7, <2>1, <2>2, <2>3, <2>4, <2>5
    DEF ClaimsHeld, Before, CallClaim, ResultClaim
<1>12. LogKept'
  <2>1. /\ pc' \notin Before /\ pc' \in Resolving /\ pc' \notin Asking
        /\ pc \notin Before /\ pc \notin Asking
    BY <1>2, <1>7 DEF Before, Resolving, Asking
  <2>2. PICK x \in L!CallStates : x = log.call[c]
    BY <1>3, <1>6 DEF RoundLogs
  <2>3. PICK y \in L!CallStates : y = [x EXCEPT !.stage = "started"]
    BY CallChange
  <2>4. log'.call[c] = y /\ y.stage = "started" /\ y.approval = x.approval
    BY <1>6, <2>2, <2>3 DEF Records, L!CallStates
  <2>5. Durable => y = [L!NoCall EXCEPT !.stage = "started"] /\ y.approval = "none"
    <3>1. PICK n \in L!CallStates : n = L!NoCall
      BY StateOfCall
    <3>2. Durable => x = [n EXCEPT !.stage = "declared"]
      BY <1>3, <2>1, <2>2, <3>1 DEF Live, LogKept
    <3>3. Durable => y = [n EXCEPT !.stage = "started"]
      BY <2>3, <3>2 DEF L!CallStates
    <3>4. n.approval = "none"
      BY <3>1, StateOfCall
    <3> QED
      BY <3>1, <3>3, <3>4 DEF L!CallStates
  <2>6. /\ log'.turn = 1 /\ log'.step = 1 /\ log'.finish = "ok" /\ log' \in RoundLogs
        /\ log'.asked = {} /\ log'.order = log.order
        /\ \A d \in Calls : d # c => log'.call[d] = log.call[d]
    BY <1>6 DEF Records, SameStep
  <2>7. ASSUME Durable
        PROVE  /\ log'.order = plan'.order
               /\ \A d \in Planned :
                    IF CallClaim(d) \in claims'
                    THEN log'.call[d] = [L!NoCall EXCEPT !.stage = "declared"]
                    ELSE log'.call[d].stage \in {"started", "answered"}
               /\ \A d \in Calls : log'.call[d].approval # "pending"
    <3>1. log'.order = plan'.order
      BY <1>2, <1>3, <2>1, <2>6, <2>7 DEF Live, LogKept
    <3>2. ASSUME NEW d \in Planned
          PROVE  IF CallClaim(d) \in claims'
                 THEN log'.call[d] = [L!NoCall EXCEPT !.stage = "declared"]
                 ELSE log'.call[d].stage \in {"started", "answered"}
      <4>1. d \in Calls
        BY <1>3, PlanFacts
      <4>2. CASE d = c
        BY <1>1, <2>4, <4>2
      <4>3. CASE d # c
        <5>1. log'.call[d] = log.call[d] /\ (CallClaim(d) \in claims' <=> CallClaim(d) \in claims)
          BY <1>1, <2>6, <4>1, <4>3 DEF CallClaim
        <5> QED
          BY <1>3, <2>1, <2>7, <5>1 DEF Live, LogKept
      <4> QED
        BY <4>2, <4>3
    <3>3. \A d \in Calls : log'.call[d].approval # "pending"
      BY <1>3, <2>1, <2>4, <2>5, <2>6, <2>7 DEF Live, LogKept
    <3> QED
      BY <3>1, <3>2, <3>3
  <2> QED
    BY <1>4, <1>7, <2>1, <2>4, <2>5, <2>6, <2>7, Words
    DEF LogKept, CallClaim, Unasked
<1>13. RoundClean' /\ EffectKept'
  BY <1>2, <1>3, <1>4, <1>7, <1>8
  DEF Live, RoundClean, EffectKept, Resolving, Visible, Granted, Asking
<1> QED
  BY <1>4, <1>7, <1>9, <1>10, <1>11, <1>12, <1>13, LiveOwesNext DEF Live, Ended

LEMMA AskHolds == IInv /\ Ask => IInv'
<1> SUFFICES ASSUME IInv, Ask PROVE IInv'
  OBVIOUS
<1>1. PICK a \in Approvals :
        /\ Commit(L!AfterAsk(log, a, tool.call))
        /\ claims' = claims \cup {<<"decided", a>>}
        /\ Goto("asked", [tool EXCEPT !.approval = a])
  BY DEF Ask
<1>2. /\ pc = "ask" /\ pc' = "asked" /\ tool' = [tool EXCEPT !.approval = a]
      /\ UNCHANGED <<env, plan, room, round, answer, decision, effect>>
  BY <1>1 DEF Ask, audit, Goto
<1>3. /\ pc \in Resolving \ {"settle", "acting"} /\ pc \in Resolving /\ pc' \in Resolving
      /\ pc \notin Asking /\ pc' \in Asking /\ pc \notin Before /\ pc' \notin Before
  BY <1>2 DEF Resolving, Asking, Before
<1>4. TypeOK /\ PlanTyped /\ Live /\ tool.call \in Planned /\ tool.call \in Calls
  BY <1>3, NothingDone
<1>5. PlanTyped' /\ Planned' = Planned /\ RoundClaims' = RoundClaims
  BY <1>2, <1>4, PlanStays
<1>6. dirty' \in BOOLEAN /\ observer' \in {"up", "down"} /\ log' = L!AfterAsk(log, a, tool.call)
  BY <1>1, <1>4, CommitTyped
<1>7. log \in RoundLogs /\ log.turn = 1 /\ log.step = 1 /\ log.finish = "ok" /\ log.asked = {}
      /\ Asks(log', log, a, tool.call)
  BY <1>3, <1>4, <1>6, AskRow DEF Live, LogKept
<1>8. /\ tool' \in ToolRecords /\ tool'.call = tool.call /\ tool'.approval = a
      /\ tool'.answer = tool.answer /\ tool'.required = tool.required
  BY <1>2, <1>4 DEF TypeOK, ToolRecords
<1>9. TypeOK'
  <2>1. claims' \subseteq RoundClaims \cup ({"decided"} \X Approvals)
    BY <1>1, <1>4 DEF TypeOK
  <2> QED
    BY <1>2, <1>4, <1>5, <1>6, <1>8, <2>1 DEF TypeOK, ToolRecords, env, AtSession
<1>10. ToolHeld'
  BY <1>2, <1>3, <1>4, <1>5, <1>8 DEF ToolHeld
<1>11. ClaimsHeld'
  <2>1. /\ <<"assistant", "round">> \notin claims'
        /\ \A d \in Planned : ResultClaim(d) \in claims' <=> answer[d] = "none"
        /\ \A b \in Approvals : <<"decided", b>> \in claims' <=> b = a
        /\ \A d \in Calls : CallClaim(d) \in claims' <=> CallClaim(d) \in claims
    BY <1>1, <1>3, <1>4 DEF Live, ClaimsHeld, CallClaim, ResultClaim
  <2>2. plan' = plan /\ answer' = answer /\ \A i \in DOMAIN plan.order : plan.order[i] \in Calls
    BY <1>2, <1>4, PlanFacts
  <2> QED
    BY <1>2, <1>3, <1>4, <1>5, <1>8, <2>1, <2>2
    DEF Live, ClaimsHeld, CallClaim, ResultClaim
<1>12. LogKept'
  <2>1. /\ log'.turn = 1 /\ log'.step = 1 /\ log'.finish = "ok" /\ log' \in RoundLogs
        /\ log'.asked = {a} /\ log'.order = log.order
        /\ \A d \in Calls : log'.call[d].stage = log.call[d].stage
        /\ Durable => /\ log'.call[tool.call].approval = "pending"
                      /\ \A d \in Calls : d # tool.call => log'.call[d] = log.call[d]
    BY <1>7 DEF Asks, SameStep
  <2>2. CallClaim(tool.call) \notin claims /\ \A d \in Calls :
          CallClaim(d) \in claims' <=> CallClaim(d) \in claims
    BY <1>1, <1>3, <1>4 DEF Live, ClaimsHeld, CallClaim
  <2>3. Durable => log.call[tool.call].approval # "pending" /\ log.order = plan.order
    BY <1>3, <1>4 DEF Live, LogKept
  <2>4. ASSUME Durable, NEW d \in Planned
        PROVE IF CallClaim(d) \in claims'
              THEN log'.call[d] = [L!NoCall EXCEPT !.stage = "declared"]
              ELSE log'.call[d].stage \in {"started", "answered"}
    <3>1. d \in Calls
      BY <1>4, PlanFacts
    <3> QED
      BY <1>3, <1>4, <2>1, <2>2, <2>4, <3>1 DEF Live, LogKept
  <2>5. Durable => \A d \in Calls : log'.call[d].approval = "pending" <=> d = tool.call
    BY <1>3, <1>4, <2>1 DEF Live, LogKept
  <2>6. log'.call[tool.call].stage = "started"
    BY <1>3, <1>4, <2>1 DEF Live, LogKept
  <2> QED
    BY <1>2, <1>3, <1>5, <1>8, <2>1, <2>3, <2>4, <2>5, <2>6
    DEF LogKept, CallClaim, Unasked
<1>13. RoundClean' /\ EffectKept'
  BY <1>2, <1>3, <1>4, <1>5, <1>8
  DEF Live, RoundClean, EffectKept, Resolving, Visible, Granted, Asking
<1> QED
  BY <1>2, <1>5, <1>9, <1>10, <1>11, <1>12, <1>13, LiveOwesNext DEF Live, Ended

LEMMA DecideHolds == IInv /\ Decide => IInv'
<1> SUFFICES ASSUME IInv, Decide PROVE IInv'
  OBVIOUS
<1>1. /\ pc = "decide" /\ pc' = "decided" /\ tool' = tool
      /\ Commit(L!AfterDecide(log, tool.approval, tool.outcome))
      /\ claims' = claims \ {<<"decided", tool.approval>>}
      /\ decision' = [decision EXCEPT ![tool.call] = tool.outcome]
      /\ UNCHANGED <<env, plan, room, round, answer, effect>>
  BY DEF Decide, Goto
<1>2. /\ pc \in Resolving \ {"settle", "acting"} /\ pc' \in Resolving
      /\ pc \in Asking /\ pc' \notin Asking /\ pc \notin Before /\ pc' \notin Before
  BY <1>1 DEF Resolving, Asking, Before
<1>3. TypeOK /\ PlanTyped /\ Live /\ tool.call \in Planned /\ tool.call \in Calls
  BY <1>2, NothingDone
<1>4. PlanTyped' /\ Planned' = Planned /\ RoundClaims' = RoundClaims
  BY <1>1, <1>3, PlanStays
<1>5. /\ dirty' \in BOOLEAN /\ observer' \in {"up", "down"}
      /\ log' = L!AfterDecide(log, tool.approval, tool.outcome)
  BY <1>1, <1>3, CommitTyped
<1>6. tool.approval \in Approvals /\ tool.outcome \in L!Outcomes
  BY <1>1, <1>2, <1>3 DEF Live, ToolHeld
<1>7. log \in RoundLogs /\ log.turn = 1 /\ log.step = 1 /\ log.finish = "ok"
      /\ log.asked = {tool.approval} /\ Decides(log', log, tool.approval, tool.outcome)
  BY <1>2, <1>3, <1>5, <1>6, DecideRow DEF Live, LogKept
<1>8. /\ decision' \in [Calls -> L!Outcomes \cup {"none"}]
      /\ decision'[tool.call] = tool.outcome
  BY <1>1, <1>3, <1>6 DEF TypeOK
<1>9. TypeOK'
  BY <1>1, <1>3, <1>4, <1>5, <1>8 DEF TypeOK, env, AtSession
<1>10. ToolHeld'
  BY <1>1, <1>2, <1>3, <1>4, <1>6 DEF ToolHeld
<1>11. ClaimsHeld'
  <2>1. /\ <<"assistant", "round">> \notin claims'
        /\ \A d \in Planned : ResultClaim(d) \in claims' <=> answer[d] = "none"
        /\ \A b \in Approvals : <<"decided", b>> \notin claims'
        /\ \A d \in Calls : CallClaim(d) \in claims' <=> CallClaim(d) \in claims
    BY <1>1, <1>2, <1>3 DEF Live, ClaimsHeld, CallClaim, ResultClaim
  <2>2. plan' = plan /\ answer' = answer /\ \A i \in DOMAIN plan.order : plan.order[i] \in Calls
    BY <1>1, <1>3, PlanFacts
  <2> QED
    BY <1>1, <1>2, <1>3, <1>4, <2>1, <2>2 DEF Live, ClaimsHeld, CallClaim, ResultClaim
<1>12. LogKept'
  <2>1. /\ log'.turn = 1 /\ log'.step = 1 /\ log'.finish = "ok" /\ log' \in RoundLogs
        /\ log'.asked = {} /\ log'.order = log.order
        /\ \A d \in Calls :
             /\ log'.call[d].stage = log.call[d].stage
             /\ IF log.call[d].approval = "pending" THEN log'.call[d].approval = tool.outcome
                ELSE log'.call[d] = log.call[d]
    BY <1>7 DEF Decides, SameStep
  <2>2. /\ CallClaim(tool.call) \notin claims
        /\ \A d \in Calls : CallClaim(d) \in claims' <=> CallClaim(d) \in claims
    BY <1>1, <1>2, <1>3 DEF Live, ClaimsHeld, CallClaim
  <2>3. Durable => /\ log.order = plan.order
                   /\ \A d \in Calls : log.call[d].approval = "pending" <=> d = tool.call
    BY <1>2, <1>3 DEF Live, LogKept
  <2>4. ASSUME Durable, NEW d \in Planned
        PROVE IF CallClaim(d) \in claims'
              THEN log'.call[d] = [L!NoCall EXCEPT !.stage = "declared"]
              ELSE log'.call[d].stage \in {"started", "answered"}
    <3>1. d \in Calls
      BY <1>3, PlanFacts
    <3> QED
      BY <1>2, <1>3, <2>1, <2>2, <2>3, <2>4, <3>1 DEF Live, LogKept
  <2>5. Durable => \A d \in Calls : log'.call[d].approval # "pending"
    BY <1>6, <2>1, <2>3, Words
  <2>6. log'.call[tool.call].stage = "started"
        /\ (Durable => log'.call[tool.call].approval = tool.outcome)
    BY <1>2, <1>3, <2>1, <2>3 DEF Live, LogKept
  <2> QED
    BY <1>1, <1>2, <1>4, <2>1, <2>3, <2>4, <2>5, <2>6 DEF LogKept, CallClaim, Unasked
<1>13. RoundClean' /\ EffectKept'
  BY <1>1, <1>2, <1>3, <1>4, <1>8
  DEF Live, RoundClean, EffectKept, Resolving, Visible, Granted, Asking
<1> QED
  BY <1>1, <1>4, <1>9, <1>10, <1>11, <1>12, <1>13, LiveOwesNext DEF Live, Ended

LEMMA CodeIsCode == \A said \in Answers : CodeOf(said) \in L!Codes
BY Words DEF CodeOf, Answers

\* A result row ends its call, whatever the round notes with it.
LEMMA ResultStep ==
  ASSUME IInv, pc = "settle", pc' = "call", tool' = NewTool,
         NEW said \in {tool.answer} \cup Fallbacks, ResultRow(said),
         UNCHANGED <<env, plan, room, decision, effect>>,
         round' \in [limit : BOOLEAN, lost : BOOLEAN, cancelled : BOOLEAN, failed : BOOLEAN,
                     concludes : BOOLEAN, stop : Stops,
                     outcome : {"none", "error", "cancelled", "completed", "continue"}],
         round'.stop # "none" => round'.failed \/ round'.cancelled,
         round.failed => round'.failed, said = "unknown" => round'.failed,
         round'.concludes => round.concludes \/ said \in {"read", "done"}
  PROVE  IInv'
<1>1. /\ TypeOK /\ PlanTyped /\ Live /\ pc \in Resolving /\ pc' \notin Resolving
      /\ pc \notin Asking /\ pc' \notin Asking /\ pc \notin Before /\ pc' \notin Before
  BY DEF IInv, Ended, Resolving, Asking, Before
<1>2. tool.call \in Planned /\ tool.call \in Calls /\ Planned \subseteq Calls
  BY <1>1, PlanFacts DEF Live, ToolHeld
<1>3. said \in Answers /\ said # "none" /\ (said = tool.answer \/ said = "fallback")
  BY <1>1, Words DEF Live, ToolHeld, TypeOK, Fallbacks, Answers
<1>4. /\ log' = L!AfterToolResult(log, tool.call, CodeOf(said))
      /\ dirty' \in BOOLEAN /\ observer' \in {"up", "down"}
      /\ claims' = claims \ {ResultClaim(tool.call)}
      /\ answer' = [answer EXCEPT ![tool.call] = said]
  BY <1>1, CommitTyped DEF ResultRow
<1>5. PlanTyped' /\ Planned' = Planned /\ RoundClaims' = RoundClaims
  BY <1>1, PlanStays
<1>6. /\ answer' \in [Calls -> Answers \cup {"none"}]
      /\ answer'[tool.call] = said /\ answer[tool.call] = "none"
      /\ \A d \in Calls : d # tool.call => answer'[d] = answer[d]
  BY <1>1, <1>2, <1>3, <1>4 DEF TypeOK, Live, ClaimsHeld
<1>7. log \in RoundLogs /\ log.turn = 1 /\ log.step = 1 /\ log.finish = "ok" /\ log.asked = {}
      /\ Resolves(log', log, tool.call)
  BY <1>1, <1>2, <1>3, <1>4, ToolResultRow, CodeIsCode DEF Live, LogKept
<1>8. TypeOK'
  <2>1. tool' \in ToolRecords
    <3>1. PICK t : t = NewTool
      OBVIOUS
    <3>2. t \in ToolRecords
      BY <3>1 DEF NewTool, ToolRecords, Stops
    <3> QED
      BY <3>1, <3>2
  <2> QED
    BY <1>1, <1>4, <1>5, <1>6, <2>1 DEF TypeOK, ToolRecords, env, AtSession
<1>9. ToolHeld'
  BY <1>1 DEF ToolHeld
<1>10. tool'.call = "none" /\ "none" \notin Calls
  BY RoundIds DEF NewTool
<1>11. ClaimsHeld'
  <2>1. /\ <<"assistant", "round">> \notin claims'
        /\ \A d \in Planned : ResultClaim(d) \in claims' <=> answer'[d] = "none"
        /\ \A b \in Approvals : <<"decided", b>> \notin claims'
        /\ \A d \in Calls : CallClaim(d) \in claims' <=> CallClaim(d) \in claims
    BY <1>1, <1>2, <1>3, <1>4, <1>6 DEF Live, ClaimsHeld, CallClaim, ResultClaim
  <2>2. \A d \in Calls :
          answer'[d] # "none" <=> d \in Planned /\ CallClaim(d) \notin claims' /\ d # tool'.call
    BY <1>1, <1>2, <1>3, <1>6, <1>10, <2>1 DEF Live, ClaimsHeld
  <2>3. plan' = plan /\ \A i \in DOMAIN plan.order : plan.order[i] \in Calls
    BY <1>1, PlanFacts
  <2> QED
    BY <1>1, <1>5, <2>1, <2>2, <2>3 DEF Live, ClaimsHeld, CallClaim, ResultClaim, Before
<1>12. LogKept'
  <2>1. /\ log'.turn = 1 /\ log'.step = 1 /\ log'.finish = "ok" /\ log' \in RoundLogs
        /\ log'.asked = {} /\ log'.order = log.order
        /\ \A d \in Calls : d # tool.call => log'.call[d] = log.call[d]
        /\ Durable => /\ log'.call[tool.call].stage = "answered"
                      /\ log'.call[tool.call].approval = log.call[tool.call].approval
    BY <1>7 DEF Resolves, SameStep
  <2>2. /\ CallClaim(tool.call) \notin claims
        /\ \A d \in Calls : CallClaim(d) \in claims' <=> CallClaim(d) \in claims
    BY <1>1, <1>4 DEF Live, ClaimsHeld, CallClaim, ResultClaim
  <2>3. ASSUME Durable, NEW d \in Planned
        PROVE IF CallClaim(d) \in claims'
              THEN log'.call[d] = [L!NoCall EXCEPT !.stage = "declared"]
              ELSE log'.call[d].stage \in {"started", "answered"}
    BY <1>1, <1>2, <2>1, <2>2, <2>3 DEF Live, LogKept
  <2>4. Durable => /\ log'.order = plan'.order
                   /\ \A d \in Calls : log'.call[d].approval # "pending"
    BY <1>1, <1>2, <2>1 DEF Live, LogKept
  <2> QED
    BY <1>1, <1>5, <2>1, <2>3, <2>4 DEF LogKept, CallClaim, Unasked, Resolving
<1>13. RoundClean'
  BY <1>1, <1>2, <1>5, <1>6 DEF Live, RoundClean, Resolving, Visible
<1>14. EffectKept'
  <2>1. effect[tool.call] = "performed" => said = tool.answer /\ said \in {"done", "unknown"}
    BY <1>1, <1>2, <1>6 DEF Live, EffectKept, Fallbacks, Fits
  <2>2. said = "done" => effect[tool.call] = "performed"
    BY <1>1, <1>3 DEF Live, EffectKept
  <2>3. ~tool'.required
    BY DEF NewTool
  <2> QED
    BY <1>1, <1>2, <1>6, <2>1, <2>2, <2>3 DEF Live, EffectKept, Granted, Asking
<1> QED
  BY <1>5, <1>8, <1>9, <1>11, <1>12, <1>13, <1>14, LiveOwesNext DEF Live, Ended

LEMMA RoundAfterResult ==
  ASSUME TypeOK, NEW said, NEW concludes \in BOOLEAN
  PROVE  LET r == AfterResult(round, said, concludes) IN
         /\ r \in [limit : BOOLEAN, lost : BOOLEAN, cancelled : BOOLEAN, failed : BOOLEAN,
                   concludes : BOOLEAN, stop : Stops,
                   outcome : {"none", "error", "cancelled", "completed", "continue"}]
         /\ r.stop # "none" => r.failed \/ r.cancelled
         /\ round.failed => r.failed
         /\ r.concludes => round.concludes \/ said \in {"read", "done"}
<1>1. PICK stop \in Stops : stop = First(First(round.stop, tool.stop), Interrupt)
  BY InterruptIsStop DEF First, TypeOK
<1>2. PICK c \in BOOLEAN, f \in BOOLEAN, e \in BOOLEAN :
        /\ c = (round.cancelled \/ "cancelled" \in {tool.stop, stop})
        /\ f = (round.failed \/ "timeout" \in {tool.stop, stop})
        /\ e = (round.concludes \/ (concludes /\ said \in {"read", "done"}))
  BY Zenon
<1>3. PICK r : r = [round EXCEPT !.stop = stop, !.cancelled = c, !.failed = f, !.concludes = e]
  OBVIOUS
<1>4. r = AfterResult(round, said, concludes)
  BY <1>1, <1>2, <1>3 DEF AfterResult, TypeOK
<1>5. /\ r \in [limit : BOOLEAN, lost : BOOLEAN, cancelled : BOOLEAN, failed : BOOLEAN,
                concludes : BOOLEAN, stop : Stops,
                outcome : {"none", "error", "cancelled", "completed", "continue"}]
      /\ r.stop = stop /\ r.cancelled = c /\ r.failed = f /\ r.concludes = e
  BY <1>3 DEF TypeOK
<1>6. stop # "none" => f \/ c
  BY <1>2 DEF Stops
<1> QED
  BY <1>2, <1>4, <1>5, <1>6

LEMMA SettleHolds == IInv /\ Settle => IInv'
<1> SUFFICES ASSUME IInv, Settle PROVE IInv'
  OBVIOUS
<1>1. PICK said \in {tool.answer} \cup Fallbacks, concludes \in BOOLEAN :
        ResultRow(said) /\ round' = AfterResult(round, said, concludes)
  BY DEF Settle
<1>2. /\ TypeOK /\ pc = "settle" /\ pc' = "call" /\ tool' = NewTool /\ said # "unknown"
      /\ UNCHANGED <<env, plan, room, decision, effect>>
  BY <1>1 DEF Settle, Goto, IInv, Fallbacks
<1> QED
  BY <1>1, <1>2, RoundAfterResult, ResultStep

LEMMA SettleUnknownHolds == IInv /\ SettleUnknown => IInv'
<1> SUFFICES ASSUME IInv, SettleUnknown PROVE IInv'
  OBVIOUS
<1>1. /\ TypeOK /\ pc = "settle" /\ pc' = "call" /\ tool' = NewTool /\ tool.answer = "unknown"
      /\ UNCHANGED <<env, plan, room, decision, effect>>
      /\ round' = [round EXCEPT !.failed = TRUE, !.stop = First(@, tool.stop)]
  BY DEF SettleUnknown, Goto, IInv
<1>2. PICK said \in {tool.answer} \cup Fallbacks : ResultRow(said)
  BY <1>1 DEF SettleUnknown
<1>3. /\ round' \in [limit : BOOLEAN, lost : BOOLEAN, cancelled : BOOLEAN, failed : BOOLEAN,
                     concludes : BOOLEAN, stop : Stops,
                     outcome : {"none", "error", "cancelled", "completed", "continue"}]
      /\ round'.failed /\ round'.concludes = round.concludes
  BY <1>1 DEF TypeOK, First
<1> QED
  BY <1>1, <1>2, <1>3, ResultStep

-----------------------------------------------------------------------------
(* The environment, and the ends of a round.                               *)

LEMMA ClaimRoundHolds == IInv /\ ClaimRound => IInv'
<1> SUFFICES ASSUME IInv, ClaimRound PROVE IInv'
  OBVIOUS
<1>1. /\ TypeOK /\ PlanTyped /\ Live /\ pc = "claim"
      /\ UNCHANGED <<env, plan, room, tool, answer, decision, effect, log, observer, dirty>>
  BY DEF ClaimRound, IInv, Ended, NoRow, rows, audit
<1>2. PlanTyped' /\ Planned' = Planned /\ RoundClaims' = RoundClaims /\ Planned \subseteq Calls
  BY <1>1, PlanStays, PlanFacts
<1>3. /\ tool = NewTool /\ claims = {} /\ \A c \in Calls : answer[c] = "none"
      /\ log.asked = {} /\ \A c \in Calls : log.call[c] = L!NoCall
      /\ \A c \in Calls : effect[c] = "none"
  <2>1. tool = NewTool /\ claims = {} /\ \A c \in Calls : answer[c] = "none"
    BY <1>1 DEF Live, ToolHeld, ClaimsHeld, Resolving, Before
  <2>2. log.asked = {} /\ \A c \in Calls : log.call[c] = L!NoCall
    BY <1>1 DEF Live, LogKept, Before, Asking
  <2>3. \A c \in Calls : effect[c] = "none"
    BY <1>1, <2>1 DEF Live, EffectKept, TypeOK
  <2> QED
    BY <2>1, <2>2, <2>3
<1>4. CASE claims' = RoundClaims /\ pc' = "commit" /\ UNCHANGED round
  <2>1. TypeOK'
    BY <1>1, <1>2, <1>4 DEF TypeOK, env, AtSession
  <2>2. ToolHeld' /\ ClaimsHeld'
    BY <1>1, <1>2, <1>3, <1>4 DEF ToolHeld, ClaimsHeld, Resolving, Before, Asking
  <2>3. LogKept'
    BY <1>1, <1>2, <1>4 DEF Live, LogKept, Before, Resolving, Asking, Unasked
  <2>4. RoundClean' /\ EffectKept'
    BY <1>1, <1>2, <1>4 DEF Live, RoundClean, EffectKept, Resolving, Visible, Granted, Asking
  <2> QED
    BY <1>2, <1>4, <2>1, <2>2, <2>3, <2>4, LiveOwesNext DEF Live, Ended
<1>5. CASE /\ pc' = "returned" /\ UNCHANGED claims
           /\ round' = [round EXCEPT !.limit = Durable, !.outcome = "error"]
  <2>1. TypeOK' /\ round'.outcome = "error"
    BY <1>1, <1>2, <1>5, RoundIds, ZenonT(60) DEF TypeOK, env, Ended
  <2>2. EffectAnsweredTruthfully'
    BY <1>1, <1>3 DEF EffectAnsweredTruthfully
  <2>3. RoundLeavesNothingOpen'
    BY <1>1, <1>2, <1>3, <1>5, <2>1, StateOfCall DEF RoundLeavesNothingOpen
  <2>4. ContinueIsClean'
    BY <2>1 DEF ContinueIsClean
  <2> QED
    BY <1>2, <1>5, <2>1, <2>2, <2>3, <2>4 DEF IInv, Ended
<1> QED
  BY <1>4, <1>5 DEF ClaimRound

\* A memory session cannot record the outcome: this call stays open, the last.
LEMMA LeaveUnansweredHolds == IInv /\ LeaveUnanswered => IInv'
<1> SUFFICES ASSUME IInv, LeaveUnanswered PROVE IInv'
  OBVIOUS
<1>1. /\ TypeOK /\ PlanTyped /\ Live /\ pc = "settle" /\ pc' = "returned" /\ ~Durable
      /\ claims' = {}
      /\ UNCHANGED <<env, plan, room, tool, answer, decision, effect, log, observer, dirty>>
  BY DEF LeaveUnanswered, IInv, Ended, NoRow, rows, audit, Return
<1>2. PlanTyped' /\ Planned' = Planned /\ RoundClaims' = RoundClaims
  BY <1>1, PlanStays
<1>3. tool.call \in Planned /\ tool.call \in Calls
  BY <1>1, PlanFacts DEF Live, ToolHeld, Resolving
<1>4. /\ round' \in [limit : BOOLEAN, lost : BOOLEAN, cancelled : BOOLEAN, failed : BOOLEAN,
                     concludes : BOOLEAN, stop : Stops,
                     outcome : {"none", "error", "cancelled", "completed", "continue"}]
      /\ round'.outcome = "error"
  <2>1. PICK stop \in Stops : stop = First(round.stop, tool.stop)
    BY <1>1 DEF First, TypeOK
  <2>2. round' = [round EXCEPT !.stop = stop, !.outcome = "error"]
    BY <1>1, <2>1 DEF LeaveUnanswered, Return, TypeOK
  <2> QED
    BY <1>1, <2>2 DEF TypeOK
<1>5. TypeOK'
  BY <1>1, <1>2, <1>4 DEF TypeOK, env, Ended
<1>6. EffectAnsweredTruthfully'
  BY <1>1 DEF EffectAnsweredTruthfully, IInv, Ended
<1>7. RoundLeavesNothingOpen'
  <2>1. PICK n \in DOMAIN plan.order : plan.order[n] = tool.call
    BY <1>3 DEF Planned
  <2>2. /\ DOMAIN plan.order = 1..Len(plan.order) /\ Len(plan.order) \in Nat
        /\ \A i \in DOMAIN plan.order : plan.order[i] \in Planned /\ plan.order[i] \in Calls
        /\ \A i, j \in DOMAIN plan.order : i # j => plan.order[i] # plan.order[j]
    BY <1>1, PlanFacts
  <2>3. /\ \A c \in Calls : answer[c] # "none" <=>
                  c \in Planned /\ CallClaim(c) \notin claims /\ c # tool.call
        /\ CallClaim(tool.call) \notin claims
        /\ \A i, j \in DOMAIN plan.order :
             i < j /\ CallClaim(plan.order[i]) \in claims => CallClaim(plan.order[j]) \in claims
        /\ \A j \in DOMAIN plan.order : n < j => CallClaim(plan.order[j]) \in claims
    BY <1>1, <2>1 DEF Live, ClaimsHeld, Before, Resolving
  <2>4. \A j \in DOMAIN plan.order : answer[plan.order[j]] # "none" <=> j < n
    <3> SUFFICES ASSUME NEW j \in DOMAIN plan.order
                 PROVE  answer[plan.order[j]] # "none" <=> j < n
      OBVIOUS
    <3>1. CASE j < n
      <4>1. CallClaim(plan.order[j]) \notin claims /\ plan.order[j] # tool.call
        BY <2>1, <2>2, <2>3, <3>1
      <4> QED
        BY <2>2, <2>3, <3>1, <4>1
    <3>2. CASE j = n
      BY <2>1, <2>2, <2>3, <3>2
    <3>3. CASE n < j
      BY <2>2, <2>3, <3>3
    <3> QED
      BY <2>2, <3>1, <3>2, <3>3
  <2>5. log.asked = {}
    BY <1>1 DEF Live, LogKept, Asking
  <2> QED
    BY <1>1, <1>4, <2>4, <2>5 DEF RoundLeavesNothingOpen
<1>8. ContinueIsClean'
  BY <1>4 DEF ContinueIsClean
<1> QED
  BY <1>1, <1>2, <1>5, <1>6, <1>7, <1>8 DEF IInv, Ended

LEMMA RoundDoneHolds == IInv /\ RoundDone => IInv'
<1> SUFFICES ASSUME IInv, RoundDone PROVE IInv'
  OBVIOUS
<1>1. /\ TypeOK /\ PlanTyped /\ Live /\ pc = "call" /\ pc' = "returned"
      /\ \A c \in Planned : CallClaim(c) \notin claims
      /\ UNCHANGED <<env, plan, claims, room, tool, answer, decision, effect, log, observer, dirty>>
  BY DEF RoundDone, IInv, Ended, NoRow, rows, audit, Return
<1>2. PlanTyped' /\ Planned' = Planned /\ RoundClaims' = RoundClaims /\ Planned \subseteq Calls
  BY <1>1, PlanStays, PlanFacts
<1>3. PICK outcome \in {"error", "cancelled", "completed", "continue"} :
        /\ round' = [round EXCEPT !.outcome = outcome]
        /\ outcome \in {"completed", "continue"} =>
             ~round.limit /\ ~round.lost /\ ~round.failed /\ ~round.cancelled
        /\ outcome = "completed" => round.concludes
  BY DEF RoundDone, Return
<1>4. /\ round' \in [limit : BOOLEAN, lost : BOOLEAN, cancelled : BOOLEAN, failed : BOOLEAN,
                     concludes : BOOLEAN, stop : Stops,
                     outcome : {"none", "error", "cancelled", "completed", "continue"}]
      /\ round'.outcome = outcome /\ round'.limit = round.limit /\ round'.lost = round.lost
      /\ round'.stop = round.stop
  BY <1>1, <1>3 DEF TypeOK
<1>5. TypeOK'
  BY <1>1, <1>2, <1>4 DEF TypeOK, env, Ended
<1>6. EffectAnsweredTruthfully'
  BY <1>1 DEF EffectAnsweredTruthfully, IInv, Ended
<1>7. \A c \in Planned : answer[c] # "none"
  <2>1. tool.call \notin Calls
    BY <1>1, RoundIds DEF Live, ToolHeld, Resolving, NewTool
  <2> QED
    BY <1>1, <1>2, <2>1 DEF Live, ClaimsHeld, Before
<1>8. claims = {} /\ log.asked = {}
  <2>1. <<"assistant", "round">> \notin claims
    BY <1>1 DEF Live, ClaimsHeld, Before
  <2>2. \A c \in Planned : ResultClaim(c) \notin claims /\ CallClaim(c) \notin claims
    BY <1>1, <1>7 DEF Live, ClaimsHeld, Before
  <2>3. \A a \in Approvals : <<"decided", a>> \notin claims
    BY <1>1 DEF Live, ClaimsHeld, Before, Asking
  <2>4. claims \subseteq RoundClaims \cup ({"decided"} \X Approvals)
    BY <1>1 DEF TypeOK
  <2>5. claims = {}
    BY <2>1, <2>2, <2>3, <2>4 DEF RoundClaims
  <2>6. log.asked = {}
    BY <1>1 DEF Live, LogKept, Asking
  <2> QED
    BY <2>5, <2>6
<1>9. RoundLeavesNothingOpen'
  BY <1>1, <1>2, <1>7, <1>8 DEF RoundLeavesNothingOpen
<1>10. ContinueIsClean'
  BY <1>1, <1>2, <1>3, <1>4 DEF ContinueIsClean, Live, RoundClean
<1> QED
  BY <1>1, <1>2, <1>5, <1>6, <1>9, <1>10 DEF IInv, Ended

\* Neither the caller nor the clock touches what the invariant is about.
LEMMA StopComesHolds == IInv /\ (Cancel \/ Expire) => IInv'
<1> SUFFICES ASSUME IInv, Cancel \/ Expire PROVE IInv'
  OBVIOUS
<1>1. /\ TypeOK /\ PlanTyped /\ Live /\ pc \notin Ended
      /\ cancelled' \in BOOLEAN /\ expired' \in BOOLEAN
      /\ UNCHANGED <<pc, plan, claims, room, tool, round, answer, decision, effect, log,
                     observer, dirty>>
  BY DEF Cancel, Expire, IInv, TypeOK, rows, audit
<1>2. PlanTyped' /\ Planned' = Planned /\ RoundClaims' = RoundClaims
  BY <1>1, PlanStays
<1>3. TypeOK'
  BY <1>1, <1>2 DEF TypeOK
<1>4. ToolHeld' /\ ClaimsHeld'
  BY <1>1, <1>2 DEF Live, ToolHeld, ClaimsHeld, CallClaim, ResultClaim
<1>5. LogKept' /\ RoundClean' /\ EffectKept'
  BY <1>1, <1>2 DEF Live, LogKept, RoundClean, EffectKept, CallClaim
<1> QED
  BY <1>1, <1>2, <1>3, <1>4, <1>5, LiveOwesNext DEF Live

LEMMA AbandonHolds == IInv /\ Abandon => IInv'
<1> SUFFICES ASSUME IInv, Abandon PROVE IInv'
  OBVIOUS
<1>1. /\ TypeOK /\ PlanTyped /\ Live /\ pc \in AtSession /\ pc' = "abandoned"
      /\ UNCHANGED <<env, plan, claims, room, tool, round, answer, decision, effect, log,
                     observer, dirty>>
  BY DEF Abandon, IInv, Ended, AtSession, rows, audit
<1>2. PlanTyped' /\ Planned' = Planned /\ RoundClaims' = RoundClaims
  BY <1>1, PlanStays
<1>3. TypeOK'
  BY <1>1, <1>2 DEF TypeOK, env, Ended
<1>4. EffectAnsweredTruthfully'
  BY <1>1 DEF EffectAnsweredTruthfully, IInv, Ended, AtSession
<1>5. RoundLeavesNothingOpen' /\ ContinueIsClean'
  BY <1>1 DEF RoundLeavesNothingOpen, ContinueIsClean
<1> QED
  BY <1>1, <1>2, <1>3, <1>4, <1>5 DEF IInv, Ended

LEMMA StutterHolds == IInv /\ UNCHANGED vars => IInv'
<1> SUFFICES ASSUME IInv, UNCHANGED vars PROVE IInv'
  OBVIOUS
<1>1. UNCHANGED <<pc, cancelled, expired, plan, claims, room, tool, round, answer, decision,
                  effect, log, observer, dirty>>
  BY DEF vars, env, rows, audit
<1>2. PlanTyped' /\ Planned' = Planned /\ RoundClaims' = RoundClaims
  BY <1>1, PlanStays DEF IInv
<1>3. TypeOK'
  BY <1>1, <1>2 DEF IInv, TypeOK
<1>4. EffectAnsweredTruthfully' /\ RoundLeavesNothingOpen' /\ ContinueIsClean'
  BY <1>1, <1>2 DEF IInv, EffectAnsweredTruthfully, RoundLeavesNothingOpen, ContinueIsClean
<1>5. ASSUME pc \notin Ended
      PROVE  Live'
  <2>1. Live
    BY <1>5 DEF IInv
  <2>2. ToolHeld' /\ ClaimsHeld'
    BY <1>1, <1>2, <2>1 DEF Live, ToolHeld, ClaimsHeld, CallClaim, ResultClaim
  <2>3. LogKept' /\ RoundClean' /\ EffectKept'
    BY <1>1, <1>2, <2>1 DEF Live, LogKept, RoundClean, EffectKept, CallClaim
  <2> QED
    BY <2>2, <2>3 DEF Live
<1> QED
  BY <1>1, <1>2, <1>3, <1>4, <1>5 DEF IInv

LEMMA IInvHolds == IInv /\ [Next]_vars => IInv'
BY StutterHolds, StopComesHolds, AbandonHolds, ClaimRoundHolds, CommitAssistantHolds,
   RoundBarrierHolds, RecordCallHolds, DispatchBarrierHolds, RefuseCallHolds,
   PreparationStoppedHolds, PreparedHolds, NoticeStopHolds, SetupEndsHolds,
   DeniedByPolicyHolds, NoRoomHolds, ReserveHolds, CannotAskHolds, AskHolds,
   AskedBarrierHolds, ApprovalStoppedHolds, ApprovalAnswerHolds, DecideHolds,
   DecidedBarrierHolds, StoppedBeforeStartHolds, StartEffectHolds, EffectEndsHolds,
   SettleHolds, SettleUnknownHolds, LeaveUnansweredHolds, RoundDoneHolds
DEF Next, Step, Tool

-----------------------------------------------------------------------------
(* The theorems.                                                           *)

\* The invariant holds of every round, whatever the calls, the approvals and
\* the policies, over a durable session and over one in memory.
THEOREM RoundInvariant == Spec => []IInv
BY InitHolds, IInvHolds, PTL DEF Spec

\* Every part of the round's state keeps its type (commit_tool_round).
THEOREM RoundTyped == Spec => []TypeOK
<1>1. IInv => TypeOK
  BY DEF IInv
<1> QED
  BY <1>1, RoundInvariant, PTL

\* What a tool did is what its result row says (settle_tool_result,
\* settle_unknown_tool_outcome).
THEOREM EffectsAnswered == Spec => []EffectAnsweredTruthfully
<1>1. IInv => EffectAnsweredTruthfully
  BY DEF IInv
<1> QED
  BY <1>1, RoundInvariant, PTL

\* A round that returns leaves no claim and no call open, but for the one call
\* whose outcome a memory session cannot record (commit_tool_round).
THEOREM NothingLeftOpen == Spec => []RoundLeavesNothingOpen
<1>1. IInv => RoundLeavesNothingOpen
  BY DEF IInv
<1> QED
  BY <1>1, RoundInvariant, PTL

\* The turn goes on only when nothing of the round is in doubt.
THEOREM ContinuesClean == Spec => []ContinueIsClean
<1>1. IInv => ContinueIsClean
  BY DEF IInv
<1> QED
  BY <1>1, RoundInvariant, PTL

-----------------------------------------------------------------------------
(* What a step may do: start an effect, write a row.                       *)

\* What has to hold of a call when its effect starts (EffectIsAuthorised).
Authorised(c) ==
  /\ ~dirty /\ observer = "up"
  /\ log.call[c].stage = "started" /\ ResultClaim(c) \in claims /\ c \in room
  /\ \/ plan.policy[c] = "allow"
     \/ plan.policy[c] = "ask" /\ decision[c] = "allowed"
  /\ Interrupt = "none" /\ round.stop = "none"
  /\ ~round.limit /\ ~round.lost /\ ~round.failed
  /\ \A d \in Calls : effect[d] # "running" /\ answer[d] # "unknown"

LEMMA StartIsAuthorised == IInv /\ StartEffect => Authorised(tool.call)
<1> SUFFICES ASSUME IInv, StartEffect PROVE Authorised(tool.call)
  OBVIOUS
<1>1. pc = "start" /\ pc \in Resolving \ {"settle", "acting"} /\ Interrupt = "none"
  BY DEF StartEffect, Resolving
<1>2. /\ TypeOK /\ PlanTyped /\ Live /\ tool.call \in Planned /\ tool.call \in Calls
      /\ answer[tool.call] = "none"
  BY <1>1, NothingDone
<1>3. ~dirty /\ observer = "up"
  BY <1>1, <1>2 DEF Live, RoundClean, Visible
<1>4. /\ ~round.limit /\ ~round.lost /\ ~round.failed /\ ~round.cancelled
      /\ round.stop = "none" /\ \A d \in Calls : answer[d] # "unknown"
  BY <1>1, <1>2 DEF Live, RoundClean
<1>5. log.call[tool.call].stage = "started" /\ ResultClaim(tool.call) \in claims
  BY <1>1, <1>2 DEF Live, LogKept, ClaimsHeld, Before
<1>6. /\ tool.call \in room /\ \A d \in Calls : effect[d] # "running"
      /\ \/ plan.policy[tool.call] = "allow"
         \/ plan.policy[tool.call] = "ask" /\ decision[tool.call] = "allowed"
  BY <1>1, <1>2 DEF Live, EffectKept, Granted
<1> QED
  BY <1>1, <1>3, <1>4, <1>5, <1>6 DEF Authorised

LEMMA OnlyStartStarts ==
  ASSUME IInv, [Next]_vars, NEW c \in Calls, effect[c] = "none", effect'[c] = "running"
  PROVE  StartEffect /\ c = tool.call
<1>1. effect \in [Calls -> {"none", "running", "performed"}]
  BY DEF IInv, TypeOK
<1>2. ~UNCHANGED effect
  OBVIOUS
<1>3. CASE StartEffect
  BY <1>1, <1>3 DEF StartEffect
<1>4. CASE EffectEnds
  <2>1. PICK real \in {"none", "performed"} : effect' = [effect EXCEPT ![tool.call] = real]
    BY <1>4 DEF EffectEnds
  <2> QED
    BY <1>1, <2>1
<1>5. CASE ~StartEffect /\ ~EffectEnds
  <2>1. ~UNCHANGED vars
    BY <1>2 DEF vars
  <2>2. CASE Step
    BY <1>2, <1>5, <2>2
    DEF Step, ClaimRound, CommitAssistant, RoundBarrier, RecordCall, DispatchBarrier,
        RefuseCall, PreparationStopped, NoticeStop, DeniedByPolicy, NoRoom, Reserve,
        CannotAsk, Ask, AskedBarrier, ApprovalStopped, Decide, DecidedBarrier,
        StoppedBeforeStart, Settle, SettleUnknown, LeaveUnanswered, RoundDone
  <2>3. CASE SetupEnds \/ Prepared \/ ApprovalAnswer \/ Cancel \/ Expire \/ Abandon
    BY <1>2, <2>3 DEF SetupEnds, Prepared, ApprovalAnswer, Cancel, Expire, Abandon
  <2> QED
    BY <1>5, <2>1, <2>2, <2>3 DEF Next, Tool
<1> QED
  BY <1>3, <1>4, <1>5

\* No effect starts unless its call is recorded, seen, permitted, has room for
\* its result, and nothing has stopped or spoiled the round (resolve_action,
\* resolve_mutation).
THEOREM EffectsAuthorised == Spec => EffectIsAuthorised
<1>1. IInv /\ [Next]_vars =>
        [\A c \in Calls : effect[c] = "none" /\ effect'[c] = "running" => Authorised(c)]_vars
  BY OnlyStartStarts, StartIsAuthorised
<1> QED
  BY <1>1, RoundInvariant, PTL DEF Spec, EffectIsAuthorised, Authorised

-----------------------------------------------------------------------------

LEMMA StepIds == 1 \in L!Turns /\ 1 \in L!Steps
BY DEF L!Turns, L!Steps

LEMMA AssistantFollows == IInv /\ CommitAssistant => L!AssistantMessage
<1> SUFFICES ASSUME IInv, CommitAssistant PROVE L!AssistantMessage
  OBVIOUS
<1>1. TypeOK /\ PlanTyped /\ Live /\ pc = "commit" /\ pc \in Before
  BY DEF CommitAssistant, IInv, Ended, Before
<1>2. log' = L!AfterAssistant(log, plan.order, TRUE) /\ plan.order \in L!CallLists
  BY <1>1, PlanFacts DEF CommitAssistant, Commit
<1>3. /\ log \in RoundLogs /\ log.turn = 1 /\ log.step = 1 /\ log.finish = "ok"
      /\ log.attempt = "sealed" /\ \A c \in Calls : log.call[c] = L!NoCall
  BY <1>1 DEF Live, LogKept
<1>4. L!CanAssistant(log, 1, 1, plan.order, TRUE)
  <2>1. \A i \in DOMAIN plan.order : plan.order[i] \in Calls
    BY <1>1, PlanFacts
  <2>2. \A i, j \in DOMAIN plan.order : i # j => plan.order[i] # plan.order[j]
    BY <1>1, PlanFacts
  <2>3. log.compaction = "none"
    BY <1>3 DEF RoundLogs
  <2> QED
    BY <1>3, <2>1, <2>2, <2>3, StateOfCall
    DEF L!CanAssistant, L!Free, L!InStep, L!AttemptRow, L!TerminalAttempt
<1> QED
  BY <1>2, <1>4, StepIds DEF L!AssistantMessage

LEMMA CallFollows == IInv /\ RecordCall => L!ToolCall
<1> SUFFICES ASSUME IInv, RecordCall PROVE L!ToolCall
  OBVIOUS
<1>1. PICK c \in Planned : NextCall(c) /\ log' = L!AfterToolCall(log, c)
  BY DEF RecordCall, Commit
<1>2. TypeOK /\ PlanTyped /\ Live /\ c \in Calls /\ pc \notin Before
  BY <1>1, NextCallFacts DEF RecordCall, Before
<1>3. log \in RoundLogs /\ log.turn = 1 /\ log.step = 1 /\ log.compaction = "none"
  BY <1>2 DEF Live, LogKept, RoundLogs
<1>4. ASSUME Durable
      PROVE  L!IsNextCall(log, c)
  <2>1. PICK n \in DOMAIN plan.order :
          /\ plan.order[n] = c /\ CallClaim(c) \in claims
          /\ \A j \in 1..(n - 1) : CallClaim(plan.order[j]) \notin claims
    BY <1>1 DEF NextCall
  <2>2. /\ log.order = plan.order
        /\ \A d \in Planned :
             IF CallClaim(d) \in claims THEN log.call[d] = [L!NoCall EXCEPT !.stage = "declared"]
             ELSE log.call[d].stage \in {"started", "answered"}
    BY <1>2, <1>4 DEF Live, LogKept
  <2>3. PICK x : x = [L!NoCall EXCEPT !.stage = "declared"]
    OBVIOUS
  <2>4. x.stage = "declared"
    BY <2>3 DEF L!NoCall
  <2>5. log.call[c].stage = "declared"
    BY <2>1, <2>2, <2>3, <2>4
  <2>6. \A j \in 1..(n - 1) : log.call[plan.order[j]].stage # "declared"
    <3> SUFFICES ASSUME NEW j \in 1..(n - 1)
                 PROVE  log.call[plan.order[j]].stage # "declared"
      OBVIOUS
    <3>1. plan.order[j] \in Planned
      BY <1>2, <2>1, PlanFacts
    <3> QED
      BY <2>1, <2>2, <3>1
  <2> QED
    BY <2>1, <2>2, <2>5, <2>6 DEF L!IsNextCall
<1>5. L!CanToolCall(log, 1, 1, c)
  BY <1>3, <1>4 DEF L!CanToolCall, L!Free, L!InStep
<1> QED
  BY <1>1, <1>2, <1>5, StepIds DEF L!ToolCall

LEMMA AskFollows == IInv /\ Ask => L!ApprovalAsked
<1> SUFFICES ASSUME IInv, Ask PROVE L!ApprovalAsked
  OBVIOUS
<1>1. PICK a \in Approvals : a \notin log.owned /\ log' = L!AfterAsk(log, a, tool.call)
  BY DEF Ask, Commit
<1>2. pc = "ask" /\ pc \in Resolving \ {"settle", "acting"} /\ pc \in Unasked /\ pc \notin Asking
  BY DEF Ask, Resolving, Unasked, Asking
<1>3. Live /\ tool.call \in Calls
  BY <1>2, NothingDone
<1>4. /\ log \in RoundLogs /\ log.turn = 1 /\ log.step = 1 /\ log.asked = {}
      /\ log.compaction = "none"
      /\ Durable => log.call[tool.call] = [L!NoCall EXCEPT !.stage = "started"]
  BY <1>2, <1>3 DEF Live, LogKept, RoundLogs
<1>5. L!CanAsk(log, a, tool.call)
  BY <1>1, <1>4 DEF L!CanAsk, L!Free
<1> QED
  BY <1>1, <1>3, <1>5 DEF L!ApprovalAsked

LEMMA DecisionFollows == IInv /\ Decide => L!ApprovalDecided
<1> SUFFICES ASSUME IInv, Decide PROVE L!ApprovalDecided
  OBVIOUS
<1>1. pc = "decide" /\ pc \in Asking /\ pc \notin Ended
      /\ log' = L!AfterDecide(log, tool.approval, tool.outcome)
  BY DEF Decide, Commit, Asking, Ended
<1>2. tool.approval \in Approvals /\ tool.outcome \in L!Outcomes
      /\ log \in RoundLogs /\ log.turn = 1 /\ log.asked = {tool.approval}
      /\ log.compaction = "none"
  BY <1>1 DEF IInv, Live, ToolHeld, LogKept, RoundLogs
<1>3. L!CanDecide(log, tool.approval)
  BY <1>2 DEF L!CanDecide, L!Free
<1> QED
  BY <1>1, <1>2, <1>3 DEF L!ApprovalDecided

LEMMA ResultFollows ==
  ASSUME IInv, pc = "settle", NEW said \in {tool.answer} \cup Fallbacks, ResultRow(said)
  PROVE  L!ToolResult
<1>1. /\ TypeOK /\ PlanTyped /\ Live /\ pc \in Resolving /\ pc \notin Asking /\ pc \notin Before
      /\ log' = L!AfterToolResult(log, tool.call, CodeOf(said))
  BY DEF IInv, Ended, Resolving, Asking, Before, ResultRow, Commit
<1>2. tool.call \in Calls /\ said \in Answers /\ CodeOf(said) \in L!Codes
  <2>1. tool.call \in Calls
    BY <1>1, PlanFacts DEF Live, ToolHeld
  <2>2. said \in Answers
    BY <1>1 DEF Live, ToolHeld, TypeOK, Fallbacks, Answers
  <2> QED
    BY <2>1, <2>2, CodeIsCode
<1>3. /\ log \in RoundLogs /\ log.turn = 1 /\ log.step = 1 /\ log.compaction = "none"
      /\ log.call[tool.call].stage = "started"
      /\ Durable => log.call[tool.call].approval # "pending"
  BY <1>1, <1>2 DEF Live, LogKept, RoundLogs
<1>4. ASSUME Durable, log.call[tool.call].approval \in Refusals
      PROVE  CodeOf(said) = log.call[tool.call].approval
  <2>1. tool.answer = log.call[tool.call].approval /\ tool.call \in room
    BY <1>1, <1>4 DEF Live, LogKept
  <2>2. said = tool.answer
    BY <1>4, <2>1, Words DEF Fallbacks, Fits
  <2> QED
    BY <1>4, <2>1, <2>2, Words DEF CodeOf
<1>5. L!CanToolResult(log, 1, 1, tool.call, CodeOf(said))
  BY <1>3, <1>4 DEF L!CanToolResult, L!Free, L!InStep, L!HonoursDecision, Refusals
<1> QED
  BY <1>1, <1>2, <1>5, StepIds DEF L!ToolResult

LEMMA QuietStep ==
  ASSUME Next, ~CommitAssistant, ~RecordCall, ~Ask, ~Decide, ~Settle, ~SettleUnknown
  PROVE  UNCHANGED log
<1>1. CASE Step
  BY <1>1
  DEF Step, ClaimRound, RoundBarrier, DispatchBarrier, RefuseCall, PreparationStopped,
      NoticeStop, DeniedByPolicy, NoRoom, Reserve, CannotAsk, AskedBarrier,
      ApprovalStopped, DecidedBarrier, StoppedBeforeStart, StartEffect, LeaveUnanswered,
      RoundDone, NoRow, Flush, rows
<1>2. CASE Tool \/ Prepared \/ ApprovalAnswer \/ Cancel \/ Expire \/ Abandon
  BY <1>2 DEF Tool, SetupEnds, EffectEnds, Prepared, ApprovalAnswer, Cancel, Expire,
              Abandon, NoRow, rows
<1> QED
  BY <1>1, <1>2 DEF Next

LEMMA RowFollows == IInv /\ [Next]_vars => [L!Next]_log
<1> SUFFICES ASSUME IInv, [Next]_vars PROVE [L!Next]_log
  OBVIOUS
<1>1. CASE UNCHANGED vars
  BY <1>1 DEF vars, rows
<1>2. CASE CommitAssistant
  BY <1>2, AssistantFollows DEF L!Next
<1>3. CASE RecordCall
  BY <1>3, CallFollows DEF L!Next
<1>4. CASE Ask
  BY <1>4, AskFollows DEF L!Next
<1>5. CASE Decide
  BY <1>5, DecisionFollows DEF L!Next
<1>6. CASE Settle
  <2>1. pc = "settle" /\ \E said \in {tool.answer} \cup Fallbacks : ResultRow(said)
    BY <1>6 DEF Settle
  <2> QED
    BY <2>1, ResultFollows DEF L!Next
<1>7. CASE SettleUnknown
  <2>1. pc = "settle" /\ \E said \in {tool.answer} \cup Fallbacks : ResultRow(said)
    BY <1>7 DEF SettleUnknown
  <2> QED
    BY <2>1, ResultFollows DEF L!Next
<1> QED
  BY <1>1, <1>2, <1>3, <1>4, <1>5, <1>6, <1>7, QuietStep

\* Every row of a round continues its log: the session refuses none of them
\* (SessionProjection), whatever order the stops and the losses come in.
THEOREM RowsFollowGrammar == Spec => LogFollowsGrammar
BY RowFollows, RoundInvariant, PTL DEF Spec, LogFollowsGrammar

=============================================================================
