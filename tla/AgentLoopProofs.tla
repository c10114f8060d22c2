--------------------------- MODULE AgentLoopProofs ---------------------------
(***************************************************************************)
(* Proofs about AgentLoop, for every bound, budget and cost: each call has *)
(* its own result, the hooks see exactly what ran, and the turns, the      *)
(* retries and the budget bound what a session asks for.                   *)
(***************************************************************************)
EXTENDS AgentLoop, TLAPS

USE LoopConstantsOK DEF LoopConstantsOK

LEMMA CallsAreSequences == ASSUME NEW calls \in Calls PROVE calls \in Seq(Tools)
  BY SMT DEF Calls, Tools

(* The steps of the loop, as the cases of every induction below.           *)
LEMMA Steps ==
  ASSUME [LoopNext]_loopVars, NEW P,
         Connect => P, OutOfTurns => P, Retry => P, RequestFails => P,
         \A cost \in Costs : Final(cost) => P,
         \A cost \in Costs : Empty(cost) => P,
         \A cost \in Costs, calls \in Calls : AsksFor(calls, cost) => P,
         Refuse => P, HookAllows => P, RulesAllow => P, Dispatch => P, Report => P,
         StopOnBudget => P, NextTurn => P, Shutdown => P, Drop => P,
         UNCHANGED loopVars => P
  PROVE  P
  BY DEF LoopNext, Ask, Execute, Proceed

-----------------------------------------------------------------------------
(* Types, one group of variables at a time.                                *)

(* From a reply to the next request, a turn is still being counted.        *)
InTurn == {"hook", "rules", "dispatch", "waiting", "report", "check"}

ControlOK ==
  /\ family \in Families /\ budget \in Budgets /\ stage \in Stages
  /\ turn \in 0..MaxTurns /\ attempt \in 0..MaxRetries
  /\ outcome \in Outcomes
  /\ stage \in InTurn => turn < MaxTurns

LEMMA ControlInit == LoopInit => ControlOK
  BY DEF LoopInit, ControlOK, InTurn, Families, Stages, Outcomes

LEMMA ControlNext == ControlOK /\ [LoopNext]_loopVars => ControlOK'
<1> SUFFICES ASSUME ControlOK, [LoopNext]_loopVars PROVE ControlOK'
  OBVIOUS
<1> USE DEF ControlOK, InTurn, Stages, Outcomes, To, End
<1>1. Connect \/ OutOfTurns \/ Retry \/ RequestFails => ControlOK'
  BY DEF Connect, OutOfTurns, Retry, RequestFails
<1>2. \A cost \in Costs :
        /\ Final(cost) \/ Empty(cost) => ControlOK'
        /\ \A calls \in Calls : AsksFor(calls, cost) => ControlOK'
  BY DEF Final, Empty, AsksFor, Paid, TurnsLeft
<1>3. Refuse \/ HookAllows \/ RulesAllow \/ Dispatch \/ Report => ControlOK'
  BY DEF Refuse, HookAllows, RulesAllow, Dispatch, Report, Answer, Returns
<1>4. StopOnBudget \/ NextTurn \/ Shutdown \/ Drop => ControlOK'
  BY DEF StopOnBudget, NextTurn, Shutdown, Drop
<1>5. UNCHANGED loopVars => ControlOK'
  BY DEF loopVars
<1> QED
  BY <1>1, <1>2, <1>3, <1>4, <1>5, Steps

ServersOK == servers \in BOOLEAN

LEMMA ServersNext == ServersOK /\ [LoopNext]_loopVars => ServersOK'
<1> SUFFICES ASSUME ServersOK, [LoopNext]_loopVars PROVE ServersOK'
  OBVIOUS
<1> USE DEF ServersOK, loopVars
<1>1. \A cost \in Costs :
        /\ Final(cost) \/ Empty(cost) => ServersOK'
        /\ \A calls \in Calls : AsksFor(calls, cost) => ServersOK'
  BY Zenon DEF Final, Empty, AsksFor
<1>2. Connect \/ OutOfTurns \/ Retry \/ RequestFails => ServersOK'
  BY Zenon DEF Connect, OutOfTurns, Retry, RequestFails
<1>3. Refuse \/ HookAllows \/ RulesAllow \/ Dispatch \/ Report => ServersOK'
  BY Zenon DEF Refuse, HookAllows, RulesAllow, Dispatch, Report, Returns
<1>4. StopOnBudget \/ NextTurn \/ Shutdown \/ Drop \/ UNCHANGED loopVars => ServersOK'
  BY Zenon DEF StopOnBudget, NextTurn, Shutdown, Drop
<1> QED
  BY <1>1, <1>2, <1>3, <1>4, Steps

(* The transcript, what it cost, and the history.                          *)
DataOK ==
  /\ asked \in Seq(Tools) /\ results \in Seq(Result) /\ returned \in Result
  /\ fresh \in Nat /\ cached \in Nat
  /\ last \in [kind : Kinds, fresh : Nat, cached : Nat]

HistoryOK == posts \in Nat /\ allowed \subseteq Nat /\ ran \subseteq Nat /\ seen \subseteq Nat

LEMMA DataInit == LoopInit => ServersOK /\ DataOK /\ HistoryOK
<1> SUFFICES ASSUME LoopInit PROVE ServersOK /\ DataOK /\ HistoryOK
  OBVIOUS
<1> USE DEF LoopInit
<1>1. ServersOK
  BY DEF ServersOK
<1>2. returned \in Result /\ last \in [kind : Kinds, fresh : Nat, cached : Nat]
  BY DEF Refusal, Nothing, Result, NoReply, Kinds
<1>3. asked \in Seq(Tools) /\ results \in Seq(Result)
  OBVIOUS
<1> QED
  BY <1>1, <1>2, <1>3 DEF DataOK, HistoryOK

LEMMA DataNext == DataOK /\ [LoopNext]_loopVars => DataOK'
<1> SUFFICES ASSUME DataOK, [LoopNext]_loopVars PROVE DataOK'
  OBVIOUS
<1> USE DEF DataOK, loopVars, loopHistory
<1>1. Connect \/ OutOfTurns \/ Retry \/ RequestFails \/ HookAllows \/ RulesAllow => DataOK'
  BY DEF Connect, OutOfTurns, Retry, RequestFails, HookAllows, RulesAllow
<1>2. ASSUME NEW cost \in Costs, NEW kind \in Kinds, Paid(kind, cost)
      PROVE  /\ fresh' \in Nat /\ cached' \in Nat
             /\ last' \in [kind : Kinds, fresh : Nat, cached : Nat]
  <2>1. cost.fresh \in Nat /\ cost.cached \in Nat
    OBVIOUS
  <2>2. fresh' \in Nat /\ cached' \in Nat
    BY <1>2, <2>1 DEF Paid
  <2>3. last' \in [kind : Kinds, fresh : Nat, cached : Nat]
    BY <1>2, <2>1 DEF Paid
  <2> QED
    BY <2>2, <2>3
<1>3. ASSUME NEW cost \in Costs, Final(cost) \/ Empty(cost) PROVE DataOK'
  <2>1. PICK kind \in Kinds : Paid(kind, cost)
    BY <1>3 DEF Final, Empty, Kinds
  <2> QED
    BY <2>1, <1>2, <1>3 DEF Final, Empty
<1>8. ASSUME NEW cost \in Costs, NEW calls \in Calls, AsksFor(calls, cost) PROVE DataOK'
  <2>1. "calls" \in Kinds /\ Paid("calls", cost)
    BY <1>8 DEF AsksFor, Kinds
  <2>2. asked' \in Seq(Tools)
    BY <1>8, CallsAreSequences DEF AsksFor
  <2> QED
    BY <2>1, <2>2, <1>2, <1>8 DEF AsksFor
<1>4. Refuse => DataOK'
  BY DEF Refuse, Answer, Refusal, Result, Current, Nothing
<1>5. ASSUME Dispatch PROVE DataOK'
  <2>1. PICK r \in Outcome(Current) : Returns(r)
    BY <1>5 DEF Dispatch
  <2>2. r \in Result
    <3>1. Current \in Nat
      BY DEF Current
    <3>2. Refusal(Current) \in Result
      BY <3>1 DEF Refusal, Result, Nothing
    <3>3. Success(Current, Current) \in Result /\ Success(Current, Nothing) \in Result
      BY <3>1 DEF Success, Result, Nothing
    <3> QED
      BY <3>2, <3>3 DEF Outcome
  <2> QED
    BY <2>1, <2>2 DEF Returns
<1>6. Report => DataOK'
  BY DEF Report, Answer
<1>7. StopOnBudget \/ NextTurn \/ Shutdown \/ Drop \/ UNCHANGED loopVars => DataOK'
  BY DEF StopOnBudget, NextTurn, Shutdown, Drop
<1> QED
  BY <1>1, <1>3, <1>4, <1>5, <1>6, <1>7, <1>8, Steps

LEMMA HistoryNext == DataOK /\ HistoryOK /\ [LoopNext]_loopVars => HistoryOK'
<1> SUFFICES ASSUME DataOK, HistoryOK, [LoopNext]_loopVars PROVE HistoryOK'
  OBVIOUS
<1>1. posts' \in Nat
  <2> DEFINE P == posts' \in Nat
  <2> USE DEF HistoryOK, loopVars, loopHistory
  <2>1. Connect \/ OutOfTurns \/ Retry \/ RequestFails => P
    BY DEF Connect, OutOfTurns, Retry, RequestFails
  <2>2. \A cost \in Costs :
          /\ Final(cost) \/ Empty(cost) => P
          /\ \A calls \in Calls : AsksFor(calls, cost) => P
    BY DEF Final, Empty, AsksFor, Paid
  <2>3. Refuse \/ HookAllows \/ RulesAllow \/ Dispatch \/ Report => P
    BY DEF Refuse, HookAllows, RulesAllow, Dispatch, Returns, Report
  <2>4. StopOnBudget \/ NextTurn \/ Shutdown \/ Drop \/ UNCHANGED loopVars => P
    BY DEF StopOnBudget, NextTurn, Shutdown, Drop
  <2> HIDE DEF P
  <2>5. P
    BY <2>1, <2>2, <2>3, <2>4, Steps
  <2> QED
    BY <2>5 DEF P
<1>2. /\ allowed' \subseteq allowed \cup {Current}
      /\ ran' \subseteq ran \cup {Current}
      /\ seen' \subseteq seen \cup {Current}
  <2> DEFINE P == /\ allowed' \subseteq allowed \cup {Current}
                  /\ ran' \subseteq ran \cup {Current}
                  /\ seen' \subseteq seen \cup {Current}
  <2> USE DEF loopVars, loopHistory
  <2>1. Connect \/ OutOfTurns \/ Retry \/ RequestFails => P
    BY DEF Connect, OutOfTurns, Retry, RequestFails
  <2>2. \A cost \in Costs :
          /\ Final(cost) \/ Empty(cost) => P
          /\ \A calls \in Calls : AsksFor(calls, cost) => P
    BY DEF Final, Empty, AsksFor
  <2>3. Refuse \/ HookAllows \/ RulesAllow \/ Dispatch \/ Report => P
    BY DEF Refuse, HookAllows, RulesAllow, Dispatch, Returns, Report
  <2>4. StopOnBudget \/ NextTurn \/ Shutdown \/ Drop \/ UNCHANGED loopVars => P
    BY DEF StopOnBudget, NextTurn, Shutdown, Drop
  <2> HIDE DEF P
  <2>5. P
    BY <2>1, <2>2, <2>3, <2>4, Steps
  <2> QED
    BY <2>5 DEF P
<1>3. Current \in Nat
  BY DEF DataOK, Current
<1> QED
  BY <1>1, <1>2, <1>3 DEF HistoryOK

TypeInv == ControlOK /\ ServersOK /\ DataOK /\ HistoryOK

LEMMA TypeInvHolds == LoopSpec => []TypeInv
<1>1. LoopInit => TypeInv
  BY ControlInit, DataInit DEF TypeInv
<1>2. TypeInv /\ [LoopNext]_loopVars => TypeInv'
  BY ControlNext, ServersNext, DataNext, HistoryNext DEF TypeInv
<1> QED
  BY <1>1, <1>2, PTL DEF LoopSpec

(* The variables keep their types: no turn beyond max_turns and no attempt *)
(* beyond MAX_RETRIES.                                                     *)
THEOREM TypeCorrect == LoopSpec => []LoopTypeOK
<1>1. TypeInv => LoopTypeOK
  BY DEF TypeInv, ControlOK, ServersOK, DataOK, HistoryOK, LoopTypeOK
<1> QED
  BY <1>1, TypeInvHolds, PTL

-----------------------------------------------------------------------------
(* Calls and their results.                                                *)

(* A call is under way exactly when there is one without a result, and     *)
(* what it returned is its own.                                            *)
CallInv ==
  /\ stage = "connect" => Len(asked) = 0 /\ Len(results) = 0
  /\ stage \in {"request", "check"} => Len(results) = Len(asked)
  /\ stage \in {"hook", "rules", "dispatch", "report"} => Len(results) < Len(asked)
  /\ Len(results) <= Len(asked)
  /\ \A i \in DOMAIN results :
       results[i].call = i /\ (results[i].ok => results[i].from \in {i, Nothing} /\ i \in seen)
  /\ stage = "report" => /\ returned.call = Current
                         /\ returned.ok => returned.from \in {Current, Nothing}

HookInv ==
  /\ stage \in {"dispatch", "report"} => Current \in allowed
  /\ stage = "report" => Current \in ran
  /\ seen \subseteq ran /\ ran \subseteq allowed
  /\ ran \subseteq seen \cup (IF stage \in {"report", "dropped"} THEN {Current} ELSE {})

LEMMA CallInit == LoopInit => CallInv /\ HookInv
  BY DEF LoopInit, CallInv, HookInv

LEMMA CallNext == DataOK /\ CallInv /\ [LoopNext]_loopVars => CallInv'
<1> SUFFICES ASSUME DataOK, CallInv, [LoopNext]_loopVars PROVE CallInv'
  OBVIOUS
<1> USE DEF CallInv, DataOK, Current, To, End
<1>1. Connect \/ OutOfTurns \/ RequestFails => CallInv'
  BY DEF Connect, OutOfTurns, RequestFails, loopHistory
<1>2. Retry \/ HookAllows \/ RulesAllow => CallInv'
  BY DEF Retry, HookAllows, RulesAllow, loopHistory
<1>3. \A cost \in Costs : Final(cost) \/ Empty(cost) => CallInv'
  BY DEF Final, Empty
<1>4. ASSUME NEW cost \in Costs, NEW calls \in Calls, AsksFor(calls, cost) PROVE CallInv'
  <2>1. Len(asked') = Len(asked) + Len(calls) /\ Len(calls) \in Nat
    BY <1>4, CallsAreSequences DEF AsksFor
  <2>2. calls # << >> => Len(calls) > 0
    BY CallsAreSequences
  <2> QED
    BY <1>4, <2>1, <2>2 DEF AsksFor
<1>5. ASSUME NEW r \in Result, Answer(r), stage \in {"hook", "rules", "report"},
             r.call = Current, r.ok => r.from \in {Current, Nothing} /\ Current \in seen',
             seen \subseteq seen', asked' = asked
      PROVE  CallInv'
  <2>1. /\ Len(results') = Len(results) + 1
        /\ \A i \in DOMAIN results' : results'[i] = IF i = Current THEN r ELSE results[i]
        /\ DOMAIN results' = 1..Current /\ DOMAIN results = 1..(Current - 1)
    BY <1>5 DEF Answer
  <2>2. stage' \in {"check", "hook"} /\ (stage' = "check" <=> Current = Len(asked))
    BY <1>5 DEF Answer
  <2>3. \A i \in DOMAIN results' :
          results'[i].call = i /\ (results'[i].ok => results'[i].from \in {i, Nothing} /\ i \in seen')
    BY <1>5, <2>1
  <2> QED
    BY <1>5, <2>1, <2>2, <2>3
<1>6. Refuse => CallInv'
  <2>1. Refusal(Current) \in Result /\ Refusal(Current).call = Current /\ ~ Refusal(Current).ok
    BY DEF Refusal, Result, Nothing
  <2> QED
    BY <1>5, <2>1 DEF Refuse, loopHistory
<1>7. Report => CallInv'
  BY <1>5 DEF Report
<1>8. ASSUME Dispatch PROVE CallInv'
  <2>1. PICK r \in Outcome(Current) : Returns(r)
    BY <1>8 DEF Dispatch
  <2>2. r.call = Current /\ (r.ok => r.from \in {Current, Nothing})
    BY DEF Outcome, Refusal, Success
  <2> QED
    BY <1>8, <2>1, <2>2 DEF Dispatch, Returns
<1>9. StopOnBudget \/ NextTurn \/ Shutdown \/ Drop \/ UNCHANGED loopVars => CallInv'
  BY DEF StopOnBudget, NextTurn, Shutdown, Drop, loopVars, loopHistory
<1> QED
  BY <1>1, <1>2, <1>3, <1>4, <1>6, <1>7, <1>8, <1>9, Steps

LEMMA HookNext == DataOK /\ HookInv /\ [LoopNext]_loopVars => HookInv'
<1> SUFFICES ASSUME DataOK, HookInv, [LoopNext]_loopVars PROVE HookInv'
  OBVIOUS
<1> USE DEF HookInv, To, End
<1>1. Connect \/ OutOfTurns \/ RequestFails \/ Retry => HookInv'
  BY DEF Connect, OutOfTurns, RequestFails, Retry, loopHistory
<1>2. \A cost \in Costs :
        /\ Final(cost) \/ Empty(cost) => HookInv'
        /\ \A calls \in Calls : AsksFor(calls, cost) => HookInv'
  BY DEF Final, Empty, AsksFor
<1>3. Refuse => HookInv'
  BY DEF Refuse, Answer, loopHistory
<1>4. HookAllows \/ RulesAllow => HookInv'
  BY DEF HookAllows, RulesAllow, loopHistory, Current
<1>5. Dispatch => HookInv'
  BY DEF Dispatch, Returns, Current
<1>6. Report => HookInv'
  BY DEF Report, Answer
<1>7. StopOnBudget \/ NextTurn \/ Shutdown \/ UNCHANGED loopVars => HookInv'
  BY DEF StopOnBudget, NextTurn, Shutdown, loopVars, loopHistory, Current
<1>8. Drop => HookInv'
  BY DEF Drop, loopHistory, Current
<1> QED
  BY <1>1, <1>2, <1>3, <1>4, <1>5, <1>6, <1>7, <1>8, Steps

LEMMA CallInvHolds == LoopSpec => [](CallInv /\ HookInv)
<1>1. TypeInv => DataOK
  BY DEF TypeInv
<1> QED
  BY <1>1, CallInit, CallNext, HookNext, TypeInvHolds, PTL DEF LoopSpec

(* Each call has exactly one result, its own, before the model is asked    *)
(* again.                                                                  *)
THEOREM EachCallItsResult == LoopSpec => []ResultsAnswerCalls
<1>1. CallInv => ResultsAnswerCalls
  BY DEF CallInv, ResultsAnswerCalls
<1> QED
  BY <1>1, CallInvHolds, PTL

(* The post-tool hook hears of what ran and of nothing else, and nothing   *)
(* runs that the hook or the rules refused.                                *)
THEOREM HooksSeeWhatRan == LoopSpec => []HooksBracketRuns
<1>1. CallInv /\ HookInv => HooksBracketRuns
  BY DEF CallInv, HookInv, HooksBracketRuns
<1> QED
  BY <1>1, CallInvHolds, PTL

-----------------------------------------------------------------------------
(* Bounds: requests, tokens and turns.                                     *)

PerTurn == MaxRetries + 1

(* A turn that has started may have spent its retries; one that has its    *)
(* reply has spent no more than its share.                                 *)
PostInv ==
  /\ stage = "connect" => turn = 0 /\ attempt = 0 /\ posts = 0
  /\ stage = "request" => posts <= turn * PerTurn + attempt
  /\ stage \in InTurn => posts <= (turn + 1) * PerTurn /\ attempt = 0
  /\ posts <= MaxTurns * PerTurn

LEMMA TurnsAddUp ==
  /\ PerTurn \in Nat /\ PerTurn > 0
  /\ \A n \in Nat : n * PerTurn \in Nat /\ (n + 1) * PerTurn = n * PerTurn + PerTurn
  /\ \A n \in Nat : n < MaxTurns => (n + 1) * PerTurn <= MaxTurns * PerTurn
  /\ \A n \in Nat : n <= MaxTurns => n * PerTurn <= MaxTurns * PerTurn
<1> DEFINE W == PerTurn
<1>1. W \in Nat /\ W > 0
  BY DEF PerTurn
<1> HIDE DEF W
<1>2. \A n \in Nat : n * W \in Nat /\ (n + 1) * W = n * W + W
  BY <1>1
<1>3. ASSUME NEW n \in Nat, n <= MaxTurns PROVE n * W <= MaxTurns * W
  BY <1>1, <1>3
<1>4. \A n \in Nat : n < MaxTurns => (n + 1) * W <= MaxTurns * W
  BY <1>1, <1>3
<1> QED
  BY <1>1, <1>2, <1>3, <1>4 DEF W

LEMMA PostInit == LoopInit => PostInv
  BY TurnsAddUp DEF LoopInit, PostInv, InTurn

LEMMA PostNext == ControlOK /\ HistoryOK /\ PostInv /\ [LoopNext]_loopVars => PostInv'
<1> SUFFICES ASSUME ControlOK, HistoryOK, PostInv, [LoopNext]_loopVars PROVE PostInv'
  OBVIOUS
<1>1. /\ turn \in Nat /\ attempt \in Nat /\ posts \in Nat /\ attempt <= MaxRetries
      /\ turn <= MaxTurns /\ (stage \in InTurn => turn < MaxTurns)
  BY DEF ControlOK, HistoryOK
<1>2. /\ turn * PerTurn \in Nat /\ (turn + 1) * PerTurn = turn * PerTurn + PerTurn
      /\ turn < MaxTurns => turn * PerTurn + PerTurn <= MaxTurns * PerTurn
      /\ MaxTurns * PerTurn \in Nat /\ PerTurn = MaxRetries + 1
  BY <1>1, TurnsAddUp DEF PerTurn
<1> DEFINE Spent == turn * PerTurn
           Limit == MaxTurns * PerTurn
<1>3. ASSUME stage = "request" PROVE posts <= Spent + attempt
  BY <1>3 DEF PostInv
<1>4. posts <= Limit
  BY DEF PostInv
<1>5. stage = "request" /\ TurnsLeft => posts + 1 <= Spent + PerTurn /\ posts + 1 <= Limit
  BY <1>1, <1>2, <1>3 DEF TurnsLeft
<1> USE DEF To, End, InTurn
<1>6. Connect => PostInv'
  BY <1>1, <1>2, <1>4 DEF Connect, PostInv, loopHistory
<1>7. OutOfTurns \/ RequestFails => PostInv'
  BY <1>1, <1>4, <1>5 DEF OutOfTurns, RequestFails, PostInv, loopHistory
<1>8. Retry => PostInv'
  BY <1>1, <1>2, <1>3, <1>5 DEF Retry, PostInv
<1>9. \A cost \in Costs :
        /\ Final(cost) \/ Empty(cost) => PostInv'
        /\ \A calls \in Calls : AsksFor(calls, cost) => PostInv'
  BY <1>1, <1>2, <1>5 DEF Final, Empty, AsksFor, Paid, PostInv
<1>10. Refuse \/ HookAllows \/ RulesAllow \/ Dispatch \/ Report => PostInv'
  BY DEF Refuse, HookAllows, RulesAllow, Dispatch, Report, Returns, Answer, PostInv, loopHistory
<1>11. NextTurn => PostInv'
  BY <1>1, <1>2 DEF NextTurn, PostInv, loopHistory
<1>12. StopOnBudget \/ Shutdown \/ Drop \/ UNCHANGED loopVars => PostInv'
  BY DEF StopOnBudget, Shutdown, Drop, PostInv, loopVars, loopHistory
<1> QED
  BY <1>6, <1>7, <1>8, <1>9, <1>10, <1>11, <1>12, Steps

(* A session sends at most max_turns times the attempts of one request.    *)
THEOREM RequestsAreBounded == LoopSpec => []PostsBounded
<1>1. TypeInv => ControlOK /\ HistoryOK
  BY DEF TypeInv
<1>2. PostInv => PostsBounded
  BY DEF PostInv, PostsBounded, PerTurn
<1> QED
  BY <1>1, <1>2, PostInit, PostNext, TypeInvHolds, PTL DEF LoopSpec

(* The tokens billed are below the budget whenever the model is asked once *)
(* more: no loop counts fewer.                                             *)
BudgetInv ==
  /\ OvershootsByOneReply
  /\ stage = "connect" => turn = 0
  /\ stage = "request" /\ turn > 0 /\ budget # NoBudget => fresh < budget

LEMMA BudgetInit == LoopInit => BudgetInv
  BY DEF LoopInit, BudgetInv, OvershootsByOneReply

LEMMA BudgetNext ==
  ControlOK /\ DataOK /\ BudgetInv /\ [LoopNext]_loopVars => BudgetInv'
<1> SUFFICES ASSUME ControlOK, DataOK, BudgetInv, [LoopNext]_loopVars PROVE BudgetInv'
  OBVIOUS
<1> USE DEF To, End
<1>1. ASSUME budget' = budget, turn' = turn, fresh' = fresh, last' = last,
             stage' = "request" => stage \in {"connect", "request"},
             stage' = "connect" => stage = "connect"
      PROVE  BudgetInv'
  BY <1>1 DEF BudgetInv, OvershootsByOneReply
<1>2. ASSUME NEW kind, NEW cost \in Costs, Paid(kind, cost), stage = "request",
             stage' \notin {"connect", "request"}, budget' = budget, turn' = turn
      PROVE  BudgetInv'
  <2>1. cost.fresh \in Nat /\ fresh \in Nat
    BY DEF DataOK
  <2>2. fresh' - last'.fresh = fresh
    BY <1>2, <2>1 DEF Paid
  <2> QED
    BY <1>2, <2>2 DEF BudgetInv, OvershootsByOneReply
<1>3. ASSUME NextTurn PROVE BudgetInv'
  <2>1. fresh' = fresh /\ last' = last /\ budget' = budget
    BY <1>3 DEF NextTurn, loopHistory
  <2>2. /\ fresh \in Nat /\ cached \in Nat /\ last.fresh \in Nat
        /\ budget # NoBudget => budget \in Nat
    BY DEF DataOK, ControlOK
  <2>3. Counted \in Nat /\ fresh <= Counted
    BY <2>2 DEF Counted
  <2>4. budget # NoBudget => fresh < budget
    BY <1>3, <2>2, <2>3 DEF NextTurn, Exhausted
  <2>5. budget # NoBudget => fresh - last.fresh < budget
    BY <2>2, <2>4
  <2> QED
    BY <1>3, <2>1, <2>4, <2>5 DEF NextTurn, BudgetInv, OvershootsByOneReply
<1>4. Connect => BudgetInv'
  BY <1>1 DEF Connect, loopHistory, BudgetInv
<1>5. OutOfTurns \/ Retry \/ RequestFails => BudgetInv'
  BY <1>1 DEF OutOfTurns, Retry, RequestFails, loopHistory
<1>6. \A cost \in Costs :
        /\ Final(cost) \/ Empty(cost) => BudgetInv'
        /\ \A calls \in Calls : AsksFor(calls, cost) => BudgetInv'
  BY <1>2 DEF Final, Empty, AsksFor
<1>7. Refuse \/ HookAllows \/ RulesAllow \/ Dispatch \/ Report => BudgetInv'
  BY <1>1 DEF Refuse, HookAllows, RulesAllow, Dispatch, Report, Returns, Answer, loopHistory
<1>8. StopOnBudget \/ Shutdown \/ Drop => BudgetInv'
  BY <1>1 DEF StopOnBudget, Shutdown, Drop, loopHistory
<1>9. UNCHANGED loopVars => BudgetInv'
  BY <1>1 DEF loopVars, loopHistory
<1> QED
  BY <1>3, <1>4, <1>5, <1>6, <1>7, <1>8, <1>9, Steps

(* The budget is overshot by one reply at most, in billed tokens.          *)
THEOREM BudgetIsKept == LoopSpec => []OvershootsByOneReply
<1>1. TypeInv => ControlOK /\ DataOK
  BY DEF TypeInv
<1>2. BudgetInv => OvershootsByOneReply
  BY DEF BudgetInv
<1> QED
  BY <1>1, <1>2, BudgetInit, BudgetNext, TypeInvHolds, PTL DEF LoopSpec

(* As long as the loop runs there is no outcome and no reply that ends it. *)
OutcomeInv ==
  /\ outcome = "none" => last.kind \in {"none", "calls"}
  /\ stage \notin {"ending", "done", "dropped"} => outcome = "none"
  /\ OutcomeIsRight

LEMMA OutcomeInit == LoopInit => OutcomeInv
  BY DEF LoopInit, OutcomeInv, OutcomeIsRight, NoReply

LEMMA OutcomeNext ==
  ControlOK /\ CallInv /\ OutcomeInv /\ [LoopNext]_loopVars => OutcomeInv'
<1> SUFFICES ASSUME ControlOK, CallInv, OutcomeInv, [LoopNext]_loopVars PROVE OutcomeInv'
  OBVIOUS
<1> USE DEF To, End
<1>1. ASSUME outcome = "none", outcome' = "none", last'.kind \in {"none", "calls"}
      PROVE  OutcomeInv'
  BY <1>1 DEF OutcomeInv, OutcomeIsRight
<1>2. stage \notin {"ending", "done", "dropped"} =>
        outcome = "none" /\ last.kind \in {"none", "calls"}
  BY DEF OutcomeInv
<1>3. Connect \/ Retry \/ HookAllows \/ RulesAllow \/ Refuse \/ Dispatch \/ Report \/ NextTurn
        => OutcomeInv'
  BY <1>1, <1>2 DEF Connect, Retry, HookAllows, RulesAllow, Refuse, Answer, Dispatch, Returns,
     Report, NextTurn, loopHistory
<1>4. \A cost \in Costs, calls \in Calls : AsksFor(calls, cost) => OutcomeInv'
  BY <1>1, <1>2 DEF AsksFor, Paid
<1>5. \A cost \in Costs : Final(cost) \/ Empty(cost) => OutcomeInv'
  BY DEF Final, Empty, Paid, OutcomeInv, OutcomeIsRight
<1>6. OutOfTurns \/ RequestFails => OutcomeInv'
  <2>1. ~ TurnsLeft => turn = MaxTurns
    BY DEF ControlOK, TurnsLeft
  <2> QED
    BY <1>2, <2>1 DEF OutOfTurns, RequestFails, OutcomeInv, OutcomeIsRight, loopHistory
<1>7. StopOnBudget => OutcomeInv'
  <2> SUFFICES ASSUME StopOnBudget PROVE OutcomeInv'
    OBVIOUS
  <2>1. Exhausted' /\ Len(results') = Len(asked')
    BY DEF StopOnBudget, CallInv, Exhausted, Counted
  <2> QED
    BY <1>2, <2>1 DEF StopOnBudget, OutcomeInv, OutcomeIsRight, loopHistory
<1>8. Shutdown \/ Drop \/ UNCHANGED loopVars => OutcomeInv'
  BY DEF Shutdown, Drop, loopVars, loopHistory, OutcomeInv, OutcomeIsRight, Exhausted, Counted
<1> QED
  BY <1>3, <1>4, <1>5, <1>6, <1>7, <1>8, Steps

(* The stop reason is the one that applies.                                *)
THEOREM OutcomesAreRight == LoopSpec => []OutcomeIsRight
<1>1. TypeInv => ControlOK
  BY DEF TypeInv
<1>2. OutcomeInv => OutcomeIsRight
  BY DEF OutcomeInv
<1> QED
  BY <1>1, <1>2, OutcomeInit, OutcomeNext, TypeInvHolds, CallInvHolds, PTL DEF LoopSpec
=============================================================================
