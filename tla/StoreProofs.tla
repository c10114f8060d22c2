---------------------------- MODULE StoreProofs ----------------------------
(***************************************************************************)
(* Proofs about the two models of the memory store that stand alone:       *)
(* TaskQueue, for every set of tasks and pollers and every value of the    *)
(* times and bounds, and StoreOpen, for every set of processes and every   *)
(* number of deaths.  Nothing is assumed of the time a run takes, nor of   *)
(* when processes open the store: what a late or racing process spoils is  *)
(* in the statements.                                                      *)
(***************************************************************************)
EXTENDS TaskQueue, StoreOpen, FiniteSetTheorems, WellFoundedInduction, TLAPS

(* The pollers that have t and have not recorded a completed run of it.    *)
Open(t) == {p \in Pollers : hold[p][t].stage \in {"running", "failed", "failing"}}

(* A task with two holders was taken from one of them, and neither of them *)
(* relies on the row any more.                                             *)
Marked ==
  \A p \in Pollers, t \in Tasks : ~ hold[p][t].alone => overruns[t] > 0 /\ Holds(p, t)

Together ==
  \A p, q \in Pollers, t \in Tasks : Holds(p, t) /\ Holds(q, t) /\ p # q => ~ hold[p][t].alone

(* fail_task has not read more failures than there were.                   *)
SeenHappened ==
  \A p \in Pollers, t \in Tasks : hold[p][t].stage = "failing" => hold[p][t].seen <= failures[t]

(* The completed runs of a task, counting those that may still come from   *)
(* its holders: every hand-out but the first is paid for by a death or by  *)
(* an overtaking, and a task that nobody has may be handed out once more   *)
(* unless it is delivered.                                                 *)
Covered(f, n, l, v) == f + n <= 1 + l + v
Spare(f, n, l, v)   == f + n <= l + v

FireLedger ==
  \A t \in Tasks :
    /\ Covered(fired[t], Cardinality(Open(t)), lost[t], overruns[t])
    /\ \/ Spare(fired[t], Cardinality(Open(t)), lost[t], overruns[t])
       \/ status[t] = "delivered"
       \/ Holders(t) # {}
    /\ Cardinality(Holders(t)) <= 1 + overruns[t]

(* The inductive invariant.                                                *)
IInv ==
  /\ TypeOK
  /\ Marked
  /\ Together
  /\ SeenHappened
  /\ HolderOwnsRow
  /\ RetryBudget
  /\ FailuresCounted
  /\ FireLedger

-----------------------------------------------------------------------------
(* Type correctness.                                                       *)

LEMMA InitTypeOK == Init => TypeOK
  BY ConstantsOK DEF Init, TypeOK, Hold, NoHold, NoClaim, Statuses, Repeats, Stages, Terminal

LEMMA OlderInRange ==
  ASSUME NEW a \in 0..StaleAfter \cup {NoClaim}
  PROVE  Older(a) \in 0..StaleAfter \cup {NoClaim}
  BY ConstantsOK DEF Older, NoClaim

LEMMA HoldsInRange ==
  /\ NoHold \in Hold
  /\ TypeOK => \A t \in Tasks : Handed(t) \in Hold
  BY ConstantsOK DEF Hold, NoHold, Handed, TypeOK, Stages, Repeats

LEMMA HoldFields ==
  ASSUME NEW h \in Hold, NEW s \in Stages, NEW n \in Nat
  PROVE  /\ [h EXCEPT !.stage = s] \in Hold
         /\ [h EXCEPT !.seen = n, !.stage = s] \in Hold
  BY DEF Hold

LEMMA HoldShared ==
  ASSUME NEW h \in Hold
  PROVE  [h EXCEPT !.alone = FALSE] \in Hold
  BY DEF Hold

LEMMA HoldAges ==
  ASSUME NEW h \in Hold
  PROVE  [h EXCEPT !.age = Older(@)] \in Hold
  BY ConstantsOK DEF Hold, Older, NoClaim

(* What a poller records in its own hold keeps the table of holds typed.   *)
LEMMA HoldUpdate ==
  ASSUME TypeOK, NEW p \in Pollers, NEW t \in Tasks, NEW h \in Hold,
         hold' = [hold EXCEPT ![p][t] = h]
  PROVE  hold' \in [Pollers -> [Tasks -> Hold]]
  BY DEF TypeOK

LEMMA NextTypeOK == TypeOK /\ [Next]_vars => TypeOK'
<1> SUFFICES ASSUME TypeOK, [Next]_vars PROVE TypeOK'
  OBVIOUS
<1> USE ConstantsOK
<1>1. ASSUME NEW t \in Tasks, NEW d \in DueChoices, NEW r \in Repeats, Insert(t, d, r)
      PROVE  TypeOK'
  BY <1>1 DEF TypeOK, Insert, Statuses, Terminal, historyVars
<1>2. ASSUME NEW S \in SUBSET Tasks, Cancel(S)
      PROVE  TypeOK'
  BY <1>2 DEF TypeOK, Cancel, Statuses, Terminal, historyVars
<1>3. ASSUME NEW S \in SUBSET Tasks, NEW d \in DueChoices, NEW r \in Repeats,
             NEW given \in SUBSET {"due", "repeat"}, Update(S, d, r, given)
      PROVE  TypeOK'
  BY <1>3 DEF TypeOK, Update, historyVars
<1>4. ASSUME NEW t \in Tasks, NEW d \in DueChoices, Defer(t, d)
      PROVE  TypeOK'
  BY <1>4 DEF TypeOK, Defer, historyVars
<1>5. ASSUME NEW p \in Pollers, Claim(p)
      PROVE  TypeOK'
  <2>1. claimAge' \in [Tasks -> 0..StaleAfter \cup {NoClaim}]
    BY <1>5 DEF TypeOK, Claim
  <2>2. hold' \in [Pollers -> [Tasks -> Hold]]
    <3>1. \A q \in Pollers, t \in Tasks : [hold[q][t] EXCEPT !.alone = FALSE] \in Hold
      BY HoldShared DEF TypeOK
    <3>2. \A q \in Pollers, t \in Tasks :
            hold'[q][t] = IF t \notin Claimable THEN hold[q][t]
                          ELSE IF q = p THEN Handed(t)
                          ELSE IF Holds(q, t) THEN [hold[q][t] EXCEPT !.alone = FALSE] ELSE hold[q][t]
      BY <1>5 DEF Claim
    <3>3. \A q \in Pollers, t \in Tasks : hold'[q][t] \in Hold
      <4> SUFFICES ASSUME NEW q \in Pollers, NEW t \in Tasks PROVE hold'[q][t] \in Hold
        OBVIOUS
      <4>1. /\ hold[q][t] \in Hold
            /\ [hold[q][t] EXCEPT !.alone = FALSE] \in Hold
        BY <3>1 DEF TypeOK
      <4>2. Handed(t) \in Hold
        BY HoldsInRange
      <4>3. QED
        BY <3>2, <4>1, <4>2
    <3>4. /\ hold' = [q \in Pollers |-> hold'[q]]
          /\ \A q \in Pollers : hold'[q] = [t \in Tasks |-> hold'[q][t]]
      BY <1>5 DEF Claim
    <3>5. QED
      BY <3>3, <3>4
  <2>3. overruns' \in [Tasks -> Nat] /\ mishaps' \in 0..MaxMishaps
    BY <1>5 DEF TypeOK, Claim
  <2>4. QED
    BY <1>5, <2>1, <2>2, <2>3 DEF TypeOK, Claim, Statuses
<1>6. ASSUME NEW p \in Pollers, NEW t \in Tasks, RunEnds(p, t)
      PROVE  TypeOK'
  <2>1. PICK outcome \in {"completed", "failed"} : RecordRun(p, t, outcome)
    BY <1>6 DEF RunEnds
  <2>2. hold' \in [Pollers -> [Tasks -> Hold]]
    <3>1. hold[p][t] \in Hold /\ outcome \in Stages
      BY DEF TypeOK, Stages
    <3>2. [hold[p][t] EXCEPT !.stage = outcome] \in Hold
      BY <3>1, HoldFields
    <3>3. QED
      BY <2>1, <3>2, HoldUpdate DEF TypeOK, RecordRun
  <2>3. fired' \in [Tasks -> Nat]
    BY <2>1 DEF TypeOK, RecordRun
  <2>4. QED
    BY <2>1, <2>2, <2>3 DEF TypeOK, RecordRun, rowVars
<1>7. ASSUME NEW p \in Pollers, NEW t \in Tasks, CompleteOnce(p, t)
      PROVE  TypeOK'
  <2>1. hold' \in [Pollers -> [Tasks -> Hold]]
    BY <1>7, HoldsInRange, HoldUpdate DEF CompleteOnce
  <2>2. QED
    BY <1>7, <2>1 DEF TypeOK, CompleteOnce, Statuses, Terminal, historyVars
<1>8. ASSUME NEW p \in Pollers, NEW t \in Tasks, CompleteRecurring(p, t)
      PROVE  TypeOK'
  <2>1. hold' \in [Pollers -> [Tasks -> Hold]]
    BY <1>8, HoldsInRange, HoldUpdate DEF CompleteRecurring
  <2>2. QED
    BY <1>8, <2>1 DEF TypeOK, CompleteRecurring, Statuses
<1>9. ASSUME NEW p \in Pollers, NEW t \in Tasks, FailRead(p, t)
      PROVE  TypeOK'
  <2>1. hold' \in [Pollers -> [Tasks -> Hold]]
    <3>1. hold[p][t] \in Hold /\ retries[t] \in Nat /\ "failing" \in Stages
      BY DEF TypeOK, Stages
    <3>2. [hold[p][t] EXCEPT !.seen = retries[t], !.stage = "failing"] \in Hold
      BY <3>1, HoldFields
    <3>3. QED
      BY <1>9, <3>2, HoldUpdate DEF TypeOK, FailRead
  <2>2. QED
    BY <1>9, <2>1 DEF TypeOK, FailRead, rowVars, historyVars
<1>10. ASSUME NEW p \in Pollers, NEW t \in Tasks, FailRetry(p, t)
      PROVE  TypeOK'
  <2>1. hold' \in [Pollers -> [Tasks -> Hold]]
    BY <1>10, HoldsInRange, HoldUpdate DEF FailRetry
  <2>2. hold[p][t].seen + 1 \in Nat
    BY DEF TypeOK, Hold
  <2>3. QED
    BY <1>10, <2>1, <2>2 DEF TypeOK, FailRetry, Statuses
<1>11. ASSUME NEW p \in Pollers, NEW t \in Tasks, FailFinally(p, t)
      PROVE  TypeOK'
  <2>1. hold' \in [Pollers -> [Tasks -> Hold]]
    BY <1>11, HoldsInRange, HoldUpdate DEF FailFinally
  <2>2. hold[p][t].seen + 1 \in Nat
    BY DEF TypeOK, Hold
  <2>3. QED
    BY <1>11, <2>1, <2>2 DEF TypeOK, FailFinally, Statuses, Terminal
<1>12. ASSUME NEW p \in Pollers, Crash(p)
      PROVE  TypeOK'
  <2>1. hold' \in [Pollers -> [Tasks -> Hold]]
    BY <1>12, HoldsInRange DEF TypeOK, Crash
  <2>2. QED
    BY <1>12, <2>1 DEF TypeOK, Crash, rowVars
<1>13. ASSUME Tick
      PROVE  TypeOK'
  <2>1. claimAge' \in [Tasks -> 0..StaleAfter \cup {NoClaim}]
    BY <1>13, OlderInRange DEF TypeOK, Tick
  <2>2. hold' \in [Pollers -> [Tasks -> Hold]]
    <3>1. \A p \in Pollers, t \in Tasks : [hold[p][t] EXCEPT !.age = Older(@)] \in Hold
      BY HoldAges DEF TypeOK
    <3>2. QED
      BY <1>13, <3>1 DEF TypeOK, Tick
  <2>3. due' \in [Tasks -> Int]
    BY <1>13 DEF TypeOK, Tick
  <2>4. QED
    BY <1>13, <2>1, <2>2, <2>3 DEF TypeOK, Tick, historyVars
<1>14. CASE UNCHANGED vars
  BY <1>14 DEF TypeOK, vars, rowVars, historyVars
<1>15. QED
  BY <1>1, <1>2, <1>3, <1>4, <1>5, <1>6, <1>7, <1>8, <1>9, <1>10, <1>11, <1>12, <1>13, <1>14
     DEF Next, CallerStep, PollerStep

(* Type correctness of the table and its pollers.                          *)
THEOREM TypeCorrect == Spec => []TypeOK
<1>1. Init => TypeOK
  BY InitTypeOK
<1>2. TypeOK /\ [Next]_vars => TypeOK'
  BY NextTypeOK
<1>3. QED
  BY <1>1, <1>2, PTL DEF Spec
-----------------------------------------------------------------------------
(* How the sets of holders change, and what that does to their sizes.      *)

LEMMA HoldersFinite ==
  ASSUME NEW t \in Tasks
  PROVE  /\ IsFiniteSet(Holders(t)) /\ Cardinality(Holders(t)) \in Nat
         /\ IsFiniteSet(Open(t)) /\ Cardinality(Open(t)) \in Nat
<1>1. Holders(t) \in SUBSET Pollers /\ Open(t) \in SUBSET Pollers
  BY DEF Holders, Open
<1>2. IsFiniteSet(Pollers)
  BY ConstantsOK
<1>3. IsFiniteSet(Holders(t)) /\ IsFiniteSet(Open(t))
  BY <1>1, <1>2, FS_Subset
<1>4. QED
  BY <1>3, FS_CardinalityType

LEMMA OpenAreHolders ==
  ASSUME NEW t \in Tasks
  PROVE  /\ Cardinality(Open(t)) <= Cardinality(Holders(t))
         /\ Cardinality(Open(t))' <= Cardinality(Holders(t))'
         /\ Holders(t)' = {} => Cardinality(Open(t))' = 0
<1>1. Open(t) \in SUBSET Holders(t) /\ Open(t)' \in SUBSET Holders(t)'
  BY DEF Holders, Open, Holds
<1>2. IsFiniteSet(Holders(t)) /\ IsFiniteSet(Holders(t)')
  <2>1. Holders(t)' \in SUBSET Pollers
    BY DEF Holders
  <2>2. QED
    BY <2>1, HoldersFinite, FS_Subset, ConstantsOK
<1>3. Cardinality(Open(t)) <= Cardinality(Holders(t))
  BY <1>1, <1>2, FS_Subset
<1>4. Cardinality(Open(t)') <= Cardinality(Holders(t)')
  BY <1>1, <1>2, FS_Subset
<1>5. Holders(t)' = {} => Open(t)' = {}
  BY <1>1
<1>6. QED
  BY <1>3, <1>4, <1>5, FS_EmptySet

(* p lets go of t, or p's run of t ends.                                   *)
LEMMA OneFewer ==
  ASSUME NEW S, IsFiniteSet(S), NEW p
  PROVE  /\ p \in S => Cardinality(S \ {p}) + 1 = Cardinality(S)
         /\ p \notin S => S \ {p} = S
         /\ Cardinality(S) \in Nat /\ Cardinality(S \ {p}) \in Nat
<1>1. Cardinality(S \ {p}) = IF p \in S THEN Cardinality(S) - 1 ELSE Cardinality(S)
  BY FS_RemoveElement
<1>2. IsFiniteSet(S \ {p})
  BY FS_RemoveElement
<1>3. Cardinality(S) \in Nat /\ Cardinality(S \ {p}) \in Nat
  BY <1>2, FS_CardinalityType
<1>4. QED
  BY <1>1, <1>3

(* What stays of the hold of everybody but p and of every task but t.      *)
OnlyHere(p, t) ==
  \A q \in Pollers, u \in Tasks : q # p \/ u # t => hold'[q][u] = hold[q][u]

LEMMA LettingGo ==
  ASSUME TypeOK, NEW p \in Pollers, NEW t \in Tasks, hold' = [hold EXCEPT ![p][t] = NoHold]
  PROVE  /\ OnlyHere(p, t)
         /\ hold'[p][t] = NoHold
         /\ \A q \in Pollers, u \in Tasks : Holds(q, u)' <=> Holds(q, u) /\ ~ (q = p /\ u = t)
         /\ Holders(t)' = Holders(t) \ {p}
         /\ Open(t)' = Open(t) \ {p}
         /\ \A u \in Tasks : u # t => Holders(u)' = Holders(u) /\ Open(u)' = Open(u)
<1>1. OnlyHere(p, t) /\ hold'[p][t] = NoHold
  BY DEF TypeOK, OnlyHere
<1>2. \A q \in Pollers, u \in Tasks : Holds(q, u)' <=> Holds(q, u) /\ ~ (q = p /\ u = t)
  BY <1>1 DEF OnlyHere, Holds, NoHold
<1>3. Holders(t)' = Holders(t) \ {p}
  BY <1>2 DEF Holders
<1>4. Open(t)' = Open(t) \ {p}
  BY <1>1 DEF Open, OnlyHere, NoHold
<1>5. \A u \in Tasks : u # t => Holders(u)' = Holders(u) /\ Open(u)' = Open(u)
  BY <1>1, <1>2 DEF Holders, Open, OnlyHere
<1>6. QED
  BY <1>1, <1>2, <1>3, <1>4, <1>5

(* The part of the invariant that only the holds and the counts of         *)
(* overtakings decide, when p lets go of t.                                *)
LEMMA LettingGoMarks ==
  ASSUME IInv, NEW p \in Pollers, NEW t \in Tasks, hold' = [hold EXCEPT ![p][t] = NoHold],
         UNCHANGED overruns
  PROVE  Marked' /\ Together'
<1>1. /\ OnlyHere(p, t)
      /\ hold'[p][t] = NoHold
      /\ \A q \in Pollers, u \in Tasks : Holds(q, u)' <=> Holds(q, u) /\ ~ (q = p /\ u = t)
  BY LettingGo DEF IInv
<1>2. Marked'
  BY <1>1 DEF IInv, Marked, OnlyHere, NoHold
<1>3. Together'
  BY <1>1 DEF IInv, Together, OnlyHere
<1>4. QED
  BY <1>2, <1>3

(* The others who hold what p lets go of do not rely on the row.           *)
LEMMA OthersAreMarked ==
  ASSUME IInv, NEW p \in Pollers, NEW t \in Tasks, Holds(p, t),
         hold' = [hold EXCEPT ![p][t] = NoHold]
  PROVE  \A q \in Pollers, u \in Tasks :
           Holds(q, u)' /\ hold'[q][u].alone
             => u # t /\ Holds(q, u) /\ hold'[q][u] = hold[q][u] /\ hold[q][u].alone
<1> SUFFICES ASSUME NEW q \in Pollers, NEW u \in Tasks, Holds(q, u)', hold'[q][u].alone
             PROVE  u # t /\ Holds(q, u) /\ hold'[q][u] = hold[q][u] /\ hold[q][u].alone
  OBVIOUS
<1>1. Holds(q, u) /\ ~ (q = p /\ u = t) /\ hold'[q][u] = hold[q][u]
  <2>1. TypeOK
    BY DEF IInv
  <2>2. /\ OnlyHere(p, t)
        /\ \A r \in Pollers, v \in Tasks : Holds(r, v)' <=> Holds(r, v) /\ ~ (r = p /\ v = t)
    BY <2>1, LettingGo
  <2>3. Holds(q, u) /\ ~ (q = p /\ u = t)
    BY <2>2
  <2>4. QED
    BY <2>2, <2>3 DEF OnlyHere
<1>2. u # t
  BY <1>1 DEF IInv, Together
<1>3. QED
  BY <1>1, <1>2

LEMMA OwnershipKept ==
  ASSUME IInv, NEW p \in Pollers, NEW t \in Tasks, Holds(p, t),
         hold' = [hold EXCEPT ![p][t] = NoHold],
         \A u \in Tasks : u # t => /\ status'[u] = status[u] /\ claimAge'[u] = claimAge[u]
                                  /\ repeat'[u] = repeat[u] /\ retries'[u] = retries[u]
  PROVE  HolderOwnsRow'
<1> SUFFICES ASSUME NEW q \in Pollers, NEW u \in Tasks, Holds(q, u)', hold'[q][u].alone
             PROVE  /\ status'[u] = "claimed"
                    /\ claimAge'[u] = hold'[q][u].age
                    /\ repeat'[u] = hold'[q][u].repeat
                    /\ hold'[q][u].stage = "failing" => retries'[u] = hold'[q][u].seen
  BY DEF HolderOwnsRow
<1>1. u # t /\ Holds(q, u) /\ hold'[q][u] = hold[q][u] /\ hold[q][u].alone
  BY OthersAreMarked
<1>2. QED
  BY <1>1 DEF IInv, HolderOwnsRow

(* p lets go of t without having completed it: a hand-out is spare again.  *)
LEMMA GivingUp ==
  ASSUME IInv, NEW p \in Pollers, NEW t \in Tasks, p \in Open(t),
         hold' = [hold EXCEPT ![p][t] = NoHold],
         UNCHANGED <<fired, lost, overruns>>,
         \A u \in Tasks : u # t => status'[u] = status[u]
  PROVE  FireLedger'
<1> SUFFICES ASSUME NEW u \in Tasks
             PROVE  /\ Covered(fired'[u], Cardinality(Open(u)'), lost'[u], overruns'[u])
                    /\ \/ Spare(fired'[u], Cardinality(Open(u)'), lost'[u], overruns'[u])
                       \/ status'[u] = "delivered"
                       \/ Holders(u)' # {}
                    /\ Cardinality(Holders(u)') <= 1 + overruns'[u]
  BY DEF FireLedger
<1>1. /\ Holders(t)' = Holders(t) \ {p} /\ Open(t)' = Open(t) \ {p}
      /\ \A v \in Tasks : v # t => Holders(v)' = Holders(v) /\ Open(v)' = Open(v)
  BY LettingGo DEF IInv
<1>2. /\ Covered(fired[u], Cardinality(Open(u)), lost[u], overruns[u])
      /\ \/ Spare(fired[u], Cardinality(Open(u)), lost[u], overruns[u])
         \/ status[u] = "delivered"
         \/ Holders(u) # {}
      /\ Cardinality(Holders(u)) <= 1 + overruns[u]
  BY DEF IInv, FireLedger
<1>3. fired[u] \in Nat /\ lost[u] \in Nat /\ overruns[u] \in Nat
  BY DEF IInv, TypeOK
<1>4. CASE u # t
  BY <1>1, <1>2, <1>4
<1>5. CASE u = t
  <2>1. p \in Holders(t)
    BY DEF Open, Holders, Holds
  <2>2. /\ Cardinality(Open(t)') + 1 = Cardinality(Open(t))
        /\ Cardinality(Holders(t)') + 1 = Cardinality(Holders(t))
        /\ Cardinality(Open(t)) \in Nat /\ Cardinality(Open(t)') \in Nat
        /\ Cardinality(Holders(t)) \in Nat /\ Cardinality(Holders(t)') \in Nat
    BY <1>1, <2>1, OneFewer, HoldersFinite
  <2>3. QED
    BY <1>2, <1>3, <1>5, <2>2 DEF Covered, Spare
<1>6. QED
  BY <1>4, <1>5

(* Nothing the ledger looks at changes, but for rows that are not made or  *)
(* unmade delivered.                                                       *)
LEMMA LedgerKept ==
  ASSUME IInv, UNCHANGED <<fired, lost, overruns>>,
         \A u \in Tasks : Holders(u)' = Holders(u) /\ Open(u)' = Open(u),
         \A u \in Tasks : status[u] = "delivered" => status'[u] = "delivered"
  PROVE  FireLedger'
  BY DEF IInv, FireLedger

-----------------------------------------------------------------------------
(* The inductive invariant.                                                *)

LEMMA InitIInv == Init => IInv
<1> SUFFICES ASSUME Init PROVE IInv
  OBVIOUS
<1>1. TypeOK
  BY InitTypeOK
<1>2. Marked /\ Together /\ SeenHappened /\ HolderOwnsRow
  BY DEF Init, Marked, Together, SeenHappened, HolderOwnsRow, Holds, NoHold
<1>3. RetryBudget /\ FailuresCounted
  BY ConstantsOK DEF Init, RetryBudget, FailuresCounted
<1>4. FireLedger
  <2>1. \A t \in Tasks : Holders(t) = {} /\ Open(t) = {}
    BY DEF Init, Holders, Holds, Open, NoHold
  <2>2. \A t \in Tasks : Cardinality(Holders(t)) = 0 /\ Cardinality(Open(t)) = 0
    BY <2>1, FS_EmptySet
  <2>3. QED
    BY <2>2 DEF Init, FireLedger, Covered, Spare
<1>5. QED
  BY <1>1, <1>2, <1>3, <1>4 DEF IInv

LEMMA NextIInv == IInv /\ [Next]_vars => IInv'
<1> SUFFICES ASSUME IInv, [Next]_vars PROVE IInv'
  OBVIOUS
<1> USE ConstantsOK
<1> TypeOK /\ TypeOK'
  BY NextTypeOK DEF IInv
<1>1. ASSUME UNCHANGED <<hold, fired, failures, lost, overruns, mishaps, claimAge, retries>>,
             \A t \in Tasks : status[t] = "claimed" => status'[t] = "claimed" /\ repeat'[t] = repeat[t],
             \A t \in Tasks : status[t] = "delivered" => status'[t] = "delivered",
             \A t \in Tasks : status'[t] \in {"absent", "pending", "claimed"}
                                => status[t] \in {"absent", "pending", "claimed"}
      PROVE  IInv'
  <2>1. Marked' /\ Together' /\ SeenHappened'
    BY <1>1 DEF IInv, Marked, Together, SeenHappened, Holds
  <2>2. HolderOwnsRow'
    BY <1>1 DEF IInv, HolderOwnsRow, Holds
  <2>3. RetryBudget' /\ FailuresCounted'
    BY <1>1 DEF IInv, RetryBudget, FailuresCounted
  <2>4. FireLedger'
    <3>1. \A u \in Tasks : Holders(u)' = Holders(u) /\ Open(u)' = Open(u)
      BY <1>1 DEF Holders, Open, Holds
    <3>2. QED
      BY <1>1, <3>1, LedgerKept
  <2>5. QED
    BY <2>1, <2>2, <2>3, <2>4 DEF IInv
<1>2. ASSUME NEW t \in Tasks, NEW d \in DueChoices, NEW r \in Repeats, Insert(t, d, r)
      PROVE  IInv'
  BY <1>1, <1>2 DEF TypeOK, Insert, historyVars
<1>3. ASSUME NEW S \in SUBSET Tasks, Cancel(S)
      PROVE  IInv'
  BY <1>1, <1>3 DEF TypeOK, Cancel, Pending, historyVars
<1>4. ASSUME NEW S \in SUBSET Tasks, NEW d \in DueChoices, NEW r \in Repeats,
             NEW given \in SUBSET {"due", "repeat"}, Update(S, d, r, given)
      PROVE  IInv'
  BY <1>1, <1>4 DEF TypeOK, Update, Pending, historyVars
<1>5. ASSUME NEW t \in Tasks, NEW d \in DueChoices, Defer(t, d)
      PROVE  IInv'
  BY <1>1, <1>5 DEF TypeOK, Defer, historyVars
<1>6. ASSUME NEW p \in Pollers, Claim(p)
      PROVE  IInv'
  <2>1. \A q \in Pollers, t \in Tasks :
          hold'[q][t] = IF t \notin Claimable THEN hold[q][t]
                        ELSE IF q = p THEN Handed(t)
                        ELSE IF Holds(q, t) THEN [hold[q][t] EXCEPT !.alone = FALSE] ELSE hold[q][t]
    BY <1>6 DEF Claim
  <2>2. \A t \in Tasks : ~ Holds(p, t)
    BY <1>6 DEF Claim, Idle
  <2>3. \A q \in Pollers, t \in Tasks : t \notin Claimable => hold'[q][t] = hold[q][t]
    BY <2>1
  <2>4. \A t \in Claimable : /\ hold'[p][t] = Handed(t)
                             /\ hold'[p][t].stage = "running"
                             /\ hold'[p][t].alone = (Holders(t) = {})
    <3> SUFFICES ASSUME NEW t \in Claimable
                 PROVE  /\ hold'[p][t] = Handed(t)
                        /\ hold'[p][t].stage = "running"
                        /\ hold'[p][t].alone = (Holders(t) = {})
      OBVIOUS
    <3>1. hold'[p][t] = Handed(t)
      BY <2>1 DEF Claimable
    <3>2. Handed(t).stage = "running" /\ Handed(t).alone = (Holders(t) = {})
      BY DEF Handed
    <3>3. QED
      BY <3>1, <3>2
  <2>5. ASSUME NEW q \in Pollers, NEW t \in Claimable, q # p
        PROVE  /\ hold'[q][t].stage = hold[q][t].stage
               /\ hold'[q][t].seen = hold[q][t].seen
               /\ Holds(q, t) => hold'[q][t].alone = FALSE
               /\ ~ Holds(q, t) => hold'[q][t].alone = hold[q][t].alone
    <3>1. hold[q][t] \in Hold /\ t \in Tasks
      BY DEF TypeOK, Claimable
    <3>2. hold'[q][t] = IF Holds(q, t) THEN [hold[q][t] EXCEPT !.alone = FALSE] ELSE hold[q][t]
      BY <2>1, <2>5, <3>1
    <3>3. QED
      BY <3>1, <3>2 DEF Hold
  <2>6. \A q \in Pollers, t \in Tasks : Holds(q, t)' <=> Holds(q, t) \/ (q = p /\ t \in Claimable)
    <3> SUFFICES ASSUME NEW q \in Pollers, NEW t \in Tasks
                 PROVE  Holds(q, t)' <=> Holds(q, t) \/ (q = p /\ t \in Claimable)
      OBVIOUS
    <3>1. CASE t \notin Claimable
      BY <2>3, <3>1 DEF Holds
    <3>2. CASE t \in Claimable /\ q = p
      BY <2>4, <3>2 DEF Holds
    <3>3. CASE t \in Claimable /\ q # p
      BY <2>5, <3>3 DEF Holds
    <3>4. QED
      BY <3>1, <3>2, <3>3
  <2>7. \A t \in Tasks : /\ t \in Overtaken => overruns'[t] = overruns[t] + 1
                         /\ t \notin Overtaken => overruns'[t] = overruns[t]
    BY <1>6 DEF Claim
  <2>8. \A t \in Tasks : overruns[t] \in Nat
    BY DEF TypeOK
  <2>9. Marked'
    <3> SUFFICES ASSUME NEW q \in Pollers, NEW t \in Tasks, ~ hold'[q][t].alone
                 PROVE  overruns'[t] > 0 /\ Holds(q, t)'
      BY DEF Marked
    <3>1. CASE t \notin Claimable
      <4>1. overruns[t] > 0 /\ Holds(q, t)
        BY <2>3, <3>1 DEF IInv, Marked
      <4>2. QED
        BY <2>6, <2>7, <3>1, <4>1 DEF Overtaken
    <3>2. CASE t \in Claimable /\ q = p
      <4>1. Holders(t) # {}
        BY <2>4, <3>2
      <4>2. QED
        BY <2>6, <2>7, <2>8, <3>2, <4>1 DEF Overtaken
    <3>3. CASE t \in Claimable /\ q # p
      <4>1. Holds(q, t)
        BY <2>5, <3>3 DEF IInv, Marked
      <4>2. t \in Overtaken
        BY <3>3, <4>1 DEF Overtaken, Holders
      <4>3. QED
        BY <2>6, <2>7, <2>8, <4>1, <4>2
    <3>4. QED
      BY <3>1, <3>2, <3>3
  <2>10. Together'
    <3> SUFFICES ASSUME NEW q \in Pollers, NEW r \in Pollers, NEW t \in Tasks,
                        Holds(q, t)', Holds(r, t)', q # r
                 PROVE  ~ hold'[q][t].alone
      BY DEF Together
    <3>1. CASE t \notin Claimable
      BY <2>3, <2>6, <3>1 DEF IInv, Together
    <3>2. CASE t \in Claimable /\ q = p
      <4>1. Holds(r, t)
        BY <2>6, <3>2
      <4>2. Holders(t) # {}
        BY <4>1 DEF Holders
      <4>3. QED
        BY <2>4, <3>2, <4>2
    <3>3. CASE t \in Claimable /\ q # p
      BY <2>5, <2>6, <3>3
    <3>4. QED
      BY <3>1, <3>2, <3>3
  <2>11. SeenHappened'
    <3> SUFFICES ASSUME NEW q \in Pollers, NEW t \in Tasks, hold'[q][t].stage = "failing"
                 PROVE  hold'[q][t].seen <= failures'[t]
      BY DEF SeenHappened
    <3>1. CASE t \notin Claimable
      BY <1>6, <2>3, <3>1 DEF IInv, SeenHappened, Claim
    <3>2. CASE t \in Claimable /\ q = p
      BY <2>4, <3>2
    <3>3. CASE t \in Claimable /\ q # p
      BY <1>6, <2>5, <3>3 DEF IInv, SeenHappened, Claim
    <3>4. QED
      BY <3>1, <3>2, <3>3
  <2>12. HolderOwnsRow'
    <3> SUFFICES ASSUME NEW q \in Pollers, NEW t \in Tasks, Holds(q, t)', hold'[q][t].alone
                 PROVE  /\ status'[t] = "claimed"
                        /\ claimAge'[t] = hold'[q][t].age
                        /\ repeat'[t] = hold'[q][t].repeat
                        /\ hold'[q][t].stage = "failing" => retries'[t] = hold'[q][t].seen
      BY DEF HolderOwnsRow
    <3>1. CASE t \notin Claimable
      BY <1>6, <2>3, <2>6, <3>1 DEF IInv, HolderOwnsRow, Claim
    <3>2. CASE t \in Claimable /\ q = p
      BY <1>6, <2>4, <3>2 DEF Claim, Handed
    <3>3. CASE t \in Claimable /\ q # p
      BY <2>5, <2>6, <3>3
    <3>4. QED
      BY <3>1, <3>2, <3>3
  <2>13. RetryBudget' /\ FailuresCounted'
    <3>1. \A t \in Tasks : overruns'[t] = 0 => overruns[t] = 0
      BY <2>7, <2>8
    <3>2. QED
      BY <1>6, <3>1 DEF IInv, TypeOK, RetryBudget, FailuresCounted, Claim, Claimable, IsDue, IsStale
  <2>14. FireLedger'
    <3> SUFFICES ASSUME NEW t \in Tasks
                 PROVE  /\ Covered(fired'[t], Cardinality(Open(t)'), lost'[t], overruns'[t])
                        /\ \/ Spare(fired'[t], Cardinality(Open(t)'), lost'[t], overruns'[t])
                           \/ status'[t] = "delivered"
                           \/ Holders(t)' # {}
                        /\ Cardinality(Holders(t)') <= 1 + overruns'[t]
      BY DEF FireLedger
    <3>1. /\ Covered(fired[t], Cardinality(Open(t)), lost[t], overruns[t])
          /\ \/ Spare(fired[t], Cardinality(Open(t)), lost[t], overruns[t])
             \/ status[t] = "delivered"
             \/ Holders(t) # {}
          /\ Cardinality(Holders(t)) <= 1 + overruns[t]
      BY DEF IInv, FireLedger
    <3>2. fired'[t] = fired[t] /\ lost'[t] = lost[t] /\ fired[t] \in Nat /\ lost[t] \in Nat
      BY <1>6 DEF TypeOK, Claim
    <3>3. CASE t \notin Claimable
      <4>1. Holders(t)' = Holders(t) /\ Open(t)' = Open(t)
        BY <2>3, <2>6, <3>3 DEF Holders, Open
      <4>2. status'[t] = status[t] /\ overruns'[t] = overruns[t]
        BY <1>6, <2>7, <3>3 DEF Claim, Overtaken
      <4>3. QED
        BY <3>1, <3>2, <4>1, <4>2
    <3>4. CASE t \in Claimable
      <4>1. Holders(t)' = Holders(t) \cup {p}
        BY <2>6, <3>4 DEF Holders
      <4>2. Open(t)' = Open(t) \cup {p}
        <5>1. \A q \in Pollers : q # p => hold'[q][t].stage = hold[q][t].stage
          BY <2>5, <3>4
        <5>2. hold'[p][t].stage = "running"
          BY <2>4, <3>4
        <5>3. QED
          BY <5>1, <5>2 DEF Open
      <4>3. p \notin Holders(t) /\ p \notin Open(t)
        BY <2>2 DEF Holders, Open, Holds
      <4>4. /\ Cardinality(Holders(t)') = Cardinality(Holders(t)) + 1
            /\ Cardinality(Open(t)') = Cardinality(Open(t)) + 1
            /\ Cardinality(Holders(t)) \in Nat /\ Cardinality(Open(t)) \in Nat
        BY <4>1, <4>2, <4>3, FS_AddElement, HoldersFinite
      <4>5. CASE Holders(t) = {}
        <5>1. Spare(fired[t], Cardinality(Open(t)), lost[t], overruns[t])
          BY <3>1, <3>4, <4>5 DEF Claimable, IsDue, IsStale
        <5>2. overruns'[t] = overruns[t]
          BY <2>7, <4>5 DEF Overtaken
        <5>3. Cardinality(Holders(t)) = 0
          BY <4>5, FS_EmptySet
        <5>4. Holders(t)' # {}
          BY <4>1
        <5>5. QED
          BY <2>8, <3>2, <4>4, <5>1, <5>2, <5>3, <5>4 DEF Covered, Spare
      <4>6. CASE Holders(t) # {}
        <5>1. overruns'[t] = overruns[t] + 1
          BY <2>7, <3>4, <4>6 DEF Overtaken
        <5>2. Holders(t)' # {}
          BY <4>1
        <5>3. QED
          BY <2>8, <3>1, <3>2, <4>4, <5>1, <5>2 DEF Covered
      <4>7. QED
        BY <4>5, <4>6
    <3>5. QED
      BY <3>3, <3>4
  <2>15. QED
    BY <2>9, <2>10, <2>11, <2>12, <2>13, <2>14 DEF IInv
<1>7. ASSUME NEW p \in Pollers, NEW t \in Tasks, RunEnds(p, t)
      PROVE  IInv'
  <2>1. PICK outcome \in {"completed", "failed"} : RecordRun(p, t, outcome)
    BY <1>7 DEF RunEnds
  <2>2. Holds(p, t) /\ hold[p][t] \in Hold
    BY <2>1 DEF RecordRun, Holds, TypeOK
  <2>3. /\ hold'[p][t].stage = outcome
        /\ hold'[p][t].age = hold[p][t].age
        /\ hold'[p][t].repeat = hold[p][t].repeat
        /\ hold'[p][t].alone = hold[p][t].alone
    BY <2>1, <2>2 DEF TypeOK, RecordRun, Hold
  <2>4. OnlyHere(p, t)
    BY <2>1 DEF TypeOK, RecordRun, OnlyHere
  <2>5. \A q \in Pollers, u \in Tasks : Holds(q, u)' <=> Holds(q, u)
    BY <2>2, <2>3, <2>4 DEF Holds, OnlyHere
  <2>6. Marked' /\ Together' /\ SeenHappened'
    <3>1. UNCHANGED <<overruns, failures>>
      BY <2>1 DEF RecordRun
    <3>2. \A q \in Pollers, u \in Tasks : hold'[q][u].alone = hold[q][u].alone
      BY <2>3, <2>4 DEF OnlyHere
    <3>3. \A q \in Pollers, u \in Tasks :
            hold'[q][u].stage = "failing" => hold'[q][u] = hold[q][u]
      BY <2>3, <2>4 DEF OnlyHere
    <3>4. QED
      BY <2>5, <3>1, <3>2, <3>3 DEF IInv, Marked, Together, SeenHappened
  <2>7. HolderOwnsRow'
    BY <2>1, <2>3, <2>4, <2>5 DEF IInv, HolderOwnsRow, RecordRun, rowVars, OnlyHere
  <2>8. RetryBudget' /\ FailuresCounted'
    BY <2>1 DEF IInv, RetryBudget, FailuresCounted, RecordRun, rowVars
  <2>9. FireLedger'
    <3> SUFFICES ASSUME NEW u \in Tasks
                 PROVE  /\ Covered(fired'[u], Cardinality(Open(u)'), lost'[u], overruns'[u])
                        /\ \/ Spare(fired'[u], Cardinality(Open(u)'), lost'[u], overruns'[u])
                           \/ status'[u] = "delivered"
                           \/ Holders(u)' # {}
                        /\ Cardinality(Holders(u)') <= 1 + overruns'[u]
      BY DEF FireLedger
    <3>1. /\ Covered(fired[u], Cardinality(Open(u)), lost[u], overruns[u])
          /\ \/ Spare(fired[u], Cardinality(Open(u)), lost[u], overruns[u])
             \/ status[u] = "delivered"
             \/ Holders(u) # {}
          /\ Cardinality(Holders(u)) <= 1 + overruns[u]
      BY DEF IInv, FireLedger
    <3>2. Holders(u)' = Holders(u) /\ overruns' = overruns /\ lost' = lost /\ status' = status
      BY <2>1, <2>5 DEF Holders, RecordRun, rowVars
    <3>3. CASE u # t \/ outcome = "failed"
      <4>1. Open(u)' = Open(u)
        BY <2>1, <2>3, <2>4, <3>3 DEF Open, OnlyHere, RecordRun
      <4>2. fired'[u] = fired[u]
        BY <2>1, <3>3 DEF RecordRun, TypeOK
      <4>3. QED
        BY <3>1, <3>2, <4>1, <4>2
    <3>4. CASE u = t /\ outcome = "completed"
      <4>1. Open(t)' = Open(t) \ {p}
        BY <2>3, <2>4, <3>4 DEF Open, OnlyHere
      <4>2. p \in Open(t)
        BY <2>1 DEF Open, RecordRun
      <4>3. /\ Cardinality(Open(t)') + 1 = Cardinality(Open(t))
            /\ Cardinality(Open(t)) \in Nat /\ Cardinality(Open(t)') \in Nat
        BY <4>1, <4>2, OneFewer, HoldersFinite
      <4>4. fired'[t] = fired[t] + 1 /\ fired[t] \in Nat /\ lost[t] \in Nat /\ overruns[t] \in Nat
        BY <2>1, <3>4 DEF RecordRun, TypeOK
      <4>5. Holders(t) # {}
        BY <2>2 DEF Holders
      <4>6. QED
        BY <3>1, <3>2, <3>4, <4>3, <4>4, <4>5 DEF Covered, Spare
    <3>5. QED
      BY <3>3, <3>4
  <2>10. QED
    BY <2>6, <2>7, <2>8, <2>9 DEF IInv
<1>8. ASSUME NEW p \in Pollers, NEW t \in Tasks, CompleteOnce(p, t)
      PROVE  IInv'
  <2>1. Holds(p, t) /\ hold' = [hold EXCEPT ![p][t] = NoHold] /\ UNCHANGED overruns
    BY <1>8 DEF CompleteOnce, Holds, historyVars
  <2>2. Marked' /\ Together'
    BY <2>1, LettingGoMarks
  <2>3. SeenHappened'
    BY <1>8, <2>1, LettingGo DEF IInv, SeenHappened, OnlyHere, NoHold, CompleteOnce, historyVars
  <2>4. HolderOwnsRow'
    <3>1. \A u \in Tasks : u # t => /\ status'[u] = status[u] /\ claimAge'[u] = claimAge[u]
                                  /\ repeat'[u] = repeat[u] /\ retries'[u] = retries[u]
      BY <1>8 DEF TypeOK, CompleteOnce
    <3>2. QED
      BY <2>1, <3>1, OwnershipKept
  <2>5. RetryBudget' /\ FailuresCounted'
    <3>1. status[t] \in {"absent", "pending", "claimed"} \/ status'[t] \notin {"absent", "pending", "claimed"}
      BY <1>8 DEF CompleteOnce, TypeOK
    <3>2. \A u \in Tasks : u # t => status'[u] = status[u]
      BY <1>8 DEF CompleteOnce, TypeOK
    <3>3. QED
      BY <1>8, <3>1, <3>2 DEF IInv, RetryBudget, FailuresCounted, CompleteOnce, historyVars
  <2>6. FireLedger'
    <3> SUFFICES ASSUME NEW u \in Tasks
                 PROVE  /\ Covered(fired'[u], Cardinality(Open(u)'), lost'[u], overruns'[u])
                        /\ \/ Spare(fired'[u], Cardinality(Open(u)'), lost'[u], overruns'[u])
                           \/ status'[u] = "delivered"
                           \/ Holders(u)' # {}
                        /\ Cardinality(Holders(u)') <= 1 + overruns'[u]
      BY DEF FireLedger
    <3>1. /\ Covered(fired[u], Cardinality(Open(u)), lost[u], overruns[u])
          /\ \/ Spare(fired[u], Cardinality(Open(u)), lost[u], overruns[u])
             \/ status[u] = "delivered"
             \/ Holders(u) # {}
          /\ Cardinality(Holders(u)) <= 1 + overruns[u]
      BY DEF IInv, FireLedger
    <3>2. /\ Holders(t)' = Holders(t) \ {p} /\ Open(t)' = Open(t) \ {p}
          /\ \A v \in Tasks : v # t => Holders(v)' = Holders(v) /\ Open(v)' = Open(v)
      BY <2>1, LettingGo
    <3>3. UNCHANGED <<fired, lost, overruns>>
      BY <1>8 DEF CompleteOnce, historyVars
    <3>4. CASE u # t
      <4>1. status'[u] = status[u]
        BY <1>8, <3>4 DEF CompleteOnce, TypeOK
      <4>2. QED
        BY <3>1, <3>2, <3>3, <3>4, <4>1
    <3>5. CASE u = t
      <4>1. status'[t] = "delivered"
        BY <1>8 DEF CompleteOnce, TypeOK
      <4>2. p \in Holders(t) /\ p \notin Open(t)
        BY <1>8, <2>1 DEF Holders, Open, CompleteOnce
      <4>3. /\ Cardinality(Holders(t)') + 1 = Cardinality(Holders(t))
            /\ Cardinality(Holders(t)) \in Nat /\ Cardinality(Holders(t)') \in Nat
            /\ Open(t)' = Open(t)
        BY <3>2, <4>2, OneFewer, HoldersFinite
      <4>4. overruns[t] \in Nat
        BY DEF TypeOK
      <4>5. QED
        BY <3>1, <3>3, <3>5, <4>1, <4>3, <4>4
    <3>6. QED
      BY <3>4, <3>5
  <2>7. QED
    BY <2>2, <2>3, <2>4, <2>5, <2>6 DEF IInv
<1>9. ASSUME NEW p \in Pollers, NEW t \in Tasks, CompleteRecurring(p, t)
      PROVE  IInv'
  <2>1. Holds(p, t) /\ hold' = [hold EXCEPT ![p][t] = NoHold] /\ UNCHANGED overruns
    BY <1>9 DEF CompleteRecurring, Holds
  <2>2. Marked' /\ Together'
    BY <2>1, LettingGoMarks
  <2>3. SeenHappened'
    BY <1>9, <2>1, LettingGo DEF IInv, SeenHappened, OnlyHere, NoHold, CompleteRecurring
  <2>4. HolderOwnsRow'
    <3>1. \A u \in Tasks : u # t => /\ status'[u] = status[u] /\ claimAge'[u] = claimAge[u]
                                  /\ repeat'[u] = repeat[u] /\ retries'[u] = retries[u]
      BY <1>9 DEF TypeOK, CompleteRecurring
    <3>2. QED
      BY <2>1, <3>1, OwnershipKept
  <2>5. RetryBudget' /\ FailuresCounted'
    <3>1. overruns[t] = 0 => status[t] = "claimed"
      BY <2>1 DEF IInv, Marked, HolderOwnsRow
    <3>2. \A u \in Tasks : u # t => status'[u] = status[u]
      BY <1>9 DEF CompleteRecurring, TypeOK
    <3>3. QED
      BY <1>9, <3>1, <3>2 DEF IInv, RetryBudget, FailuresCounted, CompleteRecurring
  <2>6. FireLedger'
    <3> SUFFICES ASSUME NEW u \in Tasks
                 PROVE  /\ Covered(fired'[u], Cardinality(Open(u)'), lost'[u], overruns'[u])
                        /\ \/ Spare(fired'[u], Cardinality(Open(u)'), lost'[u], overruns'[u])
                           \/ status'[u] = "delivered"
                           \/ Holders(u)' # {}
                        /\ Cardinality(Holders(u)') <= 1 + overruns'[u]
      BY DEF FireLedger
    <3>1. /\ Covered(fired[u], Cardinality(Open(u)), lost[u], overruns[u])
          /\ \/ Spare(fired[u], Cardinality(Open(u)), lost[u], overruns[u])
             \/ status[u] = "delivered"
             \/ Holders(u) # {}
          /\ Cardinality(Holders(u)) <= 1 + overruns[u]
      BY DEF IInv, FireLedger
    <3>2. /\ Holders(t)' = Holders(t) \ {p}
          /\ \A v \in Tasks : v # t => Holders(v)' = Holders(v) /\ Open(v)' = Open(v)
      BY <2>1, LettingGo
    <3>3. CASE u # t
      <4>1. status'[u] = status[u] /\ fired'[u] = fired[u] /\ lost'[u] = lost[u]
        BY <1>9, <3>3 DEF CompleteRecurring, TypeOK
      <4>2. QED
        BY <2>1, <3>1, <3>2, <3>3, <4>1
    <3>4. CASE u = t
      <4>1. fired'[t] = 0 /\ lost'[t] = 0 /\ overruns[t] \in Nat
        BY <1>9 DEF CompleteRecurring, TypeOK
      <4>2. /\ Cardinality(Holders(t)') + 1 = Cardinality(Holders(t))
            /\ Cardinality(Holders(t)) \in Nat /\ Cardinality(Holders(t)') \in Nat
        BY <2>1, <3>2, OneFewer, HoldersFinite DEF Holders
      <4>3. /\ Cardinality(Open(t)') <= Cardinality(Holders(t)')
            /\ Holders(t)' = {} => Cardinality(Open(t)') = 0
        BY OpenAreHolders
      <4>4. Cardinality(Open(t)') \in Nat
        <5>1. Open(t)' \in SUBSET Pollers
          BY DEF Open
        <5>2. QED
          BY <5>1, FS_Subset, FS_CardinalityType
      <4>5. QED
        BY <2>1, <3>1, <3>4, <4>1, <4>2, <4>3, <4>4 DEF Covered, Spare
    <3>5. QED
      BY <3>3, <3>4
  <2>7. QED
    BY <2>2, <2>3, <2>4, <2>5, <2>6 DEF IInv
<1>10. ASSUME NEW p \in Pollers, NEW t \in Tasks, FailRead(p, t)
      PROVE  IInv'
  <2>1. hold[p][t] \in Hold /\ retries[t] \in Nat
    BY DEF TypeOK
  <2>2. /\ hold'[p][t].stage = "failing"
        /\ hold'[p][t].seen = retries[t]
        /\ hold'[p][t].age = hold[p][t].age
        /\ hold'[p][t].repeat = hold[p][t].repeat
        /\ hold'[p][t].alone = hold[p][t].alone
    BY <1>10, <2>1 DEF TypeOK, FailRead, Hold
  <2>3. OnlyHere(p, t)
    BY <1>10 DEF TypeOK, FailRead, OnlyHere
  <2>4. \A q \in Pollers, u \in Tasks : Holds(q, u)' <=> Holds(q, u)
    BY <1>10, <2>2, <2>3 DEF Holds, FailRead, OnlyHere
  <2>5. Marked' /\ Together'
    <3>1. UNCHANGED overruns
      BY <1>10 DEF FailRead, historyVars
    <3>2. \A q \in Pollers, u \in Tasks : hold'[q][u].alone = hold[q][u].alone
      BY <2>2, <2>3 DEF OnlyHere
    <3>3. QED
      BY <2>4, <3>1, <3>2 DEF IInv, Marked, Together
  <2>6. SeenHappened'
    <3>1. retries[t] <= failures[t] /\ UNCHANGED failures
      BY <1>10 DEF IInv, FailuresCounted, FailRead, historyVars
    <3>2. QED
      BY <2>2, <2>3, <3>1 DEF IInv, SeenHappened, OnlyHere
  <2>7. HolderOwnsRow'
    BY <1>10, <2>2, <2>3, <2>4 DEF IInv, HolderOwnsRow, FailRead, rowVars, OnlyHere
  <2>8. RetryBudget' /\ FailuresCounted'
    BY <1>10 DEF IInv, RetryBudget, FailuresCounted, FailRead, rowVars, historyVars
  <2>9. FireLedger'
    <3>1. \A u \in Tasks : Holders(u)' = Holders(u) /\ Open(u)' = Open(u)
      BY <1>10, <2>2, <2>3, <2>4 DEF Holders, Open, OnlyHere, FailRead
    <3>2. QED
      BY <1>10, <3>1, LedgerKept DEF FailRead, rowVars, historyVars
  <2>10. QED
    BY <2>5, <2>6, <2>7, <2>8, <2>9 DEF IInv
<1>11. ASSUME NEW p \in Pollers, NEW t \in Tasks, hold[p][t].stage = "failing",
              hold' = [hold EXCEPT ![p][t] = NoHold],
              UNCHANGED <<repeat, fired, lost, overruns, mishaps>>,
              \A u \in Tasks : u # t => status'[u] = status[u] /\ claimAge'[u] = claimAge[u],
              retries' = [retries EXCEPT ![t] = hold[p][t].seen + 1],
              failures' = [failures EXCEPT ![t] = @ + 1],
              status'[t] = IF hold[p][t].seen + 1 < MaxRetries THEN "pending" ELSE "failed"
       PROVE  IInv'
  <2>1. Holds(p, t) /\ hold[p][t].seen \in Nat /\ failures[t] \in Nat /\ retries[t] \in Nat
    BY <1>11 DEF Holds, TypeOK, Hold
  <2>2. Marked' /\ Together'
    BY <1>11, LettingGoMarks
  <2>3. OnlyHere(p, t) /\ hold'[p][t] = NoHold
    BY <1>11, LettingGo
  <2>4. /\ retries'[t] = hold[p][t].seen + 1
        /\ failures'[t] = failures[t] + 1
        /\ \A u \in Tasks : u # t => retries'[u] = retries[u] /\ failures'[u] = failures[u]
    BY <1>11 DEF TypeOK
  <2>5. SeenHappened'
    <3> SUFFICES ASSUME NEW q \in Pollers, NEW u \in Tasks, hold'[q][u].stage = "failing"
                 PROVE  hold'[q][u].seen <= failures'[u]
      BY DEF SeenHappened
    <3>1. hold'[q][u] = hold[q][u]
      BY <2>3 DEF OnlyHere, NoHold
    <3>2. hold[q][u].seen <= failures[u]
      BY <3>1 DEF IInv, SeenHappened
    <3>3. hold[q][u].seen \in Nat /\ failures[u] \in Nat
      BY DEF TypeOK, Hold
    <3>4. failures'[u] = failures[u] \/ failures'[u] = failures[u] + 1
      BY <2>4
    <3>5. QED
      BY <3>1, <3>2, <3>3, <3>4
  <2>6. HolderOwnsRow'
    BY <1>11, <2>1, <2>4, OwnershipKept
  <2>7. hold[p][t].seen <= failures[t]
    BY <1>11 DEF IInv, SeenHappened
  <2>8. overruns[t] = 0 => /\ hold[p][t].seen = retries[t] /\ retries[t] = failures[t]
                           /\ retries[t] < MaxRetries
    BY <1>11, <2>1 DEF IInv, Marked, HolderOwnsRow, FailuresCounted, RetryBudget
  <2>9. RetryBudget'
    <3> SUFFICES ASSUME NEW u \in Tasks, overruns[u] = 0
                 PROVE  /\ retries'[u] <= MaxRetries
                        /\ status'[u] \in {"absent", "pending", "claimed"} => retries'[u] < MaxRetries
      BY <1>11 DEF RetryBudget
    <3>1. CASE u = t
      BY <1>11, <2>1, <2>4, <2>8, <3>1
    <3>2. CASE u # t
      BY <1>11, <2>4, <3>2 DEF IInv, RetryBudget
    <3>3. QED
      BY <3>1, <3>2
  <2>10. FailuresCounted'
    BY <1>11, <2>1, <2>4, <2>7, <2>8 DEF IInv, FailuresCounted
  <2>11. FireLedger'
    <3>1. p \in Open(t)
      BY <1>11 DEF Open
    <3>2. QED
      BY <1>11, <3>1, GivingUp
  <2>12. QED
    BY <2>2, <2>5, <2>6, <2>9, <2>10, <2>11 DEF IInv
<1>12. ASSUME NEW p \in Pollers, NEW t \in Tasks, FailRetry(p, t) \/ FailFinally(p, t)
       PROVE  IInv'
  <2>1. /\ hold[p][t].stage = "failing"
        /\ hold' = [hold EXCEPT ![p][t] = NoHold]
        /\ UNCHANGED <<repeat, fired, lost, overruns, mishaps>>
        /\ retries' = [retries EXCEPT ![t] = hold[p][t].seen + 1]
        /\ failures' = [failures EXCEPT ![t] = @ + 1]
    BY <1>12 DEF FailRetry, FailFinally
  <2>2. \A u \in Tasks : u # t => status'[u] = status[u] /\ claimAge'[u] = claimAge[u]
    BY <1>12 DEF FailRetry, FailFinally, TypeOK
  <2>3. hold[p][t].seen \in Nat
    BY DEF TypeOK, Hold
  <2>4. status'[t] = IF hold[p][t].seen + 1 < MaxRetries THEN "pending" ELSE "failed"
    BY <1>12, <2>3 DEF FailRetry, FailFinally, TypeOK
  <2>5. QED
    BY <1>11, <2>1, <2>2, <2>4
<1>13. ASSUME NEW p \in Pollers, Crash(p)
       PROVE  IInv'
  <2>1. /\ \A u \in Tasks : hold'[p][u] = NoHold
        /\ \A q \in Pollers, u \in Tasks : q # p => hold'[q][u] = hold[q][u]
    BY <1>13 DEF TypeOK, Crash
  <2>2. \A q \in Pollers, u \in Tasks : Holds(q, u)' <=> Holds(q, u) /\ q # p
    BY <2>1 DEF Holds, NoHold
  <2>3. UNCHANGED <<rowVars, fired, failures, overruns>>
    BY <1>13 DEF Crash
  <2>4. Marked' /\ Together' /\ SeenHappened'
    <3>1. Marked'
      BY <2>1, <2>2, <2>3 DEF IInv, Marked, NoHold
    <3>2. Together'
      BY <2>1, <2>2 DEF IInv, Together
    <3>3. SeenHappened'
      BY <2>1, <2>3 DEF IInv, SeenHappened, NoHold
    <3>4. QED
      BY <3>1, <3>2, <3>3
  <2>5. HolderOwnsRow'
    BY <2>1, <2>2, <2>3 DEF IInv, HolderOwnsRow, rowVars
  <2>6. RetryBudget' /\ FailuresCounted'
    BY <2>3 DEF IInv, RetryBudget, FailuresCounted, rowVars
  <2>7. FireLedger'
    <3> SUFFICES ASSUME NEW u \in Tasks
                 PROVE  /\ Covered(fired'[u], Cardinality(Open(u)'), lost'[u], overruns'[u])
                        /\ \/ Spare(fired'[u], Cardinality(Open(u)'), lost'[u], overruns'[u])
                           \/ status'[u] = "delivered"
                           \/ Holders(u)' # {}
                        /\ Cardinality(Holders(u)') <= 1 + overruns'[u]
      BY DEF FireLedger
    <3>1. /\ Covered(fired[u], Cardinality(Open(u)), lost[u], overruns[u])
          /\ \/ Spare(fired[u], Cardinality(Open(u)), lost[u], overruns[u])
             \/ status[u] = "delivered"
             \/ Holders(u) # {}
          /\ Cardinality(Holders(u)) <= 1 + overruns[u]
      BY DEF IInv, FireLedger
    <3>2. Holders(u)' = Holders(u) \ {p}
      BY <2>2 DEF Holders
    <3>3. Open(u)' = Open(u) \ {p}
      BY <2>1 DEF Open, NoHold
    <3>4. fired[u] \in Nat /\ lost[u] \in Nat /\ overruns[u] \in Nat
      BY DEF TypeOK
    <3>5. /\ p \in Open(u) => Cardinality(Open(u)') + 1 = Cardinality(Open(u))
          /\ p \notin Open(u) => Open(u)' = Open(u)
          /\ Cardinality(Open(u)) \in Nat /\ Cardinality(Open(u)') \in Nat
      BY <3>3, OneFewer, HoldersFinite
    <3>6. /\ p \in Holders(u) => Cardinality(Holders(u)') + 1 = Cardinality(Holders(u))
          /\ p \notin Holders(u) => Holders(u)' = Holders(u)
          /\ Cardinality(Holders(u)) \in Nat /\ Cardinality(Holders(u)') \in Nat
      BY <3>2, OneFewer, HoldersFinite
    <3>7. lost'[u] = IF hold[p][u].stage = "completed" THEN lost[u] + 1 ELSE lost[u]
      BY <1>13 DEF Crash
    <3>8. CASE p \notin Holders(u)
      <4>1. p \notin Open(u) /\ hold[p][u].stage # "completed"
        BY <3>8 DEF Open, Holders, Holds
      <4>2. QED
        BY <2>3, <3>1, <3>5, <3>6, <3>7, <3>8, <4>1 DEF rowVars
    <3>9. CASE p \in Open(u)
      <4>1. hold[p][u].stage # "completed" /\ p \in Holders(u)
        BY <3>9 DEF Open, Holders, Holds
      <4>2. lost'[u] = lost[u] /\ fired'[u] = fired[u] /\ overruns'[u] = overruns[u]
        BY <2>3, <3>7, <4>1
      <4>3. QED
        BY <3>1, <3>4, <3>5, <3>6, <3>9, <4>1, <4>2 DEF Covered, Spare
    <3>10. CASE p \in Holders(u) /\ p \notin Open(u)
      <4>1. hold[p][u].stage \in Stages
        BY DEF TypeOK, Hold
      <4>2. hold[p][u].stage = "completed"
        BY <3>10, <4>1 DEF Open, Holders, Holds, Stages
      <4>3. lost'[u] = lost[u] + 1 /\ fired'[u] = fired[u] /\ overruns'[u] = overruns[u]
        BY <2>3, <3>7, <4>2
      <4>4. QED
        BY <3>1, <3>4, <3>5, <3>6, <3>10, <4>3 DEF Covered, Spare
    <3>11. QED
      BY <3>8, <3>9, <3>10
  <2>8. QED
    BY <2>4, <2>5, <2>6, <2>7 DEF IInv
<1>14. ASSUME Tick
       PROVE  IInv'
  <2>1. \A q \in Pollers, u \in Tasks :
          /\ hold'[q][u].stage = hold[q][u].stage
          /\ hold'[q][u].repeat = hold[q][u].repeat
          /\ hold'[q][u].seen = hold[q][u].seen
          /\ hold'[q][u].alone = hold[q][u].alone
          /\ Holds(q, u) => hold'[q][u].age = Older(hold[q][u].age)
    <3> SUFFICES ASSUME NEW q \in Pollers, NEW u \in Tasks
                 PROVE  /\ hold'[q][u].stage = hold[q][u].stage
                        /\ hold'[q][u].repeat = hold[q][u].repeat
                        /\ hold'[q][u].seen = hold[q][u].seen
                        /\ hold'[q][u].alone = hold[q][u].alone
                        /\ Holds(q, u) => hold'[q][u].age = Older(hold[q][u].age)
      OBVIOUS
    <3>1. hold[q][u] \in Hold
      BY DEF TypeOK
    <3>2. hold'[q][u] = IF Holds(q, u) THEN [hold[q][u] EXCEPT !.age = Older(@)] ELSE hold[q][u]
      BY <1>14 DEF Tick
    <3>3. QED
      BY <3>1, <3>2 DEF Hold
  <2>2. \A q \in Pollers, u \in Tasks : Holds(q, u)' <=> Holds(q, u)
    BY <2>1 DEF Holds
  <2>3. Marked' /\ Together' /\ SeenHappened'
    BY <1>14, <2>1, <2>2 DEF IInv, Marked, Together, SeenHappened, Tick, historyVars
  <2>4. HolderOwnsRow'
    <3>1. \A u \in Tasks : claimAge'[u] = Older(claimAge[u])
      BY <1>14 DEF Tick
    <3>2. QED
      BY <1>14, <2>1, <2>2, <3>1 DEF IInv, HolderOwnsRow, Tick
  <2>5. RetryBudget' /\ FailuresCounted'
    BY <1>14 DEF IInv, RetryBudget, FailuresCounted, Tick, historyVars
  <2>6. FireLedger'
    <3>1. \A u \in Tasks : Holders(u)' = Holders(u) /\ Open(u)' = Open(u)
      BY <2>1, <2>2 DEF Holders, Open
    <3>2. QED
      BY <1>14, <3>1, LedgerKept DEF Tick, historyVars
  <2>7. QED
    BY <2>3, <2>4, <2>5, <2>6 DEF IInv
<1>15. CASE UNCHANGED vars
  BY <1>1, <1>15 DEF vars, rowVars, historyVars
<1>16. QED
  BY <1>2, <1>3, <1>4, <1>5, <1>6, <1>7, <1>8, <1>9, <1>10, <1>12, <1>13, <1>14, <1>15
     DEF Next, CallerStep, PollerStep

(* The invariant holds in every reachable state.                           *)
LEMMA Invariance == Spec => []IInv
<1>1. Init => IInv
  BY InitIInv
<1>2. IInv /\ [Next]_vars => IInv'
  BY NextIInv
<1>3. QED
  BY <1>1, <1>2, PTL DEF Spec

(* A task has two holders only after it was taken from a live poller whose *)
(* claim was stale: claim_due_tasks hands a due task to exactly one of     *)
(* them otherwise, however long they take.                                 *)
THEOREM ExclusiveHolding == Spec => []SharedOnlyIfTaken
<1>1. IInv => SharedOnlyIfTaken
  BY DEF IInv, Together, Marked, SharedOnlyIfTaken
<1>2. QED
  BY <1>1, Invariance, PTL

(* complete_task and fail_task, whose UPDATEs test nothing but the id,     *)
(* find the row as it was claimed as long as no other poller has held it   *)
(* meanwhile.                                                              *)
THEOREM UnguardedUpdatesAreSafe == Spec => []HolderOwnsRow
<1>1. IInv => HolderOwnsRow
  BY DEF IInv
<1>2. QED
  BY <1>1, Invariance, PTL

(* A due time completes once, plus once per death between the task_runs    *)
(* row and complete_task, plus once per overtaking of a live poller.       *)
THEOREM DueTimesFireOnce == Spec => []FiresOnce
<1>1. IInv => FiresOnce
  <2> SUFFICES ASSUME IInv, NEW t \in Tasks PROVE fired[t] <= 1 + lost[t] + overruns[t]
    BY DEF FiresOnce
  <2>1. Covered(fired[t], Cardinality(Open(t)), lost[t], overruns[t])
    BY DEF IInv, FireLedger
  <2>2. fired[t] \in Nat /\ lost[t] \in Nat /\ overruns[t] \in Nat
    BY DEF IInv, TypeOK
  <2>3. Cardinality(Open(t)) \in Nat
    BY HoldersFinite
  <2>4. QED
    BY <2>1, <2>2, <2>3 DEF Covered
<1>2. QED
  BY <1>1, Invariance, PTL

(* fail_task's read-modify-write counts no failure twice, and as long as   *)
(* the task is never taken from a live poller it loses none and keeps the  *)
(* count within max_retries.                                               *)
THEOREM RetriesAreExact == Spec => []RetriesExact
<1>1. IInv => RetriesExact
  BY DEF IInv, RetriesExact
<1>2. QED
  BY <1>1, Invariance, PTL

-----------------------------------------------------------------------------
(* No step revives a terminal row: only a holder's step could, and a       *)
(* holder that was never overtaken has a claimed row.                      *)

LEMMA TerminalStep ==
  IInv /\ [Next]_vars
    => [\A t \in Tasks : status[t] \in Terminal /\ overruns[t] = 0 => status'[t] = status[t]]_vars
<1> SUFFICES ASSUME IInv, [Next]_vars, NEW t \in Tasks, status[t] \in Terminal, overruns[t] = 0
             PROVE  status'[t] = status[t]
  OBVIOUS
<1>1. status[t] # "absent" /\ status[t] # "pending" /\ status[t] # "claimed"
  BY DEF Terminal
<1>2. \A p \in Pollers : ~ Holds(p, t)
  BY <1>1 DEF IInv, Marked, HolderOwnsRow
<1>3. CASE CallerStep
  BY <1>1, <1>3 DEF IInv, TypeOK, CallerStep, Insert, Cancel, Update, Defer, Pending
<1>4. ASSUME NEW p \in Pollers, Claim(p)
      PROVE  status'[t] = status[t]
  BY <1>1, <1>4 DEF Claim, Claimable, IsDue, IsStale
<1>5. ASSUME NEW p \in Pollers, NEW u \in Tasks, PollerStep(p, u)
      PROVE  status'[t] = status[t]
  <2>1. Holds(p, u)
    BY <1>5 DEF PollerStep, RunEnds, RecordRun, CompleteOnce, CompleteRecurring, FailRead,
                FailRetry, FailFinally, Holds
  <2>2. u # t
    BY <1>2, <2>1
  <2>3. QED
    BY <1>5, <2>2 DEF IInv, TypeOK, PollerStep, RunEnds, RecordRun, CompleteOnce,
                      CompleteRecurring, FailRead, FailRetry, FailFinally, rowVars
<1>6. CASE \/ Tick
           \/ UNCHANGED vars
           \/ \E p \in Pollers : Crash(p)
  BY <1>6 DEF Tick, vars, rowVars, Crash
<1>7. QED
  BY <1>3, <1>4, <1>5, <1>6 DEF Next

(* A delivered, failed or cancelled task stays so unless it was taken from *)
(* a live poller.                                                          *)
THEOREM TerminalStays == Spec => TerminalIsFinal
<1>1. IInv /\ [Next]_vars
        => [\A t \in Tasks : status[t] \in Terminal /\ overruns[t] = 0 => status'[t] = status[t]]_vars
  BY TerminalStep
<1>2. QED
  BY <1>1, Invariance, PTL DEF Spec, TerminalIsFinal

-----------------------------------------------------------------------------
(* The table and its pollers implement ExclusiveDispatch.                  *)

LEMMA InitDispatch == Init => Dispatch!Init
<1> SUFFICES ASSUME Init PROVE Dispatch!Init
  OBVIOUS
<1>1. \A t \in Tasks : Holders(t) = {}
  BY DEF Init, Holders, Holds, NoHold
<1>2. \A t \in Tasks : Phase(t) = "waiting" /\ Late(t) = FALSE
  BY <1>1 DEF Init, Phase, Terminal, Late
<1>3. QED
  BY <1>1, <1>2 DEF Dispatch!Init

(* What ExclusiveDispatch sees of TaskQueue.                               *)
DispatchVars ==
  <<[t \in Tasks |-> Holders(t)], [t \in Tasks |-> Phase(t)], [t \in Tasks |-> Late(t)]>>

(* p lets go of t and the row is free or settled: lateness lasts only with *)
(* the other holders.                                                      *)
LEMMA LatenessLasts ==
  ASSUME IInv, NEW p \in Pollers, NEW t \in Tasks, Holds(p, t),
         hold' = [hold EXCEPT ![p][t] = NoHold], status'[t] # "claimed",
         \A u \in Tasks : u # t => status'[u] = status[u] /\ claimAge'[u] = claimAge[u]
  PROVE  /\ [u \in Tasks |-> Late(u)]' = [u \in Tasks |-> Late(u) /\ Holders(u)' # {}]
         /\ [u \in Tasks |-> Holders(u)]' = [[u \in Tasks |-> Holders(u)] EXCEPT ![t] = @ \ {p}]
<1> TypeOK
  BY DEF IInv
<1>1. /\ OnlyHere(p, t)
      /\ \A q \in Pollers, u \in Tasks : Holds(q, u)' <=> Holds(q, u) /\ ~ (q = p /\ u = t)
      /\ Holders(t)' = Holders(t) \ {p}
      /\ \A u \in Tasks : u # t => Holders(u)' = Holders(u)
  BY LettingGo
<1>2. \A u \in Tasks : u # t => Late(u)' = (Late(u) /\ Holders(u)' # {})
  <2> SUFFICES ASSUME NEW u \in Tasks, u # t PROVE Late(u)' = (Late(u) /\ Holders(u)' # {})
    OBVIOUS
  <2>1. IsStale(u)' = IsStale(u) /\ Holders(u)' = Holders(u)
    BY <1>1 DEF IsStale
  <2>2. \A q \in Holders(u) : hold'[q][u] = hold[q][u]
    BY <1>1 DEF OnlyHere, Holders
  <2>3. Late(u)' <=> Late(u)
    BY <2>1, <2>2 DEF Late
  <2>4. Late(u) => Holders(u)' # {}
    BY <2>1 DEF Late
  <2>5. QED
    BY <2>3, <2>4 DEF Late
<1>3. Late(t)' = (Late(t) /\ Holders(t)' # {})
  <2>1. ~ IsStale(t)'
    BY DEF IsStale
  <2>2. \A q \in Holders(t)' : q \in Holders(t) /\ ~ hold[q][t].alone /\ hold'[q][t] = hold[q][t]
    BY <1>1 DEF IInv, Together, Holders, OnlyHere
  <2>3. Holders(t)' # {} => Late(t) /\ Late(t)'
    BY <2>2 DEF Late
  <2>4. Holders(t)' = {} => Late(t)' = FALSE
    BY DEF Late
  <2>5. QED
    BY <2>3, <2>4 DEF Late
<1>4. QED
  BY <1>1, <1>2, <1>3

(* Every step of TaskQueue is a step of ExclusiveDispatch or a stutter.    *)
LEMMA NextDispatch == IInv /\ IInv' /\ [Next]_vars => [Dispatch!Next]_DispatchVars
<1> SUFFICES ASSUME IInv, IInv', [Next]_vars
             PROVE  Dispatch!Next \/ UNCHANGED DispatchVars
  OBVIOUS
<1> USE ConstantsOK
<1> TypeOK /\ TypeOK'
  BY DEF IInv
<1> DEFINE owners == [t \in Tasks |-> Holders(t)]
           phase == [t \in Tasks |-> Phase(t)]
           late == [t \in Tasks |-> Late(t)]
<1>1. ASSUME \A p \in Pollers, t \in Tasks : /\ Holds(p, t)' <=> Holds(p, t)
                                             /\ hold'[p][t].alone = hold[p][t].alone,
             \A t \in Tasks : IsStale(t)' <=> IsStale(t)
      PROVE  owners' = owners /\ late' = late
  <2>1. \A t \in Tasks : Holders(t)' = Holders(t)
    BY <1>1 DEF Holders
  <2>2. \A t \in Tasks : \A p \in Holders(t) : hold'[p][t].alone = hold[p][t].alone
    BY <1>1 DEF Holders
  <2>3. \A t \in Tasks : Late(t)' <=> Late(t)
    BY <1>1, <2>1, <2>2 DEF Late
  <2>4. \A t \in Tasks : Late(t)' = Late(t)
    BY <2>3 DEF Late
  <2>5. QED
    BY <2>1, <2>4
<1>2. ASSUME UNCHANGED <<hold, claimAge>>,
             \A t \in Tasks : status'[t] = "claimed" <=> status[t] = "claimed"
      PROVE  owners' = owners /\ late' = late
  <2>1. \A p \in Pollers, t \in Tasks : /\ Holds(p, t)' <=> Holds(p, t)
                                        /\ hold'[p][t].alone = hold[p][t].alone
    BY <1>2 DEF Holds
  <2>2. \A t \in Tasks : IsStale(t)' <=> IsStale(t)
    BY <1>2 DEF IsStale
  <2>3. QED
    BY <1>1, <2>1, <2>2
<1>3. ASSUME NEW t \in Tasks, NEW d \in DueChoices, NEW r \in Repeats, Insert(t, d, r)
      PROVE  UNCHANGED DispatchVars
  <2>1. phase' = phase
    BY <1>3 DEF Insert, Phase, Terminal, TypeOK
  <2>2. owners' = owners /\ late' = late
    BY <1>2, <1>3 DEF Insert, TypeOK
  <2>3. QED
    BY <2>1, <2>2 DEF DispatchVars
<1>4. ASSUME NEW S \in SUBSET Tasks, Cancel(S)
      PROVE  Dispatch!Next
  <2>1. phase' = [t \in Tasks |-> IF t \in Pending(S) THEN "settled" ELSE phase[t]]
    BY <1>4 DEF Cancel, Phase, Terminal
  <2>2. \A t \in Pending(S) : phase[t] = "waiting"
    BY DEF Pending, Phase, Terminal
  <2>3. owners' = owners /\ late' = late
    BY <1>2, <1>4 DEF Cancel, TypeOK, Pending
  <2>4. Dispatch!Withdraw(Pending(S))
    BY <2>1, <2>2, <2>3 DEF Dispatch!Withdraw
  <2>5. Pending(S) \in SUBSET Tasks
    BY DEF Pending
  <2>6. QED
    BY <2>4, <2>5 DEF Dispatch!Next
<1>5. ASSUME NEW S \in SUBSET Tasks, NEW d \in DueChoices, NEW r \in Repeats,
             NEW given \in SUBSET {"due", "repeat"}, Update(S, d, r, given)
      PROVE  UNCHANGED DispatchVars
  <2>1. owners' = owners /\ late' = late
    BY <1>2, <1>5 DEF Update
  <2>2. QED
    BY <1>5, <2>1 DEF Update, Phase, DispatchVars
<1>6. ASSUME NEW t \in Tasks, NEW d \in DueChoices, Defer(t, d)
      PROVE  UNCHANGED DispatchVars
  <2>1. owners' = owners /\ late' = late
    BY <1>2, <1>6 DEF Defer
  <2>2. QED
    BY <1>6, <2>1 DEF Defer, Phase, DispatchVars
<1>7. ASSUME NEW p \in Pollers, Claim(p)
      PROVE  Dispatch!Next
  <2>1. \A q \in Pollers, t \in Tasks :
          hold'[q][t] = IF t \notin Claimable THEN hold[q][t]
                        ELSE IF q = p THEN Handed(t)
                        ELSE IF Holds(q, t) THEN [hold[q][t] EXCEPT !.alone = FALSE] ELSE hold[q][t]
    BY <1>7 DEF Claim
  <2>2. \A t \in Tasks : ~ Holds(p, t)
    BY <1>7 DEF Claim, Idle
  <2>3. ASSUME NEW t \in Tasks, t \notin Claimable
        PROVE  Holders(t)' = Holders(t) /\ Late(t)' = Late(t)
    <3>1. \A q \in Pollers : hold'[q][t] = hold[q][t]
      BY <2>1, <2>3
    <3>2. Holders(t)' = Holders(t)
      BY <3>1 DEF Holders, Holds
    <3>3. IsStale(t)' <=> IsStale(t)
      BY <1>7, <2>3 DEF Claim, IsStale
    <3>4. Late(t)' <=> Late(t)
      BY <3>1, <3>2, <3>3 DEF Late, Holders
    <3>5. QED
      BY <3>2, <3>4 DEF Late
  <2>4. ASSUME NEW t \in Claimable
        PROVE  /\ Holders(t)' = Holders(t) \cup {p}
               /\ Late(t)' <=> Holders(t) # {}
    <3>1. t \in Tasks
      BY DEF Claimable
    <3>2. hold'[p][t] = Handed(t)
      BY <2>1, <3>1
    <3>3. hold'[p][t].stage = "running" /\ hold'[p][t].alone = (Holders(t) = {})
      BY <3>2 DEF Handed
    <3>4. \A q \in Pollers : q # p => (Holds(q, t)' <=> Holds(q, t))
      <4> SUFFICES ASSUME NEW q \in Pollers, q # p PROVE Holds(q, t)' <=> Holds(q, t)
        OBVIOUS
      <4>1. hold[q][t] \in Hold
        BY <3>1 DEF TypeOK
      <4>2. hold'[q][t] = IF Holds(q, t) THEN [hold[q][t] EXCEPT !.alone = FALSE] ELSE hold[q][t]
        BY <2>1, <3>1
      <4>3. hold'[q][t].stage = hold[q][t].stage
        BY <4>1, <4>2 DEF Hold
      <4>4. QED
        BY <4>3 DEF Holds
    <3>5. Holders(t)' = Holders(t) \cup {p}
      BY <3>3, <3>4 DEF Holders, Holds
    <3>6. ~ IsStale(t)'
      BY <1>7, <3>1 DEF Claim, IsStale
    <3>7. Holders(t) # {} => Late(t)'
      BY <3>3, <3>5 DEF Late
    <3>8. Late(t)' => Holders(t) # {}
      BY <3>3, <3>5, <3>6 DEF Late
    <3>9. QED
      BY <3>5, <3>7, <3>8
  <2>5. \A t \in Claimable : Late(t)' = Late(t)
    <3> SUFFICES ASSUME NEW t \in Claimable PROVE Late(t)' = Late(t)
      OBVIOUS
    <3>1. Late(t) <=> Holders(t) # {}
      <4>1. CASE IsStale(t)
        BY <4>1 DEF Late
      <4>2. CASE ~ IsStale(t)
        <5>1. t \in Tasks /\ status[t] # "claimed"
          BY <4>2 DEF Claimable, IsDue
        <5>2. \A q \in Holders(t) : ~ hold[q][t].alone
          BY <5>1 DEF IInv, HolderOwnsRow, Holders
        <5>3. QED
          BY <5>2 DEF Late
      <4>3. QED
        BY <4>1, <4>2
    <3>2. QED
      BY <2>4, <3>1 DEF Late
  <2>6. owners' = [t \in Tasks |-> IF t \in Claimable THEN owners[t] \cup {p} ELSE owners[t]]
    BY <2>3, <2>4
  <2>7. phase' = [t \in Tasks |-> IF t \in Claimable THEN "handed" ELSE phase[t]]
    BY <1>7 DEF Claim, Phase, Terminal
  <2>8. late' = late
    BY <2>3, <2>5
  <2>9. \A t \in Tasks : p \notin owners[t]
    BY <2>2 DEF Holders
  <2>10. Claimable \in SUBSET Tasks /\ Claimable # {}
    BY <1>7 DEF Claimable, Claim
  <2>11. \A t \in Claimable : (owners[t] = {} \/ late[t]) /\ phase[t] # "settled"
    <3> SUFFICES ASSUME NEW t \in Claimable
                 PROVE  (Holders(t) = {} \/ Late(t)) /\ Phase(t) # "settled"
      BY <2>10
    <3>1. Holders(t) = {} \/ Late(t)
      BY <2>4, <2>5
    <3>2. Phase(t) # "settled"
      BY DEF Claimable, IsDue, IsStale, Phase, Terminal
    <3>3. QED
      BY <3>1, <3>2
  <2>12. Dispatch!HandOut(p, Claimable)
    BY <2>6, <2>7, <2>8, <2>9, <2>10, <2>11 DEF Dispatch!HandOut, Dispatch!Exclusive
  <2>13. QED
    BY <2>10, <2>12 DEF Dispatch!Next
<1>8. ASSUME NEW p \in Pollers, NEW t \in Tasks, RunEnds(p, t) \/ FailRead(p, t)
      PROVE  UNCHANGED DispatchVars
  <2>1. hold[p][t] \in Hold
    BY DEF TypeOK
  <2>2. \A q \in Pollers, u \in Tasks : /\ Holds(q, u)' <=> Holds(q, u)
                                        /\ hold'[q][u].alone = hold[q][u].alone
    <3>1. CASE RunEnds(p, t)
      <4>1. PICK outcome \in {"completed", "failed"} : RecordRun(p, t, outcome)
        BY <3>1 DEF RunEnds
      <4>2. /\ Holds(p, t)
            /\ hold'[p][t].stage = outcome /\ hold'[p][t].alone = hold[p][t].alone
            /\ OnlyHere(p, t)
        BY <2>1, <4>1 DEF TypeOK, RecordRun, Holds, Hold, OnlyHere
      <4>3. QED
        BY <4>2 DEF Holds, OnlyHere
    <3>2. CASE FailRead(p, t)
      <4>1. /\ Holds(p, t)
            /\ hold'[p][t].stage = "failing" /\ hold'[p][t].alone = hold[p][t].alone
            /\ OnlyHere(p, t)
        BY <2>1, <3>2 DEF TypeOK, FailRead, Holds, Hold, OnlyHere
      <4>2. QED
        BY <4>1 DEF Holds, OnlyHere
    <3>3. QED
      BY <1>8, <3>1, <3>2
  <2>3. UNCHANGED rowVars
    BY <1>8 DEF RunEnds, RecordRun, FailRead
  <2>4. owners' = owners /\ late' = late
    BY <1>1, <2>2, <2>3 DEF rowVars, IsStale
  <2>5. QED
    BY <2>3, <2>4 DEF rowVars, Phase, DispatchVars
<1>9. ASSUME NEW p \in Pollers, NEW t \in Tasks, Holds(p, t), NEW next \in {"waiting", "settled"},
             hold' = [hold EXCEPT ![p][t] = NoHold], Phase(t)' = next, status'[t] # "claimed",
             \A u \in Tasks : u # t => status'[u] = status[u] /\ claimAge'[u] = claimAge[u]
      PROVE  Dispatch!Next
  <2>1. /\ late' = [u \in Tasks |-> Late(u) /\ Holders(u)' # {}]
        /\ owners' = [owners EXCEPT ![t] = @ \ {p}]
    BY <1>9, LatenessLasts
  <2>2. late' = [u \in Tasks |-> late[u] /\ owners'[u] # {}]
    BY <2>1
  <2>3. phase' = [phase EXCEPT ![t] = next]
    BY <1>9 DEF Phase
  <2>4. p \in owners[t]
    BY <1>9 DEF Holders
  <2>5. Dispatch!GiveBack(p, t, next)
    BY <2>1, <2>2, <2>3, <2>4 DEF Dispatch!GiveBack, Dispatch!StaysLate
  <2>6. QED
    BY <2>5 DEF Dispatch!Next
<1>10. ASSUME NEW p \in Pollers, NEW t \in Tasks,
              \/ CompleteOnce(p, t)
              \/ CompleteRecurring(p, t)
              \/ FailRetry(p, t)
              \/ FailFinally(p, t)
       PROVE  Dispatch!Next
  <2>1. Holds(p, t) /\ hold' = [hold EXCEPT ![p][t] = NoHold]
    BY <1>10 DEF CompleteOnce, CompleteRecurring, FailRetry, FailFinally, Holds
  <2>2. \A u \in Tasks : u # t => status'[u] = status[u] /\ claimAge'[u] = claimAge[u]
    BY <1>10 DEF CompleteOnce, CompleteRecurring, FailRetry, FailFinally, TypeOK
  <2>3. status'[t] \in {"delivered", "pending", "failed"}
    BY <1>10 DEF CompleteOnce, CompleteRecurring, FailRetry, FailFinally, TypeOK
  <2>4. Phase(t)' \in {"waiting", "settled"} /\ status'[t] # "claimed"
    BY <2>3 DEF Phase, Terminal
  <2>5. QED
    BY <1>9, <2>1, <2>2, <2>4
<1>11. ASSUME NEW p \in Pollers, Crash(p)
       PROVE  Dispatch!Next
  <2>1. /\ \A u \in Tasks : hold'[p][u] = NoHold
        /\ \A q \in Pollers, u \in Tasks : q # p => hold'[q][u] = hold[q][u]
    BY <1>11 DEF TypeOK, Crash
  <2>2. \A u \in Tasks : Holders(u)' = Holders(u) \ {p}
    BY <2>1 DEF Holders, Holds, NoHold
  <2>3. owners' = [u \in Tasks |-> owners[u] \ {p}]
    BY <2>2
  <2>4. phase' = phase
    BY <1>11 DEF Crash, rowVars, Phase
  <2>5. \A u \in Tasks : Late(u)' = (Late(u) /\ Holders(u)' # {})
    <3> SUFFICES ASSUME NEW u \in Tasks PROVE Late(u)' = (Late(u) /\ Holders(u)' # {})
      OBVIOUS
    <3>1. IsStale(u)' <=> IsStale(u)
      BY <1>11 DEF Crash, rowVars, IsStale
    <3>2. \A q \in Holders(u)' : q \in Holders(u) /\ hold'[q][u] = hold[q][u]
      BY <2>1, <2>2 DEF Holders
    <3>3. Late(u)' => Late(u)
      BY <3>1, <3>2 DEF Late
    <3>4. Late(u) /\ Holders(u)' # {} => Late(u)'
      <4> SUFFICES ASSUME Late(u), NEW q \in Holders(u)' PROVE Late(u)'
        OBVIOUS
      <4>1. CASE IsStale(u)
        BY <3>1, <4>1 DEF Late
      <4>2. CASE ~ IsStale(u)
        <5>1. PICK r \in Holders(u) : ~ hold[r][u].alone
          BY <4>2 DEF Late
        <5>2. ~ hold[q][u].alone
          <6>1. CASE q = r
            BY <5>1, <6>1
          <6>2. CASE q # r
            BY <3>2, <5>1, <6>2 DEF IInv, Together, Holders
          <6>3. QED
            BY <6>1, <6>2
        <5>3. QED
          BY <3>2, <5>2 DEF Late
      <4>3. QED
        BY <4>1, <4>2
    <3>5. QED
      BY <3>3, <3>4 DEF Late
  <2>6. late' = [u \in Tasks |-> late[u] /\ owners'[u] # {}]
    BY <2>5
  <2>7. Dispatch!Die(p)
    BY <2>3, <2>4, <2>6 DEF Dispatch!Die, Dispatch!StaysLate
  <2>8. QED
    BY <2>7 DEF Dispatch!Next
<1>12. ASSUME Tick
       PROVE  Dispatch!Next
  <2> DEFINE S == {t \in Tasks : IsStale(t)' /\ Holders(t) # {}}
  <2>1. \A q \in Pollers, u \in Tasks : /\ Holds(q, u)' <=> Holds(q, u)
                                        /\ hold'[q][u].alone = hold[q][u].alone
    <3> SUFFICES ASSUME NEW q \in Pollers, NEW u \in Tasks
                 PROVE  /\ Holds(q, u)' <=> Holds(q, u)
                        /\ hold'[q][u].alone = hold[q][u].alone
      OBVIOUS
    <3>1. hold[q][u] \in Hold
      BY DEF TypeOK
    <3>2. hold'[q][u] = IF Holds(q, u) THEN [hold[q][u] EXCEPT !.age = Older(@)] ELSE hold[q][u]
      BY <1>12 DEF Tick
    <3>3. QED
      BY <3>1, <3>2 DEF Hold, Holds
  <2>2. \A u \in Tasks : Holders(u)' = Holders(u)
    BY <2>1 DEF Holders
  <2>3. \A u \in Tasks : IsStale(u) => IsStale(u)'
    <3> SUFFICES ASSUME NEW u \in Tasks, IsStale(u) PROVE IsStale(u)'
      OBVIOUS
    <3>1. status'[u] = status[u] /\ claimAge'[u] = Older(claimAge[u])
      BY <1>12 DEF Tick
    <3>2. claimAge[u] \in 0..StaleAfter \cup {NoClaim}
      BY DEF TypeOK
    <3>3. QED
      BY <3>1, <3>2 DEF IsStale, Older, NoClaim
  <2>4. \A u \in Tasks : Late(u)' = (Late(u) \/ u \in S)
    <3> SUFFICES ASSUME NEW u \in Tasks PROVE Late(u)' = (Late(u) \/ u \in S)
      OBVIOUS
    <3>1. \A q \in Holders(u) : hold'[q][u].alone = hold[q][u].alone
      BY <2>1 DEF Holders
    <3>2. Late(u)' <=> Late(u) \/ u \in S
      BY <2>2, <2>3, <3>1 DEF Late
    <3>3. QED
      BY <3>2 DEF Late
  <2>5. owners' = owners
    BY <2>2
  <2>6. phase' = phase
    BY <1>12 DEF Tick, Phase
  <2>7. late' = [u \in Tasks |-> late[u] \/ u \in S]
    BY <2>4
  <2>8. \A u \in S : phase[u] = "handed" /\ owners[u] # {}
    BY <1>12 DEF Tick, IsStale, Phase, Terminal
  <2>9. Dispatch!Expire(S)
    BY <2>5, <2>6, <2>7, <2>8 DEF Dispatch!Expire
  <2>10. S \in SUBSET Tasks
    OBVIOUS
  <2>11. QED
    BY <2>9, <2>10 DEF Dispatch!Next
<1>13. CASE UNCHANGED vars
  <2>1. owners' = owners /\ late' = late
    BY <1>2, <1>13 DEF vars, rowVars
  <2>2. QED
    BY <1>13, <2>1 DEF vars, rowVars, Phase, DispatchVars
<1>14. QED
  BY <1>3, <1>4, <1>5, <1>6, <1>7, <1>8, <1>10, <1>11, <1>12, <1>13
     DEF Next, CallerStep, PollerStep

(* The claim protocol implements exclusive dispatch with late owners.      *)
THEOREM Refinement == Spec => ImplementsDispatch
<1>1. Init => Dispatch!Init
  BY InitDispatch
<1>2. IInv /\ IInv' /\ [Next]_vars
        => [Dispatch!Next]_<<[t \in Tasks |-> Holders(t)], [t \in Tasks |-> Phase(t)],
                             [t \in Tasks |-> Late(t)]>>
  BY NextDispatch DEF DispatchVars
<1>3. QED
  BY <1>1, <1>2, Invariance, PTL DEF Spec, ImplementsDispatch, Dispatch!Spec

-----------------------------------------------------------------------------
(* Opening a store.  The scripts are looked at one by one: what each leaves *)
(* in the file says when it can run and what it makes of the tables.       *)

(* The lessons table of 011 and of 013.                                    *)
OneEach  == {Self, "project"}
ManyEach == {Self, "project", "many"}

Final ==
  [t \in Tables |->
    CASE t = "facts"   -> {Self, "sender_id", "deleted_at"}
      [] t = "lessons" -> ManyEach \cup {"indexes"}
      [] t \in {"lessons_new", "lessons_v2"} -> {}
      [] OTHER -> UNION {st.parts : st \in {x \in Statements : x.table = t}}]

(* A schema s on its way to the newest.                                    *)
Shape(s) ==
  /\ s \in [Tables -> SUBSET Parts]
  /\ \A t \in Tables \ RowTables : s[t] \subseteq Final[t] /\ (s[t] = {} \/ Exists(s, t))

(* What st adds to a table that is never dropped is there.                 *)
Has(s, st) == st.table \notin RowTables => st.parts \subseteq s[st.table]

(* The statements of script m before i have run.                           *)
Reached(s, m, i) ==
  /\ \A j \in 1..(i - 1) : Has(s, Script[m][j])
  /\ m = 3 /\ i = 6 => {Self, "sender_id"} \subseteq s["facts"] /\ s["facts"] \subseteq Final["facts"]
  /\ m = 17 /\ i = 2 => "deleted_at" \in s["facts"]
  /\ m = 11 /\ i \in 3..5 => s["lessons_new"] = OneEach
  /\ m = 11 /\ i \in 6..7 => s["lessons_new"] = {}
  /\ m = 13 /\ i \in 2..4 => s["lessons_v2"] = ManyEach
  /\ m = 13 /\ i = 5 => s["lessons"] = ManyEach /\ s["lessons_v2"] = {}
  /\ m = 13 /\ i = 6 => s["lessons"] = Final["lessons"] /\ s["lessons_v2"] = {}

DoneIn(s, m) == Reached(s, m, Len(Script[m]) + 1)

(* What a process that the record r describes has still to run, and next.  *)
Rest(r) == {m \in Migrations : m \notin r.known /\ m >= r.at}
Nearest(r) == CHOOSE m \in Rest(r) : \A n \in Rest(r) : m <= n

(* Lessons are in the copy when their table goes, and only there after.    *)
RowsAt(m, i, w) ==
  /\ m = 11 /\ i = 4 => w["lessons"] \subseteq w["lessons_new"]
  /\ m = 11 /\ i = 5 => w["lessons"] = {}
  /\ m = 13 /\ i = 3 => w["lessons"] \subseteq w["lessons_v2"]
  /\ m = 13 /\ i = 4 => w["lessons"] = {}

(* It is at statement i of script m: the scripts are recorded in order,    *)
(* and one of the first thirteen is run only by a process that is alone.   *)
AtStatement(m, i, s, a, b, w) ==
  /\ m \in Migrations /\ i \in 1..Len(Script[m]) /\ Reached(s, m, i)
  /\ 1..(m - 1) \subseteq a
  /\ m <= 13 => a \subseteq 1..(m - 1)
  /\ m = 3 /\ i > 1 => b < 3
  /\ RowsAt(m, i, w)

(* It has run script m and has yet to record it.                           *)
AtRecord(m, s, a) == m \in Migrations /\ DoneIn(s, m) /\ (m <= 13 => a \subseteq 1..(m - 1))

ProcessInv(r, s, a, b, w) ==
  /\ r.known \subseteq a /\ 1..(r.at - 1) \subseteq a
  /\ r.stage \in {"absent", "table", "count", "look", "load"} => r.at = 1
  /\ r.stage \notin {"run", "failed", "open"} => r.step = 1
  /\ r.stage = "look" => a = {}
  /\ r.stage = "boot" => b >= 3 /\ r.at <= 3
  /\ r.stage = "run" /\ Rest(r) # {} => AtStatement(Nearest(r), r.step, s, a, b, w)
  /\ r.stage = "record" => AtRecord(r.at, s, a)
  /\ r.stage = "open" => Migrations \subseteq a

StoreInv(s, a, b) ==
  /\ Shape(s)
  /\ \A m \in a : DoneIn(s, m) /\ 1..m \subseteq a
  /\ \A m \in 1..b : DoneIn(s, m)
  /\ b # 3 => 1..b \subseteq a
  /\ a = {} /\ "summary" \in s["conversations"] => b >= 3

LessonsIn(w) == w["lessons"] \cup w["lessons_new"] \cup w["lessons_v2"]

RowsInv(a, b, w) ==
  /\ b >= 3 => "old" \in w["facts"]
  /\ b >= 10 => "old" \in LessonsIn(w)
  /\ w["facts"] \ {"old"} = LessonsIn(w) \ {"old"}
  /\ 13 \notin a => w["facts"] \subseteq {"old"}

Alone == \A p, q \in Processes : Opening(p) /\ Opening(q) /\ 13 \notin applied => p = q

OpenInv ==
  /\ OpenTypeOK /\ Alone
  /\ StoreInv(schema, applied, born) /\ RowsInv(applied, born, rows)
  /\ \A p \in Processes : ProcessInv(proc[p], schema, applied, born, rows)

-----------------------------------------------------------------------------
(* The scripts.  A plain statement is about a table that is never dropped. *)

Plain(st) ==
  /\ st.table \notin RowTables
  /\ st.op = "create" => Self \in st.parts
  /\ st.op \in {"ensure", "create", "add", "copy"}
  /\ st.op = "ensure" => st.parts = {Self}
  /\ st.op = "copy" => st.parts = {}

(* Where the other statements are.                                         *)
Dropping ==
  {<<1, 3>>, <<3, 4>>, <<3, 5>>, <<10, 2>>, <<11, 2>>, <<11, 3>>, <<11, 4>>, <<11, 5>>,
   <<13, 1>>, <<13, 2>>, <<13, 3>>, <<13, 4>>, <<13, 5>>, <<17, 1>>}

LEMMA ScriptSizes ==
  /\ Len(Script) = 19 /\ DOMAIN Script = 1..19
  /\ Len(Script[1]) = 3 /\ Len(Script[2]) = 1 /\ Len(Script[3]) = 5 /\ Len(Script[4]) = 5
  /\ Len(Script[5]) = 1 /\ Len(Script[6]) = 1 /\ Len(Script[7]) = 1 /\ Len(Script[8]) = 1
  /\ Len(Script[9]) = 2 /\ Len(Script[10]) = 2 /\ Len(Script[11]) = 6 /\ Len(Script[12]) = 2
  /\ Len(Script[13]) = 5 /\ Len(Script[14]) = 2 /\ Len(Script[15]) = 1 /\ Len(Script[16]) = 4
  /\ Len(Script[17]) = 1 /\ Len(Script[18]) = 2 /\ Len(Script[19]) = 2
  BY DEF Script, ManyLessons

LEMMA DroppingStatements ==
  /\ Script[1][3] = Ensure("facts", {})
  /\ Script[3][4] = DropIf("facts") /\ Script[3][5] = Create("facts", {"sender_id"})
  /\ Script[10][2] = Ensure("lessons", {})
  /\ Script[11][2] = Create("lessons_new", {"project"}) /\ Script[11][3] = Copy("lessons", "lessons_new")
  /\ Script[11][4] = Drop("lessons") /\ Script[11][5] = Rename("lessons_new", "lessons")
  /\ Script[13][1] = Create("lessons_v2", {"project", "many"}) /\ Script[13][2] = Copy("lessons", "lessons_v2")
  /\ Script[13][3] = Drop("lessons") /\ Script[13][4] = Rename("lessons_v2", "lessons")
  /\ Script[13][5] = Add("lessons", "indexes")
  /\ Script[17][1] = Add("facts", "deleted_at")
  BY DEF Script, ManyLessons

LEMMA PlainStatements ==
  ASSUME NEW m \in Migrations, NEW i \in 1..Len(Script[m]), <<m, i>> \notin Dropping
  PROVE  Plain(Script[m][i])
<1>1. CASE m = 1
  BY <1>1, ScriptSizes DEF Script, ManyLessons, Dropping, Plain, RowTables, Self, Ensure, Create, Add, Copy
<1>2. CASE m = 2
  BY <1>2, ScriptSizes DEF Script, ManyLessons, Dropping, Plain, RowTables, Self, Ensure, Create, Add, Copy
<1>3. CASE m = 3
  BY <1>3, ScriptSizes DEF Script, ManyLessons, Dropping, Plain, RowTables, Self, Ensure, Create, Add, Copy
<1>4. CASE m = 4
  BY <1>4, ScriptSizes DEF Script, ManyLessons, Dropping, Plain, RowTables, Self, Ensure, Create, Add, Copy
<1>5. CASE m = 5
  BY <1>5, ScriptSizes DEF Script, ManyLessons, Dropping, Plain, RowTables, Self, Ensure, Create, Add, Copy
<1>6. CASE m = 6
  BY <1>6, ScriptSizes DEF Script, ManyLessons, Dropping, Plain, RowTables, Self, Ensure, Create, Add, Copy
<1>7. CASE m = 7
  BY <1>7, ScriptSizes DEF Script, ManyLessons, Dropping, Plain, RowTables, Self, Ensure, Create, Add, Copy
<1>8. CASE m = 8
  BY <1>8, ScriptSizes DEF Script, ManyLessons, Dropping, Plain, RowTables, Self, Ensure, Create, Add, Copy
<1>9. CASE m = 9
  BY <1>9, ScriptSizes DEF Script, ManyLessons, Dropping, Plain, RowTables, Self, Ensure, Create, Add, Copy
<1>10. CASE m = 10
  BY <1>10, ScriptSizes DEF Script, ManyLessons, Dropping, Plain, RowTables, Self, Ensure, Create, Add, Copy
<1>11. CASE m = 11
  BY <1>11, ScriptSizes DEF Script, ManyLessons, Dropping, Plain, RowTables, Self, Ensure, Create, Add, Copy
<1>12. CASE m = 12
  BY <1>12, ScriptSizes DEF Script, ManyLessons, Dropping, Plain, RowTables, Self, Ensure, Create, Add, Copy
<1>13. CASE m = 13
  BY <1>13, ScriptSizes DEF Script, ManyLessons, Dropping, Plain, RowTables, Self, Ensure, Create, Add, Copy
<1>14. CASE m = 14
  BY <1>14, ScriptSizes DEF Script, ManyLessons, Dropping, Plain, RowTables, Self, Ensure, Create, Add, Copy
<1>15. CASE m = 15
  BY <1>15, ScriptSizes DEF Script, ManyLessons, Dropping, Plain, RowTables, Self, Ensure, Create, Add, Copy
<1>16. CASE m = 16
  BY <1>16, ScriptSizes DEF Script, ManyLessons, Dropping, Plain, RowTables, Self, Ensure, Create, Add, Copy
<1>17. CASE m = 17
  BY <1>17, ScriptSizes DEF Script, ManyLessons, Dropping, Plain, RowTables, Self, Ensure, Create, Add, Copy
<1>18. CASE m = 18
  BY <1>18, ScriptSizes DEF Script, ManyLessons, Dropping, Plain, RowTables, Self, Ensure, Create, Add, Copy
<1>19. CASE m = 19
  BY <1>19, ScriptSizes DEF Script, ManyLessons, Dropping, Plain, RowTables, Self, Ensure, Create, Add, Copy
<1> QED
  BY <1>1, <1>2, <1>3, <1>4, <1>5, <1>6, <1>7, <1>8, <1>9, <1>10, <1>11, <1>12, <1>13, <1>14, <1>15, <1>16, <1>17, <1>18, <1>19, ScriptSizes DEF Migrations

LEMMA StatementFacts ==
  ASSUME NEW m \in Migrations, NEW i \in 1..Len(Script[m])
  PROVE  /\ Script[m][i] \in Statements /\ Script[m][i].table \in Tables
         /\ Script[m][i].parts \subseteq Parts
<1>1. Script[m][i] \in ToSet(Script[m])
  <2>1. DOMAIN Script[m] = 1..Len(Script[m])
    <3>1. \A n \in 1..19 : DOMAIN Script[n] = 1..Len(Script[n])
      BY DEF Script, ManyLessons
    <3> QED
      BY <3>1, ScriptSizes DEF Migrations
  <2> QED
    BY <2>1 DEF ToSet
<1>2. Script[m][i] \in Statements
  BY <1>1 DEF Statements
<1> QED
  BY <1>2 DEF Tables, Parts

LEMMA RowTablesAreTables == RowTables \subseteq Tables
<1>1. /\ Script[1][3].table = "facts" /\ Script[10][2].table = "lessons"
      /\ Script[11][2].table = "lessons_new" /\ Script[13][1].table = "lessons_v2"
  BY DroppingStatements DEF Ensure, Create
<1>2. /\ 3 \in 1..Len(Script[1]) /\ 2 \in 1..Len(Script[10]) /\ 2 \in 1..Len(Script[11]) /\ 1 \in 1..Len(Script[13])
      /\ {1, 10, 11, 13} \subseteq Migrations
  BY ScriptSizes DEF Migrations
<1> QED
  BY <1>1, <1>2, StatementFacts DEF RowTables

LEMMA FinalFacts ==
  /\ Final["facts"] = {Self, "sender_id", "deleted_at"}
  /\ Final["lessons"] = ManyEach \cup {"indexes"}
  /\ Final["lessons_new"] = {} /\ Final["lessons_v2"] = {}
  /\ \A st \in Statements : st.table \notin RowTables => st.parts \subseteq Final[st.table]
  /\ \A t \in Tables \ RowTables : \A x \in Final[t] : \E st \in Statements : st.table = t /\ x \in st.parts
<1>1. \A t \in Tables \ RowTables : Final[t] = UNION {st.parts : st \in {x \in Statements : x.table = t}}
  BY DEF Final, RowTables
<1>2. \A st \in Statements : st.table \notin RowTables => st.parts \subseteq Final[st.table]
  BY <1>1 DEF Tables
<1>3. \A t \in Tables \ RowTables : \A x \in Final[t] : \E st \in Statements : st.table = t /\ x \in st.parts
  BY <1>1
<1>4. /\ Final["facts"] = {Self, "sender_id", "deleted_at"} /\ Final["lessons"] = ManyEach \cup {"indexes"}
      /\ Final["lessons_new"] = {} /\ Final["lessons_v2"] = {}
  BY RowTablesAreTables DEF Final, RowTables
<1> QED
  BY <1>2, <1>3, <1>4

-----------------------------------------------------------------------------
(* What a statement does to a schema.                                      *)

(* What is needed of SQLite for it.                                        *)
Fits(st, s) ==
  st.table \notin RowTables =>
    /\ st.op = "create" => ~ Exists(s, st.table)
    /\ st.op = "add" => Exists(s, st.table)

LEMMA PlainAfter ==
  ASSUME NEW s, Shape(s), NEW st \in Statements, Plain(st), st.table \in Tables, st.parts \subseteq Parts,
         Fits(st, s), NEW z, z = SchemaAfter(st, s)
  PROVE  /\ Shape(z) /\ z[st.table] = s[st.table] \cup st.parts
         /\ \A t \in Tables \ {st.table} : z[t] = s[t]
<1>1. PICK t \in Tables \ RowTables : t = st.table
  BY DEF Plain
<1>2. s \in [Tables -> SUBSET Parts] /\ (s[t] = {} \/ Self \in s[t]) /\ s[t] \subseteq Final[t]
  BY <1>1 DEF Shape, Exists
<1>3. z = [s EXCEPT ![t] = s[t] \cup st.parts]
  <2>1. CASE st.op = "ensure"
    <3>1. st.parts = {Self} /\ z = IF Exists(s, t) THEN s ELSE [s EXCEPT ![t] = {Self}]
      BY <1>1, <2>1 DEF Plain, SchemaAfter
    <3>2. CASE Exists(s, t)
      <4>1. s[t] \cup {Self} = s[t]
        BY <3>2 DEF Exists
      <4> QED
        BY <1>2, <3>1, <3>2, <4>1
    <3>3. CASE ~ Exists(s, t)
      <4>1. s[t] \cup {Self} = {Self}
        BY <1>2, <3>3 DEF Exists
      <4> QED
        BY <3>1, <3>3, <4>1
    <3> QED
      BY <3>2, <3>3
  <2>2. CASE st.op = "create"
    <3>1. s[t] \cup st.parts = st.parts
      BY <1>1, <1>2, <2>2 DEF Plain, Fits, Exists
    <3>2. z = [s EXCEPT ![t] = st.parts]
      BY <1>1, <2>2 DEF SchemaAfter
    <3> QED
      BY <3>1, <3>2
  <2>3. CASE st.op = "add"
    BY <1>1, <2>3 DEF SchemaAfter
  <2>4. CASE st.op = "copy"
    <3>1. z = s /\ st.parts = {}
      BY <2>4 DEF SchemaAfter, Plain
    <3> QED
      BY <1>2, <3>1
  <2> QED
    BY <2>1, <2>2, <2>3, <2>4 DEF Plain
<1>4. z[t] = s[t] \cup st.parts /\ (\A u \in Tables \ {t} : z[u] = s[u]) /\ z \in [Tables -> SUBSET Parts]
  BY <1>2, <1>3
<1>5. z[t] \subseteq Final[t] /\ (z[t] = {} \/ Exists(z, t))
  <2>1. st.parts \subseteq Final[t]
    BY <1>1, FinalFacts
  <2>2. st.op \in {"ensure", "create"} => Self \in st.parts
    BY DEF Plain
  <2>3. st.op = "add" => Self \in s[t]
    BY <1>1 DEF Fits, Exists
  <2>4. st.op = "copy" => z[t] = s[t]
    BY <1>4 DEF Plain
  <2>5. st.op \in {"ensure", "create", "add", "copy"}
    BY DEF Plain
  <2> QED
    BY <1>2, <1>4, <2>1, <2>2, <2>3, <2>4, <2>5 DEF Exists
<1>6. Shape(z)
  BY <1>4, <1>5 DEF Shape, Exists
<1> QED
  BY <1>1, <1>4, <1>6

(* The tables of rows, after the statement at one of the places Dropping.  *)
SameBut(T, s, z) == \A t \in Tables \ T : z[t] = s[t]

DroppedAt(m, i, s, z) ==
  /\ m = 1 => SameBut({"facts"}, s, z) /\ (Exists(s, "facts") => z["facts"] = s["facts"])
  /\ m = 1 => z["facts"] \in {s["facts"], {Self}}
  /\ m = 3 => SameBut({"facts"}, s, z)
  /\ m = 3 /\ i = 4 => z["facts"] = {}
  /\ m = 3 /\ i = 5 => z["facts"] = {Self, "sender_id"}
  /\ m = 10 => SameBut({"lessons"}, s, z) /\ Exists(z, "lessons")
  /\ m = 11 /\ i = 2 => SameBut({"lessons_new"}, s, z) /\ z["lessons_new"] = OneEach
  /\ m = 11 /\ i = 3 => z = s
  /\ m = 11 /\ i = 4 => SameBut({"lessons"}, s, z) /\ z["lessons"] = {}
  /\ m = 11 /\ i = 5 => SameBut({"lessons", "lessons_new"}, s, z) /\ z["lessons"] = s["lessons_new"] /\ z["lessons_new"] = {}
  /\ m = 13 /\ i = 1 => SameBut({"lessons_v2"}, s, z) /\ z["lessons_v2"] = ManyEach
  /\ m = 13 /\ i = 2 => z = s
  /\ m = 13 /\ i = 3 => SameBut({"lessons"}, s, z) /\ z["lessons"] = {}
  /\ m = 13 /\ i = 4 => SameBut({"lessons", "lessons_v2"}, s, z) /\ z["lessons"] = s["lessons_v2"] /\ z["lessons_v2"] = {}
  /\ m = 13 /\ i = 5 => SameBut({"lessons"}, s, z) /\ z["lessons"] = s["lessons"] \cup {"indexes"}
  /\ m = 17 => SameBut({"facts"}, s, z) /\ z["facts"] = s["facts"] \cup {"deleted_at"}

LEMMA DroppingAfter ==
  ASSUME NEW s, s \in [Tables -> SUBSET Parts], NEW m \in Migrations, NEW i \in 1..Len(Script[m]),
         <<m, i>> \in Dropping, NEW z, z = SchemaAfter(Script[m][i], s)
  PROVE  z \in [Tables -> SUBSET Parts] /\ DroppedAt(m, i, s, z)
<1>1. {"facts", "lessons", "lessons_new", "lessons_v2"} \subseteq Tables
  BY RowTablesAreTables DEF RowTables
<1>2. \A x \in {<<1, 3>>, <<3, 5>>, <<10, 2>>, <<11, 2>>, <<13, 1>>, <<13, 5>>, <<17, 1>>} : <<m, i>> = x => Script[m][i].parts \subseteq Parts
  BY StatementFacts
<1>3. CASE m = 1 /\ i = 3
  BY <1>1, <1>2, <1>3, DroppingStatements DEF SchemaAfter, Ensure, DroppedAt, SameBut, Exists
<1>4. CASE m = 3 /\ i = 4
  BY <1>1, <1>4, DroppingStatements DEF SchemaAfter, DropIf, DroppedAt, SameBut
<1>5. CASE m = 3 /\ i = 5
  BY <1>1, <1>2, <1>5, DroppingStatements DEF SchemaAfter, Create, DroppedAt, SameBut
<1>6. CASE m = 10 /\ i = 2
  BY <1>1, <1>2, <1>6, DroppingStatements DEF SchemaAfter, Ensure, DroppedAt, SameBut, Exists
<1>7. CASE m = 11 /\ i = 2
  BY <1>1, <1>2, <1>7, DroppingStatements DEF SchemaAfter, Create, DroppedAt, SameBut, OneEach
<1>8. CASE m = 11 /\ i = 3
  BY <1>8, DroppingStatements DEF SchemaAfter, Copy, DroppedAt
<1>9. CASE m = 11 /\ i = 4
  BY <1>1, <1>9, DroppingStatements DEF SchemaAfter, Drop, DroppedAt, SameBut
<1>10. CASE m = 11 /\ i = 5
  BY <1>1, <1>10, DroppingStatements DEF SchemaAfter, Rename, DroppedAt, SameBut
<1>11. CASE m = 13 /\ i = 1
  BY <1>1, <1>2, <1>11, DroppingStatements DEF SchemaAfter, Create, DroppedAt, SameBut, ManyEach
<1>12. CASE m = 13 /\ i = 2
  BY <1>12, DroppingStatements DEF SchemaAfter, Copy, DroppedAt
<1>13. CASE m = 13 /\ i = 3
  BY <1>1, <1>13, DroppingStatements DEF SchemaAfter, Drop, DroppedAt, SameBut
<1>14. CASE m = 13 /\ i = 4
  BY <1>1, <1>14, DroppingStatements DEF SchemaAfter, Rename, DroppedAt, SameBut
<1>15. CASE m = 13 /\ i = 5
  BY <1>1, <1>2, <1>15, DroppingStatements DEF SchemaAfter, Add, DroppedAt, SameBut
<1>16. CASE m = 17 /\ i = 1
  BY <1>1, <1>2, <1>16, DroppingStatements DEF SchemaAfter, Add, DroppedAt, SameBut
<1> QED
  BY <1>3, <1>4, <1>5, <1>6, <1>7, <1>8, <1>9, <1>10, <1>11, <1>12, <1>13, <1>14, <1>15, <1>16 DEF Dropping

Effect(m, i, s, z) ==
  /\ Shape(z)
  /\ Has(z, Script[m][i])
  /\ \A st \in Statements : Has(s, st) => Has(z, st)
  /\ <<m, i>> \in Dropping => DroppedAt(m, i, s, z)
  /\ <<m, i>> \notin Dropping => SameBut(Tables \ RowTables, s, z)

LEMMA StatementAfter ==
  ASSUME NEW s, Shape(s), NEW m \in Migrations, NEW i \in 1..Len(Script[m]), Fits(Script[m][i], s),
         NEW z, z = SchemaAfter(Script[m][i], s)
  PROVE  Effect(m, i, s, z)
<1>1. PICK st \in Statements : st = Script[m][i] /\ st.table \in Tables /\ st.parts \subseteq Parts
  BY StatementFacts
<1>2. \A x \in Statements : x.table \in Tables
  BY DEF Tables
<1>3. CASE <<m, i>> \notin Dropping
  <2>1. Plain(st)
    BY <1>1, <1>3, PlainStatements
  <2>2. /\ Shape(z) /\ z[st.table] = s[st.table] \cup st.parts
        /\ \A t \in Tables \ {st.table} : z[t] = s[t]
    BY <1>1, <2>1, PlainAfter
  <2>3. st.table \notin RowTables
    BY <2>1 DEF Plain
  <2>4. SameBut(Tables \ RowTables, s, z)
    BY <2>2, <2>3, RowTablesAreTables DEF SameBut
  <2>5. \A x \in Statements : Has(s, x) => Has(z, x)
    BY <1>2, <2>2 DEF Has
  <2> QED
    BY <1>1, <1>3, <2>2, <2>4, <2>5 DEF Effect, Has
<1>4. CASE <<m, i>> \in Dropping
  <2>1. z \in [Tables -> SUBSET Parts] /\ DroppedAt(m, i, s, z)
    BY <1>4, DroppingAfter DEF Shape
  <2>2. \A t \in Tables \ RowTables : z[t] = s[t]
    BY <1>4, <2>1 DEF Dropping, DroppedAt, SameBut, RowTables
  <2>3. Shape(z)
    BY <2>1, <2>2 DEF Shape, Exists
  <2>4. st.table \in RowTables
    BY <1>1, <1>4, DroppingStatements DEF Dropping, RowTables, Ensure, Create, Add, DropIf, Drop, Copy, Rename
  <2>5. \A x \in Statements : Has(s, x) => Has(z, x)
    BY <1>2, <2>2 DEF Has
  <2> QED
    BY <1>1, <1>4, <2>1, <2>3, <2>4, <2>5 DEF Effect, Has
<1> QED
  BY <1>3, <1>4

LEMMA MigrationsAre == Migrations = 1..19 /\ \A m \in Migrations : Len(Script[m]) \in 1..6
  BY ScriptSizes DEF Migrations

LEMMA NumberOf == ASSUME NEW m \in Migrations PROVE m \in 1..19 /\ Len(Script[m]) \in 1..6 /\ Len(Script[m]) \in Nat
<1>1. Len(Script[m]) \in 1..6
  BY MigrationsAre
<1> QED
  BY <1>1, MigrationsAre

LEMMA StatementReaches ==
  ASSUME NEW s, NEW z, NEW m \in Migrations, NEW i \in 1..Len(Script[m]), Reached(s, m, i), Effect(m, i, s, z)
  PROVE  Reached(z, m, i + 1)
<1>1. m \in 1..19 /\ i \in Nat /\ Len(Script[m]) \in Nat /\ {"facts", "lessons", "lessons_new", "lessons_v2"} \subseteq Tables
  BY MigrationsAre, RowTablesAreTables DEF RowTables
<1>2. ASSUME NEW j \in 1..((i + 1) - 1) PROVE Has(z, Script[m][j])
  <2>1. j \in 1..Len(Script[m]) /\ (j = i \/ j \in 1..(i - 1))
    BY <1>1
  <2>2. Script[m][j] \in Statements
    BY <2>1, StatementFacts
  <2> QED
    BY <2>1, <2>2 DEF Reached, Effect
<1>3. <<m, i>> \in Dropping => DroppedAt(m, i, s, z)
  BY DEF Effect
<1>4. <<m, i>> \notin Dropping => \A t \in RowTables : z[t] = s[t]
  BY RowTablesAreTables DEF Effect, SameBut
<1>5. m = 3 /\ i + 1 = 6 => {Self, "sender_id"} \subseteq z["facts"] /\ z["facts"] \subseteq Final["facts"]
  BY <1>1, <1>3, FinalFacts DEF Dropping, DroppedAt
<1>6. m = 17 /\ i + 1 = 2 => "deleted_at" \in z["facts"]
  BY <1>1, <1>3 DEF Dropping, DroppedAt
<1>7. m = 11 /\ i + 1 \in 3..5 => z["lessons_new"] = OneEach
  <2>1. CASE m = 11 /\ i = 2
    BY <1>3, <2>1 DEF Dropping, DroppedAt
  <2>2. CASE m = 11 /\ i = 3
    BY <1>3, <2>2 DEF Dropping, DroppedAt, Reached
  <2>3. CASE m = 11 /\ i = 4
    BY <1>1, <1>3, <2>3 DEF Dropping, DroppedAt, Reached, SameBut
  <2> QED
    BY <1>1, <2>1, <2>2, <2>3
<1>8. m = 11 /\ i + 1 \in 6..7 => z["lessons_new"] = {}
  <2>1. CASE m = 11 /\ i = 5
    BY <1>3, <2>1 DEF Dropping, DroppedAt
  <2>2. CASE m = 11 /\ i = 6
    BY <1>4, <2>2 DEF Dropping, RowTables, Reached
  <2> QED
    BY <1>1, <2>1, <2>2
<1>9. m = 13 /\ i + 1 \in 2..4 => z["lessons_v2"] = ManyEach
  <2>1. CASE m = 13 /\ i = 1
    BY <1>3, <2>1 DEF Dropping, DroppedAt
  <2>2. CASE m = 13 /\ i = 2
    BY <1>3, <2>2 DEF Dropping, DroppedAt, Reached
  <2>3. CASE m = 13 /\ i = 3
    BY <1>1, <1>3, <2>3 DEF Dropping, DroppedAt, Reached, SameBut
  <2> QED
    BY <1>1, <2>1, <2>2, <2>3
<1>10. m = 13 /\ i + 1 = 5 => z["lessons"] = ManyEach /\ z["lessons_v2"] = {}
  <2>1. CASE m = 13 /\ i = 4
    BY <1>3, <2>1 DEF Dropping, DroppedAt, Reached
  <2> QED
    BY <1>1, <2>1
<1>11. m = 13 /\ i + 1 = 6 => z["lessons"] = Final["lessons"] /\ z["lessons_v2"] = {}
  <2>1. CASE m = 13 /\ i = 5
    BY <1>1, <1>3, <2>1, FinalFacts DEF Dropping, DroppedAt, Reached, SameBut
  <2> QED
    BY <1>1, <2>1
<1> QED
  BY <1>2, <1>5, <1>6, <1>7, <1>8, <1>9, <1>10, <1>11 DEF Reached

LEMMA ScriptBegins == ASSUME NEW s, NEW m \in Migrations PROVE Reached(s, m, 1) /\ 1 \in 1..Len(Script[m])
<1>1. PICK n \in 1..6 : n = Len(Script[m])
  BY NumberOf
<1>2. Reached(s, m, 1)
  BY DEF Reached
<1>3. 1 \in 1..n
  OBVIOUS
<1> QED
  BY <1>1, <1>2, <1>3

(* What is so when a whole script has run.                                 *)
LEMMA DoneMeans ==
  ASSUME NEW s, NEW n \in Migrations
  PROVE  DoneIn(s, n) <=>
           /\ \A j \in 1..Len(Script[n]) : Has(s, Script[n][j])
           /\ n = 3 => {Self, "sender_id"} \subseteq s["facts"] /\ s["facts"] \subseteq Final["facts"]
           /\ n = 17 => "deleted_at" \in s["facts"]
           /\ n = 11 => s["lessons_new"] = {}
           /\ n = 13 => s["lessons"] = Final["lessons"] /\ s["lessons_v2"] = {}
<1>1. PICK k \in 1..6 : k = Len(Script[n])
  BY NumberOf
<1>2. Len(Script[3]) = 5 /\ Len(Script[11]) = 6 /\ Len(Script[13]) = 5 /\ Len(Script[17]) = 1
  BY ScriptSizes
<1>3. (n = 3 => k = 5) /\ (n = 11 => k = 6) /\ (n = 13 => k = 5) /\ (n = 17 => k = 1)
  BY <1>1, <1>2, Zenon
<1>4. DoneIn(s, n) <=> Reached(s, n, k + 1)
  BY <1>1 DEF DoneIn
<1>5. (k + 1) - 1 = k
  OBVIOUS
<1>6. /\ (n = 3 /\ k + 1 = 6 <=> n = 3) /\ (n = 17 /\ k + 1 = 2 <=> n = 17)
      /\ ~ (n = 11 /\ k + 1 \in 3..5) /\ (n = 11 /\ k + 1 \in 6..7 <=> n = 11)
      /\ ~ (n = 13 /\ k + 1 \in 2..4) /\ ~ (n = 13 /\ k + 1 = 5) /\ (n = 13 /\ k + 1 = 6 <=> n = 13)
  BY <1>3
<1>7. (\A j \in 1..((k + 1) - 1) : Has(s, Script[n][j])) <=> \A j \in 1..Len(Script[n]) : Has(s, Script[n][j])
  BY <1>1, <1>5
<1> QED
  BY <1>4, <1>6, <1>7, Zenon DEF Reached

(* What has run stays done, whoever runs a statement of a later script.    *)
LEMMA DoneStays ==
  ASSUME NEW s, NEW z, NEW m \in Migrations, NEW i \in 1..Len(Script[m]), Effect(m, i, s, z),
         NEW n \in Migrations, DoneIn(s, n), n < m \/ m >= 14 \/ (m <= 2 /\ n <= 3)
  PROVE  DoneIn(z, n)
<1>1. m \in 1..19 /\ n \in 1..19 /\ i \in Nat /\ {"facts", "lessons", "lessons_new", "lessons_v2"} \subseteq Tables
  BY MigrationsAre, RowTablesAreTables DEF RowTables
<1>2. \A j \in 1..Len(Script[n]) : Has(z, Script[n][j])
  <2>1. \A j \in 1..Len(Script[n]) : Has(s, Script[n][j])
    BY DoneMeans
  <2> QED
    BY <2>1, StatementFacts DEF Effect
<1>3. <<m, i>> \in Dropping => DroppedAt(m, i, s, z)
  BY DEF Effect
<1>4. <<m, i>> \notin Dropping => \A t \in RowTables : z[t] = s[t]
  BY RowTablesAreTables DEF Effect, SameBut
<1>5. m \notin {1, 3, 17} => z["facts"] = s["facts"]
  BY <1>1, <1>3, <1>4 DEF Dropping, DroppedAt, SameBut, RowTables
<1>6. m = 17 => z["facts"] = s["facts"] \cup {"deleted_at"} \/ z["facts"] = s["facts"]
  BY <1>1, <1>3, <1>4 DEF Dropping, DroppedAt, RowTables
<1>7. m = 1 /\ Self \in s["facts"] => z["facts"] = s["facts"]
  BY <1>1, <1>3, <1>4 DEF Dropping, DroppedAt, RowTables, Exists
<1>8. m # 11 => z["lessons_new"] = s["lessons_new"]
  BY <1>1, <1>3, <1>4 DEF Dropping, DroppedAt, SameBut, RowTables
<1>9. m >= 14 => z["lessons"] = s["lessons"] /\ z["lessons_v2"] = s["lessons_v2"]
  BY <1>1, <1>3, <1>4 DEF Dropping, DroppedAt, SameBut, RowTables
<1>10. CASE n = 3
  <2>1. {Self, "sender_id"} \subseteq s["facts"] /\ s["facts"] \subseteq Final["facts"]
    BY <1>10, DoneMeans
  <2>2. {Self, "sender_id"} \subseteq z["facts"] /\ z["facts"] \subseteq Final["facts"]
    BY <1>1, <1>5, <1>6, <1>7, <1>10, <2>1, FinalFacts
  <2> QED
    BY <1>2, <1>10, <2>2, DoneMeans
<1>11. CASE n = 17
  <2>1. "deleted_at" \in s["facts"]
    BY <1>11, DoneMeans
  <2>2. "deleted_at" \in z["facts"]
    BY <1>1, <1>5, <1>6, <1>11, <2>1
  <2> QED
    BY <1>2, <1>11, <2>2, DoneMeans
<1>12. CASE n = 11
  <2>1. s["lessons_new"] = {} /\ m # 11
    BY <1>12, DoneMeans
  <2> QED
    BY <1>2, <1>8, <1>12, <2>1, DoneMeans
<1>13. CASE n = 13
  <2>1. s["lessons"] = Final["lessons"] /\ s["lessons_v2"] = {} /\ m >= 14
    BY <1>1, <1>13, DoneMeans
  <2> QED
    BY <1>2, <1>9, <1>13, <2>1, DoneMeans
<1>14. CASE n \notin {3, 11, 13, 17}
  BY <1>2, <1>14, DoneMeans
<1> QED
  BY <1>10, <1>11, <1>12, <1>13, <1>14

(* After the thirteenth, scripts do not get in each other's way.           *)
LEMMA LaterReachedStays ==
  ASSUME NEW s, NEW z, NEW m \in Migrations, NEW i \in 1..Len(Script[m]), Effect(m, i, s, z), m >= 14,
         NEW n \in Migrations, n >= 14, NEW k \in Nat, k <= Len(Script[n]) + 1, Reached(s, n, k)
  PROVE  Reached(z, n, k)
<1>1. m \in 14..19 /\ n \in 14..19 /\ "facts" \in Tables
  <2>1. m \in 1..19 /\ n \in 1..19
    BY NumberOf
  <2>2. "facts" \in Tables
    BY RowTablesAreTables DEF RowTables
  <2> QED
    BY <2>1, <2>2
<1>2. \A j \in 1..(k - 1) : Has(z, Script[n][j])
  <2>1. \A j \in 1..(k - 1) : j \in 1..Len(Script[n])
    <3>1. PICK h \in 1..6 : h = Len(Script[n])
      BY NumberOf
    <3>2. \A j \in 1..(k - 1) : j \in 1..h
      BY <3>1
    <3> QED
      BY <3>1, <3>2
  <2> QED
    BY <2>1, StatementFacts DEF Effect, Reached
<1>3. "deleted_at" \in s["facts"] => "deleted_at" \in z["facts"]
  <2>1. <<m, i>> \in Dropping => z["facts"] = s["facts"] \cup {"deleted_at"}
    BY <1>1 DEF Effect, Dropping, DroppedAt
  <2>2. <<m, i>> \notin Dropping => z["facts"] = s["facts"]
    BY <1>1 DEF Effect, SameBut, RowTables
  <2> QED
    BY <2>1, <2>2
<1> QED
  BY <1>1, <1>2, <1>3 DEF Reached


-----------------------------------------------------------------------------
(* A store that nobody disturbs comes to Final: the newest version is it.  *)

LEMMA NewTables ==
  ASSUME NEW m \in Migrations, NEW i \in 1..Len(Script[m]), <<m, i>> \notin Dropping, NEW st, st = Script[m][i]
  PROVE  /\ st.op = "create" => m = 14 /\ i = 1 /\ st.table = "token_usage"
         /\ st.table = "token_usage" => m \in {14, 16}
         /\ st.op = "add" =>
              \/ m > 1 /\ st.table \in {"conversations", "messages"}
              \/ m > 5 /\ st.table = "tasks"
              \/ m > 10 /\ st.table = "outcomes"
              \/ st.table = "token_usage" /\ (m > 14 \/ (m = 14 /\ i > 1))
<1>1. CASE m = 1
  BY <1>1, ScriptSizes DEF Script, ManyLessons, Dropping, Ensure, Create, Add, Copy
<1>2. CASE m = 2
  BY <1>2, ScriptSizes DEF Script, ManyLessons, Dropping, Ensure, Create, Add, Copy
<1>3. CASE m = 3
  BY <1>3, ScriptSizes DEF Script, ManyLessons, Dropping, Ensure, Create, Add, Copy
<1>4. CASE m = 4
  BY <1>4, ScriptSizes DEF Script, ManyLessons, Dropping, Ensure, Create, Add, Copy
<1>5. CASE m = 5
  BY <1>5, ScriptSizes DEF Script, ManyLessons, Dropping, Ensure, Create, Add, Copy
<1>6. CASE m = 6
  BY <1>6, ScriptSizes DEF Script, ManyLessons, Dropping, Ensure, Create, Add, Copy
<1>7. CASE m = 7
  BY <1>7, ScriptSizes DEF Script, ManyLessons, Dropping, Ensure, Create, Add, Copy
<1>8. CASE m = 8
  BY <1>8, ScriptSizes DEF Script, ManyLessons, Dropping, Ensure, Create, Add, Copy
<1>9. CASE m = 9
  BY <1>9, ScriptSizes DEF Script, ManyLessons, Dropping, Ensure, Create, Add, Copy
<1>10. CASE m = 10
  BY <1>10, ScriptSizes DEF Script, ManyLessons, Dropping, Ensure, Create, Add, Copy
<1>11. CASE m = 11
  BY <1>11, ScriptSizes DEF Script, ManyLessons, Dropping, Ensure, Create, Add, Copy
<1>12. CASE m = 12
  BY <1>12, ScriptSizes DEF Script, ManyLessons, Dropping, Ensure, Create, Add, Copy
<1>13. CASE m = 13
  BY <1>13, ScriptSizes DEF Script, ManyLessons, Dropping, Ensure, Create, Add, Copy
<1>14. CASE m = 14
  BY <1>14, ScriptSizes DEF Script, ManyLessons, Dropping, Ensure, Create, Add, Copy
<1>15. CASE m = 15
  BY <1>15, ScriptSizes DEF Script, ManyLessons, Dropping, Ensure, Create, Add, Copy
<1>16. CASE m = 16
  BY <1>16, ScriptSizes DEF Script, ManyLessons, Dropping, Ensure, Create, Add, Copy
<1>17. CASE m = 17
  BY <1>17, ScriptSizes DEF Script, ManyLessons, Dropping, Ensure, Create, Add, Copy
<1>18. CASE m = 18
  BY <1>18, ScriptSizes DEF Script, ManyLessons, Dropping, Ensure, Create, Add, Copy
<1>19. CASE m = 19
  BY <1>19, ScriptSizes DEF Script, ManyLessons, Dropping, Ensure, Create, Add, Copy
<1> QED
  BY <1>1, <1>2, <1>3, <1>4, <1>5, <1>6, <1>7, <1>8, <1>9, <1>10, <1>11, <1>12, <1>13, <1>14, <1>15, <1>16, <1>17, <1>18, <1>19, MigrationsAre

LEMMA FirstOfTables ==
  /\ Script[1][1] = Ensure("conversations", {}) /\ Script[1][2] = Ensure("messages", {})
  /\ Script[5][1] = Ensure("tasks", {}) /\ Script[10][1] = Ensure("outcomes", {})
  /\ Script[14][1] = Create("token_usage", {}) /\ Script[3][1] = Add("conversations", "summary")
  BY DEF Script

(* The columns and triggers that are added to tables never dropped, and     *)
(* where: every part but the table itself at one place.                    *)
Adding ==
  {<<3, 1>>, <<3, 2>>, <<3, 3>>, <<4, 3>>, <<4, 4>>, <<4, 5>>, <<7, 1>>, <<9, 1>>, <<9, 2>>,
   <<11, 1>>, <<11, 6>>, <<12, 2>>, <<14, 2>>, <<16, 1>>, <<16, 2>>, <<16, 3>>, <<16, 4>>, <<19, 1>>}

PartAt(x, t) ==
  CASE x = "summary" -> <<3, 1>>
    [] x = "last_activity" -> <<3, 2>>
    [] x = "status" -> <<3, 3>>
    [] x = "insert" -> <<4, 3>>
    [] x = "delete" -> <<4, 4>>
    [] x = "update" -> <<4, 5>>
    [] x = "task_type" -> <<7, 1>>
    [] x = "retry_count" -> <<9, 1>>
    [] x = "last_error" -> <<9, 2>>
    [] x = "project" /\ t = "outcomes" -> <<11, 1>>
    [] x = "project" /\ t = "tasks" -> <<11, 6>>
    [] x = "project" /\ t = "conversations" -> <<12, 2>>
    [] x = "indexes" -> <<14, 2>>
    [] x = "input" -> <<16, 1>>
    [] x = "output" -> <<16, 2>>
    [] x = "cache_read" -> <<16, 3>>
    [] x = "cache_creation" -> <<16, 4>>
    [] x = "claimed_at" -> <<19, 1>>

LEMMA AddingStatements ==
  /\ Script[3][1] = Add("conversations", "summary")
  /\ Script[3][2] = Add("conversations", "last_activity")
  /\ Script[3][3] = Add("conversations", "status")
  /\ Script[4][3] = Add("messages", "insert")
  /\ Script[4][4] = Add("messages", "delete")
  /\ Script[4][5] = Add("messages", "update")
  /\ Script[7][1] = Add("tasks", "task_type")
  /\ Script[9][1] = Add("tasks", "retry_count")
  /\ Script[9][2] = Add("tasks", "last_error")
  /\ Script[11][1] = Add("outcomes", "project")
  /\ Script[11][6] = Add("tasks", "project")
  /\ Script[12][2] = Add("conversations", "project")
  /\ Script[14][2] = Add("token_usage", "indexes")
  /\ Script[16][1] = Add("token_usage", "input")
  /\ Script[16][2] = Add("token_usage", "output")
  /\ Script[16][3] = Add("token_usage", "cache_read")
  /\ Script[16][4] = Add("token_usage", "cache_creation")
  /\ Script[19][1] = Add("tasks", "claimed_at")
  BY DEF Script, ManyLessons

LEMMA PartsArePlaced ==
  /\ PartAt("summary", "conversations") = <<3, 1>>
  /\ PartAt("last_activity", "conversations") = <<3, 2>>
  /\ PartAt("status", "conversations") = <<3, 3>>
  /\ PartAt("insert", "messages") = <<4, 3>>
  /\ PartAt("delete", "messages") = <<4, 4>>
  /\ PartAt("update", "messages") = <<4, 5>>
  /\ PartAt("task_type", "tasks") = <<7, 1>>
  /\ PartAt("retry_count", "tasks") = <<9, 1>>
  /\ PartAt("last_error", "tasks") = <<9, 2>>
  /\ PartAt("project", "outcomes") = <<11, 1>>
  /\ PartAt("project", "tasks") = <<11, 6>>
  /\ PartAt("project", "conversations") = <<12, 2>>
  /\ PartAt("indexes", "token_usage") = <<14, 2>>
  /\ PartAt("input", "token_usage") = <<16, 1>>
  /\ PartAt("output", "token_usage") = <<16, 2>>
  /\ PartAt("cache_read", "token_usage") = <<16, 3>>
  /\ PartAt("cache_creation", "token_usage") = <<16, 4>>
  /\ PartAt("claimed_at", "tasks") = <<19, 1>>
<1>1. PartAt("summary", "conversations") = <<3, 1>>
  BY DEF PartAt
<1>2. PartAt("last_activity", "conversations") = <<3, 2>>
  BY DEF PartAt
<1>3. PartAt("status", "conversations") = <<3, 3>>
  BY DEF PartAt
<1>4. PartAt("insert", "messages") = <<4, 3>>
  BY DEF PartAt
<1>5. PartAt("delete", "messages") = <<4, 4>>
  BY DEF PartAt
<1>6. PartAt("update", "messages") = <<4, 5>>
  BY DEF PartAt
<1>7. PartAt("task_type", "tasks") = <<7, 1>>
  BY DEF PartAt
<1>8. PartAt("retry_count", "tasks") = <<9, 1>>
  BY DEF PartAt
<1>9. PartAt("last_error", "tasks") = <<9, 2>>
  BY DEF PartAt
<1>10. PartAt("project", "outcomes") = <<11, 1>>
  BY DEF PartAt
<1>11. PartAt("project", "tasks") = <<11, 6>>
  BY DEF PartAt
<1>12. PartAt("project", "conversations") = <<12, 2>>
  BY DEF PartAt
<1>13. PartAt("indexes", "token_usage") = <<14, 2>>
  BY DEF PartAt
<1>14. PartAt("input", "token_usage") = <<16, 1>>
  BY DEF PartAt
<1>15. PartAt("output", "token_usage") = <<16, 2>>
  BY DEF PartAt
<1>16. PartAt("cache_read", "token_usage") = <<16, 3>>
  BY DEF PartAt
<1>17. PartAt("cache_creation", "token_usage") = <<16, 4>>
  BY DEF PartAt
<1>18. PartAt("claimed_at", "tasks") = <<19, 1>>
  BY DEF PartAt
<1> QED
  BY <1>1, <1>2, <1>3, <1>4, <1>5, <1>6, <1>7, <1>8, <1>9, <1>10, <1>11, <1>12, <1>13, <1>14, <1>15, <1>16, <1>17, <1>18

(* A plain statement adds one of them or brings a table.                   *)
Additions(m, i) ==
  /\ IF Script[m][i].op = "add" THEN <<m, i>> \in Adding ELSE Script[m][i].parts \subseteq {Self}
  /\ Script[m][i].op = "copy" => <<m, i>> = <<4, 2>>

LEMMA WhatIsAdded ==
  ASSUME NEW m \in Migrations, NEW i \in 1..Len(Script[m]), <<m, i>> \notin Dropping
  PROVE  Additions(m, i)
<1>1. CASE m = 1
  BY <1>1, ScriptSizes DEF Additions, Script, ManyLessons, Dropping, Adding, Ensure, Create, Add, Copy
<1>2. CASE m = 2
  BY <1>2, ScriptSizes DEF Additions, Script, ManyLessons, Dropping, Adding, Ensure, Create, Add, Copy
<1>3. CASE m = 3
  BY <1>3, ScriptSizes DEF Additions, Script, ManyLessons, Dropping, Adding, Ensure, Create, Add, Copy
<1>4. CASE m = 4
  BY <1>4, ScriptSizes DEF Additions, Script, ManyLessons, Dropping, Adding, Ensure, Create, Add, Copy
<1>5. CASE m = 5
  BY <1>5, ScriptSizes DEF Additions, Script, ManyLessons, Dropping, Adding, Ensure, Create, Add, Copy
<1>6. CASE m = 6
  BY <1>6, ScriptSizes DEF Additions, Script, ManyLessons, Dropping, Adding, Ensure, Create, Add, Copy
<1>7. CASE m = 7
  BY <1>7, ScriptSizes DEF Additions, Script, ManyLessons, Dropping, Adding, Ensure, Create, Add, Copy
<1>8. CASE m = 8
  BY <1>8, ScriptSizes DEF Additions, Script, ManyLessons, Dropping, Adding, Ensure, Create, Add, Copy
<1>9. CASE m = 9
  BY <1>9, ScriptSizes DEF Additions, Script, ManyLessons, Dropping, Adding, Ensure, Create, Add, Copy
<1>10. CASE m = 10
  BY <1>10, ScriptSizes DEF Additions, Script, ManyLessons, Dropping, Adding, Ensure, Create, Add, Copy
<1>11. CASE m = 11
  BY <1>11, ScriptSizes DEF Additions, Script, ManyLessons, Dropping, Adding, Ensure, Create, Add, Copy
<1>12. CASE m = 12
  BY <1>12, ScriptSizes DEF Additions, Script, ManyLessons, Dropping, Adding, Ensure, Create, Add, Copy
<1>13. CASE m = 13
  BY <1>13, ScriptSizes DEF Additions, Script, ManyLessons, Dropping, Adding, Ensure, Create, Add, Copy
<1>14. CASE m = 14
  BY <1>14, ScriptSizes DEF Additions, Script, ManyLessons, Dropping, Adding, Ensure, Create, Add, Copy
<1>15. CASE m = 15
  BY <1>15, ScriptSizes DEF Additions, Script, ManyLessons, Dropping, Adding, Ensure, Create, Add, Copy
<1>16. CASE m = 16
  BY <1>16, ScriptSizes DEF Additions, Script, ManyLessons, Dropping, Adding, Ensure, Create, Add, Copy
<1>17. CASE m = 17
  BY <1>17, ScriptSizes DEF Additions, Script, ManyLessons, Dropping, Adding, Ensure, Create, Add, Copy
<1>18. CASE m = 18
  BY <1>18, ScriptSizes DEF Additions, Script, ManyLessons, Dropping, Adding, Ensure, Create, Add, Copy
<1>19. CASE m = 19
  BY <1>19, ScriptSizes DEF Additions, Script, ManyLessons, Dropping, Adding, Ensure, Create, Add, Copy
<1>20. m \in 1..19
  BY MigrationsAre
<1> QED
  BY <1>1, <1>2, <1>3, <1>4, <1>5, <1>6, <1>7, <1>8, <1>9, <1>10, <1>11, <1>12, <1>13, <1>14, <1>15, <1>16, <1>17, <1>18, <1>19, <1>20

LEMMA PartIsAt ==
  ASSUME NEW p \in Adding
  PROVE  LET st == Script[p[1]][p[2]] IN \A x \in st.parts : x # Self /\ PartAt(x, st.table) = p
<1>1. CASE p = <<3, 1>>
  BY <1>1, AddingStatements, PartsArePlaced DEF Add, Self
<1>2. CASE p = <<3, 2>>
  BY <1>2, AddingStatements, PartsArePlaced DEF Add, Self
<1>3. CASE p = <<3, 3>>
  BY <1>3, AddingStatements, PartsArePlaced DEF Add, Self
<1>4. CASE p = <<4, 3>>
  BY <1>4, AddingStatements, PartsArePlaced DEF Add, Self
<1>5. CASE p = <<4, 4>>
  BY <1>5, AddingStatements, PartsArePlaced DEF Add, Self
<1>6. CASE p = <<4, 5>>
  BY <1>6, AddingStatements, PartsArePlaced DEF Add, Self
<1>7. CASE p = <<7, 1>>
  BY <1>7, AddingStatements, PartsArePlaced DEF Add, Self
<1>8. CASE p = <<9, 1>>
  BY <1>8, AddingStatements, PartsArePlaced DEF Add, Self
<1>9. CASE p = <<9, 2>>
  BY <1>9, AddingStatements, PartsArePlaced DEF Add, Self
<1>10. CASE p = <<11, 1>>
  BY <1>10, AddingStatements, PartsArePlaced DEF Add, Self
<1>11. CASE p = <<11, 6>>
  BY <1>11, AddingStatements, PartsArePlaced DEF Add, Self
<1>12. CASE p = <<12, 2>>
  BY <1>12, AddingStatements, PartsArePlaced DEF Add, Self
<1>13. CASE p = <<14, 2>>
  BY <1>13, AddingStatements, PartsArePlaced DEF Add, Self
<1>14. CASE p = <<16, 1>>
  BY <1>14, AddingStatements, PartsArePlaced DEF Add, Self
<1>15. CASE p = <<16, 2>>
  BY <1>15, AddingStatements, PartsArePlaced DEF Add, Self
<1>16. CASE p = <<16, 3>>
  BY <1>16, AddingStatements, PartsArePlaced DEF Add, Self
<1>17. CASE p = <<16, 4>>
  BY <1>17, AddingStatements, PartsArePlaced DEF Add, Self
<1>18. CASE p = <<19, 1>>
  BY <1>18, AddingStatements, PartsArePlaced DEF Add, Self
<1> QED
  BY <1>1, <1>2, <1>3, <1>4, <1>5, <1>6, <1>7, <1>8, <1>9, <1>10, <1>11, <1>12, <1>13, <1>14, <1>15, <1>16, <1>17, <1>18 DEF Adding

LEMMA PartsApart ==
  ASSUME NEW m \in Migrations, NEW i \in 1..Len(Script[m]), <<m, i>> \notin Dropping,
         NEW n \in Migrations, NEW j \in 1..Len(Script[n]), <<n, j>> \notin Dropping,
         <<m, i>> # <<n, j>>, Script[n][j].op = "add", Script[m][i].table = Script[n][j].table
  PROVE  Script[m][i].parts \cap Script[n][j].parts = {}
<1>1. PICK q : q = <<n, j>> /\ q \in Adding /\ q[1] = n /\ q[2] = j
  BY WhatIsAdded DEF Additions
<1>2. \A x \in Script[n][j].parts : x # Self /\ PartAt(x, Script[n][j].table) = q
  BY <1>1, PartIsAt
<1>3. CASE Script[m][i].op # "add"
  BY <1>2, <1>3, WhatIsAdded DEF Additions
<1>4. CASE Script[m][i].op = "add"
  <2>1. PICK p : p = <<m, i>> /\ p \in Adding /\ p[1] = m /\ p[2] = i
    BY <1>4, WhatIsAdded DEF Additions
  <2>2. \A x \in Script[m][i].parts : PartAt(x, Script[m][i].table) = p
    BY <2>1, PartIsAt
  <2> QED
    BY <1>1, <1>2, <2>1, <2>2
<1> QED
  BY <1>3, <1>4

(* The lessons table is there but for two moments.                         *)
LessonsAt(v, i) ==
  \/ v = 10 /\ i = 3
  \/ v > 10 /\ <<v, i>> \notin {<<11, 5>>, <<13, 4>>}

(* Place <<n, j>> is still to come, or is <<v, i>> itself.                 *)
Ahead(n, j, v, i) == n > v \/ (n = v /\ j >= i)

(* What is to be added or created is not there yet.                        *)
PartsToCome(v, i, s) ==
  \A n \in Migrations : \A j \in 1..Len(Script[n]) :
    Ahead(n, j, v, i) /\ <<n, j>> \notin Dropping /\ Script[n][j].op = "add"
      => Script[n][j].parts \cap s[Script[n][j].table] = {}

RowTablesToCome(v, i, s) ==
  /\ v = 3 /\ i = 5 => s["facts"] = {}
  /\ Ahead(17, 1, v, i) => "deleted_at" \notin s["facts"]
  /\ Ahead(11, 2, v, i) => s["lessons_new"] = {}
  /\ Ahead(13, 1, v, i) => s["lessons_v2"] = {}
  /\ <<v, i>> \in {<<11, 5>>, <<13, 4>>} => s["lessons"] = {}

AtPlace(v, i, s) ==
  /\ Shape(s) /\ Reached(s, v, i)
  /\ \A n \in 1..(v - 1) : DoneIn(s, n)
  /\ v < 14 \/ (v = 14 /\ i = 1) => s["token_usage"] = {}
  /\ LessonsAt(v, i) => Exists(s, "lessons")
  /\ PartsToCome(v, i, s) /\ RowTablesToCome(v, i, s)

LEMMA PlaceFits ==
  ASSUME NEW s, NEW v \in Migrations, NEW i \in 1..Len(Script[v]), AtPlace(v, i, s)
  PROVE  Fits(Script[v][i], s)
<1>1. PICK st \in Statements : st = Script[v][i]
  BY StatementFacts
<1>2. CASE <<v, i>> \in Dropping
  <2>1. st.table \in RowTables
    BY <1>1, <1>2, DroppingStatements DEF Dropping, RowTables, Ensure, Create, Add, DropIf, Drop, Copy, Rename
  <2> QED
    BY <1>1, <2>1 DEF Fits
<1>3. CASE <<v, i>> \notin Dropping
  <2>1. st.op = "create" => ~ Exists(s, st.table)
    BY <1>1, <1>3, NewTables DEF AtPlace, Exists
  <2>2. ASSUME st.op = "add" PROVE Self \in s[st.table]
    <3>1. v \in 1..19 /\ i \in Nat
      BY NumberOf
    <3>2. \A n \in 1..(v - 1) : \A j \in 1..Len(Script[n]) : Has(s, Script[n][j])
      <4>1. \A n \in 1..(v - 1) : DoneIn(s, n) /\ n \in Migrations
        <5>1. \A n \in 1..(v - 1) : n \in 1..19
          BY <3>1
        <5> QED
          BY <5>1, MigrationsAre DEF AtPlace
      <4>2. ASSUME NEW n \in 1..(v - 1), NEW j \in 1..Len(Script[n]) PROVE Has(s, Script[n][j])
        <5>1. DoneIn(s, n) /\ Len(Script[n]) \in 1..6
          BY <4>1, MigrationsAre
        <5>2. j \in 1..((Len(Script[n]) + 1) - 1)
          BY <5>1
        <5> QED
          BY <5>1, <5>2 DEF DoneIn, Reached
      <4> QED
        BY <4>2
    <3>3. CASE v > 1 /\ st.table \in {"conversations", "messages"}
      <4>1. Has(s, Script[1][1]) /\ Has(s, Script[1][2])
        <5>1. 1 \in 1..(v - 1)
          BY <3>1, <3>3
        <5>2. 1 \in 1..Len(Script[1]) /\ 2 \in 1..Len(Script[1])
          BY ScriptSizes
        <5> QED
          BY <3>2, <5>1, <5>2
      <4> QED
        BY <3>3, <4>1, FirstOfTables DEF Has, Ensure, RowTables
    <3>4. CASE v > 5 /\ st.table = "tasks"
      <4>1. Has(s, Script[5][1])
        <5>1. 5 \in 1..(v - 1)
          BY <3>1, <3>4
        <5>2. 1 \in 1..Len(Script[5])
          BY ScriptSizes
        <5> QED
          BY <3>2, <5>1, <5>2
      <4> QED
        BY <3>4, <4>1, FirstOfTables DEF Has, Ensure, RowTables
    <3>5. CASE v > 10 /\ st.table = "outcomes"
      <4>1. Has(s, Script[10][1])
        <5>1. 10 \in 1..(v - 1)
          BY <3>1, <3>5
        <5>2. 1 \in 1..Len(Script[10])
          BY ScriptSizes
        <5> QED
          BY <3>2, <5>1, <5>2
      <4> QED
        BY <3>5, <4>1, FirstOfTables DEF Has, Ensure, RowTables
    <3>6. CASE st.table = "token_usage" /\ (v > 14 \/ (v = 14 /\ i > 1))
      <4>1. Has(s, Script[14][1])
        <5>1. CASE v > 14
          <6>1. 14 \in 1..(v - 1)
            BY <3>1, <5>1
          <6>2. 1 \in 1..Len(Script[14])
            BY ScriptSizes
          <6> QED
            BY <3>2, <6>1, <6>2
        <5>2. CASE v = 14 /\ i > 1
          <6>1. 1 \in 1..(i - 1)
            BY <3>1, <5>2
          <6> QED
            BY <5>2, <6>1 DEF AtPlace, Reached
        <5> QED
          BY <3>6, <5>1, <5>2
      <4> QED
        BY <3>6, <4>1, FirstOfTables DEF Has, Create, RowTables
    <3> QED
      BY <1>1, <1>3, <2>2, <3>3, <3>4, <3>5, <3>6, NewTables
  <2> QED
    BY <1>1, <2>1, <2>2 DEF Fits, Exists
<1> QED
  BY <1>2, <1>3

LEMMA PlaceSteps ==
  ASSUME NEW s, NEW v \in Migrations, NEW i \in 1..Len(Script[v]), AtPlace(v, i, s),
         NEW z, z = SchemaAfter(Script[v][i], s)
  PROVE  AtPlace(v, i + 1, z)
<1>1. Effect(v, i, s, z)
  BY PlaceFits, StatementAfter DEF AtPlace
<1>2. Reached(z, v, i + 1)
  BY <1>1, StatementReaches DEF AtPlace
<1>3. v \in 1..19 /\ i \in 1..6 /\ {"lessons", "lessons_new", "lessons_v2"} \subseteq Tables
  <2>1. v \in 1..19 /\ Len(Script[v]) \in 1..6
    BY NumberOf
  <2>2. i \in 1..6
    BY <2>1
  <2>3. {"lessons", "lessons_new", "lessons_v2"} \subseteq Tables
    BY RowTablesAreTables DEF RowTables
  <2> QED
    BY <2>1, <2>2, <2>3
<1>4. ASSUME NEW n \in 1..(v - 1) PROVE DoneIn(z, n)
  <2>1. n \in Migrations /\ n < v /\ DoneIn(s, n)
    <3>1. n \in 1..19 /\ n < v
      BY <1>3
    <3> QED
      BY <3>1, MigrationsAre DEF AtPlace
  <2> QED
    BY <1>1, <2>1, DoneStays
<1>5. ASSUME v < 14 PROVE z["token_usage"] = {}
  <2>1. "token_usage" \in Tables /\ "token_usage" \notin RowTables
    <3>1. Script[14][1].table = "token_usage" /\ 1 \in 1..Len(Script[14]) /\ 14 \in Migrations
      BY ScriptSizes, FirstOfTables, MigrationsAre DEF Create
    <3> QED
      BY <3>1, StatementFacts DEF RowTables
  <2>2. s["token_usage"] = {}
    BY <1>5 DEF AtPlace
  <2>3. z["token_usage"] = s["token_usage"]
    <3>1. CASE <<v, i>> \in Dropping
      BY <1>1, <2>1, <3>1 DEF Effect, Dropping, DroppedAt, SameBut, RowTables
    <3>2. CASE <<v, i>> \notin Dropping
      <4>1. Script[v][i].table # "token_usage"
        BY <1>3, <1>5, <3>2, NewTables
      <4>2. \A t \in Tables \ {Script[v][i].table} : z[t] = s[t]
        BY <3>2, PlaceFits, PlainStatements, PlainAfter, StatementFacts DEF AtPlace
      <4> QED
        BY <2>1, <4>1, <4>2
    <3> QED
      BY <3>1, <3>2
  <2> QED
    BY <2>2, <2>3
<1>6. ASSUME LessonsAt(v, i + 1) PROVE Exists(z, "lessons")
  <2>1. CASE <<v, i>> \notin Dropping
    <3>1. z["lessons"] = s["lessons"]
      BY <1>1, <1>3, <2>1 DEF Effect, SameBut, RowTables
    <3>2. LessonsAt(v, i)
      BY <1>3, <1>6, <2>1 DEF LessonsAt, Dropping
    <3> QED
      BY <3>1, <3>2 DEF AtPlace, Exists
  <2>2. CASE <<v, i>> \in Dropping
    <3>1. DroppedAt(v, i, s, z)
      BY <1>1, <2>2 DEF Effect
    <3>2. CASE v = 10 \/ (v = 11 /\ i = 5) \/ (v = 13 /\ i = 4)
      <4>1. v = 11 /\ i = 5 => s["lessons_new"] = OneEach
        BY DEF AtPlace, Reached
      <4>2. v = 13 /\ i = 4 => s["lessons_v2"] = ManyEach
        BY DEF AtPlace, Reached
      <4> QED
        BY <3>1, <3>2, <4>1, <4>2 DEF DroppedAt, Exists, OneEach, ManyEach
    <3>3. CASE ~ (v = 10 \/ (v = 11 /\ i = 5) \/ (v = 13 /\ i = 4))
      <4>1. LessonsAt(v, i) /\ <<v, i>> \notin {<<11, 4>>, <<13, 3>>}
        BY <1>3, <1>6, <2>2, <3>3 DEF LessonsAt, Dropping
      <4>2. Self \in s["lessons"]
        BY <4>1 DEF AtPlace, Exists
      <4>3. Self \in z["lessons"]
        BY <1>3, <1>6, <2>2, <3>1, <3>3, <4>1, <4>2 DEF DroppedAt, Dropping, SameBut, LessonsAt
      <4> QED
        BY <4>3 DEF Exists
    <3> QED
      BY <3>2, <3>3
  <2> QED
    BY <2>1, <2>2
<1>7. ~ (v = 14 /\ i + 1 = 1) /\ Shape(z)
  BY <1>1, <1>3 DEF Effect
<1>8. PartsToCome(v, i + 1, z)
  <2> SUFFICES ASSUME NEW n \in Migrations, NEW j \in 1..Len(Script[n]),
                      Ahead(n, j, v, i + 1), <<n, j>> \notin Dropping, Script[n][j].op = "add"
               PROVE  Script[n][j].parts \cap z[Script[n][j].table] = {}
    BY DEF PartsToCome
  <2>1. n \in 1..19 /\ j \in Nat
    BY NumberOf
  <2>2. Ahead(n, j, v, i) /\ <<v, i>> # <<n, j>>
    BY <1>3, <2>1 DEF Ahead
  <2>3. Script[n][j].parts \cap s[Script[n][j].table] = {}
    BY <2>2 DEF AtPlace, PartsToCome
  <2>4. Script[n][j].table \in Tables \ RowTables
    BY StatementFacts, PlainStatements DEF Plain
  <2>5. CASE <<v, i>> \in Dropping
    <3>1. \A t \in Tables \ RowTables : z[t] = s[t]
      BY <1>1, <2>5 DEF Effect, Dropping, DroppedAt, SameBut, RowTables
    <3> QED
      BY <2>3, <2>4, <3>1
  <2>6. CASE <<v, i>> \notin Dropping
    <3>1. /\ z[Script[v][i].table] = s[Script[v][i].table] \cup Script[v][i].parts
          /\ \A t \in Tables \ {Script[v][i].table} : z[t] = s[t]
      <4>1. PICK st \in Statements : st = Script[v][i] /\ st.table \in Tables /\ st.parts \subseteq Parts
        BY StatementFacts
      <4>2. Plain(st) /\ Fits(st, s) /\ Shape(s) /\ z = SchemaAfter(st, s)
        BY <2>6, <4>1, PlaceFits, PlainStatements DEF AtPlace
      <4>3. /\ z[st.table] = s[st.table] \cup st.parts
            /\ \A t \in Tables \ {st.table} : z[t] = s[t]
        BY <4>1, <4>2, PlainAfter
      <4> QED
        BY <4>1, <4>3
    <3>2. CASE Script[v][i].table = Script[n][j].table
      <4>1. Script[v][i].parts \cap Script[n][j].parts = {}
        BY <2>2, <2>6, <3>2, PartsApart
      <4> QED
        BY <2>3, <3>1, <3>2, <4>1
    <3>3. CASE Script[v][i].table # Script[n][j].table
      BY <2>3, <2>4, <3>1, <3>3
    <3> QED
      BY <3>2, <3>3
  <2> QED
    BY <2>5, <2>6
<1>9. RowTablesToCome(v, i + 1, z)
  <2>1. {"facts", "lessons", "lessons_new", "lessons_v2"} \subseteq Tables
    BY RowTablesAreTables DEF RowTables
  <2>2. RowTablesToCome(v, i, s)
    BY DEF AtPlace
  <2>3. CASE <<v, i>> \notin Dropping
    <3>1. \A t \in {"facts", "lessons", "lessons_new", "lessons_v2"} : z[t] = s[t]
      BY <1>1, <2>1, <2>3 DEF Effect, SameBut, RowTables
    <3>2. ~ (v = 3 /\ i + 1 = 5) /\ <<v, i + 1>> \notin {<<11, 5>>, <<13, 4>>}
      BY <1>3, <2>3 DEF Dropping
    <3>3. /\ Ahead(17, 1, v, i + 1) => Ahead(17, 1, v, i)
          /\ Ahead(11, 2, v, i + 1) => Ahead(11, 2, v, i)
          /\ Ahead(13, 1, v, i + 1) => Ahead(13, 1, v, i)
      BY <1>3 DEF Ahead
    <3> QED
      BY <2>2, <3>1, <3>2, <3>3 DEF RowTablesToCome
  <2>4. CASE <<v, i>> \in Dropping
    <3>1. DroppedAt(v, i, s, z)
      BY <1>1, <2>4 DEF Effect
    <3>2. v = 3 /\ i + 1 = 5 => z["facts"] = {}
      BY <1>3, <3>1 DEF DroppedAt
    <3>3. Ahead(17, 1, v, i + 1) => "deleted_at" \notin z["facts"]
      <4>1. Ahead(17, 1, v, i + 1) => v < 17 /\ "deleted_at" \notin s["facts"]
        BY <1>3, <2>2 DEF RowTablesToCome, Ahead
      <4>2. CASE v = 1 \/ v = 3
        BY <2>4, <3>1, <4>1, <4>2 DEF Dropping, DroppedAt, Self
      <4>3. CASE v \notin {1, 3, 17}
        BY <2>1, <2>4, <3>1, <4>1, <4>3 DEF Dropping, DroppedAt, SameBut
      <4> QED
        BY <4>1, <4>2, <4>3
    <3>4. Ahead(11, 2, v, i + 1) => z["lessons_new"] = {}
      <4>1. Ahead(11, 2, v, i + 1) => v < 11 /\ s["lessons_new"] = {}
        BY <1>3, <2>2, <2>4 DEF RowTablesToCome, Ahead, Dropping
      <4> QED
        BY <2>1, <2>4, <3>1, <4>1 DEF Dropping, DroppedAt, SameBut
    <3>5. Ahead(13, 1, v, i + 1) => z["lessons_v2"] = {}
      <4>1. Ahead(13, 1, v, i + 1) => v < 13 /\ s["lessons_v2"] = {}
        BY <1>3, <2>2 DEF RowTablesToCome, Ahead
      <4> QED
        BY <2>1, <2>4, <3>1, <4>1 DEF Dropping, DroppedAt, SameBut
    <3>6. <<v, i + 1>> \in {<<11, 5>>, <<13, 4>>} => z["lessons"] = {}
      BY <1>3, <3>1 DEF DroppedAt
    <3> QED
      BY <3>2, <3>3, <3>4, <3>5, <3>6 DEF RowTablesToCome
  <2> QED
    BY <2>3, <2>4
<1> QED
  BY <1>2, <1>4, <1>5, <1>6, <1>7, <1>8, <1>9 DEF AtPlace

(* Rows of conversations are there only after the statement that they      *)
(* would make fail.                                                        *)
Datable(tk, s) == tk # {} => Has(s, Dated)

LEMMA DatedFacts ==
  /\ Script[3][2] = Dated /\ Dated \in Statements
  /\ Dated.table = "conversations" /\ Dated.parts = {"last_activity"} /\ "conversations" \notin RowTables
<1>1. 3 \in Migrations /\ 2 \in 1..Len(Script[3])
  BY MigrationsAre, ScriptSizes
<1>2. Script[3][2] = Dated
  BY DEF Script, Dated
<1>3. Dated \in Statements
  BY <1>1, <1>2, StatementFacts
<1> QED
  BY <1>2, <1>3 DEF Dated, Add, RowTables

(* At its place no statement fails.                                        *)
LEMMA PlaceSucceeds ==
  ASSUME NEW s, NEW v \in Migrations, NEW i \in 1..Len(Script[v]), AtPlace(v, i, s),
         NEW tk, Datable(tk, s)
  PROVE  Succeeds(Script[v][i], s, tk)
<1>1. v \in 1..19 /\ i \in Nat
  BY NumberOf
<1>2. Reached(s, v, i) /\ PartsToCome(v, i, s) /\ RowTablesToCome(v, i, s) /\ (LessonsAt(v, i) => Exists(s, "lessons"))
  BY DEF AtPlace
<1>3. CASE <<v, i>> \notin Dropping
  <2>1. Plain(Script[v][i]) /\ Fits(Script[v][i], s)
    BY <1>3, PlainStatements, PlaceFits
  <2>2. CASE Script[v][i].op = "ensure"
    BY <2>2 DEF Succeeds
  <2>3. CASE Script[v][i].op = "create"
    BY <2>1, <2>3 DEF Succeeds, Fits, Plain
  <2>4. CASE Script[v][i].op = "add"
    <3>1. Ahead(v, i, v, i)
      BY <1>1 DEF Ahead
    <3>2. Script[v][i].parts \cap s[Script[v][i].table] = {}
      BY <1>2, <1>3, <2>4, <3>1 DEF PartsToCome
    <3>3. Script[v][i] = Dated => tk = {}
      BY <3>2, DatedFacts DEF Datable, Has
    <3> QED
      BY <2>1, <2>4, <3>2, <3>3 DEF Succeeds, Fits, Plain
  <2>5. CASE Script[v][i].op = "copy"
    <3>1. v = 4 /\ i = 2
      BY <1>3, <2>5, WhatIsAdded DEF Additions
    <3>2. Has(s, Script[4][1])
      BY <1>2, <3>1 DEF Reached
    <3>3. Has(s, Script[1][2])
      <4>1. 1 \in 1..(v - 1) /\ 1 \in Migrations /\ 2 \in 1..Len(Script[1])
        BY <3>1, MigrationsAre, ScriptSizes
      <4>2. DoneIn(s, 1)
        BY <4>1 DEF AtPlace
      <4> QED
        BY <4>1, <4>2, DoneMeans
    <3>4. /\ Script[4][1] = Ensure("messages_fts", {}) /\ Script[4][2] = Copy("messages", "messages_fts")
          /\ Script[1][2] = Ensure("messages", {})
      BY DEF Script
    <3>5. Exists(s, "messages") /\ Exists(s, "messages_fts")
      BY <3>2, <3>3, <3>4 DEF Has, Ensure, Exists, RowTables
    <3> QED
      BY <3>1, <3>4, <3>5 DEF Succeeds, Copy
  <2> QED
    BY <2>1, <2>2, <2>3, <2>4, <2>5 DEF Plain
<1>4. CASE v \in {1, 10} /\ <<v, i>> \in Dropping
  <2>1. Script[v][i].op = "ensure"
    BY <1>4, DroppingStatements DEF Dropping, Ensure
  <2> QED
    BY <2>1 DEF Succeeds
<1>5. CASE v = 3 /\ i = 4
  BY <1>5, DroppingStatements DEF Succeeds, DropIf
<1>6. CASE v = 3 /\ i = 5
  BY <1>2, <1>6, DroppingStatements DEF Succeeds, Create, RowTablesToCome, Exists
<1>7. CASE v = 11 /\ i = 2
  BY <1>2, <1>7, DroppingStatements DEF Succeeds, Create, RowTablesToCome, Exists, Ahead
<1>8. CASE v = 11 /\ i \in {3, 4, 5}
  <2>1. s["lessons_new"] = OneEach
    BY <1>2, <1>8 DEF Reached
  <2>2. i \in {3, 4} => Exists(s, "lessons")
    BY <1>2, <1>8 DEF LessonsAt
  <2>3. i = 5 => s["lessons"] = {}
    BY <1>2, <1>8 DEF RowTablesToCome
  <2>4. CASE i = 3
    BY <1>8, <2>1, <2>2, <2>4, DroppingStatements DEF Succeeds, Copy, Exists, OneEach
  <2>5. CASE i = 4
    BY <1>8, <2>2, <2>5, DroppingStatements DEF Succeeds, Drop
  <2>6. CASE i = 5
    BY <1>8, <2>1, <2>3, <2>6, DroppingStatements DEF Succeeds, Rename, Exists, OneEach
  <2> QED
    BY <1>8, <2>4, <2>5, <2>6
<1>9. CASE v = 13 /\ i = 1
  BY <1>2, <1>9, DroppingStatements DEF Succeeds, Create, RowTablesToCome, Exists, Ahead
<1>10. CASE v = 13 /\ i \in {2, 3, 4}
  <2>1. s["lessons_v2"] = ManyEach
    BY <1>2, <1>10 DEF Reached
  <2>2. i \in {2, 3} => Exists(s, "lessons")
    BY <1>2, <1>10 DEF LessonsAt
  <2>3. i = 4 => s["lessons"] = {}
    BY <1>2, <1>10 DEF RowTablesToCome
  <2>4. CASE i = 2
    BY <1>10, <2>1, <2>2, <2>4, DroppingStatements DEF Succeeds, Copy, Exists, ManyEach
  <2>5. CASE i = 3
    BY <1>10, <2>2, <2>5, DroppingStatements DEF Succeeds, Drop
  <2>6. CASE i = 4
    BY <1>10, <2>1, <2>3, <2>6, DroppingStatements DEF Succeeds, Rename, Exists, ManyEach
  <2> QED
    BY <1>10, <2>4, <2>5, <2>6
<1>11. CASE v = 13 /\ i = 5
  <2>1. Script[v][i] = Add("lessons", "indexes") /\ s["lessons"] = ManyEach
    BY <1>2, <1>11, DroppingStatements DEF Reached
  <2>2. Script[v][i] # Dated
    BY <2>1, DatedFacts DEF Add, RowTables
  <2>3. Self \in ManyEach /\ "indexes" \notin ManyEach
    BY DEF ManyEach, Self
  <2> QED
    BY <2>1, <2>2, <2>3 DEF Succeeds, Add, Exists
<1>12. CASE v = 17 /\ i = 1
  <2>1. Self \in s["facts"]
    <3>1. 3 \in 1..(v - 1) /\ 3 \in Migrations
      BY <1>12, MigrationsAre
    <3>2. DoneIn(s, 3)
      BY <3>1 DEF AtPlace
    <3> QED
      BY <3>1, <3>2, DoneMeans
  <2>2. "deleted_at" \notin s["facts"]
    BY <1>2, <1>12 DEF RowTablesToCome, Ahead
  <2> QED
    BY <1>12, <2>1, <2>2, DroppingStatements, DatedFacts DEF Succeeds, Add, Exists
<1> QED
  BY <1>3, <1>4, <1>5, <1>6, <1>7, <1>8, <1>9, <1>10, <1>11, <1>12 DEF Dropping

-----------------------------------------------------------------------------
(* SchemaOf and what a script comes to are defined by recursion.           *)

LEMMA LeastVersion ==
  ASSUME NEW T \in SUBSET Nat, T # {}
  PROVE  \E k \in T : \A l \in T : ~ (l < k)
<1>1. PICK k \in T : \A l \in T : ~ (<<l, k>> \in OpToRel(<, Nat))
  BY NatLessThanWellFounded, WFMin, Zenon
<1>2. k \in Nat
  OBVIOUS
<1> QED
  BY <1>1, <1>2 DEF OpToRel

Comes(f, script, sch, n) ==
  f = [i \in 0..n |-> IF i = 0 THEN sch ELSE SchemaAfter(script[i], f[i - 1])]

LEMMA ComesExists == ASSUME NEW script, NEW sch, NEW n \in Nat PROVE \E f : Comes(f, script, sch, n)
<1> DEFINE T == {m \in Nat : ~ \E f : Comes(f, script, sch, m)}
<1> SUFFICES ASSUME T # {} PROVE FALSE
  OBVIOUS
<1>1. PICK k \in T : \A l \in T : ~ (l < k)
  BY LeastVersion
<1>2. CASE k = 0
  <2>1. PICK f : f = [i \in 0..0 |-> sch]
    OBVIOUS
  <2>2. [i \in 0..0 |-> sch] = [i \in 0..0 |-> IF i = 0 THEN sch ELSE SchemaAfter(script[i], f[i - 1])]
    OBVIOUS
  <2>3. Comes(f, script, sch, 0)
    BY <2>1, <2>2 DEF Comes
  <2> QED
    BY <1>2, <2>3
<1>3. CASE k # 0
  <2>1. k - 1 \in Nat /\ k - 1 < k
    BY <1>3
  <2>2. PICK f : Comes(f, script, sch, k - 1)
    BY <1>1, <2>1
  <2>3. PICK g : g = [i \in 0..k |-> IF i = k THEN SchemaAfter(script[k], f[k - 1]) ELSE f[i]]
    OBVIOUS
  <2>4. ASSUME NEW i \in 0..k
        PROVE  g[i] = IF i = 0 THEN sch ELSE SchemaAfter(script[i], g[i - 1])
    <3>1. CASE i = 0
      <4>1. f[0] = sch
        BY <2>1, <2>2 DEF Comes
      <4> QED
        BY <1>3, <2>3, <3>1, <4>1
    <3>2. CASE i # 0 /\ i # k
      <4>1. i \in 0..(k - 1) /\ i - 1 \in 0..k /\ i - 1 # k
        BY <3>2
      <4>2. f[i] = SchemaAfter(script[i], f[i - 1])
        BY <2>2, <3>2, <4>1 DEF Comes
      <4>3. g[i] = f[i] /\ g[i - 1] = f[i - 1]
        BY <2>3, <3>2, <4>1
      <4> QED
        BY <3>2, <4>2, <4>3
    <3>3. CASE i = k
      <4>1. i - 1 \in 0..k /\ i - 1 # k
        BY <1>3, <3>3
      <4>2. g[i - 1] = f[i - 1]
        BY <2>3, <4>1
      <4>3. g[i] = SchemaAfter(script[k], f[k - 1])
        BY <2>3, <3>3
      <4> QED
        BY <1>3, <3>3, <4>2, <4>3
    <3> QED
      BY <3>1, <3>2, <3>3
  <2>5. g = [i \in 0..k |-> g[i]]
    BY <2>3
  <2>6. Comes(g, script, sch, k)
    BY <2>4, <2>5 DEF Comes
  <2> QED
    BY <2>6
<1> QED
  BY <1>2, <1>3

LEMMA AfterAllIs ==
  ASSUME NEW script, NEW sch, Len(script) \in Nat
  PROVE  \E f : Comes(f, script, sch, Len(script)) /\ AfterAll(script, sch) = f[Len(script)]
<1>1. \E f : Comes(f, script, sch, Len(script))
  BY ComesExists
<1>2. AfterAll(script, sch) = (CHOOSE f : Comes(f, script, sch, Len(script)))[Len(script)]
  BY DEF AfterAll, Comes
<1> QED
  BY <1>1, <1>2

LEMMA ScriptComes ==
  ASSUME NEW s, NEW v \in Migrations, AtPlace(v, 1, s)
  PROVE  AtPlace(v, Len(Script[v]) + 1, AfterAll(Script[v], s))
<1>1. Len(Script[v]) \in Nat
  BY NumberOf
<1>2. PICK f : Comes(f, Script[v], s, Len(Script[v])) /\ AfterAll(Script[v], s) = f[Len(Script[v])]
  BY <1>1, AfterAllIs
<1> DEFINE T == {i \in 0..Len(Script[v]) : ~ AtPlace(v, i + 1, f[i])}
<1>3. SUFFICES ASSUME T # {} PROVE FALSE
  BY <1>1, <1>2
<1>4. PICK k \in T : \A l \in T : ~ (l < k)
  <2>1. T \subseteq Nat
    BY <1>1
  <2> QED
    BY <1>3, <2>1, LeastVersion
<1>5. CASE k = 0
  <2>1. f[0] = s
    BY <1>1, <1>2 DEF Comes
  <2> QED
    BY <1>5, <2>1
<1>6. CASE k # 0
  <2>1. k \in 1..Len(Script[v]) /\ k - 1 \in 0..Len(Script[v]) /\ k - 1 < k /\ (k - 1) + 1 = k
    BY <1>1, <1>6
  <2>2. f[k] = SchemaAfter(Script[v][k], f[k - 1])
    BY <1>2, <1>6, <2>1 DEF Comes
  <2>3. AtPlace(v, k, f[k - 1])
    BY <1>4, <2>1
  <2> QED
    BY <2>1, <2>2, <2>3, PlaceSteps
<1> QED
  BY <1>5, <1>6

LEMMA TokensIsATable == "token_usage" \in Tables
<1>1. Script[14][1].table = "token_usage" /\ 1 \in 1..Len(Script[14])
  BY ScriptSizes, FirstOfTables DEF Create
<1>2. 14 \in Migrations
  BY MigrationsAre
<1> QED
  BY <1>1, <1>2, StatementFacts

(* Behind the last statement of a script the next script begins.           *)
LEMMA NextPlace ==
  ASSUME NEW s, NEW v \in Migrations, AtPlace(v, Len(Script[v]) + 1, s)
  PROVE  AtPlace(v + 1, 1, s)
<1>1. v \in 1..19 /\ Len(Script[v]) \in 1..6
  BY NumberOf
<1>2. Reached(s, v + 1, 1)
  BY <1>1 DEF Reached
<1>3. ASSUME NEW n \in 1..((v + 1) - 1) PROVE DoneIn(s, n)
  <2>1. CASE n = v
    BY <2>1 DEF AtPlace, DoneIn
  <2>2. CASE n # v
    <3>1. n \in 1..(v - 1)
      BY <1>1, <2>2
    <3> QED
      BY <3>1 DEF AtPlace
  <2> QED
    BY <2>1, <2>2
<1>4. v + 1 < 14 \/ (v + 1 = 14 /\ 1 = 1) => s["token_usage"] = {}
  BY <1>1 DEF AtPlace
<1>5. LessonsAt(v + 1, 1) => LessonsAt(v, Len(Script[v]) + 1)
  <2>0. Len(Script[10]) = 2 /\ Len(Script[11]) = 6 /\ Len(Script[13]) = 5
    BY ScriptSizes
  <2>1. PICK n \in 1..6 : n = Len(Script[v])
    BY <1>1
  <2>2. (v = 10 => n = 2) /\ (v = 11 => n = 6) /\ (v = 13 => n = 5)
    BY <2>0, <2>1, Zenon
  <2>3. LessonsAt(v + 1, 1) => v >= 10
    BY <1>1 DEF LessonsAt
  <2>4. LessonsAt(v + 1, 1) => LessonsAt(v, n + 1)
    BY <1>1, <2>2, <2>3 DEF LessonsAt
  <2> QED
    BY <2>1, <2>4
<1>6. PICK l \in 1..6 : l = Len(Script[v])
  BY <1>1
<1>7. PartsToCome(v + 1, 1, s)
  <2> SUFFICES ASSUME NEW n \in Migrations, NEW j \in 1..Len(Script[n]), Ahead(n, j, v + 1, 1)
               PROVE  Ahead(n, j, v, l + 1)
    BY <1>6 DEF AtPlace, PartsToCome
  <2>1. n \in 1..19 /\ j \in Nat
    BY NumberOf
  <2> QED
    BY <1>1, <1>6, <2>1 DEF Ahead
<1>8. RowTablesToCome(v + 1, 1, s)
  <2>1. RowTablesToCome(v, l + 1, s)
    BY <1>6 DEF AtPlace
  <2>2. /\ Ahead(17, 1, v + 1, 1) => Ahead(17, 1, v, l + 1)
        /\ Ahead(11, 2, v + 1, 1) => Ahead(11, 2, v, l + 1)
        /\ Ahead(13, 1, v + 1, 1) => Ahead(13, 1, v, l + 1)
    BY <1>1, <1>6 DEF Ahead
  <2> QED
    BY <2>1, <2>2 DEF RowTablesToCome
<1> QED
  BY <1>2, <1>3, <1>4, <1>5, <1>7, <1>8 DEF AtPlace

(* The versions, one after another.                                        *)
Grows(f, n) == f = [v \in 0..n |-> IF v = 0 THEN NoTables ELSE AfterAll(Script[v], f[v - 1])]

LEMMA GrowsExists == ASSUME NEW n \in Nat PROVE \E f : Grows(f, n)
<1> DEFINE T == {m \in Nat : ~ \E f : Grows(f, m)}
<1> SUFFICES ASSUME T # {} PROVE FALSE
  OBVIOUS
<1>1. PICK k \in T : \A l \in T : ~ (l < k)
  BY LeastVersion
<1>2. CASE k = 0
  <2>1. PICK f : f = [v \in 0..0 |-> NoTables]
    OBVIOUS
  <2>2. [v \in 0..0 |-> NoTables] = [v \in 0..0 |-> IF v = 0 THEN NoTables ELSE AfterAll(Script[v], f[v - 1])]
    OBVIOUS
  <2>3. Grows(f, 0)
    BY <2>1, <2>2 DEF Grows
  <2> QED
    BY <1>2, <2>3
<1>3. CASE k # 0
  <2>1. k - 1 \in Nat /\ k - 1 < k
    BY <1>3
  <2>2. PICK f : Grows(f, k - 1)
    BY <1>1, <2>1
  <2>3. PICK g : g = [v \in 0..k |-> IF v = k THEN AfterAll(Script[k], f[k - 1]) ELSE f[v]]
    OBVIOUS
  <2>4. ASSUME NEW v \in 0..k
        PROVE  g[v] = IF v = 0 THEN NoTables ELSE AfterAll(Script[v], g[v - 1])
    <3>1. CASE v = 0
      <4>1. f[0] = NoTables
        BY <2>1, <2>2 DEF Grows
      <4> QED
        BY <1>3, <2>3, <3>1, <4>1
    <3>2. CASE v # 0 /\ v # k
      <4>1. v \in 0..(k - 1) /\ v - 1 \in 0..k /\ v - 1 # k
        BY <3>2
      <4>2. f[v] = AfterAll(Script[v], f[v - 1])
        BY <2>2, <3>2, <4>1 DEF Grows
      <4>3. g[v] = f[v] /\ g[v - 1] = f[v - 1]
        BY <2>3, <3>2, <4>1
      <4> QED
        BY <3>2, <4>2, <4>3
    <3>3. CASE v = k
      <4>1. v - 1 \in 0..k /\ v - 1 # k
        BY <1>3, <3>3
      <4>2. g[v - 1] = f[v - 1]
        BY <2>3, <4>1
      <4>3. g[v] = AfterAll(Script[k], f[k - 1])
        BY <2>3, <3>3
      <4> QED
        BY <1>3, <3>3, <4>2, <4>3
    <3> QED
      BY <3>1, <3>2, <3>3
  <2>5. g = [v \in 0..k |-> g[v]]
    BY <2>3
  <2>6. Grows(g, k)
    BY <2>4, <2>5 DEF Grows
  <2> QED
    BY <2>6
<1> QED
  BY <1>2, <1>3

LEMMA SchemaOfIs == Grows(SchemaOf, 19)
<1>1. \E f : Grows(f, 19)
  BY GrowsExists
<1>2. SchemaOf = CHOOSE f : Grows(f, 19)
  BY ScriptSizes DEF SchemaOf, Grows
<1> QED
  BY <1>1, <1>2

LEMMA VersionIs == ASSUME NEW v \in 0..19 PROVE AtPlace(v + 1, 1, SchemaOf[v])
<1> DEFINE T == {u \in 0..19 : ~ AtPlace(u + 1, 1, SchemaOf[u])}
<1>1. SUFFICES ASSUME T # {} PROVE FALSE
  OBVIOUS
<1>2. PICK k \in T : \A l \in T : ~ (l < k)
  <2>1. T \subseteq Nat
    OBVIOUS
  <2> QED
    BY <1>1, <2>1, LeastVersion
<1>3. CASE k = 0
  <2>1. SchemaOf[0] = NoTables
    BY SchemaOfIs DEF Grows
  <2>2. Shape(NoTables) /\ NoTables["token_usage"] = {}
    BY TokensIsATable DEF Shape, NoTables
  <2>3. PartsToCome(1, 1, NoTables)
    <3>1. \A n \in Migrations : \A j \in 1..Len(Script[n]) : NoTables[Script[n][j].table] = {}
      BY StatementFacts DEF NoTables
    <3> QED
      BY <3>1 DEF PartsToCome
  <2>4. RowTablesToCome(1, 1, NoTables)
    BY RowTablesAreTables DEF RowTablesToCome, NoTables, RowTables
  <2>5. AtPlace(1, 1, NoTables)
    BY <2>2, <2>3, <2>4 DEF AtPlace, Reached, LessonsAt
  <2> QED
    BY <1>3, <2>1, <2>5
<1>4. CASE k # 0
  <2>1. k \in 1..19 /\ k - 1 \in 0..19 /\ k - 1 < k /\ (k - 1) + 1 = k
    BY <1>4
  <2>2. SchemaOf[k] = AfterAll(Script[k], SchemaOf[k - 1])
    BY <2>1, SchemaOfIs DEF Grows
  <2>3. AtPlace(k, 1, SchemaOf[k - 1])
    BY <1>2, <2>1
  <2>4. k \in Migrations
    BY <2>1, MigrationsAre
  <2>5. AtPlace(k, Len(Script[k]) + 1, SchemaOf[k])
    BY <2>2, <2>3, <2>4, ScriptComes
  <2>6. AtPlace(k + 1, 1, SchemaOf[k])
    BY <2>4, <2>5, NextPlace
  <2> QED
    BY <2>6
<1> QED
  BY <1>3, <1>4

LEMMA AllDoneIsFinal ==
  ASSUME NEW s, Shape(s), \A m \in Migrations : DoneIn(s, m)
  PROVE  s = Final
<1>1. \A st \in Statements : Has(s, st)
  <2> SUFFICES ASSUME NEW st \in Statements PROVE Has(s, st)
    OBVIOUS
  <2>1. PICK m \in Migrations : st \in ToSet(Script[m])
    BY DEF Statements
  <2>2. PICK j \in 1..Len(Script[m]) : st = Script[m][j]
    <3>1. \A n \in 1..19 : DOMAIN Script[n] = 1..Len(Script[n])
      BY DEF Script, ManyLessons
    <3> QED
      BY <2>1, <3>1, MigrationsAre DEF ToSet
  <2>3. j \in 1..((Len(Script[m]) + 1) - 1)
    BY NumberOf
  <2> QED
    BY <2>2, <2>3 DEF DoneIn, Reached
<1>2. ASSUME NEW t \in Tables \ RowTables PROVE s[t] = Final[t]
  <2>1. ASSUME NEW x \in Final[t] PROVE x \in s[t]
    <3>1. PICK st \in Statements : st.table = t /\ x \in st.parts
      BY FinalFacts
    <3> QED
      BY <1>1, <3>1 DEF Has
  <2> QED
    BY <2>1 DEF Shape
<1>3. s["facts"] = Final["facts"]
  <2>1. DoneIn(s, 3) /\ DoneIn(s, 17)
    BY MigrationsAre
  <2>2. {Self, "sender_id"} \subseteq s["facts"] /\ s["facts"] \subseteq Final["facts"] /\ "deleted_at" \in s["facts"]
    BY <2>1, MigrationsAre, DoneMeans
  <2> QED
    BY <2>2, FinalFacts
<1>4. s["lessons"] = Final["lessons"] /\ s["lessons_v2"] = Final["lessons_v2"] /\ s["lessons_new"] = Final["lessons_new"]
  <2>1. DoneIn(s, 11) /\ DoneIn(s, 13)
    BY MigrationsAre
  <2> QED
    BY <2>1, ScriptSizes, FinalFacts DEF DoneIn, Reached
<1>5. \A t \in Tables : s[t] = Final[t]
  BY <1>2, <1>3, <1>4 DEF RowTables
<1>6. s = [t \in Tables |-> s[t]] /\ Final = [t \in Tables |-> Final[t]]
  BY DEF Shape, Final
<1> QED
  BY <1>5, <1>6

LEMMA VersionOf ==
  ASSUME NEW v \in 0..19
  PROVE  /\ Shape(SchemaOf[v])
         /\ \A m \in 1..v : DoneIn(SchemaOf[v], m)
         /\ v >= 3 => Exists(SchemaOf[v], "facts")
         /\ v >= 10 => Exists(SchemaOf[v], "lessons")
         /\ v = 0 => SchemaOf[v] = NoTables
<1>1. AtPlace(v + 1, 1, SchemaOf[v])
  BY VersionIs
<1>2. Shape(SchemaOf[v]) /\ \A m \in 1..v : DoneIn(SchemaOf[v], m)
  <2>1. (v + 1) - 1 = v
    OBVIOUS
  <2> QED
    BY <1>1, <2>1 DEF AtPlace
<1>3. ASSUME v >= 3 PROVE Exists(SchemaOf[v], "facts")
  <2>1. DoneIn(SchemaOf[v], 3)
    BY <1>2, <1>3
  <2> QED
    BY <2>1, MigrationsAre, DoneMeans DEF Exists
<1>4. v >= 10 => Exists(SchemaOf[v], "lessons")
  BY <1>1 DEF AtPlace, LessonsAt
<1>5. v = 0 => SchemaOf[v] = NoTables
  BY SchemaOfIs DEF Grows
<1> QED
  BY <1>2, <1>3, <1>4, <1>5

(* The newest version: every script has run.                               *)
LEMMA NewestIs == Newest = Final
<1>1. Newest = SchemaOf[19]
  BY ScriptSizes DEF Newest
<1>2. Shape(SchemaOf[19]) /\ \A m \in 1..19 : DoneIn(SchemaOf[19], m)
  BY VersionOf
<1> QED
  BY <1>1, <1>2, MigrationsAre, AllDoneIsFinal

-----------------------------------------------------------------------------
(* What a statement that succeeds does to the store.                       *)

RowSets == [RowTables -> SUBSET (Processes \cup {"old"})]
TalkSets == SUBSET (Processes \cup {"old"})

LEMMA RowsStep ==
  ASSUME NEW w \in RowSets, NEW a, NEW b \in Nat,
         NEW m \in Migrations, NEW i \in 1..Len(Script[m]),
         RowsInv(a, b, w), RowsAt(m, i, w), m <= 13 => a \subseteq 1..(m - 1), m = 3 /\ i > 1 => b < 3,
         NEW v, v = RowsAfter(Script[m][i], w)
  PROVE  v \in RowSets /\ RowsInv(a, b, v) /\ RowsAt(m, i + 1, v)
<1>1. m \in 1..19 /\ i \in 1..6
  <2>1. m \in 1..19 /\ Len(Script[m]) \in 1..6
    BY NumberOf
  <2> QED
    BY <2>1
<1>2. CASE v = w /\ <<m, i>> \notin {<<11, 3>>, <<11, 4>>, <<13, 2>>, <<13, 3>>}
  BY <1>1, <1>2 DEF RowsAt
<1>3. CASE m = 3 /\ i = 4
  <2>1. v = [w EXCEPT !["facts"] = {}]
    BY <1>3, DroppingStatements DEF RowsAfter, DropIf, RowTables
  <2>2. w["facts"] \subseteq {"old"}
    BY <1>3 DEF RowsInv
  <2>3. b < 3
    BY <1>3
  <2>4. v["facts"] = {} /\ LessonsIn(v) = LessonsIn(w) /\ v \in RowSets
    BY <2>1 DEF LessonsIn, RowTables, RowSets
  <2> QED
    BY <1>3, <2>2, <2>3, <2>4 DEF RowsInv, RowsAt
<1>4. CASE m = 11 /\ i = 3
  <2>1. v = [w EXCEPT !["lessons_new"] = w["lessons_new"] \cup w["lessons"]]
    BY <1>4, DroppingStatements DEF RowsAfter, Copy, RowTables
  <2>2. /\ v["lessons_new"] = w["lessons_new"] \cup w["lessons"] /\ v["lessons"] = w["lessons"]
        /\ v["facts"] = w["facts"] /\ v["lessons_v2"] = w["lessons_v2"] /\ v \in RowSets
    BY <2>1 DEF RowTables, RowSets
  <2> QED
    BY <1>4, <2>2 DEF RowsInv, RowsAt, LessonsIn
<1>5. CASE m = 11 /\ i = 4
  <2>1. v = [w EXCEPT !["lessons"] = {}]
    BY <1>5, DroppingStatements DEF RowsAfter, Drop, RowTables
  <2>2. /\ v["lessons_new"] = w["lessons_new"] /\ v["lessons"] = {} /\ w["lessons"] \subseteq w["lessons_new"]
        /\ v["facts"] = w["facts"] /\ v["lessons_v2"] = w["lessons_v2"] /\ v \in RowSets
    BY <1>5, <2>1 DEF RowTables, RowsAt, RowSets
  <2> QED
    BY <1>5, <2>2 DEF RowsInv, RowsAt, LessonsIn
<1>6. CASE m = 11 /\ i = 5
  <2>1. v = [w EXCEPT !["lessons"] = w["lessons_new"], !["lessons_new"] = {}]
    BY <1>6, DroppingStatements DEF RowsAfter, Rename, RowTables
  <2>2. /\ v["lessons"] = w["lessons_new"] /\ v["lessons_new"] = {} /\ w["lessons"] = {}
        /\ v["facts"] = w["facts"] /\ v["lessons_v2"] = w["lessons_v2"] /\ v \in RowSets
    BY <1>6, <2>1 DEF RowTables, RowsAt, RowSets
  <2> QED
    BY <1>6, <2>2 DEF RowsInv, RowsAt, LessonsIn
<1>7. CASE m = 13 /\ i = 2
  <2>1. v = [w EXCEPT !["lessons_v2"] = w["lessons_v2"] \cup w["lessons"]]
    BY <1>7, DroppingStatements DEF RowsAfter, Copy, RowTables
  <2>2. /\ v["lessons_v2"] = w["lessons_v2"] \cup w["lessons"] /\ v["lessons"] = w["lessons"]
        /\ v["facts"] = w["facts"] /\ v["lessons_new"] = w["lessons_new"] /\ v \in RowSets
    BY <2>1 DEF RowTables, RowSets
  <2> QED
    BY <1>7, <2>2 DEF RowsInv, RowsAt, LessonsIn
<1>8. CASE m = 13 /\ i = 3
  <2>1. v = [w EXCEPT !["lessons"] = {}]
    BY <1>8, DroppingStatements DEF RowsAfter, Drop, RowTables
  <2>2. /\ v["lessons_v2"] = w["lessons_v2"] /\ v["lessons"] = {} /\ w["lessons"] \subseteq w["lessons_v2"]
        /\ v["facts"] = w["facts"] /\ v["lessons_new"] = w["lessons_new"] /\ v \in RowSets
    BY <1>8, <2>1 DEF RowTables, RowsAt, RowSets
  <2> QED
    BY <1>8, <2>2 DEF RowsInv, RowsAt, LessonsIn
<1>9. CASE m = 13 /\ i = 4
  <2>1. v = [w EXCEPT !["lessons"] = w["lessons_v2"], !["lessons_v2"] = {}]
    BY <1>9, DroppingStatements DEF RowsAfter, Rename, RowTables
  <2>2. /\ v["lessons"] = w["lessons_v2"] /\ v["lessons_v2"] = {} /\ w["lessons"] = {}
        /\ v["facts"] = w["facts"] /\ v["lessons_new"] = w["lessons_new"] /\ v \in RowSets
    BY <1>9, <2>1 DEF RowTables, RowsAt, RowSets
  <2> QED
    BY <1>9, <2>2 DEF RowsInv, RowsAt, LessonsIn
<1>10. CASE <<m, i>> \in {<<1, 3>>, <<3, 5>>, <<10, 2>>, <<11, 2>>, <<13, 1>>, <<13, 5>>, <<17, 1>>}
  <2>1. Script[m][i].op \in {"ensure", "create", "add"}
    BY <1>10, DroppingStatements DEF Ensure, Create, Add
  <2>2. v = w
    BY <2>1 DEF RowsAfter
  <2> QED
    BY <1>2, <1>10, <2>2
<1>11. CASE <<m, i>> \notin Dropping
  <2>1. Script[m][i].table \notin RowTables
    BY <1>11, PlainStatements DEF Plain
  <2>2. v = w
    BY <2>1 DEF RowsAfter
  <2> QED
    BY <1>2, <1>11, <2>2 DEF Dropping
<1> QED
  BY <1>3, <1>4, <1>5, <1>6, <1>7, <1>8, <1>9, <1>10, <1>11 DEF Dropping

(* Nothing before 003 gives conversations a summary.                       *)
LEMMA NoSummaryYet ==
  ASSUME NEW s, Shape(s), NEW i \in 1..Len(Script[1]), Fits(Script[1][i], s),
         NEW z, z = SchemaAfter(Script[1][i], s), "summary" \in z["conversations"]
  PROVE  "summary" \in s["conversations"]
<1>1. 1 \in Migrations /\ i \in 1..3
  BY MigrationsAre, ScriptSizes
<1>2. "conversations" \in Tables
  <2>1. 1 \in 1..Len(Script[1]) /\ Script[1][1].table = "conversations"
    BY ScriptSizes, FirstOfTables DEF Ensure
  <2> QED
    BY <1>1, <2>1, StatementFacts
<1>3. CASE i = 3
  <2>1. DroppedAt(1, i, s, z)
    BY <1>1, <1>3, DroppingAfter DEF Dropping, Shape
  <2> QED
    BY <1>2, <2>1 DEF DroppedAt, SameBut
<1>4. CASE i # 3
  <2>1. <<1, i>> \notin Dropping
    BY <1>1, <1>4 DEF Dropping
  <2>2. Plain(Script[1][i]) /\ Script[1][i] \in Statements /\ Script[1][i].table \in Tables /\ Script[1][i].parts \subseteq Parts
    BY <1>1, <2>1, PlainStatements, StatementFacts
  <2>3. /\ z[Script[1][i].table] = s[Script[1][i].table] \cup Script[1][i].parts
        /\ \A t \in Tables \ {Script[1][i].table} : z[t] = s[t]
    BY <2>2, PlainAfter
  <2>4. Script[1][i].parts = {Self}
    BY <1>1, <1>4, FirstOfTables DEF Ensure
  <2>5. "summary" # Self
    BY DEF Self
  <2> QED
    BY <1>2, <2>3, <2>4, <2>5
<1> QED
  BY <1>3, <1>4

LEMMA StoreStep ==
  ASSUME NEW s, NEW a, NEW b \in 0..19, StoreInv(s, a, b), a \subseteq Migrations,
         NEW m \in Migrations, NEW i \in 1..Len(Script[m]), Reached(s, m, i),
         1..(m - 1) \subseteq a, m <= 13 => a \subseteq 1..(m - 1), m = 3 /\ i > 1 => b < 3,
         NEW tk, Succeeds(Script[m][i], s, tk), NEW z, z = SchemaAfter(Script[m][i], s)
  PROVE  /\ StoreInv(z, a, b) /\ Effect(m, i, s, z) /\ Reached(z, m, i + 1)
         /\ m = 3 => b < 3
<1>1. Fits(Script[m][i], s)
  BY DEF Fits, Succeeds
<1>2. Effect(m, i, s, z)
  BY <1>1, StatementAfter DEF StoreInv
<1>3. Reached(z, m, i + 1)
  BY <1>2, StatementReaches
<1>4. m \in 1..19 /\ a \subseteq 1..19 /\ (\A n \in 1..b : n \in 1..19) /\ i \in 1..6
  <2>1. m \in 1..19 /\ Len(Script[m]) \in 1..6
    BY NumberOf
  <2>2. i \in 1..6
    BY <2>1
  <2>3. a \subseteq 1..19
    BY MigrationsAre
  <2>4. \A n \in 1..b : n \in 1..19
    OBVIOUS
  <2> QED
    BY <2>1, <2>2, <2>3, <2>4
<1>5. ASSUME m = 3 PROVE b < 3
  <2>1. CASE i = 1
    <3>1. "summary" \notin s["conversations"]
      BY <1>5, <2>1, FirstOfTables DEF Succeeds, Add
    <3>2. ASSUME b >= 3 PROVE FALSE
      <4>1. DoneIn(s, 3)
        BY <3>2 DEF StoreInv
      <4>2. Has(s, Script[3][1])
        <5>1. 3 \in Migrations /\ 1 \in 1..Len(Script[3])
          BY MigrationsAre, ScriptBegins
        <5> QED
          BY <4>1, <5>1, DoneMeans
      <4>3. "conversations" \notin RowTables
        BY DEF RowTables
      <4> QED
        BY <3>1, <4>2, <4>3, FirstOfTables DEF Has, Add
    <3> QED
      BY <3>2
  <2>2. CASE i # 1
    BY <1>4, <1>5, <2>2
  <2> QED
    BY <2>1, <2>2
<1>6. ASSUME NEW n \in a PROVE DoneIn(z, n) /\ 1..n \subseteq a
  <2>1. n \in Migrations /\ DoneIn(s, n) /\ 1..n \subseteq a
    BY DEF StoreInv
  <2>2. n < m \/ m >= 14
    <3>1. CASE m <= 13
      <4>1. n \in 1..(m - 1)
        BY <3>1
      <4> QED
        BY <1>4, <4>1
    <3>2. CASE ~ (m <= 13)
      BY <1>4, <3>2
    <3> QED
      BY <3>1, <3>2
  <2> QED
    BY <1>2, <2>1, <2>2, DoneStays
<1>7. ASSUME NEW n \in 1..b PROVE DoneIn(z, n)
  <2>1. n \in Migrations /\ DoneIn(s, n)
    BY <1>4, MigrationsAre DEF StoreInv
  <2>2. CASE b = 3
    <3>1. n < m \/ (m <= 2 /\ n <= 3)
      BY <1>4, <1>5, <2>2
    <3> QED
      BY <1>2, <2>1, <3>1, DoneStays
  <2>3. CASE b # 3
    <3>1. n \in a
      BY <2>3 DEF StoreInv
    <3> QED
      BY <1>6, <3>1
  <2> QED
    BY <2>2, <2>3
<1>8. ASSUME a = {}, "summary" \in z["conversations"] PROVE b >= 3
  <2>1. m = 1
    <3>1. 1..(m - 1) = {}
      BY <1>8
    <3>2. m - 1 < 1
      BY <1>4, <3>1
    <3> QED
      BY <1>4, <3>2
  <2>2. "summary" \in s["conversations"]
    BY <1>1, <1>8, <2>1, NoSummaryYet DEF StoreInv
  <2> QED
    BY <1>8, <2>2 DEF StoreInv
<1>9. Shape(z) /\ (b # 3 => 1..b \subseteq a)
  BY <1>2 DEF Effect, StoreInv
<1> QED
  BY <1>2, <1>3, <1>5, <1>6, <1>7, <1>8, <1>9 DEF StoreInv

(* What the next step of a process that runs script m finds.               *)
LEMMA StatementStep ==
  ASSUME NEW w \in RowSets, NEW s, NEW a, NEW b \in 0..19,
         StoreInv(s, a, b), RowsInv(a, b, w), a \subseteq Migrations,
         NEW m, NEW i, AtStatement(m, i, s, a, b, w),
         NEW tk, Succeeds(Script[m][i], s, tk), NEW z, z = SchemaAfter(Script[m][i], s),
         NEW v, v = RowsAfter(Script[m][i], w)
  PROVE  /\ m \in Migrations /\ i \in 1..Len(Script[m]) /\ Effect(m, i, s, z)
         /\ StoreInv(z, a, b) /\ RowsInv(a, b, v) /\ v \in RowSets
         /\ i # Len(Script[m]) => AtStatement(m, i + 1, z, a, b, v)
         /\ i = Len(Script[m]) => AtRecord(m, z, a)
<1>1. /\ m \in Migrations /\ i \in 1..Len(Script[m]) /\ Reached(s, m, i) /\ 1..(m - 1) \subseteq a
      /\ (m <= 13 => a \subseteq 1..(m - 1)) /\ (m = 3 /\ i > 1 => b < 3) /\ RowsAt(m, i, w)
  BY DEF AtStatement
<1>2. StoreInv(z, a, b) /\ Effect(m, i, s, z) /\ Reached(z, m, i + 1) /\ (m = 3 => b < 3)
  BY <1>1, StoreStep
<1>3. b \in Nat
  OBVIOUS
<1>4. v \in RowSets /\ RowsInv(a, b, v) /\ RowsAt(m, i + 1, v)
  BY <1>1, <1>3, RowsStep
<1>5. Len(Script[m]) \in Nat
  BY <1>1, NumberOf
<1>6. ASSUME i # Len(Script[m]) PROVE AtStatement(m, i + 1, z, a, b, v)
  <2>1. i + 1 \in 1..Len(Script[m])
    BY <1>1, <1>5, <1>6
  <2> QED
    BY <1>1, <1>2, <1>4, <2>1 DEF AtStatement
<1>7. ASSUME i = Len(Script[m]) PROVE AtRecord(m, z, a)
  BY <1>1, <1>2, <1>7 DEF AtRecord, DoneIn
<1> QED
  BY <1>1, <1>2, <1>4, <1>6, <1>7

-----------------------------------------------------------------------------
(* The processes.                                                          *)

ProcessRecords == [stage : OpenStages, known : SUBSET Migrations, at : Nat \ {0}, step : Nat \ {0}]
IsOpening(r) == r.stage \notin {"absent", "open", "failed"}

LEMMA NearestIs ==
  ASSUME NEW r, Rest(r) # {}
  PROVE  Nearest(r) \in Rest(r) /\ Nearest(r) \in 1..19 /\ \A n \in Rest(r) : Nearest(r) <= n
<1>1. Rest(r) \in SUBSET Nat /\ Rest(r) \subseteq 1..19
  BY MigrationsAre DEF Rest
<1>2. PICK k \in Rest(r) : \A n \in Rest(r) : ~ (n < k)
  BY <1>1, LeastVersion
<1>3. \A n \in Rest(r) : k <= n
  BY <1>1, <1>2
<1>4. Nearest(r) \in Rest(r) /\ \A n \in Rest(r) : Nearest(r) <= n
  BY <1>3 DEF Nearest
<1> QED
  BY <1>1, <1>4

(* What the others rely on: only a store with the first thirteen scripts   *)
(* is opened by several.                                                   *)
LEMMA OthersStay ==
  ASSUME NEW r \in ProcessRecords, NEW s, NEW a, NEW b \in 0..19, NEW w, ProcessInv(r, s, a, b, w),
         IsOpening(r) => 1..13 \subseteq a,
         NEW z, NEW c, NEW v, a \subseteq c,
         IsOpening(r) => z = s \/ \E m \in Migrations : \E i \in 1..Len(Script[m]) : m >= 14 /\ Effect(m, i, s, z)
  PROVE  ProcessInv(r, z, c, b, v)
<1>1. CASE ~ IsOpening(r)
  BY <1>1 DEF IsOpening, ProcessInv
<1>2. CASE IsOpening(r)
  <2>1. 1..13 \subseteq a /\ 13 \in a
    BY <1>2
  <2>3. ASSUME r.stage = "run", Rest(r) # {} PROVE AtStatement(Nearest(r), r.step, z, c, b, v)
    <3>1. PICK n \in 1..19 : n = Nearest(r)
      BY <2>3, NearestIs
    <3>2. AtStatement(n, r.step, s, a, b, w)
      BY <2>3, <3>1 DEF ProcessInv
    <3>3. n >= 14
      <4>1. n <= 13 => 13 \in 1..(n - 1)
        BY <2>1, <3>2 DEF AtStatement
      <4> QED
        BY <4>1
    <3>4. n \in Migrations /\ r.step \in 1..Len(Script[n]) /\ Reached(s, n, r.step) /\ 1..(n - 1) \subseteq c
      BY <3>2 DEF AtStatement
    <3>5. r.step \in Nat /\ r.step <= Len(Script[n]) + 1
      BY <3>4, NumberOf
    <3>6. Reached(z, n, r.step)
      BY <1>2, <3>3, <3>4, <3>5, LaterReachedStays
    <3>7. RowsAt(n, r.step, v)
      BY <3>3 DEF RowsAt
    <3> QED
      BY <3>1, <3>3, <3>4, <3>6, <3>7 DEF AtStatement
  <2>4. ASSUME r.stage = "record" PROVE AtRecord(r.at, z, c)
    <3>1. r.at \in Migrations /\ DoneIn(s, r.at) /\ (r.at <= 13 => a \subseteq 1..(r.at - 1))
      BY <2>4 DEF ProcessInv, AtRecord
    <3>2. r.at \in 1..19
      BY <3>1, NumberOf
    <3>3. r.at >= 14
      <4>1. r.at <= 13 => 13 \in 1..(r.at - 1)
        BY <2>1, <3>1
      <4> QED
        BY <3>2, <4>1
    <3>4. DoneIn(z, r.at)
      <4>1. CASE z = s
        BY <3>1, <4>1
      <4>2. CASE z # s
        <5>1. PICK m \in Migrations : \E i \in 1..Len(Script[m]) : m >= 14 /\ Effect(m, i, s, z)
          BY <1>2, <4>2
        <5>2. PICK i \in 1..Len(Script[m]) : m >= 14 /\ Effect(m, i, s, z)
          BY <5>1
        <5> QED
          BY <3>1, <5>2, DoneStays
      <4> QED
        BY <4>1, <4>2
    <3> QED
      BY <3>1, <3>2, <3>3, <3>4 DEF AtRecord
  <2>5. r.stage # "look" /\ r.stage # "open"
    <3>1. r.stage = "look" => a = {}
      BY DEF ProcessInv
    <3> QED
      BY <1>2, <2>1, <3>1 DEF IsOpening
  <2> QED
    BY <2>3, <2>4, <2>5 DEF ProcessInv
<1> QED
  BY <1>1, <1>2

(* A process reads _migrations.                                            *)
LEMMA LoadsInOrder ==
  ASSUME NEW r \in ProcessRecords, NEW s, NEW a, a \subseteq Migrations, NEW b \in 0..19, NEW w,
         ProcessInv(r, s, a, b, w), StoreInv(s, a, b), r.stage = "load",
         NEW q, q = [r EXCEPT !.stage = "run", !.known = a]
  PROVE  ProcessInv(q, s, a, b, w) /\ q \in ProcessRecords
<1>1. r.at = 1 /\ r.step = 1
  BY DEF ProcessInv
<1>2. q \in ProcessRecords /\ q.stage = "run" /\ q.known = a /\ q.at = 1 /\ q.step = 1
  BY <1>1 DEF ProcessRecords, OpenStages
<1>3. ASSUME Rest(q) # {} PROVE AtStatement(Nearest(q), 1, s, a, b, w)
  <2>1. PICK m \in 1..19 : m = Nearest(q) /\ m \in Rest(q) /\ \A n \in Rest(q) : m <= n
    BY <1>3, NearestIs
  <2>2. m \in Migrations /\ m \notin a
    BY <1>2, <2>1 DEF Rest
  <2>3. ASSUME NEW n \in 1..(m - 1) PROVE n \in a
    <3>1. n \in Migrations /\ n >= 1 /\ ~ (m <= n)
      BY MigrationsAre
    <3> QED
      BY <1>2, <2>1, <3>1 DEF Rest
  <2>4. ASSUME NEW n \in a PROVE n \in 1..(m - 1)
    <3>1. n \in 1..19 /\ 1..n \subseteq a
      BY MigrationsAre DEF StoreInv
    <3> QED
      BY <2>2, <3>1
  <2>5. Reached(s, m, 1) /\ 1 \in 1..Len(Script[m])
    BY <2>2, ScriptBegins
  <2> QED
    BY <2>1, <2>2, <2>3, <2>4, <2>5 DEF AtStatement, RowsAt
<1> QED
  BY <1>2, <1>3 DEF ProcessInv

(* It records a script, and looks for the next.                            *)
RecordedAs(r, a, k, q, c) ==
  /\ r.stage = "record" /\ k = r.at /\ c = a \cup {k}
  /\ q.stage = "run" /\ q.known = r.known /\ q.at = k + 1 /\ q.step = r.step

LEMMA RecordsInOrder ==
  ASSUME NEW r \in ProcessRecords, NEW s, NEW a, a \subseteq Migrations, NEW b \in 0..19, NEW w,
         ProcessInv(r, s, a, b, w), StoreInv(s, a, b),
         NEW k \in 1..19, NEW c, NEW q \in ProcessRecords, RecordedAs(r, a, k, q, c)
  PROVE  /\ ProcessInv(q, s, c, b, w)
         /\ StoreInv(s, c, b) /\ c \subseteq Migrations
<1>0. /\ r.stage = "record" /\ k = r.at /\ c = a \cup {k}
      /\ q.stage = "run" /\ q.known = r.known /\ q.at = k + 1 /\ q.step = r.step
  BY DEF RecordedAs
<1>1. r.at \in Migrations /\ DoneIn(s, r.at) /\ (r.at <= 13 => a \subseteq 1..(r.at - 1))
  BY <1>0 DEF ProcessInv, AtRecord
<1>2. k = r.at /\ c = a \cup {k}
  BY <1>0
<1>3. r.step = 1 /\ r.known \subseteq a /\ 1..(k - 1) \subseteq a
  BY <1>0 DEF ProcessInv
<1>4. q.stage = "run" /\ q.known = r.known /\ q.at = k + 1 /\ q.step = 1
  BY <1>0, <1>3
<1>5. 1..k \subseteq c /\ c \subseteq Migrations
  BY <1>1, <1>2, <1>3
<1>6. StoreInv(s, c, b)
  BY <1>1, <1>2, <1>5 DEF StoreInv
<1>7. ASSUME Rest(q) # {} PROVE AtStatement(Nearest(q), 1, s, c, b, w)
  <2>1. PICK m \in 1..19 : m = Nearest(q) /\ m \in Rest(q) /\ \A n \in Rest(q) : m <= n
    BY <1>7, NearestIs
  <2>2. m \in Migrations /\ m >= k + 1
    BY <1>4, <2>1 DEF Rest
  <2>3. ASSUME NEW n \in 1..(m - 1) PROVE n \in c
    <3>1. n \in Migrations /\ ~ (m <= n)
      BY MigrationsAre
    <3>2. n >= k + 1 => n \in r.known
      BY <1>4, <2>1, <3>1 DEF Rest
    <3>3. n \in 1..k \/ n >= k + 1
      OBVIOUS
    <3> QED
      BY <1>2, <1>3, <1>5, <3>2, <3>3
  <2>4. ASSUME m <= 13, NEW n \in c PROVE n \in 1..(m - 1)
    <3>1. n = k \/ n \in 1..(k - 1)
      BY <1>1, <1>2, <2>2, <2>4
    <3> QED
      BY <2>2, <3>1
  <2>5. Reached(s, m, 1) /\ 1 \in 1..Len(Script[m])
    BY <2>2, ScriptBegins
  <2>6. 1..(m - 1) \subseteq c /\ (m <= 13 => c \subseteq 1..(m - 1))
    BY <2>3, <2>4
  <2>7. RowsAt(m, 1, w) /\ ~ (m = 3 /\ 1 > 1)
    BY DEF RowsAt
  <2>8. AtStatement(m, 1, s, c, b, w)
    BY <2>2, <2>5, <2>6, <2>7 DEF AtStatement
  <2> QED
    BY <2>1, <2>8
<1>8. q.known \subseteq c /\ 1..(q.at - 1) \subseteq c
  BY <1>2, <1>3, <1>4, <1>5
<1> QED
  BY <1>4, <1>5, <1>6, <1>7, <1>8 DEF ProcessInv

-----------------------------------------------------------------------------
(* OpenInv is kept while no two processes race early.                      *)

LEMMA Beside ==
  ASSUME OpenInv, NEW p \in Processes, NEW q \in Processes, p # q, Opening(p), Opening(q)
  PROVE  1..13 \subseteq applied
<1>1. 13 \in applied
  BY DEF OpenInv, Alone
<1> QED
  BY <1>1 DEF OpenInv, StoreInv

LEMMA OneSteps ==
  ASSUME OpenInv, NEW p \in Processes, NEW r \in ProcessRecords, proc' = [proc EXCEPT ![p] = r],
         born' = born, tracked' \in BOOLEAN, deaths' \in 0..MaxDeaths, crowded' \in BOOLEAN, early' \in BOOLEAN, talks' \in TalkSets,
         rows' \in RowSets, applied' \subseteq Migrations, applied \subseteq applied',
         StoreInv(schema', applied', born), RowsInv(applied', born, rows'),
         ProcessInv(r, schema', applied', born, rows'),
         IsOpening(r) => Opening(p) \/ \A q \in Processes \ {p} : Opening(q) => 13 \in applied,
         UNCHANGED <<schema, rows, applied>> \/ Opening(p) \/ 1..13 \subseteq applied,
         1..13 \subseteq applied =>
           schema' = schema \/ \E m \in Migrations : \E i \in 1..Len(Script[m]) : m >= 14 /\ Effect(m, i, schema, schema')
  PROVE  OpenInv'
<1>1. proc \in [Processes -> ProcessRecords] /\ born \in 0..19
  BY ScriptSizes DEF OpenInv, OpenTypeOK, ProcessRecords, TalkSets
<1>2. proc'[p] = r /\ (\A q \in Processes \ {p} : proc'[q] = proc[q]) /\ proc' \in [Processes -> ProcessRecords]
  BY <1>1
<1>3. OpenTypeOK'
  <2>1. schema' \in [Tables -> SUBSET Parts]
    BY DEF StoreInv, Shape
  <2> QED
    BY <1>1, <1>2, <2>1, ScriptSizes DEF OpenTypeOK, ProcessRecords, RowSets, TalkSets
<1>4. Alone'
  <2> SUFFICES ASSUME NEW x \in Processes, NEW y \in Processes, Opening(x)', Opening(y)', 13 \notin applied' PROVE x = y
    BY DEF Alone
  <2>1. \A q \in Processes \ {p} : Opening(q)' <=> Opening(q)
    BY <1>2 DEF Opening
  <2>2. Opening(p)' <=> IsOpening(r)
    BY <1>2 DEF Opening, IsOpening
  <2>4. 13 \notin applied
    OBVIOUS
  <2> QED
    BY <2>1, <2>2, <2>4 DEF OpenInv, Alone
<1>5. ASSUME NEW q \in Processes PROVE ProcessInv(proc'[q], schema', applied', born', rows')
  <2>1. CASE q = p
    BY <1>2, <2>1
  <2>2. CASE q # p
    <3>1. ProcessInv(proc[q], schema, applied, born, rows) /\ proc'[q] = proc[q] /\ proc[q] \in ProcessRecords
      BY <1>1, <1>2, <2>2 DEF OpenInv
    <3>2. CASE UNCHANGED <<schema, rows, applied>>
      BY <3>1, <3>2
    <3>3. CASE Opening(p) \/ 1..13 \subseteq applied
      <4>1. IsOpening(proc[q]) => 1..13 \subseteq applied
        BY <2>2, <3>3, Beside DEF Opening, IsOpening
      <4>2. IsOpening(proc[q]) =>
              schema' = schema \/ \E m \in Migrations : \E i \in 1..Len(Script[m]) : m >= 14 /\ Effect(m, i, schema, schema')
        BY <4>1
      <4>3. ProcessInv(proc[q], schema', applied', born, rows')
        BY <1>1, <3>1, <4>1, <4>2, OthersStay
      <4> QED
        BY <3>1, <4>3
    <3> QED
      BY <3>2, <3>3
  <2> QED
    BY <2>1, <2>2
<1> QED
  BY <1>3, <1>4, <1>5 DEF OpenInv

LEMMA OpensWithInv == OpenInit => OpenInv
<1> SUFFICES ASSUME OpenInit PROVE OpenInv
  OBVIOUS
<1>1. PICK v \in 0..19, t \in BOOLEAN :
        /\ t \/ v = 3
        /\ schema = SchemaOf[v]
        /\ tracked = (t /\ v > 0)
        /\ applied = IF t THEN 1..v ELSE {}
        /\ rows = [k \in RowTables |-> IF Exists(SchemaOf[v], k) /\ (k = "facts" => v >= 3) THEN {"old"} ELSE {}]
        /\ born = v
  BY ScriptSizes DEF OpenInit
<1>2. /\ Shape(schema) /\ (\A m \in 1..v : DoneIn(schema, m)) /\ (v = 0 => schema = NoTables)
      /\ (v >= 3 => Exists(schema, "facts")) /\ (v >= 10 => Exists(schema, "lessons"))
  BY <1>1, VersionOf
<1>3. applied \subseteq 1..v /\ applied \subseteq Migrations /\ (\A m \in applied : 1..m \subseteq applied) /\ (v # 3 => 1..v \subseteq applied)
      /\ (applied = {} => v = 0 \/ v = 3)
  <2>1. \A n \in 1..v : n \in Migrations
    BY MigrationsAre
  <2>2. CASE t
    <3>1. applied = 1..v
      BY <1>1, <2>2
    <3>2. 1..v = {} => v = 0
      <4>1. v # 0 => 1 \in 1..v
        OBVIOUS
      <4> QED
        BY <4>1
    <3>3. \A m \in 1..v : 1..m \subseteq 1..v
      OBVIOUS
    <3> QED
      BY <2>1, <3>1, <3>2, <3>3
  <2>3. CASE ~ t
    <3>1. applied = {} /\ v = 3
      BY <1>1, <2>3
    <3> QED
      BY <3>1
  <2> QED
    BY <2>2, <2>3
<1>4. StoreInv(schema, applied, born)
  <2>1. "conversations" \in Tables
    <3>1. 1 \in 1..Len(Script[1]) /\ Script[1][1].table = "conversations"
      BY ScriptSizes, FirstOfTables DEF Ensure
    <3>2. 1 \in Migrations
      BY MigrationsAre
    <3> QED
      BY <3>1, <3>2, StatementFacts
  <2>2. v = 0 => schema["conversations"] = {}
    BY <1>2, <2>1 DEF NoTables
  <2> QED
    BY <1>1, <1>2, <1>3, <2>2 DEF StoreInv
<1>5. rows \in RowSets /\ RowsInv(applied, born, rows)
  <2>1. rows \in RowSets
    BY <1>1 DEF RowSets
  <2>2. /\ rows["facts"] = IF Exists(schema, "facts") /\ v >= 3 THEN {"old"} ELSE {}
        /\ rows["lessons"] = IF Exists(schema, "lessons") THEN {"old"} ELSE {}
        /\ rows["lessons_new"] \subseteq {"old"} /\ rows["lessons_v2"] \subseteq {"old"}
    BY <1>1 DEF RowTables
  <2>3. rows["facts"] \subseteq {"old"} /\ LessonsIn(rows) \subseteq {"old"}
    BY <2>2 DEF LessonsIn
  <2>4. rows["facts"] \ {"old"} = {} /\ LessonsIn(rows) \ {"old"} = {}
    BY <2>3
  <2>5. (v >= 3 => "old" \in rows["facts"]) /\ (v >= 10 => "old" \in LessonsIn(rows))
    BY <1>2, <2>2 DEF LessonsIn
  <2> QED
    BY <1>1, <2>1, <2>3, <2>4, <2>5 DEF RowsInv
<1>6. proc = [p \in Processes |-> Fresh] /\ deaths = 0 /\ crowded = FALSE /\ early = FALSE /\ talks \subseteq {"old"}
  BY DEF OpenInit
<1>7. OpenTypeOK
  <2>1. Fresh \in ProcessRecords
    BY DEF Fresh, ProcessRecords, OpenStages
  <2>2. deaths \in 0..MaxDeaths
    BY <1>6, OpenConstantsOK
  <2> QED
    BY <1>1, <1>2, <1>3, <1>5, <1>6, <2>1, <2>2, ScriptSizes DEF OpenTypeOK, Shape, RowSets, ProcessRecords
<1>8. Alone
  BY <1>6 DEF Alone, Opening, Fresh
<1>9. \A p \in Processes : ProcessInv(proc[p], schema, applied, born, rows)
  BY <1>6 DEF ProcessInv, Fresh
<1> QED
  BY <1>4, <1>5, <1>7, <1>8, <1>9 DEF OpenInv

(* Steps that leave the store as it is.                                    *)
LEMMA LocalStep ==
  ASSUME OpenInv, NEW p \in Processes, NEW r \in ProcessRecords, proc' = [proc EXCEPT ![p] = r],
         UNCHANGED <<schema, rows, applied, born>>,
         tracked' \in BOOLEAN, deaths' \in 0..MaxDeaths, crowded' \in BOOLEAN, early' \in BOOLEAN, talks' \in TalkSets,
         ProcessInv(r, schema, applied, born, rows),
         IsOpening(r) => Opening(p) \/ \A q \in Processes \ {p} : Opening(q) => 13 \in applied
  PROVE  OpenInv'
<1>1. rows' \in RowSets /\ applied' \subseteq Migrations /\ applied \subseteq applied'
  BY DEF OpenInv, OpenTypeOK, RowSets
<1>2. StoreInv(schema', applied', born) /\ RowsInv(applied', born, rows') /\ ProcessInv(r, schema', applied', born, rows')
  BY DEF OpenInv
<1> QED
  BY <1>1, <1>2, OneSteps

LEMMA ReadingSteps ==
  ASSUME OpenInv, ~ early', NEW p \in Processes,
         Start(p) \/ MakeTable(p) \/ Count(p) \/ Look(p) \/ Load(p) \/ RunFails(p) \/ Opened(p) \/ Retry(p) \/ Die(p)
  PROVE  OpenInv'
<1>1. /\ proc \in [Processes -> ProcessRecords] /\ proc[p] \in ProcessRecords /\ born \in 0..19 /\ applied \subseteq Migrations
      /\ tracked \in BOOLEAN /\ deaths \in 0..MaxDeaths /\ crowded \in BOOLEAN /\ early \in BOOLEAN /\ talks \in TalkSets
  BY ScriptSizes DEF OpenInv, OpenTypeOK, ProcessRecords, TalkSets
<1>2. ProcessInv(proc[p], schema, applied, born, rows)
  BY DEF OpenInv
<1>3. Fresh \in ProcessRecords /\ ProcessInv(Fresh, schema, applied, born, rows) /\ ~ IsOpening(Fresh)
  BY DEF Fresh, ProcessRecords, OpenStages, ProcessInv, IsOpening
<1>4. ASSUME NEW g \in OpenStages, Enters(p, g)
      PROVE  \E r \in ProcessRecords :
               /\ proc' = [proc EXCEPT ![p] = r] /\ r.stage = g
               /\ r.known = proc[p].known /\ r.at = proc[p].at /\ r.step = proc[p].step
  <2>1. PICK r : r = [proc[p] EXCEPT !.stage = g]
    OBVIOUS
  <2>2. /\ r \in ProcessRecords /\ r.stage = g
        /\ r.known = proc[p].known /\ r.at = proc[p].at /\ r.step = proc[p].step
    BY <1>1, <1>4, <2>1 DEF ProcessRecords
  <2>3. proc' = [proc EXCEPT ![p] = r]
    BY <1>4, <2>1 DEF Enters
  <2> QED
    BY <2>2, <2>3
<1>5. {"table", "count", "look", "boot", "load", "run", "open", "failed"} \subseteq OpenStages
  BY DEF OpenStages
<1>6. CASE Start(p)
  <2>1. PICK r \in ProcessRecords :
          /\ proc' = [proc EXCEPT ![p] = r] /\ r.stage = "table"
          /\ r.known = proc[p].known /\ r.at = proc[p].at /\ r.step = proc[p].step
    BY <1>4, <1>5, <1>6 DEF Start
  <2>2. proc[p].stage = "absent" /\ UNCHANGED <<schema, rows, talks, tracked, applied, born, deaths>>
    BY <1>6 DEF Start
  <2>6. crowded' \in BOOLEAN /\ early' \in BOOLEAN
    BY <1>1, <1>6 DEF Start
  <2>3. \A q \in Processes \ {p} : Opening(q) => 13 \in applied
    BY <1>6 DEF Start
  <2>4. r.at = 1
    BY <1>2, <2>1, <2>2 DEF ProcessInv
  <2>5. ProcessInv(r, schema, applied, born, rows)
    BY <1>2, <2>1, <2>2, <2>4 DEF ProcessInv
  <2> QED
    BY <1>1, <2>1, <2>2, <2>3, <2>5, <2>6, LocalStep
<1>7. CASE MakeTable(p)
  <2>1. PICK r \in ProcessRecords :
          /\ proc' = [proc EXCEPT ![p] = r] /\ r.stage = "count"
          /\ r.known = proc[p].known /\ r.at = proc[p].at /\ r.step = proc[p].step
    BY <1>4, <1>5, <1>7 DEF MakeTable
  <2>2. /\ proc[p].stage = "table" /\ UNCHANGED <<schema, rows, talks, applied, born, deaths, crowded, early>>
        /\ tracked' \in BOOLEAN /\ Opening(p)
    BY <1>7 DEF MakeTable, Opening
  <2>3. ProcessInv(r, schema, applied, born, rows)
    BY <1>2, <2>1, <2>2 DEF ProcessInv
  <2> QED
    BY <1>1, <2>1, <2>2, <2>3, LocalStep
<1>8. CASE Count(p)
  <2>1. PICK g \in {"look", "load"} : g = IF applied = {} THEN "look" ELSE "load"
    OBVIOUS
  <2>2. PICK r \in ProcessRecords :
          /\ proc' = [proc EXCEPT ![p] = r] /\ r.stage = g
          /\ r.known = proc[p].known /\ r.at = proc[p].at /\ r.step = proc[p].step
    BY <1>4, <1>5, <1>8, <2>1 DEF Count
  <2>3. proc[p].stage = "count" /\ UNCHANGED <<schema, rows, talks, tracked, applied, born, deaths, crowded, early>> /\ Opening(p)
    BY <1>8 DEF Count, Opening
  <2>4. ProcessInv(r, schema, applied, born, rows)
    BY <1>2, <2>1, <2>2, <2>3 DEF ProcessInv
  <2> QED
    BY <1>1, <2>2, <2>3, <2>4, LocalStep
<1>9. CASE Look(p)
  <2>1. PICK g \in {"boot", "load"} : g = IF "summary" \in schema["conversations"] THEN "boot" ELSE "load"
    OBVIOUS
  <2>2. PICK r \in ProcessRecords :
          /\ proc' = [proc EXCEPT ![p] = r] /\ r.stage = g
          /\ r.known = proc[p].known /\ r.at = proc[p].at /\ r.step = proc[p].step
    BY <1>4, <1>5, <1>9, <2>1 DEF Look
  <2>3. proc[p].stage = "look" /\ UNCHANGED <<schema, rows, talks, tracked, applied, born, deaths, crowded, early>> /\ Opening(p)
    BY <1>9 DEF Look, Opening
  <2>4. applied = {} /\ proc[p].at = 1
    BY <1>2, <2>3 DEF ProcessInv
  <2>5. g = "boot" => born >= 3
    BY <2>1, <2>4 DEF OpenInv, StoreInv
  <2>6. ProcessInv(r, schema, applied, born, rows)
    BY <1>2, <2>1, <2>2, <2>3, <2>4, <2>5 DEF ProcessInv
  <2> QED
    BY <1>1, <2>2, <2>3, <2>6, LocalStep
<1>10. CASE Load(p)
  <2>1. PICK r : r = [proc[p] EXCEPT !.stage = "run", !.known = applied]
    OBVIOUS
  <2>2. proc' = [proc EXCEPT ![p] = r]
    BY <1>10, <2>1 DEF Load
  <2>3. proc[p].stage = "load" /\ UNCHANGED <<schema, rows, talks, tracked, applied, born, deaths, crowded, early>> /\ Opening(p)
    BY <1>10 DEF Load, Opening
  <2>4. StoreInv(schema, applied, born)
    BY DEF OpenInv
  <2>5. ProcessInv(r, schema, applied, born, rows) /\ r \in ProcessRecords
    BY <1>1, <1>2, <2>1, <2>3, <2>4, LoadsInOrder
  <2> QED
    BY <1>1, <2>2, <2>3, <2>5, LocalStep
<1>11. CASE RunFails(p)
  <2>1. PICK r \in ProcessRecords :
          /\ proc' = [proc EXCEPT ![p] = r] /\ r.stage = "failed"
          /\ r.known = proc[p].known /\ r.at = proc[p].at /\ r.step = proc[p].step
    BY <1>4, <1>5, <1>11 DEF RunFails
  <2>2. UNCHANGED <<schema, rows, talks, tracked, applied, born, deaths, crowded, early>>
    BY <1>11 DEF RunFails
  <2>3. ProcessInv(r, schema, applied, born, rows) /\ ~ IsOpening(r)
    BY <1>2, <2>1 DEF ProcessInv, IsOpening
  <2> QED
    BY <1>1, <2>1, <2>2, <2>3, LocalStep
<1>12. CASE Opened(p)
  <2>1. PICK r \in ProcessRecords :
          /\ proc' = [proc EXCEPT ![p] = r] /\ r.stage = "open"
          /\ r.known = proc[p].known /\ r.at = proc[p].at /\ r.step = proc[p].step
    BY <1>4, <1>5, <1>12 DEF Opened
  <2>2. proc[p].stage = "run" /\ Remaining(p) = {} /\ UNCHANGED <<schema, rows, talks, tracked, applied, born, deaths, crowded, early>>
    BY <1>12 DEF Opened
  <2>3. Migrations \subseteq applied
    <3> SUFFICES ASSUME NEW m \in Migrations PROVE m \in applied
      OBVIOUS
    <3>1. m \in 1..19 /\ proc[p].at \in Nat
      BY <1>1, NumberOf DEF ProcessRecords
    <3>2. m \in proc[p].known \/ m \in 1..(proc[p].at - 1)
      BY <2>2, <3>1 DEF Remaining
    <3> QED
      BY <1>2, <3>2 DEF ProcessInv
  <2>5. ProcessInv(r, schema, applied, born, rows) /\ ~ IsOpening(r)
    BY <1>2, <2>1, <2>3 DEF ProcessInv, IsOpening
  <2> QED
    BY <1>1, <2>1, <2>2, <2>5, LocalStep
<1>13. CASE Retry(p) \/ Die(p)
  <2>1. proc' = [proc EXCEPT ![p] = Fresh]
    BY <1>13 DEF Retry, Die
  <2>2. UNCHANGED <<schema, rows, talks, tracked, applied, born, crowded, early>> /\ deaths' \in 0..MaxDeaths
    BY <1>1, <1>13, OpenConstantsOK DEF Retry, Die
  <2> QED
    BY <1>1, <1>3, <2>1, <2>2, LocalStep
<1> QED
  BY <1>6, <1>7, <1>8, <1>9, <1>10, <1>11, <1>12, <1>13

LEMMA BootsThree == Cardinality(Untracked) = 3
<1>1. Untracked = 1..3
  BY DEF Untracked
<1>2. \A n \in Nat : Cardinality(1..n) = IF 1 > n THEN 0 ELSE n - 1 + 1
  BY FS_Interval
<1>3. Cardinality(1..3) = IF 1 > 3 THEN 0 ELSE 3 - 1 + 1
  BY <1>2
<1> QED
  BY <1>1, <1>3

LEMMA BootKeeps ==
  ASSUME OpenInv, NEW p \in Processes, Boot(p)
  PROVE  OpenInv'
<1>1. /\ proc \in [Processes -> ProcessRecords] /\ proc[p] \in ProcessRecords /\ born \in 0..19 /\ applied \subseteq Migrations
      /\ tracked \in BOOLEAN /\ deaths \in 0..MaxDeaths /\ crowded \in BOOLEAN /\ early \in BOOLEAN /\ talks \in TalkSets /\ rows \in RowSets
  BY ScriptSizes DEF OpenInv, OpenTypeOK, ProcessRecords, RowSets, TalkSets
<1>2. ProcessInv(proc[p], schema, applied, born, rows) /\ StoreInv(schema, applied, born) /\ RowsInv(applied, born, rows)
  BY DEF OpenInv
<1>3. proc[p].stage = "boot" /\ UNCHANGED <<schema, rows, talks, tracked, born, deaths, crowded, early>> /\ Opening(p)
  BY DEF Boot, Opening
<1>4. PICK k \in 1..3 : k = proc[p].at
  BY <1>1, <1>2, <1>3 DEF ProcessInv, ProcessRecords
<1>5. born >= 3 /\ proc[p].step = 1 /\ proc[p].known \subseteq applied /\ 1..(k - 1) \subseteq applied
  BY <1>2, <1>3, <1>4 DEF ProcessInv
<1>6. applied' = applied \cup {k}
  BY <1>4 DEF Boot
<1>7. 1..k \subseteq applied' /\ applied \subseteq applied' /\ applied' \subseteq Migrations
  <2>1. k \in Migrations
    BY MigrationsAre
  <2>2. \A n \in 1..k : n = k \/ n \in 1..(k - 1)
    OBVIOUS
  <2> QED
    BY <1>1, <1>5, <1>6, <2>1, <2>2
<1>8. StoreInv(schema, applied', born)
  <2>1. DoneIn(schema, k)
    BY <1>2, <1>5 DEF StoreInv
  <2> QED
    BY <1>2, <1>6, <1>7, <2>1 DEF StoreInv
<1>9. RowsInv(applied', born, rows)
  BY <1>2, <1>7 DEF RowsInv
<1>10. Cardinality(Untracked) = 3
  BY BootsThree
<1>11. PICK r \in ProcessRecords :
         /\ proc' = [proc EXCEPT ![p] = r] /\ r.known = proc[p].known /\ r.step = 1
         /\ (r.stage = "load" /\ r.at = 1) \/ (r.stage = "boot" /\ k # 3 /\ r.at = k + 1)
  <2>1. CASE k = 3
    <3>1. PICK r : r = [proc[p] EXCEPT !.stage = "load", !.at = 1]
      OBVIOUS
    <3>2. /\ r \in ProcessRecords /\ r.stage = "load" /\ r.at = 1 /\ r.step = 1 /\ r.known = proc[p].known
      BY <1>1, <1>5, <3>1 DEF ProcessRecords, OpenStages
    <3>3. proc' = [proc EXCEPT ![p] = r]
      BY <1>1, <1>4, <1>10, <2>1, <3>1 DEF Boot
    <3> QED
      BY <3>2, <3>3
  <2>2. CASE k # 3
    <3>1. PICK r : r = [proc[p] EXCEPT !.at = k + 1]
      OBVIOUS
    <3>2. /\ r \in ProcessRecords /\ r.stage = "boot" /\ r.at = k + 1 /\ r.step = 1 /\ r.known = proc[p].known
      BY <1>1, <1>3, <1>5, <3>1 DEF ProcessRecords
    <3>3. proc' = [proc EXCEPT ![p] = r]
      BY <1>1, <1>4, <1>10, <2>2, <3>1 DEF Boot
    <3> QED
      BY <2>2, <3>2, <3>3
  <2> QED
    BY <2>1, <2>2
<1>12. r.stage = "boot" => r.at <= 3
  BY <1>11
<1>13. ProcessInv(r, schema, applied', born, rows) /\ IsOpening(r)
  <2>1. 1..(r.at - 1) \subseteq applied'
    <3>1. CASE r.at = 1
      BY <3>1
    <3>2. CASE r.at = k + 1
      <4>1. (k + 1) - 1 = k
        OBVIOUS
      <4> QED
        BY <1>7, <3>2, <4>1
    <3> QED
      BY <1>11, <3>1, <3>2
  <2> QED
    BY <1>5, <1>7, <1>11, <1>12, <2>1 DEF ProcessInv, IsOpening
<1>14. StoreInv(schema', applied', born) /\ RowsInv(applied', born, rows') /\ ProcessInv(r, schema', applied', born, rows') /\ rows' \in RowSets
  BY <1>1, <1>3, <1>8, <1>9, <1>13
<1> QED
  BY <1>1, <1>3, <1>7, <1>11, <1>13, <1>14, OneSteps

LEMMA RecordKeeps ==
  ASSUME OpenInv, NEW p \in Processes, Record(p)
  PROVE  OpenInv'
<1>1. /\ proc \in [Processes -> ProcessRecords] /\ proc[p] \in ProcessRecords /\ born \in 0..19 /\ applied \subseteq Migrations
      /\ tracked \in BOOLEAN /\ deaths \in 0..MaxDeaths /\ crowded \in BOOLEAN /\ early \in BOOLEAN /\ talks \in TalkSets /\ rows \in RowSets
  BY ScriptSizes DEF OpenInv, OpenTypeOK, ProcessRecords, RowSets, TalkSets
<1>2. ProcessInv(proc[p], schema, applied, born, rows) /\ StoreInv(schema, applied, born) /\ RowsInv(applied, born, rows)
  BY DEF OpenInv
<1>3. proc[p].stage = "record" /\ UNCHANGED <<schema, rows, talks, tracked, born, deaths, crowded, early>> /\ Opening(p)
  BY DEF Record, Opening
<1>4. CASE proc[p].at \in applied
  <2>1. UNCHANGED applied /\ Enters(p, "failed")
    BY <1>4 DEF Record
  <2>2. PICK r : r = [proc[p] EXCEPT !.stage = "failed"]
    OBVIOUS
  <2>3. proc' = [proc EXCEPT ![p] = r]
    BY <2>1, <2>2 DEF Enters
  <2>4. r \in ProcessRecords /\ r.stage = "failed" /\ r.known = proc[p].known /\ r.at = proc[p].at
    BY <1>1, <2>2 DEF ProcessRecords, OpenStages
  <2>5. ProcessInv(r, schema, applied, born, rows) /\ ~ IsOpening(r)
    BY <1>2, <2>4 DEF ProcessInv, IsOpening
  <2> QED
    BY <1>1, <1>3, <2>1, <2>3, <2>4, <2>5, LocalStep
<1>5. CASE proc[p].at \notin applied
  <2>1. applied' = applied \cup {proc[p].at} /\ proc' = [proc EXCEPT ![p].stage = "run", ![p].at = @ + 1]
    BY <1>5 DEF Record
  <2>2. PICK k \in 1..19 : k = proc[p].at
    <3>1. proc[p].at \in Migrations
      BY <1>2, <1>3 DEF ProcessInv, AtRecord
    <3> QED
      BY <3>1, NumberOf
  <2>3. PICK r \in ProcessRecords :
          /\ proc' = [proc EXCEPT ![p] = r]
          /\ r.stage = "run" /\ r.known = proc[p].known /\ r.at = k + 1 /\ r.step = proc[p].step
    <3>2. PICK r : r = [proc[p] EXCEPT !.stage = "run", !.at = k + 1]
      OBVIOUS
    <3>3. proc' = [proc EXCEPT ![p] = r]
      BY <1>1, <2>1, <2>2, <3>2
    <3>4. k + 1 \in Nat \ {0} /\ "run" \in OpenStages
      BY DEF OpenStages
    <3>5. r \in ProcessRecords /\ r.stage = "run" /\ r.known = proc[p].known /\ r.at = k + 1 /\ r.step = proc[p].step
      BY <1>1, <3>2, <3>4 DEF ProcessRecords
    <3> QED
      BY <3>3, <3>5
  <2>4. PICK c : c = applied \cup {k}
    OBVIOUS
  <2>5. ProcessInv(r, schema, c, born, rows) /\ StoreInv(schema, c, born) /\ c \subseteq Migrations
    <3>1. RecordedAs(proc[p], applied, k, r, c)
      BY <1>3, <2>2, <2>3, <2>4 DEF RecordedAs
    <3> QED
      BY <1>1, <1>2, <3>1, RecordsInOrder
  <2>6. applied' = c /\ applied \subseteq applied'
    BY <2>1, <2>2, <2>4
  <2>7. RowsInv(applied', born, rows)
    BY <1>2, <2>6 DEF RowsInv
  <2>8. StoreInv(schema', applied', born) /\ RowsInv(applied', born, rows') /\ ProcessInv(r, schema', applied', born, rows') /\ rows' \in RowSets
    BY <1>1, <1>3, <2>5, <2>6, <2>7
  <2> QED
    BY <1>1, <1>3, <2>3, <2>5, <2>6, <2>8, OneSteps
<1> QED
  BY <1>4, <1>5

LEMMA UseKeeps ==
  ASSUME OpenInv, NEW p \in Processes, Use(p)
  PROVE  OpenInv'
<1>1. /\ proc \in [Processes -> ProcessRecords] /\ proc[p] \in ProcessRecords /\ born \in 0..19 /\ applied \subseteq Migrations
      /\ tracked \in BOOLEAN /\ deaths \in 0..MaxDeaths /\ crowded \in BOOLEAN /\ early \in BOOLEAN /\ talks \in TalkSets /\ rows \in RowSets
  BY ScriptSizes DEF OpenInv, OpenTypeOK, ProcessRecords, RowSets, TalkSets
<1>2. ProcessInv(proc[p], schema, applied, born, rows) /\ StoreInv(schema, applied, born) /\ RowsInv(applied, born, rows)
  BY DEF OpenInv
<1>3. proc[p].stage = "open" /\ UNCHANGED <<schema, tracked, applied, proc, born, deaths, crowded, early>>
  BY DEF Use
<1>11. talks' \in TalkSets
  BY <1>1 DEF Use, TalkSets
<1>4. rows' = [rows EXCEPT !["facts"] = rows["facts"] \cup {p}, !["lessons"] = rows["lessons"] \cup {p}]
  BY DEF Use
<1>5. 1..13 \subseteq applied
  <2>1. Migrations \subseteq applied
    BY <1>2, <1>3 DEF ProcessInv
  <2> QED
    BY <2>1, MigrationsAre
<1>6. /\ rows' \in RowSets /\ rows'["facts"] = rows["facts"] \cup {p} /\ rows'["lessons"] = rows["lessons"] \cup {p}
      /\ rows'["lessons_new"] = rows["lessons_new"] /\ rows'["lessons_v2"] = rows["lessons_v2"]
  BY <1>1, <1>4 DEF RowSets, RowTables
<1>7. RowsInv(applied, born, rows')
  <2>1. 13 \in applied
    BY <1>5
  <2>2. LessonsIn(rows') = LessonsIn(rows) \cup {p}
    BY <1>6 DEF LessonsIn
  <2> QED
    BY <1>2, <1>6, <2>1, <2>2 DEF RowsInv
<1>8. proc' = [proc EXCEPT ![p] = proc[p]] /\ ~ IsOpening(proc[p])
  BY <1>1, <1>3 DEF IsOpening
<1>9. ProcessInv(proc[p], schema, applied, born, rows')
  BY <1>2, <1>3 DEF ProcessInv
<1>10. StoreInv(schema', applied', born) /\ RowsInv(applied', born, rows') /\ ProcessInv(proc[p], schema', applied', born, rows')
  BY <1>2, <1>3, <1>7, <1>9
<1> QED
  BY <1>1, <1>3, <1>5, <1>6, <1>8, <1>10, <1>11, OneSteps

LEMMA RunKeeps ==
  ASSUME OpenInv, NEW p \in Processes, RunStatement(p)
  PROVE  OpenInv'
<1>1. /\ proc \in [Processes -> ProcessRecords] /\ proc[p] \in ProcessRecords /\ born \in 0..19 /\ applied \subseteq Migrations
      /\ tracked \in BOOLEAN /\ deaths \in 0..MaxDeaths /\ crowded \in BOOLEAN /\ early \in BOOLEAN /\ talks \in TalkSets /\ rows \in RowSets
  BY ScriptSizes DEF OpenInv, OpenTypeOK, ProcessRecords, RowSets, TalkSets
<1>2. ProcessInv(proc[p], schema, applied, born, rows) /\ StoreInv(schema, applied, born) /\ RowsInv(applied, born, rows)
  BY DEF OpenInv
<1>3. proc[p].stage = "run" /\ UNCHANGED <<talks, tracked, applied, born, deaths, crowded, early>> /\ Opening(p) /\ Rest(proc[p]) # {}
  BY DEF RunStatement, Opening, Remaining, Rest
<1>4. PICK m \in 1..19 : m = Nearest(proc[p]) /\ m \in Rest(proc[p])
  BY <1>3, NearestIs
<1>5. m = Current(p)
  BY <1>4 DEF Current, Remaining, Nearest, Rest
<1>6. PICK i : i = proc[p].step
  OBVIOUS
<1>7. AtStatement(m, i, schema, applied, born, rows)
  BY <1>2, <1>3, <1>4, <1>6 DEF ProcessInv
<1>8. /\ Succeeds(Script[m][i], schema, talks) /\ schema' = SchemaAfter(Script[m][i], schema) /\ rows' = RowsAfter(Script[m][i], rows)
      /\ (i = Len(Script[m]) => proc' = [proc EXCEPT ![p].stage = "record", ![p].at = m, ![p].step = 1])
      /\ (i # Len(Script[m]) => proc' = [proc EXCEPT ![p].step = @ + 1])
  BY <1>5, <1>6 DEF RunStatement
<1>9. PICK z, v : z = SchemaAfter(Script[m][i], schema) /\ v = RowsAfter(Script[m][i], rows)
  OBVIOUS
<1>10. /\ m \in Migrations /\ i \in 1..Len(Script[m]) /\ Effect(m, i, schema, z)
       /\ StoreInv(z, applied, born) /\ RowsInv(applied, born, v) /\ v \in RowSets
       /\ (i # Len(Script[m]) => AtStatement(m, i + 1, z, applied, born, v))
       /\ (i = Len(Script[m]) => AtRecord(m, z, applied))
  BY <1>1, <1>2, <1>7, <1>8, <1>9, StatementStep
<1>11. i \in Nat \ {0} /\ m \in Nat \ {0}
  BY <1>1, <1>6 DEF ProcessRecords
<1>12. \E r \in ProcessRecords : proc' = [proc EXCEPT ![p] = r] /\ ProcessInv(r, z, applied, born, v)
  <2>1. CASE i = Len(Script[m])
    <3>1. PICK r : r = [proc[p] EXCEPT !.stage = "record", !.at = m, !.step = 1]
      OBVIOUS
    <3>2. r \in ProcessRecords /\ r.stage = "record" /\ r.at = m /\ r.step = 1 /\ r.known = proc[p].known
      <4>1. "record" \in OpenStages /\ 1 \in Nat \ {0}
        BY DEF OpenStages
      <4> QED
        BY <1>1, <1>11, <3>1, <4>1 DEF ProcessRecords
    <3>3. AtRecord(m, z, applied) /\ 1..(m - 1) \subseteq applied /\ proc[p].known \subseteq applied
      BY <1>2, <1>7, <1>10, <2>1 DEF AtStatement, ProcessInv
    <3>4. proc' = [proc EXCEPT ![p] = r]
      BY <1>1, <1>8, <2>1, <3>1
    <3> QED
      BY <3>2, <3>3, <3>4 DEF ProcessInv
  <2>2. CASE i # Len(Script[m])
    <3>1. PICK r : r = [proc[p] EXCEPT !.step = i + 1]
      OBVIOUS
    <3>2. r \in ProcessRecords /\ r.stage = "run" /\ r.at = proc[p].at /\ r.step = i + 1 /\ r.known = proc[p].known
      BY <1>1, <1>3, <1>11, <3>1 DEF ProcessRecords
    <3>3. Nearest(r) = m
      BY <1>4, <3>2 DEF Nearest, Rest
    <3>4. AtStatement(m, i + 1, z, applied, born, v)
      BY <1>10, <2>2
    <3>5. proc[p].known \subseteq applied /\ 1..(proc[p].at - 1) \subseteq applied
      BY <1>2 DEF ProcessInv
    <3>6. proc' = [proc EXCEPT ![p] = r]
      BY <1>1, <1>6, <1>8, <2>2, <3>1
    <3> QED
      BY <3>2, <3>3, <3>4, <3>5, <3>6 DEF ProcessInv
  <2> QED
    BY <2>1, <2>2
<1>13. PICK r \in ProcessRecords : proc' = [proc EXCEPT ![p] = r] /\ ProcessInv(r, z, applied, born, v)
  BY <1>12
<1>15. 1..13 \subseteq applied => m >= 14
  <2>1. m <= 13 => applied \subseteq 1..(m - 1)
    BY <1>7 DEF AtStatement
  <2>2. 13 \in 1..13 /\ ~ (m <= 13 /\ 13 \in 1..(m - 1))
    OBVIOUS
  <2> QED
    BY <2>1, <2>2
<1>16. schema' = z /\ rows' = v /\ applied' = applied /\ born' = born
  BY <1>3, <1>8, <1>9
<1>17. rows' \in RowSets /\ StoreInv(schema', applied', born) /\ RowsInv(applied', born, rows') /\ ProcessInv(r, schema', applied', born, rows')
  BY <1>10, <1>13, <1>16
<1>18. 1..13 \subseteq applied =>
         \E n \in Migrations : \E j \in 1..Len(Script[n]) : n >= 14 /\ Effect(n, j, schema, schema')
  BY <1>10, <1>15, <1>16
<1> QED
  BY <1>1, <1>3, <1>13, <1>16, <1>17, <1>18, OneSteps

(* A race that is early remains so, and begins with a Start.               *)
LEMMA EarlyStays ==
  ASSUME NEW p \in Processes, early,
         \/ Start(p) \/ MakeTable(p) \/ Count(p) \/ Look(p) \/ Boot(p) \/ Load(p)
         \/ RunStatement(p) \/ RunFails(p) \/ Record(p) \/ Opened(p)
         \/ Use(p) \/ Retry(p) \/ Die(p)
  PROVE  early'
<1>1. CASE Start(p)
  BY <1>1 DEF Start
<1>2. CASE MakeTable(p) \/ Count(p) \/ Look(p) \/ Boot(p) \/ Load(p) \/ Die(p)
  BY <1>2 DEF MakeTable, Count, Look, Boot, Load, Die
<1>3. CASE RunStatement(p) \/ RunFails(p) \/ Record(p) \/ Opened(p) \/ Use(p) \/ Retry(p)
  BY <1>3 DEF RunStatement, RunFails, Record, Opened, Use, Retry
<1> QED
  BY <1>1, <1>2, <1>3

UnlessEarly == ~ early => OpenInv

LEMMA OpenInvHolds == OpenSpec => []UnlessEarly
<1>1. ASSUME UnlessEarly, [OpenNext]_openVars PROVE UnlessEarly'
  <2>1. CASE UNCHANGED openVars
    BY <1>1, <2>1 DEF openVars, UnlessEarly, OpenInv, OpenTypeOK, Alone, Opening
  <2>2. CASE OpenNext
    <3>1. PICK p \in Processes :
            \/ Start(p) \/ MakeTable(p) \/ Count(p) \/ Look(p) \/ Boot(p) \/ Load(p)
            \/ RunStatement(p) \/ RunFails(p) \/ Record(p) \/ Opened(p)
            \/ Use(p) \/ Retry(p) \/ Die(p)
      BY <2>2 DEF OpenNext
    <3> SUFFICES ASSUME ~ early' PROVE OpenInv'
      BY DEF UnlessEarly
    <3>7. OpenInv
      BY <1>1, <3>1, EarlyStays DEF UnlessEarly
    <3>2. CASE Boot(p)
      BY <3>7, <3>2, BootKeeps
    <3>3. CASE RunStatement(p)
      BY <3>7, <3>3, RunKeeps
    <3>4. CASE Record(p)
      BY <3>7, <3>4, RecordKeeps
    <3>5. CASE Use(p)
      BY <3>7, <3>5, UseKeeps
    <3>6. CASE ~ (Boot(p) \/ RunStatement(p) \/ Record(p) \/ Use(p))
      BY <3>7, <3>1, <3>6, ReadingSteps
    <3> QED
      BY <3>2, <3>3, <3>4, <3>5, <3>6
  <2> QED
    BY <1>1, <2>1, <2>2
<1>2. OpenInit => UnlessEarly
  BY OpensWithInv DEF UnlessEarly
<1> QED
  BY <1>1, <1>2, PTL DEF OpenSpec

(* A store that Store::new hands out has every table, column and trigger   *)
(* of the newest version, whatever version it started from, whoever died   *)
(* on the way and whoever raced, unless two processes were opening it at   *)
(* once before 013 was recorded.                                           *)
THEOREM OpenedStoresAreCurrent == OpenSpec => []OpenMeansCurrent
<1>1. UnlessEarly => OpenMeansCurrent
  <2> SUFFICES ASSUME OpenInv, NEW p \in Processes, proc[p].stage = "open" PROVE schema = Newest
    BY DEF OpenMeansCurrent, UnlessEarly
  <2>1. Migrations \subseteq applied
    BY DEF OpenInv, ProcessInv
  <2>2. Shape(schema) /\ \A m \in Migrations : DoneIn(schema, m)
    BY <2>1 DEF OpenInv, StoreInv
  <2> QED
    BY <2>2, AllDoneIsFinal, NewestIs
<1> QED
  BY <1>1, OpenInvHolds, PTL

(* No fact or lesson is lost in an upgrade, one that died half-way or was  *)
(* raced after 013 included: it is in its table or in the copy left        *)
(* behind.                                                                 *)
THEOREM UpgradesLoseNoRows == OpenSpec => []RowsSurvive
<1>1. UnlessEarly => RowsSurvive
  BY DEF UnlessEarly, OpenInv, RowsInv, LessonsIn, RowsSurvive, Lessons
<1> QED
  BY <1>1, OpenInvHolds, PTL

LEMMA FirstStepFits ==
  ASSUME NEW r, Rest(r) # {}
  PROVE  1 \in 1..Len(Script[Nearest(r)])
<1>1. Nearest(r) \in 1..19
  BY NearestIs
<1> QED
  BY <1>1, MigrationsAre, ScriptBegins

(* The types need no more than that a process knows where in a script it   *)
(* is, which no race disturbs.                                             *)
StepInRange(r) ==
  /\ r.stage \notin {"run", "open", "failed"} => r.step = 1
  /\ r.stage \notin {"boot", "run", "record", "open", "failed"} => r.at = 1
  /\ r.stage = "boot" => r.at \in 1..3
  /\ r.stage = "run" /\ Rest(r) # {} => r.step \in 1..Len(Script[Nearest(r)])
  /\ r.stage = "record" => r.at \in Migrations

LocalInv == OpenTypeOK /\ \A p \in Processes : StepInRange(proc[p])

SchemaSets == [Tables -> SUBSET Parts]

LEMMA AfterTyped ==
  ASSUME NEW s \in SchemaSets, NEW w \in RowSets, NEW m \in Migrations, NEW i \in 1..Len(Script[m])
  PROVE  SchemaAfter(Script[m][i], s) \in SchemaSets /\ RowsAfter(Script[m][i], w) \in RowSets
<1> SUFFICES ASSUME NEW z, z = SchemaAfter(Script[m][i], s), NEW v, v = RowsAfter(Script[m][i], w)
             PROVE  z \in SchemaSets /\ v \in RowSets
  OBVIOUS
<1>1. PICK st \in Statements : st = Script[m][i] /\ st.table \in Tables /\ st.parts \subseteq Parts
  BY StatementFacts
<1>2. s \in [Tables -> SUBSET Parts] /\ w \in [RowTables -> SUBSET (Processes \cup {"old"})]
  BY DEF SchemaSets, RowSets
<1>3. CASE <<m, i>> \notin Dropping
  <2>1. Plain(st)
    BY <1>1, <1>3, PlainStatements
  <2>2. z \in {s, [s EXCEPT ![st.table] = st.parts], [s EXCEPT ![st.table] = s[st.table] \cup st.parts]}
    BY <1>1, <2>1 DEF Plain, SchemaAfter
  <2>3. v = w
    BY <1>1, <2>1 DEF Plain, RowsAfter
  <2> QED
    BY <1>1, <1>2, <2>2, <2>3 DEF SchemaSets
<1>4. CASE <<m, i>> \in Dropping
  <2>1. z \in SchemaSets
    BY <1>2, <1>4, DroppingAfter DEF SchemaSets
  <2>2. CASE <<m, i>> \in {<<11, 3>>, <<11, 5>>, <<13, 2>>, <<13, 4>>}
    <3>1. st.table \in RowTables /\ st.from \in RowTables /\ st.op \in {"copy", "rename"}
      BY <1>1, <2>2, DroppingStatements DEF Copy, Rename, RowTables
    <3>2. v = [w EXCEPT ![st.table] = w[st.table] \cup w[st.from]] \/ v = [w EXCEPT ![st.table] = w[st.from], ![st.from] = {}]
      BY <1>1, <3>1 DEF RowsAfter
    <3> QED
      BY <1>2, <2>1, <3>1, <3>2 DEF RowSets
  <2>3. CASE <<m, i>> \notin {<<11, 3>>, <<11, 5>>, <<13, 2>>, <<13, 4>>}
    <3>1. st.op \notin {"copy", "rename"}
      BY <1>1, <1>4, <2>3, DroppingStatements DEF Dropping, Ensure, Create, Drop, DropIf, Add
    <3>2. v = w \/ (st.table \in RowTables /\ v = [w EXCEPT ![st.table] = {}])
      BY <1>1, <3>1 DEF RowsAfter
    <3> QED
      BY <1>2, <2>1, <3>2 DEF RowSets
  <2> QED
    BY <2>2, <2>3
<1> QED
  BY <1>3, <1>4

LEMMA TypedStep ==
  ASSUME LocalInv, NEW p \in Processes, NEW r \in ProcessRecords, proc' = [proc EXCEPT ![p] = r], StepInRange(r),
         schema' \in SchemaSets, rows' \in RowSets, talks' \in TalkSets, tracked' \in BOOLEAN,
         applied' \subseteq Migrations, born' = born, deaths' \in 0..MaxDeaths,
         crowded' \in BOOLEAN, early' \in BOOLEAN
  PROVE  LocalInv'
<1>1. proc \in [Processes -> ProcessRecords] /\ born \in 0..Len(Script)
  BY DEF LocalInv, OpenTypeOK, ProcessRecords
<1>2. proc' \in [Processes -> ProcessRecords] /\ proc'[p] = r /\ \A q \in Processes \ {p} : proc'[q] = proc[q]
  BY <1>1
<1>3. \A q \in Processes : StepInRange(proc'[q])
  BY <1>2 DEF LocalInv
<1>4. OpenTypeOK'
  BY <1>1, <1>2 DEF OpenTypeOK, ProcessRecords, SchemaSets, RowSets, TalkSets
<1> QED
  BY <1>3, <1>4 DEF LocalInv

LEMMA TypesKept ==
  ASSUME LocalInv, NEW p \in Processes,
         \/ Start(p) \/ MakeTable(p) \/ Count(p) \/ Look(p) \/ Boot(p) \/ Load(p)
         \/ RunStatement(p) \/ RunFails(p) \/ Record(p) \/ Opened(p)
         \/ Use(p) \/ Retry(p) \/ Die(p)
  PROVE  LocalInv'
<1>1. /\ proc \in [Processes -> ProcessRecords] /\ proc[p] \in ProcessRecords /\ applied \subseteq Migrations
      /\ schema \in SchemaSets /\ rows \in RowSets /\ talks \in TalkSets /\ tracked \in BOOLEAN
      /\ deaths \in 0..MaxDeaths /\ crowded \in BOOLEAN /\ early \in BOOLEAN
  BY DEF LocalInv, OpenTypeOK, ProcessRecords, SchemaSets, RowSets, TalkSets
<1>2. StepInRange(proc[p])
  BY DEF LocalInv
<1>3. Fresh \in ProcessRecords /\ StepInRange(Fresh)
  BY DEF Fresh, ProcessRecords, OpenStages, StepInRange
<1>4. ASSUME NEW g \in OpenStages, Enters(p, g)
      PROVE  \E r \in ProcessRecords :
               /\ proc' = [proc EXCEPT ![p] = r] /\ r.stage = g
               /\ r.known = proc[p].known /\ r.at = proc[p].at /\ r.step = proc[p].step
  <2>1. PICK r : r = [proc[p] EXCEPT !.stage = g]
    OBVIOUS
  <2>2. r \in ProcessRecords /\ r.stage = g
        /\ r.known = proc[p].known /\ r.at = proc[p].at /\ r.step = proc[p].step
    BY <1>1, <1>4, <2>1 DEF ProcessRecords
  <2> QED
    BY <1>4, <2>1, <2>2 DEF Enters
<1>5. {"table", "count", "look", "boot", "load", "run", "record", "open", "failed"} \subseteq OpenStages
  BY DEF OpenStages
<1>6. CASE Start(p) \/ MakeTable(p) \/ Count(p)
  <2>1. PICK g \in {"table", "count", "look", "load"} : Enters(p, g)
    BY <1>6 DEF Start, MakeTable, Count
  <2>2. PICK r \in ProcessRecords : proc' = [proc EXCEPT ![p] = r] /\ r.stage = g /\ r.at = proc[p].at /\ r.step = proc[p].step
    BY <1>4, <1>5, <2>1
  <2>3. proc[p].stage \in {"absent", "table", "count"}
    BY <1>6 DEF Start, MakeTable, Count
  <2>4. StepInRange(r)
    BY <1>2, <2>2, <2>3 DEF StepInRange
  <2>5. UNCHANGED <<schema, rows, talks, applied, born, deaths>> /\ tracked' \in BOOLEAN /\ crowded' \in BOOLEAN /\ early' \in BOOLEAN
    BY <1>1, <1>6 DEF Start, MakeTable, Count
  <2> QED
    BY <1>1, <2>2, <2>4, <2>5, TypedStep
<1>7. CASE Look(p)
  <2>1. PICK g \in {"boot", "load"} : Enters(p, g)
    BY <1>7 DEF Look
  <2>2. PICK r \in ProcessRecords : proc' = [proc EXCEPT ![p] = r] /\ r.stage = g /\ r.at = proc[p].at /\ r.step = proc[p].step
    BY <1>4, <1>5, <2>1
  <2>3. proc[p].stage = "look" /\ UNCHANGED <<schema, rows, talks, tracked, applied, born, deaths, crowded, early>>
    BY <1>7 DEF Look
  <2>4. r.at = 1 /\ r.step = 1
    BY <1>2, <2>2, <2>3 DEF StepInRange
  <2>5. StepInRange(r)
    BY <2>2, <2>4 DEF StepInRange
  <2> QED
    BY <1>1, <2>2, <2>3, <2>5, TypedStep
<1>8. CASE Boot(p)
  <2>1. proc[p].stage = "boot" /\ UNCHANGED <<schema, rows, talks, tracked, born, deaths, crowded, early>>
    BY <1>8 DEF Boot
  <2>2. PICK k \in 1..3 : k = proc[p].at /\ proc[p].step = 1
    BY <1>2, <2>1 DEF StepInRange
  <2>3. applied' \subseteq Migrations
    <3>1. k \in Migrations /\ applied' = applied \cup {k}
      BY <1>8, <2>2, MigrationsAre DEF Boot
    <3> QED
      BY <1>1, <3>1
  <2>4. CASE k = 3
    <3>1. PICK r : r = [proc[p] EXCEPT !.stage = "load", !.at = 1]
      OBVIOUS
    <3>2. r \in ProcessRecords /\ r.stage = "load" /\ r.at = 1 /\ r.step = 1
      BY <1>1, <1>5, <2>2, <3>1 DEF ProcessRecords
    <3>3. proc' = [proc EXCEPT ![p] = r]
      BY <1>1, <1>8, <2>2, <2>4, <3>1, BootsThree DEF Boot
    <3>4. StepInRange(r)
      BY <3>2 DEF StepInRange
    <3> QED
      BY <1>1, <2>1, <2>3, <3>2, <3>3, <3>4, TypedStep
  <2>5. CASE k # 3
    <3>1. PICK r : r = [proc[p] EXCEPT !.at = k + 1]
      OBVIOUS
    <3>2. r \in ProcessRecords /\ r.stage = "boot" /\ r.at = k + 1 /\ r.step = 1
      BY <1>1, <2>1, <2>2, <3>1 DEF ProcessRecords
    <3>3. proc' = [proc EXCEPT ![p] = r]
      BY <1>1, <1>8, <2>2, <2>5, <3>1, BootsThree DEF Boot
    <3>4. k + 1 \in 1..3
      BY <2>5
    <3>5. StepInRange(r)
      BY <3>2, <3>4 DEF StepInRange
    <3> QED
      BY <1>1, <2>1, <2>3, <3>2, <3>3, <3>5, TypedStep
  <2> QED
    BY <2>4, <2>5
<1>9. CASE Load(p)
  <2>1. proc[p].stage = "load" /\ UNCHANGED <<schema, rows, talks, tracked, applied, born, deaths, crowded, early>>
    BY <1>9 DEF Load
  <2>2. PICK r : r = [proc[p] EXCEPT !.stage = "run", !.known = applied]
    OBVIOUS
  <2>3. r \in ProcessRecords /\ r.stage = "run" /\ r.step = 1
    BY <1>1, <1>2, <1>5, <2>1, <2>2 DEF ProcessRecords, StepInRange
  <2>4. proc' = [proc EXCEPT ![p] = r]
    BY <1>9, <2>2 DEF Load
  <2>5. StepInRange(r)
    BY <2>3, FirstStepFits DEF StepInRange
  <2> QED
    BY <1>1, <2>1, <2>3, <2>4, <2>5, TypedStep
<1>10. CASE RunStatement(p)
  <2>1. proc[p].stage = "run" /\ UNCHANGED <<talks, tracked, applied, born, deaths, crowded, early>> /\ Rest(proc[p]) # {}
    BY <1>10 DEF RunStatement, Remaining, Rest
  <2>2. PICK m \in 1..19 : m = Nearest(proc[p]) /\ m \in Rest(proc[p])
    BY <2>1, NearestIs
  <2>8. m = Current(p)
    BY <2>2 DEF Current, Remaining, Nearest, Rest
  <2>3. m = Current(p) /\ m \in Migrations
    BY <2>8, MigrationsAre
  <2>4. PICK i \in 1..Len(Script[m]) : i = proc[p].step
    BY <1>2, <2>1, <2>2 DEF StepInRange
  <2>5. schema' \in SchemaSets /\ rows' \in RowSets
    <3>1. schema' = SchemaAfter(Script[m][i], schema) /\ rows' = RowsAfter(Script[m][i], rows)
      BY <1>10, <2>3, <2>4 DEF RunStatement
    <3>2. SchemaAfter(Script[m][i], schema) \in SchemaSets /\ RowsAfter(Script[m][i], rows) \in RowSets
      BY <1>1, <2>3, <2>4, AfterTyped
    <3> QED
      BY <3>1, <3>2
  <2>6. CASE i = Len(Script[m])
    <3>1. PICK r : r = [proc[p] EXCEPT !.stage = "record", !.at = m, !.step = 1]
      OBVIOUS
    <3>2. r \in ProcessRecords /\ r.stage = "record" /\ r.at = m /\ r.step = 1
      <4>1. m \in Nat \ {0} /\ 1 \in Nat \ {0}
        OBVIOUS
      <4> QED
        BY <1>1, <1>5, <3>1, <4>1 DEF ProcessRecords
    <3>3. proc' = [proc EXCEPT ![p] = r]
      BY <1>1, <1>10, <2>3, <2>4, <2>6, <3>1 DEF RunStatement
    <3>4. StepInRange(r)
      BY <2>3, <3>2 DEF StepInRange
    <3> QED
      BY <1>1, <2>1, <2>5, <3>2, <3>3, <3>4, TypedStep
  <2>7. CASE i # Len(Script[m])
    <3>1. PICK r : r = [proc[p] EXCEPT !.step = i + 1]
      OBVIOUS
    <3>2. i + 1 \in 1..Len(Script[m]) /\ i + 1 \in Nat \ {0}
      BY <2>3, <2>7, NumberOf
    <3>3. r \in ProcessRecords /\ r.stage = "run" /\ r.at = proc[p].at /\ r.known = proc[p].known /\ r.step = i + 1
      BY <1>1, <2>1, <3>1, <3>2 DEF ProcessRecords
    <3>4. proc' = [proc EXCEPT ![p] = r]
      BY <1>1, <1>10, <2>3, <2>4, <2>7, <3>1 DEF RunStatement
    <3>5. Nearest(r) = m
      BY <2>2, <3>3 DEF Nearest, Rest
    <3>6. StepInRange(r)
      BY <3>2, <3>3, <3>5 DEF StepInRange
    <3> QED
      BY <1>1, <2>1, <2>5, <3>3, <3>4, <3>6, TypedStep
  <2> QED
    BY <2>6, <2>7
<1>11. CASE RunFails(p) \/ Opened(p)
  <2>1. PICK g \in {"failed", "open"} : Enters(p, g)
    BY <1>11 DEF RunFails, Opened
  <2>2. PICK r \in ProcessRecords : proc' = [proc EXCEPT ![p] = r] /\ r.stage = g
    BY <1>4, <1>5, <2>1
  <2>3. UNCHANGED <<schema, rows, talks, tracked, applied, born, deaths, crowded, early>>
    BY <1>11 DEF RunFails, Opened
  <2>4. StepInRange(r)
    BY <2>2 DEF StepInRange
  <2> QED
    BY <1>1, <2>2, <2>3, <2>4, TypedStep
<1>12. CASE Record(p)
  <2>1. proc[p].stage = "record" /\ UNCHANGED <<schema, rows, talks, tracked, born, deaths, crowded, early>>
    BY <1>12 DEF Record
  <2>2. PICK k \in Migrations : k = proc[p].at /\ proc[p].step = 1
    BY <1>2, <2>1 DEF StepInRange
  <2>3. CASE k \in applied
    <3>1. Enters(p, "failed") /\ applied' = applied
      BY <1>12, <2>2, <2>3 DEF Record
    <3>2. PICK r \in ProcessRecords : proc' = [proc EXCEPT ![p] = r] /\ r.stage = "failed"
      BY <1>4, <1>5, <3>1
    <3>3. StepInRange(r)
      BY <3>2 DEF StepInRange
    <3> QED
      BY <1>1, <2>1, <3>1, <3>2, <3>3, TypedStep
  <2>4. CASE k \notin applied
    <3>1. PICK r : r = [proc[p] EXCEPT !.stage = "run", !.at = k + 1]
      OBVIOUS
    <3>2. k + 1 \in Nat \ {0}
      BY MigrationsAre
    <3>3. r \in ProcessRecords /\ r.stage = "run" /\ r.step = 1
      BY <1>1, <1>5, <2>2, <3>1, <3>2 DEF ProcessRecords
    <3>4. proc' = [proc EXCEPT ![p] = r] /\ applied' = applied \cup {k}
      BY <1>1, <1>12, <2>2, <2>4, <3>1 DEF Record
    <3>5. StepInRange(r)
      BY <3>3, FirstStepFits DEF StepInRange
    <3>6. applied' \subseteq Migrations
      BY <1>1, <3>4
    <3> QED
      BY <1>1, <2>1, <3>3, <3>4, <3>5, <3>6, TypedStep
  <2> QED
    BY <2>3, <2>4
<1>13. CASE Use(p)
  <2>1. UNCHANGED <<schema, tracked, applied, proc, born, deaths, crowded, early>>
    BY <1>13 DEF Use
  <2>2. rows' \in RowSets
    BY <1>1, <1>13 DEF Use, RowSets, RowTables
  <2>3. talks' \in TalkSets
    BY <1>1, <1>13 DEF Use, TalkSets
  <2>4. proc' = [proc EXCEPT ![p] = proc[p]]
    BY <1>1, <2>1
  <2> QED
    BY <1>1, <1>2, <2>1, <2>2, <2>3, <2>4, TypedStep
<1>14. CASE Retry(p) \/ Die(p)
  <2>1. proc' = [proc EXCEPT ![p] = Fresh] /\ UNCHANGED <<schema, rows, talks, tracked, applied, born, crowded, early>>
    BY <1>14 DEF Retry, Die
  <2>2. deaths' \in 0..MaxDeaths
    BY <1>1, <1>14, OpenConstantsOK DEF Retry, Die
  <2> QED
    BY <1>1, <1>3, <2>1, <2>2, TypedStep
<1> QED
  BY <1>6, <1>7, <1>8, <1>9, <1>10, <1>11, <1>12, <1>13, <1>14

(* The variables stay in their types, however many processes race.         *)
THEOREM OpenTypesHold == OpenSpec => []OpenTypeOK
<1>1. OpenInit => LocalInv
  <2> SUFFICES ASSUME OpenInit PROVE LocalInv
    OBVIOUS
  <2>1. OpenTypeOK /\ proc = [p \in Processes |-> Fresh]
    BY OpensWithInv DEF OpenInv, OpenInit
  <2>2. StepInRange(Fresh)
    BY DEF Fresh, StepInRange
  <2> QED
    BY <2>1, <2>2 DEF LocalInv
<1>2. LocalInv /\ [OpenNext]_openVars => LocalInv'
  <2> SUFFICES ASSUME LocalInv, [OpenNext]_openVars PROVE LocalInv'
    OBVIOUS
  <2>1. CASE UNCHANGED openVars
    BY <2>1 DEF openVars, LocalInv, OpenTypeOK
  <2>2. CASE OpenNext
    BY <2>2, TypesKept DEF OpenNext
  <2> QED
    BY <2>1, <2>2
<1> QED
  BY <1>1, <1>2, PTL DEF OpenSpec, LocalInv

-----------------------------------------------------------------------------
(* A process that nobody disturbs is where the schema is.  Between two     *)
(* openings the file is of some version, with the rows that say so, or of  *)
(* version 3 without them.                                                 *)
Settled(s, a) == \E k \in 0..19 : a = 1..k /\ AtPlace(k + 1, 1, s)
AtRest(s, a) == Settled(s, a) \/ (a = {} /\ AtPlace(4, 1, s))

(* Where the only process that is opening is, by its record r.             *)
OpenerAt(r, s, a) ==
  /\ r.stage \in {"table", "count", "look"} => AtRest(s, a)
  /\ r.stage \notin {"run", "record"} => r.step = 1
  /\ r.stage \in {"table", "count", "look", "load"} => r.at = 1
  /\ r.stage = "look" => a = {}
  /\ r.stage = "boot" => r.at \in 1..3 /\ a = 1..(r.at - 1) /\ AtPlace(4, 1, s)
  /\ r.stage = "load" => Settled(s, a)
  /\ r.stage = "run" /\ Rest(r) = {} => Settled(s, a)
  /\ r.stage = "run" /\ Rest(r) # {} =>
       /\ a = 1..(Nearest(r) - 1) /\ r.known \subseteq a
       /\ r.step \in 1..Len(Script[Nearest(r)]) /\ AtPlace(Nearest(r), r.step, s)
  /\ r.stage = "record" =>
       /\ r.at \in Migrations /\ a = 1..(r.at - 1) /\ r.known \subseteq a /\ r.step = 1
       /\ AtPlace(r.at, Len(Script[r.at]) + 1, s)

Undisturbed ==
  /\ proc \in [Processes -> ProcessRecords]
  /\ \A p \in Processes : proc[p].stage # "failed"
  /\ \A p \in Processes : proc[p].stage = "absent" => proc[p].at = 1 /\ proc[p].step = 1
  /\ \A p, q \in Processes : Opening(p) /\ Opening(q) => p = q
  /\ (\A p \in Processes : ~ Opening(p)) => AtRest(schema, applied)
  /\ \A p \in Processes : Opening(p) => OpenerAt(proc[p], schema, applied)

CalmInv ==
  /\ deaths \in Nat /\ (early => crowded)
  /\ deaths = 0 /\ ~ crowded /\ ~ HadConversations => Undisturbed /\ Datable(talks, schema)

(* From version k on.                                                      *)
LEMMA NextIs ==
  ASSUME NEW r, NEW k \in 0..19, \A m \in 1..19 : m \in Rest(r) <=> m > k
  PROVE  (k = 19 <=> Rest(r) = {}) /\ (k # 19 => Nearest(r) = k + 1)
<1>1. Rest(r) \subseteq 1..19
  BY MigrationsAre DEF Rest
<1>2. CASE k = 19
  BY <1>1, <1>2
<1>3. CASE k # 19
  <2>1. k + 1 \in 1..19 /\ k + 1 > k
    BY <1>3
  <2>2. k + 1 \in Rest(r)
    BY <2>1
  <2>3. PICK n \in 1..19 : n = Nearest(r) /\ n \in Rest(r) /\ \A l \in Rest(r) : n <= l
    BY <2>2, NearestIs
  <2>4. n > k /\ n <= k + 1
    BY <2>2, <2>3
  <2> QED
    BY <1>3, <2>2, <2>3, <2>4
<1> QED
  BY <1>2, <1>3

(* One process opens, and what it comes to is where it should be.          *)
LEMMA CalmStep ==
  ASSUME Undisturbed, NEW p \in Processes, NEW r \in ProcessRecords, proc' = [proc EXCEPT ![p] = r],
         \A q \in Processes \ {p} : ~ Opening(q),
         r.stage # "failed", r.stage # "absent",
         IsOpening(r) => OpenerAt(r, schema', applied'),
         ~ IsOpening(r) => AtRest(schema', applied')
  PROVE  Undisturbed'
<1>1. proc \in [Processes -> ProcessRecords]
  BY DEF Undisturbed
<1>2. proc' \in [Processes -> ProcessRecords] /\ proc'[p] = r /\ \A q \in Processes \ {p} : proc'[q] = proc[q]
  BY <1>1
<1>3. \A q \in Processes \ {p} : ~ Opening(q)'
  BY <1>2 DEF Opening
<1>4. Opening(p)' <=> IsOpening(r)
  BY <1>2 DEF Opening, IsOpening
<1>5. \A q \in Processes : proc'[q].stage # "failed"
  BY <1>2 DEF Undisturbed
<1>6. \A q \in Processes : proc'[q].stage = "absent" => proc'[q].at = 1 /\ proc'[q].step = 1
  BY <1>2 DEF Undisturbed
<1>7. \A q, u \in Processes : Opening(q)' /\ Opening(u)' => q = u
  BY <1>3
<1>8. (\A q \in Processes : ~ Opening(q)') => AtRest(schema', applied')
  BY <1>4
<1>9. \A q \in Processes : Opening(q)' => OpenerAt(proc'[q], schema', applied')
  BY <1>2, <1>3, <1>4
<1> QED
  BY <1>2, <1>5, <1>6, <1>7, <1>8, <1>9 DEF Undisturbed

LEMMA TheOnlyOpener ==
  ASSUME Undisturbed, NEW p \in Processes, Opening(p)
  PROVE  /\ proc[p] \in ProcessRecords /\ OpenerAt(proc[p], schema, applied)
         /\ proc \in [Processes -> ProcessRecords]
         /\ \A q \in Processes \ {p} : ~ Opening(q)
  BY DEF Undisturbed

LEMMA CalmBegins == OpenInit => CalmInv
<1> SUFFICES ASSUME OpenInit
             PROVE  /\ Undisturbed /\ deaths = 0 /\ ~ early
                    /\ (~ HadConversations => Datable(talks, schema))
  BY DEF CalmInv
<1>1. PICK v \in 0..19, t \in BOOLEAN :
        /\ t \/ v = 3
        /\ schema = SchemaOf[v] /\ applied = (IF t THEN 1..v ELSE {})
        /\ talks \in {{}} \cup (IF v >= 1 THEN {{"old"}} ELSE {}) /\ born = v
  BY ScriptSizes DEF OpenInit
<1>2. proc = [p \in Processes |-> Fresh] /\ deaths = 0 /\ ~ early
  BY DEF OpenInit
<1>3. Fresh \in ProcessRecords /\ Fresh.stage = "absent" /\ Fresh.at = 1 /\ Fresh.step = 1
  BY DEF Fresh, ProcessRecords, OpenStages
<1>4. AtPlace(v + 1, 1, schema)
  BY <1>1, VersionIs
<1>5. AtRest(schema, applied)
  <2>1. CASE t
    BY <1>1, <1>4, <2>1 DEF AtRest, Settled
  <2>2. CASE ~ t
    <3>1. v + 1 = 4 /\ applied = {}
      BY <1>1, <2>2
    <3> QED
      BY <1>4, <3>1 DEF AtRest
  <2> QED
    BY <2>1, <2>2
<1>6. \A p \in Processes : proc[p] = Fresh /\ ~ Opening(p)
  BY <1>2, <1>3 DEF Opening
<1>7. ASSUME ~ HadConversations, talks # {} PROVE Has(schema, Dated)
  <2>1. talks = {"old"} /\ v >= 1
    BY <1>1, <1>7
  <2>2. v >= 3
    BY <1>1, <1>7, <2>1 DEF HadConversations
  <2>3. 3 \in 1..v /\ 3 \in Migrations /\ 2 \in 1..Len(Script[3])
    BY <2>2, MigrationsAre, ScriptSizes
  <2>4. DoneIn(schema, 3)
    BY <1>1, <2>3, VersionOf
  <2> QED
    BY <2>3, <2>4, DoneMeans, DatedFacts
<1> QED
  BY <1>2, <1>3, <1>5, <1>6, <1>7 DEF Undisturbed, Datable

(* Conversations have a summary in version 3, and not in version 0.        *)
LEMMA SummaryTells ==
  ASSUME NEW s, AtRest(s, {})
  PROVE  IF "summary" \in s["conversations"] THEN AtPlace(4, 1, s) ELSE Settled(s, {})
<1>1. /\ 3 \in Migrations /\ 1 \in 1..Len(Script[3]) /\ <<3, 1>> \notin Dropping
      /\ Script[3][1] = Add("conversations", "summary") /\ "conversations" \notin RowTables
  BY MigrationsAre, ScriptSizes, FirstOfTables DEF Dropping, RowTables
<1>2. CASE Settled(s, {})
  <2>1. PICK k \in 0..19 : {} = 1..k /\ AtPlace(k + 1, 1, s)
    BY <1>2 DEF Settled
  <2>2. k = 0
    <3>1. ~ (1 \in 1..k)
      BY <2>1
    <3> QED
      BY <3>1
  <2>3. PartsToCome(1, 1, s) /\ Ahead(3, 1, 1, 1)
    BY <2>1, <2>2 DEF AtPlace, Ahead
  <2>4. "summary" \notin s["conversations"]
    BY <1>1, <2>3 DEF PartsToCome, Add
  <2> QED
    BY <1>2, <2>4
<1>3. CASE AtPlace(4, 1, s)
  <2>1. DoneIn(s, 3)
    BY <1>3 DEF AtPlace
  <2>2. Has(s, Script[3][1])
    BY <1>1, <2>1, DoneMeans
  <2>3. "summary" \in s["conversations"]
    BY <1>1, <2>2 DEF Has, Add
  <2> QED
    BY <1>3, <2>3
<1> QED
  BY <1>2, <1>3 DEF AtRest

LEMMA CalmEnters ==
  ASSUME Undisturbed, NEW p \in Processes, NEW g \in OpenStages, Enters(p, g)
  PROVE  \E r \in ProcessRecords :
           /\ proc' = [proc EXCEPT ![p] = r] /\ r.stage = g
           /\ r.known = proc[p].known /\ r.at = proc[p].at /\ r.step = proc[p].step
<1>1. proc[p] \in ProcessRecords
  BY DEF Undisturbed
<1>2. PICK r : r = [proc[p] EXCEPT !.stage = g]
  OBVIOUS
<1>3. /\ r \in ProcessRecords /\ r.stage = g
      /\ r.known = proc[p].known /\ r.at = proc[p].at /\ r.step = proc[p].step
  BY <1>1, <1>2 DEF ProcessRecords
<1>4. proc' = [proc EXCEPT ![p] = r]
  BY <1>2 DEF Enters
<1> QED
  BY <1>3, <1>4

LEMMA StageNames == {"table", "count", "look", "boot", "load", "run", "record", "open", "failed"} \subseteq OpenStages
  BY DEF OpenStages

(* The steps that only read.                                               *)
LEMMA CalmReads ==
  ASSUME Undisturbed, NEW p \in Processes,
         MakeTable(p) \/ Count(p) \/ Look(p) \/ Opened(p) \/ (Start(p) /\ ~ crowded')
  PROVE  Undisturbed'
<1>1. CASE Start(p) /\ ~ crowded'
  <2>1. /\ proc[p].stage = "absent" /\ UNCHANGED <<schema, applied>> /\ Enters(p, "table")
        /\ {q \in Processes \ {p} : Opening(q)} = {}
    BY <1>1 DEF Start
  <2>2. PICK r \in ProcessRecords :
          /\ proc' = [proc EXCEPT ![p] = r] /\ r.stage = "table"
          /\ r.known = proc[p].known /\ r.at = proc[p].at /\ r.step = proc[p].step
    BY <2>1, StageNames, CalmEnters
  <2>3. \A q \in Processes : ~ Opening(q)
    BY <2>1 DEF Opening
  <2>4. AtRest(schema, applied) /\ r.at = 1 /\ r.step = 1
    BY <2>1, <2>2, <2>3 DEF Undisturbed
  <2>5. OpenerAt(r, schema', applied')
    BY <2>1, <2>2, <2>4 DEF OpenerAt
  <2>6. r.stage # "failed" /\ r.stage # "absent" /\ IsOpening(r)
    BY <2>2 DEF IsOpening
  <2> QED
    BY <2>2, <2>3, <2>5, <2>6, CalmStep
<1>2. CASE MakeTable(p)
  <2>1. proc[p].stage = "table" /\ UNCHANGED <<schema, applied>> /\ Enters(p, "count") /\ Opening(p)
    BY <1>2 DEF MakeTable, Opening
  <2>2. PICK r \in ProcessRecords :
          /\ proc' = [proc EXCEPT ![p] = r] /\ r.stage = "count"
          /\ r.known = proc[p].known /\ r.at = proc[p].at /\ r.step = proc[p].step
    BY <2>1, StageNames, CalmEnters
  <2>3. OpenerAt(proc[p], schema, applied) /\ \A q \in Processes \ {p} : ~ Opening(q)
    BY <2>1, TheOnlyOpener
  <2>4. OpenerAt(r, schema', applied')
    BY <2>1, <2>2, <2>3 DEF OpenerAt
  <2>5. r.stage # "failed" /\ r.stage # "absent" /\ IsOpening(r)
    BY <2>2 DEF IsOpening
  <2> QED
    BY <2>2, <2>3, <2>4, <2>5, CalmStep
<1>3. CASE Count(p)
  <2>1. PICK g \in {"look", "load"} : g = IF applied = {} THEN "look" ELSE "load"
    OBVIOUS
  <2>2. proc[p].stage = "count" /\ UNCHANGED <<schema, applied>> /\ Enters(p, g) /\ Opening(p)
    BY <1>3, <2>1 DEF Count, Opening
  <2>3. PICK r \in ProcessRecords :
          /\ proc' = [proc EXCEPT ![p] = r] /\ r.stage = g
          /\ r.known = proc[p].known /\ r.at = proc[p].at /\ r.step = proc[p].step
    BY <2>2, StageNames, CalmEnters
  <2>4. OpenerAt(proc[p], schema, applied) /\ \A q \in Processes \ {p} : ~ Opening(q)
    BY <2>2, TheOnlyOpener
  <2>5. AtRest(schema, applied) /\ proc[p].at = 1 /\ proc[p].step = 1
    BY <2>2, <2>4 DEF OpenerAt
  <2>6. applied # {} => Settled(schema, applied)
    BY <2>5 DEF AtRest
  <2>7. OpenerAt(r, schema', applied')
    BY <2>1, <2>2, <2>3, <2>5, <2>6 DEF OpenerAt
  <2>8. r.stage # "failed" /\ r.stage # "absent" /\ IsOpening(r)
    BY <2>1, <2>3 DEF IsOpening
  <2> QED
    BY <2>3, <2>4, <2>7, <2>8, CalmStep
<1>4. CASE Look(p)
  <2>1. PICK g \in {"boot", "load"} : g = IF "summary" \in schema["conversations"] THEN "boot" ELSE "load"
    OBVIOUS
  <2>2. proc[p].stage = "look" /\ UNCHANGED <<schema, applied>> /\ Enters(p, g) /\ Opening(p)
    BY <1>4, <2>1 DEF Look, Opening
  <2>3. PICK r \in ProcessRecords :
          /\ proc' = [proc EXCEPT ![p] = r] /\ r.stage = g
          /\ r.known = proc[p].known /\ r.at = proc[p].at /\ r.step = proc[p].step
    BY <2>2, StageNames, CalmEnters
  <2>4. OpenerAt(proc[p], schema, applied) /\ \A q \in Processes \ {p} : ~ Opening(q)
    BY <2>2, TheOnlyOpener
  <2>5. AtRest(schema, applied) /\ proc[p].at = 1 /\ proc[p].step = 1 /\ applied = {}
    BY <2>2, <2>4 DEF OpenerAt
  <2>6. /\ g = "boot" => AtPlace(4, 1, schema)
        /\ g = "load" => Settled(schema, applied)
    BY <2>1, <2>5, SummaryTells
  <2>7. OpenerAt(r, schema', applied')
    <3>1. 1 \in 1..3 /\ 1..(1 - 1) = {}
      OBVIOUS
    <3> QED
      BY <2>1, <2>2, <2>3, <2>5, <2>6, <3>1 DEF OpenerAt
  <2>8. r.stage # "failed" /\ r.stage # "absent" /\ IsOpening(r)
    BY <2>1, <2>3 DEF IsOpening
  <2> QED
    BY <2>3, <2>4, <2>7, <2>8, CalmStep
<1>5. CASE Opened(p)
  <2>1. proc[p].stage = "run" /\ Remaining(p) = {} /\ UNCHANGED <<schema, applied>> /\ Enters(p, "open") /\ Opening(p)
    BY <1>5 DEF Opened, Opening
  <2>2. PICK r \in ProcessRecords :
          /\ proc' = [proc EXCEPT ![p] = r] /\ r.stage = "open"
          /\ r.known = proc[p].known /\ r.at = proc[p].at /\ r.step = proc[p].step
    BY <2>1, StageNames, CalmEnters
  <2>3. OpenerAt(proc[p], schema, applied) /\ \A q \in Processes \ {p} : ~ Opening(q)
    BY <2>1, TheOnlyOpener
  <2>4. Rest(proc[p]) = {}
    BY <2>1 DEF Remaining, Rest
  <2>5. AtRest(schema', applied')
    BY <2>1, <2>3, <2>4 DEF OpenerAt, AtRest
  <2>6. r.stage # "failed" /\ r.stage # "absent" /\ ~ IsOpening(r)
    BY <2>2 DEF IsOpening
  <2> QED
    BY <2>2, <2>3, <2>5, <2>6, CalmStep
<1> QED
  BY <1>1, <1>2, <1>3, <1>4, <1>5

LEMMA CalmBoots ==
  ASSUME Undisturbed, NEW p \in Processes, Boot(p)
  PROVE  Undisturbed'
<1>1. proc[p].stage = "boot" /\ UNCHANGED schema /\ Opening(p)
  BY DEF Boot, Opening
<1>2. /\ proc[p] \in ProcessRecords /\ OpenerAt(proc[p], schema, applied) /\ proc \in [Processes -> ProcessRecords]
      /\ \A q \in Processes \ {p} : ~ Opening(q)
  BY <1>1, TheOnlyOpener
<1>3. PICK k \in 1..3 : k = proc[p].at
  BY <1>1, <1>2 DEF OpenerAt
<1>4. applied = 1..(k - 1) /\ AtPlace(4, 1, schema) /\ proc[p].step = 1
  BY <1>1, <1>2, <1>3 DEF OpenerAt
<1>5. applied' = 1..k
  <2>1. applied' = applied \cup {k}
    BY <1>3 DEF Boot
  <2>2. (1..(k - 1)) \cup {k} = 1..k
    OBVIOUS
  <2> QED
    BY <1>4, <2>1, <2>2
<1>6. CASE k = 3
  <2>1. PICK r : r = [proc[p] EXCEPT !.stage = "load", !.at = 1]
    OBVIOUS
  <2>2. r \in ProcessRecords /\ r.stage = "load" /\ r.at = 1 /\ r.step = 1
    BY <1>2, <1>4, <2>1, StageNames DEF ProcessRecords
  <2>3. proc' = [proc EXCEPT ![p] = r]
    BY <1>2, <1>3, <1>6, <2>1, BootsThree DEF Boot
  <2>4. Settled(schema', applied')
    <3>1. 3 \in 0..19 /\ 3 + 1 = 4
      OBVIOUS
    <3> QED
      BY <1>1, <1>4, <1>5, <1>6, <3>1 DEF Settled
  <2>5. OpenerAt(r, schema', applied')
    BY <2>2, <2>4 DEF OpenerAt
  <2>6. r.stage # "failed" /\ r.stage # "absent" /\ IsOpening(r)
    BY <2>2 DEF IsOpening
  <2> QED
    BY <1>2, <2>2, <2>3, <2>5, <2>6, CalmStep
<1>7. CASE k # 3
  <2>1. PICK r : r = [proc[p] EXCEPT !.at = k + 1]
    OBVIOUS
  <2>2. r \in ProcessRecords /\ r.stage = "boot" /\ r.at = k + 1 /\ r.step = 1
    BY <1>1, <1>2, <1>4, <2>1 DEF ProcessRecords
  <2>3. proc' = [proc EXCEPT ![p] = r]
    BY <1>2, <1>3, <1>7, <2>1, BootsThree DEF Boot
  <2>4. k + 1 \in 1..3 /\ (k + 1) - 1 = k
    BY <1>7
  <2>5. OpenerAt(r, schema', applied')
    BY <1>1, <1>4, <1>5, <2>2, <2>4 DEF OpenerAt
  <2>6. r.stage # "failed" /\ r.stage # "absent" /\ IsOpening(r)
    BY <2>2 DEF IsOpening
  <2> QED
    BY <1>2, <2>2, <2>3, <2>5, <2>6, CalmStep
<1> QED
  BY <1>6, <1>7

LEMMA CalmLoads ==
  ASSUME Undisturbed, NEW p \in Processes, Load(p)
  PROVE  Undisturbed'
<1>1. proc[p].stage = "load" /\ UNCHANGED <<schema, applied>> /\ Opening(p)
  BY DEF Load, Opening
<1>2. /\ proc[p] \in ProcessRecords /\ OpenerAt(proc[p], schema, applied) /\ proc \in [Processes -> ProcessRecords]
      /\ \A q \in Processes \ {p} : ~ Opening(q)
  BY <1>1, TheOnlyOpener
<1>3. proc[p].at = 1 /\ proc[p].step = 1 /\ Settled(schema, applied)
  BY <1>1, <1>2 DEF OpenerAt
<1>4. PICK k \in 0..19 : applied = 1..k /\ AtPlace(k + 1, 1, schema)
  BY <1>3 DEF Settled
<1>5. PICK r : r = [proc[p] EXCEPT !.stage = "run", !.known = applied]
  OBVIOUS
<1>6. proc' = [proc EXCEPT ![p] = r]
  BY <1>5 DEF Load
<1>7. r \in ProcessRecords /\ r.stage = "run" /\ r.known = 1..k /\ r.at = 1 /\ r.step = 1
  <2>1. 1..k \subseteq Migrations
    BY MigrationsAre
  <2> QED
    BY <1>2, <1>3, <1>4, <1>5, <2>1, StageNames DEF ProcessRecords
<1>8. \A m \in 1..19 : m \in Rest(r) <=> m > k
  BY <1>7, MigrationsAre DEF Rest
<1>9. (k = 19 <=> Rest(r) = {}) /\ (k # 19 => Nearest(r) = k + 1)
  BY <1>8, NextIs
<1>10. OpenerAt(r, schema, applied)
  <2>1. CASE Rest(r) = {}
    BY <1>3, <1>7, <2>1 DEF OpenerAt
  <2>2. CASE Rest(r) # {}
    <3>1. k + 1 \in Migrations /\ (k + 1) - 1 = k
      BY <1>9, <2>2, MigrationsAre
    <3>2. 1 \in 1..Len(Script[k + 1])
      BY <3>1, ScriptBegins
    <3> QED
      BY <1>4, <1>7, <1>9, <2>2, <3>1, <3>2 DEF OpenerAt
  <2> QED
    BY <2>1, <2>2
<1>11. r.stage # "failed" /\ r.stage # "absent" /\ IsOpening(r) /\ OpenerAt(r, schema', applied')
  BY <1>1, <1>7, <1>10 DEF IsOpening
<1> QED
  BY <1>2, <1>6, <1>7, <1>11, CalmStep

(* The next statement does not fail, and the one after it is next.         *)
LEMMA CalmRuns ==
  ASSUME Undisturbed, Datable(talks, schema), NEW p \in Processes, RunStatement(p) \/ RunFails(p)
  PROVE  Undisturbed' /\ Datable(talks', schema')
<1>1. proc[p].stage = "run" /\ UNCHANGED <<applied, talks>> /\ Opening(p) /\ Rest(proc[p]) # {}
  BY DEF RunStatement, RunFails, Opening, Remaining, Rest
<1>2. /\ proc[p] \in ProcessRecords /\ OpenerAt(proc[p], schema, applied) /\ proc \in [Processes -> ProcessRecords]
      /\ \A q \in Processes \ {p} : ~ Opening(q)
  BY <1>1, TheOnlyOpener
<1>3. PICK m \in 1..19 : m = Nearest(proc[p]) /\ m \in Rest(proc[p])
  BY <1>1, NearestIs
<1>4. m = Current(p)
  BY <1>3 DEF Current, Remaining, Nearest, Rest
<1>5. PICK i : i = proc[p].step
  OBVIOUS
<1>6. /\ applied = 1..(m - 1) /\ proc[p].known \subseteq applied /\ m \in Migrations
      /\ i \in 1..Len(Script[m]) /\ AtPlace(m, i, schema)
  BY <1>1, <1>2, <1>3, <1>5, MigrationsAre DEF OpenerAt
<1>7. Succeeds(Script[m][i], schema, talks)
  BY <1>6, PlaceSucceeds
<1>8. RunStatement(p)
  BY <1>4, <1>5, <1>7 DEF RunFails
<1>9. /\ schema' = SchemaAfter(Script[m][i], schema)
      /\ (i = Len(Script[m]) => proc' = [proc EXCEPT ![p].stage = "record", ![p].at = m, ![p].step = 1])
      /\ (i # Len(Script[m]) => proc' = [proc EXCEPT ![p].step = @ + 1])
  BY <1>4, <1>5, <1>8 DEF RunStatement
<1>10. AtPlace(m, i + 1, schema')
  BY <1>6, <1>9, PlaceSteps
<1>13. Datable(talks', schema')
  <2>1. Effect(m, i, schema, schema')
    BY <1>6, <1>9, PlaceFits, StatementAfter DEF AtPlace
  <2> QED
    BY <1>1, <2>1, DatedFacts DEF Effect, Datable
<1>11. CASE i = Len(Script[m])
  <2>1. PICK r : r = [proc[p] EXCEPT !.stage = "record", !.at = m, !.step = 1]
    OBVIOUS
  <2>2. r \in ProcessRecords /\ r.stage = "record" /\ r.at = m /\ r.step = 1 /\ r.known = proc[p].known
    <3>1. m \in Nat \ {0} /\ 1 \in Nat \ {0}
      OBVIOUS
    <3> QED
      BY <1>2, <2>1, <3>1, StageNames DEF ProcessRecords
  <2>3. proc' = [proc EXCEPT ![p] = r]
    BY <1>2, <1>9, <1>11, <2>1
  <2>4. r.stage # "failed" /\ r.stage # "absent" /\ IsOpening(r) /\ OpenerAt(r, schema', applied')
    BY <1>1, <1>6, <1>10, <1>11, <2>2 DEF IsOpening, OpenerAt
  <2> QED
    BY <1>2, <1>13, <2>2, <2>3, <2>4, CalmStep
<1>12. CASE i # Len(Script[m])
  <2>1. PICK r : r = [proc[p] EXCEPT !.step = i + 1]
    OBVIOUS
  <2>2. i + 1 \in 1..Len(Script[m]) /\ i + 1 \in Nat \ {0}
    BY <1>6, <1>12, NumberOf
  <2>3. r \in ProcessRecords /\ r.stage = "run" /\ r.at = proc[p].at /\ r.step = i + 1 /\ r.known = proc[p].known
    BY <1>1, <1>2, <2>1, <2>2 DEF ProcessRecords
  <2>4. Rest(r) = Rest(proc[p]) /\ Nearest(r) = m
    BY <1>3, <2>3 DEF Nearest, Rest
  <2>5. proc' = [proc EXCEPT ![p] = r]
    BY <1>2, <1>5, <1>9, <1>12, <2>1
  <2>6. r.stage # "failed" /\ r.stage # "absent" /\ IsOpening(r) /\ OpenerAt(r, schema', applied')
    BY <1>1, <1>6, <1>10, <2>2, <2>3, <2>4 DEF IsOpening, OpenerAt
  <2> QED
    BY <1>2, <1>13, <2>3, <2>5, <2>6, CalmStep
<1> QED
  BY <1>11, <1>12, <1>13

LEMMA CalmRecords ==
  ASSUME Undisturbed, NEW p \in Processes, Record(p)
  PROVE  Undisturbed'
<1>1. proc[p].stage = "record" /\ UNCHANGED schema /\ Opening(p)
  BY DEF Record, Opening
<1>2. /\ proc[p] \in ProcessRecords /\ OpenerAt(proc[p], schema, applied) /\ proc \in [Processes -> ProcessRecords]
      /\ \A q \in Processes \ {p} : ~ Opening(q)
  BY <1>1, TheOnlyOpener
<1>3. PICK k \in 1..19 : k = proc[p].at
  <2>1. proc[p].at \in Migrations
    BY <1>1, <1>2 DEF OpenerAt
  <2> QED
    BY <2>1, MigrationsAre
<1>4. /\ k \in Migrations /\ applied = 1..(k - 1) /\ proc[p].known \subseteq 1..(k - 1) /\ proc[p].step = 1
      /\ AtPlace(k, Len(Script[k]) + 1, schema)
  BY <1>1, <1>2, <1>3 DEF OpenerAt
<1>5. k \notin applied
  BY <1>4
<1>6. applied' = applied \cup {k} /\ proc' = [proc EXCEPT ![p].stage = "run", ![p].at = @ + 1]
  BY <1>3, <1>5 DEF Record
<1>7. applied' = 1..k
  <2>1. (1..(k - 1)) \cup {k} = 1..k
    OBVIOUS
  <2> QED
    BY <1>4, <1>6, <2>1
<1>8. AtPlace(k + 1, 1, schema)
  BY <1>4, NextPlace
<1>9. PICK r : r = [proc[p] EXCEPT !.stage = "run", !.at = k + 1]
  OBVIOUS
<1>10. proc' = [proc EXCEPT ![p] = r]
  BY <1>2, <1>3, <1>6, <1>9
<1>11. r \in ProcessRecords /\ r.stage = "run" /\ r.known = proc[p].known /\ r.at = k + 1 /\ r.step = 1
  <2>1. k + 1 \in Nat \ {0}
    OBVIOUS
  <2> QED
    BY <1>2, <1>4, <1>9, <2>1, StageNames DEF ProcessRecords
<1>12. \A m \in 1..19 : m \in Rest(r) <=> m > k
  <2> SUFFICES ASSUME NEW m \in 1..19 PROVE m \in Rest(r) <=> m > k
    OBVIOUS
  <2>1. m \in Rest(r) <=> m \notin proc[p].known /\ m >= k + 1
    BY <1>11, MigrationsAre DEF Rest
  <2>2. m >= k + 1 => m \notin proc[p].known
    BY <1>4
  <2> QED
    BY <2>1, <2>2
<1>13. (k = 19 <=> Rest(r) = {}) /\ (k # 19 => Nearest(r) = k + 1)
  <2>1. k \in 0..19
    OBVIOUS
  <2> QED
    BY <1>12, <2>1, NextIs
<1>14. OpenerAt(r, schema, 1..k)
  <2>1. CASE Rest(r) = {}
    <3>1. Settled(schema, 1..k)
      <4>1. k \in 0..19
        OBVIOUS
      <4> QED
        BY <1>8, <4>1 DEF Settled
    <3> QED
      BY <1>11, <2>1, <3>1 DEF OpenerAt
  <2>2. CASE Rest(r) # {}
    <3>1. k + 1 \in Migrations /\ (k + 1) - 1 = k
      BY <1>13, <2>2, MigrationsAre
    <3>2. 1 \in 1..Len(Script[k + 1]) /\ r.known \subseteq 1..k
      BY <1>4, <1>11, <3>1, ScriptBegins
    <3> QED
      BY <1>8, <1>11, <1>13, <2>2, <3>1, <3>2 DEF OpenerAt
  <2> QED
    BY <2>1, <2>2
<1>15. r.stage # "failed" /\ r.stage # "absent" /\ IsOpening(r) /\ OpenerAt(r, schema', applied')
  BY <1>1, <1>7, <1>11, <1>14 DEF IsOpening
<1> QED
  BY <1>2, <1>10, <1>11, <1>15, CalmStep

LEMMA CalmRests ==
  ASSUME Undisturbed, NEW p \in Processes, Use(p) \/ Retry(p)
  PROVE  Undisturbed'
<1>1. ~ Opening(p) /\ UNCHANGED <<schema, applied>> /\ (proc' = proc \/ proc' = [proc EXCEPT ![p] = Fresh])
  BY DEF Use, Retry, Opening
<1>2. CASE proc' = proc
  BY <1>1, <1>2 DEF Undisturbed, Opening
<1>3. CASE proc' = [proc EXCEPT ![p] = Fresh]
  <2>1. Fresh \in ProcessRecords /\ Fresh.stage = "absent" /\ Fresh.at = 1 /\ Fresh.step = 1
    BY DEF Fresh, ProcessRecords, OpenStages
  <2>2. /\ proc' \in [Processes -> ProcessRecords] /\ proc'[p] = Fresh
        /\ \A q \in Processes \ {p} : proc'[q] = proc[q]
    BY <1>3, <2>1 DEF Undisturbed
  <2>3. \A q \in Processes : Opening(q)' <=> Opening(q)
    BY <1>1, <2>1, <2>2 DEF Opening
  <2>4. \A q \in Processes : Opening(q) => proc'[q] = proc[q]
    BY <1>1, <2>2
  <2>5. \A q \in Processes : proc'[q].stage # "failed"
    BY <2>1, <2>2 DEF Undisturbed
  <2>6. \A q \in Processes : proc'[q].stage = "absent" => proc'[q].at = 1 /\ proc'[q].step = 1
    BY <2>1, <2>2 DEF Undisturbed
  <2>7. \A q, u \in Processes : Opening(q)' /\ Opening(u)' => q = u
    BY <2>3 DEF Undisturbed
  <2>8. (\A q \in Processes : ~ Opening(q)') => AtRest(schema', applied')
    BY <1>1, <2>3 DEF Undisturbed
  <2>9. \A q \in Processes : Opening(q)' => OpenerAt(proc'[q], schema', applied')
    BY <1>1, <2>3, <2>4 DEF Undisturbed
  <2> QED
    BY <2>2, <2>5, <2>6, <2>7, <2>8, <2>9 DEF Undisturbed
<1> QED
  BY <1>1, <1>2, <1>3

(* Whoever writes to the store was handed one that has the column.         *)
LEMMA DatesKept ==
  ASSUME Datable(talks, schema), OpenMeansCurrent, ~ early, NEW p \in Processes,
         \/ Start(p) \/ MakeTable(p) \/ Count(p) \/ Look(p) \/ Boot(p) \/ Load(p)
         \/ Record(p) \/ Opened(p) \/ Use(p) \/ Retry(p)
  PROVE  Datable(talks', schema')
<1>1. CASE Use(p)
  <2>1. schema = Newest /\ schema' = schema
    BY <1>1 DEF Use, OpenMeansCurrent
  <2>2. Has(schema, Dated)
    BY <2>1, NewestIs, FinalFacts, DatedFacts DEF Has
  <2> QED
    BY <2>1, <2>2 DEF Datable
<1>2. CASE Start(p) \/ MakeTable(p) \/ Count(p) \/ Look(p) \/ Boot(p) \/ Load(p)
  <2>1. talks' = talks /\ schema' = schema
    BY <1>2 DEF Start, MakeTable, Count, Look, Boot, Load
  <2> QED
    BY <2>1
<1>3. CASE Record(p) \/ Opened(p) \/ Retry(p)
  <2>1. talks' = talks /\ schema' = schema
    BY <1>3 DEF Record, Opened, Retry
  <2> QED
    BY <2>1
<1> QED
  BY <1>1, <1>2, <1>3

LEMMA CalmKept == CalmInv /\ OpenMeansCurrent /\ [OpenNext]_openVars => CalmInv'
<1> SUFFICES ASSUME CalmInv, OpenMeansCurrent, [OpenNext]_openVars PROVE CalmInv'
  OBVIOUS
<1>1. CASE UNCHANGED openVars
  BY <1>1 DEF openVars, CalmInv, Undisturbed, Opening, HadConversations
<1>2. CASE OpenNext
  <2>1. PICK p \in Processes :
          \/ Start(p) \/ MakeTable(p) \/ Count(p) \/ Look(p) \/ Boot(p) \/ Load(p)
          \/ RunStatement(p) \/ RunFails(p) \/ Record(p) \/ Opened(p)
          \/ Use(p) \/ Retry(p) \/ Die(p)
    BY <1>2 DEF OpenNext
  <2>4. (early' => crowded') /\ (crowded => crowded') /\ (HadConversations => HadConversations')
    <3>1. CASE Start(p)
      BY <3>1 DEF Start, CalmInv, HadConversations
    <3>2. CASE MakeTable(p) \/ Count(p) \/ Look(p) \/ Boot(p) \/ Load(p)
      <4>1. UNCHANGED <<crowded, early, born, talks>>
        BY <3>2 DEF MakeTable, Count, Look, Boot, Load
      <4> QED
        BY <4>1 DEF CalmInv, HadConversations
    <3>3. CASE RunStatement(p) \/ RunFails(p) \/ Record(p) \/ Opened(p) \/ Retry(p) \/ Die(p)
      <4>1. UNCHANGED <<crowded, early, born, talks>>
        BY <3>3 DEF RunStatement, RunFails, Record, Opened, Retry, Die
      <4> QED
        BY <4>1 DEF CalmInv, HadConversations
    <3>4. CASE Use(p)
      BY <3>4 DEF Use, CalmInv, HadConversations
    <3> QED
      BY <2>1, <3>1, <3>2, <3>3, <3>4
  <2>2. CASE Die(p)
    BY <2>2, <2>4 DEF Die, CalmInv
  <2>3. CASE ~ Die(p)
    <3>1. deaths' = deaths
      <4>1. CASE Start(p)
        BY <4>1 DEF Start
      <4>2. CASE MakeTable(p) \/ Count(p) \/ Look(p) \/ Boot(p) \/ Load(p)
        BY <4>2 DEF MakeTable, Count, Look, Boot, Load
      <4>3. CASE RunStatement(p) \/ RunFails(p) \/ Record(p) \/ Opened(p) \/ Use(p) \/ Retry(p)
        BY <4>3 DEF RunStatement, RunFails, Record, Opened, Use, Retry
      <4> QED
        BY <2>1, <2>3, <4>1, <4>2, <4>3
    <3>2. SUFFICES ASSUME deaths = 0, ~ crowded', ~ HadConversations'
                   PROVE  Undisturbed' /\ Datable(talks', schema')
      BY <2>4, <3>1 DEF CalmInv
    <3>3. Undisturbed /\ Datable(talks, schema) /\ ~ early
      BY <2>4, <3>1, <3>2 DEF CalmInv
    <3>4. CASE RunStatement(p) \/ RunFails(p)
      BY <3>3, <3>4, CalmRuns
    <3>5. CASE ~ (RunStatement(p) \/ RunFails(p))
      <4>1. Undisturbed'
        BY <2>1, <2>3, <3>2, <3>3, <3>5, CalmReads, CalmBoots, CalmLoads, CalmRecords, CalmRests
      <4>2. Datable(talks', schema')
        BY <2>1, <2>3, <3>3, <3>5, DatesKept
      <4> QED
        BY <4>1, <4>2
    <3> QED
      BY <3>4, <3>5
  <2> QED
    BY <2>2, <2>3
<1> QED
  BY <1>1, <1>2

(* Opening is refused only to a process that another one died on or raced  *)
(* with, or on a file of version 1 or 2 that had conversations: no other   *)
(* statement of an undisturbed upgrade fails, and none is recorded twice.  *)
THEOREM UndisturbedUpgradesGoThrough == OpenSpec => []RefusedOnlyIfDisturbed
<1>1. CalmInv => RefusedOnlyIfDisturbed
  BY DEF CalmInv, Undisturbed, RefusedOnlyIfDisturbed
<1> QED
  BY <1>1, CalmBegins, CalmKept, OpenedStoresAreCurrent, PTL DEF OpenSpec

=============================================================================
