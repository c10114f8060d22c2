------------------------------ MODULE TaskQueue ------------------------------
(***************************************************************************)
(* The scheduled_tasks table of kernex-memory (store/tasks.rs) and the     *)
(* pollers that share it.                                                  *)
(*                                                                         *)
(* A poller (an HTTP server, an open REPL, a one-shot drain) claims every  *)
(* due row with one UPDATE ... RETURNING, runs each task it was handed,    *)
(* records the run, and then calls complete_task or fail_task.  Nothing    *)
(* in the table says WHO holds a claim: a claim is released by whoever     *)
(* calls complete_task or fail_task, and it becomes reclaimable when it is *)
(* CLAIM_STALE_MINUTES old, whether its poller has died or is only slow:   *)
(* nothing limits a run to that time and nothing renews a claim.  Every    *)
(* SQL statement is one atomic step; the statements of one method are      *)
(* separate steps.                                                         *)
(*                                                                         *)
(* Time is kept relative, so that no clock has to be bounded: due[t] is    *)
(* the number of ticks until the row's due_at (zero or less once it is     *)
(* due) and claimAge[t] is the number of ticks since its claimed_at.       *)
(***************************************************************************)
EXTENDS Integers, FiniteSets

CONSTANTS
  Tasks,        \* row ids
  Pollers,      \* processes that poll the shared store
  Resident,     \* the poller that keeps polling (a server); see Fairness
  StaleAfter,   \* CLAIM_STALE_MINUTES, in ticks
  RetryDelay,   \* the "+2 minutes" of fail_task
  Period,       \* the interval of a recurring task ("+1 day", "+7 days", ...)
  MaxRetries,   \* the max_retries every caller of fail_task passes
  MaxLag,       \* bound: a row overdue by MaxLag ticks ages no further
  DueChoices,   \* bound: the due times callers ask for
  MaxMishaps    \* bound: how often pollers die or lose a batch while alive

ASSUME ConstantsOK ==
  /\ Resident \in Pollers
  /\ IsFiniteSet(Pollers)
  /\ StaleAfter \in Nat \ {0}
  /\ RetryDelay \in Nat
  /\ Period \in Nat \ {0}
  /\ MaxRetries \in Nat \ {0}
  /\ MaxLag \in Nat
  /\ DueChoices \subseteq Int
  /\ MaxMishaps \in Nat

VARIABLES
  status,     \* scheduled_tasks.status, "absent" before the INSERT
  repeat,     \* scheduled_tasks.repeat
  due,        \* ticks until scheduled_tasks.due_at
  claimAge,   \* ticks since scheduled_tasks.claimed_at, NoClaim for NULL
  retries,    \* scheduled_tasks.retry_count
  hold,       \* what poller p knows of task t between being handed it and
              \* the end of complete_task or fail_task:
              \*   stage   what p is doing about it
              \*   age     ticks since p was handed it, StaleAfter at most
              \*   repeat  the repeat it was handed with (DueTask.repeat)
              \*   seen    the retry_count fail_task has read
              \*   alone   history: no other poller held t meanwhile
  fired,      \* history: completed task_runs since t last advanced
  failures,   \* history: fail_task calls about t that went through
  lost,       \* history: pollers that died between a completed run's
              \* task_runs row and its complete_task
  overruns,   \* history: times t was handed out while a live poller held it
  mishaps     \* history: deaths and takings from live pollers so far

rowVars     == <<status, repeat, due, claimAge, retries>>
historyVars == <<fired, failures, lost, overruns, mishaps>>
vars        == <<rowVars, hold, historyVars>>

Repeats  == {"once", "recurring"}
Terminal == {"delivered", "failed", "cancelled"}
Statuses == {"absent", "pending", "claimed"} \cup Terminal
Stages   == {"none", "running", "completed", "failed", "failing"}
NoClaim  == -1

Hold   == [stage : Stages, age : 0..StaleAfter, repeat : Repeats, seen : Nat, alone : BOOLEAN]
NoHold == [stage |-> "none", age |-> 0, repeat |-> "once", seen |-> 0, alone |-> TRUE]

Holds(p, t) == hold[p][t].stage # "none"
Holders(t)  == {p \in Pollers : Holds(p, t)}
Idle(p)     == \A t \in Tasks : ~ Holds(p, t)

-----------------------------------------------------------------------------
(* The WHERE clause of claim_due_tasks.                                    *)

IsDueNow(t) == status[t] = "pending" /\ due[t] = 0 \* mutant: overdue rows are missed
IsDue(t) == status[t] = "pending" /\ due[t] <= 0

IsStaleAnyStatus(t) == claimAge[t] >= StaleAfter \* mutant: claimed_at alone decides
IsStale(t) == status[t] = "claimed" /\ claimAge[t] >= StaleAfter

ClaimableDueOnly == {t \in Tasks : IsDue(t)} \* mutant: no stale reclaim
Claimable == {t \in Tasks : IsDue(t) \/ IsStale(t)}

-----------------------------------------------------------------------------
(* Callers of the store: create_task's INSERT, cancel_task, update_task,   *)
(* defer_task.  A prefix of an id selects a set of rows; the UPDATE takes  *)
(* those that are pending.                                                 *)

Insert(t, d, r) ==
  /\ status[t] = "absent"
  /\ status' = [status EXCEPT ![t] = "pending"]
  /\ due' = [due EXCEPT ![t] = d]
  /\ repeat' = [repeat EXCEPT ![t] = r]
  /\ UNCHANGED <<claimAge, retries, hold, historyVars>>

Pending(S) == {t \in S : status[t] = "pending"}

Cancel(S) ==
  LET hit == Pending(S) IN
  /\ hit # {}
  /\ status' = [t \in Tasks |-> IF t \in hit THEN "cancelled" ELSE status[t]]
  /\ UNCHANGED <<repeat, due, claimAge, retries, hold, historyVars>>

(* update_task sets the columns it is given: `given` says which.           *)
UpdateAny(S, d, r, given) == \* mutant: the status guard is gone
  /\ S # {}
  /\ due' = [t \in Tasks |-> IF t \in S /\ "due" \in given THEN d ELSE due[t]]
  /\ repeat' = [t \in Tasks |-> IF t \in S /\ "repeat" \in given THEN r ELSE repeat[t]]
  /\ UNCHANGED <<status, claimAge, retries, hold, historyVars>>

Update(S, d, r, given) ==
  LET hit == Pending(S) IN
  /\ hit # {}
  /\ due' = [t \in Tasks |-> IF t \in hit /\ "due" \in given THEN d ELSE due[t]]
  /\ repeat' = [t \in Tasks |-> IF t \in hit /\ "repeat" \in given THEN r ELSE repeat[t]]
  /\ UNCHANGED <<status, claimAge, retries, hold, historyVars>>

Defer(t, d) ==
  /\ status[t] = "pending"
  /\ due' = [due EXCEPT ![t] = d]
  /\ UNCHANGED <<status, repeat, claimAge, retries, hold, historyVars>>

-----------------------------------------------------------------------------
(* claim_due_tasks: one statement flips every claimable row and hands it   *)
(* to the caller, also a row whose claim is stale while its poller is      *)
(* still at work.  A poller asks again when its batch is finished.         *)

Handed(t) ==
  [stage |-> "running", age |-> 0, repeat |-> repeat[t], seen |-> 0, alone |-> Holders(t) = {}]

Overtaken == {t \in Claimable : Holders(t) # {}}

Claim(p) ==
  /\ Idle(p)
  /\ Claimable # {}
  /\ Overtaken # {} => mishaps < MaxMishaps
  /\ status' = [t \in Tasks |-> IF t \in Claimable THEN "claimed" ELSE status[t]]
  /\ claimAge' = [t \in Tasks |-> IF t \in Claimable THEN 0 ELSE claimAge[t]]
  /\ hold' = [q \in Pollers |-> [t \in Tasks |->
       IF t \notin Claimable THEN hold[q][t]
       ELSE IF q = p THEN Handed(t)
       ELSE IF Holds(q, t) THEN [hold[q][t] EXCEPT !.alone = FALSE] ELSE hold[q][t]]]
  /\ overruns' = [t \in Tasks |->
       IF t \in Overtaken THEN overruns[t] + 1 ELSE overruns[t]]
  /\ mishaps' = IF Overtaken = {} THEN mishaps ELSE mishaps + 1
  /\ UNCHANGED <<repeat, due, retries, fired, failures, lost>>

(* The poller finishes running t and writes its task_runs row.             *)

RecordRun(p, t, outcome) ==
  /\ hold[p][t].stage = "running"
  /\ hold' = [hold EXCEPT ![p][t] = [@ EXCEPT !.stage = outcome]]
  /\ fired' = [fired EXCEPT ![t] = IF outcome = "completed" THEN @ + 1 ELSE @]
  /\ UNCHANGED <<rowVars, failures, lost, overruns, mishaps>>

RunEnds(p, t) == \E outcome \in {"completed", "failed"} : RecordRun(p, t, outcome)

(* complete_task(id, repeat) with the repeat of the DueTask: no statement  *)
(* looks at the row's status.                                              *)

CompleteOnce(p, t) ==
  /\ hold[p][t].stage = "completed"
  /\ hold[p][t].repeat = "once"
  /\ status' = [status EXCEPT ![t] = "delivered"]
  /\ hold' = [hold EXCEPT ![p][t] = NoHold]
  /\ UNCHANGED <<repeat, due, claimAge, retries, historyVars>>

CompleteKeepsDue(p, t) == \* mutant: the claim is released, due_at does not advance
  /\ hold[p][t].stage = "completed"
  /\ hold[p][t].repeat = "recurring"
  /\ status' = [status EXCEPT ![t] = "pending"]
  /\ claimAge' = [claimAge EXCEPT ![t] = NoClaim]
  /\ hold' = [hold EXCEPT ![p][t] = NoHold]
  /\ UNCHANGED <<repeat, due, retries, historyVars>>

CompleteRecurring(p, t) ==
  /\ hold[p][t].stage = "completed"
  /\ hold[p][t].repeat = "recurring"
  /\ status' = [status EXCEPT ![t] = "pending"]
  /\ due' = [due EXCEPT ![t] = @ + Period]
  /\ claimAge' = [claimAge EXCEPT ![t] = NoClaim]
  /\ hold' = [hold EXCEPT ![p][t] = NoHold]
  /\ fired' = [fired EXCEPT ![t] = 0]
  /\ lost' = [lost EXCEPT ![t] = 0]
  /\ UNCHANGED <<repeat, retries, failures, overruns, mishaps>>

(* fail_task(id, error, max_retries): a SELECT of retry_count, then one of *)
(* two UPDATEs computed from the value read.                               *)

FailRead(p, t) ==
  /\ hold[p][t].stage = "failed"
  /\ hold' = [hold EXCEPT ![p][t] = [@ EXCEPT !.seen = retries[t], !.stage = "failing"]]
  /\ UNCHANGED <<rowVars, historyVars>>

FailRetryOffByOne(p, t) == \* mutant: <= for <
  /\ hold[p][t].stage = "failing"
  /\ hold[p][t].seen + 1 <= MaxRetries
  /\ retries' = [retries EXCEPT ![t] = hold[p][t].seen + 1]
  /\ due' = [due EXCEPT ![t] = RetryDelay]
  /\ status' = [status EXCEPT ![t] = "pending"]
  /\ claimAge' = [claimAge EXCEPT ![t] = NoClaim]
  /\ hold' = [hold EXCEPT ![p][t] = NoHold]
  /\ failures' = [failures EXCEPT ![t] = @ + 1]
  /\ UNCHANGED <<repeat, fired, lost, overruns, mishaps>>

FailRetry(p, t) ==
  /\ hold[p][t].stage = "failing"
  /\ hold[p][t].seen + 1 < MaxRetries
  /\ retries' = [retries EXCEPT ![t] = hold[p][t].seen + 1]
  /\ due' = [due EXCEPT ![t] = RetryDelay]
  /\ status' = [status EXCEPT ![t] = "pending"]
  /\ claimAge' = [claimAge EXCEPT ![t] = NoClaim]
  /\ hold' = [hold EXCEPT ![p][t] = NoHold]
  /\ failures' = [failures EXCEPT ![t] = @ + 1]
  /\ UNCHANGED <<repeat, fired, lost, overruns, mishaps>>

FailFinally(p, t) ==
  /\ hold[p][t].stage = "failing"
  /\ hold[p][t].seen + 1 >= MaxRetries
  /\ retries' = [retries EXCEPT ![t] = hold[p][t].seen + 1]
  /\ status' = [status EXCEPT ![t] = "failed"]
  /\ hold' = [hold EXCEPT ![p][t] = NoHold]
  /\ failures' = [failures EXCEPT ![t] = @ + 1]
  /\ UNCHANGED <<repeat, due, claimAge, fired, lost, overruns, mishaps>>

(* Death of a poller: what it held is forgotten, the rows stay claimed.    *)

Crash(p) ==
  /\ mishaps < MaxMishaps
  /\ ~ Idle(p)
  /\ mishaps' = mishaps + 1
  /\ lost' = [t \in Tasks |-> IF hold[p][t].stage = "completed" THEN lost[t] + 1 ELSE lost[t]]
  /\ hold' = [hold EXCEPT ![p] = [t \in Tasks |-> NoHold]]
  /\ UNCHANGED <<rowVars, fired, failures, overruns>>

(* One tick of the wall clock, however slow the pollers are.               *)

Older(age) == IF age = NoClaim \/ age = StaleAfter THEN age ELSE age + 1

Tick ==
  /\ due' = [t \in Tasks |->
       IF status[t] = "absent" \/ due[t] + MaxLag <= 0 THEN due[t] ELSE due[t] - 1]
  /\ claimAge' = [t \in Tasks |-> Older(claimAge[t])]
  /\ hold' = [p \in Pollers |-> [t \in Tasks |->
       IF Holds(p, t) THEN [hold[p][t] EXCEPT !.age = Older(@)] ELSE hold[p][t]]]
  /\ UNCHANGED <<status, repeat, retries, historyVars>>

-----------------------------------------------------------------------------
Init ==
  /\ status = [t \in Tasks |-> "absent"]
  /\ repeat = [t \in Tasks |-> "once"]
  /\ due = [t \in Tasks |-> 0]
  /\ claimAge = [t \in Tasks |-> NoClaim]
  /\ retries = [t \in Tasks |-> 0]
  /\ hold = [p \in Pollers |-> [t \in Tasks |-> NoHold]]
  /\ fired = [t \in Tasks |-> 0]
  /\ failures = [t \in Tasks |-> 0]
  /\ lost = [t \in Tasks |-> 0]
  /\ overruns = [t \in Tasks |-> 0]
  /\ mishaps = 0

PollerStep(p, t) ==
  \/ RunEnds(p, t)
  \/ CompleteOnce(p, t)
  \/ CompleteRecurring(p, t)
  \/ FailRead(p, t)
  \/ FailRetry(p, t)
  \/ FailFinally(p, t)

CallerStep ==
  \/ \E t \in Tasks, d \in DueChoices, r \in Repeats : Insert(t, d, r)
  \/ \E S \in SUBSET Tasks : Cancel(S)
  \/ \E S \in SUBSET Tasks, d \in DueChoices, r \in Repeats, given \in SUBSET {"due", "repeat"} :
       Update(S, d, r, given)
  \/ \E t \in Tasks, d \in DueChoices : Defer(t, d)

Next ==
  \/ CallerStep
  \/ \E p \in Pollers : Claim(p)
  \/ \E p \in Pollers, t \in Tasks : PollerStep(p, t)
  \/ \E p \in Pollers : Crash(p)
  \/ Tick

Spec == Init /\ [][Next]_vars
-----------------------------------------------------------------------------
(* Properties.                                                             *)

(* Type correctness of the rows, of what the pollers hold and of the       *)
(* history.                                                                *)
TypeOK ==
  /\ status \in [Tasks -> Statuses]
  /\ repeat \in [Tasks -> Repeats]
  /\ due \in [Tasks -> Int]
  /\ claimAge \in [Tasks -> 0..StaleAfter \cup {NoClaim}]
  /\ retries \in [Tasks -> Nat]
  /\ hold \in [Pollers -> [Tasks -> Hold]]
  /\ fired \in [Tasks -> Nat]
  /\ failures \in [Tasks -> Nat]
  /\ lost \in [Tasks -> Nat]
  /\ overruns \in [Tasks -> Nat]
  /\ mishaps \in 0..MaxMishaps

(* claim_due_tasks hands each due task to exactly one of the pollers that  *)
(* share a store (tasks.rs:167-172): no two of them are running it.  The   *)
(* code does not keep this of a run longer than CLAIM_STALE_MINUTES.       *)
OneHolder ==
  \A p, q \in Pollers, t \in Tasks : Holds(p, t) /\ Holds(q, t) => p = q

(* What the code does keep: a task has two holders only if it was taken    *)
(* from a live poller, and each of them is marked.                         *)
SharedOnlyIfTaken ==
  \A p, q \in Pollers, t \in Tasks :
    Holds(p, t) /\ Holds(q, t) /\ p # q => ~ hold[p][t].alone /\ overruns[t] > 0

(* What a poller knows of a task it holds is still what the row says, as   *)
(* long as no other poller has held the task at the same time:             *)
(* complete_task and fail_task can do without a status guard just so long. *)
HolderOwnsRow ==
  \A p \in Pollers, t \in Tasks : Holds(p, t) /\ hold[p][t].alone =>
    /\ status[t] = "claimed"
    /\ claimAge[t] = hold[p][t].age
    /\ repeat[t] = hold[p][t].repeat
    /\ hold[p][t].stage = "failing" => retries[t] = hold[p][t].seen

(* Between two advances of due_at a task completes once, plus once for     *)
(* every poller that died after recording a completed run and before       *)
(* complete_task, plus once for every time it was taken from a poller that *)
(* was still at work (019_task_runs.sql promises "each due task fires      *)
(* exactly once").                                                         *)
FiresOnce == \A t \in Tasks : fired[t] <= 1 + lost[t] + overruns[t]

(* No fail_task increment is lost between its SELECT and its UPDATE, and   *)
(* none is counted twice, unless the task was taken from a live poller;    *)
(* then two fail_task calls can overlap, and the count can only fall       *)
(* short.                                                                  *)
FailuresCounted ==
  \A t \in Tasks :
    /\ retries[t] <= failures[t]
    /\ overruns[t] = 0 => retries[t] = failures[t]

(* A task that can still run has a retry left, so fail_task's count never  *)
(* passes max_retries; a task taken from a live poller can be revived by   *)
(* the late one.                                                           *)
RetryBudget ==
  \A t \in Tasks : overruns[t] = 0 =>
    /\ retries[t] <= MaxRetries
    /\ status[t] \in {"absent", "pending", "claimed"} => retries[t] < MaxRetries

(* The two together: the retries are counted exactly and stay in budget.   *)
RetriesExact == RetryBudget /\ FailuresCounted

(* No step brings a delivered, failed or cancelled task back unless it was *)
(* taken from a live poller, whose late complete_task or fail_task tests   *)
(* nothing.                                                                *)
TerminalIsFinal ==
  [][\A t \in Tasks : status[t] \in Terminal /\ overruns[t] = 0 => status'[t] = status[t]]_vars

(* The abstract promise.  A claim is late when it is stale under a live    *)
(* poller, or when it has already been taken from one.                     *)
Phase(t) ==
  IF status[t] \in Terminal THEN "settled"
  ELSE IF status[t] = "claimed" THEN "handed" ELSE "waiting"

Late(t) == Holders(t) # {} /\ (IsStale(t) \/ \E p \in Holders(t) : ~ hold[p][t].alone)

Dispatch == INSTANCE ExclusiveDispatch WITH
  owners <- [t \in Tasks |-> Holders(t)],
  phase <- [t \in Tasks |-> Phase(t)],
  late <- [t \in Tasks |-> Late(t)]

(* The table and its pollers implement exclusive dispatch, with the one    *)
(* exception of claims kept beyond the staleness window.                   *)
ImplementsDispatch == Dispatch!Spec

-----------------------------------------------------------------------------
(* Liveness.  One poller, the resident one (a server), keeps polling; any  *)
(* poller that lives goes on with the task it was handed; time passes.     *)
(* Callers, other pollers' polls and deaths are not fair.                  *)

Fairness ==
  /\ WF_vars(Tick)
  /\ WF_vars(Claim(Resident))
  /\ \A p \in Pollers, t \in Tasks : WF_vars(PollerStep(p, t))

FairSpec == Spec /\ Fairness

(* A due task does not stay pending and due for ever.                      *)
Overdue(t) == status[t] = "pending" /\ due[t] <= 0

DueIsHandedOut == \A t \in Tasks : Overdue(t) ~> ~ Overdue(t)

(* A claim ends, also when the poller that made it dies: the staleness     *)
(* window gives the task to the resident poller.                           *)
ClaimEnds == \A t \in Tasks : status[t] = "claimed" ~> status[t] # "claimed"
=============================================================================
