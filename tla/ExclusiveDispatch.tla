-------------------------- MODULE ExclusiveDispatch --------------------------
(***************************************************************************)
(* What the claim protocol of scheduled_tasks promises (store/tasks.rs,    *)
(* "each due task is handed to exactly one of them"), with the one         *)
(* exception the code makes: a task has at most one owner unless its owner *)
(* kept it past the staleness window; only an owner gives it back or       *)
(* settles it, a settled task is handed out again only if a late owner     *)
(* gave it back, and the death of its owner leaves a task handed out to    *)
(* nobody until another poller is given it.                                *)
(***************************************************************************)
EXTENDS FiniteSets

CONSTANTS Tasks, Pollers

VARIABLES
  owners, \* who is running the task
  phase,  \* "waiting", "handed" or "settled"
  late    \* an owner has kept it past the window and may be overtaken

Init ==
  /\ owners = [t \in Tasks |-> {}]
  /\ phase = [t \in Tasks |-> "waiting"]
  /\ late = [t \in Tasks |-> FALSE]

Exclusive(t) == owners[t] = {} \/ late[t]

(* Lateness ends when the last owner lets go.                              *)
StaysLate == late' = [t \in Tasks |-> late[t] /\ owners'[t] # {}]

(* p, which owns nothing, is handed a batch of tasks that nobody owns, or  *)
(* whose owners are late.                                                  *)
HandOut(p, S) ==
  /\ S # {}
  /\ \A t \in Tasks : p \notin owners[t]
  /\ \A t \in S : Exclusive(t) /\ phase[t] # "settled"
  /\ owners' = [t \in Tasks |-> IF t \in S THEN owners[t] \cup {p} ELSE owners[t]]
  /\ phase' = [t \in Tasks |-> IF t \in S THEN "handed" ELSE phase[t]]
  /\ UNCHANGED late

(* An owner gives the task back, to wait for its next due time, or         *)
(* settles it for good.                                                    *)
GiveBack(p, t, next) ==
  /\ p \in owners[t]
  /\ owners' = [owners EXCEPT ![t] = @ \ {p}]
  /\ phase' = [phase EXCEPT ![t] = next]
  /\ StaysLate

(* A caller withdraws tasks that have not been handed out.                 *)
Withdraw(S) ==
  /\ \A t \in S : phase[t] = "waiting"
  /\ phase' = [t \in Tasks |-> IF t \in S THEN "settled" ELSE phase[t]]
  /\ UNCHANGED <<owners, late>>

(* An owner dies with everything it was handed.                            *)
Die(p) ==
  /\ owners' = [t \in Tasks |-> owners[t] \ {p}]
  /\ StaysLate
  /\ UNCHANGED phase

(* The staleness window passes over tasks that are still owned.            *)
Expire(S) ==
  /\ \A t \in S : phase[t] = "handed" /\ owners[t] # {}
  /\ late' = [t \in Tasks |-> late[t] \/ t \in S]
  /\ UNCHANGED <<owners, phase>>

Next ==
  \/ \E p \in Pollers, S \in SUBSET Tasks : HandOut(p, S)
  \/ \E p \in Pollers, t \in Tasks, next \in {"waiting", "settled"} : GiveBack(p, t, next)
  \/ \E S \in SUBSET Tasks : Withdraw(S)
  \/ \E p \in Pollers : Die(p)
  \/ \E S \in SUBSET Tasks : Expire(S)

Spec == Init /\ [][Next]_<<owners, phase, late>>
=============================================================================
