------------------------------- MODULE MCStore -------------------------------
(* The store of kernex-memory for TLC: a behaviour is about the processes  *)
(* that open it (StoreOpen) or about the pollers of its tasks (TaskQueue), *)
(* which have no state in common.  How long a tick is is left open; what   *)
(* counts is the order RetryDelay < Period.                                *)
EXTENDS TaskQueue, StoreOpen

VARIABLE part

storeVars == <<vars, openVars, part>>

(* Where nobody opens it, the store is a new one.                          *)
StoreInit ==
  /\ part \in {"opening", "tasks"}
  /\ Init /\ OpenInit
  /\ part = "tasks" => born = 0 /\ tracked = FALSE

InOpening(A) == part = "opening" /\ A /\ UNCHANGED <<vars, part>>
InTasks(A)   == part = "tasks" /\ A /\ UNCHANGED <<openVars, part>>

(* Rows of conversations matter to 003 alone, and after an early race the  *)
(* properties claim nothing: the run does not look further.                *)
Claimed == ~ early /\ (born >= 3 => "old" \in talks)

StoreNext ==
  \/ InOpening(Claimed /\ OpenNext) \/ InOpening(~ Claimed /\ UNCHANGED openVars)
  \/ InTasks(Next)

StoreSpec ==
  /\ StoreInit /\ [][StoreNext]_storeVars
  /\ WF_storeVars(InTasks(Tick))
  /\ WF_storeVars(InTasks(Claim(Resident)))
  /\ \A p \in Pollers, t \in Tasks : WF_storeVars(InTasks(PollerStep(p, t)))
=============================================================================
