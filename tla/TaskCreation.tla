----------------------------- MODULE TaskCreation -----------------------------
(***************************************************************************)
(* What TaskQueue leaves out of scheduled_tasks (store/tasks.rs): the      *)
(* search for duplicates in create_task and the calendar of tasks that     *)
(* repeat on weekdays.  Each SQL statement is a step.                      *)
(*                                                                         *)
(* A due date is a day, a slot of twenty minutes in it, and the form of    *)
(* its text: iso, with T and Z, or plain.  Claims do not go stale here.    *)
(***************************************************************************)
EXTENDS Naturals, FiniteSets, Sequences

CONSTANTS
  Creators,  \* callers of create_task
  Runners,   \* pollers
  Words,     \* per description, its significant words
  Requests,  \* what callers ask for: [text, repeat, due]
  FirstDay,  \* today at the start; day 0 is a Sunday
  Horizon,   \* bound: the last day
  Plans,     \* bound: [rows, creators, runners], what a behaviour has of each
  MaxMishaps \* bound: deferrals, retries, and calls that end early

Due == [day : Nat, slot : Nat, iso : BOOLEAN]

ASSUME TaskConstantsOK ==
  /\ {FirstDay, Horizon, MaxMishaps} \subseteq Nat
  /\ \A text \in DOMAIN Words : IsFiniteSet(Words[text])
  /\ Requests \subseteq [text : DOMAIN Words, repeat : {"once", "weekdays"}, due : Due]
  /\ Requests # {}
  /\ \A b \in Plans : b.creators \subseteq Creators /\ b.runners \subseteq Runners

VARIABLES
  scheduled, \* the rows in the order of their INSERTs: [status, text, repeat, due]
  creator,   \* per caller: [at, asks, alone]; alone is history
  runner,    \* per poller: [at, task]
  today,
  fresh,     \* history: rows as create_task checked them, with nobody in between
  advanced,  \* history: rows whose due date is what complete_task made of it
  mishaps,   \* history
  plan       \* which bounds hold

taskVars == <<scheduled, creator, runner, today, fresh, advanced, mishaps, plan>>

Rows    == DOMAIN scheduled
Pending == {i \in Rows : scheduled[i].status = "pending"}

NotCreating == [at |-> "idle", asks |-> CHOOSE r \in Requests : TRUE, alone |-> TRUE]
NotRunning  == [at |-> "idle", task |-> 0]

TasksInit ==
  /\ scheduled = << >>
  /\ creator = [c \in Creators |-> NotCreating]
  /\ runner = [p \in Runners |-> NotRunning]
  /\ today = FirstDay
  /\ fresh = {} /\ advanced = {}
  /\ mishaps = 0
  /\ plan \in Plans

Mishap == mishaps < MaxMishaps /\ mishaps' = mishaps + 1

(* Somebody writes the table between the statements of a create_task.      *)
Disturbed == [c \in Creators |-> [creator[c] EXCEPT !.alone = FALSE]]

-----------------------------------------------------------------------------
(* create_task.                                                            *)

NormalizeDueAt(due) == [due EXCEPT !.iso = FALSE]

(* abs(strftime - strftime) <= 1800, which reads either form.              *)
Within30Min(a, b) == a.day = b.day /\ a.slot <= b.slot + 1 /\ b.slot <= a.slot + 1

DescriptionsAreSimilar(a, b) ==
  LET few == IF Cardinality(Words[a]) <= Cardinality(Words[b])
             THEN Cardinality(Words[a]) ELSE Cardinality(Words[b])
  IN few >= 3 /\ 2 * Cardinality(Words[a] \cap Words[b]) >= few

Same(a, b)      == a.text = b.text /\ a.due = b.due
Duplicate(a, b) == Within30Min(a.due, b.due) /\ DescriptionsAreSimilar(a.text, b.text)

(* A call returns at the first duplicate it sees.                          *)
LookForSame(c, r) ==
  /\ creator[c].at = "idle"
  /\ LET asks == [r EXCEPT !.due = NormalizeDueAt(@)] IN
       /\ ~ \E i \in Pending : Same(scheduled[i], asks)
       /\ creator' = [creator EXCEPT ![c] = [at |-> "similar", asks |-> asks, alone |-> TRUE]]
  /\ UNCHANGED <<scheduled, runner, today, fresh, advanced, mishaps>>

LookForSimilar(c) ==
  /\ creator[c].at = "similar"
  /\ creator' = [creator EXCEPT ![c] =
       IF \E i \in Pending : Duplicate(scheduled[i], creator[c].asks)
       THEN NotCreating ELSE [@ EXCEPT !.at = "insert"]]
  /\ UNCHANGED <<scheduled, runner, today, fresh, advanced, mishaps>>

InsertTask(c) ==
  /\ creator[c].at = "insert"
  /\ Len(scheduled) < plan.rows
  /\ LET r == creator[c].asks IN
       scheduled' = Append(scheduled,
         [status |-> "pending", text |-> r.text, repeat |-> r.repeat, due |-> r.due])
  /\ fresh' = IF creator[c].alone THEN fresh \cup {Len(scheduled) + 1} ELSE fresh
  /\ creator' = [Disturbed EXCEPT ![c] = NotCreating]
  /\ UNCHANGED <<runner, today, advanced, mishaps>>

(* The caller is dropped, or a statement fails.                            *)
CreationEnds(c) ==
  /\ creator[c].at # "idle"
  /\ creator' = [creator EXCEPT ![c] = NotCreating]
  /\ Mishap
  /\ UNCHANGED <<scheduled, runner, today, fresh, advanced>>

-----------------------------------------------------------------------------
(* A row gets another due date, status or both.                            *)
Change(i, due, status) ==
  /\ scheduled' = [scheduled EXCEPT ![i].due = due, ![i].status = status]
  /\ creator' = Disturbed
  /\ fresh' = fresh \ {i}

(* defer_task, or update_task with a due date: it is stored as it came.    *)
DeferTask(i, due) ==
  /\ i \in Pending
  /\ Change(i, due, "pending")
  /\ advanced' = advanced \ {i}
  /\ Mishap
  /\ UNCHANGED <<runner, today>>

ClaimDue(p, i) ==
  /\ runner[p].at = "idle"
  /\ i \in Pending /\ scheduled[i].due.day <= today
  /\ Change(i, scheduled[i].due, "claimed")
  /\ runner' = [runner EXCEPT ![p] = [at |-> "run", task |-> i]]
  /\ UNCHANGED <<today, advanced, mishaps>>

Row(p)     == scheduled[runner[p].task]
Weekday(d) == d % 7
Later(due, days) == [due EXCEPT !.day = @ + days, !.iso = FALSE]

DeliverOnce(p) ==
  /\ runner[p].at = "run" /\ Row(p).repeat = "once"
  /\ Change(runner[p].task, Row(p).due, "delivered")
  /\ runner' = [runner EXCEPT ![p] = NotRunning]
  /\ UNCHANGED <<today, advanced, mishaps>>

(* complete_task of a weekday task: three UPDATEs of the row, whatever     *)
(* has become of it since the first.                                       *)
AdvanceDay(p) ==
  /\ runner[p].at = "run" /\ Row(p).repeat = "weekdays"
  /\ Row(p).due.day < Horizon
  /\ Change(runner[p].task, Later(Row(p).due, 1), "pending")
  /\ advanced' = advanced \cup {runner[p].task}
  /\ runner' = [runner EXCEPT ![p].at = "saturday"]
  /\ UNCHANGED <<today, mishaps>>

Skips(p, weekday, days) ==
  IF Weekday(Row(p).due.day) = weekday
  THEN Change(runner[p].task, Later(Row(p).due, days), Row(p).status)
  ELSE UNCHANGED <<scheduled, creator, fresh>>

SkipSaturday(p) ==
  /\ runner[p].at = "saturday"
  /\ Skips(p, 6, 2)
  /\ runner' = [runner EXCEPT ![p].at = "sunday"]
  /\ UNCHANGED <<today, advanced, mishaps>>

SkipSundayByHalf(p) == \* mutant: the third UPDATE looks for Saturdays again
  /\ runner[p].at = "sunday"
  /\ Skips(p, 6, 1)
  /\ runner' = [runner EXCEPT ![p] = NotRunning]
  /\ UNCHANGED <<today, advanced, mishaps>>

SkipSunday(p) ==
  /\ runner[p].at = "sunday"
  /\ Skips(p, 0, 1)
  /\ runner' = [runner EXCEPT ![p] = NotRunning]
  /\ UNCHANGED <<today, advanced, mishaps>>

(* fail_task: two minutes from now, whatever day that is.                  *)
RetrySoon(p) ==
  /\ runner[p].at = "run"
  /\ \E slot \in {r.due.slot : r \in Requests} :
       Change(runner[p].task, [day |-> today, slot |-> slot, iso |-> FALSE], "pending")
  /\ advanced' = advanced \ {runner[p].task}
  /\ runner' = [runner EXCEPT ![p] = NotRunning]
  /\ Mishap
  /\ UNCHANGED today

(* A poller dies, or a statement fails.                                    *)
RunnerDies(p) ==
  /\ runner[p].at # "idle"
  /\ runner' = [runner EXCEPT ![p] = NotRunning]
  /\ advanced' = advanced \ {runner[p].task}
  /\ Mishap
  /\ UNCHANGED <<scheduled, creator, today, fresh>>

DayPasses ==
  /\ today < Horizon
  /\ today' = today + 1
  /\ UNCHANGED <<scheduled, creator, runner, fresh, advanced, mishaps>>

TaskWork ==
  \/ DayPasses
  \/ \E c \in plan.creators :
       (\E r \in Requests : LookForSame(c, r)) \/ LookForSimilar(c) \/ InsertTask(c) \/ CreationEnds(c)
  \/ \E i \in Rows, r \in Requests : DeferTask(i, r.due)
  \/ \E p \in plan.runners :
       \/ \E i \in Rows : ClaimDue(p, i)
       \/ DeliverOnce(p) \/ AdvanceDay(p) \/ SkipSaturday(p) \/ SkipSunday(p)
       \/ RetrySoon(p) \/ RunnerDies(p)

TasksNext == TaskWork /\ UNCHANGED plan

-----------------------------------------------------------------------------
(* create_task never makes a second task of the same text at the same      *)
(* time, or of a similar one at about that time, in whatever form the time *)
(* was given, except where somebody came between its looks and its INSERT. *)
AsTime(row) == [row EXCEPT !.due.iso = FALSE]

NoTwins ==
  \A i, j \in Pending \cap fresh : i # j =>
    /\ ~ Same(AsTime(scheduled[i]), AsTime(scheduled[j]))
    /\ ~ Duplicate(scheduled[i], scheduled[j])

(* However the UPDATEs of two completions fall together, a weekday task    *)
(* that they leave is not due on a weekend, unless one of them was cut.    *)
WeekendsOff ==
  \A i \in Pending \cap advanced :
    (\A p \in Runners : runner[p].task # i) => Weekday(scheduled[i].due.day) \notin {0, 6}

(* What create_task and complete_task promise about the rows they leave.   *)
TasksAsAsked == NoTwins /\ WeekendsOff
=============================================================================
