------------------------------ MODULE StoreOpen ------------------------------
(***************************************************************************)
(* Opening a memory store: Store::new and run_migrations of kernex-memory  *)
(* (store/mod.rs) with the scripts of migrations/.                         *)
(*                                                                         *)
(* A script is a sequence of SQL statements that commit one by one; only   *)
(* the row of _migrations, another statement, says that it ran.  A process *)
(* may die between any two statements, and several processes may open the  *)
(* same file.  A table is the set of its parts: itself, and the columns    *)
(* and triggers that a later statement tests or creates.                   *)
(***************************************************************************)
EXTENDS Integers, Sequences, FiniteSets, SequencesExt

CONSTANTS
  Processes,   \* processes that open the store
  MaxDeaths   \* bound: deaths while the store is being opened

ASSUME OpenConstantsOK == MaxDeaths \in Nat

-----------------------------------------------------------------------------
(* The statements.  CREATE INDEX and CREATE TRIGGER with IF NOT EXISTS and *)
(* the tables nothing depends on are left out: they change nothing here.   *)

Self == "table"

Ensure(t, ps)  == [op |-> "ensure", table |-> t, parts |-> {Self} \cup ps, from |-> t]
Create(t, ps)  == [op |-> "create", table |-> t, parts |-> {Self} \cup ps, from |-> t]
Add(t, p)      == [op |-> "add",    table |-> t, parts |-> {p},            from |-> t]
DropIf(t)      == [op |-> "drop",   table |-> t, parts |-> {},             from |-> t]
Drop(t)        == [op |-> "drop",   table |-> t, parts |-> {Self},         from |-> t]
Copy(f, t)     == [op |-> "copy",   table |-> t, parts |-> {},             from |-> f]
Rename(f, t)   == [op |-> "rename", table |-> t, parts |-> {},             from |-> f]

(* The scripts, in the order in which run_migrations lists them.           *)
ManyLessonsDropsFirst == \* mutant: the old table goes before it is copied
  <<Create("lessons_v2", {"project", "many"}), Drop("lessons"),
    Ensure("lessons", {}), Copy("lessons", "lessons_v2"),
    Drop("lessons"), Rename("lessons_v2", "lessons"), Add("lessons", "indexes")>>

ManyLessons ==   \* 013
  <<Create("lessons_v2", {"project", "many"}), Copy("lessons", "lessons_v2"),
    Drop("lessons"), Rename("lessons_v2", "lessons"), Add("lessons", "indexes")>>

Script == <<
  (* 001 *) <<Ensure("conversations", {}), Ensure("messages", {}), Ensure("facts", {})>>,
  (* 002 *) <<Ensure("audit_log", {})>>,
  (* 003 *) <<Add("conversations", "summary"), Add("conversations", "last_activity"),
              Add("conversations", "status"), DropIf("facts"), Create("facts", {"sender_id"})>>,
  (* 004 *) <<Ensure("messages_fts", {}), Copy("messages", "messages_fts"),
              Add("messages", "insert"), Add("messages", "delete"), Add("messages", "update")>>,
  (* 005 *) <<Ensure("tasks", {})>>,
  (* 006 *) <<Ensure("limitations", {})>>,
  (* 007 *) <<Add("tasks", "task_type")>>,
  (* 008 *) <<Ensure("user_aliases", {})>>,
  (* 009 *) <<Add("tasks", "retry_count"), Add("tasks", "last_error")>>,
  (* 010 *) <<Ensure("outcomes", {}), Ensure("lessons", {})>>,
  (* 011 *) <<Add("outcomes", "project"), Create("lessons_new", {"project"}),
              Copy("lessons", "lessons_new"), Drop("lessons"), Rename("lessons_new", "lessons"),
              Add("tasks", "project")>>,
  (* 012 *) <<Ensure("project_sessions", {}), Add("conversations", "project")>>,
  (* 013 *) ManyLessons,
  (* 014 *) <<Create("token_usage", {}), Add("token_usage", "indexes")>>,
  (* 015 *) <<Ensure("phase_checkpoints", {})>>,
  (* 016 *) <<Add("token_usage", "input"), Add("token_usage", "output"),
              Add("token_usage", "cache_read"), Add("token_usage", "cache_creation")>>,
  (* 017 *) <<Add("facts", "deleted_at")>>,
  (* 018 *) <<Ensure("observations", {}), Ensure("observations_fts", {})>>,
  (* 019 *) <<Add("tasks", "claimed_at"), Ensure("task_runs", {})>> >>

Migrations == DOMAIN Script
Statements == UNION {ToSet(Script[m]) : m \in Migrations}
Tables     == {st.table : st \in Statements}
Parts      == UNION {st.parts : st \in Statements}

(* The tables whose rows the upgrades move or must leave alone.            *)
RowTables == {"facts", "lessons", "lessons_new", "lessons_v2"}

(* The default of this column of 003 is computed: SQLite adds it to an     *)
(* empty table only.                                                       *)
Dated == Add("conversations", "last_activity")

Exists(sch, t) == Self \in sch[t]

(* Whether st goes through, where conversations has the rows tk.           *)
Succeeds(st, sch, tk) ==
  CASE st.op = "ensure" -> TRUE
    [] st.op = "create" -> ~ Exists(sch, st.table)
    [] st.op = "add"    -> /\ Exists(sch, st.table) /\ st.parts \cap sch[st.table] = {}
                           /\ st = Dated => tk = {}
    [] st.op = "drop"   -> Self \in st.parts => Exists(sch, st.table)
    [] st.op = "copy"   -> Exists(sch, st.table) /\ Exists(sch, st.from)
    [] st.op = "rename" -> Exists(sch, st.from) /\ ~ Exists(sch, st.table)

SchemaAfter(st, sch) ==
  CASE st.op = "ensure" -> IF Exists(sch, st.table) THEN sch
                           ELSE [sch EXCEPT ![st.table] = st.parts]
    [] st.op = "create" -> [sch EXCEPT ![st.table] = st.parts]
    [] st.op = "add"    -> [sch EXCEPT ![st.table] = @ \cup st.parts]
    [] st.op = "drop"   -> [sch EXCEPT ![st.table] = {}]
    [] st.op = "copy"   -> sch
    [] st.op = "rename" -> [sch EXCEPT ![st.table] = sch[st.from], ![st.from] = {}]

RowsAfter(st, rs) ==
  IF st.table \notin RowTables THEN rs
  ELSE CASE st.op = "drop"   -> [rs EXCEPT ![st.table] = {}]
         [] st.op = "copy"   -> [rs EXCEPT ![st.table] = @ \cup rs[st.from]]
         [] st.op = "rename" -> [rs EXCEPT ![st.table] = rs[st.from], ![st.from] = {}]
         [] OTHER            -> rs

NoTables == [t \in Tables |-> {}]

(* The schema after a script, and after the first v of them.               *)
AfterAll(script, sch) ==
  LET after[i \in 0..Len(script)] ==
        IF i = 0 THEN sch ELSE SchemaAfter(script[i], after[i - 1])
  IN  after[Len(script)]

SchemaOf ==
  LET all[v \in 0..Len(Script)] ==
        IF v = 0 THEN NoTables ELSE AfterAll(Script[v], all[v - 1])
  IN  all

Newest == SchemaOf[Len(Script)]

-----------------------------------------------------------------------------
VARIABLES
  schema,    \* the parts of each table in the file
  rows,      \* what the RowTables hold
  talks,     \* what conversations holds
  tracked,   \* the _migrations table exists
  applied,   \* its rows
  proc,      \* what each process is doing, and its copy of `applied`
  born,      \* history: the version the file had
  deaths,    \* history: deaths in mid-open
  crowded,   \* history: two processes were opening at once
  early      \* history: they were, before the lessons were upgraded

openVars == <<schema, rows, talks, tracked, applied, proc, born, deaths, crowded, early>>

UntrackedButTwo == {1, 2} \* mutant: the bootstrap forgets 003
Untracked == {1, 2, 3}    \* what the bootstrap takes for done

OpenStages == {"absent", "table", "count", "look", "boot", "load", "run", "record", "open", "failed"}
Fresh  == [stage |-> "absent", known |-> {}, at |-> 1, step |-> 1]

Opening(p) == proc[p].stage \notin {"absent", "open", "failed"}

(* A store is new, of any version, or of the time before _migrations.      *)
OpenInit ==
  /\ \E v \in 0..Len(Script), t \in BOOLEAN :
       /\ t \/ v = 3
       /\ schema = SchemaOf[v]
       /\ tracked = (t /\ v > 0)
       /\ applied = IF t THEN 1..v ELSE {}
       /\ rows = [k \in RowTables |-> IF Exists(SchemaOf[v], k) /\ (k = "facts" => v >= 3)
                                 THEN {"old"} ELSE {}]
       /\ talks \in {{}} \cup (IF v >= 1 THEN {{"old"}} ELSE {})
       /\ born = v
  /\ proc = [p \in Processes |-> Fresh]
  /\ deaths = 0
  /\ crowded = FALSE /\ early = FALSE

Enters(p, stage) == proc' = [proc EXCEPT ![p].stage = stage]

-----------------------------------------------------------------------------
(* Store::new: the file, then run_migrations.                              *)
Start(p) ==
  /\ proc[p].stage = "absent"
  /\ LET raced == \E q \in Processes \ {p} : Opening(q) IN
       /\ crowded' = (crowded \/ raced)
       /\ early' = (early \/ (raced /\ 13 \notin applied))
  /\ Enters(p, "table")
  /\ UNCHANGED <<schema, rows, talks, tracked, applied, born, deaths>>

(* CREATE TABLE IF NOT EXISTS _migrations.                                 *)
MakeTable(p) ==
  /\ proc[p].stage = "table"
  /\ tracked' = TRUE
  /\ Enters(p, "count")
  /\ UNCHANGED <<schema, rows, talks, applied, born, deaths, crowded, early>>

Count(p) ==
  /\ proc[p].stage = "count"
  /\ Enters(p, IF applied = {} THEN "look" ELSE "load")
  /\ UNCHANGED <<schema, rows, talks, tracked, applied, born, deaths, crowded, early>>

(* A conversations table that has a summary is a store of version 3.       *)
LooksLikeConversations(p) == \* mutant: any conversations table will do
  /\ proc[p].stage = "look"
  /\ Enters(p, IF Exists(schema, "conversations") THEN "boot" ELSE "load")
  /\ UNCHANGED <<schema, rows, talks, tracked, applied, born, deaths, crowded, early>>

Look(p) ==
  /\ proc[p].stage = "look"
  /\ Enters(p, IF "summary" \in schema["conversations"] THEN "boot" ELSE "load")
  /\ UNCHANGED <<schema, rows, talks, tracked, applied, born, deaths, crowded, early>>

(* INSERT OR IGNORE, one statement for each name.                          *)
Boot(p) ==
  /\ proc[p].stage = "boot"
  /\ applied' = applied \cup {proc[p].at}
  /\ proc' = IF proc[p].at = Cardinality(Untracked)
             THEN [proc EXCEPT ![p].stage = "load", ![p].at = 1]
             ELSE [proc EXCEPT ![p].at = @ + 1]
  /\ UNCHANGED <<schema, rows, talks, tracked, born, deaths, crowded, early>>

(* What is left to run is decided here, once.                              *)
Remaining(p) == {m \in Migrations : m \notin proc[p].known /\ m >= proc[p].at}

Load(p) ==
  /\ proc[p].stage = "load"
  /\ proc' = [proc EXCEPT ![p].stage = "run", ![p].known = applied]
  /\ UNCHANGED <<schema, rows, talks, tracked, applied, born, deaths, crowded, early>>

Current(p) == CHOOSE m \in Remaining(p) : \A n \in Remaining(p) : m <= n

RunStatement(p) ==
  /\ proc[p].stage = "run"
  /\ Remaining(p) # {}
  /\ LET m  == Current(p)
         st == Script[m][proc[p].step]
     IN /\ Succeeds(st, schema, talks)
        /\ schema' = SchemaAfter(st, schema)
        /\ rows' = RowsAfter(st, rows)
        /\ proc' = IF proc[p].step = Len(Script[m])
                   THEN [proc EXCEPT ![p].stage = "record", ![p].at = m, ![p].step = 1]
                   ELSE [proc EXCEPT ![p].step = @ + 1]
  /\ UNCHANGED <<talks, tracked, applied, born, deaths, crowded, early>>

RunFails(p) ==
  /\ proc[p].stage = "run"
  /\ Remaining(p) # {}
  /\ ~ Succeeds(Script[Current(p)][proc[p].step], schema, talks)
  /\ Enters(p, "failed")
  /\ UNCHANGED <<schema, rows, talks, tracked, applied, born, deaths, crowded, early>>

(* INSERT INTO _migrations: fails when another process has recorded it.    *)
Record(p) ==
  /\ proc[p].stage = "record"
  /\ IF proc[p].at \in applied
     THEN Enters(p, "failed") /\ UNCHANGED applied
     ELSE /\ applied' = applied \cup {proc[p].at}
          /\ proc' = [proc EXCEPT ![p].stage = "run", ![p].at = @ + 1]
  /\ UNCHANGED <<schema, rows, talks, tracked, born, deaths, crowded, early>>

Opened(p) ==
  /\ proc[p].stage = "run"
  /\ Remaining(p) = {}
  /\ Enters(p, "open")
  /\ UNCHANGED <<schema, rows, talks, tracked, applied, born, deaths, crowded, early>>

-----------------------------------------------------------------------------
(* An open store is written to: a fact, a lesson and a conversation.       *)
Use(p) ==
  /\ proc[p].stage = "open"
  /\ \A t \in {"facts", "lessons"} : Exists(schema, t)
  /\ p \notin rows["lessons"] \cup rows["facts"]
  /\ rows' = [rows EXCEPT !["facts"] = @ \cup {p}, !["lessons"] = @ \cup {p}]
  /\ talks' = talks \cup {p}
  /\ UNCHANGED <<schema, tracked, applied, proc, born, deaths, crowded, early>>

(* A process that closed the store, or was refused it, may try again.      *)
Retry(p) ==
  /\ proc[p].stage \in {"open", "failed"}
  /\ proc' = [proc EXCEPT ![p] = Fresh]
  /\ UNCHANGED <<schema, rows, talks, tracked, applied, born, deaths, crowded, early>>

Die(p) ==
  /\ Opening(p)
  /\ deaths < MaxDeaths
  /\ deaths' = deaths + 1
  /\ proc' = [proc EXCEPT ![p] = Fresh]
  /\ UNCHANGED <<schema, rows, talks, tracked, applied, born, crowded, early>>

OpenNext ==
  \E p \in Processes :
    \/ Start(p) \/ MakeTable(p) \/ Count(p) \/ Look(p) \/ Boot(p) \/ Load(p)
    \/ RunStatement(p) \/ RunFails(p) \/ Record(p) \/ Opened(p)
    \/ Use(p) \/ Retry(p) \/ Die(p)

OpenSpec == OpenInit /\ [][OpenNext]_openVars

-----------------------------------------------------------------------------
(* The variables stay in their types.                                      *)
OpenTypeOK ==
  /\ schema \in [Tables -> SUBSET Parts]
  /\ rows \in [RowTables -> SUBSET (Processes \cup {"old"})]
  /\ talks \in SUBSET (Processes \cup {"old"})
  /\ tracked \in BOOLEAN
  /\ applied \in SUBSET Migrations
  /\ proc \in [Processes -> [stage : OpenStages, known : SUBSET Migrations,
                             at : Nat \ {0}, step : Nat \ {0}]]
  /\ born \in 0..Len(Script)
  /\ deaths \in 0..MaxDeaths
  /\ crowded \in BOOLEAN /\ early \in BOOLEAN

(* A store that Store::new hands out has every table, column and trigger   *)
(* of the newest version, whatever it started from, whoever died on the    *)
(* way and whatever was recorded by whom; unless two processes were        *)
(* opening it at once when 013 was still to be recorded: a bootstrap that  *)
(* looks beside a running 003 records it as done.                          *)
OpenMeansCurrent ==
  ~ early => \A p \in Processes : proc[p].stage = "open" => schema = Newest

(* No fact or lesson is lost: what was in the store, or was written by a   *)
(* process that had it open, is in the table or in the copy that a dead    *)
(* upgrade left behind.  The exception is the same: a process that has yet *)
(* to run 003 or 013 replaces tables that another one writes to.           *)
Lessons == rows["lessons"] \cup rows["lessons_new"] \cup rows["lessons_v2"]

RowsSurvive ==
  ~ early =>
    /\ born >= 3 => "old" \in rows["facts"]
    /\ born >= 10 => "old" \in Lessons
    /\ rows["facts"] \ {"old"} = Lessons \ {"old"}

(* Opening is refused only to a process that another one died on or raced  *)
(* with, or on a file of version 1 or 2 that had conversations: every      *)
(* other upgrade goes through.                                             *)
HadConversations == born \in {1, 2} /\ "old" \in talks

RefusedOnlyIfDisturbed ==
  \A p \in Processes :
    proc[p].stage = "failed" => deaths > 0 \/ crowded \/ HadConversations

(* What precreate_sqlite_file says of a race with another process for a    *)
(* new file: that is fine, so both are handed the store.  It does not hold:*)
(* what the one has created or recorded makes the other's script fail.     *)
RaceIsFine ==
  born = 0 /\ deaths = 0 => \A p \in Processes : proc[p].stage # "failed"
=============================================================================
