----------------------------- MODULE MemoryTables -----------------------------
(***************************************************************************)
(* The tables of kernex-memory that are derived, capped or hidden rather   *)
(* than plainly kept: messages with their full-text index, observations    *)
(* and facts with soft deletion, outcomes, and lessons with their cap      *)
(* (store/messages.rs, observations.rs, facts.rs, outcomes.rs and the      *)
(* triggers of migrations 004 and 018).                                    *)
(*                                                                         *)
(* One sender, one channel, one project and one learning domain; times are *)
(* ticks of one clock that every datetime('now') reads.                    *)
(***************************************************************************)
EXTENDS Naturals, FiniteSets, FiniteSetsExt

CONSTANTS
  Convs,       \* conversation ids
  Notes,       \* observation ids
  Keys,        \* keys of facts
  Rules,       \* texts of lessons
  Writers,     \* callers of store_lesson
  Cap,         \* the 10 of store_lesson
  MaxNow,      \* bound: ticks
  MaxWrites,   \* bound: rows that callers write
  MaxTurns,    \* bound: the same, for turns
  Areas        \* bound: sets of areas that callers write to in one behaviour

ASSUME TableConstantsOK ==
  /\ Cap \in Nat \ {0}
  /\ MaxNow \in Nat /\ {MaxWrites, MaxTurns} \subseteq Nat

VARIABLES
  now,       \* datetime('now')
  convs,     \* conversations: status, started_at, updated_at
  turn,      \* per conversation: whether a turn that touched it is in flight
  msgs,      \* messages: [conv, role, at, late]; late (history): the conversation was closed by then
  recall,    \* rowids in messages_fts
  notes,     \* observations: "absent", "active" or "deleted"
  noteIndex, \* rowids in observations_fts
  facts,     \* facts: "absent", "active" or "deleted"
  outcomes,  \* outcomes: [n, at], n in the order of their INSERTs
  lessons,   \* lessons: [n, id, rule, occurrences, at], n is the rowid
  writer,    \* where each store_lesson stands: its rule, the id it found, its own
  newest,    \* history: the lesson inserted last, unless one was reinforced since
  writes,    \* history: rows written, for the bound
  area       \* the areas of this behaviour

rowVars    == <<convs, turn, msgs, recall>>
noteVars   == <<notes, noteIndex, facts>>
learnVars  == <<outcomes, lessons, writer, newest>>
tableVars  == <<now, rowVars, noteVars, learnVars, writes, area>>

NoRow    == 0   \* ids start at 1
RowState == {"absent", "active", "deleted"}
Lesson   == [n : Nat \ {0}, id : Nat \ {0}, rule : Rules, occurrences : Nat \ {0}, at : Nat]

NoConv == [status |-> "absent", started |-> 0, updated |-> 0]

Ready == [stage |-> "idle", rule |-> CHOOSE r \in Rules : TRUE, row |-> NoRow, id |-> NoRow]

TablesInit ==
  /\ now = 0
  /\ convs = [c \in Convs |-> NoConv]
  /\ turn = [c \in Convs |-> FALSE]
  /\ msgs = {} /\ recall = {}
  /\ notes = [o \in Notes |-> "absent"] /\ noteIndex = {}
  /\ facts = [k \in Keys |-> "absent"]
  /\ outcomes = {}
  /\ lessons = {}
  /\ writer = [w \in Writers |-> Ready]
  /\ newest = NoRow
  /\ writes = 0
  /\ area \in Areas

Write(most) == writes < most /\ writes' = writes + 1 /\ area' = area

-----------------------------------------------------------------------------
(* Conversations and messages.  A turn touches its conversation, and       *)
(* writes its messages later, whatever has become of the conversation.     *)

Touch(c) ==
  /\ convs[c].status \in {"absent", "active"}
  /\ ~ turn[c]
  /\ convs' = [convs EXCEPT ![c] =
       [status |-> "active", updated |-> now,
        started |-> IF @.status = "absent" THEN now ELSE @.started]]
  /\ turn' = [turn EXCEPT ![c] = TRUE]
  /\ Write(MaxTurns)
  /\ UNCHANGED <<now, msgs, recall, noteVars, learnVars>>

(* Both INSERTs; the trigger indexes the question only.                    *)
Message(c, r) ==
  [conv |-> c, role |-> r, at |-> now, late |-> convs[c].status = "closed"]

StoreExchange(c) ==
  /\ turn[c]
  /\ msgs' = msgs \cup {Message(c, r) : r \in {"user", "assistant"}}
  /\ recall' = recall \cup {Message(c, "user")}
  /\ turn' = [turn EXCEPT ![c] = FALSE]
  /\ UNCHANGED <<now, convs, noteVars, learnVars, writes, area>>

CloseConv(c) ==
  /\ convs[c].status = "active"
  /\ convs' = [convs EXCEPT ![c].status = "closed", ![c].updated = now]
  /\ UNCHANGED <<now, turn, msgs, recall, noteVars, learnVars, writes, area>>

(* What a DELETE of messages takes along through messages_fts_delete.      *)
Delete(S) == msgs' = msgs \ S /\ recall' = recall \ {m \in S : m.role = "user"}

-----------------------------------------------------------------------------
(* Observations and facts.                                                 *)

SaveNote(o) ==
  /\ notes[o] = "absent"
  /\ notes' = [notes EXCEPT ![o] = "active"]
  /\ noteIndex' = noteIndex \cup {o}
  /\ Write(MaxWrites)
  /\ UNCHANGED <<now, rowVars, facts, learnVars>>

(* observations_au deletes the old entry and inserts one for an active row.*)
SoftDeleteNoteKeeps(o) == \* mutant: the trigger's second INSERT has no condition
  /\ notes[o] = "active"
  /\ notes' = [notes EXCEPT ![o] = "deleted"]
  /\ noteIndex' = (noteIndex \ {o}) \cup {o}
  /\ UNCHANGED <<now, rowVars, facts, learnVars, writes, area>>

SoftDeleteNote(o) ==
  /\ notes[o] = "active"
  /\ notes' = [notes EXCEPT ![o] = "deleted"]
  /\ noteIndex' = noteIndex \ {o}
  /\ UNCHANGED <<now, rowVars, facts, learnVars, writes, area>>

(* The upsert of store_fact, in which ON CONFLICT clears deleted_at.       *)
StoreFact(k) ==
  /\ facts' = [facts EXCEPT ![k] = "active"]
  /\ Write(MaxWrites)
  /\ UNCHANGED <<now, rowVars, notes, noteIndex, learnVars>>

(* soft_delete_fact, or soft_delete_facts of one key or of every key.      *)
SoftDeleteFacts(S) ==
  /\ \E k \in S : facts[k] = "active"
  /\ facts' = [k \in Keys |-> IF k \in S /\ facts[k] = "active" THEN "deleted" ELSE facts[k]]
  /\ UNCHANGED <<now, rowVars, notes, noteIndex, learnVars, writes, area>>

(* delete_fact and delete_facts: the rows go, hidden ones too.             *)
DeleteFacts(S) ==
  /\ \E k \in S : facts[k] # "absent"
  /\ facts' = [k \in Keys |-> IF k \in S THEN "absent" ELSE facts[k]]
  /\ UNCHANGED <<now, rowVars, notes, noteIndex, learnVars, writes, area>>

(* What the reads of one store show: get_fact, get_facts (and the reads by *)
(* key and over all users, which have the same WHERE clause), the counts   *)
(* of get_memory_stats, list_soft_deleted_facts; and for observations      *)
(* get_observation_by_id, search_observations, the count, the hidden list. *)
FactsShown   == {k \in Keys : facts[k] = "active"}
FactsHidden  == {k \in Keys : facts[k] = "deleted"}
NotesShown   == {o \in Notes : notes[o] = "active"}
NotesFound   == {o \in noteIndex : notes[o] = "active"}
NotesHidden  == {o \in Notes : notes[o] = "deleted"}

(* search_messages, asked from conversation c: the hits of the index       *)
(* joined to their messages and these to their conversations.              *)
Existing == {c \in Convs : convs[c].status # "absent"}
SearchMessages(c, since) ==
  {m \in recall : m \in msgs /\ m.conv \in Existing \ {c} /\ m.at >= since}

GetMemoryStats ==
  [conversations |-> Cardinality(Existing),
   messages      |-> Cardinality({m \in msgs : m.conv \in Existing}),
   observations  |-> Cardinality(NotesShown),
   facts         |-> Cardinality(FactsShown)]

-----------------------------------------------------------------------------
(* Outcomes and lessons.                                                   *)

NextRow(S) == IF S = {} THEN 1 ELSE 1 + Max({x.n : x \in S})

StoreOutcome ==
  /\ outcomes' = outcomes \cup {[n |-> NextRow(outcomes), at |-> now]}
  /\ Write(MaxWrites)
  /\ UNCHANGED <<now, rowVars, noteVars, lessons, writer, newest>>

(* store_lesson: a SELECT by the rule, then an UPDATE of the row it found, *)
(* or an INSERT and a DELETE of what is beyond the cap.                    *)
FindLesson(w, r) ==
  /\ writer[w].stage = "idle"
  /\ LET found == {l \in lessons : l.rule = r} IN
       \E row \in IF found = {} THEN {NoRow} ELSE {l.id : l \in found} :
         writer' = [writer EXCEPT ![w] = [stage |-> "found", rule |-> r, row |-> row, id |-> writes + 1]]
  /\ Write(MaxWrites)
  /\ UNCHANGED <<now, rowVars, noteVars, outcomes, lessons, newest>>

Done(w) == writer' = [writer EXCEPT ![w] = Ready]

Reinforce(w) ==
  /\ writer[w].stage = "found" /\ writer[w].row # NoRow
  /\ LET hit == {l \in lessons : l.id = writer[w].row}
     IN lessons' = (lessons \ hit) \cup {[l EXCEPT !.occurrences = @ + 1, !.at = now] : l \in hit}
  /\ newest' = NoRow
  /\ Done(w)
  /\ UNCHANGED <<now, rowVars, noteVars, outcomes, writes, area>>

InsertLesson(w) ==
  /\ writer[w].stage = "found" /\ writer[w].row = NoRow
  /\ lessons' = lessons \cup
       {[n |-> NextRow(lessons), id |-> writer[w].id, rule |-> writer[w].rule,
         occurrences |-> 1, at |-> now]}
  /\ newest' = writer[w].id
  /\ writer' = [writer EXCEPT ![w].stage = "inserted"]
  /\ UNCHANGED <<now, rowVars, noteVars, outcomes, writes, area>>

(* ORDER BY updated_at DESC, rowid DESC LIMIT -1 OFFSET cap.               *)
Above(l) == {k \in lessons : k.at > l.at \/ (k.at = l.at /\ k.n > l.n)}
BeyondCapByRow == \* mutant: ties go the other way round
  {l \in lessons : Cardinality({k \in lessons : k.at > l.at \/ (k.at = l.at /\ k.n < l.n)}) >= Cap}
BeyondCap == {l \in lessons : Cardinality(Above(l)) >= Cap}

KeepToCap(w) ==
  /\ writer[w].stage = "inserted"
  /\ lessons' = lessons \ BeyondCap
  /\ Done(w)
  /\ UNCHANGED <<now, rowVars, noteVars, outcomes, newest, writes, area>>

(* The caller is dropped between two statements, or a statement fails.     *)
LessonEnds(w) ==
  /\ writer[w].stage # "idle"
  /\ Done(w)
  /\ UNCHANGED <<now, rowVars, noteVars, outcomes, lessons, newest, writes, area>>

-----------------------------------------------------------------------------
Tick ==
  /\ now < MaxNow
  /\ now' = now + 1
  /\ UNCHANGED <<rowVars, noteVars, learnVars, writes, area>>

TablesNext ==
  \/ Tick
  \/ "turns" \in area /\ \E c \in Convs : Touch(c) \/ StoreExchange(c) \/ CloseConv(c)
  \/ "outcomes" \in area /\ StoreOutcome
  \/ "notes" \in area /\ \E o \in Notes : SaveNote(o) \/ SoftDeleteNote(o)
  \/ "notes" \in area /\ \E k \in Keys : StoreFact(k)
  \/ "notes" \in area /\ \E S \in {{k} : k \in Keys} \cup {Keys} : SoftDeleteFacts(S) \/ DeleteFacts(S)
  \/ "lessons" \in area /\ \E w \in Writers :
       \/ \E r \in Rules : FindLesson(w, r)
       \/ Reinforce(w) \/ InsertLesson(w) \/ KeepToCap(w) \/ LessonEnds(w)
=============================================================================
