----------------------------- MODULE Consolidator -----------------------------
(***************************************************************************)
(* The consolidator of kernex-memory (consolidator.rs) at work on the      *)
(* tables of MemoryTables: maybe_run with its lock, time and session       *)
(* gates, prune, and the background loop with its cancellation.            *)
(*                                                                         *)
(* Callers share one Consolidator (clones of one Arc<Mutex>).  One of them *)
(* may be the loop of spawn_cancellable; the others call maybe_run or      *)
(* prune.  Each SQL statement is a step; any of them may fail or be the    *)
(* last one of an aborted call, which releases the lock and stamps         *)
(* nothing.                                                                *)
(***************************************************************************)
EXTENDS MemoryTables

CONSTANTS
  Callers,      \* tasks that use the consolidator
  Loop,         \* the one that runs spawn_cancellable
  MinHours,     \* min_hours, in ticks
  MinSessions,  \* min_sessions
  MaxAge,       \* max_message_age_days, in ticks
  MaxOutcomes   \* max_outcomes_per_sender

Free == "free"

ASSUME ConsolidatorConstantsOK ==
  /\ Free \notin Callers
  /\ MinHours \in Nat /\ MinSessions \in Nat
  /\ MaxAge \in Nat /\ MaxOutcomes \in Nat

VARIABLES
  lock,      \* who holds the in-process lock
  last,      \* the fact last_consolidated_at: {} or {its value}
  call,      \* per caller: the statement it is at, the last_ts it read
  cancel,    \* the watch channel of the loop
  gap,       \* history: {} or {the shortest time between two stamps}
  lost       \* history: the messages ever pruned: [late, age]

upkeepVars == <<lock, last, call, cancel, gap, lost>>
vars == <<tableVars, upkeepVars>>

Stages == {"waiting", "read", "count", "messages", "outcomes", "stamp", "exited"}

Idle(stage) == [stage |-> stage, last |-> {}, gated |-> FALSE]

ConsolidatorInit ==
  /\ lock = Free
  /\ last = {}
  /\ call = [c \in Callers |-> Idle("waiting")]
  /\ cancel = FALSE
  /\ gap = {}
  /\ lost = {}

Goto(c, stage) == call' = [call EXCEPT ![c].stage = stage]

(* A call ends: its guard, if it has one, is dropped.                      *)
Return(c) ==
  /\ call' = [call EXCEPT ![c] = Idle("waiting")]
  /\ lock' = IF call[c].gated THEN Free ELSE lock

-----------------------------------------------------------------------------
(* try_lock: a caller that finds it taken returns at once.  The loop calls *)
(* when its ticker fires, which it may do with a signal pending: select!   *)
(* picks either branch.                                                    *)
MaybeRun(c) ==
  /\ "turns" \in area
  /\ call[c].stage = "waiting"
  /\ lock = Free
  /\ lock' = c
  /\ call' = [call EXCEPT ![c] = [Idle("read") EXCEPT !.gated = TRUE]]
  /\ UNCHANGED <<tableVars, last, cancel, gap, lost>>

(* prune, called by itself: no lock and no gates.                          *)
PruneNow(c) ==
  /\ area \cap {"turns", "outcomes"} # {} /\ c # Loop
  /\ call[c].stage = "waiting"
  /\ Goto(c, "messages")
  /\ UNCHANGED <<tableVars, lock, last, cancel, gap, lost>>

(* last_consolidated_at and the time gate.                                 *)
TimeGateOpensEarly(ts) == \A t \in ts : now - t + 1 >= MinHours \* mutant: an hour short
TimeGate(ts) == \A t \in ts : now - t >= MinHours

ReadLast(c) ==
  /\ call[c].stage = "read"
  /\ IF TimeGate(last)
     THEN /\ call' = [call EXCEPT ![c].stage = "count", ![c].last = last]
          /\ UNCHANGED lock
     ELSE Return(c)
  /\ UNCHANGED <<tableVars, last, cancel, gap, lost>>

(* count_new_sessions and the session gate.                                *)
NewSessions(ts) ==
  {v \in Convs : convs[v].status # "absent" /\ \A t \in ts : convs[v].started > t}

CountSessions(c) ==
  /\ call[c].stage = "count"
  /\ IF Cardinality(NewSessions(call[c].last)) >= MinSessions
     THEN Goto(c, "messages") /\ UNCHANGED lock
     ELSE Return(c)
  /\ UNCHANGED <<tableVars, last, cancel, gap, lost>>

(* One DELETE for the messages of conversations closed long enough ago.    *)
StaleConvsOfAnyStatus == {v \in Convs : convs[v].status # "absent" /\ now - convs[v].started > MaxAge} \* mutant: started_at in place of updated_at
StaleConvs == {v \in Convs : convs[v].status = "closed" /\ now - convs[v].updated > MaxAge}

PruneMessages(c) ==
  /\ call[c].stage = "messages"
  /\ LET old == {m \in msgs : m.conv \in StaleConvs} IN
       /\ Delete(old)
       /\ lost' = lost \cup {[late |-> m.late, age |-> now - m.at] : m \in old}
  /\ Goto(c, "outcomes")
  /\ UNCHANGED <<now, convs, turn, noteVars, learnVars, writes, area, lock, last, cancel, gap>>

(* ORDER BY timestamp DESC LIMIT -1 OFFSET max: among rows of one second   *)
(* any may be the ones beyond the offset.                                  *)
Kept(S) == /\ Cardinality(S) = Min({MaxOutcomes, Cardinality(outcomes)})
           /\ \A x \in S, y \in outcomes \ S : x.at >= y.at

PruneOutcomes(c) ==
  /\ call[c].stage = "outcomes"
  /\ \E S \in SUBSET outcomes : Kept(S) /\ outcomes' = S
  /\ IF call[c].gated THEN Goto(c, "stamp") /\ UNCHANGED lock ELSE Return(c)
  /\ UNCHANGED <<now, rowVars, noteVars, lessons, writer, newest, writes, area,
                 last, cancel, gap, lost>>

(* store_fact of the time read then.                                       *)
Stamp(c) ==
  /\ call[c].stage = "stamp"
  /\ last' = {now}
  /\ gap' = IF last = {} THEN {} ELSE {Min(gap \cup {now - t : t \in last})}
  /\ Return(c)
  /\ UNCHANGED <<tableVars, cancel, lost>>

(* A statement fails, or the task is aborted: `?` and the dropped guard.   *)
Fails(c) ==
  /\ call[c].stage \in {"read", "count", "messages", "outcomes", "stamp"}
  /\ Return(c)
  /\ UNCHANGED <<tableVars, last, cancel, gap, lost>>

-----------------------------------------------------------------------------
(* The signal, or a dropped sender; the loop sees it between two runs.     *)
Signal ==
  /\ ~ cancel
  /\ cancel' = TRUE
  /\ UNCHANGED <<tableVars, lock, last, call, gap, lost>>

ExitLoopAfterReport(c) == \* mutant: the signal is looked at only after a finished run
  /\ c = Loop /\ cancel /\ last # {}
  /\ call[c].stage = "waiting"
  /\ Goto(c, "exited")
  /\ UNCHANGED <<tableVars, lock, last, cancel, gap, lost>>

ExitLoop(c) ==
  /\ c = Loop /\ cancel
  /\ call[c].stage = "waiting"
  /\ Goto(c, "exited")
  /\ UNCHANGED <<tableVars, lock, last, cancel, gap, lost>>

Run(c) ==
  \/ ReadLast(c) \/ CountSessions(c) \/ PruneMessages(c) \/ PruneOutcomes(c) \/ Stamp(c)

Store ==
  /\ TablesNext
  /\ UNCHANGED <<lock, last, call, cancel, gap, lost>>

Init == TablesInit /\ ConsolidatorInit

Next ==
  \/ Store \/ Signal
  \/ \E c \in Callers :
       MaybeRun(c) \/ PruneNow(c) \/ Run(c) \/ Fails(c) \/ ExitLoop(c)

Spec == Init /\ [][Next]_vars

-----------------------------------------------------------------------------
(* The variables stay in their types.                                      *)
TypeOK ==
  /\ now \in 0..MaxNow /\ writes \in Nat
  /\ convs \in [Convs -> [status : {"absent", "active", "closed"}, started : Nat, updated : Nat]]
  /\ recall \subseteq msgs
  /\ notes \in [Notes -> RowState] /\ noteIndex \subseteq Notes /\ facts \in [Keys -> RowState]
  /\ lessons \subseteq Lesson
  /\ lock \in Callers \cup {Free}
  /\ \A c \in Callers : call[c].stage \in Stages /\ call[c].last \subseteq Nat

(* One run of maybe_run at a time, and not two within min_hours: the lock  *)
(* is held from before last_consolidated_at is read until after it is      *)
(* written, through every early return, error and abort.                   *)
RunsSpaced ==
  /\ \A c \in Callers : call[c].gated <=> lock = c
  /\ \A g \in gap : g >= MinHours

(* Pruning goes by the age of the conversation, and yet takes no message   *)
(* that is not itself older than max_message_age_days, however long a turn *)
(* lasts between its touch and its INSERTs.  The one exception is made     *)
(* explicit: what a turn stored into a conversation that somebody had      *)
(* closed meanwhile goes with the old messages, whatever its own age.      *)
RecentMessagesKept == \A m \in lost : m.age > MaxAge \/ m.late

(* The derived and the hidden rows agree with the tables they come from:   *)
(* the full-text indexes hold the questions that are still there and the   *)
(* observations that are not deleted, no read shows a hidden row, a search *)
(* from one conversation finds the recent questions of all others, and the *)
(* statistics count what the reads show.                                   *)
ReadsAgree ==
  /\ recall = {m \in msgs : m.role = "user"}
  /\ noteIndex = NotesShown /\ NotesFound = NotesShown
  /\ NotesShown \cap NotesHidden = {} /\ FactsShown \cap FactsHidden = {}
  /\ \A c \in Convs, since \in 0..now :
       SearchMessages(c, since) = {m \in msgs : m.role = "user" /\ m.conv # c /\ m.at >= since}
  /\ GetMemoryStats.messages = Cardinality(msgs)
  /\ GetMemoryStats.observations = Cardinality(NotesFound)

(* A lesson that is being inserted is among those its own cap keeps,       *)
(* unless another caller has written one since.                            *)
OwnLessonKept ==
  [][\A w \in Writers :
       KeepToCap(w) /\ newest = writer[w].id => \E l \in lessons' : l.id = writer[w].id]_vars

(* A signalled loop exits, however often its ticker has fired.             *)
SignalledLoopExits == cancel ~> call[Loop].stage = "exited"
=============================================================================
