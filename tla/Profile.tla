-------------------------------- MODULE Profile --------------------------------
(***************************************************************************)
(* What kernex-memory knows of a sender, and what build_context writes     *)
(* there while it reads: the preferred language and the stage of           *)
(* onboarding (store/context.rs, context_helpers.rs, facts.rs).            *)
(*                                                                         *)
(* One sender.  Of the facts only their number counts, and the two keys    *)
(* with a meaning of their own; a fact that is not visible, deleted or     *)
(* never stored, is the same to every read here (MemoryTables tells them   *)
(* apart).  Calls of build_context for the sender run side by side, a      *)
(* statement a step, next to the host that stores and deletes facts.       *)
(***************************************************************************)
EXTENDS Naturals, FiniteSets

CONSTANTS
  Builds,     \* calls of build_context in flight at once
  Languages,  \* what detect_language or a person may choose
  NoLanguage, \* no visible preferred_language
  Starts,     \* how far the sender has come: [facts, stage]
  MaxFacts,   \* bound: facts of the sender
  MaxBegun,   \* bound: calls of build_context
  MaxCalls    \* bound: calls of the host that write

(* Nobody has come further than their facts allow.                         *)
ASSUME ProfileConstantsOK ==
  /\ NoLanguage \notin Languages
  /\ Starts \subseteq [facts : 0..MaxFacts, stage : 0..5]
  /\ \A s \in Starts :
       s.facts >= CASE s.stage = 0 -> 0 [] s.stage = 1 -> 1 [] s.stage \in {2, 3} -> 3 [] OTHER -> 5
  /\ {MaxFacts, MaxBegun, MaxCalls} \subseteq Nat

VARIABLES
  real,      \* visible facts whose key is not in SYSTEM_FACT_KEYS
  language,  \* preferred_language
  onboard,   \* onboarding_stage; no row reads as 0
  pending,   \* the sender has a pending task
  build,     \* per call: what it has read, and where it is
  begun,     \* history: calls of build_context so far
  calls,     \* history: calls of the host so far
  given,     \* history: the stages whose hint was in a prompt
  again,     \* history: those it was in twice
  muddled,   \* history: calls overlapped, or lost a read or a write
  most,      \* history: the most facts there were
  tasked     \* history: there was a pending task

rowsOfSender == <<real, language, onboard, pending>>
hints        == <<given, again>>
profileVars  == <<rowsOfSender, build, begun, calls, hints, muddled, most, tasked>>

NoHint  == 6
NoBuild == [at |-> "idle", due |-> {}, real |-> 0, language |-> NoLanguage,
            onboard |-> 0, pending |-> FALSE, hint |-> NoHint]

(* A sender who has come as far as s, and whose tasks are done with.       *)
ProfileInit ==
  /\ \E s \in Starts :
       /\ real = s.facts /\ most = s.facts
       /\ onboard = s.stage /\ tasked = (s.stage >= 3)
       /\ given = 1..s.stage
  /\ language = NoLanguage
  /\ pending = FALSE
  /\ build = [w \in Builds |-> NoBuild]
  /\ begun = 0 /\ calls = 0
  /\ again = {}
  /\ muddled = FALSE

At(w, at)  == build[w].at = at
Put(w, b)  == build' = [build EXCEPT ![w] = b]

-----------------------------------------------------------------------------
(* The host: facts are stored and deleted, tasks come and go.              *)

Call == calls < MaxCalls /\ calls' = calls + 1

Learn ==
  /\ Call
  /\ real < MaxFacts
  /\ real' = real + 1
  /\ most' = IF most < real' THEN real' ELSE most
  /\ UNCHANGED <<language, onboard, pending, build, begun, hints, muddled, tasked>>

SwitchLanguage ==
  /\ Call
  /\ language' \in Languages
  /\ UNCHANGED <<real, onboard, pending, build, begun, hints, muddled, most, tasked>>

(* One key, or with no key given everything the sender has.                *)
Forget ==
  /\ Call
  /\ \/ /\ real > 0 /\ real' = real - 1
        /\ UNCHANGED <<language, onboard, muddled>>
     \/ /\ language' = NoLanguage
        /\ UNCHANGED <<real, onboard, muddled>>
     \/ /\ real' = 0 /\ language' = NoLanguage /\ onboard' = 0
        /\ muddled' = TRUE
  /\ UNCHANGED <<pending, build, begun, hints, most, tasked>>

(* A task is created, or the last pending one is delivered or cancelled.   *)
ChangeTasks ==
  /\ Call
  /\ pending' = ~ pending
  /\ tasked' = TRUE
  /\ UNCHANGED <<real, language, onboard, build, begun, hints, muddled, most>>

-----------------------------------------------------------------------------
(* build_context reads facts and tasks at once, each in its own statement; *)
(* a failed read counts as no rows.                                        *)

StartBuild(w) ==
  /\ At(w, "idle")
  /\ begun < MaxBegun /\ begun' = begun + 1
  /\ Put(w, [NoBuild EXCEPT !.at = "reading", !.due = {"facts", "tasks"}])
  /\ muddled' = (muddled \/ \E v \in Builds : ~ At(v, "idle"))
  /\ UNCHANGED <<rowsOfSender, calls, hints, most, tasked>>

(* join! is over when nothing is due any more.                             *)
Joined(due) == IF due = {} THEN "language" ELSE "reading"

ReadFacts(w) ==
  /\ At(w, "reading") /\ "facts" \in build[w].due
  /\ LET due == build[w].due \ {"facts"} IN
     \/ /\ Put(w, [build[w] EXCEPT !.due = due, !.at = Joined(due), !.real = real,
                     !.language = language, !.onboard = onboard])
        /\ UNCHANGED muddled
     \/ /\ Put(w, [build[w] EXCEPT !.due = due, !.at = Joined(due)])
        /\ muddled' = TRUE
  /\ UNCHANGED <<rowsOfSender, begun, calls, hints, most, tasked>>

(* Tasks that the request does not need are not read.                      *)
ReadTasks(w) ==
  /\ At(w, "reading") /\ "tasks" \in build[w].due
  /\ LET due == build[w].due \ {"tasks"} IN
     \E found \in {pending, FALSE} :
       Put(w, [build[w] EXCEPT !.due = due, !.at = Joined(due), !.pending = found])
  /\ UNCHANGED <<rowsOfSender, begun, calls, hints, muddled, most, tasked>>

(* detect_language makes some language of any text, if only the default.   *)
Detected == Languages

(* The stored preference, else the detected language, which is stored;     *)
(* whether that works is not looked at.                                    *)
StoreLanguage(w) ==
  /\ At(w, "language")
  /\ IF build[w].language # NoLanguage
     THEN UNCHANGED language
     ELSE language' \in Detected \cup {language}
  /\ Put(w, [build[w] EXCEPT !.at = "stage"])
  /\ UNCHANGED <<real, onboard, pending, begun, calls, hints, muddled, most, tasked>>

(* compute_onboarding_stage: at most one stage further.                    *)
Reached(s, facts, tasks) ==
  \/ s = 0 /\ facts >= 1
  \/ s = 1 /\ facts >= 3
  \/ s = 2 /\ tasks
  \/ s = 3 /\ facts >= 5
  \/ s = 4

NextStage(s, facts, tasks) == IF Reached(s, facts, tasks) THEN s + 1 ELSE s

(* The hint of a transition, or the introduction while nothing is known.   *)
(* What stands in the third branch of the code is never reached: without   *)
(* a transition from stage 0 there are no facts, and the second is taken.  *)
HintOfAlways(old, new, facts) == new \* mutant: a hint without a transition
HintOf(old, new, facts) ==
  IF new # old \/ (old = 0 /\ facts = 0) THEN new ELSE NoHint

(* The new stage is stored; whether that works is not looked at, either.   *)
StoreStage(w) ==
  /\ At(w, "stage")
  /\ LET b == build[w]
         new == NextStage(b.onboard, b.real, b.pending)
     IN /\ Put(w, [b EXCEPT !.at = "prompt", !.hint = HintOf(b.onboard, new, b.real)])
        /\ \/ /\ onboard' = IF new # b.onboard THEN new ELSE onboard
              /\ UNCHANGED muddled
           \/ /\ new # b.onboard
              /\ UNCHANGED onboard
              /\ muddled' = TRUE
  /\ UNCHANGED <<real, language, pending, begun, calls, hints, most, tasked>>

(* onboarding_hint_text has no words for the last stage.                   *)
Worded == 0..4

(* build_system_prompt, of which only the hint matters here.               *)
Prompt(w) ==
  /\ At(w, "prompt")
  /\ LET said == {build[w].hint} \cap Worded IN
       given' = given \cup said /\ again' = again \cup (said \cap given)
  /\ Put(w, NoBuild)
  /\ UNCHANGED <<rowsOfSender, begun, calls, muddled, most, tasked>>

(* The caller is dropped, or the history could not be read.                *)
DropBuild(w) ==
  /\ ~ At(w, "idle")
  /\ Put(w, NoBuild)
  /\ UNCHANGED <<rowsOfSender, begun, calls, hints, muddled, most, tasked>>

ProfileNext ==
  \/ Learn \/ SwitchLanguage \/ Forget \/ ChangeTasks
  \/ \E w \in Builds :
       \/ StartBuild(w) \/ ReadFacts(w) \/ ReadTasks(w)
       \/ StoreLanguage(w) \/ StoreStage(w) \/ Prompt(w) \/ DropBuild(w)

-----------------------------------------------------------------------------
(* The variables stay in their types.                                      *)
ProfileTypeOK ==
  /\ {real, most} \subseteq 0..MaxFacts /\ {onboard} \cup given \subseteq 0..5
  /\ language \in Languages \cup {NoLanguage}
  /\ {pending, muddled, tasked} \subseteq BOOLEAN
  /\ \A w \in Builds : build[w].at \in {"idle", "reading", "language", "stage", "prompt"}

(* "Stages are sequential - can't skip. Each fires exactly once then       *)
(* advances."  A stage, and its hint, is only reached by a sender who at   *)
(* some time had what each stage up to it asks for, however calls of       *)
(* build_context interleave and whatever fails or is forgotten; and as     *)
(* long as they do not overlap and lose no read or write, no hint but the  *)
(* introduction is given twice, nor before its stage is stored.            *)
Deserves(s) ==
  /\ s >= 1 => most >= 1
  /\ s >= 2 => most >= 3
  /\ s >= 3 => tasked
  /\ s >= 4 => most >= 5

HintsRunInTurn ==
  /\ \A s \in {onboard} \cup given : Deserves(s)
  /\ ~ muddled => again \subseteq {0} /\ \A s \in given : s <= onboard
=============================================================================
