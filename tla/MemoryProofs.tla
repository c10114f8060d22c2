----------------------------- MODULE MemoryProofs -----------------------------
(***************************************************************************)
(* Proofs about Memory, for every number of callers, calls, rows and every *)
(* value of the gates and bounds: first the profile, then the rows and     *)
(* their indexes, the runs of the consolidator, the lessons, the tasks.    *)
(***************************************************************************)
EXTENDS Memory, FiniteSetTheorems, WellFoundedInduction, TLAPS

-----------------------------------------------------------------------------
(* The profile.  What a call of build_context has read was once so, and    *)
(* what a sender once had is never taken back (most, tasked); so a stage   *)
(* that is written late is still one the sender deserves.                  *)

Steps == {"idle", "reading", "language", "stage", "prompt"}

BuildState ==
  [at : Steps, due : SUBSET {"facts", "tasks"}, real : Nat, language : Languages \cup {NoLanguage},
   onboard : 0..5, pending : BOOLEAN, hint : 0..6]

ProfileTypes ==
  /\ real \in Nat /\ most \in Nat /\ onboard \in 0..5
  /\ given \subseteq 0..5 /\ again \subseteq 0..5
  /\ language \in Languages \cup {NoLanguage}
  /\ pending \in BOOLEAN
  /\ build \in [Builds -> BuildState]

ReadWasSo(b) ==
  /\ b.real <= most
  /\ b.pending => tasked
  /\ Deserves(b.onboard)
  /\ b.hint # NoHint => Deserves(b.hint)

ProfileInv ==
  /\ ProfileTypes
  /\ real <= most /\ (pending => tasked)
  /\ \A s \in {onboard} \cup given : Deserves(s)
  /\ \A w \in Builds : ReadWasSo(build[w])

(* As long as nothing is muddled one call runs at a time, what it has read *)
(* of the stage still holds until it writes, and a hint it is about to     *)
(* give is of the stage just stored.                                       *)
HasReadFacts(b) == b.at \in {"language", "stage"} \/ (b.at = "reading" /\ "facts" \notin b.due)

OneCall ==
  /\ again \subseteq {0}
  /\ \A s \in given : s <= onboard
  /\ \A v, w \in Builds : ~ At(v, "idle") /\ ~ At(w, "idle") => v = w
  /\ \A w \in Builds :
       /\ HasReadFacts(build[w]) => build[w].onboard = onboard
       /\ At(w, "prompt") /\ build[w].hint \notin {0, NoHint} =>
            build[w].hint = onboard /\ onboard \notin given

TurnsInv == ProfileInv /\ (~ muddled => OneCall)

LEMMA ProfileStarts == ProfileInit => TurnsInv
<1> SUFFICES ASSUME ProfileInit PROVE TurnsInv
  OBVIOUS
<1>1. PICK s \in Starts : /\ real = s.facts /\ most = s.facts
                          /\ onboard = s.stage /\ tasked = (s.stage >= 3)
                          /\ given = 1..s.stage
  BY DEF ProfileInit
<1>2. /\ s.facts \in Nat /\ s.stage \in 0..5
      /\ s.stage >= 1 => s.facts >= 1
      /\ s.stage >= 2 => s.facts >= 3
      /\ s.stage >= 4 => s.facts >= 5
  BY ProfileConstantsOK
<1>3. NoBuild \in BuildState /\ NoBuild.at = "idle" /\ ReadWasSo(NoBuild)
  BY <1>1, <1>2 DEF NoBuild, BuildState, Steps, ReadWasSo, Deserves, NoHint
<1>4. build = [w \in Builds |-> NoBuild] /\ ~ pending /\ again = {} /\ ~ muddled
  BY DEF ProfileInit
<1>5. ProfileTypes
  <2>1. real \in Nat /\ most \in Nat /\ onboard \in 0..5 /\ given \subseteq 0..5
    BY <1>1, <1>2
  <2>2. language \in Languages \cup {NoLanguage} /\ pending \in BOOLEAN /\ again \subseteq 0..5
    BY <1>4 DEF ProfileInit
  <2>3. build \in [Builds -> BuildState]
    BY <1>3, <1>4
  <2> QED
    BY <2>1, <2>2, <2>3 DEF ProfileTypes
<1>6. ProfileInv
  <2>1. \A n \in {onboard} \cup given : n <= s.stage /\ n \in Nat
    BY <1>1, <1>2
  <2>2. s.stage >= 3 => tasked
    BY <1>1, Zenon
  <2>3. most = s.facts
    BY <1>1
  <2>4. \A n \in {onboard} \cup given : Deserves(n)
    BY <2>1, <2>2, <2>3, <1>2 DEF Deserves
  <2>5. real <= most
    BY <1>1, <1>2
  <2> QED
    BY <1>3, <1>4, <1>5, <2>4, <2>5 DEF ProfileInv
<1>7. OneCall
  BY <1>1, <1>2, <1>3, <1>4 DEF OneCall, HasReadFacts, At
<1> QED
  BY <1>6, <1>7 DEF TurnsInv

(* Deserts, and what a call has read, outlive every step.                  *)
Growing == most' \in Nat /\ most <= most' /\ (tasked => tasked')

LEMMA DesertsLast ==
  ASSUME ProfileTypes, Growing
  PROVE  /\ \A s \in 0..5 : Deserves(s) => Deserves(s)'
         /\ \A b \in BuildState : ReadWasSo(b) => /\ b.real <= most'
                                                  /\ b.pending => tasked'
                                                  /\ Deserves(b.onboard)'
                                                  /\ b.hint # NoHint => Deserves(b.hint)'
<1>1. \A s \in 0..5 : Deserves(s) => Deserves(s)'
  BY DEF ProfileTypes, Growing, Deserves
<1>2. ASSUME NEW b \in BuildState, ReadWasSo(b)
      PROVE  /\ b.real <= most' /\ (b.pending => tasked')
             /\ Deserves(b.onboard)' /\ (b.hint # NoHint => Deserves(b.hint)')
  <2>1. b.real \in Nat /\ b.onboard \in 0..5 /\ b.hint \in 0..6
    BY DEF BuildState
  <2>2. b.hint # NoHint => b.hint \in 0..5
    BY <2>1 DEF NoHint
  <2> QED
    BY <1>1, <1>2, <2>1, <2>2 DEF ReadWasSo, ProfileTypes, Growing
<1> QED
  BY <1>1, <1>2

(* A host changes rows only; a call changes its own state and what is said *)
(* or stored through it.                                                   *)
LEMMA RowSteps ==
  ASSUME ProfileInv, Growing, UNCHANGED <<build, hints>>,
         real' \in Nat /\ real' <= most', pending' \in BOOLEAN, pending' => tasked',
         language' \in Languages \cup {NoLanguage}, onboard' \in {onboard, 0}
  PROVE  ProfileInv'
<1>1. ProfileTypes'
  BY DEF ProfileInv, ProfileTypes, Growing, hints
<1>2. \A s \in {onboard'} \cup given' : Deserves(s)'
  <2>1. Deserves(0)'
    BY DEF Deserves
  <2>2. \A s \in {onboard} \cup given : Deserves(s)'
    BY DesertsLast DEF ProfileInv, ProfileTypes
  <2> QED
    BY <2>1, <2>2 DEF hints
<1>3. \A w \in Builds : ReadWasSo(build[w])'
  <2> SUFFICES ASSUME NEW w \in Builds PROVE ReadWasSo(build[w])'
    OBVIOUS
  <2>1. build[w] \in BuildState /\ ReadWasSo(build[w]) /\ build'[w] = build[w]
    BY DEF ProfileInv, ProfileTypes
  <2> QED
    BY <2>1, DesertsLast DEF ProfileInv, ReadWasSo
<1> QED
  BY <1>1, <1>2, <1>3 DEF ProfileInv

LEMMA BuildSteps ==
  ASSUME ProfileInv, UNCHANGED <<real, pending, most, tasked>>,
         NEW w \in Builds, NEW b \in BuildState, build' = [build EXCEPT ![w] = b], ReadWasSo(b),
         language' \in Languages \cup {NoLanguage},
         onboard' \in 0..5, Deserves(onboard'),
         given' \subseteq 0..5, again' \subseteq 0..5, \A s \in given' : Deserves(s)
  PROVE  ProfileInv'
<1>1. ProfileTypes'
  BY DEF ProfileInv, ProfileTypes
<1>2. \A s \in {onboard'} \cup given' : Deserves(s)'
  BY DEF Deserves
<1>3. \A v \in Builds : ReadWasSo(build'[v])
  BY DEF ProfileInv, ProfileTypes
<1>4. \A v \in Builds : ReadWasSo(build[v])'
  BY <1>3 DEF ReadWasSo, Deserves
<1> QED
  BY <1>1, <1>2, <1>4 DEF ProfileInv

LEMMA NextStageDeserved ==
  ASSUME NEW b \in BuildState, ReadWasSo(b), ProfileTypes
  PROVE  LET new == NextStage(b.onboard, b.real, b.pending) IN
           /\ new \in 0..5 /\ new \in {b.onboard, b.onboard + 1}
           /\ Deserves(new)
           /\ HintOf(b.onboard, new, b.real) \in {new, NoHint}
<1>1. b.onboard \in 0..5 /\ b.real \in Nat /\ b.pending \in BOOLEAN
  BY DEF BuildState
<1> QED
  BY <1>1 DEF NextStage, Reached, Deserves, ReadWasSo, HintOf, NoHint, ProfileTypes

(* No step takes a sender to a stage that was not deserved.                *)
LEMMA ProfileSteps == ProfileInv /\ ProfileNext => ProfileInv'
<1> SUFFICES ASSUME ProfileInv, ProfileNext PROVE ProfileInv'
  OBVIOUS
<1> USE DEF rowsOfSender, hints
<1>t. ProfileTypes
  BY DEF ProfileInv
<1>1. CASE Learn
  <2>1. Growing
    BY <1>1, <1>t DEF Learn, Growing, ProfileTypes
  <2> QED
    BY <1>1, <1>t, <2>1, RowSteps DEF Learn, ProfileTypes, ProfileInv
<1>2. CASE SwitchLanguage
  BY <1>2, <1>t, RowSteps DEF SwitchLanguage, Growing, ProfileTypes, ProfileInv
<1>3. CASE Forget
  <2>1. Growing /\ UNCHANGED <<build, hints>> /\ pending' = pending /\ tasked' = tasked
    BY <1>3, <1>t DEF Forget, Growing, ProfileTypes
  <2>2. /\ real' \in Nat /\ real' <= most'
        /\ language' \in Languages \cup {NoLanguage} /\ onboard' \in {onboard, 0}
    BY <1>3, <1>t DEF Forget, ProfileTypes, ProfileInv
  <2>3. pending' \in BOOLEAN /\ (pending' => tasked')
    BY <2>1, <1>t DEF ProfileInv, ProfileTypes
  <2> QED
    BY <2>1, <2>2, <2>3, RowSteps
<1>4. CASE ChangeTasks
  BY <1>4, <1>t, RowSteps DEF ChangeTasks, Growing, ProfileTypes, ProfileInv
<1>5. ASSUME NEW w \in Builds,
             \/ StartBuild(w) \/ ReadFacts(w) \/ ReadTasks(w)
             \/ StoreLanguage(w) \/ StoreStage(w) \/ Prompt(w) \/ DropBuild(w)
      PROVE  ProfileInv'
  <2> DEFINE b == build[w]
  <2>b. b \in BuildState /\ ReadWasSo(b)
    BY DEF ProfileInv, ProfileTypes
  <2>f. /\ b.real \in Nat /\ b.onboard \in 0..5 /\ b.pending \in BOOLEAN /\ b.hint \in 0..6
        /\ b.due \in SUBSET {"facts", "tasks"} /\ b.language \in Languages \cup {NoLanguage}
    BY <2>b DEF BuildState
  <2>s. /\ onboard \in 0..5 /\ Deserves(onboard) /\ given \subseteq 0..5 /\ again \subseteq 0..5
        /\ \A s \in given : Deserves(s)
    BY <1>t DEF ProfileInv, ProfileTypes
  <2>n. NoBuild \in BuildState /\ ReadWasSo(NoBuild)
    BY <1>t DEF NoBuild, BuildState, Steps, ReadWasSo, Deserves, NoHint, ProfileTypes
  <2>j. ASSUME NEW S PROVE Joined(S) \in Steps
    BY DEF Joined, Steps
  <2>1. CASE StartBuild(w)
    <3> DEFINE c == [NoBuild EXCEPT !.at = "reading", !.due = {"facts", "tasks"}]
    <3>1. c \in BuildState /\ ReadWasSo(c)
      BY <2>n DEF BuildState, Steps, ReadWasSo
    <3> QED
      BY <2>1, <3>1, <2>s, <1>t, BuildSteps DEF StartBuild, Put, ProfileTypes
  <2>2. CASE ReadFacts(w)
    <3> DEFINE due == b.due \ {"facts"}
               c == [b EXCEPT !.due = due, !.at = Joined(due), !.real = real,
                              !.language = language, !.onboard = onboard]
               d == [b EXCEPT !.due = due, !.at = Joined(due)]
    <3>1. c \in BuildState /\ d \in BuildState
      BY <2>b, <2>f, <2>j, <1>t DEF BuildState, ProfileTypes
    <3>2. ReadWasSo(c) /\ ReadWasSo(d)
      BY <2>b, <2>s DEF ReadWasSo, ProfileInv, BuildState
    <3>3. build' = [build EXCEPT ![w] = c] \/ build' = [build EXCEPT ![w] = d]
      BY <2>2 DEF ReadFacts, Put
    <3>4. UNCHANGED <<real, language, onboard, pending, most, tasked, given, again>>
      BY <2>2 DEF ReadFacts
    <3> QED
      BY <3>1, <3>2, <3>3, <3>4, <2>s, <1>t, BuildSteps DEF ProfileTypes
  <2>3. CASE ReadTasks(w)
    <3> DEFINE due == b.due \ {"tasks"}
               c(found) == [b EXCEPT !.due = due, !.at = Joined(due), !.pending = found]
    <3>1. PICK found \in {pending, FALSE} : build' = [build EXCEPT ![w] = c(found)]
      BY <2>3 DEF ReadTasks, Put
    <3>2. c(found) \in BuildState
      BY <2>b, <2>f, <2>j, <1>t DEF BuildState, ProfileTypes
    <3>3. ReadWasSo(c(found))
      <4>1. /\ c(found).real = b.real /\ c(found).onboard = b.onboard
            /\ c(found).hint = b.hint /\ c(found).pending = found
        BY <2>b DEF BuildState
      <4>2. found => tasked
        BY <3>1, <1>t DEF ProfileInv, ProfileTypes
      <4> HIDE DEF c
      <4> QED
        BY <2>b, <4>1, <4>2 DEF ReadWasSo
    <3>4. UNCHANGED <<real, language, onboard, pending, most, tasked, given, again>>
      BY <2>3 DEF ReadTasks
    <3> QED
      BY <3>1, <3>2, <3>3, <3>4, <2>s, <1>t, BuildSteps DEF ProfileTypes
  <2>4. CASE StoreLanguage(w)
    <3> DEFINE c == [b EXCEPT !.at = "stage"]
    <3>1. c \in BuildState /\ ReadWasSo(c)
      BY <2>b DEF BuildState, Steps, ReadWasSo
    <3>2. language' \in Languages \cup {NoLanguage}
      BY <2>4, <1>t DEF StoreLanguage, Detected, ProfileTypes
    <3> QED
      BY <2>4, <3>1, <3>2, <2>s, BuildSteps DEF StoreLanguage, Put
  <2>5. CASE StoreStage(w)
    <3> DEFINE new == NextStage(b.onboard, b.real, b.pending)
               c == [b EXCEPT !.at = "prompt", !.hint = HintOf(b.onboard, new, b.real)]
    <3>1. /\ new \in 0..5 /\ Deserves(new) /\ HintOf(b.onboard, new, b.real) \in {new, NoHint}
      BY <2>b, <1>t, NextStageDeserved
    <3>2. c \in BuildState /\ ReadWasSo(c)
      <4>1. c \in BuildState
        <5>1. HintOf(b.onboard, new, b.real) \in 0..6
          BY <3>1 DEF NoHint
        <5> HIDE DEF new
        <5> QED
          BY <2>b, <5>1 DEF BuildState, Steps
      <4>2. /\ c.real = b.real /\ c.onboard = b.onboard /\ c.pending = b.pending
            /\ c.hint \in {new, NoHint}
        BY <2>b, <3>1 DEF BuildState
      <4> HIDE DEF c, new
      <4> QED
        BY <2>b, <3>1, <4>1, <4>2 DEF ReadWasSo
    <3>3. onboard' \in {onboard, new}
      BY <2>5 DEF StoreStage
    <3> QED
      BY <2>5, <3>1, <3>2, <3>3, <2>s, <1>t, BuildSteps DEF StoreStage, Put, ProfileTypes
  <2>6. CASE Prompt(w)
    <3> DEFINE said == {b.hint} \cap Worded
    <3>1. given' = given \cup said /\ again' = again \cup (said \cap given)
      BY <2>6 DEF Prompt
    <3>2. said \subseteq 0..5 /\ \A s \in said : Deserves(s)
      BY <2>b DEF Worded, ReadWasSo, NoHint
    <3> QED
      BY <2>6, <3>1, <3>2, <2>n, <2>s, <1>t, BuildSteps DEF Prompt, Put, ProfileTypes
  <2>7. CASE DropBuild(w)
    BY <2>7, <2>n, <2>s, <1>t, BuildSteps DEF DropBuild, Put, ProfileTypes
  <2> QED
    BY <1>5, <2>1, <2>2, <2>3, <2>4, <2>5, <2>6, <2>7
<1> QED
  BY <1>1, <1>2, <1>3, <1>4, <1>5 DEF ProfileNext

(* A step that leaves a single undisturbed call leaves its hints in turn.  *)
LEMMA HostKeepsTurns ==
  ASSUME OneCall, UNCHANGED <<build, hints, onboard>>
  PROVE  OneCall'
  BY DEF OneCall, hints, At, HasReadFacts

(* Of an undisturbed call: only w changes, and nobody else is at work.     *)
LEMMA CallKeepsTurns ==
  ASSUME ProfileTypes, OneCall, NEW w \in Builds, NEW b, build' = [build EXCEPT ![w] = b],
         \A v \in Builds : v # w => At(v, "idle"),
         again' \subseteq {0},
         \A s \in given' : s <= onboard',
         HasReadFacts(b) => b.onboard = onboard',
         b.at = "prompt" /\ b.hint \notin {0, NoHint} => b.hint = onboard' /\ onboard' \notin given'
  PROVE  OneCall'
<1>1. \A v \in Builds : v # w => build'[v].at = "idle"
  BY DEF ProfileTypes, At
<1>2. build'[w] = b
  BY DEF ProfileTypes
<1>3. \A u, v \in Builds : build'[u].at # "idle" /\ build'[v].at # "idle" => u = v
  BY <1>1
<1>4. \A v \in Builds :
        /\ HasReadFacts(build'[v]) => build'[v].onboard = onboard'
        /\ build'[v].at = "prompt" /\ build'[v].hint \notin {0, NoHint} =>
             build'[v].hint = onboard' /\ onboard' \notin given'
  BY <1>1, <1>2 DEF HasReadFacts
<1> QED
  BY <1>3, <1>4 DEF OneCall, At, HasReadFacts

LEMMA TurnSteps == TurnsInv /\ ProfileNext => TurnsInv'
<1> SUFFICES ASSUME TurnsInv, ProfileNext, ~ muddled' PROVE OneCall'
  BY ProfileSteps DEF TurnsInv
<1> USE DEF rowsOfSender, hints
<1>t. ProfileInv /\ ProfileTypes
  BY DEF TurnsInv, ProfileInv
<1>1. ASSUME Learn \/ SwitchLanguage \/ Forget \/ ChangeTasks PROVE OneCall'
  <2>1. ~ muddled /\ UNCHANGED <<build, hints, onboard>>
    BY <1>1 DEF Learn, SwitchLanguage, Forget, ChangeTasks
  <2> QED
    BY <2>1, HostKeepsTurns DEF TurnsInv
<1>2. ASSUME NEW w \in Builds,
             \/ StartBuild(w) \/ ReadFacts(w) \/ ReadTasks(w)
             \/ StoreLanguage(w) \/ StoreStage(w) \/ Prompt(w) \/ DropBuild(w)
      PROVE  OneCall'
  <2> DEFINE b == build[w]
  <2>1. ~ muddled
    BY <1>2 DEF StartBuild, ReadFacts, ReadTasks, StoreLanguage, StoreStage, Prompt, DropBuild
  <2>2. OneCall
    BY <2>1 DEF TurnsInv
  <2>3. /\ onboard \in 0..5 /\ again \subseteq {0} /\ \A s \in given : s \in 0..5 /\ s <= onboard
        /\ b \in BuildState
    BY <2>2, <1>t DEF OneCall, ProfileTypes
  <2>4. /\ HasReadFacts(b) => b.onboard = onboard
        /\ b.at = "prompt" /\ b.hint \notin {0, NoHint} => b.hint = onboard /\ onboard \notin given
    BY <2>2 DEF OneCall, At
  <2>5. \A v \in Builds : v # w => At(v, "idle")
    <3>1. CASE StartBuild(w)
      BY <3>1 DEF StartBuild
    <3>2. CASE ~ At(w, "idle")
      BY <3>2, <2>2 DEF OneCall
    <3> QED
      BY <1>2, <3>1, <3>2
         DEF ReadFacts, ReadTasks, StoreLanguage, StoreStage, Prompt, DropBuild, At
  <2>6. CASE StartBuild(w)
    <3> DEFINE c == [NoBuild EXCEPT !.at = "reading", !.due = {"facts", "tasks"}]
    <3>1. c.at = "reading" /\ ~ HasReadFacts(c)
      BY DEF NoBuild, HasReadFacts
    <3>2. build' = [build EXCEPT ![w] = c] /\ UNCHANGED <<onboard, given, again>>
      BY <2>6 DEF StartBuild, Put
    <3> HIDE DEF c
    <3> QED
      BY <3>1, <3>2, <2>2, <2>3, <2>5, <1>t, CallKeepsTurns
  <2>7. CASE ReadFacts(w)
    <3> DEFINE due == b.due \ {"facts"}
               c == [b EXCEPT !.due = due, !.at = Joined(due), !.real = real,
                              !.language = language, !.onboard = onboard]
    <3>1. build' = [build EXCEPT ![w] = c] /\ UNCHANGED <<onboard, given, again>>
      BY <2>7, <2>1 DEF ReadFacts, Put
    <3>2. c.at # "prompt" /\ c.onboard = onboard
      BY <2>3 DEF BuildState, Joined
    <3> HIDE DEF c
    <3> QED
      BY <3>1, <3>2, <2>2, <2>3, <2>5, <1>t, CallKeepsTurns
  <2>8. CASE ReadTasks(w)
    <3> DEFINE due == b.due \ {"tasks"}
               c(found) == [b EXCEPT !.due = due, !.at = Joined(due), !.pending = found]
    <3>1. PICK found \in {pending, FALSE} : build' = [build EXCEPT ![w] = c(found)]
      BY <2>8 DEF ReadTasks, Put
    <3>2. UNCHANGED <<onboard, given, again>>
      BY <2>8 DEF ReadTasks
    <3>3. /\ c(found).at # "prompt" /\ c(found).onboard = b.onboard
          /\ HasReadFacts(c(found)) => HasReadFacts(b)
      BY <2>8, <2>3 DEF BuildState, Joined, HasReadFacts, ReadTasks, At
    <3> HIDE DEF c
    <3> QED
      BY <3>1, <3>2, <3>3, <2>2, <2>3, <2>4, <2>5, <1>t, CallKeepsTurns
  <2>9. CASE StoreLanguage(w)
    <3> DEFINE c == [b EXCEPT !.at = "stage"]
    <3>1. build' = [build EXCEPT ![w] = c] /\ UNCHANGED <<onboard, given, again>>
      BY <2>9 DEF StoreLanguage, Put
    <3>2. c.at = "stage" /\ c.onboard = b.onboard /\ HasReadFacts(b)
      BY <2>9, <2>3 DEF BuildState, HasReadFacts, StoreLanguage, At
    <3> HIDE DEF c
    <3> QED
      BY <3>1, <3>2, <2>2, <2>3, <2>4, <2>5, <1>t, CallKeepsTurns
  <2>10. CASE StoreStage(w)
    <3> DEFINE new == NextStage(b.onboard, b.real, b.pending)
               c == [b EXCEPT !.at = "prompt", !.hint = HintOf(b.onboard, new, b.real)]
    <3>1. build' = [build EXCEPT ![w] = c] /\ UNCHANGED <<given, again>>
      BY <2>10 DEF StoreStage, Put
    <3>2. onboard' = new
      BY <2>10, <2>1, <2>4 DEF StoreStage, HasReadFacts, At
    <3>3. b.onboard = onboard
      BY <2>10, <2>4 DEF StoreStage, HasReadFacts, At
    <3>4. new \in {onboard, onboard + 1}
      BY <2>3, <3>3, <1>t, NextStageDeserved DEF ProfileInv, ProfileTypes
    <3>5. c.at = "prompt" /\ c.hint = HintOf(b.onboard, new, b.real)
      BY <2>3 DEF BuildState
    <3>6. c.hint \notin {0, NoHint} => new = onboard + 1 /\ c.hint = new
      BY <3>3, <3>4, <3>5, <2>3 DEF HintOf
    <3>7. ~ HasReadFacts(c)
      BY <3>5 DEF HasReadFacts
    <3>8. /\ \A s \in given' : s <= onboard'
          /\ new = onboard + 1 => onboard' \notin given'
      BY <3>1, <3>2, <3>4, <2>3
    <3> HIDE DEF c, new
    <3> QED
      BY <3>1, <3>2, <3>5, <3>6, <3>7, <3>8, <2>2, <2>3, <2>5, <1>t, CallKeepsTurns
  <2>11. CASE Prompt(w)
    <3> DEFINE said == {b.hint} \cap Worded
    <3>1. /\ build' = [build EXCEPT ![w] = NoBuild] /\ onboard' = onboard
          /\ given' = given \cup said /\ again' = again \cup (said \cap given)
      BY <2>11 DEF Prompt, Put
    <3>2. \A s \in said : s = 0 \/ (s = onboard /\ onboard \notin given)
      BY <2>11, <2>4 DEF Prompt, At, Worded, NoHint
    <3>3. again' \subseteq {0} /\ \A s \in given' : s <= onboard'
      <4>1. said \cap given \subseteq {0}
        BY <3>2
      <4>2. \A s \in said : s <= onboard
        BY <3>2, <2>3
      <4> HIDE DEF said
      <4> QED
        BY <3>1, <4>1, <4>2, <2>3
    <3>4. NoBuild.at = "idle" /\ ~ HasReadFacts(NoBuild)
      BY DEF NoBuild, HasReadFacts
    <3> HIDE DEF said
    <3> QED
      BY <3>1, <3>3, <3>4, <2>2, <2>5, <1>t, CallKeepsTurns
  <2>12. CASE DropBuild(w)
    <3>1. build' = [build EXCEPT ![w] = NoBuild] /\ UNCHANGED <<onboard, given, again>>
      BY <2>12 DEF DropBuild, Put
    <3>2. NoBuild.at = "idle" /\ ~ HasReadFacts(NoBuild)
      BY DEF NoBuild, HasReadFacts
    <3> QED
      BY <3>1, <3>2, <2>2, <2>3, <2>5, <1>t, CallKeepsTurns
  <2> QED
    BY <1>2, <2>6, <2>7, <2>8, <2>9, <2>10, <2>11, <2>12
<1> QED
  BY <1>1, <1>2 DEF ProfileNext

(* "Stages are sequential - can't skip.  Each fires exactly once": what    *)
(* HintsRunInTurn says of build_context (context.rs, context_helpers.rs),  *)
(* for any number of overlapping calls, facts and host calls.              *)
THEOREM HintsInTurn == MemorySpec => []HintsRunInTurn
<1>1. MemoryInit => TurnsInv
  BY ProfileStarts DEF MemoryInit
<1>2. TurnsInv /\ [MemoryNext]_memoryVars => TurnsInv'
  <2> SUFFICES ASSUME TurnsInv, [MemoryNext]_memoryVars PROVE TurnsInv'
    OBVIOUS
  <2>1. CASE SenderStep
    BY <2>1, TurnSteps DEF SenderStep
  <2>2. CASE UNCHANGED profileVars
    BY <2>2 DEF profileVars, rowsOfSender, hints, TurnsInv, ProfileInv, ProfileTypes, OneCall,
                Deserves, ReadWasSo, HasReadFacts, At
  <2> QED
    BY <2>1, <2>2 DEF MemoryNext, Upkeep, TaskStep, memoryVars
<1>3. TurnsInv => HintsRunInTurn
  BY DEF TurnsInv, ProfileInv, OneCall, HintsRunInTurn
<1> QED
  BY <1>1, <1>2, <1>3, PTL DEF MemorySpec

-----------------------------------------------------------------------------
(* The tables.                                                             *)

(* Of the naturals in a set one is least: 0..x shrinks with x, and finite  *)
(* sets cannot shrink for ever.                                            *)
LEMMA MinIsMember ==
  ASSUME NEW S \in SUBSET Nat, S # {}
  PROVE  Min(S) \in S
<1> DEFINE UpTo == {0..x : x \in S}
           Shrinks == StrictSubsetOrdering(Nat)
<1>1. IsWellFoundedOn(Shrinks, FiniteSubsetsOf(Nat))
  BY FS_StrictSubsetOrderingWellFounded
<1>2. UpTo \subseteq FiniteSubsetsOf(Nat)
  <2>1. ASSUME NEW x \in S PROVE IsFiniteSet(0..x) /\ 0..x \subseteq Nat
    BY FS_Interval
  <2> QED
    BY <2>1 DEF FiniteSubsetsOf
<1>3. UpTo # {}
  OBVIOUS
<1>4. PICK X \in UpTo : \A Y \in UpTo : ~ (<<Y, X>> \in Shrinks)
  <2> HIDE DEF UpTo, Shrinks
  <2> QED
    BY <1>1, <1>2, <1>3, WFMin
<1>5. PICK x \in S : X = 0..x
  OBVIOUS
<1>6. ASSUME NEW y \in S PROVE x <= y
  <2> SUFFICES ASSUME y < x PROVE FALSE
    OBVIOUS
  <2>1. 0..y \subseteq 0..x /\ x \in 0..x /\ x \notin 0..y
    OBVIOUS
  <2>2. <<0..y, 0..x>> \in Shrinks
    BY <2>1 DEF StrictSubsetOrdering
  <2> QED
    BY <2>2, <1>4, <1>5
<1> QED
  BY <1>6 DEF Min

(* A message that found its conversation open is not younger than the last *)
(* time this was closed.                                                   *)
ConvRow == [status : {"absent", "active", "closed"}, started : Nat, updated : Nat]
MsgRow  == [conv : Convs, role : {"user", "assistant"}, at : Nat, late : BOOLEAN]

AgeInv ==
  /\ now \in Nat
  /\ convs \in [Convs -> ConvRow] /\ \A c \in Convs : convs[c].updated <= now
  /\ turn \in [Convs -> BOOLEAN]
  /\ msgs \in SUBSET MsgRow
  /\ \A m \in msgs : /\ m.at <= now
                     /\ convs[m.conv].status = "closed" /\ ~ m.late => m.at <= convs[m.conv].updated

(* Messages and turns belong to conversations that exist.                  *)
OwnerInv ==
  /\ \A c \in Convs : turn[c] => c \in Existing
  /\ \A m \in msgs : m.conv \in Existing

LostInv == \A m \in lost : m.age > MaxAge \/ m.late

IndexInv ==
  /\ recall = {m \in msgs : m.role = "user"}
  /\ notes \in [Notes -> RowState] /\ noteIndex = {o \in Notes : notes[o] = "active"}

RowsInv == AgeInv /\ OwnerInv /\ LostInv /\ IndexInv

LEMMA RowsStart == TablesInit /\ ConsolidatorInit => RowsInv
  BY DEF TablesInit, ConsolidatorInit, RowsInv, AgeInv, OwnerInv, LostInv, IndexInv, ConvRow, NoConv,
         RowState

(* Steps that touch neither conversations nor observations.                *)
LEMMA OtherRows ==
  ASSUME RowsInv, UNCHANGED <<now, rowVars, notes, noteIndex, lost>>
  PROVE  RowsInv'
  BY DEF RowsInv, AgeInv, OwnerInv, Existing, LostInv, IndexInv, rowVars

LEMMA TickKeeps ==
  ASSUME RowsInv, Tick, UNCHANGED lost
  PROVE  RowsInv'
<1>1. /\ now' = now + 1 /\ now \in Nat
      /\ UNCHANGED <<convs, turn, msgs, recall, notes, noteIndex, lost>>
  BY DEF Tick, rowVars, noteVars, RowsInv, AgeInv
<1>3. AgeInv'
  BY <1>1 DEF RowsInv, AgeInv, ConvRow, MsgRow
<1> QED
  BY <1>1, <1>3 DEF RowsInv, OwnerInv, Existing, LostInv, IndexInv

(* A conversation is touched or closed: its updated_at moves to now.       *)
LEMMA TouchesKeep ==
  ASSUME RowsInv, NEW c \in Convs, NEW row \in ConvRow, row.updated = now,
         row.status # "absent",
         convs' = [convs EXCEPT ![c] = row],
         turn' = turn \/ turn' = [turn EXCEPT ![c] = TRUE],
         UNCHANGED <<now, msgs, recall, notes, noteIndex, lost>>
  PROVE  RowsInv'
<1>1. /\ convs' \in [Convs -> ConvRow]
      /\ \A v \in Convs : convs[v].updated <= convs'[v].updated /\ convs'[v].updated <= now
  BY DEF RowsInv, AgeInv, ConvRow
<1>2. turn' \in [Convs -> BOOLEAN]
  BY DEF RowsInv, AgeInv
<1>3. ASSUME NEW m \in msgs, convs'[m.conv].status = "closed", ~ m.late
      PROVE  m.at <= convs'[m.conv].updated
  BY <1>1, <1>3 DEF RowsInv, AgeInv, ConvRow, MsgRow
<1>4. AgeInv'
  BY <1>1, <1>2, <1>3 DEF RowsInv, AgeInv
<1>5. c \in Existing' /\ \A v \in Existing : v \in Existing'
  BY DEF RowsInv, AgeInv, Existing
<1>6. OwnerInv'
  BY <1>5 DEF RowsInv, AgeInv, OwnerInv
<1> QED
  BY <1>4, <1>6 DEF RowsInv, LostInv, IndexInv

LEMMA ExchangeKeeps ==
  ASSUME RowsInv, NEW c \in Convs, StoreExchange(c), UNCHANGED lost
  PROVE  RowsInv'
<1> DEFINE New(r) == Message(c, r)
<1>1. /\ msgs' = msgs \cup {New("user"), New("assistant")}
      /\ recall' = recall \cup {New("user")}
      /\ turn' = [turn EXCEPT ![c] = FALSE] /\ turn[c]
      /\ UNCHANGED <<now, convs, notes, noteIndex, lost>>
  BY DEF StoreExchange, noteVars
<1>2. now \in Nat /\ (convs[c].status = "closed") \in BOOLEAN
  BY DEF RowsInv, AgeInv
<1>3. /\ New("user").role = "user" /\ New("assistant").role # "user"
      /\ \A r \in {"user", "assistant"} :
            /\ New(r) \in MsgRow /\ New(r).at = now /\ New(r).conv = c
            /\ convs[c].status = "closed" => New(r).late
  BY <1>2 DEF MsgRow, Message
<1> HIDE DEF New
<1>4. turn' \in [Convs -> BOOLEAN] /\ \A v \in Convs : turn'[v] => turn[v]
  BY <1>1 DEF RowsInv, AgeInv
<1>5. AgeInv'
  BY <1>1, <1>2, <1>3, <1>4 DEF RowsInv, AgeInv
<1>6. recall' = {m \in msgs' : m.role = "user"}
  BY <1>1, <1>3 DEF RowsInv, IndexInv
<1>7. OwnerInv'
  BY <1>1, <1>3, <1>4 DEF RowsInv, OwnerInv, Existing
<1> QED
  BY <1>1, <1>5, <1>6, <1>7 DEF RowsInv, LostInv, IndexInv

LEMMA NotesKeep ==
  ASSUME RowsInv, NEW o \in Notes, SaveNote(o) \/ SoftDeleteNote(o), UNCHANGED lost
  PROVE  RowsInv'
<1>1. UNCHANGED <<now, convs, turn, msgs, recall, lost>>
  BY DEF SaveNote, SoftDeleteNote, rowVars
<1>2. IndexInv'
  BY <1>1 DEF SaveNote, SoftDeleteNote, RowsInv, IndexInv, RowState
<1> QED
  BY <1>1, <1>2 DEF RowsInv, AgeInv, OwnerInv, Existing, LostInv

(* What a DELETE takes is older than the limit, as its conversation has    *)
(* been closed for longer and took no messages in time since.              *)
LEMMA PruneKeeps ==
  ASSUME RowsInv, NEW c \in Callers, PruneMessages(c)
  PROVE  RowsInv'
<1> DEFINE old  == {m \in msgs : m.conv \in StaleConvs}
           gone == {[late |-> m.late, age |-> now - m.at] : m \in old}
<1>1. /\ msgs' = msgs \ old /\ recall' = recall \ {m \in old : m.role = "user"}
      /\ lost' = lost \cup gone
      /\ UNCHANGED <<now, convs, turn, notes, noteIndex>>
  BY DEF PruneMessages, Delete, noteVars
<1>2. ASSUME NEW m \in old PROVE now - m.at > MaxAge \/ m.late
  <2>1. /\ m.at \in Nat /\ now \in Nat /\ m.conv \in Convs
        /\ convs[m.conv].updated \in Nat /\ m.late \in BOOLEAN
    BY DEF RowsInv, AgeInv, MsgRow, ConvRow
  <2>2. convs[m.conv].status = "closed" /\ now - convs[m.conv].updated > MaxAge
    BY DEF StaleConvs
  <2>3. ~ m.late => m.at <= convs[m.conv].updated
    BY <2>2 DEF RowsInv, AgeInv
  <2> QED
    BY <2>1, <2>2, <2>3, ConsolidatorConstantsOK DEF ConsolidatorConstantsOK
<1>3. \A m \in gone : m.age > MaxAge \/ m.late
  BY <1>2
<1> HIDE DEF gone, old
<1>4. LostInv'
  BY <1>1, <1>3 DEF RowsInv, LostInv
<1>5. AgeInv'
  BY <1>1 DEF RowsInv, AgeInv
<1>6. IndexInv'
  BY <1>1 DEF RowsInv, IndexInv
<1>7. OwnerInv'
  BY <1>1 DEF RowsInv, OwnerInv, Existing
<1> QED
  BY <1>4, <1>5, <1>6, <1>7 DEF RowsInv

LEMMA TablesKeepRows ==
  ASSUME RowsInv, TablesNext, UNCHANGED lost
  PROVE  RowsInv'
<1>1. CASE Tick
  BY <1>1, TickKeeps
<1>2. ASSUME NEW c \in Convs, Touch(c) PROVE RowsInv'
  <2> DEFINE row == [status |-> "active", updated |-> now,
                     started |-> IF convs[c].status = "absent" THEN now ELSE convs[c].started]
  <2>1. row \in ConvRow /\ row.updated = now /\ row.status # "absent"
    BY DEF RowsInv, AgeInv, ConvRow
  <2>2. convs' = [convs EXCEPT ![c] = row]
    BY <1>2 DEF Touch
  <2> HIDE DEF row
  <2> QED
    BY <1>2, <2>1, <2>2, TouchesKeep DEF Touch, noteVars
<1>3. ASSUME NEW c \in Convs, StoreExchange(c) PROVE RowsInv'
  BY <1>3, ExchangeKeeps
<1>4. ASSUME NEW c \in Convs, CloseConv(c) PROVE RowsInv'
  <2> DEFINE row == [convs[c] EXCEPT !.status = "closed", !.updated = now]
  <2>1. row \in ConvRow /\ row.updated = now /\ row.status # "absent"
    BY DEF RowsInv, AgeInv, ConvRow
  <2>2. convs' = [convs EXCEPT ![c] = row]
    BY <1>4 DEF CloseConv
  <2> HIDE DEF row
  <2> QED
    BY <1>4, <2>1, <2>2, TouchesKeep DEF CloseConv, noteVars
<1>5. ASSUME NEW o \in Notes, SaveNote(o) \/ SoftDeleteNote(o) PROVE RowsInv'
  BY <1>5, NotesKeep
<1>6. CASE UNCHANGED <<now, rowVars, notes, noteIndex>>
  BY <1>6, OtherRows
<1> QED
  BY <1>1, <1>2, <1>3, <1>4, <1>5, <1>6
     DEF TablesNext, StoreOutcome, StoreFact, SoftDeleteFacts, DeleteFacts, FindLesson, Reinforce,
         InsertLesson, KeepToCap, LessonEnds, noteVars

LEMMA StepsKeepRows == RowsInv /\ [MemoryNext]_memoryVars => RowsInv'
<1> SUFFICES ASSUME RowsInv, [MemoryNext]_memoryVars PROVE RowsInv'
  OBVIOUS
<1>1. CASE Store
  BY <1>1, TablesKeepRows DEF Store
<1>2. ASSUME NEW c \in Callers, PruneMessages(c) PROVE RowsInv'
  BY <1>2, PruneKeeps
<1>3. CASE UNCHANGED <<now, rowVars, notes, noteIndex, lost>>
  BY <1>3, OtherRows
<1>4. CASE Signal
  BY <1>3, <1>4 DEF Signal, tableVars, noteVars
<1>5. ASSUME NEW c \in Callers,
             MaybeRun(c) \/ PruneNow(c) \/ ReadLast(c) \/ CountSessions(c) \/ PruneOutcomes(c)
               \/ Stamp(c) \/ Fails(c) \/ ExitLoop(c)
      PROVE  RowsInv'
  BY <1>3, <1>5 DEF MaybeRun, PruneNow, ReadLast, CountSessions, PruneOutcomes, Stamp, Fails,
                    ExitLoop, tableVars, noteVars
<1>6. CASE UNCHANGED vars
  BY <1>3, <1>6 DEF vars, tableVars, noteVars, upkeepVars
<1> QED
  BY <1>1, <1>2, <1>4, <1>5, <1>6 DEF MemoryNext, Upkeep, SenderStep, TaskStep, Next, Run, memoryVars

(* What RecentMessagesKept says of prune (consolidator.rs), for every age  *)
(* limit: it holds however touches, stores, closes and runs of prune fall  *)
(* together, and however long a turn is.                                   *)
THEOREM RecentMessagesStay == MemorySpec => []RecentMessagesKept
<1>1. MemoryInit => RowsInv
  BY RowsStart DEF MemoryInit, Init
<1>2. RowsInv => RecentMessagesKept
  BY DEF RowsInv, LostInv, RecentMessagesKept
<1> QED
  BY <1>1, <1>2, StepsKeepRows, PTL DEF MemorySpec

(* What ReadsAgree says of the triggers of migrations 004 and 018 and of   *)
(* the WHERE clauses of the reads (facts.rs, observations.rs, messages.rs).*)
THEOREM ReadsAgreeAlways == MemorySpec => []ReadsAgree
<1>1. MemoryInit => RowsInv
  BY RowsStart DEF MemoryInit, Init
<1>2. RowsInv => ReadsAgree
  <2> SUFFICES ASSUME RowsInv PROVE ReadsAgree
    OBVIOUS
  <2>1. noteIndex = NotesShown /\ NotesFound = NotesShown
    BY DEF RowsInv, IndexInv, NotesShown, NotesFound
  <2>2. NotesShown \cap NotesHidden = {} /\ FactsShown \cap FactsHidden = {}
    BY DEF NotesShown, NotesHidden, FactsShown, FactsHidden
  <2>3. ASSUME NEW c \in Convs, NEW since \in 0..now
        PROVE  SearchMessages(c, since)
                 = {m \in msgs : m.role = "user" /\ m.conv # c /\ m.at >= since}
    BY DEF RowsInv, IndexInv, OwnerInv, SearchMessages
  <2>4. {m \in msgs : m.conv \in Existing} = msgs
    BY DEF RowsInv, OwnerInv
  <2> QED
    BY <2>1, <2>2, <2>3, <2>4 DEF RowsInv, IndexInv, ReadsAgree, GetMemoryStats
<1> QED
  BY <1>1, <1>2, StepsKeepRows, PTL DEF MemorySpec

-----------------------------------------------------------------------------
(* The runs of maybe_run.  Only the holder of the lock writes the stamp,   *)
(* so what its time gate has seen stays true until it writes its own.      *)

CallRow == [stage : Stages, last : SUBSET Nat, gated : BOOLEAN]

Clock ==
  /\ now \in Nat /\ last \in SUBSET Nat /\ \A t, u \in last : t <= now /\ t = u
  /\ gap \in SUBSET Nat /\ \A g, h \in gap : g >= MinHours /\ g = h

Guards ==
  /\ call \in [Callers -> CallRow]
  /\ \A c \in Callers :
       /\ call[c].gated <=> lock = c
       /\ call[c].stage \in {"read", "count", "stamp"} => lock = c
       /\ call[c].stage \in {"waiting", "exited"} => lock # c

PastTheGate ==
  \A c \in Callers :
    lock = c /\ call[c].stage \in {"count", "messages", "outcomes", "stamp"} => TimeGate(last)

UpkeepInv == Clock /\ Guards /\ PastTheGate

LEMMA UpkeepStarts == TablesInit /\ ConsolidatorInit => UpkeepInv
  BY ConsolidatorConstantsOK
     DEF ConsolidatorConstantsOK, TablesInit, ConsolidatorInit, UpkeepInv, Clock, Guards,
         PastTheGate, CallRow, Idle, Stages

(* Time passes, and nobody's call moves.                                   *)
LEMMA WaitingKeeps ==
  ASSUME UpkeepInv, now' = now \/ now' = now + 1, UNCHANGED <<lock, last, call, gap>>
  PROVE  UpkeepInv'
<1>1. Clock'
  BY DEF UpkeepInv, Clock
<1>2. Guards'
  BY DEF UpkeepInv, Guards
<1>3. TimeGate(last) => TimeGate(last)'
  BY ConsolidatorConstantsOK DEF ConsolidatorConstantsOK, UpkeepInv, Clock, TimeGate
<1>4. PastTheGate'
  BY <1>3 DEF UpkeepInv, PastTheGate
<1> QED
  BY <1>1, <1>2, <1>4 DEF UpkeepInv

(* A caller goes on to another statement with the lock as it is.           *)
LEMMA GoingOnKeeps ==
  ASSUME UpkeepInv, NEW c \in Callers, NEW row \in CallRow,
         call' = [call EXCEPT ![c] = row],
         row.gated <=> call[c].gated,
         row.stage \in {"read", "count", "stamp"} => lock = c,
         row.stage \in {"waiting", "exited"} => lock # c,
         lock = c /\ row.stage \in {"count", "messages", "outcomes", "stamp"} => TimeGate(last),
         UNCHANGED <<now, lock, last, gap>>
  PROVE  UpkeepInv'
<1>1. Clock'
  BY DEF UpkeepInv, Clock
<1>2. /\ call' \in [Callers -> CallRow] /\ call'[c] = row
      /\ \A d \in Callers : d # c => call'[d] = call[d]
  BY DEF UpkeepInv, Guards
<1>3. Guards'
  BY <1>2 DEF UpkeepInv, Guards
<1>4. PastTheGate'
  BY <1>2 DEF UpkeepInv, PastTheGate, TimeGate
<1> QED
  BY <1>1, <1>3, <1>4 DEF UpkeepInv

(* The lock is taken by a call that begins.                                *)
LEMMA TakingKeeps ==
  ASSUME UpkeepInv, NEW c \in Callers, MaybeRun(c)
  PROVE  UpkeepInv'
<1> DEFINE row == [Idle("read") EXCEPT !.gated = TRUE]
<1>1. row \in CallRow /\ row.gated /\ row.stage = "read"
  BY DEF Idle, CallRow, Stages
<1>2. /\ call' = [call EXCEPT ![c] = row] /\ lock = Free /\ lock' = c
      /\ UNCHANGED <<now, last, gap>>
  BY DEF MaybeRun, tableVars
<1> HIDE DEF row
<1>3. /\ call' \in [Callers -> CallRow] /\ call'[c] = row
      /\ \A d \in Callers : d # c => call'[d] = call[d] /\ ~ call[d].gated /\ lock # d
  BY <1>1, <1>2, ConsolidatorConstantsOK DEF ConsolidatorConstantsOK, UpkeepInv, Guards
<1>4. Clock'
  BY <1>2 DEF UpkeepInv, Clock
<1>5. Guards'
  BY <1>1, <1>2, <1>3 DEF UpkeepInv, Guards
<1>6. PastTheGate'
  BY <1>1, <1>2, <1>3 DEF PastTheGate
<1> QED
  BY <1>4, <1>5, <1>6 DEF UpkeepInv

(* A call ends, with a stamp or without.                                   *)
LEMMA ReturnKeeps ==
  ASSUME UpkeepInv, NEW c \in Callers, Return(c), now' = now, Clock',
         last' = last \/ lock = c
  PROVE  UpkeepInv'
<1> DEFINE row == Idle("waiting")
<1>1. row \in CallRow /\ ~ row.gated /\ row.stage = "waiting"
  BY DEF Idle, CallRow, Stages
<1>2. /\ call' = [call EXCEPT ![c] = row]
      /\ lock' = IF lock = c THEN Free ELSE lock
  BY DEF Return, UpkeepInv, Guards
<1> HIDE DEF row
<1>3. /\ call' \in [Callers -> CallRow] /\ call'[c] = row
      /\ \A d \in Callers : d # c => call'[d] = call[d]
      /\ lock' # c /\ \A d \in Callers : d # c => (lock' = d <=> lock = d)
  BY <1>1, <1>2, ConsolidatorConstantsOK DEF ConsolidatorConstantsOK, UpkeepInv, Guards
<1>4. Guards'
  BY <1>1, <1>3 DEF UpkeepInv, Guards
<1>5. PastTheGate'
  BY <1>1, <1>2, <1>3 DEF UpkeepInv, PastTheGate, TimeGate
<1> QED
  BY <1>4, <1>5 DEF UpkeepInv

(* The stamp is as far from the last one as the gate asks.                 *)
LEMMA StampSpaced ==
  ASSUME UpkeepInv, NEW c \in Callers, Stamp(c)
  PROVE  Clock'
<1>1. /\ lock = c /\ call[c].stage = "stamp" /\ TimeGate(last)
      /\ now' = now /\ last' = {now}
      /\ gap' = IF last = {} THEN {} ELSE {Min(gap \cup {now - t : t \in last})}
  BY DEF Stamp, tableVars, UpkeepInv, Guards, PastTheGate
<1> DEFINE gaps == gap \cup {now - t : t \in last}
<1>2. gaps \in SUBSET Nat /\ \A g \in gaps : g >= MinHours
  <2>1. ASSUME NEW t \in last PROVE now - t \in Nat /\ now - t >= MinHours
    <3>1. t \in Nat /\ now \in Nat /\ t <= now
      BY DEF UpkeepInv, Clock
    <3>2. now - t >= MinHours
      BY <1>1 DEF TimeGate
    <3> QED
      BY <3>1, <3>2
  <2> QED
    BY <2>1 DEF UpkeepInv, Clock
<1>3. last # {} => gaps # {}
  OBVIOUS
<1> HIDE DEF gaps
<1>4. last # {} => Min(gaps) \in gaps
  BY <1>2, <1>3, MinIsMember
<1>5. gap' \in SUBSET Nat /\ \A g, h \in gap' : g >= MinHours /\ g = h
  BY <1>1, <1>2, <1>4 DEF gaps
<1> QED
  BY <1>1, <1>5 DEF UpkeepInv, Clock

LEMMA CallsKeepSpacing ==
  ASSUME UpkeepInv, NEW c \in Callers,
         MaybeRun(c) \/ PruneNow(c) \/ Run(c) \/ Fails(c) \/ ExitLoop(c)
  PROVE  UpkeepInv'
<1> call[c] \in CallRow
  BY DEF UpkeepInv, Guards
<1>0. ASSUME UNCHANGED <<now, last, gap>> PROVE Clock'
  BY <1>0 DEF UpkeepInv, Clock
<1>1. ASSUME NEW stage \in Stages \ {"read", "waiting", "exited"}, Goto(c, stage),
             stage \in {"count", "stamp"} => lock = c,
             lock = c => TimeGate(last),
             UNCHANGED <<now, lock, last, gap>>
      PROVE  UpkeepInv'
  <2> DEFINE row == [call[c] EXCEPT !.stage = stage]
  <2>1. /\ row \in CallRow /\ row.stage = stage /\ row.gated = call[c].gated
        /\ call' = [call EXCEPT ![c] = row]
    BY <1>1 DEF CallRow, Goto
  <2> HIDE DEF row
  <2> QED
    BY <1>1, <2>1, GoingOnKeeps
<1>2. CASE MaybeRun(c)
  BY <1>2, TakingKeeps
<1>3. CASE PruneNow(c)
  BY <1>3, <1>1 DEF PruneNow, tableVars, UpkeepInv, Guards, Stages
<1>4. CASE ReadLast(c)
  <2>1. call[c].stage = "read" /\ UNCHANGED <<now, last, gap>>
    BY <1>4 DEF ReadLast, tableVars
  <2>2. CASE ~ TimeGate(last)
    BY <1>4, <2>1, <2>2, <1>0, ReturnKeeps DEF ReadLast
  <2>3. CASE TimeGate(last)
    <3> DEFINE row == [call[c] EXCEPT !.stage = "count", !.last = last]
    <3>1. /\ row \in CallRow /\ row.stage = "count" /\ row.gated = call[c].gated
          /\ call' = [call EXCEPT ![c] = row] /\ lock' = lock
      BY <1>4, <2>3 DEF ReadLast, CallRow, Stages, UpkeepInv, Clock
    <3>2. lock = c
      BY <2>1 DEF UpkeepInv, Guards
    <3> HIDE DEF row
    <3> QED
      BY <2>1, <2>3, <3>1, <3>2, GoingOnKeeps
  <2> QED
    BY <2>2, <2>3
<1>5. CASE CountSessions(c)
  <2>1. /\ call[c].stage = "count" /\ UNCHANGED <<now, last, gap>>
        /\ (Goto(c, "messages") /\ UNCHANGED lock) \/ Return(c)
    BY <1>5 DEF CountSessions, tableVars
  <2>2. lock = c => TimeGate(last)
    BY <2>1 DEF UpkeepInv, PastTheGate
  <2> QED
    BY <2>1, <2>2, <1>0, <1>1, ReturnKeeps DEF Stages
<1>6. CASE PruneMessages(c)
  <2>1. call[c].stage = "messages" /\ Goto(c, "outcomes") /\ UNCHANGED <<now, lock, last, gap>>
    BY <1>6 DEF PruneMessages
  <2>2. lock = c => TimeGate(last)
    BY <2>1 DEF UpkeepInv, PastTheGate
  <2> QED
    BY <2>1, <2>2, <1>1 DEF Stages
<1>7. CASE PruneOutcomes(c)
  <2>1. /\ call[c].stage = "outcomes" /\ UNCHANGED <<now, last, gap>>
        /\ (call[c].gated /\ Goto(c, "stamp") /\ UNCHANGED lock) \/ Return(c)
    BY <1>7 DEF PruneOutcomes
  <2>2. (lock = c => TimeGate(last)) /\ (call[c].gated => lock = c)
    BY <2>1 DEF UpkeepInv, PastTheGate, Guards
  <2> QED
    BY <2>1, <2>2, <1>0, <1>1, ReturnKeeps DEF Stages
<1>8. CASE Stamp(c)
  <2>1. Return(c) /\ now' = now /\ lock = c
    BY <1>8 DEF Stamp, tableVars, UpkeepInv, Guards
  <2> QED
    BY <1>8, <2>1, StampSpaced, ReturnKeeps
<1>9. CASE Fails(c)
  BY <1>9, <1>0, ReturnKeeps DEF Fails, tableVars
<1>10. CASE ExitLoop(c)
  <2> DEFINE row == [call[c] EXCEPT !.stage = "exited"]
  <2>1. /\ row \in CallRow /\ row.stage = "exited" /\ row.gated = call[c].gated
        /\ call' = [call EXCEPT ![c] = row]
        /\ call[c].stage = "waiting" /\ UNCHANGED <<now, lock, last, gap>>
    BY <1>10 DEF ExitLoop, Goto, CallRow, Stages, tableVars
  <2>2. lock # c
    BY <2>1 DEF UpkeepInv, Guards
  <2> HIDE DEF row
  <2> QED
    BY <2>1, <2>2, GoingOnKeeps
<1> QED
  BY <1>2, <1>3, <1>4, <1>5, <1>6, <1>7, <1>8, <1>9, <1>10 DEF Run

(* What RunsSpaced says of maybe_run (consolidator.rs), for any number of  *)
(* callers: every early return, error and abort gives the lock back, and   *)
(* no run stamps within min_hours of another.                              *)
THEOREM RunsAreSpaced == MemorySpec => []RunsSpaced
<1>1. MemoryInit => UpkeepInv
  BY UpkeepStarts DEF MemoryInit, Init
<1>2. UpkeepInv /\ [MemoryNext]_memoryVars => UpkeepInv'
  <2> SUFFICES ASSUME UpkeepInv, [MemoryNext]_memoryVars PROVE UpkeepInv'
    OBVIOUS
  <2>1. CASE Store
    <3>1. now' = now \/ now' = now + 1
      BY <2>1 DEF Store, TablesNext, Tick, Touch, StoreExchange, CloseConv, StoreOutcome, SaveNote,
                  SoftDeleteNote, StoreFact, SoftDeleteFacts, DeleteFacts, FindLesson, Reinforce,
                  InsertLesson, KeepToCap, LessonEnds
    <3> QED
      BY <2>1, <3>1, WaitingKeeps DEF Store
  <2>2. CASE Signal
    BY <2>2, WaitingKeeps DEF Signal, tableVars
  <2>3. ASSUME NEW c \in Callers,
               MaybeRun(c) \/ PruneNow(c) \/ Run(c) \/ Fails(c) \/ ExitLoop(c)
        PROVE  UpkeepInv'
    BY <2>3, CallsKeepSpacing
  <2>4. CASE UNCHANGED vars
    BY <2>4, WaitingKeeps DEF vars, tableVars, upkeepVars
  <2> QED
    BY <2>1, <2>2, <2>3, <2>4 DEF MemoryNext, Upkeep, SenderStep, TaskStep, Next, memoryVars
<1>3. UpkeepInv => RunsSpaced
  BY DEF UpkeepInv, Clock, Guards, RunsSpaced
<1> QED
  BY <1>1, <1>2, <1>3, PTL DEF MemorySpec

-----------------------------------------------------------------------------
(* Lessons.  As long as no lesson was reinforced since, the one inserted   *)
(* last is on top of the order in which KeepToCap counts.                  *)

WriterRow ==
  [stage : {"idle", "found", "inserted"}, rule : Rules \cup {Ready.rule}, row : Nat, id : Nat]

LessonTypes ==
  /\ now \in Nat /\ writes \in Nat
  /\ IsFiniteSet(lessons) /\ lessons \subseteq Lesson
  /\ writer \in [Writers -> WriterRow]
  /\ \A w \in Writers : writer[w].stage # "idle" => writer[w].rule \in Rules /\ writer[w].id # NoRow

OnTop(l) == \A k \in lessons : k = l \/ (k.at <= l.at /\ k.n < l.n)

LessonInv ==
  /\ LessonTypes
  /\ \A l \in lessons : l.at <= now
  /\ newest # NoRow => \E l \in lessons : l.id = newest /\ OnTop(l)

LEMMA MaxIsMember ==
  ASSUME NEW S \in SUBSET Nat, S # {}, IsFiniteSet(S)
  PROVE  Max(S) \in S /\ \A y \in S : y <= Max(S)
<1> DEFINE Over(x) == {y \in S : y > x}
           Overs   == {Over(x) : x \in S}
           Shrinks == StrictSubsetOrdering(S)
<1>1. IsWellFoundedOn(Shrinks, FiniteSubsetsOf(S))
  BY FS_StrictSubsetOrderingWellFounded
<1>2. Overs \subseteq FiniteSubsetsOf(S)
  <2>1. ASSUME NEW x \in S PROVE IsFiniteSet(Over(x)) /\ Over(x) \subseteq S
    BY FS_Subset
  <2> QED
    BY <2>1 DEF FiniteSubsetsOf
<1>3. Overs # {}
  OBVIOUS
<1>4. PICK X \in Overs : \A Y \in Overs : ~ (<<Y, X>> \in Shrinks)
  <2> HIDE DEF Overs, Shrinks
  <2> QED
    BY <1>1, <1>2, <1>3, WFMin
<1>5. PICK x \in S : X = Over(x)
  OBVIOUS
<1>6. ASSUME NEW y \in S PROVE y <= x
  <2>1. x \in Nat /\ y \in Nat
    OBVIOUS
  <2>2. ASSUME y > x PROVE FALSE
    <3>1. ASSUME NEW z \in S, z > y PROVE z > x
      <4>1. z \in Nat
        OBVIOUS
      <4> QED
        BY <2>1, <2>2, <3>1, <4>1
    <3>2. ~ (y > y)
      BY <2>1
    <3>3. Over(y) \subseteq Over(x) /\ y \in Over(x) /\ y \notin Over(y)
      BY <2>2, <3>1, <3>2
    <3>4. <<Over(y), Over(x)>> \in Shrinks
      BY <3>3 DEF StrictSubsetOrdering
    <3> QED
      BY <3>4, <1>4, <1>5
  <2> HIDE DEF Over, Overs, Shrinks
  <2> QED
    BY <2>1, <2>2
<1>7. \A y \in S : x >= y
  BY <1>6
<1>8. Max(S) \in S /\ \A y \in S : Max(S) >= y
  BY <1>7 DEF Max
<1> QED
  BY <1>8

(* The rowid of an INSERT is above every other.                            *)
LEMMA NextRowIsNew ==
  ASSUME LessonTypes
  PROVE  NextRow(lessons) \in Nat \ {0} /\ \A l \in lessons : l.n < NextRow(lessons)
<1> DEFINE S == {l.n : l \in lessons}
<1>1. S \subseteq Nat
  BY DEF LessonTypes, Lesson
<1>2. CASE lessons = {}
  BY <1>2 DEF NextRow
<1>3. CASE lessons # {}
  <2>1. S # {}
    BY <1>3
  <2>2. IsFiniteSet(S)
    <3>1. IsFiniteSet(lessons)
      BY DEF LessonTypes
    <3>2. [l \in lessons |-> l.n] \in Surjection(lessons, S)
      BY DEF Surjection
    <3> HIDE DEF S
    <3> QED
      BY <3>1, <3>2, FS_Surjection
  <2>3. Max(S) \in S /\ \A y \in S : y <= Max(S)
    <3> HIDE DEF S
    <3> QED
      BY <1>1, <2>1, <2>2, MaxIsMember
  <2>4. NextRow(lessons) = 1 + Max(S)
    BY <1>3 DEF NextRow
  <2>5. Max(S) \in Nat
    BY <1>1, <2>3
  <2>6. ASSUME NEW l \in lessons PROVE l.n < 1 + Max(S)
    <3>1. l.n \in S
      OBVIOUS
    <3>2. l.n <= Max(S) /\ l.n \in Nat
      BY <1>1, <2>3, <3>1
    <3> HIDE DEF S
    <3> QED
      BY <2>5, <3>2
  <2> HIDE DEF S
  <2> QED
    BY <2>4, <2>5, <2>6
<1> QED
  BY <1>2, <1>3

(* Steps that write neither lessons nor what store_lesson keeps.           *)
LEMMA OthersKeepLessons ==
  ASSUME LessonInv, UNCHANGED <<lessons, writer, newest>>,
         now' \in Nat, now <= now', writes' \in Nat
  PROVE  LessonInv'
<1>1. LessonTypes'
  BY DEF LessonInv, LessonTypes
<1>2. \A l \in lessons' : l.at <= now'
  <2> SUFFICES ASSUME NEW l \in lessons PROVE l.at <= now'
    OBVIOUS
  <2>1. l.at \in Nat /\ l.at <= now /\ now \in Nat
    BY DEF LessonInv, LessonTypes, Lesson
  <2> QED
    BY <2>1
<1>3. newest' # NoRow => (\E l \in lessons : l.id = newest /\ OnTop(l))'
  BY DEF LessonInv, OnTop
<1> QED
  BY <1>1, <1>2, <1>3 DEF LessonInv

(* One statement of store_lesson, in the hands of w.                       *)
LEMMA LookKeepsLessons ==
  ASSUME LessonInv, NEW w \in Writers, NEW r \in Rules, FindLesson(w, r)
  PROVE  LessonInv'
<1>1. writes \in Nat /\ writes' = writes + 1 /\ now' = now /\ lessons' = lessons /\ newest' = newest
  BY DEF FindLesson, Write, LessonInv, LessonTypes
<1>2. PICK row : /\ row \in Nat
                 /\ writer' = [writer EXCEPT ![w] =
                      [stage |-> "found", rule |-> r, row |-> row, id |-> writes + 1]]
  <2>1. \A l \in lessons : l.id \in Nat
    BY DEF LessonInv, LessonTypes, Lesson
  <2> QED
    BY <2>1 DEF FindLesson, NoRow
<1>3. writes + 1 \in Nat /\ writes + 1 # NoRow
  BY <1>1 DEF NoRow
<1>4. writer' \in [Writers -> WriterRow]
  BY <1>2, <1>3 DEF LessonInv, LessonTypes, WriterRow
<1>5. \A v \in Writers : writer'[v].stage # "idle" => writer'[v].rule \in Rules /\ writer'[v].id # NoRow
  BY <1>2, <1>3 DEF LessonInv, LessonTypes
<1> QED
  BY <1>1, <1>4, <1>5 DEF LessonInv, LessonTypes, OnTop

LEMMA DoneKeepsWriters ==
  ASSUME LessonTypes, NEW w \in Writers, Done(w)
  PROVE  /\ writer' \in [Writers -> WriterRow]
         /\ \A v \in Writers : writer'[v].stage # "idle" =>
              writer'[v].rule \in Rules /\ writer'[v].id # NoRow
<1>1. Ready \in WriterRow /\ Ready.stage = "idle"
  BY DEF Ready, WriterRow, NoRow
<1> QED
  BY <1>1 DEF LessonTypes, Done

LEMMA ReinforcingKeepsLessons ==
  ASSUME LessonInv, NEW w \in Writers, Reinforce(w)
  PROVE  LessonInv'
<1> DEFINE hit   == {l \in lessons : l.id = writer[w].row}
           renewed(l) == [l EXCEPT !.occurrences = @ + 1, !.at = now]
<1>1. /\ lessons' = (lessons \ hit) \cup {renewed(l) : l \in hit}
      /\ newest' = NoRow /\ now' = now /\ writes' = writes /\ now \in Nat /\ writes \in Nat
  BY DEF Reinforce, LessonInv, LessonTypes
<1>2. ASSUME NEW l \in lessons PROVE renewed(l) \in Lesson /\ renewed(l).at = now
  <2>1. l \in Lesson /\ l.occurrences + 1 \in Nat \ {0}
    BY DEF LessonInv, LessonTypes, Lesson
  <2> QED
    BY <1>1, <2>1 DEF Lesson
<1>3. lessons' \subseteq Lesson
  BY <1>1, <1>2 DEF LessonInv, LessonTypes
<1>4. IsFiniteSet(lessons')
  <2>1. IsFiniteSet(hit) /\ IsFiniteSet(lessons \ hit)
    BY FS_Subset DEF LessonInv, LessonTypes
  <2>2. [l \in hit |-> renewed(l)] \in Surjection(hit, {renewed(l) : l \in hit})
    BY DEF Surjection
  <2>3. IsFiniteSet({renewed(l) : l \in hit})
    <3> HIDE DEF hit, renewed
    <3> QED
      BY <2>1, <2>2, FS_Surjection
  <2> HIDE DEF hit, renewed
  <2> QED
    BY <1>1, <2>1, <2>3, FS_Union
<1>5. ASSUME NEW l \in lessons' PROVE l.at <= now'
  <2>1. CASE l \in lessons
    BY <1>1, <2>1 DEF LessonInv
  <2>2. CASE \E k \in hit : l = renewed(k)
    <3>1. l.at = now
      BY <1>2, <2>2
    <3> HIDE DEF hit, renewed
    <3> QED
      BY <1>1, <3>1
  <2> HIDE DEF renewed
  <2> QED
    BY <1>1, <2>1, <2>2
<1>6. Done(w)
  BY DEF Reinforce
<1>7. LessonTypes'
  BY <1>1, <1>3, <1>4, <1>6, DoneKeepsWriters DEF LessonInv, LessonTypes
<1> HIDE DEF hit, renewed
<1> QED
  BY <1>1, <1>5, <1>7 DEF LessonInv

LEMMA InsertingKeepsLessons ==
  ASSUME LessonInv, NEW w \in Writers, InsertLesson(w)
  PROVE  LessonInv'
<1>1. PICK top : top = [n |-> NextRow(lessons), id |-> writer[w].id, rule |-> writer[w].rule,
                        occurrences |-> 1, at |-> now]
  OBVIOUS
<1>2. /\ lessons' = lessons \cup {top} /\ newest' = top.id
      /\ writer' = [writer EXCEPT ![w].stage = "inserted"]
      /\ now' = now /\ writes' = writes
  BY <1>1 DEF InsertLesson
<1>3. top.n \in Nat \ {0} /\ \A l \in lessons : l.n < top.n
  BY <1>1, NextRowIsNew DEF LessonInv
<1>4. writer[w].rule \in Rules /\ writer[w].id \in Nat \ {0}
  BY DEF InsertLesson, LessonInv, LessonTypes, WriterRow, NoRow
<1>5. top \in Lesson /\ top.at = now
  BY <1>1, <1>3, <1>4 DEF LessonInv, LessonTypes, Lesson
<1>6. IsFiniteSet(lessons')
  BY <1>2, FS_AddElement DEF LessonInv, LessonTypes
<1>7. writer' \in [Writers -> WriterRow]
  BY <1>2 DEF LessonInv, LessonTypes, WriterRow
<1>8. \A v \in Writers : writer'[v].stage # "idle" => writer'[v].rule \in Rules /\ writer'[v].id # NoRow
  BY <1>2, <1>4 DEF LessonInv, LessonTypes, NoRow
<1>9. LessonTypes'
  BY <1>2, <1>5, <1>6, <1>7, <1>8 DEF LessonInv, LessonTypes
<1>10. \A l \in lessons' : l.at <= now'
  BY <1>2, <1>5, <1>9 DEF LessonInv, LessonTypes
<1>11. top \in lessons' /\ top.id = newest' /\ \A k \in lessons' : k = top \/ (k.at <= top.at /\ k.n < top.n)
  BY <1>2, <1>3, <1>5 DEF LessonInv
<1> QED
  BY <1>9, <1>10, <1>11 DEF LessonInv, OnTop

(* The lesson on top is not beyond any cap.                                *)
LEMMA TopIsKept ==
  ASSUME LessonTypes, NEW l \in lessons, OnTop(l)
  PROVE  l \notin BeyondCap
<1>1. \A k \in lessons : k.at \in Nat /\ k.n \in Nat
  BY DEF LessonTypes, Lesson
<1>2. Above(l) = {}
  BY <1>1 DEF Above, OnTop
<1>3. Cardinality(Above(l)) = 0
  BY <1>2, FS_EmptySet
<1> QED
  BY <1>3, TableConstantsOK DEF BeyondCap

LEMMA TrimmingKeepsLessons ==
  ASSUME LessonInv, NEW w \in Writers, KeepToCap(w)
  PROVE  /\ LessonInv'
         /\ newest # NoRow => \E l \in lessons' : l.id = newest
<1>1. /\ lessons' = lessons \ BeyondCap /\ newest' = newest
      /\ now' = now /\ writes' = writes /\ Done(w)
  BY DEF KeepToCap
<1>2. IsFiniteSet(lessons') /\ lessons' \subseteq lessons
  BY <1>1, FS_Subset DEF LessonInv, LessonTypes
<1>3. LessonTypes'
  BY <1>1, <1>2, DoneKeepsWriters DEF LessonInv, LessonTypes
<1>4. \A l \in lessons' : l.at <= now'
  BY <1>1, <1>2 DEF LessonInv
<1>5. ASSUME newest # NoRow PROVE \E l \in lessons' : l.id = newest /\ OnTop(l)
  <2>1. PICK l \in lessons : l.id = newest /\ OnTop(l)
    BY <1>5 DEF LessonInv
  <2>2. l \in lessons'
    BY <1>1, <2>1, TopIsKept DEF LessonInv
  <2> QED
    BY <2>1, <2>2
<1> QED
  BY <1>1, <1>2, <1>3, <1>4, <1>5 DEF LessonInv, OnTop

LEMMA LessonsStart == TablesInit => LessonInv
<1> SUFFICES ASSUME TablesInit PROVE LessonInv
  OBVIOUS
<1>1. Ready \in WriterRow /\ Ready.stage = "idle"
  BY DEF Ready, WriterRow, NoRow
<1>2. IsFiniteSet({})
  BY FS_EmptySet
<1> QED
  BY <1>1, <1>2 DEF TablesInit, LessonInv, LessonTypes, NoRow

LEMMA StepsKeepLessons == LessonInv /\ [MemoryNext]_memoryVars => LessonInv'
<1> SUFFICES ASSUME LessonInv, [MemoryNext]_memoryVars PROVE LessonInv'
  OBVIOUS
<1> DEFINE LeftAlone == UNCHANGED <<lessons, writer, newest>>
<1>1. now \in Nat /\ writes \in Nat
  BY DEF LessonInv, LessonTypes
<1>2. CASE LeftAlone /\ (now' = now \/ now' = now + 1) /\ (writes' = writes \/ writes' = writes + 1)
  BY <1>1, <1>2, OthersKeepLessons
<1>3. CASE Store
  <2>1. ASSUME NEW w \in Writers, NEW r \in Rules, FindLesson(w, r) PROVE LessonInv'
    BY <2>1, LookKeepsLessons
  <2>2. ASSUME NEW w \in Writers, Reinforce(w) PROVE LessonInv'
    BY <2>2, ReinforcingKeepsLessons
  <2>3. ASSUME NEW w \in Writers, InsertLesson(w) PROVE LessonInv'
    BY <2>3, InsertingKeepsLessons
  <2>4. ASSUME NEW w \in Writers, KeepToCap(w) PROVE LessonInv'
    BY <2>4, TrimmingKeepsLessons
  <2>5. ASSUME NEW w \in Writers, LessonEnds(w) PROVE LessonInv'
    BY <2>5, DoneKeepsWriters DEF LessonEnds, LessonInv, LessonTypes, OnTop
  <2>6. CASE Tick
    BY <1>2, <2>6 DEF Tick, learnVars
  <2>7. CASE StoreOutcome
    BY <1>2, <2>7 DEF StoreOutcome, Write
  <2>8. ASSUME NEW c \in Convs, Touch(c) \/ StoreExchange(c) \/ CloseConv(c) PROVE LessonInv'
    BY <1>2, <2>8 DEF Touch, StoreExchange, CloseConv, Write, learnVars
  <2>9. ASSUME NEW o \in Notes, SaveNote(o) \/ SoftDeleteNote(o) PROVE LessonInv'
    BY <1>2, <2>9 DEF SaveNote, SoftDeleteNote, Write, learnVars
  <2>10. ASSUME NEW k \in Keys, StoreFact(k) PROVE LessonInv'
    BY <1>2, <2>10 DEF StoreFact, Write, learnVars
  <2>11. ASSUME NEW S, SoftDeleteFacts(S) \/ DeleteFacts(S) PROVE LessonInv'
    BY <1>2, <2>11 DEF SoftDeleteFacts, DeleteFacts, learnVars
  <2> QED
    BY <1>3, <2>1, <2>2, <2>3, <2>4, <2>5, <2>6, <2>7, <2>8, <2>9, <2>10, <2>11
       DEF Store, TablesNext
<1>4. CASE Signal
  BY <1>2, <1>4 DEF Signal, tableVars, learnVars
<1>5. ASSUME NEW c \in Callers, MaybeRun(c) \/ PruneNow(c) \/ Run(c) \/ Fails(c) \/ ExitLoop(c)
      PROVE  LessonInv'
  BY <1>2, <1>5 DEF MaybeRun, PruneNow, Run, ReadLast, CountSessions, PruneMessages, PruneOutcomes,
                    Stamp, Fails, ExitLoop, tableVars, learnVars
<1>6. CASE UNCHANGED vars
  BY <1>2, <1>6 DEF vars, tableVars, learnVars
<1> QED
  BY <1>3, <1>4, <1>5, <1>6 DEF MemoryNext, Upkeep, SenderStep, TaskStep, Next, memoryVars

(* What OwnLessonKept says of store_lesson (outcomes.rs), for every cap    *)
(* and any number of callers.                                              *)
THEOREM NewLessonsStay == MemorySpec => OwnLessonKept
<1>1. MemoryInit => LessonInv
  BY LessonsStart DEF MemoryInit, Init
<1>2. LessonInv => \A w \in Writers :
        KeepToCap(w) /\ newest = writer[w].id => \E l \in lessons' : l.id = writer[w].id
  <2> SUFFICES ASSUME LessonInv, NEW w \in Writers, KeepToCap(w), newest = writer[w].id
               PROVE  \E l \in lessons' : l.id = writer[w].id
    OBVIOUS
  <2>1. newest # NoRow
    BY DEF KeepToCap, LessonInv, LessonTypes
  <2> QED
    BY <2>1, TrimmingKeepsLessons
<1> QED
  BY <1>1, <1>2, StepsKeepLessons, PTL DEF MemorySpec, OwnLessonKept

-----------------------------------------------------------------------------
(* Tasks: what create_task and complete_task promise of the rows they      *)
(* leave, for every number of callers and pollers, every set of requests   *)
(* and every horizon.                                                      *)

Asked  == [text : DOMAIN Words, repeat : {"once", "weekdays"}, due : Due]
Status == {"pending", "claimed", "delivered"}
Task   == [status : Status, text : DOMAIN Words, repeat : {"once", "weekdays"}, due : Due]

CreatorTypes ==
  creator \in [Creators -> [at : {"idle", "similar", "insert"}, asks : Asked, alone : BOOLEAN]]

RunnerTypes ==
  runner \in [Runners -> [at : {"idle", "run", "saturday", "sunday"}, task : Nat]]

TaskTypes ==
  /\ scheduled \in Seq(Task)
  /\ CreatorTypes /\ RunnerTypes
  /\ today \in Nat
  /\ fresh \subseteq Rows /\ advanced \subseteq Rows
  /\ \A p \in Runners : runner[p].at # "idle" => runner[p].task \in Rows

(* While nobody has written since its looks, what a call saw still holds.  *)
LooksHold ==
  \A c \in Creators : creator[c].at # "idle" =>
    /\ ~ creator[c].asks.due.iso
    /\ creator[c].alone => \A i \in Pending :
         /\ ~ Same(scheduled[i], creator[c].asks)
         /\ creator[c].at = "insert" => ~ Duplicate(scheduled[i], creator[c].asks)

(* Rows that are as create_task checked them are plain, and no two of them *)
(* are twins.                                                              *)
FreshRowsDiffer ==
  /\ \A i \in Pending \cap fresh : ~ scheduled[i].due.iso
  /\ \A i, j \in Pending \cap fresh : i # j =>
       ~ Same(scheduled[i], scheduled[j]) /\ ~ Duplicate(scheduled[i], scheduled[j])

(* A row that is due on a weekend still has a completion before it that    *)
(* moves it on: one about to look for Saturdays, or for Sundays.           *)
OnTheMove(i, stages) == \E p \in Runners : runner[p].task = i /\ runner[p].at \in stages

WeekendsAhead ==
  \A i \in Pending \cap advanced :
    /\ Weekday(scheduled[i].due.day) = 6 => OnTheMove(i, {"saturday"})
    /\ Weekday(scheduled[i].due.day) = 0 => OnTheMove(i, {"saturday", "sunday"})

TaskInv == TaskTypes /\ LooksHold /\ FreshRowsDiffer /\ WeekendsAhead

-----------------------------------------------------------------------------
(* Comparing two descriptions does not depend on which is which.           *)
LEMMA DuplicatesAreMutual ==
  ASSUME NEW a \in Task \cup Asked, NEW b \in Task \cup Asked, Duplicate(a, b)
  PROVE  Duplicate(b, a)
<1>1. a.text \in DOMAIN Words /\ b.text \in DOMAIN Words
  BY DEF Task, Asked
<1>2. Cardinality(Words[a.text]) \in Nat /\ Cardinality(Words[b.text]) \in Nat
  BY <1>1, TaskConstantsOK, FS_CardinalityType
<1>3. Within30Min(b.due, a.due)
  BY DEF Duplicate, Within30Min
<1>4. Words[a.text] \cap Words[b.text] = Words[b.text] \cap Words[a.text]
  OBVIOUS
<1> DEFINE m == Cardinality(Words[a.text])
           n == Cardinality(Words[b.text])
<1>5. (IF m <= n THEN m ELSE n) = (IF n <= m THEN n ELSE m)
  <2> HIDE DEF m, n
  <2> SUFFICES ASSUME m \in Nat, n \in Nat
               PROVE  (IF m <= n THEN m ELSE n) = (IF n <= m THEN n ELSE m)
    BY <1>2 DEF m, n
  <2> QED
    OBVIOUS
<1>6. DescriptionsAreSimilar(a.text, b.text)
  BY DEF Duplicate
<1>7. DescriptionsAreSimilar(b.text, a.text)
  BY <1>4, <1>5, <1>6, Zenon DEF DescriptionsAreSimilar
<1> QED
  BY <1>3, <1>7 DEF Duplicate

(* Two days after a Saturday, and one after a Sunday, is a Monday.         *)
LEMMA WeekGoesOn ==
  ASSUME NEW d \in Nat
  PROVE  /\ Weekday(d) \in 0..6
         /\ Weekday(d) = 6 => Weekday(d + 2) = 1
         /\ Weekday(d) = 0 => Weekday(d + 1) = 1
<1>1. Weekday(d) \in 0..6
  BY SMT DEF Weekday
<1>2. Weekday(d) = 6 => Weekday(d + 2) = 1
  BY SMT DEF Weekday
<1>3. Weekday(d) = 0 => Weekday(d + 1) = 1
  BY SMT DEF Weekday
<1> QED
  BY <1>1, <1>2, <1>3

(* What Change does to the rows, and that it disturbs every create_task.   *)
LEMMA ChangedRow ==
  ASSUME TaskInv, NEW i \in Rows, NEW due \in Due, NEW status \in Status,
         Change(i, due, status)
  PROVE  /\ scheduled' \in Seq(Task) /\ Rows' = Rows
         /\ scheduled'[i].due = due /\ scheduled'[i].status = status
         /\ \A j \in Rows : j # i => scheduled'[j] = scheduled[j]
         /\ CreatorTypes' /\ LooksHold' /\ FreshRowsDiffer' /\ fresh' \subseteq Rows
<1> USE DEF TaskInv, TaskTypes
<1>1. scheduled[i] \in Task /\ i \in 1..Len(scheduled)
  BY DEF Rows
<1>2. scheduled' = [scheduled EXCEPT ![i] = [@ EXCEPT !.due = due, !.status = status]]
  BY <1>1 DEF Change, Task
<1>3. [scheduled[i] EXCEPT !.due = due, !.status = status] \in Task
  BY <1>1 DEF Task
<1>4. scheduled' \in Seq(Task) /\ Rows' = Rows
  BY <1>2, <1>3 DEF Rows
<1>5. scheduled'[i].due = due /\ scheduled'[i].status = status
  BY <1>1, <1>2 DEF Task, Rows
<1>6. \A j \in Rows : j # i => scheduled'[j] = scheduled[j]
  BY <1>2 DEF Rows
<1>7. CreatorTypes' /\ \A c \in Creators :
        /\ creator'[c].at = creator[c].at /\ creator'[c].asks = creator[c].asks
        /\ ~ creator'[c].alone
  BY DEF Change, Disturbed, CreatorTypes
<1>8. LooksHold'
  BY <1>7 DEF LooksHold
<1>9. Pending' \cap fresh' \subseteq Pending \cap fresh /\ i \notin fresh'
  BY <1>4, <1>6 DEF Change, Pending
<1>10. \A j \in Pending' \cap fresh' : scheduled'[j] = scheduled[j]
  BY <1>6, <1>9 DEF Pending
<1>11. FreshRowsDiffer'
  BY <1>9, <1>10 DEF FreshRowsDiffer, Same, Duplicate
<1> QED
  BY <1>4, <1>5, <1>6, <1>7, <1>8, <1>9, <1>11 DEF Change

LEMMA TasksStart == TasksInit => TaskInv
<1> SUFFICES ASSUME TasksInit PROVE TaskInv
  OBVIOUS
<1>1. NotCreating \in [at : {"idle", "similar", "insert"}, asks : Asked, alone : BOOLEAN]
  BY TaskConstantsOK DEF NotCreating, Asked
<1>2. Rows = {} /\ Pending = {}
  BY DEF TasksInit, Rows, Pending
<1>3. TaskTypes
  BY <1>1, <1>2, TaskConstantsOK DEF TasksInit, TaskTypes, CreatorTypes, RunnerTypes, NotRunning
<1> QED
  BY <1>2, <1>3 DEF TaskInv, LooksHold, FreshRowsDiffer, WeekendsAhead, TasksInit, NotCreating

-----------------------------------------------------------------------------
(* create_task.                                                            *)

LEMMA CreationKeeps ==
  ASSUME TaskInv, NEW c \in Creators,
         (\E r \in Requests : LookForSame(c, r)) \/ LookForSimilar(c) \/ CreationEnds(c)
  PROVE  TaskInv'
<1> USE DEF TaskInv, TaskTypes
<1>1. NotCreating \in [at : {"idle", "similar", "insert"}, asks : Asked, alone : BOOLEAN]
      /\ NotCreating.at = "idle"
  BY TaskConstantsOK DEF NotCreating, Asked
<1>2. /\ UNCHANGED <<scheduled, runner, today, fresh, advanced>>
      /\ Rows' = Rows /\ Pending' = Pending
  BY DEF LookForSame, LookForSimilar, CreationEnds, Rows, Pending
<1>3. FreshRowsDiffer' /\ WeekendsAhead'
  BY <1>2 DEF FreshRowsDiffer, WeekendsAhead, OnTheMove
<1>4. CreatorTypes' /\ LooksHold'
  <2>1. CASE \E r \in Requests : LookForSame(c, r)
    <3>1. PICK r \in Requests : LookForSame(c, r)
      BY <2>1
    <3> DEFINE asks == [r EXCEPT !.due = NormalizeDueAt(@)]
    <3>2. asks \in Asked /\ ~ asks.due.iso
      BY TaskConstantsOK DEF Asked, Due, NormalizeDueAt
    <3>3. /\ creator' = [creator EXCEPT ![c] = [at |-> "similar", asks |-> asks, alone |-> TRUE]]
          /\ \A i \in Pending : ~ Same(scheduled[i], asks)
      BY <3>1 DEF LookForSame
    <3> HIDE DEF asks
    <3> QED
      BY <1>2, <3>2, <3>3 DEF LooksHold, CreatorTypes
  <2>2. CASE LookForSimilar(c)
    <3>1. CASE \E i \in Pending : Duplicate(scheduled[i], creator[c].asks)
      BY <1>1, <1>2, <2>2, <3>1 DEF LookForSimilar, LooksHold, CreatorTypes
    <3>2. CASE ~ \E i \in Pending : Duplicate(scheduled[i], creator[c].asks)
      BY <1>2, <2>2, <3>2 DEF LookForSimilar, LooksHold, CreatorTypes
    <3> QED
      BY <3>1, <3>2
  <2>3. CASE CreationEnds(c)
    BY <1>1, <1>2, <2>3 DEF CreationEnds, LooksHold, CreatorTypes
  <2> QED
    BY <2>1, <2>2, <2>3
<1> QED
  BY <1>2, <1>3, <1>4 DEF RunnerTypes

LEMMA InsertKeeps ==
  ASSUME TaskInv, NEW c \in Creators, InsertTask(c)
  PROVE  TaskInv'
<1> USE DEF TaskInv, TaskTypes
<1> DEFINE r   == creator[c].asks
           n   == Len(scheduled) + 1
           row == [status |-> "pending", text |-> r.text, repeat |-> r.repeat, due |-> r.due]
<1>1. creator[c].at = "insert" /\ r \in Asked /\ ~ r.due.iso
  BY DEF InsertTask, CreatorTypes, LooksHold
<1>2. row \in Task /\ row.text = r.text /\ row.due = r.due /\ row.status = "pending"
  BY <1>1 DEF Asked, Task, Status
<1>3. scheduled' = Append(scheduled, row)
  BY DEF InsertTask
<1> HIDE DEF row
<1>4. /\ scheduled' \in Seq(Task) /\ Rows = 1..(n - 1) /\ Rows' = 1..n /\ n \in Nat
      /\ scheduled'[n] = row /\ \A i \in Rows : scheduled'[i] = scheduled[i]
  BY <1>2, <1>3 DEF Rows
<1>5. n \notin Rows /\ Rows' = Rows \cup {n} /\ Pending' = Pending \cup {n}
  BY <1>2, <1>4 DEF Pending
<1>6. CreatorTypes' /\ LooksHold'
  <2>1. NotCreating \in [at : {"idle", "similar", "insert"}, asks : Asked, alone : BOOLEAN]
        /\ NotCreating.at = "idle"
    BY TaskConstantsOK DEF NotCreating, Asked
  <2>2. creator' = [Disturbed EXCEPT ![c] = NotCreating]
    BY DEF InsertTask
  <2> QED
    BY <2>1, <2>2 DEF Disturbed, LooksHold, CreatorTypes
<1>7. fresh' \subseteq fresh \cup {n} /\ fresh' \subseteq Rows'
      /\ (n \in fresh' => creator[c].alone)
  BY <1>4, <1>5 DEF InsertTask
<1>8. FreshRowsDiffer'
  <2>1. \A i \in Pending' \cap fresh' : ~ scheduled'[i].due.iso
    BY <1>1, <1>2, <1>4, <1>5, <1>7 DEF FreshRowsDiffer, Pending
  <2>2. ASSUME NEW i \in Pending' \cap fresh', NEW j \in Pending' \cap fresh', i # j
        PROVE  ~ Same(scheduled'[i], scheduled'[j]) /\ ~ Duplicate(scheduled'[i], scheduled'[j])
    <3>1. ASSUME NEW k \in Pending, creator[c].alone
          PROVE  /\ ~ Same(scheduled[k], row) /\ ~ Same(row, scheduled[k])
                 /\ ~ Duplicate(scheduled[k], row) /\ ~ Duplicate(row, scheduled[k])
      <4>1. scheduled[k] \in Task
        BY DEF Pending, Rows
      <4>2. ~ Same(scheduled[k], row) /\ ~ Same(row, scheduled[k]) /\ ~ Duplicate(scheduled[k], row)
        BY <1>1, <1>2, <3>1 DEF LooksHold, Same, Duplicate
      <4> QED
        BY <1>2, <4>1, <4>2, DuplicatesAreMutual
    <3>2. i \in Pending /\ j \in Pending
          => ~ Same(scheduled[i], scheduled[j]) /\ ~ Duplicate(scheduled[i], scheduled[j])
      BY <1>5, <1>7, <2>2 DEF FreshRowsDiffer, Pending
    <3>3. /\ i = n \/ (i \in Pending /\ scheduled'[i] = scheduled[i])
          /\ j = n \/ (j \in Pending /\ scheduled'[j] = scheduled[j])
      BY <1>4, <1>5 DEF Pending
    <3> QED
      BY <1>4, <1>7, <2>2, <3>1, <3>2, <3>3 DEF Same, Duplicate
  <2> QED
    BY <2>1, <2>2 DEF FreshRowsDiffer
<1>9. WeekendsAhead' /\ RunnerTypes'
  BY <1>4, <1>5 DEF WeekendsAhead, OnTheMove, Pending, InsertTask, RunnerTypes
<1> QED
  BY <1>4, <1>5, <1>6, <1>7, <1>8, <1>9 DEF InsertTask

-----------------------------------------------------------------------------
(* Claims, completions, deferrals and retries.                             *)

LEMMA LaterIsDue ==
  ASSUME NEW due \in Due, NEW days \in Nat
  PROVE  Later(due, days) \in Due /\ Later(due, days).day = due.day + days
<1>1. due.day \in Nat /\ due.day + days \in Nat /\ due = [due EXCEPT !.day = due.day]
  BY SMT DEF Due
<1>2. Later(due, days) = [[due EXCEPT !.day = due.day + days] EXCEPT !.iso = FALSE]
  BY Zenon DEF Later
<1>3. [due EXCEPT !.day = due.day + days] \in Due
      /\ [due EXCEPT !.day = due.day + days].day = due.day + days
  BY <1>1, SMT DEF Due
<1>4. \A moved \in Due : [moved EXCEPT !.iso = FALSE] \in Due
                          /\ [moved EXCEPT !.iso = FALSE].day = moved.day
  BY DEF Due
<1> QED
  BY <1>2, <1>3, <1>4, Zenon

(* A row that changes and a poller that moves, where the others keep their *)
(* places, and a pending row that completions made has somebody before     *)
(* Saturday.                                                               *)
LEMMA RowChangeKeeps ==
  ASSUME TaskInv, NEW k \in Rows, NEW d \in Due, NEW status \in Status, Change(k, d, status),
         UNCHANGED today, RunnerTypes', advanced' \subseteq advanced \cup {k},
         \A q \in Runners : runner'[q].at # "idle" => runner'[q].task \in Rows,
         \A j \in Rows, stages \in SUBSET {"saturday", "sunday"} :
           OnTheMove(j, stages) => OnTheMove(j, stages)',
         \/ k \notin advanced' \/ status # "pending" \/ OnTheMove(k, {"saturday"})'
  PROVE  TaskInv'
<1> USE DEF TaskInv, TaskTypes
<1>1. /\ scheduled' \in Seq(Task) /\ Rows' = Rows /\ scheduled'[k].status = status
      /\ \A j \in Rows : j # k => scheduled'[j] = scheduled[j]
      /\ CreatorTypes' /\ LooksHold' /\ FreshRowsDiffer' /\ fresh' \subseteq Rows
  BY ChangedRow
<1>2. Pending' \subseteq Pending \cup {k} /\ \A j \in Pending' : j # k => j \in Pending
  BY <1>1 DEF Pending
<1>3. WeekendsAhead'
  <2> SUFFICES ASSUME NEW j \in Pending' \cap advanced'
           PROVE  /\ Weekday(scheduled'[j].due.day) = 6 => OnTheMove(j, {"saturday"})'
                  /\ Weekday(scheduled'[j].due.day) = 0 => OnTheMove(j, {"saturday", "sunday"})'
    BY DEF WeekendsAhead
  <2>1. CASE j = k
    <3>1. OnTheMove(k, {"saturday"})'
      BY <1>1, <2>1 DEF Pending
    <3> QED
      BY <2>1, <3>1 DEF OnTheMove
  <2>2. CASE j # k
    <3>1. j \in Pending \cap advanced /\ j \in Rows /\ scheduled'[j] = scheduled[j]
      BY <1>1, <1>2, <2>2 DEF Pending
    <3>2. /\ OnTheMove(j, {"saturday"}) => OnTheMove(j, {"saturday"})'
          /\ OnTheMove(j, {"saturday", "sunday"}) => OnTheMove(j, {"saturday", "sunday"})'
      BY <3>1
    <3> QED
      BY <3>1, <3>2 DEF WeekendsAhead
  <2> QED
    BY <2>1, <2>2
<1> QED
  BY <1>1, <1>3

LEMMA DeferringKeeps ==
  ASSUME TaskInv, NEW i \in Rows, NEW due \in Due, DeferTask(i, due)
  PROVE  TaskInv'
<1> USE DEF TaskInv, TaskTypes
<1>1. /\ Change(i, due, "pending") /\ advanced' = advanced \ {i} /\ UNCHANGED <<runner, today>>
  BY DEF DeferTask
<1>2. \A j \in Rows, stages \in SUBSET {"saturday", "sunday"} :
        OnTheMove(j, stages) => OnTheMove(j, stages)'
  BY <1>1 DEF OnTheMove
<1> QED
  BY <1>1, <1>2, RowChangeKeeps DEF Status, RunnerTypes

LEMMA RunsKeep ==
  ASSUME TaskInv, NEW p \in Runners,
         (\E i \in Rows : ClaimDue(p, i)) \/ DeliverOnce(p) \/ AdvanceDay(p) \/ RetrySoon(p)
  PROVE  TaskInv'
<1> USE DEF TaskInv, TaskTypes
<1>1. ASSUME NEW k \in Rows PROVE scheduled[k].due \in Due
  <2>1. scheduled[k] \in Task
    BY <1>1 DEF Rows
  <2> QED
    BY <2>1 DEF Task
<1>2. ASSUME NEW i \in Rows, ClaimDue(p, i) PROVE TaskInv'
  <2>1. /\ Change(i, scheduled[i].due, "claimed") /\ runner[p].at = "idle"
        /\ runner' = [runner EXCEPT ![p] = [at |-> "run", task |-> i]]
        /\ UNCHANGED <<today, advanced>>
    BY <1>2 DEF ClaimDue
  <2>2. RunnerTypes' /\ \A q \in Runners : runner'[q].at # "idle" => runner'[q].task \in Rows
    BY <2>1 DEF RunnerTypes, Rows
  <2>3. \A j \in Rows, stages \in SUBSET {"saturday", "sunday"} :
          OnTheMove(j, stages) => OnTheMove(j, stages)'
    BY <2>1 DEF RunnerTypes, OnTheMove
  <2> QED
    BY <1>1, <1>2, RowChangeKeeps, <2>1, <2>2, <2>3 DEF Status
<1>3. CASE DeliverOnce(p)
  <2>0. PICK k \in Rows : runner[p].task = k
    BY <1>3 DEF DeliverOnce
  <2>1. /\ Change(k, scheduled[k].due, "delivered") /\ runner[p].at = "run"
        /\ runner' = [runner EXCEPT ![p] = NotRunning]
        /\ UNCHANGED <<today, advanced>>
    BY <1>3, <2>0 DEF DeliverOnce, Row
  <2>2. RunnerTypes' /\ \A q \in Runners : runner'[q].at # "idle" => runner'[q].task \in Rows
    BY <2>1 DEF RunnerTypes, NotRunning
  <2>3. \A j \in Rows, stages \in SUBSET {"saturday", "sunday"} :
          OnTheMove(j, stages) => OnTheMove(j, stages)'
    BY <2>1 DEF RunnerTypes, OnTheMove
  <2> QED
    BY <1>1, RowChangeKeeps, <2>1, <2>2, <2>3 DEF Status
<1>4. CASE AdvanceDay(p)
  <2>0. PICK k \in Rows : runner[p].task = k
    BY <1>4 DEF AdvanceDay
  <2>1. /\ Change(k, Later(scheduled[k].due, 1), "pending") /\ runner[p].at = "run"
        /\ runner' = [runner EXCEPT ![p].at = "saturday"]
        /\ advanced' = advanced \cup {k} /\ UNCHANGED today
    BY <1>4, <2>0 DEF AdvanceDay, Row
  <2>2. /\ RunnerTypes' /\ \A q \in Runners : runner'[q].at # "idle" => runner'[q].task \in Rows
        /\ OnTheMove(k, {"saturday"})'
    BY <2>0, <2>1 DEF RunnerTypes, OnTheMove
  <2>3. \A j \in Rows, stages \in SUBSET {"saturday", "sunday"} :
          OnTheMove(j, stages) => OnTheMove(j, stages)'
    BY <2>1 DEF RunnerTypes, OnTheMove
  <2>4. Later(scheduled[k].due, 1) \in Due
    BY <1>1, <2>1, LaterIsDue
  <2> QED
    BY RowChangeKeeps, <2>1, <2>2, <2>3, <2>4 DEF Status
<1>5. CASE RetrySoon(p)
  <2>0. PICK k \in Rows : runner[p].task = k
    BY <1>5 DEF RetrySoon
  <2>1. PICK slot \in {r.due.slot : r \in Requests} :
          Change(k, [day |-> today, slot |-> slot, iso |-> FALSE], "pending")
    BY <1>5, <2>0 DEF RetrySoon
  <2>2. [day |-> today, slot |-> slot, iso |-> FALSE] \in Due
    BY TaskConstantsOK DEF Due
  <2>3. /\ runner[p].at = "run"
        /\ runner' = [runner EXCEPT ![p] = NotRunning]
        /\ advanced' = advanced \ {k} /\ UNCHANGED today
    BY <1>5, <2>0 DEF RetrySoon
  <2>4. RunnerTypes' /\ \A q \in Runners : runner'[q].at # "idle" => runner'[q].task \in Rows
    BY <2>3 DEF RunnerTypes, NotRunning
  <2>5. \A j \in Rows, stages \in SUBSET {"saturday", "sunday"} :
          OnTheMove(j, stages) => OnTheMove(j, stages)'
    BY <2>3 DEF RunnerTypes, OnTheMove
  <2> QED
    BY RowChangeKeeps, <2>1, <2>2, <2>3, <2>4, <2>5 DEF Status
<1> QED
  BY <1>2, <1>3, <1>4, <1>5

(* The second and the third UPDATE of a completion.                        *)
LEMMA SkipsKeep ==
  ASSUME TaskInv, NEW p \in Runners, SkipSaturday(p) \/ SkipSunday(p)
  PROVE  TaskInv'
<1> USE DEF TaskInv, TaskTypes
<1>0. PICK k \in Rows : runner[p].task = k
  BY DEF SkipSaturday, SkipSunday
<1> DEFINE d  == scheduled[k].due.day
           dd == scheduled'[k].due.day
<1>1. scheduled[k] \in Task /\ scheduled[k].due \in Due /\ d \in Nat
  <2>2. scheduled[k] \in Task
    BY DEF Rows
  <2>3. scheduled[k].due \in Due
    BY <2>2 DEF Task
  <2> QED
    BY <2>2, <2>3 DEF Due
<1>2. ASSUME NEW weekday \in {0, 6}, NEW days \in Nat, Skips(p, weekday, days)
      PROVE  /\ scheduled' \in Seq(Task) /\ Rows' = Rows /\ Pending' = Pending
             /\ \A j \in Rows : j # k => scheduled'[j] = scheduled[j]
             /\ dd = (IF Weekday(d) = weekday THEN d + days ELSE d)
             /\ CreatorTypes' /\ LooksHold' /\ FreshRowsDiffer' /\ fresh' \subseteq Rows
  <2>1. CASE Weekday(d) = weekday
    <3>1. Change(k, Later(scheduled[k].due, days), scheduled[k].status)
      BY <1>0, <1>2, <2>1 DEF Skips, Row
    <3>2. scheduled[k].status \in Status
      BY <1>1 DEF Task
    <3>3. /\ scheduled' \in Seq(Task) /\ Rows' = Rows
          /\ scheduled'[k].due = Later(scheduled[k].due, days)
          /\ scheduled'[k].status = scheduled[k].status
          /\ \A j \in Rows : j # k => scheduled'[j] = scheduled[j]
          /\ CreatorTypes' /\ LooksHold' /\ FreshRowsDiffer' /\ fresh' \subseteq Rows
      <4>1. Later(scheduled[k].due, days) \in Due
        BY <1>1, <1>2, LaterIsDue
      <4> QED
        BY <1>1, <3>1, <3>2, <4>1, ChangedRow
    <3>4. Pending' = Pending
      BY <3>3 DEF Pending
    <3> QED
      BY <1>1, <1>2, <2>1, <3>3, <3>4, LaterIsDue, ZenonT(30)
  <2>2. CASE Weekday(d) # weekday
    <3>1. UNCHANGED <<scheduled, creator, fresh>>
      BY <1>0, <1>2, <2>2 DEF Skips, Row
    <3> QED
      BY <2>2, <3>1 DEF Rows, Pending, CreatorTypes, LooksHold, FreshRowsDiffer
  <2> QED
    BY <2>1, <2>2
<1>3. ASSUME Pending' = Pending, UNCHANGED advanced,
             \A j \in Rows : j # k => scheduled'[j] = scheduled[j],
             \A q \in Runners : q # p => runner'[q] = runner[q],
             k \in Pending \cap advanced =>
               /\ Weekday(dd) = 6 => OnTheMove(k, {"saturday"})'
               /\ Weekday(dd) = 0 => OnTheMove(k, {"saturday", "sunday"})'
      PROVE  WeekendsAhead'
  <2> SUFFICES ASSUME NEW j \in Pending' \cap advanced'
               PROVE  /\ Weekday(scheduled'[j].due.day) = 6 => OnTheMove(j, {"saturday"})'
                      /\ Weekday(scheduled'[j].due.day) = 0 => OnTheMove(j, {"saturday", "sunday"})'
    BY DEF WeekendsAhead
  <2> j \in Pending \cap advanced
    BY <1>3
  <2>1. CASE j = k
    BY <1>3, <2>1
  <2>2. CASE j # k
    <3>1. scheduled'[j] = scheduled[j]
      BY <1>3, <2>2 DEF Pending
    <3>2. \A q \in Runners : runner[q].task = j => runner'[q] = runner[q]
      BY <1>0, <1>3, <2>2
    <3> QED
      BY <3>1, <3>2 DEF WeekendsAhead, OnTheMove
  <2> QED
    BY <2>1, <2>2
<1>4. CASE SkipSaturday(p)
  <2>1. /\ Skips(p, 6, 2) /\ runner[p].at = "saturday" /\ UNCHANGED <<today, advanced>>
        /\ runner' = [runner EXCEPT ![p].at = "sunday"]
    BY <1>4 DEF SkipSaturday
  <2>2. /\ RunnerTypes' /\ \A q \in Runners : q # p => runner'[q] = runner[q]
        /\ \A q \in Runners : runner'[q].at # "idle" => runner'[q].task \in Rows
        /\ runner'[p].at = "sunday" /\ runner'[p].task = k
    BY <1>0, <2>1 DEF RunnerTypes
  <2>3. Weekday(dd) # 6
    BY <1>1, <1>2, <2>1, WeekGoesOn
  <2>4. OnTheMove(k, {"saturday", "sunday"})'
    BY <2>2 DEF OnTheMove
  <2> QED
    BY <1>2, <1>3, <2>1, <2>2, <2>3, <2>4
<1>5. CASE SkipSunday(p)
  <2>1. /\ Skips(p, 0, 1) /\ runner[p].at = "sunday" /\ UNCHANGED <<today, advanced>>
        /\ runner' = [runner EXCEPT ![p] = NotRunning]
    BY <1>5 DEF SkipSunday
  <2>2. /\ RunnerTypes' /\ \A q \in Runners : q # p => runner'[q] = runner[q]
        /\ \A q \in Runners : runner'[q].at # "idle" => runner'[q].task \in Rows
    BY <2>1 DEF RunnerTypes, NotRunning
  <2>3. Weekday(dd) # 0 /\ (Weekday(dd) = 6 => Weekday(d) = 6)
    BY <1>1, <1>2, <2>1, WeekGoesOn
  <2>4. k \in Pending \cap advanced /\ Weekday(d) = 6 => OnTheMove(k, {"saturday"})'
    <3> SUFFICES ASSUME k \in Pending \cap advanced, Weekday(d) = 6
                 PROVE  OnTheMove(k, {"saturday"})'
      OBVIOUS
    <3>1. PICK q \in Runners : runner[q].task = k /\ runner[q].at = "saturday"
      BY DEF WeekendsAhead, OnTheMove
    <3>2. runner'[q] = runner[q]
      BY <2>1, <2>2, <3>1
    <3> QED
      BY <3>1, <3>2 DEF OnTheMove
  <2> QED
    BY <1>2, <1>3, <2>1, <2>2, <2>3, <2>4
<1> QED
  BY <1>4, <1>5

LEMMA OthersKeep ==
  ASSUME TaskInv, (\E p \in Runners : RunnerDies(p)) \/ DayPasses
  PROVE  TaskInv'
<1> USE DEF TaskInv, TaskTypes
<1>1. /\ UNCHANGED <<scheduled, creator, fresh>> /\ Rows' = Rows /\ Pending' = Pending
      /\ today' \in Nat
  BY DEF RunnerDies, DayPasses, Rows, Pending
<1>2. CreatorTypes' /\ LooksHold' /\ FreshRowsDiffer'
  BY <1>1 DEF CreatorTypes, LooksHold, FreshRowsDiffer
<1>3. CASE DayPasses
  BY <1>1, <1>2, <1>3 DEF DayPasses, WeekendsAhead, OnTheMove, RunnerTypes
<1>4. ASSUME NEW p \in Runners, RunnerDies(p) PROVE TaskInv'
  <2>1. /\ advanced' = advanced \ {runner[p].task}
        /\ runner' = [runner EXCEPT ![p] = NotRunning]
    BY <1>4 DEF RunnerDies
  <2>2. RunnerTypes' /\ \A q \in Runners : runner'[q].at # "idle" => runner'[q].task \in Rows
    BY <2>1 DEF RunnerTypes, NotRunning
  <2>3. WeekendsAhead'
    BY <1>1, <2>1 DEF WeekendsAhead, OnTheMove, RunnerTypes
  <2> QED
    BY <1>1, <1>2, <2>1, <2>2, <2>3
<1> QED
  BY <1>3, <1>4

-----------------------------------------------------------------------------
LEMMA InvIsEnough == TaskInv => TasksAsAsked
<1> SUFFICES ASSUME TaskInv PROVE NoTwins /\ WeekendsOff
  BY DEF TasksAsAsked
<1>1. NoTwins
  <2>1. ASSUME NEW i \in Pending \cap fresh PROVE AsTime(scheduled[i]) = scheduled[i]
    <3>1. scheduled[i] \in Task /\ scheduled[i].due.iso = FALSE
      <4>1. i \in Rows /\ scheduled \in Seq(Task) /\ ~ scheduled[i].due.iso
        BY <2>1 DEF TaskInv, TaskTypes, FreshRowsDiffer, Pending
      <4>2. scheduled[i] \in Task
        BY <4>1 DEF Rows
      <4>3. scheduled[i].due.iso \in BOOLEAN
        BY <4>2 DEF Task, Due
      <4> QED
        BY <4>1, <4>2, <4>3, Zenon
    <3>2. [scheduled[i].due EXCEPT !.iso = FALSE] = scheduled[i].due
      BY <3>1 DEF Task, Due
    <3> QED
      BY <3>1, <3>2 DEF AsTime, Task
  <2> QED
    BY <2>1 DEF NoTwins, TaskInv, FreshRowsDiffer
<1>2. WeekendsOff
  BY DEF WeekendsOff, TaskInv, WeekendsAhead, OnTheMove
<1> QED
  BY <1>1, <1>2

(* What TasksAsAsked says of create_task and complete_task (tasks.rs):     *)
(* tasks that were looked for undisturbed have no twin, and a weekday task *)
(* that completions leave is not due on a weekend, in every memory.        *)
THEOREM TasksStayAsAsked == MemorySpec => []TasksAsAsked
<1> DEFINE Inv == TaskInv /\ plan \in Plans
<1>1. MemoryInit => Inv
  BY TasksStart DEF MemoryInit, TasksInit
<1>2. Inv /\ [MemoryNext]_memoryVars => Inv'
  <2> SUFFICES ASSUME TaskInv, plan \in Plans, [MemoryNext]_memoryVars
               PROVE  TaskInv' /\ plan' \in Plans
    OBVIOUS
  <2>1. CASE TaskStep
    <3>1. TaskWork /\ plan' = plan
      BY <2>1 DEF TaskStep, TasksNext
    <3>2. CASE DayPasses \/ \E p \in Runners : RunnerDies(p)
      BY <3>1, <3>2, OthersKeep
    <3>3. CASE \E c \in Creators :
                 (\E r \in Requests : LookForSame(c, r)) \/ LookForSimilar(c) \/ CreationEnds(c)
      BY <3>1, <3>3, CreationKeeps
    <3>4. CASE \E c \in Creators : InsertTask(c)
      BY <3>1, <3>4, InsertKeeps
    <3>5. CASE \E p \in Runners : SkipSaturday(p) \/ SkipSunday(p)
      BY <3>1, <3>5, SkipsKeep
    <3>6. CASE \E i \in Rows, r \in Requests : DeferTask(i, r.due)
      <4>1. \A r \in Requests : r.due \in Due
        BY TaskConstantsOK
      <4> QED
        BY <3>1, <3>6, <4>1, DeferringKeeps
    <3>7. CASE \E p \in Runners : (\E i \in Rows : ClaimDue(p, i)) \/ DeliverOnce(p)
                                     \/ AdvanceDay(p) \/ RetrySoon(p)
      BY <3>1, <3>7, RunsKeep
    <3> QED
      BY <3>1, <3>2, <3>3, <3>4, <3>5, <3>6, <3>7, TaskConstantsOK DEF TaskWork
  <2>2. CASE UNCHANGED taskVars
    BY <2>2 DEF taskVars, TaskInv, TaskTypes, CreatorTypes, RunnerTypes, LooksHold,
                FreshRowsDiffer, WeekendsAhead, OnTheMove, Rows, Pending
  <2> QED
    BY <2>1, <2>2 DEF MemoryNext, Upkeep, SenderStep, memoryVars
<1>3. Inv => TasksAsAsked
  BY InvIsEnough
<1> QED
  BY <1>1, <1>2, <1>3, PTL DEF MemorySpec

=============================================================================
