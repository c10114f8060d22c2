-------------------------- MODULE RuntimeTurnsProofs --------------------------
(***************************************************************************)
(* Proofs about RuntimeTurns for every number of workers, turns, ticks and *)
(* closers, every set of projects and every length of the history.         *)
(***************************************************************************)
EXTENDS RuntimeTurns, FiniteSetTheorems, NaturalsInduction, WellFoundedInduction, TLAPS

(* A turn in flight has a number of its own; from the moment it has got    *)
(* its conversation until it is given up, it holds an existing row.        *)
Placed == {"load", "count", "overflow", "ask", "question", "answer"}

TurnsNumbered ==
  /\ \A w \in Workers : ~ InFlight(w) => turn[w] = NoTurn
  /\ \A w \in Workers : InFlight(w) => turn[w].n \in 1..begun /\ turn[w].project \in Projects
  /\ \A w \in Workers : turn[w].stage \in Placed => turn[w].conv \in DOMAIN convs
  /\ \A v, w \in Workers : InFlight(v) /\ InFlight(w) /\ turn[v].n = turn[w].n => v = w

TypeInv == TypeOK /\ TurnsNumbered

-----------------------------------------------------------------------------
(* What a turn has written by the stage it is at.                          *)

Unwritten == Stages \ {"idle", "answer", "bill late"}

IsRow(i, role, n, c) == msgs[i].role = role /\ msgs[i].turn = n /\ msgs[i].conv = c

RowsPaired ==
  /\ \A i \in DOMAIN msgs : msgs[i].turn \in 1..begun
  /\ \A i, j \in DOMAIN msgs : msgs[i].turn = msgs[j].turn /\ msgs[i].role = msgs[j].role => i = j
  /\ \A j \in DOMAIN msgs : msgs[j].role = "assistant" =>
       \E i \in DOMAIN msgs : i < j /\ IsRow(i, "user", msgs[j].turn, msgs[j].conv)
  /\ \A i \in DOMAIN msgs : msgs[i].role = "user" =>
       \/ \E j \in DOMAIN msgs : IsRow(j, "assistant", msgs[i].turn, msgs[i].conv)
       \/ msgs[i].turn \in cut
       \/ \E w \in Workers : turn[w].n = msgs[i].turn /\ At(w, "answer")

StagesWritten ==
  /\ \A w \in Workers : turn[w].stage \in Unwritten =>
       \A i \in DOMAIN msgs : msgs[i].turn # turn[w].n
  /\ \A w \in Workers : At(w, "answer") =>
       /\ \E i \in DOMAIN msgs : IsRow(i, "user", turn[w].n, turn[w].conv)
       /\ \A i \in DOMAIN msgs : msgs[i].turn = turn[w].n => msgs[i].role = "user"

NonAnswersOver ==
  /\ exhausted \subseteq billed
  /\ \A i \in DOMAIN msgs : msgs[i].turn \notin exhausted
  /\ \A w \in Workers : turn[w].n \notin exhausted

NothingDirty ==
  Guarded =>
    /\ \A i \in DOMAIN msgs : msgs[i].text # "dirty"
    /\ \A w \in Workers : turn[w].text # "dirty" /\ turn[w].reply # "dirty"

ExchangeInv == RowsPaired /\ StagesWritten /\ NonAnswersOver /\ NothingDirty

-----------------------------------------------------------------------------
(* What a turn has read by the stage it is at: the rows its conversation   *)
(* had when the history was loaded do not change any more.                 *)

UpTo(m, c, k) == {i \in 1..k : m[i].conv = c}
In(s, i)      == \E k \in DOMAIN s : s[k] = i

HistoryLoaded ==
  \A w \in Workers : turn[w].stage \in {"count", "overflow", "ask"} =>
    /\ turn[w].asOf \in 0..Len(msgs)
    /\ \A i \in Newest(UpTo(msgs, turn[w].conv, turn[w].asOf), MaxContext) : In(turn[w].history, i)

OverflowCounted ==
  \A w \in Workers : At(w, "overflow") =>
    Cardinality(UpTo(msgs, turn[w].conv, turn[w].asOf)) <= turn[w].over + MaxContext

LoadInv == HistoryLoaded /\ OverflowCounted /\ NothingDropped

-----------------------------------------------------------------------------
(* Who serves a key: while no two turns have met on it, one turn at a time *)
(* does, and what that turn holds or is about to hold is the only live     *)
(* conversation.                                                           *)

Reading == {"get", "load", "count", "overflow", "ask"}
Writing == {"get again", "question", "answer"}

ServesKey(w, key) ==
  \/ turn[w].stage \in Reading /\ key = ReadKey(turn[w].project)
  \/ turn[w].stage \in Writing /\ key = WriteKey(turn[w].project)

OneServer ==
  \A key \in Keys \ overlap : \A v, w \in Workers :
    /\ InFlight(v) /\ key \in KeysOf(turn[v].project)
    /\ InFlight(w) /\ key \in KeysOf(turn[w].project)
    => v = w

OneCandidate == \A key \in Keys \ overlap : \A c, d \in Candidates(key) : c = d

HoldsTheLiveOne ==
  \A w \in Workers : \A key \in Keys \ overlap :
    ServesKey(w, key) => Candidates(key) \subseteq {turn[w].conv}

HeldServesKey ==
  \A w \in Workers : \A key \in Keys :
    ServesKey(w, key) /\ turn[w].conv # None => convs[turn[w].conv].project = key

KeyInv == OneServer /\ OneCandidate /\ HoldsTheLiveOne /\ HeldServesKey

IInv == TypeInv /\ ExchangeInv /\ LoadInv /\ KeyInv

-----------------------------------------------------------------------------
(* Type correctness.                                                       *)

LEMMA NoTurnTyped == NoTurn \in Turn
  BY DEF NoTurn, Turn, Stages, Texts, None

LEMMA ProjectKeys ==
  ASSUME NEW p \in Projects
  PROVE  ReadKey(p) \in Keys /\ WriteKey(p) \in Keys /\ KeysOf(p) \subseteq Keys
  BY TurnConstantsOK DEF KeysOf

(* get_or_create_conversation leaves every row where it is, and the row it *)
(* has got is there.                                                       *)
LEMMA GotTyped ==
  ASSUME convs \in Seq(Conversation), NEW c \in DOMAIN convs \cup {None}, NEW key \in Keys
  PROVE  /\ AfterGetOrCreate(c, key) \in Seq(Conversation)
         /\ DOMAIN convs \subseteq DOMAIN AfterGetOrCreate(c, key)
         /\ GotOrCreated(c) \in DOMAIN AfterGetOrCreate(c, key)
<1>1. CASE c = None
  <2>1. [project |-> key, status |-> "active", idle |-> 0] \in Conversation
    BY StoreConstantsOK DEF Conversation
  <2>. QED  BY <1>1, <2>1 DEF AfterGetOrCreate, GotOrCreated
<1>2. CASE c # None
  <2>1. c \in DOMAIN convs /\ convs[c] \in Conversation
    BY <1>2
  <2>2. [convs[c] EXCEPT !.idle = 0] \in Conversation
    BY <2>1, StoreConstantsOK, SMTT(30) DEF Conversation
  <2>3. AfterGetOrCreate(c, key) = [convs EXCEPT ![c] = [convs[c] EXCEPT !.idle = 0]]
    BY <1>2 DEF AfterGetOrCreate
  <2>. QED  BY <1>2, <2>1, <2>2, <2>3 DEF GotOrCreated
<1>. QED  BY <1>1, <1>2

LEMMA ClosedTyped ==
  ASSUME convs \in Seq(Conversation), NEW S
  PROVE  Closed(S) \in Seq(Conversation) /\ DOMAIN Closed(S) = DOMAIN convs
<1>1. ASSUME NEW c \in DOMAIN convs PROVE [convs[c] EXCEPT !.status = "closed"] \in Conversation
  <2>1. convs[c] \in Conversation
    OBVIOUS
  <2>. QED  BY <2>1 DEF Conversation
<1>2. \A c \in DOMAIN convs : Closed(S)[c] \in Conversation
  BY <1>1 DEF Closed
<1>3. DOMAIN Closed(S) = 1..Len(convs)
  BY DEF Closed
<1>. QED  BY <1>2, <1>3 DEF Closed

LEMMA OlderTyped ==
  ASSUME convs \in Seq(Conversation)
  PROVE  Older \in Seq(Conversation) /\ DOMAIN Older = DOMAIN convs
<1>1. ASSUME NEW c \in DOMAIN convs, convs[c].idle < Timeout
      PROVE  [convs[c] EXCEPT !.idle = @ + 1] \in Conversation
  <2>1. convs[c] \in Conversation
    OBVIOUS
  <2>. QED  BY <1>1, <2>1, StoreConstantsOK DEF Conversation
<1>2. \A c \in DOMAIN convs : Older[c] \in Conversation
  BY <1>1 DEF Older
<1>3. DOMAIN Older = 1..Len(convs)
  BY DEF Older
<1>. QED  BY <1>2, <1>3 DEF Older

(* A turn moves on, or ends, and keeps its number.                         *)
Continues(w, t) ==
  /\ t \in Turn
  /\ t.stage # "idle" /\ t.n = turn[w].n /\ t.project = turn[w].project

LEMMA TurnMoves ==
  ASSUME TypeInv, NEW w \in Workers, NEW t \in Turn, Set(w, t), begun' = begun,
         InFlight(w), t = NoTurn \/ Continues(w, t),
         DOMAIN convs \subseteq DOMAIN convs',
         t.conv \in DOMAIN convs' \cup {None}, t.stage \in Placed => t.conv \in DOMAIN convs'
  PROVE  /\ TurnsNumbered'
         /\ turn' \in [Workers -> Turn]
         /\ \A v \in Workers : turn'[v].stage \in Stages /\ turn'[v].conv \in DOMAIN convs' \cup {None}
<1>1. turn \in [Workers -> Turn]
  BY DEF TypeInv, TypeOK
<1>2. turn'[w] = t /\ turn' \in [Workers -> Turn] /\ \A v \in Workers \ {w} : turn'[v] = turn[v]
  BY <1>1 DEF Set
<1>3. t.stage \in Stages
  BY DEF Turn
<1>4. \A v \in Workers : turn'[v].stage \in Stages /\ turn'[v].conv \in DOMAIN convs' \cup {None}
  BY <1>2, <1>3 DEF TypeInv, TypeOK
<1>5. NoTurn.stage = "idle"
  BY DEF NoTurn
<1>6. \A v \in Workers : turn'[v].stage = "idle" => turn'[v] = NoTurn
  BY <1>2 DEF TypeInv, TurnsNumbered, InFlight, Continues
<1>7. \A v \in Workers : turn'[v].stage # "idle" =>
        /\ turn[v].stage # "idle"
        /\ turn'[v].n = turn[v].n /\ turn'[v].project = turn[v].project
  BY <1>2, <1>5 DEF InFlight, Continues
<1>8. \A v \in Workers : turn'[v].stage \in Placed => turn'[v].conv \in DOMAIN convs'
  BY <1>2 DEF TypeInv, TurnsNumbered
<1>9. TurnsNumbered'
  BY <1>6, <1>7, <1>8 DEF TypeInv, TurnsNumbered, InFlight
<1>. QED  BY <1>2, <1>4, <1>9

(* The rows of conversations stay typed and in place in every step.        *)
LEMMA ConvsTyped ==
  ASSUME TypeInv, [Next]_vars
  PROVE  convs' \in Seq(Conversation) /\ DOMAIN convs \subseteq DOMAIN convs'
<1>0. convs \in Seq(Conversation)
  BY DEF TypeInv, TypeOK, StoreTypeOK
<1>1. ASSUME NEW w \in Workers, Get(w) \/ GetAgain(w)
      PROVE  convs' \in Seq(Conversation) /\ DOMAIN convs \subseteq DOMAIN convs'
  <2>1. turn[w].project \in Projects /\ turn[w].conv \in DOMAIN convs \cup {None}
    BY <1>1 DEF TypeInv, TypeOK, TurnsNumbered, Get, GetAgain, At, InFlight
  <2>2. PICK key \in Keys : convs' = AfterGetOrCreate(turn[w].conv, key)
    BY <1>1, <2>1, ProjectKeys DEF Get, GetAgain
  <2>. QED  BY <1>0, <2>1, <2>2, GotTyped
<1>2. CASE \E S : convs' = Closed(S)
  BY <1>0, <1>2, ClosedTyped
<1>3. CASE convs' = Older
  BY <1>0, <1>3, OlderTyped
<1>4. ASSUME NEW w \in Workers, TurnStep(w), ~ (Get(w) \/ GetAgain(w))
      PROVE  UNCHANGED convs
  BY <1>4 DEF TurnStep, storeVars, Begin, Find, Load, Count, Summarize, Reply, StreamEnds,
     RunEnds, FindAgain, StoreQuestion, StoreAnswer, StoreMessage, BillLate, Abort
<1>5. CloserStep => UNCHANGED convs \/ \E S : convs' = Closed(S)
  BY DEF CloserStep, StartClosing, Close, CloseCurrent, storeVars
<1>6. CASE Next
  BY <1>0, <1>1, <1>2, <1>3, <1>4, <1>5, <1>6 DEF Next, NextSecond, Tick
<1>. QED  BY <1>0, <1>6 DEF vars, storeVars

(* So do the rows of messages: the new one is of a turn in flight and in   *)
(* the conversation which that turn holds.                                 *)
LEMMA MsgsTyped ==
  ASSUME TypeInv, [Next]_vars
  PROVE  /\ msgs' \in Seq(Message) /\ second' \in Nat
         /\ \A i \in DOMAIN msgs' : msgs'[i].conv \in DOMAIN convs' /\ msgs'[i].at <= second'
<1>0. /\ msgs \in Seq(Message) /\ second \in Nat
      /\ \A i \in DOMAIN msgs : msgs[i].conv \in DOMAIN convs /\ msgs[i].at <= second
  BY DEF TypeInv, TypeOK, StoreTypeOK
<1>1. convs' \in Seq(Conversation) /\ DOMAIN convs \subseteq DOMAIN convs'
  BY ConvsTyped
<1>2. ASSUME NEW w \in Workers, NEW role \in Roles, NEW text \in Texts,
             turn[w].stage \in {"question", "answer"},
             StoreMessage(turn[w].conv, role, turn[w].n, text)
      PROVE  /\ msgs' \in Seq(Message) /\ second' \in Nat
             /\ \A i \in DOMAIN msgs' : msgs'[i].conv \in DOMAIN convs' /\ msgs'[i].at <= second'
    <2>1. /\ turn[w].n \in 1..begun /\ turn[w].conv \in DOMAIN convs
      BY <1>2 DEF TypeInv, TurnsNumbered, InFlight, Placed
    <2>2. turn[w].n \in Nat \ {0} /\ turn[w].conv \in Nat \ {0}
      BY <2>1 DEF TypeInv, TypeOK, StoreTypeOK
    <2> DEFINE m == [conv |-> turn[w].conv, role |-> role, turn |-> turn[w].n, text |-> text, at |-> second]
    <2>3. m \in Message
      BY <2>2, <1>0 DEF Message
    <2>4. msgs' = Append(msgs, m) /\ second' = second
      BY <1>2 DEF StoreMessage
    <2>5. m.conv = turn[w].conv /\ m.at = second
      OBVIOUS
    <2> HIDE DEF m
    <2>6. \A i \in DOMAIN msgs' : msgs'[i] = m \/ (i \in DOMAIN msgs /\ msgs'[i] = msgs[i])
      BY <2>3, <2>4, <1>0
    <2>. QED  BY <1>0, <1>1, <2>1, <2>3, <2>4, <2>5, <2>6
<1>3. ASSUME NEW w \in Workers, StoreQuestion(w) \/ StoreAnswer(w)
      PROVE  \E role \in Roles : \E text \in Texts :
               /\ turn[w].stage \in {"question", "answer"}
               /\ StoreMessage(turn[w].conv, role, turn[w].n, text)
  <2>1. turn[w].text \in Texts /\ turn[w].reply \in Texts
    BY DEF TypeInv, TypeOK, Turn
  <2>. QED  BY <1>3, <2>1 DEF StoreQuestion, StoreAnswer, At, Roles
<1>4. ASSUME NEW w \in Workers, TurnStep(w), ~ (StoreQuestion(w) \/ StoreAnswer(w))
      PROVE  UNCHANGED <<msgs, second>>
  BY <1>4 DEF TurnStep, storeVars, Begin, Find, Get, Load, Count, Summarize, Reply, StreamEnds,
     RunEnds, FindAgain, GetAgain, BillLate, Abort
<1>5. CASE UNCHANGED msgs /\ second' \in Nat /\ second <= second'
  <2>1. \A i \in DOMAIN msgs : msgs[i] \in Message
    BY <1>0
  <2>2. \A i \in DOMAIN msgs : msgs[i].at \in Nat
    BY <2>1 DEF Message
  <2>. QED  BY <1>0, <1>1, <1>5, <2>2
<1>6. CloserStep => UNCHANGED <<msgs, second>>
  BY DEF CloserStep, StartClosing, Close, CloseCurrent, storeVars
<1>7. NextSecond \/ Tick => UNCHANGED msgs /\ second' \in Nat /\ second <= second'
  BY <1>0 DEF NextSecond, Tick
<1>8. CASE Next
  BY <1>0, <1>2, <1>3, <1>4, <1>5, <1>6, <1>7, <1>8 DEF Next
<1>. QED  BY <1>0, <1>5, <1>8 DEF vars, storeVars

(* A turn that is not begun has nobody's number.                           *)
LEMMA TurnBegins ==
  ASSUME TypeInv, [Next]_vars, NEW w \in Workers, NEW p \in Projects,
         NEW mode \in Modes, NEW text \in Requests, Begin(w, p, mode, text)
  PROVE  /\ TurnsNumbered'
         /\ turn' \in [Workers -> Turn]
         /\ \A v \in Workers : turn'[v].stage \in Stages /\ turn'[v].conv \in DOMAIN convs' \cup {None}
<1> DEFINE t == [NoTurn EXCEPT !.stage = "find", !.mode = mode, !.project = p,
                               !.n = begun + 1, !.text = text]
<1>0. begun \in Nat /\ begun' = begun + 1 /\ begun < MaxTurns
  BY TurnConstantsOK DEF TypeInv, TypeOK, Begin
<1>1. /\ t \in Turn /\ t.stage = "find" /\ t.project = p /\ t.n = begun + 1 /\ t.conv = None
  <2>1. mode \in {"complete", "run", "stream"}
    BY TurnConstantsOK
  <2>2. text \in Texts
    BY DEF Requests, Texts
  <2>3. begun + 1 \in Nat
    BY <1>0
  <2>. QED  BY <2>1, <2>2, <2>3, NoTurnTyped DEF NoTurn, Turn, Stages
<1>2. turn'[w] = t /\ turn' \in [Workers -> Turn] /\ \A v \in Workers \ {w} : turn'[v] = turn[v]
  BY <1>1 DEF Set, TypeInv, TypeOK, Begin
<1>3. convs' = convs
  BY DEF Begin, storeVars
<1> HIDE DEF t
<1>4. \A v \in Workers : turn'[v].stage \in Stages /\ turn'[v].conv \in DOMAIN convs' \cup {None}
  BY <1>1, <1>2, <1>3 DEF TypeInv, TypeOK, Stages
<1>5. \A v \in Workers \ {w} : InFlight(v) => turn[v].n \in 1..begun
  BY DEF TypeInv, TurnsNumbered
<1>6. \A v \in Workers : turn'[v].stage = "idle" => turn'[v] = NoTurn
  BY <1>1, <1>2 DEF TypeInv, TurnsNumbered, InFlight
<1>7. \A v \in Workers : turn'[v].stage # "idle" => turn'[v].n \in 1..begun' /\ turn'[v].project \in Projects
  BY <1>0, <1>1, <1>2, <1>5 DEF TypeInv, TurnsNumbered, InFlight
<1>8. \A v \in Workers : turn'[v].stage \in Placed => turn'[v].conv \in DOMAIN convs'
  BY <1>1, <1>2, <1>3 DEF TypeInv, TurnsNumbered, Placed
<1>9. \A u, v \in Workers : turn'[u].stage # "idle" /\ turn'[v].stage # "idle" /\ turn'[u].n = turn'[v].n => u = v
  BY <1>0, <1>1, <1>2, <1>5 DEF TypeInv, TurnsNumbered, InFlight
<1>10. TurnsNumbered'
  BY <1>6, <1>7, <1>8, <1>9 DEF TurnsNumbered, InFlight
<1>. QED  BY <1>2, <1>4, <1>10

(* The newest rows in some order are a sequence of rows.                   *)
LEMMA OrderTyped ==
  ASSUME NEW S \in SUBSET Nat, IsFiniteSet(S), NEW s \in OrdersOf(S)
  PROVE  s \in Seq(Nat) /\ Len(s) = Cardinality(S)
<1>1. Cardinality(S) \in Nat
  BY FS_CardinalityType
<1>2. s \in [1..Cardinality(S) -> S]
  BY DEF OrdersOf
<1>3. s \in [1..Cardinality(S) -> Nat]
  BY <1>2
<1>4. s \in Seq(Nat)
  BY <1>1, <1>3
<1>5. Len(s) = Cardinality(S)
  BY <1>1, <1>3, <1>4
<1>. QED  BY <1>4, <1>5

LEMMA RowsFinite ==
  ASSUME TypeInv, NEW c
  PROVE  Rows(c) \in SUBSET Nat /\ IsFiniteSet(Rows(c)) /\ Cardinality(Rows(c)) \in Nat
<1>1. DOMAIN msgs = 1..Len(msgs) /\ Len(msgs) \in Nat
  BY DEF TypeInv, TypeOK, StoreTypeOK
<1>2. IsFiniteSet(1..Len(msgs))
  BY <1>1, FS_Interval
<1>3. Rows(c) \in SUBSET (1..Len(msgs))
  BY <1>1 DEF Rows
<1>4. IsFiniteSet(Rows(c))
  BY <1>2, <1>3, FS_Subset
<1>. QED  BY <1>1, <1>3, <1>4, FS_CardinalityType

(* The steps of a turn in flight: each is TurnMoves with the turn it sets. *)
LEMMA TurnStepTyped ==
  ASSUME TypeInv, [Next]_vars, NEW w \in Workers, TurnStep(w)
  PROVE  /\ TurnsNumbered'
         /\ turn' \in [Workers -> Turn]
         /\ \A v \in Workers : turn'[v].stage \in Stages /\ turn'[v].conv \in DOMAIN convs' \cup {None}
<1>. DEFINE Done == /\ TurnsNumbered'
                    /\ turn' \in [Workers -> Turn]
                    /\ \A v \in Workers : turn'[v].stage \in Stages
                                         /\ turn'[v].conv \in DOMAIN convs' \cup {None}
<1>0. /\ turn[w] \in Turn /\ turn[w].conv \in DOMAIN convs \cup {None}
      /\ turn[w].stage \in Placed => turn[w].conv \in DOMAIN convs
  BY DEF TypeInv, TypeOK, TurnsNumbered
<1>1. DOMAIN convs \subseteq DOMAIN convs'
  BY ConvsTyped
<1>2. ASSUME NEW t \in Turn, Set(w, t), begun' = begun, InFlight(w), t = NoTurn \/ Continues(w, t),
             t.conv \in DOMAIN convs' \cup {None}, t.stage \in Placed => t.conv \in DOMAIN convs'
      PROVE  Done
  BY <1>1, <1>2, TurnMoves
<1>3. ASSUME Set(w, NoTurn), begun' = begun, InFlight(w) PROVE Done
  <2>1. NoTurn.conv = None /\ NoTurn.stage \notin Placed
    BY DEF NoTurn, Placed
  <2>. QED  BY <1>2, <1>3, <2>1, NoTurnTyped
<1> HIDE DEF Done
<1>. SUFFICES Done
  BY DEF Done
<1>4. ASSUME NEW p \in Projects, NEW mode \in Modes, NEW text \in Requests, Begin(w, p, mode, text)
      PROVE  Done
  BY <1>4, TurnBegins DEF Done
<1>5. CASE Find(w) \/ FindAgain(w)
  <2>1. PICK key, c, stage, t :
          /\ c \in Found(key) /\ stage \in {"get", "get again"}
          /\ t = [turn[w] EXCEPT !.stage = stage, !.conv = c] /\ Set(w, t)
    BY <1>5 DEF Find, FindAgain
  <2>2. c \in DOMAIN convs \cup {None}
    BY <2>1 DEF Found, Candidates
  <2>3. c \in Nat
    BY <2>2 DEF None, TypeInv, TypeOK, StoreTypeOK
  <2>4. t \in Turn /\ t.conv = c /\ t.stage = stage /\ Continues(w, t)
    BY <1>0, <2>1, <2>3 DEF Turn, Stages, Continues
  <2>5. begun' = begun /\ InFlight(w)
    BY <1>5 DEF Find, FindAgain, historyVars, InFlight, At
  <2>6. stage \notin Placed
    BY <2>1 DEF Placed
  <2>. QED  BY <1>1, <1>2, <2>1, <2>2, <2>4, <2>5, <2>6
<1>6. CASE Get(w) \/ GetAgain(w)
  <2>0. PICK stage :
          /\ stage \in {"load", "question"}
          /\ Set(w, [turn[w] EXCEPT !.stage = stage, !.conv = GotOrCreated(@)])
    BY <1>6 DEF Get, GetAgain
  <2>1. PICK t : t = [turn[w] EXCEPT !.stage = stage, !.conv = GotOrCreated(turn[w].conv)] /\ Set(w, t)
    BY <2>0 DEF Set
  <2>2. begun' = begun /\ InFlight(w)
    BY <1>6 DEF Get, GetAgain, historyVars, InFlight, At
  <2>3. PICK key \in Keys : convs' = AfterGetOrCreate(turn[w].conv, key)
    BY <1>6, <2>2, ProjectKeys DEF Get, GetAgain, TypeInv, TurnsNumbered
  <2>4. GotOrCreated(turn[w].conv) \in DOMAIN convs' /\ convs' \in Seq(Conversation)
    BY <1>0, <2>3, GotTyped DEF TypeInv, TypeOK, StoreTypeOK
  <2>5. GotOrCreated(turn[w].conv) \in Nat
    BY <2>4
  <2>6. t \in Turn /\ t.conv = GotOrCreated(turn[w].conv) /\ Continues(w, t)
    BY <1>0, <2>0, <2>1, <2>5 DEF Turn, Stages, Continues
  <2>. QED  BY <1>2, <2>1, <2>2, <2>4, <2>6
<1>7. CASE Load(w)
  <2>1. PICK s, stage, t :
          /\ s \in OrdersOf(Newest(Rows(turn[w].conv), MaxContext)) /\ stage \in {"count", "ask"}
          /\ t = [turn[w] EXCEPT !.history = s, !.asOf = Len(msgs), !.stage = stage] /\ Set(w, t)
    BY <1>7 DEF Load
  <2>2. begun' = begun /\ InFlight(w) /\ convs' = convs /\ turn[w].stage \in Placed
    BY <1>7 DEF Load, historyVars, storeVars, InFlight, At, Placed
  <2>3. s \in Seq(Nat)
    <3>1. Newest(Rows(turn[w].conv), MaxContext) \in SUBSET Rows(turn[w].conv)
      BY DEF Newest
    <3>2. IsFiniteSet(Newest(Rows(turn[w].conv), MaxContext))
      BY <3>1, RowsFinite, FS_Subset
    <3>. QED  BY <2>1, <3>1, <3>2, RowsFinite, OrderTyped
  <2>4. Len(msgs) \in Nat
    BY DEF TypeInv, TypeOK, StoreTypeOK
  <2>5. t \in Turn /\ t.conv = turn[w].conv /\ Continues(w, t)
    BY <1>0, <2>1, <2>3, <2>4 DEF Turn, Stages, Continues
  <2>. QED  BY <1>0, <1>2, <2>1, <2>2, <2>5
<1>8. CASE Count(w)
  <2>. DEFINE stage == IF Overflow(turn[w].conv) > 0 /\ AutoCompact THEN "overflow" ELSE "ask"
  <2>1. PICK t : t = [turn[w] EXCEPT !.over = Overflow(turn[w].conv), !.stage = stage] /\ Set(w, t)
    BY <1>8 DEF Count
  <2>2. begun' = begun /\ InFlight(w) /\ convs' = convs /\ turn[w].stage \in Placed
    BY <1>8 DEF Count, historyVars, storeVars, InFlight, At, Placed
  <2>3. Overflow(turn[w].conv) \in Nat
    BY RowsFinite, StoreConstantsOK DEF Overflow
  <2>4. t \in Turn /\ t.conv = turn[w].conv /\ Continues(w, t)
    BY <1>0, <2>1, <2>3 DEF Turn, Stages, Continues
  <2>. QED  BY <1>0, <1>2, <2>1, <2>2, <2>4
<1>9. CASE Summarize(w)
  <2>1. PICK S, t :
          /\ S = Oldest(Rows(turn[w].conv), turn[w].over)
          /\ t = [turn[w] EXCEPT !.stage = "ask", !.summary = S] /\ Set(w, t)
    BY <1>9 DEF Summarize
  <2>2. begun' = begun /\ InFlight(w) /\ convs' = convs /\ turn[w].stage \in Placed
    BY <1>9 DEF Summarize, historyVars, storeVars, InFlight, At, Placed
  <2>3. S \in SUBSET Nat
    BY <2>1, RowsFinite DEF Oldest
  <2>4. t \in Turn /\ t.conv = turn[w].conv /\ Continues(w, t)
    BY <1>0, <2>1, <2>3 DEF Turn, Stages, Continues
  <2>. QED  BY <1>0, <1>2, <2>1, <2>2, <2>4
<1>10. ASSUME NEW reply \in Texts, Reply(w, reply) \/ StreamEnds(w, reply)
       PROVE  Done
  <2>1. PICK r, t : r \in Texts /\ t = Replied(w, r) /\ Set(w, t)
    BY <1>10 DEF Reply, StreamEnds, Texts
  <2>2. begun' = begun /\ InFlight(w)
    BY <1>10 DEF Reply, StreamEnds, historyVars, InFlight, At
  <2>3. PICK stage \in {"bill", "find again"} :
          t = [NoTurn EXCEPT !.stage = stage, !.mode = turn[w].mode, !.project = turn[w].project,
                             !.n = turn[w].n, !.text = turn[w].text, !.reply = r]
    BY <2>1 DEF Replied
  <2>4. /\ turn[w].mode \in {"complete", "run", "stream"} /\ turn[w].text \in Texts
        /\ turn[w].project \in Projects \cup {NoProject} /\ turn[w].n \in Nat
    BY <1>0 DEF Turn
  <2>5. t \in Turn /\ t.conv = None /\ t.stage = stage /\ Continues(w, t)
    BY <2>1, <2>3, <2>4, NoTurnTyped DEF NoTurn, Turn, Stages, Continues
  <2>. QED  BY <1>2, <2>1, <2>2, <2>5 DEF Placed
<1>11. ASSUME NEW stage \in {"find again", "answer", "bill late"}, Go(w, stage), begun' = begun, InFlight(w),
              convs' = convs, stage = "answer" => turn[w].conv \in DOMAIN convs
       PROVE  Done
  <2>1. PICK t : t = [turn[w] EXCEPT !.stage = stage] /\ Set(w, t)
    BY <1>11 DEF Go
  <2>2. t \in Turn /\ t.conv = turn[w].conv /\ t.stage = stage /\ Continues(w, t)
    BY <1>0, <2>1 DEF Turn, Stages, Continues
  <2>. QED  BY <1>0, <1>2, <1>11, <2>1, <2>2 DEF Placed
<1>12. CASE RunEnds(w) \/ StoreQuestion(w) \/ StoreAnswer(w)
  <2>1. begun' = begun /\ InFlight(w) /\ convs' = convs
    BY <1>12 DEF RunEnds, StoreQuestion, StoreAnswer, StoreMessage, storeVars, historyVars, InFlight, At
  <2>2. StoreQuestion(w) => turn[w].conv \in DOMAIN convs
    BY <1>0 DEF StoreQuestion, At, Placed
  <2>3. \/ Set(w, NoTurn) \/ Go(w, "find again") \/ Go(w, "bill late")
        \/ Go(w, "answer") /\ turn[w].conv \in DOMAIN convs
    BY <1>12, <2>2 DEF RunEnds, StoreQuestion, StoreAnswer
  <2>. QED  BY <1>3, <1>11, <2>1, <2>3
<1>13. CASE BillLate(w) \/ Abort(w)
  BY <1>3, <1>13 DEF BillLate, Abort, InFlight, At
<1>. QED
  BY <1>4, <1>5, <1>6, <1>7, <1>8, <1>9, <1>10, <1>11, <1>12, <1>13
     DEF TurnStep, Requests, Replies, Texts, Done

(* Steps of the closers and of the clock leave the turns alone.            *)
LEMMA TurnsTyped ==
  ASSUME TypeInv, [Next]_vars
  PROVE  /\ TurnsNumbered'
         /\ turn' \in [Workers -> Turn]
         /\ \A v \in Workers : turn'[v].stage \in Stages /\ turn'[v].conv \in DOMAIN convs' \cup {None}
<1>1. CASE \E w \in Workers : TurnStep(w)
  BY <1>1, TurnStepTyped
<1>2. CASE UNCHANGED <<turn, begun>>
  <2>1. DOMAIN convs \subseteq DOMAIN convs'
    BY ConvsTyped
  <2>. QED  BY <1>2, <2>1 DEF TypeInv, TypeOK, TurnsNumbered, InFlight
<1>3. CloserStep \/ NextSecond \/ Tick \/ UNCHANGED vars => UNCHANGED <<turn, begun>>
  BY DEF CloserStep, StartClosing, Close, CloseCurrent, NextSecond, Tick, historyVars, vars
<1>. QED  BY <1>1, <1>2, <1>3 DEF Next

LEMMA HistoryTyped ==
  ASSUME TypeInv, [Next]_vars
  PROVE  /\ begun' \in 0..MaxTurns /\ ticks' \in 0..MaxTicks /\ closes' \in 0..MaxCloses
         /\ overlap' \subseteq Keys
         /\ UNION {cut', billed', exhausted'} \subseteq 1..begun'
         /\ closing' \subseteq DOMAIN convs'
<1>. DEFINE Ended == cut \cup billed \cup exhausted
            Done  == /\ begun' \in 0..MaxTurns /\ ticks' \in 0..MaxTicks /\ closes' \in 0..MaxCloses
                     /\ overlap' \subseteq Keys
                     /\ cut' \cup billed' \cup exhausted' \subseteq 1..begun'
                     /\ closing' \subseteq DOMAIN convs'
<1>0. /\ begun \in 0..MaxTurns /\ ticks \in 0..MaxTicks /\ closes \in 0..MaxCloses
      /\ overlap \subseteq Keys /\ Ended \subseteq 1..begun /\ closing \subseteq DOMAIN convs
      /\ MaxTurns \in Nat /\ MaxTicks \in Nat /\ MaxCloses \in Nat
  BY TurnConstantsOK DEF TypeInv, TypeOK
<1>1. DOMAIN convs \subseteq DOMAIN convs'
  BY ConvsTyped
<1>2. ASSUME UNCHANGED <<ticks, closes, closing>>, NEW w \in Workers, TurnStep(w) PROVE Done
  <2>1. ASSUME NEW p \in Projects, NEW mode, NEW text, Begin(w, p, mode, text) PROVE Done
    <3>1. overlap' \subseteq overlap \cup KeysOf(p) /\ KeysOf(p) \subseteq Keys
      BY <2>1, ProjectKeys DEF Begin
    <3>2. begun' = begun + 1 /\ begun < MaxTurns /\ UNCHANGED <<cut, billed, exhausted>>
      BY <2>1 DEF Begin
    <3>3. 1..begun \subseteq 1..(begun + 1) /\ begun + 1 \in 0..MaxTurns
      BY <1>0, <3>2
    <3>. QED  BY <1>0, <1>1, <1>2, <3>1, <3>2, <3>3
  <2>2. ASSUME InFlight(w), UNCHANGED <<begun, overlap>>,
               cut' \cup billed' \cup exhausted' \subseteq Ended \cup {turn[w].n}
        PROVE  Done
    <3>1. turn[w].n \in 1..begun
      BY <2>2 DEF TypeInv, TurnsNumbered
    <3>. QED  BY <1>0, <1>1, <1>2, <2>2, <3>1
  <2>3. CASE \E p \in Projects, mode \in Modes, text \in Requests : Begin(w, p, mode, text)
    BY <2>1, <2>3
  <2>4. CASE ~ \E p \in Projects, mode \in Modes, text \in Requests : Begin(w, p, mode, text)
    <3>1. InFlight(w) /\ UNCHANGED <<begun, overlap>>
      BY <1>2, <2>4 DEF TurnStep, InFlight, At, historyVars, Find, Get, Load, Count, Summarize, Reply,
         StreamEnds, RunEnds, FindAgain, GetAgain, StoreQuestion, StoreAnswer, BillLate, Abort
    <3>2. cut' \cup billed' \cup exhausted' \subseteq Ended \cup {turn[w].n}
      BY <1>2, <2>4 DEF TurnStep, historyVars, Find, Get, Load, Count, Summarize, Reply, Bill,
         StreamEnds, RunEnds, FindAgain, GetAgain, StoreQuestion, StoreAnswer, BillLate, Abort
    <3>. QED  BY <2>2, <3>1, <3>2
  <2>. QED  BY <2>3, <2>4
<1>3. ASSUME NEW w \in Workers, TurnStep(w) PROVE UNCHANGED <<ticks, closes, closing>>
  BY <1>3 DEF TurnStep, historyVars, Begin, Find, Get, Load, Count, Summarize, Reply,
     StreamEnds, RunEnds, FindAgain, GetAgain, StoreQuestion, StoreAnswer, BillLate, Abort
<1>4. ASSUME CloserStep \/ NextSecond \/ Tick \/ UNCHANGED vars PROVE Done
  <2>1. UNCHANGED <<begun, overlap, cut, billed, exhausted>>
    BY <1>4 DEF CloserStep, StartClosing, Close, CloseCurrent, NextSecond, Tick, historyVars, vars
  <2>2. /\ ticks' = ticks \/ (ticks < MaxTicks /\ ticks' = ticks + 1)
        /\ closes' = closes \/ (closes < MaxCloses /\ closes' = closes + 1)
    BY <1>4 DEF CloserStep, StartClosing, Close, CloseCurrent, NextSecond, Tick, historyVars, vars
  <2>4. ticks' \in 0..MaxTicks /\ closes' \in 0..MaxCloses
    BY <1>0, <2>2
  <2>3. closing' \subseteq closing \cup DOMAIN convs
    BY <1>4 DEF CloserStep, StartClosing, Close, CloseCurrent, NextSecond, Tick, historyVars, vars, Idle, Active
  <2>. QED  BY <1>0, <1>1, <2>1, <2>3, <2>4
<1>5. Done
  BY <1>2, <1>3, <1>4 DEF Next
<1>. QED  BY <1>5

LEMMA TypeStep == TypeInv /\ [Next]_vars => TypeInv'
<1> SUFFICES ASSUME TypeInv, [Next]_vars PROVE TypeInv'
  OBVIOUS
<1>1. StoreTypeOK'
  BY ConvsTyped, MsgsTyped DEF StoreTypeOK
<1>2. TypeOK'
  BY <1>1, TurnsTyped, HistoryTyped DEF TypeOK
<1>. QED  BY <1>2, TurnsTyped DEF TypeInv

LEMMA TypeInit == Init => TypeInv
<1> SUFFICES ASSUME Init PROVE TypeInv
  OBVIOUS
<1>1. StoreTypeOK
  BY DEF Init, StoreInit, StoreTypeOK
<1>2. turn = [w \in Workers |-> NoTurn]
  BY DEF Init
<1>3. NoTurn.stage = "idle" /\ NoTurn.conv = None
  BY DEF NoTurn
<1>4. /\ closing = {} /\ overlap = {} /\ UNION {cut, billed, exhausted} = {}
      /\ begun = 0 /\ ticks = 0 /\ closes = 0
  BY DEF Init
<1>6. turn \in [Workers -> Turn] /\ \A w \in Workers : turn[w].stage \in Stages /\ turn[w].conv = None
  BY <1>2, <1>3, NoTurnTyped DEF Stages
<1>7. TypeOK
  BY <1>1, <1>4, <1>6, TurnConstantsOK DEF TypeOK
<1>5. TurnsNumbered
  BY <1>2, <1>3 DEF TurnsNumbered, InFlight, Placed
<1>. QED  BY <1>5, <1>7 DEF TypeInv

(* The rows, the turns and the history keep their types, and no two turns  *)
(* in flight share a number (the bookkeeping behind complete, run and      *)
(* complete_stream).                                                       *)
THEOREM TypeCorrect == Spec => []TypeInv
  BY TypeInit, TypeStep, PTL DEF Spec

-----------------------------------------------------------------------------
(* Questions and answers.                                                  *)

(* A turn that has written nothing goes on to a stage before its question, *)
(* with its number, its text and a reply the guardrail has seen.           *)
GoesOn(w, t) ==
  /\ Set(w, t)
  /\ turn[w].stage \in Unwritten /\ t.stage \in Unwritten
  /\ t.n = turn[w].n /\ t.text = turn[w].text
  /\ t.reply = turn[w].reply \/ (Guarded => t.reply # "dirty")

LEMMA TurnGoesOn ==
  ASSUME TypeInv, NEW w \in Workers, TurnStep(w),
         ~ \E p \in Projects, mode \in Modes, text \in Requests : Begin(w, p, mode, text),
         ~ (StoreQuestion(w) \/ StoreAnswer(w) \/ BillLate(w) \/ Abort(w)),
         ~ (RunEnds(w) /\ Set(w, NoTurn))
  PROVE  /\ \E t : GoesOn(w, t)
         /\ UNCHANGED <<msgs, begun, cut, exhausted>>
         /\ billed' \in {billed, billed \cup {turn[w].n}}
<1>0. turn[w] \in Turn
  BY DEF TypeInv, TypeOK
<1>1. CASE Find(w) \/ FindAgain(w)
  <2>1. PICK c, stage, t :
          /\ stage \in {"get", "get again"} /\ turn[w].stage \in {"find", "find again"}
          /\ t = [turn[w] EXCEPT !.stage = stage, !.conv = c] /\ Set(w, t)
    BY <1>1 DEF Find, FindAgain, At
  <2>2. GoesOn(w, t)
    BY <1>0, <2>1 DEF GoesOn, Turn, Unwritten, Stages
  <2>. QED  BY <1>1, <2>2 DEF Find, FindAgain, storeVars, historyVars
<1>2. CASE Get(w) \/ GetAgain(w)
  <2>1. PICK c, stage, t :
          /\ stage \in {"load", "question"} /\ turn[w].stage \in {"get", "get again"}
          /\ t = [turn[w] EXCEPT !.stage = stage, !.conv = c] /\ Set(w, t)
    BY <1>2 DEF Get, GetAgain, At
  <2>2. GoesOn(w, t)
    BY <1>0, <2>1 DEF GoesOn, Turn, Unwritten, Stages
  <2>. QED  BY <1>2, <2>2 DEF Get, GetAgain, historyVars
<1>3. CASE Load(w)
  <2>1. PICK s, n, stage, t :
          /\ stage \in {"count", "ask"} /\ turn[w].stage = "load"
          /\ t = [turn[w] EXCEPT !.history = s, !.asOf = n, !.stage = stage] /\ Set(w, t)
    BY <1>3 DEF Load, At
  <2>2. GoesOn(w, t)
    BY <1>0, <2>1 DEF GoesOn, Turn, Unwritten, Stages
  <2>. QED  BY <1>3, <2>2 DEF Load, storeVars, historyVars
<1>4. CASE Count(w)
  <2>1. PICK n, stage, t :
          /\ stage \in {"overflow", "ask"} /\ turn[w].stage = "count"
          /\ t = [turn[w] EXCEPT !.over = n, !.stage = stage] /\ Set(w, t)
    BY <1>4 DEF Count, At
  <2>2. GoesOn(w, t)
    BY <1>0, <2>1 DEF GoesOn, Turn, Unwritten, Stages
  <2>. QED  BY <1>4, <2>2 DEF Count, storeVars, historyVars
<1>5. CASE Summarize(w)
  <2>1. PICK S, t :
          /\ turn[w].stage = "overflow"
          /\ t = [turn[w] EXCEPT !.stage = "ask", !.summary = S] /\ Set(w, t)
    BY <1>5 DEF Summarize, At
  <2>2. GoesOn(w, t)
    BY <1>0, <2>1 DEF GoesOn, Turn, Unwritten, Stages
  <2>. QED  BY <1>5, <2>2 DEF Summarize, storeVars, historyVars
<1>6. ASSUME NEW reply, Reply(w, reply) \/ StreamEnds(w, reply)
      PROVE  /\ \E t : GoesOn(w, t)
             /\ UNCHANGED <<msgs, begun, cut, exhausted, billed>>
  <2>1. PICK r, t : /\ turn[w].stage = "ask" /\ (Guarded => r # "dirty")
                    /\ t = Replied(w, r) /\ Set(w, t)
    BY <1>6 DEF Reply, StreamEnds, At
  <2>2. PICK stage \in {"bill", "find again"} :
          t = [NoTurn EXCEPT !.stage = stage, !.mode = turn[w].mode, !.project = turn[w].project,
                             !.n = turn[w].n, !.text = turn[w].text, !.reply = r]
    BY <2>1 DEF Replied
  <2>3. t.stage = stage /\ t.n = turn[w].n /\ t.text = turn[w].text /\ t.reply = r
    BY <2>2 DEF NoTurn
  <2>4. GoesOn(w, t)
    BY <2>1, <2>2, <2>3 DEF GoesOn, Unwritten, Stages
  <2>. QED  BY <1>6, <2>4 DEF Reply, StreamEnds, storeVars, historyVars
<1>7. CASE RunEnds(w) /\ ~ Set(w, NoTurn)
  <2>1. PICK t : /\ turn[w].stage = "bill"
                 /\ t = [turn[w] EXCEPT !.stage = "find again"] /\ Set(w, t)
    BY <1>7 DEF RunEnds, Go, At
  <2>2. GoesOn(w, t)
    BY <1>0, <2>1 DEF GoesOn, Turn, Unwritten, Stages
  <2>. QED  BY <1>7, <2>2 DEF RunEnds, Bill, storeVars
<1>. QED  BY <1>1, <1>2, <1>3, <1>4, <1>5, <1>6, <1>7 DEF TurnStep

LEMMA GoesOnKeepsExchanges ==
  ASSUME TypeInv, ExchangeInv, UNCHANGED <<msgs, begun, cut, exhausted>>, billed \subseteq billed',
         UNCHANGED turn \/ \E w \in Workers : \E t : GoesOn(w, t)
  PROVE  ExchangeInv'
<1>1. CASE UNCHANGED turn
  BY <1>1 DEF ExchangeInv, RowsPaired, StagesWritten, NonAnswersOver, NothingDirty, IsRow, At
<1>2. ASSUME NEW w \in Workers, NEW t, GoesOn(w, t) PROVE ExchangeInv'
  <2>0. /\ turn'[w] = t /\ \A v \in Workers \ {w} : turn'[v] = turn[v]
        /\ turn[w].stage \in Unwritten /\ t.stage \in Unwritten
        /\ t.n = turn[w].n /\ t.text = turn[w].text
        /\ t.reply = turn[w].reply \/ (Guarded => t.reply # "dirty")
    BY <1>2 DEF GoesOn, Set, TypeInv, TypeOK
  <2>1. \A v \in Workers : turn'[v].n = turn[v].n /\ turn'[v].text = turn[v].text
    BY <2>0
  <2>2. \A v \in Workers : At(v, "answer")' <=> At(v, "answer")
    BY <2>0 DEF At, Unwritten
  <2>3. \A v \in Workers : At(v, "answer") => turn'[v] = turn[v]
    BY <2>0 DEF At, Unwritten
  <2>4. RowsPaired'
    BY <2>1, <2>2 DEF ExchangeInv, RowsPaired, IsRow
  <2>5. StagesWritten'
    <3>1. \A v \in Workers : turn'[v].stage \in Unwritten => turn[v].stage \in Unwritten
      BY <2>0
    <3>. QED  BY <2>1, <2>2, <2>3, <3>1 DEF ExchangeInv, StagesWritten, IsRow
  <2>6. NonAnswersOver'
    BY <2>1 DEF ExchangeInv, NonAnswersOver
  <2>7. NothingDirty'
    BY <2>0, <2>1 DEF ExchangeInv, NothingDirty
  <2>. QED  BY <2>4, <2>5, <2>6, <2>7 DEF ExchangeInv
<1>. QED  BY <1>1, <1>2

(* A turn ends: by itself, or cut short wherever it is.                    *)
LEMMA EndKeepsExchanges ==
  ASSUME TypeInv, ExchangeInv, NEW w \in Workers, InFlight(w), Set(w, NoTurn),
         UNCHANGED <<msgs, begun, exhausted>>, billed \subseteq billed', cut \subseteq cut',
         At(w, "answer") => turn[w].n \in cut'
  PROVE  ExchangeInv'
<1>0. turn'[w] = NoTurn /\ \A v \in Workers \ {w} : turn'[v] = turn[v]
  BY DEF Set, TypeInv, TypeOK
<1>1. NoTurn.stage = "idle" /\ NoTurn.n = 0 /\ NoTurn.text = "fine" /\ NoTurn.reply = "fine"
  BY DEF NoTurn
<1>2. exhausted \subseteq 1..begun
  BY DEF TypeInv, TypeOK
<1>3. RowsPaired'
  <2>1. ASSUME NEW i \in DOMAIN msgs, NEW v \in Workers, turn[v].n = msgs[i].turn, At(v, "answer")
        PROVE  msgs[i].turn \in cut' \/ (turn'[v].n = msgs[i].turn /\ At(v, "answer")')
    BY <1>0, <2>1 DEF At
  <2>. QED  BY <2>1 DEF ExchangeInv, RowsPaired, IsRow
<1>4. StagesWritten'
  <2>1. \A v \in Workers : turn'[v].stage \in Unwritten \cup {"answer"} => turn'[v] = turn[v]
    BY <1>0, <1>1 DEF Unwritten
  <2>. QED  BY <2>1 DEF ExchangeInv, StagesWritten, IsRow, At
<1>5. NonAnswersOver'
  BY <1>0, <1>1, <1>2 DEF ExchangeInv, NonAnswersOver
<1>6. NothingDirty'
  BY <1>0, <1>1 DEF ExchangeInv, NothingDirty
<1>. QED  BY <1>3, <1>4, <1>5, <1>6 DEF ExchangeInv

LEMMA BeginKeepsExchanges ==
  ASSUME TypeInv, ExchangeInv, NEW w \in Workers, NEW p \in Projects, NEW mode \in Modes,
         NEW text \in Requests, Begin(w, p, mode, text)
  PROVE  ExchangeInv'
<1> DEFINE t == [NoTurn EXCEPT !.stage = "find", !.mode = mode, !.project = p,
                               !.n = begun + 1, !.text = text]
<1>0. turn'[w] = t /\ \A v \in Workers \ {w} : turn'[v] = turn[v]
  BY DEF Begin, Set, TypeInv, TypeOK
<1>1. t.stage = "find" /\ t.n = begun + 1 /\ t.text = text /\ t.reply = "fine"
  BY DEF NoTurn
<1> HIDE DEF t
<1>2. begun \in Nat /\ begun' = begun + 1 /\ exhausted \subseteq 1..begun
  BY DEF Begin, TypeInv, TypeOK
<1>3. UNCHANGED <<msgs, cut, billed, exhausted>> /\ turn[w].stage = "idle" /\ (Guarded => text # "dirty")
  BY DEF Begin, storeVars, InFlight
<1>4. RowsPaired'
  <2>1. \A i \in DOMAIN msgs : msgs[i].turn \in 1..begun'
    BY <1>2 DEF ExchangeInv, RowsPaired
  <2>2. \A v \in Workers : At(v, "answer") => turn'[v] = turn[v]
    BY <1>0, <1>3 DEF At
  <2>3. \A i \in DOMAIN msgs : \A v \in Workers :
          turn[v].n = msgs[i].turn /\ At(v, "answer") => turn'[v].n = msgs[i].turn /\ At(v, "answer")'
    BY <2>2 DEF At
  <2>. QED  BY <1>3, <2>1, <2>3 DEF ExchangeInv, RowsPaired, IsRow
<1>5. StagesWritten'
  <2>1. \A i \in DOMAIN msgs : msgs[i].turn # begun + 1
    BY <1>2 DEF ExchangeInv, RowsPaired
  <2>. QED  BY <1>0, <1>1, <1>3, <2>1 DEF ExchangeInv, StagesWritten, IsRow, At
<1>6. NonAnswersOver'
  <2>1. begun + 1 \notin exhausted
    BY <1>2
  <2>. QED  BY <1>0, <1>1, <1>3, <2>1 DEF ExchangeInv, NonAnswersOver
<1>7. NothingDirty'
  BY <1>0, <1>1, <1>3 DEF ExchangeInv, NothingDirty
<1>. QED  BY <1>4, <1>5, <1>6, <1>7 DEF ExchangeInv

(* A run that came to no answer: its number goes to exhausted, and there   *)
(* was no row of it.                                                       *)
LEMMA RunEndsKeepsExchanges ==
  ASSUME TypeInv, ExchangeInv, NEW w \in Workers, RunEnds(w), Set(w, NoTurn)
  PROVE  ExchangeInv'
<1>0. turn'[w] = NoTurn /\ \A v \in Workers \ {w} : turn'[v] = turn[v]
  BY DEF Set, TypeInv, TypeOK
<1>1. NoTurn.stage = "idle" /\ NoTurn.n = 0 /\ NoTurn.text = "fine" /\ NoTurn.reply = "fine"
  BY DEF NoTurn
<1>2. /\ turn[w].stage = "bill" /\ billed' = billed \cup {turn[w].n}
      /\ exhausted' \in {exhausted, exhausted \cup {turn[w].n}}
      /\ UNCHANGED <<msgs, begun, cut>>
  BY DEF RunEnds, Bill, At, storeVars
<1>3. /\ exhausted \subseteq 1..begun /\ turn[w].n \in 1..begun
      /\ \A v \in Workers \ {w} : turn[v].n # turn[w].n
  <2>1. ASSUME NEW v \in Workers \ {w} PROVE turn[v].n # turn[w].n
    <3>1. CASE InFlight(v)
      BY <1>2, <3>1 DEF TypeInv, TurnsNumbered, InFlight
    <3>2. CASE ~ InFlight(v)
      BY <1>1, <1>2, <3>2 DEF TypeInv, TurnsNumbered, InFlight
    <3>. QED  BY <3>1, <3>2
  <2>2. exhausted \subseteq 1..begun /\ turn[w].n \in 1..begun
    BY <1>2 DEF TypeInv, TypeOK, TurnsNumbered, InFlight
  <2>. QED  BY <2>1, <2>2
<1>4. RowsPaired'
  <2>1. \A v \in Workers : At(v, "answer") => turn'[v] = turn[v]
    BY <1>0, <1>2 DEF At
  <2>2. \A i \in DOMAIN msgs : \A v \in Workers :
          turn[v].n = msgs[i].turn /\ At(v, "answer") => turn'[v].n = msgs[i].turn /\ At(v, "answer")'
    BY <2>1 DEF At
  <2>. QED  BY <1>2, <2>2 DEF ExchangeInv, RowsPaired, IsRow
<1>5. StagesWritten'
  <2>1. \A v \in Workers : turn'[v].stage \in Unwritten \cup {"answer"} => turn'[v] = turn[v]
    BY <1>0, <1>1 DEF Unwritten
  <2>. QED  BY <1>2, <2>1 DEF ExchangeInv, StagesWritten, IsRow, At
<1>6. NonAnswersOver'
  <2>1. \A i \in DOMAIN msgs : msgs[i].turn # turn[w].n
    BY <1>2 DEF ExchangeInv, StagesWritten, Unwritten, Stages
  <2>2. \A v \in Workers : turn'[v].n \notin exhausted \cup {turn[w].n}
    BY <1>0, <1>1, <1>3 DEF ExchangeInv, NonAnswersOver
  <2>. QED  BY <1>2, <2>1, <2>2 DEF ExchangeInv, NonAnswersOver
<1>7. NothingDirty'
  BY <1>0, <1>1, <1>2 DEF ExchangeInv, NothingDirty
<1>. QED  BY <1>4, <1>5, <1>6, <1>7 DEF ExchangeInv

(* A row is added: what it looks like, and that the others stay.           *)
Adds(n, w, role, text) ==
  /\ n \in Nat \ {0} /\ DOMAIN msgs = 1..(n - 1) /\ DOMAIN msgs' = 1..n
  /\ \A i \in 1..(n - 1) : msgs'[i] = msgs[i]
  /\ msgs'[n].role = role /\ msgs'[n].turn = turn[w].n
  /\ msgs'[n].conv = turn[w].conv /\ msgs'[n].text = text

LEMMA RowAdded ==
  ASSUME TypeInv, NEW w \in Workers, NEW role, NEW text,
         StoreMessage(turn[w].conv, role, turn[w].n, text)
  PROVE  \E n : Adds(n, w, role, text)
<1> DEFINE m == [conv |-> turn[w].conv, role |-> role, turn |-> turn[w].n, text |-> text, at |-> second]
<1>1. m.role = role /\ m.turn = turn[w].n /\ m.conv = turn[w].conv /\ m.text = text
  OBVIOUS
<1>2. msgs' = Append(msgs, m)
  BY DEF StoreMessage
<1>3. msgs \in Seq(Message)
  BY DEF TypeInv, TypeOK, StoreTypeOK
<1> HIDE DEF m
<1>4. /\ Len(msgs) \in Nat /\ DOMAIN msgs = 1..Len(msgs) /\ DOMAIN msgs' = 1..(Len(msgs) + 1)
      /\ \A i \in 1..Len(msgs) : msgs'[i] = msgs[i]
      /\ msgs'[Len(msgs) + 1] = m
  BY <1>2, <1>3
<1>5. Adds(Len(msgs) + 1, w, role, text)
  BY <1>1, <1>4 DEF Adds
<1>. QED  BY <1>5

LEMMA QuestionKeepsExchanges ==
  ASSUME TypeInv, [Next]_vars, ExchangeInv, NEW w \in Workers, StoreQuestion(w)
  PROVE  ExchangeInv'
<1> DEFINE t == [turn[w] EXCEPT !.stage = "answer"]
<1>0. turn'[w] = t /\ \A v \in Workers \ {w} : turn'[v] = turn[v]
  BY DEF StoreQuestion, Go, Set, TypeInv, TypeOK
<1>1. /\ t.stage = "answer" /\ t.n = turn[w].n /\ t.text = turn[w].text
      /\ t.reply = turn[w].reply /\ t.conv = turn[w].conv
  BY DEF TypeInv, TypeOK, Turn
<1> HIDE DEF t
<1>2. /\ turn[w].stage = "question" /\ turn[w].n \in 1..begun
      /\ UNCHANGED <<begun, cut, billed, exhausted>>
  BY DEF StoreQuestion, At, historyVars, TypeInv, TurnsNumbered, InFlight
<1>3. PICK n : Adds(n, w, "user", turn[w].text)
  BY RowAdded DEF StoreQuestion
<1>. USE <1>3 DEF Adds
<1>4. \A i \in DOMAIN msgs : msgs[i].turn # turn[w].n
  BY <1>2 DEF ExchangeInv, StagesWritten, Unwritten, Stages
<1>5. \A v \in Workers \ {w} : turn[v].n # turn[w].n
  <2>1. NoTurn.n = 0
    BY DEF NoTurn
  <2>. QED  BY <1>2, <2>1 DEF TypeInv, TurnsNumbered, InFlight
<1>6. RowsPaired'
  <2>1. \A i \in DOMAIN msgs' : msgs'[i].turn \in 1..begun'
    BY <1>2, <1>3 DEF ExchangeInv, RowsPaired
  <2>2. \A i, j \in DOMAIN msgs' : msgs'[i].turn = msgs'[j].turn /\ msgs'[i].role = msgs'[j].role => i = j
    BY <1>3, <1>4 DEF ExchangeInv, RowsPaired
  <2>3. ASSUME NEW j \in DOMAIN msgs', msgs'[j].role = "assistant"
        PROVE  \E i \in DOMAIN msgs' : i < j /\ IsRow(i, "user", msgs[j].turn, msgs[j].conv)'
    <3>1. j \in DOMAIN msgs /\ msgs[j].role = "assistant"
      BY <1>3, <2>3
    <3>2. PICK i \in DOMAIN msgs : i < j /\ IsRow(i, "user", msgs[j].turn, msgs[j].conv)
      BY <3>1 DEF ExchangeInv, RowsPaired
    <3>3. i \in DOMAIN msgs' /\ msgs'[i] = msgs[i] /\ msgs'[j] = msgs[j]
      BY <1>3, <3>1
    <3>. QED  BY <3>2, <3>3 DEF IsRow
  <2>4. ASSUME NEW i \in DOMAIN msgs', msgs'[i].role = "user"
        PROVE  \/ \E j \in DOMAIN msgs' : IsRow(j, "assistant", msgs[i].turn, msgs[i].conv)'
               \/ msgs'[i].turn \in cut'
               \/ \E v \in Workers : turn'[v].n = msgs'[i].turn /\ At(v, "answer")'
    <3>1. CASE i = n
      <4>1. turn'[w].n = msgs'[i].turn /\ At(w, "answer")'
        BY <1>0, <1>1, <1>3, <3>1 DEF At
      <4>. QED  BY <4>1
    <3>2. CASE i # n
      <4>1. i \in DOMAIN msgs /\ msgs'[i] = msgs[i]
        BY <1>3, <3>2
      <4>2. ASSUME NEW j \in DOMAIN msgs, IsRow(j, "assistant", msgs[i].turn, msgs[i].conv)
            PROVE  j \in DOMAIN msgs' /\ IsRow(j, "assistant", msgs[i].turn, msgs[i].conv)'
        BY <1>3, <4>1, <4>2 DEF IsRow
      <4>3. ASSUME NEW v \in Workers, turn[v].n = msgs[i].turn, At(v, "answer")
            PROVE  turn'[v].n = msgs'[i].turn /\ At(v, "answer")'
        BY <1>0, <1>2, <4>1, <4>3 DEF At
      <4>4. \/ \E j \in DOMAIN msgs : IsRow(j, "assistant", msgs[i].turn, msgs[i].conv)
            \/ msgs[i].turn \in cut
            \/ \E v \in Workers : turn[v].n = msgs[i].turn /\ At(v, "answer")
        BY <2>4, <4>1 DEF ExchangeInv, RowsPaired
      <4>. QED  BY <1>2, <4>1, <4>2, <4>3, <4>4
    <3>. QED  BY <3>1, <3>2
  <2>. QED  BY <2>1, <2>2, <2>3, <2>4 DEF RowsPaired
<1>7. StagesWritten'
  <2>1. ASSUME NEW v \in Workers, turn'[v].stage \in Unwritten, NEW i \in DOMAIN msgs'
        PROVE  msgs'[i].turn # turn'[v].n
    <3>1. v # w /\ turn'[v] = turn[v]
      BY <1>0, <1>1, <2>1 DEF Unwritten
    <3>2. CASE i = n
      BY <1>3, <1>5, <3>1, <3>2
    <3>3. CASE i # n
      BY <1>3, <2>1, <3>1, <3>3 DEF ExchangeInv, StagesWritten
    <3>. QED  BY <3>2, <3>3
  <2>2. ASSUME NEW v \in Workers, At(v, "answer")'
        PROVE  /\ \E i \in DOMAIN msgs' : IsRow(i, "user", turn[v].n, turn[v].conv)'
               /\ \A i \in DOMAIN msgs' : msgs'[i].turn = turn'[v].n => msgs'[i].role = "user"
    <3>1. CASE v = w
      <4>1. n \in DOMAIN msgs' /\ IsRow(n, "user", turn[v].n, turn[v].conv)'
        BY <1>0, <1>1, <1>3, <3>1 DEF IsRow
      <4>. QED  BY <1>0, <1>1, <1>3, <1>4, <3>1, <4>1
    <3>2. CASE v # w
      <4>1. turn'[v] = turn[v] /\ At(v, "answer")
        BY <1>0, <2>2, <3>2 DEF At
      <4>2. PICK i \in DOMAIN msgs : IsRow(i, "user", turn[v].n, turn[v].conv)
        BY <4>1 DEF ExchangeInv, StagesWritten
      <4>3. i \in DOMAIN msgs' /\ IsRow(i, "user", turn[v].n, turn[v].conv)'
        BY <1>3, <4>1, <4>2 DEF IsRow
      <4>. QED  BY <1>3, <1>5, <3>2, <4>1, <4>3 DEF ExchangeInv, StagesWritten
    <3>. QED  BY <3>1, <3>2
  <2>. QED  BY <2>1, <2>2 DEF StagesWritten
<1>8. NonAnswersOver'
  <2>1. turn[w].n \notin exhausted
    BY DEF ExchangeInv, NonAnswersOver
  <2>. QED  BY <1>0, <1>1, <1>2, <1>3, <2>1 DEF ExchangeInv, NonAnswersOver
<1>9. NothingDirty'
  BY <1>0, <1>1, <1>3 DEF ExchangeInv, NothingDirty
<1>. QED  BY <1>6, <1>7, <1>8, <1>9 DEF ExchangeInv

LEMMA AnswerKeepsExchanges ==
  ASSUME TypeInv, ExchangeInv, NEW w \in Workers, StoreAnswer(w)
  PROVE  ExchangeInv'
<1>0. /\ \A v \in Workers \ {w} : turn'[v] = turn[v]
      /\ turn'[w].stage \in {"idle", "bill late"} /\ turn'[w].n \in {turn[w].n, 0}
      /\ turn'[w].text \in {turn[w].text, "fine"} /\ turn'[w].reply \in {turn[w].reply, "fine"}
  <2>0. turn \in [Workers -> Turn] /\ turn[w] \in Turn
    BY DEF TypeInv, TypeOK
  <2>1. CASE Go(w, "bill late")
    <3>1. turn'[w] = [turn[w] EXCEPT !.stage = "bill late"] /\ \A v \in Workers \ {w} : turn'[v] = turn[v]
      BY <2>0, <2>1 DEF Go, Set
    <3>. QED  BY <2>0, <3>1 DEF Turn
  <2>2. CASE Set(w, NoTurn)
    BY <2>0, <2>2 DEF Set, NoTurn
  <2>. QED  BY <2>1, <2>2 DEF StoreAnswer
<1>1. /\ turn[w].stage = "answer" /\ turn[w].n \in 1..begun
      /\ UNCHANGED <<begun, cut, billed, exhausted>>
  BY DEF StoreAnswer, At, historyVars, TypeInv, TurnsNumbered, InFlight
<1>2. PICK n : Adds(n, w, "assistant", turn[w].reply)
  BY RowAdded DEF StoreAnswer
<1>. USE <1>2 DEF Adds
<1>3. \A v \in Workers \ {w} : turn[v].n # turn[w].n
  <2>1. NoTurn.n = 0
    BY DEF NoTurn
  <2>. QED  BY <1>1, <2>1 DEF TypeInv, TurnsNumbered, InFlight
<1>4. PICK q \in DOMAIN msgs : IsRow(q, "user", turn[w].n, turn[w].conv)
  BY <1>1 DEF ExchangeInv, StagesWritten, At
<1>5. \A i \in DOMAIN msgs : msgs[i].turn = turn[w].n => msgs[i].role = "user"
  BY <1>1 DEF ExchangeInv, StagesWritten, At
<1>6. RowsPaired'
  <2>1. \A i \in DOMAIN msgs' : msgs'[i].turn \in 1..begun'
    BY <1>1 DEF ExchangeInv, RowsPaired
  <2>2. \A i, j \in DOMAIN msgs' : msgs'[i].turn = msgs'[j].turn /\ msgs'[i].role = msgs'[j].role => i = j
    BY <1>5 DEF ExchangeInv, RowsPaired
  <2>3. ASSUME NEW j \in DOMAIN msgs', msgs'[j].role = "assistant"
        PROVE  \E i \in DOMAIN msgs' : i < j /\ IsRow(i, "user", msgs[j].turn, msgs[j].conv)'
    <3>1. CASE j = n
      <4>1. q \in DOMAIN msgs' /\ q < j /\ IsRow(q, "user", msgs[j].turn, msgs[j].conv)'
        BY <1>4, <3>1 DEF IsRow
      <4>. QED  BY <4>1
    <3>2. CASE j # n
      <4>1. j \in DOMAIN msgs /\ msgs'[j] = msgs[j]
        BY <3>2
      <4>2. PICK i \in DOMAIN msgs : i < j /\ IsRow(i, "user", msgs[j].turn, msgs[j].conv)
        BY <2>3, <4>1 DEF ExchangeInv, RowsPaired
      <4>3. i \in DOMAIN msgs' /\ msgs'[i] = msgs[i]
        OBVIOUS
      <4>. QED  BY <4>1, <4>2, <4>3 DEF IsRow
    <3>. QED  BY <3>1, <3>2
  <2>4. ASSUME NEW i \in DOMAIN msgs', msgs'[i].role = "user"
        PROVE  \/ \E j \in DOMAIN msgs' : IsRow(j, "assistant", msgs[i].turn, msgs[i].conv)'
               \/ msgs'[i].turn \in cut'
               \/ \E v \in Workers : turn'[v].n = msgs'[i].turn /\ At(v, "answer")'
    <3>0. i \in DOMAIN msgs /\ msgs'[i] = msgs[i]
      BY <2>4
    <3>1. CASE msgs[i].turn = turn[w].n
      <4>1. i = q
        BY <1>4, <2>4, <3>0, <3>1 DEF IsRow, ExchangeInv, RowsPaired
      <4>2. n \in DOMAIN msgs' /\ IsRow(n, "assistant", msgs[i].turn, msgs[i].conv)'
        BY <1>4, <3>0, <4>1 DEF IsRow
      <4>. QED  BY <4>2
    <3>2. CASE msgs[i].turn # turn[w].n
      <4>1. ASSUME NEW j \in DOMAIN msgs, IsRow(j, "assistant", msgs[i].turn, msgs[i].conv)
            PROVE  j \in DOMAIN msgs' /\ IsRow(j, "assistant", msgs[i].turn, msgs[i].conv)'
        BY <3>0, <4>1 DEF IsRow
      <4>2. ASSUME NEW v \in Workers, turn[v].n = msgs[i].turn, At(v, "answer")
            PROVE  turn'[v].n = msgs'[i].turn /\ At(v, "answer")'
        BY <1>0, <3>0, <3>2, <4>2 DEF At
      <4>3. \/ \E j \in DOMAIN msgs : IsRow(j, "assistant", msgs[i].turn, msgs[i].conv)
            \/ msgs[i].turn \in cut
            \/ \E v \in Workers : turn[v].n = msgs[i].turn /\ At(v, "answer")
        BY <2>4, <3>0 DEF ExchangeInv, RowsPaired
      <4>. QED  BY <1>1, <3>0, <4>1, <4>2, <4>3
    <3>. QED  BY <3>1, <3>2
  <2>. QED  BY <2>1, <2>2, <2>3, <2>4 DEF RowsPaired
<1>7. StagesWritten'
  <2>1. ASSUME NEW v \in Workers, turn'[v].stage \in Unwritten, NEW i \in DOMAIN msgs'
        PROVE  msgs'[i].turn # turn'[v].n
    <3>1. v # w /\ turn'[v] = turn[v]
      BY <1>0, <2>1 DEF Unwritten
    <3>2. CASE i = n
      BY <1>3, <3>1, <3>2
    <3>3. CASE i # n
      BY <2>1, <3>1, <3>3 DEF ExchangeInv, StagesWritten
    <3>. QED  BY <3>2, <3>3
  <2>2. ASSUME NEW v \in Workers, At(v, "answer")'
        PROVE  /\ \E i \in DOMAIN msgs' : IsRow(i, "user", turn[v].n, turn[v].conv)'
               /\ \A i \in DOMAIN msgs' : msgs'[i].turn = turn'[v].n => msgs'[i].role = "user"
    <3>1. v # w /\ turn'[v] = turn[v] /\ At(v, "answer")
      BY <1>0, <2>2 DEF At
    <3>2. PICK i \in DOMAIN msgs : IsRow(i, "user", turn[v].n, turn[v].conv)
      BY <3>1 DEF ExchangeInv, StagesWritten
    <3>3. i \in DOMAIN msgs' /\ IsRow(i, "user", turn[v].n, turn[v].conv)'
      BY <3>1, <3>2 DEF IsRow
    <3>. QED  BY <1>3, <3>1, <3>3 DEF ExchangeInv, StagesWritten
  <2>. QED  BY <2>1, <2>2 DEF StagesWritten
<1>8. NonAnswersOver'
  <2>1. turn[w].n \notin exhausted /\ exhausted \subseteq 1..begun
    BY DEF ExchangeInv, NonAnswersOver, TypeInv, TypeOK
  <2>2. 0 \notin exhausted
    BY <2>1 DEF TypeInv, TypeOK
  <2>3. \A v \in Workers : turn'[v].n \notin exhausted
    BY <1>0, <2>1, <2>2 DEF ExchangeInv, NonAnswersOver
  <2>4. \A i \in DOMAIN msgs' : msgs'[i].turn \notin exhausted
    BY <2>1 DEF ExchangeInv, NonAnswersOver
  <2>. QED  BY <1>1, <2>3, <2>4 DEF ExchangeInv, NonAnswersOver
<1>9. ASSUME Guarded PROVE NothingDirty'
  <2>1. \A v \in Workers : turn[v].text # "dirty" /\ turn[v].reply # "dirty"
    BY <1>9 DEF ExchangeInv, NothingDirty
  <2>2. \A v \in Workers : turn'[v].text # "dirty" /\ turn'[v].reply # "dirty"
    BY <1>0, <2>1
  <2>3. \A i \in DOMAIN msgs' : msgs'[i].text # "dirty"
    BY <1>9, <2>1 DEF ExchangeInv, NothingDirty
  <2>. QED  BY <2>2, <2>3 DEF NothingDirty
<1>10. NothingDirty'
  BY <1>9 DEF NothingDirty
<1>. QED  BY <1>6, <1>7, <1>8, <1>10 DEF ExchangeInv

LEMMA ExchangeStep ==
  ASSUME TypeInv, ExchangeInv, [Next]_vars
  PROVE  ExchangeInv'
<1>1. ASSUME NEW w \in Workers, TurnStep(w) PROVE ExchangeInv'
  <2>1. CASE \E p \in Projects, mode \in Modes, text \in Requests : Begin(w, p, mode, text)
    BY <2>1, BeginKeepsExchanges
  <2>2. CASE StoreQuestion(w)
    BY <2>2, QuestionKeepsExchanges
  <2>3. CASE StoreAnswer(w)
    BY <2>3, AnswerKeepsExchanges
  <2>4. CASE BillLate(w) \/ Abort(w)
    <3>1. /\ InFlight(w) /\ Set(w, NoTurn) /\ UNCHANGED <<msgs, begun, exhausted>>
          /\ billed \subseteq billed' /\ cut \subseteq cut'
          /\ (At(w, "answer") => turn[w].n \in cut')
      BY <2>4 DEF BillLate, Abort, Bill, At, InFlight, storeVars
    <3>. QED  BY <3>1, EndKeepsExchanges
  <2>5. CASE RunEnds(w) /\ Set(w, NoTurn)
    BY <2>5, RunEndsKeepsExchanges
  <2>6. CASE /\ ~ \E p \in Projects, mode \in Modes, text \in Requests : Begin(w, p, mode, text)
             /\ ~ (StoreQuestion(w) \/ StoreAnswer(w) \/ BillLate(w) \/ Abort(w))
             /\ ~ (RunEnds(w) /\ Set(w, NoTurn))
    <3>1. /\ \E t : GoesOn(w, t)
          /\ UNCHANGED <<msgs, begun, cut, exhausted>>
          /\ billed \subseteq billed'
      BY <1>1, <2>6, TurnGoesOn
    <3>. QED  BY <3>1, GoesOnKeepsExchanges
  <2>. QED  BY <2>1, <2>2, <2>3, <2>4, <2>5, <2>6
<1>2. ASSUME CloserStep \/ NextSecond \/ Tick \/ UNCHANGED vars PROVE ExchangeInv'
  <2>1. UNCHANGED <<msgs, turn, begun, cut, billed, exhausted>>
    BY <1>2 DEF CloserStep, StartClosing, Close, CloseCurrent, NextSecond, Tick, historyVars, storeVars, vars
  <2>. QED  BY <2>1, GoesOnKeepsExchanges
<1>. QED  BY <1>1, <1>2 DEF Next

LEMMA ExchangeInit == Init => ExchangeInv
<1> SUFFICES ASSUME Init PROVE ExchangeInv
  OBVIOUS
<1>1. msgs = << >> /\ turn = [w \in Workers |-> NoTurn] /\ exhausted = {} /\ billed = {}
  BY DEF Init, StoreInit
<1>2. NoTurn.stage = "idle" /\ NoTurn.text = "fine" /\ NoTurn.reply = "fine"
  BY DEF NoTurn
<1>3. RowsPaired
  BY <1>1 DEF RowsPaired
<1>4. StagesWritten
  BY <1>1, <1>2 DEF StagesWritten, Unwritten, At
<1>5. NonAnswersOver /\ NothingDirty
  BY <1>1, <1>2 DEF NonAnswersOver, NothingDirty
<1>. QED  BY <1>3, <1>4, <1>5 DEF ExchangeInv

(* A set no two members of which differ counts one at most.                *)
LEMMA AtMostOne ==
  ASSUME NEW S, \A x, y \in S : x = y
  PROVE  IsFiniteSet(S) /\ Cardinality(S) \in 0..1 /\ (S = {} <=> Cardinality(S) = 0)
<1>1. CASE S = {}
  BY <1>1, FS_EmptySet
<1>2. CASE S # {}
  <2>1. PICK x : S = {x}
    BY <1>2
  <2>2. IsFiniteSet(S) /\ Cardinality(S) = 1
    BY <2>1, FS_Singleton
  <2>. QED  BY <1>2, <2>2
<1>. QED  BY <1>1, <1>2

LEMMA RowsArePaired == TypeInv /\ ExchangeInv => ExchangesPaired
<1> SUFFICES ASSUME TypeInv, ExchangeInv, NEW n \in 1..begun
             PROVE  /\ Cardinality(RowsOf(n, "user")) <= 1
                    /\ Cardinality(RowsOf(n, "assistant")) <= Cardinality(RowsOf(n, "user"))
                    /\ \A i \in RowsOf(n, "user"), j \in RowsOf(n, "assistant") :
                         i < j /\ msgs[i].conv = msgs[j].conv
                    /\ (RowsOf(n, "user") # {} /\ RowsOf(n, "assistant") = {} =>
                          n \in cut \/ \E w \in Workers : turn[w].n = n /\ turn[w].stage = "answer")
  BY DEF ExchangesPaired
<1>1. ASSUME NEW role \in Roles
      PROVE  /\ Cardinality(RowsOf(n, role)) \in 0..1
             /\ RowsOf(n, role) = {} <=> Cardinality(RowsOf(n, role)) = 0
  <2>1. \A i, j \in RowsOf(n, role) : i = j
    BY DEF RowsOf, ExchangeInv, RowsPaired
  <2>. QED  BY <2>1, AtMostOne
<1>2. "user" \in Roles /\ "assistant" \in Roles
  BY DEF Roles
<1>3. ASSUME NEW j \in RowsOf(n, "assistant")
      PROVE  \E i \in RowsOf(n, "user") : i < j /\ msgs[i].conv = msgs[j].conv
  <2>1. j \in DOMAIN msgs /\ msgs[j].turn = n /\ msgs[j].role = "assistant"
    BY DEF RowsOf
  <2>2. PICK i \in DOMAIN msgs : i < j /\ IsRow(i, "user", msgs[j].turn, msgs[j].conv)
    BY <2>1 DEF ExchangeInv, RowsPaired
  <2>. QED  BY <2>1, <2>2 DEF RowsOf, IsRow
<1>4. \A i \in RowsOf(n, "user"), j \in RowsOf(n, "assistant") : i < j /\ msgs[i].conv = msgs[j].conv
  <2>1. \A i, k \in RowsOf(n, "user") : i = k
    BY DEF RowsOf, ExchangeInv, RowsPaired
  <2>. QED  BY <1>3, <2>1
<1>5. Cardinality(RowsOf(n, "assistant")) <= Cardinality(RowsOf(n, "user"))
  <2>1. RowsOf(n, "assistant") # {} => RowsOf(n, "user") # {}
    BY <1>3
  <2>. QED  BY <1>1, <1>2, <2>1
<1>6. ASSUME NEW i \in RowsOf(n, "user"), RowsOf(n, "assistant") = {}
      PROVE  n \in cut \/ \E w \in Workers : turn[w].n = n /\ turn[w].stage = "answer"
  <2>1. i \in DOMAIN msgs /\ msgs[i].turn = n /\ msgs[i].role = "user"
    BY DEF RowsOf
  <2>2. ~ \E j \in DOMAIN msgs : IsRow(j, "assistant", msgs[i].turn, msgs[i].conv)
    BY <1>6, <2>1 DEF RowsOf, IsRow
  <2>. QED  BY <2>1, <2>2 DEF ExchangeInv, RowsPaired, At
<1>. QED  BY <1>1, <1>2, <1>4, <1>5, <1>6

LEMMA ExchangeInvSuffices == TypeInv /\ ExchangeInv => ExchangesKept
<1>1. ExchangeInv => NonAnswersBilled
  BY DEF ExchangeInv, NonAnswersOver, NonAnswersBilled
<1>2. ExchangeInv => GuardrailHolds
  BY DEF ExchangeInv, NothingDirty, GuardrailHolds
<1>. QED  BY <1>1, <1>2, RowsArePaired DEF ExchangesKept

LEMMA ExchangesAlways == Spec => [](TypeInv /\ ExchangeInv)
<1>1. Init => TypeInv /\ ExchangeInv
  BY TypeInit, ExchangeInit
<1>2. TypeInv /\ ExchangeInv /\ [Next]_vars => (TypeInv /\ ExchangeInv)'
  BY TypeStep, ExchangeStep
<1>. QED  BY <1>1, <1>2, PTL DEF Spec

(* store_exchange writes a question and its answer once each, in this      *)
(* order and into one conversation, and leaves a question unanswered only  *)
(* where a turn was cut short; a run out of turns or budget is billed and  *)
(* stores nothing; what the guardrail objects to is never stored.          *)
THEOREM ExchangesStayPaired == Spec => []ExchangesKept
  BY ExchangesAlways, ExchangeInvSuffices, PTL

-----------------------------------------------------------------------------
(* The newest and the oldest rows of a conversation.                       *)

LEMMA GreatestIn ==
  ASSUME NEW b \in Nat, NEW S \in SUBSET (0..b), S # {}
  PROVE  \E x \in S : \A y \in S : y <= x
<1>. DEFINE T == {k \in Nat : \E x \in S : k = b - x}
<1>1. T # {} /\ T \subseteq Nat
  <2>1. PICK x \in S : TRUE
    OBVIOUS
  <2>2. b - x \in T
    OBVIOUS
  <2>. QED  BY <2>2
<1>2. PICK k \in T : \A l \in T : ~ (<<l, k>> \in OpToRel(<, Nat))
  BY <1>1, NatLessThanWellFounded, WFMin, Zenon
<1>3. \A l \in T : ~ (l < k)
  BY <1>1, <1>2 DEF OpToRel
<1>4. PICK x \in S : k = b - x
  OBVIOUS
<1>5. ASSUME NEW y \in S PROVE y <= x
  <2>1. b - y \in T
    OBVIOUS
  <2>2. ~ (b - y < b - x)
    BY <1>3, <1>4, <2>1
  <2>. QED  BY <2>2
<1>. QED  BY <1>5

LEMMA NewestAll ==
  ASSUME NEW S \in SUBSET Nat, IsFiniteSet(S), NEW n \in Nat, Cardinality(S) <= n
  PROVE  Newest(S, n) = S
<1>. SUFFICES ASSUME NEW i \in S PROVE Cardinality({j \in S : j > i}) < n
  BY DEF Newest
<1>1. {j \in S : j > i} \in SUBSET (S \ {i})
  OBVIOUS
<1>2. IsFiniteSet(S \ {i}) /\ Cardinality(S \ {i}) = Cardinality(S) - 1 /\ Cardinality(S) \in Nat
  BY FS_RemoveElement, FS_CardinalityType
<1>3. Cardinality({j \in S : j > i}) <= Cardinality(S) - 1 /\ Cardinality({j \in S : j > i}) \in Nat
  BY <1>1, <1>2, FS_Subset, FS_CardinalityType
<1>. QED  BY <1>2, <1>3

LEMMA NewestFew ==
  ASSUME NEW b \in Nat, NEW S \in SUBSET (0..b), NEW n \in Nat, Cardinality(Newest(S, n)) < n
  PROVE  Newest(S, n) = S
<1>. SUFFICES ASSUME S \ Newest(S, n) # {} PROVE FALSE
  BY DEF Newest
<1>1. PICK x \in S \ Newest(S, n) : \A y \in S \ Newest(S, n) : y <= x
  BY GreatestIn
<1>2. {j \in S : j > x} \in SUBSET Newest(S, n)
  <2>1. ASSUME NEW j \in S, j > x PROVE j \in Newest(S, n)
    <3>1. x \in 0..b /\ j \in 0..b /\ ~ (j <= x)
      BY <1>1, <2>1
    <3>. QED  BY <1>1, <3>1
  <2>. QED  BY <2>1
<1>3. IsFiniteSet(0..b)
  BY FS_Interval
<1>4. Newest(S, n) \in SUBSET (0..b)
  BY DEF Newest
<1>5. IsFiniteSet(Newest(S, n)) /\ Cardinality(Newest(S, n)) \in Nat
  BY <1>3, <1>4, FS_Subset, FS_CardinalityType
<1>6. /\ Cardinality({j \in S : j > x}) <= Cardinality(Newest(S, n))
      /\ Cardinality({j \in S : j > x}) \in Nat
  BY <1>2, <1>5, FS_Subset, FS_CardinalityType
<1>7. ~ (Cardinality({j \in S : j > x}) < n)
  BY <1>1 DEF Newest
<1>. HIDE DEF Newest
<1>. QED  BY <1>5, <1>6, <1>7

(* A row that is not among the newest n has so few before it.              *)
LEMMA OldOrNew ==
  ASSUME NEW S \in SUBSET Nat, IsFiniteSet(S), NEW n \in Nat, NEW i \in S, i \notin Newest(S, n)
  PROVE  Cardinality({j \in S : j < i}) + n < Cardinality(S)
<1>. DEFINE L == {j \in S : j < i}
            G == {j \in S : j > i}
<1>1. IsFiniteSet(L) /\ IsFiniteSet(G) /\ Cardinality(L) \in Nat /\ Cardinality(G) \in Nat
  <2>1. L \in SUBSET S /\ G \in SUBSET S
    OBVIOUS
  <2>. HIDE DEF L, G
  <2>. QED  BY <2>1, FS_Subset, FS_CardinalityType
<1>2. L \cap G = {} /\ i \notin L \cup G /\ (L \cup G) \cup {i} = S
  <2>1. \A j \in S : (j < i \/ j > i \/ j = i) /\ ~ (j < i /\ j > i)
    OBVIOUS
  <2>2. ~ (i < i) /\ ~ (i > i)
    OBVIOUS
  <2>. QED  BY <2>1, <2>2, Zenon
<1>3. Cardinality(G) >= n
  <2>1. ~ (Cardinality(G) < n)
    BY DEF Newest
  <2>. QED  BY <1>1, <2>1
<1>. HIDE DEF L, G
<1>4. IsFiniteSet(L \cup G) /\ Cardinality(L \cup G) = Cardinality(L) + Cardinality(G)
  <2>1. Cardinality(L \cap G) = 0
    BY <1>2, FS_EmptySet
  <2>2. /\ IsFiniteSet(L \cup G)
        /\ Cardinality(L \cup G) = Cardinality(L) + Cardinality(G) - Cardinality(L \cap G)
    BY <1>1, FS_Union
  <2>3. Cardinality(L) + Cardinality(G) - 0 = Cardinality(L) + Cardinality(G)
    BY <1>1
  <2>. QED  BY <2>1, <2>2, <2>3
<1>5. Cardinality(S) = Cardinality(L) + Cardinality(G) + 1
  BY <1>1, <1>2, <1>4, FS_AddElement
<1>6. Cardinality(L) + n < Cardinality(S)
  BY <1>1, <1>3, <1>5
<1>. QED  BY <1>6 DEF L

(* A sequence that has the newest rows in some order has each of them.     *)
LEMMA OrderCovers ==
  ASSUME NEW S \in SUBSET Nat, IsFiniteSet(S), NEW s \in OrdersOf(S)
  PROVE  \A i \in S : In(s, i)
<1>1. Cardinality(S) \in Nat
  BY FS_CardinalityType
<1>2. s \in [1..Cardinality(S) -> S] /\ DOMAIN s = 1..Cardinality(S)
  BY DEF OrdersOf
<1>3. \A i, j \in 1..Cardinality(S) : i < j => s[i] # s[j]
  BY <1>2 DEF OrdersOf
<1>4. \A i, j \in 1..Cardinality(S) : s[i] = s[j] => i = j
  BY <1>1, <1>3
<1>5. s \in Injection(1..Cardinality(S), S)
  BY <1>2, <1>4 DEF Injection, IsInjective
<1>6. Cardinality(1..Cardinality(S)) = Cardinality(S)
  BY <1>1, FS_Interval
<1>7. s \in Surjection(1..Cardinality(S), S)
  BY <1>5, <1>6, FS_Injection
<1>. QED  BY <1>2, <1>7 DEF Surjection, In

-----------------------------------------------------------------------------
(* Nothing is dropped between the reads of build_context.                  *)

LoadedWell(w) ==
  LET U == UpTo(msgs, turn[w].conv, turn[w].asOf) IN
  /\ turn[w].stage \in {"count", "overflow", "ask"} =>
       /\ turn[w].asOf \in 0..Len(msgs)
       /\ \A i \in Newest(U, MaxContext) : In(turn[w].history, i)
  /\ At(w, "overflow") => Cardinality(U) <= turn[w].over + MaxContext
  /\ (AutoCompact /\ At(w, "ask")) => \A i \in U : i \in turn[w].summary \/ In(turn[w].history, i)

LEMMA LoadInvByTurn == LoadInv <=> \A w \in Workers : LoadedWell(w)
<1>1. NothingDropped <=> \A w \in Workers : (AutoCompact /\ At(w, "ask")) =>
        \A i \in UpTo(msgs, turn[w].conv, turn[w].asOf) : i \in turn[w].summary \/ In(turn[w].history, i)
  BY DEF NothingDropped, UpTo, In, At
<1>. QED  BY <1>1 DEF LoadInv, HistoryLoaded, OverflowCounted, LoadedWell

(* Rows are only ever added, so what a turn has seen stays as it was.      *)
LEMMA SeenStays ==
  ASSUME TypeInv, [Next]_vars, NEW c, NEW k \in 0..Len(msgs)
  PROVE  k \in 0..Len(msgs') /\ UpTo(msgs', c, k) = UpTo(msgs, c, k)
<1>0. msgs \in Seq(Message) /\ Len(msgs) \in Nat
  BY DEF TypeInv, TypeOK, StoreTypeOK
<1>1. UNCHANGED msgs \/ \E m : msgs' = Append(msgs, m)
  BY DEF Next, TurnStep, CloserStep, NextSecond, Tick, vars, storeVars, Begin, Find, Get, Load, Count,
     Summarize, Reply, StreamEnds, RunEnds, FindAgain, GetAgain, StoreQuestion, StoreAnswer,
     StoreMessage, BillLate, Abort, StartClosing, Close, CloseCurrent
<1>2. ASSUME NEW m, msgs' = Append(msgs, m)
      PROVE  Len(msgs') = Len(msgs) + 1 /\ \A i \in 1..Len(msgs) : msgs'[i] = msgs[i]
  BY <1>0, <1>2
<1>. QED  BY <1>0, <1>1, <1>2 DEF UpTo

LEMMA SeenRows ==
  ASSUME TypeInv, NEW c, NEW k \in 0..Len(msgs)
  PROVE  /\ UpTo(msgs, c, k) \in SUBSET Rows(c) /\ UpTo(msgs, c, k) \in SUBSET (0..Len(msgs))
         /\ IsFiniteSet(UpTo(msgs, c, k)) /\ Cardinality(UpTo(msgs, c, k)) \in Nat
         /\ Cardinality(UpTo(msgs, c, k)) <= Cardinality(Rows(c))
         /\ UpTo(msgs, c, Len(msgs)) = Rows(c)
<1>1. DOMAIN msgs = 1..Len(msgs) /\ Len(msgs) \in Nat
  BY DEF TypeInv, TypeOK, StoreTypeOK
<1>2. UpTo(msgs, c, k) \in SUBSET Rows(c)
  BY <1>1 DEF UpTo, Rows
<1>3. UpTo(msgs, c, k) \in SUBSET (0..Len(msgs)) /\ UpTo(msgs, c, Len(msgs)) = Rows(c)
  BY <1>1 DEF UpTo, Rows
<1>. QED  BY <1>2, <1>3, RowsFinite, FS_Subset, FS_CardinalityType

(* A turn that is left alone has loaded what it had.                       *)
LEMMA LoadedStays ==
  ASSUME TypeInv, [Next]_vars, NEW v \in Workers, LoadedWell(v),
         turn'[v] = turn[v] \/ turn'[v].stage \notin {"count", "overflow", "ask"}
  PROVE  LoadedWell(v)'
<1>1. CASE turn'[v] = turn[v] /\ turn[v].stage \in {"count", "overflow", "ask"}
  <2>1. turn[v].asOf \in 0..Len(msgs)
    BY <1>1 DEF LoadedWell
  <2>2. /\ turn[v].asOf \in 0..Len(msgs')
        /\ UpTo(msgs', turn[v].conv, turn[v].asOf) = UpTo(msgs, turn[v].conv, turn[v].asOf)
    BY <2>1, SeenStays
  <2>. QED  BY <1>1, <2>2 DEF LoadedWell, At
<1>2. CASE turn'[v].stage \notin {"count", "overflow", "ask"}
  BY <1>2 DEF LoadedWell, At
<1>. QED  BY <1>1, <1>2

LEMMA LoadStarts ==
  ASSUME TypeInv, [Next]_vars, NEW w \in Workers, Load(w)
  PROVE  LoadedWell(w)'
<1>0. turn[w] \in Turn /\ turn \in [Workers -> Turn] /\ MaxContext \in Nat
  BY StoreConstantsOK DEF TypeInv, TypeOK
<1>. DEFINE c == turn[w].conv
            N == Newest(Rows(c), MaxContext)
<1>1. PICK s, t :
        /\ s \in OrdersOf(N)
        /\ t = [turn[w] EXCEPT !.history = s, !.asOf = Len(msgs),
                  !.stage = IF Len(s) >= MaxContext THEN "count" ELSE "ask"]
        /\ Set(w, t)
  BY DEF Load
<1>2. turn'[w] = t /\ UNCHANGED msgs
  BY <1>0, <1>1 DEF Set, Load, storeVars
<1>3. /\ t.history = s /\ t.asOf = Len(msgs) /\ t.conv = c
      /\ t.stage = IF Len(s) >= MaxContext THEN "count" ELSE "ask"
  BY <1>0, <1>1 DEF Turn
<1>4. Len(msgs) \in 0..Len(msgs)
  BY DEF TypeInv, TypeOK, StoreTypeOK
<1>5. UpTo(msgs, c, Len(msgs)) = Rows(c) /\ Rows(c) \in SUBSET (0..Len(msgs)) /\ Len(msgs) \in Nat
  BY <1>4, SeenRows
<1>6. N \in SUBSET Nat /\ IsFiniteSet(N) /\ N \in SUBSET Rows(c)
  <2>1. N \in SUBSET Rows(c)
    BY DEF Newest
  <2>. HIDE DEF N, c
  <2>. QED  BY <1>5, <2>1, RowsFinite, FS_Subset
<1>. HIDE DEF N
<1>7. (\A i \in N : In(s, i)) /\ Len(s) = Cardinality(N) /\ Cardinality(N) \in Nat
  BY <1>1, <1>6, OrderCovers, OrderTyped, FS_CardinalityType
<1>8. t.stage = "ask" => N = Rows(c)
  <2>1. t.stage = "ask" => Cardinality(N) < MaxContext
    BY <1>0, <1>3, <1>7
  <2>. QED  BY <1>0, <1>5, <2>1, NewestFew DEF N
<1>9. t.stage # "overflow"
  BY <1>3
<1>. HIDE DEF c
<1>. QED  BY <1>2, <1>3, <1>4, <1>5, <1>7, <1>8, <1>9 DEF LoadedWell, At, N

LEMMA CountGoesOn ==
  ASSUME TypeInv, [Next]_vars, NEW w \in Workers, Count(w), LoadedWell(w)
  PROVE  LoadedWell(w)'
<1>0. turn[w] \in Turn /\ turn \in [Workers -> Turn] /\ MaxContext \in Nat
  BY StoreConstantsOK DEF TypeInv, TypeOK
<1>. DEFINE c == turn[w].conv
            U == UpTo(msgs, c, turn[w].asOf)
            n == Overflow(c)
<1>1. PICK t :
        /\ t = [turn[w] EXCEPT !.over = n, !.stage = IF n > 0 /\ AutoCompact THEN "overflow" ELSE "ask"]
        /\ Set(w, t)
  BY DEF Count
<1>2. turn'[w] = t /\ UNCHANGED msgs
  BY <1>0, <1>1 DEF Set, Count, storeVars
<1>3. /\ t.over = n /\ t.asOf = turn[w].asOf /\ t.conv = c /\ t.history = turn[w].history
      /\ t.stage = IF n > 0 /\ AutoCompact THEN "overflow" ELSE "ask"
  BY <1>0, <1>1 DEF Turn
<1>4. turn[w].asOf \in 0..Len(msgs) /\ \A i \in Newest(U, MaxContext) : In(turn[w].history, i)
  BY DEF Count, At, LoadedWell
<1>5. /\ U \in SUBSET Nat /\ IsFiniteSet(U) /\ Cardinality(U) \in Nat
      /\ Cardinality(U) <= Cardinality(Rows(c)) /\ Cardinality(Rows(c)) \in Nat
  BY <1>4, SeenRows, RowsFinite
<1>6. n \in Nat /\ Cardinality(Rows(c)) <= n + MaxContext
  BY <1>0, <1>5 DEF Overflow
<1>. HIDE DEF U, n, c
<1>7. Cardinality(U) <= n + MaxContext
  BY <1>0, <1>5, <1>6
<1>8. AutoCompact /\ t.stage = "ask" => Newest(U, MaxContext) = U
  <2>1. AutoCompact /\ t.stage = "ask" => Cardinality(U) <= MaxContext
    BY <1>0, <1>3, <1>6, <1>7
  <2>. QED  BY <1>0, <1>5, <2>1, NewestAll
<1>. QED  BY <1>2, <1>3, <1>4, <1>7, <1>8 DEF LoadedWell, At, U, c

LEMMA SummaryCovers ==
  ASSUME TypeInv, [Next]_vars, NEW w \in Workers, Summarize(w), LoadedWell(w)
  PROVE  LoadedWell(w)'
<1>0. turn[w] \in Turn /\ turn \in [Workers -> Turn] /\ MaxContext \in Nat
  BY StoreConstantsOK DEF TypeInv, TypeOK
<1>. DEFINE c == turn[w].conv
            U == UpTo(msgs, c, turn[w].asOf)
            O == Oldest(Rows(c), turn[w].over)
<1>1. PICK t : t = [turn[w] EXCEPT !.stage = "ask", !.summary = O] /\ Set(w, t)
  BY DEF Summarize
<1>2. turn'[w] = t /\ UNCHANGED msgs
  BY <1>0, <1>1 DEF Set, Summarize, storeVars
<1>3. /\ t.summary = O /\ t.asOf = turn[w].asOf /\ t.conv = c /\ t.history = turn[w].history
      /\ t.stage = "ask"
  BY <1>0, <1>1 DEF Turn
<1>4. /\ turn[w].asOf \in 0..Len(msgs) /\ turn[w].over \in Nat
      /\ \A i \in Newest(U, MaxContext) : In(turn[w].history, i)
      /\ Cardinality(U) <= turn[w].over + MaxContext
  BY <1>0 DEF Summarize, At, LoadedWell, Turn
<1>5. U \in SUBSET Nat /\ IsFiniteSet(U) /\ Cardinality(U) \in Nat /\ U \in SUBSET Rows(c)
  BY <1>4, SeenRows
<1>6. ASSUME NEW i \in U, i \notin Newest(U, MaxContext) PROVE i \in O
  <2>1. {j \in Rows(c) : j < i} = {j \in U : j < i}
    <3>1. DOMAIN msgs = 1..Len(msgs) /\ Len(msgs) \in Nat
      BY DEF TypeInv, TypeOK, StoreTypeOK
    <3>. QED  BY <1>4, <1>6, <3>1 DEF Rows, UpTo
  <2>. HIDE DEF U
  <2>2. {j \in U : j < i} \in SUBSET U
    OBVIOUS
  <2>3. Cardinality({j \in U : j < i}) \in Nat
    BY <1>5, <2>2, FS_Subset, FS_CardinalityType
  <2>4. Cardinality({j \in U : j < i}) + MaxContext < Cardinality(U)
    BY <1>0, <1>5, <1>6, OldOrNew
  <2>5. Cardinality({j \in U : j < i}) < turn[w].over
    BY <1>0, <1>4, <1>5, <2>3, <2>4
  <2>. QED  BY <1>5, <1>6, <2>1, <2>5 DEF Oldest
<1>. HIDE DEF O, c
<1>. QED  BY <1>2, <1>3, <1>4, <1>6 DEF LoadedWell, At

LEMMA OthersWait ==
  ASSUME TypeInv, NEW w \in Workers, TurnStep(w)
  PROVE  \E t : turn'[w] = t /\ \A v \in Workers \ {w} : turn'[v] = turn[v]
<1>0. turn \in [Workers -> Turn]
  BY DEF TypeInv, TypeOK
<1>1. \E t : Set(w, t)
  BY DEF TurnStep, Begin, Find, Get, Load, Count, Summarize, Reply, StreamEnds, RunEnds,
     FindAgain, GetAgain, StoreQuestion, StoreAnswer, BillLate, Abort, Go
<1>. QED  BY <1>0, <1>1 DEF Set

(* Only build_context's own steps lead to the stages of build_context.     *)
LEMMA ReadsOnlyThere ==
  ASSUME TypeInv, NEW w \in Workers, TurnStep(w), ~ (Load(w) \/ Count(w) \/ Summarize(w))
  PROVE  turn'[w].stage \notin {"count", "overflow", "ask"}
<1>0. turn[w] \in Turn /\ turn \in [Workers -> Turn]
  BY DEF TypeInv, TypeOK
<1>1. ASSUME NEW p, NEW mode, NEW text, Begin(w, p, mode, text) PROVE turn'[w].stage = "find"
  BY <1>0, <1>1 DEF Begin, Set, NoTurn
<1>2. CASE Set(w, NoTurn)
  BY <1>0, <1>2 DEF Set, NoTurn
<1>3. ASSUME NEW c, NEW stage, Set(w, [turn[w] EXCEPT !.stage = stage, !.conv = c])
      PROVE  turn'[w].stage = stage
  BY <1>0, <1>3 DEF Set, Turn
<1>4. ASSUME NEW stage, Go(w, stage) PROVE turn'[w].stage = stage
  BY <1>0, <1>4 DEF Go, Set, Turn
<1>5. ASSUME NEW reply, Set(w, Replied(w, reply)) PROVE turn'[w].stage \in {"bill", "find again"}
  BY <1>0, <1>5 DEF Set, Replied, NoTurn
<1>6. CASE Find(w) \/ FindAgain(w)
  BY <1>3, <1>6 DEF Find, FindAgain
<1>7. CASE Get(w) \/ GetAgain(w)
  <2>1. \E stage \in {"load", "question"} :
          Set(w, [turn[w] EXCEPT !.stage = stage, !.conv = GotOrCreated(turn[w].conv)])
    BY <1>7 DEF Get, GetAgain, Set
  <2>. QED  BY <1>3, <2>1
<1>. QED
  BY <1>1, <1>2, <1>4, <1>5, <1>6, <1>7
     DEF TurnStep, Reply, StreamEnds, RunEnds, StoreQuestion, StoreAnswer, BillLate, Abort

LEMMA LoadStep ==
  ASSUME TypeInv, LoadInv, [Next]_vars
  PROVE  LoadInv'
<1>0. \A w \in Workers : LoadedWell(w)
  BY LoadInvByTurn
<1>1. ASSUME NEW w \in Workers, TurnStep(w), NEW v \in Workers PROVE LoadedWell(v)'
  <2>1. CASE v # w
    <3>1. turn'[v] = turn[v]
      BY <1>1, <2>1, OthersWait
    <3>. QED  BY <1>0, <3>1, LoadedStays
  <2>2. CASE v = w /\ (Load(w) \/ Count(w) \/ Summarize(w))
    BY <1>0, <2>2, LoadStarts, CountGoesOn, SummaryCovers
  <2>3. CASE v = w /\ ~ (Load(w) \/ Count(w) \/ Summarize(w))
    <3>1. turn'[w].stage \notin {"count", "overflow", "ask"}
      BY <1>1, <2>3, ReadsOnlyThere
    <3>. QED  BY <1>0, <2>3, <3>1, LoadedStays
  <2>. QED  BY <2>1, <2>2, <2>3
<1>2. ASSUME CloserStep \/ NextSecond \/ Tick \/ UNCHANGED vars, NEW v \in Workers
      PROVE  LoadedWell(v)'
  <2>1. turn'[v] = turn[v]
    BY <1>2 DEF CloserStep, StartClosing, Close, CloseCurrent, NextSecond, Tick, vars
  <2>. QED  BY <1>0, <2>1, LoadedStays
<1>3. \A v \in Workers : LoadedWell(v)'
  BY <1>1, <1>2 DEF Next
<1>4. HistoryLoaded' /\ OverflowCounted'
  BY <1>3 DEF LoadedWell, HistoryLoaded, OverflowCounted
<1>5. NothingDropped'
  BY <1>3 DEF LoadedWell, NothingDropped, UpTo, In, At
<1>. QED  BY <1>4, <1>5 DEF LoadInv

LEMMA LoadInit == Init => LoadInv
<1> SUFFICES ASSUME Init, NEW w \in Workers PROVE LoadedWell(w)
  BY LoadInvByTurn
<1>1. turn[w] = NoTurn /\ NoTurn.stage = "idle"
  BY DEF Init, NoTurn
<1>. QED  BY <1>1 DEF LoadedWell, At

LEMMA LoadsAlways == Spec => [](TypeInv /\ LoadInv)
<1>1. Init => TypeInv /\ LoadInv
  BY TypeInit, LoadInit
<1>2. TypeInv /\ LoadInv /\ [Next]_vars => (TypeInv /\ LoadInv)'
  BY TypeStep, LoadStep
<1>. QED  BY <1>1, <1>2, PTL DEF Spec

(* With auto_compact, every message a conversation had when build_context  *)
(* read its history is in the history or goes to the summarizer, whatever  *)
(* other turns store between the three reads.                              *)
THEOREM NoMessageIsDropped == Spec => []NothingDropped
<1>1. LoadInv => NothingDropped
  BY DEF LoadInv
<1>. QED  BY <1>1, LoadsAlways, PTL

-----------------------------------------------------------------------------
(* Who serves a key.                                                       *)

(* A step after which no row is a new candidate.                           *)
Fewer ==
  /\ DOMAIN convs \subseteq DOMAIN convs'
  /\ \A c \in DOMAIN convs : convs'[c].project = convs[c].project
  /\ \A key \in Keys : Candidates(key)' \subseteq Candidates(key)

LEMMA NoneGained ==
  ASSUME TypeInv, [Next]_vars,
         ~ \E w \in Workers : Get(w) \/ GetAgain(w)
  PROVE  Fewer
<1>0. convs \in Seq(Conversation) /\ Timeout \in Nat
  BY StoreConstantsOK DEF TypeInv, TypeOK, StoreTypeOK
<1>1. DOMAIN convs \subseteq DOMAIN convs'
  BY ConvsTyped
<1>2. UNCHANGED convs \/ convs' = Older \/ \E S : convs' = Closed(S)
  BY DEF Next, TurnStep, CloserStep, NextSecond, Tick, vars, storeVars, Begin, Find, Load, Count,
     Summarize, Reply, StreamEnds, RunEnds, FindAgain, StoreQuestion, StoreAnswer,
     StoreMessage, BillLate, Abort, StartClosing, Close, CloseCurrent
<1>3. CASE UNCHANGED convs
  BY <1>3 DEF Fewer, Candidates, Live
<1>4. ASSUME DOMAIN convs' = DOMAIN convs,
             \A c \in DOMAIN convs :
               /\ convs'[c].project = convs[c].project
               /\ convs'[c].status = "active" => convs[c].status = "active"
               /\ convs'[c].idle < Timeout => convs[c].idle < Timeout
      PROVE  Fewer
  BY <1>1, <1>4 DEF Fewer, Candidates, Live
<1>5. ASSUME NEW c \in DOMAIN convs
      PROVE  convs[c] \in Conversation /\ convs[c].idle \in Nat
  <2>1. convs[c] \in Conversation
    BY <1>0
  <2>. QED  BY <2>1 DEF Conversation
<1>6. CASE convs' = Older
  <2>1. DOMAIN convs' = DOMAIN convs
    BY <1>6 DEF Older
  <2>2. ASSUME NEW c \in DOMAIN convs
        PROVE  /\ convs'[c].project = convs[c].project
               /\ convs'[c].status = convs[c].status
               /\ convs'[c].idle < Timeout => convs[c].idle < Timeout
    <3>1. CASE convs[c].idle < Timeout
      <4>1. convs'[c] = [convs[c] EXCEPT !.idle = convs[c].idle + 1]
        BY <1>6, <3>1 DEF Older
      <4>. QED  BY <1>5, <3>1, <4>1 DEF Conversation
    <3>2. CASE ~ (convs[c].idle < Timeout)
      BY <1>6, <3>2 DEF Older
    <3>. QED  BY <3>1, <3>2
  <2>. QED  BY <1>4, <2>1, <2>2
<1>7. ASSUME NEW S, convs' = Closed(S) PROVE Fewer
  <2>1. DOMAIN convs' = DOMAIN convs
    BY <1>7 DEF Closed
  <2>2. ASSUME NEW c \in DOMAIN convs
        PROVE  /\ convs'[c].project = convs[c].project
               /\ convs'[c].status = "active" => convs[c].status = "active"
               /\ convs'[c].idle = convs[c].idle
    <3>1. CASE c \in S
      <4>1. convs'[c] = [convs[c] EXCEPT !.status = "closed"]
        BY <1>7, <3>1 DEF Closed
      <4>. QED  BY <1>5, <4>1 DEF Conversation
    <3>2. CASE c \notin S
      BY <1>7, <3>2 DEF Closed
    <3>. QED  BY <3>1, <3>2
  <2>. QED  BY <1>4, <2>1, <2>2
<1>. QED  BY <1>2, <1>3, <1>6, <1>7

(* What get_or_create_conversation makes a candidate: the row it has got,  *)
(* of the key it was asked for.                                            *)
LEMMA OneGained ==
  ASSUME convs \in Seq(Conversation), NEW c \in DOMAIN convs \cup {None}, NEW key \in Keys,
         c # None => convs[c].project = key, convs' = AfterGetOrCreate(c, key)
  PROVE  /\ \A d \in DOMAIN convs : convs'[d].project = convs[d].project
         /\ convs'[GotOrCreated(c)].project = key
         /\ Candidates(key)' \subseteq Candidates(key) \cup {GotOrCreated(c)}
         /\ \A k \in Keys \ {key} : Candidates(k)' \subseteq Candidates(k)
<1>0. Len(convs) \in Nat /\ DOMAIN convs = 1..Len(convs) /\ None \notin DOMAIN convs
  BY DEF None
<1>1. CASE c = None
  <2>1. PICK r : r = [project |-> key, status |-> "active", idle |-> 0] /\ convs' = Append(convs, r)
    BY <1>1 DEF AfterGetOrCreate
  <2>2. /\ DOMAIN convs' = 1..(Len(convs) + 1) /\ convs'[Len(convs) + 1] = r
        /\ \A d \in DOMAIN convs : convs'[d] = convs[d]
    BY <1>0, <2>1
  <2>3. r.project = key
    BY <2>1
  <2>4. \A d \in DOMAIN convs' : d \in DOMAIN convs \/ d = Len(convs) + 1
    BY <1>0, <2>2
  <2>. QED  BY <1>0, <1>1, <2>2, <2>3, <2>4 DEF GotOrCreated, Candidates, Live
<1>2. CASE c # None
  <2>1. c \in DOMAIN convs /\ convs[c].project = key /\ convs[c] \in Conversation
    BY <1>2
  <2>2. PICK r : r = [convs[c] EXCEPT !.idle = 0] /\ convs' = [convs EXCEPT ![c] = r]
    BY <1>2 DEF AfterGetOrCreate
  <2>3. r.project = key
    BY <2>1, <2>2 DEF Conversation
  <2>4. /\ DOMAIN convs' = DOMAIN convs /\ convs'[c] = r
        /\ \A d \in DOMAIN convs \ {c} : convs'[d] = convs[d]
    BY <2>1, <2>2
  <2>. QED  BY <1>2, <2>1, <2>3, <2>4 DEF GotOrCreated, Candidates, Live
<1>. QED  BY <1>1, <1>2

(* A turn that serves a key after a step did so before, with the same row. *)
ServesOn(v) ==
  /\ InFlight(v)' => InFlight(v) /\ turn'[v].project = turn[v].project
  /\ \A key \in Keys : ServesKey(v, key)' => ServesKey(v, key) /\ turn'[v].conv = turn[v].conv

LEMMA OldTurnServesOn ==
  ASSUME NEW v \in Workers, turn'[v] = turn[v]
  PROVE  ServesOn(v)
  BY DEF ServesOn, InFlight, ServesKey

LEMMA TurnServesOn ==
  ASSUME TypeInv, NEW w \in Workers, TurnStep(w),
         ~ \E p \in Projects, mode \in Modes, text \in Requests : Begin(w, p, mode, text),
         ~ (Find(w) \/ FindAgain(w) \/ Get(w) \/ GetAgain(w))
  PROVE  ServesOn(w)
<1>0. turn[w] \in Turn /\ turn \in [Workers -> Turn]
  BY DEF TypeInv, TypeOK
<1>1. CASE Set(w, NoTurn)
  <2>1. turn'[w].stage = "idle"
    BY <1>0, <1>1 DEF Set, NoTurn
  <2>. QED  BY <2>1 DEF ServesOn, InFlight, ServesKey, Reading, Writing
<1>2. ASSUME NEW reply, Set(w, Replied(w, reply)), InFlight(w) PROVE ServesOn(w)
  <2>1. turn'[w].stage \in {"bill", "find again"} /\ turn'[w].project = turn[w].project
    BY <1>0, <1>2 DEF Set, Replied, NoTurn
  <2>. QED  BY <1>2, <2>1 DEF ServesOn, InFlight, ServesKey, Reading, Writing
<1>3. ASSUME NEW t, Set(w, t), InFlight(w), t.project = turn[w].project, t.conv = turn[w].conv,
             \/ t.stage \in Reading /\ turn[w].stage \in Reading
             \/ t.stage \in Writing /\ turn[w].stage \in Writing
             \/ t.stage \notin Reading \cup Writing
      PROVE  ServesOn(w)
  <2>1. turn'[w] = t
    BY <1>0, <1>3 DEF Set
  <2>2. "idle" \notin Reading \cup Writing /\ Reading \cap Writing = {}
    BY DEF Reading, Writing
  <2>. QED  BY <1>3, <2>1, <2>2 DEF ServesOn, InFlight, ServesKey
<1>4. CASE Load(w)
  <2>1. PICK s, n, stage, t :
          /\ stage \in {"count", "ask"} /\ turn[w].stage = "load"
          /\ t = [turn[w] EXCEPT !.history = s, !.asOf = n, !.stage = stage] /\ Set(w, t)
    BY <1>4 DEF Load, At
  <2>2. t.project = turn[w].project /\ t.conv = turn[w].conv /\ t.stage = stage
    BY <1>0, <2>1 DEF Turn
  <2>. QED  BY <1>3, <2>1, <2>2 DEF Reading, InFlight
<1>5. CASE Count(w)
  <2>1. PICK n, stage, t :
          /\ stage \in {"overflow", "ask"} /\ turn[w].stage = "count"
          /\ t = [turn[w] EXCEPT !.over = n, !.stage = stage] /\ Set(w, t)
    BY <1>5 DEF Count, At
  <2>2. t.project = turn[w].project /\ t.conv = turn[w].conv /\ t.stage = stage
    BY <1>0, <2>1 DEF Turn
  <2>. QED  BY <1>3, <2>1, <2>2 DEF Reading, InFlight
<1>6. CASE Summarize(w)
  <2>1. PICK S, t :
          /\ turn[w].stage = "overflow"
          /\ t = [turn[w] EXCEPT !.stage = "ask", !.summary = S] /\ Set(w, t)
    BY <1>6 DEF Summarize, At
  <2>2. t.project = turn[w].project /\ t.conv = turn[w].conv /\ t.stage = "ask"
    BY <1>0, <2>1 DEF Turn
  <2>. QED  BY <1>3, <2>1, <2>2 DEF Reading, InFlight
<1>7. ASSUME NEW from, NEW to, turn[w].stage = from, Go(w, to),
             <<from, to>> \in {<<"bill", "find again">>, <<"question", "answer">>, <<"answer", "bill late">>}
      PROVE  ServesOn(w)
  <2>1. PICK t : t = [turn[w] EXCEPT !.stage = to] /\ Set(w, t)
    BY <1>7 DEF Go
  <2>2. t.project = turn[w].project /\ t.conv = turn[w].conv /\ t.stage = to
    BY <1>0, <2>1 DEF Turn
  <2>. QED  BY <1>3, <1>7, <2>1, <2>2 DEF Reading, Writing, InFlight
<1>8. CASE RunEnds(w) \/ StoreQuestion(w) \/ StoreAnswer(w)
  BY <1>1, <1>7, <1>8 DEF RunEnds, StoreQuestion, StoreAnswer, At
<1>9. CASE BillLate(w) \/ Abort(w)
  BY <1>1, <1>9 DEF BillLate, Abort
<1>10. CASE (\E reply \in Replies : Reply(w, reply)) \/ (\E reply \in Requests : StreamEnds(w, reply))
  BY <1>2, <1>10 DEF Reply, StreamEnds, At, InFlight
<1>. QED  BY <1>4, <1>5, <1>6, <1>8, <1>9, <1>10 DEF TurnStep

(* Steps after which no turn serves a new key and no row is a new          *)
(* candidate: nothing changes for the worse.                               *)
LEMMA KeysStay ==
  ASSUME TypeInv, KeyInv, Fewer, overlap \subseteq overlap', \A v \in Workers : ServesOn(v)
  PROVE  KeyInv'
<1>1. OneServer'
  BY DEF KeyInv, OneServer, ServesOn, InFlight
<1>2. OneCandidate'
  BY DEF KeyInv, OneCandidate, Fewer
<1>3. HoldsTheLiveOne'
  <2>1. ASSUME NEW v \in Workers, NEW key \in Keys \ overlap', ServesKey(v, key)'
        PROVE  Candidates(key)' \subseteq {turn'[v].conv}
    BY <2>1 DEF KeyInv, HoldsTheLiveOne, Fewer, ServesOn
  <2>. QED  BY <2>1 DEF HoldsTheLiveOne
<1>4. HeldServesKey'
  <2>1. ASSUME NEW v \in Workers, NEW key \in Keys, ServesKey(v, key)', turn'[v].conv # None
        PROVE  convs'[turn'[v].conv].project = key
    <3>1. ServesKey(v, key) /\ turn'[v].conv = turn[v].conv
      BY <2>1 DEF ServesOn
    <3>2. convs[turn[v].conv].project = key
      BY <2>1, <3>1 DEF KeyInv, HeldServesKey
    <3>3. turn[v].conv \in DOMAIN convs
      BY <2>1, <3>1 DEF TypeInv, TypeOK
    <3>. QED  BY <3>1, <3>2, <3>3 DEF Fewer
  <2>. QED  BY <2>1 DEF HeldServesKey
<1>. QED  BY <1>1, <1>2, <1>3, <1>4 DEF KeyInv

LEMMA KeysAtBegin ==
  ASSUME TypeInv, KeyInv, NEW w \in Workers, NEW p \in Projects, NEW mode \in Modes,
         NEW text \in Requests, Begin(w, p, mode, text), Fewer
  PROVE  KeyInv'
<1>0. turn \in [Workers -> Turn]
  BY DEF TypeInv, TypeOK
<1>1. turn'[w].stage = "find" /\ turn'[w].project = p
  BY <1>0 DEF Begin, Set, NoTurn
<1>2. \A v \in Workers \ {w} : turn'[v] = turn[v]
  BY <1>0 DEF Begin, Set
<1>3. /\ overlap' = overlap \cup
           {k \in KeysOf(p) : \E v \in Workers : InFlight(v) /\ k \in KeysOf(turn[v].project)}
      /\ ~ InFlight(w)
  BY DEF Begin
<1>4. \A v \in Workers : \A key : ServesKey(v, key)' => v # w /\ ServesKey(v, key) /\ turn'[v] = turn[v]
  BY <1>1, <1>2 DEF ServesKey, Reading, Writing
<1>5. OneServer'
  <2>1. ASSUME NEW key \in Keys \ overlap', NEW v \in Workers, NEW u \in Workers,
               InFlight(v)', key \in KeysOf(turn'[v].project),
               InFlight(u)', key \in KeysOf(turn'[u].project)
        PROVE  v = u
    <3>1. key \notin overlap
      BY <1>3, <2>1
    <3>2. CASE v # w /\ u # w
      BY <1>2, <2>1, <3>1, <3>2 DEF KeyInv, OneServer, InFlight
    <3>3. ASSUME key \in KeysOf(p), NEW x \in Workers \ {w}, InFlight(x)', key \in KeysOf(turn'[x].project)
          PROVE  FALSE
      <4>1. InFlight(x) /\ key \in KeysOf(turn[x].project)
        BY <1>2, <3>3 DEF InFlight
      <4>. QED  BY <1>3, <2>1, <3>3, <4>1
    <3>. QED  BY <1>1, <2>1, <3>2, <3>3
  <2>. QED  BY <2>1 DEF OneServer
<1>6. OneCandidate'
  BY <1>3 DEF KeyInv, OneCandidate, Fewer
<1>7. HoldsTheLiveOne'
  <2>1. ASSUME NEW v \in Workers, NEW key \in Keys \ overlap', ServesKey(v, key)'
        PROVE  Candidates(key)' \subseteq {turn'[v].conv}
    BY <1>3, <1>4, <2>1 DEF KeyInv, HoldsTheLiveOne, Fewer
  <2>. QED  BY <2>1 DEF HoldsTheLiveOne
<1>8. HeldServesKey'
  <2>1. \A v \in Workers : turn[v].conv # None => turn[v].conv \in DOMAIN convs
    BY DEF TypeInv, TypeOK
  <2>. QED  BY <1>4, <2>1 DEF KeyInv, HeldServesKey, Fewer
<1>. QED  BY <1>5, <1>6, <1>7, <1>8 DEF KeyInv

(* The SELECT finds the only live conversation of the key, or none.        *)
LEMMA KeysAtFind ==
  ASSUME TypeInv, KeyInv, NEW w \in Workers, Find(w) \/ FindAgain(w), Fewer
  PROVE  KeyInv'
<1>0. turn[w] \in Turn /\ turn \in [Workers -> Turn]
  BY DEF TypeInv, TypeOK
<1>1. PICK key, c, stage, t :
        /\ \/ stage = "get" /\ key = ReadKey(turn[w].project)
           \/ stage = "get again" /\ key = WriteKey(turn[w].project)
        /\ c \in Found(key)
        /\ t = [turn[w] EXCEPT !.stage = stage, !.conv = c] /\ Set(w, t)
  BY DEF Find, FindAgain
<1>2. InFlight(w) /\ UNCHANGED <<overlap, convs>>
  BY DEF Find, FindAgain, storeVars, historyVars, InFlight, At
<1>3. turn'[w] = t /\ \A v \in Workers \ {w} : turn'[v] = turn[v]
  BY <1>0, <1>1 DEF Set
<1>4. t.stage = stage /\ t.project = turn[w].project /\ t.conv = c
  BY <1>0, <1>1 DEF Turn
<1>5. \A k : ServesKey(w, k)' <=> k = key
  BY <1>1, <1>3, <1>4 DEF ServesKey, Reading, Writing
<1>6. \A v \in Workers \ {w} : \A k : ServesKey(v, k)' <=> ServesKey(v, k)
  BY <1>3 DEF ServesKey
<1>7. /\ Candidates(key) = {} => c = None
      /\ c # None => c \in Candidates(key)
  BY <1>1 DEF Found
<1>8. OneServer'
  <2>1. \A v \in Workers : InFlight(v)' => InFlight(v) /\ turn'[v].project = turn[v].project
    BY <1>2, <1>3, <1>4 DEF InFlight
  <2>. QED  BY <1>2, <2>1 DEF KeyInv, OneServer
<1>9. OneCandidate'
  BY <1>2 DEF KeyInv, OneCandidate, Candidates, Live
<1>10. HoldsTheLiveOne'
  <2>1. ASSUME key \in Keys \ overlap PROVE Candidates(key) \subseteq {c}
    <3>1. \A d, e \in Candidates(key) : d = e
      BY <2>1 DEF KeyInv, OneCandidate
    <3>2. Candidates(key) # {} => c \in Candidates(key)
      BY <1>1 DEF Found
    <3>. QED  BY <3>1, <3>2
  <2>2. \A k \in Keys : Candidates(k)' = Candidates(k)
    BY <1>2 DEF Candidates, Live
  <2>3. ASSUME NEW v \in Workers, NEW k \in Keys \ overlap', ServesKey(v, k)'
        PROVE  Candidates(k)' \subseteq {turn'[v].conv}
    <3>1. CASE v = w
      BY <1>2, <1>3, <1>4, <1>5, <2>1, <2>2, <2>3, <3>1
    <3>2. CASE v # w
      BY <1>2, <1>3, <1>6, <2>2, <2>3, <3>2 DEF KeyInv, HoldsTheLiveOne
    <3>. QED  BY <3>1, <3>2
  <2>. QED  BY <2>3 DEF HoldsTheLiveOne
<1>11. HeldServesKey'
  <2>1. c # None => convs[c].project = key
    BY <1>7 DEF Candidates
  <2>2. ASSUME NEW v \in Workers, NEW k \in Keys, ServesKey(v, k)', turn'[v].conv # None
        PROVE  convs[turn'[v].conv].project = k
    <3>1. CASE v = w
      BY <1>3, <1>4, <1>5, <2>1, <2>2, <3>1
    <3>2. CASE v # w
      BY <1>3, <1>6, <2>2, <3>2 DEF KeyInv, HeldServesKey
    <3>. QED  BY <3>1, <3>2
  <2>. QED  BY <1>2, <2>2 DEF HeldServesKey
<1>. QED  BY <1>8, <1>9, <1>10, <1>11 DEF KeyInv

(* The row a turn gets is the only live one of its key, for no other turn  *)
(* serves the key.                                                         *)
LEMMA KeysAtGet ==
  ASSUME TypeInv, KeyInv, NEW w \in Workers, Get(w) \/ GetAgain(w)
  PROVE  KeyInv'
<1>0. turn[w] \in Turn /\ turn \in [Workers -> Turn] /\ convs \in Seq(Conversation)
  BY DEF TypeInv, TypeOK, StoreTypeOK
<1>1. PICK key, stage, t :
        /\ \/ stage = "load" /\ At(w, "get") /\ key = ReadKey(turn[w].project)
           \/ stage = "question" /\ At(w, "get again") /\ key = WriteKey(turn[w].project)
        /\ convs' = AfterGetOrCreate(turn[w].conv, key)
        /\ t = [turn[w] EXCEPT !.stage = stage, !.conv = GotOrCreated(turn[w].conv)] /\ Set(w, t)
  BY DEF Get, GetAgain, Set
<1>2. InFlight(w) /\ UNCHANGED overlap
  BY DEF Get, GetAgain, historyVars, InFlight, At
<1>3. turn'[w] = t /\ \A v \in Workers \ {w} : turn'[v] = turn[v]
  BY <1>0, <1>1 DEF Set
<1>4. PICK d : d = GotOrCreated(turn[w].conv)
  OBVIOUS
<1>5. t.stage = stage /\ t.project = turn[w].project /\ t.conv = d
  BY <1>0, <1>1, <1>4 DEF Turn
<1>6. key \in Keys /\ key \in KeysOf(turn[w].project) /\ ServesKey(w, key)
  <2>1. turn[w].project \in Projects
    BY <1>2 DEF TypeInv, TurnsNumbered
  <2>2. key \in KeysOf(turn[w].project)
    BY <1>1 DEF KeysOf
  <2>3. ServesKey(w, key)
    BY <1>1 DEF ServesKey, At, Reading, Writing
  <2>. QED  BY <2>1, <2>2, <2>3, ProjectKeys
<1>7. \A k : ServesKey(w, k)' <=> k = key
  BY <1>1, <1>3, <1>5 DEF ServesKey, Reading, Writing
<1>8. \A v \in Workers \ {w} : \A k : ServesKey(v, k)' <=> ServesKey(v, k)
  BY <1>3 DEF ServesKey
<1>9. turn[w].conv \in DOMAIN convs \cup {None} /\ (turn[w].conv # None => convs[turn[w].conv].project = key)
  BY <1>6 DEF TypeInv, TypeOK, KeyInv, HeldServesKey
<1>10. /\ \A c \in DOMAIN convs : convs'[c].project = convs[c].project
       /\ convs'[d].project = key
       /\ Candidates(key)' \subseteq Candidates(key) \cup {d}
       /\ \A k \in Keys \ {key} : Candidates(k)' \subseteq Candidates(k)
  BY <1>0, <1>1, <1>4, <1>6, <1>9, OneGained
<1>11. key \notin overlap => Candidates(key)' \subseteq {d}
  <2>1. key \notin overlap => Candidates(key) \subseteq {turn[w].conv}
    BY <1>6 DEF KeyInv, HoldsTheLiveOne
  <2>2. None \notin Candidates(key)
    BY <1>0 DEF Candidates, None
  <2>3. turn[w].conv # None => d = turn[w].conv
    BY <1>4 DEF GotOrCreated
  <2>. QED  BY <1>10, <2>1, <2>2, <2>3
<1>12. OneServer'
  <2>1. \A v \in Workers : InFlight(v)' => InFlight(v) /\ turn'[v].project = turn[v].project
    BY <1>2, <1>3, <1>5 DEF InFlight
  <2>. QED  BY <1>2, <2>1 DEF KeyInv, OneServer
<1>13. OneCandidate'
  <2>1. ASSUME NEW k \in Keys \ overlap', NEW c \in Candidates(k)', NEW e \in Candidates(k)'
        PROVE  c = e
    <3>1. CASE k = key
      BY <1>2, <1>11, <2>1, <3>1
    <3>2. CASE k # key
      <4>1. c \in Candidates(k) /\ e \in Candidates(k)
        BY <1>10, <2>1, <3>2
      <4>. QED  BY <1>2, <2>1, <4>1 DEF KeyInv, OneCandidate
    <3>. QED  BY <3>1, <3>2
  <2>. QED  BY <2>1 DEF OneCandidate
<1>14. HoldsTheLiveOne'
  <2>1. ASSUME NEW v \in Workers, NEW k \in Keys \ overlap', ServesKey(v, k)'
        PROVE  Candidates(k)' \subseteq {turn'[v].conv}
    <3>1. CASE v = w
      BY <1>2, <1>3, <1>5, <1>7, <1>11, <2>1, <3>1
    <3>2. CASE v # w
      <4>1. ServesKey(v, k) /\ turn'[v] = turn[v] /\ k \notin overlap
        BY <1>2, <1>3, <1>8, <2>1, <3>2
      <4>2. InFlight(v) /\ k \in KeysOf(turn[v].project)
        BY <4>1 DEF ServesKey, Reading, Writing, InFlight, KeysOf
      <4>3. k # key
        BY <1>2, <1>6, <3>2, <4>1, <4>2 DEF KeyInv, OneServer
      <4>4. Candidates(k)' \subseteq Candidates(k)
        BY <1>10, <4>3
      <4>. QED  BY <2>1, <4>1, <4>4 DEF KeyInv, HoldsTheLiveOne
    <3>. QED  BY <3>1, <3>2
  <2>. QED  BY <2>1 DEF HoldsTheLiveOne
<1>15. HeldServesKey'
  <2>1. ASSUME NEW v \in Workers, NEW k \in Keys, ServesKey(v, k)', turn'[v].conv # None
        PROVE  convs'[turn'[v].conv].project = k
    <3>1. CASE v = w
      BY <1>3, <1>5, <1>7, <1>10, <2>1, <3>1
    <3>2. CASE v # w
      <4>1. ServesKey(v, k) /\ turn'[v] = turn[v]
        BY <1>3, <1>8, <2>1, <3>2
      <4>2. convs[turn[v].conv].project = k /\ turn[v].conv \in DOMAIN convs
        BY <2>1, <4>1 DEF KeyInv, HeldServesKey, TypeInv, TypeOK
      <4>. QED  BY <1>10, <4>1, <4>2
    <3>. QED  BY <3>1, <3>2
  <2>. QED  BY <2>1 DEF HeldServesKey
<1>. QED  BY <1>12, <1>13, <1>14, <1>15 DEF KeyInv

LEMMA KeyStep ==
  ASSUME TypeInv, KeyInv, [Next]_vars
  PROVE  KeyInv'
<1>1. ASSUME NEW w \in Workers, TurnStep(w) PROVE KeyInv'
  <2>1. CASE Get(w) \/ GetAgain(w)
    BY <2>1, KeysAtGet
  <2>2. CASE Find(w) \/ FindAgain(w)
    <3>1. convs' = convs
      BY <2>2 DEF Find, FindAgain, storeVars
    <3>2. Fewer
      BY <3>1 DEF Fewer, Candidates, Live
    <3>. QED  BY <2>2, <3>2, KeysAtFind
  <2>3. CASE \E p \in Projects, mode \in Modes, text \in Requests : Begin(w, p, mode, text)
    <3>1. convs' = convs
      BY <2>3 DEF Begin, storeVars
    <3>2. Fewer
      BY <3>1 DEF Fewer, Candidates, Live
    <3>. QED  BY <2>3, <3>2, KeysAtBegin
  <2>4. CASE /\ ~ \E p \in Projects, mode \in Modes, text \in Requests : Begin(w, p, mode, text)
             /\ ~ (Find(w) \/ FindAgain(w) \/ Get(w) \/ GetAgain(w))
    <3>1. convs' = convs /\ overlap' = overlap
      BY <1>1, <2>4 DEF TurnStep, storeVars, historyVars, Load, Count, Summarize, Reply, StreamEnds,
         RunEnds, StoreQuestion, StoreAnswer, StoreMessage, BillLate, Abort
    <3>2. Fewer
      BY <3>1 DEF Fewer, Candidates, Live
    <3>3. \A v \in Workers : ServesOn(v)
      BY <1>1, <2>4, OthersWait, OldTurnServesOn, TurnServesOn
    <3>. QED  BY <3>1, <3>2, <3>3, KeysStay
  <2>. QED  BY <2>1, <2>2, <2>3, <2>4
<1>2. ASSUME CloserStep \/ NextSecond \/ Tick \/ UNCHANGED vars PROVE KeyInv'
  <2>1. UNCHANGED <<turn, overlap>>
    BY <1>2 DEF CloserStep, StartClosing, Close, CloseCurrent, NextSecond, Tick, historyVars, vars
  <2>2. ~ \E w \in Workers : Get(w) \/ GetAgain(w)
    <3>1. ASSUME NEW w \in Workers, Get(w) \/ GetAgain(w) PROVE turn'[w] # turn[w]
      <4>1. turn[w] \in Turn /\ turn \in [Workers -> Turn]
        BY DEF TypeInv, TypeOK
      <4>2. turn'[w].stage \in {"load", "question"}
        <5>1. \E stage \in {"load", "question"} :
                Set(w, [turn[w] EXCEPT !.stage = stage, !.conv = GotOrCreated(turn[w].conv)])
          BY <3>1 DEF Get, GetAgain, Set
        <5>. QED  BY <4>1, <5>1 DEF Set, Turn
      <4>. QED  BY <3>1, <4>2 DEF Get, GetAgain, At
    <3>. QED  BY <2>1, <3>1
  <2>3. Fewer /\ \A v \in Workers : ServesOn(v)
    BY <2>1, <2>2, NoneGained, OldTurnServesOn
  <2>. QED  BY <2>1, <2>3, KeysStay
<1>. QED  BY <1>1, <1>2 DEF Next

LEMMA KeyInit == Init => KeyInv
<1> SUFFICES ASSUME Init PROVE KeyInv
  OBVIOUS
<1>1. convs = << >> /\ \A w \in Workers : turn[w].stage = "idle"
  BY DEF Init, StoreInit, NoTurn
<1>2. \A key : Candidates(key) = {}
  BY <1>1 DEF Candidates
<1>3. \A w \in Workers : ~ InFlight(w) /\ \A key : ~ ServesKey(w, key)
  BY <1>1 DEF InFlight, ServesKey, Reading, Writing
<1>. QED  BY <1>2, <1>3 DEF KeyInv, OneServer, OneCandidate, HoldsTheLiveOne, HeldServesKey

(* Together: the inductive invariant of the runtime's turns.               *)
LEMMA InvAlways == Spec => []IInv
<1>1. Init => IInv
  BY TypeInit, ExchangeInit, LoadInit, KeyInit DEF IInv
<1>2. IInv /\ [Next]_vars => IInv'
  BY TypeStep, ExchangeStep, LoadStep, KeyStep DEF IInv
<1>. QED  BY <1>1, <1>2, PTL DEF Spec

LEMMA OneLiveHolds == IInv => OneLive
<1> SUFFICES ASSUME IInv, NEW p \in Projects, NEW key \in KeysOf(p) \ overlap
             PROVE  Cardinality({c \in Active : convs[c].project = key /\ convs[c].idle < Timeout}) <= 1
  BY DEF OneLive
<1>1. key \in Keys \ overlap
  BY ProjectKeys
<1>2. \A c, d \in Candidates(key) : c = d
  BY <1>1 DEF IInv, KeyInv, OneCandidate
<1>3. {c \in Active : convs[c].project = key /\ convs[c].idle < Timeout} = Candidates(key)
  BY DEF Active, Candidates, Live
<1>. QED  BY <1>2, <1>3, AtMostOne

(* What is not among the newest messages has MaxContext younger ones.      *)
LEMMA LastAnswerRemembered ==
  ASSUME IInv, NEW w \in Workers, turn[w].stage = "ask", turn[w].project # NoProject, Serial(w)
  PROVE  Remembers(w)
<1>. DEFINE key == WriteKey(turn[w].project)
            U == UpTo(msgs, turn[w].conv, turn[w].asOf)
<1>1. SUFFICES ASSUME NEW i \in 1..turn[w].asOf,
                      convs[msgs[i].conv].project = key,
                      Live(msgs[i].conv),
                      Cardinality({j \in (i + 1)..turn[w].asOf : msgs[j].conv = msgs[i].conv}) < MaxContext
               PROVE  \E k \in DOMAIN turn[w].history : turn[w].history[k] = i
  BY DEF Remembers, LastIn
<1>2. turn[w].asOf \in 0..Len(msgs) /\ \A j \in Newest(U, MaxContext) : In(turn[w].history, j)
  BY DEF IInv, LoadInv, HistoryLoaded
<1>3. i \in DOMAIN msgs /\ Len(msgs) \in Nat /\ msgs[i].conv \in DOMAIN convs
  BY <1>1, <1>2 DEF IInv, TypeInv, TypeOK, StoreTypeOK
<1>4. key \in Keys \ overlap /\ ServesKey(w, key)
  <2>1. turn[w].project \in Projects
    BY DEF IInv, TypeInv, TurnsNumbered, InFlight
  <2>2. key \in KeysOf(turn[w].project) /\ key = ReadKey(turn[w].project)
    BY DEF KeysOf, ReadKey, WriteKey
  <2>3. key \in Keys \ overlap
    BY <2>1, <2>2, ProjectKeys DEF Serial
  <2>. QED  BY <2>2, <2>3 DEF ServesKey, Reading
<1>5. msgs[i].conv \in Candidates(key)
  BY <1>1, <1>3 DEF Candidates
<1>6. msgs[i].conv = turn[w].conv
  BY <1>4, <1>5 DEF IInv, KeyInv, HoldsTheLiveOne
<1>7. {j \in U : j > i} = {j \in (i + 1)..turn[w].asOf : msgs[j].conv = msgs[i].conv}
  BY <1>1, <1>2, <1>3, <1>6 DEF UpTo
<1>8. i \in Newest(U, MaxContext)
  BY <1>1, <1>6, <1>7 DEF Newest, UpTo
<1>. QED  BY <1>2, <1>8 DEF In

(* Turns of a project that do not overlap keep one live conversation,      *)
(* whoever closes conversations in between, and each finds the last stored *)
(* answer in the history build_context gives it.                           *)
THEOREM ConversationsContinue == Spec => []Continuity
<1>1. IInv => Continuity
  BY OneLiveHolds, LastAnswerRemembered DEF Continuity
<1>. QED  BY <1>1, InvAlways, PTL

=============================================================================
