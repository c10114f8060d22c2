----------------------------- MODULE RuntimeTurns -----------------------------
(***************************************************************************)
(* The turns a Runtime serves (kernex-runtime/src/lib.rs): complete, run   *)
(* and complete_stream build a context from memory, call the provider,     *)
(* check the guardrails, and store the exchange.  Turns of one sender run  *)
(* concurrently on the pool's connections, next to the callers that close  *)
(* conversations; every statement and every provider call is a step.  A    *)
(* turn may end at any step: a statement fails, the provider fails, the    *)
(* caller drops the future, the process dies.                              *)
(***************************************************************************)
EXTENDS ConversationStore

CONSTANTS
  Workers,     \* turns in flight at once
  Projects,    \* the projects runtimes are built for
  NoProject,   \* RuntimeBuilder without project()
  Modes,       \* entry points: a subset of {"complete", "run", "stream"}
  Guarded,     \* a guardrail_runner is set
  AutoCompact, \* RuntimeBuilder::auto_compact
  MaxTurns,    \* bound: turns begun
  MaxTicks,    \* bound: ticks of the wall clock
  MaxCloses    \* bound: rounds of the callers that close conversations

(* The project key of build_context and the one of store_exchange.         *)
ReadKeyAlways(p) == "" \* mutant: the project is not passed on
ReadKey(p) == IF p = NoProject THEN "" ELSE p

WriteKey(p) == IF p = NoProject THEN "default" ELSE p

KeysOf(p) == {ReadKey(p), WriteKey(p)}

ASSUME TurnConstantsOK ==
  /\ Modes \subseteq {"complete", "run", "stream"}
  /\ \A p \in Projects : KeysOf(p) \subseteq Keys
  /\ Guarded \in BOOLEAN /\ AutoCompact \in BOOLEAN
  /\ MaxTurns \in Nat /\ MaxTicks \in Nat /\ MaxCloses \in Nat

VARIABLES
  turn,      \* what each worker is doing
  closing,   \* the conversations a closer has read and not closed yet
  begun,     \* history: turns begun
  ticks,     \* history: ticks so far
  closes,    \* history: rounds of closing so far
  overlap,   \* history: keys of which two turns have been in flight at once
  cut,       \* history: turns that ended between their question and answer
  billed,    \* history: turns that have come past record_usage_full
  exhausted  \* history: runs that returned MaxTurns or BudgetExhausted

historyVars == <<begun, ticks, closes, overlap, cut, billed, exhausted>>
vars == <<storeVars, turn, closing, historyVars>>

Stages == {"idle",
  "find", "get", "load", "count", "overflow", "ask",        \* build_context, provider
  "bill", "find again", "get again", "question", "answer",  \* run bills first,
  "bill late"}                                              \* complete bills last

NoTurn ==
  [stage |-> "idle", mode |-> "complete", project |-> NoProject, n |-> 0, text |-> "fine",
   conv |-> None, history |-> << >>, asOf |-> 0, over |-> 0, summary |-> {}, reply |-> "fine"]

Turn ==
  [stage : Stages, mode : {"complete", "run", "stream"}, project : Projects \cup {NoProject},
   n : Nat, text : Texts, conv : Nat, history : Seq(Nat), asOf : Nat, over : Nat,
   summary : SUBSET Nat, reply : Texts]

InFlight(w) == turn[w].stage # "idle"
At(w, stage) == turn[w].stage = stage
Set(w, t) == turn' = [turn EXCEPT ![w] = t]
Go(w, stage) == Set(w, [turn[w] EXCEPT !.stage = stage])

-----------------------------------------------------------------------------
(* A request whose text the input guardrail let through, or sanitized: one *)
(* that is blocked returns before anything happens.                        *)
Begin(w, p, mode, text) ==
  /\ ~ InFlight(w)
  /\ begun < MaxTurns
  /\ Guarded => text # "dirty"
  /\ begun' = begun + 1
  /\ Set(w, [NoTurn EXCEPT !.stage = "find", !.mode = mode, !.project = p,
                           !.n = begun + 1, !.text = text])
  /\ overlap' = overlap \cup
       {k \in KeysOf(p) : \E v \in Workers : InFlight(v) /\ k \in KeysOf(turn[v].project)}
  /\ UNCHANGED <<storeVars, closing, ticks, closes, cut, billed, exhausted>>

(* build_context.                                                          *)
Find(w) ==
  /\ At(w, "find")
  /\ \E c \in Found(ReadKey(turn[w].project)) :
       Set(w, [turn[w] EXCEPT !.stage = "get", !.conv = c])
  /\ UNCHANGED <<storeVars, closing, historyVars>>

Get(w) ==
  /\ At(w, "get")
  /\ convs' = AfterGetOrCreate(turn[w].conv, ReadKey(turn[w].project))
  /\ Set(w, [turn[w] EXCEPT !.stage = "load", !.conv = GotOrCreated(@)])
  /\ UNCHANGED <<msgs, second, closing, historyVars>>

Load(w) ==
  /\ At(w, "load")
  /\ \E s \in OrdersOf(Newest(Rows(turn[w].conv), MaxContext)) :
       Set(w, [turn[w] EXCEPT !.history = s, !.asOf = Len(msgs),
                 !.stage = IF Len(s) >= MaxContext THEN "count" ELSE "ask"])
  /\ UNCHANGED <<storeVars, closing, historyVars>>

CountShort(w) == \* mutant: one row too few goes to the summarizer
  /\ At(w, "count")
  /\ LET n == Overflow(turn[w].conv) IN
     Set(w, [turn[w] EXCEPT !.over = IF n = 0 THEN 0 ELSE n - 1,
               !.stage = IF n > 1 /\ AutoCompact THEN "overflow" ELSE "ask"])
  /\ UNCHANGED <<storeVars, closing, historyVars>>

Count(w) ==
  /\ At(w, "count")
  /\ LET n == Overflow(turn[w].conv) IN
     Set(w, [turn[w] EXCEPT !.over = n,
               !.stage = IF n > 0 /\ AutoCompact THEN "overflow" ELSE "ask"])
  /\ UNCHANGED <<storeVars, closing, historyVars>>

(* The rows read for the summarizer.  That the summary comes back empty or *)
(* the summarizer fails is logged and changes nothing else.                *)
Summarize(w) ==
  /\ At(w, "overflow")
  /\ Set(w, [turn[w] EXCEPT !.stage = "ask",
               !.summary = Oldest(Rows(turn[w].conv), turn[w].over)])
  /\ UNCHANGED <<storeVars, closing, historyVars>>

-----------------------------------------------------------------------------
(* The provider's reply, after the output guardrail: "dirty" text is       *)
(* blocked or sanitized.                                                   *)

(* complete and run: a blocked reply ends the turn, a run has its usage    *)
(* recorded before anything else.                                          *)
Replied(w, reply) == [NoTurn EXCEPT
  !.stage = IF turn[w].mode = "run" THEN "bill" ELSE "find again",
  !.mode = turn[w].mode, !.project = turn[w].project, !.n = turn[w].n,
  !.text = turn[w].text, !.reply = reply]

Reply(w, reply) ==
  /\ At(w, "ask")
  /\ turn[w].mode # "stream"
  /\ Guarded => reply # "dirty"
  /\ Set(w, Replied(w, reply))
  /\ UNCHANGED <<storeVars, closing, historyVars>>

(* The background task of a stream: it stores what has been accumulated at *)
(* Done, at Error, or when the upstream closes; a blocked text is stored   *)
(* as the empty one.                                                       *)
StreamEnds(w, reply) ==
  /\ At(w, "ask")
  /\ turn[w].mode = "stream"
  /\ Set(w, Replied(w, IF Guarded /\ reply = "dirty" THEN "fine" ELSE reply))
  /\ UNCHANGED <<storeVars, closing, historyVars>>

(* record_usage_full, if the provider reported a count; a failure to       *)
(* record it is logged and swallowed, so the turn goes on either way.      *)
Bill(w) == billed' = billed \cup {turn[w].n}

RunEnds(w) ==
  /\ At(w, "bill")
  /\ Bill(w)
  /\ \/ /\ turn[w].reply = "nonanswer"
        /\ exhausted' = exhausted \cup {turn[w].n}
        /\ Set(w, NoTurn)
     \/ /\ turn[w].reply # "nonanswer"
        /\ Go(w, "find again")
        /\ UNCHANGED exhausted
  /\ UNCHANGED <<storeVars, closing, begun, ticks, closes, overlap, cut>>

(* store_exchange.                                                         *)
FindAgain(w) ==
  /\ At(w, "find again")
  /\ \E c \in Found(WriteKey(turn[w].project)) :
       Set(w, [turn[w] EXCEPT !.stage = "get again", !.conv = c])
  /\ UNCHANGED <<storeVars, closing, historyVars>>

GetAgain(w) ==
  /\ At(w, "get again")
  /\ convs' = AfterGetOrCreate(turn[w].conv, WriteKey(turn[w].project))
  /\ Set(w, [turn[w] EXCEPT !.stage = "question", !.conv = GotOrCreated(@)])
  /\ UNCHANGED <<msgs, second, closing, historyVars>>

StoreQuestion(w) ==
  /\ At(w, "question")
  /\ StoreMessage(turn[w].conv, "user", turn[w].n, turn[w].text)
  /\ Go(w, "answer")
  /\ UNCHANGED <<closing, historyVars>>

StoreAnswerAfresh(w) == \* mutant: the answer looks its conversation up again
  /\ At(w, "answer")
  /\ \E c \in Found(WriteKey(turn[w].project)) \ {None} :
       StoreMessage(c, "assistant", turn[w].n, turn[w].reply)
  /\ IF turn[w].mode = "complete" THEN Go(w, "bill late") ELSE Set(w, NoTurn)
  /\ UNCHANGED <<closing, historyVars>>

StoreAnswer(w) ==
  /\ At(w, "answer")
  /\ StoreMessage(turn[w].conv, "assistant", turn[w].n, turn[w].reply)
  /\ IF turn[w].mode = "complete" THEN Go(w, "bill late") ELSE Set(w, NoTurn)
  /\ UNCHANGED <<closing, historyVars>>

BillLate(w) ==
  /\ At(w, "bill late")
  /\ Bill(w)
  /\ Set(w, NoTurn)
  /\ UNCHANGED <<storeVars, closing, begun, ticks, closes, overlap, cut, exhausted>>

(* The turn ends where it is: an error, a dropped future, a blocked reply. *)
Abort(w) ==
  /\ InFlight(w)
  /\ Set(w, NoTurn)
  /\ cut' = IF At(w, "answer") THEN cut \cup {turn[w].n} ELSE cut
  /\ UNCHANGED <<storeVars, closing, begun, ticks, closes, overlap, billed, exhausted>>

-----------------------------------------------------------------------------
(* The callers that close conversations: a round reads the idle ones, or   *)
(* all active ones at shutdown, has them summarized, and closes each.      *)

StartClosing ==
  /\ closing = {}
  /\ closes < MaxCloses
  /\ \E S \in {Idle, Active} : S # {} /\ closing' = S
  /\ closes' = closes + 1
  /\ UNCHANGED <<storeVars, turn, begun, ticks, overlap, cut, billed, exhausted>>

Close(c) ==
  /\ c \in closing
  /\ convs' = Closed({c})
  /\ closing' = closing \ {c}
  /\ UNCHANGED <<msgs, second, turn, historyVars>>

(* close_current_conversation, one statement.                              *)
CloseCurrent(key) ==
  LET hit == {c \in Active : convs[c].project = key} IN
  /\ hit # {}
  /\ closes < MaxCloses
  /\ convs' = Closed(hit)
  /\ closes' = closes + 1
  /\ UNCHANGED <<msgs, second, turn, closing, begun, ticks, overlap, cut, billed, exhausted>>

(* The wall clock: seconds order the messages, ticks age conversations.    *)
NextSecond ==
  /\ Strikes /\ second < MaxSecond + ticks
  /\ second' = second + 1
  /\ UNCHANGED <<convs, msgs, turn, closing, historyVars>>

Tick ==
  /\ ticks < MaxTicks
  /\ ticks' = ticks + 1
  /\ convs' = Older
  /\ second' = IF Strikes THEN second + 1 ELSE second
  /\ UNCHANGED <<msgs, turn, closing, begun, closes, overlap, cut, billed, exhausted>>

-----------------------------------------------------------------------------
Init ==
  /\ StoreInit
  /\ turn = [w \in Workers |-> NoTurn]
  /\ closing = {}
  /\ overlap = {} /\ cut = {} /\ billed = {} /\ exhausted = {}
  /\ begun = 0 /\ ticks = 0 /\ closes = 0

Requests == {"fine", "dirty"}
Replies  == {"fine", "dirty", "nonanswer"}

TurnStep(w) ==
  \/ \E p \in Projects, mode \in Modes, text \in Requests : Begin(w, p, mode, text)
  \/ Find(w) \/ Get(w) \/ Load(w) \/ Count(w) \/ Summarize(w)
  \/ \E reply \in Replies : Reply(w, reply)
  \/ \E reply \in Requests : StreamEnds(w, reply)
  \/ RunEnds(w)
  \/ FindAgain(w) \/ GetAgain(w) \/ StoreQuestion(w) \/ StoreAnswer(w)
  \/ BillLate(w)
  \/ Abort(w)

CloserStep ==
  \/ StartClosing
  \/ \E c \in DOMAIN convs : Close(c)
  \/ \E key \in Keys : CloseCurrent(key)

Next ==
  \/ \E w \in Workers : TurnStep(w)
  \/ CloserStep
  \/ NextSecond
  \/ Tick

Spec == Init /\ [][Next]_vars

-----------------------------------------------------------------------------
(* Properties.                                                             *)

(* Type correctness of the rows, of the turns and of the history.          *)
TypeOK ==
  /\ StoreTypeOK
  /\ turn \in [Workers -> Turn]
  /\ \A w \in Workers :
       /\ turn[w].stage \in Stages
       /\ turn[w].conv \in DOMAIN convs \cup {None}
  /\ closing \subseteq DOMAIN convs
  /\ begun \in 0..MaxTurns /\ ticks \in 0..MaxTicks /\ closes \in 0..MaxCloses
  /\ overlap \subseteq Keys
  /\ UNION {cut, billed, exhausted} \subseteq 1..begun

(* store_exchange writes a question and its answer into one conversation,  *)
(* the question first and each once, however many turns interleave; a      *)
(* question stays without an answer only if its turn was cut short.  A run *)
(* that ran out of turns or of budget is accounted for and nothing of it   *)
(* is stored ("usage recorded, non-answer not persisted"), and no text the *)
(* guardrail objects to is stored by any entry point.                      *)
RowsOf(n, role) == {i \in DOMAIN msgs : msgs[i].turn = n /\ msgs[i].role = role}

ExchangesPaired ==
  \A n \in 1..begun :
    LET asked == RowsOf(n, "user")  answered == RowsOf(n, "assistant") IN
    /\ Cardinality(asked) <= 1 /\ Cardinality(answered) <= Cardinality(asked)
    /\ \A i \in asked, j \in answered : i < j /\ msgs[i].conv = msgs[j].conv
    /\ asked # {} /\ answered = {} =>
         n \in cut \/ \E w \in Workers : turn[w].n = n /\ turn[w].stage = "answer"

NonAnswersBilled ==
  \A n \in exhausted : n \in billed /\ \A i \in DOMAIN msgs : msgs[i].turn # n

GuardrailHolds == Guarded => \A i \in DOMAIN msgs : msgs[i].text # "dirty"

ExchangesKept == ExchangesPaired /\ NonAnswersBilled /\ GuardrailHolds

(* With auto_compact no message is lost between the three reads of         *)
(* build_context: what the conversation held when its history was loaded   *)
(* is in the history or in what the summarizer is given, although other    *)
(* turns store messages between the reads.                                 *)
NothingDropped ==
  AutoCompact => \A w \in Workers : turn[w].stage = "ask" =>
    \A i \in 1..turn[w].asOf : msgs[i].conv = turn[w].conv =>
      i \in turn[w].summary \/ \E k \in DOMAIN turn[w].history : turn[w].history[k] = i

(* Turns that do not overlap keep one live conversation per key, whoever   *)
(* closes conversations meanwhile; and the next turn of a project finds    *)
(* the last stored answer in its history, unless the conversation of that  *)
(* answer has been closed or timed out, or so many questions were left     *)
(* without an answer since that they fill the history.                     *)
OneLive ==
  \A p \in Projects : \A key \in KeysOf(p) \ overlap :
    Cardinality({c \in Active : convs[c].project = key /\ convs[c].idle < Timeout}) <= 1

LastIn(S) == {i \in S : \A j \in S : j <= i}

Remembers(w) ==
  LET key == WriteKey(turn[w].project)
      answered == {i \in 1..turn[w].asOf :
                     msgs[i].role = "assistant" /\ convs[msgs[i].conv].project = key}
      since(i) == {j \in (i + 1)..turn[w].asOf : msgs[j].conv = msgs[i].conv}
  IN \A i \in LastIn(answered) :
       Live(msgs[i].conv) /\ Cardinality(since(i)) < MaxContext
       => \E k \in DOMAIN turn[w].history : turn[w].history[k] = i

Serial(w) == KeysOf(turn[w].project) \cap overlap = {}

Continuity ==
  /\ OneLive
  /\ \A w \in Workers :
       turn[w].stage = "ask" /\ turn[w].project # NoProject /\ Serial(w) => Remembers(w)

(* README.md, "get a response with persistent memory", of a runtime built  *)
(* without a project: the same, NoProject included.                        *)
PersistentMemory == \A w \in Workers : turn[w].stage = "ask" /\ Serial(w) => Remembers(w)
=============================================================================
