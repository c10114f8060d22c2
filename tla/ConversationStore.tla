-------------------------- MODULE ConversationStore --------------------------
(***************************************************************************)
(* The conversations and messages tables of kernex-memory, as one sender   *)
(* on one channel sees them: the statements of store/conversations.rs,     *)
(* store/messages.rs and the history part of store/context.rs.             *)
(*                                                                         *)
(* A row is numbered in the order of its INSERT (SQLite's rowid).  A       *)
(* conversation keeps the age of its last_activity in ticks, no further    *)
(* than the timeout; a message keeps the second of its timestamp, of which *)
(* only the order matters: datetime('now') has a resolution of one second. *)
(***************************************************************************)
EXTENDS Naturals, Sequences, FiniteSets

CONSTANTS
  Keys,        \* values of conversations.project
  Timeout,     \* CONVERSATION_TIMEOUT_MINUTES, in ticks
  MaxContext,  \* max_context_messages
  MaxSecond    \* bound: how often the second changes between ticks

ASSUME StoreConstantsOK ==
  /\ Timeout \in Nat \ {0}
  /\ MaxContext \in Nat \ {0}
  /\ MaxSecond \in Nat

VARIABLES
  convs,   \* the rows of conversations
  msgs,    \* the rows of messages
  second   \* datetime('now')

storeVars == <<convs, msgs, second>>

None  == 0
Roles == {"user", "assistant"}

(* What a text is to the properties: "dirty" is what a guardrail objects   *)
(* to, "nonanswer" what a provider returns when its turns or its budget    *)
(* ran out, "fine" all the rest (sanitized, partial and empty ones too).   *)
Texts == {"fine", "dirty", "nonanswer"}

Conversation == [project : Keys, status : {"active", "closed"}, idle : 0..Timeout]
Message      == [conv : Nat \ {0}, role : Roles, turn : Nat \ {0}, text : Texts, at : Nat]

StoreTypeOK ==
  /\ convs \in Seq(Conversation)
  /\ msgs \in Seq(Message)
  /\ second \in Nat
  /\ \A i \in DOMAIN msgs : msgs[i].conv \in DOMAIN convs /\ msgs[i].at <= second

StoreInit ==
  /\ convs = << >>
  /\ msgs = << >>
  /\ second = 0

-----------------------------------------------------------------------------
(* get_or_create_conversation: a SELECT, then an UPDATE of the row it      *)
(* found (whatever has become of it since) or an INSERT.                   *)

Live(c) == convs[c].status = "active" /\ convs[c].idle < Timeout

Candidates(key) == {c \in DOMAIN convs : convs[c].project = key /\ Live(c)}

(* ORDER BY last_activity DESC LIMIT 1, any of those that tie.             *)
Found(key) ==
  IF Candidates(key) = {} THEN {None}
  ELSE {c \in Candidates(key) : \A d \in Candidates(key) : convs[c].idle <= convs[d].idle}

GotOrCreated(c) == IF c = None THEN Len(convs) + 1 ELSE c

AfterGetOrCreate(c, key) ==
  IF c = None
  THEN Append(convs, [project |-> key, status |-> "active", idle |-> 0])
  ELSE [convs EXCEPT ![c].idle = 0]

-----------------------------------------------------------------------------
(* The messages of a conversation: the newest ones build_context loads,    *)
(* and the oldest ones it hands to the summarizer.                         *)

Rows(c) == {i \in DOMAIN msgs : msgs[i].conv = c}

Newest(S, n) == {i \in S : Cardinality({j \in S : j > i}) < n}
Oldest(S, n) == {i \in S : Cardinality({j \in S : j < i}) < n}

(* ORDER BY timestamp ASC says nothing about rows of the same second.      *)
OrdersOf(S) ==
  {s \in [1..Cardinality(S) -> S] :
     \A i, j \in DOMAIN s : i < j => s[i] # s[j] /\ msgs[s[i]].at <= msgs[s[j]].at}

Overflow(c) == IF Cardinality(Rows(c)) > MaxContext THEN Cardinality(Rows(c)) - MaxContext ELSE 0

StoreMessage(c, role, n, text) ==
  /\ msgs' = Append(msgs,
       [conv |-> c, role |-> role, turn |-> n, text |-> text, at |-> second])
  /\ UNCHANGED <<convs, second>>

-----------------------------------------------------------------------------
(* Closing: find_idle_conversations, find_all_active_conversations,        *)
(* close_conversation and close_current_conversation.                      *)

Idle == {c \in DOMAIN convs : convs[c].status = "active" /\ convs[c].idle = Timeout}
Active == {c \in DOMAIN convs : convs[c].status = "active"}

Closed(S) ==
  [c \in DOMAIN convs |-> IF c \in S THEN [convs[c] EXCEPT !.status = "closed"] ELSE convs[c]]

Older ==
  [c \in DOMAIN convs |->
     IF convs[c].idle < Timeout THEN [convs[c] EXCEPT !.idle = @ + 1] ELSE convs[c]]

(* A new second, after one that some message was stored in.                *)
Strikes == \E i \in DOMAIN msgs : msgs[i].at = second
=============================================================================
