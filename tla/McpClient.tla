------------------------------ MODULE McpClient ------------------------------
(***************************************************************************)
(* The MCP client of kernex-providers (mcp_client.rs): JSON-RPC, one line  *)
(* per message, over the stdin and stdout pipes of one server process.     *)
(*                                                                         *)
(* The client has one request in progress at a time.  It writes the whole  *)
(* line, which waits for as long as the pipe is full, and then reads lines *)
(* until one carries its id or the time is up.  The server is external: it *)
(* reads or does not, answers in any order or never, writes what nobody    *)
(* asked for, requests of its own among it, and may die.                   *)
(***************************************************************************)
EXTENDS Naturals, Sequences

CONSTANTS
  InCap,       \* lines that fit into the server's stdin pipe
  OutCap,      \* lines that fit into its stdout pipe
  MaxUnasked,  \* bound: lines the server writes that answer nothing
  AskIds       \* the ids a server may give its own requests

ASSUME ClientConstantsOK ==
  /\ InCap \in Nat \ {0} /\ OutCap \in Nat \ {0}
  /\ MaxUnasked \in Nat /\ AskIds \subseteq Nat \ {0}

VARIABLES
  phase,       \* what connect has got to, then what becomes of the client
  io,          \* what the request in progress is doing
  nextId,      \* McpClient.next_id
  pending,     \* the request in progress
  reply,       \* what the last request returned
  listed,      \* tools/list came back with tools
  errored,     \* FramedRead: the next read returns None
  toServer,    \* the server's stdin
  fromServer,  \* the server's stdout
  todo,        \* requests the server has read and not answered
  alive,       \* the server process runs
  unasked,     \* lines written that answer nothing
  sent,        \* history: the requests started
  asks         \* history: the ids of the server's own requests

clientVars == <<phase, io, nextId, pending, reply, listed, errored, sent>>
serverVars == <<toServer, fromServer, todo, alive, unasked, asks>>
mcpVars == <<clientVars, serverVars>>

Phases == {"initialize", "notify", "list", "ready", "failed", "shut down"}

(* A request says which tool call it is for, NoCall in the handshake.  A   *)
(* notification has no id.                                                 *)
NoCall == 0
NoId   == 0
Request(id, c) == [id |-> id, call |-> c]

(* A line from the server: a result, an error, a request of its own, or a  *)
(* line that has no id or is no JSON ("log"), or is too long ("long").     *)
Line(kind, id, c) == [kind |-> kind, id |-> id, call |-> c]

(* What request() returns: Ok with the content of the answer to some call, *)
(* or Err.                                                                 *)
Ok(c) == [ok |-> TRUE, call |-> c]
Err   == [ok |-> FALSE, call |-> NoCall]

-----------------------------------------------------------------------------
(* connect: the process does not even start.                               *)
SpawnFails ==
  /\ nextId = 1 /\ io = "idle" /\ phase = "initialize"
  /\ phase' = "failed"
  /\ UNCHANGED <<io, nextId, pending, reply, listed, errored, sent, serverVars>>

(* request: take an id, then write the line.                               *)
StartSameId(c) == \* mutant: next_id does not move on
  /\ io = "idle"
  /\ io' = "writing"
  /\ pending' = Request(nextId, c)
  /\ nextId' = IF c = NoCall THEN nextId + 1 ELSE nextId
  /\ sent' = sent \cup {pending'}
  /\ UNCHANGED <<phase, reply, listed, errored, serverVars>>

Start(c) ==
  /\ io = "idle"
  /\ io' = "writing"
  /\ pending' = Request(nextId, c)
  /\ nextId' = nextId + 1
  /\ sent' = sent \cup {pending'}
  /\ UNCHANGED <<phase, reply, listed, errored, serverVars>>

(* The end of the request in progress; connect goes on or gives up.        *)
Finish(r) ==
  /\ io' = "idle"
  /\ reply' = r
  /\ phase' = CASE phase = "initialize" -> IF r.ok THEN "notify" ELSE "failed"
                [] phase = "list"       -> IF r.ok THEN "ready" ELSE "failed"
                [] OTHER                -> phase
  /\ UNCHANGED <<nextId, pending, sent>>

Write ==
  /\ io = "writing"
  /\ alive
  /\ Len(toServer) < InCap
  /\ toServer' = Append(toServer, pending)
  /\ io' = "reading"
  /\ UNCHANGED <<phase, nextId, pending, reply, listed, errored, sent, fromServer, todo,
                 alive, unasked, asks>>

(* The initialized notification: written like a request, never answered.   *)
Notify ==
  /\ phase = "notify"
  /\ alive
  /\ Len(toServer) < InCap
  /\ toServer' = Append(toServer, Request(NoId, NoCall))
  /\ phase' = "list"
  /\ UNCHANGED <<io, nextId, pending, reply, listed, errored, sent, fromServer, todo, alive,
                 unasked, asks>>

NotifyFails ==
  /\ phase = "notify"
  /\ ~ alive
  /\ phase' = "failed"
  /\ UNCHANGED <<io, nextId, pending, reply, listed, errored, sent, serverVars>>

(* read_response: one line.  Only the id is looked at, then whether there  *)
(* is an error; a line that has neither, a request of the server with the  *)
(* same id too, counts as Ok with the content null.                        *)
MineAny(line) == line.id # NoId \* mutant: whoever the answer is for
Mine(line) == line.id = pending.id

Reading == io = "reading" /\ ~ errored

Skip ==
  /\ Reading /\ fromServer # << >>
  /\ ~ Mine(Head(fromServer)) /\ Head(fromServer).kind # "long"
  /\ fromServer' = Tail(fromServer)
  /\ UNCHANGED <<clientVars, toServer, todo, alive, unasked, asks>>

Take ==
  /\ Reading /\ fromServer # << >>
  /\ Mine(Head(fromServer))
  /\ LET line == Head(fromServer) IN
     /\ Finish(IF line.kind = "error" THEN Err ELSE Ok(line.call))
     /\ listed' = IF phase = "list" THEN line.kind = "result" ELSE listed
  /\ fromServer' = Tail(fromServer)
  /\ UNCHANGED <<errored, toServer, todo, alive, unasked, asks>>

(* After an error of its codec a FramedRead ends once and then reads on:   *)
(* the next request finds stdout "closed" and leaves its answer unread.    *)
TooLong ==
  /\ Reading /\ fromServer # << >>
  /\ Head(fromServer).kind = "long"
  /\ Finish(Err)
  /\ errored' = TRUE
  /\ fromServer' = Tail(fromServer)
  /\ UNCHANGED <<listed, toServer, todo, alive, unasked, asks>>

EndsOnce ==
  /\ io = "reading" /\ errored
  /\ Finish(Err)
  /\ errored' = FALSE
  /\ UNCHANGED <<listed, serverVars>>

(* The time is up: a late answer will find the next request waiting.  The  *)
(* timer covers the reading only.                                          *)
NoTimeOut == \* mutant: read until the server is gone
  /\ Reading /\ ~ alive
  /\ Finish(Err)
  /\ UNCHANGED <<listed, errored, serverVars>>

TimeOut ==
  /\ Reading
  /\ Finish(Err)
  /\ UNCHANGED <<listed, errored, serverVars>>

(* write_all and flush wait for room in the pipe, and no timer runs.       *)
Blocked ==
  /\ io = "writing" \/ phase = "notify"
  /\ alive
  /\ Len(toServer) = InCap

(* The server is dead: EOF on stdout once it is drained, EPIPE on stdin.   *)
Broken ==
  /\ ~ alive
  /\ io = "writing" \/ (Reading /\ fromServer = << >>)
  /\ Finish(Err)
  /\ UNCHANGED <<listed, errored, serverVars>>

-----------------------------------------------------------------------------
(* The server.                                                             *)

ServerReads ==
  /\ alive
  /\ toServer # << >>
  /\ toServer' = Tail(toServer)
  /\ todo' = IF Head(toServer).id = NoId THEN todo ELSE todo \cup {Head(toServer)}
  /\ UNCHANGED <<clientVars, fromServer, alive, unasked, asks>>

Emit(line) ==
  /\ alive
  /\ Len(fromServer) < OutCap
  /\ fromServer' = Append(fromServer, line)
  /\ UNCHANGED <<clientVars, toServer, alive>>

ServerAnswers(r, kind) ==
  /\ r \in todo
  /\ Emit(Line(kind, r.id, r.call))
  /\ todo' = todo \ {r}
  /\ UNCHANGED <<unasked, asks>>

Unasked == {Line("log", NoId, NoCall), Line("long", NoId, NoCall)} \cup
           {Line("request", id, NoCall) : id \in AskIds}

ServerSays(line) ==
  /\ unasked < MaxUnasked
  /\ Emit(line)
  /\ unasked' = unasked + 1
  /\ asks' = asks \cup ({line.id} \ {NoId})
  /\ UNCHANGED todo

ServerDies ==
  /\ alive
  /\ alive' = FALSE
  /\ UNCHANGED <<clientVars, toServer, fromServer, todo, unasked, asks>>

-----------------------------------------------------------------------------
ClientInit ==
  /\ phase = "initialize" /\ io = "idle" /\ nextId = 1 /\ listed = FALSE /\ errored = FALSE
  /\ pending = Request(NoId, NoCall) /\ reply = Err
  /\ toServer = << >> /\ fromServer = << >> /\ todo = {} /\ alive = TRUE /\ unasked = 0
  /\ sent = {} /\ asks = {}

(* connect: initialize, notifications/initialized, tools/list.             *)
Greet == phase \in {"initialize", "list"} /\ Start(NoCall)

ClientStep ==
  \/ SpawnFails \/ Greet \/ Notify \/ NotifyFails
  \/ Write \/ Skip \/ Take \/ TooLong \/ EndsOnce \/ TimeOut \/ Broken

ServerStep ==
  \/ ServerReads
  \/ \E r \in todo, kind \in {"result", "error"} : ServerAnswers(r, kind)
  \/ \E line \in Unasked : ServerSays(line)
  \/ ServerDies

(* shutdown: kill the process and wait for it.                             *)
Kill ==
  /\ phase' = "shut down"
  /\ alive' = FALSE
  /\ UNCHANGED <<io, nextId, pending, reply, listed, errored, sent, toServer, fromServer, todo,
                 unasked, asks>>

(* Type correctness of the client, of the pipes and of the server.         *)
Requests == [id : Nat, call : Nat]
Lines    == [kind : {"result", "error", "request", "log", "long"}, id : Nat, call : Nat]

ClientTypeOK ==
  /\ phase \in Phases /\ io \in {"idle", "writing", "reading"}
  /\ nextId \in Nat \ {0} /\ pending \in Requests
  /\ reply \in [ok : BOOLEAN, call : Nat] /\ listed \in BOOLEAN /\ errored \in BOOLEAN
  /\ toServer \in Seq(Requests) /\ Len(toServer) <= InCap
  /\ fromServer \in Seq(Lines) /\ Len(fromServer) <= OutCap
  /\ todo \subseteq Requests /\ alive \in BOOLEAN
  /\ unasked \in 0..MaxUnasked /\ sent \subseteq Requests /\ asks \subseteq AskIds
=============================================================================
