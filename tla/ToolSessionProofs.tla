-------------------------- MODULE ToolSessionProofs --------------------------
(***************************************************************************)
(* Proofs about ToolSession, for every size of the pipes and any server,   *)
(* one that sends requests of its own included: a session with a server    *)
(* implements AgentLoop, so that what AgentLoopProofs proves of the loop   *)
(* holds with late, repeated, missing and mistaken answers; only a request *)
(* with the same id is taken for an answer; and no server outlives its     *)
(* session.                                                                *)
(***************************************************************************)
EXTENDS ToolSession, TLAPS

LoopProofs == INSTANCE AgentLoopProofs
                WITH stage <- IF stage = "waiting" THEN "dispatch" ELSE stage

USE LoopConstantsOK, ClientConstantsOK DEF LoopConstantsOK, ClientConstantsOK

LEMMA TailElements ==
  ASSUME NEW S, NEW s \in Seq(S), s # << >>
  PROVE  /\ Head(s) = s[1] /\ 1 \in DOMAIN s /\ Head(s) \in S
         /\ Tail(s) \in Seq(S) /\ Len(Tail(s)) = Len(s) - 1
         /\ \A i \in DOMAIN Tail(s) : i + 1 \in DOMAIN s /\ Tail(s)[i] = s[i + 1]
  OBVIOUS

LEMMA AppendElements ==
  ASSUME NEW S, NEW s \in Seq(S), NEW e \in S
  PROVE  /\ Append(s, e) \in Seq(S) /\ Len(Append(s, e)) = Len(s) + 1
         /\ \A i \in DOMAIN Append(s, e) :
              Append(s, e)[i] = e \/ (i \in DOMAIN s /\ Append(s, e)[i] = s[i])
  OBVIOUS

-----------------------------------------------------------------------------
(* What is under way between the client and the server.                    *)

PipesOK ==
  /\ nextId \in Nat \ {0} /\ pending \in Requests
  /\ toServer \in Seq(Requests) /\ fromServer \in Seq(Lines) /\ todo \subseteq Requests

(* No answer under way has an id that is still to be used.  Whatever       *)
(* carries the id of the request in progress belongs to its call, and      *)
(* nothing does before that request is written; only the server's own      *)
(* requests carry any id.                                                  *)
Belongs(m) ==
  /\ m.id < nextId
  /\ io = "writing" => m.id # pending.id
  /\ io = "reading" /\ m.id = pending.id => m.call = pending.call

Foreign(line) == line.kind = "request" /\ line.call = NoCall /\ line.id \in asks

MailInv ==
  /\ io \in {"idle", "writing", "reading"}
  /\ io # "idle" => pending.id # NoId /\ pending.id < nextId
  /\ \A i \in DOMAIN toServer : Belongs(toServer[i])
  /\ \A i \in DOMAIN fromServer : Belongs(fromServer[i]) \/ Foreign(fromServer[i])
  /\ \A r \in todo : Belongs(r)

(* The request in progress, and afterwards its reply, is for the call the  *)
(* loop waits for; a reply without content comes from a request of the     *)
(* server with the id of that call.                                        *)
ReplyInv ==
  /\ reply \in [ok : BOOLEAN, call : Nat]
  /\ ~ reply.ok => reply.call = Nothing
  /\ stage = "waiting" /\ io # "idle" => pending.call = Current /\ pending \in sent
  /\ stage = "waiting" /\ io = "idle" /\ reply.ok =>
       reply.call = Current \/ (reply.call = Nothing /\ Mistaken(Current))

(* What has been returned and answered since.                              *)
OwnInv ==
  /\ stage = "report" /\ returned.ok => returned.from = Current \/ Mistaken(Current)
  /\ \A i \in DOMAIN results : results[i].ok => results[i].from = i \/ Mistaken(i)

(* The client is connected before the first request and until the end.     *)
PhaseInv ==
  /\ phase \in Phases
  /\ stage = "connect" => phase # "shut down"
  /\ stage \notin {"connect", "dropped", "done"} =>
       phase = "failed" \/ (phase = "ready" /\ servers)
  /\ ServersShutDown

LEMMA InitInvs == Init => PipesOK /\ MailInv /\ ReplyInv /\ OwnInv /\ PhaseInv
<1> SUFFICES ASSUME Init PROVE PipesOK /\ MailInv /\ ReplyInv /\ OwnInv /\ PhaseInv
  OBVIOUS
<1> USE DEF Init, LoopInit, ClientInit
<1>1. PipesOK
  BY DEF PipesOK, Request, Requests, NoId, NoCall
<1>2. MailInv
  BY DEF MailInv
<1>3. ReplyInv
  BY DEF ReplyInv, Err, NoCall, Nothing
<1>4. PhaseInv
  BY DEF PhaseInv, Phases, ServersShutDown
<1>5. OwnInv
  BY DEF OwnInv
<1> QED
  BY <1>1, <1>2, <1>3, <1>4, <1>5

(* The steps of the session, as the cases of every induction below.        *)
LEMMA Steps ==
  ASSUME [Next]_vars, NEW P,
         Connected => P, CallLocal => P, CallServer => P, ServerReturned => P,
         (Ask \/ Execute \/ Proceed) /\ UNCHANGED mcpVars => P,
         EndSession => P,
         Client => P,
         Server => P,
         Drop /\ UNCHANGED mcpVars => P,
         UNCHANGED vars => P
  PROVE  P
  BY DEF Next, Loop

LEMMA StageFacts ==
  ASSUME Ask \/ Execute \/ Proceed
  PROVE  /\ stage \notin {"connect", "waiting", "ending", "dropped", "done"}
         /\ stage' \notin {"connect", "waiting", "dropped", "done"}
         /\ servers' = servers
<1> DEFINE P == /\ stage \notin {"connect", "waiting", "ending", "dropped", "done"}
                /\ stage' \notin {"connect", "waiting", "dropped", "done"}
                /\ servers' = servers
<1>1. Ask => P
  BY DEF Ask, OutOfTurns, Retry, RequestFails, Final, Empty, AsksFor, To, End
<1>2. Execute => P
  BY DEF Execute, Refuse, HookAllows, RulesAllow, Report, Answer, To
<1>3. Proceed => P
  BY DEF Proceed, StopOnBudget, NextTurn, To, End
<1> HIDE DEF P
<1>4. P
  BY <1>1, <1>2, <1>3
<1> QED
  BY <1>4 DEF P

(* The client's phase and the loop's stage move together.                  *)
LEMMA PhaseNext == PhaseInv /\ [Next]_vars => PhaseInv'
<1> SUFFICES ASSUME PhaseInv, [Next]_vars PROVE PhaseInv'
  OBVIOUS
<1> USE DEF PhaseInv, Phases, ServersShutDown, To
<1>1. Connected => PhaseInv'
  BY DEF Connected, mcpVars, clientVars, serverVars
<1>2. ASSUME phase' = phase, servers' = servers,
             stage \notin {"connect", "dropped", "done"}, stage' \notin {"connect", "dropped", "done"}
      PROVE  PhaseInv'
  BY <1>2
<1>9. CallLocal \/ CallServer \/ ServerReturned => PhaseInv'
  BY <1>2 DEF CallLocal, CallServer, ServerReturned, Returns, Start, mcpVars, clientVars,
     serverVars
<1>3. (Ask \/ Execute \/ Proceed) /\ UNCHANGED mcpVars => PhaseInv'
  BY <1>2, StageFacts DEF mcpVars, clientVars, serverVars
<1>4. EndSession => PhaseInv'
  BY DEF EndSession, Shutdown, Kill, mcpVars, clientVars, serverVars
<1>5. ASSUME Client PROVE PhaseInv'
  <2>1. /\ stage \notin {"dropped", "done"} /\ phase # "failed"
        /\ stage' = stage /\ servers' = servers
    BY <1>5 DEF Client, Ended, loopVars
  <2>2. /\ phase' \in Phases /\ (phase # "shut down" => phase' # "shut down")
        /\ phase \in {"ready", "failed"} => phase' = phase
    <3> DEFINE P == /\ phase' \in Phases /\ (phase # "shut down" => phase' # "shut down")
                    /\ phase \in {"ready", "failed"} => phase' = phase
    <3>1. SpawnFails \/ Greet \/ Notify \/ NotifyFails \/ Write \/ Skip => P
      BY DEF SpawnFails, Greet, Start, Notify, NotifyFails, Write, Skip, clientVars
    <3>2. Take \/ TooLong \/ EndsOnce \/ TimeOut \/ Broken => P
      BY DEF Take, TooLong, EndsOnce, TimeOut, Broken, Finish
    <3> QED
      BY <1>5, <3>1, <3>2 DEF Client, ClientStep
  <2> QED
    BY <2>1, <2>2
<1>6. ASSUME Server PROVE PhaseInv'
  <2>1. stage \notin {"dropped", "done"} /\ stage' = stage /\ servers' = servers
    BY <1>6 DEF Server, Ended, loopVars
  <2>2. phase' = phase
    BY <1>6 DEF Server, ServerStep, ServerReads, ServerAnswers, ServerSays, Emit, ServerDies,
       clientVars
  <2> QED
    BY <2>1, <2>2
<1>7. Drop /\ UNCHANGED mcpVars => PhaseInv'
  BY DEF Drop, mcpVars, clientVars, serverVars
<1>8. ASSUME UNCHANGED vars PROVE PhaseInv'
  <2>1. phase' = phase /\ servers' = servers /\ stage' = stage /\ alive' = alive
    BY <1>8 DEF vars, mcpVars, clientVars, serverVars, loopVars
  <2> QED
    BY <2>1
<1> QED
  BY <1>1, <1>9, <1>3, <1>4, <1>5, <1>6, <1>7, <1>8, Steps

(* What the client and the server do to the pipes, whatever the loop does. *)
LEMMA PipesNext ==
  ASSUME PipesOK, MailInv, NEW c \in Nat,
         Start(c) \/ ClientStep \/ ServerStep \/ Kill \/ UNCHANGED mcpVars
  PROVE  PipesOK' /\ MailInv'
<1> USE DEF Requests, NoId, NoCall
<1>1. /\ nextId \in Nat \ {0} /\ pending \in Requests /\ pending.id \in Nat
      /\ toServer \in Seq(Requests) /\ fromServer \in Seq(Lines) /\ todo \subseteq Requests
  BY DEF PipesOK
(* Nothing is added to the pipes, and the request in progress stays or     *)
(* ends.                                                                   *)
<1>2. ASSUME nextId' = nextId, pending' = pending, io' \in {io, "idle"}, asks' = asks,
             toServer' \in Seq(Requests), fromServer' \in Seq(Lines), todo' \subseteq Requests,
             \A i \in DOMAIN toServer' : \E j \in DOMAIN toServer : toServer'[i] = toServer[j],
             \A i \in DOMAIN fromServer' :
               \E j \in DOMAIN fromServer : fromServer'[i] = fromServer[j],
             \A r \in todo' : r \in todo \/ \E j \in DOMAIN toServer : r = toServer[j]
      PROVE  PipesOK' /\ MailInv'
  <2>1. PipesOK'
    BY <1>1, <1>2 DEF PipesOK
  <2>2. \A m : (Belongs(m) => Belongs(m)') /\ (Foreign(m) => Foreign(m)')
    BY <1>2 DEF Belongs, Foreign
  <2> QED
    BY <1>2, <2>1, <2>2 DEF MailInv
<1>3. ASSUME NEW d \in Nat, Start(d) PROVE PipesOK' /\ MailInv'
  <2>1. /\ nextId' = nextId + 1 /\ io' = "writing" /\ io = "idle"
        /\ pending' = [id |-> nextId, call |-> d]
        /\ toServer' = toServer /\ fromServer' = fromServer /\ todo' = todo /\ asks' = asks
    BY <1>3 DEF Start, Request, serverVars
  <2>2. PipesOK'
    BY <1>1, <2>1 DEF PipesOK
  <2>3. ASSUME NEW m, m.id \in Nat
        PROVE  (Belongs(m) => Belongs(m)') /\ (Foreign(m) => Foreign(m)')
    BY <1>1, <2>1, <2>3 DEF Belongs, Foreign
  <2>4. /\ \A i \in DOMAIN toServer : toServer[i].id \in Nat
        /\ \A i \in DOMAIN fromServer : fromServer[i].id \in Nat
        /\ \A r \in todo : r.id \in Nat
    <3>1. \A m \in Requests \cup Lines : m.id \in Nat
      BY DEF Lines
    <3> HIDE DEF Requests
    <3>2. \A i \in DOMAIN toServer : toServer[i] \in Requests
      BY <1>1
    <3>3. \A i \in DOMAIN fromServer : fromServer[i] \in Lines
      BY <1>1
    <3>4. \A r \in todo : r \in Requests
      BY <1>1
    <3> QED
      BY <3>1, <3>2, <3>3, <3>4
  <2> QED
    BY <1>1, <2>1, <2>2, <2>3, <2>4 DEF MailInv
<1>4. UNCHANGED mcpVars \/ Kill \/ SpawnFails \/ NotifyFails \/ TimeOut \/ EndsOnce \/ Broken
        \/ ServerDies => PipesOK' /\ MailInv'
  BY <1>1, <1>2 DEF mcpVars, Kill, SpawnFails, NotifyFails, TimeOut, EndsOnce, Broken, Finish,
     ServerDies, clientVars, serverVars
<1>5. Skip \/ Take \/ TooLong => PipesOK' /\ MailInv'
  <2> SUFFICES ASSUME Skip \/ Take \/ TooLong PROVE PipesOK' /\ MailInv'
    OBVIOUS
  <2>1. /\ nextId' = nextId /\ pending' = pending /\ io' \in {io, "idle"}
        /\ toServer' = toServer /\ todo' = todo /\ asks' = asks
        /\ fromServer # << >> /\ fromServer' = Tail(fromServer)
    BY DEF Skip, Take, TooLong, Finish, clientVars
  <2> QED
    BY <1>1, <1>2, <2>1, TailElements
<1>6. Notify => PipesOK' /\ MailInv'
  <2> SUFFICES ASSUME Notify PROVE PipesOK' /\ MailInv'
    OBVIOUS
  <2> DEFINE note == [id |-> 0, call |-> 0]
  <2>1. /\ nextId' = nextId /\ pending' = pending /\ io' = io /\ todo' = todo
        /\ fromServer' = fromServer /\ toServer' = Append(toServer, note) /\ note \in Requests
        /\ asks' = asks
    BY DEF Notify, Request
  <2>2. PipesOK'
    BY <1>1, <2>1 DEF PipesOK
  <2>3. \A m : (Belongs(m) => Belongs(m)') /\ (Foreign(m) => Foreign(m)')
    BY <2>1 DEF Belongs, Foreign
  <2>4. Belongs(note)'
    BY <1>1, <2>1 DEF Belongs, MailInv
  <2> QED
    BY <1>1, <2>1, <2>2, <2>3, <2>4, AppendElements DEF MailInv
<1>7. Write => PipesOK' /\ MailInv'
  <2> SUFFICES ASSUME Write PROVE PipesOK' /\ MailInv'
    OBVIOUS
  <2>1. /\ nextId' = nextId /\ pending' = pending /\ io = "writing" /\ io' = "reading"
        /\ todo' = todo /\ fromServer' = fromServer /\ toServer' = Append(toServer, pending)
        /\ asks' = asks
    BY DEF Write
  <2>2. PipesOK'
    BY <1>1, <2>1 DEF PipesOK
  <2>3. \A m : (Belongs(m) => Belongs(m)') /\ (Foreign(m) => Foreign(m)')
    BY <2>1 DEF Belongs, Foreign
  <2>4. Belongs(pending)'
    BY <1>1, <2>1 DEF Belongs, MailInv
  <2> QED
    BY <1>1, <2>1, <2>2, <2>3, <2>4, AppendElements DEF MailInv
<1>8. ServerReads => PipesOK' /\ MailInv'
  <2> SUFFICES ASSUME ServerReads PROVE PipesOK' /\ MailInv'
    OBVIOUS
  <2>1. /\ nextId' = nextId /\ pending' = pending /\ io' = io /\ fromServer' = fromServer
        /\ toServer # << >> /\ toServer' = Tail(toServer) /\ asks' = asks
        /\ todo' \subseteq todo \cup {Head(toServer)}
    BY DEF ServerReads, clientVars
  <2>2. /\ toServer' \in Seq(Requests)
        /\ \A i \in DOMAIN toServer' : \E j \in DOMAIN toServer : toServer'[i] = toServer[j]
        /\ \E j \in DOMAIN toServer : Head(toServer) = toServer[j]
        /\ Head(toServer) \in Requests
    <3> HIDE DEF Requests
    <3>1. /\ Head(toServer) = toServer[1] /\ 1 \in DOMAIN toServer /\ Head(toServer) \in Requests
          /\ Tail(toServer) \in Seq(Requests)
          /\ \A i \in DOMAIN Tail(toServer) :
               i + 1 \in DOMAIN toServer /\ Tail(toServer)[i] = toServer[i + 1]
      BY <1>1, <2>1, TailElements
    <3> QED
      BY <2>1, <3>1
  <2>3. \A r \in todo' : r \in todo \/ \E j \in DOMAIN toServer : r = toServer[j]
    BY <2>1, <2>2
  <2>4. todo' \subseteq Requests
    BY <1>1, <2>1, <2>2
  <2> QED
    BY <1>1, <1>2, <2>1, <2>2, <2>3, <2>4
<1>9. ASSUME NEW line \in Lines, Emit(line), todo' \subseteq todo, asks \subseteq asks',
             Belongs(line) \/ (line.kind = "request" /\ line.call = NoCall /\ line.id \in asks')
      PROVE  PipesOK' /\ MailInv'
  <2>1. /\ nextId' = nextId /\ pending' = pending /\ io' = io /\ toServer' = toServer
        /\ fromServer' = Append(fromServer, line)
    BY <1>9 DEF Emit, clientVars
  <2>2. PipesOK'
    BY <1>1, <1>9, <2>1 DEF PipesOK
  <2>3. \A m : (Belongs(m) => Belongs(m)') /\ (Foreign(m) => Foreign(m)')
    BY <1>9, <2>1 DEF Belongs, Foreign
  <2>4. Belongs(line)' \/ Foreign(line)'
    BY <1>9, <2>3 DEF Foreign
  <2> QED
    BY <1>1, <1>9, <2>1, <2>2, <2>3, <2>4, AppendElements DEF MailInv
<1>10. ASSUME NEW r \in todo, NEW kind \in {"result", "error"}, ServerAnswers(r, kind)
       PROVE  PipesOK' /\ MailInv'
  <2>1. Line(kind, r.id, r.call) \in Lines /\ r \in Requests
    BY <1>1 DEF Line, Lines
  <2>2. Belongs(r) => Belongs(Line(kind, r.id, r.call))
    BY DEF Belongs, Line
  <2> QED
    BY <1>9, <1>10, <2>1, <2>2 DEF ServerAnswers, MailInv
<1>11. ASSUME NEW line \in Unasked, ServerSays(line) PROVE PipesOK' /\ MailInv'
  <2>1. /\ line \in Lines /\ line.call = NoCall
        /\ line.id = 0 \/ (line.kind = "request" /\ line.id \in AskIds)
    BY DEF Unasked, Line, Lines
  <2>2. Emit(line) /\ todo' \subseteq todo /\ asks \subseteq asks'
    BY <1>11 DEF ServerSays
  <2>3. line.id # 0 => line.id \in asks'
    BY <1>11 DEF ServerSays
  <2>4. line.id = 0 => Belongs(line)
    BY <1>1 DEF Belongs, MailInv
  <2> QED
    BY <1>9, <2>1, <2>2, <2>3, <2>4
<1>12. Greet => PipesOK' /\ MailInv'
  BY <1>3 DEF Greet
<1> QED
  BY <1>3, <1>4, <1>5, <1>6, <1>7, <1>8, <1>10, <1>11, <1>12 DEF ClientStep, ServerStep

(* Every step of the session keeps the pipes in order.                     *)
LEMMA MailNext ==
  ASSUME PipesOK, MailInv, results \in Seq(Result), [Next]_vars
  PROVE  PipesOK' /\ MailInv'
<1> DEFINE P == PipesOK' /\ MailInv'
<1>1. 0 \in Nat /\ Current \in Nat
  BY DEF Current
<1>2. \A c \in Nat : Start(c) \/ ClientStep \/ ServerStep \/ Kill \/ UNCHANGED mcpVars => P
  BY PipesNext
<1> HIDE DEF P
<1>3. UNCHANGED mcpVars => P
  BY <1>1, <1>2
<1>4. Connected \/ CallLocal \/ CallServer \/ ServerReturned \/ EndSession => P
  BY <1>1, <1>2, <1>3 DEF Connected, CallLocal, CallServer, ServerReturned, EndSession, mcpVars
<1>5. Client \/ Server => P
  BY <1>1, <1>2 DEF Client, Server
<1>6. UNCHANGED vars => P
  BY <1>3 DEF vars
<1>7. P
  BY <1>3, <1>4, <1>5, <1>6, Steps
<1> QED
  BY <1>7 DEF P

(* Both histories only grow, so a mistaken call stays one.                 *)
LEMMA HistoriesGrow ==
  ASSUME [Next]_vars
  PROVE  /\ sent \subseteq sent' /\ asks \subseteq asks'
         /\ \A c : Mistaken(c) => Mistaken(c)'
<1> DEFINE P == sent \subseteq sent' /\ asks \subseteq asks'
<1>1. UNCHANGED mcpVars \/ Kill => P
  BY DEF mcpVars, clientVars, serverVars, Kill
<1>2. \A c : Start(c) => P
  BY DEF Start, serverVars
<1>3. Client => P
  <2>1. SpawnFails \/ Greet \/ Notify \/ NotifyFails \/ Write \/ Skip => P
    BY <1>2 DEF SpawnFails, Greet, Notify, NotifyFails, Write, Skip, clientVars, serverVars
  <2>2. Take \/ TooLong \/ EndsOnce \/ TimeOut \/ Broken => P
    BY DEF Take, TooLong, EndsOnce, TimeOut, Broken, Finish, serverVars
  <2> QED
    BY <2>1, <2>2 DEF Client, ClientStep
<1>4. Server => P
  BY DEF Server, ServerStep, ServerReads, ServerAnswers, ServerSays, Emit, ServerDies, clientVars
<1>5. UNCHANGED vars => P
  BY <1>1 DEF vars
<1> HIDE DEF P
<1>6. Connected \/ CallLocal \/ CallServer \/ ServerReturned \/ EndSession => P
  BY <1>1, <1>2 DEF Connected, CallLocal, CallServer, ServerReturned, EndSession, mcpVars
<1>7. P
  BY <1>1, <1>3, <1>4, <1>5, <1>6, Steps
<1> QED
  BY <1>7 DEF P, Mistaken

(* The reply the loop picks up is for the call it waits for.               *)
LEMMA ReplyNext ==
  ASSUME PipesOK, MailInv, ReplyInv, PhaseInv, results \in Seq(Result), [Next]_vars
  PROVE  ReplyInv'
<1> USE DEF To
<1>0. Current \in Nat /\ pending \in Requests
  BY DEF Current, PipesOK
<1>1. ASSUME reply' = reply, stage' # "waiting" PROVE ReplyInv'
  BY <1>1 DEF ReplyInv
<1>2. Connected \/ CallLocal \/ ServerReturned \/ EndSession => ReplyInv'
  BY <1>1 DEF Connected, CallLocal, ServerReturned, Returns, EndSession, Shutdown, Kill, mcpVars,
     clientVars
<1>3. CallServer => ReplyInv'
  <2> SUFFICES ASSUME CallServer PROVE ReplyInv'
    OBVIOUS
  <2>1. /\ io' = "writing" /\ pending' = Request(nextId, Current) /\ pending' \in sent'
        /\ reply' = reply /\ results' = results
    BY DEF CallServer, Start
  <2>2. pending'.call = Current /\ Current' = Current
    BY <2>1 DEF Request, Current
  <2> QED
    BY <2>1, <2>2 DEF ReplyInv
<1>4. (Ask \/ Execute \/ Proceed) /\ UNCHANGED mcpVars => ReplyInv'
  BY <1>1, StageFacts DEF mcpVars, clientVars
<1>5. Drop /\ UNCHANGED mcpVars => ReplyInv'
  BY <1>1 DEF Drop, mcpVars, clientVars
(* A step of the client or the server that does not finish the request.    *)
<1>6. ASSUME UNCHANGED loopVars, reply' = reply, pending' = pending,
             io' # io => io = "writing" /\ io' = "reading"
      PROVE  ReplyInv'
  <2>1. stage' = stage /\ Current' = Current
    BY <1>6 DEF loopVars, Current
  <2>2. sent \subseteq sent'
    BY HistoriesGrow
  <2>3. Mistaken(Current) => \E r \in sent' : r.call = Current' /\ r.id \in asks'
    BY <2>1, HistoriesGrow DEF Mistaken
  <2> QED
    BY <1>6, <2>1, <2>2, <2>3 DEF ReplyInv, Mistaken
(* A step that does finish it, with an error or with an answer to it.      *)
<1>7. ASSUME NEW r \in [ok : BOOLEAN, call : Nat], Finish(r), ~ r.ok => r.call = Nothing,
             r.ok => r.call = pending.call \/ (r.call = Nothing /\ pending.id \in asks),
             UNCHANGED loopVars, io # "idle"
      PROVE  ReplyInv'
  <2>1. stage' = stage /\ Current' = Current
    BY <1>7 DEF loopVars, Current
  <2>2. io' = "idle" /\ reply' = r
    BY <1>7 DEF Finish
  <2>3. stage = "waiting" => pending.call = Current /\ pending \in sent
    BY <1>7 DEF ReplyInv
  <2>4. stage = "waiting" /\ pending.id \in asks =>
          \E m \in sent' : m.call = Current' /\ m.id \in asks'
    BY <2>1, <2>3, HistoriesGrow
  <2> QED
    BY <1>7, <2>1, <2>2, <2>3, <2>4 DEF ReplyInv, Mistaken
<1>8. Err \in [ok : BOOLEAN, call : Nat] /\ ~ Err.ok /\ Err.call = Nothing
  BY DEF Err, NoCall, Nothing
<1>9. ASSUME Take, UNCHANGED loopVars PROVE ReplyInv'
  <2> DEFINE line == Head(fromServer)
  <2>1. /\ io = "reading" /\ line.id = pending.id
        /\ Finish(IF line.kind = "error" THEN Err ELSE Ok(line.call))
    BY <1>9 DEF Take, Reading, Mine
  <2>2. /\ line.call \in Nat
        /\ line.call = pending.call \/ (line.call = Nothing /\ pending.id \in asks)
    <3>1. fromServer # << >> /\ fromServer \in Seq(Lines)
      BY <1>9 DEF Take, PipesOK
    <3>2. line \in Lines /\ line = fromServer[1] /\ 1 \in DOMAIN fromServer
      BY <3>1, TailElements
    <3>3. Belongs(line) \/ Foreign(line)
      BY <3>2 DEF MailInv
    <3> QED
      BY <2>1, <3>2, <3>3 DEF Belongs, Foreign, Lines, NoCall, Nothing
  <2>3. /\ Ok(line.call) \in [ok : BOOLEAN, call : Nat]
        /\ Ok(line.call).ok /\ Ok(line.call).call = line.call
    BY <2>2 DEF Ok
  <2> QED
    BY <1>7, <1>8, <1>9, <2>1, <2>2, <2>3
<1>10. ASSUME Client PROVE ReplyInv'
  <2>1. UNCHANGED loopVars /\ ClientStep
    BY <1>10 DEF Client
  <2>2. SpawnFails \/ Notify \/ NotifyFails \/ Write \/ Skip => ReplyInv'
    BY <1>6, <2>1 DEF SpawnFails, Notify, NotifyFails, Write, Skip, clientVars
  <2>3. TooLong \/ EndsOnce \/ TimeOut \/ Broken => ReplyInv'
    BY <1>7, <1>8, <2>1 DEF TooLong, EndsOnce, TimeOut, Broken, Reading
  <2>4. Greet => ReplyInv'
    <3>1. Greet => stage # "waiting"
      BY DEF Greet, PhaseInv
    <3>2. Greet => reply' = reply
      BY DEF Greet, Start
    <3>3. stage' = stage
      BY <2>1 DEF loopVars
    <3> QED
      BY <1>1, <3>1, <3>2, <3>3
  <2> QED
    BY <1>9, <2>1, <2>2, <2>3, <2>4 DEF ClientStep
<1>11. ASSUME Server PROVE ReplyInv'
  <2>1. UNCHANGED loopVars /\ reply' = reply /\ pending' = pending /\ io' = io
    BY <1>11 DEF Server, ServerStep, ServerReads, ServerAnswers, ServerSays, Emit, ServerDies,
       clientVars
  <2> QED
    BY <1>6, <2>1
<1>12. ASSUME UNCHANGED vars PROVE ReplyInv'
  <2>1. UNCHANGED loopVars /\ reply' = reply /\ pending' = pending /\ io' = io
    BY <1>12 DEF vars, mcpVars, clientVars, serverVars
  <2> QED
    BY <1>6, <2>1
<1> QED
  BY <1>2, <1>3, <1>4, <1>5, <1>10, <1>11, <1>12, Steps

(* What a call returned stays what its result says, and a mistaken one     *)
(* stays marked by both histories.                                         *)
LEMMA OwnNext ==
  ASSUME ReplyInv, OwnInv, results \in Seq(Result), returned \in Result, [Next]_vars
  PROVE  OwnInv'
<1> USE DEF To
<1>0. \A c : Mistaken(c) => Mistaken(c)'
  BY HistoriesGrow
<1>1. ASSUME results' = results, stage' # "report" PROVE OwnInv'
  BY <1>0, <1>1 DEF OwnInv, Mistaken
<1>2. ASSUME results' = results, stage' = stage, returned' = returned PROVE OwnInv'
  <2>1. Current' = Current
    BY <1>2 DEF Current
  <2>2. Mistaken(Current) => \E r \in sent' : r.call = Current' /\ r.id \in asks'
    BY <2>1, HistoriesGrow DEF Mistaken
  <2> QED
    BY <1>0, <1>2, <2>1, <2>2 DEF OwnInv, Mistaken
(* The call returns.                                                       *)
<1>3. ASSUME NEW r, Returns(r), r.ok => r.from = Current \/ Mistaken(Current) PROVE OwnInv'
  <2>1. returned' = r /\ results' = results /\ Current' = Current
    BY <1>3 DEF Returns, Current
  <2>2. Mistaken(Current) => \E m \in sent' : m.call = Current' /\ m.id \in asks'
    BY <2>1, HistoriesGrow DEF Mistaken
  <2> QED
    BY <1>0, <1>3, <2>1, <2>2 DEF OwnInv, Mistaken
(* Its result is appended.                                                 *)
<1>4. ASSUME NEW r \in Result, Answer(r), r.ok => r.from = Current \/ Mistaken(Current) PROVE OwnInv'
  <2>1. stage' # "report" /\ results' = Append(results, r)
    BY <1>4 DEF Answer
  <2>4. /\ DOMAIN results' = 1..Current /\ DOMAIN results = 1..(Current - 1)
        /\ Current \in Nat
        /\ \A i \in 1..Current : results'[i] = IF i = Current THEN r ELSE results[i]
    BY <2>1 DEF Current
  <2>2. \A i \in DOMAIN results' :
          results'[i].ok => results'[i].from = i \/ Mistaken(i)
    <3> SUFFICES ASSUME NEW i \in DOMAIN results', results'[i].ok
                 PROVE  results'[i].from = i \/ Mistaken(i)
      OBVIOUS
    <3>1. CASE i = Current
      BY <1>4, <2>4, <3>1
    <3>2. CASE i # Current
      <4>1. i \in DOMAIN results /\ results'[i] = results[i]
        BY <2>4, <3>2
      <4> QED
        BY <4>1 DEF OwnInv
    <3> QED
      BY <3>1, <3>2
  <2> QED
    BY <1>0, <2>1, <2>2 DEF OwnInv, Mistaken
<1>5. Connected \/ CallServer \/ EndSession \/ (Drop /\ UNCHANGED mcpVars) => OwnInv'
  BY <1>1 DEF Connected, CallServer, EndSession, Shutdown, Drop
<1>6. CallLocal => OwnInv'
  <2> SUFFICES ASSUME CallLocal PROVE OwnInv'
    OBVIOUS
  <2>1. PICK r \in Outcome(Current) :
          (r.ok => asked[Current] = "local" /\ r.from = Current) /\ Returns(r)
    BY DEF CallLocal
  <2> QED
    BY <1>3, <2>1
<1>7. ServerReturned => OwnInv'
  <2> SUFFICES ASSUME ServerReturned PROVE OwnInv'
    OBVIOUS
  <2> DEFINE r == [call |-> Current, from |-> reply.call, ok |-> reply.ok]
  <2>1. Returns(r) /\ r.ok = reply.ok /\ r.from = reply.call
    BY DEF ServerReturned
  <2>2. reply.ok => reply.call = Current \/ Mistaken(Current)
    BY DEF ServerReturned, ReplyInv
  <2> HIDE DEF r
  <2> QED
    BY <1>3, <2>1, <2>2
<1>8. Execute => OwnInv'
  <2>1. Refuse => OwnInv'
    <3>1. Refusal(Current) \in Result /\ ~ Refusal(Current).ok
      BY DEF Refusal, Result, Current, Nothing
    <3> QED
      BY <1>4, <3>1 DEF Refuse
  <2>2. HookAllows \/ RulesAllow => OwnInv'
    BY <1>1 DEF HookAllows, RulesAllow
  <2>3. Report => OwnInv'
    BY <1>4 DEF Report, OwnInv
  <2> QED
    BY <2>1, <2>2, <2>3 DEF Execute
<1>9. Ask \/ Proceed => OwnInv'
  <2>1. Ask => results' = results /\ stage' # "report"
    BY DEF Ask, OutOfTurns, Retry, RequestFails, Final, Empty, AsksFor, End
  <2>2. Proceed => results' = results /\ stage' # "report"
    BY DEF Proceed, StopOnBudget, NextTurn, End
  <2> QED
    BY <1>1, <2>1, <2>2
<1>10. Client \/ Server \/ UNCHANGED vars => OwnInv'
  BY <1>2 DEF Client, Server, vars, loopVars
<1> QED
  BY <1>5, <1>6, <1>7, <1>8, <1>9, <1>10, Steps

-----------------------------------------------------------------------------
(* The refinement.                                                         *)

LEMMA InitImplements == Init => Abstract!LoopInit
  BY DEF Init, LoopInit, Abstract!LoopInit, Families, Abstract!Families, Refusal,
     Abstract!Refusal, Nothing, Abstract!Nothing, NoReply, Abstract!NoReply

(* The loop's own steps are the same steps of AgentLoop.                   *)
LEMMA AskImplements == Ask => Abstract!Ask
<1> USE DEF To, Abstract!To, End, Abstract!End, TurnsLeft, Abstract!TurnsLeft, loopHistory,
            Abstract!loopHistory
<1>1. OutOfTurns \/ Retry \/ RequestFails =>
        Abstract!OutOfTurns \/ Abstract!Retry \/ Abstract!RequestFails
  BY DEF OutOfTurns, Abstract!OutOfTurns, Retry, Abstract!Retry, RequestFails,
     Abstract!RequestFails
<1>2. \A kind, cost : Paid(kind, cost) => Abstract!Paid(kind, cost)
  BY DEF Paid, Abstract!Paid
<1>3. \A cost \in Costs : Final(cost) => Abstract!Final(cost)
  BY <1>2 DEF Final, Abstract!Final
<1>4. \A cost \in Costs : Empty(cost) => Abstract!Empty(cost)
  BY <1>2 DEF Empty, Abstract!Empty
<1>5. \A cost \in Costs, calls \in Calls : AsksFor(calls, cost) => Abstract!AsksFor(calls, cost)
  BY <1>2 DEF AsksFor, Abstract!AsksFor
<1>6. Calls = Abstract!Calls
  BY DEF Calls, Abstract!Calls, Tools, Abstract!Tools
<1> QED
  BY <1>1, <1>3, <1>4, <1>5, <1>6 DEF Ask, Abstract!Ask

LEMMA ExecuteImplements == Execute => Abstract!Execute
<1> USE DEF To, Abstract!To, Current, Abstract!Current, loopHistory, Abstract!loopHistory,
            Refusal, Abstract!Refusal, Nothing, Abstract!Nothing, Answer, Abstract!Answer
<1>1. Refuse => Abstract!Refuse
  BY DEF Refuse, Abstract!Refuse
<1>2. HookAllows => Abstract!HookAllows
  BY DEF HookAllows, Abstract!HookAllows
<1>3. RulesAllow => Abstract!RulesAllow
  BY DEF RulesAllow, Abstract!RulesAllow
<1>4. Report => Abstract!Report
  BY DEF Report, Abstract!Report
<1> QED
  BY <1>1, <1>2, <1>3, <1>4 DEF Execute, Abstract!Execute

LEMMA ProceedImplements == Proceed => Abstract!Proceed
  BY DEF Proceed, Abstract!Proceed, StopOnBudget, Abstract!StopOnBudget, NextTurn,
     Abstract!NextTurn, Exhausted, Abstract!Exhausted, Counted, Abstract!Counted, To,
     Abstract!To, End, Abstract!End, loopHistory, Abstract!loopHistory

(* A tool that runs in one step, or a server's answer to the call that     *)
(* waits.                                                                  *)
LEMMA ReturnsImplements ==
  ASSUME NEW r, Returns(r), r \in Outcome(Current), stage \in {"dispatch", "waiting"}
  PROVE  Abstract!Dispatch
<1>1. Abstract!Returns(r)
  BY DEF Returns, Abstract!Returns, To, Abstract!To, Current, Abstract!Current
<1>2. r \in Abstract!Outcome(Abstract!Current)
  BY DEF Outcome, Abstract!Outcome, Refusal, Abstract!Refusal, Nothing, Abstract!Nothing,
     Success, Abstract!Success, Current, Abstract!Current
<1> QED
  BY <1>1, <1>2 DEF Abstract!Dispatch

LEMMA StepImplements ==
  ASSUME ReplyInv, [Next]_vars
  PROVE  [Abstract!LoopNext]_Abstract!loopVars
<1> DEFINE P == [Abstract!LoopNext]_Abstract!loopVars
<1>1. UNCHANGED loopVars => P
  BY DEF loopVars, loopHistory, Abstract!loopVars, Abstract!loopHistory
<1>2. Connected => Abstract!Connect
  BY DEF Connected, Abstract!Connect, loopHistory, Abstract!loopHistory, To, Abstract!To
<1>3. CallLocal => Abstract!Dispatch
  BY ReturnsImplements DEF CallLocal
<1>4. CallServer => P
  BY DEF CallServer, To, loopHistory, Abstract!loopVars, Abstract!loopHistory
<1>5. ASSUME ServerReturned PROVE Abstract!Dispatch
  <2> DEFINE r == [call |-> Current, from |-> reply.call, ok |-> reply.ok]
  <2>1. Returns(r) /\ stage = "waiting" /\ io = "idle"
    BY <1>5 DEF ServerReturned
  <2>2. /\ reply.ok \in BOOLEAN /\ (~ reply.ok => reply.call = Nothing)
        /\ reply.ok => reply.call \in {Current, Nothing}
    BY <2>1 DEF ReplyInv
  <2>3. CASE reply.ok = FALSE
    BY <2>2, <2>3, <2>1, ReturnsImplements, Zenon DEF Outcome, Refusal
  <2>4. CASE reply.ok = TRUE
    <3>1. r = Success(Current, Current) \/ r = Success(Current, Nothing)
      BY <2>2, <2>4, Zenon DEF Success
    <3>2. r \in Outcome(Current)
      BY <3>1, Zenon DEF Outcome
    <3> QED
      BY <2>1, <3>2, ReturnsImplements
  <2> QED
    BY <2>2, <2>3, <2>4
<1>6. Ask \/ Execute \/ Proceed => Abstract!Ask \/ Abstract!Execute \/ Abstract!Proceed
  BY AskImplements, ExecuteImplements, ProceedImplements
<1>7. EndSession => Abstract!Shutdown
  BY DEF EndSession, Shutdown, Abstract!Shutdown, To, Abstract!To, loopHistory,
     Abstract!loopHistory
<1>8. Drop => Abstract!Drop
  BY DEF Drop, Abstract!Drop, Ended, Abstract!Ended, To, Abstract!To, loopHistory,
     Abstract!loopHistory
<1>9. Client \/ Server \/ UNCHANGED vars => UNCHANGED loopVars
  BY DEF Client, Server, vars
<1>10. Abstract!LoopNext => P
  OBVIOUS
<1> HIDE DEF P
<1>11. P
  BY <1>1, <1>2, <1>3, <1>4, <1>5, <1>6, <1>7, <1>8, <1>9, <1>10, Steps DEF Abstract!LoopNext
<1> QED
  BY <1>11 DEF P

-----------------------------------------------------------------------------
(* What AgentLoopProofs proves of the loop, for a loop with a server.      *)

LEMMA SameInit == Abstract!LoopInit => LoopProofs!LoopInit
  BY DEF
     Abstract!LoopInit, LoopProofs!LoopInit, Abstract!Families, LoopProofs!Families,
     Abstract!Refusal, LoopProofs!Refusal, Abstract!Nothing, LoopProofs!Nothing, Abstract!NoReply,
     LoopProofs!NoReply

LEMMA SameNext ==
  [Abstract!LoopNext]_Abstract!loopVars => [LoopProofs!LoopNext]_LoopProofs!loopVars
  BY DEF
     Abstract!LoopNext, LoopProofs!LoopNext, Abstract!Connect, LoopProofs!Connect, Abstract!Ask,
     LoopProofs!Ask, Abstract!OutOfTurns, LoopProofs!OutOfTurns, Abstract!Retry, LoopProofs!Retry,
     Abstract!RequestFails, LoopProofs!RequestFails, Abstract!Final, LoopProofs!Final,
     Abstract!Empty, LoopProofs!Empty, Abstract!AsksFor, LoopProofs!AsksFor, Abstract!Paid,
     LoopProofs!Paid, Abstract!Calls, LoopProofs!Calls, Abstract!Tools, LoopProofs!Tools,
     Abstract!TurnsLeft, LoopProofs!TurnsLeft, Abstract!Execute, LoopProofs!Execute,
     Abstract!Refuse, LoopProofs!Refuse, Abstract!HookAllows, LoopProofs!HookAllows,
     Abstract!RulesAllow, LoopProofs!RulesAllow, Abstract!Report, LoopProofs!Report,
     Abstract!Answer, LoopProofs!Answer, Abstract!Current, LoopProofs!Current, Abstract!Refusal,
     LoopProofs!Refusal, Abstract!Nothing, LoopProofs!Nothing, Abstract!Dispatch,
     LoopProofs!Dispatch, Abstract!Returns, LoopProofs!Returns, Abstract!Outcome,
     LoopProofs!Outcome, Abstract!Success, LoopProofs!Success, Abstract!Proceed, LoopProofs!Proceed, Abstract!StopOnBudget,
     LoopProofs!StopOnBudget, Abstract!NextTurn, LoopProofs!NextTurn, Abstract!Exhausted,
     LoopProofs!Exhausted, Abstract!Counted, LoopProofs!Counted, Abstract!Shutdown,
     LoopProofs!Shutdown, Abstract!Drop, LoopProofs!Drop, Abstract!Ended, LoopProofs!Ended,
     Abstract!End, LoopProofs!End, Abstract!To, LoopProofs!To, Abstract!loopHistory,
     LoopProofs!loopHistory, Abstract!loopVars, LoopProofs!loopVars

SessionInv == PipesOK /\ MailInv /\ ReplyInv /\ OwnInv /\ PhaseInv /\ LoopProofs!DataOK

LEMMA SessionInvInit == Init => SessionInv /\ LoopProofs!LoopInit
<1>1. LoopProofs!LoopInit => LoopProofs!DataOK
  BY LoopProofs!DataInit
<1> QED
  BY <1>1, InitInvs, InitImplements, SameInit DEF SessionInv

LEMMA SessionInvNext ==
  SessionInv /\ [Next]_vars => SessionInv' /\ [LoopProofs!LoopNext]_LoopProofs!loopVars
<1> SUFFICES ASSUME SessionInv, [Next]_vars
             PROVE  SessionInv' /\ [LoopProofs!LoopNext]_LoopProofs!loopVars
  OBVIOUS
<1>1. PipesOK /\ MailInv /\ ReplyInv /\ OwnInv /\ PhaseInv /\ LoopProofs!DataOK
  BY DEF SessionInv
<1>2. results \in Seq(Result) /\ returned \in Result
  BY <1>1 DEF LoopProofs!DataOK, LoopProofs!Result, Result
<1>3. [LoopProofs!LoopNext]_LoopProofs!loopVars
  BY <1>1, StepImplements, SameNext
<1>4. LoopProofs!DataOK'
  BY <1>1, <1>3, LoopProofs!DataNext
<1>5. PipesOK' /\ MailInv' /\ ReplyInv' /\ OwnInv' /\ PhaseInv'
  BY <1>1, <1>2, MailNext, ReplyNext, OwnNext, PhaseNext
<1> QED
  BY <1>3, <1>4, <1>5 DEF SessionInv

LEMMA Session == Spec => []SessionInv /\ LoopProofs!LoopSpec
  BY SessionInvInit, SessionInvNext, PTL DEF Spec, LoopProofs!LoopSpec

(* A session with a server is a session whose tools just return: the       *)
(* comparison of the ids keeps every late answer from another call.        *)
THEOREM Refinement == Spec => ImplementsLoop
<1>1. SessionInv /\ [Next]_vars => [Abstract!LoopNext]_Abstract!loopVars
  BY StepImplements DEF SessionInv
<1> QED
  BY <1>1, InitImplements, Session, PTL DEF Spec, ImplementsLoop, Abstract!LoopSpec

(* Every call gets its own result, and an ok result the content that this  *)
(* very call produced, whatever the server answers and when, unless the    *)
(* server sent a request with the id of that call.                         *)
THEOREM OwnAnswers == Spec => []AnswersReachTheirCalls
<1>1. SessionInv /\ LoopProofs!ResultsAnswerCalls => AnswersReachTheirCalls
  BY DEF SessionInv, OwnInv, LoopProofs!ResultsAnswerCalls, ResultsAnswerCalls,
     AnswersReachTheirCalls, LoopProofs!Nothing, Nothing
<1> QED
  BY <1>1, Session, LoopProofs!EachCallItsResult, PTL

(* The hooks see what ran, with a server as without.                       *)
THEOREM HooksSeeServerCalls == Spec => []HooksBracketRuns
<1>1. LoopProofs!HooksBracketRuns => HooksBracketRuns
  BY DEF LoopProofs!HooksBracketRuns, HooksBracketRuns, LoopProofs!Current, Current
<1> QED
  BY <1>1, Session, LoopProofs!HooksSeeWhatRan, PTL

(* Requests are bounded by the turns and the retries, the billed tokens by *)
(* the budget and one reply.                                               *)
THEOREM SpendingIsBounded == Spec => [](PostsBounded /\ OvershootsByOneReply)
<1>1. LoopProofs!PostsBounded => PostsBounded
  BY DEF LoopProofs!PostsBounded, PostsBounded
<1>2. LoopProofs!OvershootsByOneReply => OvershootsByOneReply
  BY DEF LoopProofs!OvershootsByOneReply, OvershootsByOneReply
<1> QED
  BY <1>1, <1>2, Session, LoopProofs!RequestsAreBounded, LoopProofs!BudgetIsKept, PTL

(* The stop reason is the one that applies.                                *)
THEOREM SessionOutcomes == Spec => []OutcomeIsRight
<1>1. LoopProofs!OutcomeIsRight => OutcomeIsRight
  BY DEF LoopProofs!OutcomeIsRight, OutcomeIsRight, LoopProofs!Exhausted, Exhausted,
     LoopProofs!Counted, Counted
<1> QED
  BY <1>1, Session, LoopProofs!OutcomesAreRight, PTL

(* No server that was connected outlives a session that returns, whatever  *)
(* the servers do.                                                         *)
THEOREM NoServerLeft == Spec => []ServersShutDown
<1>1. Init => PhaseInv
  BY InitInvs
<1>2. PhaseInv => ServersShutDown
  BY DEF PhaseInv
<1> QED
  BY <1>1, <1>2, PhaseNext, PTL DEF Spec
=============================================================================
