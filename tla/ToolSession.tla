----------------------------- MODULE ToolSession -----------------------------
(***************************************************************************)
(* A session of the agentic loop with one MCP server: AgentLoop, whose     *)
(* remote calls go through McpClient (ToolExecutor::connect_mcp_servers,   *)
(* dispatch and shutdown_mcp of tools.rs).  The loop waits while a call is *)
(* under way; the server, the pipes and the timer do not.                  *)
(***************************************************************************)
EXTENDS AgentLoop, McpClient

vars == <<loopVars, mcpVars>>

(* connect has returned; a client that failed is dropped.                  *)
Connected ==
  /\ stage = "connect"
  /\ phase \in {"ready", "failed"}
  /\ To("request")
  /\ servers' = (phase = "ready")
  /\ UNCHANGED <<family, budget, turn, attempt, asked, results, returned, fresh, cached,
                 outcome, loopHistory, mcpVars>>

(* dispatch: a local tool returns its own content, a tool nobody has       *)
(* listed is "Unknown tool".                                               *)
Remote == asked[Current] = "remote" /\ servers /\ listed

CallLocal ==
  /\ stage = "dispatch"
  /\ ~ Remote
  /\ \E r \in Outcome(Current) :
       /\ r.ok => asked[Current] = "local" /\ r.from = Current
       /\ Returns(r)
  /\ UNCHANGED mcpVars

CallServer ==
  /\ stage = "dispatch"
  /\ Remote
  /\ To("waiting")
  /\ Start(Current)
  /\ UNCHANGED <<family, budget, turn, attempt, asked, results, returned, fresh, cached,
                 servers, outcome, loopHistory>>

ServerReturned ==
  /\ stage = "waiting"
  /\ io = "idle"
  /\ Returns([call |-> Current, from |-> reply.call, ok |-> reply.ok])
  /\ UNCHANGED mcpVars

EndWithoutShutdown == \* mutant: an Err leaves complete before shutdown_mcp
  /\ Shutdown
  /\ IF servers /\ outcome # "error" THEN Kill ELSE UNCHANGED mcpVars

EndSession ==
  /\ Shutdown
  /\ IF servers THEN Kill ELSE UNCHANGED mcpVars

Loop ==
  \/ Connected
  \/ CallLocal \/ CallServer \/ ServerReturned
  \/ (Ask \/ Execute \/ Proceed) /\ UNCHANGED mcpVars
  \/ EndSession

Client == ~ Ended /\ phase # "failed" /\ ClientStep /\ UNCHANGED loopVars
Server == ~ Ended /\ phase # "failed" /\ ServerStep /\ UNCHANGED loopVars

Init == LoopInit /\ ClientInit

Next ==
  \/ Loop
  \/ Client
  \/ Server
  \/ Drop /\ UNCHANGED mcpVars

Spec == Init /\ [][Next]_vars

(* The runtime polls the loop and its timers.  Nothing is assumed of the   *)
(* server: not that it reads, nor that it answers, nor that it lives.      *)
FairSpec == Spec /\ WF_vars(Loop) /\ WF_vars(Client)

-----------------------------------------------------------------------------
(* Properties.                                                             *)

(* Type correctness of the session, the client, the pipes and the server.  *)
TypeOK == LoopTypeOK /\ ClientTypeOK

(* No server that was connected outlives the session, however the loop     *)
(* returned.                                                               *)
ServersShutDown ==
  stage = "done" => phase = "failed" \/ (phase = "shut down" /\ ~ alive)

(* Late, repeated and unordered answers never reach another call: a result *)
(* that is no error is the answer to its own call, unless the server had   *)
(* sent a request of its own that bears the id of that call.               *)
Mistaken(c) == \E r \in sent : r.call = c /\ r.id \in asks

AnswersReachTheirCalls ==
  /\ ResultsAnswerCalls
  /\ \A i \in DOMAIN results :
       results[i].ok => results[i].from = i \/ Mistaken(i)

(* The session with its server, late answers and timeouts included, is a   *)
(* session whose tools just return.                                        *)
Abstract == INSTANCE AgentLoop WITH stage <- IF stage = "waiting" THEN "dispatch" ELSE stage

ImplementsLoop == Abstract!LoopSpec

(* Every session ends, whatever its server does, unless it comes to wait   *)
(* for ever on a full pipe.                                                *)
SessionEnds == <>Ended \/ <>[]Blocked

(* mcp_client.rs, "Times out after MCP_REQUEST_TIMEOUT_SECS to prevent     *)
(* infinite hangs from misbehaving servers".  Does not hold: the line is   *)
(* written before the timer starts.                                        *)
NeverHangs == <>Ended
=============================================================================
