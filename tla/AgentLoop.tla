------------------------------ MODULE AgentLoop ------------------------------
(***************************************************************************)
(* The tool loop of the HTTP providers (kernex-providers: anthropic.rs,    *)
(* openai.rs, gemini.rs, ollama.rs), the retries of each of its requests   *)
(* (http_retry.rs) and the tool executor it calls (tools.rs).              *)
(*                                                                         *)
(* One session is one Provider::complete with tools: connect the servers,  *)
(* ask the model, run the tools it calls one after the other, ask again,   *)
(* and shut the servers down.  What the model answers, what a hook or a    *)
(* rule says, what a tool returns and which requests fail is left open.    *)
(* The four loops differ in two places: Counted and Answered.              *)
(***************************************************************************)
EXTENDS Integers, Sequences

CONSTANTS
  MaxTurns,    \* Context::max_turns
  MaxRetries,  \* MAX_RETRIES of http_retry.rs
  Budgets,     \* the values of Context::token_budget considered
  NoBudget,    \* its None
  Costs,       \* what a reply may cost: records [fresh, cached]
  MaxCalls     \* bound: tool calls of a session

ASSUME LoopConstantsOK ==
  /\ MaxTurns \in Nat
  /\ MaxRetries \in Nat
  /\ NoBudget \notin Nat
  /\ Budgets \subseteq Nat \cup {NoBudget}
  /\ Costs \subseteq [fresh : Nat, cached : Nat]
  /\ MaxCalls \in Nat

VARIABLES
  family,   \* which of the loops runs
  budget,   \* Context::token_budget
  stage,    \* where the session is
  turn,     \* the loop's turn
  attempt,  \* send_with_retry's attempt
  asked,    \* the calls of the transcript: the tool of each
  results,  \* their results, as they are handed to the model
  returned, \* what the call being run has returned
  fresh,    \* tokens so far: input, output and cache writes
  cached,   \* tokens so far: cache reads
  servers,  \* MCP servers are connected
  outcome,  \* stop_reason, or "error"
  last,     \* history: the latest reply, its kind and its cost
  posts,    \* history: requests put on the wire
  allowed,  \* history: calls the pre-tool hook and the rules let through
  ran,      \* history: calls dispatched
  seen      \* history: calls reported to the post-tool hook

loopHistory == <<last, posts, allowed, ran, seen>>
loopVars == <<family, budget, stage, turn, attempt, asked, results, returned,
              fresh, cached, servers, outcome, loopHistory>>

Families == {"anthropic", "others"}
Tools    == {"local", "remote"}
Stages   == {"connect", "request", "hook", "rules", "dispatch", "waiting", "report",
             "check", "ending", "done", "dropped"}
Outcomes == {"none", "end_turn", "max_turns", "budget_exhausted", "error"}
Kinds    == {"none", "final", "calls", "empty"}

(* A result names the call it answers and the call whose execution gave    *)
(* its content, Nothing for a refusal, an error message or a null.         *)
Nothing   == 0
Result    == [call : Nat, from : Nat, ok : BOOLEAN]
Refusal(c) == [call |-> c, from |-> Nothing, ok |-> FALSE]
NoReply   == [kind |-> "none", fresh |-> 0, cached |-> 0]

Ended   == stage \in {"done", "dropped"}
Current == Len(results) + 1
To(s)   == stage' = s

-----------------------------------------------------------------------------
(* connect_mcp_servers; a server that does not connect is left out.        *)
Connect ==
  /\ stage = "connect"
  /\ To("request")
  /\ servers' \in BOOLEAN
  /\ UNCHANGED <<family, budget, turn, attempt, asked, results, returned, fresh, cached,
                 outcome, loopHistory>>

End(why) == To("ending") /\ outcome' = why

TurnsLeft == turn < MaxTurns

OutOfTurns ==
  /\ stage = "request"
  /\ ~ TurnsLeft
  /\ End("max_turns")
  /\ UNCHANGED <<family, budget, turn, attempt, asked, results, returned, fresh, cached,
                 servers, loopHistory>>

(* A network error, 429 or 5xx: the same request once more, after a delay. *)

Retry ==
  /\ stage = "request" /\ TurnsLeft
  /\ attempt < MaxRetries
  /\ attempt' = attempt + 1
  /\ posts' = posts + 1
  /\ UNCHANGED <<family, budget, stage, turn, asked, results, returned, fresh, cached,
                 servers, outcome, last, allowed, ran, seen>>

(* The body cannot be sent, the last attempt failed, the status is another *)
(* 4xx, or the reply does not parse: Err, by the ? operator, after which   *)
(* complete still shuts the servers down.                                  *)
RequestFails ==
  /\ stage = "request" /\ TurnsLeft
  /\ posts' \in {posts, posts + 1}
  /\ End("error")
  /\ UNCHANGED <<family, budget, turn, attempt, asked, results, returned, fresh, cached,
                 servers, last, allowed, ran, seen>>

Paid(kind, cost) ==
  /\ posts' = posts + 1
  /\ attempt' = 0
  /\ fresh' = fresh + cost.fresh
  /\ cached' = cached + cost.cached
  /\ last' = [kind |-> kind, fresh |-> cost.fresh, cached |-> cost.cached]

(* Text: the final answer, whatever it cost.                               *)
Final(cost) ==
  /\ stage = "request" /\ TurnsLeft
  /\ Paid("final", cost)
  /\ End("end_turn")
  /\ UNCHANGED <<family, budget, turn, asked, results, returned, servers, allowed, ran, seen>>

(* No choice, candidate or message in the reply: break, to the code after  *)
(* the loop.  anthropic.rs takes such a reply for an empty text.           *)
Empty(cost) ==
  /\ stage = "request" /\ TurnsLeft
  /\ family = "others"
  /\ Paid("empty", cost)
  /\ End("max_turns")
  /\ UNCHANGED <<family, budget, turn, asked, results, returned, servers, allowed, ran, seen>>

(* Tool calls.  anthropic.rs goes by the stop reason "tool_use", which     *)
(* does not promise that there is a call.                                  *)
AsksFor(calls, cost) ==
  /\ stage = "request" /\ TurnsLeft
  /\ calls = << >> => family = "anthropic"
  /\ Paid("calls", cost)
  /\ asked' = asked \o calls
  /\ To(IF calls = << >> THEN "check" ELSE "hook")
  /\ UNCHANGED <<family, budget, turn, results, returned, servers, outcome, allowed, ran, seen>>

-----------------------------------------------------------------------------
(* ToolExecutor::execute, for one call after the other.                    *)

Answer(r) ==
  /\ results' = Append(results, r)
  /\ To(IF Current = Len(asked) THEN "check" ELSE "hook")

RefuseAndReport == \* mutant: the post-tool hook hears of a refused call
  /\ stage \in {"hook", "rules"}
  /\ Answer(Refusal(Current))
  /\ seen' = seen \cup {Current}
  /\ UNCHANGED <<family, budget, turn, attempt, asked, returned, fresh, cached, servers,
                 outcome, last, posts, allowed, ran>>

Refuse ==
  /\ stage \in {"hook", "rules"}
  /\ Answer(Refusal(Current))
  /\ UNCHANGED <<family, budget, turn, attempt, asked, returned, fresh, cached, servers,
                 outcome, loopHistory>>

HookAllows ==
  /\ stage = "hook"
  /\ To("rules")
  /\ UNCHANGED <<family, budget, turn, attempt, asked, results, returned, fresh, cached,
                 servers, outcome, loopHistory>>

RulesAllow ==
  /\ stage = "rules"
  /\ To("dispatch")
  /\ allowed' = allowed \cup {Current}
  /\ UNCHANGED <<family, budget, turn, attempt, asked, results, returned, fresh, cached,
                 servers, outcome, last, posts, ran, seen>>

(* The tool has run and returned r: a built-in or toolbox tool, a tool of  *)
(* a server, or "Unknown tool".                                            *)
Returns(r) ==
  /\ To("report")
  /\ returned' = r
  /\ ran' = ran \cup {Current}
  /\ UNCHANGED <<family, budget, turn, attempt, asked, results, fresh, cached, servers,
                 outcome, last, posts, allowed, seen>>

(* An ok result has the content the call produced, or no content.          *)
Success(c, from) == [call |-> c, from |-> from, ok |-> TRUE]
Outcome(c) == {Refusal(c), Success(c, c), Success(c, Nothing)}

Dispatch == stage = "dispatch" /\ \E r \in Outcome(Current) : Returns(r)

Report ==
  /\ stage = "report"
  /\ seen' = seen \cup {Current}
  /\ Answer(returned)
  /\ UNCHANGED <<family, budget, turn, attempt, asked, returned, fresh, cached, servers,
                 outcome, last, posts, allowed, ran>>

-----------------------------------------------------------------------------
(* Between two turns: the token budget.  anthropic.rs leaves cache reads   *)
(* out, the other loops add up the total the API reports; what the budget  *)
(* should count is in StopsWhenSpent.                                      *)

Counted == IF family = "anthropic" THEN fresh ELSE fresh + cached

OverBudget == budget # NoBudget /\ Counted > budget \* mutant: beyond the budget
Exhausted == budget # NoBudget /\ Counted >= budget

StopOnBudget ==
  /\ stage = "check"
  /\ Exhausted
  /\ End("budget_exhausted")
  /\ UNCHANGED <<family, budget, turn, attempt, asked, results, returned, fresh, cached,
                 servers, loopHistory>>

NextTurn ==
  /\ stage = "check"
  /\ ~ Exhausted
  /\ turn' = turn + 1
  /\ To("request")
  /\ UNCHANGED <<family, budget, attempt, asked, results, returned, fresh, cached, servers,
                 outcome, loopHistory>>

(* shutdown_mcp, after the loop has returned Ok or Err.                    *)
Shutdown ==
  /\ stage = "ending"
  /\ To("done")
  /\ servers' = FALSE
  /\ UNCHANGED <<family, budget, turn, attempt, asked, results, returned, fresh, cached,
                 outcome, loopHistory>>

(* The caller drops the future at an await: nothing more happens.          *)
Drop ==
  /\ ~ Ended
  /\ To("dropped")
  /\ UNCHANGED <<family, budget, turn, attempt, asked, results, returned, fresh, cached,
                 servers, outcome, loopHistory>>

-----------------------------------------------------------------------------
LoopInit ==
  /\ family \in Families /\ budget \in Budgets
  /\ stage = "connect" /\ turn = 0 /\ attempt = 0
  /\ asked = << >> /\ results = << >> /\ returned = Refusal(1)
  /\ fresh = 0 /\ cached = 0
  /\ servers = FALSE /\ outcome = "none"
  /\ last = NoReply /\ posts = 0
  /\ allowed = {} /\ ran = {} /\ seen = {}

Calls == UNION {[1..n -> Tools] : n \in 0..(MaxCalls - Len(asked))}

Ask ==
  \/ OutOfTurns \/ Retry \/ RequestFails
  \/ \E cost \in Costs : Final(cost) \/ Empty(cost)
  \/ \E cost \in Costs, calls \in Calls : AsksFor(calls, cost)

Execute == Refuse \/ HookAllows \/ RulesAllow \/ Report

Proceed == StopOnBudget \/ NextTurn

LoopNext == Connect \/ Ask \/ Execute \/ Dispatch \/ Proceed \/ Shutdown \/ Drop

LoopSpec == LoopInit /\ [][LoopNext]_loopVars

-----------------------------------------------------------------------------
(* Properties.                                                             *)

(* Type correctness of the session and of its history.                     *)
LoopTypeOK ==
  /\ family \in Families /\ budget \in Budgets /\ stage \in Stages
  /\ turn \in 0..MaxTurns /\ attempt \in 0..MaxRetries
  /\ asked \in Seq(Tools) /\ results \in Seq(Result) /\ returned \in Result
  /\ fresh \in Nat /\ cached \in Nat
  /\ servers \in BOOLEAN /\ outcome \in Outcomes
  /\ last \in [kind : Kinds, fresh : Nat, cached : Nat] /\ posts \in Nat
  /\ allowed \subseteq Nat /\ ran \subseteq Nat /\ seen \subseteq Nat

(* Every call the model made has exactly one result, in the order of the   *)
(* calls, before the model is asked again, and a result that is no error   *)
(* has the content that very call produced or none.                        *)
ResultsAnswerCalls ==
  /\ Len(results) <= Len(asked)
  /\ stage \in {"request", "check"} => Len(results) = Len(asked)
  /\ \A i \in DOMAIN results :
       results[i].call = i /\ (results[i].ok => results[i].from \in {i, Nothing})

(* hooks.rs: the post-tool hook is told of every call that ran and of no   *)
(* other, and what the hook or the rules refused never runs.               *)
HooksBracketRuns ==
  /\ seen \subseteq ran
  /\ ran \subseteq seen \cup (IF stage \in {"report", "dropped"} THEN {Current} ELSE {})
  /\ ran \subseteq allowed
  /\ \A i \in DOMAIN results : results[i].ok => i \in seen

(* run.rs: the stop reason is the one that applies.  A final answer is     *)
(* returned even if it crosses the budget; budget_exhausted means that the *)
(* tokens counted have reached the budget, with every call answered;       *)
(* max_turns that the turns are used up or the model sent nothing.         *)
OutcomeIsRight ==
  outcome # "none" =>
    /\ outcome = "end_turn" <=> last.kind = "final"
    /\ outcome = "budget_exhausted" => Exhausted /\ Len(results) = Len(asked)
    /\ outcome = "max_turns" => turn = MaxTurns \/ last.kind = "empty"

(* run.rs, "billed tokens", cache reads excluded: whichever loop runs, the *)
(* budget is overshot by one reply at most.  Before the latest one, the    *)
(* tokens billed were below it (the first is always asked for).            *)
OvershootsByOneReply ==
  budget # NoBudget /\ turn > 0 => fresh - last.fresh < budget

(* run.rs, "so the budget semantics cannot drift between providers": a run *)
(* that stops for its budget has that many billed tokens.  Does not hold:  *)
(* three of the four loops count the cache reads too.                      *)
StopsWhenSpent == outcome = "budget_exhausted" => fresh >= budget

(* A session puts no more requests on the wire than its turns and the      *)
(* retries of each allow.                                                  *)
PostsBounded == posts <= MaxTurns * (MaxRetries + 1)

=============================================================================
