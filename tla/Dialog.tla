------------------------------- MODULE Dialog -------------------------------
(***************************************************************************)
(* The conversation on the wire (kernex-providers): the messages each HTTP *)
(* provider sends with every request of one Provider::complete.            *)
(*                                                                         *)
(* A request carries the whole conversation, so a tool call that is not    *)
(* answered where the API looks for the answer spoils every later request. *)
(* The APIs differ in how a result says which call it answers: by the id   *)
(* of the call (anthropic, openai), by the tool's name (gemini) or only by *)
(* its place (ollama).  Retries, hooks, rules and token counts are in      *)
(* AgentLoop; what the tools do is in ToolRuns and ToolSession.            *)
(* openrouter.rs runs the loop of openai.rs; bedrock.rs has no tools.      *)
(***************************************************************************)
EXTENDS Naturals, Sequences, SequencesExt

CONSTANTS
  MaxTurns,    \* Context::max_turns
  Histories,   \* the histories of a Context considered: sequences of roles
  Replies,     \* what the model may say: records [blocks, stop]
  TypeValues   \* the "type" of a tool's parameter: records [array, of]

(* Every type of a parameter names one that is not null.                   *)
ASSUME DialogConstantsOK ==
  /\ MaxTurns \in Nat
  /\ Histories \subseteq Seq({"user", "assistant"})
  /\ \A r \in Replies :
       /\ r.blocks \in Seq(Range(r.blocks))
       /\ \A b \in Range(r.blocks) : b.kind \in {"text", "thinking", "call"}
  /\ \A t \in TypeValues : t.array => \E i \in DOMAIN t.of : t.of[i] # "null"

VARIABLES
  provider, \* whose complete it is
  tools,    \* there are tools: tools_enabled, and a workspace
  declared, \* the type of a parameter, as the request declares it
  wire,     \* the messages of the next request
  stage,    \* where the call is
  turn,     \* the loop's turn
  reply,    \* the blocks of the reply whose calls are being run
  results,  \* the results of its calls so far
  stop,     \* stop_reason of the response, "none" if it has none, or "error"
  heard,    \* history: the replies
  ran       \* history: the calls executed, in order

dialogVars == <<provider, tools, declared, wire, stage, turn, reply, results, stop, heard, ran>>

Providers == {"anthropic", "openai", "openrouter", "gemini", "ollama", "bedrock"}

Text             == [kind |-> "text"]
Message(r, bs)   == [role |-> r, blocks |-> bs]
OfKinds(bs, ks)  == FlattenSeq([i \in DOMAIN bs |-> IF bs[i].kind \in ks THEN <<bs[i]>> ELSE << >>])
CallsIn(bs)      == OfKinds(bs, {"call"})
ResultsIn(bs)    == OfKinds(bs, {"result"})

-----------------------------------------------------------------------------
(* The first request.                                                      *)

ToApiMessages(history) ==
  [i \in DOMAIN history |-> Message(history[i], <<Text>>)] \o <<Message("user", <<Text>>)>>

(* The system prompt is a message of its own, if there is one.             *)
OpenAiMessages(system, msgs) ==
  (IF system THEN <<Message("system", <<Text>>)>> ELSE << >>) \o msgs

OllamaMessages(system, msgs) ==
  (IF system THEN <<Message("system", <<Text>>)>> ELSE << >>) \o msgs

(* The system prompt travels apart; an assistant is a "model".             *)
GeminiContents(msgs) ==
  [i \in DOMAIN msgs |->
     Message(IF msgs[i].role = "assistant" THEN "model" ELSE "user", msgs[i].blocks)]

FirstRequest(p, system, history) ==
  LET msgs == ToApiMessages(history) IN
  CASE p \in {"anthropic", "bedrock"}  -> msgs
    [] p \in {"openai", "openrouter"}  -> OpenAiMessages(system, msgs)
    [] p = "ollama"                    -> OllamaMessages(system, msgs)
    [] p = "gemini"                    -> GeminiContents(msgs)

(* ensure_no_assistant_prefill.                                            *)
Prefilled(msgs) == msgs # << >> /\ Last(msgs).role = "assistant"

(* normalize_schema_types, at one place of a schema: an array of types     *)
(* becomes the first one that is not null.                                 *)
Normal(t) ==
  LET concrete == {i \in DOMAIN t.of : t.of[i] # "null"}
  IN IF t.array /\ concrete # {} THEN [array |-> FALSE, of |-> <<t.of[Min(concrete)]>>] ELSE t

DialogInit ==
  /\ provider \in Providers
  /\ tools \in IF provider = "bedrock" THEN {FALSE} ELSE BOOLEAN
  /\ declared \in IF ~ tools THEN {[array |-> FALSE, of |-> << >>]}
                  ELSE {IF provider = "gemini" THEN Normal(t) ELSE t : t \in TypeValues}
  /\ \E history \in Histories, system \in BOOLEAN :
       wire = FirstRequest(provider, system, history)
  /\ stage = IF provider = "anthropic" /\ Prefilled(wire) THEN "done" ELSE "ask"
  /\ stop = IF stage = "done" THEN "error" ELSE "none"
  /\ turn = 0
  /\ reply = << >> /\ results = << >> /\ heard = << >> /\ ran = << >>

-----------------------------------------------------------------------------
(* A request and its reply.                                                *)

Asking(ps, loop) ==
  /\ stage = "ask"
  /\ provider \in ps
  /\ tools = loop
  /\ loop => turn < MaxTurns

(* What the types of the other APIs do not name, serde drops: they keep    *)
(* texts and calls, and so does Bedrock's.                                 *)
Parsed(bs) == IF provider = "anthropic" THEN bs ELSE OfKinds(bs, {"text", "call"})

Hears(r) == heard' = Append(heard, r)

Ends(why) ==
  /\ stage' = "done"
  /\ stop' = why
  /\ UNCHANGED <<provider, tools, declared, wire, turn, reply, results, ran>>

(* The calls of r are run next; msgs is what already goes on the wire.     *)
RunsCalls(r, msgs) ==
  /\ stage' = "run"
  /\ reply' = Parsed(r.blocks)
  /\ results' = << >>
  /\ wire' = wire \o msgs
  /\ UNCHANGED <<provider, tools, declared, turn, stop, ran>>

(* anthropic.rs goes by the stop reason, and hands it on with an answer.   *)
AnthropicAnyCall(r) == \* mutant: goes by the blocks, and drops the stop reason
  /\ Asking({"anthropic"}, TRUE)
  /\ Hears(r)
  /\ IF CallsIn(r.blocks) # << >> /\ r.stop = "tool_use" THEN RunsCalls(r, << >>) ELSE Ends("none")

AnthropicTurn(r) ==
  /\ Asking({"anthropic"}, TRUE)
  /\ Hears(r)
  /\ IF r.stop = "tool_use" THEN RunsCalls(r, << >>) ELSE Ends(r.stop)

(* The other loops go by the calls and have no stop reason to hand on.     *)
OpenAiTurn(r) ==
  /\ Asking({"openai", "openrouter"}, TRUE)
  /\ Hears(r)
  /\ IF CallsIn(r.blocks) # << >>
     THEN RunsCalls(r, <<Message("assistant", Parsed(r.blocks))>>)
     ELSE Ends("none")

OllamaTurn(r) ==
  /\ Asking({"ollama"}, TRUE)
  /\ Hears(r)
  /\ IF CallsIn(r.blocks) # << >>
     THEN RunsCalls(r, <<Message("assistant", Parsed(r.blocks))>>)
     ELSE Ends("none")

GeminiTurn(r) ==
  /\ Asking({"gemini"}, TRUE)
  /\ Hears(r)
  /\ IF CallsIn(r.blocks) # << >> THEN RunsCalls(r, << >>) ELSE Ends("none")

(* No choice, candidate or message: out of the loop, as if out of turns.   *)
NoReply ==
  /\ Asking({"openai", "openrouter", "ollama", "gemini"}, TRUE)
  /\ Ends("max_turns")
  /\ UNCHANGED heard

OutOfTurns ==
  /\ stage = "ask" /\ tools /\ turn = MaxTurns
  /\ Ends("max_turns")
  /\ UNCHANGED heard

RequestFails ==
  /\ stage = "ask"
  /\ tools => turn < MaxTurns
  /\ Ends("error")
  /\ UNCHANGED heard

(* Without tools: one request, whose text is the answer.                   *)
AnthropicPlain(r)  == Asking({"anthropic"}, FALSE) /\ Hears(r) /\ Ends(r.stop)
OpenAiPlain(r)     == Asking({"openai"}, FALSE) /\ Hears(r) /\ Ends("none")
OpenRouterPlain(r) == Asking({"openrouter"}, FALSE) /\ Hears(r) /\ Ends("none")
GeminiPlain(r)     == Asking({"gemini"}, FALSE) /\ Hears(r) /\ Ends("none")
OllamaPlain(r)     == Asking({"ollama"}, FALSE) /\ Hears(r) /\ Ends("none")
BedrockPlain(r)    == Asking({"bedrock"}, FALSE) /\ Hears(r) /\ Ends("none")

-----------------------------------------------------------------------------
(* The calls, one after the other.  The content of a result is the number  *)
(* of the execution that gave it.                                          *)

Wanted  == CallsIn(reply)
Current == Wanted[Len(results) + 1]

(* By what a result names its call.                                        *)
TagOf(asked) == CASE provider \in {"anthropic", "openai", "openrouter"} -> asked.id
                  [] provider = "gemini"                               -> asked.name
                  [] provider = "ollama"                               -> "none"
Content == [kind |-> "result", tag |-> TagOf(Current), from |-> Len(ran) + 1]

Executes ==
  /\ stage = "run"
  /\ Len(results) < Len(Wanted)
  /\ ran' = Append(ran, Current)
  /\ results' = Append(results, Content)
  /\ UNCHANGED <<provider, tools, declared, stage, turn, reply, stop, heard>>

(* openai, ollama: a message of role "tool" for each result, at once.      *)
ExecutesAndSends ==
  /\ provider \in {"openai", "openrouter", "ollama"}
  /\ Executes
  /\ wire' = Append(wire, Message("tool", <<Content>>))

(* anthropic, gemini: the results are collected.                           *)
ExecutesAndKeeps ==
  /\ provider \in {"anthropic", "gemini"}
  /\ Executes
  /\ UNCHANGED wire

AnthropicExchangeWithoutThinking == \* mutant: only texts and calls are replayed
  <<Message("assistant", OfKinds(reply, {"text", "call"})), Message("user", results)>>

(* assistant_block_from_response: every block of the reply, in its order.  *)
AnthropicExchange == <<Message("assistant", reply), Message("user", results)>>
GeminiExchange    == <<Message("model", reply), Message("user", results)>>

(* Every call has its result; budget_exhausted may end the loop here.      *)
TurnEnds ==
  /\ stage = "run"
  /\ Len(results) = Len(Wanted)
  /\ wire' = wire \o (CASE provider = "anthropic" -> AnthropicExchange
                        [] provider = "gemini"    -> GeminiExchange
                        [] OTHER                  -> << >>)
  /\ \/ stage' = "ask" /\ turn' = turn + 1 /\ UNCHANGED stop
     \/ stage' = "done" /\ stop' = "budget_exhausted" /\ UNCHANGED turn
  /\ UNCHANGED <<provider, tools, declared, reply, results, heard, ran>>

-----------------------------------------------------------------------------
(* The APIs: a model calls only the tools it was offered, and a turn that  *)
(* ends has no calls, one that stops for them has.                         *)
Sayable(r) ==
  /\ CallsIn(r.blocks) # << >> => tools /\ r.stop \notin {"none", "end_turn"}
  /\ r.stop = "tool_use" => CallsIn(r.blocks) # << >>

DialogNext ==
  \/ \E r \in {x \in Replies : Sayable(x)} :
       \/ AnthropicTurn(r) \/ OpenAiTurn(r) \/ OllamaTurn(r) \/ GeminiTurn(r)
       \/ AnthropicPlain(r) \/ OpenAiPlain(r) \/ OpenRouterPlain(r)
       \/ GeminiPlain(r) \/ OllamaPlain(r) \/ BedrockPlain(r)
  \/ NoReply \/ OutOfTurns \/ RequestFails
  \/ ExecutesAndSends \/ ExecutesAndKeeps \/ TurnEnds

DialogSpec == DialogInit /\ [][DialogNext]_dialogVars

-----------------------------------------------------------------------------
(* Every request that goes out answers every call of the conversation so   *)
(* far: the messages right after the one with the calls hold one result    *)
(* for each of them, in their order, with the content that very execution  *)
(* gave and with the tag by which the API finds the call; thinking that    *)
(* led to a call is replayed; the last word is not the assistant's; and    *)
(* the types of the tools' parameters are as Gemini takes them.            *)
CallsOf(msgs)   == FlattenSeq([i \in DOMAIN msgs |-> CallsIn(msgs[i].blocks)])
ResultsOf(msgs) == FlattenSeq([i \in DOMAIN msgs |-> ResultsIn(msgs[i].blocks)])

Matches(asked, result) ==
  \/ provider \in {"anthropic", "openai", "openrouter"} /\ result.tag = asked.id
  \/ provider = "gemini" /\ result.tag = asked.name
  \/ provider = "ollama"

(* The results that follow message i before anything else is said.         *)
Following(i) ==
  LET ends == {j \in (i + 1)..Len(wire) : ResultsIn(wire[j].blocks) = << >>}
      last == IF ends = {} THEN Len(wire) ELSE (CHOOSE j \in ends : \A k \in ends : j <= k) - 1
  IN FlattenSeq([j \in 1..(last - i) |-> ResultsIn(wire[i + j].blocks)])

CallsAreAnswered ==
  /\ Len(ResultsOf(wire)) = Len(CallsOf(wire))
  /\ \A i \in DOMAIN wire : Len(Following(i)) >= Len(CallsIn(wire[i].blocks))
  /\ \A k \in DOMAIN CallsOf(wire) :
       LET asked  == CallsOf(wire)[k]
           result == ResultsOf(wire)[k]
       IN result.from = k /\ ran[k] = asked /\ Matches(asked, result)

(* What was said with a call.                                              *)
Spoken(msgs) ==
  FlattenSeq([i \in DOMAIN msgs |-> IF CallsIn(msgs[i].blocks) # << >> THEN <<msgs[i].blocks>> ELSE << >>])

ThinkingIsReplayed ==
  provider = "anthropic" => \A i \in DOMAIN Spoken(wire) : Spoken(wire)[i] = heard[i].blocks

RequestsAreWellFormed ==
  stage = "ask" =>
    /\ CallsAreAnswered
    /\ ThinkingIsReplayed
    /\ Last(wire).role \notin {"assistant", "model"}
    /\ provider = "gemini" => ~ declared.array

(* A response that does not say it was cut short, out of turns or out of   *)
(* budget has run every call the model made: none is lost with the reply   *)
(* that carried it.                                                        *)
NoCallIsLost == stage = "done" /\ stop \in {"none", "end_turn"} => ran = CallsOf(heard)
=============================================================================
