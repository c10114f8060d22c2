----------------------------- MODULE MCProviders -----------------------------
(* The providers for TLC, three parts that share no state: a behaviour is  *)
(* about two calls of CLI providers (CliProviders), one of Claude's agent  *)
(* mode beside one that may resume or one of OpenCode; about one streamed  *)
(* turn (Streams); or about the requests of one HTTP provider (Dialog).    *)
EXTENDS CliProviders, Streams, Dialog, TLC

VARIABLE part

providerVars == <<vars, streamVars, dialogVars, part>>

-----------------------------------------------------------------------------
Ask(p, fixed, agent, servers) ==
  [provider |-> p, fixed |-> fixed, agent |-> agent, servers |-> servers]

MCRequests ==
  ("a" :> { Ask("claude", FALSE, FALSE, TRUE), Ask("opencode", FALSE, FALSE, TRUE) })
  @@ ("b" :> { Ask("claude", TRUE, TRUE, TRUE) })

(* A server that streams reasoning, text in two deltas with a wide         *)
(* character, usage and the end; one that repeats the input count and      *)
(* fails; one that writes a line beyond the limit.                         *)
Line(is, body) == [is |-> is, body |-> body, in |-> 0, out |-> 0]
Count(is, i, o) == [is |-> is, body |-> <<"x">>, in |-> i, out |-> o]

MCScripts == {
  << Count("start", 2, 0), Line("thinking", <<"x">>), Line("text", <<"<", ">">>),
     Line("text", <<"x">>), Count("usage", 0, 1), Line("stop", <<"x">>) >>,
  << Count("start", 2, 0), Line("text", <<"x">>), Count("usage", 3, 1),
     Line("ping", <<>>), Line("error", <<"x">>) >>,
  << Line("text", <<"x">>), Line("text", <<"x", "x", "x", "x">>), Line("stop", <<"x">>) >> }

Invokes(i, t) == [kind |-> "call", id |-> i, name |-> t]
Reasons       == [kind |-> "thinking"]
Says(bs, why) == [blocks |-> bs, stop |-> why]

MCReplies == {
  Says(<<Text>>, "end_turn"),
  Says(<<Text>>, "max_tokens"),
  Says(<< >>, "end_turn"),
  Says(<<Reasons, Invokes("c1", "bash")>>, "tool_use"),
  Says(<<Text, Invokes("c1", "read"), Reasons, Invokes("c2", "bash")>>, "tool_use"),
  Says(<<Invokes("c1", "bash"), Invokes("c2", "bash")>>, "tool_use"),
  Says(<<Text, Invokes("c1", "bash")>>, "max_tokens") }

MCHistories == {<< >>, <<"user", "assistant">>, <<"assistant", "user", "assistant">>}

MCTypes == {[array |-> FALSE, of |-> <<"string">>], [array |-> TRUE, of |-> <<"string">>],
            [array |-> TRUE, of |-> <<"null", "string">>]}

-----------------------------------------------------------------------------
(* Where a part is at rest one of its initial states is enough.            *)
ProvidersInit ==
  /\ part \in {"cli", "stream", "dialog"}
  /\ Init /\ StreamInit /\ DialogInit
  /\ part # "stream" => script = CHOOSE s \in Scripts : TRUE
  /\ part # "dialog" => /\ provider = "ollama" /\ ~ tools
                        /\ wire = FirstRequest("ollama", FALSE, << >>)

InCli(A)    == part = "cli" /\ A /\ UNCHANGED <<streamVars, dialogVars, part>>
InStream(A) == part = "stream" /\ A /\ UNCHANGED <<vars, dialogVars, part>>
InDialog(A) == part = "dialog" /\ A /\ UNCHANGED <<vars, streamVars, part>>

ProvidersNext == InCli(Next) \/ InStream(StreamNext) \/ InDialog(DialogNext)

ProvidersSpec ==
  /\ ProvidersInit /\ [][ProvidersNext]_providerVars
  /\ \A c \in Calls : WF_vars(InCli(CallStep(c)))
  /\ WF_streamVars(InStream(Bytes \/ Break)) /\ WF_streamVars(InStream(Decode))
  /\ WF_streamVars(InStream(Forward)) /\ WF_streamVars(InStream(Read))
=============================================================================
