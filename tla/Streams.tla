------------------------------- MODULE Streams -------------------------------
(***************************************************************************)
(* A streamed turn: the decoder task of AnthropicProvider::complete_stream *)
(* (kernex-providers/src/anthropic.rs), the forwarding task of the         *)
(* runtime's complete_stream (kernex-runtime/src/lib.rs), the caller, and  *)
(* the two bounded channels between them.                                  *)
(*                                                                         *)
(* The server writes lines; the network cuts their bytes into chunks       *)
(* wherever it likes, and may break or close the connection at any chunk.  *)
(* A byte is "x", or one of the two halves "<" and ">" of a wider          *)
(* character; a half that is decoded alone becomes "?".                    *)
(***************************************************************************)
EXTENDS Naturals, Sequences, SequencesExt

CONSTANTS
  Scripts,     \* what the server may write: sequences of lines [is, body, in, out]
  MaxLine,     \* MAX_SSE_LINE, in bytes
  ChannelCap   \* capacity of both channels (64 in the code)

Kinds == {"start", "text", "thinking", "usage", "error", "stop", "ping"}
Lines == [is : Kinds, body : Seq({"x", "<", ">"}), in : Nat, out : Nat]

ASSUME StreamConstantsOK ==
  /\ MaxLine \in Nat \ {0} /\ ChannelCap \in Nat \ {0}
  /\ \A s \in Scripts : s \in Seq(Lines)

VARIABLES
  script,   \* what this server writes
  sent,     \* bytes of it that have arrived
  decoder,  \* "ask" for the stream, "await" a chunk, "drain" lines, about to
            \* "fail" or "end", "over"; or "refused"
  buffer,   \* decoded bytes not yet taken off as lines
  lineNo,   \* lines taken off
  usage,    \* the running StreamUsage
  upstream, \* the provider's channel
  forward,  \* the runtime's task: "none", "recv", "send", "persist", "over"
  held,     \* the event it is sending on
  acc,      \* its StreamAccumulator
  channel,  \* the channel to the caller
  open,     \* the caller still holds its receiver
  got,      \* what the caller has read
  passed,   \* history: what the task has passed on, to a caller or to nobody
  stored    \* the exchange stored: at most one [text, tokens, verdict]

decoderVars == <<sent, decoder, buffer, lineNo, usage>>
forwardVars == <<forward, held, acc, passed, stored>>
callerVars  == <<open, got>>
streamVars == <<script, decoderVars, upstream, forwardVars, channel, callerVars>>

NoUsage == [in |-> 0, out |-> 0]
Done    == [is |-> "done"]
Error   == [is |-> "error"]

Terminal(e) == e.is \in {"done", "error"}

Wire(s) == FlattenSeq([i \in DOMAIN s |-> Append(s[i].body, "nl")])

StreamInit ==
  /\ script \in Scripts
  /\ sent = 0 /\ decoder = "ask" /\ buffer = <<>> /\ lineNo = 0 /\ usage = NoUsage
  /\ upstream = <<>>
  /\ forward = "none" /\ held = Done /\ acc = [text |-> <<>>, tokens |-> 0]
  /\ channel = <<>> /\ open = TRUE /\ got = <<>>
  /\ passed = <<>> /\ stored = {}

-----------------------------------------------------------------------------
(* The request is sent once: a stream cannot be retried the way            *)
(* send_with_retry does.  If it is refused, complete_stream returns an     *)
(* error: neither task is ever started, and nothing is stored.             *)
Connect ==
  /\ decoder = "ask"
  /\ decoder' = "await" /\ forward' = "recv"
  /\ UNCHANGED <<script, sent, buffer, lineNo, usage, upstream, held, acc, passed, stored,
                 channel, callerVars>>

Refuse ==
  /\ decoder = "ask"
  /\ decoder' = "refused" /\ forward' = "over" /\ open' = FALSE
  /\ UNCHANGED <<script, sent, buffer, lineNo, usage, upstream, held, acc, passed, stored,
                 channel, got>>

-----------------------------------------------------------------------------
(* The decoder.                                                            *)

(* String::from_utf8_lossy of one chunk.                                   *)
Lossy(chunk) == [i \in DOMAIN chunk |->
  CASE chunk[i] = ">" /\ (i = 1 \/ chunk[i - 1] # "<") -> "?"
    [] chunk[i] = "<" /\ i = Len(chunk) -> "?"
    [] OTHER -> chunk[i]]

TakeChunk(n) ==
  /\ decoder = "await"
  /\ n > 0 /\ sent + n <= Len(Wire(script))
  /\ sent' = sent + n
  /\ IF Len(buffer) + n > 2 * MaxLine
     THEN decoder' = "fail" /\ UNCHANGED buffer
     ELSE /\ buffer' = buffer \o Lossy(SubSeq(Wire(script), sent + 1, sent + n))
          /\ decoder' = "drain"
  /\ UNCHANGED <<script, lineNo, usage, upstream, forwardVars, channel, callerVars>>

(* sse_data_to_event: the usage is merged and an event is made of a line.  *)
Merged(line, u) ==
  CASE line.is = "start" -> [u EXCEPT !.in = line.in]
    [] line.is = "usage" -> [in |-> IF line.in > 0 THEN line.in ELSE u.in, out |-> line.out]
    [] OTHER -> u

EventsOf(line, body, u) ==
  CASE line.is \in {"text", "thinking"} -> <<[is |-> line.is, body |-> body]>>
    [] line.is = "usage" -> <<[is |-> "usage", tokens |-> u.in + u.out]>>
    [] line.is = "error" -> <<Error>>
    [] line.is = "stop"  -> <<Done>>
    [] OTHER -> <<>>

(* One line off the front of the buffer; the send waits for room.          *)
Drain ==
  /\ decoder = "drain"
  /\ Contains(buffer, "nl")
  /\ LET pos  == CHOOSE i \in DOMAIN buffer : buffer[i] = "nl" /\ \A j \in 1..(i - 1) : buffer[j] # "nl"
         line == script[lineNo + 1]
         es   == EventsOf(line, SubSeq(buffer, 1, pos - 1), Merged(line, usage))
     IN /\ Len(upstream) + Len(es) <= ChannelCap
        /\ upstream' = upstream \o es
        /\ buffer' = SubSeq(buffer, pos + 1, Len(buffer))
        /\ usage' = Merged(line, usage)
        /\ decoder' = IF es # <<>> /\ Terminal(es[1]) THEN "over" ELSE "drain"
  /\ lineNo' = lineNo + 1
  /\ UNCHANGED <<script, sent, forwardVars, channel, callerVars>>

Drained ==
  /\ decoder = "drain"
  /\ ~ Contains(buffer, "nl")
  /\ decoder' = IF Len(buffer) > MaxLine THEN "fail" ELSE "await"
  /\ UNCHANGED <<script, sent, buffer, lineNo, usage, upstream, forwardVars, channel, callerVars>>

(* The connection breaks, or ends: at the end of the script or before.     *)
Hangs(stage) ==
  /\ decoder = "await"
  /\ decoder' = stage
  /\ UNCHANGED <<script, sent, buffer, lineNo, usage, upstream, forwardVars, channel, callerVars>>

Break == Hangs("fail")
Close == Hangs("end")

LastWordLost == \* mutant: try_send, which gives up when the channel is full
  /\ decoder \in {"fail", "end"}
  /\ upstream' = IF Len(upstream) < ChannelCap
                 THEN Append(upstream, IF decoder = "fail" THEN Error ELSE Done) ELSE upstream
  /\ decoder' = "over"
  /\ UNCHANGED <<script, sent, buffer, lineNo, usage, forwardVars, channel, callerVars>>

LastWord ==
  /\ decoder \in {"fail", "end"}
  /\ Len(upstream) < ChannelCap
  /\ upstream' = Append(upstream, IF decoder = "fail" THEN Error ELSE Done)
  /\ decoder' = "over"
  /\ UNCHANGED <<script, sent, buffer, lineNo, usage, forwardVars, channel, callerVars>>

-----------------------------------------------------------------------------
(* The forwarding task.                                                    *)

PushAll(e) == \* mutant: the reasoning is folded into the answer
  CASE e.is \in {"text", "thinking"} -> [acc EXCEPT !.text = @ \o e.body]
    [] e.is = "usage" -> [acc EXCEPT !.tokens = e.tokens]
    [] OTHER -> acc

Push(e) ==
  CASE e.is = "text"  -> [acc EXCEPT !.text = @ \o e.body]
    [] e.is = "usage" -> [acc EXCEPT !.tokens = e.tokens]
    [] OTHER -> acc

(* An upstream that has closed without a last word ends the loop too.      *)
Recv ==
  /\ forward = "recv"
  /\ upstream # <<>> \/ decoder = "over"
  /\ IF upstream = <<>>
     THEN forward' = "persist" /\ UNCHANGED <<upstream, held, acc>>
     ELSE /\ held' = Head(upstream)
          /\ upstream' = Tail(upstream)
          /\ acc' = Push(Head(upstream))
          /\ forward' = "send"
  /\ UNCHANGED <<script, decoderVars, channel, callerVars, passed, stored>>

(* Best effort: a send to a caller that has gone returns at once.          *)
SendToNobody == \* mutant: the task keeps the channel open itself
  /\ forward = "send"
  /\ Len(channel) < ChannelCap
  /\ channel' = Append(channel, held)
  /\ passed' = Append(passed, held)
  /\ forward' = IF Terminal(held) THEN "persist" ELSE "recv"
  /\ UNCHANGED <<script, decoderVars, upstream, held, acc, callerVars, stored>>

Send ==
  /\ forward = "send"
  /\ open => Len(channel) < ChannelCap
  /\ channel' = IF open THEN Append(channel, held) ELSE channel
  /\ passed' = Append(passed, held)
  /\ forward' = IF Terminal(held) THEN "persist" ELSE "recv"
  /\ UNCHANGED <<script, decoderVars, upstream, held, acc, callerVars, stored>>

(* check_output on the whole text, and store_exchange, whose failure is    *)
(* logged.                                                                 *)
Verdicts == {"allow", "block", "sanitize"}

Judged(text, verdict) ==
  CASE verdict = "allow" -> text [] verdict = "block" -> <<>> [] verdict = "sanitize" -> <<"clean">>

Persist ==
  /\ forward = "persist"
  /\ \/ \E v \in Verdicts :
          stored' = {[text |-> Judged(acc.text, v), tokens |-> acc.tokens, verdict |-> v]}
     \/ UNCHANGED stored
  /\ forward' = "over"
  /\ UNCHANGED <<script, decoderVars, upstream, held, acc, passed, channel, callerVars>>

-----------------------------------------------------------------------------
(* The caller.                                                             *)

Read ==
  /\ open /\ channel # <<>>
  /\ got' = Append(got, Head(channel))
  /\ channel' = Tail(channel)
  /\ UNCHANGED <<script, decoderVars, upstream, forwardVars, open>>

Leave ==
  /\ open /\ forward # "none"
  /\ open' = FALSE
  /\ channel' = <<>>
  /\ UNCHANGED <<script, decoderVars, upstream, forwardVars, got>>

Decode  == Drain \/ Drained \/ LastWord
Forward == Recv \/ Send \/ Persist

Bytes == (\E n \in 1..Len(Wire(script)) : TakeChunk(n)) \/ Close

StreamNext == Connect \/ Refuse \/ Bytes \/ Break \/ Decode \/ Forward \/ Read \/ Leave

StreamSpec == StreamInit /\ [][StreamNext]_streamVars

(* Both tasks are spawned, so they run; the timeout of the client ends a   *)
(* connection that brings nothing; a caller reads on, unless it leaves.    *)
FairStreamSpec ==
  /\ StreamSpec
  /\ WF_streamVars(Bytes \/ Break) /\ WF_streamVars(Decode)
  /\ WF_streamVars(Forward) /\ WF_streamVars(Read)

-----------------------------------------------------------------------------
(* What the lines taken off so far say, from the script alone: the usage   *)
(* as of a line is the last input count that was not zero and the last     *)
(* output count.                                                           *)
Latest(c) == IF DOMAIN c = {} THEN 0 ELSE c[Max(DOMAIN c)]

CountsIn(line) == line.is = "start" \/ (line.is = "usage" /\ line.in > 0)

UsageAt(s, n) ==
  [in  |-> Latest([i \in {k \in 1..n : CountsIn(s[k])} |-> s[i].in]),
   out |-> Latest([i \in {k \in 1..n : s[k].is = "usage"} |-> s[i].out])]

Said ==
  FlattenSeq([i \in 1..lineNo |-> EventsOf(script[i], script[i].body, UsageAt(script, i))])

InTransit == IF forward = "send" THEN <<held>> ELSE <<>>
Delivered == passed \o InTransit \o upstream

Like(e, f) ==
  /\ e.is = f.is
  /\ e.is = "usage" => e.tokens = f.tokens
  /\ e.is \in {"text", "thinking"} =>
       Len(e.body) = Len(f.body) /\ \A i \in DOMAIN e.body : e.body[i] \in {f.body[i], "?"}

(* Between the wire and the caller nothing is lost, doubled or reordered,  *)
(* whatever the chunks and however full the channels; a stream has one     *)
(* terminal event, its last, and every other event is a line of the server *)
(* with the usage as that line left it.                                    *)
DeliveredInOrder ==
  /\ \A i \in DOMAIN Delivered : Terminal(Delivered[i]) => i = Len(Delivered)
  /\ \A i \in DOMAIN Delivered :
       Like(Delivered[i], IF i <= Len(Said) THEN Said[i] ELSE Delivered[i])
  /\ Len(Delivered) - Len(Said) \in
       IF decoder = "over" /\ (Said = <<>> \/ ~ Terminal(Last(Said))) THEN {1} ELSE {0}
  /\ open => got \o channel = passed

(* What is stored is what the caller was sent, judged as a whole: the text *)
(* of all deltas up to the terminal event and the last usage, also when    *)
(* the caller left in the middle.                                          *)
TextOf(es)   == FlattenSeq([i \in DOMAIN es |-> IF es[i].is = "text" THEN es[i].body ELSE <<>>])
TokensOf(es) == Latest([i \in {k \in DOMAIN es : es[k].is = "usage"} |-> es[i].tokens])

StoredIsForwarded ==
  \A s \in stored :
    /\ s.text = Judged(TextOf(passed), s.verdict)
    /\ s.tokens = TokensOf(passed)
    /\ Terminal(Last(passed))

(* Every stream that is connected is settled: both tasks end, and the      *)
(* exchange reaches memory (or its failure the log), although connections  *)
(* break and callers leave.                                                *)
StreamSettles == forward = "recv" ~> (forward = "over" /\ decoder = "over")

=============================================================================
