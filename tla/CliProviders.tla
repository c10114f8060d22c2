---------------------------- MODULE CliProviders ----------------------------
(***************************************************************************)
(* The two providers that run a command-line agent as a subprocess:        *)
(* ClaudeCodeProvider and OpenCodeProvider of kernex-providers, with the    *)
(* session a host keeps between calls (kernex-memory/store/sessions.rs).   *)
(*                                                                         *)
(* A call writes the declared MCP servers to a temporary file, runs the    *)
(* CLI under a timeout and, when the CLI stopped at its turn limit, resumes *)
(* the session a bounded number of times.  Nothing kills a CLI whose        *)
(* timeout expired or whose caller went away (no kill_on_drop), so it runs *)
(* on beside the call that replaced it: a run is a process of its own.     *)
(*                                                                         *)
(* The CLI itself is external: a run ends when it likes, with an answer,   *)
(* at the turn limit, with a session identifier that may be the one it was *)
(* given or a new one, or with a failure, or it never ends.                *)
(***************************************************************************)
EXTENDS Integers, Sequences, FiniteSets

CONSTANTS
  Calls,        \* concurrent calls of complete for one sender
  Requests,     \* per call, what it may ask: [provider, fixed, agent, servers]
  MaxAttempts,  \* max_resume_attempts
  MaxTries,     \* names tried for the temporary file (8 in the code)
  Leftovers,    \* names in the temporary directory taken before we start
  MaxSessions,  \* bound: session identifiers the CLI hands out
  MaxMishaps,   \* bound: callers that go away, files not written or not removed
  NoSession     \* "no session identifier"

ASSUME CliAssumption ==
  /\ MaxAttempts \in Nat /\ MaxTries \in Nat \ {0}
  /\ MaxSessions \in Nat /\ MaxMishaps \in Nat /\ Leftovers \subseteq Nat

NoFile == 0 - 1
Sessions == 1..MaxSessions

VARIABLES
  call,     \* per call: where it stands and what it has gathered
  run,      \* per <<call, number>>: the CLI process started by that call
  session,  \* per session identifier: the runs whose work it holds
  issued,   \* session identifiers handed out so far
  files,    \* the temporary directory: name -> the call whose servers it lists
  nextName, \* MCP_CONFIG_SEQ
  row,      \* the row of project_sessions for this sender
  mishaps

vars == <<call, run, session, issued, files, nextName, row, mishaps>>

Runs == Calls \X (1..(MaxAttempts + 1))

(* Every call may resume; number 1 is the first run of a call.  refused    *)
(* remembers that the file system would not fill or remove the call's file. *)
Idle == [at |-> "idle", asks |-> [provider |-> "none", fixed |-> TRUE], file |-> NoFile,
         tries |-> 0, n |-> 0, given |-> NoSession, resume |-> NoSession,
         first |-> NoSession, text |-> <<>>, out |-> "none", refused |-> FALSE]

Init ==
  /\ call = [c \in Calls |-> Idle]
  /\ run = [r \in Runs |-> [state |-> "none"]]
  /\ session = [s \in Sessions |-> {}]
  /\ issued = 0
  /\ files = [f \in Leftovers |-> "someone"]
  /\ nextName = 0
  /\ row = NoSession
  /\ mishaps = 0

Resumes(c) == call[c].asks.provider = "claude" /\ ~call[c].asks.fixed

-----------------------------------------------------------------------------
(* What the CLI is told.  Claude's agent mode uses no session.  Models,    *)
(* prompts and tool lists are left out: no property tells them apart.      *)

RunArgs(c) ==
  LET q == call[c].asks IN
  [ session |-> IF q.agent /\ q.provider = "claude" THEN NoSession ELSE call[c].given,
    file    |-> call[c].file ]

ResumeArgs(c) ==
  [ session |-> call[c].resume, file |-> call[c].file ]

-----------------------------------------------------------------------------
(* A call.                                                                 *)

(* complete: the context carries the session the host looked up.           *)
Begin(c) ==
  /\ call[c].at = "idle"
  /\ \E q \in Requests[c] :
       call' = [call EXCEPT ![c] =
         [Idle EXCEPT !.at = IF q.servers /\ q.provider = "claude" THEN "config" ELSE "start",
                      !.asks = q, !.given = row]]
  /\ UNCHANGED <<run, session, issued, files, nextName, row, mishaps>>

(* write_mcp_config_tempfile: a name is taken from the counter and created *)
(* exclusively; a taken name costs a try, too many tries leave the call     *)
(* without a file and it goes on.                                          *)
TakeNameOverwrites(c) == \* mutant: created without create_new
  /\ call[c].at = "config"
  /\ nextName' = nextName + 1
  /\ files' = [f \in DOMAIN files \union {nextName} |->
                 IF f = nextName THEN c ELSE files[f]]
  /\ call' = [call EXCEPT ![c].file = nextName, ![c].at = "start"]
  /\ UNCHANGED <<run, session, issued, row, mishaps>>

TakeName(c) ==
  /\ call[c].at = "config"
  /\ nextName' = nextName + 1
  /\ IF nextName \in DOMAIN files
     THEN /\ call' = [call EXCEPT ![c].tries = @ + 1,
                        ![c].at = IF call[c].tries + 1 = MaxTries THEN "start" ELSE "config"]
          /\ UNCHANGED files
     ELSE /\ files' = [f \in DOMAIN files \union {nextName} |->
                         IF f = nextName THEN c ELSE files[f]]
          /\ call' = [call EXCEPT ![c].file = nextName, ![c].at = "start"]
  /\ UNCHANGED <<run, session, issued, row, mishaps>>

(* The file cannot be created, or it cannot be filled and stays behind; the *)
(* call goes on without one.                                               *)
WriteFails(c) ==
  /\ call[c].at = "config" /\ mishaps < MaxMishaps
  /\ nextName \notin DOMAIN files
  /\ nextName' = nextName + 1
  /\ mishaps' = mishaps + 1
  /\ \/ UNCHANGED files
     \/ files' = [f \in DOMAIN files \union {nextName} |->
                   IF f = nextName THEN c ELSE files[f]]
  /\ call' = [call EXCEPT ![c].at = "start", ![c].refused = TRUE]
  /\ UNCHANGED <<run, session, issued, row>>

Start(c, args) ==
  /\ call' = [call EXCEPT ![c].at = "wait", ![c].n = @ + 1]
  /\ run' = [run EXCEPT ![<<c, call[c].n + 1>>] = [state |-> "runs", args |-> args]]

FirstRun(c) ==
  /\ call[c].at = "start"
  /\ Start(c, RunArgs(c))
  /\ UNCHANGED <<session, issued, files, nextName, row, mishaps>>

(* The backoff is over: the next resume starts.                            *)
Resume(c) ==
  /\ call[c].at = "backoff"
  /\ Start(c, ResumeArgs(c))
  /\ UNCHANGED <<session, issued, files, nextName, row, mishaps>>

(* What a run that cannot be used makes of the call: the first one fails   *)
(* it, a resume is tried again while attempts are left and otherwise the   *)
(* call answers with what it has.                                          *)
FailedAtOnce(c, n) == \* mutant: the error returns by ? before the clean-up
  IF n = 1 THEN [call[c] EXCEPT !.n = n, !.at = "done", !.out = "error"]
  ELSE [call[c] EXCEPT !.n = n, !.at = IF n <= MaxAttempts THEN "backoff" ELSE "clean"]

Failed(c, n) ==
  IF n = 1 THEN [call[c] EXCEPT !.n = n, !.at = "clean", !.out = "error"]
  ELSE [call[c] EXCEPT !.n = n, !.at = IF n <= MaxAttempts THEN "backoff" ELSE "clean"]

(* The command cannot be built (enforcement required) or spawned.          *)
RunRefused(c) ==
  /\ call[c].at \in {"start", "backoff"}
  /\ call' = [call EXCEPT ![c] = Failed(c, call[c].n + 1)]
  /\ UNCHANGED <<run, session, issued, files, nextName, row, mishaps>>

(* tokio::time::timeout expires: the call stops waiting, the run goes on.  *)
TimeOut(c) ==
  /\ call[c].at = "wait"
  /\ run[<<c, call[c].n>>].state = "runs"
  /\ call' = [call EXCEPT ![c] = Failed(c, call[c].n)]
  /\ UNCHANGED <<run, session, issued, files, nextName, row, mishaps>>

(* A usable first reply: its session is the one the call will report, and  *)
(* a reply at the turn limit is resumed where it says, if it says.         *)
FirstReply(c, r) ==
  [call[c] EXCEPT !.text = <<<<c, 1>>>>, !.out = "ok", !.first = r.session,
     !.resume = r.session,
     !.at = IF Resumes(c) /\ r.is = "limit" /\ r.session # NoSession /\ MaxAttempts > 0
            THEN "backoff" ELSE "clean"]

(* auto_resume: the reply is appended; another one follows only from the   *)
(* session this reply names.                                               *)
NextReplyKeepsFirst(c, r) == \* mutant: every resume goes to the first session
  LET more == r.is = "limit" /\ r.session # NoSession IN
  [call[c] EXCEPT !.text = Append(@, <<c, call[c].n>>),
     !.at = IF more /\ call[c].n <= MaxAttempts THEN "backoff" ELSE "clean"]

NextReply(c, r) ==
  LET more == r.is = "limit" /\ r.session # NoSession IN
  [call[c] EXCEPT !.text = Append(@, <<c, call[c].n>>),
     !.resume = IF more THEN r.session ELSE @,
     !.at = IF more /\ call[c].n <= MaxAttempts THEN "backoff" ELSE "clean"]

(* The CLI has exited and its output is read.  OpenCode answers without    *)
(* text are errors, Claude's become a fixed sentence.                      *)
Collect(c) ==
  LET r == run[<<c, call[c].n>>] IN
  /\ call[c].at = "wait"
  /\ r.state = "exited"
  /\ call' = [call EXCEPT ![c] =
       IF r.is = "failed" \/ (r.is = "empty" /\ call[c].asks.provider = "opencode")
       THEN Failed(c, call[c].n)
       ELSE IF call[c].n = 1 THEN FirstReply(c, r) ELSE NextReply(c, r)]
  /\ UNCHANGED <<run, session, issued, files, nextName, row, mishaps>>

(* cleanup_mcp_config, on the way out of complete whatever the outcome.    *)
CleanUp(c) ==
  /\ call[c].at = "clean"
  /\ call' = [call EXCEPT ![c].at = "done"]
  /\ files' = [f \in DOMAIN files \ {call[c].file} |-> files[f]]
  /\ UNCHANGED <<run, session, issued, nextName, row, mishaps>>

(* remove_file is refused: a warning, and the file stays.                  *)
CleanUpFails(c) ==
  /\ call[c].at = "clean" /\ mishaps < MaxMishaps
  /\ call[c].file \in DOMAIN files
  /\ call' = [call EXCEPT ![c].at = "done", ![c].refused = TRUE]
  /\ mishaps' = mishaps + 1
  /\ UNCHANGED <<run, session, issued, files, nextName, row>>

(* The caller drops the future: nothing below runs any more.               *)
Drop(c) ==
  /\ mishaps < MaxMishaps
  /\ call[c].at \in {"config", "start", "wait", "backoff"}
  /\ call' = [call EXCEPT ![c].at = "gone"]
  /\ mishaps' = mishaps + 1
  /\ UNCHANGED <<run, session, issued, files, nextName, row>>

(* The host keeps the reported session for the sender's next call.         *)
StoreSession(c) ==
  /\ call[c].at = "done"
  /\ call' = [call EXCEPT ![c].at = "stored"]
  /\ row' = IF call[c].out = "ok" /\ call[c].first # NoSession THEN call[c].first ELSE row
  /\ UNCHANGED <<run, session, issued, files, nextName, mishaps>>

ClearSession ==
  /\ row # NoSession
  /\ \A c \in Calls : call[c].at \in {"idle", "stored"}
  /\ row' = NoSession
  /\ UNCHANGED <<call, run, session, issued, files, nextName, mishaps>>

-----------------------------------------------------------------------------
(* The command-line agent.                                                 *)

(* It works in the session it was given or in a copy under a new name.     *)
Exit(r) ==
  LET given == run[r].args.session
      fresh == issued + 1
      ends(is, s) == run' = [run EXCEPT ![r] =
        [state |-> "exited", args |-> @.args, is |-> is, session |-> s]]
  IN
  /\ run[r].state = "runs"
  /\ \/ \E is \in {"answer", "limit"} :
          \/ /\ given # NoSession
             /\ ends(is, given)
             /\ session' = [session EXCEPT ![given] = @ \union {r}]
             /\ UNCHANGED issued
          \/ /\ fresh \in Sessions
             /\ ends(is, fresh)
             /\ session' = [session EXCEPT ![fresh] =
                  {r} \union IF given = NoSession THEN {} ELSE session[given]]
             /\ issued' = fresh
     \/ /\ \E is \in {"failed", "empty", "limit"} : ends(is, NoSession)
        /\ UNCHANGED <<session, issued>>
  /\ UNCHANGED <<call, files, nextName, row, mishaps>>

CallStep(c) ==
  TakeName(c) \/ FirstRun(c) \/ Resume(c) \/ TimeOut(c) \/ Collect(c) \/ CleanUp(c)

Next ==
  \/ \E c \in Calls : Begin(c) \/ CallStep(c) \/ RunRefused(c) \/ Drop(c) \/ StoreSession(c)
  \/ \E c \in Calls : WriteFails(c) \/ CleanUpFails(c)
  \/ \E r \in Runs : Exit(r)
  \/ ClearSession

Spec == Init /\ [][Next]_vars

(* The runtime polls a call until it returns and its timers fire; a CLI    *)
(* may run for ever.                                                       *)
FairSpec == Spec /\ \A c \in Calls : WF_vars(CallStep(c))

-----------------------------------------------------------------------------
(* A run that its call waits for finds the file it was told to read, with  *)
(* the servers of its own call in it, through every resume; and a file     *)
(* somebody else left in the directory is never written or removed.        *)
ConfigFileKept ==
  /\ \A c \in Calls :
       LET f == run[<<c, call[c].n>>].args.file IN
       call[c].at = "wait" /\ f # NoFile => f \in DOMAIN files /\ files[f] = c
  /\ \A f \in Leftovers : f \in DOMAIN files /\ files[f] = "someone"

(* A resume continues from all the work the call has collected: every part *)
(* of the text gathered so far is in the session about to be resumed.      *)
ResumesWhereItStopped ==
  \A c \in Calls : call[c].at = "backoff" =>
    \A i \in DOMAIN call[c].text : call[c].text[i] \in session[call[c].resume]

(* Every call returns or is dropped, however the CLI behaves.  One that    *)
(* returns leaves no file of its own in the directory, after a half-made   *)
(* one, a failed first run or a failed resume as after a success, unless   *)
(* the file system itself would not fill or remove it: those stay, with    *)
(* the servers' environment in them, and only a warning says so.           *)
CallEnds ==
  \A c \in Calls : call[c].at # "idle" ~>
    \/ call[c].at = "gone"
    \/ /\ call[c].at \in {"done", "stored"}
       /\ (\E f \in DOMAIN files : files[f] = c) => call[c].refused

=============================================================================
