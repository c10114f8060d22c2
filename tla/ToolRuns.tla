------------------------------- MODULE ToolRuns -------------------------------
(***************************************************************************)
(* The tools of ToolExecutor (kernex-providers/src/tools.rs) at work on    *)
(* one workspace: what a call does between dispatch and its result, to     *)
(* child processes and to a file, when several sessions share the          *)
(* workspace and a session may be dropped at any await.                    *)
(*                                                                         *)
(* The file is a sequence of tokens: Old is the text that edits look for,  *)
(* any other token is the number of the call that wrote it.  A command, a  *)
(* script and a disk behave as they like (external).                       *)
(***************************************************************************)
EXTENDS Naturals, Sequences, FiniteSets

CONSTANTS
  Sessions,    \* executors on the workspace
  Tools,       \* bound: per session, the tools it calls
  Patterns,    \* what glob is asked for: [deep, ext]
  Base,        \* the directory glob searches, as find prints it
  Tree,        \* what is in it: [dir, ext]
  PipeCap,     \* capacity of a pipe
  ArgSize,     \* size of a toolbox's arguments as JSON
  MaxSaid,     \* bound: writes of one process to its stdout
  MaxCalls     \* bound: calls

Commands == {"bash", "toolbox", "grep", "glob"}

ASSUME RunConstantsOK ==
  /\ PipeCap \in Nat \ {0} /\ ArgSize \in Nat \ {0} /\ Base # <<>>
  /\ \A s \in Sessions : Tools[s] \subseteq Commands \cup {"read", "edit", "write", "web_fetch"}

VARIABLES
  call,   \* per session: its call, where it is and how it ended
  child,  \* per session: the process of its call
  heirs,  \* calls whose process has left one of its own holding its stdout
  jobs,   \* tokio::fs::write calls under way: blocking threads, not futures
  file,   \* the file
  made,   \* history: calls made, for numbers and the bound
  found,  \* history: the file as each call found it
  alone   \* history: nobody else has changed the file since

vars == <<call, child, heirs, jobs, file, made, found, alone>>

Old == 0

NoCall  == [id |-> 0, tool |-> "read", at |-> "idle", left |-> 0, got |-> 0,
            out |-> "none", torn |-> FALSE, asked |-> [deep |-> FALSE, ext |-> ""], hits |-> {}]
NoChild == [live |-> FALSE, stdin |-> 0, stdout |-> 0, said |-> 0, code |-> "none", wrote |-> FALSE]

Init ==
  /\ call  = [s \in Sessions |-> NoCall]
  /\ child = [s \in Sessions |-> NoChild]
  /\ heirs = {} /\ jobs = {}
  /\ file = <<Old, Old>>
  /\ made = 0
  /\ found = [s \in Sessions |-> file] /\ alone = [s \in Sessions |-> FALSE]

At(s, stage) == call[s].at = stage
Running(s)   == call[s].at \notin {"idle", "done"}

(* A change of the file by the call of this number.                        *)
Changes(id, new) ==
  /\ file' = new
  /\ alone' = [s \in Sessions |-> alone[s] /\ call[s].id = id]

Returns(s, out) == call' = [call EXCEPT ![s].at = "done", ![s].out = out]

-----------------------------------------------------------------------------
(* A call is dispatched by its tool.                                       *)

FirstStage(t) ==
  CASE t \in Commands -> "spawn" [] t \in {"read", "edit"} -> "load"
    [] t = "write" -> "open" [] t = "web_fetch" -> "fetch"

Start(s, t) ==
  /\ ~ Running(s)
  /\ made < MaxCalls
  /\ made' = made + 1
  /\ \E p \in IF t = "glob" THEN Patterns ELSE {NoCall.asked} :
       call' = [call EXCEPT ![s] =
         [NoCall EXCEPT !.id = made + 1, !.tool = t, !.at = FirstStage(t), !.asked = p]]
  /\ child' = [child EXCEPT ![s] = NoChild]
  /\ found' = [found EXCEPT ![s] = file]
  /\ alone' = [alone EXCEPT ![s] = TRUE]
  /\ UNCHANGED <<heirs, jobs, file>>

(* Parameters, the sandbox and the blocked paths may refuse any call, the  *)
(* allow-list a toolbox, and a spawn or a read may fail.                   *)
Refused(s) == Returns(s, "error") /\ UNCHANGED <<child, jobs>>

(* exec_web_fetch checks every address the host resolves to and connects   *)
(* to one of those; its client has a timeout, and it leaves nothing behind.*)
Fetch(s) ==
  /\ At(s, "fetch")
  /\ \/ Refused(s)
     \/ \E out \in {"ok", "error"} : Returns(s, out) /\ UNCHANGED <<child, jobs>>
  /\ UNCHANGED <<heirs, file, made, found, alone>>

-----------------------------------------------------------------------------
(* Commands.  A toolbox is given its arguments on stdin, and the timeout   *)
(* starts when they are written; the others start waiting at once.         *)

Spawned(s, stage, size) ==
  /\ child' = [child EXCEPT ![s].live = TRUE]
  /\ call' = [call EXCEPT ![s].at = stage, ![s].left = size]
  /\ UNCHANGED jobs

Spawn(s, tool, stage, size) ==
  /\ At(s, "spawn") /\ call[s].tool = tool
  /\ Refused(s) \/ Spawned(s, stage, size)
  /\ UNCHANGED <<heirs, file, made, found, alone>>

Bash(s)    == Spawn(s, "bash", "wait", 0)
Toolbox(s) == Spawn(s, "toolbox", "stdin", ArgSize)
Grep(s)    == Spawn(s, "grep", "wait", 0)
Glob(s)    == Spawn(s, "glob", "wait", 0)

(* A write to a process that has gone fails, or goes to an heir of it:     *)
(* whichever, it is ignored.                                               *)
WriteArgs(s) ==
  /\ At(s, "stdin")
  /\ \/ /\ child[s].live /\ child[s].stdin < PipeCap
        /\ child' = [child EXCEPT ![s].stdin = @ + 1]
        /\ call' = [call EXCEPT ![s].left = @ - 1, ![s].at = IF call[s].left = 1 THEN "wait" ELSE @]
     \/ /\ ~ child[s].live
        /\ call' = [call EXCEPT ![s].at = "wait"]
        /\ UNCHANGED child
  /\ UNCHANGED <<heirs, jobs, file, made, found, alone>>

Collect(s) ==
  /\ At(s, "wait") /\ child[s].stdout > 0
  /\ child' = [child EXCEPT ![s].stdout = @ - 1]
  /\ call' = [call EXCEPT ![s].got = @ + 1]
  /\ UNCHANGED <<heirs, jobs, file, made, found, alone>>

(* find prints paths that begin with the directory it was given, so that   *)
(* -path "./..." is compared with that.                                    *)
Hits(p) ==
  {f \in Tree : f.ext = p.ext /\ (p.deep => Head(Base) = "." /\ f.dir # <<>>)}

(* The results that a process's end may be given.  grep takes a failure    *)
(* that printed nothing, not even to stderr, for no match; glob takes any  *)
(* failure for it.                                                         *)
JudgedByExit(code) == {code}
JudgedGrep(code, got) == IF code = "error" /\ got = 0 THEN {"ok", "error"} ELSE {"ok"}
JudgedGlob == {"ok"}

Judged(t, code, got) ==
  CASE t \in {"bash", "toolbox"} -> JudgedByExit(code)
    [] t = "grep" -> JudgedGrep(code, got)
    [] t = "glob" -> JudgedGlob

(* output() and wait_with_output() end when the process has ended and its  *)
(* stdout is at its end, hence when no heir holds it.                      *)
FinishOnExit(s) == \* mutant: wait() first, the pipe is not read to its end
  /\ At(s, "wait")
  /\ ~ child[s].live
  /\ \E out \in Judged(call[s].tool, child[s].code, call[s].got) :
       call' = [call EXCEPT ![s].at = "done", ![s].out = out,
                  ![s].hits = IF call[s].tool = "glob" /\ child[s].code = "ok"
                              THEN Hits(call[s].asked) ELSE {}]
  /\ UNCHANGED <<child, heirs, jobs, file, made, found, alone>>

Finish(s) ==
  /\ At(s, "wait")
  /\ ~ child[s].live /\ call[s].id \notin heirs /\ child[s].stdout = 0
  /\ \E out \in Judged(call[s].tool, child[s].code, call[s].got) :
       call' = [call EXCEPT ![s].at = "done", ![s].out = out,
                  ![s].hits = IF call[s].tool = "glob" /\ child[s].code = "ok"
                              THEN Hits(call[s].asked) ELSE {}]
  /\ UNCHANGED <<child, heirs, jobs, file, made, found, alone>>

(* A process ends, by itself or killed.  What a shell or a script has      *)
(* started goes on, with its stdout.                                       *)
Forking == {"bash", "toolbox"}

Dies(s, code) ==
  /\ child' = [child EXCEPT ![s].live = FALSE, ![s].code = code]
  /\ heirs' \in {heirs} \cup IF call[s].tool \in Forking THEN {heirs \cup {call[s].id}} ELSE {}

(* kill_on_drop kills the process that was spawned, and no other.          *)
Kill(s) == IF child[s].live THEN Dies(s, "killed") ELSE UNCHANGED <<child, heirs>>

ExpireWhenQuiet(s) == \* mutant: the timeout is for each read, not for the whole
  /\ At(s, "wait") /\ child[s].said = 0
  /\ Returns(s, "timeout")
  /\ Kill(s)
  /\ UNCHANGED <<jobs, file, made, found, alone>>

Expire(s) ==
  /\ At(s, "wait")
  /\ Returns(s, "timeout")
  /\ Kill(s)
  /\ UNCHANGED <<jobs, file, made, found, alone>>

-----------------------------------------------------------------------------
(* Files.                                                                  *)

Replace(text, id) ==
  [i \in DOMAIN text |->
     IF text[i] = Old /\ \A j \in 1..(i - 1) : text[j] # Old THEN id ELSE text[i]]

Occurs(text) == \E i \in DOMAIN text : text[i] = Old

Submit(s, text) ==
  /\ jobs' = jobs \cup {[by |-> call[s].id, text |-> text, opened |-> FALSE]}
  /\ call' = [call EXCEPT ![s].at = "write"]

Read(s) ==
  /\ At(s, "load") /\ call[s].tool = "read"
  /\ Refused(s) \/ (Returns(s, "ok") /\ UNCHANGED <<child, jobs>>)
  /\ UNCHANGED <<heirs, file, made, found, alone>>

Edit(s) ==
  /\ At(s, "load") /\ call[s].tool = "edit"
  /\ \/ Refused(s)
     \/ Occurs(file) /\ Submit(s, Replace(file, call[s].id)) /\ UNCHANGED child
  /\ UNCHANGED <<heirs, file, made, found, alone>>

Write(s) ==
  /\ At(s, "open")
  /\ Refused(s) \/ (Submit(s, <<call[s].id, Old>>) /\ UNCHANGED child)
  /\ UNCHANGED <<heirs, file, made, found, alone>>

(* A write truncates and then fills; whoever waits for it is told.         *)
Answers(j, out) == call' = [s \in Sessions |->
  IF At(s, "write") /\ call[s].id = j.by
  THEN [call[s] EXCEPT !.at = "done", !.out = out, !.torn = (out = "error" /\ j.opened)]
  ELSE call[s]]

Truncate(j) ==
  /\ ~ j.opened
  /\ Changes(j.by, <<>>)
  /\ jobs' = (jobs \ {j}) \cup {[j EXCEPT !.opened = TRUE]}
  /\ UNCHANGED <<call, child, heirs, made, found>>

(* Two descriptors write from the start of the file, each over the other.  *)
Fill(j) ==
  /\ j.opened
  /\ Changes(j.by, j.text \o SubSeq(file, Len(j.text) + 1, Len(file)))
  /\ jobs' = jobs \ {j}
  /\ Answers(j, "ok")
  /\ UNCHANGED <<child, heirs, made, found>>

DiskFails(j) ==
  /\ jobs' = jobs \ {j}
  /\ Answers(j, "error")
  /\ UNCHANGED <<child, heirs, file, made, found, alone>>

-----------------------------------------------------------------------------
(* The session's future is dropped: what it waited for is not told, its    *)
(* process is killed, a write under way goes on.                           *)
LeaveRunning(s) == \* mutant: the process is not killed with the handle
  /\ Running(s)
  /\ call' = [call EXCEPT ![s].at = "idle"]
  /\ UNCHANGED <<child, heirs, jobs, file, made, found, alone>>

Leave(s) ==
  /\ Running(s)
  /\ call' = [call EXCEPT ![s].at = "idle"]
  /\ Kill(s)
  /\ UNCHANGED <<jobs, file, made, found, alone>>

-----------------------------------------------------------------------------
(* Processes (external).                                                   *)

ChildReads(s) ==
  /\ child[s].live /\ child[s].stdin > 0
  /\ child' = [child EXCEPT ![s].stdin = @ - 1]
  /\ UNCHANGED <<call, heirs, jobs, file, made, found, alone>>

ChildPrints(s) ==
  /\ child[s].live \/ (Running(s) /\ call[s].id \in heirs)
  /\ child[s].stdout < PipeCap /\ child[s].said < MaxSaid
  /\ child' = [child EXCEPT ![s].stdout = @ + 1, ![s].said = @ + 1]
  /\ UNCHANGED <<call, heirs, jobs, file, made, found, alone>>

ChildWrites(s) ==
  /\ child[s].live /\ ~ child[s].wrote /\ call[s].tool \in Forking
  /\ child' = [child EXCEPT ![s].wrote = TRUE]
  /\ Changes(call[s].id, Append(file, call[s].id))
  /\ UNCHANGED <<call, heirs, jobs, made, found>>

ChildExits(s) ==
  /\ child[s].live
  /\ \E code \in {"ok", "error"} : Dies(s, code)
  /\ UNCHANGED <<call, jobs, file, made, found, alone>>

HeirEnds(h) ==
  /\ heirs' = heirs \ {h}
  /\ \/ UNCHANGED <<file, alone>>
     \/ Changes(h, Append(file, h))
  /\ UNCHANGED <<call, child, jobs, made, found>>

-----------------------------------------------------------------------------
Works(s)   == \/ Bash(s) \/ Toolbox(s) \/ Grep(s) \/ Glob(s) \/ Read(s) \/ Edit(s) \/ Write(s) \/ Fetch(s)
              \/ WriteArgs(s) \/ Collect(s) \/ Finish(s)
Process(s) == ChildReads(s) \/ ChildPrints(s) \/ ChildWrites(s) \/ ChildExits(s)

Next ==
  \/ \E s \in Sessions :
       \/ \E t \in Tools[s] : Start(s, t)
       \/ Works(s) \/ Expire(s) \/ Leave(s) \/ Process(s)
  \/ \E j \in jobs : Truncate(j) \/ Fill(j) \/ DiskFails(j)
  \/ \E h \in heirs : HeirEnds(h)

Spec == Init /\ [][Next]_vars

(* The runtime polls its futures, timers fire, and the disk answers; a     *)
(* process need not do anything.                                           *)
FairSpec ==
  /\ Spec
  /\ \A s \in Sessions : WF_vars(Works(s)) /\ WF_vars(Expire(s))
  /\ WF_vars(\E j \in jobs : Truncate(j) \/ Fill(j) \/ DiskFails(j))

-----------------------------------------------------------------------------
(* A result says what happened.  A command's is its exit, with all it had  *)
(* printed; a file call that nobody else disturbed left exactly the text   *)
(* it was to leave, and one that failed left the file as it was, unless    *)
(* the disk failed after the truncation.  What glob lists is the subject   *)
(* of GlobFinds.                                                           *)
EditedOnce(before, after, id) == \E i \in DOMAIN before :
  before[i] = Old /\ (\A j \in 1..(i - 1) : before[j] # Old) /\ after = [before EXCEPT ![i] = id]

CommandIsTrue(s) ==
  call[s].tool \in Commands /\ call[s].out \in {"ok", "error"} /\ child[s].code # "none" =>
    /\ call[s].got = child[s].said
    /\ call[s].tool \in Forking => call[s].out = child[s].code
    /\ call[s].out = "error" => child[s].code = "error"

FileIsTrue(s) ==
  call[s].tool \in {"read", "write", "edit"} /\ alone[s] =>
    CASE call[s].out = "ok" /\ call[s].tool = "edit"  -> EditedOnce(found[s], file, call[s].id)
      [] call[s].out = "ok" /\ call[s].tool = "write" -> file = <<call[s].id, Old>>
      [] OTHER -> file = found[s] \/ call[s].torn

ResultIsTrue == \A s \in Sessions : At(s, "done") => CommandIsTrue(s) /\ FileIsTrue(s)

(* The process that a call spawned lives no longer than the call, however  *)
(* this ends: with a result, at its timeout, or dropped at any await.  Only *)
(* a shell or a script leaves others behind, one that was killed as well   *)
(* as one that exited; grep, glob and the file tools leave none.           *)
ChildrenFollowCalls ==
  \A s \in Sessions :
    /\ child[s].live => call[s].at \in {"stdin", "wait"}
    /\ call[s].id \in heirs => call[s].tool \in Forking /\ ~ child[s].live

(* What the description of glob tells the model: **/*.ext lists the files  *)
(* with that extension at every depth.  It does not hold: find is given an *)
(* absolute directory and compares its paths with ./**/*.ext.              *)
GlobFinds ==
  \A s \in Sessions :
    At(s, "done") /\ call[s].tool = "glob" /\ child[s].code = "ok" /\ call[s].asked.deep =>
      call[s].hits = {f \in Tree : f.ext = call[s].asked.ext}

(* Every call returns, whatever its process does or does not: it hangs, it *)
(* fills the pipe, it leaves an heir.  For a toolbox this needs arguments  *)
(* that fit the pipe: they are written before the timeout starts.          *)
CallReturns == \A s \in Sessions : Running(s) ~> ~ Running(s)

=============================================================================
