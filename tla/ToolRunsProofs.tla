---------------------------- MODULE ToolRunsProofs ----------------------------
(***************************************************************************)
(* Proofs about ToolRuns for every number of sessions and calls, every     *)
(* choice of tools and any size of pipes, arguments and output.            *)
(***************************************************************************)
EXTENDS ToolRuns, SequenceTheorems, WellFoundedInduction, TLAPS

ToolNames == Commands \cup {"read", "edit", "write", "web_fetch"}

Stages == {"idle", "done", "spawn", "stdin", "wait", "load", "open", "write", "fetch"}

Call ==
  [id : Nat, tool : ToolNames, at : Stages, left : Int, got : Nat,
   out : {"none", "ok", "error", "timeout"}, torn : BOOLEAN,
   asked : Patterns \cup {NoCall.asked}, hits : SUBSET Tree]

Child ==
  [live : BOOLEAN, stdin : Nat, stdout : Nat, said : Nat,
   code : {"none", "ok", "error", "killed"}, wrote : BOOLEAN]

Job == [by : Nat, text : Seq(Nat), opened : BOOLEAN]

TypeInv ==
  /\ call \in [Sessions -> Call]
  /\ child \in [Sessions -> Child]
  /\ heirs \subseteq 1..made
  /\ jobs \subseteq Job
  /\ file \in Seq(Nat)
  /\ made \in Nat
  /\ found \in [Sessions -> Seq(Nat)]
  /\ alone \in [Sessions -> BOOLEAN]

(* A call has a number of its own, and is where calls of its tool can be.  *)
StagesOf(t) ==
  {"idle", "done"} \cup
    (CASE t \in {"bash", "grep", "glob"} -> {"spawn", "wait"}
       [] t = "toolbox" -> {"spawn", "stdin", "wait"}
       [] t = "read" -> {"load"}
       [] t = "edit" -> {"load", "write"}
       [] t = "write" -> {"open", "write"}
       [] t = "web_fetch" -> {"fetch"})

CallsNumbered ==
  /\ \A s \in Sessions : call[s].id <= made
  /\ \A s \in Sessions : call[s].id = 0 => At(s, "idle")
  /\ \A s, r \in Sessions : call[s].id = call[r].id /\ call[s].id # 0 => s = r
  /\ \A s \in Sessions : call[s].at \in StagesOf(call[s].tool)

(* A process lives while its call waits for it; what it leaves behind is   *)
(* there when it has ended; all that it has printed has been collected or  *)
(* is in the pipe.                                                         *)
ChildInv ==
  \A s \in Sessions :
    /\ child[s].live => call[s].at \in {"stdin", "wait"} /\ child[s].code = "none"
    /\ call[s].at \in {"stdin", "wait"} => child[s].live \/ child[s].code \in {"ok", "error"}
    /\ At(s, "spawn") => child[s].code = "none"
    /\ call[s].id \in heirs => ~ child[s].live /\ ~ At(s, "spawn")
    /\ child[s].said = child[s].stdout + call[s].got

CommandsTrue == \A s \in Sessions : At(s, "done") => CommandIsTrue(s)

(* What a file call is about to write, or has written.                     *)
Wanted(s) ==
  IF call[s].tool = "edit" THEN Replace(found[s], call[s].id) ELSE <<call[s].id, Old>>

OwnersKnown ==
  /\ \A j \in jobs : j.by \in 1..made
  /\ \A j, k \in jobs : j.by = k.by => j = k
  /\ \A s \in Sessions, j \in jobs : j.by = call[s].id =>
       call[s].tool \in {"edit", "write"} /\ call[s].at \in {"write", "idle"}
  /\ \A s \in Sessions : At(s, "write") => \E j \in jobs : j.by = call[s].id
  /\ \A s \in Sessions : call[s].id \in heirs => call[s].tool \in Forking

JobsTrue ==
  \A s \in Sessions, j \in jobs : At(s, "write") /\ j.by = call[s].id /\ alone[s] =>
    /\ call[s].tool = "edit" => Occurs(found[s])
    /\ j.text = Wanted(s)
    /\ file = IF j.opened THEN <<>> ELSE found[s]

FilesTrue ==
  \A s \in Sessions : call[s].tool \in {"read", "write", "edit"} /\ alone[s] =>
    /\ call[s].at \in {"load", "open"} => file = found[s]
    /\ At(s, "done") => FileIsTrue(s)

IInv ==
  /\ TypeInv /\ CallsNumbered /\ ChildInv /\ CommandsTrue
  /\ OwnersKnown /\ JobsTrue /\ FilesTrue

-----------------------------------------------------------------------------
(* Type correctness.                                                       *)

LEMMA NothingTyped == NoCall \in Call /\ NoChild \in Child
  BY DEF NoCall, NoChild, Call, Child, ToolNames, Commands, Stages

(* A step of a session: its call keeps number and tool, the others' calls  *)
(* and processes stay as they are.                                         *)
Steps(s, c, d) ==
  /\ c \in Call /\ d \in Child
  /\ c.id = call[s].id /\ c.tool = call[s].tool
  /\ call' = [call EXCEPT ![s] = c] /\ child' = [child EXCEPT ![s] = d]
  /\ UNCHANGED <<made, found>>

Quiet == UNCHANGED <<heirs, jobs, file, alone>>

SameOutput(s, d) == d.said = child[s].said /\ d.stdout = child[s].stdout

(* The kinds of steps a session and its process take.                      *)
EndsEarly(s, c, d) ==
  /\ call[s].at \in {"spawn", "load", "open", "fetch"}
  /\ c.at = "done" /\ c.got = call[s].got /\ d = child[s] /\ Quiet
  /\ \/ c.out = "error"
     \/ c.out = "ok" /\ call[s].tool \in {"read", "web_fetch"}

IsSpawned(s, c, d) ==
  /\ At(s, "spawn") /\ call[s].tool \in Commands
  /\ c.at = (IF call[s].tool = "toolbox" THEN "stdin" ELSE "wait") /\ c.got = call[s].got
  /\ d.live /\ d.code = child[s].code /\ SameOutput(s, d) /\ Quiet

GoesOn(s, c, d) ==
  /\ Running(s)
  /\ c.at = call[s].at \/ (At(s, "stdin") /\ c.at = "wait")
  /\ d.live = child[s].live /\ d.code = child[s].code /\ Quiet
  /\ child[s].said = child[s].stdout + call[s].got => d.said = d.stdout + c.got

Appends(s, c, d) ==
  /\ child[s].live /\ c = call[s] /\ call[s].tool \in Forking
  /\ d.live /\ d.code = child[s].code /\ SameOutput(s, d)
  /\ Changes(call[s].id, Append(file, call[s].id))
  /\ UNCHANGED <<heirs, jobs>>

MayLeaveHeir(s) ==
  \/ heirs' = heirs
  \/ heirs' = heirs \cup {call[s].id} /\ call[s].tool \in Forking /\ child[s].live

Exits(s, c, d) ==
  /\ child[s].live /\ c = call[s]
  /\ ~ d.live /\ d.code \in {"ok", "error"} /\ SameOutput(s, d)
  /\ MayLeaveHeir(s)
  /\ UNCHANGED <<jobs, file, alone>>

Finishes(s, c, d) ==
  /\ At(s, "wait") /\ ~ child[s].live /\ child[s].stdout = 0 /\ d = child[s]
  /\ c.at = "done" /\ c.got = call[s].got /\ Quiet
  /\ c.out \in Judged(call[s].tool, child[s].code, call[s].got)

GivesUp(s, c, d) ==
  /\ Running(s) /\ c.got = call[s].got
  /\ ~ d.live /\ SameOutput(s, d) /\ MayLeaveHeir(s) /\ UNCHANGED <<jobs, file, alone>>
  /\ \/ c.at = "idle"
     \/ At(s, "wait") /\ c.at = "done" /\ c.out = "timeout"

Submits(s, c, d) ==
  /\ \/ /\ At(s, "load") /\ call[s].tool = "edit" /\ Occurs(file)
        /\ jobs' = jobs \cup {[by |-> call[s].id, text |-> Replace(file, call[s].id), opened |-> FALSE]}
     \/ /\ At(s, "open") /\ call[s].tool = "write"
        /\ jobs' = jobs \cup {[by |-> call[s].id, text |-> <<call[s].id, Old>>, opened |-> FALSE]}
  /\ c.at = "write" /\ c.got = call[s].got /\ d = child[s]
  /\ UNCHANGED <<heirs, file, alone>>

Kinds(s, c, d) ==
  \/ EndsEarly(s, c, d) \/ IsSpawned(s, c, d) \/ GoesOn(s, c, d) \/ Appends(s, c, d) \/ Exits(s, c, d)
  \/ Finishes(s, c, d) \/ GivesUp(s, c, d) \/ Submits(s, c, d)

LEMMA ReturnsTyped ==
  ASSUME TypeInv, NEW s \in Sessions, NEW out \in {"ok", "error", "timeout"}, Returns(s, out)
  PROVE  \E c \in Call :
           /\ call' = [call EXCEPT ![s] = c]
           /\ c.at = "done" /\ c.out = out /\ c.id = call[s].id /\ c.tool = call[s].tool
           /\ c.got = call[s].got /\ c.torn = call[s].torn
<1>0. call \in [Sessions -> Call] /\ call[s] \in Call
  BY DEF TypeInv
<1>1. PICK c : c = [call[s] EXCEPT !.at = "done", !.out = out]
  OBVIOUS
<1>2. call' = [call EXCEPT ![s] = c]
  BY <1>0, <1>1 DEF Returns
<1>3. c \in Call
  BY <1>0, <1>1 DEF Call, Stages
<1>. QED  BY <1>0, <1>1, <1>2, <1>3 DEF Call

LEMMA KillTyped ==
  ASSUME TypeInv, NEW s \in Sessions, Kill(s)
  PROVE  /\ \E d \in Child : child' = [child EXCEPT ![s] = d] /\ ~ d.live /\ SameOutput(s, d)
         /\ MayLeaveHeir(s)
<1>0. child \in [Sessions -> Child] /\ child[s] \in Child
  BY DEF TypeInv
<1>1. CASE child[s].live
  <2>1. Dies(s, "killed")
    BY <1>1 DEF Kill
  <2>2. PICK d : /\ d = [child[s] EXCEPT !.live = FALSE, !.code = "killed"]
                 /\ child' = [child EXCEPT ![s] = d]
    BY <1>0, <2>1 DEF Dies
  <2>3. d \in Child /\ ~ d.live /\ d.said = child[s].said /\ d.stdout = child[s].stdout
    BY <1>0, <2>2 DEF Child
  <2>4. MayLeaveHeir(s)
    BY <1>1, <2>1 DEF Dies, MayLeaveHeir
  <2>. QED  BY <2>2, <2>3, <2>4 DEF SameOutput
<1>2. CASE ~ child[s].live
  <2>1. UNCHANGED <<child, heirs>>
    BY <1>2 DEF Kill
  <2>2. child' = [child EXCEPT ![s] = child[s]]
    BY <1>0, <2>1
  <2>. QED  BY <1>0, <1>2, <2>1, <2>2 DEF SameOutput, MayLeaveHeir
<1>. QED  BY <1>1, <1>2

LEMMA StageTells ==
  ASSUME TypeInv, CallsNumbered, NEW s \in Sessions
  PROVE  /\ call[s].at \in {"spawn", "wait"} => call[s].tool \in Commands
         /\ At(s, "stdin") => call[s].tool = "toolbox"
         /\ At(s, "load") => call[s].tool \in {"read", "edit"}
         /\ At(s, "open") => call[s].tool = "write"
         /\ At(s, "write") => call[s].tool \in {"edit", "write"}
         /\ At(s, "fetch") => call[s].tool = "web_fetch"
<1>1. call[s].tool \in ToolNames /\ call[s].at \in StagesOf(call[s].tool)
  BY DEF TypeInv, Call, CallsNumbered
<1>2. /\ StagesOf("bash") = {"idle", "done", "spawn", "wait"}
      /\ StagesOf("grep") = {"idle", "done", "spawn", "wait"}
      /\ StagesOf("glob") = {"idle", "done", "spawn", "wait"}
      /\ StagesOf("toolbox") = {"idle", "done", "spawn", "stdin", "wait"}
  BY DEF StagesOf
<1>3. /\ StagesOf("read") = {"idle", "done", "load"}
      /\ StagesOf("edit") = {"idle", "done", "load", "write"}
      /\ StagesOf("write") = {"idle", "done", "open", "write"}
      /\ StagesOf("web_fetch") = {"idle", "done", "fetch"}
  BY DEF StagesOf
<1>4. CASE call[s].tool \in Commands
  BY <1>1, <1>2, <1>4 DEF Commands, At
<1>5. CASE call[s].tool \in {"read", "edit", "write", "web_fetch"}
  BY <1>1, <1>3, <1>5 DEF Commands, At
<1>. QED  BY <1>1, <1>4, <1>5 DEF ToolNames

LEMMA StepKinds ==
  ASSUME TypeInv, CallsNumbered, ChildInv, NEW s \in Sessions,
         Works(s) \/ Expire(s) \/ Leave(s) \/ Process(s)
  PROVE  \E c, d : Steps(s, c, d) /\ Kinds(s, c, d)
<1>. DEFINE Done == \E c, d : Steps(s, c, d) /\ Kinds(s, c, d)
<1>0. /\ call \in [Sessions -> Call] /\ child \in [Sessions -> Child]
      /\ call[s] \in Call /\ child[s] \in Child
  BY DEF TypeInv
<1>k. child' = child => child' = [child EXCEPT ![s] = child[s]]
  BY <1>0
<1>c. call' = call => call' = [call EXCEPT ![s] = call[s]]
  BY <1>0
<1>1. ASSUME call[s].at \in {"spawn", "load", "open", "fetch"},
             UNCHANGED <<child, heirs, jobs, file, made, found, alone>>,
             NEW out \in {"ok", "error"}, Returns(s, out),
             out = "error" \/ call[s].tool \in {"read", "web_fetch"}
      PROVE  Done
  <2>1. PICK c \in Call :
          /\ call' = [call EXCEPT ![s] = c]
          /\ c.at = "done" /\ c.out = out /\ c.id = call[s].id /\ c.tool = call[s].tool
          /\ c.got = call[s].got /\ c.torn = call[s].torn
    BY <1>1, ReturnsTyped
  <2>2. Steps(s, c, child[s])
    BY <1>0, <1>k, <1>1, <2>1 DEF Steps
  <2>3. EndsEarly(s, c, child[s])
    BY <1>1, <2>1 DEF EndsEarly, Quiet
  <2>. QED  BY <2>2, <2>3 DEF Kinds
<1>2. CASE Fetch(s)
  <2>1. /\ At(s, "fetch") /\ UNCHANGED <<child, heirs, jobs, file, made, found, alone>>
        /\ \E out \in {"ok", "error"} : Returns(s, out)
    BY <1>2 DEF Fetch, Refused
  <2>. QED  BY <1>1, <2>1, StageTells DEF At
<1>3. ASSUME NEW stage \in {"stdin", "wait"}, NEW size \in Int, At(s, "spawn"), call[s].tool \in Commands,
             stage = (IF call[s].tool = "toolbox" THEN "stdin" ELSE "wait"),
             Spawned(s, stage, size), UNCHANGED <<heirs, file, made, found, alone>>
      PROVE  Done
  <2>1. PICK c, d : /\ c = [call[s] EXCEPT !.at = stage, !.left = size]
                    /\ d = [child[s] EXCEPT !.live = TRUE]
    OBVIOUS
  <2>2. call' = [call EXCEPT ![s] = c] /\ child' = [child EXCEPT ![s] = d] /\ UNCHANGED jobs
    BY <1>0, <1>3, <2>1 DEF Spawned
  <2>3. c \in Call /\ c.id = call[s].id /\ c.tool = call[s].tool /\ c.at = stage /\ c.got = call[s].got
    BY <1>0, <2>1 DEF Call, Stages
  <2>4. /\ d \in Child /\ d.live /\ d.code = child[s].code
        /\ d.said = child[s].said /\ d.stdout = child[s].stdout
    BY <1>0, <2>1 DEF Child
  <2>5. Steps(s, c, d)
    BY <1>3, <2>2, <2>3, <2>4 DEF Steps
  <2>6. IsSpawned(s, c, d)
    BY <1>3, <2>2, <2>3, <2>4 DEF IsSpawned, Quiet, SameOutput
  <2>. QED  BY <2>5, <2>6 DEF Kinds
<1>4. CASE Bash(s) \/ Toolbox(s) \/ Grep(s) \/ Glob(s)
  <2>1. PICK stage, size :
          /\ stage = (IF call[s].tool = "toolbox" THEN "stdin" ELSE "wait")
          /\ size \in {0, ArgSize}
          /\ Spawn(s, call[s].tool, stage, size)
    BY <1>4 DEF Bash, Toolbox, Grep, Glob, Spawn
  <2>2. At(s, "spawn") /\ UNCHANGED <<heirs, file, made, found, alone>> /\ call[s].tool \in Commands
    BY <2>1, StageTells DEF Spawn, At
  <2>3. CASE Refused(s)
    BY <1>1, <2>2, <2>3 DEF Refused, At
  <2>4. CASE Spawned(s, stage, size)
    <3>1. size \in Int /\ stage \in {"stdin", "wait"}
      BY <2>1, RunConstantsOK
    <3>. QED  BY <1>3, <2>1, <2>2, <2>4, <3>1
  <2>. QED  BY <2>1, <2>3, <2>4 DEF Spawn
<1>5. ASSUME NEW c \in Call, NEW d \in Child, Running(s),
             call' = [call EXCEPT ![s] = c], child' = [child EXCEPT ![s] = d],
             UNCHANGED <<heirs, jobs, file, made, found, alone>>,
             c.id = call[s].id, c.tool = call[s].tool,
             c.at = call[s].at \/ (At(s, "stdin") /\ c.at = "wait"),
             d.live = child[s].live, d.code = child[s].code,
             child[s].said = child[s].stdout + call[s].got => d.said = d.stdout + c.got
      PROVE  Done
  <2>1. Steps(s, c, d)
    BY <1>5 DEF Steps
  <2>2. GoesOn(s, c, d)
    BY <1>5 DEF GoesOn, Quiet
  <2>. QED  BY <2>1, <2>2 DEF Kinds
<1>6. CASE WriteArgs(s)
  <2>0. At(s, "stdin") /\ Running(s) /\ UNCHANGED <<heirs, jobs, file, made, found, alone>>
    BY <1>6 DEF WriteArgs, At, Running
  <2>1. PICK left, stdin, c, d :
          /\ left \in {call[s].left, call[s].left - 1} /\ stdin \in {child[s].stdin, child[s].stdin + 1}
          /\ \E at \in {"stdin", "wait"} : c = [call[s] EXCEPT !.left = left, !.at = at]
          /\ d = [child[s] EXCEPT !.stdin = stdin]
          /\ call' = [call EXCEPT ![s] = c] /\ child' = [child EXCEPT ![s] = d]
    <3>1. CASE child[s].live
      <4>1. PICK at \in {"stdin", "wait"} :
              call' = [call EXCEPT ![s] = [call[s] EXCEPT !.left = call[s].left - 1, !.at = at]]
        BY <1>0, <1>6, <2>0, <3>1 DEF WriteArgs, At
      <4>2. child' = [child EXCEPT ![s] = [child[s] EXCEPT !.stdin = child[s].stdin + 1]]
        BY <1>0, <1>6, <3>1 DEF WriteArgs
      <4>. QED  BY <4>1, <4>2
    <3>2. CASE ~ child[s].live
      <4>1. call' = [call EXCEPT ![s] = [call[s] EXCEPT !.left = call[s].left, !.at = "wait"]]
        BY <1>0, <1>6, <3>2 DEF WriteArgs, Call
      <4>2. child' = [child EXCEPT ![s] = [child[s] EXCEPT !.stdin = child[s].stdin]]
        BY <1>0, <1>6, <3>2 DEF WriteArgs, Child
      <4>. QED  BY <4>1, <4>2
    <3>. QED  BY <3>1, <3>2
  <2>2. /\ c \in Call /\ c.id = call[s].id /\ c.tool = call[s].tool /\ c.got = call[s].got
        /\ c.at \in {"stdin", "wait"}
    <3>1. PICK at \in {"stdin", "wait"} : c = [call[s] EXCEPT !.left = left, !.at = at]
      BY <2>1
    <3>2. call[s].left \in Int
      BY <1>0 DEF Call
    <3>3. left \in Int
      BY <2>1, <3>2
    <3>. QED  BY <1>0, <3>1, <3>3 DEF Call, Stages
  <2>3. /\ d \in Child /\ d.live = child[s].live /\ d.code = child[s].code
        /\ d.said = child[s].said /\ d.stdout = child[s].stdout
    BY <1>0, <2>1 DEF Child
  <2>. QED  BY <1>5, <2>0, <2>1, <2>2, <2>3 DEF At
<1>7. CASE Collect(s)
  <2>1. PICK c, d :
          /\ c = [call[s] EXCEPT !.got = call[s].got + 1] /\ d = [child[s] EXCEPT !.stdout = child[s].stdout - 1]
          /\ call' = [call EXCEPT ![s] = c] /\ child' = [child EXCEPT ![s] = d]
    BY <1>0, <1>7 DEF Collect
  <2>2. /\ c \in Call /\ c.id = call[s].id /\ c.tool = call[s].tool /\ c.got = call[s].got + 1
        /\ c.at = call[s].at
    BY <1>0, <2>1 DEF Call
  <2>3. /\ d \in Child /\ d.live = child[s].live /\ d.code = child[s].code
        /\ d.said = child[s].said /\ d.stdout = child[s].stdout - 1
    BY <1>0, <1>7, <2>1 DEF Child, Collect
  <2>4. call[s].got \in Nat /\ child[s].said \in Nat /\ child[s].stdout \in Nat
    BY <1>0 DEF Call, Child
  <2>5. child[s].said = child[s].stdout + call[s].got => d.said = d.stdout + c.got
    BY <2>2, <2>3, <2>4
  <2>6. Running(s) /\ UNCHANGED <<heirs, jobs, file, made, found, alone>>
    BY <1>7 DEF Collect, At, Running
  <2>. QED  BY <1>5, <2>1, <2>2, <2>3, <2>5, <2>6
<1>8. CASE Finish(s)
  <2>1. PICK out, hits, c :
          /\ out \in Judged(call[s].tool, child[s].code, call[s].got)
          /\ hits = (IF call[s].tool = "glob" /\ child[s].code = "ok" THEN Hits(call[s].asked) ELSE {})
          /\ c = [call[s] EXCEPT !.at = "done", !.out = out, !.hits = hits]
          /\ call' = [call EXCEPT ![s] = c]
    BY <1>0, <1>8 DEF Finish
  <2>2. hits \in SUBSET Tree
    BY <2>1 DEF Hits
  <2>3. out \in {"ok", "error"}
    <3>1. child[s].code \in {"ok", "error"} /\ call[s].tool \in Commands
      BY <1>8, StageTells DEF Finish, ChildInv, At
    <3>. QED  BY <2>1, <3>1 DEF Judged, JudgedByExit, JudgedGrep, JudgedGlob, Commands
  <2>4. /\ c \in Call /\ c.id = call[s].id /\ c.tool = call[s].tool /\ c.got = call[s].got
        /\ c.at = "done" /\ c.out = out
    BY <1>0, <2>1, <2>2, <2>3 DEF Call, Stages
  <2>5. Steps(s, c, child[s])
    BY <1>0, <1>k, <1>8, <2>1, <2>4 DEF Steps, Finish
  <2>6. Finishes(s, c, child[s])
    BY <1>8, <2>1, <2>4 DEF Finish, Finishes, Quiet
  <2>. QED  BY <2>5, <2>6 DEF Kinds
<1>9. CASE Expire(s)
  <2>1. PICK c \in Call :
          /\ call' = [call EXCEPT ![s] = c]
          /\ c.at = "done" /\ c.out = "timeout" /\ c.id = call[s].id /\ c.tool = call[s].tool
          /\ c.got = call[s].got
    BY <1>9, ReturnsTyped DEF Expire
  <2>2. PICK d \in Child : child' = [child EXCEPT ![s] = d] /\ ~ d.live /\ SameOutput(s, d)
    BY <1>9, KillTyped DEF Expire
  <2>5. MayLeaveHeir(s)
    BY <1>9, KillTyped DEF Expire
  <2>3. Steps(s, c, d)
    BY <1>9, <2>1, <2>2 DEF Expire, Steps
  <2>4. GivesUp(s, c, d)
    BY <1>9, <2>1, <2>2, <2>5 DEF Expire, GivesUp, Running, At
  <2>. QED  BY <2>3, <2>4 DEF Kinds
<1>10. CASE Leave(s)
  <2>1. PICK c : c = [call[s] EXCEPT !.at = "idle"] /\ call' = [call EXCEPT ![s] = c]
    BY <1>0, <1>10 DEF Leave
  <2>2. c \in Call /\ c.at = "idle" /\ c.id = call[s].id /\ c.tool = call[s].tool /\ c.got = call[s].got
    BY <1>0, <2>1 DEF Call, Stages
  <2>3. PICK d \in Child : child' = [child EXCEPT ![s] = d] /\ ~ d.live /\ SameOutput(s, d)
    BY <1>10, KillTyped DEF Leave
  <2>6. MayLeaveHeir(s)
    BY <1>10, KillTyped DEF Leave
  <2>4. Steps(s, c, d)
    BY <1>10, <2>1, <2>2, <2>3 DEF Leave, Steps
  <2>5. GivesUp(s, c, d)
    BY <1>10, <2>2, <2>3, <2>6 DEF Leave, GivesUp
  <2>. QED  BY <2>4, <2>5 DEF Kinds
<1>11. CASE Read(s)
  <2>1. /\ At(s, "load") /\ call[s].tool = "read" /\ UNCHANGED <<child, heirs, jobs, file, made, found, alone>>
        /\ \E out \in {"ok", "error"} : Returns(s, out)
    BY <1>11 DEF Read, Refused
  <2>. QED  BY <1>1, <2>1 DEF At
<1>12. ASSUME NEW text, Submit(s, text), UNCHANGED <<child, heirs, file, made, found, alone>>,
              \/ At(s, "load") /\ call[s].tool = "edit" /\ Occurs(file) /\ text = Replace(file, call[s].id)
              \/ At(s, "open") /\ call[s].tool = "write" /\ text = <<call[s].id, Old>>
       PROVE  Done
  <2>1. PICK c : c = [call[s] EXCEPT !.at = "write"] /\ call' = [call EXCEPT ![s] = c]
    BY <1>0, <1>12 DEF Submit
  <2>2. c \in Call /\ c.at = "write" /\ c.id = call[s].id /\ c.tool = call[s].tool /\ c.got = call[s].got
    BY <1>0, <2>1 DEF Call, Stages
  <2>3. Steps(s, c, child[s])
    BY <1>0, <1>k, <1>12, <2>1, <2>2 DEF Steps
  <2>4. Submits(s, c, child[s])
    BY <1>12, <2>2 DEF Submits, Submit
  <2>. QED  BY <2>3, <2>4 DEF Kinds
<1>13. CASE Edit(s) \/ Write(s)
  <2>1. CASE Refused(s)
    <3>1. /\ call[s].at \in {"load", "open"} /\ Returns(s, "error")
          /\ UNCHANGED <<child, heirs, jobs, file, made, found, alone>>
      BY <1>13, <2>1 DEF Edit, Write, Refused, At
    <3>. QED  BY <1>1, <3>1
  <2>2. CASE ~ Refused(s)
    <3>1. /\ UNCHANGED <<child, heirs, file, made, found, alone>>
          /\ \/ /\ At(s, "load") /\ call[s].tool = "edit" /\ Occurs(file)
                /\ Submit(s, Replace(file, call[s].id))
             \/ At(s, "open") /\ Submit(s, <<call[s].id, Old>>)
      BY <1>13, <2>2 DEF Edit, Write
    <3>2. At(s, "open") => call[s].tool = "write"
      BY StageTells
    <3>. QED  BY <1>12, <3>1, <3>2
  <2>. QED  BY <2>1, <2>2
<1>14. CASE ChildReads(s) \/ ChildPrints(s)
  <2>1. PICK d : /\ \/ d = [child[s] EXCEPT !.stdin = child[s].stdin - 1] /\ child[s].stdin > 0
                    \/ d = [child[s] EXCEPT !.stdout = child[s].stdout + 1, !.said = child[s].said + 1]
                 /\ child' = [child EXCEPT ![s] = d]
    BY <1>0, <1>14 DEF ChildReads, ChildPrints
  <2>2. /\ d \in Child /\ d.live = child[s].live /\ d.code = child[s].code
        /\ \/ d.said = child[s].said /\ d.stdout = child[s].stdout
           \/ d.said = child[s].said + 1 /\ d.stdout = child[s].stdout + 1
    <3>1. CASE d = [child[s] EXCEPT !.stdin = child[s].stdin - 1] /\ child[s].stdin > 0
      <4>1. child[s].stdin - 1 \in Nat
        BY <1>0, <3>1 DEF Child
      <4>. QED  BY <1>0, <3>1, <4>1 DEF Child
    <3>2. CASE d = [child[s] EXCEPT !.stdout = child[s].stdout + 1, !.said = child[s].said + 1]
      <4>1. child[s].stdout + 1 \in Nat /\ child[s].said + 1 \in Nat
        BY <1>0 DEF Child
      <4>2. d.said = child[s].said + 1 /\ d.stdout = child[s].stdout + 1
        BY <1>0, <3>2 DEF Child
      <4>3. d \in Child /\ d.live = child[s].live /\ d.code = child[s].code
        BY <1>0, <3>2, <4>1 DEF Child
      <4>. QED  BY <4>2, <4>3
    <3>. QED  BY <2>1, <3>1, <3>2
  <2>3. call[s].got \in Nat /\ child[s].said \in Nat /\ child[s].stdout \in Nat
    BY <1>0 DEF Call, Child
  <2>4. child[s].said = child[s].stdout + call[s].got => d.said = d.stdout + call[s].got
    BY <2>2, <2>3
  <2>5. Running(s)
    BY <1>14 DEF ChildReads, ChildPrints, ChildInv, Running
  <2>. QED  BY <1>0, <1>c, <1>5, <1>14, <2>1, <2>2, <2>4, <2>5 DEF ChildReads, ChildPrints
<1>15. CASE ChildWrites(s)
  <2>1. PICK d : d = [child[s] EXCEPT !.wrote = TRUE] /\ child' = [child EXCEPT ![s] = d]
    BY <1>0, <1>15 DEF ChildWrites
  <2>2. /\ d \in Child /\ d.live = child[s].live /\ d.code = child[s].code
        /\ d.said = child[s].said /\ d.stdout = child[s].stdout
    BY <1>0, <2>1 DEF Child
  <2>3. Steps(s, call[s], d)
    BY <1>0, <1>c, <1>15, <2>1, <2>2 DEF Steps, ChildWrites
  <2>4. Appends(s, call[s], d)
    BY <1>15, <2>2 DEF Appends, ChildWrites, SameOutput
  <2>. QED  BY <2>3, <2>4 DEF Kinds
<1>16. CASE ChildExits(s)
  <2>0. PICK code \in {"ok", "error"} : child' = [child EXCEPT ![s].live = FALSE, ![s].code = code]
    BY <1>16 DEF ChildExits, Dies
  <2>1. PICK d : /\ d = [child[s] EXCEPT !.live = FALSE, !.code = code]
                 /\ child' = [child EXCEPT ![s] = d]
    BY <1>0, <2>0
  <2>2. /\ d \in Child /\ d.live = FALSE /\ d.code = code
        /\ d.said = child[s].said /\ d.stdout = child[s].stdout
    BY <1>0, <2>1 DEF Child
  <2>3. Steps(s, call[s], d)
    BY <1>0, <1>c, <1>16, <2>1, <2>2 DEF Steps, ChildExits
  <2>4. Exits(s, call[s], d)
    BY <1>16, <2>1, <2>2 DEF Exits, ChildExits, SameOutput, Dies, MayLeaveHeir
  <2>. QED  BY <2>3, <2>4 DEF Kinds
<1>. QED
  BY <1>2, <1>4, <1>6, <1>7, <1>8, <1>9, <1>10, <1>11, <1>13, <1>14, <1>15, <1>16 DEF Works, Process

-----------------------------------------------------------------------------
(* The steps of a session and its process.                                 *)

LEMMA StepsElsewhere ==
  ASSUME TypeInv, NEW s \in Sessions, NEW c, NEW d, Steps(s, c, d)
  PROVE  /\ call' \in [Sessions -> Call] /\ child' \in [Sessions -> Child]
         /\ call'[s] = c /\ child'[s] = d
         /\ \A r \in Sessions \ {s} : call'[r] = call[r] /\ child'[r] = child[r]
         /\ \A r \in Sessions : call'[r].id = call[r].id /\ call'[r].tool = call[r].tool
<1>0. call \in [Sessions -> Call] /\ child \in [Sessions -> Child]
  BY DEF TypeInv
<1>1. /\ call' \in [Sessions -> Call] /\ child' \in [Sessions -> Child]
      /\ call'[s] = c /\ child'[s] = d
      /\ \A r \in Sessions \ {s} : call'[r] = call[r] /\ child'[r] = child[r]
  BY <1>0 DEF Steps
<1>. QED  BY <1>1 DEF Steps

LEMMA ReplaceTyped ==
  ASSUME NEW text \in Seq(Nat), NEW id \in Nat
  PROVE  Replace(text, id) \in Seq(Nat) /\ DOMAIN Replace(text, id) = DOMAIN text
<1>1. DOMAIN text = 1..Len(text) /\ Len(text) \in Nat
  OBVIOUS
<1>2. \A i \in 1..Len(text) : Replace(text, id)[i] \in Nat
  BY <1>1 DEF Replace
<1>. QED  BY <1>1, <1>2 DEF Replace

LEMMA RealCall ==
  ASSUME TypeInv, CallsNumbered, NEW s \in Sessions, ~ At(s, "idle")
  PROVE  call[s].id \in 1..made
<1>1. call[s].id \in Nat /\ made \in Nat
  BY DEF TypeInv, Call
<1>2. call[s].id # 0 /\ call[s].id <= made
  BY DEF CallsNumbered
<1>. QED  BY <1>1, <1>2

LEMMA StepKeepsTypes ==
  ASSUME TypeInv, NEW s \in Sessions, NEW c, NEW d, Steps(s, c, d), Kinds(s, c, d),
         CallsNumbered, ChildInv
  PROVE  TypeInv'
<1>0. /\ call[s].id \in Nat /\ made \in Nat /\ file \in Seq(Nat) /\ jobs \subseteq Job
      /\ heirs \subseteq 1..made /\ alone \in [Sessions -> BOOLEAN]
  BY DEF TypeInv, Call
<1>1. file' \in Seq(Nat) /\ alone' \in [Sessions -> BOOLEAN]
  <2>1. CASE UNCHANGED <<file, alone>>
    BY <1>0, <2>1
  <2>2. CASE Changes(call[s].id, Append(file, call[s].id))
    BY <1>0, <2>2 DEF Changes
  <2>. QED  BY <2>1, <2>2
            DEF Kinds, EndsEarly, IsSpawned, GoesOn, Appends, Exits, Finishes, GivesUp, Submits, Quiet
<1>2. heirs' \subseteq 1..made
  <2>1. CASE heirs' = heirs
    BY <1>0, <2>1
  <2>2. CASE MayLeaveHeir(s) /\ heirs' # heirs
    <3>1. call[s].id \in 1..made
      BY <2>2, RealCall DEF MayLeaveHeir, ChildInv, At
    <3>. QED  BY <1>0, <2>2, <3>1 DEF MayLeaveHeir
  <2>. QED  BY <2>1, <2>2
            DEF Kinds, EndsEarly, IsSpawned, GoesOn, Appends, Exits, Finishes, GivesUp, Submits, Quiet
<1>3. jobs' \subseteq Job
  <2>1. CASE UNCHANGED jobs
    BY <1>0, <2>1
  <2>2. CASE Submits(s, c, d)
    <3>1. Replace(file, call[s].id) \in Seq(Nat) /\ <<call[s].id, Old>> \in Seq(Nat)
      BY <1>0, ReplaceTyped DEF Old
    <3>2. PICK text : /\ text \in Seq(Nat)
                      /\ jobs' = jobs \cup {[by |-> call[s].id, text |-> text, opened |-> FALSE]}
      BY <2>2, <3>1 DEF Submits
    <3>3. [by |-> call[s].id, text |-> text, opened |-> FALSE] \in Job
      BY <1>0, <3>2 DEF Job
    <3>. QED  BY <1>0, <3>2, <3>3
  <2>. QED  BY <2>1, <2>2
            DEF Kinds, EndsEarly, IsSpawned, GoesOn, Appends, Exits, Finishes, GivesUp, Quiet
<1>4. UNCHANGED <<made, found>>
  BY DEF Steps
<1>. QED  BY <1>1, <1>2, <1>3, <1>4, StepsElsewhere DEF TypeInv

LEMMA StepKeepsNumbers ==
  ASSUME TypeInv, CallsNumbered, ChildInv, NEW s \in Sessions, NEW c, NEW d,
         Steps(s, c, d), Kinds(s, c, d)
  PROVE  CallsNumbered'
<1>0. /\ call'[s] = c /\ c.id = call[s].id /\ c.tool = call[s].tool /\ made' = made
      /\ \A r \in Sessions \ {s} : call'[r] = call[r]
      /\ \A r \in Sessions : call'[r].id = call[r].id /\ call'[r].tool = call[r].tool
  BY StepsElsewhere DEF Steps
<1>1. call[s].at # "idle"
  BY DEF Kinds, EndsEarly, IsSpawned, GoesOn, Appends, Exits, Finishes, GivesUp, Submits,
         Running, At, ChildInv
<1>2. c.at \in StagesOf(call[s].tool)
  <2>1. \A t : {"idle", "done"} \subseteq StagesOf(t)
    BY DEF StagesOf
  <2>2. call[s].at \in StagesOf(call[s].tool)
    BY DEF CallsNumbered
  <2>3. CASE c.at \in {call[s].at, "idle", "done"}
    BY <2>1, <2>2, <2>3
  <2>4. CASE IsSpawned(s, c, d)
    <3>1. /\ StagesOf("bash") = {"idle", "done", "spawn", "wait"}
          /\ StagesOf("grep") = {"idle", "done", "spawn", "wait"}
          /\ StagesOf("glob") = {"idle", "done", "spawn", "wait"}
          /\ StagesOf("toolbox") = {"idle", "done", "spawn", "stdin", "wait"}
      BY DEF StagesOf
    <3>. QED  BY <2>4, <3>1 DEF IsSpawned, Commands
  <2>5. CASE At(s, "stdin") /\ c.at = "wait"
    <3>1. call[s].tool = "toolbox"
      BY <2>5, StageTells
    <3>2. "wait" \in StagesOf("toolbox")
      BY DEF StagesOf
    <3>. QED  BY <2>5, <3>1, <3>2
  <2>6. CASE Submits(s, c, d)
    <3>1. "write" \in StagesOf("edit") /\ "write" \in StagesOf("write")
      BY DEF StagesOf
    <3>. QED  BY <2>6, <3>1 DEF Submits
  <2>. QED  BY <2>3, <2>4, <2>5, <2>6
            DEF Kinds, EndsEarly, GoesOn, Appends, Exits, Finishes, GivesUp
<1>3. \A r \in Sessions : call'[r].id <= made' /\ (call'[r].id = 0 => At(r, "idle")')
  BY <1>0, <1>1 DEF CallsNumbered, At
<1>4. \A r \in Sessions : call'[r].at \in StagesOf(call'[r].tool)
  BY <1>0, <1>2 DEF CallsNumbered
<1>5. \A q, r \in Sessions : call'[q].id = call'[r].id /\ call'[q].id # 0 => q = r
  BY <1>0 DEF CallsNumbered
<1>. QED  BY <1>3, <1>4, <1>5 DEF CallsNumbered

LEMMA StepKeepsChildren ==
  ASSUME TypeInv, CallsNumbered, ChildInv, NEW s \in Sessions, NEW c, NEW d,
         Steps(s, c, d), Kinds(s, c, d)
  PROVE  ChildInv'
<1>0. /\ call'[s] = c /\ child'[s] = d /\ call[s] \in Call /\ child[s] \in Child
      /\ \A r \in Sessions \ {s} : call'[r] = call[r] /\ child'[r] = child[r]
  BY StepsElsewhere DEF TypeInv
<1>1. /\ child[s].live => call[s].at \in {"stdin", "wait"} /\ child[s].code = "none"
      /\ call[s].at \in {"stdin", "wait"} => child[s].live \/ child[s].code \in {"ok", "error"}
      /\ At(s, "spawn") => child[s].code = "none"
      /\ call[s].id \in heirs => ~ child[s].live /\ ~ At(s, "spawn")
      /\ child[s].said = child[s].stdout + call[s].got
  BY DEF ChildInv
<1>2. /\ d.live => c.at \in {"stdin", "wait"} /\ d.code = "none"
      /\ c.at \in {"stdin", "wait"} => d.live \/ d.code \in {"ok", "error"}
      /\ c.at = "spawn" => d.code = "none"
      /\ d.said = d.stdout + c.got
  <2>1. CASE EndsEarly(s, c, d)
    BY <1>1, <2>1 DEF EndsEarly, At
  <2>2. CASE IsSpawned(s, c, d)
    BY <1>1, <2>2 DEF IsSpawned, SameOutput, At
  <2>3. CASE GoesOn(s, c, d)
    BY <1>1, <2>3 DEF GoesOn, At
  <2>4. CASE Appends(s, c, d) \/ Exits(s, c, d)
    BY <1>1, <2>4 DEF Appends, Exits, SameOutput, At
  <2>5. CASE Finishes(s, c, d)
    BY <1>1, <2>5 DEF Finishes, At
  <2>6. CASE GivesUp(s, c, d)
    BY <1>1, <2>6 DEF GivesUp, SameOutput, At
  <2>7. CASE Submits(s, c, d)
    BY <1>1, <2>7 DEF Submits, At
  <2>. QED  BY <2>1, <2>2, <2>3, <2>4, <2>5, <2>6, <2>7 DEF Kinds
<1>3. c.id = call[s].id /\ \A r \in Sessions \ {s} : call[r].id # call[s].id
  <2>1. call[s].id # 0
    BY DEF Kinds, EndsEarly, IsSpawned, GoesOn, Appends, Exits, Finishes, GivesUp, Submits, Running,
           CallsNumbered, ChildInv, At
  <2>. QED  BY <2>1 DEF CallsNumbered, Steps
<1>4. c.id \in heirs' => ~ d.live /\ c.at # "spawn"
  <2>1. CASE MayLeaveHeir(s) /\ ~ d.live /\ c.at # "spawn"
    BY <2>1
  <2>2. CASE heirs' = heirs /\ (d.live => child[s].live \/ At(s, "spawn"))
             /\ (c.at = "spawn" => At(s, "spawn"))
    BY <1>1, <1>3, <2>2
  <2>. QED  BY <1>1, <2>1, <2>2
            DEF Kinds, EndsEarly, IsSpawned, GoesOn, Appends, Exits, Finishes, GivesUp, Submits, Quiet, At
<1>5. \A r \in Sessions \ {s} : call'[r].id \in heirs' => call[r].id \in heirs
  BY <1>0, <1>3
     DEF Kinds, EndsEarly, IsSpawned, GoesOn, Appends, Exits, Finishes, GivesUp, Submits, Quiet, MayLeaveHeir
<1>. QED  BY <1>0, <1>1, <1>2, <1>4, <1>5 DEF ChildInv, At

LEMMA StepKeepsCommandsTrue ==
  ASSUME TypeInv, CallsNumbered, ChildInv, CommandsTrue, NEW s \in Sessions, NEW c, NEW d,
         Steps(s, c, d), Kinds(s, c, d)
  PROVE  CommandsTrue'
<1>0. /\ call'[s] = c /\ child'[s] = d /\ c.tool = call[s].tool
      /\ \A r \in Sessions \ {s} : call'[r] = call[r] /\ child'[r] = child[r]
  BY StepsElsewhere DEF Steps
<1>1. ASSUME NEW r \in Sessions \ {s}, At(r, "done")' PROVE CommandIsTrue(r)'
  BY <1>0, <1>1 DEF CommandsTrue, CommandIsTrue, At
<1>2. ASSUME c.at = "done" PROVE CommandIsTrue(s)'
  <2>1. CASE EndsEarly(s, c, d)
    <3>1. At(s, "spawn") => d.code = "none"
      BY <2>1 DEF EndsEarly, ChildInv
    <3>2. ~ At(s, "spawn") => call[s].tool \notin Commands
      BY <2>1, StageTells DEF EndsEarly, At, Commands
    <3>. QED  BY <1>0, <3>1, <3>2 DEF CommandIsTrue
  <2>2. CASE Finishes(s, c, d)
    <3>1. /\ child[s].code \in {"ok", "error"} /\ call[s].tool \in Commands
          /\ child[s].said = 0 + call[s].got
      BY <2>2, StageTells DEF Finishes, ChildInv, At
    <3>2. call[s].got \in Nat
      BY DEF TypeInv, Call
    <3>3. c.got = child[s].said
      BY <2>2, <3>1, <3>2 DEF Finishes
    <3>4. /\ call[s].tool \in {"bash", "toolbox"} => c.out = child[s].code
          /\ c.out = "error" => child[s].code = "error"
      BY <2>2, <3>1 DEF Finishes, Judged, JudgedByExit, JudgedGrep, JudgedGlob, Commands
    <3>. QED  BY <1>0, <2>2, <3>3, <3>4 DEF CommandIsTrue, Finishes, Forking
  <2>3. CASE GivesUp(s, c, d)
    BY <1>0, <1>2, <2>3 DEF GivesUp, CommandIsTrue
  <2>. QED  BY <1>2, <2>1, <2>2, <2>3
            DEF Kinds, IsSpawned, GoesOn, Appends, Exits, Submits, Running, ChildInv, Forking
<1>. QED  BY <1>0, <1>1, <1>2 DEF CommandsTrue, At

LEMMA StepKeepsOwners ==
  ASSUME TypeInv, CallsNumbered, ChildInv, OwnersKnown, NEW s \in Sessions, NEW c, NEW d,
         Steps(s, c, d), Kinds(s, c, d)
  PROVE  OwnersKnown'
<1>0. /\ call'[s] = c /\ c.id = call[s].id /\ c.tool = call[s].tool /\ made' = made
      /\ \A r \in Sessions \ {s} : call'[r] = call[r]
      /\ \A r \in Sessions : call'[r].id = call[r].id /\ call'[r].tool = call[r].tool
  BY StepsElsewhere DEF Steps
<1>1. call[s].at # "idle" /\ call[s].id \in 1..made
  <2>1. call[s].at # "idle"
    BY DEF Kinds, EndsEarly, IsSpawned, GoesOn, Appends, Exits, Finishes, GivesUp, Submits,
           Running, At, ChildInv
  <2>. QED  BY <2>1, RealCall DEF At
<1>2. \A r \in Sessions : call[r].id = call[s].id => r = s
  BY <1>1 DEF CallsNumbered
<1>3. CASE Submits(s, c, d)
  <2>1. PICK n : /\ n.by = call[s].id /\ jobs' = jobs \cup {n}
                 /\ call[s].tool \in {"edit", "write"} /\ call[s].at \notin {"write", "idle"}
    BY <1>3 DEF Submits, At
  <2>2. \A j \in jobs : j.by # call[s].id
    BY <2>1 DEF OwnersKnown
  <2>3. c.at = "write" /\ heirs' = heirs
    BY <1>3 DEF Submits
  <2>4. \A j \in jobs' : j.by \in 1..made'
    BY <1>0, <1>1, <2>1 DEF OwnersKnown
  <2>5. \A j, k \in jobs' : j.by = k.by => j = k
    BY <2>1, <2>2 DEF OwnersKnown
  <2>6. \A r \in Sessions, j \in jobs' : j.by = call'[r].id =>
          call'[r].tool \in {"edit", "write"} /\ call'[r].at \in {"write", "idle"}
    BY <1>0, <1>2, <2>1, <2>2, <2>3 DEF OwnersKnown
  <2>7. \A r \in Sessions : At(r, "write")' => \E j \in jobs' : j.by = call'[r].id
    BY <1>0, <2>1 DEF OwnersKnown, At
  <2>8. \A r \in Sessions : call'[r].id \in heirs' => call'[r].tool \in Forking
    BY <1>0, <2>3 DEF OwnersKnown
  <2>. QED  BY <2>4, <2>5, <2>6, <2>7, <2>8 DEF OwnersKnown
<1>4. CASE ~ Submits(s, c, d)
  <2>1. jobs' = jobs
    BY <1>4 DEF Kinds, EndsEarly, IsSpawned, GoesOn, Appends, Exits, Finishes, GivesUp, Quiet
  <2>2. /\ At(s, "write") => c.at \in {"write", "idle"}
        /\ c.at = "write" => At(s, "write")
    BY <1>4 DEF Kinds, EndsEarly, IsSpawned, GoesOn, Appends, Exits, Finishes, GivesUp, At, ChildInv
  <2>3. \A r \in Sessions, j \in jobs' : j.by = call'[r].id =>
          call'[r].tool \in {"edit", "write"} /\ call'[r].at \in {"write", "idle"}
    BY <1>0, <1>1, <2>1, <2>2 DEF OwnersKnown, At
  <2>4. \A r \in Sessions : At(r, "write")' => \E j \in jobs' : j.by = call'[r].id
    BY <1>0, <2>1, <2>2 DEF OwnersKnown, At
  <2>5. \A r \in Sessions : call'[r].id \in heirs' => call'[r].tool \in Forking
    <3>1. heirs' = heirs \/ (heirs' = heirs \cup {call[s].id} /\ call[s].tool \in Forking)
      BY <1>4 DEF Kinds, EndsEarly, IsSpawned, GoesOn, Appends, Exits, Finishes, GivesUp, Quiet, MayLeaveHeir
    <3>. QED  BY <1>0, <1>2, <3>1 DEF OwnersKnown
  <2>. QED  BY <1>0, <2>1, <2>3, <2>4, <2>5 DEF OwnersKnown
<1>. QED  BY <1>3, <1>4

(* A process's write to the file leaves no other call undisturbed.         *)
LEMMA AppendDisturbs ==
  ASSUME TypeInv, CallsNumbered, ChildInv, NEW s \in Sessions, NEW c, NEW d, Appends(s, c, d),
         NEW r \in Sessions, alone'[r]
  PROVE  r = s /\ call[r].tool \in Forking
<1>1. call[s].id \in 1..made
  BY RealCall DEF Appends, ChildInv, At
<1>2. call[r].id = call[s].id
  BY DEF Appends, Changes
<1>. QED  BY <1>1, <1>2 DEF CallsNumbered, Appends

LEMMA StepKeepsJobs ==
  ASSUME IInv, NEW s \in Sessions, NEW c, NEW d, Steps(s, c, d), Kinds(s, c, d)
  PROVE  JobsTrue'
<1>0. /\ call'[s] = c /\ c.id = call[s].id /\ c.tool = call[s].tool /\ found' = found
      /\ \A r \in Sessions \ {s} : call'[r] = call[r]
      /\ \A r \in Sessions : call'[r].id = call[r].id /\ call'[r].tool = call[r].tool
  BY StepsElsewhere DEF Steps, IInv
<1>w. \A r \in Sessions : Wanted(r)' = Wanted(r)
  BY <1>0 DEF Wanted
<1>1. CASE Appends(s, c, d)
  <2>1. jobs' = jobs
    BY <1>1 DEF Appends
  <2>2. \A r \in Sessions : alone'[r] => call[r].tool \in Forking
    BY <1>1, AppendDisturbs DEF IInv
  <2>3. \A r \in Sessions, j \in jobs : j.by = call[r].id => call[r].tool \in {"edit", "write"}
    BY DEF IInv, OwnersKnown
  <2>. QED  BY <1>0, <2>1, <2>2, <2>3 DEF JobsTrue, Forking
<1>2. CASE Submits(s, c, d)
  <2>0. file' = file /\ alone' = alone /\ c.at = "write" /\ call[s].at \in {"load", "open"}
    BY <1>2 DEF Submits, At
  <2>1. \A j \in jobs : j.by # call[s].id
    BY <2>0 DEF IInv, OwnersKnown
  <2>2. call[s].id \in 1..made
    BY <2>0, RealCall DEF IInv, At
  <2>3. \A r \in Sessions : call[r].id = call[s].id => r = s
    BY <2>2 DEF IInv, CallsNumbered
  <2>4. alone[s] => file = found[s]
    BY <1>2, <2>0 DEF IInv, FilesTrue, Submits
  <2>5. PICK text : /\ jobs' = jobs \cup {[by |-> call[s].id, text |-> text, opened |-> FALSE]}
                    /\ \/ call[s].tool = "edit" /\ Occurs(file) /\ text = Replace(file, call[s].id)
                       \/ call[s].tool = "write" /\ text = <<call[s].id, Old>>
    BY <1>2 DEF Submits
  <2>6. alone[s] => (call[s].tool = "edit" => Occurs(found[s])) /\ text = Wanted(s)
    BY <2>4, <2>5 DEF Wanted
  <2>. SUFFICES ASSUME NEW r \in Sessions, NEW j \in jobs', At(r, "write")', j.by = call'[r].id, alone'[r]
                PROVE  /\ call'[r].tool = "edit" => Occurs(found'[r])
                       /\ j.text = Wanted(r)'
                       /\ file' = IF j.opened THEN <<>> ELSE found'[r]
    BY DEF JobsTrue
  <2>7. CASE r = s
    <3>1. j = [by |-> call[s].id, text |-> text, opened |-> FALSE]
      BY <1>0, <2>1, <2>5, <2>7
    <3>2. Wanted(s)' = Wanted(s)
      BY <1>w
    <3>. QED  BY <1>0, <2>0, <2>4, <2>6, <2>7, <3>1, <3>2
  <2>8. CASE r # s
    <3>1. j \in jobs
      BY <1>0, <2>3, <2>5, <2>8
    <3>2. At(r, "write") /\ j.by = call[r].id /\ alone[r]
      BY <1>0, <2>0, <2>8 DEF At
    <3>. QED  BY <1>0, <1>w, <2>0, <3>1, <3>2 DEF IInv, JobsTrue
  <2>. QED  BY <2>7, <2>8
<1>3. CASE ~ Appends(s, c, d) /\ ~ Submits(s, c, d)
  <2>1. UNCHANGED <<jobs, file, alone>> /\ (c.at = "write" => At(s, "write"))
    BY <1>3 DEF Kinds, EndsEarly, IsSpawned, GoesOn, Exits, Finishes, GivesUp, Quiet, At
  <2>2. \A r \in Sessions : At(r, "write")' => At(r, "write")
    BY <1>0, <2>1 DEF At
  <2>. QED  BY <1>0, <1>w, <2>1, <2>2 DEF IInv, JobsTrue
<1>. QED  BY <1>1, <1>2, <1>3

LEMMA StepKeepsFiles ==
  ASSUME IInv, NEW s \in Sessions, NEW c, NEW d, Steps(s, c, d), Kinds(s, c, d)
  PROVE  FilesTrue'
<1>0. /\ call'[s] = c /\ c.id = call[s].id /\ c.tool = call[s].tool /\ found' = found
      /\ \A r \in Sessions \ {s} : call'[r] = call[r]
      /\ \A r \in Sessions : call'[r].id = call[r].id /\ call'[r].tool = call[r].tool
  BY StepsElsewhere DEF Steps, IInv
<1>1. CASE Appends(s, c, d)
  BY <1>0, <1>1, AppendDisturbs DEF IInv, FilesTrue, Forking
<1>2. CASE ~ Appends(s, c, d)
  <2>1. UNCHANGED <<file, alone>>
    BY <1>2 DEF Kinds, EndsEarly, IsSpawned, GoesOn, Exits, Finishes, GivesUp, Submits, Quiet
  <2>2. ASSUME NEW r \in Sessions \ {s}, call'[r].tool \in {"read", "write", "edit"}, alone'[r]
        PROVE  /\ call'[r].at \in {"load", "open"} => file' = found'[r]
               /\ At(r, "done")' => FileIsTrue(r)'
    BY <1>0, <2>1, <2>2 DEF IInv, FilesTrue, FileIsTrue, At, EditedOnce
  <2>3. ASSUME call[s].tool \in {"read", "write", "edit"}, alone[s]
        PROVE  /\ c.at \in {"load", "open"} => file = found[s]
               /\ c.at = "done" => file = found[s] /\ (c.out = "error" \/ (c.out = "ok" /\ c.tool = "read"))
    <3>1. call[s].tool \notin Commands /\ (call[s].at \in {"load", "open"} => file = found[s])
      BY <2>3 DEF IInv, FilesTrue, Commands
    <3>2. call[s].at \notin {"spawn", "stdin", "wait", "fetch"}
      BY <2>3, <3>1, StageTells DEF IInv, At
    <3>3. c.at \in {"load", "open"} => file = found[s]
      BY <1>2, <3>1, <3>2
         DEF Kinds, EndsEarly, IsSpawned, GoesOn, Exits, Finishes, GivesUp, Submits, IInv, ChildInv, At
    <3>4. c.at = "done" => EndsEarly(s, c, d)
      BY <1>2, <3>2
         DEF Kinds, IsSpawned, GoesOn, Exits, Finishes, GivesUp, Submits, IInv, ChildInv, At, Running
    <3>. QED  BY <1>0, <2>3, <3>1, <3>2, <3>3, <3>4 DEF EndsEarly
  <2>4. call'[s].tool \in {"read", "write", "edit"} /\ alone'[s] =>
          /\ call'[s].at \in {"load", "open"} => file' = found'[s]
          /\ At(s, "done")' => FileIsTrue(s)'
    BY <1>0, <2>1, <2>3 DEF At, FileIsTrue
  <2>. QED  BY <2>2, <2>4 DEF FilesTrue
<1>. QED  BY <1>1, <1>2

LEMMA StepKeepsIInv ==
  ASSUME IInv, NEW s \in Sessions, Works(s) \/ Expire(s) \/ Leave(s) \/ Process(s)
  PROVE  IInv'
<1>1. PICK c, d : Steps(s, c, d) /\ Kinds(s, c, d)
  BY StepKinds DEF IInv
<1>2. TypeInv' /\ CallsNumbered' /\ ChildInv'
  BY <1>1, StepKeepsTypes, StepKeepsNumbers, StepKeepsChildren DEF IInv
<1>3. CommandsTrue' /\ OwnersKnown'
  BY <1>1, StepKeepsCommandsTrue, StepKeepsOwners DEF IInv
<1>4. JobsTrue' /\ FilesTrue'
  BY <1>1, StepKeepsJobs, StepKeepsFiles
<1>. QED  BY <1>2, <1>3, <1>4 DEF IInv

-----------------------------------------------------------------------------
(* A new call: nothing and nobody has its number yet.                      *)

LEMMA StartKeepsIInv ==
  ASSUME IInv, NEW s \in Sessions, NEW t \in Tools[s], Start(s, t)
  PROVE  IInv'
<1>0. /\ call \in [Sessions -> Call] /\ child \in [Sessions -> Child] /\ made \in Nat
      /\ heirs \subseteq 1..made /\ jobs \subseteq Job /\ file \in Seq(Nat)
      /\ found \in [Sessions -> Seq(Nat)] /\ alone \in [Sessions -> BOOLEAN]
  BY DEF IInv, TypeInv
<1>t. t \in ToolNames
  BY RunConstantsOK DEF ToolNames
<1>1. PICK p, c : /\ p \in Patterns \cup {NoCall.asked}
                  /\ c = [NoCall EXCEPT !.id = made + 1, !.tool = t, !.at = FirstStage(t), !.asked = p]
                  /\ call' = [call EXCEPT ![s] = c]
  <2>1. PICK p \in IF t = "glob" THEN Patterns ELSE {NoCall.asked} :
          call' = [call EXCEPT ![s] =
            [NoCall EXCEPT !.id = made + 1, !.tool = t, !.at = FirstStage(t), !.asked = p]]
    BY DEF Start
  <2>. QED  BY <2>1
<1>2. /\ FirstStage(t) \in {"spawn", "load", "open", "fetch"} /\ FirstStage(t) \in StagesOf(t)
      /\ FirstStage(t) \in {"load", "open"} => t \in {"read", "edit", "write"}
  <2>1. CASE t \in Commands
    <3>1. "spawn" \in StagesOf("bash") /\ "spawn" \in StagesOf("grep")
          /\ "spawn" \in StagesOf("glob") /\ "spawn" \in StagesOf("toolbox")
      BY DEF StagesOf
    <3>. QED  BY <2>1, <3>1 DEF FirstStage, Commands
  <2>2. CASE t \in {"read", "edit", "write", "web_fetch"}
    <3>1. "load" \in StagesOf("read") /\ "load" \in StagesOf("edit")
          /\ "open" \in StagesOf("write") /\ "fetch" \in StagesOf("web_fetch")
      BY DEF StagesOf
    <3>. QED  BY <2>2, <3>1 DEF FirstStage, Commands
  <2>. QED  BY <1>t, <2>1, <2>2 DEF ToolNames
<1>3. /\ c \in Call /\ c.id = made + 1 /\ c.tool = t /\ c.at = FirstStage(t)
      /\ c.got = 0 /\ c.out = "none"
  <2>1. made + 1 \in Nat /\ FirstStage(t) \in Stages
    BY <1>0, <1>2 DEF Stages
  <2>2. c \in Call /\ c.id = made + 1 /\ c.tool = t /\ c.at = FirstStage(t) /\ c.got = NoCall.got /\ c.out = NoCall.out
    BY <1>1, <1>t, <2>1, NothingTyped DEF Call
  <2>. QED  BY <2>2 DEF NoCall
<1>4. /\ made' = made + 1 /\ child' = [child EXCEPT ![s] = NoChild]
      /\ found' = [found EXCEPT ![s] = file] /\ alone' = [alone EXCEPT ![s] = TRUE]
      /\ UNCHANGED <<heirs, jobs, file>>
  BY DEF Start
<1>5. /\ call' \in [Sessions -> Call] /\ child' \in [Sessions -> Child]
      /\ found' \in [Sessions -> Seq(Nat)] /\ alone' \in [Sessions -> BOOLEAN]
      /\ call'[s] = c /\ child'[s] = NoChild /\ found'[s] = file
      /\ \A r \in Sessions \ {s} : /\ call'[r] = call[r] /\ child'[r] = child[r]
                                   /\ found'[r] = found[r] /\ alone'[r] = alone[r]
  BY <1>0, <1>1, <1>3, <1>4, NothingTyped
<1>6. 1..made \subseteq 1..made' /\ made' \in Nat
  BY <1>0, <1>4
<1>7. TypeInv'
  BY <1>0, <1>4, <1>5, <1>6 DEF TypeInv
<1>8. CallsNumbered'
  <2>1. \A r \in Sessions : call[r].id \in Nat /\ call[r].id <= made
    BY <1>0 DEF IInv, CallsNumbered, Call
  <2>2. \A r \in Sessions : call'[r].id <= made'
    <3>1. call'[s].id <= made'
      BY <1>0, <1>3, <1>4, <1>5
    <3>2. \A r \in Sessions \ {s} : call'[r].id <= made'
      BY <1>0, <1>4, <1>5, <2>1
    <3>. QED  BY <3>1, <3>2
  <2>3. \A r \in Sessions : call'[r].id = 0 => At(r, "idle")'
    <3>1. call'[s].id # 0
      BY <1>0, <1>3, <1>5
    <3>2. \A r \in Sessions \ {s} : call'[r].id = 0 => At(r, "idle")'
      BY <1>5 DEF IInv, CallsNumbered, At
    <3>. QED  BY <3>1, <3>2
  <2>4. \A r \in Sessions \ {s} : call'[r].id # call'[s].id
    BY <1>0, <1>3, <1>5, <2>1
  <2>5. \A q, r \in Sessions : call'[q].id = call'[r].id /\ call'[q].id # 0 => q = r
    <3>. SUFFICES ASSUME NEW q \in Sessions \ {s}, NEW r \in Sessions \ {s},
                         call'[q].id = call'[r].id, call'[q].id # 0
                  PROVE  q = r
      BY <2>4
    <3>1. call[q].id = call[r].id /\ call[q].id # 0
      BY <1>5
    <3>. QED  BY <3>1 DEF IInv, CallsNumbered
  <2>6. \A r \in Sessions : call'[r].at \in StagesOf(call'[r].tool)
    BY <1>2, <1>3, <1>5 DEF IInv, CallsNumbered
  <2>. QED  BY <2>2, <2>3, <2>5, <2>6 DEF CallsNumbered
<1>n. made + 1 \notin heirs /\ (\A j \in jobs : j.by # made + 1)
  BY <1>0 DEF IInv, OwnersKnown
<1>9. ChildInv'
  <2>1. /\ ~ child'[s].live /\ child'[s].code = "none" /\ child'[s].said = child'[s].stdout + call'[s].got
        /\ call'[s].id \notin heirs' /\ call'[s].at \notin {"stdin", "wait"}
    BY <1>2, <1>3, <1>4, <1>5, <1>n DEF NoChild
  <2>2. \A r \in Sessions \ {s} : call'[r] = call[r] /\ child'[r] = child[r] /\ heirs' = heirs
    BY <1>4, <1>5
  <2>. QED  BY <2>1, <2>2 DEF IInv, ChildInv, At
<1>10. CommandsTrue'
  <2>1. \A r \in Sessions \ {s} : At(r, "done")' => CommandIsTrue(r)'
    BY <1>5, ZenonT(30) DEF IInv, CommandsTrue, CommandIsTrue, At
  <2>. QED  BY <1>2, <1>3, <1>5, <2>1 DEF CommandsTrue, At
<1>11. OwnersKnown'
  <2>1. \A j \in jobs' : j.by \in 1..made'
    BY <1>4, <1>6 DEF IInv, OwnersKnown
  <2>2. \A r \in Sessions, j \in jobs' : j.by = call'[r].id =>
          call'[r].tool \in {"edit", "write"} /\ call'[r].at \in {"write", "idle"}
    BY <1>3, <1>4, <1>5, <1>n DEF IInv, OwnersKnown
  <2>3. \A r \in Sessions : At(r, "write")' => \E j \in jobs' : j.by = call'[r].id
    BY <1>2, <1>3, <1>4, <1>5 DEF IInv, OwnersKnown, At
  <2>4. \A r \in Sessions : call'[r].id \in heirs' => call'[r].tool \in Forking
    BY <1>3, <1>4, <1>5, <1>n DEF IInv, OwnersKnown
  <2>. QED  BY <1>4, <2>1, <2>2, <2>3, <2>4 DEF IInv, OwnersKnown
<1>12. JobsTrue'
  <2>1. \A r \in Sessions \ {s} : Wanted(r)' = Wanted(r)
    BY <1>5 DEF Wanted
  <2>2. ~ At(s, "write")'
    BY <1>2, <1>3, <1>5 DEF At
  <2>. SUFFICES ASSUME NEW r \in Sessions \ {s}, NEW j \in jobs, At(r, "write")', j.by = call'[r].id, alone'[r]
                PROVE  /\ call'[r].tool = "edit" => Occurs(found'[r])
                       /\ j.text = Wanted(r)'
                       /\ file' = IF j.opened THEN <<>> ELSE found'[r]
    BY <1>4, <2>2 DEF JobsTrue
  <2>3. At(r, "write") /\ j.by = call[r].id /\ alone[r]
    BY <1>5 DEF At
  <2>. QED  BY <1>4, <1>5, <2>1, <2>3 DEF IInv, JobsTrue
<1>13. FilesTrue'
  <2>1. ASSUME NEW r \in Sessions \ {s}, FileIsTrue(r) PROVE FileIsTrue(r)'
    BY <1>4, <1>5, <2>1 DEF FileIsTrue, EditedOnce
  <2>2. ASSUME NEW r \in Sessions \ {s}, call'[r].tool \in {"read", "write", "edit"}, alone'[r]
        PROVE  /\ call'[r].at \in {"load", "open"} => file' = found'[r]
               /\ At(r, "done")' => FileIsTrue(r)'
    BY <1>4, <1>5, <2>1, <2>2 DEF IInv, FilesTrue, At
  <2>3. ~ At(s, "done")' /\ file' = found'[s]
    BY <1>2, <1>3, <1>4, <1>5 DEF At
  <2>. QED  BY <2>2, <2>3 DEF FilesTrue
<1>. QED  BY <1>7, <1>8, <1>9, <1>10, <1>11, <1>12, <1>13 DEF IInv

-----------------------------------------------------------------------------
(* Writes under way.                                                       *)

(* The first Old is the one that is replaced.                              *)
LEMMA ReplaceEditsOnce ==
  ASSUME NEW text \in Seq(Nat), NEW id \in Nat, Occurs(text)
  PROVE  EditedOnce(text, Replace(text, id), id)
<1>. DEFINE Olds == {i \in DOMAIN text : text[i] = Old}
<1>0. DOMAIN text = 1..Len(text) /\ Len(text) \in Nat
  OBVIOUS
<1>1. Olds \subseteq Nat /\ Olds # {}
  BY <1>0 DEF Occurs
<1>2. PICK i \in Olds : \A j \in Olds : <<j, i>> \notin OpToRel(<, Nat)
  BY <1>1, NatLessThanWellFounded, WFMin
<1>3. i \in DOMAIN text /\ text[i] = Old /\ i \in Nat
  BY <1>0, <1>1
<1>4. \A j \in 1..(i - 1) : text[j] # Old
  <2>. SUFFICES ASSUME NEW j \in 1..(i - 1), text[j] = Old PROVE FALSE
    OBVIOUS
  <2>1. j \in DOMAIN text /\ j < i /\ j \in Nat
    BY <1>0, <1>3
  <2>2. <<j, i>> \in OpToRel(<, Nat)
    BY <1>3, <2>1 DEF OpToRel
  <2>. QED  BY <1>2, <2>1, <2>2
<1>5. ASSUME NEW k \in DOMAIN text, k # i, text[k] = Old, \A j \in 1..(k - 1) : text[j] # Old
      PROVE  FALSE
  <2>1. k \in Nat /\ i >= 1 /\ k >= 1
    BY <1>0, <1>3
  <2>2. CASE k < i
    BY <1>3, <1>4, <1>5, <2>1, <2>2
  <2>3. CASE i < k
    BY <1>3, <1>5, <2>1, <2>3
  <2>. QED  BY <1>3, <1>5, <2>1, <2>2, <2>3
<1>6. Replace(text, id) = [text EXCEPT ![i] = id]
  <2>1. \A k \in DOMAIN text : Replace(text, id)[k] = [text EXCEPT ![i] = id][k]
    BY <1>3, <1>4, <1>5 DEF Replace
  <2>2. Replace(text, id) = [k \in DOMAIN text |-> Replace(text, id)[k]]
    BY DEF Replace
  <2>3. [text EXCEPT ![i] = id] = [k \in DOMAIN text |-> [text EXCEPT ![i] = id][k]]
    BY <1>0
  <2>. QED  BY <2>1, <2>2, <2>3
<1>. QED  BY <1>3, <1>4, <1>6 DEF EditedOnce

(* Whoever waits for a write is told of its end; nobody else is.           *)
Told(j, s) == At(s, "write") /\ call[s].id = j.by

LEMMA AnswersTyped ==
  ASSUME IInv, NEW j \in jobs, NEW out \in {"ok", "error"}, Answers(j, out)
  PROVE  /\ call' \in [Sessions -> Call]
         /\ \A s \in Sessions : /\ call'[s].id = call[s].id /\ call'[s].tool = call[s].tool
                                /\ call'[s].got = call[s].got
         /\ \A s \in Sessions : Told(j, s) =>
              /\ call'[s].at = "done" /\ call'[s].out = out
              /\ call'[s].torn = (out = "error" /\ j.opened)
         /\ \A s \in Sessions : ~ Told(j, s) => call'[s] = call[s]
<1>0. call \in [Sessions -> Call] /\ jobs \subseteq Job /\ j \in Job
  BY DEF IInv, TypeInv
<1>t. \A s \in Sessions : call'[s] =
        IF Told(j, s)
        THEN [call[s] EXCEPT !.at = "done", !.out = out, !.torn = (out = "error" /\ j.opened)]
        ELSE call[s]
  BY DEF Answers, Told
<1>1. ASSUME NEW s \in Sessions, Told(j, s)
      PROVE  /\ call'[s] \in Call /\ call'[s].id = call[s].id /\ call'[s].tool = call[s].tool
             /\ call'[s].got = call[s].got
             /\ call'[s].at = "done" /\ call'[s].out = out
             /\ call'[s].torn = (out = "error" /\ j.opened)
  <2>1. call[s] \in Call
    BY <1>0
  <2>2. PICK torn \in BOOLEAN : torn = (out = "error" /\ j.opened)
    OBVIOUS
  <2>3. call'[s] = [call[s] EXCEPT !.at = "done", !.out = out, !.torn = torn]
    BY <1>t, <1>1, <2>2
  <2>4. call'[s].torn = torn /\ call'[s] \in Call
    BY <2>1, <2>3 DEF Call, Stages
  <2>5. /\ call'[s].id = call[s].id /\ call'[s].tool = call[s].tool /\ call'[s].got = call[s].got
        /\ call'[s].at = "done" /\ call'[s].out = out
    BY <2>1, <2>3 DEF Call
  <2>. QED  BY <2>2, <2>4, <2>5
<1>2. ASSUME NEW s \in Sessions, ~ Told(j, s) PROVE call'[s] = call[s] /\ call'[s] \in Call
  BY <1>0, <1>t, <1>2
<1>3. call' = [s \in Sessions |-> call'[s]]
  BY DEF Answers
<1>4. \A s \in Sessions : call'[s] \in Call
  BY <1>1, <1>2
<1>. QED  BY <1>1, <1>2, <1>3, <1>4

(* What a write's end leaves alone, however it ends.                       *)
LEMMA AnswersKeep ==
  ASSUME IInv, NEW j \in jobs, NEW out \in {"ok", "error"}, Answers(j, out),
         jobs' = jobs \ {j}, UNCHANGED <<child, heirs, made, found>>
  PROVE  CallsNumbered' /\ ChildInv' /\ CommandsTrue' /\ OwnersKnown'
<1>0. /\ \A s \in Sessions : /\ call'[s].id = call[s].id /\ call'[s].tool = call[s].tool
                             /\ call'[s].got = call[s].got
      /\ \A s \in Sessions : Told(j, s) => call'[s].at = "done"
      /\ \A s \in Sessions : ~ Told(j, s) => call'[s] = call[s]
  BY AnswersTyped
<1>w. \A s \in Sessions : Told(j, s) => At(s, "write") /\ call[s].tool \in {"edit", "write"}
  BY StageTells DEF Told, IInv
<1>1. CallsNumbered'
  <2>1. \A s \in Sessions : call'[s].at \in StagesOf(call'[s].tool)
    BY <1>0 DEF IInv, CallsNumbered, StagesOf
  <2>2. \A s \in Sessions : call'[s].id = 0 => At(s, "idle")'
    BY <1>0, <1>w DEF IInv, CallsNumbered, At
  <2>3. \A s \in Sessions : call'[s].id <= made'
    BY <1>0 DEF IInv, CallsNumbered
  <2>4. \A s, r \in Sessions : call'[s].id = call'[r].id /\ call'[s].id # 0 => s = r
    BY <1>0 DEF IInv, CallsNumbered
  <2>. QED  BY <2>1, <2>2, <2>3, <2>4 DEF CallsNumbered
<1>2. ChildInv'
  <2>. SUFFICES ASSUME NEW s \in Sessions
                PROVE  /\ child'[s].live => call'[s].at \in {"stdin", "wait"} /\ child'[s].code = "none"
                       /\ call'[s].at \in {"stdin", "wait"} =>
                            child'[s].live \/ child'[s].code \in {"ok", "error"}
                       /\ At(s, "spawn")' => child'[s].code = "none"
                       /\ call'[s].id \in heirs' => ~ child'[s].live /\ ~ At(s, "spawn")'
                       /\ child'[s].said = child'[s].stdout + call'[s].got
    BY DEF ChildInv
  <2>1. CASE Told(j, s)
    BY <1>0, <1>w, <2>1 DEF IInv, ChildInv, At
  <2>2. CASE ~ Told(j, s)
    BY <1>0, <2>2 DEF IInv, ChildInv, At
  <2>. QED  BY <2>1, <2>2
<1>3. CommandsTrue'
  <2>. SUFFICES ASSUME NEW s \in Sessions, At(s, "done")' PROVE CommandIsTrue(s)'
    BY DEF CommandsTrue
  <2>1. CASE Told(j, s)
    BY <1>0, <1>w, <2>1 DEF CommandIsTrue, Commands
  <2>2. CASE ~ Told(j, s)
    BY <1>0, <2>2 DEF IInv, CommandsTrue, CommandIsTrue, At
  <2>. QED  BY <2>1, <2>2
<1>4. OwnersKnown'
  <2>0. \A k \in jobs' : k \in jobs /\ k.by # j.by
    BY DEF IInv, OwnersKnown
  <2>1. \A s \in Sessions, k \in jobs' : k.by = call'[s].id =>
          call'[s].tool \in {"edit", "write"} /\ call'[s].at \in {"write", "idle"}
    BY <1>0, <2>0 DEF IInv, OwnersKnown, Told
  <2>2. \A s \in Sessions : At(s, "write")' => \E k \in jobs' : k.by = call'[s].id
    <3>. SUFFICES ASSUME NEW s \in Sessions, At(s, "write")'
                  PROVE  \E k \in jobs' : k.by = call'[s].id
      OBVIOUS
    <3>1. At(s, "write") /\ call[s].id # j.by
      BY <1>0 DEF At, Told
    <3>2. PICK k \in jobs : k.by = call[s].id
      BY <3>1 DEF IInv, OwnersKnown
    <3>. QED  BY <1>0, <3>1, <3>2
  <2>3. \A s \in Sessions : call'[s].id \in heirs' => call'[s].tool \in Forking
    BY <1>0 DEF IInv, OwnersKnown
  <2>. QED  BY <2>0, <2>1, <2>2, <2>3 DEF IInv, OwnersKnown
<1>. QED  BY <1>1, <1>2, <1>3, <1>4

LEMMA FillKeepsIInv ==
  ASSUME IInv, NEW j \in jobs, Fill(j)
  PROVE  IInv'
<1>0. /\ j.opened /\ Answers(j, "ok") /\ jobs' = jobs \ {j}
      /\ UNCHANGED <<child, heirs, made, found>>
      /\ file' = j.text \o SubSeq(file, Len(j.text) + 1, Len(file))
      /\ alone' = [s \in Sessions |-> alone[s] /\ call[s].id = j.by]
  BY DEF Fill, Changes
<1>1. CallsNumbered' /\ ChildInv' /\ CommandsTrue' /\ OwnersKnown'
  BY <1>0, AnswersKeep
<1>2. TypeInv'
  <2>1. j \in Job /\ file \in Seq(Nat)
    BY DEF IInv, TypeInv
  <2>2. j.text \in Seq(Nat) /\ SubSeq(file, Len(j.text) + 1, Len(file)) \in Seq(Nat)
    <3>1. j.text \in Seq(Nat)
      BY <2>1 DEF Job
    <3>2. \A i \in (Len(j.text) + 1)..Len(file) : i \in 1..Len(file)
      BY <2>1, <3>1
    <3>3. \A i \in (Len(j.text) + 1)..Len(file) : file[i] \in Nat
      BY <2>1, <3>2
    <3>. QED  BY <2>1, <3>1, <3>3, SubSeqProperties
  <2>3. file' \in Seq(Nat)
    BY <1>0, <2>2
  <2>4. alone' \in [Sessions -> BOOLEAN]
    BY <1>0
  <2>. QED  BY <1>0, <2>3, <2>4, AnswersTyped DEF IInv, TypeInv
<1>3. \A s \in Sessions : alone'[s] => alone[s] /\ call[s].id = j.by
  BY <1>0
<1>4. JobsTrue'
  <2>1. \A s \in Sessions : At(s, "write")' /\ alone'[s] => FALSE
    BY <1>0, <1>3, AnswersTyped DEF At, Told
  <2>. QED  BY <2>1 DEF JobsTrue
<1>5. FilesTrue'
  <2>. SUFFICES ASSUME NEW s \in Sessions, alone'[s]
                PROVE  call'[s].at \notin {"load", "open"} /\ (At(s, "done")' => FileIsTrue(s)')
    BY DEF FilesTrue
  <2>1. call[s].tool \in {"edit", "write"} /\ call[s].at \in {"write", "idle"} /\ alone[s] /\ j.by = call[s].id
    BY <1>3 DEF IInv, OwnersKnown
  <2>2. CASE ~ Told(j, s)
    BY <1>0, <2>1, <2>2, AnswersTyped DEF At, Told
  <2>3. CASE Told(j, s)
    <3>1. /\ call'[s].at = "done" /\ call'[s].out = "ok"
          /\ call'[s].id = call[s].id /\ call'[s].tool = call[s].tool
      BY <1>0, <2>3, AnswersTyped
    <3>2. /\ call[s].tool = "edit" => Occurs(found[s])
          /\ j.text = Wanted(s) /\ file = <<>>
      BY <1>0, <2>1, <2>3 DEF IInv, JobsTrue, Told
    <3>3. file' = j.text
      <4>1. j.text \in Seq(Nat)
        BY DEF IInv, TypeInv, Job
      <4>2. SubSeq(file, Len(j.text) + 1, Len(file)) = <<>>
        BY <3>2, <4>1, SubSeqEmpty
      <4>. QED  BY <1>0, <4>1, <4>2, ConcatEmptySeq
    <3>4. found[s] \in Seq(Nat) /\ call[s].id \in Nat
      BY DEF IInv, TypeInv, Call
    <3>5. call[s].tool = "edit" => EditedOnce(found[s], file', call[s].id)
      BY <3>2, <3>3, <3>4, ReplaceEditsOnce DEF Wanted
    <3>6. EditedOnce(found'[s], file', call'[s].id) <=> EditedOnce(found[s], file', call[s].id)
      BY <1>0, <3>1
    <3>7. call[s].tool = "write" => file' = <<call'[s].id, Old>>
      BY <3>1, <3>2, <3>3 DEF Wanted
    <3>. QED  BY <2>1, <3>1, <3>5, <3>6, <3>7 DEF FileIsTrue
  <2>. QED  BY <2>2, <2>3
<1>. QED  BY <1>1, <1>2, <1>4, <1>5 DEF IInv

LEMMA FailKeepsIInv ==
  ASSUME IInv, NEW j \in jobs, DiskFails(j)
  PROVE  IInv'
<1>0. Answers(j, "error") /\ jobs' = jobs \ {j} /\ UNCHANGED <<child, heirs, file, made, found, alone>>
  BY DEF DiskFails
<1>1. CallsNumbered' /\ ChildInv' /\ CommandsTrue' /\ OwnersKnown'
  BY <1>0, AnswersKeep
<1>2. TypeInv'
  BY <1>0, AnswersTyped DEF IInv, TypeInv
<1>a. /\ \A s \in Sessions : call'[s].id = call[s].id /\ call'[s].tool = call[s].tool
      /\ \A s \in Sessions : Told(j, s) =>
           call'[s].at = "done" /\ call'[s].out = "error" /\ call'[s].torn = j.opened
      /\ \A s \in Sessions : ~ Told(j, s) => call'[s] = call[s]
  <2>1. j.opened \in BOOLEAN
    BY DEF IInv, TypeInv, Job
  <2>. QED  BY <1>0, <2>1, AnswersTyped
<1>3. JobsTrue'
  <2>1. \A s \in Sessions : Wanted(s)' = Wanted(s)
    BY <1>0, <1>a DEF Wanted
  <2>2. \A s \in Sessions : At(s, "write")' => At(s, "write")
    BY <1>a DEF At
  <2>. QED  BY <1>0, <1>a, <2>1, <2>2 DEF IInv, JobsTrue
<1>4. FilesTrue'
  <2>. SUFFICES ASSUME NEW s \in Sessions, call'[s].tool \in {"read", "write", "edit"}, alone'[s]
                PROVE  /\ call'[s].at \in {"load", "open"} => file' = found'[s]
                       /\ At(s, "done")' => FileIsTrue(s)'
    BY DEF FilesTrue
  <2>1. CASE Told(j, s)
    <3>1. file = found[s] \/ call'[s].torn
      BY <1>0, <1>a, <2>1 DEF IInv, JobsTrue, Told
    <3>. QED  BY <1>0, <1>a, <2>1, <3>1 DEF FileIsTrue
  <2>2. CASE ~ Told(j, s)
    BY <1>0, <1>a, <2>2 DEF IInv, FilesTrue, FileIsTrue, EditedOnce, At
  <2>. QED  BY <2>1, <2>2
<1>. QED  BY <1>1, <1>2, <1>3, <1>4 DEF IInv

LEMMA TruncateKeepsIInv ==
  ASSUME IInv, NEW j \in jobs, Truncate(j)
  PROVE  IInv'
<1>0. /\ ~ j.opened /\ j \in Job /\ UNCHANGED <<call, child, heirs, made, found>>
      /\ file' = <<>> /\ alone' = [s \in Sessions |-> alone[s] /\ call[s].id = j.by]
  BY DEF Truncate, Changes, IInv, TypeInv
<1>1. PICK n : n = [j EXCEPT !.opened = TRUE] /\ jobs' = (jobs \ {j}) \cup {n}
  BY DEF Truncate
<1>2. n \in Job /\ n.by = j.by /\ n.text = j.text /\ n.opened = TRUE
  BY <1>0, <1>1 DEF Job
<1>3. TypeInv'
  <2>1. jobs' \subseteq Job
    BY <1>1, <1>2 DEF IInv, TypeInv
  <2>2. file' \in Seq(Nat) /\ alone' \in [Sessions -> BOOLEAN]
    BY <1>0
  <2>. QED  BY <1>0, <2>1, <2>2 DEF IInv, TypeInv
<1>4. CallsNumbered' /\ ChildInv'
  BY <1>0 DEF IInv, CallsNumbered, ChildInv, At
<1>5. CommandsTrue'
  BY <1>0 DEF IInv, CommandsTrue, CommandIsTrue, At
<1>6. \A k \in jobs' : k = n \/ (k \in jobs /\ k.by # j.by)
  BY <1>1 DEF IInv, OwnersKnown
<1>7. OwnersKnown'
  <2>1. \A k \in jobs' : k.by \in 1..made'
    BY <1>0, <1>2, <1>6 DEF IInv, OwnersKnown
  <2>2. \A k, l \in jobs' : k.by = l.by => k = l
    BY <1>2, <1>6 DEF IInv, OwnersKnown
  <2>3. \A s \in Sessions, k \in jobs' : k.by = call'[s].id =>
          call'[s].tool \in {"edit", "write"} /\ call'[s].at \in {"write", "idle"}
    BY <1>0, <1>2, <1>6 DEF IInv, OwnersKnown
  <2>4. \A s \in Sessions : At(s, "write")' => \E k \in jobs' : k.by = call'[s].id
    <3>. SUFFICES ASSUME NEW s \in Sessions, At(s, "write") PROVE \E k \in jobs' : k.by = call[s].id
      BY <1>0 DEF At
    <3>1. PICK k \in jobs : k.by = call[s].id
      BY DEF IInv, OwnersKnown
    <3>2. k \in jobs' \/ k = j
      BY <1>1
    <3>. QED  BY <1>1, <1>2, <3>1, <3>2
  <2>5. \A s \in Sessions : call'[s].id \in heirs' => call'[s].tool \in Forking
    BY <1>0 DEF IInv, OwnersKnown
  <2>. QED  BY <2>1, <2>2, <2>3, <2>4, <2>5 DEF OwnersKnown
<1>8. \A s \in Sessions : alone'[s] => alone[s] /\ call[s].id = j.by
  BY <1>0
<1>9. JobsTrue'
  <2>. SUFFICES ASSUME NEW s \in Sessions, NEW k \in jobs', At(s, "write")', k.by = call'[s].id, alone'[s]
                PROVE  /\ call'[s].tool = "edit" => Occurs(found'[s])
                       /\ k.text = Wanted(s)'
                       /\ file' = IF k.opened THEN <<>> ELSE found'[s]
    BY DEF JobsTrue
  <2>1. At(s, "write") /\ call[s].id = j.by /\ alone[s] /\ k = n
    BY <1>0, <1>6, <1>8 DEF At
  <2>2. /\ call[s].tool = "edit" => Occurs(found[s])
        /\ j.text = Wanted(s)
    BY <2>1 DEF IInv, JobsTrue
  <2>3. Wanted(s)' = Wanted(s)
    BY <1>0 DEF Wanted
  <2>. QED  BY <1>0, <1>2, <2>1, <2>2, <2>3
<1>10. FilesTrue'
  <2>. SUFFICES ASSUME NEW s \in Sessions, alone'[s] PROVE call'[s].at \notin {"load", "open", "done"}
    BY DEF FilesTrue, At
  <2>. QED  BY <1>0, <1>8 DEF IInv, OwnersKnown
<1>. QED  BY <1>3, <1>4, <1>5, <1>7, <1>9, <1>10 DEF IInv

-----------------------------------------------------------------------------
(* What a process has left behind ends, with a last write or without.      *)

LEMMA HeirKeepsIInv ==
  ASSUME IInv, NEW h \in heirs, HeirEnds(h)
  PROVE  IInv'
<1>0. /\ UNCHANGED <<call, child, jobs, made, found>> /\ heirs' = heirs \ {h}
      /\ UNCHANGED <<file, alone>> \/ Changes(h, Append(file, h))
  BY DEF HeirEnds
<1>1. TypeInv'
  <2>1. file' \in Seq(Nat) /\ alone' \in [Sessions -> BOOLEAN]
    <3>1. file \in Seq(Nat) /\ h \in Nat /\ alone \in [Sessions -> BOOLEAN]
      BY DEF IInv, TypeInv
    <3>2. CASE UNCHANGED <<file, alone>>
      BY <3>1, <3>2
    <3>3. CASE Changes(h, Append(file, h))
      BY <3>1, <3>3 DEF Changes
    <3>. QED  BY <1>0, <3>2, <3>3
  <2>. QED  BY <1>0, <2>1 DEF IInv, TypeInv
<1>2. CallsNumbered' /\ ChildInv'
  BY <1>0 DEF IInv, CallsNumbered, ChildInv, At
<1>3. CommandsTrue'
  BY <1>0 DEF IInv, CommandsTrue, CommandIsTrue, At
<1>4. OwnersKnown'
  BY <1>0 DEF IInv, OwnersKnown, At
<1>5. CASE UNCHANGED <<file, alone>>
  <2>1. JobsTrue'
    BY <1>0, <1>5 DEF IInv, JobsTrue, Wanted, At
  <2>2. FilesTrue'
    BY <1>0, <1>5 DEF IInv, FilesTrue, FileIsTrue, EditedOnce, At
  <2>. QED  BY <1>1, <1>2, <1>3, <1>4, <2>1, <2>2 DEF IInv
<1>6. CASE Changes(h, Append(file, h))
  <2>1. \A s \in Sessions : alone'[s] => call[s].tool \in Forking
    BY <1>6 DEF Changes, IInv, OwnersKnown
  <2>2. JobsTrue'
    BY <1>0, <2>1 DEF IInv, JobsTrue, OwnersKnown, Forking
  <2>3. FilesTrue'
    BY <1>0, <2>1 DEF FilesTrue, Forking
  <2>. QED  BY <1>1, <1>2, <1>3, <1>4, <2>2, <2>3 DEF IInv
<1>. QED  BY <1>0, <1>5, <1>6

-----------------------------------------------------------------------------

LEMMA InitIInv == Init => IInv
<1>. SUFFICES ASSUME Init PROVE IInv
  OBVIOUS
<1>0. /\ call = [s \in Sessions |-> NoCall] /\ child = [s \in Sessions |-> NoChild]
      /\ heirs = {} /\ jobs = {} /\ file = <<Old, Old>> /\ made = 0
      /\ found = [s \in Sessions |-> file] /\ alone = [s \in Sessions |-> FALSE]
  BY DEF Init
<1>1. TypeInv
  <2>1. file \in Seq(Nat)
    BY <1>0 DEF Old
  <2>2. found \in [Sessions -> Seq(Nat)] /\ alone \in [Sessions -> BOOLEAN]
    BY <1>0, <2>1
  <2>3. call \in [Sessions -> Call] /\ child \in [Sessions -> Child]
    BY <1>0, NothingTyped
  <2>. QED  BY <1>0, <2>1, <2>2, <2>3 DEF TypeInv
<1>2. /\ \A s \in Sessions : /\ call[s].id = 0 /\ call[s].at = "idle" /\ call[s].got = 0
                             /\ call[s].tool = "read"
      /\ \A s \in Sessions : /\ ~ child[s].live /\ child[s].said = 0 /\ child[s].stdout = 0
                             /\ ~ alone[s]
  BY <1>0 DEF NoCall, NoChild
<1>3. CallsNumbered
  BY <1>0, <1>2 DEF CallsNumbered, At, StagesOf
<1>4. ChildInv
  BY <1>2 DEF ChildInv, At
<1>5. CommandsTrue
  BY <1>2 DEF CommandsTrue, At
<1>6. OwnersKnown /\ JobsTrue /\ FilesTrue
  BY <1>0, <1>2 DEF OwnersKnown, JobsTrue, FilesTrue, At
<1>. QED  BY <1>1, <1>3, <1>4, <1>5, <1>6 DEF IInv

LEMMA StutterKeepsIInv ==
  ASSUME IInv, UNCHANGED vars
  PROVE  IInv'
<1>0. UNCHANGED <<call, child, heirs, jobs, file, made, found, alone>>
  BY DEF vars
<1>1. TypeInv'
  BY <1>0 DEF IInv, TypeInv
<1>2. CallsNumbered' /\ ChildInv'
  BY <1>0 DEF IInv, CallsNumbered, ChildInv, At
<1>3. CommandsTrue'
  BY <1>0 DEF IInv, CommandsTrue, CommandIsTrue, At
<1>4. OwnersKnown'
  BY <1>0 DEF IInv, OwnersKnown, At
<1>5. JobsTrue'
  BY <1>0 DEF IInv, JobsTrue, Wanted, At
<1>6. FilesTrue'
  BY <1>0 DEF IInv, FilesTrue, FileIsTrue, EditedOnce, At
<1>. QED  BY <1>1, <1>2, <1>3, <1>4, <1>5, <1>6 DEF IInv

LEMMA NextKeepsIInv == IInv /\ [Next]_vars => IInv'
<1>. SUFFICES ASSUME IInv, [Next]_vars PROVE IInv'
  OBVIOUS
<1>1. ASSUME NEW s \in Sessions, NEW t \in Tools[s], Start(s, t) PROVE IInv'
  BY <1>1, StartKeepsIInv
<1>2. ASSUME NEW s \in Sessions, Works(s) \/ Expire(s) \/ Leave(s) \/ Process(s) PROVE IInv'
  BY <1>2, StepKeepsIInv
<1>3. ASSUME NEW j \in jobs, Truncate(j) \/ Fill(j) \/ DiskFails(j) PROVE IInv'
  BY <1>3, TruncateKeepsIInv, FillKeepsIInv, FailKeepsIInv
<1>4. ASSUME NEW h \in heirs, HeirEnds(h) PROVE IInv'
  BY <1>4, HeirKeepsIInv
<1>5. CASE UNCHANGED vars
  BY <1>5, StutterKeepsIInv
<1>. QED  BY <1>1, <1>2, <1>3, <1>4, <1>5 DEF Next

LEMMA Invariance == Spec => []IInv
<1>1. Init => IInv
  BY InitIInv
<1>2. IInv /\ [Next]_vars => IInv'
  BY NextKeepsIInv
<1>. QED  BY <1>1, <1>2, PTL DEF Spec

(* Calls, processes, writes under way and the file have the shapes that    *)
(* tools.rs gives them, in every interleaving.                             *)
THEOREM TypeCorrect == Spec => []TypeInv
<1>1. IInv => TypeInv
  BY DEF IInv
<1>. QED  BY <1>1, Invariance, PTL

(* What a tool spawns lives only while run_command's or exec_toolbox's     *)
(* future waits for it, or writes its arguments: kill_on_drop reaches it   *)
(* wherever the call ends.  What it has started itself may go on, and that *)
(* is so for shells and scripts alone.                                     *)
THEOREM SpawnedProcessesEnd == Spec => []ChildrenFollowCalls
<1>1. IInv => ChildrenFollowCalls
  BY DEF IInv, ChildInv, OwnersKnown, ChildrenFollowCalls
<1>. QED  BY <1>1, Invariance, PTL

(* The result a call reports is what happened: a command's exit with all   *)
(* its output, an edit that replaced one occurrence, a write that left its *)
(* text, and an untouched file under an error, unless somebody else wrote  *)
(* to the file or the disk failed between truncation and text.             *)
THEOREM ResultsAreTrue == Spec => []ResultIsTrue
<1>1. IInv => ResultIsTrue
  <2>. SUFFICES ASSUME IInv, NEW s \in Sessions, At(s, "done")
                PROVE  CommandIsTrue(s) /\ FileIsTrue(s)
    BY DEF ResultIsTrue
  <2>1. CommandIsTrue(s)
    BY DEF IInv, CommandsTrue
  <2>2. FileIsTrue(s)
    BY DEF IInv, FilesTrue, FileIsTrue
  <2>. QED  BY <2>1, <2>2
<1>. QED  BY <1>1, Invariance, PTL

=============================================================================
