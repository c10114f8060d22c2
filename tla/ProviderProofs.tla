---------------------------- MODULE ProviderProofs ----------------------------
(***************************************************************************)
(* Proofs about the three modules of kernex-providers that stand on their  *)
(* own.  CliProviders: for every number of calls, attempts, sessions and   *)
(* left-over files, and whatever the command-line agents do.  Streams: for *)
(* every set of servers, every cutting of their bytes, every line limit    *)
(* and every capacity of the channels.  Dialog: for every set of replies,  *)
(* histories and parameter types, and any number of turns.                 *)
(***************************************************************************)
EXTENDS CliProviders, Streams, Dialog, SequenceTheorems, NaturalsInduction, WellFoundedInduction, TLAPS

(* A CLI call.                                                             *)

Stages == {"idle", "config", "start", "wait", "backoff", "clean", "done", "stored", "gone"}

Names == Sessions \cup {NoSession}

Asked == (UNION {Requests[c] : c \in Calls}) \cup {Idle.asks}

Call ==
  [at : Stages, asks : Asked, file : Nat \cup {NoFile}, tries : Nat, n : Nat,
   given : Names, resume : Names, first : Names, text : Seq(Runs), out : {"none", "ok", "error"},
   refused : BOOLEAN]

Args == [session : Names, file : Nat \cup {NoFile}]

Run ==
  [state : {"none"}] \cup [state : {"runs"}, args : Args]
  \cup [state : {"exited"}, args : Args, is : {"answer", "limit", "failed", "empty"}, session : Names]

TypeInv ==
  /\ call \in [Calls -> Call]
  /\ run \in [Runs -> Run]
  /\ session \in [Sessions -> SUBSET Runs]
  /\ issued \in 0..MaxSessions
  /\ files \in [DOMAIN files -> Calls \cup {"someone"}] /\ DOMAIN files \subseteq Nat
  /\ nextName \in Nat
  /\ row \in Names
  /\ mishaps \in Nat

(* What holds of a call c whose record is d, at each of its stages.        *)

(* From its name's creation to its clean-up a file is its call's.          *)
RightFile(c, d) ==
  /\ d.file \notin Leftovers
  /\ d.at = "config" => d.file = NoFile
  /\ d.at \in {"start", "wait", "backoff", "clean"} /\ d.file # NoFile =>
       d.file \in DOMAIN files /\ files[d.file] = c

RightCount(d) ==
  /\ d.at \in {"config", "start"} => d.n = 0
  /\ d.at = "backoff" => d.n \in 1..MaxAttempts
  /\ d.at = "wait" => d.n \in 1..(MaxAttempts + 1)

(* The run that it waits for was given its file, and the session resumed.  *)
RightRun(c, d) ==
  d.at = "wait" =>
    /\ run[<<c, d.n>>].state \in {"runs", "exited"}
    /\ run[<<c, d.n>>].args.file = d.file
    /\ d.n > 1 => run[<<c, d.n>>].args.session = d.resume

Known(s) == s = NoSession \/ s \in 1..issued

RightNames(d) == Known(d.given) /\ Known(d.resume) /\ Known(d.first)

Holds(s, text) == s # NoSession /\ \A i \in DOMAIN text : text[i] \in session[s]

(* What it has gathered is in the session that it resumes, and in the one  *)
(* that its run reports.                                                   *)
RightWork(c, d) ==
  /\ d.at \in {"config", "start"} \/ (d.at = "wait" /\ d.n = 1) => d.text = <<>>
  /\ d.at = "backoff" \/ (d.at = "wait" /\ d.n > 1) => Holds(d.resume, d.text)
  /\ d.at = "wait" /\ run[<<c, d.n>>].state = "exited" /\ run[<<c, d.n>>].session # NoSession =>
       Holds(run[<<c, d.n>>].session, Append(d.text, <<c, d.n>>))

Right(c, d) ==
  RightFile(c, d) /\ RightCount(d) /\ RightRun(c, d) /\ RightNames(d) /\ RightWork(c, d)

CallsRight == \A c \in Calls : Right(c, call[c])

LeftAlone == \A f \in Leftovers : f \in DOMAIN files /\ files[f] = "someone"

(* Every session that anybody knows of has been handed out.                *)
NamesKnown ==
  /\ Known(row)
  /\ \A r \in Runs : run[r].state # "none" => Known(run[r].args.session)
  /\ \A r \in Runs : run[r].state = "exited" => Known(run[r].session)

IInv == TypeInv /\ CallsRight /\ LeftAlone /\ NamesKnown

-----------------------------------------------------------------------------
(* A step that changes the record of one call only.                        *)

LEMMA CallMoves ==
  ASSUME IInv, NEW c \in Calls, NEW d \in Call, Right(c, d),
         call' = [call EXCEPT ![c] = d], UNCHANGED <<run, session, issued, files>>,
         nextName' \in Nat, mishaps' \in Nat, row' \in Names, Known(row')
  PROVE  IInv'
<1>1. /\ call' \in [Calls -> Call] /\ call'[c] = d
      /\ \A x \in Calls \ {c} : call'[x] = call[x]
  BY DEF IInv, TypeInv
<1>2. TypeInv'
  BY <1>1 DEF IInv, TypeInv
<1>3. \A x \in Calls : Right(x, call'[x])
  BY <1>1 DEF IInv, CallsRight
<1>4. CallsRight'
  BY <1>3, SMTT(30) DEF CallsRight, Right, RightFile, RightCount, RightRun, RightNames, RightWork, Known, Holds
<1>5. LeftAlone' /\ NamesKnown'
  BY DEF IInv, LeftAlone, NamesKnown, Known
<1>. QED  BY <1>2, <1>4, <1>5 DEF IInv

LEMMA IdleTyped == Idle \in Call
<1>1. [provider |-> "none", fixed |-> TRUE] \in Asked
  <2>1. Idle.asks = [provider |-> "none", fixed |-> TRUE]
    BY DEF Idle
  <2>2. Idle.asks \in Asked
    BY DEF Asked
  <2>. QED  BY <2>1, <2>2
<1>2. <<>> \in Seq(Runs) /\ NoSession \in Names /\ "idle" \in Stages
  BY DEF Names, Stages
<1>. QED  BY <1>1, <1>2 DEF Idle, Call

LEMMA BeginKeepsIInv ==
  ASSUME IInv, NEW c \in Calls, Begin(c)
  PROVE  IInv'
<1>1. PICK q \in Requests[c], at \in {"config", "start"} :
        call' = [call EXCEPT ![c] = [Idle EXCEPT !.at = at, !.asks = q, !.given = row]]
  BY DEF Begin
<1>2. PICK d : d = [Idle EXCEPT !.at = at, !.asks = q, !.given = row] /\ call' = [call EXCEPT ![c] = d]
  BY <1>1
<1>3. /\ d \in Call /\ d.at = at /\ d.given = row
      /\ d.file = Idle.file /\ d.n = Idle.n /\ d.text = Idle.text
      /\ d.resume = Idle.resume /\ d.first = Idle.first
  <2>1. row \in Names /\ q \in Asked
    BY DEF IInv, TypeInv, Asked
  <2>. QED  BY <1>2, <2>1, IdleTyped DEF Call, Stages
<1>4. /\ d.file = NoFile /\ d.n = 0 /\ d.text = <<>> /\ d.resume = NoSession /\ d.first = NoSession
      /\ d.at \in {"config", "start"}
  BY <1>3 DEF Idle
<1>5. NoFile \notin Leftovers
  BY CliAssumption DEF NoFile
<1>6. Right(c, d)
  BY <1>3, <1>4, <1>5
     DEF Right, RightFile, RightCount, RightRun, RightNames, RightWork, Known, IInv, NamesKnown
<1>. QED  BY <1>2, <1>3, <1>6, CallMoves DEF Begin, IInv, TypeInv, NamesKnown

(* A call that gives up, drops out, or goes to its clean-up, keeping file  *)
(* and sessions.                                                           *)
LEMMA CallSettles ==
  ASSUME IInv, NEW c \in Calls, NEW d \in Call,
         d.at \in {"clean", "gone", "stored"}, d.file = call[c].file,
         d.at = "clean" => call[c].at \in {"start", "wait", "backoff"},
         RightNames(d)
  PROVE  Right(c, d)
  BY DEF Right, RightFile, RightCount, RightRun, RightWork, IInv, CallsRight

LEMMA FailedRight ==
  ASSUME IInv, NEW c \in Calls, NEW n \in 1..(MaxAttempts + 1),
         \/ call[c].at = "wait" /\ n = call[c].n
         \/ call[c].at \in {"start", "backoff"} /\ n = call[c].n + 1
  PROVE  Failed(c, n) \in Call /\ Right(c, Failed(c, n))
<1>0. /\ call[c] \in Call /\ call[c].n \in Nat /\ n \in Nat /\ MaxAttempts \in Nat
      /\ Right(c, call[c])
  BY CliAssumption DEF IInv, TypeInv, CallsRight, Call
<1>1. CASE n = 1
  <2>1. PICK d : d = [call[c] EXCEPT !.n = n, !.at = "clean", !.out = "error"] /\ d = Failed(c, n)
    BY <1>1 DEF Failed
  <2>2. d \in Call
    BY <1>0, <2>1 DEF Call, Stages
  <2>3. /\ d.at = "clean" /\ d.file = call[c].file
        /\ d.given = call[c].given /\ d.resume = call[c].resume /\ d.first = call[c].first
    BY <1>0, <2>1 DEF Call
  <2>4. RightNames(d)
    BY <1>0, <2>3 DEF Right, RightNames
  <2>. QED  BY <2>1, <2>2, <2>3, <2>4, CallSettles
<1>2. CASE n # 1
  <2>1. PICK at, d : /\ at = IF n <= MaxAttempts THEN "backoff" ELSE "clean"
                     /\ d = [call[c] EXCEPT !.n = n, !.at = at] /\ d = Failed(c, n)
    BY <1>2 DEF Failed
  <2>2. d \in Call
    BY <1>0, <2>1 DEF Call, Stages
  <2>3. /\ d.at = at /\ d.file = call[c].file /\ d.n = n /\ d.text = call[c].text
        /\ d.given = call[c].given /\ d.resume = call[c].resume /\ d.first = call[c].first
    BY <1>0, <2>1 DEF Call
  <2>4. RightNames(d)
    BY <1>0, <2>3 DEF Right, RightNames
  <2>5. CASE at = "clean"
    BY <2>1, <2>2, <2>3, <2>4, <2>5, CallSettles
  <2>6. CASE at = "backoff"
    <3>1. n <= MaxAttempts /\ n > 1
      BY <1>0, <1>2, <2>1, <2>6
    <3>2. call[c].at = "backoff" \/ (call[c].at = "wait" /\ call[c].n > 1)
      <4>1. CASE call[c].at = "start"
        BY <1>0, <1>2, <4>1 DEF Right, RightCount
      <4>. QED  BY <3>1, <4>1
    <3>3. Holds(d.resume, d.text)
      BY <1>0, <2>3, <3>2 DEF Right, RightWork
    <3>4. RightFile(c, d)
      BY <1>0, <2>3, <2>6 DEF Right, RightFile
    <3>5. RightCount(d) /\ RightRun(c, d) /\ RightWork(c, d)
      BY <1>0, <2>3, <2>6, <3>1, <3>3 DEF RightCount, RightRun, RightWork
    <3>. QED  BY <2>1, <2>2, <2>4, <3>4, <3>5 DEF Right
  <2>. QED  BY <2>1, <2>5, <2>6
<1>. QED  BY <1>1, <1>2

LEMMA RefusedKeepsIInv ==
  ASSUME IInv, NEW c \in Calls, RunRefused(c) \/ TimeOut(c)
  PROVE  IInv'
<1>0. call[c].n \in Nat /\ MaxAttempts \in Nat /\ RightCount(call[c])
  BY CliAssumption DEF IInv, TypeInv, Call, CallsRight, Right
<1>1. PICK n \in 1..(MaxAttempts + 1) :
        /\ \/ call[c].at = "wait" /\ n = call[c].n
           \/ call[c].at \in {"start", "backoff"} /\ n = call[c].n + 1
        /\ call' = [call EXCEPT ![c] = Failed(c, n)]
  <2>1. CASE RunRefused(c)
    <3>1. call[c].n + 1 \in 1..(MaxAttempts + 1)
      BY <1>0, <2>1 DEF RightCount, RunRefused
    <3>. QED  BY <2>1, <3>1 DEF RunRefused
  <2>2. CASE TimeOut(c)
    BY <1>0, <2>2 DEF RightCount, TimeOut
  <2>. QED  BY <2>1, <2>2
<1>2. PICK d : d = Failed(c, n) /\ call' = [call EXCEPT ![c] = d]
  BY <1>1
<1>3. d \in Call /\ Right(c, d)
  BY <1>1, <1>2, FailedRight
<1>. QED  BY <1>2, <1>3, CallMoves DEF RunRefused, TimeOut, IInv, TypeInv, NamesKnown

LEMMA DropKeepsIInv ==
  ASSUME IInv, NEW c \in Calls, Drop(c)
  PROVE  IInv'
<1>0. call[c] \in Call /\ RightNames(call[c])
  BY DEF IInv, TypeInv, CallsRight, Right
<1>1. PICK d : d = [call[c] EXCEPT !.at = "gone"] /\ call' = [call EXCEPT ![c] = d]
  BY <1>0 DEF Drop, IInv, TypeInv
<1>2. /\ d \in Call /\ d.at = "gone" /\ d.file = call[c].file
      /\ d.given = call[c].given /\ d.resume = call[c].resume /\ d.first = call[c].first
  BY <1>0, <1>1 DEF Call, Stages
<1>3. Right(c, d)
  BY <1>0, <1>2, CallSettles DEF RightNames
<1>4. mishaps' \in Nat
  BY DEF Drop, IInv, TypeInv
<1>. QED  BY <1>1, <1>2, <1>3, <1>4, CallMoves DEF Drop, IInv, TypeInv, NamesKnown

LEMMA StoreKeepsIInv ==
  ASSUME IInv, NEW c \in Calls, StoreSession(c)
  PROVE  IInv'
<1>0. call[c] \in Call /\ RightNames(call[c])
  BY DEF IInv, TypeInv, CallsRight, Right
<1>1. PICK d : d = [call[c] EXCEPT !.at = "stored"] /\ call' = [call EXCEPT ![c] = d]
  BY <1>0 DEF StoreSession, IInv, TypeInv
<1>2. /\ d \in Call /\ d.at = "stored" /\ d.file = call[c].file
      /\ d.given = call[c].given /\ d.resume = call[c].resume /\ d.first = call[c].first
  BY <1>0, <1>1 DEF Call, Stages
<1>3. Right(c, d)
  BY <1>0, <1>2, CallSettles DEF RightNames
<1>4. row' \in Names /\ Known(row')
  BY <1>0 DEF StoreSession, RightNames, Call, IInv, TypeInv, NamesKnown
<1>. QED  BY <1>1, <1>2, <1>3, <1>4, CallMoves DEF StoreSession, IInv, TypeInv

LEMMA CollectKeepsIInv ==
  ASSUME IInv, NEW c \in Calls, Collect(c)
  PROVE  IInv'
<1>0. /\ call[c] \in Call /\ call[c].n \in Nat /\ MaxAttempts \in Nat /\ Right(c, call[c])
      /\ call[c].at = "wait" /\ call[c].text \in Seq(Runs)
  BY CliAssumption DEF IInv, TypeInv, CallsRight, Call, Collect
<1>n. call[c].n \in 1..(MaxAttempts + 1) /\ <<c, call[c].n>> \in Runs
  BY <1>0 DEF Right, RightCount, Runs
<1>1. PICK r : r = run[<<c, call[c].n>>]
  OBVIOUS
<1>2. /\ r.state = "exited" /\ r.session \in Names /\ Known(r.session)
      /\ r.session # NoSession => Holds(r.session, Append(call[c].text, <<c, call[c].n>>))
  <2>1. r.state = "exited" /\ r \in Run
    BY <1>1, <1>n DEF Collect, IInv, TypeInv
  <2>2. r.session \in Names
    BY <2>1 DEF Run
  <2>3. Known(r.session)
    BY <1>1, <1>n, <2>1 DEF IInv, NamesKnown
  <2>. QED  BY <1>0, <1>1, <2>1, <2>2, <2>3 DEF Right, RightWork
<1>f. RightFile(c, call[c]) /\ RightNames(call[c])
  BY <1>0 DEF Right
<1>3. PICK d : /\ call' = [call EXCEPT ![c] = d]
               /\ \/ d = Failed(c, call[c].n)
                  \/ call[c].n = 1 /\ d = FirstReply(c, r)
                  \/ call[c].n # 1 /\ d = NextReply(c, r)
  BY <1>1 DEF Collect
<1>4. CASE d = Failed(c, call[c].n)
  <2>1. d \in Call /\ Right(c, d)
    BY <1>0, <1>n, <1>4, FailedRight
  <2>. QED  BY <1>3, <2>1, CallMoves DEF Collect, IInv, TypeInv, NamesKnown
<1>5. CASE call[c].n = 1 /\ d = FirstReply(c, r)
  <2>1. PICK at : /\ d = [call[c] EXCEPT !.text = <<<<c, 1>>>>, !.out = "ok", !.first = r.session,
                                         !.resume = r.session, !.at = at]
                  /\ \/ at = "clean"
                     \/ at = "backoff" /\ r.session # NoSession /\ MaxAttempts > 0
    BY <1>5 DEF FirstReply
  <2>2. <<<<c, 1>>>> \in Seq(Runs)
    BY <1>n, <1>5
  <2>3. /\ d \in Call /\ d.at = at /\ d.n = 1 /\ d.file = call[c].file /\ d.text = <<<<c, 1>>>>
        /\ d.resume = r.session /\ d.first = r.session /\ d.given = call[c].given
    BY <1>0, <1>2, <1>5, <2>1, <2>2, ZenonT(30) DEF Call, Stages
  <2>4. RightNames(d)
    BY <1>2, <1>f, <2>3 DEF RightNames
  <2>5. at = "backoff" => Holds(d.resume, d.text)
    <3>1. call[c].text = <<>>
      BY <1>0, <1>5 DEF Right, RightWork
    <3>2. Append(call[c].text, <<c, 1>>) = <<<<c, 1>>>>
      BY <3>1
    <3>. QED  BY <1>2, <1>5, <2>1, <2>3, <3>2
  <2>6. Right(c, d)
    <3>1. RightFile(c, d)
      BY <1>0, <1>f, <2>1, <2>3 DEF RightFile
    <3>2. RightCount(d) /\ RightRun(c, d)
      BY <1>0, <2>1, <2>3 DEF RightCount, RightRun
    <3>3. RightWork(c, d)
      BY <2>1, <2>3, <2>5 DEF RightWork
    <3>. QED  BY <2>4, <3>1, <3>2, <3>3 DEF Right
  <2>. QED  BY <1>3, <2>3, <2>6, CallMoves DEF Collect, IInv, TypeInv, NamesKnown
<1>6. CASE call[c].n # 1 /\ d = NextReply(c, r)
  <2>1. PICK text, resume, at :
          /\ d = [call[c] EXCEPT !.text = text, !.resume = resume, !.at = at]
          /\ text = Append(call[c].text, <<c, call[c].n>>)
          /\ \/ at = "clean" /\ resume \in {r.session, call[c].resume}
             \/ at = "backoff" /\ resume = r.session /\ r.session # NoSession /\ call[c].n <= MaxAttempts
    BY <1>6 DEF NextReply
  <2>2. text \in Seq(Runs) /\ resume \in Names /\ Known(resume)
    <3>1. text \in Seq(Runs)
      BY <1>0, <1>n, <2>1
    <3>2. resume \in {r.session, call[c].resume}
      BY <2>1
    <3>3. call[c].resume \in Names /\ Known(call[c].resume)
      BY <1>0, <1>f DEF Call, RightNames
    <3>. QED  BY <1>2, <3>1, <3>2, <3>3
  <2>3. /\ d \in Call /\ d.at = at /\ d.n = call[c].n /\ d.file = call[c].file /\ d.text = text
        /\ d.resume = resume /\ d.first = call[c].first /\ d.given = call[c].given
    BY <1>0, <2>1, <2>2 DEF Call, Stages
  <2>4. RightNames(d)
    BY <1>f, <2>2, <2>3 DEF RightNames
  <2>5. at = "backoff" => Holds(d.resume, d.text) /\ d.n \in 1..MaxAttempts
    BY <1>2, <1>n, <2>1, <2>3
  <2>6. Right(c, d)
    <3>1. RightFile(c, d)
      BY <1>0, <1>f, <2>1, <2>3 DEF RightFile
    <3>2. RightCount(d) /\ RightRun(c, d)
      BY <2>1, <2>3, <2>5 DEF RightCount, RightRun
    <3>3. RightWork(c, d)
      BY <2>1, <2>3, <2>5 DEF RightWork
    <3>. QED  BY <2>4, <3>1, <3>2, <3>3 DEF Right
  <2>. QED  BY <1>3, <2>3, <2>6, CallMoves DEF Collect, IInv, TypeInv, NamesKnown
<1>. QED  BY <1>3, <1>4, <1>5, <1>6

-----------------------------------------------------------------------------
(* Steps that touch the directory.                                         *)

(* A file with a new name disturbs nobody.                                 *)
LEMMA FileAdded ==
  ASSUME IInv, NEW c \in Calls, NEW d \in Call, NEW f \in Nat \ DOMAIN files,
         call' = [call EXCEPT ![c] = d], d.at = "start", d.n = 0, d.text = <<>>, RightNames(d),
         d.file \in {NoFile, f},
         files' = [g \in DOMAIN files \cup {f} |-> IF g = f THEN c ELSE files[g]],
         nextName' \in Nat, mishaps' \in Nat, UNCHANGED <<run, session, issued, row>>
  PROVE  IInv'
<1>1. /\ call' \in [Calls -> Call] /\ call'[c] = d
      /\ \A x \in Calls \ {c} : call'[x] = call[x]
  BY DEF IInv, TypeInv
<1>2. /\ DOMAIN files' = DOMAIN files \cup {f} /\ files'[f] = c
      /\ \A g \in DOMAIN files : files'[g] = files[g]
      /\ files' \in [DOMAIN files' -> Calls \cup {"someone"}]
  BY DEF IInv, TypeInv
<1>3. TypeInv'
  BY <1>1, <1>2 DEF IInv, TypeInv
<1>4. LeftAlone' /\ NamesKnown'
  BY <1>2 DEF IInv, LeftAlone, NamesKnown, Known
<1>5. d.file \notin Leftovers
  BY CliAssumption DEF NoFile, IInv, LeftAlone
<1>6. \A x \in Calls \ {c} : RightFile(x, call[x])'
  BY <1>1, <1>2 DEF IInv, CallsRight, Right, RightFile
<1>7. RightFile(c, call[c])'
  BY <1>1, <1>2, <1>5 DEF RightFile
<1>8. ASSUME NEW x \in Calls \ {c}
      PROVE  (RightCount(call[x]) /\ RightRun(x, call[x]) /\ RightNames(call[x]) /\ RightWork(x, call[x]))'
  BY <1>1 DEF IInv, CallsRight, Right, RightCount, RightRun, RightNames, RightWork, Known, Holds
<1>9. (RightCount(call[c]) /\ RightRun(c, call[c]) /\ RightNames(call[c]) /\ RightWork(c, call[c]))'
  BY <1>1 DEF RightCount, RightRun, RightNames, RightWork, Known
<1>. QED  BY <1>3, <1>4, <1>6, <1>7, <1>8, <1>9 DEF IInv, CallsRight, Right

LEMMA ConfigKeepsIInv ==
  ASSUME IInv, NEW c \in Calls, TakeName(c) \/ WriteFails(c)
  PROVE  IInv'
<1>0. /\ call[c] \in Call /\ call[c].at = "config" /\ call[c].file = NoFile /\ call[c].n = 0
      /\ call[c].text = <<>> /\ RightNames(call[c]) /\ Right(c, call[c]) /\ nextName \in Nat
  BY DEF IInv, TypeInv, CallsRight, Right, RightFile, RightCount, RightWork, TakeName, WriteFails
<1>1. nextName' \in Nat /\ mishaps' \in Nat /\ UNCHANGED <<run, session, issued, row>>
  <2>1. mishaps \in Nat
    BY DEF IInv, TypeInv
  <2>2. CASE TakeName(c)
    BY <1>0, <2>1, <2>2 DEF TakeName
  <2>3. CASE WriteFails(c)
    BY <1>0, <2>1, <2>3 DEF WriteFails
  <2>. QED  BY <2>2, <2>3
<1>. DEFINE Moved(file, tries, at, refused) ==
       [call[c] EXCEPT !.file = file, !.tries = tries, !.at = at, !.refused = refused]
<1>2. ASSUME NEW file \in {NoFile, nextName}, NEW tries \in Nat, NEW at \in {"config", "start"},
             NEW refused \in BOOLEAN
      PROVE  \E d \in Call :
               /\ d = Moved(file, tries, at, refused)
               /\ d.at = at /\ d.file = file /\ d.n = 0 /\ d.text = <<>> /\ RightNames(d)
  <2>1. PICK d : d = Moved(file, tries, at, refused)
    OBVIOUS
  <2>2. /\ d \in Call /\ d.at = at /\ d.file = file /\ d.n = call[c].n /\ d.text = call[c].text
        /\ d.given = call[c].given /\ d.resume = call[c].resume /\ d.first = call[c].first
    BY <1>0, <2>1 DEF Call, Stages
  <2>3. RightNames(d)
    BY <1>0, <2>2 DEF RightNames
  <2>. QED  BY <1>0, <2>1, <2>2, <2>3
<1>3. CASE UNCHANGED files
  <2>1. PICK tries \in Nat, at \in {"config", "start"}, refused \in BOOLEAN :
          call' = [call EXCEPT ![c] = Moved(NoFile, tries, at, refused)]
    <3>1. call[c].tries \in Nat /\ call[c].tries + 1 \in Nat
      BY <1>0 DEF Call
    <3>2. CASE TakeName(c) /\ nextName \in DOMAIN files
      <4>1. PICK at \in {"config", "start"} :
              call' = [call EXCEPT ![c] = [call[c] EXCEPT !.tries = call[c].tries + 1, !.at = at]]
        BY <3>2 DEF TakeName, IInv, TypeInv
      <4>2. [call[c] EXCEPT !.tries = call[c].tries + 1, !.at = at]
              = [call[c] EXCEPT !.file = NoFile, !.tries = call[c].tries + 1, !.at = at,
                                !.refused = call[c].refused]
        BY <1>0 DEF Call
      <4>3. call[c].refused \in BOOLEAN
        BY <1>0 DEF Call
      <4>. QED  BY <3>1, <4>1, <4>2, <4>3
    <3>3. CASE WriteFails(c)
      <4>1. call' = [call EXCEPT ![c] = [call[c] EXCEPT !.at = "start", !.refused = TRUE]]
        BY <3>3 DEF WriteFails, IInv, TypeInv
      <4>2. [call[c] EXCEPT !.at = "start", !.refused = TRUE]
              = [call[c] EXCEPT !.file = NoFile, !.tries = call[c].tries, !.at = "start", !.refused = TRUE]
        BY <1>0 DEF Call
      <4>. QED  BY <3>1, <4>1, <4>2
    <3>4. ~ (TakeName(c) /\ nextName \notin DOMAIN files)
      <4>. SUFFICES ASSUME TakeName(c), nextName \notin DOMAIN files PROVE FALSE
        OBVIOUS
      <4>1. files' = [f \in DOMAIN files \cup {nextName} |-> IF f = nextName THEN c ELSE files[f]]
        BY DEF TakeName
      <4>2. DOMAIN files' = DOMAIN files \cup {nextName}
        BY <4>1
      <4>. QED  BY <1>3, <4>2
    <3>. QED  BY <3>2, <3>3, <3>4
  <2>2. PICK d \in Call : /\ d = Moved(NoFile, tries, at, refused)
                          /\ d.at = at /\ d.file = NoFile /\ d.n = 0 /\ d.text = <<>> /\ RightNames(d)
    <3>. HIDE DEF Moved
    <3>. QED  BY <1>2
  <2>3. RightFile(c, d)
    BY <1>0, <2>2 DEF RightFile, Right
  <2>4. Right(c, d)
    BY <2>2, <2>3 DEF Right, RightCount, RightRun, RightWork
  <2>. QED  BY <1>1, <1>3, <2>1, <2>2, <2>4, CallMoves DEF IInv, TypeInv, NamesKnown
<1>4. CASE ~ UNCHANGED files
  <2>1. PICK file \in {NoFile, nextName}, refused \in BOOLEAN :
          /\ nextName \notin DOMAIN files
          /\ files' = [f \in DOMAIN files \cup {nextName} |-> IF f = nextName THEN c ELSE files[f]]
          /\ call' = [call EXCEPT ![c] = Moved(file, call[c].tries, "start", refused)]
    <3>1. CASE TakeName(c)
      <4>1. /\ nextName \notin DOMAIN files
            /\ files' = [f \in DOMAIN files \cup {nextName} |-> IF f = nextName THEN c ELSE files[f]]
            /\ call' = [call EXCEPT ![c] = [call[c] EXCEPT !.file = nextName, !.at = "start"]]
        BY <1>4, <3>1 DEF TakeName, IInv, TypeInv
      <4>2. [call[c] EXCEPT !.file = nextName, !.at = "start"]
              = [call[c] EXCEPT !.file = nextName, !.tries = call[c].tries, !.at = "start",
                                !.refused = call[c].refused]
        BY <1>0 DEF Call
      <4>3. call[c].refused \in BOOLEAN
        BY <1>0 DEF Call
      <4>. QED  BY <4>1, <4>2, <4>3
    <3>2. CASE WriteFails(c)
      <4>1. /\ nextName \notin DOMAIN files
            /\ files' = [f \in DOMAIN files \cup {nextName} |-> IF f = nextName THEN c ELSE files[f]]
            /\ call' = [call EXCEPT ![c] = [call[c] EXCEPT !.at = "start", !.refused = TRUE]]
        BY <1>4, <3>2 DEF WriteFails, IInv, TypeInv
      <4>2. [call[c] EXCEPT !.at = "start", !.refused = TRUE]
              = [call[c] EXCEPT !.file = NoFile, !.tries = call[c].tries, !.at = "start", !.refused = TRUE]
        BY <1>0 DEF Call
      <4>. QED  BY <4>1, <4>2
    <3>. QED  BY <3>1, <3>2
  <2>2. PICK tries \in Nat : tries = call[c].tries
    BY <1>0 DEF Call
  <2>3. PICK d \in Call : /\ d = Moved(file, tries, "start", refused)
                          /\ d.at = "start" /\ d.file = file /\ d.n = 0 /\ d.text = <<>> /\ RightNames(d)
    <3>. HIDE DEF Moved
    <3>. QED  BY <1>2, <2>2
  <2>4. call' = [call EXCEPT ![c] = d]
    BY <2>1, <2>2, <2>3
  <2>5. nextName \in Nat \ DOMAIN files /\ d.file \in {NoFile, nextName}
    BY <1>0, <2>1, <2>3
  <2>6. PICK f \in Nat \ DOMAIN files : f = nextName
    BY <2>5
  <2>7. files' = [g \in DOMAIN files \cup {f} |-> IF g = f THEN c ELSE files[g]]
    BY <2>1, <2>6
  <2>. QED  BY <1>1, <2>3, <2>4, <2>5, <2>6, <2>7, FileAdded
<1>. QED  BY <1>3, <1>4

LEMMA CleanUpKeepsIInv ==
  ASSUME IInv, NEW c \in Calls, CleanUp(c)
  PROVE  IInv'
<1>0. /\ call[c] \in Call /\ call[c].at = "clean" /\ Right(c, call[c])
      /\ UNCHANGED <<run, session, issued, nextName, row, mishaps>>
      /\ files' = [f \in DOMAIN files \ {call[c].file} |-> files[f]]
  BY DEF CleanUp, IInv, TypeInv, CallsRight
<1>1. PICK d : d = [call[c] EXCEPT !.at = "done"] /\ call' = [call EXCEPT ![c] = d]
  BY DEF CleanUp, IInv, TypeInv
<1>2. /\ d \in Call /\ d.at = "done" /\ d.file = call[c].file
      /\ d.given = call[c].given /\ d.resume = call[c].resume /\ d.first = call[c].first
  BY <1>0, <1>1 DEF Call, Stages
<1>3. /\ call' \in [Calls -> Call] /\ call'[c] = d
      /\ \A x \in Calls \ {c} : call'[x] = call[x]
  BY <1>1, <1>2 DEF IInv, TypeInv
<1>4. /\ DOMAIN files' = DOMAIN files \ {call[c].file}
      /\ \A f \in DOMAIN files' : files'[f] = files[f]
      /\ files' \in [DOMAIN files' -> Calls \cup {"someone"}]
  BY <1>0 DEF IInv, TypeInv
<1>5. TypeInv'
  BY <1>0, <1>3, <1>4 DEF IInv, TypeInv
<1>6. call[c].file \notin Leftovers
  BY <1>0 DEF Right, RightFile
<1>7. LeftAlone' /\ NamesKnown'
  BY <1>0, <1>4, <1>6 DEF IInv, LeftAlone, NamesKnown, Known
<1>8. ASSUME NEW x \in Calls \ {c} PROVE RightFile(x, call[x])'
  <2>1. call'[x] = call[x] /\ RightFile(x, call[x])
    BY <1>3 DEF IInv, CallsRight, Right
  <2>2. ASSUME call[x].at \in {"start", "wait", "backoff", "clean"}, call[x].file # NoFile
        PROVE  call[x].file \in DOMAIN files' /\ files'[call[x].file] = x
    <3>1. call[x].file \in DOMAIN files /\ files[call[x].file] = x
      BY <2>1, <2>2 DEF RightFile
    <3>2. call[x].file # call[c].file
      BY <1>0, <2>2, <3>1 DEF Right, RightFile
    <3>. QED  BY <1>4, <3>1, <3>2
  <2>. QED  BY <2>1, <2>2 DEF RightFile
<1>9. RightFile(c, call[c])'
  BY <1>2, <1>3, <1>6 DEF RightFile
<1>10. ASSUME NEW x \in Calls \ {c}
       PROVE  (RightCount(call[x]) /\ RightRun(x, call[x]) /\ RightNames(call[x]) /\ RightWork(x, call[x]))'
  BY <1>0, <1>3, ZenonT(30) DEF IInv, CallsRight, Right, RightCount, RightRun, RightNames, RightWork, Known, Holds
<1>11. (RightCount(call[c]) /\ RightRun(c, call[c]) /\ RightNames(call[c]) /\ RightWork(c, call[c]))'
  BY <1>0, <1>2, <1>3 DEF Right, RightCount, RightRun, RightNames, RightWork, Known
<1>. QED  BY <1>5, <1>7, <1>8, <1>9, <1>10, <1>11 DEF IInv, CallsRight, Right

-----------------------------------------------------------------------------
(* A run starts, and a run ends.                                           *)

LEMMA StartKeepsIInv ==
  ASSUME IInv, NEW c \in Calls, NEW args \in Args, Start(c, args),
         UNCHANGED <<session, issued, files, nextName, row, mishaps>>,
         call[c].at \in {"start", "backoff"}, args.file = call[c].file, Known(args.session),
         call[c].at = "backoff" => args.session = call[c].resume
  PROVE  IInv'
<1>0. /\ call[c] \in Call /\ call[c].n \in Nat /\ Right(c, call[c]) /\ MaxAttempts \in Nat
      /\ run \in [Runs -> Run]
  BY CliAssumption DEF IInv, TypeInv, CallsRight, Call
<1>1. PICK n : n = call[c].n + 1
  OBVIOUS
<1>2. PICK d : d = [call[c] EXCEPT !.at = "wait", !.n = n] /\ call' = [call EXCEPT ![c] = d]
  BY <1>1 DEF Start, IInv, TypeInv
<1>3. n \in 1..(MaxAttempts + 1) /\ (n > 1 <=> call[c].at = "backoff")
  BY <1>0, <1>1 DEF Right, RightCount
<1>4. /\ d \in Call /\ d.at = "wait" /\ d.n = n /\ d.file = call[c].file /\ d.text = call[c].text
      /\ d.given = call[c].given /\ d.resume = call[c].resume /\ d.first = call[c].first
  <2>1. n \in Nat
    BY <1>0, <1>1
  <2>. QED  BY <1>0, <1>2, <2>1 DEF Call, Stages
<1>5. /\ call' \in [Calls -> Call] /\ call'[c] = d
      /\ \A x \in Calls \ {c} : call'[x] = call[x]
  BY <1>2, <1>4 DEF IInv, TypeInv
<1>6. PICK q : q = [state |-> "runs", args |-> args] /\ run' = [run EXCEPT ![<<c, n>>] = q]
  BY <1>1 DEF Start
<1>7. q \in Run /\ q.state = "runs" /\ q.args = args /\ <<c, n>> \in Runs
  BY <1>3, <1>6 DEF Run, Runs
<1>8. /\ run' \in [Runs -> Run] /\ run'[<<c, n>>] = q
      /\ \A r \in Runs \ {<<c, n>>} : run'[r] = run[r]
  BY <1>0, <1>6, <1>7
<1>9. TypeInv'
  BY <1>5, <1>8 DEF IInv, TypeInv
<1>10. LeftAlone'
  BY DEF IInv, LeftAlone
<1>11. NamesKnown'
  <2>1. \A r \in Runs : run'[r].state # "none" => Known(run'[r].args.session)
    BY <1>7, <1>8 DEF IInv, NamesKnown
  <2>2. \A r \in Runs : run'[r].state = "exited" => Known(run'[r].session)
    BY <1>7, <1>8 DEF IInv, NamesKnown
  <2>. QED  BY <2>1, <2>2 DEF IInv, NamesKnown, Known
<1>12. ASSUME NEW x \in Calls \ {c} PROVE Right(x, call[x])'
  <2>1. call'[x] = call[x] /\ Right(x, call[x])
    BY <1>5 DEF IInv, CallsRight
  <2>2. call[x].at = "wait" => run'[<<x, call[x].n>>] = run[<<x, call[x].n>>]
    BY <1>8, <2>1 DEF Right, RightCount, Runs
  <2>. QED
    BY <2>1, <2>2 DEF Right, RightFile, RightCount, RightRun, RightNames, RightWork, Known, Holds
<1>13. Right(c, call[c])'
  <2>1. RightFile(c, call[c])' /\ RightCount(call[c])' /\ RightNames(call[c])'
    BY <1>0, <1>3, <1>4, <1>5 DEF Right, RightFile, RightCount, RightNames, Known
  <2>2. RightRun(c, call[c])'
    BY <1>3, <1>4, <1>5, <1>7, <1>8 DEF RightRun
  <2>3. RightWork(c, call[c])'
    <3>1. d.n = 1 => d.text = <<>>
      BY <1>0, <1>3, <1>4 DEF Right, RightWork
    <3>2. d.n > 1 => Holds(d.resume, d.text)
      BY <1>0, <1>3, <1>4 DEF Right, RightWork
    <3>. QED  BY <1>4, <1>5, <1>7, <1>8, <3>1, <3>2 DEF RightWork, Holds
  <2>. QED  BY <2>1, <2>2, <2>3 DEF Right
<1>. QED  BY <1>9, <1>10, <1>11, <1>12, <1>13 DEF IInv, CallsRight

LEMMA RunKeepsIInv ==
  ASSUME IInv, NEW c \in Calls, FirstRun(c) \/ Resume(c)
  PROVE  IInv'
<1>0. call[c] \in Call /\ RightNames(call[c])
  BY DEF IInv, TypeInv, CallsRight, Right
<1>1. CASE FirstRun(c)
  <2>1. PICK args : args = RunArgs(c) /\ Start(c, args)
    BY <1>1 DEF FirstRun
  <2>2. args.session \in {NoSession, call[c].given} /\ args.file = call[c].file /\ args \in Args
    BY <1>0, <2>1 DEF RunArgs, Args, Call, Names
  <2>3. Known(args.session)
    BY <1>0, <2>2 DEF Known, RightNames
  <2>. QED  BY <1>1, <2>1, <2>2, <2>3, StartKeepsIInv DEF FirstRun
<1>2. CASE Resume(c)
  <2>1. PICK args : args = ResumeArgs(c) /\ Start(c, args)
    BY <1>2 DEF Resume
  <2>2. args.session = call[c].resume /\ args.file = call[c].file /\ args \in Args
    BY <1>0, <2>1 DEF ResumeArgs, Args, Call
  <2>3. Known(args.session)
    BY <1>0, <2>2 DEF RightNames
  <2>. QED  BY <1>2, <2>1, <2>2, <2>3, StartKeepsIInv DEF Resume
<1>. QED  BY <1>1, <1>2

(* A run's end adds it to one session's work, and takes nothing from a     *)
(* session that anybody knows of.                                          *)
Joins(r, s) ==
  /\ issued' \in 0..MaxSessions /\ issued <= issued'
  /\ session' \in [Sessions -> SUBSET Runs]
  /\ \A t \in 1..issued : session[t] \subseteq session'[t]
  /\ s # NoSession =>
       /\ s \in 1..issued' /\ r \in session'[s]
       /\ run[r].args.session # NoSession => session[run[r].args.session] \subseteq session'[s]

LEMMA ExitTyped ==
  ASSUME IInv, NEW r \in Runs, Exit(r)
  PROVE  \E s, is :
           /\ s \in Names
           /\ run' = [run EXCEPT ![r] = [state |-> "exited", args |-> run[r].args, is |-> is, session |-> s]]
           /\ is \in {"answer", "limit", "failed", "empty"}
           /\ Joins(r, s)
<1>0. /\ run \in [Runs -> Run] /\ session \in [Sessions -> SUBSET Runs] /\ issued \in Nat
      /\ issued <= MaxSessions /\ MaxSessions \in Nat /\ run[r].state = "runs" /\ run[r] \in Run
  BY CliAssumption DEF IInv, TypeInv, Exit
<1>1. PICK given : given = run[r].args.session
  OBVIOUS
<1>2. given \in Names /\ Known(given) /\ 1..issued \subseteq Sessions /\ issued \in 0..MaxSessions
  <2>1. given \in Names
    BY <1>0, <1>1 DEF Run, Args
  <2>. QED  BY <1>0, <1>1, <2>1 DEF IInv, NamesKnown, Sessions
<1>3. PICK is \in {"answer", "limit", "failed", "empty"}, s \in Names :
        /\ run' = [run EXCEPT ![r] = [state |-> "exited", args |-> run[r].args, is |-> is, session |-> s]]
        /\ \/ /\ given # NoSession /\ s = given
              /\ session' = [session EXCEPT ![given] = session[given] \cup {r}] /\ issued' = issued
           \/ /\ s = issued + 1 /\ s \in Sessions /\ issued' = s
              /\ session' = [session EXCEPT ![s] =
                   {r} \cup IF given = NoSession THEN {} ELSE session[given]]
           \/ s = NoSession /\ UNCHANGED <<session, issued>>
  BY <1>0, <1>1, <1>2 DEF Exit, Names
<1>4. s = NoSession /\ UNCHANGED <<session, issued>> => Joins(r, s)
  BY <1>0, <1>2 DEF Joins
<1>5. ASSUME given # NoSession, s = given, issued' = issued,
             session' = [session EXCEPT ![given] = session[given] \cup {r}]
      PROVE  Joins(r, s)
  <2>1. given \in 1..issued
    BY <1>2, <1>5 DEF Known
  <2>2. session' \in [Sessions -> SUBSET Runs] /\ session'[given] = session[given] \cup {r}
    BY <1>0, <1>2, <1>5, <2>1
  <2>3. \A t \in 1..issued : session[t] \subseteq session'[t]
    BY <1>0, <1>2, <1>5, <2>1
  <2>. QED  BY <1>0, <1>1, <1>2, <1>5, <2>1, <2>2, <2>3 DEF Joins
<1>6. ASSUME s = issued + 1, s \in Sessions, issued' = s,
             session' = [session EXCEPT ![s] =
               {r} \cup IF given = NoSession THEN {} ELSE session[given]]
      PROVE  Joins(r, s)
  <2>0. given # NoSession => given \in 1..issued
    BY <1>2 DEF Known
  <2>1. PICK work : work = ({r} \cup IF given = NoSession THEN {} ELSE session[given])
    OBVIOUS
  <2>2. work \in SUBSET Runs /\ r \in work /\ (given # NoSession => session[given] \subseteq work)
    BY <1>0, <1>2, <2>0, <2>1
  <2>3. session' = [session EXCEPT ![s] = work]
    BY <1>6, <2>1
  <2>4. session' \in [Sessions -> SUBSET Runs] /\ session'[s] = work
    BY <1>0, <1>6, <2>2, <2>3
  <2>5. \A t \in 1..issued : session[t] \subseteq session'[t]
    <3>1. s \notin 1..issued
      BY <1>0, <1>6
    <3>. QED  BY <1>0, <1>2, <2>3, <3>1
  <2>6. issued' \in 0..MaxSessions /\ issued <= issued' /\ s \in 1..issued'
    BY <1>0, <1>6 DEF Sessions
  <2>. QED  BY <1>1, <2>2, <2>4, <2>5, <2>6 DEF Joins
<1>. QED  BY <1>3, <1>4, <1>5, <1>6

LEMMA ExitKeepsIInv ==
  ASSUME IInv, NEW r \in Runs, Exit(r)
  PROVE  IInv'
<1>0. /\ run \in [Runs -> Run] /\ run[r] \in Run /\ run[r].state = "runs" /\ issued \in Nat
      /\ call \in [Calls -> Call] /\ UNCHANGED <<call, files, nextName, row, mishaps>>
  BY DEF IInv, TypeInv, Exit
<1>1. PICK s, is :
           /\ s \in Names
           /\ run' = [run EXCEPT ![r] = [state |-> "exited", args |-> run[r].args, is |-> is, session |-> s]]
           /\ is \in {"answer", "limit", "failed", "empty"}
           /\ Joins(r, s)
  BY ExitTyped
<1>j. Joins(r, s)
  BY <1>1
<1>2. PICK q : /\ q = [state |-> "exited", args |-> run[r].args, is |-> is, session |-> s]
               /\ run' = [run EXCEPT ![r] = q]
  BY <1>1
<1>3. q \in Run /\ q.state = "exited" /\ q.args = run[r].args /\ q.session = s
  <2>1. run[r].args \in Args
    BY <1>0 DEF Run
  <2>. QED  BY <1>1, <1>2, <2>1 DEF Run
<1>4. run' \in [Runs -> Run] /\ run'[r] = q /\ \A x \in Runs \ {r} : run'[x] = run[x]
  BY <1>0, <1>2, <1>3
<1>5. TypeInv'
  BY <1>0, <1>j, <1>4 DEF Joins, IInv, TypeInv
<1>6. LeftAlone'
  BY <1>0 DEF IInv, LeftAlone
<1>7. \A t : Known(t) => Known(t)'
  BY <1>0, <1>j DEF Joins, Known
<1>8. NamesKnown'
  <2>1. Known(s)'
    BY <1>1, <1>j DEF Joins, Known
  <2>2. Known(row)'
    BY <1>0, <1>j DEF Joins, IInv, NamesKnown, Known
  <2>3. ASSUME NEW x \in Runs
        PROVE  /\ run'[x].state # "none" => Known(run[x].args.session)'
               /\ run'[x].state = "exited" => Known(run[x].session)'
    <3>1. CASE x = r
      BY <1>0, <1>j, <1>3, <1>4, <2>1, <3>1 DEF Joins, IInv, NamesKnown, Known
    <3>2. CASE x # r
      BY <1>0, <1>j, <1>4, <3>2 DEF Joins, IInv, NamesKnown, Known
    <3>. QED  BY <3>1, <3>2
  <2>. QED  BY <2>2, <2>3 DEF NamesKnown
<1>9. ASSUME NEW t, NEW text, Known(t), Holds(t, text) PROVE Holds(t, text)'
  BY <1>j, <1>9 DEF Joins, Holds, Known
<1>10. ASSUME NEW c \in Calls PROVE Right(c, call[c])'
  <2>0. call'[c] = call[c] /\ Right(c, call[c]) /\ call[c] \in Call /\ call[c].text \in Seq(Runs)
    BY <1>0 DEF IInv, CallsRight, Call
  <2>1. RightFile(c, call[c])' /\ RightCount(call[c])'
    BY <1>0, <2>0 DEF Right, RightFile, RightCount
  <2>2. RightNames(call[c])'
    BY <1>0, <1>j, <2>0 DEF Joins, Right, RightNames, Known
  <2>3. call[c].at = "wait" => /\ <<c, call[c].n>> \in Runs
                               /\ run'[<<c, call[c].n>>].state \in {"runs", "exited"}
                               /\ run'[<<c, call[c].n>>].args = run[<<c, call[c].n>>].args
    BY <1>3, <1>4, <2>0 DEF Right, RightCount, RightRun, Runs
  <2>4. RightRun(c, call[c])'
    BY <2>0, <2>3 DEF Right, RightRun
  <2>5. RightWork(c, call[c])'
    <3>1. PICK d : d = call[c]
      OBVIOUS
    <3>2. d.at = "backoff" \/ (d.at = "wait" /\ d.n > 1) => Holds(d.resume, d.text)'
      BY <1>9, <2>0, <3>1 DEF Right, RightWork, RightNames
    <3>3. ASSUME d.at = "wait", run'[<<c, d.n>>].state = "exited", run'[<<c, d.n>>].session # NoSession
          PROVE  Holds(run[<<c, d.n>>].session, Append(d.text, <<c, d.n>>))'
      <4>1. CASE r # <<c, d.n>>
        <5>1. run'[<<c, d.n>>] = run[<<c, d.n>>]
          BY <1>4, <2>3, <3>1, <3>3, <4>1
        <5>2. PICK t : t = run[<<c, d.n>>].session
          OBVIOUS
        <5>3. Known(t) /\ Holds(t, Append(d.text, <<c, d.n>>))
          BY <2>0, <2>3, <3>1, <3>3, <5>1, <5>2 DEF Right, RightWork, IInv, NamesKnown
        <5>4. Holds(t, Append(d.text, <<c, d.n>>))'
          BY <1>9, <5>3
        <5>. QED  BY <5>1, <5>2, <5>4 DEF Holds
      <4>2. CASE r = <<c, d.n>>
        <5>1. run'[<<c, d.n>>].session = s /\ s # NoSession /\ r \in session'[s]
          BY <1>j, <1>3, <1>4, <3>3, <4>2 DEF Joins
        <5>2. \A i \in DOMAIN d.text : d.text[i] \in session'[s]
          <6>1. CASE d.n > 1
            <7>1. Holds(d.resume, d.text) /\ run[r].args.session = d.resume
              BY <2>0, <3>1, <3>3, <4>2, <6>1 DEF Right, RightWork, RightRun
            <7>. QED  BY <1>j, <5>1, <7>1 DEF Joins, Holds
          <6>2. CASE d.n = 1
            BY <2>0, <3>1, <3>3, <6>2 DEF Right, RightWork
          <6>. QED  BY <2>0, <3>1, <3>3, <6>1, <6>2 DEF Right, RightCount
        <5>3. \A i \in DOMAIN Append(d.text, r) : Append(d.text, r)[i] \in session'[s]
          <6>1. d.text \in Seq(Runs)
            BY <2>0, <3>1
          <6>2. /\ DOMAIN Append(d.text, r) = 1..(Len(d.text) + 1) /\ DOMAIN d.text = 1..Len(d.text)
                /\ \A i \in 1..Len(d.text) : Append(d.text, r)[i] = d.text[i]
                /\ Append(d.text, r)[Len(d.text) + 1] = r /\ Len(d.text) \in Nat
            BY <6>1
          <6>. QED  BY <5>1, <5>2, <6>2
        <5>. QED  BY <4>2, <5>1, <5>3 DEF Holds
      <4>. QED  BY <4>1, <4>2
    <3>4. d.at \in {"config", "start"} \/ (d.at = "wait" /\ d.n = 1) => d.text = <<>>
      BY <2>0, <3>1 DEF Right, RightWork
    <3>. QED  BY <2>0, <3>1, <3>2, <3>3, <3>4 DEF RightWork, Holds
  <2>. QED  BY <2>1, <2>2, <2>4, <2>5 DEF Right
<1>. QED  BY <1>5, <1>6, <1>8, <1>10 DEF IInv, CallsRight

-----------------------------------------------------------------------------

(* The file that remove_file would not remove stays its call's.            *)
LEMMA CleanUpFailsKeepsIInv ==
  ASSUME IInv, NEW c \in Calls, CleanUpFails(c)
  PROVE  IInv'
<1>0. /\ call[c] \in Call /\ Right(c, call[c]) /\ mishaps' \in Nat
      /\ UNCHANGED <<run, session, issued, files, nextName, row>>
  BY DEF CleanUpFails, IInv, TypeInv, CallsRight
<1>1. PICK d : d = [call[c] EXCEPT !.at = "done", !.refused = TRUE] /\ call' = [call EXCEPT ![c] = d]
  BY DEF CleanUpFails, IInv, TypeInv
<1>2. /\ d \in Call /\ d.at = "done" /\ d.file = call[c].file
      /\ d.given = call[c].given /\ d.resume = call[c].resume /\ d.first = call[c].first
  BY <1>0, <1>1 DEF Call, Stages
<1>3. Right(c, d)
  BY <1>0, <1>2 DEF Right, RightFile, RightCount, RightRun, RightNames, RightWork
<1>. QED  BY <1>0, <1>1, <1>2, <1>3, CallMoves DEF IInv, TypeInv, NamesKnown

LEMMA InitIInv == Init => IInv
<1>. SUFFICES ASSUME Init PROVE IInv
  OBVIOUS
<1>0. /\ call = [c \in Calls |-> Idle] /\ run = [r \in Runs |-> [state |-> "none"]]
      /\ session = [s \in Sessions |-> {}] /\ issued = 0
      /\ files = [f \in Leftovers |-> "someone"] /\ nextName = 0 /\ row = NoSession /\ mishaps = 0
  BY DEF Init
<1>1. TypeInv
  <2>1. call \in [Calls -> Call] /\ row \in Names
    BY <1>0, IdleTyped DEF Names
  <2>2. run \in [Runs -> Run]
    BY <1>0 DEF Run
  <2>3. session \in [Sessions -> SUBSET Runs] /\ issued \in 0..MaxSessions
    BY <1>0, CliAssumption
  <2>4. files \in [DOMAIN files -> Calls \cup {"someone"}] /\ DOMAIN files \subseteq Nat
    BY <1>0, CliAssumption
  <2>. QED  BY <1>0, <2>1, <2>2, <2>3, <2>4 DEF TypeInv
<1>2. CallsRight
  <2>1. ASSUME NEW c \in Calls
        PROVE  /\ call[c].at = "idle" /\ call[c].file = NoFile /\ call[c].given = NoSession
               /\ call[c].resume = NoSession /\ call[c].first = NoSession
    BY <1>0 DEF Idle
  <2>2. NoFile \notin Leftovers
    BY CliAssumption DEF NoFile
  <2>. QED  BY <2>1, <2>2
            DEF CallsRight, Right, RightFile, RightCount, RightRun, RightNames, RightWork, Known
<1>3. LeftAlone
  BY <1>0 DEF LeftAlone
<1>4. NamesKnown
  BY <1>0 DEF NamesKnown, Known
<1>. QED  BY <1>1, <1>2, <1>3, <1>4 DEF IInv

(* The host forgets the session, or nothing happens.                       *)
LEMMA OthersKeepIInv ==
  ASSUME IInv, ClearSession \/ UNCHANGED vars
  PROVE  IInv'
<1>0. /\ UNCHANGED <<call, run, session, issued, files, nextName, mishaps>>
      /\ row' \in {row, NoSession}
  BY DEF ClearSession, vars
<1>1. TypeInv'
  BY <1>0 DEF IInv, TypeInv, Names
<1>2. CallsRight'
  BY <1>0
     DEF IInv, CallsRight, Right, RightFile, RightCount, RightRun, RightNames, RightWork, Known, Holds
<1>3. LeftAlone' /\ NamesKnown'
  BY <1>0 DEF IInv, LeftAlone, NamesKnown, Known
<1>. QED  BY <1>1, <1>2, <1>3 DEF IInv

LEMMA NextKeepsIInv == IInv /\ [Next]_vars => IInv'
<1>. SUFFICES ASSUME IInv, [Next]_vars PROVE IInv'
  OBVIOUS
<1>1. ASSUME NEW c \in Calls, Begin(c) PROVE IInv'
  BY <1>1, BeginKeepsIInv
<1>2. ASSUME NEW c \in Calls, CallStep(c) PROVE IInv'
  BY <1>2, ConfigKeepsIInv, RunKeepsIInv, RefusedKeepsIInv, CollectKeepsIInv, CleanUpKeepsIInv DEF CallStep
<1>3. ASSUME NEW c \in Calls,
             WriteFails(c) \/ CleanUpFails(c) \/ RunRefused(c) \/ Drop(c) \/ StoreSession(c)
      PROVE  IInv'
  BY <1>3, ConfigKeepsIInv, CleanUpFailsKeepsIInv, RefusedKeepsIInv, DropKeepsIInv, StoreKeepsIInv
<1>4. ASSUME NEW r \in Runs, Exit(r) PROVE IInv'
  BY <1>4, ExitKeepsIInv
<1>5. CASE ClearSession \/ UNCHANGED vars
  BY <1>5, OthersKeepIInv
<1>. QED  BY <1>1, <1>2, <1>3, <1>4, <1>5 DEF Next

LEMMA Invariance == Spec => []IInv
<1>1. Init => IInv
  BY InitIInv
<1>2. IInv /\ [Next]_vars => IInv'
  BY NextKeepsIInv
<1>. QED  BY <1>1, <1>2, PTL DEF Spec

(* Calls, runs, sessions and temporary files have the shapes that          *)
(* claude_code and opencode give them, in every interleaving.              *)
THEOREM TypeCorrect == Spec => []TypeInv
<1>1. IInv => TypeInv
  BY DEF IInv
<1>. QED  BY <1>1, Invariance, PTL

(* write_mcp_config_tempfile and cleanup_mcp_config: the CLI of a call     *)
(* that waits finds that call's servers in its file through every resume,  *)
(* and a file that was in the directory before is neither written nor      *)
(* removed, however calls interleave, fail or are dropped.                 *)
THEOREM ConfigFilesKept == Spec => []ConfigFileKept
<1>1. IInv => ConfigFileKept
  <2>. SUFFICES ASSUME IInv PROVE ConfigFileKept
    OBVIOUS
  <2>1. ASSUME NEW c \in Calls, call[c].at = "wait", run[<<c, call[c].n>>].args.file # NoFile
        PROVE  /\ run[<<c, call[c].n>>].args.file \in DOMAIN files
               /\ files[run[<<c, call[c].n>>].args.file] = c
    BY <2>1 DEF IInv, CallsRight, Right, RightFile, RightRun
  <2>. QED  BY <2>1 DEF ConfigFileKept, IInv, LeftAlone
<1>. QED  BY <1>1, Invariance, PTL

(* auto_resume: the session about to be resumed holds the work of every    *)
(* run whose text has been gathered, although the CLI may go on under a    *)
(* new name each time and a run given up on may still be working.          *)
THEOREM ResumesFollowTheWork == Spec => []ResumesWhereItStopped
<1>1. IInv => ResumesWhereItStopped
  BY DEF IInv, CallsRight, Right, RightWork, Holds, ResumesWhereItStopped
<1>. QED  BY <1>1, Invariance, PTL

-----------------------------------------------------------------------------
(* A streamed turn.                                                        *)

(* The bytes a decoder can hold, and the events of a stream.               *)
Byte   == {"x", "<", ">", "?"}
Symbol == Byte \cup {"nl"}
Event  == [is : {"text", "thinking"}, body : Seq(Byte)] \cup [is : {"usage"}, tokens : Nat]
            \cup {Error, Done}

-----------------------------------------------------------------------------
(* Induction, with a set in the place of a predicate, and what it says of  *)
(* functions that are defined by recursion.                                *)

LEMMA Climbs ==
  ASSUME NEW N \in Nat, NEW T, 0 \in T,
         \A n \in 0..(N - 1) : n \in T => n + 1 \in T
  PROVE  0..N \subseteq T
<1> DEFINE U == {n \in Nat : n \in 0..N /\ n \notin T}
<1> SUFFICES ASSUME U # {} PROVE FALSE
  OBVIOUS
<1>1. PICK k \in U : \A l \in U : ~ (<<l, k>> \in OpToRel(<, Nat))
  <2>1. U \subseteq Nat
    OBVIOUS
  <2> HIDE DEF U
  <2> QED
    BY <2>1, NatLessThanWellFounded, WFMin, Zenon
<1>2. k \in Nat /\ k # 0 /\ k <= N /\ k \notin T
  OBVIOUS
<1>3. k - 1 \in Nat /\ k - 1 \in 0..(N - 1) /\ k - 1 < k
  BY <1>2
<1>4. k - 1 \notin U
  <2>1. <<k - 1, k>> \in OpToRel(<, Nat)
    BY <1>2, <1>3 DEF OpToRel
  <2> QED
    BY <1>1, <2>1
<1>5. k - 1 \in T
  BY <1>3, <1>4
<1> QED
  BY <1>2, <1>3, <1>5

Follows(f, N, base, step) == f[0] = base /\ \A n \in 1..N : f[n] = step[n][f[n - 1]]

LEMMA Recursion ==
  ASSUME NEW N \in Nat, NEW S, NEW base \in S, NEW step \in [1..N -> [S -> S]]
  PROVE  \E f \in [0..N -> S] : Follows(f, N, base, step)
<1> DEFINE T == {m \in 0..N : \E f \in [0..m -> S] :
                                 f[0] = base /\ \A n \in 1..m : f[n] = step[n][f[n - 1]]}
<1>1. 0 \in T
  <2>1. PICK f : f = [n \in 0..0 |-> base]
    OBVIOUS
  <2>2. f \in [0..0 -> S] /\ f[0] = base /\ 1..0 = {}
    BY <2>1
  <2>3. 0 \in 0..N
    OBVIOUS
  <2>4. \A n \in 1..0 : f[n] = step[n][f[n - 1]]
    BY <2>2
  <2> QED
    BY <2>2, <2>3, <2>4, Zenon
<1>2. ASSUME NEW m \in 0..(N - 1), m \in T PROVE m + 1 \in T
  <2>1. PICK f \in [0..m -> S] : f[0] = base /\ \A n \in 1..m : f[n] = step[n][f[n - 1]]
    BY <1>2
  <2>2. PICK g : g = [n \in 0..(m + 1) |-> IF n = m + 1 THEN step[m + 1][f[m]] ELSE f[n]]
    OBVIOUS
  <2>3. m + 1 \in 0..N /\ m + 1 \in 1..N /\ m \in 0..m /\ step[m + 1][f[m]] \in S
    OBVIOUS
  <2>4. g \in [0..(m + 1) -> S]
    BY <2>2, <2>3
  <2>5. (\A n \in 0..m : g[n] = f[n]) /\ g[m + 1] = step[m + 1][f[m]]
    BY <2>2
  <2>6. ASSUME NEW n \in 1..(m + 1) PROVE g[n] = step[n][g[n - 1]]
    <3>1. CASE n = m + 1
      BY <2>5, <3>1
    <3>2. CASE n \in 1..m
      <4>1. n \in 0..m /\ n - 1 \in 0..m
        BY <3>2
      <4> QED
        BY <2>1, <2>5, <3>2, <4>1
    <3> QED
      BY <3>1, <3>2
  <2>7. g[0] = base
    BY <2>1, <2>5
  <2> QED
    BY <2>3, <2>4, <2>6, <2>7
<1>3. N \in T
  <2> HIDE DEF T
  <2>1. 0..N \subseteq T
    BY <1>1, <1>2, Climbs
  <2> QED
    BY <2>1
<1> QED
  BY <1>3 DEF Follows

(* What FlattenSeq makes of the first n of a sequence of sequences: of none *)
(* the empty sequence, of one more what it makes of the others and that one. *)
Flattens(f, ps) ==
  /\ f[0] = <<>>
  /\ \A n \in 1..Len(ps) : f[n] = f[n - 1] \o ps[n]
  /\ \A n \in 0..Len(ps) : FlattenSeq([i \in 1..n |-> ps[i]]) = f[n]

LEMMA FlattenIs ==
  ASSUME NEW S, NEW ps \in Seq(Seq(S))
  PROVE  \E f \in [0..Len(ps) -> Seq(S)] : Flattens(f, ps)
<1>1. PICK Q : Q = Seq(S)
  OBVIOUS
<1>2. PICK N \in Nat : N = Len(ps)
  OBVIOUS
<1>3. PICK empty \in Q : empty = <<>>
  <2>1. PICK e : e = <<>>
    OBVIOUS
  <2>2. e \in Q
    BY <1>1, <2>1, EmptySeq
  <2> QED
    BY <2>1, <2>2
<1>4. PICK step : step = [n \in 1..N |-> [x \in Q |-> x \o ps[n]]]
  OBVIOUS
<1>5. \A n \in 1..N : ps[n] \in Seq(S)
  BY <1>2
<1>6. \A n \in 1..N : \A x \in Q : x \o ps[n] \in Q
  BY <1>1, <1>5, ConcatProperties
<1>7. step \in [1..N -> [Q -> Q]]
  BY <1>4, <1>6
<1>8. PICK f \in [0..N -> Q] : f[0] = empty /\ \A n \in 1..N : f[n] = step[n][f[n - 1]]
  <2>1. \E f \in [0..N -> Q] : Follows(f, N, empty, step)
    BY <1>7, Recursion
  <2> QED
    BY <2>1 DEF Follows
<1>9. ASSUME NEW n \in 1..N PROVE f[n] = f[n - 1] \o ps[n]
  <2>1. n - 1 \in 0..N
    OBVIOUS
  <2>2. f[n - 1] \in Q
    BY <2>1
  <2> QED
    BY <1>4, <1>8, <2>2
<1>10. ASSUME NEW n \in 1..N PROVE FlattenSeq([i \in 1..n |-> ps[i]]) = f[n]
  <2>1. PICK qs : qs = [i \in 1..n |-> ps[i]]
    OBVIOUS
  <2>2. qs \in Seq(Seq(S)) /\ Len(qs) = n /\ \A i \in 1..n : qs[i] = ps[i]
    <3>1. \A i \in 1..n : ps[i] \in Seq(S)
      BY <1>5
    <3> QED
      BY <2>1, <3>1
  <2> DEFINE Is(g) == g = [i \in 1..Len(qs) |-> IF i = 1 THEN qs[i] ELSE g[i - 1] \o qs[i]]
  <2>3. FlattenSeq(qs) = (CHOOSE g : Is(g))[n]
    BY <2>2 DEF FlattenSeq
  <2>4. PICK h : h = [i \in 1..n |-> f[i]]
    OBVIOUS
  <2>5. Is(h)
    <3>1. f[1] = ps[1]
      <4>1. 1 \in 1..N /\ ps[1] \in Seq(S)
        BY <1>5
      <4>2. f[1] = f[1 - 1] \o ps[1]
        BY <1>9, <4>1
      <4>3. f[1] = empty \o ps[1]
        <5>1. f[1 - 1] = empty
          BY <1>8
        <5> QED
          BY <4>2, <5>1
      <4> QED
        BY <1>3, <4>1, <4>3, ConcatEmptySeq
    <3>2. ASSUME NEW i \in 1..n PROVE h[i] = IF i = 1 THEN qs[i] ELSE h[i - 1] \o qs[i]
      <4>1. CASE i = 1
        BY <2>2, <2>4, <3>1, <4>1
      <4>2. CASE i # 1
        <5>1. i \in 1..N /\ i - 1 \in 1..n
          BY <4>2
        <5>2. h[i] = f[i] /\ h[i - 1] = f[i - 1] /\ qs[i] = ps[i]
          BY <2>2, <2>4, <5>1
        <5>3. f[i] = f[i - 1] \o ps[i]
          BY <1>9, <5>1
        <5>4. h[i] = h[i - 1] \o qs[i]
          BY <5>2, <5>3, Zenon
        <5> QED
          BY <4>2, <5>4, Zenon
      <4> QED
        BY <4>1, <4>2
    <3>3. h = [i \in 1..n |-> h[i]]
      BY <2>4
    <3>4. h = [i \in 1..n |-> IF i = 1 THEN qs[i] ELSE h[i - 1] \o qs[i]]
      BY <3>2, <3>3, Zenon
    <3> QED
      BY <2>2, <3>4, Zenon
  <2>6. PICK g : g = CHOOSE x : Is(x)
    OBVIOUS
  <2>7. Is(g)
    <3> HIDE DEF Is
    <3> QED
      BY <2>5, <2>6, Zenon
  <2>8. \A i \in 1..n : g[i] = IF i = 1 THEN qs[i] ELSE g[i - 1] \o qs[i]
    BY <2>2, <2>7, Zenon
  <2> DEFINE T == {i \in 0..n : i = 0 \/ g[i] = h[i]}
  <2>9. \A i \in 1..n : h[i] = IF i = 1 THEN qs[i] ELSE h[i - 1] \o qs[i]
    BY <2>2, <2>5, Zenon
  <2>10. 0..n \subseteq T
    <3>1. 0 \in T
      OBVIOUS
    <3>2. ASSUME NEW i \in 0..(n - 1), i \in T PROVE i + 1 \in T
      <4>1. i + 1 \in 1..n /\ i + 1 \in 0..n /\ (i + 1) - 1 = i
        OBVIOUS
      <4>2. g[i + 1] = h[i + 1]
        <5>1. CASE i = 0
          <6>1. g[1] = qs[1] /\ h[1] = qs[1] /\ i + 1 = 1
            BY <2>8, <2>9, <4>1, <5>1
          <6> QED
            BY <6>1
        <5>2. CASE i # 0
          <6>1. g[i] = h[i] /\ i + 1 # 1
            BY <3>2, <5>2
          <6>2. g[i + 1] = g[(i + 1) - 1] \o qs[i + 1]
            BY <2>8, <4>1, <6>1, Zenon
          <6>3. h[i + 1] = h[(i + 1) - 1] \o qs[i + 1]
            BY <2>9, <4>1, <6>1, Zenon
          <6> QED
            BY <4>1, <6>1, <6>2, <6>3
        <5> QED
          BY <5>1, <5>2
      <4> QED
        BY <4>1, <4>2
    <3>3. n \in Nat
      OBVIOUS
    <3> HIDE DEF T
    <3> QED
      BY <3>1, <3>2, <3>3, Climbs
  <2>11. g[n] = f[n]
    <3>1. n \in 0..n /\ n # 0 /\ n \in 1..n
      OBVIOUS
    <3>2. n \in T
      BY <2>10, <3>1
    <3> QED
      BY <2>4, <3>1, <3>2
  <2> HIDE DEF Is
  <2> QED
    BY <2>1, <2>3, <2>6, <2>11
<1>11. FlattenSeq([i \in 1..0 |-> ps[i]]) = f[0]
  <2>1. PICK qs : qs = [i \in 1..0 |-> ps[i]]
    OBVIOUS
  <2>2. qs = <<>>
    BY <2>1
  <2>3. FlattenSeq(qs) = <<>>
    BY <2>2 DEF FlattenSeq
  <2> QED
    BY <1>3, <1>8, <2>1, <2>3
<1>12. ASSUME NEW n \in 0..N PROVE FlattenSeq([i \in 1..n |-> ps[i]]) = f[n]
  <2>1. n = 0 \/ n \in 1..N
    OBVIOUS
  <2> QED
    BY <1>10, <1>11, <2>1
<1> QED
  BY <1>1, <1>2, <1>3, <1>8, <1>9, <1>12 DEF Flattens

(* What is flattened first stays in front.                                 *)
Begins(a, b) == Len(a) <= Len(b) /\ \A i \in 1..Len(a) : b[i] = a[i]

LEMMA FlattenGrows ==
  ASSUME NEW S, NEW ps \in Seq(Seq(S)), NEW f \in [0..Len(ps) -> Seq(S)],
         Flattens(f, ps), NEW m \in 0..Len(ps)
  PROVE  Begins(f[m], f[Len(ps)])
<1>1. PICK N \in Nat : N = Len(ps)
  OBVIOUS
<1>2. m \in Nat /\ m <= N /\ N - m \in Nat
  BY <1>1
<1>3. \A n \in 0..N : f[n] \in Seq(S) /\ Len(f[n]) \in Nat
  BY <1>1
<1> DEFINE T == {k \in 0..(N - m) : /\ Len(f[m]) <= Len(f[m + k])
                                    /\ \A i \in 1..Len(f[m]) : f[m + k][i] = f[m][i]}
<1>4. 0 \in T
  <2>1. m + 0 = m /\ Len(f[m]) \in Nat /\ 0 \in 0..(N - m)
    BY <1>1, <1>2, <1>3
  <2> QED
    BY <2>1
<1>5. ASSUME NEW k \in 0..((N - m) - 1), k \in T PROVE k + 1 \in T
  <2>1. PICK n \in 1..N : n = m + k + 1
    BY <1>2
  <2>2. n - 1 \in 0..N /\ n \in 0..N /\ n - 1 = m + k /\ n = m + (k + 1) /\ k + 1 \in 0..(N - m)
    BY <1>2, <2>1
  <2>3. PICK x \in Seq(S) : x = f[n - 1]
    BY <1>3, <2>2
  <2>4. PICK y \in Seq(S) : y = ps[n]
    BY <1>1
  <2>5. f[n] = x \o y
    BY <1>1, <2>3, <2>4 DEF Flattens
  <2>6. Len(f[n]) = Len(x) + Len(y) /\ \A i \in 1..Len(x) : f[n][i] = x[i]
    <3>1. Len(x) \in Nat /\ Len(y) \in Nat
      OBVIOUS
    <3> QED
      BY <2>5, <3>1, ConcatProperties
  <2>7. Len(f[m]) <= Len(x) /\ \A i \in 1..Len(f[m]) : x[i] = f[m][i]
    BY <1>5, <2>2, <2>3
  <2>8. Len(f[m]) \in Nat /\ Len(x) \in Nat /\ Len(y) \in Nat
    BY <1>1, <1>3
  <2>9. Len(f[m]) <= Len(f[n])
    BY <2>6, <2>7, <2>8
  <2>10. ASSUME NEW i \in 1..Len(f[m]) PROVE f[n][i] = f[m][i]
    <3>1. i \in 1..Len(x)
      BY <2>7, <2>8
    <3> QED
      BY <2>6, <2>7, <3>1
  <2> QED
    BY <2>2, <2>9, <2>10
<1>6. N - m \in T
  <2> HIDE DEF T
  <2>1. 0..(N - m) \subseteq T
    BY <1>2, <1>4, <1>5, Climbs
  <2> QED
    BY <1>2, <2>1
<1>7. m + (N - m) = N
  BY <1>2
<1> QED
  BY <1>1, <1>6, <1>7 DEF Begins

-----------------------------------------------------------------------------
(* The bytes of the server.                                                *)

(* Where the line after the n-th begins.                                   *)
Offset(s, n) == Len(FlattenSeq([i \in 1..n |-> Append(s[i].body, "nl")]))

LEMMA LineFacts ==
  ASSUME NEW s \in Seq(Lines), NEW n \in 1..Len(s)
  PROVE  /\ s[n] \in Lines /\ s[n].body \in Seq({"x", "<", ">"}) /\ s[n].body \in Seq(Byte)
         /\ Append(s[n].body, "nl") \in Seq(Symbol)
         /\ Len(Append(s[n].body, "nl")) = Len(s[n].body) + 1
         /\ \A i \in 1..Len(s[n].body) : Append(s[n].body, "nl")[i] = s[n].body[i]
         /\ Append(s[n].body, "nl")[Len(s[n].body) + 1] = "nl"
<1>1. s[n] \in Lines
  OBVIOUS
<1>2. s[n].body \in Seq({"x", "<", ">"})
  BY <1>1 DEF Lines
<1>3. {"x", "<", ">"} \subseteq Byte /\ Byte \subseteq Symbol /\ "nl" \in Symbol
  BY DEF Byte, Symbol
<1>4. s[n].body \in Seq(Byte)
  BY <1>2, <1>3, SeqMonotonic
<1>5. s[n].body \in Seq(Symbol)
  BY <1>3, <1>4, SeqMonotonic
<1> QED
  BY <1>1, <1>2, <1>3, <1>4, <1>5, AppendProperties

LEMMA WireFacts ==
  ASSUME NEW s \in Seq(Lines)
  PROVE  /\ Wire(s) \in Seq(Symbol)
         /\ Offset(s, 0) = 0 /\ Offset(s, Len(s)) = Len(Wire(s))
         /\ \A n \in 0..Len(s) : Offset(s, n) \in Nat /\ Offset(s, n) <= Len(Wire(s))
         /\ \A n \in 1..Len(s) :
              /\ Offset(s, n) = Offset(s, n - 1) + Len(s[n].body) + 1
              /\ \A i \in 1..Len(s[n].body) : Wire(s)[Offset(s, n - 1) + i] = s[n].body[i]
              /\ Wire(s)[Offset(s, n)] = "nl"
<1>1. PICK N \in Nat : N = Len(s)
  OBVIOUS
<1>2. PICK ps : ps = [i \in 1..N |-> Append(s[i].body, "nl")]
  OBVIOUS
<1>3. ps \in Seq(Seq(Symbol)) /\ Len(ps) = N
  <2>1. \A i \in 1..N : Append(s[i].body, "nl") \in Seq(Symbol)
    BY <1>1, LineFacts
  <2> QED
    BY <1>2, <2>1
<1>4. PICK f \in [0..Len(ps) -> Seq(Symbol)] :
        /\ Flattens(f, ps)
        /\ f[0] = <<>>
        /\ \A n \in 1..Len(ps) : f[n] = f[n - 1] \o ps[n]
        /\ \A n \in 0..Len(ps) : FlattenSeq([i \in 1..n |-> ps[i]]) = f[n]
  <2>1. \E f \in [0..Len(ps) -> Seq(Symbol)] : Flattens(f, ps)
    BY <1>3, FlattenIs
  <2> QED
    BY <2>1 DEF Flattens
<1>5. ASSUME NEW n \in 0..N PROVE Offset(s, n) = Len(f[n])
  <2>1. [i \in 1..n |-> Append(s[i].body, "nl")] = [i \in 1..n |-> ps[i]]
    BY <1>2
  <2>2. FlattenSeq([i \in 1..n |-> Append(s[i].body, "nl")]) = f[n]
    BY <1>3, <1>4, <2>1, Zenon
  <2> QED
    BY <2>2 DEF Offset
<1>6. Wire(s) = f[N]
  <2>1. DOMAIN s = 1..N
    BY <1>1
  <2>2. [i \in DOMAIN s |-> Append(s[i].body, "nl")] = [i \in 1..N |-> ps[i]]
    BY <1>2, <2>1
  <2>3. N \in 0..Len(ps)
    BY <1>3
  <2>4. FlattenSeq([i \in DOMAIN s |-> Append(s[i].body, "nl")]) = f[N]
    BY <1>4, <2>2, <2>3, Zenon
  <2> QED
    BY <2>4 DEF Wire
<1>7. \A n \in 0..N : f[n] \in Seq(Symbol) /\ Len(f[n]) \in Nat
  BY <1>3, <1>4
<1>8. ASSUME NEW n \in 0..N
      PROVE  Len(f[n]) <= Len(f[N]) /\ \A i \in 1..Len(f[n]) : f[N][i] = f[n][i]
  <2>1. n \in 0..Len(ps)
    BY <1>3
  <2>2. Begins(f[n], f[Len(ps)])
    BY <1>3, <1>4, <2>1, FlattenGrows
  <2> QED
    BY <1>3, <2>2 DEF Begins
<1>9. Offset(s, 0) = 0 /\ Offset(s, N) = Len(Wire(s)) /\ Wire(s) \in Seq(Symbol)
  <2>1. 0 \in 0..N /\ N \in 0..N
    OBVIOUS
  <2>2. Len(f[0]) = 0
    BY <1>4
  <2> QED
    BY <1>5, <1>6, <1>7, <2>1, <2>2
<1>10. \A n \in 0..N : Offset(s, n) \in Nat /\ Offset(s, n) <= Len(Wire(s))
  BY <1>5, <1>6, <1>7, <1>8
<1>11. ASSUME NEW n \in 1..N
       PROVE  /\ Offset(s, n) = Offset(s, n - 1) + Len(s[n].body) + 1
              /\ \A i \in 1..Len(s[n].body) : Wire(s)[Offset(s, n - 1) + i] = s[n].body[i]
              /\ Wire(s)[Offset(s, n)] = "nl"
  <2>1. n \in 0..N /\ n - 1 \in 0..N
    OBVIOUS
  <2>2. PICK x \in Seq(Symbol) : x = f[n - 1]
    BY <1>7, <2>1
  <2>3. PICK y \in Seq(Symbol) : y = Append(s[n].body, "nl")
    BY <1>1, LineFacts
  <2>4. PICK l \in Nat : l = Len(s[n].body)
    <3>1. s[n].body \in Seq(Byte)
      BY <1>1, LineFacts, ZenonT(30)
    <3> QED
      BY <3>1
  <2>5. Len(y) = l + 1 /\ (\A i \in 1..l : y[i] = s[n].body[i]) /\ y[l + 1] = "nl"
    BY <1>1, <2>3, <2>4, LineFacts
  <2>6. f[n] = x \o y
    <3>1. ps[n] = y /\ n \in 1..Len(ps)
      BY <1>2, <1>3, <2>3
    <3> QED
      BY <1>4, <2>2, <3>1
  <2>7. PICK lx \in Nat : lx = Len(x)
    OBVIOUS
  <2>8. Len(f[n]) = lx + l + 1 /\ \A i \in 1..(lx + l + 1) : f[n][i] = IF i <= lx THEN x[i] ELSE y[i - lx]
    <3>1. /\ Len(x \o y) = Len(x) + Len(y)
          /\ \A i \in 1 .. Len(x) + Len(y) : (x \o y)[i] = IF i <= Len(x) THEN x[i] ELSE y[i - Len(x)]
      BY ConcatProperties
    <3> QED
      BY <2>5, <2>6, <2>7, <3>1
  <2>9. \A i \in 1..(lx + l + 1) : Wire(s)[i] = f[n][i]
    <3>1. Len(f[n]) = lx + l + 1
      BY <2>8
    <3>2. \A i \in 1..Len(f[n]) : f[N][i] = f[n][i]
      BY <1>8, <2>1
    <3>3. \A i \in 1..(lx + l + 1) : f[N][i] = f[n][i]
      BY <3>1, <3>2, Zenon
    <3> QED
      BY <1>6, <3>3, Zenon
  <2>10. Offset(s, n) = lx + l + 1 /\ Offset(s, n - 1) = lx
    BY <1>5, <2>1, <2>2, <2>7, <2>8
  <2>11. \A i \in 1..l : Wire(s)[lx + i] = s[n].body[i]
    <3> SUFFICES ASSUME NEW i \in 1..l PROVE Wire(s)[lx + i] = s[n].body[i]
      OBVIOUS
    <3>1. PICK k \in 1..(lx + l + 1) : k = lx + i
      OBVIOUS
    <3>2. ~ (k <= lx) /\ k - lx = i
      BY <3>1
    <3> QED
      BY <2>5, <2>8, <2>9, <3>1, <3>2
  <2>12. Wire(s)[lx + l + 1] = "nl"
    <3>1. PICK k \in 1..(lx + l + 1) : k = lx + l + 1
      OBVIOUS
    <3>2. ~ (k <= lx) /\ k - lx = l + 1
      BY <3>1
    <3> QED
      BY <2>5, <2>8, <2>9, <3>1, <3>2
  <2> QED
    BY <2>4, <2>10, <2>11, <2>12
<1> QED
  BY <1>1, <1>9, <1>10, <1>11

-----------------------------------------------------------------------------
(* What the lines say, one line after another.                             *)

Usage == [in : Nat, out : Nat]

LEMMA LatestGrows ==
  ASSUME NEW n \in Nat, NEW S \in SUBSET (1..(n + 1)), NEW c, DOMAIN c = S, n + 1 \in S
  PROVE  Latest(c) = c[n + 1]
<1>1. \A y \in S : n + 1 >= y
  OBVIOUS
<1>2. \A x \in S : (\A y \in S : x >= y) => x = n + 1
  OBVIOUS
<1>3. Max(S) = n + 1
  BY <1>1, <1>2 DEF Max
<1> QED
  BY <1>3 DEF Latest

LEMMA UsageGrows ==
  ASSUME NEW s \in Seq(Lines), NEW n \in 0..(Len(s) - 1)
  PROVE  UsageAt(s, n + 1) = Merged(s[n + 1], UsageAt(s, n))
<1>1. PICK m \in 1..Len(s) : m = n + 1
  OBVIOUS
<1>2. PICK line \in Lines : line = s[m]
  BY <1>1
<1> DEFINE C(k) == {i \in 1..k : CountsIn(s[i])}
           U(k) == {i \in 1..k : s[i].is = "usage"}
           In(k)  == [i \in C(k) |-> s[i].in]
           Out(k) == [i \in U(k) |-> s[i].out]
<1>3. \A k : UsageAt(s, k) = [in |-> Latest(In(k)), out |-> Latest(Out(k))]
  BY DEF UsageAt
<1>4. 1..m = (1..n) \cup {m} /\ m = n + 1 /\ m \notin 1..n
  BY <1>1
<1>5. CASE CountsIn(line)
  <2>1. m \in C(m) /\ C(m) \in SUBSET (1..(n + 1)) /\ n \in Nat
    BY <1>1, <1>2, <1>5
  <2>2. DOMAIN In(m) = C(m) /\ In(m)[m] = line.in
    BY <1>2, <2>1
  <2>3. Latest(In(m)) = line.in
    <3> HIDE DEF C, In
    <3> QED
      BY <1>4, <2>1, <2>2, LatestGrows
  <2>4. line.is = "start" \/ (line.is = "usage" /\ line.in > 0)
    BY <1>5 DEF CountsIn
  <2>5. CASE line.is = "start"
    <3>1. U(m) = U(n)
      BY <1>2, <1>4, <2>5
    <3>2. Out(m) = Out(n)
      BY <3>1
    <3> HIDE DEF In, Out
    <3>3. Merged(line, UsageAt(s, n)) = [UsageAt(s, n) EXCEPT !.in = line.in]
      BY <2>5 DEF Merged
    <3>4. Merged(line, UsageAt(s, n)) = [in |-> line.in, out |-> Latest(Out(n))]
      BY <1>3, <3>3
    <3> QED
      BY <1>2, <1>3, <1>4, <2>3, <3>2, <3>4
  <2>6. CASE line.is = "usage" /\ line.in > 0
    <3>1. m \in U(m) /\ U(m) \in SUBSET (1..(n + 1)) /\ n \in Nat
      BY <1>1, <1>2, <2>6
    <3>2. DOMAIN Out(m) = U(m) /\ Out(m)[m] = line.out
      BY <1>2, <3>1
    <3>3. Latest(Out(m)) = line.out
      <4> HIDE DEF U, Out
      <4> QED
        BY <1>4, <3>1, <3>2, LatestGrows
    <3> HIDE DEF In, Out
    <3>4. Merged(line, UsageAt(s, n)) = [in |-> line.in, out |-> line.out]
      BY <2>6 DEF Merged
    <3> QED
      BY <1>2, <1>3, <1>4, <2>3, <3>3, <3>4
  <2> QED
    BY <2>4, <2>5, <2>6
<1>6. CASE ~ CountsIn(line)
  <2>1. C(m) = C(n)
    BY <1>2, <1>4, <1>6
  <2>2. In(m) = In(n)
    BY <2>1
  <2>3. line.is # "start" /\ (line.is = "usage" => line.in = 0)
    BY <1>2, <1>6 DEF CountsIn, Lines
  <2>4. CASE line.is = "usage"
    <3>1. m \in U(m) /\ U(m) \in SUBSET (1..(n + 1)) /\ n \in Nat
      BY <1>1, <1>2, <2>4
    <3>2. DOMAIN Out(m) = U(m) /\ Out(m)[m] = line.out
      BY <1>2, <3>1
    <3>3. Latest(Out(m)) = line.out
      <4> HIDE DEF U, Out
      <4> QED
        BY <1>4, <3>1, <3>2, LatestGrows
    <3> HIDE DEF In, Out
    <3>4. Merged(line, UsageAt(s, n)) = [in |-> UsageAt(s, n).in, out |-> line.out]
      BY <2>3, <2>4 DEF Merged
    <3> QED
      BY <1>2, <1>3, <1>4, <2>2, <3>3, <3>4
  <2>5. CASE line.is # "usage"
    <3>1. U(m) = U(n)
      BY <1>2, <1>4, <2>5
    <3>2. Out(m) = Out(n)
      BY <3>1
    <3> HIDE DEF In, Out
    <3>3. Merged(line, UsageAt(s, n)) = UsageAt(s, n)
      BY <2>3, <2>5 DEF Merged
    <3> QED
      BY <1>2, <1>3, <1>4, <2>2, <3>2, <3>3
  <2> QED
    BY <2>4, <2>5
<1> QED
  BY <1>5, <1>6

LEMMA MergedIsUsage ==
  ASSUME NEW line \in Lines, NEW u \in Usage
  PROVE  Merged(line, u) \in Usage
<1>1. line.in \in Nat /\ line.out \in Nat /\ u.in \in Nat /\ u.out \in Nat
  BY DEF Lines, Usage
<1>2. [u EXCEPT !.in = line.in] \in Usage
  BY <1>1 DEF Usage
<1>3. [in |-> IF line.in > 0 THEN line.in ELSE u.in, out |-> line.out] \in Usage
  BY <1>1 DEF Usage
<1> QED
  BY <1>2, <1>3 DEF Merged

LEMMA UsageTypes ==
  ASSUME NEW s \in Seq(Lines)
  PROVE  UsageAt(s, 0) = NoUsage /\ \A n \in 0..Len(s) : UsageAt(s, n) \in Usage
<1>1. UsageAt(s, 0) = NoUsage
  <2>1. {k \in 1..0 : CountsIn(s[k])} = {} /\ {k \in 1..0 : s[k].is = "usage"} = {}
    OBVIOUS
  <2>2. \A c : DOMAIN c = {} => Latest(c) = 0
    BY DEF Latest
  <2>3. /\ DOMAIN [i \in {k \in 1..0 : CountsIn(s[k])} |-> s[i].in] = {}
        /\ DOMAIN [i \in {k \in 1..0 : s[k].is = "usage"} |-> s[i].out] = {}
    BY <2>1
  <2> QED
    BY <2>2, <2>3 DEF UsageAt, NoUsage
<1> DEFINE T == {n \in 0..Len(s) : UsageAt(s, n) \in Usage}
<1>2. 0 \in T
  BY <1>1 DEF NoUsage, Usage
<1>3. ASSUME NEW n \in 0..(Len(s) - 1), n \in T PROVE n + 1 \in T
  <2>1. s[n + 1] \in Lines /\ n + 1 \in 0..Len(s)
    OBVIOUS
  <2>2. UsageAt(s, n + 1) = Merged(s[n + 1], UsageAt(s, n))
    BY UsageGrows
  <2>3. UsageAt(s, n) \in Usage
    BY <1>3
  <2> QED
    BY <2>1, <2>2, <2>3, MergedIsUsage
<1>4. 0..Len(s) \subseteq T
  <2>1. Len(s) \in Nat
    OBVIOUS
  <2> HIDE DEF T
  <2> QED
    BY <1>2, <1>3, <2>1, Climbs
<1> QED
  BY <1>1, <1>4

(* What is read of a line's bytes: each of them, or "?" in its place.      *)
Reads(b, body) == Len(b) = Len(body) /\ \A i \in 1..Len(body) : b[i] \in {body[i], "?"}

(* A line makes at most one event, and the same with every reading of it.  *)
LEMMA EventsFacts ==
  ASSUME NEW line \in Lines, NEW u \in Usage, NEW body \in Seq(Byte), NEW b \in Seq(Byte),
         Reads(b, body)
  PROVE  /\ EventsOf(line, b, u) \in Seq(Event) /\ EventsOf(line, body, u) \in Seq(Event)
         /\ Len(EventsOf(line, b, u)) = Len(EventsOf(line, body, u))
         /\ Len(EventsOf(line, body, u)) \in {0, 1}
         /\ Len(EventsOf(line, body, u)) = 1 =>
              Like(EventsOf(line, b, u)[1], EventsOf(line, body, u)[1])
<1>1. line.is \in Kinds /\ u.in + u.out \in Nat
  BY DEF Lines, Usage
<1>2. CASE line.is \in {"text", "thinking"}
  <2>1. PICK e : e = [is |-> line.is, body |-> b]
    OBVIOUS
  <2>2. PICK f : f = [is |-> line.is, body |-> body]
    OBVIOUS
  <2>3. EventsOf(line, b, u) = <<e>> /\ EventsOf(line, body, u) = <<f>>
    BY <1>2, <2>1, <2>2 DEF EventsOf
  <2>4. e \in Event /\ f \in Event
    BY <1>2, <2>1, <2>2 DEF Event
  <2>5. Like(e, f)
    <3>1. e.is = f.is /\ e.is # "usage" /\ e.body = b /\ f.body = body
      BY <1>2, <2>1, <2>2
    <3>2. DOMAIN b = 1..Len(body)
      BY DEF Reads
    <3> QED
      BY <3>1, <3>2 DEF Like, Reads
  <2> QED
    BY <2>3, <2>4, <2>5
<1>3. CASE line.is = "usage"
  <2>1. PICK e : e = [is |-> "usage", tokens |-> u.in + u.out]
    OBVIOUS
  <2>2. EventsOf(line, b, u) = <<e>> /\ EventsOf(line, body, u) = <<e>>
    BY <1>3, <2>1 DEF EventsOf
  <2>3. e \in Event /\ e.is = "usage"
    BY <1>1, <2>1 DEF Event
  <2>4. Like(e, e)
    BY <2>3 DEF Like
  <2> QED
    BY <2>2, <2>3, <2>4
<1>4. CASE line.is \in {"error", "stop"}
  <2>1. PICK e : e = IF line.is = "error" THEN Error ELSE Done
    OBVIOUS
  <2>2. EventsOf(line, b, u) = <<e>> /\ EventsOf(line, body, u) = <<e>>
    BY <1>4, <2>1 DEF EventsOf
  <2>3. e \in Event /\ e.is \in {"error", "done"}
    BY <2>1 DEF Event, Error, Done
  <2>4. Like(e, e)
    BY <2>3 DEF Like
  <2> QED
    BY <2>2, <2>3, <2>4
<1>5. CASE line.is \in {"start", "ping"}
  <2>1. EventsOf(line, b, u) = <<>> /\ EventsOf(line, body, u) = <<>>
    BY <1>5 DEF EventsOf
  <2> QED
    BY <2>1
<1> QED
  BY <1>1, <1>2, <1>3, <1>4, <1>5 DEF Kinds

SaidBy(s, n) == FlattenSeq([i \in 1..n |-> EventsOf(s[i], s[i].body, UsageAt(s, i))])

LEMMA SaidGrows ==
  ASSUME NEW s \in Seq(Lines)
  PROVE  /\ SaidBy(s, 0) = <<>>
         /\ \A n \in 0..Len(s) : SaidBy(s, n) \in Seq(Event)
         /\ \A n \in 1..Len(s) :
              SaidBy(s, n) = SaidBy(s, n - 1) \o EventsOf(s[n], s[n].body, UsageAt(s, n))
<1>1. PICK N \in Nat : N = Len(s)
  OBVIOUS
<1>2. PICK ps : ps = [i \in 1..N |-> EventsOf(s[i], s[i].body, UsageAt(s, i))]
  OBVIOUS
<1>3. ps \in Seq(Seq(Event)) /\ Len(ps) = N
  <2>1. ASSUME NEW i \in 1..N PROVE EventsOf(s[i], s[i].body, UsageAt(s, i)) \in Seq(Event)
    <3>1. s[i] \in Lines /\ s[i].body \in Seq(Byte)
      BY <1>1, LineFacts
    <3>2. UsageAt(s, i) \in Usage
      BY <1>1, UsageTypes
    <3>3. Reads(s[i].body, s[i].body)
      BY DEF Reads
    <3> QED
      BY <3>1, <3>2, <3>3, EventsFacts
  <2> QED
    BY <1>2, <2>1
<1>4. PICK f \in [0..Len(ps) -> Seq(Event)] :
        /\ f[0] = <<>>
        /\ \A n \in 1..Len(ps) : f[n] = f[n - 1] \o ps[n]
        /\ \A n \in 0..Len(ps) : FlattenSeq([i \in 1..n |-> ps[i]]) = f[n]
  <2>1. \E f \in [0..Len(ps) -> Seq(Event)] : Flattens(f, ps)
    BY <1>3, FlattenIs
  <2> QED
    BY <2>1 DEF Flattens
<1>5. ASSUME NEW n \in 0..N PROVE SaidBy(s, n) = f[n] /\ f[n] \in Seq(Event)
  <2>1. [i \in 1..n |-> EventsOf(s[i], s[i].body, UsageAt(s, i))] = [i \in 1..n |-> ps[i]]
    BY <1>2
  <2>2. n \in 0..Len(ps)
    BY <1>3
  <2>3. FlattenSeq([i \in 1..n |-> EventsOf(s[i], s[i].body, UsageAt(s, i))]) = f[n]
    BY <1>4, <2>1, <2>2, Zenon
  <2> QED
    BY <2>2, <2>3 DEF SaidBy
<1>6. ASSUME NEW n \in 1..N
      PROVE  SaidBy(s, n) = SaidBy(s, n - 1) \o EventsOf(s[n], s[n].body, UsageAt(s, n))
  <2>1. n \in 0..N /\ n - 1 \in 0..N /\ n \in 1..Len(ps)
    BY <1>3
  <2>2. SaidBy(s, n) = f[n] /\ SaidBy(s, n - 1) = f[n - 1]
    BY <1>5, <2>1
  <2>3. f[n] = f[n - 1] \o ps[n] /\ ps[n] = EventsOf(s[n], s[n].body, UsageAt(s, n))
    BY <1>2, <1>4, <2>1
  <2> QED
    BY <2>2, <2>3
<1>7. SaidBy(s, 0) = <<>>
  <2>1. 0 \in 0..N
    OBVIOUS
  <2> QED
    BY <1>4, <1>5, <2>1
<1> QED
  BY <1>1, <1>5, <1>6, <1>7

-----------------------------------------------------------------------------
(* What the task accumulates of the events.                                *)

TextIn(e) == IF e.is = "text" THEN e.body ELSE <<>>

LEMMA TextGrows ==
  ASSUME NEW es \in Seq(Event), NEW e \in Event
  PROVE  TextOf(<<>>) = <<>> /\ TextOf(es) \in Seq(Byte)
         /\ TextIn(e) \in Seq(Byte) /\ TextOf(Append(es, e)) = TextOf(es) \o TextIn(e)
<1>1. \A d \in Event : TextIn(d) \in Seq(Byte)
  BY DEF TextIn, Event, Error, Done
<1>2. PICK N \in Nat : N = Len(es)
  OBVIOUS
<1>3. PICK ds \in Seq(Event) : ds = Append(es, e)
  BY AppendProperties
<1>4. Len(ds) = N + 1 /\ (\A i \in 1..N : ds[i] = es[i]) /\ ds[N + 1] = e
  BY <1>2, <1>3
<1>5. PICK ps : ps = [i \in 1..(N + 1) |-> TextIn(ds[i])]
  OBVIOUS
<1>6. ps \in Seq(Seq(Byte)) /\ Len(ps) = N + 1
  <2>1. \A i \in 1..(N + 1) : TextIn(ds[i]) \in Seq(Byte)
    BY <1>1, <1>4
  <2> QED
    BY <1>5, <2>1
<1>7. PICK f \in [0..Len(ps) -> Seq(Byte)] :
        /\ f[0] = <<>>
        /\ \A n \in 1..Len(ps) : f[n] = f[n - 1] \o ps[n]
        /\ \A n \in 0..Len(ps) : FlattenSeq([i \in 1..n |-> ps[i]]) = f[n]
  <2>1. \E f \in [0..Len(ps) -> Seq(Byte)] : Flattens(f, ps)
    BY <1>6, FlattenIs
  <2> QED
    BY <2>1 DEF Flattens
<1>8. TextOf(es) = f[N]
  <2>1. DOMAIN es = 1..N
    BY <1>2
  <2>2. [i \in DOMAIN es |-> TextIn(es[i])] = [i \in 1..N |-> ps[i]]
    BY <1>4, <1>5, <2>1
  <2>3. N \in 0..Len(ps)
    BY <1>6
  <2>4. FlattenSeq([i \in DOMAIN es |-> TextIn(es[i])]) = f[N]
    BY <1>7, <2>2, <2>3, Zenon
  <2> QED
    BY <2>4 DEF TextOf, TextIn
<1>9. TextOf(ds) = f[N + 1]
  <2>1. DOMAIN ds = 1..(N + 1)
    BY <1>4
  <2>2. [i \in DOMAIN ds |-> TextIn(ds[i])] = [i \in 1..(N + 1) |-> ps[i]]
    BY <1>5, <2>1
  <2>3. N + 1 \in 0..Len(ps)
    BY <1>6
  <2>4. FlattenSeq([i \in DOMAIN ds |-> TextIn(ds[i])]) = f[N + 1]
    BY <1>7, <2>2, <2>3, Zenon
  <2> QED
    BY <2>4 DEF TextOf, TextIn
<1>10. f[N + 1] = f[N] \o TextIn(e) /\ f[N] \in Seq(Byte)
  <2>1. N + 1 \in 1..Len(ps) /\ N \in 0..Len(ps) /\ (N + 1) - 1 = N /\ ps[N + 1] = TextIn(e)
    BY <1>4, <1>5, <1>6
  <2> QED
    BY <1>7, <2>1
<1>11. TextOf(<<>>) = <<>>
  <2>1. PICK none : none = [i \in DOMAIN <<>> |-> IF <<>>[i].is = "text" THEN <<>>[i].body ELSE <<>>]
    OBVIOUS
  <2>2. none = <<>>
    BY <2>1
  <2>3. FlattenSeq(none) = <<>>
    BY <2>2 DEF FlattenSeq
  <2> QED
    BY <2>1, <2>3 DEF TextOf
<1> QED
  BY <1>1, <1>3, <1>8, <1>9, <1>10, <1>11

LEMMA TokensGrow ==
  ASSUME NEW es \in Seq(Event), NEW e \in Event
  PROVE  TokensOf(<<>>) = 0
         /\ TokensOf(Append(es, e)) = IF e.is = "usage" THEN e.tokens ELSE TokensOf(es)
<1>1. PICK N \in Nat : N = Len(es)
  OBVIOUS
<1>2. PICK ds \in Seq(Event) : ds = Append(es, e)
  BY AppendProperties
<1>3. /\ DOMAIN ds = 1..(N + 1) /\ DOMAIN es = 1..N
      /\ (\A i \in 1..N : ds[i] = es[i]) /\ ds[N + 1] = e
  BY <1>1, <1>2
<1>4. PICK S \in SUBSET (1..(N + 1)) : S = {k \in DOMAIN ds : ds[k].is = "usage"}
  BY <1>3
<1>5. PICK c : c = [i \in S |-> ds[i].tokens]
  OBVIOUS
<1>6. TokensOf(ds) = Latest(c)
  BY <1>4, <1>5 DEF TokensOf
<1>7. ASSUME e.is = "usage" PROVE TokensOf(ds) = e.tokens
  <2>1. N + 1 \in S /\ DOMAIN c = S /\ c[N + 1] = e.tokens
    BY <1>3, <1>4, <1>5, <1>7
  <2>2. Latest(c) = e.tokens
    BY <2>1, LatestGrows
  <2> QED
    BY <1>6, <2>2
<1>8. ASSUME e.is # "usage" PROVE TokensOf(ds) = TokensOf(es)
  <2>1. S = {k \in DOMAIN es : es[k].is = "usage"}
    BY <1>3, <1>4, <1>8
  <2>2. c = [i \in {k \in DOMAIN es : es[k].is = "usage"} |-> es[i].tokens]
    BY <1>3, <1>5, <2>1
  <2> QED
    BY <1>6, <2>2 DEF TokensOf
<1>9. TokensOf(<<>>) = 0
  <2>1. {k \in DOMAIN <<>> : <<>>[k].is = "usage"} = {}
    OBVIOUS
  <2>2. \A d : DOMAIN d = {} => Latest(d) = 0
    BY DEF Latest
  <2> QED
    BY <2>1, <2>2 DEF TokensOf
<1> QED
  BY <1>2, <1>7, <1>8, <1>9

-----------------------------------------------------------------------------
(* The inductive invariant.                                                *)

StreamTypes ==
  /\ script \in Scripts
  /\ sent \in 0..Len(Wire(script))
  /\ decoder \in {"ask", "await", "drain", "fail", "end", "over", "refused"}
  /\ buffer \in Seq(Symbol)
  /\ lineNo \in 0..Len(script)
  /\ usage \in Usage
  /\ upstream \in Seq(Event)
  /\ forward \in {"none", "recv", "send", "persist", "over"}
  /\ held \in Event
  /\ acc \in [text : Seq(Byte), tokens : Nat]
  /\ channel \in Seq(Event) /\ open \in BOOLEAN /\ got \in Seq(Event)
  /\ passed \in Seq(Event)

(* What a byte b of the buffer may show of the server's byte c: the end of *)
(* a line never goes and never comes.                                      *)
Shows(b, c) == b = c \/ (b = "?" /\ c # "nl")

(* The buffer holds what has arrived behind the last line taken off.       *)
BufferShowsTheWire ==
  decoder \in {"ask", "await", "drain"} =>
    /\ Offset(script, lineNo) + Len(buffer) = sent
    /\ \A i \in 1..Len(buffer) : Shows(buffer[i], Wire(script)[Offset(script, lineNo) + i])

UsageIsOfTheLines == usage = UsageAt(script, lineNo)

(* The events D sent on by a decoder at this state, and the events Sd that *)
(* the lines taken off make.                                               *)
InStep(D, Sd, state) ==
  /\ Len(D) = Len(Sd) \/ (state = "over" /\ Len(D) = Len(Sd) + 1)
  /\ \A i \in 1..Len(Sd) : Like(D[i], Sd[i])
  /\ \A i \in 1..Len(D) : Terminal(D[i]) => state = "over" /\ i = Len(D)
  /\ state = "over" => D # <<>> /\ Terminal(Last(D))

EventsFollowLines == InStep(Delivered, Said, decoder)

CallerFollows == open => got \o channel = passed

TaskFollows ==
  /\ acc.text = TextOf(passed \o InTransit)
  /\ acc.tokens = TokensOf(passed \o InTransit)
  /\ decoder = "ask" => forward = "none"
  /\ forward = "persist" => passed # <<>> /\ Terminal(Last(passed))
  /\ stored # {} => forward = "over"

StreamInv ==
  /\ StreamTypes /\ BufferShowsTheWire /\ UsageIsOfTheLines /\ EventsFollowLines
  /\ CallerFollows /\ TaskFollows /\ StoredIsForwarded

-----------------------------------------------------------------------------
(* What the parts of a state are.                                          *)

LEMMA ServerTypes ==
  ASSUME StreamTypes
  PROVE  /\ script \in Seq(Lines) /\ Len(script) \in Nat
         /\ Wire(script) \in Seq(Symbol) /\ Said = SaidBy(script, lineNo) /\ Said \in Seq(Event)
<1>1. script \in Seq(Lines)
  BY StreamConstantsOK DEF StreamTypes
<1>2. Said = SaidBy(script, lineNo)
  BY DEF Said, SaidBy
<1>3. lineNo \in 0..Len(script)
  BY DEF StreamTypes
<1> QED
  BY <1>1, <1>2, <1>3, WireFacts, SaidGrows

LEMMA DeliveredTypes ==
  ASSUME StreamTypes
  PROVE  InTransit \in Seq(Event) /\ passed \o InTransit \in Seq(Event) /\ Delivered \in Seq(Event)
<1>1. held \in Event /\ passed \in Seq(Event) /\ upstream \in Seq(Event)
  BY DEF StreamTypes
<1>2. InTransit \in Seq(Event)
  BY <1>1 DEF InTransit
<1>3. passed \o InTransit \in Seq(Event)
  BY <1>1, <1>2, ConcatProperties
<1> QED
  BY <1>1, <1>2, <1>3, ConcatProperties DEF Delivered

-----------------------------------------------------------------------------
(* The events and the lines stay in step.                                  *)

LEMMA InStepWithALine ==
  ASSUME NEW D \in Seq(Event), NEW Sd \in Seq(Event), NEW state, NEW e \in Event, NEW f \in Event,
         InStep(D, Sd, state), state # "over", Like(e, f),
         NEW next, next = "over" <=> Terminal(e)
  PROVE  InStep(Append(D, e), Append(Sd, f), next)
<1>1. PICK N \in Nat : N = Len(D) /\ N = Len(Sd)
  BY DEF InStep
<1>2. PICK A \in Seq(Event) : A = Append(D, e)
  BY AppendProperties
<1>3. PICK B \in Seq(Event) : B = Append(Sd, f)
  BY AppendProperties
<1>4. Len(A) = N + 1 /\ (\A i \in 1..N : A[i] = D[i]) /\ A[N + 1] = e /\ A # <<>>
  <2>1. /\ Append(D, e) # <<>> /\ Len(Append(D, e)) = Len(D) + 1
        /\ \A i \in 1..Len(D) : Append(D, e)[i] = D[i]
        /\ Append(D, e)[Len(D) + 1] = e
    BY AppendProperties
  <2> QED
    BY <1>1, <1>2, <2>1
<1>5. Len(B) = N + 1 /\ (\A i \in 1..N : B[i] = Sd[i]) /\ B[N + 1] = f
  BY <1>1, <1>3, AppendProperties
<1>6. \A i \in 1..N : Like(D[i], Sd[i]) /\ ~ Terminal(D[i])
  BY <1>1 DEF InStep
<1>7. ASSUME NEW i \in 1..(N + 1) PROVE Like(A[i], B[i]) /\ (Terminal(A[i]) => next = "over" /\ i = N + 1)
  <2>1. CASE i \in 1..N
    BY <1>4, <1>5, <1>6, <2>1
  <2>2. CASE i = N + 1
    BY <1>4, <1>5, <2>2
  <2> QED
    BY <2>1, <2>2
<1>8. next = "over" => Terminal(Last(A))
  BY <1>4 DEF Last
<1>9. InStep(A, B, next)
  BY <1>4, <1>5, <1>7, <1>8 DEF InStep
<1> QED
  BY <1>2, <1>3, <1>9

LEMMA InStepWithTheLastWord ==
  ASSUME NEW D \in Seq(Event), NEW Sd \in Seq(Event), NEW state, NEW e \in Event,
         InStep(D, Sd, state), state # "over", Terminal(e)
  PROVE  InStep(Append(D, e), Sd, "over")
<1>1. PICK N \in Nat : N = Len(D) /\ N = Len(Sd)
  BY DEF InStep
<1>2. PICK A \in Seq(Event) : A = Append(D, e)
  BY AppendProperties
<1>3. Len(A) = N + 1 /\ (\A i \in 1..N : A[i] = D[i]) /\ A[N + 1] = e /\ A # <<>>
  <2>1. /\ Append(D, e) # <<>> /\ Len(Append(D, e)) = Len(D) + 1
        /\ \A i \in 1..Len(D) : Append(D, e)[i] = D[i]
        /\ Append(D, e)[Len(D) + 1] = e
    BY AppendProperties
  <2> QED
    BY <1>1, <1>2, <2>1
<1>4. \A i \in 1..N : Like(D[i], Sd[i]) /\ ~ Terminal(D[i])
  BY <1>1 DEF InStep
<1>5. ASSUME NEW i \in 1..(N + 1) PROVE Terminal(A[i]) => i = N + 1
  BY <1>3, <1>4
<1>6. Terminal(Last(A))
  BY <1>3 DEF Last
<1>7. InStep(A, Sd, "over")
  BY <1>1, <1>3, <1>4, <1>5, <1>6 DEF InStep
<1> QED
  BY <1>2, <1>7

LEMMA StepIsOrder ==
  ASSUME StreamTypes, EventsFollowLines, CallerFollows
  PROVE  DeliveredInOrder
<1>1. PICK D \in Seq(Event) : D = Delivered
  BY DeliveredTypes
<1>2. PICK Sd \in Seq(Event) : Sd = Said
  BY ServerTypes
<1>3. InStep(D, Sd, decoder)
  BY <1>1, <1>2 DEF EventsFollowLines
<1>4. Len(D) \in Nat /\ Len(Sd) \in Nat /\ DOMAIN D = 1..Len(D)
  OBVIOUS
<1>5. \A i \in DOMAIN D : Terminal(D[i]) => i = Len(D)
  BY <1>3, <1>4 DEF InStep
<1>6. \A i \in DOMAIN D : Like(D[i], IF i <= Len(Sd) THEN Sd[i] ELSE D[i])
  <2> SUFFICES ASSUME NEW i \in DOMAIN D PROVE Like(D[i], IF i <= Len(Sd) THEN Sd[i] ELSE D[i])
    OBVIOUS
  <2>1. i \in Nat /\ i > 0 /\ i <= Len(D) /\ D[i] \in Event
    BY <1>4
  <2>2. CASE i <= Len(Sd)
    <3>1. i \in 1..Len(Sd)
      BY <1>4, <2>1, <2>2
    <3>2. Like(D[i], Sd[i])
      BY <1>3, <3>1 DEF InStep
    <3> QED
      BY <2>2, <3>2
  <2>3. CASE ~ (i <= Len(Sd))
    <3>1. i = Len(D) /\ decoder = "over"
      <4>1. Len(D) = Len(Sd) \/ (decoder = "over" /\ Len(D) = Len(Sd) + 1)
        BY <1>3 DEF InStep
      <4>2. Len(D) # Len(Sd)
        BY <1>4, <2>1, <2>3
      <4>3. decoder = "over" /\ Len(D) = Len(Sd) + 1
        BY <4>1, <4>2, Zenon
      <4>4. \A n, m, k \in Nat : n = m + 1 /\ k <= n /\ ~ (k <= m) => k = n
        OBVIOUS
      <4> QED
        BY <1>4, <2>1, <2>3, <4>3, <4>4, Zenon
    <3>2. Terminal(D[i])
      <4>1. Terminal(Last(D))
        BY <1>3, <3>1 DEF InStep
      <4> QED
        BY <3>1, <4>1 DEF Last
    <3>3. Like(D[i], D[i])
      BY <3>2 DEF Like, Terminal
    <3> QED
      BY <2>3, <3>3
  <2> QED
    BY <2>2, <2>3
<1>7. Len(D) - Len(Sd) \in IF decoder = "over" /\ (Sd = <<>> \/ ~ Terminal(Last(Sd))) THEN {1} ELSE {0}
  <2>1. CASE decoder = "over" /\ Len(D) = Len(Sd) + 1
    <3>1. Sd = <<>> \/ ~ Terminal(Last(Sd))
      <4> SUFFICES ASSUME Sd # <<>> PROVE ~ Terminal(Last(Sd))
        OBVIOUS
      <4>1. Len(Sd) \in 1..Len(Sd) /\ Len(Sd) \in 1..Len(D) /\ Len(Sd) # Len(D)
        BY <1>4, <2>1
      <4>2. Like(D[Len(Sd)], Sd[Len(Sd)]) /\ ~ Terminal(D[Len(Sd)])
        BY <1>3, <4>1 DEF InStep
      <4> QED
        BY <4>2 DEF Like, Terminal, Last
    <3> QED
      BY <1>4, <2>1, <3>1
  <2>2. CASE Len(D) = Len(Sd)
    <3>1. decoder = "over" => Sd # <<>> /\ Terminal(Last(Sd))
      <4> SUFFICES ASSUME decoder = "over" PROVE Sd # <<>> /\ Terminal(Last(Sd))
        OBVIOUS
      <4>1. D # <<>> /\ Terminal(D[Len(D)])
        BY <1>3 DEF InStep, Last
      <4>2. Len(D) \in 1..Len(Sd) /\ Sd # <<>>
        BY <1>4, <2>2, <4>1
      <4>3. Like(D[Len(D)], Sd[Len(Sd)])
        BY <1>3, <2>2, <4>2 DEF InStep
      <4> QED
        BY <4>1, <4>2, <4>3 DEF Like, Terminal, Last
    <3> QED
      BY <1>4, <2>2, <3>1
  <2> QED
    BY <1>3, <2>1, <2>2 DEF InStep
<1> QED
  BY <1>1, <1>2, <1>5, <1>6, <1>7 DEF DeliveredInOrder, CallerFollows

-----------------------------------------------------------------------------
(* The steps. What an action leaves alone first.                           *)

LEMMA StaysInStep ==
  ASSUME EventsFollowLines, script' = script, lineNo' = lineNo, Delivered' = Delivered,
         decoder' = decoder \/ (decoder # "over" /\ decoder' # "over")
  PROVE  EventsFollowLines'
<1>1. Said' = Said
  BY DEF Said
<1>2. InStep(Delivered, Said, decoder)
  BY DEF EventsFollowLines
<1>3. InStep(Delivered, Said, decoder')
  BY <1>2 DEF InStep
<1> QED
  BY <1>1, <1>3 DEF EventsFollowLines

LEMMA TaskStays ==
  ASSUME TaskFollows, StoredIsForwarded, UNCHANGED forwardVars, decoder' # "ask"
  PROVE  TaskFollows' /\ StoredIsForwarded' /\ InTransit' = InTransit
<1>1. InTransit' = InTransit
  BY DEF InTransit, forwardVars
<1>2. passed' = passed /\ acc' = acc /\ forward' = forward /\ stored' = stored
  BY DEF forwardVars
<1>3. TaskFollows'
  BY <1>1, <1>2 DEF TaskFollows
<1>4. StoredIsForwarded'
  BY <1>2 DEF StoredIsForwarded
<1> QED
  BY <1>1, <1>3, <1>4

LEMMA ConnectKeeps ==
  ASSUME StreamInv, Connect \/ Refuse
  PROVE  StreamInv'
<1> USE DEF StreamInv
<1>1. decoder = "ask" /\ forward = "none" /\ stored = {}
  BY DEF Connect, Refuse, TaskFollows
<1>2. /\ UNCHANGED <<script, sent, buffer, lineNo, usage, upstream, held, acc, passed, stored>>
      /\ UNCHANGED <<channel, got>>
      /\ decoder' \in {"await", "refused"} /\ forward' \in {"recv", "over"}
      /\ open' \in {open, FALSE} /\ (decoder' = "await" => open' = open)
  BY DEF Connect, Refuse, callerVars
<1>3. StreamTypes'
  BY <1>2 DEF StreamTypes
<1>4. BufferShowsTheWire'
  BY <1>1, <1>2 DEF BufferShowsTheWire
<1>5. UsageIsOfTheLines'
  BY <1>2 DEF UsageIsOfTheLines
<1>6. InTransit' = InTransit
  BY <1>1, <1>2 DEF InTransit
<1>7. EventsFollowLines'
  <2>1. Delivered' = Delivered
    BY <1>2, <1>6 DEF Delivered
  <2> QED
    BY <1>1, <1>2, <2>1, StaysInStep
<1>8. CallerFollows'
  BY <1>2 DEF CallerFollows
<1>9. TaskFollows' /\ StoredIsForwarded'
  <2>1. TaskFollows'
    BY <1>1, <1>2, <1>6 DEF TaskFollows
  <2> QED
    BY <1>1, <1>2, <2>1 DEF StoredIsForwarded
<1> QED
  BY <1>3, <1>4, <1>5, <1>7, <1>8, <1>9

LEMMA LossyFacts ==
  ASSUME NEW W \in Seq(Symbol), NEW at \in Nat, NEW n \in Nat, at + n <= Len(W)
  PROVE  /\ Lossy(SubSeq(W, at + 1, at + n)) \in Seq(Symbol)
         /\ Len(Lossy(SubSeq(W, at + 1, at + n))) = n
         /\ \A i \in 1..n : Shows(Lossy(SubSeq(W, at + 1, at + n))[i], W[at + i])
<1>1. PICK chunk : chunk = SubSeq(W, at + 1, at + n)
  OBVIOUS
<1>2. chunk \in Seq(Symbol) /\ Len(chunk) = n /\ \A i \in 1..n : chunk[i] = W[at + i]
  <2>1. \A i \in (at + 1)..(at + n) : W[i] \in Symbol
    OBVIOUS
  <2>2. /\ chunk \in Seq(Symbol)
        /\ Len(chunk) = IF at + 1 <= at + n THEN (at + n) - (at + 1) + 1 ELSE 0
        /\ \A i \in 1..((at + n) - (at + 1) + 1) : chunk[i] = W[(at + 1) + i - 1]
    BY <1>1, <2>1, SubSeqProperties
  <2>3. (at + n) - (at + 1) + 1 = n /\ \A i \in 1..n : (at + 1) + i - 1 = at + i
    OBVIOUS
  <2> QED
    BY <2>2, <2>3
<1>3. PICK l : l = [i \in DOMAIN chunk |->
        CASE chunk[i] = ">" /\ (i = 1 \/ chunk[i - 1] # "<") -> "?"
          [] chunk[i] = "<" /\ i = Len(chunk) -> "?"
          [] OTHER -> chunk[i]]
  OBVIOUS
<1>4. DOMAIN l = 1..n /\ \A i \in 1..n : Shows(l[i], chunk[i]) /\ l[i] \in Symbol
  <2>1. DOMAIN chunk = 1..n /\ \A i \in 1..n : chunk[i] \in Symbol
    BY <1>2
  <2>2. "?" \in Symbol
    BY DEF Symbol, Byte
  <2> QED
    BY <1>3, <2>1, <2>2 DEF Shows
<1>5. l = [i \in 1..n |-> l[i]]
  BY <1>3, <1>4
<1>6. l \in Seq(Symbol) /\ Len(l) = n
  <2>1. [i \in 1..n |-> l[i]] \in [1..n -> Symbol]
    BY <1>4
  <2>2. l \in [1..n -> Symbol]
    BY <1>5, <2>1
  <2>3. l \in Seq(Symbol)
    BY <2>2, SeqDef
  <2> QED
    BY <1>4, <2>3
<1>7. Lossy(chunk) = l
  BY <1>3 DEF Lossy
<1> QED
  BY <1>1, <1>2, <1>4, <1>6, <1>7

LEMMA TakeChunkKeeps ==
  ASSUME StreamInv, NEW n \in 1..Len(Wire(script)), TakeChunk(n)
  PROVE  StreamInv'
<1> USE DEF StreamInv
<1>1. /\ decoder = "await" /\ sent + n <= Len(Wire(script)) /\ sent' = sent + n
      /\ UNCHANGED <<script, lineNo, usage, upstream, forwardVars, channel, callerVars>>
      /\ (decoder' = "fail" /\ buffer' = buffer)
         \/ (decoder' = "drain"
               /\ buffer' = buffer \o Lossy(SubSeq(Wire(script), sent + 1, sent + n)))
  BY DEF TakeChunk
<1>2. PICK W \in Seq(Symbol) : W = Wire(script)
  BY ServerTypes
<1>3. sent \in Nat /\ n \in Nat /\ sent + n <= Len(W) /\ buffer \in Seq(Symbol)
  BY <1>1, <1>2 DEF StreamTypes
<1>4. PICK l \in Seq(Symbol) : /\ l = Lossy(SubSeq(W, sent + 1, sent + n)) /\ Len(l) = n
                               /\ \A i \in 1..n : Shows(l[i], W[sent + i])
  BY <1>3, LossyFacts
<1>5. /\ buffer \o l \in Seq(Symbol) /\ Len(buffer \o l) = Len(buffer) + n
      /\ \A i \in 1..(Len(buffer) + n) :
           (buffer \o l)[i] = IF i <= Len(buffer) THEN buffer[i] ELSE l[i - Len(buffer)]
  <2>1. /\ buffer \o l \in Seq(Symbol) /\ Len(buffer \o l) = Len(buffer) + Len(l)
        /\ \A i \in 1..(Len(buffer) + Len(l)) :
             (buffer \o l)[i] = IF i <= Len(buffer) THEN buffer[i] ELSE l[i - Len(buffer)]
    BY <1>3, ConcatProperties
  <2> QED
    BY <1>4, <2>1
<1>6. StreamTypes'
  <2>1. buffer' \in Seq(Symbol)
    BY <1>1, <1>2, <1>3, <1>4, <1>5
  <2>2. sent' \in 0..Len(Wire(script))
    BY <1>1, <1>2, <1>3
  <2>3. Wire(script)' = Wire(script)
    BY <1>1
  <2> QED
    BY <1>1, <2>1, <2>2, <2>3 DEF StreamTypes, forwardVars, callerVars
<1>7. BufferShowsTheWire'
  <2> SUFFICES ASSUME decoder' = "drain" PROVE BufferShowsTheWire'
    BY <1>1 DEF BufferShowsTheWire
  <2>1. PICK o \in Nat : o = Offset(script, lineNo)
    <3>1. lineNo \in 0..Len(script) /\ script \in Seq(Lines)
      BY ServerTypes DEF StreamTypes
    <3> QED
      BY <3>1, WireFacts
  <2>2. o + Len(buffer) = sent /\ \A i \in 1..Len(buffer) : Shows(buffer[i], W[o + i])
    BY <1>1, <1>2, <2>1 DEF BufferShowsTheWire
  <2>3. buffer' = buffer \o l
    BY <1>1, <1>2, <1>4
  <2>4. PICK k \in Nat : k = Len(buffer)
    BY <1>3
  <2>5. o + Len(buffer') = sent'
    <3>1. Len(buffer') = k + n
      BY <1>5, <2>3, <2>4
    <3>2. o + k = sent
      BY <2>2, <2>4
    <3>3. o + (k + n) = sent + n
      BY <1>3, <3>2
    <3> QED
      BY <1>1, <3>1, <3>3
  <2>6. ASSUME NEW i \in 1..(k + n) PROVE Shows((buffer \o l)[i], W[o + i])
    <3>1. CASE i <= k
      <4>1. i \in 1..k /\ (buffer \o l)[i] = buffer[i]
        BY <1>5, <2>4, <3>1
      <4> QED
        BY <2>2, <2>4, <4>1
    <3>2. CASE ~ (i <= k)
      <4>1. PICK j \in 1..n : j = i - k
        BY <1>3, <3>2
      <4>2. (buffer \o l)[i] = l[j]
        BY <1>5, <2>4, <3>2, <4>1
      <4>3. o + k = sent /\ i = k + j /\ o + (k + j) = (o + k) + j
        BY <2>2, <2>4, <4>1
      <4>4. o + i = sent + j
        BY <4>3
      <4> QED
        BY <1>4, <4>1, <4>2, <4>4
    <3> QED
      BY <3>1, <3>2
  <2>7. Len(buffer') = k + n /\ Offset(script, lineNo)' = o /\ Wire(script)' = W
    BY <1>1, <1>2, <1>5, <2>1, <2>3, <2>4
  <2> QED
    BY <2>3, <2>5, <2>6, <2>7 DEF BufferShowsTheWire
<1>8. UsageIsOfTheLines' /\ CallerFollows' /\ TaskFollows' /\ StoredIsForwarded' /\ InTransit' = InTransit
  <2>1. decoder' # "ask" /\ UNCHANGED forwardVars
    BY <1>1
  <2>2. TaskFollows' /\ StoredIsForwarded' /\ InTransit' = InTransit
    BY <2>1, TaskStays
  <2> QED
    BY <1>1, <2>2 DEF UsageIsOfTheLines, CallerFollows, callerVars, forwardVars
<1>9. EventsFollowLines'
  <2>1. Delivered' = Delivered
    BY <1>1, <1>8 DEF Delivered, forwardVars
  <2> QED
    BY <1>1, <2>1, StaysInStep
<1> QED
  BY <1>6, <1>7, <1>8, <1>9

LEMMA QuietKeeps ==
  ASSUME StreamInv, Drained \/ Break \/ Close
  PROVE  StreamInv'
<1> USE DEF StreamInv
<1>1. /\ decoder \in {"drain", "await"} /\ decoder' \in {"fail", "await", "end"}
      /\ UNCHANGED <<script, sent, buffer, lineNo, usage, upstream, forwardVars, channel, callerVars>>
  BY DEF Drained, Break, Close, Hangs
<1>2. StreamTypes'
  BY <1>1 DEF StreamTypes, forwardVars, callerVars
<1>3. BufferShowsTheWire'
  BY <1>1 DEF BufferShowsTheWire
<1>4. UsageIsOfTheLines' /\ CallerFollows' /\ TaskFollows' /\ StoredIsForwarded' /\ InTransit' = InTransit
  <2>1. TaskFollows' /\ StoredIsForwarded' /\ InTransit' = InTransit
    BY <1>1, TaskStays
  <2> QED
    BY <1>1, <2>1 DEF UsageIsOfTheLines, CallerFollows, callerVars, forwardVars
<1>5. EventsFollowLines'
  <2>1. Delivered' = Delivered
    BY <1>1, <1>4 DEF Delivered, forwardVars
  <2> QED
    BY <1>1, <2>1, StaysInStep
<1> QED
  BY <1>2, <1>3, <1>4, <1>5

(* What is put behind the upstream is put behind what is delivered.        *)
LEMMA DeliveredGrows ==
  ASSUME StreamTypes, NEW e \in Event, upstream' = Append(upstream, e), UNCHANGED forwardVars
  PROVE  Delivered' = Append(Delivered, e) /\ upstream' \in Seq(Event)
<1>1. InTransit' = InTransit /\ passed' = passed
  BY DEF InTransit, forwardVars
<1>2. PICK a \in Seq(Event) : a = passed \o InTransit
  BY DeliveredTypes
<1>3. upstream \in Seq(Event) /\ <<e>> \in Seq(Event)
  BY DEF StreamTypes
<1>4. Append(upstream, e) = upstream \o <<e>>
  BY <1>3, AppendIsConcat
<1>5. a \o (upstream \o <<e>>) = (a \o upstream) \o <<e>>
  BY <1>2, <1>3, ConcatAssociative
<1>6. a \o upstream \in Seq(Event)
  BY <1>2, <1>3, ConcatProperties
<1>7. (a \o upstream) \o <<e>> = Append(a \o upstream, e)
  BY <1>6, AppendIsConcat
<1>8. Delivered = a \o upstream /\ Delivered' = a \o upstream'
  BY <1>1, <1>2 DEF Delivered
<1>9. upstream' \in Seq(Event)
  BY <1>3, AppendProperties
<1> QED
  BY <1>4, <1>5, <1>7, <1>8, <1>9

LEMMA LastWordKeeps ==
  ASSUME StreamInv, LastWord
  PROVE  StreamInv'
<1> USE DEF StreamInv
<1>1. PICK e : e = IF decoder = "fail" THEN Error ELSE Done
  OBVIOUS
<1>2. /\ decoder \in {"fail", "end"} /\ decoder' = "over" /\ upstream' = Append(upstream, e)
      /\ UNCHANGED <<script, sent, buffer, lineNo, usage, forwardVars, channel, callerVars>>
  BY <1>1 DEF LastWord
<1>3. e \in Event /\ Terminal(e)
  BY <1>1 DEF Event, Error, Done, Terminal
<1>4. Delivered' = Append(Delivered, e) /\ upstream' \in Seq(Event)
  BY <1>2, <1>3, DeliveredGrows
<1>5. StreamTypes'
  BY <1>2, <1>4 DEF StreamTypes, forwardVars, callerVars
<1>6. BufferShowsTheWire'
  BY <1>2 DEF BufferShowsTheWire
<1>7. UsageIsOfTheLines' /\ CallerFollows' /\ TaskFollows' /\ StoredIsForwarded'
  <2>1. TaskFollows' /\ StoredIsForwarded'
    BY <1>2, TaskStays
  <2> QED
    BY <1>2, <2>1 DEF UsageIsOfTheLines, CallerFollows, callerVars, forwardVars
<1>8. EventsFollowLines'
  <2>1. Said' = Said
    BY <1>2 DEF Said
  <2>2. Said \in Seq(Event) /\ Delivered \in Seq(Event) /\ InStep(Delivered, Said, decoder) /\ decoder # "over"
    BY <1>2, ServerTypes, DeliveredTypes DEF EventsFollowLines
  <2>3. InStep(Append(Delivered, e), Said, "over")
    BY <1>3, <2>2, InStepWithTheLastWord
  <2> QED
    BY <1>2, <1>4, <2>1, <2>3 DEF EventsFollowLines
<1> QED
  BY <1>5, <1>6, <1>7, <1>8

(* The first end of a line in the buffer is that of the next line.         *)
LEMMA NextLineIsFirst ==
  ASSUME StreamInv, decoder = "drain", Contains(buffer, "nl"),
         NEW m, m = lineNo + 1, NEW body, body = script[m].body
  PROVE  /\ m \in 1..Len(script) /\ body \in Seq(Byte)
         /\ Len(body) + 1 \in 1..Len(buffer) /\ buffer[Len(body) + 1] = "nl"
         /\ \A j \in 1..Len(body) : buffer[j] \in {body[j], "?"} /\ buffer[j] \in Byte
<1> USE DEF StreamInv
<1>1. PICK W \in Seq(Symbol) : W = Wire(script)
  BY ServerTypes
<1>2. script \in Seq(Lines) /\ lineNo \in 0..Len(script) /\ Len(script) \in Nat
  BY ServerTypes DEF StreamTypes
<1>3. PICK o \in Nat : o = Offset(script, lineNo)
  BY <1>2, WireFacts
<1>4. PICK k \in Nat : k = Len(buffer)
  BY DEF StreamTypes
<1>5. o + k = sent /\ \A i \in 1..k : Shows(buffer[i], W[o + i])
  BY <1>1, <1>3, <1>4 DEF BufferShowsTheWire
<1>6. PICK i \in 1..k : buffer[i] = "nl"
  BY <1>4 DEF Contains
<1>7. sent <= Len(W) /\ sent \in Nat /\ Len(W) \in Nat
  BY <1>1 DEF StreamTypes
<1>8. m \in 1..Len(script)
  <2>1. o < Len(W)
    BY <1>5, <1>6, <1>7
  <2>2. Offset(script, Len(script)) = Len(W)
    BY <1>1, <1>2, WireFacts
  <2>3. lineNo # Len(script)
    BY <1>3, <2>1, <2>2
  <2> QED
    BY <1>2, <2>3
<1>9. body \in Seq({"x", "<", ">"}) /\ body \in Seq(Byte)
  BY <1>2, <1>8, LineFacts
<1>10. PICK l \in Nat : l = Len(body)
  BY <1>9
<1>11. (\A j \in 1..l : W[o + j] = body[j]) /\ W[o + l + 1] = "nl"
  <2>1. m - 1 = lineNo
    BY <1>2
  <2>2. /\ Offset(script, m) = Offset(script, m - 1) + Len(script[m].body) + 1
        /\ \A j \in 1..Len(script[m].body) : Wire(script)[Offset(script, m - 1) + j] = script[m].body[j]
        /\ Wire(script)[Offset(script, m)] = "nl"
    BY <1>2, <1>8, WireFacts
  <2> QED
    BY <1>1, <1>3, <1>10, <2>1, <2>2
<1>12. \A j \in 1..l : body[j] \in {"x", "<", ">"}
  BY <1>9, <1>10
<1>13. i > l /\ l + 1 \in 1..k
  <2>1. W[o + i] = "nl"
    BY <1>5, <1>6 DEF Shows
  <2>2. ~ (i \in 1..l)
    BY <1>11, <1>12, <2>1
  <2> QED
    BY <1>6, <1>10, <2>2
<1>14. buffer[l + 1] = "nl"
  <2>1. Shows(buffer[l + 1], W[o + (l + 1)]) /\ o + (l + 1) = o + l + 1
    BY <1>5, <1>13
  <2> QED
    BY <1>11, <2>1 DEF Shows
<1>15. ASSUME NEW j \in 1..l PROVE buffer[j] \in {body[j], "?"} /\ buffer[j] \in Byte
  <2>1. j \in 1..k
    BY <1>13
  <2>2. Shows(buffer[j], body[j])
    BY <1>5, <1>11, <2>1
  <2> QED
    BY <1>12, <2>2 DEF Shows, Byte
<1> QED
  BY <1>4, <1>8, <1>9, <1>10, <1>13, <1>14, <1>15

LEMMA DrainKeeps ==
  ASSUME StreamInv, Drain
  PROVE  StreamInv'
<1> USE DEF StreamInv
<1>1. PICK m : m = lineNo + 1
  OBVIOUS
<1>2. PICK line : line = script[m]
  OBVIOUS
<1>3. PICK body : body = line.body
  OBVIOUS
<1>4. decoder = "drain" /\ Contains(buffer, "nl") /\ lineNo' = m
      /\ UNCHANGED <<script, sent, forwardVars, channel, callerVars>>
  BY <1>1 DEF Drain
<1>5. /\ m \in 1..Len(script) /\ body \in Seq(Byte)
      /\ Len(body) + 1 \in 1..Len(buffer) /\ buffer[Len(body) + 1] = "nl"
      /\ \A j \in 1..Len(body) : buffer[j] \in {body[j], "?"} /\ buffer[j] \in Byte
  BY <1>1, <1>2, <1>3, <1>4, NextLineIsFirst
<1>6. PICK l \in Nat : l = Len(body)
  BY <1>5
<1>7. PICK k \in Nat : k = Len(buffer) /\ DOMAIN buffer = 1..k
  BY DEF StreamTypes
<1>8. PICK pos : pos = CHOOSE i \in DOMAIN buffer : buffer[i] = "nl" /\ \A j \in 1..(i - 1) : buffer[j] # "nl"
  OBVIOUS
<1>9. pos = l + 1
  <2>1. \A j \in 1..l : buffer[j] # "nl"
    BY <1>5, <1>6 DEF Byte
  <2>2. l + 1 \in 1..k /\ buffer[l + 1] = "nl" /\ (l + 1) - 1 = l
    BY <1>5, <1>6, <1>7
  <2>3. \A i \in 1..k : buffer[i] = "nl" /\ (\A j \in 1..(i - 1) : buffer[j] # "nl") => i = l + 1
    <3> SUFFICES ASSUME NEW i \in 1..k, buffer[i] = "nl", \A j \in 1..(i - 1) : buffer[j] # "nl"
                 PROVE  i = l + 1
      OBVIOUS
    <3>1. ~ (i \in 1..l) /\ ~ (l + 1 \in 1..(i - 1))
      BY <2>1, <2>2
    <3> QED
      BY <2>2, <3>1
  <2> QED
    BY <1>7, <1>8, <2>1, <2>2, <2>3
<1>10. PICK b : b = SubSeq(buffer, 1, pos - 1)
  OBVIOUS
<1>11. b \in Seq(Byte) /\ Reads(b, body)
  <2>1. \A j \in 1..l : buffer[j] \in Byte /\ buffer[j] \in {body[j], "?"}
    BY <1>5, <1>6
  <2>2. b = SubSeq(buffer, 1, l)
    BY <1>9, <1>10
  <2>3. b \in Seq(Byte) /\ (Len(b) = IF 1 <= l THEN l - 1 + 1 ELSE 0)
        /\ \A j \in 1..(l - 1 + 1) : b[j] = buffer[1 + j - 1]
    BY <2>1, <2>2, SubSeqProperties
  <2>4. Len(b) = l /\ \A j \in 1..l : b[j] = buffer[j]
    BY <2>3
  <2> QED
    BY <1>6, <2>1, <2>3, <2>4 DEF Reads
<1>12. PICK rest : rest = SubSeq(buffer, pos + 1, Len(buffer))
  OBVIOUS
<1>13. rest \in Seq(Symbol) /\ l + 1 + Len(rest) = k /\ \A i \in 1..Len(rest) : rest[i] = buffer[l + 1 + i]
  <2>1. l + 1 <= k
    BY <1>5, <1>6, <1>7
  <2>2. \A i \in (l + 2)..k : buffer[i] \in Symbol
    BY <1>7 DEF StreamTypes
  <2>3. rest = SubSeq(buffer, l + 2, k)
    BY <1>7, <1>9, <1>12
  <2>4. rest \in Seq(Symbol) /\ (Len(rest) = IF l + 2 <= k THEN k - (l + 2) + 1 ELSE 0)
        /\ \A i \in 1..(k - (l + 2) + 1) : rest[i] = buffer[(l + 2) + i - 1]
    BY <2>2, <2>3, SubSeqProperties
  <2>5. Len(rest) = k - l - 1
    BY <2>1, <2>4
  <2>6. \A i \in 1..(k - l - 1) : rest[i] = buffer[l + 1 + i]
    <3>1. k - (l + 2) + 1 = k - l - 1 /\ \A i \in 1..(k - l - 1) : (l + 2) + i - 1 = l + 1 + i
      OBVIOUS
    <3> QED
      BY <2>4, <3>1
  <2> QED
    BY <2>1, <2>4, <2>5, <2>6
<1>14. script \in Seq(Lines) /\ lineNo \in 0..Len(script) /\ line \in Lines /\ m - 1 = lineNo
  <2>1. script \in Seq(Lines) /\ lineNo \in 0..Len(script)
    BY ServerTypes DEF StreamTypes
  <2> QED
    BY <1>1, <1>2, <1>5, <2>1
<1>15. PICK u : u = Merged(line, usage)
  OBVIOUS
<1>16. u = UsageAt(script, m) /\ u \in Usage
  <2>1. lineNo \in 0..(Len(script) - 1)
    BY <1>1, <1>5, <1>14
  <2>2. UsageAt(script, lineNo + 1) = Merged(script[lineNo + 1], UsageAt(script, lineNo))
    BY <1>14, <2>1, UsageGrows
  <2>3. u = UsageAt(script, m)
    BY <1>1, <1>2, <1>15, <2>2 DEF UsageIsOfTheLines
  <2>4. m \in 0..Len(script)
    BY <1>5
  <2> QED
    BY <1>14, <2>3, <2>4, UsageTypes
<1>17. PICK es : es = EventsOf(line, b, u)
  OBVIOUS
<1>18. PICK sd : sd = EventsOf(line, body, u)
  OBVIOUS
<1>19. /\ upstream' = upstream \o es /\ buffer' = rest /\ usage' = u
       /\ decoder' = IF es # <<>> /\ Terminal(es[1]) THEN "over" ELSE "drain"
  BY <1>1, <1>2, <1>8, <1>10, <1>12, <1>15, <1>17 DEF Drain
<1>20. /\ es \in Seq(Event) /\ sd \in Seq(Event) /\ Len(es) = Len(sd) /\ Len(sd) \in {0, 1}
       /\ Len(sd) = 1 => Like(es[1], sd[1])
  BY <1>5, <1>11, <1>14, <1>16, <1>17, <1>18, EventsFacts
<1>21. Said' = Said \o sd /\ Said \in Seq(Event)
  <2>1. SaidBy(script, m) = SaidBy(script, m - 1) \o EventsOf(script[m], script[m].body, UsageAt(script, m))
    BY <1>5, <1>14, SaidGrows
  <2>2. Said = SaidBy(script, lineNo) /\ Said' = SaidBy(script, m) /\ Said \in Seq(Event)
    BY <1>4, ServerTypes DEF Said, SaidBy
  <2> QED
    BY <1>2, <1>3, <1>14, <1>16, <1>18, <2>1, <2>2
<1>22. BufferShowsTheWire'
  <2>1. PICK W \in Seq(Symbol) : W = Wire(script)
    BY ServerTypes
  <2>2. PICK o \in Nat : o = Offset(script, lineNo)
    BY <1>14, WireFacts
  <2>3. o + k = sent /\ \A i \in 1..k : Shows(buffer[i], W[o + i])
    BY <1>4, <1>7, <2>1, <2>2 DEF BufferShowsTheWire
  <2>4. Offset(script, m) = o + l + 1
    <3>1. Offset(script, m) = Offset(script, m - 1) + Len(script[m].body) + 1
      BY <1>5, <1>14, WireFacts
    <3> QED
      BY <1>2, <1>3, <1>6, <1>14, <2>2, <3>1
  <2>5. PICK n \in Nat : n = Len(rest)
    BY <1>13
  <2>6. (o + l + 1) + n = sent
    <3>1. l + 1 + n = k /\ o + k = sent
      BY <1>13, <2>3, <2>5
    <3>2. o + (l + 1 + n) = (o + l + 1) + n
      OBVIOUS
    <3> QED
      BY <3>1, <3>2
  <2>7. ASSUME NEW i \in 1..n PROVE Shows(rest[i], W[(o + l + 1) + i])
    <3>1. PICK j \in 1..k : j = l + 1 + i
      BY <1>13, <2>5
    <3>2. rest[i] = buffer[j] /\ (o + l + 1) + i = o + j
      BY <1>13, <2>5, <3>1
    <3> QED
      BY <2>3, <3>2
  <2>8. Offset(script, lineNo)' = o + l + 1 /\ Wire(script)' = W /\ buffer' = rest /\ sent' = sent
    BY <1>4, <1>19, <2>1, <2>4
  <2> QED
    BY <2>5, <2>6, <2>7, <2>8 DEF BufferShowsTheWire
<1>23. UsageIsOfTheLines' /\ CallerFollows' /\ TaskFollows' /\ StoredIsForwarded' /\ InTransit' = InTransit
  <2>1. decoder' # "ask" /\ UNCHANGED forwardVars
    BY <1>4, <1>19
  <2>2. TaskFollows' /\ StoredIsForwarded' /\ InTransit' = InTransit
    BY <2>1, TaskStays
  <2> QED
    BY <1>4, <1>16, <1>19, <2>2 DEF UsageIsOfTheLines, CallerFollows, callerVars, forwardVars
<1>24. StreamTypes'
  <2>1. upstream' \in Seq(Event)
    <3>1. upstream \in Seq(Event)
      BY DEF StreamTypes
    <3> QED
      BY <1>19, <1>20, <3>1, ConcatProperties
  <2>2. lineNo' \in 0..Len(script) /\ Wire(script)' = Wire(script)
    BY <1>4, <1>5
  <2> QED
    BY <1>4, <1>13, <1>16, <1>19, <2>1, <2>2 DEF StreamTypes, forwardVars, callerVars
<1>25. EventsFollowLines'
  <2>1. Delivered \in Seq(Event) /\ InStep(Delivered, Said, decoder) /\ upstream \in Seq(Event)
    BY DeliveredTypes DEF EventsFollowLines, StreamTypes
  <2>2. CASE Len(sd) = 0
    <3>1. es = <<>> /\ sd = <<>>
      BY <1>20, <2>2, EmptySeq
    <3>2. upstream' = upstream /\ Said' = Said
      BY <1>19, <1>21, <2>1, <3>1, ConcatEmptySeq
    <3>3. Delivered' = Delivered
      BY <1>4, <1>23, <3>2 DEF Delivered, forwardVars
    <3>4. InStep(Delivered, Said, "drain") /\ decoder' = "drain"
      BY <1>4, <1>19, <2>1, <3>1
    <3> QED
      BY <3>2, <3>3, <3>4 DEF EventsFollowLines
  <2>3. CASE Len(sd) = 1
    <3>1. PICK e \in Event : e = es[1]
      BY <1>20, <2>3
    <3>2. PICK f \in Event : f = sd[1]
      BY <1>20, <2>3
    <3>3. es = <<e>> /\ sd = <<f>> /\ Like(e, f) /\ es # <<>>
      <4>1. Len(es) = 1 /\ Len(sd) = 1 /\ Like(e, f)
        BY <1>20, <2>3, <3>1, <3>2
      <4>2. es = <<e>>
        BY <1>20, <3>1, <4>1
      <4>3. sd = <<f>>
        BY <1>20, <3>2, <4>1
      <4>4. es # <<>>
        BY <4>1
      <4> QED
        BY <4>1, <4>2, <4>3, <4>4
    <3>4. upstream' = Append(upstream, e) /\ Said' = Append(Said, f)
      BY <1>19, <1>21, <2>1, <3>3, AppendIsConcat
    <3>5. Delivered' = Append(Delivered, e)
      BY <1>4, <3>4, DeliveredGrows
    <3>6. decoder # "over" /\ (decoder' = "over" <=> Terminal(e))
      BY <1>4, <1>19, <3>1, <3>3
    <3>7. InStep(Append(Delivered, e), Append(Said, f), decoder')
      BY <1>21, <2>1, <3>3, <3>6, InStepWithALine
    <3> QED
      BY <3>4, <3>5, <3>7 DEF EventsFollowLines
  <2> QED
    BY <1>20, <2>2, <2>3
<1> QED
  BY <1>22, <1>23, <1>24, <1>25

(* What moves from the front of b behind a.                                *)
LEMMA MovesAcross ==
  ASSUME NEW a \in Seq(Event), NEW b \in Seq(Event), b # <<>>
  PROVE  /\ Head(b) \in Event /\ Tail(b) \in Seq(Event) /\ Append(a, Head(b)) \in Seq(Event)
         /\ (a \o <<Head(b)>>) \o Tail(b) = a \o b
         /\ Append(a, Head(b)) \o Tail(b) = a \o b
<1>1. PICK h \in Event : h = Head(b)
  BY HeadTailProperties
<1>2. PICK t \in Seq(Event) : t = Tail(b)
  BY HeadTailProperties
<1>3. <<h>> \in Seq(Event) /\ <<h>> \o t = b
  <2>1. <<h>> \in Seq(Event) /\ Len(<<h>>) = 1 /\ <<h>>[1] = h
    OBVIOUS
  <2>2. /\ <<h>> \o t \in Seq(Event) /\ Len(<<h>> \o t) = 1 + Len(t)
        /\ \A i \in 1..(1 + Len(t)) : (<<h>> \o t)[i] = IF i <= 1 THEN <<h>>[i] ELSE t[i - 1]
    BY <2>1, ConcatProperties
  <2>3. Len(t) = Len(b) - 1 /\ (\A i \in 1..Len(t) : t[i] = b[i + 1]) /\ h = b[1]
    BY <1>1, <1>2, HeadTailProperties
  <2>4. Len(b) \in Nat /\ Len(b) >= 1
    BY EmptySeq
  <2>5. Len(<<h>> \o t) = Len(b)
    BY <2>2, <2>3, <2>4
  <2>6. ASSUME NEW i \in 1..Len(b) PROVE (<<h>> \o t)[i] = b[i]
    <3>1. i \in 1..(1 + Len(t))
      BY <2>3, <2>4
    <3>2. CASE i = 1
      BY <2>1, <2>2, <2>3, <3>1, <3>2
    <3>3. CASE i # 1
      <4>1. i - 1 \in 1..Len(t) /\ ~ (i <= 1) /\ (i - 1) + 1 = i
        BY <2>3, <2>4, <3>3
      <4>2. (<<h>> \o t)[i] = t[i - 1]
        BY <2>2, <3>1, <4>1
      <4> QED
        BY <2>3, <4>1, <4>2
    <3> QED
      BY <3>2, <3>3
  <2> QED
    BY <2>1, <2>2, <2>5, <2>6, SeqEqual
<1>4. (a \o <<h>>) \o t = a \o (<<h>> \o t)
  BY <1>3, ConcatAssociative
<1>5. Append(a, h) = a \o <<h>> /\ Append(a, h) \in Seq(Event)
  BY AppendIsConcat, AppendProperties
<1> QED
  BY <1>1, <1>2, <1>3, <1>4, <1>5

LEMMA PushFollows ==
  ASSUME NEW es \in Seq(Event), NEW e \in Event, acc \in [text : Seq(Byte), tokens : Nat],
         acc.text = TextOf(es), acc.tokens = TokensOf(es)
  PROVE  /\ Push(e) \in [text : Seq(Byte), tokens : Nat]
         /\ Push(e).text = TextOf(Append(es, e)) /\ Push(e).tokens = TokensOf(Append(es, e))
<1>1. acc.text \in Seq(Byte) /\ acc.tokens \in Nat
  OBVIOUS
<1>2. /\ TextIn(e) \in Seq(Byte) /\ TextOf(Append(es, e)) = acc.text \o TextIn(e)
      /\ TokensOf(Append(es, e)) = IF e.is = "usage" THEN e.tokens ELSE acc.tokens
  BY TextGrows, TokensGrow
<1>3. CASE e.is = "text"
  <2>1. TextIn(e) = e.body
    BY <1>3 DEF TextIn
  <2>2. acc.text \o e.body \in Seq(Byte)
    BY <1>1, <1>2, <2>1, ConcatProperties
  <2>3. Push(e) = [acc EXCEPT !.text = acc.text \o e.body]
    BY <1>3 DEF Push
  <2>4. Push(e).text = acc.text \o e.body /\ Push(e).tokens = acc.tokens
    BY <2>3
  <2> QED
    BY <1>2, <1>3, <2>1, <2>2, <2>3, <2>4
<1>4. CASE e.is # "text"
  <2>1. acc.text \o TextIn(e) = acc.text
    BY <1>1, <1>4, ConcatEmptySeq DEF TextIn
  <2>2. CASE e.is = "usage"
    <3>1. e.tokens \in Nat
      BY <2>2 DEF Event, Error, Done
    <3>2. Push(e) = [acc EXCEPT !.tokens = e.tokens]
      BY <2>2 DEF Push
    <3> QED
      BY <1>2, <2>1, <2>2, <3>1, <3>2
  <2>3. CASE e.is # "usage"
    <3>1. Push(e) = acc
      BY <1>4, <2>3 DEF Push
    <3> QED
      BY <1>2, <2>1, <2>3, <3>1
  <2> QED
    BY <2>2, <2>3
<1> QED
  BY <1>3, <1>4

LEMMA RecvKeeps ==
  ASSUME StreamInv, Recv
  PROVE  StreamInv'
<1> USE DEF StreamInv
<1>1. /\ forward = "recv" /\ UNCHANGED <<script, decoderVars, channel, callerVars, passed, stored>>
      /\ upstream # <<>> \/ decoder = "over"
  BY DEF Recv
<1>2. /\ script' = script /\ sent' = sent /\ decoder' = decoder /\ buffer' = buffer
      /\ lineNo' = lineNo /\ usage' = usage /\ channel' = channel /\ open' = open /\ got' = got
      /\ passed' = passed /\ stored' = stored
  BY <1>1 DEF decoderVars, callerVars
<1>3. passed \in Seq(Event) /\ upstream \in Seq(Event) /\ stored = {} /\ decoder # "ask"
  BY <1>1 DEF StreamTypes, TaskFollows
<1>4. InTransit = <<>> /\ passed \o InTransit = passed /\ Delivered = passed \o upstream
  <2>1. InTransit = <<>>
    BY <1>1 DEF InTransit
  <2>2. passed \o <<>> = passed
    BY <1>3, ConcatEmptySeq
  <2> QED
    BY <2>1, <2>2 DEF Delivered
<1>5. BufferShowsTheWire' /\ UsageIsOfTheLines' /\ CallerFollows' /\ StoredIsForwarded'
  BY <1>2, <1>3 DEF BufferShowsTheWire, UsageIsOfTheLines, CallerFollows, StoredIsForwarded
<1>6. CASE upstream = <<>>
  <2>1. forward' = "persist" /\ upstream' = upstream /\ held' = held /\ acc' = acc /\ decoder = "over"
    BY <1>1, <1>6 DEF Recv
  <2>2. InTransit' = InTransit
    BY <1>4, <2>1 DEF InTransit
  <2>3. EventsFollowLines'
    <3>1. Delivered' = Delivered
      BY <1>2, <2>1, <2>2 DEF Delivered
    <3> QED
      BY <1>2, <3>1, StaysInStep
  <2>4. passed # <<>> /\ Terminal(Last(passed))
    <3>1. Delivered = passed
      BY <1>3, <1>4, <1>6, ConcatEmptySeq
    <3> QED
      BY <2>1, <3>1 DEF EventsFollowLines, InStep
  <2>5. TaskFollows'
    BY <1>2, <1>3, <2>1, <2>2, <2>4 DEF TaskFollows
  <2>6. StreamTypes'
    BY <1>2, <2>1 DEF StreamTypes
  <2> QED
    BY <1>5, <2>3, <2>5, <2>6
<1>7. CASE upstream # <<>>
  <2>1. PICK e \in Event : e = Head(upstream)
    BY <1>3, <1>7, MovesAcross
  <2>2. forward' = "send" /\ upstream' = Tail(upstream) /\ held' = e /\ acc' = Push(e)
    BY <1>7, <2>1 DEF Recv
  <2>3. InTransit' = <<e>>
    BY <2>2 DEF InTransit
  <2>4. Delivered' = Delivered
    <3>1. (passed \o <<e>>) \o Tail(upstream) = passed \o upstream
      BY <1>3, <1>7, <2>1, MovesAcross
    <3> QED
      BY <1>2, <1>4, <2>2, <2>3, <3>1 DEF Delivered
  <2>5. EventsFollowLines'
    BY <1>2, <2>4, StaysInStep
  <2>6. passed' \o InTransit' = Append(passed, e)
    BY <1>2, <1>3, <2>3, AppendIsConcat
  <2>7. /\ acc' \in [text : Seq(Byte), tokens : Nat]
        /\ acc'.text = TextOf(Append(passed, e)) /\ acc'.tokens = TokensOf(Append(passed, e))
    <3>1. acc.text = TextOf(passed) /\ acc.tokens = TokensOf(passed) /\ acc \in [text : Seq(Byte), tokens : Nat]
      BY <1>4 DEF TaskFollows, StreamTypes
    <3> QED
      BY <1>3, <2>2, <3>1, PushFollows
  <2>8. TaskFollows'
    BY <1>2, <1>3, <2>2, <2>6, <2>7 DEF TaskFollows
  <2>9. StreamTypes'
    <3>1. Tail(upstream) \in Seq(Event)
      BY <1>3, <1>7, MovesAcross
    <3> QED
      BY <1>2, <2>2, <2>7, <3>1 DEF StreamTypes
  <2> QED
    BY <1>5, <2>5, <2>8, <2>9
<1> QED
  BY <1>6, <1>7

LEMMA SendKeeps ==
  ASSUME StreamInv, Send
  PROVE  StreamInv'
<1> USE DEF StreamInv
<1>1. /\ forward = "send" /\ UNCHANGED <<script, decoderVars, upstream, held, acc, callerVars, stored>>
      /\ channel' = IF open THEN Append(channel, held) ELSE channel
      /\ passed' = Append(passed, held)
      /\ forward' = IF Terminal(held) THEN "persist" ELSE "recv"
  BY DEF Send
<1>2. /\ script' = script /\ sent' = sent /\ decoder' = decoder /\ buffer' = buffer
      /\ lineNo' = lineNo /\ usage' = usage /\ upstream' = upstream /\ held' = held /\ acc' = acc
      /\ open' = open /\ got' = got /\ stored' = stored
  BY <1>1 DEF decoderVars, callerVars
<1>3. /\ passed \in Seq(Event) /\ channel \in Seq(Event) /\ got \in Seq(Event) /\ held \in Event
      /\ stored = {} /\ decoder # "ask"
  BY <1>1 DEF StreamTypes, TaskFollows
<1>4. /\ passed' \in Seq(Event) /\ passed' # <<>> /\ Last(passed') = held
      /\ passed' = passed \o <<held>> /\ passed' \o <<>> = passed'
  <2>1. /\ Append(passed, held) \in Seq(Event) /\ Append(passed, held) # <<>>
        /\ Len(Append(passed, held)) = Len(passed) + 1
        /\ Append(passed, held)[Len(passed) + 1] = held
    BY <1>3, AppendProperties
  <2> QED
    BY <1>1, <1>3, <2>1, AppendIsConcat, ConcatEmptySeq DEF Last
<1>5. passed' \o InTransit' = passed \o InTransit
  <2>1. InTransit = <<held>> /\ InTransit' = <<>>
    BY <1>1 DEF InTransit
  <2> QED
    BY <1>4, <2>1
<1>6. EventsFollowLines'
  <2>1. Delivered' = Delivered
    BY <1>2, <1>5 DEF Delivered
  <2> QED
    BY <1>2, <2>1, StaysInStep
<1>7. CallerFollows'
  <2> SUFFICES ASSUME open PROVE got \o channel' = passed'
    BY <1>2 DEF CallerFollows
  <2>1. <<held>> \in Seq(Event)
    BY <1>3
  <2>2. channel' = channel \o <<held>>
    BY <1>1, <1>3, AppendIsConcat
  <2>3. got \o (channel \o <<held>>) = (got \o channel) \o <<held>>
    BY <1>3, <2>1, ConcatAssociative
  <2>4. got \o channel = passed
    BY DEF CallerFollows
  <2> QED
    BY <1>4, <2>2, <2>3, <2>4
<1>8. TaskFollows'
  <2>1. TextOf(passed \o InTransit)' = acc.text /\ TokensOf(passed \o InTransit)' = acc.tokens
    BY <1>5 DEF TaskFollows
  <2>2. forward' = "persist" => passed' # <<>> /\ Terminal(Last(passed'))
    BY <1>1, <1>4
  <2> QED
    BY <1>2, <1>3, <2>1, <2>2 DEF TaskFollows
<1>9. StreamTypes'
  <2>1. channel' \in Seq(Event)
    BY <1>1, <1>3, AppendProperties
  <2> QED
    BY <1>1, <1>2, <1>4, <2>1 DEF StreamTypes
<1>10. BufferShowsTheWire' /\ UsageIsOfTheLines' /\ StoredIsForwarded'
  BY <1>2, <1>3 DEF BufferShowsTheWire, UsageIsOfTheLines, StoredIsForwarded
<1> QED
  BY <1>6, <1>7, <1>8, <1>9, <1>10

LEMMA PersistKeeps ==
  ASSUME StreamInv, Persist
  PROVE  StreamInv'
<1> USE DEF StreamInv
<1>1. /\ forward = "persist" /\ forward' = "over"
      /\ UNCHANGED <<script, decoderVars, upstream, held, acc, passed, channel, callerVars>>
      /\ \/ \E v \in Verdicts :
              stored' = {[text |-> Judged(acc.text, v), tokens |-> acc.tokens, verdict |-> v]}
         \/ stored' = stored
  BY DEF Persist
<1>2. /\ script' = script /\ sent' = sent /\ decoder' = decoder /\ buffer' = buffer
      /\ lineNo' = lineNo /\ usage' = usage /\ upstream' = upstream /\ held' = held /\ acc' = acc
      /\ passed' = passed /\ channel' = channel /\ open' = open /\ got' = got
  BY <1>1 DEF decoderVars, callerVars
<1>3. InTransit = <<>> /\ InTransit' = <<>>
  BY <1>1 DEF InTransit
<1>4. EventsFollowLines'
  <2>1. Delivered' = Delivered
    BY <1>2, <1>3 DEF Delivered
  <2> QED
    BY <1>2, <2>1, StaysInStep
<1>5. acc.text = TextOf(passed) /\ acc.tokens = TokensOf(passed) /\ Terminal(Last(passed)) /\ stored = {}
  <2>1. passed \o <<>> = passed
    BY ConcatEmptySeq DEF StreamTypes
  <2> QED
    BY <1>1, <1>3, <2>1 DEF TaskFollows
<1>6. StoredIsForwarded'
  <2> SUFFICES ASSUME NEW s \in stored'
               PROVE  /\ s.text = Judged(TextOf(passed), s.verdict) /\ s.tokens = TokensOf(passed)
                      /\ Terminal(Last(passed))
    BY <1>2 DEF StoredIsForwarded
  <2>1. PICK v : s = [text |-> Judged(acc.text, v), tokens |-> acc.tokens, verdict |-> v]
    BY <1>1, <1>5
  <2>2. s.text = Judged(acc.text, v) /\ s.tokens = acc.tokens /\ s.verdict = v
    BY <2>1
  <2> QED
    BY <1>5, <2>2
<1>7. TaskFollows'
  BY <1>1, <1>2, <1>3 DEF TaskFollows
<1>8. StreamTypes'
  BY <1>1, <1>2 DEF StreamTypes
<1>9. BufferShowsTheWire' /\ UsageIsOfTheLines' /\ CallerFollows'
  BY <1>2 DEF BufferShowsTheWire, UsageIsOfTheLines, CallerFollows
<1> QED
  BY <1>4, <1>6, <1>7, <1>8, <1>9

LEMMA CallerKeeps ==
  ASSUME StreamInv, Read \/ Leave
  PROVE  StreamInv'
<1> USE DEF StreamInv
<1>1. open /\ UNCHANGED <<script, decoderVars, upstream, forwardVars>>
  BY DEF Read, Leave
<1>2. /\ script' = script /\ sent' = sent /\ decoder' = decoder /\ buffer' = buffer
      /\ lineNo' = lineNo /\ usage' = usage /\ upstream' = upstream /\ forward' = forward
      /\ held' = held /\ acc' = acc /\ passed' = passed /\ stored' = stored
  BY <1>1 DEF decoderVars, forwardVars
<1>3. InTransit' = InTransit
  BY <1>2 DEF InTransit
<1>4. EventsFollowLines'
  <2>1. Delivered' = Delivered
    BY <1>2, <1>3 DEF Delivered
  <2> QED
    BY <1>2, <2>1, StaysInStep
<1>5. BufferShowsTheWire' /\ UsageIsOfTheLines' /\ TaskFollows' /\ StoredIsForwarded'
  BY <1>2, <1>3 DEF BufferShowsTheWire, UsageIsOfTheLines, TaskFollows, StoredIsForwarded
<1>6. channel \in Seq(Event) /\ got \in Seq(Event) /\ open \in BOOLEAN
  BY DEF StreamTypes
<1>7. CASE Read
  <2>1. channel # <<>> /\ got' = Append(got, Head(channel)) /\ channel' = Tail(channel) /\ open' = open
    BY <1>7 DEF Read
  <2>2. got' \in Seq(Event) /\ channel' \in Seq(Event) /\ got' \o channel' = got \o channel
    BY <1>6, <2>1, MovesAcross
  <2>3. StreamTypes'
    BY <1>2, <2>1, <2>2 DEF StreamTypes
  <2>4. CallerFollows'
    BY <1>2, <2>1, <2>2 DEF CallerFollows
  <2> QED
    BY <1>4, <1>5, <2>3, <2>4
<1>8. CASE Leave
  <2>1. open' = FALSE /\ channel' = <<>> /\ got' = got
    BY <1>8 DEF Leave
  <2>2. StreamTypes'
    <3>1. <<>> \in Seq(Event)
      OBVIOUS
    <3> QED
      BY <1>2, <1>6, <2>1, <3>1 DEF StreamTypes
  <2>3. CallerFollows'
    BY <2>1 DEF CallerFollows
  <2> QED
    BY <1>4, <1>5, <2>2, <2>3
<1> QED
  BY <1>7, <1>8

LEMMA StreamInvHolds == StreamSpec => []StreamInv
<1>1. StreamInit => StreamInv
  <2> SUFFICES ASSUME StreamInit PROVE StreamInv
    OBVIOUS
  <2> USE DEF StreamInit
  <2>1. script \in Seq(Lines)
    BY StreamConstantsOK
  <2>2. Len(script) \in Nat /\ Len(Wire(script)) \in Nat /\ Offset(script, 0) = 0
    BY <2>1, WireFacts
  <2>3. StreamTypes
    <3>1. \A S : <<>> \in Seq(S)
      OBVIOUS
    <3>2. acc \in [text : Seq(Byte), tokens : Nat]
      BY <3>1
    <3> QED
      BY <2>2, <3>1, <3>2 DEF StreamTypes, Usage, NoUsage, Event, Done
  <2>4. BufferShowsTheWire
    BY <2>2 DEF BufferShowsTheWire
  <2>5. UsageIsOfTheLines
    BY <2>1, UsageTypes DEF UsageIsOfTheLines
  <2>6. InTransit = <<>> /\ \A S : <<>> \o <<>> = <<>>
    BY DEF InTransit
  <2>7. EventsFollowLines
    <3>1. Said = <<>>
      BY <2>1, SaidGrows DEF Said, SaidBy
    <3>2. Delivered = <<>>
      BY <2>6 DEF Delivered
    <3> QED
      BY <3>1, <3>2 DEF EventsFollowLines, InStep
  <2>8. CallerFollows
    BY <2>6 DEF CallerFollows
  <2>9. TaskFollows /\ StoredIsForwarded
    <3>1. Done \in Event /\ <<>> \in Seq(Event)
      BY DEF Event
    <3>2. TextOf(<<>>) = <<>> /\ TokensOf(<<>>) = 0
      BY <3>1, TextGrows, TokensGrow
    <3> QED
      BY <2>6, <3>2 DEF TaskFollows, StoredIsForwarded
  <2> QED
    BY <2>3, <2>4, <2>5, <2>7, <2>8, <2>9 DEF StreamInv
<1>2. StreamInv /\ [StreamNext]_streamVars => StreamInv'
  <2> SUFFICES ASSUME StreamInv, [StreamNext]_streamVars PROVE StreamInv'
    OBVIOUS
  <2>1. CASE Connect \/ Refuse
    BY <2>1, ConnectKeeps
  <2>2. CASE \E n \in 1..Len(Wire(script)) : TakeChunk(n)
    BY <2>2, TakeChunkKeeps
  <2>3. CASE Drained \/ Break \/ Close
    BY <2>3, QuietKeeps
  <2>4. CASE Drain
    BY <2>4, DrainKeeps
  <2>5. CASE LastWord
    BY <2>5, LastWordKeeps
  <2>6. CASE Forward
    BY <2>6, RecvKeeps, SendKeeps, PersistKeeps DEF Forward
  <2>7. CASE Read \/ Leave
    BY <2>7, CallerKeeps
  <2>8. CASE UNCHANGED streamVars
    <3>1. /\ script' = script /\ sent' = sent /\ decoder' = decoder /\ buffer' = buffer
          /\ lineNo' = lineNo /\ usage' = usage /\ upstream' = upstream /\ forward' = forward
          /\ held' = held /\ acc' = acc /\ channel' = channel /\ open' = open /\ got' = got
          /\ passed' = passed /\ stored' = stored
      BY <2>8 DEF streamVars, decoderVars, forwardVars, callerVars
    <3> QED
      BY <3>1 DEF StreamInv, StreamTypes, BufferShowsTheWire, UsageIsOfTheLines, EventsFollowLines,
                  CallerFollows, TaskFollows, StoredIsForwarded, Delivered, InTransit, Said
  <2> QED
    BY <2>1, <2>2, <2>3, <2>4, <2>5, <2>6, <2>7, <2>8 DEF StreamNext, Bytes, Decode
<1> QED
  BY <1>1, <1>2, PTL DEF StreamSpec

(* DeliveredInOrder: whatever the server writes, wherever its bytes are    *)
(* cut, however full the channels and wherever a connection breaks: what   *)
(* the decoder of complete_stream and the runtime's task pass on is, event *)
(* by event, what the lines say, with one terminal event, at the end.      *)
THEOREM EventsArriveInOrder == StreamSpec => []DeliveredInOrder
<1>1. StreamInv => DeliveredInOrder
  BY StepIsOrder DEF StreamInv
<1> QED
  BY <1>1, StreamInvHolds, PTL

(* StoredIsForwarded: the exchange that the runtime stores is what it has  *)
(* forwarded, judged as a whole, up to and with a terminal event, also for *)
(* a caller that has left.                                                 *)
THEOREM ExchangeIsWhatWasSent == StreamSpec => []StoredIsForwarded
<1>1. StreamInv => StoredIsForwarded
  BY DEF StreamInv
<1> QED
  BY <1>1, StreamInvHolds, PTL

-----------------------------------------------------------------------------
(* The conversation on the wire.                                           *)

(* Sequences grow element by element.                                      *)
LEMMA SequencesClimb ==
  ASSUME NEW S, NEW T, <<>> \in T,
         \A s \in Seq(S) : s \in T => \A e \in S : Append(s, e) \in T
  PROVE  Seq(S) \subseteq T
<1> SUFFICES ASSUME NEW s \in Seq(S) PROVE s \in T
  OBVIOUS
<1>1. PICK N \in Nat : N = Len(s)
  OBVIOUS
<1> DEFINE U == {n \in 0..N : SubSeq(s, 1, n) \in T}
<1>2. 0 \in U
  <2>1. SubSeq(s, 1, 0) = <<>>
    BY SubSeqEmpty
  <2>2. 0 \in 0..N
    BY <1>1
  <2> QED
    BY <2>1, <2>2
<1>3. ASSUME NEW n \in 0..(N - 1), n \in U PROVE n + 1 \in U
  <2>1. PICK t : t = SubSeq(s, 1, n)
    OBVIOUS
  <2>2. t \in Seq(S) /\ s[n + 1] \in S
    BY <1>1, <2>1
  <2>3. SubSeq(s, 1, n + 1) = Append(t, s[n + 1])
    BY <1>1, <2>1
  <2>4. t \in T
    BY <1>3, <2>1
  <2>5. Append(t, s[n + 1]) \in T
    BY <2>2, <2>4
  <2>6. n + 1 \in 0..N
    OBVIOUS
  <2> QED
    BY <2>3, <2>5, <2>6
<1>4. N \in U
  <2> HIDE DEF U
  <2>1. 0..N \subseteq U
    BY <1>2, <1>3, Climbs
  <2> QED
    BY <2>1
<1>5. SubSeq(s, 1, N) = s
  BY <1>1
<1> QED
  BY <1>4, <1>5

LEMMA FlattenNone == FlattenSeq(<<>>) = <<>>
  BY DEF FlattenSeq

LEMMA FlattenSteps ==
  ASSUME NEW S, NEW ps \in Seq(Seq(S)), NEW x \in Seq(S)
  PROVE  /\ FlattenSeq(ps) \in Seq(S)
         /\ FlattenSeq(Append(ps, x)) = FlattenSeq(ps) \o x
<1>1. PICK N \in Nat : N = Len(ps)
  OBVIOUS
<1>2. PICK qs \in Seq(Seq(S)) : qs = Append(ps, x)
  BY AppendProperties
<1>3. Len(qs) = N + 1 /\ (\A i \in 1..N : qs[i] = ps[i]) /\ qs[N + 1] = x
  BY <1>1, <1>2
<1>4. PICK f \in [0..Len(qs) -> Seq(S)] :
        /\ f[0] = <<>>
        /\ \A n \in 1..Len(qs) : f[n] = f[n - 1] \o qs[n]
        /\ \A n \in 0..Len(qs) : FlattenSeq([i \in 1..n |-> qs[i]]) = f[n]
  <2>1. \E f \in [0..Len(qs) -> Seq(S)] : Flattens(f, qs)
    BY <1>2, FlattenIs
  <2> QED
    BY <2>1 DEF Flattens
<1>5. FlattenSeq(ps) = f[N] /\ f[N] \in Seq(S)
  <2>1. ps = [i \in 1..N |-> qs[i]]
    BY <1>1, <1>3
  <2>2. N \in 0..Len(qs)
    BY <1>3
  <2>3. FlattenSeq([i \in 1..N |-> qs[i]]) = f[N]
    BY <1>4, <2>2
  <2> QED
    BY <1>4, <2>1, <2>2, <2>3
<1>6. FlattenSeq(qs) = f[N + 1]
  <2>1. qs = [i \in 1..(N + 1) |-> qs[i]]
    <3>1. PICK rs : rs = [i \in 1..(N + 1) |-> qs[i]]
      OBVIOUS
    <3>2. rs \in Seq(Seq(S)) /\ Len(rs) = N + 1 /\ \A i \in 1..(N + 1) : rs[i] = qs[i]
      <4>1. \A i \in 1..(N + 1) : qs[i] \in Seq(S)
        BY <1>3
      <4> QED
        BY <3>1, <4>1
    <3> QED
      BY <1>3, <3>1, <3>2, SeqEqual
  <2>2. N + 1 \in 0..Len(qs)
    BY <1>3
  <2>3. FlattenSeq([i \in 1..(N + 1) |-> qs[i]]) = f[N + 1]
    BY <1>4, <2>2
  <2> QED
    BY <2>1, <2>3
<1>7. f[N + 1] = f[N] \o x
  <2>1. N + 1 \in 1..Len(qs) /\ (N + 1) - 1 = N
    BY <1>3
  <2>2. f[N + 1] = f[(N + 1) - 1] \o qs[N + 1]
    BY <1>4, <2>1
  <2> QED
    BY <1>3, <2>1, <2>2
<1> QED
  BY <1>2, <1>5, <1>6, <1>7

(* A function of the elements, flattened: what CallsIn, CallsOf and their  *)
(* kind are.                                                               *)
Flat(g, s) == FlattenSeq([i \in DOMAIN s |-> g[s[i]]])

Lengthens(g, s, e) == Flat(g, Append(s, e)) = Flat(g, s) \o g[e]

LEMMA FlattenOf ==
  ASSUME NEW E, NEW S, NEW g \in [E -> Seq(S)], NEW s \in Seq(E), NEW e \in E
  PROVE  Flat(g, s) \in Seq(S) /\ Lengthens(g, s, e)
<1>1. PICK N \in Nat : N = Len(s) /\ DOMAIN s = 1..N
  OBVIOUS
<1>2. PICK t \in Seq(E) : t = Append(s, e)
  BY AppendProperties
<1>3. Len(t) = N + 1 /\ DOMAIN t = 1..(N + 1) /\ (\A i \in 1..N : t[i] = s[i]) /\ t[N + 1] = e
  BY <1>1, <1>2
<1>4. PICK ps : ps = [i \in DOMAIN s |-> g[s[i]]]
  OBVIOUS
<1>5. ps \in Seq(Seq(S)) /\ Len(ps) = N
  <2>1. \A i \in 1..N : g[s[i]] \in Seq(S)
    BY <1>1
  <2> QED
    BY <1>1, <1>4, <2>1
<1>6. [i \in DOMAIN t |-> g[t[i]]] = Append(ps, g[e])
  <2>1. PICK qs : qs = [i \in DOMAIN t |-> g[t[i]]]
    OBVIOUS
  <2>2. PICK rs \in Seq(Seq(S)) : rs = Append(ps, g[e])
    BY <1>5, AppendProperties
  <2>3. Len(rs) = N + 1 /\ (\A i \in 1..N : rs[i] = ps[i]) /\ rs[N + 1] = g[e]
    BY <1>5, <2>2
  <2>4. ASSUME NEW i \in 1..(N + 1) PROVE qs[i] = rs[i]
    <3>1. CASE i = N + 1
      BY <1>3, <2>1, <2>3, <3>1
    <3>2. CASE i \in 1..N
      <4>1. qs[i] = g[t[i]] /\ t[i] = s[i]
        BY <1>3, <2>1, <3>2
      <4>2. rs[i] = ps[i] /\ ps[i] = g[s[i]]
        BY <1>1, <1>4, <2>3, <3>2
      <4> QED
        BY <4>1, <4>2
    <3> QED
      BY <3>1, <3>2
  <2>5. qs \in [1..(N + 1) -> Seq(S)]
    <3>1. \A i \in 1..(N + 1) : g[t[i]] \in Seq(S)
      BY <1>3
    <3> QED
      BY <1>3, <2>1, <3>1
  <2> QED
    BY <2>1, <2>2, <2>3, <2>4, <2>5
<1> QED
  BY <1>2, <1>4, <1>5, <1>6, FlattenSteps, ZenonT(30) DEF Flat, Lengthens

-----------------------------------------------------------------------------
(* The conversation of a request.                                          *)

(* The blocks of a reply, the results of its calls, and a message.         *)
SaidBlock  == {Text} \cup UNION {Range(r.blocks) : r \in Replies}
Tags  == {b.id : b \in SaidBlock} \cup {b.name : b \in SaidBlock} \cup {"none"}
Given == [kind : {"result"}, tag : Tags, from : Nat]
Block == SaidBlock \cup Given
Msg   == [role : {"user", "assistant", "system", "model", "tool"}, blocks : Seq(Block)]

LEMMA BlockKinds ==
  /\ \A b \in SaidBlock : b.kind \in {"text", "thinking", "call"}
  /\ \A b \in Given : b.kind = "result"
  /\ \A r \in Replies : r.blocks \in Seq(SaidBlock)
  /\ SaidBlock \subseteq Block /\ Given \subseteq Block
<1>1. \A b \in SaidBlock : b.kind \in {"text", "thinking", "call"}
  BY DialogConstantsOK DEF DialogConstantsOK, SaidBlock, Text
<1>2. ASSUME NEW r \in Replies PROVE r.blocks \in Seq(SaidBlock)
  <2>1. r.blocks \in Seq(Range(r.blocks)) /\ Range(r.blocks) \subseteq SaidBlock
    BY DialogConstantsOK DEF DialogConstantsOK, SaidBlock
  <2> QED
    BY <2>1, SeqMonotonic
<1> QED
  BY <1>1, <1>2 DEF Given, Block

LEMMA KindsGrow ==
  ASSUME NEW B, NEW ks, NEW bs \in Seq(B), NEW b \in B
  PROVE  /\ OfKinds(bs, ks) \in Seq(B)
         /\ OfKinds(Append(bs, b), ks) =
              IF b.kind \in ks THEN Append(OfKinds(bs, ks), b) ELSE OfKinds(bs, ks)
<1>1. PICK g : g = [x \in B |-> IF x.kind \in ks THEN <<x>> ELSE << >>]
  OBVIOUS
<1>2. \A x \in B : <<x>> \in Seq(B) /\ << >> \in Seq(B)
  OBVIOUS
<1>3. g \in [B -> Seq(B)]
  BY <1>1, <1>2
<1>4. ASSUME NEW s \in Seq(B)
      PROVE  OfKinds(s, ks) = Flat(g, s)
  <2>1. \A i \in DOMAIN s : s[i] \in B
    OBVIOUS
  <2>2. [i \in DOMAIN s |-> IF s[i].kind \in ks THEN <<s[i]>> ELSE << >>] = [i \in DOMAIN s |-> g[s[i]]]
    BY <1>1, <2>1
  <2> QED
    BY <2>2 DEF OfKinds, Flat
<1>5. PICK t \in Seq(B) : t = Append(bs, b)
  BY AppendProperties
<1>6. PICK o \in Seq(B) : o = OfKinds(bs, ks)
  <2>1. Flat(g, bs) \in Seq(B)
    BY <1>3, FlattenOf DEF Lengthens
  <2> QED
    BY <1>4, <2>1
<1>7. OfKinds(t, ks) = o \o g[b]
  <2>1. Flat(g, Append(bs, b)) = Flat(g, bs) \o g[b]
    <3>1. Lengthens(g, bs, b)
      BY <1>3, FlattenOf
    <3> QED
      BY <3>1 DEF Lengthens
  <2>2. OfKinds(t, ks) = Flat(g, t) /\ OfKinds(bs, ks) = Flat(g, bs)
    BY <1>4
  <2> QED
    BY <1>5, <1>6, <2>1, <2>2, Zenon
<1>8. CASE b.kind \in ks
  <2>1. g[b] = <<b>>
    BY <1>1, <1>8
  <2>2. Append(o, b) = o \o <<b>>
    BY AppendIsConcat
  <2> QED
    BY <1>5, <1>6, <1>7, <1>8, <2>1, <2>2
<1>9. CASE b.kind \notin ks
  <2>1. g[b] = << >>
    BY <1>1, <1>9
  <2>2. o \o << >> = o
    BY ConcatEmptySeq
  <2> QED
    BY <1>5, <1>6, <1>7, <1>9, <2>1, <2>2
<1> QED
  BY <1>8, <1>9

LEMMA NoKinds == ASSUME NEW ks PROVE OfKinds(<< >>, ks) = << >>
<1>1. PICK ps : ps = [i \in DOMAIN << >> |-> IF << >>[i].kind \in ks THEN <<<< >>[i]>> ELSE << >>]
  OBVIOUS
<1>2. ps = << >>
  BY <1>1
<1> QED
  BY <1>1, <1>2, FlattenNone DEF OfKinds

(* What is all of these kinds is kept, what is of none goes, and what is   *)
(* kept twice is kept once.                                                *)
LEMMA KeptKinds ==
  ASSUME NEW B, NEW ks, \A b \in B : b.kind \in ks, NEW bs \in Seq(B)
  PROVE  OfKinds(bs, ks) = bs
<1> DEFINE T == {s \in Seq(B) : OfKinds(s, ks) = s}
<1>1. << >> \in T
  <2>1. << >> \in Seq(B)
    OBVIOUS
  <2> QED
    BY <2>1, NoKinds
<1>2. ASSUME NEW s \in Seq(B), s \in T, NEW e \in B PROVE Append(s, e) \in T
  <2>1. OfKinds(Append(s, e), ks) = Append(OfKinds(s, ks), e)
    BY KindsGrow
  <2>2. Append(s, e) \in Seq(B) /\ OfKinds(s, ks) = s
    BY <1>2, AppendProperties
  <2> QED
    BY <2>1, <2>2
<1>3. Seq(B) \subseteq T
  <2> HIDE DEF T
  <2> QED
    BY <1>1, <1>2, SequencesClimb
<1> QED
  BY <1>3

LEMMA GoneKinds ==
  ASSUME NEW B, NEW ks, \A b \in B : b.kind \notin ks, NEW bs \in Seq(B)
  PROVE  OfKinds(bs, ks) = << >>
<1> DEFINE T == {s \in Seq(B) : OfKinds(s, ks) = << >>}
<1>1. << >> \in T
  <2>1. << >> \in Seq(B)
    OBVIOUS
  <2> QED
    BY <2>1, NoKinds
<1>2. ASSUME NEW s \in Seq(B), s \in T, NEW e \in B PROVE Append(s, e) \in T
  <2>1. OfKinds(Append(s, e), ks) = OfKinds(s, ks)
    BY KindsGrow
  <2>2. Append(s, e) \in Seq(B) /\ OfKinds(s, ks) = << >>
    BY <1>2, AppendProperties
  <2> QED
    BY <2>1, <2>2
<1>3. Seq(B) \subseteq T
  <2> HIDE DEF T
  <2> QED
    BY <1>1, <1>2, SequencesClimb
<1> QED
  BY <1>3

LEMMA KeptTwice ==
  ASSUME NEW B, NEW js, NEW ks, ks \subseteq js, NEW bs \in Seq(B)
  PROVE  OfKinds(OfKinds(bs, js), ks) = OfKinds(bs, ks)
<1> DEFINE T == {s \in Seq(B) : OfKinds(OfKinds(s, js), ks) = OfKinds(s, ks)}
<1>1. << >> \in T
  <2>1. << >> \in Seq(B)
    OBVIOUS
  <2> QED
    BY <2>1, NoKinds
<1>2. ASSUME NEW s \in Seq(B), s \in T, NEW e \in B PROVE Append(s, e) \in T
  <2>1. PICK o \in Seq(B) : o = OfKinds(s, js)
    BY KindsGrow
  <2>2. OfKinds(o, ks) = OfKinds(s, ks) /\ Append(s, e) \in Seq(B)
    BY <1>2, <2>1, AppendProperties
  <2>3. OfKinds(Append(s, e), js) = IF e.kind \in js THEN Append(o, e) ELSE o
    BY <2>1, KindsGrow
  <2>4. OfKinds(Append(s, e), ks) = IF e.kind \in ks THEN Append(OfKinds(s, ks), e) ELSE OfKinds(s, ks)
    BY KindsGrow
  <2>5. OfKinds(Append(o, e), ks) = IF e.kind \in ks THEN Append(OfKinds(o, ks), e) ELSE OfKinds(o, ks)
    BY KindsGrow
  <2> QED
    BY <2>2, <2>3, <2>4, <2>5
<1>3. Seq(B) \subseteq T
  <2> HIDE DEF T
  <2> QED
    BY <1>1, <1>2, SequencesClimb
<1> QED
  BY <1>3

(* The calls and the results of a conversation, and what was said with the *)
(* calls, message by message: M is a set of messages or of replies.        *)
LEMMA NoMessages == CallsOf(<< >>) = << >> /\ ResultsOf(<< >>) = << >> /\ Spoken(<< >>) = << >>
<1>1. PICK cs : cs = [i \in DOMAIN << >> |-> CallsIn(<< >>[i].blocks)]
  OBVIOUS
<1>2. PICK rs : rs = [i \in DOMAIN << >> |-> ResultsIn(<< >>[i].blocks)]
  OBVIOUS
<1>3. PICK ss : ss = [i \in DOMAIN << >> |-> IF CallsIn(<< >>[i].blocks) # << >>
                                             THEN <<<< >>[i].blocks>> ELSE << >>]
  OBVIOUS
<1>4. cs = << >> /\ rs = << >> /\ ss = << >>
  BY <1>1, <1>2, <1>3
<1> QED
  BY <1>1, <1>2, <1>3, <1>4, FlattenNone DEF CallsOf, ResultsOf, Spoken

LEMMA MessagesGrow ==
  ASSUME NEW M, \A m \in M : m.blocks \in Seq(Block), NEW w \in Seq(M), NEW m \in M
  PROVE  /\ CallsOf(w) \in Seq(Block) /\ CallsOf(Append(w, m)) = CallsOf(w) \o CallsIn(m.blocks)
         /\ ResultsOf(w) \in Seq(Block) /\ ResultsOf(Append(w, m)) = ResultsOf(w) \o ResultsIn(m.blocks)
         /\ Spoken(w) \in Seq(Seq(Block))
         /\ Spoken(Append(w, m)) = IF CallsIn(m.blocks) # << >> THEN Append(Spoken(w), m.blocks) ELSE Spoken(w)
<1>1. ASSUME NEW x \in M
      PROVE  CallsIn(x.blocks) \in Seq(Block) /\ ResultsIn(x.blocks) \in Seq(Block)
  <2>1. Text \in Block
    BY DEF Block, SaidBlock
  <2>2. \A ks : OfKinds(x.blocks, ks) \in Seq(Block)
    BY <2>1, KindsGrow
  <2> QED
    BY <2>2 DEF CallsIn, ResultsIn
<1>2. PICK c : c = [x \in M |-> CallsIn(x.blocks)]
  OBVIOUS
<1>3. PICK r : r = [x \in M |-> ResultsIn(x.blocks)]
  OBVIOUS
<1>4. PICK p : p = [x \in M |-> IF CallsIn(x.blocks) # << >> THEN <<x.blocks>> ELSE << >>]
  OBVIOUS
<1>5. c \in [M -> Seq(Block)] /\ r \in [M -> Seq(Block)]
  BY <1>1, <1>2, <1>3
<1>6. p \in [M -> Seq(Seq(Block))]
  <2>1. \A x \in M : <<x.blocks>> \in Seq(Seq(Block)) /\ << >> \in Seq(Seq(Block))
    OBVIOUS
  <2> QED
    BY <1>4, <2>1
<1>7. ASSUME NEW s \in Seq(M)
      PROVE  CallsOf(s) = Flat(c, s) /\ ResultsOf(s) = Flat(r, s) /\ Spoken(s) = Flat(p, s)
  <2>1. \A i \in DOMAIN s : s[i] \in M
    OBVIOUS
  <2>2. [i \in DOMAIN s |-> CallsIn(s[i].blocks)] = [i \in DOMAIN s |-> c[s[i]]]
    BY <1>2, <2>1
  <2>3. [i \in DOMAIN s |-> ResultsIn(s[i].blocks)] = [i \in DOMAIN s |-> r[s[i]]]
    BY <1>3, <2>1
  <2>4. [i \in DOMAIN s |-> IF CallsIn(s[i].blocks) # << >> THEN <<s[i].blocks>> ELSE << >>]
          = [i \in DOMAIN s |-> p[s[i]]]
    BY <1>4, <2>1
  <2> QED
    BY <2>2, <2>3, <2>4 DEF CallsOf, ResultsOf, Spoken, Flat
<1>8. PICK t \in Seq(M) : t = Append(w, m)
  BY AppendProperties
<1>9. CallsOf(w) \in Seq(Block) /\ CallsOf(t) = CallsOf(w) \o CallsIn(m.blocks)
  <2>1. Flat(c, w) \in Seq(Block) /\ Flat(c, Append(w, m)) = Flat(c, w) \o c[m]
    <3>1. Flat(c, w) \in Seq(Block) /\ Lengthens(c, w, m)
      BY <1>5, FlattenOf
    <3> QED
      BY <3>1 DEF Lengthens
  <2>2. CallsOf(w) = Flat(c, w) /\ CallsOf(t) = Flat(c, t) /\ c[m] = CallsIn(m.blocks)
    BY <1>2, <1>7
  <2> QED
    BY <1>8, <2>1, <2>2, Zenon
<1>10. ResultsOf(w) \in Seq(Block) /\ ResultsOf(t) = ResultsOf(w) \o ResultsIn(m.blocks)
  <2>1. Flat(r, w) \in Seq(Block) /\ Flat(r, Append(w, m)) = Flat(r, w) \o r[m]
    <3>1. Flat(r, w) \in Seq(Block) /\ Lengthens(r, w, m)
      BY <1>5, FlattenOf
    <3> QED
      BY <3>1 DEF Lengthens
  <2>2. ResultsOf(w) = Flat(r, w) /\ ResultsOf(t) = Flat(r, t) /\ r[m] = ResultsIn(m.blocks)
    BY <1>3, <1>7
  <2> QED
    BY <1>8, <2>1, <2>2, Zenon
<1>11. Spoken(w) \in Seq(Seq(Block)) /\ Spoken(t) = Spoken(w) \o p[m]
  <2>1. Flat(p, w) \in Seq(Seq(Block)) /\ Flat(p, Append(w, m)) = Flat(p, w) \o p[m]
    <3>1. Flat(p, w) \in Seq(Seq(Block)) /\ Lengthens(p, w, m)
      BY <1>6, FlattenOf
    <3> QED
      BY <3>1 DEF Lengthens
  <2>2. Spoken(w) = Flat(p, w) /\ Spoken(t) = Flat(p, t)
    BY <1>7
  <2> QED
    BY <1>8, <2>1, <2>2, Zenon
<1>12. Spoken(t) = IF CallsIn(m.blocks) # << >> THEN Append(Spoken(w), m.blocks) ELSE Spoken(w)
  <2>1. PICK s \in Seq(Seq(Block)) : s = Spoken(w)
    BY <1>11
  <2>2. PICK b \in Seq(Block) : b = m.blocks
    OBVIOUS
  <2>3. p[m] = IF CallsIn(b) # << >> THEN <<b>> ELSE << >>
    BY <1>4, <2>2
  <2>4. Append(s, b) = s \o <<b>> /\ s \o << >> = s
    BY AppendIsConcat, ConcatEmptySeq
  <2> QED
    BY <1>11, <2>1, <2>2, <2>3, <2>4
<1> QED
  BY <1>8, <1>9, <1>10, <1>11, <1>12

-----------------------------------------------------------------------------
(* The inductive invariant of Dialog.                                      *)

(* The results are collected until the turn ends, or sent one by one.      *)
Collects == provider \in {"anthropic", "gemini"}

Rest == SubSeq(Wanted, Len(results) + 1, Len(Wanted))

Answers == [k \in 1..Len(ran) |-> [kind |-> "result", tag |-> TagOf(ran[k]), from |-> k]]

BlocksOf(msgs) == [i \in 1..Len(msgs) |-> msgs[i].blocks]

DialogTypes ==
  /\ provider \in Providers /\ tools \in BOOLEAN /\ (tools => provider # "bedrock")
  /\ (provider = "gemini" => ~ declared.array)
  /\ wire \in Seq(Msg) /\ heard \in Seq(Replies)
  /\ stage \in {"ask", "run", "done"} /\ turn \in Nat
  /\ reply \in Seq(SaidBlock) /\ ran \in Seq(SaidBlock) /\ results \in Seq(Given)

CallsRun ==
  /\ stage = "ask" => ran = CallsOf(heard)
  /\ stage = "run" => /\ tools /\ Wanted # << >> /\ Len(results) <= Len(Wanted)
                      /\ ran \o Rest = CallsOf(heard)
  /\ ran # << >> => tools

CallsOnTheWire ==
  /\ stage = "ask" => CallsOf(wire) = ran
  /\ stage = "run" => ran \o Rest = IF Collects THEN CallsOf(wire) \o Wanted ELSE CallsOf(wire)

ResultsOnTheWire ==
  /\ stage = "ask" => ResultsOf(wire) = Answers
  /\ stage = "run" => Answers = IF Collects THEN ResultsOf(wire) \o results ELSE ResultsOf(wire)

(* The calls of message i have their results in the message after it, or   *)
(* each in a message of its own.                                           *)
Answered(w, i, n) ==
  \/ i + n <= Len(w) /\ \A j \in 1..n : ResultsIn(w[i + j].blocks) # << >>
  \/ i < Len(w) /\ n > 0 /\ Len(ResultsIn(w[i + 1].blocks)) >= n

AllAnswered(w, k) == \A i \in 1..k : Answered(w, i, Len(CallsIn(w[i].blocks)))

(* Message k has the calls that are being run, and only results follow it. *)
Answering(w, k) ==
  /\ k >= 1 /\ AllAnswered(w, k - 1)
  /\ CallsIn(w[k].blocks) = Wanted
  /\ \A j \in (k + 1)..Len(w) : ResultsIn(w[j].blocks) # << >> /\ CallsIn(w[j].blocks) = << >>

AnswersInPlace ==
  /\ stage = "ask" \/ (stage = "run" /\ Collects) => AllAnswered(wire, Len(wire))
  /\ stage = "run" /\ ~ Collects => Answering(wire, Len(wire) - Len(results))

LastIsOurs ==
  /\ wire # << >>
  /\ stage = "ask" => Last(wire).role \in {"user", "tool"}
  /\ stage = "run" /\ ~ Collects /\ results # << >> => Last(wire).role = "tool"

ThinkingKept ==
  provider = "anthropic" =>
    /\ stage = "ask" => Spoken(wire) = BlocksOf(heard)
    /\ stage = "run" => Append(Spoken(wire), reply) = BlocksOf(heard)

DialogInv ==
  /\ DialogTypes /\ CallsRun /\ NoCallIsLost /\ CallsOnTheWire /\ ResultsOnTheWire
  /\ AnswersInPlace /\ LastIsOurs /\ ThinkingKept

LEMMA BlockFacts ==
  /\ \A bs \in Seq(Block) : CallsIn(bs) \in Seq(Block) /\ ResultsIn(bs) \in Seq(Block)
  /\ \A bs \in Seq(SaidBlock) : ResultsIn(bs) = << >> /\ CallsIn(bs) \in Seq(SaidBlock)
  /\ \A rs \in Seq(Given) : ResultsIn(rs) = rs /\ CallsIn(rs) = << >>
  /\ Seq(SaidBlock) \subseteq Seq(Block) /\ Seq(Given) \subseteq Seq(Block)
<1>1. Text \in SaidBlock /\ Text \in Block
  BY DEF SaidBlock, Block
<1>2. ASSUME NEW bs \in Seq(SaidBlock)
      PROVE  ResultsIn(bs) = << >> /\ CallsIn(bs) \in Seq(SaidBlock)
  <2>1. \A b \in SaidBlock : b.kind \notin {"result"}
    BY BlockKinds
  <2>2. OfKinds(bs, {"result"}) = << >>
    BY <2>1, GoneKinds
  <2>3. OfKinds(bs, {"call"}) \in Seq(SaidBlock)
    BY <1>1, KindsGrow
  <2> QED
    BY <2>2, <2>3 DEF ResultsIn, CallsIn
<1>3. ASSUME NEW rs \in Seq(Given)
      PROVE  ResultsIn(rs) = rs /\ CallsIn(rs) = << >>
  <2>1. \A b \in Given : b.kind \in {"result"} /\ b.kind \notin {"call"}
    BY BlockKinds
  <2>2. OfKinds(rs, {"result"}) = rs
    BY <2>1, KeptKinds
  <2>3. OfKinds(rs, {"call"}) = << >>
    BY <2>1, GoneKinds
  <2> QED
    BY <2>2, <2>3 DEF ResultsIn, CallsIn
<1>4. ASSUME NEW bs \in Seq(Block)
      PROVE  CallsIn(bs) \in Seq(Block) /\ ResultsIn(bs) \in Seq(Block)
  <2>1. \A ks : OfKinds(bs, ks) \in Seq(Block)
    BY <1>1, KindsGrow
  <2> QED
    BY <2>1 DEF ResultsIn, CallsIn
<1>5. Seq(SaidBlock) \subseteq Seq(Block) /\ Seq(Given) \subseteq Seq(Block)
  BY BlockKinds, SeqMonotonic
<1> QED
  BY <1>2, <1>3, <1>4, <1>5

LEMMA ReplyFacts ==
  ASSUME NEW r \in Replies
  PROVE  /\ r.blocks \in Seq(SaidBlock) /\ Parsed(r.blocks) \in Seq(SaidBlock)
         /\ CallsIn(Parsed(r.blocks)) = CallsIn(r.blocks)
<1>1. Text \in SaidBlock
  BY DEF SaidBlock
<1>2. PICK bs \in Seq(SaidBlock) : bs = r.blocks
  BY BlockKinds
<1>3. OfKinds(bs, {"text", "call"}) \in Seq(SaidBlock)
  BY <1>1, KindsGrow
<1>4. OfKinds(OfKinds(bs, {"text", "call"}), {"call"}) = OfKinds(bs, {"call"})
  <2>1. {"call"} \subseteq {"text", "call"}
    OBVIOUS
  <2> QED
    BY <2>1, KeptTwice
<1> QED
  BY <1>2, <1>3, <1>4 DEF Parsed, CallsIn

LEMMA AnsweredStays ==
  ASSUME NEW w \in Seq(Msg), NEW v \in Seq(Msg), Begins(w, v),
         NEW k \in Int, k <= Len(w), AllAnswered(w, k)
  PROVE  AllAnswered(v, k)
<1>1. PICK L \in Nat : L = Len(w)
  OBVIOUS
<1>2. PICK K \in Nat : K = Len(v)
  OBVIOUS
<1>3. L <= K /\ \A i \in 1..L : v[i] = w[i]
  BY <1>1, <1>2 DEF Begins
<1> SUFFICES ASSUME NEW i \in 1..k PROVE Answered(v, i, Len(CallsIn(v[i].blocks)))
  BY DEF AllAnswered
<1>4. i \in 1..L /\ v[i] = w[i] /\ w[i] \in Msg
  BY <1>1, <1>3
<1>5. PICK n \in Nat : n = Len(CallsIn(w[i].blocks))
  BY <1>4, BlockFacts DEF Msg
<1>6. Answered(w, i, n)
  BY <1>5 DEF AllAnswered
<1>7. CASE i + n <= Len(w) /\ \A j \in 1..n : ResultsIn(w[i + j].blocks) # << >>
  <2>1. \A j \in 1..n : i + j \in 1..L
    BY <1>1, <1>4, <1>7
  <2>2. \A j \in 1..n : ResultsIn(v[i + j].blocks) # << >>
    BY <1>3, <1>7, <2>1
  <2>3. i + n <= Len(v)
    BY <1>1, <1>2, <1>3, <1>4, <1>7
  <2> QED
    BY <1>4, <1>5, <2>2, <2>3 DEF Answered
<1>8. CASE i < Len(w) /\ n > 0 /\ Len(ResultsIn(w[i + 1].blocks)) >= n
  <2>1. i + 1 \in 1..L /\ i < Len(v)
    BY <1>1, <1>2, <1>3, <1>4, <1>8
  <2>2. v[i + 1] = w[i + 1]
    BY <1>3, <2>1
  <2> QED
    BY <1>4, <1>5, <1>8, <2>1, <2>2 DEF Answered
<1> QED
  BY <1>6, <1>7, <1>8 DEF Answered

(* A message without calls owes nothing.                                   *)
LEMMA NothingOwed ==
  ASSUME NEW w \in Seq(Msg), NEW i \in 1..Len(w), CallsIn(w[i].blocks) = << >>
  PROVE  Answered(w, i, Len(CallsIn(w[i].blocks)))
  BY DEF Answered

-----------------------------------------------------------------------------
(* Its steps.                                                              *)

LEMMA EndsKeeps ==
  ASSUME DialogInv, stage = "ask", NEW why, Ends(why),
         heard' \in Seq(Replies), why \in {"none", "end_turn"} => ran = CallsOf(heard')
  PROVE  DialogInv'
<1>1. DialogTypes'
  BY DEF DialogInv, DialogTypes, Ends
<1>2. stage' = "done" /\ wire' = wire /\ ran' = ran /\ stop' = why
  BY DEF Ends
<1>3. wire # << >>
  BY DEF DialogInv, LastIsOurs
<1>4. CallsRun'
  BY <1>2 DEF DialogInv, CallsRun, Ends
<1> QED
  BY <1>1, <1>2, <1>3, <1>4 DEF DialogInv, NoCallIsLost, CallsOnTheWire, ResultsOnTheWire,
                          AnswersInPlace, LastIsOurs, ThinkingKept

(* What is left of the calls, and the messages that grow by one.           *)
MovesOn(a, c, n) == Append(a, c[n + 1]) \o SubSeq(c, n + 2, Len(c)) = a \o SubSeq(c, n + 1, Len(c))

LEMMA RestOf ==
  ASSUME NEW S, NEW a \in Seq(S), NEW c \in Seq(S)
  PROVE  /\ SubSeq(c, 1, Len(c)) = c /\ SubSeq(c, Len(c) + 1, Len(c)) = << >>
         /\ \A n \in 0..(Len(c) - 1) : MovesOn(a, c, n)
<1>1. PICK L \in Nat : L = Len(c)
  OBVIOUS
<1>2. SubSeq(c, 1, L) = c
  BY <1>1, SubSeqFull
<1>3. SubSeq(c, L + 1, L) = << >>
  BY SubSeqEmpty
<1>4. ASSUME NEW n \in 0..(L - 1)
      PROVE  Append(a, c[n + 1]) \o SubSeq(c, n + 2, L) = a \o SubSeq(c, n + 1, L)
  <2>1. n + 1 \in 1..L /\ L \in (n + 1)..L /\ (n + 1) + 1 = n + 2 /\ n + 2 \in Int /\ L \in Int
    OBVIOUS
  <2>2. c[n + 1] \in S
    BY <1>1, <2>1
  <2>3. PICK e \in S : e = c[n + 1]
    BY <2>2
  <2>4. \A i \in (n + 2)..L : c[i] \in S
    BY <1>1
  <2>5. PICK t \in Seq(S) : t = SubSeq(c, n + 2, L)
    BY <2>1, <2>4, SubSeqProperties
  <2>6. SubSeq(c, n + 1, L) = <<e>> \o t
    BY <1>1, <2>1, <2>3, <2>5, SubSeqRecursiveFirst
  <2>7. Append(a, e) = a \o <<e>> /\ <<e>> \in Seq(S)
    BY AppendIsConcat
  <2>8. (a \o <<e>>) \o t = a \o (<<e>> \o t)
    BY <2>7, ConcatAssociative
  <2> QED
    BY <2>3, <2>5, <2>6, <2>7, <2>8
<1> QED
  BY <1>1, <1>2, <1>3, <1>4 DEF MovesOn

LEMMA WireGrows ==
  ASSUME NEW w \in Seq(Msg), NEW m \in Msg
  PROVE  /\ Append(w, m) \in Seq(Msg) /\ Append(w, m) # << >> /\ Last(Append(w, m)) = m
         /\ Len(Append(w, m)) = Len(w) + 1 /\ Begins(w, Append(w, m)) /\ Append(w, m)[Len(w) + 1] = m
         /\ CallsOf(w) \in Seq(Block) /\ CallsOf(Append(w, m)) = CallsOf(w) \o CallsIn(m.blocks)
         /\ ResultsOf(w) \in Seq(Block) /\ ResultsOf(Append(w, m)) = ResultsOf(w) \o ResultsIn(m.blocks)
         /\ Spoken(w) \in Seq(Seq(Block))
         /\ Spoken(Append(w, m)) = IF CallsIn(m.blocks) # << >> THEN Append(Spoken(w), m.blocks) ELSE Spoken(w)
<1>1. \A x \in Msg : x.blocks \in Seq(Block)
  BY DEF Msg
<1>2. PICK v \in Seq(Msg) : v = Append(w, m)
  BY AppendProperties
<1>3. Len(v) = Len(w) + 1 /\ (\A i \in 1..Len(w) : v[i] = w[i]) /\ v[Len(w) + 1] = m /\ v # << >>
  BY <1>2, AppendProperties
<1>4. Last(v) = m
  BY <1>3 DEF Last
<1>5. Begins(w, v)
  BY <1>3 DEF Begins
<1>6. /\ CallsOf(w) \in Seq(Block) /\ CallsOf(Append(w, m)) = CallsOf(w) \o CallsIn(m.blocks)
      /\ ResultsOf(w) \in Seq(Block) /\ ResultsOf(Append(w, m)) = ResultsOf(w) \o ResultsIn(m.blocks)
      /\ Spoken(w) \in Seq(Seq(Block))
      /\ Spoken(Append(w, m)) = IF CallsIn(m.blocks) # << >> THEN Append(Spoken(w), m.blocks) ELSE Spoken(w)
  BY <1>1, MessagesGrow
<1> QED
  BY <1>2, <1>3, <1>4, <1>5, <1>6

LEMMA HeardGrows ==
  ASSUME NEW h \in Seq(Replies), NEW r \in Replies
  PROVE  /\ Append(h, r) \in Seq(Replies)
         /\ CallsOf(h) \in Seq(Block) /\ CallsOf(Append(h, r)) = CallsOf(h) \o CallsIn(r.blocks)
         /\ BlocksOf(h) \in Seq(Seq(Block)) /\ BlocksOf(Append(h, r)) = Append(BlocksOf(h), r.blocks)
<1>1. \A x \in Replies : x.blocks \in Seq(Block)
  BY BlockKinds, BlockFacts
<1>2. PICK g \in Seq(Replies) : g = Append(h, r)
  BY AppendProperties
<1>3. PICK L \in Nat : L = Len(h)
  OBVIOUS
<1>4. Len(g) = L + 1 /\ (\A i \in 1..L : g[i] = h[i]) /\ g[L + 1] = r
  BY <1>2, <1>3
<1>5. CallsOf(h) \in Seq(Block) /\ CallsOf(Append(h, r)) = CallsOf(h) \o CallsIn(r.blocks)
  BY <1>1, MessagesGrow
<1>6. BlocksOf(h) \in Seq(Seq(Block)) /\ Len(BlocksOf(h)) = L /\ \A i \in 1..L : BlocksOf(h)[i] = h[i].blocks
  <2>1. \A i \in 1..L : h[i].blocks \in Seq(Block)
    BY <1>1, <1>3
  <2> QED
    BY <1>3, <2>1 DEF BlocksOf
<1>7. BlocksOf(g) \in Seq(Seq(Block)) /\ Len(BlocksOf(g)) = L + 1
      /\ \A i \in 1..(L + 1) : BlocksOf(g)[i] = g[i].blocks
  <2>1. \A i \in 1..(L + 1) : g[i].blocks \in Seq(Block)
    BY <1>1, <1>4
  <2> QED
    BY <1>4, <2>1 DEF BlocksOf
<1>8. PICK b \in Seq(Seq(Block)) : b = Append(BlocksOf(h), r.blocks)
  BY <1>1, <1>6, AppendProperties
<1>9. Len(b) = L + 1 /\ (\A i \in 1..L : b[i] = h[i].blocks) /\ b[L + 1] = r.blocks
  BY <1>1, <1>6, <1>8, AppendProperties
<1>10. ASSUME NEW i \in 1..(L + 1) PROVE b[i] = BlocksOf(g)[i]
  <2>1. CASE i = L + 1
    BY <1>4, <1>7, <1>9, <2>1
  <2>2. CASE i \in 1..L
    BY <1>4, <1>7, <1>9, <2>2
  <2> QED
    BY <2>1, <2>2
<1>11. b = BlocksOf(g)
  BY <1>7, <1>9, <1>10, SeqEqual
<1> QED
  BY <1>2, <1>5, <1>6, <1>8, <1>11

(* A reply with calls: anthropic and gemini send it when its calls have    *)
(* run, the others at once.                                                *)
LEMMA RunsCallsFacts ==
  ASSUME DialogInv, stage = "ask", tools, NEW r \in Replies, Hears(r), NEW msgs, RunsCalls(r, msgs),
         CallsIn(r.blocks) # << >>
  PROVE  /\ stage' = "run" /\ provider' = provider /\ ran' = ran
         /\ reply' = Parsed(r.blocks) /\ reply' \in Seq(SaidBlock) /\ results' = << >> /\ Len(results') = 0
         /\ Wanted' = CallsIn(r.blocks) /\ Wanted' = CallsIn(reply') /\ Wanted' \in Seq(SaidBlock) /\ Rest' = Wanted'
         /\ Answers' = Answers /\ CallsRun' /\ Collects' = Collects
         /\ BlocksOf(heard') = Append(BlocksOf(heard), r.blocks)
<1>1. stage' = "run" /\ provider' = provider /\ tools' = tools /\ ran' = ran /\ results' = << >>
      /\ reply' = Parsed(r.blocks) /\ heard' = Append(heard, r)
  BY DEF RunsCalls, Hears
<1>2. reply' \in Seq(SaidBlock) /\ CallsIn(reply') = CallsIn(r.blocks)
  BY <1>1, ReplyFacts
<1>3. Wanted' = CallsIn(reply') /\ CallsIn(reply') \in Seq(SaidBlock)
  BY <1>2, BlockFacts DEF Wanted
<1>4. PICK c \in Seq(SaidBlock) : c = CallsIn(r.blocks)
  BY <1>2, <1>3
<1>5. Wanted' = c
  BY <1>2, <1>3, <1>4
<1>6. Len(results') = 0
  BY <1>1
<1>7. Rest' = c
  <2>1. Rest' = SubSeq(Wanted', Len(results') + 1, Len(Wanted'))
    BY DEF Rest
  <2>2. Rest' = SubSeq(c, 0 + 1, Len(c))
    BY <1>5, <1>6, <2>1
  <2>3. 0 + 1 = 1
    OBVIOUS
  <2> QED
    BY <1>4, <2>2, <2>3, RestOf
<1>8. Answers' = Answers
  BY <1>1 DEF Answers, TagOf
<1>9. ran = CallsOf(heard) /\ heard \in Seq(Replies)
  BY DEF DialogInv, CallsRun, DialogTypes
<1>10. CallsOf(heard') = CallsOf(heard) \o c /\ BlocksOf(heard') = Append(BlocksOf(heard), r.blocks)
  BY <1>1, <1>4, <1>9, HeardGrows
<1>11. CallsRun'
  <2>1. ran' \o Rest' = CallsOf(heard')
    BY <1>1, <1>7, <1>9, <1>10
  <2>2. Len(results') <= Len(Wanted') /\ Wanted' # << >>
    BY <1>4, <1>5, <1>6
  <2> QED
    BY <1>1, <2>1, <2>2 DEF CallsRun
<1> QED
  BY <1>1, <1>2, <1>3, <1>4, <1>5, <1>6, <1>7, <1>8, <1>10, <1>11 DEF Collects

LEMMA CollectKeeps ==
  ASSUME DialogInv, stage = "ask", tools, NEW r \in Replies, Hears(r), RunsCalls(r, << >>),
         CallsIn(r.blocks) # << >>, Collects
  PROVE  DialogInv'
<1> USE RunsCallsFacts
<1>1. wire \in Seq(Msg) /\ heard \in Seq(Replies) /\ wire # << >>
  BY DEF DialogInv, DialogTypes, LastIsOurs
<1>2. wire' = wire
  <2>1. wire' = wire \o << >>
    BY DEF RunsCalls
  <2> QED
    BY <1>1, <2>1, ConcatEmptySeq
<1>3. DialogTypes'
  <2>1. heard' \in Seq(Replies)
    BY <1>1, HeardGrows DEF Hears
  <2>2. << >> \in Seq(Given)
    OBVIOUS
  <2> QED
    BY <1>1, <1>2, <2>1, <2>2 DEF DialogInv, DialogTypes, RunsCalls
<1>4. CallsRun' /\ NoCallIsLost'
  BY DEF NoCallIsLost
<1>5. CallsOnTheWire'
  <2>1. CallsOf(wire') = ran
    BY <1>2 DEF DialogInv, CallsOnTheWire
  <2> QED
    BY <2>1 DEF CallsOnTheWire
<1>6. ResultsOnTheWire'
  <2>1. Answers = ResultsOf(wire) /\ ResultsOf(wire) \in Seq(Block)
    <3>1. Text \in Block
      BY DEF Block, SaidBlock
    <3>2. [role |-> "user", blocks |-> << >>] \in Msg
      BY DEF Msg
    <3> QED
      BY <1>1, <3>2, WireGrows DEF DialogInv, ResultsOnTheWire
  <2>2. ResultsOf(wire) \o << >> = ResultsOf(wire)
    BY <2>1, ConcatEmptySeq
  <2> QED
    BY <1>2, <2>1, <2>2 DEF ResultsOnTheWire
<1>7. AnswersInPlace'
  BY <1>2 DEF DialogInv, AnswersInPlace, AllAnswered, Answered
<1>8. LastIsOurs'
  BY <1>1, <1>2 DEF LastIsOurs
<1>9. ThinkingKept'
  <2>1. CASE provider = "anthropic"
    <3>1. reply' = r.blocks
      BY <2>1 DEF Parsed
    <3>2. Spoken(wire) = BlocksOf(heard)
      BY <2>1 DEF DialogInv, ThinkingKept
    <3> QED
      BY <1>2, <3>1, <3>2 DEF ThinkingKept
  <2>2. CASE provider # "anthropic"
    BY <2>2 DEF ThinkingKept
  <2> QED
    BY <2>1, <2>2
<1> QED
  BY <1>3, <1>4, <1>5, <1>6, <1>7, <1>8, <1>9 DEF DialogInv

LEMMA SayKeeps ==
  ASSUME DialogInv, stage = "ask", tools, NEW r \in Replies, Hears(r),
         RunsCalls(r, <<Message("assistant", Parsed(r.blocks))>>),
         CallsIn(r.blocks) # << >>, ~ Collects
  PROVE  DialogInv'
<1> USE RunsCallsFacts
<1>1. wire \in Seq(Msg) /\ heard \in Seq(Replies) /\ wire # << >>
  BY DEF DialogInv, DialogTypes, LastIsOurs
<1>2. PICK m \in Msg : m = Message("assistant", Parsed(r.blocks)) /\ m.role = "assistant" /\ m.blocks = reply'
  <2>1. reply' \in Seq(Block)
    BY BlockFacts
  <2> QED
    BY <2>1 DEF Msg, Message
<1>3. wire' = Append(wire, m)
  <2>1. wire' = wire \o <<m>>
    BY <1>2 DEF RunsCalls
  <2> QED
    BY <1>1, <2>1, AppendIsConcat
<1>4. wire' \in Seq(Msg) /\ wire' # << >> /\ Len(wire') = Len(wire) + 1 /\ Begins(wire, wire') /\ wire'[Len(wire) + 1] = m
  BY <1>1, <1>3, WireGrows
<1>5. DialogTypes'
  <2>1. heard' \in Seq(Replies)
    BY <1>1, HeardGrows DEF Hears
  <2>2. << >> \in Seq(Given)
    OBVIOUS
  <2> QED
    BY <1>4, <2>1, <2>2 DEF DialogInv, DialogTypes, RunsCalls
<1>6. CallsRun' /\ NoCallIsLost'
  BY DEF NoCallIsLost
<1>7. CallsOnTheWire'
  <2>1. CallsOf(wire') = CallsOf(wire) \o CallsIn(m.blocks)
    BY <1>1, <1>3, WireGrows
  <2>2. CallsOf(wire) = ran /\ CallsIn(m.blocks) = Wanted'
    BY <1>2 DEF DialogInv, CallsOnTheWire
  <2>3. stage' = "run" /\ ran' \o Rest' = ran \o Wanted' /\ ~ Collects'
    OBVIOUS
  <2> QED
    BY <2>1, <2>2, <2>3 DEF CallsOnTheWire
<1>8. ResultsOnTheWire'
  <2>1. ResultsOf(wire') = ResultsOf(wire) \o ResultsIn(m.blocks) /\ ResultsOf(wire) \in Seq(Block)
    BY <1>1, <1>3, WireGrows
  <2>2. ResultsIn(m.blocks) = << >>
    BY <1>2, BlockFacts
  <2>3. ResultsOf(wire') = ResultsOf(wire)
    BY <2>1, <2>2, ConcatEmptySeq
  <2> QED
    BY <2>3 DEF DialogInv, ResultsOnTheWire
<1>9. AnswersInPlace'
  <2>1. AllAnswered(wire, Len(wire)) /\ Len(wire) \in Int
    BY <1>1 DEF DialogInv, AnswersInPlace
  <2>2. AllAnswered(wire', Len(wire))
    BY <1>1, <1>4, <2>1, AnsweredStays
  <2>3. PICK k \in Nat : k = Len(wire) /\ Len(wire') = k + 1
    BY <1>1, <1>4
  <2>4. Len(wire') - Len(results') = k + 1
    BY <2>3
  <2>5. CallsIn(wire'[k + 1].blocks) = Wanted'
    BY <1>2, <1>4, <2>3
  <2>6. (k + 1) - 1 = k /\ k + 1 >= 1 /\ ((k + 1) + 1)..(k + 1) = {}
    OBVIOUS
  <2>7. AllAnswered(wire', (k + 1) - 1)
    BY <2>2, <2>3, <2>6
  <2>8. Answering(wire, k + 1)'
    BY <2>3, <2>5, <2>6, <2>7 DEF Answering
  <2> QED
    BY <2>4, <2>8 DEF AnswersInPlace
<1>10. LastIsOurs'
  BY <1>4 DEF LastIsOurs
<1>11. ThinkingKept'
  BY DEF ThinkingKept, Collects
<1> QED
  BY <1>5, <1>6, <1>7, <1>8, <1>9, <1>10, <1>11 DEF DialogInv

(* A call is executed.                                                     *)
LEMMA ExecutesFacts ==
  ASSUME DialogInv, Executes
  PROVE  /\ stage' = "run" /\ provider' = provider /\ Collects' = Collects /\ Wanted' = Wanted
         /\ heard' = heard /\ reply' = reply
         /\ Content \in Given /\ results' = Append(results, Content) /\ Len(results') = Len(results) + 1
         /\ results' \in Seq(Given) /\ results' # << >> /\ ran' \in Seq(SaidBlock)
         /\ ran' \o Rest' = ran \o Rest /\ Answers \in Seq(Given) /\ Answers' = Append(Answers, Content)
         /\ CallsRun'
<1>1. stage = "run" /\ stage' = "run" /\ provider' = provider /\ tools' = tools /\ Collects' = Collects
      /\ reply' = reply /\ heard' = heard /\ ran' = Append(ran, Current) /\ results' = Append(results, Content)
  BY DEF Executes, Collects
<1>2. Wanted' = Wanted
  BY <1>1 DEF Wanted
<1>3. tools /\ provider \in Providers /\ provider # "bedrock" /\ results \in Seq(Given) /\ ran \in Seq(SaidBlock)
      /\ Wanted # << >> /\ ran \o Rest = CallsOf(heard)
  BY <1>1 DEF DialogInv, DialogTypes, CallsRun
<1>4. PICK c \in Seq(SaidBlock) : c = Wanted
  BY BlockFacts DEF Wanted, DialogInv, DialogTypes
<1>5. PICK n \in Nat : n = Len(results)
  BY <1>3
<1>6. PICK K \in Nat : K = Len(ran)
  BY <1>3
<1>7. n \in 0..(Len(c) - 1) /\ n + 1 \in 1..Len(c)
  BY <1>4, <1>5 DEF Executes
<1>8. PICK e \in SaidBlock : e = Current /\ e = c[n + 1]
  BY <1>4, <1>5, <1>7 DEF Current
<1>9. Content = [kind |-> "result", tag |-> TagOf(e), from |-> K + 1] /\ TagOf(e) \in Tags /\ Content \in Given
  <2>1. TagOf(e) \in Tags
    BY <1>3, <1>8 DEF TagOf, Tags, Providers
  <2> QED
    BY <1>6, <1>8, <2>1 DEF Content, Given
<1>10. results' \in Seq(Given) /\ results' # << >> /\ Len(results') = n + 1
  BY <1>1, <1>3, <1>5, <1>9, AppendProperties, ZenonT(30)
<1>11. ran' \in Seq(SaidBlock) /\ Len(ran') = K + 1 /\ (\A k \in 1..K : ran'[k] = ran[k]) /\ ran'[K + 1] = e
  BY <1>1, <1>3, <1>6, <1>8, AppendProperties
<1>12. ran' \o Rest' = ran \o Rest
  <2>1. Rest' = SubSeq(Wanted', Len(results') + 1, Len(Wanted'))
    BY DEF Rest
  <2>2. (n + 1) + 1 = n + 2
    OBVIOUS
  <2>3. Rest' = SubSeq(c, n + 2, Len(c))
    BY <1>2, <1>4, <1>10, <2>1, <2>2
  <2>4. Rest = SubSeq(c, n + 1, Len(c))
    BY <1>4, <1>5 DEF Rest
  <2>5. Append(ran, c[n + 1]) \o SubSeq(c, n + 2, Len(c)) = ran \o SubSeq(c, n + 1, Len(c))
    <3>1. \A m \in 0..(Len(c) - 1) : MovesOn(ran, c, m)
      BY <1>3, RestOf
    <3> QED
      BY <1>7, <3>1 DEF MovesOn
  <2> QED
    BY <1>1, <1>8, <2>3, <2>4, <2>5
<1>13. Answers \in Seq(Given) /\ Answers' = Append(Answers, Content)
  <2>1. ASSUME NEW s \in Seq(SaidBlock), NEW k \in 1..Len(s)
        PROVE  [kind |-> "result", tag |-> TagOf(s[k]), from |-> k] \in Given
    <3>1. s[k] \in SaidBlock
      OBVIOUS
    <3>2. TagOf(s[k]) \in Tags
      BY <1>3, <3>1 DEF TagOf, Tags, Providers
    <3> QED
      BY <3>2 DEF Given
  <2>2. PICK as : as = [k \in 1..Len(ran) |-> [kind |-> "result", tag |-> TagOf(ran[k]), from |-> k]]
    OBVIOUS
  <2>3. PICK bs : bs = [k \in 1..Len(ran') |-> [kind |-> "result", tag |-> TagOf(ran'[k]), from |-> k]]
    OBVIOUS
  <2>4. Answers = as /\ Answers' = bs
    BY <1>1, <2>2, <2>3 DEF Answers, TagOf
  <2>5. as \in Seq(Given) /\ Len(as) = K
    BY <1>3, <1>6, <2>1, <2>2
  <2>6. bs \in Seq(Given) /\ Len(bs) = K + 1
    BY <1>11, <2>1, <2>3, SMTT(30)
  <2>7. PICK o \in Given : o = Content
    BY <1>9
  <2>8. PICK ds \in Seq(Given) : ds = Append(as, o)
    BY <2>5, AppendProperties
  <2>9. Len(ds) = K + 1 /\ (\A k \in 1..K : ds[k] = as[k]) /\ ds[K + 1] = o
    <3>1. as \in Seq(Given) /\ Len(as) = K
      BY <2>5
    <3>2. ds[Len(as) + 1] = o
      BY <2>8, <3>1, AppendProperties
    <3>3. Len(ds) = Len(as) + 1
      BY <2>8, <3>1, AppendProperties
    <3>4. \A k \in 1..Len(as) : ds[k] = as[k]
      BY <2>8, <3>1, AppendProperties, ZenonT(30)
    <3> QED
      BY <3>1, <3>2, <3>3, <3>4
  <2>10. ASSUME NEW k \in 1..(K + 1) PROVE ds[k] = bs[k]
    <3>1. bs[k] = [kind |-> "result", tag |-> TagOf(ran'[k]), from |-> k]
      BY <1>11, <2>3
    <3>2. CASE k = K + 1
      BY <1>9, <1>11, <2>7, <2>9, <3>1, <3>2
    <3>3. CASE k \in 1..K
      <4>1. as[k] = [kind |-> "result", tag |-> TagOf(ran[k]), from |-> k] /\ ran'[k] = ran[k]
        BY <1>6, <1>11, <2>2, <3>3
      <4> QED
        BY <2>9, <3>1, <3>3, <4>1
    <3> QED
      BY <3>2, <3>3
  <2>11. ds = bs
    BY <2>6, <2>9, <2>10, SeqEqual
  <2> QED
    BY <2>4, <2>5, <2>7, <2>8, <2>11
<1>14. CallsRun'
  <2>1. Len(results') <= Len(Wanted')
    BY <1>2, <1>4, <1>7, <1>10
  <2> QED
    BY <1>1, <1>2, <1>3, <1>12, <2>1 DEF CallsRun
<1> QED
  BY <1>1, <1>2, <1>5, <1>9, <1>10, <1>11, <1>12, <1>13, <1>14

LEMMA Regroup ==
  ASSUME NEW a \in Seq(Block), NEW b \in Seq(Block), NEW c \in Seq(Block)
  PROVE  (a \o b) \o c = a \o (b \o c)
  BY ConcatAssociative

LEMMA ExecutesAndKeepsKeeps == ASSUME DialogInv, ExecutesAndKeeps PROVE DialogInv'
<1>1. Executes /\ Collects /\ wire' = wire /\ stage = "run"
  BY DEF ExecutesAndKeeps, Executes, Collects
<1> USE <1>1, ExecutesFacts
<1>2. DialogTypes'
  BY DEF DialogInv, DialogTypes, Executes
<1>3. CallsRun' /\ NoCallIsLost'
  BY DEF NoCallIsLost
<1>4. CallsOnTheWire'
  BY DEF DialogInv, CallsOnTheWire
<1>5. ResultsOnTheWire'
  <2>1. PICK w \in Seq(Block) : w = ResultsOf(wire)
    <3>1. [role |-> "user", blocks |-> << >>] \in Msg
      BY DEF Msg
    <3> QED
      BY <3>1, WireGrows DEF DialogInv, DialogTypes
  <2>2. results \in Seq(Block) /\ results \in Seq(Given) /\ <<Content>> \in Seq(Block)
    <3>1. Content \in Block /\ results \in Seq(Given) /\ Seq(Given) \subseteq Seq(Block)
      BY BlockKinds, BlockFacts DEF DialogInv, DialogTypes
    <3> QED
      BY <3>1
  <2>3. Answers = w \o results
    BY <2>1 DEF DialogInv, ResultsOnTheWire
  <2>4. Append(Answers, Content) = Answers \o <<Content>> /\ Append(results, Content) = results \o <<Content>>
    BY <2>2, AppendIsConcat
  <2>5. (w \o results) \o <<Content>> = w \o (results \o <<Content>>)
    BY <2>2, Regroup
  <2>6. Answers' = ResultsOf(wire') \o results'
    BY <2>1, <2>3, <2>4, <2>5
  <2> QED
    BY <2>6 DEF ResultsOnTheWire
<1>6. AnswersInPlace'
  BY DEF DialogInv, AnswersInPlace, AllAnswered, Answered
<1>7. LastIsOurs'
  BY DEF DialogInv, LastIsOurs
<1>8. ThinkingKept'
  BY DEF DialogInv, ThinkingKept
<1> QED
  BY <1>2, <1>3, <1>4, <1>5, <1>6, <1>7, <1>8 DEF DialogInv

LEMMA MessageFacts ==
  ASSUME NEW r \in {"user", "assistant", "system", "model", "tool"}, NEW bs \in Seq(Block)
  PROVE  Message(r, bs) \in Msg /\ Message(r, bs).role = r /\ Message(r, bs).blocks = bs
  BY DEF Message, Msg

LEMMA ExecutesAndSendsKeeps == ASSUME DialogInv, ExecutesAndSends PROVE DialogInv'
<1>1. Executes /\ ~ Collects /\ stage = "run" /\ wire \in Seq(Msg)
  BY DEF ExecutesAndSends, Executes, Collects, DialogInv, DialogTypes
<1>2. /\ stage' = "run" /\ provider' = provider /\ Collects' = Collects /\ Wanted' = Wanted
      /\ heard' = heard /\ reply' = reply
      /\ Content \in Given /\ Len(results') = Len(results) + 1 /\ results' \in Seq(Given) /\ results' # << >>
      /\ ran' \in Seq(SaidBlock) /\ ran' \o Rest' = ran \o Rest
      /\ Answers \in Seq(Given) /\ Answers' = Append(Answers, Content) /\ CallsRun'
  BY <1>1, ExecutesFacts
<1>3. PICK o \in Given : o = Content
  BY <1>2
<1>4. <<o>> \in Seq(Given) /\ <<o>> # << >> /\ ResultsIn(<<o>>) = <<o>> /\ CallsIn(<<o>>) = << >>
  <2>1. <<o>> \in Seq(Given) /\ <<o>> # << >>
    OBVIOUS
  <2> QED
    BY <2>1, BlockFacts
<1>5. PICK m \in Msg : m = Message("tool", <<o>>) /\ m.role = "tool" /\ m.blocks = <<o>>
  <2>1. <<o>> \in Seq(Block)
    BY <1>4, BlockFacts
  <2> QED
    BY <2>1, MessageFacts
<1>6. wire' = Append(wire, m)
  BY <1>3, <1>5 DEF ExecutesAndSends
<1>7. wire' \in Seq(Msg) /\ wire' # << >> /\ Last(wire') = m
      /\ Len(wire') = Len(wire) + 1 /\ Begins(wire, wire') /\ wire'[Len(wire) + 1] = m
  BY <1>1, <1>6, WireGrows
<1>8. DialogTypes'
  BY <1>1, <1>2, <1>7 DEF DialogInv, DialogTypes, Executes
<1>9. CallsRun' /\ NoCallIsLost'
  BY <1>2 DEF NoCallIsLost
<1>10. CallsOnTheWire'
  <2>1. CallsOf(wire') = CallsOf(wire) \o << >> /\ CallsOf(wire) \in Seq(Block)
    BY <1>1, <1>4, <1>5, <1>6, WireGrows
  <2>2. CallsOf(wire') = CallsOf(wire)
    BY <2>1, ConcatEmptySeq
  <2> QED
    BY <1>1, <1>2, <2>2 DEF DialogInv, CallsOnTheWire
<1>11. ResultsOnTheWire'
  <2>1. ResultsOf(wire') = ResultsOf(wire) \o <<o>>
    BY <1>1, <1>4, <1>5, <1>6, WireGrows
  <2>2. Answers = ResultsOf(wire)
    BY <1>1 DEF DialogInv, ResultsOnTheWire
  <2>3. Append(Answers, o) = Answers \o <<o>>
    BY <1>2, AppendIsConcat
  <2> QED
    BY <1>1, <1>2, <1>3, <2>1, <2>2, <2>3 DEF ResultsOnTheWire
<1>12. AnswersInPlace'
  <2>1. PICK L \in Nat : L = Len(wire)
    BY <1>1
  <2>2. PICK k \in Int : k = L - Len(results) /\ k <= L
    <3>1. results \in Seq(Given)
      BY DEF DialogInv, DialogTypes
    <3>2. PICK N \in Nat : N = Len(results)
      BY <3>1
    <3>3. L - N \in Int /\ L - N <= L
      OBVIOUS
    <3> QED
      BY <3>2, <3>3
  <2>3. Answering(wire, k)
    BY <1>1, <2>1, <2>2 DEF DialogInv, AnswersInPlace
  <2>4. k >= 1 /\ AllAnswered(wire, k - 1) /\ CallsIn(wire[k].blocks) = Wanted
    BY <2>3 DEF Answering
  <2>5. k - 1 \in Int /\ k - 1 <= Len(wire)
    BY <2>1, <2>2
  <2>6. AllAnswered(wire', k - 1)
    BY <1>1, <1>7, <2>4, <2>5, AnsweredStays
  <2>7. \A i \in 1..L : wire'[i] = wire[i]
    BY <1>7, <2>1 DEF Begins
  <2>8. CallsIn(wire'[k].blocks) = Wanted'
    <3>1. k \in 1..L
      BY <2>2, <2>4
    <3>2. wire'[k] = wire[k]
      BY <2>7, <3>1
    <3> QED
      BY <1>2, <2>4, <3>2
  <2>9. ASSUME NEW j \in (k + 1)..Len(wire')
        PROVE  ResultsIn(wire'[j].blocks) # << >> /\ CallsIn(wire'[j].blocks) = << >>
    <3>1. j = L + 1 \/ j \in (k + 1)..L
      BY <1>7, <2>1, <2>2
    <3>2. CASE j = L + 1
      <4>1. wire'[j].blocks = <<o>>
        BY <1>5, <1>7, <2>1, <3>2
      <4> QED
        BY <1>4, <4>1
    <3>3. CASE j \in (k + 1)..L
      <4>1. wire'[j] = wire[j]
        BY <2>2, <2>4, <2>7, <3>3
      <4>2. ResultsIn(wire[j].blocks) # << >> /\ CallsIn(wire[j].blocks) = << >>
        BY <2>1, <2>3, <3>3 DEF Answering
      <4> QED
        BY <4>1, <4>2
    <3> QED
      BY <3>1, <3>2, <3>3
  <2>10. Answering(wire, k)'
    BY <2>4, <2>6, <2>8, <2>9 DEF Answering
  <2>11. Len(wire') - Len(results') = k
    <3>1. results \in Seq(Given)
      BY DEF DialogInv, DialogTypes
    <3>2. PICK N \in Nat : N = Len(results)
      BY <3>1
    <3>3. Len(wire') = L + 1 /\ Len(results') = N + 1 /\ k = L - N
      BY <1>2, <1>7, <2>1, <2>2, <3>2
    <3>4. (L + 1) - (N + 1) = L - N
      OBVIOUS
    <3> QED
      BY <3>3, <3>4
  <2> QED
    BY <1>1, <1>2, <2>10, <2>11 DEF AnswersInPlace
<1>13. LastIsOurs'
  BY <1>2, <1>5, <1>7 DEF LastIsOurs
<1>14. ThinkingKept'
  BY <1>1, <1>2 DEF ThinkingKept, Collects
<1> QED
  BY <1>8, <1>9, <1>10, <1>11, <1>12, <1>13, <1>14 DEF DialogInv

-----------------------------------------------------------------------------
(* The end of a turn.                                                      *)

(* Collected results go out behind the reply with their calls.             *)
LEMMA ExchangeFacts ==
  ASSUME DialogInv, TurnEnds, Collects
  PROVE  \E m \in Msg, n \in Msg :
           /\ wire' = Append(Append(wire, m), n)
           /\ m.blocks = reply /\ n.blocks = results /\ n.role = "user"
<1>1. stage = "run" /\ provider \in {"anthropic", "gemini"} /\ wire \in Seq(Msg)
      /\ reply \in Seq(Block) /\ results \in Seq(Block)
  BY BlockFacts DEF TurnEnds, Collects, DialogInv, DialogTypes
<1>2. PICK m \in Msg : m = Message(IF provider = "anthropic" THEN "assistant" ELSE "model", reply)
                       /\ m.blocks = reply
  BY <1>1, MessageFacts
<1>3. PICK n \in Msg : n = Message("user", results) /\ n.blocks = results /\ n.role = "user"
  BY <1>1, MessageFacts
<1>4. wire' = wire \o <<m, n>>
  <2>1. CASE provider = "anthropic"
    BY <1>2, <1>3, <2>1 DEF TurnEnds, AnthropicExchange
  <2>2. CASE provider = "gemini"
    BY <1>2, <1>3, <2>2 DEF TurnEnds, GeminiExchange
  <2> QED
    BY <1>1, <2>1, <2>2
<1>5. <<m, n>> = <<m>> \o <<n>> /\ <<m>> \in Seq(Msg) /\ <<n>> \in Seq(Msg)
  OBVIOUS
<1>6. wire \o (<<m>> \o <<n>>) = (wire \o <<m>>) \o <<n>>
  BY <1>1, <1>5, ConcatAssociative
<1>7. wire \o <<m>> = Append(wire, m) /\ Append(wire, m) \in Seq(Msg)
  BY <1>1, AppendIsConcat, AppendProperties
<1>8. Append(wire, m) \o <<n>> = Append(Append(wire, m), n)
  BY <1>7, AppendIsConcat
<1>9. wire' = Append(Append(wire, m), n)
  BY <1>4, <1>5, <1>6, <1>7, <1>8
<1> QED
  BY <1>2, <1>3, <1>9

(* Whatever the way, the wire is right for the next request.               *)
Ready(w) ==
  /\ w \in Seq(Msg) /\ w # << >> /\ Last(w).role \in {"user", "tool"}
  /\ CallsOf(w) = ran /\ ResultsOf(w) = Answers /\ AllAnswered(w, Len(w))
  /\ provider = "anthropic" => Spoken(w) = BlocksOf(heard)

LEMMA AllHaveRun ==
  ASSUME DialogInv, TurnEnds
  PROVE  /\ stage = "run" /\ tools /\ wire \in Seq(Msg) /\ wire # << >>
         /\ Wanted \in Seq(SaidBlock) /\ Wanted # << >> /\ results \in Seq(Given) /\ Len(results) = Len(Wanted)
         /\ ran \in Seq(SaidBlock) /\ ran \o Rest = ran /\ ran = CallsOf(heard)
<1>1. stage = "run" /\ tools /\ wire \in Seq(Msg) /\ wire # << >> /\ Wanted # << >> /\ results \in Seq(Given)
      /\ Len(results) = Len(Wanted) /\ ran \in Seq(SaidBlock) /\ ran \o Rest = CallsOf(heard)
  BY DEF DialogInv, DialogTypes, CallsRun, LastIsOurs, TurnEnds
<1>2. Wanted \in Seq(SaidBlock)
  BY BlockFacts DEF Wanted, DialogInv, DialogTypes
<1>3. Rest = << >>
  <2>1. PICK c \in Seq(SaidBlock) : c = Wanted
    BY <1>2
  <2>2. SubSeq(c, Len(c) + 1, Len(c)) = << >>
    BY RestOf
  <2> QED
    BY <1>1, <2>1, <2>2 DEF Rest
<1>4. ran \o << >> = ran
  BY <1>1, ConcatEmptySeq
<1> QED
  BY <1>1, <1>2, <1>3, <1>4

LEMMA CollectedIsReady ==
  ASSUME DialogInv, TurnEnds, Collects
  PROVE  Ready(wire')
<1>1. /\ stage = "run" /\ wire \in Seq(Msg) /\ Wanted \in Seq(SaidBlock) /\ Wanted # << >>
      /\ results \in Seq(Given) /\ Len(results) = Len(Wanted) /\ ran \o Rest = ran
  BY AllHaveRun
<1>2. PICK m \in Msg, n \in Msg : /\ wire' = Append(Append(wire, m), n)
                                  /\ m.blocks = reply /\ n.blocks = results /\ n.role = "user"
  BY ExchangeFacts
<1>3. PICK u \in Seq(Msg) : u = Append(wire, m)
  BY <1>1, AppendProperties
<1>4. PICK v \in Seq(Msg) : v = Append(u, n) /\ v = wire'
  BY <1>2, <1>3, AppendProperties
<1>5. PICK L \in Nat : L = Len(wire)
  BY <1>1
<1>6. Len(u) = L + 1 /\ Begins(wire, u) /\ u[L + 1] = m
  BY <1>1, <1>3, <1>5, WireGrows
<1>7. Len(v) = L + 2 /\ Begins(u, v) /\ v[L + 2] = n /\ v # << >> /\ Last(v) = n
  <2>1. Len(v) = Len(u) + 1 /\ Begins(u, v) /\ v[Len(u) + 1] = n /\ v # << >> /\ Last(v) = n
    BY <1>4, WireGrows
  <2>2. Len(u) + 1 = L + 2
    BY <1>6
  <2> QED
    BY <2>1, <2>2
<1>8. v[L + 1] = m
  <2>1. L + 1 \in 1..Len(u)
    BY <1>6
  <2> QED
    BY <1>6, <1>7, <2>1 DEF Begins
<1>9. CallsIn(m.blocks) = Wanted /\ ResultsIn(m.blocks) = << >> /\ CallsIn(n.blocks) = << >> /\ ResultsIn(n.blocks) = results
  BY <1>1, <1>2, BlockFacts DEF Wanted, DialogInv, DialogTypes
<1>10. CallsOf(v) = ran
  <2>1. CallsOf(u) = CallsOf(wire) \o Wanted /\ CallsOf(u) \in Seq(Block)
    BY <1>1, <1>3, <1>9, WireGrows
  <2>2. CallsOf(v) = CallsOf(u) \o << >>
    BY <1>4, <1>9, WireGrows
  <2>3. CallsOf(wire) \o Wanted = ran
    BY <1>1 DEF DialogInv, CallsOnTheWire
  <2> QED
    BY <2>1, <2>2, <2>3, ConcatEmptySeq
<1>11. ResultsOf(v) = Answers
  <2>1. ResultsOf(u) = ResultsOf(wire) \o << >> /\ ResultsOf(wire) \in Seq(Block)
    <3>1. ResultsOf(Append(wire, m)) = ResultsOf(wire) \o ResultsIn(m.blocks)
      BY <1>1, WireGrows
    <3>2. ResultsOf(wire) \in Seq(Block)
      BY <1>1, <1>2, WireGrows
    <3> QED
      BY <1>3, <1>9, <3>1, <3>2
  <2>2. ResultsOf(v) = ResultsOf(u) \o results
    BY <1>4, <1>9, WireGrows, ZenonT(30)
  <2>3. ResultsOf(wire) \o results = Answers
    BY <1>1 DEF DialogInv, ResultsOnTheWire
  <2> QED
    BY <2>1, <2>2, <2>3, ConcatEmptySeq
<1>12. AllAnswered(v, Len(v))
  <2>1. AllAnswered(wire, Len(wire)) /\ Len(wire) \in Int
    BY <1>1, <1>5 DEF DialogInv, AnswersInPlace
  <2>2. AllAnswered(u, Len(wire))
    BY <1>1, <1>5, <1>6, <2>1, AnsweredStays
  <2>3. AllAnswered(v, L)
    BY <1>5, <1>6, <1>7, <2>2, AnsweredStays
  <2>4. Answered(v, L + 1, Len(CallsIn(v[L + 1].blocks)))
    <3>1. Len(CallsIn(v[L + 1].blocks)) = Len(Wanted) /\ Len(Wanted) \in Nat /\ Len(Wanted) > 0
      BY <1>1, <1>8, <1>9
    <3>2. ResultsIn(v[(L + 1) + 1].blocks) = results
      BY <1>7, <1>9
    <3>3. L + 1 < Len(v)
      BY <1>7
    <3>4. Len(ResultsIn(v[(L + 1) + 1].blocks)) >= Len(Wanted)
      BY <1>1, <3>1, <3>2
    <3> QED
      BY <3>1, <3>3, <3>4 DEF Answered
  <2>5. Answered(v, L + 2, Len(CallsIn(v[L + 2].blocks)))
    BY <1>7, <1>9, NothingOwed
  <2>6. \A i \in 1..(L + 2) : i \in 1..L \/ i = L + 1 \/ i = L + 2
    OBVIOUS
  <2>7. \A i \in 1..(L + 2) : Answered(v, i, Len(CallsIn(v[i].blocks)))
    BY <2>3, <2>4, <2>5, <2>6 DEF AllAnswered
  <2> QED
    BY <1>7, <2>7 DEF AllAnswered
<1>13. provider = "anthropic" => Spoken(v) = BlocksOf(heard)
  <2>1. Spoken(u) = Append(Spoken(wire), reply)
    BY <1>1, <1>2, <1>3, <1>9, WireGrows
  <2>2. Spoken(v) = Spoken(u)
    BY <1>4, <1>9, WireGrows
  <2> QED
    BY <1>1, <2>1, <2>2 DEF DialogInv, ThinkingKept
<1> QED
  BY <1>2, <1>4, <1>7, <1>10, <1>11, <1>12, <1>13 DEF Ready

LEMMA SentIsReady ==
  ASSUME DialogInv, TurnEnds, ~ Collects
  PROVE  Ready(wire') 
<1>1. /\ stage = "run" /\ wire \in Seq(Msg) /\ wire # << >> /\ Wanted \in Seq(SaidBlock) /\ Wanted # << >>
      /\ results \in Seq(Given) /\ Len(results) = Len(Wanted) /\ ran \o Rest = ran
  BY AllHaveRun
<1>2. wire' = wire
  <2>1. wire' = wire \o << >>
    BY DEF TurnEnds, Collects
  <2> QED
    BY <1>1, <2>1, ConcatEmptySeq
<1>3. CallsOf(wire) = ran /\ ResultsOf(wire) = Answers
  BY <1>1 DEF DialogInv, CallsOnTheWire, ResultsOnTheWire
<1>4. Last(wire).role \in {"user", "tool"}
  <2>1. results # << >>
    BY <1>1
  <2> QED
    BY <1>1, <2>1 DEF DialogInv, LastIsOurs
<1>5. AllAnswered(wire, Len(wire))
  <2>1. PICK L \in Nat : L = Len(wire)
    BY <1>1
  <2>2. PICK n \in Nat : n = Len(results)
    BY <1>1
  <2>3. Answering(wire, L - n)
    BY <1>1, <2>1, <2>2 DEF DialogInv, AnswersInPlace
  <2>4. PICK k \in Int : k = L - n
    OBVIOUS
  <2>5. k >= 1 /\ AllAnswered(wire, k - 1) /\ CallsIn(wire[k].blocks) = Wanted
        /\ \A j \in (k + 1)..L : ResultsIn(wire[j].blocks) # << >> /\ CallsIn(wire[j].blocks) = << >>
    BY <2>1, <2>3, <2>4 DEF Answering
  <2>6. Answered(wire, k, Len(CallsIn(wire[k].blocks)))
    <3>1. Len(CallsIn(wire[k].blocks)) = n
      BY <1>1, <2>2, <2>5
    <3>2. k + n <= Len(wire)
      BY <2>1, <2>4
    <3>3. \A j \in 1..n : k + j \in (k + 1)..L
      BY <2>4
    <3>4. \A j \in 1..n : ResultsIn(wire[k + j].blocks) # << >>
      BY <2>5, <3>3
    <3> QED
      BY <3>1, <3>2, <3>4 DEF Answered
  <2>7. ASSUME NEW i \in 1..L PROVE Answered(wire, i, Len(CallsIn(wire[i].blocks)))
    <3>1. i \in 1..(k - 1) \/ i = k \/ i \in (k + 1)..L
      OBVIOUS
    <3>2. CASE i \in 1..(k - 1)
      BY <2>5, <3>2 DEF AllAnswered
    <3>3. CASE i = k
      BY <2>6, <3>3
    <3>4. CASE i \in (k + 1)..L
      <4>1. CallsIn(wire[i].blocks) = << >>
        BY <2>5, <3>4
      <4> QED
        BY <1>1, <2>1, <4>1, NothingOwed
    <3> QED
      BY <3>1, <3>2, <3>3, <3>4
  <2> QED
    BY <2>1, <2>7 DEF AllAnswered
<1> QED
  BY <1>1, <1>2, <1>3, <1>4, <1>5 DEF Ready, Collects

LEMMA TurnEndsKeeps == ASSUME DialogInv, TurnEnds PROVE DialogInv'
<1>1. PICK v : v = wire'
  OBVIOUS
<1>2. Ready(v)
  BY <1>1, CollectedIsReady, SentIsReady
<1>3. /\ provider' = provider /\ tools' = tools /\ declared' = declared /\ reply' = reply /\ results' = results
      /\ heard' = heard /\ ran' = ran /\ Answers' = Answers
  BY DEF TurnEnds, Answers, TagOf
<1>4. \/ stage' = "ask"
      \/ stage' = "done" /\ stop' = "budget_exhausted"
  BY DEF TurnEnds
<1>5. DialogTypes'
  <2>1. turn' \in Nat
    BY DEF TurnEnds, DialogInv, DialogTypes
  <2> QED
    BY <1>1, <1>2, <1>3, <1>4, <2>1 DEF DialogInv, DialogTypes, Ready
<1>6. CallsRun' /\ NoCallIsLost'
  BY <1>3, <1>4, AllHaveRun DEF CallsRun, NoCallIsLost
<1>7. CallsOnTheWire' /\ ResultsOnTheWire'
  BY <1>1, <1>2, <1>3, <1>4 DEF Ready, CallsOnTheWire, ResultsOnTheWire
<1>8. AnswersInPlace'
  <2>1. AllAnswered(v, Len(v))
    BY <1>2 DEF Ready
  <2> QED
    BY <1>1, <1>4, <2>1 DEF AnswersInPlace, AllAnswered, Answered
<1>9. LastIsOurs' /\ ThinkingKept'
  BY <1>1, <1>2, <1>3, <1>4 DEF Ready, LastIsOurs, ThinkingKept
<1> QED
  BY <1>5, <1>6, <1>7, <1>8, <1>9 DEF DialogInv

-----------------------------------------------------------------------------
(* The first request: nothing but texts, the user's the last.              *)

LEMMA TextsOnly ==
  ASSUME NEW w \in Seq({m \in Msg : m.blocks = <<Text>>})
  PROVE  /\ CallsOf(w) = << >> /\ ResultsOf(w) = << >> /\ Spoken(w) = << >>
         /\ AllAnswered(w, Len(w))
<1> DEFINE M == {m \in Msg : m.blocks = <<Text>>}
           T == {v \in Seq(M) : CallsOf(v) = << >> /\ ResultsOf(v) = << >> /\ Spoken(v) = << >>}
<1>1. <<Text>> \in Seq(SaidBlock) /\ <<Text>> \in Seq(Block) /\ << >> \in Seq(Block)
  <2>1. Text \in SaidBlock /\ Text \in Block
    BY DEF SaidBlock, Block
  <2> QED
    BY <2>1
<1>2. CallsIn(<<Text>>) = << >> /\ ResultsIn(<<Text>>) = << >>
  <2>1. PICK S : S = {Text}
    OBVIOUS
  <2>2. <<Text>> \in Seq(S) /\ \A b \in S : b.kind \notin {"call"} /\ b.kind \notin {"result"}
    BY <2>1 DEF Text
  <2>3. OfKinds(<<Text>>, {"call"}) = << >> /\ OfKinds(<<Text>>, {"result"}) = << >>
    BY <2>2, GoneKinds
  <2> QED
    BY <2>3 DEF CallsIn, ResultsIn
<1>3. << >> \in T
  <2>1. << >> \in Seq(M)
    OBVIOUS
  <2> QED
    BY <2>1, NoMessages
<1>4. ASSUME NEW v \in Seq(M), v \in T, NEW m \in M PROVE Append(v, m) \in T
  <2>1. Append(v, m) \in Seq(M)
    BY AppendProperties
  <2>2. v \in Seq(Msg) /\ m \in Msg /\ m.blocks = <<Text>>
    <3>1. M \subseteq Msg
      OBVIOUS
    <3> QED
      BY <3>1, SeqMonotonic
  <2>3. CallsOf(Append(v, m)) = CallsOf(v) \o << >>
    BY <1>2, <2>2, WireGrows
  <2>4. ResultsOf(Append(v, m)) = ResultsOf(v) \o << >>
    BY <1>2, <2>2, WireGrows
  <2>5. Spoken(Append(v, m)) = Spoken(v)
    BY <1>2, <2>2, WireGrows
  <2>6. << >> \o << >> = << >>
    BY <1>1, ConcatEmptySeq
  <2> QED
    BY <1>4, <2>1, <2>3, <2>4, <2>5, <2>6
<1>5. Seq(M) \subseteq T
  <2> HIDE DEF T, M
  <2> QED
    BY <1>3, <1>4, SequencesClimb
<1>6. AllAnswered(w, Len(w))
  <2>1. w \in Seq(Msg)
    <3>1. M \subseteq Msg
      OBVIOUS
    <3> QED
      BY <3>1, SeqMonotonic
  <2>2. ASSUME NEW i \in 1..Len(w) PROVE Answered(w, i, Len(CallsIn(w[i].blocks)))
    <3>1. w[i].blocks = <<Text>>
      OBVIOUS
    <3> QED
      BY <1>2, <2>1, <3>1, NothingOwed
  <2> QED
    BY <2>2 DEF AllAnswered
<1> QED
  BY <1>5, <1>6

LEMMA FirstRequestFacts ==
  ASSUME NEW p \in Providers, NEW system \in BOOLEAN, NEW history \in Histories
  PROVE  LET w == FirstRequest(p, system, history) IN
         /\ w \in Seq({m \in Msg : m.blocks = <<Text>>})
         /\ w # << >> /\ Last(w).role = "user"
<1> DEFINE M == {m \in Msg : m.blocks = <<Text>>}
<1>1. PICK L \in Nat : L = Len(history) /\ DOMAIN history = 1..L
      /\ \A i \in 1..L : history[i] \in {"user", "assistant"}
  BY DialogConstantsOK DEF DialogConstantsOK
<1>2. <<Text>> \in Seq(Block)
  <2>1. Text \in Block
    BY DEF SaidBlock, Block
  <2> QED
    BY <2>1
<1>3. \A r \in {"user", "assistant", "system", "model", "tool"} :
        Message(r, <<Text>>) \in M /\ Message(r, <<Text>>).role = r /\ Message(r, <<Text>>).blocks = <<Text>>
  <2>1. ASSUME NEW r \in {"user", "assistant", "system", "model", "tool"}
        PROVE  /\ Message(r, <<Text>>) \in Msg /\ Message(r, <<Text>>).role = r
               /\ Message(r, <<Text>>).blocks = <<Text>>
    <3>1. PICK bs \in Seq(Block) : bs = <<Text>>
      BY <1>2
    <3>2. Message(r, bs) \in Msg /\ Message(r, bs).role = r /\ Message(r, bs).blocks = bs
      BY MessageFacts
    <3> QED
      BY <3>1, <3>2
  <2> QED
    BY <2>1
<1> HIDE DEF M
<1>4. PICK before : before = [i \in 1..L |-> Message(history[i], <<Text>>)]
  OBVIOUS
<1>5. before \in Seq(M) /\ Len(before) = L
  <2>1. \A i \in 1..L : Message(history[i], <<Text>>) \in M
    BY <1>1, <1>3
  <2> QED
    BY <1>4, <2>1
<1>6. PICK u \in M : u = Message("user", <<Text>>) /\ u.role = "user"
  BY <1>3
<1>7. PICK msgs \in Seq(M) : msgs = Append(before, u)
  BY <1>5, AppendProperties
<1>8. Len(msgs) = L + 1 /\ msgs # << >> /\ msgs[L + 1] = u
  BY <1>5, <1>7, AppendProperties
<1>9. ToApiMessages(history) = msgs
  <2>1. ToApiMessages(history) = before \o <<u>>
    BY <1>1, <1>4, <1>6 DEF ToApiMessages
  <2> QED
    BY <1>5, <1>7, <2>1, AppendIsConcat
<1>10. Last(msgs).role = "user"
  BY <1>6, <1>8 DEF Last
<1>11. PICK lead \in Seq(M) :
         lead = IF system THEN <<Message("system", <<Text>>)>> ELSE << >>
  <2>1. <<Message("system", <<Text>>)>> \in Seq(M) /\ << >> \in Seq(M)
    BY <1>3
  <2> QED
    BY <2>1
<1>12. lead \o msgs \in Seq(M) /\ lead \o msgs # << >> /\ Last(lead \o msgs).role = "user"
  <2>1. PICK K \in Nat : K = Len(lead)
    OBVIOUS
  <2>2. PICK w \in Seq(M) : w = lead \o msgs
    BY ConcatProperties
  <2>3. Len(w) = K + (L + 1)
    <3>1. Len(w) = Len(lead) + Len(msgs)
      BY <2>2, ConcatProperties
    <3> QED
      BY <1>8, <2>1, <3>1
  <2>4. w[K + (L + 1)] = msgs[L + 1]
    <3>1. \A i \in 1..(Len(lead) + Len(msgs)) : w[i] = IF i <= Len(lead) THEN lead[i] ELSE msgs[i - Len(lead)]
      BY <2>2, ConcatProperties
    <3>2. K + (L + 1) \in 1..(Len(lead) + Len(msgs)) /\ ~ (K + (L + 1) <= K) /\ (K + (L + 1)) - K = L + 1
      BY <1>8, <2>1
    <3> QED
      BY <2>1, <3>1, <3>2
  <2>5. w # << >>
    BY <2>3
  <2>6. Last(w) = u
    BY <1>8, <2>3, <2>4 DEF Last
  <2> QED
    BY <1>6, <2>2, <2>5, <2>6
<1>13. PICK g : g = GeminiContents(msgs)
  OBVIOUS
<1>14. g \in Seq(M) /\ g # << >> /\ Last(g).role = "user"
  <2>1. DOMAIN msgs = 1..(L + 1)
    BY <1>8
  <2>2. g = [i \in 1..(L + 1) |->
               Message(IF msgs[i].role = "assistant" THEN "model" ELSE "user", msgs[i].blocks)]
    BY <1>13, <2>1 DEF GeminiContents
  <2>3. \A i \in 1..(L + 1) : msgs[i].blocks = <<Text>>
    BY <1>8 DEF M
  <2>4. \A i \in 1..(L + 1) : g[i] \in M
    BY <1>3, <2>2, <2>3
  <2>5. g \in Seq(M) /\ Len(g) = L + 1
    BY <2>2, <2>4
  <2>6. g[L + 1].role = "user"
    <3>1. msgs[L + 1].role = "user" /\ L + 1 \in 1..(L + 1)
      BY <1>6, <1>8
    <3>2. g[L + 1] = Message("user", <<Text>>)
      BY <2>2, <2>3, <3>1
    <3> QED
      BY <1>3, <3>2
  <2> QED
    BY <2>5, <2>6 DEF Last
<1>15. PICK w : w = FirstRequest(p, system, history)
  OBVIOUS
<1>16. CASE p \in {"anthropic", "bedrock"}
  <2>1. w = msgs
    BY <1>9, <1>15, <1>16 DEF FirstRequest
  <2> QED
    BY <1>8, <1>10, <1>15, <2>1 DEF M
<1>17. CASE p \in {"openai", "openrouter", "ollama"}
  <2>1. w = lead \o msgs
    BY <1>9, <1>11, <1>15, <1>17 DEF FirstRequest, OpenAiMessages, OllamaMessages
  <2> QED
    BY <1>12, <1>15, <2>1 DEF M
<1>18. CASE p = "gemini"
  <2>1. w = g
    BY <1>9, <1>13, <1>15, <1>18 DEF FirstRequest
  <2> QED
    BY <1>14, <1>15, <2>1 DEF M
<1> QED
  BY <1>16, <1>17, <1>18 DEF Providers

LEMMA InitDialogInv == DialogInit => DialogInv
<1> SUFFICES ASSUME DialogInit PROVE DialogInv
  OBVIOUS
<1>1. PICK history \in Histories, system \in BOOLEAN : wire = FirstRequest(provider, system, history)
  BY DEF DialogInit
<1>2. provider \in Providers /\ turn = 0 /\ reply = << >> /\ results = << >> /\ heard = << >> /\ ran = << >>
      /\ (stage = "ask" \/ (stage = "done" /\ stop = "error"))
  BY DEF DialogInit
<1>3. wire \in Seq({m \in Msg : m.blocks = <<Text>>}) /\ wire # << >> /\ Last(wire).role = "user"
  BY <1>1, <1>2, FirstRequestFacts
<1>4. CallsOf(wire) = << >> /\ ResultsOf(wire) = << >> /\ Spoken(wire) = << >> /\ AllAnswered(wire, Len(wire))
  BY <1>3, TextsOnly
<1>5. wire \in Seq(Msg)
  <2>1. {m \in Msg : m.blocks = <<Text>>} \subseteq Msg
    OBVIOUS
  <2> QED
    BY <1>3, <2>1, SeqMonotonic
<1>6. tools \in BOOLEAN /\ (tools => provider # "bedrock") /\ (provider = "gemini" => ~ declared.array)
  <2>1. tools \in BOOLEAN /\ (tools => provider # "bedrock")
    BY DEF DialogInit
  <2>2. ASSUME provider = "gemini", ~ declared.array = FALSE PROVE FALSE
    <3>1. CASE ~ tools
      BY <2>2, <3>1 DEF DialogInit
    <3>2. CASE tools
      <4>1. PICK t \in TypeValues : declared = Normal(t)
        BY <2>2, <3>2 DEF DialogInit
      <4>2. t.array => {i \in DOMAIN t.of : t.of[i] # "null"} # {}
        BY DialogConstantsOK DEF DialogConstantsOK
      <4>3. ~ Normal(t).array
        BY <4>2 DEF Normal
      <4> QED
        BY <2>2, <4>1, <4>3
    <3> QED
      BY <3>1, <3>2
  <2> QED
    BY <2>1, <2>2
<1>7. DialogTypes
  <2>1. << >> \in Seq(Replies) /\ << >> \in Seq(SaidBlock) /\ << >> \in Seq(Given)
    OBVIOUS
  <2> QED
    BY <1>2, <1>5, <1>6, <2>1 DEF DialogTypes
<1>8. CallsRun /\ NoCallIsLost
  BY <1>2, NoMessages DEF CallsRun, NoCallIsLost
<1>9. CallsOnTheWire /\ ResultsOnTheWire
  <2>1. Answers = << >>
    BY <1>2 DEF Answers
  <2> QED
    BY <1>2, <1>4, <2>1 DEF CallsOnTheWire, ResultsOnTheWire
<1>10. AnswersInPlace /\ LastIsOurs
  BY <1>2, <1>3, <1>4 DEF AnswersInPlace, LastIsOurs
<1>11. ThinkingKept
  <2>1. BlocksOf(heard) = << >>
    BY <1>2 DEF BlocksOf
  <2> QED
    BY <1>2, <1>4, <2>1 DEF ThinkingKept
<1> QED
  BY <1>7, <1>8, <1>9, <1>10, <1>11 DEF DialogInv

LEMMA RepliesKeep ==
  ASSUME DialogInv, NEW r \in Replies, Sayable(r),
         \/ AnthropicTurn(r) \/ OpenAiTurn(r) \/ OllamaTurn(r) \/ GeminiTurn(r)
         \/ AnthropicPlain(r) \/ OpenAiPlain(r) \/ OpenRouterPlain(r)
         \/ GeminiPlain(r) \/ OllamaPlain(r) \/ BedrockPlain(r)
  PROVE  DialogInv'
<1>1. stage = "ask" /\ Hears(r) /\ heard \in Seq(Replies) /\ ran = CallsOf(heard)
  BY DEF DialogInv, DialogTypes, CallsRun, Asking, AnthropicTurn, OpenAiTurn, OllamaTurn, GeminiTurn,
         AnthropicPlain, OpenAiPlain, OpenRouterPlain, GeminiPlain, OllamaPlain, BedrockPlain
<1>2. heard' \in Seq(Replies) /\ CallsOf(heard') = CallsOf(heard) \o CallsIn(r.blocks)
      /\ CallsOf(heard) \in Seq(Block)
  BY <1>1, HeardGrows DEF Hears
<1>3. CASE CallsIn(r.blocks) = << >>
  <2>1. CallsOf(heard') = ran
    BY <1>1, <1>2, <1>3, ConcatEmptySeq
  <2>2. \E why : Ends(why)
    BY <1>3 DEF Sayable, AnthropicTurn, OpenAiTurn, OllamaTurn, GeminiTurn,
                AnthropicPlain, OpenAiPlain, OpenRouterPlain, GeminiPlain, OllamaPlain, BedrockPlain
  <2> QED
    BY <1>1, <1>2, <2>1, <2>2, EndsKeeps
<1>4. CASE CallsIn(r.blocks) # << >>
  <2>1. tools /\ r.stop \notin {"none", "end_turn"}
    BY <1>4 DEF Sayable
  <2>2. CASE AnthropicTurn(r)
    <3>1. CASE r.stop = "tool_use"
      <4>1. Collects /\ RunsCalls(r, << >>)
        BY <2>2, <3>1 DEF AnthropicTurn, Asking, Collects
      <4> QED
        BY <1>1, <1>4, <2>1, <4>1, CollectKeeps
    <3>2. CASE r.stop # "tool_use"
      <4>1. Ends(r.stop)
        BY <2>2, <3>2 DEF AnthropicTurn
      <4> QED
        BY <1>1, <1>2, <2>1, <4>1, EndsKeeps
    <3> QED
      BY <3>1, <3>2
  <2>3. CASE GeminiTurn(r)
    <3>1. Collects /\ RunsCalls(r, << >>)
      BY <1>4, <2>3 DEF GeminiTurn, Asking, Collects
    <3> QED
      BY <1>1, <1>4, <2>1, <3>1, CollectKeeps
  <2>4. CASE OpenAiTurn(r) \/ OllamaTurn(r)
    <3>1. ~ Collects /\ RunsCalls(r, <<Message("assistant", Parsed(r.blocks))>>)
      BY <1>4, <2>4 DEF OpenAiTurn, OllamaTurn, Asking, Collects
    <3> QED
      BY <1>1, <1>4, <2>1, <3>1, SayKeeps
  <2> QED
    BY <2>1, <2>2, <2>3, <2>4 DEF Asking, AnthropicPlain, OpenAiPlain, OpenRouterPlain,
                                  GeminiPlain, OllamaPlain, BedrockPlain
<1> QED
  BY <1>3, <1>4

LEMMA DialogInvHolds == DialogSpec => []DialogInv
<1>1. DialogInit => DialogInv
  BY InitDialogInv
<1>2. ASSUME DialogInv, [DialogNext]_dialogVars PROVE DialogInv'
  <2>1. CASE \E r \in {x \in Replies : Sayable(x)} :
               \/ AnthropicTurn(r) \/ OpenAiTurn(r) \/ OllamaTurn(r) \/ GeminiTurn(r)
               \/ AnthropicPlain(r) \/ OpenAiPlain(r) \/ OpenRouterPlain(r)
               \/ GeminiPlain(r) \/ OllamaPlain(r) \/ BedrockPlain(r)
    BY <1>2, <2>1, RepliesKeep
  <2>2. CASE NoReply \/ OutOfTurns \/ RequestFails
    <3>1. stage = "ask" /\ heard' = heard /\ (Ends("max_turns") \/ Ends("error"))
      BY <2>2 DEF NoReply, OutOfTurns, RequestFails, Asking
    <3>2. heard' \in Seq(Replies)
      BY <1>2, <3>1 DEF DialogInv, DialogTypes
    <3> QED
      BY <1>2, <3>1, <3>2, EndsKeeps
  <2>3. CASE ExecutesAndSends
    BY <1>2, <2>3, ExecutesAndSendsKeeps
  <2>4. CASE ExecutesAndKeeps
    BY <1>2, <2>4, ExecutesAndKeepsKeeps
  <2>5. CASE TurnEnds
    BY <1>2, <2>5, TurnEndsKeeps
  <2>6. CASE UNCHANGED dialogVars
    <3>1. DialogTypes'
      BY <1>2, <2>6 DEF dialogVars, DialogInv, DialogTypes
    <3>2. (CallsRun /\ NoCallIsLost)'
      BY <1>2, <2>6 DEF dialogVars, DialogInv, CallsRun, NoCallIsLost, Wanted, Rest
    <3>3. (CallsOnTheWire /\ ResultsOnTheWire)'
      BY <1>2, <2>6 DEF dialogVars, DialogInv, CallsOnTheWire, ResultsOnTheWire, Wanted, Rest, Answers, TagOf, Collects
    <3>4. AnswersInPlace'
      BY <1>2, <2>6 DEF dialogVars, DialogInv, AnswersInPlace, Collects, Answering, Wanted, AllAnswered, Answered
    <3>5. (LastIsOurs /\ ThinkingKept)'
      BY <1>2, <2>6 DEF dialogVars, DialogInv, LastIsOurs, ThinkingKept, Collects
    <3> QED
      BY <3>1, <3>2, <3>3, <3>4, <3>5 DEF DialogInv
  <2> QED
    BY <1>2, <2>1, <2>2, <2>3, <2>4, <2>5, <2>6 DEF DialogNext
<1> QED
  BY <1>1, <1>2, PTL DEF DialogSpec

-----------------------------------------------------------------------------
(* What the properties say of the wire.                                    *)

(* No element is lost when sequences are flattened: the first of them      *)
(* alone, or every one that is not empty, counts.                          *)
LEMMA FlattenLength ==
  ASSUME NEW S, NEW ps \in Seq(Seq(S)), NEW c \in Nat,
         \/ c <= Len(ps) /\ \A j \in 1..c : ps[j] # << >>
         \/ Len(ps) >= 1 /\ Len(ps[1]) >= c
  PROVE  Len(FlattenSeq(ps)) >= c
<1>1. PICK N \in Nat : N = Len(ps)
  OBVIOUS
<1>2. PICK f \in [0..Len(ps) -> Seq(S)] : Flattens(f, ps)
  BY FlattenIs
<1>3. /\ f[0] = << >>
      /\ \A n \in 1..N : f[n] = f[n - 1] \o ps[n]
      /\ FlattenSeq(ps) = f[N]
  <2>1. ps = [i \in 1..N |-> ps[i]]
    <3>1. PICK rs : rs = [i \in 1..N |-> ps[i]]
      OBVIOUS
    <3>2. rs \in Seq(Seq(S)) /\ Len(rs) = N /\ \A i \in 1..N : rs[i] = ps[i]
      <4>1. \A i \in 1..N : ps[i] \in Seq(S)
        BY <1>1
      <4> QED
        BY <3>1, <4>1, SMTT(30)
    <3> QED
      BY <1>1, <3>1, <3>2, SeqEqual
  <2>2. N \in 0..Len(ps)
    BY <1>1
  <2>3. FlattenSeq([i \in 1..N |-> ps[i]]) = f[N]
    BY <1>2, <2>2 DEF Flattens
  <2> QED
    BY <1>1, <1>2, <2>1, <2>3 DEF Flattens
<1>4. ASSUME NEW m \in 0..N PROVE Len(f[m]) <= Len(f[N])
  BY <1>1, <1>2, FlattenGrows DEF Begins
<1>5. \A n \in 0..N : Len(f[n]) \in Nat
  BY <1>1
<1>6. ASSUME NEW n \in 1..N PROVE Len(f[n]) = Len(f[n - 1]) + Len(ps[n]) /\ Len(ps[n]) \in Nat
  <2>1. n - 1 \in 0..N
    OBVIOUS
  <2>2. PICK a \in Seq(S) : a = f[n - 1]
    BY <1>1, <2>1
  <2>3. PICK b \in Seq(S) : b = ps[n]
    BY <1>1
  <2>4. f[n] = a \o b
    BY <1>3, <2>2, <2>3
  <2>5. Len(a \o b) = Len(a) + Len(b)
    BY ConcatProperties
  <2> QED
    BY <2>2, <2>3, <2>4, <2>5
<1>7. CASE c <= Len(ps) /\ \A j \in 1..c : ps[j] # << >>
  <2> DEFINE T == {n \in 0..c : Len(f[n]) >= n}
  <2>1. 0 \in T
    BY <1>5
  <2>2. ASSUME NEW n \in 0..(c - 1), n \in T PROVE n + 1 \in T
    <3>1. n + 1 \in 1..N /\ n + 1 \in 1..c /\ (n + 1) - 1 = n /\ n \in 0..N /\ n + 1 \in 0..c
      BY <1>1, <1>7
    <3>2. Len(f[n + 1]) = Len(f[n]) + Len(ps[n + 1]) /\ Len(ps[n + 1]) \in Nat
      BY <1>6, <3>1
    <3>3. Len(ps[n + 1]) # 0
      <4>1. ps[n + 1] \in Seq(S) /\ ps[n + 1] # << >>
        BY <1>1, <1>7, <3>1
      <4> QED
        BY <4>1
    <3>4. Len(f[n]) >= n /\ Len(f[n]) \in Nat
      BY <1>5, <2>2, <3>1
    <3>5. Len(f[n + 1]) >= n + 1
      <4>1. PICK a \in Nat : a = Len(f[n])
        BY <3>4
      <4>2. PICK b \in Nat : b = Len(ps[n + 1])
        BY <3>2
      <4>3. a >= n /\ b >= 1 /\ n \in Nat
        BY <3>3, <3>4, <4>1, <4>2
      <4>4. Len(f[n + 1]) = a + b
        BY <3>2, <4>1, <4>2
      <4>5. a + b >= n + 1
        BY <4>3
      <4> QED
        BY <4>4, <4>5
    <3> QED
      BY <3>1, <3>5
  <2>3. c \in T
    <3> HIDE DEF T
    <3>1. 0..c \subseteq T
      BY <2>1, <2>2, Climbs
    <3> QED
      BY <3>1
  <2>4. c \in 0..N
    BY <1>1, <1>7
  <2> QED
    BY <1>3, <1>4, <1>5, <2>3, <2>4
<1>8. CASE Len(ps) >= 1 /\ Len(ps[1]) >= c
  <2>1. 1 \in 1..N /\ 1 \in 0..N /\ 0 \in 0..N /\ N \in 0..N
    BY <1>1, <1>8
  <2>2. Len(f[1]) = Len(f[1 - 1]) + Len(ps[1]) /\ Len(ps[1]) \in Nat
    BY <1>6, <2>1
  <2>3. f[1 - 1] = << >> /\ Len(f[1 - 1]) = 0
    BY <1>3
  <2>4. Len(f[1]) <= Len(f[N]) /\ Len(f[1]) \in Nat /\ Len(f[N]) \in Nat
    BY <1>4, <1>5, <2>1
  <2> QED
    BY <1>3, <1>8, <2>2, <2>3, <2>4
<1> QED
  BY <1>7, <1>8

LEMMA FollowingHasThem ==
  ASSUME wire \in Seq(Msg), NEW i \in 1..Len(wire), NEW c \in Nat, Answered(wire, i, c)
  PROVE  Len(Following(i)) >= c
<1>1. PICK L \in Nat : L = Len(wire)
  OBVIOUS
<1> DEFINE ends == {j \in (i + 1)..L : ResultsIn(wire[j].blocks) = << >>}
<1>2. PICK last \in Int :
        /\ last = IF ends = {} THEN Len(wire) ELSE (CHOOSE j \in ends : \A k \in ends : j <= k) - 1
        /\ i <= last /\ last <= L
        /\ \A c1 \in Nat : (i + c1 <= L /\ \A j \in 1..c1 : ResultsIn(wire[i + j].blocks) # << >>)
             => i + c1 <= last
  <2>1. CASE ends = {}
    BY <1>1, <2>1
  <2>2. CASE ends # {}
    <3>1. PICK e \in ends : \A k \in ends : ~ (<<k, e>> \in OpToRel(<, Nat))
      <4>1. ends \subseteq Nat
        OBVIOUS
      <4> HIDE DEF ends
      <4> QED
        BY <2>2, <4>1, NatLessThanWellFounded, WFMin, Zenon
    <3>2. \A k \in ends : e <= k
      <4>1. e \in Nat
        OBVIOUS
      <4>2. ASSUME NEW k \in ends PROVE e <= k
        <5>1. k \in Nat
          OBVIOUS
        <5>2. ~ (k < e)
          <6>1. k < e => <<k, e>> \in OpToRel(<, Nat)
            BY <4>1, <5>1 DEF OpToRel
          <6> QED
            BY <3>1, <6>1
        <5> QED
          BY <4>1, <5>1, <5>2
      <4> HIDE DEF ends
      <4> QED
        BY <4>2
    <3>3. PICK d : d = CHOOSE j \in ends : \A k \in ends : j <= k
      OBVIOUS
    <3>4. d \in ends /\ \A k \in ends : d <= k
      <4> HIDE DEF ends
      <4> QED
        BY <3>2, <3>3
    <3>5. d \in (i + 1)..L /\ ResultsIn(wire[d].blocks) = << >>
      BY <3>4
    <3>6. ASSUME NEW c1 \in Nat, i + c1 <= L, \A j \in 1..c1 : ResultsIn(wire[i + j].blocks) # << >>
          PROVE  i + c1 <= d - 1
      <4>1. CASE i + c1 < d
        BY <3>5, <4>1
      <4>2. CASE d <= i + c1
        <5>1. d - i \in 1..c1 /\ i + (d - i) = d
          BY <3>5, <4>2
        <5> QED
          BY <3>5, <3>6, <5>1
      <4> QED
        BY <3>5, <4>1, <4>2
    <3>7. (CHOOSE j \in ends : \A k \in ends : j <= k) - 1 = d - 1 /\ d - 1 \in Int
      BY <3>3, <3>5
    <3>8. i <= d - 1 /\ d - 1 <= L
      BY <1>1, <3>5
    <3>9. \A c1 \in Nat : (i + c1 <= L /\ \A j \in 1..c1 : ResultsIn(wire[i + j].blocks) # << >>)
            => i + c1 <= d - 1
      BY <3>6
    <3> HIDE DEF ends
    <3> QED
      BY <2>2, <3>7, <3>8, <3>9
  <2> QED
    BY <2>1, <2>2
<1>3. PICK ps : ps = [j \in 1..(last - i) |-> ResultsIn(wire[i + j].blocks)]
  OBVIOUS
<1>4. Following(i) = FlattenSeq(ps)
  <2>1. ends = {j \in (i + 1)..Len(wire) : ResultsIn(wire[j].blocks) = << >>}
    BY <1>1
  <2>2. last = IF ends = {} THEN Len(wire) ELSE (CHOOSE j \in ends : \A k \in ends : j <= k) - 1
    BY <1>2
  <2> HIDE DEF ends
  <2> QED
    BY <1>3, <2>1, <2>2 DEF Following
<1> HIDE DEF ends
<1>5. last \in Int /\ i <= last /\ last <= L
  BY <1>2
<1>6. PICK d \in Nat : d = last - i
  BY <1>5
<1>7. ps \in Seq(Seq(Block)) /\ Len(ps) = last - i
  <2>1. ASSUME NEW j \in 1..(last - i) PROVE ResultsIn(wire[i + j].blocks) \in Seq(Block)
    <3>1. wire[i + j] \in Msg
      BY <1>1, <1>2
    <3> QED
      BY <3>1, BlockFacts DEF Msg
  <2>2. last - i \in Nat
    BY <1>2
  <2> QED
    BY <1>3, <2>1, <2>2
<1>8. CASE i + c <= Len(wire) /\ \A j \in 1..c : ResultsIn(wire[i + j].blocks) # << >>
  <2>1. i + c <= last
    BY <1>1, <1>2, <1>8
  <2>2. c <= d
    BY <1>5, <1>6, <2>1
  <2>3. \A j \in 1..c : ps[j] # << >>
    <3> SUFFICES ASSUME NEW j \in 1..c PROVE ps[j] # << >>
      OBVIOUS
    <3>1. j \in 1..d
      BY <2>2
    <3> QED
      BY <1>3, <1>8, <1>6, <3>1
  <2> QED
    BY <1>4, <1>7, <1>6, <2>2, <2>3, FlattenLength
<1>9. CASE i < Len(wire) /\ c > 0 /\ Len(ResultsIn(wire[i + 1].blocks)) >= c
  <2>1. ResultsIn(wire[i + 1].blocks) # << >>
    BY <1>9
  <2>2. \A j \in 1..1 : ResultsIn(wire[i + j].blocks) # << >>
    BY <2>1
  <2>3. i + 1 <= last
    BY <1>1, <1>2, <1>9, <2>2
  <2>4. Len(ps) >= 1 /\ ps[1] = ResultsIn(wire[i + 1].blocks)
    <3>1. d >= 1
      BY <1>5, <1>6, <2>3
    <3>2. 1 \in 1..d
      BY <3>1
    <3>3. ps[1] = ResultsIn(wire[i + 1].blocks)
      BY <1>3, <1>6, <3>2
    <3> QED
      BY <1>7, <1>6, <3>1, <3>3
  <2> QED
    BY <1>4, <1>7, <1>9, <2>4, FlattenLength
<1> QED
  BY <1>8, <1>9 DEF Answered

LEMMA WellFormed == DialogInv => RequestsAreWellFormed
<1> SUFFICES ASSUME DialogInv, stage = "ask" PROVE RequestsAreWellFormed
  BY DEF RequestsAreWellFormed
<1>1. /\ wire \in Seq(Msg) /\ ran \in Seq(SaidBlock) /\ provider \in Providers
      /\ CallsOf(wire) = ran /\ ResultsOf(wire) = Answers
      /\ AllAnswered(wire, Len(wire)) /\ Last(wire).role \in {"user", "tool"}
      /\ (provider = "anthropic" => Spoken(wire) = BlocksOf(heard))
      /\ (provider = "gemini" => ~ declared.array)
  BY DEF DialogInv, DialogTypes, CallsOnTheWire, ResultsOnTheWire, AnswersInPlace, LastIsOurs, ThinkingKept
<1>2. CallsAreAnswered
  <2>1. PICK K \in Nat : K = Len(ran) /\ DOMAIN ran = 1..K
    BY <1>1
  <2>2. Answers = [k \in 1..K |-> [kind |-> "result", tag |-> TagOf(ran[k]), from |-> k]]
    BY <2>1 DEF Answers
  <2>3. Len(Answers) = K
    BY <2>2
  <2>4. ASSUME NEW i \in DOMAIN wire PROVE Len(Following(i)) >= Len(CallsIn(wire[i].blocks))
    <3>1. i \in 1..Len(wire) /\ wire[i] \in Msg
      BY <1>1
    <3>2. Len(CallsIn(wire[i].blocks)) \in Nat
      BY <3>1, BlockFacts DEF Msg
    <3>3. Answered(wire, i, Len(CallsIn(wire[i].blocks)))
      BY <1>1, <3>1 DEF AllAnswered
    <3> QED
      BY <1>1, <3>1, <3>2, <3>3, FollowingHasThem
  <2>5. ASSUME NEW k \in 1..K
        PROVE  Answers[k].from = k /\ Matches(ran[k], Answers[k])
    <3>1. Answers[k] = [kind |-> "result", tag |-> TagOf(ran[k]), from |-> k]
      BY <2>2
    <3>2. Answers[k].from = k /\ Answers[k].tag = TagOf(ran[k])
      BY <3>1
    <3>3. provider # "bedrock"
      <4>1. ran # << >>
        BY <1>1, <2>1
      <4> QED
        BY <4>1 DEF DialogInv, DialogTypes, CallsRun
    <3> QED
      BY <1>1, <3>2, <3>3 DEF Matches, TagOf, Providers
  <2> QED
    BY <1>1, <2>1, <2>3, <2>4, <2>5 DEF CallsAreAnswered
<1>3. ThinkingIsReplayed
  BY <1>1 DEF ThinkingIsReplayed, BlocksOf
<1> QED
  BY <1>1, <1>2, <1>3 DEF RequestsAreWellFormed

(* Whenever a request of an HTTP provider's loop goes out, the calls it    *)
(* carries are answered where the API looks for the answers: in order,     *)
(* each with what its own execution gave (anthropic.rs, openai.rs,         *)
(* gemini.rs and ollama.rs, after any number of turns and replies).        *)
THEOREM RequestsAnswerTheirCalls == DialogSpec => []RequestsAreWellFormed
<1>1. DialogInv => RequestsAreWellFormed
  BY WellFormed
<1> QED
  BY <1>1, DialogInvHolds, PTL

(* A call of the model is not lost with the reply that carries it: when a  *)
(* loop returns an answer that does not say it was cut short, every call   *)
(* it ever heard has been executed, in order.                              *)
THEOREM NoCallGoesMissing == DialogSpec => []NoCallIsLost
<1>1. DialogInv => NoCallIsLost
  BY DEF DialogInv
<1> QED
  BY <1>1, DialogInvHolds, PTL

=============================================================================
