----------------------------- MODULE Pipelines ------------------------------
(***************************************************************************)
(* A pipeline run: the topology of kernex-pipelines (topology.rs) and the  *)
(* phase checkpoints of kernex-memory (store/checkpoints.rs).              *)
(*                                                                         *)
(* The repository loads topologies, groups their phases and stores         *)
(* checkpoints; a host executes the phases.  The host here does what the   *)
(* comment at the head of checkpoints.rs asks of it, dies at any moment    *)
(* and resumes the run under the same run_id.                              *)
(***************************************************************************)
EXTENDS Integers, Sequences, FiniteSets, SequencesExt

CONSTANTS
  Topologies,   \* sequences of phases: records [name, group, agent, fix, max]
  NoGroup,      \* parallel_group: None
  NoAgent,      \* retry: None
  Valid,        \* the names that validate_path_segment lets pass
  MaxRestarts   \* bound: resumptions of the run

(* Phases are told apart by their names alone in the store, which          *)
(* load_topology does not check: here every topology has distinct ones.    *)
ASSUME PipelineConstantsOK ==
  /\ MaxRestarts \in Nat
  /\ \A t \in Topologies : t \in Seq(Range(t))
  /\ \A t \in Topologies : \A i, j \in DOMAIN t : t[i].name = t[j].name => i = j

VARIABLES
  phases,    \* the topology
  files,     \* agents/: the agents that have a file
  agents,    \* LoadedTopology::agents, its keys
  stage,     \* the host: off, loaded, run, failed or done
  group,     \* the group being executed
  skip,      \* the phases that get_run_checkpoints showed completed
  work,      \* the state of each phase's execution in this host
  rows,      \* phase_checkpoints of the run: phase name -> row
  restarts   \* history

host == <<agents, stage, group, skip, work>>
vars == <<phases, files, host, rows, restarts>>

Names    == {phases[i].name : i \in DOMAIN phases}
Statuses == {"absent", "in_progress", "completed", "failed"}
NoRow    == [status |-> "absent", output |-> 0, attempt |-> 0]

-----------------------------------------------------------------------------
(* topology.rs                                                             *)

(* phase_groups: the positions of each group, phase by phase.              *)
JoinsAny(t, groups, i) == \* mutant: joins the last group whatever its name
  /\ groups # << >>
  /\ t[i].group # NoGroup
  /\ t[groups[Len(groups)][1]].group # NoGroup

Joins(t, groups, i) ==
  /\ groups # << >>
  /\ t[i].group # NoGroup
  /\ t[groups[Len(groups)][1]].group = t[i].group

Push(t, groups, i) ==
  IF Joins(t, groups, i) THEN [groups EXCEPT ![Len(groups)] = Append(@, i)]
                         ELSE Append(groups, <<i>>)

Grouped(t) ==
  LET grouped[n \in 0..Len(t)] == IF n = 0 THEN << >> ELSE Push(t, grouped[n - 1], n)
  IN  grouped

PhaseGroups == Grouped(phases)[Len(phases)]

(* The agents of the phases and those that repair them.                    *)
Required == {phases[i].agent : i \in DOMAIN phases}
            \cup ({phases[i].fix : i \in DOMAIN phases} \ {NoAgent})

(* load_topology: an agent that a phase names must have a valid name and a *)
(* file; other files of the directory are taken along if their name is     *)
(* valid.                                                                  *)
Loads == Required \subseteq Valid \cap files

Load ==
  /\ stage = "off"
  /\ Loads
  /\ agents' = files \cap Valid
  /\ stage' = "loaded"
  /\ UNCHANGED <<phases, files, group, skip, work, rows, restarts>>

-----------------------------------------------------------------------------
(* checkpoints.rs                                                          *)

UpsertPhaseCheckpoint(i, status, output, attempt) ==
  rows' = [rows EXCEPT ![phases[i].name] =
             [status |-> status, output |-> output, attempt |-> attempt]]

(* get_run_checkpoints, read as its comment says.                          *)
FinishedNone == {} \* mutant: reads the checkpoints of some other run

Finished == {n \in Names : rows[n].status = "completed"}

ClearRunCheckpoints == rows' = [n \in Names |-> NoRow]

-----------------------------------------------------------------------------
(* The host.                                                               *)
Idle == [i \in DOMAIN phases |-> "idle"]

Init ==
  /\ phases \in Topologies
  /\ files \in {Required \cup {"extra"}, Required \ {phases[1].agent}}
  /\ agents = {}
  /\ stage = "off"
  /\ group = 1
  /\ skip = {}
  /\ work = Idle
  /\ rows = [n \in Names |-> NoRow]
  /\ restarts = 0

(* Someone adds the file that was missing.                                 *)
AddFile ==
  /\ ~ Required \subseteq files
  /\ files' = files \cup Required
  /\ UNCHANGED <<phases, host, rows, restarts>>

Resume ==
  /\ stage = "loaded"
  /\ skip' = Finished
  /\ stage' = "run"
  /\ group' = 1
  /\ UNCHANGED <<phases, files, agents, work, rows, restarts>>

Members == Range(PhaseGroups[group])
ToDo    == {i \in Members : phases[i].name \notin skip}
Working == stage = "run" /\ group <= Len(PhaseGroups)

Begin(i) ==
  /\ Working
  /\ i \in ToDo /\ work[i] = "idle"
  /\ work' = [work EXCEPT ![i] = "running"]
  /\ UpsertPhaseCheckpoint(i, "in_progress", 0, rows[phases[i].name].attempt)
  /\ UNCHANGED <<phases, files, agents, stage, group, skip, restarts>>

Complete(i) ==
  /\ Working
  /\ i \in ToDo /\ work[i] = "running"
  /\ work' = [work EXCEPT ![i] = "completed"]
  /\ UpsertPhaseCheckpoint(i, "completed", i, rows[phases[i].name].attempt)
  /\ UNCHANGED <<phases, files, agents, stage, group, skip, restarts>>

(* A corrective loop tries again, up to RetryConfig::max times.            *)
Fail(i) ==
  /\ Working
  /\ i \in ToDo /\ work[i] = "running"
  /\ LET attempt == rows[phases[i].name].attempt IN
     IF attempt < phases[i].max
     THEN UpsertPhaseCheckpoint(i, "in_progress", 0, attempt + 1) /\ UNCHANGED work
     ELSE /\ UpsertPhaseCheckpoint(i, "failed", 0, attempt)
          /\ work' = [work EXCEPT ![i] = "failed"]
  /\ UNCHANGED <<phases, files, agents, stage, group, skip, restarts>>

(* The members of a group run in parallel and all settle.                  *)
NextGroup ==
  /\ Working
  /\ \A i \in ToDo : work[i] \in {"completed", "failed"}
  /\ IF \E i \in ToDo : work[i] = "failed"
     THEN stage' = "failed" /\ UNCHANGED group
     ELSE group' = group + 1 /\ UNCHANGED stage
  /\ UNCHANGED <<phases, files, agents, skip, work, rows, restarts>>

Finish ==
  /\ stage = "run"
  /\ group > Len(PhaseGroups)
  /\ ClearRunCheckpoints
  /\ stage' = "done"
  /\ UNCHANGED <<phases, files, agents, group, skip, work, restarts>>

(* The host dies, or is started once more after a failure.                 *)
Restart ==
  /\ stage \in {"loaded", "run", "failed"}
  /\ restarts < MaxRestarts
  /\ restarts' = restarts + 1
  /\ stage' = "off"
  /\ agents' = {}
  /\ skip' = {}
  /\ work' = Idle
  /\ group' = 1
  /\ UNCHANGED <<phases, files, rows>>

Next ==
  \/ Load \/ AddFile \/ Resume \/ NextGroup \/ Finish \/ Restart
  \/ \E i \in DOMAIN phases : Begin(i) \/ Complete(i) \/ Fail(i)

Spec == Init /\ [][Next]_vars

-----------------------------------------------------------------------------
(* A phase runs only when the phases before it are completed and their     *)
(* outputs are stored, except those that it shares an unbroken parallel    *)
(* group with; and its agent and the agent that repairs it are loaded.     *)
Parallel(j, i) == \A k \in j..i : phases[k].group = phases[i].group /\ phases[k].group # NoGroup

PhasesRunInTurn ==
  \A i \in DOMAIN phases : work[i] = "running" =>
    /\ \A j \in 1..(i - 1) :
         \/ Parallel(j, i)
         \/ rows[phases[j].name].status = "completed" /\ rows[phases[j].name].output = j
    /\ {phases[i].agent, phases[i].fix} \subseteq agents \cup {NoAgent}

(* What a phase has produced is neither lost nor produced again by a       *)
(* resumed run: its row changes only when the run has completed every      *)
(* phase and is cleared.                                                   *)
CompletedStays ==
  [][\A n \in Names : rows[n].status = "completed" /\ rows'[n] # rows[n] =>
       \A m \in Names : rows[m].status = "completed"]_vars
=============================================================================
