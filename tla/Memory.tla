--------------------------------- MODULE Memory ---------------------------------
(***************************************************************************)
(* kernex-memory as a whole behind an open store: the tables with the      *)
(* consolidator at work on them (Consolidator), what build_context keeps   *)
(* about a sender (Profile), and the making of tasks (TaskCreation).  The  *)
(* facts that Profile counts and the tasks are no business of the          *)
(* consolidator, which deletes messages and outcomes and writes one fact   *)
(* of its own, so a behaviour is about one of the three: "profile" and     *)
(* "tasks" are two more of the areas of MemoryTables.                      *)
(***************************************************************************)
EXTENDS Consolidator, Profile, TaskCreation

(* Where no step is about the sender, one sender is enough, and where none *)
(* is about tasks, one plan.                                               *)
MemoryInit ==
  /\ Init /\ ProfileInit /\ TasksInit
  /\ "profile" \in area \/ real = 0
  /\ "tasks" \in area \/ plan = CHOOSE p \in Plans : TRUE

Upkeep ==
  /\ {"profile", "tasks"} \cap area = {}
  /\ Next
  /\ UNCHANGED <<profileVars, taskVars>>

SenderStep == "profile" \in area /\ ProfileNext /\ UNCHANGED <<vars, taskVars>>

TaskStep == "tasks" \in area /\ TasksNext /\ UNCHANGED <<vars, profileVars>>

MemoryNext == Upkeep \/ SenderStep \/ TaskStep

memoryVars == <<vars, profileVars, taskVars>>

(* A task that was started runs; select! picks its branches at random, so  *)
(* a loop that is signalled takes that branch in the end.                  *)
MemorySpec ==
  /\ MemoryInit /\ [][MemoryNext]_memoryVars
  /\ \A c \in Callers : WF_memoryVars(Run(c) /\ UNCHANGED <<profileVars, taskVars>>)
  /\ SF_memoryVars(ExitLoop(Loop) /\ UNCHANGED <<profileVars, taskVars>>)
=============================================================================
