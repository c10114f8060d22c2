---------------------------- MODULE MCRuntimeTurns ----------------------------
(* Instances of RuntimeTurns for TLC. *)
EXTENDS RuntimeTurns, TLC

SomeKeys == {"", "default", "web"}
Web      == {"web"}
AllModes == {"complete", "run", "stream"}
Unscoped == {NoProject}

Interchangeable == Permutations(Workers)
=============================================================================
