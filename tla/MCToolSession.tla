---------------------------- MODULE MCToolSession ----------------------------
(* Instances of ToolSession for TLC. *)
EXTENDS ToolSession

SomeCosts == {[fresh |-> 1, cached |-> 1]}
SomeBudgets == {NoBudget, 1, 2}
=============================================================================
