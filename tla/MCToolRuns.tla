------------------------------ MODULE MCToolRuns ------------------------------
(* A small workspace for ToolRuns: two Rust files and one other.           *)
EXTENDS ToolRuns

Files == {[dir |-> <<>>, ext |-> "rs"], [dir |-> <<"src">>, ext |-> "rs"], [dir |-> <<>>, ext |-> "md"]}

Globs == {[deep |-> d, ext |-> "rs"] : d \in BOOLEAN}   \* *.rs and **/*.rs
Root  == <<"/ws">>

Everything == {"bash", "toolbox", "grep", "glob", "read", "write", "edit", "web_fetch"}
TwoHosts   == [s1 |-> Everything, s2 |-> {"bash", "write", "edit"}]

=============================================================================
