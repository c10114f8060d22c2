------------------------------- MODULE MCMemory -------------------------------
(* The values of Memory for TLC.                                           *)
EXTENDS Memory

(* Nothing reads both lessons and notes, and the consolidator reads neither.*)
Separately == {{"turns"}, {"outcomes"}, {"lessons"}, {"notes"}, {"profile"}, {"tasks"}}

(* A new sender, and one who has been told of everything but tasks.        *)
FirstAndLater == {[facts |-> 0, stage |-> 0], [facts |-> 4, stage |-> 2]}

(* Day 5 is a Friday.  Two descriptions share half of their words, and one *)
(* is too short to be compared.                                            *)
MCWords ==
  [standup |-> {"standup"}, bank |-> {"call", "bank", "loan"}, loan |-> {"ask", "bank", "about", "loan"}]

At20(day, slot, iso) == [day |-> day, slot |-> slot, iso |-> iso]

MCRequests ==
  {[text |-> "standup", repeat |-> "weekdays", due |-> At20(5, 0, TRUE)],
   [text |-> "standup", repeat |-> "weekdays", due |-> At20(5, 0, FALSE)],
   [text |-> "bank",    repeat |-> "once",     due |-> At20(5, 1, FALSE)],
   [text |-> "loan",    repeat |-> "weekdays", due |-> At20(5, 2, FALSE)]}

(* Two callers create two tasks, which nobody runs, or two pollers work on *)
(* the task of one.                                                        *)
MCPlans ==
  {[rows |-> 2, creators |-> Creators, runners |-> {}],
   [rows |-> 1, creators |-> {"caller1"}, runners |-> Runners]}
=============================================================================
