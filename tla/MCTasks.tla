------------------------------ MODULE MCTasks ------------------------------
(* Progress reports below, inside and above 0 .. 100 for the TLC run of Tasks. *)
EXTENDS Tasks

MCReports == {-5, 50, 120}
=============================================================================
