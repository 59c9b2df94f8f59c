---------------------------- MODULE MCDashboard ----------------------------
(* Two accounts log in one after the other, each with one document at most. *)
EXTENDS Dashboard
AccountOf(t) == IF t = 1 THEN "a" ELSE "b"
=============================================================================
