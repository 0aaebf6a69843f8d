------------------------------ MODULE MC_MyApps ------------------------------
(* Three nodes that all hear each other: every packet comes along two paths. *)
EXTENDS MyApps

AllHear == [n \in Node |-> Node \ {n}]
=============================================================================
