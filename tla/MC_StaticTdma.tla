---------------------------- MODULE MC_StaticTdma ----------------------------
(* Five nodes without reservations: only the static frame is ever run.      *)
EXTENDS StaticTdma

AllHear == [n \in Node |-> {Node \ {n}}]
=============================================================================
