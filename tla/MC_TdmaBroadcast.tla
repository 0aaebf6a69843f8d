--------------------------- MODULE MC_TdmaBroadcast ---------------------------
(* Three nodes that hear each other, but for 3, which hears 1 from time to   *)
(* time only: a packet of 1 comes to 3 directly, by the detour over 2, or    *)
(* both ways.                                                                *)
EXTENDS TdmaBroadcast

Near == [n \in Node |-> IF n = 1 THEN {{2}, {2, 3}} ELSE {Node \ {n}}]

\* Entries in the table of 3 time out before it hears the next frame, those of the
\* others never do.
OneForgets == [n \in Node |-> IF n = 3 THEN {Node} ELSE {{}}]
=============================================================================
