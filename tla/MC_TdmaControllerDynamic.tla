----------------------- MODULE MC_TdmaControllerDynamic -----------------------
(* Small instances of TdmaControllerDynamic for TLC.                         *)
EXTENDS TdmaControllerDynamic

\* Every other node hears every message: the channel loses nothing in range.
AllHear == [n \in Node |-> {Node \ {n}}]
=============================================================================
