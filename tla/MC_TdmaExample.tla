---------------------------- MODULE MC_TdmaExample ----------------------------
(* Three packets nine seconds apart take as long as ten of two seconds.      *)
EXTENDS TdmaExample

DrawnStarts == [s \in Scripts |-> IF s = "scratch" THEN {0, 63, 100} ELSE {50, 51}]
PacketIntervals == [s \in Scripts |-> IF s = "scratch" THEN 9 ELSE 12]

ASSUME InTime == SendersFinish
=============================================================================
