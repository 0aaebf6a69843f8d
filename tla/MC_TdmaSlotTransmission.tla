----------------------- MODULE MC_TdmaSlotTransmission -----------------------
(* A short and a long packet; three short ones or one long one fit a slot.   *)
EXTENDS TdmaSlotTransmission

CONSTANTS short, long

TxTimes == [p \in Packet |-> IF p = short THEN 1 ELSE 3]
=============================================================================
