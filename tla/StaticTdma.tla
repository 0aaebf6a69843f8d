------------------------------ MODULE StaticTdma ------------------------------
(***************************************************************************)
(* Static TDMA (DynamicInterval = 0, node ids 0 .. TotalSlots - 1): the    *)
(* independent controllers together implement ContentionFreeMedium.        *)
(***************************************************************************)
EXTENDS TdmaControllerDynamic

\* The slot the controllers are in or wait for: the slot of one that has yet
\* to act at this instant, or of any when none is due.
CurrentSlot ==
  LET due == {n \in Node : timer[n] = 0}
  IN  slotNum[IF due # {} THEN CHOOSE n \in due : TRUE ELSE CHOOSE n \in Node : TRUE]

\* The station that acquires next: the node of the current slot until that
\* node has acted on it, the node of the slot after it from then on.
Turn ==
  IF slotNum[CurrentSlot] = CurrentSlot THEN CurrentSlot
  ELSE (CurrentSlot + 1) % TotalSlots

Holder ==
  IF \E n \in Node : Open(n) THEN CHOOSE n \in Node : Open(n) ELSE NoOwner

Static == INSTANCE ContentionFreeMedium
  WITH Stations <- TotalSlots, Nobody <- NoOwner, holder <- Holder, turn <- Turn

\* The windows the controllers open form a round-robin over the node ids that
\* never stops, although no controller knows what another one does.
ImplementsMedium == Static!FairMedium
=============================================================================
