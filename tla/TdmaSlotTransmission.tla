------------------------- MODULE TdmaSlotTransmission -------------------------
(***************************************************************************)
(* The transmit side of one ns3::TdmaCentralMac: packets are queued at any *)
(* time; in its slot the MAC looks at the head of the queue, waits for the *)
(* air time of that packet, and only then dequeues and sends.  What is     *)
(* dequeued need not be what was looked at.                                *)
(*                                                                         *)
(* The controller is the event that grants a slot once per frame.          *)
(***************************************************************************)
EXTENDS TdmaMacQueueOps

CONSTANTS
  TxTime,        \* TxTime[p]: air time of a packet (CalculateTxTime)
  SlotTime,      \* length of the granted slot
  FrameTime,     \* from one grant to the next
  MaxSize,       \* MaxPacketNumber
  MaxDelay,      \* MaxDelay of the queue
  NoSend         \* no SendPacketDown event is pending

ASSUME TimesArePositive ==
  /\ SlotTime \in Nat \ {0} /\ FrameTime \in Nat /\ FrameTime >= SlotTime
  /\ TxTime \in [Packet -> Nat \ {0}]
ASSUME NoSendIsNoEvent == NoSend \notin [left : Nat, remaining : Int, peeked : Packet]
ASSUME QueueLimits == MaxSize \in Nat /\ MaxDelay \in Nat \ {0}

VARIABLES
  q,         \* m_queue
  slotIn,    \* time to the next grant of the controller
  sendDown,  \* the pending SendPacketDown event
  used,      \* air time of the packets sent in this slot
  crashed    \* a null packet was handed to TdmaMacLow

vars == <<q, slotIn, sendDown, used, crashed>>

Init ==
  /\ q = EmptyQueue(MaxSize, MaxDelay)
  /\ slotIn = FrameTime
  /\ sendDown = NoSend
  /\ used = 0
  /\ crashed = FALSE

\* Mutants: not strict; a unit of time too strict.
FitsExactly(pkt, budget) == TxTime[pkt] <= budget
FitsWithMargin(pkt, budget) == TxTime[pkt] + 1 < budget

\* The strict comparison of StartTransmission.
FitsIn(pkt, budget) == TxTime[pkt] < budget

\* Mutant: the packet is not charged to the slot.
StartTransmissionUncharged(queue, budget) ==
  /\ q' = Cleanup(queue)
  /\ sendDown' =
       IF ~IsEmpty(queue) /\ FitsIn(Front(queue).pkt, budget)
       THEN [left |-> TxTime[Front(queue).pkt], remaining |-> budget,
             peeked |-> Front(queue).pkt]
       ELSE NoSend

\* StartTransmission on a given queue with a given budget.
StartTransmission(queue, budget) ==
  /\ q' = Cleanup(queue)
  /\ sendDown' =
       IF ~IsEmpty(queue) /\ FitsIn(Front(queue).pkt, budget)
       THEN [left |-> TxTime[Front(queue).pkt],
             remaining |-> budget - TxTime[Front(queue).pkt],
             peeked |-> Front(queue).pkt]
       ELSE NoSend

\* The controller grants the slot.
GrantSlot ==
  /\ ~crashed
  /\ slotIn = 0
  /\ slotIn' = FrameTime
  /\ used' = 0
  /\ StartTransmission(q, SlotTime)
  /\ UNCHANGED crashed

\* The event comes when the air time of the packet that was looked at is over.
SendPacketDown ==
  /\ ~crashed
  /\ sendDown # NoSend /\ sendDown.left = 0
  /\ IF IsEmpty(q)
     THEN /\ crashed' = TRUE
          /\ q' = Cleanup(q) /\ sendDown' = NoSend /\ UNCHANGED used
     ELSE /\ used' = used + TxTime[Front(q).pkt]
          /\ StartTransmission(Dequeue(q), sendDown.remaining)
          /\ UNCHANGED crashed
  /\ UNCHANGED slotIn

\* Queue: any of the three ways a packet enters the MAC.
QueuePacket(pkt) ==
  /\ ~crashed
  /\ q' = Enqueue(q, pkt)
  /\ UNCHANGED <<slotIn, sendDown, used, crashed>>

Tick ==
  /\ ~crashed
  /\ slotIn > 0
  /\ sendDown # NoSend => sendDown.left > 0
  /\ slotIn' = slotIn - 1
  /\ sendDown' = IF sendDown = NoSend THEN NoSend ELSE [sendDown EXCEPT !.left = @ - 1]
  /\ q' = Grow(q, 1, MaxDelay)
  /\ UNCHANGED <<used, crashed>>

Next ==
  \/ GrantSlot \/ SendPacketDown \/ Tick
  \/ \E pkt \in Packet : QueuePacket(pkt)

\* The simulator executes every event; arrivals are not owed to anyone.
Fairness == WF_vars(GrantSlot \/ SendPacketDown \/ Tick)

Spec == Init /\ [][Next]_vars
FairSpec == Spec /\ Fairness

-----------------------------------------------------------------------------
(* Properties *)

\* What is left of the slot that was granted last.
SlotLeft == SlotTime - (FrameTime - slotIn)

\* A send is always due before the slot ends, with the budget it was given
\* left over: the chain StartTransmission - SendPacketDown never leaves the slot.
SendsInsideSlot ==
  sendDown # NoSend =>
    /\ sendDown.left < SlotLeft
    /\ sendDown.left + sendDown.remaining = SlotLeft

\* The packets sent in a slot together fit into the slot, as long as none of
\* them grows too old between the look at the queue and the send.
WithinSlot == used < SlotTime

\* The packet that is sent is the packet whose air time was waited for.
SendsWhatItPeeked ==
  [][sendDown # NoSend /\ sendDown.left = 0 /\ SendPacketDown =>
       used' = used + TxTime[sendDown.peeked]]_vars

\* A queue with a packet in it is served: a send will follow.
QueueIsServed == (q.items # <<>>) ~> (sendDown # NoSend)
=============================================================================
