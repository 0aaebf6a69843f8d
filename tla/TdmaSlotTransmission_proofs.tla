---------------------- MODULE TdmaSlotTransmission_proofs ----------------------
(***************************************************************************)
(* Proofs about what a MAC sends in its slot, for any packets, slot and    *)
(* frame lengths, and any arrivals.                                        *)
(***************************************************************************)
EXTENDS TdmaSlotTransmission, TdmaMacQueue_proofs

Sends == [left : Nat, remaining : Nat \ {0}, peeked : Packet]

\* A pending send has been given exactly the time that is left of the slot.
SlotInv ==
  /\ q \in Sound(Packet) /\ q.maxSize = MaxSize /\ q.maxDelay = MaxDelay
  /\ slotIn \in 0 .. FrameTime
  /\ sendDown # NoSend =>
       sendDown \in Sends /\ sendDown.left + sendDown.remaining = SlotLeft

\* Every packet fits a slot, and a packet at the end of a full queue is not too
\* old when its turn comes, if each slot sends one packet at least.
Drains ==
  /\ \A pkt \in Packet : TxTime[pkt] < SlotTime
  /\ MaxSize * FrameTime + SlotTime <= MaxDelay

\* The age that item i may have: the full queue ahead of it takes a frame each,
\* less the places it has moved up; and one frame more while a send is pending.
AgeLimit(i) ==
  MaxSize * FrameTime + (IF sendDown = NoSend THEN 0 ELSE FrameTime)
    - (i - 1) * FrameTime - slotIn

\* The queue drains: what was looked at is what is sent, and the slot pays for it.
DrainInv ==
  /\ SlotInv
  /\ \A i \in 1 .. Len(q.items) : q.items[i].age <= AgeLimit(i)
  /\ sendDown # NoSend =>
       /\ q.items # <<>> /\ sendDown.peeked = q.items[1].pkt
       /\ used + TxTime[sendDown.peeked] + sendDown.remaining = SlotTime
  /\ used \in Nat /\ used < SlotTime
  /\ ~crashed

-----------------------------------------------------------------------------
(* Sends stay in the slot *)

\* Cleanup of a sound queue, in short.
LEMMA Cleaned ==
  ASSUME NEW queue \in Sound(Packet)
  PROVE  /\ Cleanup(queue) \in Sound(Packet)
         /\ Stale(Cleanup(queue), 0)
         /\ Cleanup(queue).maxSize = queue.maxSize
         /\ Cleanup(queue).maxDelay = queue.maxDelay
<1>1. /\ Cleanup(queue) \in Queues(Packet) /\ Sorted(Cleanup(queue).items)
      /\ Stale(Cleanup(queue), 0)
      /\ Cleanup(queue).size = Len(Cleanup(queue).items)
      /\ Cleanup(queue).size <= queue.maxSize
      /\ Cleanup(queue).maxSize = queue.maxSize /\ Cleanup(queue).maxDelay = queue.maxDelay
  BY CleanupSound
<1> QED BY <1>1 DEF Sound

\* A sound queue that accepts a packet stays sound.
LEMMA Enqueued ==
  ASSUME NEW queue \in Sound(Packet), NEW pkt \in Packet, Accepts(queue)
  PROVE  /\ Enqueue(queue, pkt) \in Sound(Packet)
         /\ Enqueue(queue, pkt).maxSize = queue.maxSize
         /\ Enqueue(queue, pkt).maxDelay = queue.maxDelay
<1>1. /\ Enqueue(queue, pkt) \in Queues(Packet) /\ Sorted(Enqueue(queue, pkt).items)
      /\ Enqueue(queue, pkt).size = Len(Enqueue(queue, pkt).items)
      /\ Enqueue(queue, pkt).size <= queue.maxSize
      /\ Enqueue(queue, pkt).maxSize = queue.maxSize
      /\ Enqueue(queue, pkt).maxDelay = queue.maxDelay
  BY EnqueueSound
<1> QED BY <1>1 DEF Sound

\* The packet at the front of a queue is a packet.
LEMMA FrontIsPacket ==
  ASSUME NEW queue \in Sound(Packet), ~IsEmpty(queue)
  PROVE  /\ Front(queue).pkt \in Packet
         /\ Front(queue) = Cleanup(queue).items[1]
         /\ Len(Cleanup(queue).items) \in Nat \ {0}
<1> DEFINE items == Cleanup(queue).items
<1>1. items \in Seq(Items(Packet)) /\ items # <<>>
  BY CleanupSound DEF IsEmpty, Queues
<1>2. Len(items) \in Nat \ {0} /\ Head(items) \in Items(Packet) /\ Head(items) = items[1]
  BY <1>1, EmptySeq, HeadTailProperties
<1> QED BY <1>2 DEF Front, Items

\* What StartTransmission schedules fits into the budget it is given.
LEMMA StartsInside ==
  ASSUME NEW queue \in Sound(Packet), NEW budget \in Int, StartTransmission(queue, budget)
  PROVE  /\ q' \in Sound(Packet) /\ q'.maxSize = queue.maxSize /\ q'.maxDelay = queue.maxDelay
         /\ q' = Cleanup(queue)
         /\ sendDown' # NoSend =>
              /\ ~IsEmpty(queue)
              /\ sendDown' \in Sends
              /\ sendDown'.left = TxTime[Front(queue).pkt]
              /\ sendDown'.peeked = Front(queue).pkt
              /\ sendDown'.left + sendDown'.remaining = budget
<1>1. q' = Cleanup(queue)
  BY DEF StartTransmission
<1>2. q' \in Sound(Packet) /\ q'.maxSize = queue.maxSize /\ q'.maxDelay = queue.maxDelay
  BY <1>1, Cleaned
<1>3. ASSUME sendDown' # NoSend
      PROVE  /\ ~IsEmpty(queue)
             /\ sendDown' \in Sends
             /\ sendDown'.left = TxTime[Front(queue).pkt]
             /\ sendDown'.peeked = Front(queue).pkt
             /\ sendDown'.left + sendDown'.remaining = budget
  <2> DEFINE pkt == Front(queue).pkt
  <2>1. /\ ~IsEmpty(queue) /\ FitsIn(pkt, budget)
        /\ sendDown' = [left |-> TxTime[pkt], remaining |-> budget - TxTime[pkt], peeked |-> pkt]
    BY <1>3 DEF StartTransmission
  <2>2. pkt \in Packet
    BY <2>1, FrontIsPacket
  <2> HIDE DEF pkt
  <2>3. TxTime[pkt] \in Nat \ {0} /\ TxTime[pkt] < budget
    BY <2>1, <2>2, TimesArePositive DEF FitsIn
  <2>4. budget - TxTime[pkt] \in Nat \ {0}
    BY <2>3
  <2>5. sendDown'.left + sendDown'.remaining = budget
    BY <2>1, <2>3
  <2> QED BY <2>1, <2>2, <2>3, <2>4, <2>5 DEF Sends, pkt
<1> QED BY <1>1, <1>2, <1>3

LEMMA InitSlotInv == Init => SlotInv
<1> SUFFICES ASSUME Init PROVE SlotInv
  OBVIOUS
<1>1. q = [items |-> <<>>, size |-> 0, maxSize |-> MaxSize, maxDelay |-> MaxDelay]
  BY DEF Init, EmptyQueue
<1>2. <<>> \in Seq(Items(Packet)) /\ Len(<<>>) = 0
  BY EmptySeq
<1>3. MaxSize \in Nat /\ MaxDelay \in Nat
  BY QueueLimits
<1>4. q \in Queues(Packet)
  BY <1>1, <1>2, <1>3 DEF Queues
<1>5. Sorted(q.items)
  BY <1>1, <1>2 DEF Sorted
<1>6. q \in Sound(Packet) /\ q.maxSize = MaxSize /\ q.maxDelay = MaxDelay
  BY <1>1, <1>2, <1>3, <1>4, <1>5 DEF Sound
<1>7. slotIn \in 0 .. FrameTime /\ sendDown = NoSend
  BY TimesArePositive DEF Init
<1> QED BY <1>6, <1>7 DEF SlotInv

LEMMA NextSlotInv == SlotInv /\ [Next]_vars => SlotInv'
<1> SUFFICES ASSUME SlotInv, [Next]_vars PROVE SlotInv'
  OBVIOUS
<1> USE TimesArePositive
<1>1. CASE GrantSlot
  <2>1. StartTransmission(q, SlotTime) /\ slotIn' = FrameTime
    BY <1>1 DEF GrantSlot
  <2>2. /\ q' \in Sound(Packet) /\ q'.maxSize = q.maxSize /\ q'.maxDelay = q.maxDelay
        /\ sendDown' # NoSend =>
             sendDown' \in Sends /\ sendDown'.left + sendDown'.remaining = SlotTime
    BY <2>1, StartsInside DEF SlotInv
  <2>3. SlotLeft' = SlotTime /\ slotIn' \in 0 .. FrameTime
    BY <2>1 DEF SlotLeft
  <2> QED BY <2>2, <2>3 DEF SlotInv
<1>2. CASE SendPacketDown
  <2>1. /\ sendDown # NoSend /\ sendDown.left = 0 /\ slotIn' = slotIn
        /\ sendDown \in Sends /\ sendDown.left + sendDown.remaining = SlotLeft
    BY <1>2 DEF SendPacketDown, SlotInv
  <2>2. sendDown.remaining \in Int /\ sendDown.remaining = SlotLeft /\ SlotLeft' = SlotLeft
    BY <2>1 DEF Sends, SlotLeft
  <2>3. CASE IsEmpty(q)
    <3>1. q' = Cleanup(q) /\ sendDown' = NoSend
      BY <1>2, <2>3 DEF SendPacketDown
    <3> QED BY <2>1, <3>1, Cleaned DEF SlotInv
  <2>4. CASE ~IsEmpty(q)
    <3>1. StartTransmission(Dequeue(q), sendDown.remaining)
      BY <1>2, <2>4 DEF SendPacketDown
    <3>2. /\ Dequeue(q) \in Sound(Packet)
          /\ Dequeue(q).maxSize = q.maxSize /\ Dequeue(q).maxDelay = q.maxDelay
      BY <2>4, DequeueSound DEF SlotInv, Sound
    <3>3. /\ q' \in Sound(Packet) /\ q'.maxSize = q.maxSize /\ q'.maxDelay = q.maxDelay
          /\ sendDown' # NoSend =>
               /\ sendDown' \in Sends
               /\ sendDown'.left + sendDown'.remaining = sendDown.remaining
      BY <2>2, <3>1, <3>2, StartsInside
    <3> QED BY <2>1, <2>2, <3>3 DEF SlotInv
  <2> QED BY <2>3, <2>4
<1>3. CASE \E pkt \in Packet : QueuePacket(pkt)
  <2>1. PICK pkt \in Packet : q' = Enqueue(q, pkt) /\ UNCHANGED <<slotIn, sendDown>>
    BY <1>3 DEF QueuePacket
  <2>2. q' \in Sound(Packet) /\ q'.maxSize = q.maxSize /\ q'.maxDelay = q.maxDelay
    <3>1. CASE Accepts(q)
      BY <2>1, <3>1, Enqueued DEF SlotInv
    <3>2. CASE ~Accepts(q)
      BY <2>1, <3>2, Cleaned DEF Enqueue, SlotInv
    <3> QED BY <3>1, <3>2
  <2> QED BY <2>1, <2>2 DEF SlotInv, SlotLeft
<1>4. CASE Tick
  <2>1. /\ slotIn > 0 /\ slotIn' = slotIn - 1 /\ q' = Grow(q, 1, MaxDelay)
        /\ sendDown # NoSend => sendDown.left > 0
        /\ sendDown' = IF sendDown = NoSend THEN NoSend ELSE [sendDown EXCEPT !.left = @ - 1]
    BY <1>4 DEF Tick
  <2>2. q' \in Sound(Packet) /\ q'.maxSize = q.maxSize /\ q'.maxDelay = q.maxDelay
    <3>1. PICK k \in Nat : Stale(q, k)
      BY StaleExists DEF SlotInv, Sound
    <3>2. MaxDelay \in Nat /\ q.maxDelay <= MaxDelay
      BY QueueLimits DEF SlotInv
    <3>3. q \in Queues(Packet) /\ Sorted(q.items) /\ q.size = Len(q.items) /\ q.size <= q.maxSize
      BY DEF SlotInv, Sound
    <3>4. /\ q' \in Queues(Packet) /\ Sorted(q'.items) /\ Len(q'.items) = Len(q.items)
          /\ q'.size = q.size /\ q'.maxSize = q.maxSize /\ q'.maxDelay = q.maxDelay
      <4>1. 1 \in Nat
        OBVIOUS
      <4> DEFINE grown == Grow(q, 1, MaxDelay)
      <4>2. /\ grown \in Queues(Packet) /\ Sorted(grown.items) /\ Len(grown.items) = Len(q.items)
            /\ grown.size = q.size /\ grown.maxSize = q.maxSize /\ grown.maxDelay = q.maxDelay
        BY <3>1, <3>2, <3>3, <4>1, GrowResult
      <4> QED BY <2>1, <4>2
    <3> QED BY <3>3, <3>4 DEF Sound
  <2>3. slotIn' \in 0 .. FrameTime /\ SlotLeft' = SlotLeft - 1
    BY <2>1 DEF SlotInv, SlotLeft
  <2>4. ASSUME sendDown' # NoSend
        PROVE  sendDown' \in Sends /\ sendDown'.left + sendDown'.remaining = SlotLeft'
    <3>1. sendDown # NoSend /\ sendDown' = [sendDown EXCEPT !.left = sendDown.left - 1]
      BY <2>1, <2>4
    <3>2. sendDown \in Sends /\ sendDown.left > 0 /\ sendDown.left + sendDown.remaining = SlotLeft
      BY <2>1, <3>1 DEF SlotInv
    <3>3. sendDown.left \in Nat /\ sendDown.remaining \in Nat /\ sendDown.left - 1 \in Nat
      BY <3>2 DEF Sends
    <3>4. /\ sendDown'.left = sendDown.left - 1 /\ sendDown'.remaining = sendDown.remaining
          /\ sendDown' \in Sends
      BY <3>1, <3>2, <3>3 DEF Sends
    <3> QED BY <2>3, <3>2, <3>3, <3>4
  <2> QED BY <2>2, <2>3, <2>4 DEF SlotInv
<1>5. CASE UNCHANGED vars
  BY <1>5 DEF vars, SlotInv, SlotLeft
<1> QED BY <1>1, <1>2, <1>3, <1>4, <1>5 DEF Next

\* The chain of StartTransmission and SendPacketDown never leaves the slot that
\* was granted, whatever is queued in between.
THEOREM SendsStayInside == Spec => []SendsInsideSlot
<1>1. SlotInv => SendsInsideSlot
  <2> SUFFICES ASSUME SlotInv, sendDown # NoSend
               PROVE  /\ sendDown.left < SlotLeft
                      /\ sendDown.left + sendDown.remaining = SlotLeft
    BY DEF SendsInsideSlot
  <2>1. sendDown \in Sends /\ sendDown.left + sendDown.remaining = SlotLeft
    BY DEF SlotInv
  <2>2. sendDown.left \in Nat /\ sendDown.remaining \in Nat \ {0}
    BY <2>1 DEF Sends
  <2> QED BY <2>1, <2>2
<1> QED BY <1>1, InitSlotInv, NextSlotInv, PTL DEF Spec

-----------------------------------------------------------------------------
(* The queue drains *)

\* The multiples of the frame length.
LEMMA Multiples ==
  ASSUME NEW f \in Nat
  PROVE  /\ \A i \in Nat : i * f \in Nat /\ (i + 1) * f = i * f + f
         /\ \A i, j \in Nat : i <= j => i * f <= j * f
<1>1. \A i \in Nat : i * f \in Nat /\ (i + 1) * f = i * f + f
  OBVIOUS
<1>2. ASSUME NEW i \in Nat, NEW j \in Nat, i <= j
      PROVE  i * f <= j * f
  <2>1. PICK d \in Nat : j = i + d
    <3>1. j - i \in Nat /\ j = i + (j - i)
      BY <1>2
    <3> QED BY <3>1
  <2>2. d * f \in Nat /\ j * f = i * f + d * f /\ i * f \in Nat
    BY <2>1
  <2> QED BY <2>2
<1> QED BY <1>1, <1>2

\* No packet has stayed too long, so that Cleanup finds nothing to erase.
LEMMA NothingStale ==
  ASSUME Drains, DrainInv
  PROVE  /\ Stale(q, 0) /\ FreshItems(q) = q.items /\ Cleanup(q) = q
         /\ IsEmpty(q) <=> q.items = <<>>
         /\ Front(q) = Head(q.items)
<1> USE TimesArePositive, QueueLimits
<1>1. /\ q \in Queues(Packet) /\ q.maxDelay = MaxDelay /\ slotIn \in 0 .. FrameTime
      /\ q.size = Len(q.items)
      /\ sendDown # NoSend =>
           sendDown \in Sends /\ sendDown.left + sendDown.remaining = SlotLeft
  BY DEF DrainInv, SlotInv, Sound
<1>2. q.items \in Seq(Items(Packet)) /\ Len(q.items) \in Nat
  BY <1>1, LenProperties DEF Queues
<1>3. sendDown # NoSend => FrameTime - slotIn < SlotTime
  <2>1. SUFFICES ASSUME sendDown # NoSend PROVE FrameTime - slotIn < SlotTime
    OBVIOUS
  <2>2. sendDown.left \in Nat /\ sendDown.remaining \in Nat \ {0}
    BY <1>1, <2>1 DEF Sends
  <2> QED BY <1>1, <2>1, <2>2 DEF SlotLeft
<1>4. ASSUME NEW i \in 1 .. Len(q.items)
      PROVE  q.items[i].age < MaxDelay
  <2>1. q.items[i].age <= AgeLimit(i) /\ q.items[i].age \in Nat
    <3>1. q.items[i] \in Items(Packet)
      BY <1>2, ElementOfSeq
    <3> QED BY <3>1 DEF DrainInv, Items
  <2> DEFINE ahead == (i - 1) * FrameTime
             full == MaxSize * FrameTime
  <2>2. ahead \in Nat /\ full \in Nat
    <3>1. i - 1 \in Nat
      BY <1>2
    <3> QED BY <3>1, Multiples
  <2>3. /\ q.items[i].age <= full + (IF sendDown = NoSend THEN 0 ELSE FrameTime) - ahead - slotIn
        /\ full + SlotTime <= MaxDelay
    BY <2>1 DEF AgeLimit, Drains
  <2> HIDE DEF ahead, full
  <2> QED BY <1>1, <1>3, <2>1, <2>2, <2>3
<1>5. Stale(q, 0)
  BY <1>1, <1>2, <1>4 DEF Stale, IsFresh
<1>6. FreshItems(q) = q.items /\ Expired(q) = 0
  BY <1>1, <1>5, AllFresh
<1>7. Cleanup(q) = q
  <2> DEFINE items == q.items
  <2>1. Cleanup(q) = [q EXCEPT !.items = items, !.size = q.size - 0]
    BY <1>6 DEF Cleanup
  <2>2. q.size - 0 = q.size
    BY <1>1, <1>2
  <2>3. Cleanup(q) = [q EXCEPT !.items = q.items, !.size = q.size]
    BY <2>1, <2>2
  <2> QED BY <1>1, <2>3 DEF Queues
<1> QED BY <1>5, <1>6, <1>7 DEF IsEmpty, Front

\* A packet that fits the slot is always taken up.
LEMMA AlwaysStarts ==
  ASSUME NEW queue \in Sound(Packet), NEW budget \in Int, StartTransmission(queue, budget),
         ~IsEmpty(queue), FitsIn(Front(queue).pkt, budget)
  PROVE  sendDown' # NoSend
<1> DEFINE pkt == Front(queue).pkt
<1>1. sendDown' = [left |-> TxTime[pkt], remaining |-> budget - TxTime[pkt], peeked |-> pkt]
  BY DEF StartTransmission
<1>2. pkt \in Packet
  BY FrontIsPacket
<1> HIDE DEF pkt
<1>3. TxTime[pkt] \in Nat /\ budget - TxTime[pkt] \in Int
  BY <1>2, TimesArePositive
<1> QED BY <1>1, <1>2, <1>3, NoSendIsNoEvent

LEMMA InitDrainInv == Init => DrainInv
<1> SUFFICES ASSUME Init PROVE DrainInv
  OBVIOUS
<1>1. q.items = <<>> /\ Len(q.items) = 0
  BY EmptySeq DEF Init, EmptyQueue
<1>2. SlotInv
  BY InitSlotInv
<1> QED BY <1>1, <1>2, TimesArePositive DEF DrainInv, Init

LEMMA NextDrainInv == Drains /\ DrainInv /\ [Next]_vars => DrainInv'
<1> SUFFICES ASSUME Drains, DrainInv, [Next]_vars PROVE DrainInv'
  OBVIOUS
<1> USE TimesArePositive, QueueLimits
<1>1. SlotInv /\ SlotInv'
  BY NextSlotInv DEF DrainInv
<1>2. /\ q \in Sound(Packet) /\ q \in Queues(Packet) /\ q.items \in Seq(Items(Packet))
      /\ q.maxDelay = MaxDelay /\ q.maxSize = MaxSize /\ slotIn \in 0 .. FrameTime
      /\ Len(q.items) \in Nat /\ \A i \in 1 .. Len(q.items) : q.items[i].age \in Nat
      /\ used \in Nat
  <2>1. q \in Sound(Packet) /\ q \in Queues(Packet) /\ q.items \in Seq(Items(Packet))
    BY <1>1 DEF SlotInv, Sound, Queues
  <2>2. Len(q.items) \in Nat /\ \A i \in 1 .. Len(q.items) : q.items[i] \in Items(Packet)
    BY <2>1, LenProperties, ElementOfSeq
  <2> QED BY <1>1, <2>1, <2>2 DEF SlotInv, DrainInv, Items
<1>3. /\ Stale(q, 0) /\ FreshItems(q) = q.items /\ Cleanup(q) = q
      /\ IsEmpty(q) <=> q.items = <<>>
      /\ Front(q) = Head(q.items)
  BY NothingStale
<1>4. q.items # <<>> => Head(q.items) = q.items[1] /\ Head(q.items).pkt \in Packet
  BY <1>2, <1>3, FrontIsPacket
<1>5. CASE GrantSlot
  <2>1. /\ StartTransmission(q, SlotTime) /\ slotIn = 0 /\ slotIn' = FrameTime
        /\ used' = 0 /\ ~crashed' /\ q' = q
    BY <1>3, <1>5 DEF GrantSlot, StartTransmission
  <2>2. sendDown = NoSend
    <3>1. SUFFICES ASSUME sendDown # NoSend PROVE FALSE
      OBVIOUS
    <3>2. sendDown.left \in Nat /\ sendDown.remaining \in Nat \ {0}
          /\ sendDown.left + sendDown.remaining = SlotLeft
      BY <1>1, <3>1 DEF SlotInv, Sends
    <3> QED BY <2>1, <3>2 DEF SlotLeft
  <2>3. sendDown' # NoSend =>
          /\ q.items # <<>> /\ sendDown' \in Sends
          /\ sendDown'.left = TxTime[sendDown'.peeked] /\ sendDown'.peeked = q.items[1].pkt
          /\ sendDown'.left + sendDown'.remaining = SlotTime
    BY <1>2, <1>3, <1>4, <2>1, StartsInside
  <2>4. q.items # <<>> => sendDown' # NoSend
    <3>1. q.items # <<>> => FitsIn(Front(q).pkt, SlotTime)
      BY <1>3, <1>4 DEF FitsIn, Drains
    <3> QED BY <1>2, <1>3, <2>1, <3>1, AlwaysStarts
  <2>5. ASSUME NEW i \in 1 .. Len(q'.items)
        PROVE  q'.items[i].age <= AgeLimit(i)'
    <3> DEFINE ahead == (i - 1) * FrameTime
               full == MaxSize * FrameTime
    <3>1. ahead \in Nat /\ full \in Nat
      <4>1. i - 1 \in Nat
        BY <1>2, <2>1
      <4> QED BY <4>1, Multiples
    <3>2. q.items # <<>>
      BY <1>2, <2>1
    <3>3. q.items[i].age <= full + 0 - ahead - 0
      BY <2>1, <2>2 DEF DrainInv, AgeLimit
    <3>4. AgeLimit(i)' = full + FrameTime - ahead - FrameTime
      BY <2>1, <2>4, <3>2 DEF AgeLimit
    <3> HIDE DEF ahead, full
    <3> QED BY <1>2, <2>1, <3>1, <3>3, <3>4
  <2>6. sendDown' # NoSend =>
          /\ q'.items # <<>> /\ sendDown'.peeked = q'.items[1].pkt
          /\ used' + TxTime[sendDown'.peeked] + sendDown'.remaining = SlotTime
    BY <2>1, <2>3 DEF Sends
  <2>7. used' \in Nat /\ used' < SlotTime
    BY <2>1
  <2> QED BY <1>1, <2>1, <2>5, <2>6, <2>7 DEF DrainInv
<1>6. CASE SendPacketDown
  <2>1. /\ sendDown # NoSend /\ sendDown.left = 0 /\ slotIn' = slotIn
        /\ sendDown \in Sends /\ ~crashed
        /\ q.items # <<>> /\ sendDown.peeked = q.items[1].pkt
        /\ used + TxTime[sendDown.peeked] + sendDown.remaining = SlotTime
    BY <1>1, <1>6 DEF SendPacketDown, SlotInv, DrainInv
  <2>2. /\ used' = used + TxTime[sendDown.peeked] /\ ~crashed'
        /\ StartTransmission(Dequeue(q), sendDown.remaining)
    BY <1>3, <1>4, <1>6, <2>1 DEF SendPacketDown
  <2> DEFINE rest == Dequeue(q)
  <2>3. rest \in Sound(Packet) /\ Stale(rest, 0) /\ rest.items = Tail(q.items)
        /\ rest \in Queues(Packet)
    <3>1. ~IsEmpty(q)
      BY <1>3, <2>1
    <3>2. /\ rest \in Queues(Packet) /\ Sorted(rest.items) /\ Stale(rest, 0)
          /\ rest.items = Tail(q.items) /\ rest.size = Len(rest.items)
          /\ rest.size <= q.maxSize /\ rest.maxSize = q.maxSize
      BY <1>2, <1>3, <3>1, DequeueSound
    <3> QED BY <3>2 DEF Sound
  <2>4. FreshItems(rest) = rest.items /\ Cleanup(rest).items = rest.items
    <3> HIDE DEF rest
    <3>1. FreshItems(rest) = rest.items
      BY <2>3, AllFresh
    <3> QED BY <2>3, <3>1, CleanupSound
  <2>5. /\ Len(rest.items) = Len(q.items) - 1
        /\ \A i \in 1 .. Len(rest.items) : rest.items[i] = q.items[i + 1]
    BY <1>2, <2>1, <2>3, HeadTailProperties
  <2>6. sendDown.remaining \in Nat \ {0} /\ TxTime[sendDown.peeked] \in Nat \ {0}
    BY <2>1 DEF Sends
  <2>7. /\ q'.items = rest.items
        /\ sendDown' # NoSend =>
             /\ rest.items # <<>> /\ sendDown' \in Sends
             /\ sendDown'.left = TxTime[sendDown'.peeked]
             /\ sendDown'.peeked = rest.items[1].pkt
             /\ sendDown'.left + sendDown'.remaining = sendDown.remaining
    <3> HIDE DEF rest
    <3>1. StartTransmission(rest, sendDown.remaining) /\ sendDown.remaining \in Int
      BY <2>2, <2>6 DEF rest
    <3>2. /\ q' = Cleanup(rest)
          /\ sendDown' # NoSend =>
             /\ ~IsEmpty(rest) /\ sendDown' \in Sends
             /\ sendDown'.left = TxTime[Front(rest).pkt]
             /\ sendDown'.peeked = Front(rest).pkt
             /\ sendDown'.left + sendDown'.remaining = sendDown.remaining
      BY <2>3, <3>1, StartsInside
    <3>3. ~IsEmpty(rest) => rest.items # <<>> /\ Front(rest) = rest.items[1]
      BY <2>3, <2>4, FrontIsPacket DEF IsEmpty
    <3> QED BY <2>4, <3>2, <3>3
  <2>8. ASSUME NEW i \in 1 .. Len(q'.items)
        PROVE  q'.items[i].age <= AgeLimit(i)'
    <3> DEFINE ahead == (i - 1) * FrameTime
               full == MaxSize * FrameTime
    <3>1. /\ i \in Nat /\ i - 1 \in Nat /\ i + 1 \in 1 .. Len(q.items)
          /\ q'.items[i] = q.items[i + 1]
      BY <1>2, <2>5, <2>7
    <3>2. ahead \in Nat /\ full \in Nat /\ ((i + 1) - 1) * FrameTime = ahead + FrameTime
      BY <3>1, Multiples
    <3>3. q.items[i + 1].age <= full + FrameTime - (ahead + FrameTime) - slotIn
      BY <2>1, <3>1, <3>2 DEF DrainInv, AgeLimit
    <3>4. AgeLimit(i)' = full + (IF sendDown' = NoSend THEN 0 ELSE FrameTime) - ahead - slotIn
      BY <2>1 DEF AgeLimit
    <3>5. q.items[i + 1].age \in Nat
      BY <1>2, <3>1
    <3> HIDE DEF ahead, full
    <3> QED BY <1>2, <3>1, <3>2, <3>3, <3>4, <3>5
  <2>9. ASSUME sendDown' # NoSend
        PROVE  /\ q'.items # <<>> /\ sendDown'.peeked = q'.items[1].pkt
               /\ used' + TxTime[sendDown'.peeked] + sendDown'.remaining = SlotTime
    <3>1. /\ sendDown' \in Sends /\ sendDown'.left = TxTime[sendDown'.peeked]
          /\ sendDown'.left + sendDown'.remaining = sendDown.remaining
          /\ q'.items # <<>> /\ sendDown'.peeked = q'.items[1].pkt
      BY <2>7, <2>9
    <3>2. sendDown'.left \in Nat /\ sendDown'.remaining \in Nat
      BY <3>1 DEF Sends
    <3> QED BY <1>2, <2>1, <2>2, <2>6, <3>1, <3>2
  <2>10. used' \in Nat /\ used' < SlotTime
    BY <1>2, <2>1, <2>2, <2>6
  <2> QED BY <1>1, <2>2, <2>8, <2>9, <2>10 DEF DrainInv
<1>7. CASE \E pkt \in Packet : QueuePacket(pkt)
  <2>1. PICK pkt \in Packet : q' = Enqueue(q, pkt) /\ UNCHANGED <<slotIn, sendDown, used, crashed>>
    BY <1>7 DEF QueuePacket
  <2>2. CASE ~Accepts(q)
    <3>1. q' = q
      BY <1>3, <2>1, <2>2 DEF Enqueue
    <3> QED BY <1>1, <2>1, <3>1 DEF DrainInv, AgeLimit
  <2>3. CASE Accepts(q)
    <3> DEFINE new == [pkt |-> pkt, age |-> 0]
    <3>1. q'.items = Append(q.items, new) /\ Len(q.items) < MaxSize
      BY <1>2, <1>3, <2>1, <2>3, EnqueueSound
    <3>2. /\ Len(q'.items) = Len(q.items) + 1
          /\ \A i \in 1 .. Len(q.items) : q'.items[i] = q.items[i]
          /\ q'.items[Len(q.items) + 1] = new
      BY <1>2, <3>1, AppendProperties DEF Items
    <3>3. ASSUME NEW i \in 1 .. Len(q'.items)
          PROVE  q'.items[i].age <= AgeLimit(i)'
      <4>1. AgeLimit(i)' = AgeLimit(i)
        BY <2>1 DEF AgeLimit
      <4>2. CASE i \in 1 .. Len(q.items)
        BY <3>2, <4>1, <4>2 DEF DrainInv
      <4>3. CASE i = Len(q.items) + 1
        <5> DEFINE ahead == (i - 1) * FrameTime
                   full == MaxSize * FrameTime
        <5>1. i \in Nat /\ i - 1 \in Nat /\ i <= MaxSize /\ q'.items[i].age = 0
          BY <1>2, <3>1, <3>2, <4>3
        <5>2. i * FrameTime <= full /\ i * FrameTime = ahead + FrameTime
              /\ ahead \in Nat /\ full \in Nat
          <6>1. ((i - 1) + 1) * FrameTime = ahead + FrameTime /\ (i - 1) + 1 = i
            BY <5>1, Multiples
          <6> QED BY <5>1, <6>1, Multiples
        <5>3. AgeLimit(i) = full + (IF sendDown = NoSend THEN 0 ELSE FrameTime) - ahead - slotIn
          BY DEF AgeLimit
        <5> HIDE DEF ahead, full
        <5> QED BY <1>2, <4>1, <5>1, <5>2, <5>3
      <4> QED BY <1>2, <3>2, <4>2, <4>3
    <3>4. sendDown # NoSend => q'.items # <<>> /\ q'.items[1] = q.items[1]
      <4>1. SUFFICES ASSUME sendDown # NoSend PROVE q'.items # <<>> /\ q'.items[1] = q.items[1]
        OBVIOUS
      <4>2. q.items # <<>>
        BY <4>1 DEF DrainInv
      <4>3. 1 \in 1 .. Len(q.items)
        BY <1>2, <4>2, EmptySeq
      <4>4. q'.items # <<>>
        BY <1>2, <3>2, EmptySeq
      <4> QED BY <3>2, <4>3, <4>4
    <3> QED BY <1>1, <2>1, <3>3, <3>4 DEF DrainInv
  <2> QED BY <2>2, <2>3
<1>8. CASE Tick
  <2>1. /\ slotIn > 0 /\ slotIn' = slotIn - 1 /\ q' = Grow(q, 1, MaxDelay)
        /\ sendDown' = IF sendDown = NoSend THEN NoSend ELSE [sendDown EXCEPT !.left = @ - 1]
        /\ UNCHANGED <<used, crashed>>
    BY <1>8 DEF Tick
  <2>2. /\ Len(q'.items) = Len(q.items)
        /\ \A i \in 1 .. Len(q.items) : q'.items[i] = Aged(q.items[i], 1, MaxDelay)
    <3> DEFINE grown == Grow(q, 1, MaxDelay)
    <3>1. /\ 1 \in Nat /\ 0 \in Nat /\ MaxDelay \in Nat /\ q.maxDelay <= MaxDelay
          /\ Sorted(q.items)
      BY <1>2 DEF Sound
    <3>2. /\ Len(grown.items) = Len(q.items)
          /\ \A i \in 1 .. Len(q.items) : grown.items[i] = Aged(q.items[i], 1, MaxDelay)
      BY <1>2, <1>3, <3>1, GrowResult
    <3> QED BY <2>1, <3>2
  <2>3. ASSUME NEW i \in 1 .. Len(q.items)
        PROVE  /\ q'.items[i].pkt = q.items[i].pkt
               /\ q'.items[i].age \in Nat /\ q'.items[i].age <= q.items[i].age + 1
    <3>1. q.items[i] \in [pkt : Packet, age : Nat]
      BY <1>2, ElementOfSeq DEF Items
    <3>2. q'.items[i] = [q.items[i] EXCEPT !.age =
                           IF q.items[i].age + 1 < MaxDelay THEN q.items[i].age + 1 ELSE MaxDelay]
      BY <2>2 DEF Aged
    <3>3. q.items[i].age < MaxDelay
      BY <1>2, <1>3 DEF Stale, IsFresh
    <3> QED BY <3>1, <3>2, <3>3
  <2>4. sendDown' # NoSend <=> sendDown # NoSend
    <3>1. SUFFICES ASSUME sendDown # NoSend PROVE sendDown' # NoSend
      BY <2>1
    <3>2. sendDown \in Sends /\ sendDown.left > 0
      BY <1>1, <1>8, <3>1 DEF SlotInv, Tick
    <3> DEFINE l == sendDown.left - 1
    <3>3. l \in Nat /\ sendDown' = [sendDown EXCEPT !.left = l]
      BY <2>1, <3>1, <3>2 DEF Sends
    <3> HIDE DEF l
    <3>4. sendDown' \in [left : Nat, remaining : Int, peeked : Packet]
      BY <3>2, <3>3 DEF Sends
    <3> QED BY <3>4, NoSendIsNoEvent
  <2>5. sendDown # NoSend =>
          sendDown'.peeked = sendDown.peeked /\ sendDown'.remaining = sendDown.remaining
    BY <1>1, <2>1 DEF SlotInv, Sends
  <2>6. ASSUME NEW i \in 1 .. Len(q'.items)
        PROVE  q'.items[i].age <= AgeLimit(i)'
    <3> DEFINE ahead == (i - 1) * FrameTime
               full == MaxSize * FrameTime
    <3>1. i \in 1 .. Len(q.items) /\ ahead \in Nat /\ full \in Nat
      <4>1. i \in 1 .. Len(q.items) /\ i - 1 \in Nat
        BY <1>2, <2>2
      <4> QED BY <4>1, Multiples
    <3>2. q.items[i].age <= full + (IF sendDown = NoSend THEN 0 ELSE FrameTime) - ahead - slotIn
      BY <3>1 DEF DrainInv, AgeLimit
    <3>3. AgeLimit(i)' = full + (IF sendDown' = NoSend THEN 0 ELSE FrameTime) - ahead - slotIn'
      BY DEF AgeLimit
    <3>4. q'.items[i].age \in Nat /\ q'.items[i].age <= q.items[i].age + 1 /\ q.items[i].age \in Nat
      BY <1>2, <2>3, <3>1
    <3> DEFINE limit == full + (IF sendDown = NoSend THEN 0 ELSE FrameTime) - ahead
               age == q.items[i].age
               older == q'.items[i].age
    <3>5. AgeLimit(i)' = limit - slotIn' /\ limit \in Int
      <4> HIDE DEF ahead, full
      <4> QED BY <1>2, <2>1, <2>4, <3>1, <3>3
    <3>6. age <= limit - slotIn /\ older <= age + 1 /\ age \in Nat /\ older \in Nat
      <4> HIDE DEF ahead, full
      <4> QED BY <1>2, <3>1, <3>2, <3>4
    <3> HIDE DEF limit, age, older
    <3>7. older <= limit - slotIn'
      BY <1>2, <2>1, <3>5, <3>6
    <3> QED BY <3>5, <3>7 DEF older
  <2>7. ASSUME sendDown' # NoSend
        PROVE  /\ q'.items # <<>> /\ sendDown'.peeked = q'.items[1].pkt
               /\ used' + TxTime[sendDown'.peeked] + sendDown'.remaining = SlotTime
    <3>1. /\ sendDown # NoSend /\ q.items # <<>> /\ sendDown.peeked = q.items[1].pkt
          /\ used + TxTime[sendDown.peeked] + sendDown.remaining = SlotTime
      BY <2>4, <2>7 DEF DrainInv
    <3>2. 1 \in 1 .. Len(q.items)
      BY <1>2, <3>1, EmptySeq
    <3>3. q'.items # <<>>
      BY <1>2, <2>2, <3>2, EmptySeq
    <3> QED BY <2>1, <2>3, <2>5, <3>1, <3>2, <3>3
  <2> QED BY <1>1, <2>1, <2>6, <2>7 DEF DrainInv
<1>9. CASE UNCHANGED vars
  BY <1>1, <1>9 DEF vars, DrainInv, AgeLimit
<1> QED BY <1>5, <1>6, <1>7, <1>8, <1>9 DEF Next

\* Where packets do not grow too old in the queue, those that are sent in a slot
\* together fit into it: the budget was charged for each of them.
THEOREM SlotNotOverrun ==
  ASSUME Drains
  PROVE  Spec => []WithinSlot
<1>1. DrainInv => WithinSlot
  BY DEF DrainInv, WithinSlot
<1>2. DrainInv /\ [Next]_vars => DrainInv'
  BY NextDrainInv
<1> QED BY <1>1, <1>2, InitDrainInv, PTL DEF Spec

\* And what is sent is the packet that StartTransmission looked at.
THEOREM PeekedIsSent ==
  ASSUME Drains
  PROVE  Spec => SendsWhatItPeeked
<1>1. ASSUME DrainInv, [Next]_vars
      PROVE  [sendDown # NoSend /\ sendDown.left = 0 /\ SendPacketDown =>
                used' = used + TxTime[sendDown.peeked]]_vars
  <2> SUFFICES ASSUME sendDown # NoSend, SendPacketDown
               PROVE  used' = used + TxTime[sendDown.peeked]
    OBVIOUS
  <2>1. q.items # <<>> /\ sendDown.peeked = q.items[1].pkt /\ q \in Sound(Packet)
    BY <1>1 DEF DrainInv, SlotInv
  <2>2. ~IsEmpty(q) /\ Front(q) = Head(q.items) /\ Cleanup(q) = q
    BY <1>1, <2>1, NothingStale
  <2>3. Front(q) = q.items[1]
    BY <2>1, <2>2, FrontIsPacket
  <2> QED BY <2>1, <2>2, <2>3 DEF SendPacketDown
<1>2. DrainInv /\ [Next]_vars => DrainInv'
  BY NextDrainInv
<1> QED BY <1>1, <1>2, InitDrainInv, PTL DEF Spec, SendsWhatItPeeked
=============================================================================
