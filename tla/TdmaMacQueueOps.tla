--------------------------- MODULE TdmaMacQueueOps ---------------------------
(***************************************************************************)
(* The operations of ns3::TdmaMacQueue as functions of the queue's fields. *)
(* The queue keeps its length twice, in the list and in m_size, and drops  *)
(* packets that stayed too long only when an operation calls Cleanup.      *)
(* The time stamp of an item is its age here.                              *)
(***************************************************************************)
EXTENDS Integers, Sequences

CONSTANT Packet  \* what is queued

EmptyQueue(maxSize, maxDelay) ==
  [items |-> <<>>, size |-> 0, maxSize |-> maxSize, maxDelay |-> maxDelay]

\* tstamp + m_maxDelay > now
IsFresh(item, maxDelay) == item.age < maxDelay

\* What the loop of Cleanup leaves in the list: a recursive function, since no
\* proof can look into SelectSeq.
FreshItems(q) ==
  LET fresh[i \in 0 .. Len(q.items)] ==
        IF i = 0 THEN <<>>
        ELSE IF IsFresh(q.items[i], q.maxDelay) THEN Append(fresh[i - 1], q.items[i])
        ELSE fresh[i - 1]
  IN  fresh[Len(q.items)]

\* How many packets Cleanup erases, each after a call of m_txDropCallback.
Expired(q) == Len(q.items) - Len(FreshItems(q))

\* Mutant: the counter is forgotten.
CleanupItemsOnly(q) == [q EXCEPT !.items = FreshItems(q)]

Cleanup(q) ==
  [q EXCEPT !.items = FreshItems(q), !.size = @ - Expired(q)]

\* Equality, not comparison: a queue longer than its limit never looks full.
IsFull(q) == q.size = q.maxSize

Accepts(q) == ~IsFull(Cleanup(q))

\* Mutant: the packet is put at the front.
PushFront(q, pkt) ==
  [q EXCEPT !.items = <<[pkt |-> pkt, age |-> 0]>> \o @, !.size = @ + 1]

Push(q, pkt) ==
  [q EXCEPT !.items = Append(@, [pkt |-> pkt, age |-> 0]), !.size = @ + 1]

\* Mutant: expired packets count when the queue is checked for room.
EnqueueUncleaned(q, pkt) == IF IsFull(q) THEN q ELSE Push(q, pkt)

Enqueue(q, pkt) == IF Accepts(q) THEN Push(Cleanup(q), pkt) ELSE Cleanup(q)

IsEmpty(q) == Cleanup(q).items = <<>>

\* What Peek and Dequeue return of a queue that is not empty.
Front(q) == Head(Cleanup(q).items)

Dequeue(q) ==
  IF IsEmpty(q) THEN Cleanup(q)
  ELSE [Cleanup(q) EXCEPT !.items = Tail(@), !.size = @ - 1]

Flush(q) == [q EXCEPT !.items = <<>>, !.size = 0]

\* Remove erases the first item that holds the packet, without Cleanup.
Holds(q, pkt) == {i \in 1 .. Len(q.items) : q.items[i].pkt = pkt}

Remove(q, pkt) ==
  IF Holds(q, pkt) = {} THEN q
  ELSE LET i == CHOOSE j \in Holds(q, pkt) : \A k \in Holds(q, pkt) : j <= k
       IN  [q EXCEPT !.items = SubSeq(@, 1, i - 1) \o SubSeq(@, i + 1, Len(@)),
                     !.size = @ - 1]

\* Time passes for the items; ages above the cap need not be told apart.
Aged(item, d, cap) == [item EXCEPT !.age = IF @ + d < cap THEN @ + d ELSE cap]

Grow(q, d, cap) ==
  [q EXCEPT !.items = [i \in DOMAIN q.items |-> Aged(q.items[i], d, cap)]]
=============================================================================
