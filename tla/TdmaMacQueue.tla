----------------------------- MODULE TdmaMacQueue -----------------------------
(***************************************************************************)
(* One ns3::TdmaMacQueue under any order of calls, at any times: what is   *)
(* stored, what the last call that answers something has answered, and how *)
(* many packets were reported as dropped (TdmaCentralMac::NotifyTxDrop):   *)
(* by m_txDropCallback those that grew too old, by the MAC those that were *)
(* refused.                                                                *)
(***************************************************************************)
EXTENDS TdmaMacQueueOps

CONSTANTS
  NoPacket,
  MaxSizes,    \* values of the MaxPacketNumber attribute
  MaxDelays,   \* values of the MaxDelay attribute
  InitialSize, InitialDelay,
  AgeCap,      \* bound: ages are counted up to this
  DropsEnd     \* bound: reported drops are counted modulo this

ASSUME SizesAreNatural == MaxSizes \subseteq Nat /\ InitialSize \in MaxSizes
ASSUME DelaysAreNatural == MaxDelays \subseteq Nat /\ InitialDelay \in MaxDelays
ASSUME CapCoversDelays == AgeCap \in Nat /\ \A d \in MaxDelays : d <= AgeCap
ASSUME DropsAreCounted == DropsEnd \in Nat \ {0}
ASSUME NoPacketIsNone == NoPacket \notin Packet

VARIABLES mq, answer, drops
queueVars == <<mq, answer, drops>>

Answer(what, pkt) == [what |-> what, pkt |-> pkt]

QueueInit ==
  /\ mq = EmptyQueue(InitialSize, InitialDelay)
  /\ answer = Answer("none", NoPacket)
  /\ drops = 0

NotifyTxDrop(n) == drops' = (drops + n) % DropsEnd

\* TdmaCentralMac::Queue: a packet that is refused is reported too.
EnqueueCall(pkt) ==
  /\ mq' = Enqueue(mq, pkt)
  /\ NotifyTxDrop(Expired(mq) + IF Accepts(mq) THEN 0 ELSE 1)
  /\ answer' = Answer(IF Accepts(mq) THEN "accepted" ELSE "dropped", pkt)

Found(queue) ==
  IF IsEmpty(queue) THEN Answer("empty", NoPacket)
  ELSE Answer("packet", Front(queue).pkt)

DequeueCall == mq' = Dequeue(mq) /\ answer' = Found(mq) /\ NotifyTxDrop(Expired(mq))

PeekCall == mq' = Cleanup(mq) /\ answer' = Found(mq) /\ NotifyTxDrop(Expired(mq))

IsEmptyCall ==
  /\ mq' = Cleanup(mq)
  /\ answer' = Answer(IF IsEmpty(mq) THEN "empty" ELSE "nonempty", NoPacket)
  /\ NotifyTxDrop(Expired(mq))

RemoveCall(pkt) == mq' = Remove(mq, pkt) /\ UNCHANGED <<answer, drops>>

FlushCall == mq' = Flush(mq) /\ UNCHANGED <<answer, drops>>

SetMaxSize(size) == mq' = [mq EXCEPT !.maxSize = size] /\ UNCHANGED <<answer, drops>>

SetMaxDelay(delay) == mq' = [mq EXCEPT !.maxDelay = delay] /\ UNCHANGED <<answer, drops>>

GrowOlder == mq' = Grow(mq, 1, AgeCap) /\ UNCHANGED <<answer, drops>>

\* Attributes are given their values before packets are queued.
Configure ==
  /\ mq.items = <<>>
  /\ \/ \E size \in MaxSizes : SetMaxSize(size)
     \/ \E delay \in MaxDelays : SetMaxDelay(delay)

QueueNext ==
  \/ \E pkt \in Packet : EnqueueCall(pkt) \/ RemoveCall(pkt)
  \/ DequeueCall \/ PeekCall \/ IsEmptyCall \/ FlushCall
  \/ Configure
  \/ GrowOlder

QueueSpec == QueueInit /\ [][QueueNext]_queueVars

-----------------------------------------------------------------------------
\* m_size, kept by hand in five operations, is the length of the list.
SizeAgrees == mq.size = Len(mq.items)

Fifo == INSTANCE DropTailQueue
  WITH InitialLimit <- InitialSize, InitialLifetime <- InitialDelay,
       content <- FreshItems(mq), lapsed <- Expired(mq),
       limit <- mq.maxSize, lifetime <- mq.maxDelay

\* Dropping expired packets only when some operation looks at the queue cannot
\* be told, by the answers, from dropping each the moment it expires, and no
\* packet is lost without being reported, or reported twice.
ImplementsDropTail == Fifo!DropTail
=============================================================================
