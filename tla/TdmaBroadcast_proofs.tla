------------------------- MODULE TdmaBroadcast_proofs -------------------------
(***************************************************************************)
(* Proofs about the broadcast, for every set of nodes, every reach, hop    *)
(* limit, window, queue limit and number range.                            *)
(***************************************************************************)
EXTENDS TdmaBroadcast, FiniteSetTheorems, SequenceTheorems, WellFoundedInduction, TLAPS

Frame ==
  [src : Source, seq : Int, ttl : Nat, type : UnsetTypes \cup {"DATA", "ROUTE"},
   srcId : Nat, wait : Nat, id : Nat]

Packet == [by : Node, src : Source, at : Nat]

\* The frames that wait.
FramesOK ==
  /\ seq \in [Node -> Int]
  /\ out \in [Node -> Seq(Frame)]
  /\ sent \in Seq(Packet)
  /\ announced \in Nat

\* A neighbour table is finite, and the lengths in it are numbers.
IsTable(entries) ==
  entries \in [DOMAIN entries -> Nat] /\ IsFiniteSet(DOMAIN entries)

TablesOK ==
  /\ DOMAIN table = Node
  /\ \A n \in Node : IsTable(table[n])

CountersOK ==
  /\ recv \in [Node -> Int] /\ own \in [Node -> Int] /\ repeat \in [Node -> Int]
  /\ ended \in [Node -> Int] /\ accepted \in [Node -> Int]

\* What HopsBounded says of one frame in the queue of n, and that the frame's
\* packet has been sent.
FrameBounded(n, f, packets) ==
  /\ f.id \in 1 .. Len(packets)
  /\ f.ttl <= TTLEnd
  /\ f.ttl = 0 => packets[f.id].by = n
  /\ f.src = n => f.ttl = 0

AllBounded ==
  \A n \in Node : \A i \in 1 .. Len(out[n]) : FrameBounded(n, out[n][i], sent)

IInv == FramesOK /\ TablesOK /\ CountersOK /\ CountersAddUp /\ AllBounded

-----------------------------------------------------------------------------
(* The initial state *)

LEMMA InitInv == Init => IInv
<1> SUFFICES ASSUME Init PROVE IInv
  OBVIOUS
<1>1. FramesOK
  BY DEF Init, FramesOK
<1>2. TablesOK
  <2>1. IsFiniteSet({})
    BY FS_EmptySet
  <2> QED BY <2>1 DEF Init, TablesOK, IsTable
<1>3. CountersOK
  BY DEF Init, CountersOK
<1>4. CountersAddUp
  BY DEF Init, CountersAddUp, Distinct
<1>5. AllBounded
  BY DEF Init, AllBounded
<1> QED BY <1>1, <1>2, <1>3, <1>4, <1>5 DEF IInv

-----------------------------------------------------------------------------
(* Queues *)

\* A frame is added at the end, or dropped.
LEMMA QueuedFrames ==
  ASSUME NEW queue \in Seq(Frame), NEW f \in Frame
  PROVE  /\ Queued(queue, f) \in Seq(Frame)
         /\ \A i \in 1 .. Len(Queued(queue, f)) :
              Queued(queue, f)[i] = f \/ (i \in 1 .. Len(queue) /\ Queued(queue, f)[i] = queue[i])
BY DEF Queued

\* So a queue stays bounded when the frame is.
LEMMA QueuedBounded ==
  ASSUME NEW n \in Node, NEW queue \in Seq(Frame), NEW f \in Frame, NEW packets,
         FrameBounded(n, f, packets),
         \A i \in 1 .. Len(queue) : FrameBounded(n, queue[i], packets)
  PROVE  \A i \in 1 .. Len(Queued(queue, f)) : FrameBounded(n, Queued(queue, f)[i], packets)
BY QueuedFrames

LEMMA TailBounded ==
  ASSUME NEW n \in Node, NEW queue \in Seq(Frame), queue # <<>>, NEW packets,
         \A i \in 1 .. Len(queue) : FrameBounded(n, queue[i], packets)
  PROVE  /\ Tail(queue) \in Seq(Frame)
         /\ \A i \in 1 .. Len(Tail(queue)) : FrameBounded(n, Tail(queue)[i], packets)
<1>1. Tail(queue) \in Seq(Frame)
  OBVIOUS
<1>2. \A i \in 1 .. Len(Tail(queue)) : i + 1 \in 1 .. Len(queue) /\ Tail(queue)[i] = queue[i + 1]
  OBVIOUS
<1> QED BY <1>1, <1>2

\* What is announced of a queue's length is a number.
LEMMA AnnouncedLength == \A queue : Len(queue) \in Nat => Announced(queue) \in Nat
BY DEF Announced

\* The frames that wait when one has been dropped: those behind it.
LEMMA ExpireQueues ==
  ASSUME IInv, NEW n \in Node, Expire(n)
  PROVE  /\ out[n] \in Seq(Frame) /\ out[n] # <<>> /\ out'[n] = Tail(out[n])
         /\ \A m \in Node \ {n} : out'[m] = out[m]
         /\ \A i \in 2 .. Len(out[n]) : i - 1 \in 1 .. Len(out'[n]) /\ out'[n][i - 1] = out[n][i]
         /\ \A m \in Node : \A i \in 1 .. Len(out'[m]) :
              \E j \in 1 .. Len(out[m]) : out'[m][i] = out[m][j]
<1>1. /\ out[n] \in Seq(Frame) /\ out[n] # <<>> /\ out'[n] = Tail(out[n])
      /\ \A m \in Node \ {n} : out'[m] = out[m]
  BY DEF IInv, FramesOK, Expire
<1>2. \A i \in 2 .. Len(out[n]) : i - 1 \in 1 .. Len(out'[n]) /\ out'[n][i - 1] = out[n][i]
  BY <1>1
<1>3. \A i \in 1 .. Len(out'[n]) : i + 1 \in 1 .. Len(out[n]) /\ out'[n][i] = out[n][i + 1]
  BY <1>1
<1> QED BY <1>1, <1>2, <1>3

-----------------------------------------------------------------------------
(* Originating *)

LEMMA OriginateFrames ==
  ASSUME IInv, NEW n \in Node, NEW src \in Source, NEW type \in UnsetTypes \cup {"DATA"},
         NEW srcId \in Nat, NEW wait \in Nat, Originate(n, src, type, srcId, wait)
  PROVE  FramesOK' /\ AllBounded'
<1> USE DEF IInv
<1> DEFINE f == Header(src, seq'[n], type, srcId, wait, Len(sent) + 1)
<1>1. seq' \in [Node -> Int] /\ announced' \in Nat
  BY NumbersAreNatural DEF FramesOK, Originate, NewSeq
<1>2. /\ sent' \in Seq(Packet)
      /\ Len(sent') = Len(sent) + 1
      /\ \A i \in 1 .. Len(sent) : sent'[i] = sent[i]
      /\ sent'[Len(sent) + 1].by = n
  <2>1. [by |-> n, src |-> src, at |-> Drawings] \in Packet
    BY DEF Packet, Drawings, FramesOK
  <2>2. sent' = Append(sent, [by |-> n, src |-> src, at |-> Drawings]) /\ sent \in Seq(Packet)
    BY DEF FramesOK, Originate
  <2> QED BY <2>1, <2>2
<1>3. f \in Frame /\ f.ttl = 0 /\ f.id = Len(sent) + 1
  BY <1>1 DEF Header, Frame, FramesOK
<1>4. FrameBounded(n, f, sent')
  <2>1. Len(sent) \in Nat
    BY DEF FramesOK
  <2> HIDE DEF f
  <2> QED BY <1>2, <1>3, <2>1, NumbersAreNatural DEF FrameBounded
<1>5. \A m \in Node : \A i \in 1 .. Len(out[m]) : FrameBounded(m, out[m][i], sent')
  <2> SUFFICES ASSUME NEW m \in Node, NEW i \in 1 .. Len(out[m])
               PROVE  FrameBounded(m, out[m][i], sent')
    OBVIOUS
  <2>1. FrameBounded(m, out[m][i], sent)
    BY DEF AllBounded
  <2>2. Len(sent) \in Nat
    BY DEF FramesOK
  <2> QED BY <1>2, <2>1, <2>2 DEF FrameBounded
<1>6. out' = [out EXCEPT ![n] = Queued(out[n], f)]
  BY DEF Originate, FramesOK
<1> HIDE DEF f
<1>7. out' \in [Node -> Seq(Frame)]
  BY <1>3, <1>6, QueuedFrames DEF FramesOK
<1>8. AllBounded'
  <2> SUFFICES ASSUME NEW m \in Node
               PROVE  \A i \in 1 .. Len(out'[m]) : FrameBounded(m, out'[m][i], sent')
    BY DEF AllBounded
  <2>1. CASE m = n
    <3>1. out'[m] = Queued(out[n], f)
      BY <1>6, <2>1 DEF FramesOK
    <3>2. out[n] \in Seq(Frame)
      BY DEF FramesOK
    <3> QED BY <1>3, <1>4, <1>5, <2>1, <3>1, <3>2, QueuedBounded
  <2>2. CASE m # n
    BY <1>5, <1>6, <2>2 DEF FramesOK
  <2> QED BY <2>1, <2>2
<1> QED BY <1>1, <1>2, <1>7, <1>8 DEF FramesOK

LEMMA OriginateInv ==
  ASSUME IInv, NEW n \in Node, NEW src \in Source, NEW type \in UnsetTypes \cup {"DATA"},
         NEW srcId \in Nat, NEW wait \in Nat, Originate(n, src, type, srcId, wait)
  PROVE  IInv'
<1>1. FramesOK' /\ AllBounded'
  BY OriginateFrames
<1>2. TablesOK'
  BY DEF IInv, Originate, TablesOK
<1>3. CountersOK' /\ CountersAddUp'
  BY DEF IInv, Originate, counters, CountersOK, CountersAddUp, Distinct
<1> QED BY <1>1, <1>2, <1>3 DEF IInv

-----------------------------------------------------------------------------
(* Neighbour tables *)

LEMMA RecvRouterMsgTable ==
  ASSUME NEW entries, IsTable(entries), NEW srcId \in Nat, NEW wait \in Nat, NEW gone
  PROVE  IsTable(RecvRouterMsg(entries, srcId, wait, gone))
<1> DEFINE D == (DOMAIN entries \ gone) \cup {srcId}
           heardOf == RecvRouterMsg(entries, srcId, wait, gone)
<1>1. DOMAIN heardOf = D
  BY DEF RecvRouterMsg
<1>2. heardOf \in [D -> Nat]
  BY DEF RecvRouterMsg, IsTable
<1>3. IsFiniteSet(D)
  <2>1. IsFiniteSet(DOMAIN entries \ gone)
    BY FS_Subset DEF IsTable
  <2> QED BY <2>1, FS_AddElement
<1> HIDE DEF D, heardOf
<1>4. IsTable(heardOf)
  BY <1>1, <1>2, <1>3 DEF IsTable
<1> QED BY <1>4 DEF heardOf

LEMMA HearSenderTables ==
  ASSUME TablesOK, NEW R, NEW srcId \in Nat, NEW wait \in Nat,
         HearSender(R, srcId, wait)
  PROVE  TablesOK'
<1> PICK gone : table' = [r \in Node |->
         IF r \in R THEN RecvRouterMsg(table[r], srcId, wait, gone[r]) ELSE table[r]]
  BY DEF HearSender
<1>1. DOMAIN table' = Node
  OBVIOUS
<1>2. ASSUME NEW n \in Node PROVE IsTable(table'[n])
  <2>1. IsTable(table[n])
    BY DEF TablesOK
  <2>2. CASE n \in R
    BY <2>1, <2>2, RecvRouterMsgTable
  <2>3. CASE n \notin R
    BY <2>1, <2>3
  <2> QED BY <2>2, <2>3
<1> QED BY <1>1, <1>2 DEF TablesOK

\* A node with an empty queue transmits whatever is in its table: every neighbour
\* has announced a queue at least as long.
LEMMA IdleTransmits ==
  ASSUME NEW entries, IsTable(entries)
  PROVE  IsTransmit(entries, 0)
<1>1. {k \in DOMAIN entries : 0 <= entries[k]} = DOMAIN entries
  BY DEF IsTable
<1>2. Cardinality(DOMAIN entries) \in Nat
  BY FS_CardinalityType DEF IsTable
<1>3. QueueSizeLessNum(entries, 0) = Cardinality(DOMAIN entries)
  BY <1>1 DEF QueueSizeLessNum
<1> QED BY <1>2, <1>3 DEF IsTransmit

-----------------------------------------------------------------------------
(* Slot messages and reports *)

LEMMA AnnounceInv ==
  ASSUME IInv, NEW n \in Node, AnnounceSlots(n)
  PROVE  IInv'
<1>1. Announced(out[n]) \in Nat /\ n \in Nat
  BY NodesAreNumbers, AnnouncedLength DEF IInv, FramesOK
<1>2. TablesOK'
  BY <1>1, HearSenderTables DEF IInv, AnnounceSlots
<1>3. FramesOK' /\ AllBounded'
  BY NumbersAreNatural DEF IInv, AnnounceSlots, FramesOK, NewSeq, AllBounded
<1>4. CountersOK' /\ CountersAddUp'
  BY DEF IInv, AnnounceSlots, counters, CountersOK, CountersAddUp, Distinct
<1> QED BY <1>2, <1>3, <1>4 DEF IInv

LEMMA ExpireInv ==
  ASSUME IInv, NEW n \in Node, Expire(n)
  PROVE  IInv'
<1>1. AllBounded'
  <2>1. sent' = sent
    BY DEF Expire
  <2>2. \A m \in Node : \A i \in 1 .. Len(out[m]) : FrameBounded(m, out[m][i], sent)
    BY DEF IInv, AllBounded
  <2>3. \A m \in Node : \A i \in 1 .. Len(out'[m]) : FrameBounded(m, out'[m][i], sent)
    BY <2>2, ExpireQueues
  <2> QED BY <2>1, <2>3 DEF AllBounded
<1>2. FramesOK'
  <2>1. Tail(out[n]) \in Seq(Frame)
    BY ExpireQueues
  <2> QED BY <2>1 DEF IInv, FramesOK, Expire
<1>3. TablesOK' /\ CountersOK' /\ CountersAddUp'
  BY DEF IInv, Expire, counters, TablesOK, CountersOK, CountersAddUp, Distinct
<1> QED BY <1>1, <1>2, <1>3 DEF IInv

LEMMA CheckDataInv ==
  ASSUME IInv, CheckData
  PROVE  IInv'
<1>1. FramesOK' /\ AllBounded' /\ TablesOK'
  BY DEF IInv, CheckData, FramesOK, AllBounded, TablesOK
<1>2. CountersOK' /\ CountersAddUp'
  BY DEF IInv, CheckData, Zero, CountersOK, CountersAddUp, Distinct
<1> QED BY <1>1, <1>2 DEF IInv

-----------------------------------------------------------------------------
(* A transmission *)

\* What Transmit(n) does, with names for its parts.
TransmitStep(n, R, f, data, new, asked) ==
  /\ out[n] # <<>> /\ R \in Reach[n] /\ f = Head(out[n])
  /\ data = {r \in R : f.type = "DATA"}
  /\ new = {r \in R : IsNew(r, f)}
  /\ asked = {r \in new : ~IsTTLEnd(f)}
  /\ HearSender(R, f.srcId, f.wait)
  /\ out' = [r \in Node |->
       IF r = n THEN Sent(out[n])
       ELSE IF r \in asked /\ IsTransmit(table'[r], Len(out[r])) THEN Queued(out[r], SentOn(r, f))
       ELSE out[r]]
  /\ heard' = [r \in Node |-> IF r \in R THEN HeardAfter(r, f) ELSE heard[r]]
  /\ recv' = Plus(recv, data)
  /\ own' = Plus(own, {r \in data : f.src = r})
  /\ repeat' = Plus(repeat, {r \in data : f.src # r /\ IsRepeat(r, f)})
  /\ ended' = Plus(ended, {r \in new : IsTTLEnd(f)})
  /\ accepted' = Plus(accepted, new)
  /\ handedUp' = [r \in Node |->
       IF r \in new THEN [handedUp[r] EXCEPT ![f.id] = @ + 1] ELSE handedUp[r]]
  /\ refused' = refused \cup
       {<<r, f.id>> : r \in {q \in asked : ~IsTransmit(table'[q], Len(out[q]))}}
  /\ UNCHANGED <<seq, announced, sent>>

LEMMA TransmitParts ==
  ASSUME NEW n \in Node, Transmit(n)
  PROVE  \E R, f, data, new, asked : TransmitStep(n, R, f, data, new, asked)
<1> PICK R \in Reach[n] : LET f == Head(out[n])
                             data == {r \in R : f.type = "DATA"}
                             new == {r \in R : IsNew(r, f)}
                             asked == {r \in new : ~IsTTLEnd(f)}
                         IN  TransmitStep(n, R, f, data, new, asked)
  BY DEF Transmit, TransmitStep
<1> QED OBVIOUS

\* Of the data frames a node hears, each is its own, a repeat or new, and only
\* of the new ones some have come as far as they may.
LEMMA TransmitCounters ==
  ASSUME CountersOK, CountersAddUp, NEW n \in Node,
         NEW R, NEW f, NEW data, NEW new, NEW asked,
         TransmitStep(n, R, f, data, new, asked)
  PROVE  CountersOK' /\ CountersAddUp'
<1> DEFINE one(m, S) == IF m \in S THEN 1 ELSE 0
           ownOnes == {r \in data : f.src = r}
           repeats == {r \in data : f.src # r /\ IsRepeat(r, f)}
           ends == {r \in new : IsTTLEnd(f)}
<1>1. CountersOK'
  BY DEF CountersOK, TransmitStep, Plus
<1>2. ASSUME NEW m \in Node
      PROVE  /\ recv'[m] = recv[m] + one(m, data)
             /\ own'[m] = own[m] + one(m, ownOnes)
             /\ repeat'[m] = repeat[m] + one(m, repeats)
             /\ ended'[m] = ended[m] + one(m, ends)
             /\ accepted'[m] = accepted[m] + one(m, new)
  BY DEF TransmitStep, Plus
<1>3. ASSUME NEW m \in Node
      PROVE  /\ one(m, data) - one(m, repeats) - one(m, ownOnes) = one(m, new)
             /\ one(m, ends) <= one(m, new)
  BY DEF TransmitStep, IsNew
<1>4. ASSUME NEW m \in Node
      PROVE  recv[m] \in Int /\ own[m] \in Int /\ repeat[m] \in Int
             /\ ended[m] \in Int /\ accepted[m] \in Int
             /\ recv[m] - repeat[m] - own[m] = accepted[m] /\ ended[m] <= accepted[m]
  BY DEF CountersOK, CountersAddUp, Distinct
<1>5. ASSUME NEW m \in Node, NEW S PROVE one(m, S) \in Int
  OBVIOUS
<1> HIDE DEF one, ownOnes, repeats, ends
<1>6. ASSUME NEW m \in Node
      PROVE  recv'[m] - repeat'[m] - own'[m] = accepted'[m] /\ ended'[m] <= accepted'[m]
  BY <1>2, <1>3, <1>4, <1>5
<1> QED BY <1>1, <1>6 DEF CountersAddUp, Distinct

\* SentOn changes the hop count, the type and the sender, and keeps the rest.
LEMMA SentOnFrame ==
  ASSUME NEW f \in Frame, NEW r \in Nat, Len(out[r]) \in Nat
  PROVE  /\ SentOn(r, f) \in Frame
         /\ SentOn(r, f).ttl = f.ttl + 1
         /\ SentOn(r, f).id = f.id /\ SentOn(r, f).src = f.src /\ SentOn(r, f).seq = f.seq
<1>1. SetTTL(f, f.ttl) \in Frame /\ Announced(out[r]) \in Nat
  BY AnnouncedLength DEF SetTTL, Frame
<1>2. /\ SetTTL(f, f.ttl).ttl = f.ttl + 1
      /\ SetTTL(f, f.ttl).id = f.id /\ SetTTL(f, f.ttl).src = f.src
      /\ SetTTL(f, f.ttl).seq = f.seq
  BY DEF SetTTL, Frame
<1> QED BY <1>1, <1>2 DEF SentOn, Frame

\* The frame a node sends on is one hop further than the one it heard, and still
\* within the limit; it is not the node's own.
LEMMA SentOnBounded ==
  ASSUME IInv, NEW n \in Node, out[n] # <<>>,
         NEW r \in Node, IsNew(r, Head(out[n])), ~IsTTLEnd(Head(out[n]))
  PROVE  /\ SentOn(r, Head(out[n])) \in Frame
         /\ FrameBounded(r, SentOn(r, Head(out[n])), sent)
<1> DEFINE f == Head(out[n])
<1>1. out[n] \in Seq(Frame) /\ out[r] \in Seq(Frame)
  BY DEF IInv, FramesOK
<1>2. f \in Frame /\ 1 \in 1 .. Len(out[n]) /\ f = out[n][1]
  BY <1>1
<1>3. FrameBounded(n, f, sent)
  BY <1>2 DEF IInv, AllBounded
<1>4. Len(out[r]) \in Nat /\ r \in Nat
  BY <1>1, NodesAreNumbers
<1> HIDE DEF f
<1>6. SentOn(r, f) \in Frame
  BY <1>2, <1>4, SentOnFrame
<1>7. SentOn(r, f).ttl = f.ttl + 1 /\ SentOn(r, f).id = f.id /\ SentOn(r, f).src = f.src
  BY <1>2, <1>4, SentOnFrame
<1>8. f.ttl \in Nat /\ f.ttl < TTLEnd /\ f.src # r
  BY <1>2, NumbersAreNatural DEF f, Frame, IsTTLEnd, IsNew
<1>9. FrameBounded(r, SentOn(r, f), sent)
  BY <1>3, <1>7, <1>8, NumbersAreNatural DEF FrameBounded
<1> QED BY <1>6, <1>9 DEF f

LEMMA TransmitFrames ==
  ASSUME IInv, NEW n \in Node, NEW R, NEW f, NEW data, NEW new, NEW asked,
         TransmitStep(n, R, f, data, new, asked)
  PROVE  FramesOK' /\ AllBounded'
<1>1. ASSUME NEW r \in Node
      PROVE  /\ out'[r] \in Seq(Frame)
             /\ \A i \in 1 .. Len(out'[r]) : FrameBounded(r, out'[r][i], sent)
  <2>1. /\ out[r] \in Seq(Frame)
        /\ \A i \in 1 .. Len(out[r]) : FrameBounded(r, out[r][i], sent)
    BY DEF IInv, FramesOK, AllBounded
  <2>2. CASE r = n
    <3>1. out'[r] = Tail(out[r]) /\ out[r] # <<>>
      BY <2>2 DEF TransmitStep, Sent
    <3> QED BY <2>1, <3>1, TailBounded
  <2>3. CASE r # n /\ r \in asked /\ IsTransmit(table'[r], Len(out[r]))
    <3>1. out'[r] = Queued(out[r], SentOn(r, f))
      BY <2>3 DEF TransmitStep
    <3>2. out[n] # <<>> /\ f = Head(out[n]) /\ IsNew(r, f) /\ ~IsTTLEnd(f)
      BY <2>3 DEF TransmitStep
    <3>3. SentOn(r, f) \in Frame /\ FrameBounded(r, SentOn(r, f), sent)
      BY <3>2, SentOnBounded
    <3> QED BY <2>1, <3>1, <3>3, QueuedFrames, QueuedBounded
  <2>4. CASE r # n /\ ~(r \in asked /\ IsTransmit(table'[r], Len(out[r])))
    <3>1. out'[r] = out[r]
      BY <2>4 DEF TransmitStep
    <3> QED BY <2>1, <3>1
  <2> QED BY <2>2, <2>3, <2>4
<1>2. DOMAIN out' = Node /\ out' = [r \in Node |-> out'[r]]
  BY DEF TransmitStep
<1>3. seq' = seq /\ sent' = sent /\ announced' = announced
  BY DEF TransmitStep
<1>4. FramesOK'
  BY <1>1, <1>2, <1>3 DEF IInv, FramesOK
<1>5. AllBounded'
  BY <1>1, <1>3 DEF AllBounded
<1> QED BY <1>4, <1>5

\* The frame's sender is known by a number, and its queue was counted.
LEMMA TransmitTables ==
  ASSUME IInv, NEW n \in Node, NEW R, NEW f, NEW data, NEW new, NEW asked,
         TransmitStep(n, R, f, data, new, asked)
  PROVE  TablesOK'
<1>1. f \in Frame
  BY DEF IInv, FramesOK, TransmitStep
<1>2. f.srcId \in Nat /\ f.wait \in Nat
  BY <1>1 DEF Frame
<1> QED BY <1>2, HearSenderTables DEF IInv, TransmitStep

LEMMA TransmitInv ==
  ASSUME IInv, NEW n \in Node, Transmit(n)
  PROVE  IInv'
<1> PICK R, f, data, new, asked : TransmitStep(n, R, f, data, new, asked)
  BY TransmitParts
<1> QED BY TransmitFrames, TransmitTables, TransmitCounters DEF IInv

-----------------------------------------------------------------------------
(* The theorems *)

LEMMA NextInv == IInv /\ [Next]_vars => IInv'
<1> SUFFICES ASSUME IInv, [Next]_vars PROVE IInv'
  OBVIOUS
<1>1. ASSUME NEW n \in Node, Enqueue(n) PROVE IInv'
  <2>1. n \in Source /\ n \in Nat /\ Announced(out[n]) \in Nat
    BY NodesAreNumbers, AnnouncedLength DEF Source, IInv, FramesOK
  <2> QED BY <1>1, <2>1, OriginateInv DEF Enqueue
<1>2. ASSUME NEW n \in Node, NEW src \in Bridged, EnqueueFrom(n, src) PROVE IInv'
  <2>1. PICK type \in UnsetTypes : Originate(n, src, type, 0, 0)
    BY <1>2 DEF EnqueueFrom
  <2> QED BY <2>1, OriginateInv DEF Source
<1>3. ASSUME NEW n \in Node, AnnounceSlots(n) PROVE IInv'
  BY <1>3, AnnounceInv
<1>4. ASSUME NEW n \in Node, Transmit(n) PROVE IInv'
  BY <1>4, TransmitInv
<1>5. CASE CheckData
  BY <1>5, CheckDataInv
<1>6. ASSUME NEW n \in Expiring, Expire(n) PROVE IInv'
  BY <1>6, ExpireInv, ExpiringAreNodes
<1>7. CASE UNCHANGED vars
  <2>1. FramesOK' /\ AllBounded' /\ TablesOK'
    BY <1>7 DEF IInv, vars, FramesOK, AllBounded, TablesOK
  <2>2. CountersOK' /\ CountersAddUp'
    BY <1>7 DEF IInv, vars, counters, CountersOK, CountersAddUp, Distinct
  <2> QED BY <2>1, <2>2 DEF IInv
<1> QED BY <1>1, <1>2, <1>3, <1>4, <1>5, <1>6, <1>7 DEF Next

LEMMA Invariance == Spec => []IInv
BY InitInv, NextInv, PTL DEF Spec

\* The counters of the reports always add up (CheckData): received packets are
\* own, repeated or handed up, so the unsigned differences never wrap around.
THEOREM CountersAgree == Spec => []CountersAddUp
<1>1. IInv => CountersAddUp
  BY DEF IInv
<1> QED BY <1>1, Invariance, PTL

\* A frame's hop count stays within the limit (IsTTLEnd), only its origin has it
\* waiting with none, and no node sends its own packet on.
THEOREM HopsLimited == Spec => []HopsBounded
<1>1. IInv => HopsBounded
  BY DEF IInv, AllBounded, FrameBounded, HopsBounded
<1> QED BY <1>1, Invariance, PTL

\* A node whose queue is empty never decides against sending a packet on
\* (IsTransmit), whatever its neighbours announced and which of them it forgot.
THEOREM IdleNodesRelay == Spec => IdleRelaysSend
<1> DEFINE Refuses == \A n \in Node :
             (\E id \in Id : <<n, id>> \in refused' \ refused) => out[n] # <<>>
<1>1. IInv /\ [Next]_vars => [Refuses]_vars
  <2> SUFFICES ASSUME IInv, Next PROVE Refuses
    OBVIOUS
  <2>1. CASE refused' = refused
    BY <2>1
  <2>2. ASSUME NEW n \in Node, Transmit(n) PROVE Refuses
    <3> PICK R, f, data, new, asked : TransmitStep(n, R, f, data, new, asked)
      BY <2>2, TransmitParts
    <3> SUFFICES ASSUME NEW m \in Node, NEW id \in Id, <<m, id>> \in refused' \ refused
                 PROVE  out[m] # <<>>
      OBVIOUS
    <3>1. ~IsTransmit(table'[m], Len(out[m]))
      BY DEF TransmitStep
    <3>2. IsTable(table'[m])
      BY TransmitTables DEF TablesOK
    <3>3. out[m] = <<>> => Len(out[m]) = 0
      OBVIOUS
    <3> QED BY <3>1, <3>2, <3>3, IdleTransmits
  <2>3. ASSUME NEW n \in Expiring, Expire(n) PROVE Refuses
    BY <2>3 DEF Expire
  <2>4. \/ refused' = refused \/ \E n \in Node : Transmit(n)
        \/ \E n \in Expiring : Expire(n)
    BY DEF Next, Enqueue, EnqueueFrom, Originate, AnnounceSlots, CheckData, history
  <2> QED BY <2>1, <2>2, <2>3, <2>4
<1> QED BY <1>1, Invariance, PTL DEF Spec, IdleRelaysSend

-----------------------------------------------------------------------------
(* What a node remembers *)

Entry == Source \X Int

IsOneOf(list, entry) == \E i \in 1 .. Len(list) : list[i] = entry

\* No entry is in the list twice.
OnceEach(list) == \A i, j \in 1 .. Len(list) : list[i] = list[j] => i = j

\* A list without its item i.
LEMMA ListWithout ==
  ASSUME NEW S, NEW list \in Seq(S), NEW i \in 1 .. Len(list)
  PROVE  LET rest == SubSeq(list, 1, i - 1) \o SubSeq(list, i + 1, Len(list)) IN
         /\ rest \in Seq(S) /\ Len(rest) = Len(list) - 1
         /\ \A j \in 1 .. Len(list) - 1 : rest[j] = list[IF j < i THEN j ELSE j + 1]
<1> DEFINE n == Len(list)
           a == SubSeq(list, 1, i - 1)
           b == SubSeq(list, i + 1, n)
<1>1. n \in Nat /\ i \in 1 .. n /\ i \in Nat
  BY LenProperties
<1>2. \A j \in 1 .. n : list[j] \in S
  BY ElementOfSeq
<1>3. /\ a \in Seq(S) /\ Len(a) = IF 1 <= i - 1 THEN (i - 1) - 1 + 1 ELSE 0
      /\ \A j \in 1 .. (i - 1) - 1 + 1 : a[j] = list[1 + j - 1]
  <2>1. 1 \in Int /\ i - 1 \in Int /\ \A j \in 1 .. i - 1 : list[j] \in S
    BY <1>1, <1>2
  <2> QED BY <1>1, <2>1, SubSeqProperties
<1>4. /\ b \in Seq(S) /\ Len(b) = IF i + 1 <= n THEN n - (i + 1) + 1 ELSE 0
      /\ \A j \in 1 .. n - (i + 1) + 1 : b[j] = list[i + 1 + j - 1]
  <2>1. i + 1 \in Int /\ n \in Int /\ \A j \in i + 1 .. n : list[j] \in S
    BY <1>1, <1>2
  <2> QED BY <1>1, <2>1, SubSeqProperties
<1> HIDE DEF a, b
<1>5. Len(a) = i - 1 /\ Len(b) = n - i
  BY <1>1, <1>3, <1>4
<1>6. /\ a \o b \in Seq(S) /\ Len(a \o b) = Len(a) + Len(b)
      /\ \A j \in 1 .. Len(a) + Len(b) : (a \o b)[j] = IF j <= Len(a) THEN a[j] ELSE b[j - Len(a)]
  BY <1>3, <1>4, ConcatProperties
<1>7. ASSUME NEW j \in 1 .. n - 1
      PROVE  (a \o b)[j] = list[IF j < i THEN j ELSE j + 1]
  <2>1. (a \o b)[j] = IF j <= i - 1 THEN a[j] ELSE b[j - (i - 1)]
    BY <1>1, <1>5, <1>6
  <2>2. CASE j < i
    <3>1. j \in 1 .. (i - 1) - 1 + 1 /\ 1 + j - 1 = j /\ j <= i - 1
      BY <1>1, <2>2
    <3> QED BY <1>3, <2>1, <2>2, <3>1
  <2>3. CASE ~(j < i)
    <3>1. /\ j - (i - 1) \in 1 .. n - (i + 1) + 1 /\ i + 1 + (j - (i - 1)) - 1 = j + 1
          /\ ~(j <= i - 1)
      BY <1>1, <2>3
    <3> QED BY <1>4, <2>1, <2>3, <3>1
  <2> QED BY <2>2, <2>3
<1>8. Len(a \o b) = n - 1
  BY <1>1, <1>5, <1>6
<1> QED BY <1>6, <1>7, <1>8 DEF a, b

\* A repeat moves its entry to the back, and nothing else changes.
LEMMA RefreshedKeeps ==
  ASSUME NEW list \in Seq(Entry), OnceEach(list), NEW f, IsOneOf(list, <<f.src, f.seq>>)
  PROVE  /\ Refreshed(list, f) \in Seq(Entry) /\ OnceEach(Refreshed(list, f))
         /\ \A e : IsOneOf(Refreshed(list, f), e) <=> IsOneOf(list, e)
<1> DEFINE n == Len(list)
           entry == <<f.src, f.seq>>
           i == CHOOSE j \in 1 .. n : list[j] = entry
           rest == SubSeq(list, 1, i - 1) \o SubSeq(list, i + 1, n)
           new == Append(rest, entry)
<1>1. i \in 1 .. n /\ list[i] = entry /\ n \in Nat
  BY LenProperties DEF IsOneOf
<1> HIDE DEF i
<1>2. /\ rest \in Seq(Entry) /\ Len(rest) = n - 1
      /\ \A j \in 1 .. n - 1 : rest[j] = list[IF j < i THEN j ELSE j + 1]
  BY <1>1, ListWithout
<1>3. entry \in Entry
  BY <1>1, ElementOfSeq
<1> HIDE DEF rest
<1>4. /\ new \in Seq(Entry) /\ Len(new) = n
      /\ \A j \in 1 .. n - 1 : new[j] = rest[j]
      /\ new[n] = entry
  <2>1. /\ new \in Seq(Entry) /\ Len(new) = Len(rest) + 1
        /\ \A j \in 1 .. Len(rest) : new[j] = rest[j]
        /\ new[Len(rest) + 1] = entry
    BY <1>2, <1>3, AppendProperties
  <2>2. Len(rest) + 1 = n
    BY <1>1, <1>2
  <2> QED BY <1>2, <2>1, <2>2
<1> HIDE DEF new
<1> DEFINE at == [j \in 1 .. n |-> IF j = n THEN i ELSE IF j < i THEN j ELSE j + 1]
<1>5. \A j \in 1 .. n : at[j] \in 1 .. n /\ new[j] = list[at[j]]
  <2> SUFFICES ASSUME NEW j \in 1 .. n PROVE at[j] \in 1 .. n /\ new[j] = list[at[j]]
    OBVIOUS
  <2>1. CASE j = n
    BY <1>1, <1>4, <2>1
  <2>2. CASE j # n
    <3>1. j \in 1 .. n - 1
      BY <1>1, <2>2
    <3> QED BY <1>1, <1>2, <1>4, <2>2, <3>1
  <2> QED BY <2>1, <2>2
<1>6. \A j, k \in 1 .. n : at[j] = at[k] => j = k
  BY <1>1
<1>7. \A j \in 1 .. n : \E k \in 1 .. n : at[k] = j
  <2> SUFFICES ASSUME NEW j \in 1 .. n PROVE \E k \in 1 .. n : at[k] = j
    OBVIOUS
  <2>1. CASE j = i
    BY <1>1, <2>1
  <2>2. CASE j < i
    <3>1. at[j] = j
      BY <1>1, <2>2
    <3> QED BY <3>1
  <2>3. CASE j > i
    <3>1. j - 1 \in 1 .. n /\ at[j - 1] = j
      BY <1>1, <2>3
    <3> QED BY <3>1
  <2> QED BY <1>1, <2>1, <2>2, <2>3
<1> HIDE DEF at
<1>8. OnceEach(new)
  BY <1>4, <1>5, <1>6 DEF OnceEach
<1>9. \A e : IsOneOf(new, e) <=> IsOneOf(list, e)
  <2>1. ASSUME NEW e, NEW j \in 1 .. Len(new), new[j] = e PROVE IsOneOf(list, e)
    <3>1. at[j] \in 1 .. n /\ list[at[j]] = e
      BY <1>4, <1>5, <2>1
    <3> QED BY <3>1 DEF IsOneOf
  <2>2. ASSUME NEW e, NEW j \in 1 .. Len(list), list[j] = e PROVE IsOneOf(new, e)
    <3>1. PICK k \in 1 .. n : at[k] = j
      BY <1>7
    <3>2. k \in 1 .. Len(new) /\ new[k] = e
      BY <1>4, <1>5, <2>2, <3>1
    <3> QED BY <3>2 DEF IsOneOf
  <2> QED BY <2>1, <2>2 DEF IsOneOf
<1>10. Refreshed(list, f) = new
  BY DEF Refreshed, Matches, new, rest, i
<1> QED BY <1>4, <1>8, <1>9, <1>10

\* A new packet is put at the back; only where the list is full the oldest entry
\* goes.
LEMMA RememberedAdds ==
  ASSUME NEW list \in Seq(Entry), OnceEach(list), NEW entry \in Entry, ~IsOneOf(list, entry)
  PROVE  /\ Remembered(list, entry) \in Seq(Entry) /\ OnceEach(Remembered(list, entry))
         /\ IsOneOf(Remembered(list, entry), entry)
         /\ \A e : IsOneOf(Remembered(list, entry), e) => e = entry \/ IsOneOf(list, e)
         /\ Len(list) # Window =>
              \A e : IsOneOf(list, e) => IsOneOf(Remembered(list, entry), e)
<1> DEFINE base == IF Len(list) = Window THEN Tail(list) ELSE list
           new == Append(base, entry)
<1>1. Len(list) \in Nat
  BY LenProperties
<1>2. Len(list) = Window =>
        /\ Tail(list) \in Seq(Entry) /\ Len(Tail(list)) = Len(list) - 1
        /\ \A j \in 1 .. Len(list) - 1 : Tail(list)[j] = list[j + 1]
  <2> SUFFICES ASSUME Len(list) = Window
               PROVE  /\ Tail(list) \in Seq(Entry) /\ Len(Tail(list)) = Len(list) - 1
                      /\ \A j \in 1 .. Len(list) - 1 : Tail(list)[j] = list[j + 1]
    OBVIOUS
  <2>1. list # <<>>
    BY EmptySeq, NumbersAreNatural
  <2> QED BY <2>1, HeadTailProperties
<1>3. /\ base \in Seq(Entry) /\ Len(base) \in Nat
      /\ OnceEach(base) /\ \A e : IsOneOf(base, e) => IsOneOf(list, e)
  <2>1. CASE Len(list) # Window
    BY <1>1, <2>1
  <2>2. CASE Len(list) = Window
    <3>1. Window - 1 \in Nat /\ base = Tail(list)
      BY <2>2, NumbersAreNatural
    <3>2. \A j \in 1 .. Len(base) : j + 1 \in 1 .. Len(list) /\ base[j] = list[j + 1]
      BY <1>1, <1>2, <2>2, <3>1
    <3> HIDE DEF base
    <3>3. OnceEach(base)
      <4> SUFFICES ASSUME NEW j \in 1 .. Len(base), NEW k \in 1 .. Len(base), base[j] = base[k]
                   PROVE  j = k
        BY DEF OnceEach
      <4>1. j + 1 = k + 1
        BY <3>2 DEF OnceEach
      <4> QED BY <4>1
    <3>4. \A e : IsOneOf(base, e) => IsOneOf(list, e)
      BY <3>2 DEF IsOneOf
    <3> QED BY <1>1, <1>2, <2>2, <3>1, <3>3, <3>4
  <2> QED BY <2>1, <2>2
<1>4. Len(list) # Window => base = list
  OBVIOUS
<1> HIDE DEF base
<1>5. /\ new \in Seq(Entry) /\ Len(new) = Len(base) + 1
      /\ \A j \in 1 .. Len(base) : new[j] = base[j]
      /\ new[Len(base) + 1] = entry
  BY <1>3, AppendProperties
<1> HIDE DEF new
<1>6. ~IsOneOf(base, entry)
  BY <1>3
<1>7. OnceEach(new)
  <2> SUFFICES ASSUME NEW j \in 1 .. Len(new), NEW k \in 1 .. Len(new), new[j] = new[k]
               PROVE  j = k
    BY DEF OnceEach
  <2>1. \A h \in 1 .. Len(new) : h = Len(base) + 1 \/ (h \in 1 .. Len(base) /\ new[h] # entry)
    <3> SUFFICES ASSUME NEW h \in 1 .. Len(new), h # Len(base) + 1
                 PROVE  h \in 1 .. Len(base) /\ new[h] # entry
      OBVIOUS
    <3>1. h \in 1 .. Len(base)
      BY <1>3, <1>5
    <3> QED BY <1>5, <1>6, <3>1 DEF IsOneOf
  <2>2. CASE j \in 1 .. Len(base) /\ k \in 1 .. Len(base)
    BY <1>3, <1>5, <2>2 DEF OnceEach
  <2> QED BY <1>5, <2>1, <2>2
<1>8. IsOneOf(new, entry)
  <2>1. Len(base) + 1 \in 1 .. Len(new)
    BY <1>3, <1>5
  <2> QED BY <1>5, <2>1 DEF IsOneOf
<1>9. \A e : IsOneOf(new, e) => e = entry \/ IsOneOf(base, e)
  <2> SUFFICES ASSUME NEW e, NEW j \in 1 .. Len(new), new[j] = e, e # entry
               PROVE  IsOneOf(base, e)
    BY DEF IsOneOf
  <2>1. j \in 1 .. Len(base)
    BY <1>3, <1>5
  <2> QED BY <1>5, <2>1 DEF IsOneOf
<1>10. \A e : IsOneOf(base, e) => IsOneOf(new, e)
  <2> SUFFICES ASSUME NEW e, NEW j \in 1 .. Len(base), base[j] = e
               PROVE  IsOneOf(new, e)
    BY DEF IsOneOf
  <2>1. j \in 1 .. Len(new) /\ new[j] = e
    BY <1>3, <1>5
  <2> QED BY <2>1 DEF IsOneOf
<1>11. Remembered(list, entry) = new
  BY DEF Remembered, new, base
<1> QED BY <1>3, <1>4, <1>5, <1>7, <1>8, <1>9, <1>10, <1>11

-----------------------------------------------------------------------------
(* Which packets a node remembers *)

\* num numbers the packets: source and sequence number of each.  The node with
\* this list has handed up, by ups, a packet of each entry; count packets have
\* been sent.
Knows(num, count, list, ups) ==
  /\ list \in Seq(Entry) /\ OnceEach(list)
  /\ ups \in [Id -> Nat]
  /\ \A e \in Entry : IsOneOf(list, e) => \E id \in 1 .. count : num[id] = e /\ ups[id] >= 1

\* It has handed up no packet twice, and remembers those that it has handed up.
Once(num, count, list, ups) ==
  \A id \in Id :
    /\ ups[id] <= 1
    /\ ups[id] >= 1 => id \in 1 .. count /\ IsOneOf(list, num[id])

\* A node that lacks the entry of a packet has room for it: its entries are of
\* different packets.
LEMMA Room ==
  ASSUME NEW num \in [Id -> Entry], NEW count \in Nat, count <= MaxPackets,
         NEW list, NEW ups, Knows(num, count, list, ups),
         NEW new \in 1 .. count, ~IsOneOf(list, num[new])
  PROVE  Len(list) < count
<1> DEFINE others == (1 .. count) \ {new}
           F == [i \in 1 .. Len(list) |-> CHOOSE id \in 1 .. count : num[id] = list[i]]
<1>1. list \in Seq(Entry) /\ Len(list) \in Nat
  BY LenProperties DEF Knows
<1>2. ASSUME NEW i \in 1 .. Len(list) PROVE F[i] \in others /\ num[F[i]] = list[i]
  <2>1. list[i] \in Entry /\ IsOneOf(list, list[i])
    BY <1>1, ElementOfSeq DEF IsOneOf
  <2>2. \E id \in 1 .. count : num[id] = list[i]
    BY <2>1 DEF Knows
  <2>3. F[i] \in 1 .. count /\ num[F[i]] = list[i]
    BY <2>2
  <2> HIDE DEF F
  <2>4. F[i] # new
    BY <2>1, <2>3
  <2> QED BY <2>3, <2>4
<1>3. F \in [1 .. Len(list) -> others]
  BY <1>2
<1> HIDE DEF F
<1>4. \A i, j \in 1 .. Len(list) : F[i] = F[j] => i = j
  <2> SUFFICES ASSUME NEW i \in 1 .. Len(list), NEW j \in 1 .. Len(list), F[i] = F[j]
               PROVE  i = j
    OBVIOUS
  <2>1. list[i] = list[j]
    BY <1>2
  <2> QED BY <2>1 DEF Knows, OnceEach
<1>5. IsFiniteSet(others) /\ Cardinality(others) = count - 1
  <2>1. IsFiniteSet(1 .. count) /\ Cardinality(1 .. count) = count
    BY FS_Interval
  <2> QED BY <2>1, FS_RemoveElement
<1>6. IsFiniteSet(1 .. Len(list)) /\ Cardinality(1 .. Len(list)) = Len(list)
  <2>1. \A k \in Nat : IsFiniteSet(1 .. k) /\ Cardinality(1 .. k) = k
    BY FS_Interval
  <2> QED BY <1>1, <2>1
<1> HIDE DEF others
<1>7. ~(Cardinality(others) < Cardinality(1 .. Len(list)))
  BY <1>3, <1>4, <1>5, <1>6, FS_PigeonHole
<1> QED BY <1>1, <1>5, <1>6, <1>7

LEMMA AcceptKnows ==
  ASSUME NEW num \in [Id -> Entry], NEW count \in Nat, count <= MaxPackets,
         NEW list, NEW ups, Knows(num, count, list, ups),
         NEW new \in 1 .. count, ~IsOneOf(list, num[new])
  PROVE  Knows(num, count, Remembered(list, num[new]), [ups EXCEPT ![new] = @ + 1])
<1> DEFINE list2 == Remembered(list, num[new])
           ups2 == [ups EXCEPT ![new] = @ + 1]
<1>1. new \in Id /\ num[new] \in Entry /\ 1 .. count \subseteq Id
  BY NumbersAreNatural DEF Id
<1>2. list \in Seq(Entry) /\ OnceEach(list) /\ ups \in [Id -> Nat]
  BY DEF Knows
<1>3. /\ list2 \in Seq(Entry) /\ OnceEach(list2)
      /\ \A e : IsOneOf(list2, e) => e = num[new] \/ IsOneOf(list, e)
  BY <1>1, <1>2, RememberedAdds
<1>4. ups2 \in [Id -> Nat] /\ ups2[new] >= 1 /\ \A id \in Id : ups2[id] >= ups[id]
  BY <1>1, <1>2
<1> HIDE DEF list2, ups2
<1>5. ASSUME NEW e \in Entry, IsOneOf(list2, e)
      PROVE  \E id \in 1 .. count : num[id] = e /\ ups2[id] >= 1
  <2>1. CASE e = num[new]
    BY <1>4, <2>1
  <2>2. CASE IsOneOf(list, e)
    <3>1. PICK id \in 1 .. count : num[id] = e /\ ups[id] >= 1
      BY <2>2 DEF Knows
    <3>2. id \in Id /\ ups2[id] >= ups[id] /\ ups2[id] \in Nat /\ ups[id] \in Nat
      BY <1>1, <1>2, <1>4
    <3>3. ups2[id] >= 1
      BY <3>1, <3>2
    <3> QED BY <3>1, <3>3
  <2> QED BY <1>3, <1>5, <2>1, <2>2
<1>6. Knows(num, count, list2, ups2)
  BY <1>3, <1>4, <1>5 DEF Knows
<1> QED BY <1>6 DEF list2, ups2

LEMMA AcceptOnce ==
  ASSUME MaxPackets <= Window,
         NEW num \in [Id -> Entry], NEW count \in Nat, count <= MaxPackets,
         NEW list, NEW ups, Knows(num, count, list, ups), Once(num, count, list, ups),
         NEW new \in 1 .. count, ~IsOneOf(list, num[new])
  PROVE  Once(num, count, Remembered(list, num[new]), [ups EXCEPT ![new] = @ + 1])
<1> DEFINE list2 == Remembered(list, num[new])
           ups2 == [ups EXCEPT ![new] = @ + 1]
<1>1. new \in Id /\ num[new] \in Entry
  BY NumbersAreNatural DEF Id
<1>2. list \in Seq(Entry) /\ OnceEach(list) /\ ups \in [Id -> Nat] /\ Len(list) \in Nat
  BY LenProperties DEF Knows
<1>3. Len(list) # Window
  <2>1. Len(list) < count
    BY Room
  <2> QED BY <1>2, <2>1, NumbersAreNatural
<1>4. IsOneOf(list2, num[new]) /\ \A e : IsOneOf(list, e) => IsOneOf(list2, e)
  BY <1>1, <1>2, <1>3, RememberedAdds
<1>5. ~(ups[new] >= 1)
  BY <1>1 DEF Once
<1>6. ups2[new] = 1 /\ \A id \in Id : id # new => ups2[id] = ups[id]
  BY <1>1, <1>2, <1>5
<1> HIDE DEF list2, ups2
<1>7. Once(num, count, list2, ups2)
  BY <1>1, <1>4, <1>6 DEF Once
<1> QED BY <1>7 DEF list2, ups2

\* A repeat changes what the node knows in no way.
LEMMA RepeatKnows ==
  ASSUME NEW num \in [Id -> Entry], NEW count \in Nat, NEW list, NEW ups,
         Knows(num, count, list, ups), NEW f, IsOneOf(list, <<f.src, f.seq>>)
  PROVE  /\ Knows(num, count, Refreshed(list, f), ups)
         /\ Once(num, count, list, ups) => Once(num, count, Refreshed(list, f), ups)
<1>1. list \in Seq(Entry) /\ OnceEach(list)
  BY DEF Knows
<1> DEFINE list2 == Refreshed(list, f)
<1>2. /\ list2 \in Seq(Entry) /\ OnceEach(list2)
      /\ \A e : IsOneOf(list2, e) <=> IsOneOf(list, e)
  BY <1>1, RefreshedKeeps
<1> HIDE DEF list2
<1>3. Knows(num, count, list2, ups) /\ (Once(num, count, list, ups) => Once(num, count, list2, ups))
  BY <1>2 DEF Knows, Once
<1> QED BY <1>3 DEF list2

\* One packet more has been sent, and numbered: the lists are of the others.
LEMMA SentKnows ==
  ASSUME NEW num \in [Id -> Entry], NEW count \in Nat, count < MaxPackets,
         NEW list, NEW ups, Knows(num, count, list, ups), NEW entry \in Entry
  PROVE  LET num2 == [num EXCEPT ![count + 1] = entry] IN
         /\ Knows(num2, count + 1, list, ups)
         /\ Once(num, count, list, ups) => Once(num2, count + 1, list, ups)
<1> DEFINE num2 == [num EXCEPT ![count + 1] = entry]
<1>1. \A id \in 1 .. count : id \in 1 .. count + 1 /\ num2[id] = num[id]
  BY NumbersAreNatural DEF Id
<1> HIDE DEF num2
<1>2. Knows(num2, count + 1, list, ups)
  BY <1>1 DEF Knows
<1>3. Once(num, count, list, ups) => Once(num2, count + 1, list, ups)
  BY <1>1 DEF Once
<1> QED BY <1>2, <1>3 DEF num2

\* The frames that wait carry the numbers of their packets, and every node knows
\* what it has heard.
Known(num) ==
  /\ Len(sent) <= MaxPackets
  /\ \A n \in Node : Knows(num, Len(sent), heard[n], handedUp[n])
  /\ \A n \in Node : \A i \in 1 .. Len(out[n]) :
       num[out[n][i].id] = <<out[n][i].src, out[n][i].seq>>

KnownOnce(num) == \A n \in Node : Once(num, Len(sent), heard[n], handedUp[n])

\* (Without a node there is no entry to number a packet with.)
OnceInv == Node # {} => \E num \in [Id -> Entry] : Known(num) /\ KnownOnce(num)

\* At the start any numbering does.
LEMMA InitKnown ==
  ASSUME Init, NEW num \in [Id -> Entry]
  PROVE  Known(num) /\ KnownOnce(num)
<1>1. Len(sent) = 0
  BY DEF Init
<1>2. ASSUME NEW n \in Node
      PROVE  Knows(num, Len(sent), heard[n], handedUp[n]) /\ Once(num, Len(sent), heard[n], handedUp[n])
  <2>1. heard[n] = <<>> /\ handedUp[n] = [id \in Id |-> 0] /\ <<>> \in Seq(Entry)
    BY DEF Init
  <2> QED BY <2>1 DEF Knows, Once, OnceEach, IsOneOf
<1>3. \A n \in Node : out[n] = <<>>
  BY DEF Init
<1> QED BY <1>1, <1>2, <1>3, NumbersAreNatural DEF Known, KnownOnce

LEMMA OriginateKnown ==
  ASSUME IInv, NEW n \in Node, NEW src \in Source, NEW type \in UnsetTypes \cup {"DATA"},
         NEW srcId \in Nat, NEW wait \in Nat, Originate(n, src, type, srcId, wait),
         NEW number \in Int, number = seq'[n],
         NEW num \in [Id -> Entry], Known(num),
         NEW num2, num2 = [num EXCEPT ![Len(sent) + 1] = <<src, number>>]
  PROVE  Known(num2)' /\ (KnownOnce(num) => KnownOnce(num2)')
<1> DEFINE f == Header(src, number, type, srcId, wait, Len(sent) + 1)
           k == Len(sent)
<1>1. k \in Nat /\ k < MaxPackets /\ k + 1 \in Id
  BY NumbersAreNatural DEF IInv, FramesOK, Originate, Id
<1>2. Len(sent') = k + 1 /\ heard' = heard /\ handedUp' = handedUp
  BY DEF IInv, FramesOK, Originate, history
<1>3. <<src, number>> \in Entry
  BY DEF Entry
<1>4. f \in Frame /\ f.src = src /\ f.seq = number /\ f.id = k + 1
  BY <1>1 DEF Header, Frame
<1>5. out' = [out EXCEPT ![n] = Queued(out[n], f)]
  BY DEF Originate, IInv, FramesOK
<1> HIDE DEF f, k
<1>6. ASSUME NEW m \in Node
      PROVE  /\ Knows(num2, k + 1, heard[m], handedUp[m])
             /\ KnownOnce(num) => Once(num2, k + 1, heard[m], handedUp[m])
  <2>1. Knows(num, k, heard[m], handedUp[m])
    BY DEF Known, k
  <2>2. num2 = [num EXCEPT ![k + 1] = <<src, number>>]
    BY DEF k
  <2>3. KnownOnce(num) => Once(num, k, heard[m], handedUp[m])
    BY DEF KnownOnce, k
  <2>4. LET num3 == [num EXCEPT ![k + 1] = <<src, number>>] IN
        /\ Knows(num3, k + 1, heard[m], handedUp[m])
        /\ Once(num, k, heard[m], handedUp[m]) => Once(num3, k + 1, heard[m], handedUp[m])
    BY <1>1, <1>3, <2>1, SentKnows
  <2> QED BY <2>2, <2>3, <2>4
<1>7. num2[k + 1] = <<src, number>> /\ \A id \in 1 .. k : num2[id] = num[id]
  BY <1>1 DEF k, Id
<1>8. ASSUME NEW m \in Node, NEW i \in 1 .. Len(out[m])
      PROVE  num2[out[m][i].id] = <<out[m][i].src, out[m][i].seq>>
  <2>1. out[m][i].id \in 1 .. k
    BY DEF IInv, AllBounded, FrameBounded, k
  <2> QED BY <1>7, <2>1 DEF Known
<1>9. ASSUME NEW m \in Node, NEW i \in 1 .. Len(out'[m])
      PROVE  num2[out'[m][i].id] = <<out'[m][i].src, out'[m][i].seq>>
  <2>1. CASE m = n
    <3>1. out'[m] = Queued(out[n], f) /\ out[n] \in Seq(Frame)
      BY <1>5, <2>1 DEF IInv, FramesOK
    <3>2. \A j \in 1 .. Len(Queued(out[n], f)) :
            Queued(out[n], f)[j] = f \/ (j \in 1 .. Len(out[n]) /\ Queued(out[n], f)[j] = out[n][j])
      BY <1>4, <3>1, QueuedFrames
    <3>3. out'[m][i] = f \/ (i \in 1 .. Len(out[m]) /\ out'[m][i] = out[m][i])
      BY <2>1, <3>1, <3>2
    <3>4. CASE out'[m][i] = f
      BY <1>4, <1>7, <3>4
    <3>5. CASE i \in 1 .. Len(out[m]) /\ out'[m][i] = out[m][i]
      <4>1. num2[out[m][i].id] = <<out[m][i].src, out[m][i].seq>>
        BY <1>8, <3>5
      <4> QED BY <3>5, <4>1
    <3> QED BY <3>3, <3>4, <3>5
  <2>2. CASE m # n
    <3>1. out'[m] = out[m]
      BY <1>5, <2>2 DEF IInv, FramesOK
    <3> QED BY <1>8, <3>1
  <2> QED BY <2>1, <2>2
<1>10. Known(num2)'
  <2>1. Len(sent') <= MaxPackets
    BY <1>1, <1>2, NumbersAreNatural
  <2>2. \A m \in Node : Knows(num2, Len(sent'), heard'[m], handedUp'[m])
    BY <1>2, <1>6
  <2> QED BY <1>9, <2>1, <2>2 DEF Known
<1>11. KnownOnce(num) => KnownOnce(num2)'
  BY <1>2, <1>6 DEF KnownOnce
<1> QED BY <1>10, <1>11

\* What hearing a frame makes of what a node knows.
LEMMA HearKnown ==
  ASSUME NEW num \in [Id -> Entry], IInv, Known(num), NEW n \in Node,
         NEW R, NEW f, NEW data, NEW new, NEW asked,
         TransmitStep(n, R, f, data, new, asked), NEW r \in Node
  PROVE  /\ Knows(num, Len(sent), heard'[r], handedUp'[r])
         /\ MaxPackets <= Window /\ KnownOnce(num) =>
              Once(num, Len(sent), heard'[r], handedUp'[r])
<1> DEFINE k == Len(sent)
           list == heard[r]
           ups == handedUp[r]
           list2 == heard'[r]
           ups2 == handedUp'[r]
<1>1. /\ k \in Nat /\ k <= MaxPackets /\ Knows(num, k, list, ups)
      /\ KnownOnce(num) => Once(num, k, list, ups)
  BY DEF IInv, FramesOK, Known, KnownOnce
<1>2. 1 \in 1 .. Len(out[n]) /\ f = out[n][1]
  BY DEF IInv, FramesOK, TransmitStep
<1>3. f.id \in 1 .. k /\ num[f.id] = <<f.src, f.seq>>
  BY <1>2 DEF IInv, AllBounded, FrameBounded, Known
<1>4. IsRepeat(r, f) <=> IsOneOf(list, <<f.src, f.seq>>)
  BY DEF IsRepeat, Matches, IsOneOf
<1>5. CASE r \in new
  <2>1. /\ list2 = Remembered(list, num[f.id]) /\ ups2 = [ups EXCEPT ![f.id] = @ + 1]
        /\ ~IsOneOf(list, num[f.id])
    BY <1>3, <1>4, <1>5 DEF TransmitStep, HeardAfter, IsNew
  <2> HIDE DEF k, list, ups, list2, ups2
  <2>2. Knows(num, k, list2, ups2)
    BY <1>1, <1>3, <2>1, AcceptKnows
  <2>3. MaxPackets <= Window /\ KnownOnce(num) => Once(num, k, list2, ups2)
    BY <1>1, <1>3, <2>1, AcceptOnce
  <2> QED BY <2>2, <2>3 DEF k, list2, ups2
<1>6. CASE r \notin new /\ r \in R /\ f.type = "DATA" /\ f.src # r
  <2>1. /\ list2 = Refreshed(list, f) /\ ups2 = ups
        /\ IsOneOf(list, <<f.src, f.seq>>)
    BY <1>4, <1>6 DEF TransmitStep, HeardAfter, IsNew
  <2> HIDE DEF k, list, ups, list2, ups2
  <2>2. Knows(num, k, list2, ups2) /\ (Once(num, k, list, ups) => Once(num, k, list2, ups2))
    BY <1>1, <2>1, RepeatKnows
  <2> QED BY <1>1, <2>2 DEF k, list2, ups2
<1>7. CASE r \notin new /\ ~(r \in R /\ f.type = "DATA" /\ f.src # r)
  <2>1. list2 = list /\ ups2 = ups
    BY <1>7 DEF TransmitStep, HeardAfter
  <2> QED BY <1>1, <2>1
<1> QED BY <1>5, <1>6, <1>7

LEMMA TransmitKnown ==
  ASSUME NEW num \in [Id -> Entry], IInv, Known(num), NEW n \in Node, Transmit(n)
  PROVE  Known(num)' /\ (MaxPackets <= Window /\ KnownOnce(num) => KnownOnce(num)')
<1> PICK R, f, data, new, asked : TransmitStep(n, R, f, data, new, asked)
  BY TransmitParts
<1>1. sent' = sent
  BY DEF TransmitStep
<1>2. \A r \in Node : Knows(num, Len(sent), heard'[r], handedUp'[r])
  BY HearKnown
<1>3. MaxPackets <= Window /\ KnownOnce(num) =>
        \A r \in Node : Once(num, Len(sent), heard'[r], handedUp'[r])
  BY HearKnown
<1>4. 1 \in 1 .. Len(out[n]) /\ f = out[n][1] /\ f \in Frame
  BY DEF IInv, FramesOK, TransmitStep
<1>5. num[f.id] = <<f.src, f.seq>>
  BY <1>4 DEF Known
<1>6. ASSUME NEW r \in Node, NEW i \in 1 .. Len(out'[r])
      PROVE  num[out'[r][i].id] = <<out'[r][i].src, out'[r][i].seq>>
  <2>1. out[r] \in Seq(Frame) /\ r \in Nat
    BY NodesAreNumbers DEF IInv, FramesOK
  <2>2. CASE r = n
    <3>1. out'[r] = Tail(out[r]) /\ out[r] # <<>>
      BY <2>2 DEF TransmitStep, Sent
    <3>2. i + 1 \in 1 .. Len(out[r]) /\ out'[r][i] = out[r][i + 1]
      BY <2>1, <3>1
    <3> QED BY <3>2 DEF Known
  <2>3. CASE r # n /\ r \in asked /\ IsTransmit(table'[r], Len(out[r]))
    <3>1. out'[r] = Queued(out[r], SentOn(r, f))
      BY <2>3 DEF TransmitStep
    <3>2. /\ SentOn(r, f) \in Frame /\ SentOn(r, f).id = f.id
          /\ SentOn(r, f).src = f.src /\ SentOn(r, f).seq = f.seq
      BY <1>4, <2>1, SentOnFrame
    <3>3. \A j \in 1 .. Len(Queued(out[r], SentOn(r, f))) :
            \/ Queued(out[r], SentOn(r, f))[j] = SentOn(r, f)
            \/ j \in 1 .. Len(out[r]) /\ Queued(out[r], SentOn(r, f))[j] = out[r][j]
      BY <2>1, <3>2, QueuedFrames
    <3>4. out'[r][i] = SentOn(r, f) \/ (i \in 1 .. Len(out[r]) /\ out'[r][i] = out[r][i])
      BY <3>1, <3>3
    <3> QED BY <1>5, <3>2, <3>4 DEF Known
  <2>4. CASE r # n /\ ~(r \in asked /\ IsTransmit(table'[r], Len(out[r])))
    <3>1. out'[r] = out[r]
      BY <2>4 DEF TransmitStep
    <3> QED BY <3>1 DEF Known
  <2> QED BY <2>2, <2>3, <2>4
<1>7. Known(num)'
  BY <1>1, <1>2, <1>6 DEF Known
<1>8. MaxPackets <= Window /\ KnownOnce(num) => KnownOnce(num)'
  BY <1>1, <1>3 DEF KnownOnce
<1> QED BY <1>7, <1>8

\* No other step changes a queue of frames or what a node knows.
LEMMA OthersKnown ==
  ASSUME NEW num \in [Id -> Entry], Known(num), UNCHANGED <<heard, handedUp, sent, out>>
  PROVE  Known(num)' /\ (KnownOnce(num) => KnownOnce(num)')
BY DEF Known, KnownOnce

\* When a frame is dropped, those that wait carry the numbers they had.
LEMMA ExpireKnown ==
  ASSUME NEW num \in [Id -> Entry], IInv, Known(num), NEW n \in Node, Expire(n)
  PROVE  Known(num)' /\ (KnownOnce(num) => KnownOnce(num)')
<1>1. UNCHANGED <<heard, handedUp, sent>>
  BY DEF Expire
<1>2. \A m \in Node : \A i \in 1 .. Len(out'[m]) :
        num[out'[m][i].id] = <<out'[m][i].src, out'[m][i].seq>>
  <2>1. \A m \in Node : \A i \in 1 .. Len(out[m]) :
          num[out[m][i].id] = <<out[m][i].src, out[m][i].seq>>
    BY DEF Known
  <2>2. \A m \in Node : \A i \in 1 .. Len(out'[m]) :
          \E j \in 1 .. Len(out[m]) : out'[m][i] = out[m][j]
    BY ExpireQueues
  <2> SUFFICES ASSUME NEW m \in Node, NEW i \in 1 .. Len(out'[m])
               PROVE  num[out'[m][i].id] = <<out'[m][i].src, out'[m][i].seq>>
    OBVIOUS
  <2>3. PICK j \in 1 .. Len(out[m]) : out'[m][i] = out[m][j]
    BY <2>2
  <2> QED BY <2>1, <2>3
<1> QED BY <1>1, <1>2 DEF Known, KnownOnce

LEMMA SomeNumber ==
  ASSUME Node # {}
  PROVE  \E num : num \in [Id -> Entry]
<1> PICK n \in Node : TRUE
  OBVIOUS
<1> DEFINE num == [id \in Id |-> <<n, 0>>]
<1>1. <<n, 0>> \in Entry
  BY DEF Entry, Source
<1>2. num \in [Id -> Entry]
  BY <1>1
<1> QED BY <1>2

\* An enqueued packet has a source, a type and a queue length of its kind.
LEMMA EnqueueKnown ==
  ASSUME IInv, NEW n \in Node, NEW src \in Source,
         (src = n /\ Enqueue(n)) \/ (src \in Bridged /\ EnqueueFrom(n, src)),
         NEW number \in Int, number = seq'[n],
         NEW num \in [Id -> Entry], Known(num),
         NEW num2, num2 = [num EXCEPT ![Len(sent) + 1] = <<src, number>>]
  PROVE  Known(num2)' /\ (KnownOnce(num) => KnownOnce(num2)')
<1>1. CASE src = n /\ Enqueue(n)
  <2>1. n \in Nat /\ Announced(out[n]) \in Nat
    BY NodesAreNumbers, AnnouncedLength DEF IInv, FramesOK
  <2>2. Originate(n, src, "DATA", n, Announced(out[n]))
    BY <1>1 DEF Enqueue
  <2> QED BY <2>1, <2>2, OriginateKnown
<1>2. CASE src \in Bridged /\ EnqueueFrom(n, src)
  <2>1. PICK type \in UnsetTypes : Originate(n, src, type, 0, 0)
    BY <1>2 DEF EnqueueFrom
  <2> QED BY <2>1, OriginateKnown
<1> QED BY <1>1, <1>2

\* The numbering that goes with the packet a node enqueues.
LEMMA NextNumber ==
  ASSUME IInv, NEW n \in Node, NEW src \in Source, NEW num \in [Id -> Entry],
         (src = n /\ Enqueue(n)) \/ (src \in Bridged /\ EnqueueFrom(n, src))
  PROVE  \E number \in Int :
           /\ number = seq'[n]
           /\ [num EXCEPT ![Len(sent) + 1] = <<src, number>>] \in [Id -> Entry]
<1>1. seq'[n] \in Int
  BY NumbersAreNatural DEF IInv, FramesOK, Enqueue, EnqueueFrom, Originate, NewSeq
<1>2. \A number \in Int : <<src, number>> \in Entry
  BY DEF Entry
<1> QED BY <1>1, <1>2

LEMMA OnceStep ==
  MaxPackets <= Window => (IInv /\ OnceInv /\ [Next]_vars => OnceInv')
<1> SUFFICES ASSUME MaxPackets <= Window, IInv, OnceInv, [Next]_vars, Node # {}
             PROVE  \E num \in [Id -> Entry] : Known(num)' /\ KnownOnce(num)'
  BY DEF OnceInv
<1> PICK num \in [Id -> Entry] : Known(num) /\ KnownOnce(num)
  BY DEF OnceInv
<1>1. ASSUME NEW n \in Node, NEW src \in Source,
             (src = n /\ Enqueue(n)) \/ (src \in Bridged /\ EnqueueFrom(n, src))
      PROVE  \E num2 \in [Id -> Entry] : Known(num2)' /\ KnownOnce(num2)'
  <2> PICK number \in Int :
           /\ number = seq'[n]
           /\ [num EXCEPT ![Len(sent) + 1] = <<src, number>>] \in [Id -> Entry]
    BY <1>1, NextNumber
  <2> PICK num2 \in [Id -> Entry] : num2 = [num EXCEPT ![Len(sent) + 1] = <<src, number>>]
    OBVIOUS
  <2>1. Known(num2)' /\ KnownOnce(num2)'
    BY <1>1, EnqueueKnown
  <2> QED BY <2>1
<1>2. ASSUME NEW n \in Node, Transmit(n) PROVE Known(num)' /\ KnownOnce(num)'
  BY <1>2, TransmitKnown
<1>3. CASE (\E n \in Node : AnnounceSlots(n)) \/ CheckData \/ UNCHANGED vars
  <2>1. UNCHANGED <<heard, handedUp, sent, out>>
    BY <1>3 DEF AnnounceSlots, CheckData, vars, history
  <2> QED BY <2>1, OthersKnown
<1>4. Node \subseteq Source /\ Bridged \subseteq Source
  BY DEF Source
<1>5. ASSUME NEW n \in Expiring, Expire(n) PROVE Known(num)' /\ KnownOnce(num)'
  BY <1>5, ExpireKnown, ExpiringAreNodes
<1> QED BY <1>1, <1>2, <1>3, <1>4, <1>5 DEF Next

\* No node hands a packet up twice, whatever paths it comes along, how often the
\* neighbours repeat it and in which order (HeardAfter), as long as no more packets
\* have been sent in all than a node remembers (m_recvQueueMaxSize).
THEOREM NotHandedUpTwice ==
  ASSUME MaxPackets <= Window
  PROVE  Spec => []HandedUpOnce
<1>1. Init => OnceInv
  BY InitKnown, SomeNumber DEF OnceInv
<1>2. IInv /\ OnceInv /\ [Next]_vars => OnceInv'
  BY OnceStep
<1>3. OnceInv => HandedUpOnce
  BY DEF OnceInv, KnownOnce, Once, HandedUpOnce
<1> QED BY <1>1, <1>2, <1>3, Invariance, PTL DEF Spec

-----------------------------------------------------------------------------
(* Sequence numbers *)

\* How many numbers come after y until x does.
Ahead(x, y) == IF y <= x THEN x - y ELSE x - y + SeqEnd

\* A packet that has been numbered by its own source.
Owned(id) == id \in 1 .. Len(sent) /\ sent[id].src = sent[id].by

\* No source has gone further from a packet's number than numbers have been drawn
\* since; so packets with the same number have a whole cycle between them.
Drawn(num) ==
  /\ announced <= MaxAnnounced
  /\ seq \in [Node -> 0 .. SeqEnd - 1]
  /\ \A id \in 1 .. Len(sent) :
       /\ num[id][1] = sent[id].src
       /\ sent[id].at < Drawings
       /\ sent[id].src \in Node => sent[id].src = sent[id].by
       /\ Owned(id) =>
            /\ num[id][2] \in 0 .. SeqEnd - 1
            /\ Ahead(seq[sent[id].by], num[id][2]) < Drawings - sent[id].at
  /\ \A id, other \in 1 .. Len(sent) :
       Owned(id) /\ num[id] = num[other] => id = other \/ CycleBetween(id, other)

DrawnInv ==
  Node # {} => \E num \in [Id -> Entry] : Known(num) /\ Drawn(num)

LEMMA SentRecords ==
  ASSUME FramesOK, NEW id \in 1 .. Len(sent)
  PROVE  sent[id].by \in Node /\ sent[id].src \in Source /\ sent[id].at \in Nat
<1>1. sent[id] \in Packet
  BY ElementOfSeq DEF FramesOK
<1> QED BY <1>1 DEF Packet

\* The next number is one further from every other, or is that number, after a
\* whole cycle.
LEMMA NewSeqAhead ==
  ASSUME NEW x \in 0 .. SeqEnd - 1, NEW y \in 0 .. SeqEnd - 1
  PROVE  /\ NewSeq(x) \in 0 .. SeqEnd - 1
         /\ Ahead(x, y) \in Nat /\ Ahead(NewSeq(x), y) \in Nat
         /\ Ahead(NewSeq(x), y) <= Ahead(x, y) + 1
         /\ NewSeq(x) = y => Ahead(x, y) = SeqEnd - 1
         /\ Ahead(y, y) = 0
BY NumbersAreNatural DEF NewSeq, Ahead

LEMMA InitDrawn ==
  ASSUME Init, NEW num \in [Id -> Entry]
  PROVE  Drawn(num)
BY NumbersAreNatural DEF Init, Drawn

\* The sources stay near their packets' numbers when one of them draws another.
LEMMA DrawNext ==
  ASSUME IInv, NEW n \in Node, NEW num, Drawn(num),
         seq' = [seq EXCEPT ![n] = NewSeq(seq[n])],
         NEW id \in 1 .. Len(sent), Owned(id)
  PROVE  Ahead(seq'[sent[id].by], num[id][2]) < (Drawings + 1) - sent[id].at
<1>1. /\ seq \in [Node -> 0 .. SeqEnd - 1] /\ num[id][2] \in 0 .. SeqEnd - 1
      /\ Ahead(seq[sent[id].by], num[id][2]) < Drawings - sent[id].at
  BY DEF Drawn
<1>2. sent[id].by \in Node /\ sent[id].at \in Nat /\ Drawings \in Nat
  BY SentRecords DEF IInv, FramesOK, Drawings
<1> DEFINE x == seq[sent[id].by]
<1>3. x \in 0 .. SeqEnd - 1 /\ (seq'[sent[id].by] = x \/ seq'[sent[id].by] = NewSeq(x))
  BY <1>1, <1>2
<1> HIDE DEF x
<1>4. /\ Ahead(x, num[id][2]) \in Nat /\ Ahead(NewSeq(x), num[id][2]) \in Nat
      /\ Ahead(NewSeq(x), num[id][2]) <= Ahead(x, num[id][2]) + 1
  BY <1>1, <1>3, NewSeqAhead
<1>5. Ahead(x, num[id][2]) < Drawings - sent[id].at
  BY <1>1 DEF x
<1> QED BY <1>2, <1>3, <1>4, <1>5

\* A packet a node originates has the number of another of the same source only
\* when a cycle of numbers has been drawn since, unless the source is another than
\* the node.
LEMMA OriginateDrawn ==
  ASSUME IInv, NEW n \in Node, NEW src \in Source, src = n \/ src \in Bridged,
         sent' = Append(sent, [by |-> n, src |-> src, at |-> Drawings]),
         seq' = [seq EXCEPT ![n] = NewSeq(seq[n])],
         announced' = announced, Len(sent) < MaxPackets,
         NEW num \in [Id -> Entry], Drawn(num),
         NEW number, number = seq'[n],
         NEW num2, num2 = [num EXCEPT ![Len(sent) + 1] = <<src, number>>]
  PROVE  Drawn(num2)'
<1> DEFINE k == Len(sent)
<1>1. k \in Nat /\ k < MaxPackets /\ k + 1 \in Id /\ 1 .. k \subseteq Id
  BY NumbersAreNatural DEF IInv, FramesOK, Id
<1>2. /\ Len(sent') = k + 1 /\ sent'[k + 1] = [by |-> n, src |-> src, at |-> Drawings]
      /\ \A id \in 1 .. k : sent'[id] = sent[id]
  BY DEF IInv, FramesOK
<1>3. num2[k + 1] = <<src, number>> /\ \A id \in 1 .. k : num2[id] = num[id]
  BY <1>1
<1>4. Drawings \in Nat /\ Drawings' = Drawings + 1
  <2>1. Drawings = k + announced /\ Drawings' = Len(sent') + announced /\ announced \in Nat
    BY DEF Drawings, IInv, FramesOK
  <2> HIDE DEF k
  <2> QED BY <1>1, <1>2, <2>1
<1>5. ASSUME NEW id \in 1 .. k
      PROVE  sent[id].by \in Node /\ sent[id].at \in Nat /\ sent[id].at < Drawings
  BY SentRecords DEF IInv, Drawn
<1>6. seq \in [Node -> 0 .. SeqEnd - 1]
  BY DEF Drawn
<1>7. number = NewSeq(seq[n]) /\ number \in 0 .. SeqEnd - 1
  BY <1>6, NewSeqAhead
<1>8. seq' \in [Node -> 0 .. SeqEnd - 1]
  BY <1>6, <1>7
<1>9. \A id \in 1 .. k + 1 : id = k + 1 \/ id \in 1 .. k
  BY <1>1
<1>10. src \in Node => src = n
  BY BridgedAreNoNodes
<1> DEFINE NewOwned(id) == id \in 1 .. Len(sent') /\ sent'[id].src = sent'[id].by
<1>11. /\ NewOwned(k + 1) => src = n
       /\ \A id \in 1 .. k : NewOwned(id) => Owned(id)
  BY <1>2 DEF Owned
<1>12. ASSUME NEW id \in 1 .. k + 1
       PROVE  /\ num2[id][1] = sent'[id].src
              /\ sent'[id].at < Drawings'
              /\ sent'[id].src \in Node => sent'[id].src = sent'[id].by
              /\ NewOwned(id) =>
                   /\ num2[id][2] \in 0 .. SeqEnd - 1
                   /\ Ahead(seq'[sent'[id].by], num2[id][2]) < Drawings' - sent'[id].at
  <2>1. CASE id = k + 1
    <3>1. Ahead(number, number) = 0
      BY <1>6, <1>7, NewSeqAhead
    <3> QED BY <1>2, <1>3, <1>4, <1>7, <1>10, <2>1, <3>1
  <2>2. CASE id \in 1 .. k
    <3>1. /\ num[id][1] = sent[id].src
          /\ sent[id].src \in Node => sent[id].src = sent[id].by
          /\ Owned(id) => num[id][2] \in 0 .. SeqEnd - 1
      BY <2>2 DEF Drawn
    <3>2. Owned(id) => Ahead(seq'[sent[id].by], num[id][2]) < (Drawings + 1) - sent[id].at
      BY <2>2, DrawNext
    <3>3. sent'[id] = sent[id] /\ num2[id] = num[id] /\ (NewOwned(id) => Owned(id))
      BY <1>2, <1>3, <1>11, <2>2
    <3>4. sent[id].at \in Nat /\ sent[id].at < Drawings
      BY <1>5, <2>2
    <3> HIDE DEF k, NewOwned
    <3>5. sent[id].at < Drawings'
      BY <1>4, <3>4
    <3>6. Owned(id) => Ahead(seq'[sent[id].by], num[id][2]) < Drawings' - sent[id].at
      BY <1>4, <3>2, Zenon
    <3> QED BY <3>1, <3>3, <3>5, <3>6
  <2> QED BY <1>9, <2>1, <2>2
<1>13. ASSUME NEW id \in 1 .. k, Owned(id), num[id] = <<src, number>>
       PROVE  Drawings - sent[id].at >= SeqEnd
  <2>1. /\ num[id][1] = sent[id].src /\ sent[id].src = sent[id].by /\ sent[id].by \in Node
        /\ num[id][2] \in 0 .. SeqEnd - 1
        /\ Ahead(seq[sent[id].by], num[id][2]) < Drawings - sent[id].at
    BY <1>5, <1>13 DEF Drawn, Owned
  <2>2. sent[id].by = n /\ num[id][2] = number
    BY <1>10, <1>13, <2>1
  <2>3. Ahead(seq[n], number) = SeqEnd - 1
    BY <1>6, <1>7, NewSeqAhead
  <2> QED BY <1>4, <1>5, <2>1, <2>2, <2>3, NumbersAreNatural
<1>14. ASSUME NEW id \in 1 .. k + 1, NEW other \in 1 .. k + 1, NewOwned(id), num2[id] = num2[other]
       PROVE  id = other \/ CycleBetween(id, other)'
  <2>1. CASE id = k + 1 /\ other \in 1 .. k
    <3>1. num[other] = <<src, number>> /\ src = n
      BY <1>3, <1>11, <1>14, <2>1
    <3>2. sent[other].src = src /\ (sent[other].src \in Node => sent[other].src = sent[other].by)
      BY <2>1, <3>1 DEF Drawn
    <3>3. Owned(other)
      BY <2>1, <3>1, <3>2 DEF Owned
    <3> QED BY <1>2, <1>13, <2>1, <3>1, <3>3 DEF CycleBetween
  <2>2. CASE id \in 1 .. k /\ other = k + 1
    <3>1. Owned(id) /\ num[id] = <<src, number>>
      BY <1>3, <1>11, <1>14, <2>2
    <3> QED BY <1>2, <1>13, <2>2, <3>1 DEF CycleBetween
  <2>3. CASE id \in 1 .. k /\ other \in 1 .. k
    <3>1. Owned(id) /\ num[id] = num[other]
      BY <1>3, <1>11, <1>14, <2>3
    <3>2. id = other \/ CycleBetween(id, other)
      BY <2>3, <3>1 DEF Drawn
    <3> QED BY <1>2, <2>3, <3>2 DEF CycleBetween
  <2>4. CASE id = k + 1 /\ other = k + 1
    BY <2>4
  <2> QED BY <1>9, <2>1, <2>2, <2>3, <2>4
<1> HIDE DEF k, NewOwned
<1>15. announced' <= MaxAnnounced
  BY DEF Drawn
<1>16. \A id \in 1 .. Len(sent') : Owned(id)' <=> NewOwned(id)
  BY DEF Owned, NewOwned
<1> QED BY <1>2, <1>8, <1>12, <1>14, <1>15, <1>16 DEF Drawn

\* A slot message draws a number as well, and no packet has it.
LEMMA AnnounceDrawn ==
  ASSUME IInv, NEW n \in Node, AnnounceSlots(n), NEW num, Drawn(num)
  PROVE  Drawn(num)'
<1>1. /\ announced < MaxAnnounced /\ announced' = announced + 1 /\ sent' = sent
      /\ seq' = [seq EXCEPT ![n] = NewSeq(seq[n])]
  BY DEF AnnounceSlots
<1>2. Drawings \in Nat /\ Drawings' = Drawings + 1
  BY <1>1 DEF Drawings, IInv, FramesOK
<1>3. announced' <= MaxAnnounced
  BY <1>1, NumbersAreNatural DEF IInv, FramesOK
<1>4. seq' \in [Node -> 0 .. SeqEnd - 1]
  <2>1. seq \in [Node -> 0 .. SeqEnd - 1]
    BY DEF Drawn
  <2> QED BY <1>1, <2>1, NewSeqAhead
<1>5. ASSUME NEW id \in 1 .. Len(sent)
      PROVE  /\ num[id][1] = sent[id].src
             /\ sent[id].at < Drawings'
             /\ sent[id].src \in Node => sent[id].src = sent[id].by
             /\ Owned(id) =>
                  /\ num[id][2] \in 0 .. SeqEnd - 1
                  /\ Ahead(seq'[sent[id].by], num[id][2]) < Drawings' - sent[id].at
  <2>1. /\ num[id][1] = sent[id].src /\ sent[id].at < Drawings
        /\ sent[id].src \in Node => sent[id].src = sent[id].by
        /\ Owned(id) => num[id][2] \in 0 .. SeqEnd - 1
    BY DEF Drawn
  <2>2. sent[id].at \in Nat
    BY SentRecords DEF IInv
  <2>3. Owned(id) => Ahead(seq'[sent[id].by], num[id][2]) < (Drawings + 1) - sent[id].at
    BY <1>1, DrawNext
  <2> QED BY <1>2, <2>1, <2>2, <2>3
<1>6. \A id : Owned(id)' <=> Owned(id)
  BY <1>1 DEF Owned
<1>7. \A id, other \in 1 .. Len(sent) :
        Owned(id) /\ num[id] = num[other] => id = other \/ CycleBetween(id, other)
  BY DEF Drawn
<1>8. \A id, other : CycleBetween(id, other)' <=> CycleBetween(id, other)
  BY <1>1 DEF CycleBetween
<1> QED BY <1>1, <1>3, <1>4, <1>5, <1>6, <1>7, <1>8 DEF Drawn

\* No other step draws a number or sends a packet.
LEMMA OthersDrawn ==
  ASSUME NEW num, Drawn(num), UNCHANGED <<seq, announced, sent>>
  PROVE  Drawn(num)'
BY DEF Drawn, Owned, Drawings, CycleBetween

LEMMA EnqueueDrawn ==
  ASSUME IInv, NEW n \in Node, NEW src \in Source,
         (src = n /\ Enqueue(n)) \/ (src \in Bridged /\ EnqueueFrom(n, src)),
         NEW num \in [Id -> Entry], Drawn(num), Known(num)
  PROVE  \E num2 \in [Id -> Entry] : Known(num2)' /\ Drawn(num2)'
<1>1. /\ seq' = [seq EXCEPT ![n] = NewSeq(seq[n])]
      /\ sent' = Append(sent, [by |-> n, src |-> src, at |-> Drawings])
      /\ announced' = announced /\ Len(sent) < MaxPackets
  BY DEF Enqueue, EnqueueFrom, Originate
<1>2. PICK number \in Int :
        /\ number = seq'[n]
        /\ [num EXCEPT ![Len(sent) + 1] = <<src, number>>] \in [Id -> Entry]
  BY NextNumber
<1>3. PICK num2 \in [Id -> Entry] : num2 = [num EXCEPT ![Len(sent) + 1] = <<src, number>>]
  BY <1>2
<1>4. Known(num2)'
  BY <1>2, <1>3, EnqueueKnown
<1>5. Drawn(num2)'
  BY <1>1, <1>2, <1>3, OriginateDrawn
<1> QED BY <1>4, <1>5

LEMMA DrawnStep == IInv /\ DrawnInv /\ [Next]_vars => DrawnInv'
<1> SUFFICES ASSUME IInv, DrawnInv, [Next]_vars, Node # {}
             PROVE  \E num \in [Id -> Entry] : Known(num)' /\ Drawn(num)'
  BY DEF DrawnInv
<1> PICK num \in [Id -> Entry] : Known(num) /\ Drawn(num)
  BY DEF DrawnInv
<1>1. ASSUME NEW n \in Node, NEW src \in Source,
             (src = n /\ Enqueue(n)) \/ (src \in Bridged /\ EnqueueFrom(n, src))
      PROVE  \E num2 \in [Id -> Entry] : Known(num2)' /\ Drawn(num2)'
  BY <1>1, EnqueueDrawn
<1>2. ASSUME NEW n \in Node, AnnounceSlots(n) PROVE Known(num)' /\ Drawn(num)'
  <2>1. Known(num)'
    BY <1>2, OthersKnown DEF AnnounceSlots, history
  <2> QED BY <1>2, <2>1, AnnounceDrawn
<1>3. ASSUME NEW n \in Node, Transmit(n) PROVE Known(num)' /\ Drawn(num)'
  <2>1. Drawn(num)'
    BY <1>3, OthersDrawn DEF Transmit
  <2> QED BY <1>3, <2>1, TransmitKnown
<1>4. CASE CheckData \/ UNCHANGED vars
  BY <1>4, OthersKnown, OthersDrawn DEF CheckData, vars, history
<1>5. ASSUME NEW n \in Expiring, Expire(n) PROVE Known(num)' /\ Drawn(num)'
  <2>1. Drawn(num)'
    BY <1>5, OthersDrawn DEF Expire
  <2> QED BY <1>5, <2>1, ExpireKnown, ExpiringAreNodes
<1>6. Node \subseteq Source /\ Bridged \subseteq Source
  BY DEF Source
<1> QED BY <1>1, <1>2, <1>3, <1>4, <1>5, <1>6 DEF Next

\* A frame that a node takes for a repeat carries the number of an entry: the entry
\* is of the same packet, or of one a whole cycle of numbers away.
LEMMA RepeatKnown ==
  ASSUME IInv, DrawnInv, NEW n \in Node, NEW i \in 1 .. Len(out[n]), Owned(out[n][i].id),
         NEW m \in Node, IsRepeat(m, out[n][i])
  PROVE  \E other \in 1 .. Len(sent) :
           /\ sent[other].src = sent[out[n][i].id].src /\ handedUp[m][other] >= 1
           /\ other = out[n][i].id \/ CycleBetween(out[n][i].id, other)
<1> DEFINE f == out[n][i]
<1>1. PICK num \in [Id -> Entry] : Known(num) /\ Drawn(num)
  BY DEF DrawnInv
<1>2. f.id \in 1 .. Len(sent) /\ num[f.id] = <<f.src, f.seq>>
  BY <1>1 DEF IInv, AllBounded, FrameBounded, Known
<1>3. Knows(num, Len(sent), heard[m], handedUp[m])
  BY <1>1 DEF Known
<1>4. <<f.src, f.seq>> \in Entry /\ IsOneOf(heard[m], <<f.src, f.seq>>)
  <2>1. f.id \in Id
    <3>1. Len(sent) \in Nat /\ Len(sent) <= MaxPackets
      BY <1>1 DEF IInv, FramesOK, Known
    <3> QED BY <1>2, <3>1, NumbersAreNatural DEF Id
  <2> QED BY <1>1, <1>2, <2>1 DEF IsRepeat, Matches, IsOneOf
<1>5. PICK other \in 1 .. Len(sent) : num[other] = <<f.src, f.seq>> /\ handedUp[m][other] >= 1
  BY <1>3, <1>4 DEF Knows
<1>6. f.id = other \/ CycleBetween(f.id, other)
  BY <1>1, <1>2, <1>5 DEF Drawn
<1>7. sent[other].src = num[other][1] /\ sent[f.id].src = num[f.id][1]
  BY <1>1, <1>2, <1>5 DEF Drawn
<1> QED BY <1>2, <1>5, <1>6, <1>7

\* While fewer numbers are drawn than there are, it is the same packet.
LEMMA RepeatSame ==
  ASSUME MaxPackets + MaxAnnounced <= SeqEnd, IInv, DrawnInv,
         NEW n \in Node, NEW i \in 1 .. Len(out[n]), Owned(out[n][i].id),
         NEW m \in Node, IsRepeat(m, out[n][i])
  PROVE  handedUp[m][out[n][i].id] >= 1
<1> DEFINE id == out[n][i].id
<1>1. PICK other \in 1 .. Len(sent) :
        handedUp[m][other] >= 1 /\ (other = id \/ CycleBetween(id, other))
  BY RepeatKnown
<1>2. PICK num \in [Id -> Entry] : Known(num) /\ Drawn(num)
  BY DEF DrawnInv
<1>3. id \in 1 .. Len(sent)
  BY DEF IInv, AllBounded, FrameBounded
<1>4. \A p \in 1 .. Len(sent) : sent[p].at \in Nat /\ sent[p].at < Drawings
  BY <1>2, SentRecords DEF IInv, Drawn
<1>5. Drawings \in Nat /\ Drawings <= SeqEnd
  BY <1>2, NumbersAreNatural DEF Drawings, IInv, FramesOK, Known, Drawn
<1> HIDE DEF id
<1>6. ~CycleBetween(id, other)
  <2>1. sent[id].at \in Nat /\ sent[id].at < Drawings
    BY <1>3, <1>4
  <2>2. sent[other].at \in Nat /\ sent[other].at < Drawings
    BY <1>1, <1>4
  <2> QED BY <1>5, <2>1, <2>2, NumbersAreNatural DEF CycleBetween
<1> QED BY <1>1, <1>6 DEF id

LEMMA RepeatSeen ==
  ASSUME IInv, DrawnInv, NEW n \in Node, Transmit(n),
         sent[Head(out[n]).id].src = sent[Head(out[n]).id].by,
         NEW m \in Node, repeat'[m] # repeat[m]
  PROVE  \E other \in 1 .. Len(sent) :
           /\ sent[other].src = sent[Head(out[n]).id].src /\ handedUp[m][other] >= 1
           /\ other = Head(out[n]).id \/ CycleBetween(Head(out[n]).id, other)
<1> PICK R, f, data, new, asked : TransmitStep(n, R, f, data, new, asked)
  BY TransmitParts
<1>1. 1 \in 1 .. Len(out[n]) /\ f = out[n][1] /\ f = Head(out[n])
  BY DEF IInv, FramesOK, TransmitStep
<1>2. Owned(f.id)
  BY <1>1 DEF IInv, AllBounded, FrameBounded, Owned
<1>3. IsRepeat(m, f)
  <2>1. repeat' = Plus(repeat, {r \in data : f.src # r /\ IsRepeat(r, f)})
    BY DEF TransmitStep
  <2> QED BY <2>1 DEF Plus, IInv, CountersOK
<1> QED BY <1>1, <1>2, <1>3, RepeatKnown

\* What a node drops as a repeat of another node's own packet (IsRepeat) it has
\* handed up before, or it is one whose number has come round (GetNewSeq): a whole
\* cycle of numbers has been drawn since another packet of that node.
THEOREM RepeatsWereHandedUp == Spec => RepeatsAreRepeats
<1> DEFINE Repeats ==
             \A n \in Node : Transmit(n) =>
               LET id == Head(out[n]).id IN
               sent[id].src = sent[id].by =>
                 \A m \in Node : repeat'[m] # repeat[m] =>
                   \E other \in 1 .. Len(sent) :
                     /\ sent[other].src = sent[id].src /\ handedUp[m][other] >= 1
                     /\ other = id \/ CycleBetween(id, other)
<1>1. Init => DrawnInv
  BY InitKnown, InitDrawn, SomeNumber DEF DrawnInv
<1>2. IInv /\ DrawnInv /\ [Next]_vars => DrawnInv'
  BY DrawnStep
<1>3. IInv /\ DrawnInv => Repeats
  BY RepeatSeen
<1>4. IInv /\ DrawnInv => [Repeats]_vars
  BY <1>3
<1> QED BY <1>1, <1>2, <1>4, Invariance, PTL DEF Spec, RepeatsAreRepeats
-----------------------------------------------------------------------------
(* Which frames wait together *)

\* The nodes that have the packet: its origin and those that handed it up.
Holders(id) == {m \in Node : m = sent[id].by \/ handedUp[m][id] >= 1}

\* A node sends a packet on only when it has handed it up, as a data frame.
FrameCarried(n, f) ==
  /\ f.ttl # 0 => handedUp[n][f.id] >= 1
  /\ Owned(f.id) => f.type = "DATA"

Carried == \A n \in Node : \A i \in 1 .. Len(out[n]) : FrameCarried(n, out[n][i])

\* Two frames of one packet in a queue: the one that originates it and the one
\* that sends it on.
Alike(f, g) == f.id = g.id /\ (f.ttl = 0 <=> g.ttl = 0)

Different(queue) == \A i, j \in 1 .. Len(queue) : Alike(queue[i], queue[j]) => i = j

AllDifferent == \A n \in Node : Different(out[n])

\* So a queue has room for a frame that is not like any other in it.
LEMMA QueueRoom ==
  ASSUME NEW queue \in Seq(Frame), Different(queue),
         \A i \in 1 .. Len(queue) : queue[i].id \in 1 .. MaxPackets,
         NEW f \in Frame, f.id \in 1 .. MaxPackets,
         \A i \in 1 .. Len(queue) : ~Alike(queue[i], f)
  PROVE  Len(queue) < 2 * MaxPackets
<1> DEFINE key(g) == IF g.ttl = 0 THEN g.id ELSE MaxPackets + g.id
           others == (1 .. 2 * MaxPackets) \ {key(f)}
           F == [i \in 1 .. Len(queue) |-> key(queue[i])]
<1>1. Len(queue) \in Nat /\ MaxPackets \in Nat /\ \A i \in 1 .. Len(queue) : queue[i] \in Frame
  BY LenProperties, ElementOfSeq, NumbersAreNatural
<1>2. ASSUME NEW g, g.id \in 1 .. MaxPackets PROVE key(g) \in 1 .. 2 * MaxPackets
  BY <1>1, <1>2
<1>3. ASSUME NEW g, NEW h, g.id \in 1 .. MaxPackets, h.id \in 1 .. MaxPackets, key(g) = key(h)
      PROVE  Alike(g, h)
  BY <1>1, <1>3 DEF Alike
<1> HIDE DEF key
<1>4. F \in [1 .. Len(queue) -> others]
  BY <1>2, <1>3
<1>5. ASSUME NEW i \in 1 .. Len(queue), NEW j \in 1 .. Len(queue), F[i] = F[j]
      PROVE  i = j
  <2>1. Alike(queue[i], queue[j])
    BY <1>3, <1>5
  <2> QED BY <2>1 DEF Different
<1>6. IsFiniteSet(others) /\ Cardinality(others) = 2 * MaxPackets - 1
  <2>1. 2 * MaxPackets \in Nat /\ key(f) \in 1 .. 2 * MaxPackets
    BY <1>1, <1>2
  <2>2. IsFiniteSet(1 .. 2 * MaxPackets) /\ Cardinality(1 .. 2 * MaxPackets) = 2 * MaxPackets
    <3>1. \A k \in Nat : IsFiniteSet(1 .. k) /\ Cardinality(1 .. k) = k
      BY FS_Interval
    <3> QED BY <2>1, <3>1
  <2> QED BY <2>1, <2>2, FS_RemoveElement
<1>7. IsFiniteSet(1 .. Len(queue)) /\ Cardinality(1 .. Len(queue)) = Len(queue)
  <2>1. \A k \in Nat : IsFiniteSet(1 .. k) /\ Cardinality(1 .. k) = k
    BY FS_Interval
  <2> QED BY <1>1, <2>1
<1> HIDE DEF others, F
<1>8. ~(Cardinality(others) < Cardinality(1 .. Len(queue)))
  <2> SUFFICES ASSUME Cardinality(others) < Cardinality(1 .. Len(queue)) PROVE FALSE
    OBVIOUS
  <2>1. IsFiniteSet(others) /\ IsFiniteSet(1 .. Len(queue))
    BY <1>6, <1>7
  <2>2. \E i, j \in 1 .. Len(queue) : i # j /\ F[i] = F[j]
    BY <1>4, <2>1, FS_PigeonHole
  <2> QED BY <1>5, <2>2
<1> QED BY <1>1, <1>6, <1>7, <1>8

\* The frame is then the last one, and the queue keeps its frames apart.
LEMMA QueuedLast ==
  ASSUME NEW queue \in Seq(Frame), Different(queue), 2 * MaxPackets <= QueueLimit,
         \A i \in 1 .. Len(queue) : queue[i].id \in 1 .. MaxPackets,
         NEW f \in Frame, f.id \in 1 .. MaxPackets,
         \A i \in 1 .. Len(queue) : ~Alike(queue[i], f)
  PROVE  LET longer == Queued(queue, f) IN
         /\ Different(longer) /\ Len(longer) = Len(queue) + 1
         /\ longer[Len(queue) + 1] = f
         /\ \A i \in 1 .. Len(queue) : longer[i] = queue[i]
<1> DEFINE longer == Append(queue, f)
<1>1. Len(queue) \in Nat
  BY LenProperties
<1>2. Queued(queue, f) = longer
  <2>1. Len(queue) < 2 * MaxPackets
    BY QueueRoom
  <2>2. Len(queue) # QueueLimit
    BY <1>1, <2>1, NumbersAreNatural
  <2> QED BY <2>2 DEF Queued
<1>3. /\ Len(longer) = Len(queue) + 1 /\ longer[Len(queue) + 1] = f
      /\ \A i \in 1 .. Len(queue) : longer[i] = queue[i]
  BY AppendProperties
<1> HIDE DEF longer
<1>4. Different(longer)
  <2> SUFFICES ASSUME NEW i \in 1 .. Len(longer), NEW j \in 1 .. Len(longer), i < j,
                      Alike(longer[i], longer[j])
               PROVE  FALSE
    <3>1. \A i, j \in 1 .. Len(longer) : Alike(longer[i], longer[j]) => Alike(longer[j], longer[i])
      BY DEF Alike
    <3>2. \A i, j \in 1 .. Len(longer) : i < j \/ j < i \/ i = j
      BY <1>1, <1>3
    <3> QED BY <3>1, <3>2 DEF Different
  <2>1. i \in 1 .. Len(queue) /\ longer[i] = queue[i]
    BY <1>1, <1>3
  <2>2. CASE j = Len(queue) + 1
    BY <1>3, <2>1, <2>2
  <2>3. CASE j \in 1 .. Len(queue)
    <3>1. longer[j] = queue[j] /\ i # j
      BY <1>1, <1>3, <2>3
    <3> QED BY <2>1, <2>3, <3>1 DEF Different
  <2>4. j = Len(queue) + 1 \/ j \in 1 .. Len(queue)
    BY <1>1, <1>3
  <2> QED BY <2>2, <2>3, <2>4
<1> QED BY <1>2, <1>3, <1>4

LEMMA TailDifferent ==
  ASSUME NEW queue \in Seq(Frame), queue # <<>>, Different(queue)
  PROVE  Different(Tail(queue))
<1>1. Len(queue) \in Nat
  BY LenProperties
<1>2. \A i \in 1 .. Len(Tail(queue)) : i + 1 \in 1 .. Len(queue) /\ Tail(queue)[i] = queue[i + 1]
  OBVIOUS
<1>3. \A i \in 1 .. Len(Tail(queue)) : i \in Int
  OBVIOUS
<1> SUFFICES ASSUME NEW i \in 1 .. Len(Tail(queue)), NEW j \in 1 .. Len(Tail(queue)),
                    Alike(Tail(queue)[i], Tail(queue)[j])
             PROVE  i = j
  BY DEF Different
<1>4. i + 1 = j + 1
  BY <1>2 DEF Different
<1> QED BY <1>3, <1>4

-----------------------------------------------------------------------------
(* The steps on which a packet spreads *)

\* What is known of a packet's number and of who heard it.
Numbered == IInv /\ OnceInv /\ DrawnInv

\* What an originating node does to its queue.
LEMMA EnqueueParts ==
  ASSUME IInv, NEW n \in Node, NEW src \in Source,
         (src = n /\ Enqueue(n)) \/ (src \in Bridged /\ EnqueueFrom(n, src))
  PROVE  \E f \in Frame :
           /\ out' = [out EXCEPT ![n] = Queued(out[n], f)]
           /\ f.id = Len(sent) + 1 /\ f.ttl = 0 /\ (src = n => f.type = "DATA")
           /\ Len(sent) < MaxPackets /\ sent' = Append(sent, [by |-> n, src |-> src, at |-> Drawings])
           /\ handedUp' = handedUp /\ refused' = refused
<1>1. n \in Nat /\ Announced(out[n]) \in Nat /\ Len(sent) \in Nat
  BY NodesAreNumbers, AnnouncedLength DEF IInv, FramesOK
<1>2. seq'[n] \in Int
  BY NumbersAreNatural DEF IInv, FramesOK, Enqueue, EnqueueFrom, Originate, NewSeq
<1>3. src = n => n \notin Bridged
  BY BridgedAreNoNodes
<1>4. PICK type \in UnsetTypes \cup {"DATA"}, srcId \in Nat, wait \in Nat :
        Originate(n, src, type, srcId, wait) /\ (src = n => type = "DATA")
  <2>1. CASE src = n /\ Enqueue(n)
    BY <1>1, <2>1 DEF Enqueue
  <2>2. CASE src \in Bridged /\ EnqueueFrom(n, src)
    BY <1>3, <2>2 DEF EnqueueFrom
  <2> QED BY <2>1, <2>2
<1> DEFINE f == Header(src, seq'[n], type, srcId, wait, Len(sent) + 1)
<1>5. f \in Frame /\ f.id = Len(sent) + 1 /\ f.ttl = 0 /\ (src = n => f.type = "DATA")
  BY <1>1, <1>2, <1>4 DEF Header, Frame
<1>6. out' = [out EXCEPT ![n] = Queued(out[n], f)]
  BY <1>4 DEF Originate, IInv, FramesOK
<1>7. /\ Len(sent) < MaxPackets /\ sent' = Append(sent, [by |-> n, src |-> src, at |-> Drawings])
      /\ handedUp' = handedUp /\ refused' = refused
  BY <1>4 DEF Originate, history
<1> HIDE DEF f
<1> QED BY <1>5, <1>6, <1>7

\* The frame on the air.
LEMMA TransmitHead ==
  ASSUME IInv, NEW n \in Node, NEW R, NEW f, NEW data, NEW new, NEW asked,
         TransmitStep(n, R, f, data, new, asked)
  PROVE  /\ out[n] \in Seq(Frame) /\ 1 \in 1 .. Len(out[n]) /\ f = out[n][1] /\ f \in Frame
         /\ f.id \in 1 .. Len(sent) /\ new \subseteq R /\ asked \subseteq new /\ R \subseteq Node
<1>1. out[n] \in Seq(Frame) /\ 1 \in 1 .. Len(out[n]) /\ f = out[n][1] /\ f \in Frame
  BY DEF IInv, FramesOK, TransmitStep
<1>2. f.id \in 1 .. Len(sent)
  BY <1>1 DEF IInv, AllBounded, FrameBounded
<1>3. R \subseteq Node
  BY ReachIsOtherNodes DEF TransmitStep
<1> QED BY <1>1, <1>2, <1>3 DEF TransmitStep

\* What becomes of each queue.
LEMMA TransmitQueue ==
  ASSUME IInv, NEW n \in Node, NEW R, NEW f, NEW data, NEW new, NEW asked,
         TransmitStep(n, R, f, data, new, asked), NEW r \in Node
  PROVE  \/ r = n /\ out[r] # <<>> /\ out'[r] = Tail(out[r])
         \/ /\ r # n /\ r \in asked /\ out'[r] = Queued(out[r], SentOn(r, f))
            /\ SentOn(r, f) \in Frame /\ SentOn(r, f).id = f.id
            /\ SentOn(r, f).ttl = f.ttl + 1 /\ SentOn(r, f).type = "DATA"
         \/ /\ r # n /\ out'[r] = out[r]
            /\ r \in asked => <<r, f.id>> \in refused'
<1>1. f \in Frame
  BY TransmitHead
<1>2. CASE r = n
  BY <1>2 DEF TransmitStep, Sent
<1>3. CASE r # n /\ r \in asked /\ IsTransmit(table'[r], Len(out[r]))
  <2>1. out'[r] = Queued(out[r], SentOn(r, f))
    BY <1>3 DEF TransmitStep
  <2>2. r \in Nat /\ Len(out[r]) \in Nat
    BY NodesAreNumbers DEF IInv, FramesOK
  <2>3. /\ SentOn(r, f) \in Frame /\ SentOn(r, f).id = f.id
        /\ SentOn(r, f).ttl = f.ttl + 1
    BY <1>1, <2>2, SentOnFrame
  <2>4. SentOn(r, f).type = "DATA"
    BY <1>1 DEF SentOn, SetTTL, Frame
  <2> QED BY <1>3, <2>1, <2>3, <2>4
<1>4. CASE r # n /\ ~(r \in asked /\ IsTransmit(table'[r], Len(out[r])))
  <2>1. out'[r] = out[r]
    BY <1>4 DEF TransmitStep
  <2>2. r \in asked => <<r, f.id>> \in refused'
    <3> SUFFICES ASSUME r \in asked PROVE <<r, f.id>> \in refused'
      OBVIOUS
    <3>1. r \in {q \in asked : ~IsTransmit(table'[q], Len(out[q]))}
      BY <1>4
    <3> QED BY <3>1 DEF TransmitStep
  <2> QED BY <1>4, <2>1, <2>2
<1> QED BY <1>2, <1>3, <1>4

\* A packet that is new to a node has not been handed up by it, and now is.
LEMMA NewUnseen ==
  ASSUME Numbered, NEW n \in Node, NEW R, NEW f, NEW data, NEW new, NEW asked,
         TransmitStep(n, R, f, data, new, asked), NEW r \in new
  PROVE  handedUp[r][f.id] = 0 /\ handedUp'[r][f.id] = 1
<1>1. r \in Node /\ f.id \in 1 .. Len(sent) /\ 1 \in 1 .. Len(out[n]) /\ f = out[n][1]
  BY TransmitHead DEF Numbered
<1>2. PICK num \in [Id -> Entry] : Known(num) /\ KnownOnce(num)
  BY DEF Numbered, OnceInv
<1>3. f.id \in Id
  BY <1>1, <1>2, NumbersAreNatural DEF Known, Id, Numbered, IInv, FramesOK
<1>4. num[f.id] = <<f.src, f.seq>>
  BY <1>1, <1>2 DEF Known
<1>5. ~IsOneOf(heard[r], num[f.id])
  BY <1>4 DEF TransmitStep, IsNew, IsRepeat, Matches, IsOneOf
<1>6. handedUp[r] \in [Id -> Nat]
  BY <1>1, <1>2 DEF Known, Knows
<1>7. handedUp[r][f.id] = 0
  <2>1. ~(handedUp[r][f.id] >= 1)
    BY <1>1, <1>2, <1>3, <1>5 DEF KnownOnce, Once
  <2> QED BY <1>3, <1>6, <2>1
<1>8. handedUp'[r] = [handedUp[r] EXCEPT ![f.id] = @ + 1]
  BY <1>1 DEF TransmitStep
<1> QED BY <1>3, <1>6, <1>7, <1>8

\* Nobody gives a packet back.
LEMMA HoldersGrow ==
  ASSUME Numbered, NEW n \in Node, NEW R, NEW f, NEW data, NEW new, NEW asked,
         TransmitStep(n, R, f, data, new, asked), NEW id \in 1 .. Len(sent)
  PROVE  /\ Holders(id) \subseteq Holders(id)'
         /\ \A r \in Node : handedUp[r][id] >= 1 => handedUp'[r][id] >= 1
         /\ \A r \in Holders(id)' \ Holders(id) : r \in new /\ f.id = id
<1>1. ASSUME NEW r \in Node
      PROVE  /\ handedUp[r][id] >= 1 => handedUp'[r][id] >= 1
             /\ handedUp'[r][id] >= 1 => handedUp[r][id] >= 1 \/ (r \in new /\ f.id = id)
  <2>1. CASE r \in new
    <3>1. handedUp'[r] = [handedUp[r] EXCEPT ![f.id] = @ + 1]
      BY <2>1 DEF TransmitStep
    <3>2. CASE id = f.id
      <4>1. handedUp'[r][id] = 1
        BY <2>1, <3>2, NewUnseen
      <4> QED BY <2>1, <3>2, <4>1
    <3>3. CASE id # f.id
      BY <3>1, <3>3
    <3> QED BY <3>2, <3>3
  <2>2. CASE r \notin new
    <3>1. handedUp'[r] = handedUp[r]
      BY <2>2 DEF TransmitStep
    <3> QED BY <3>1
  <2> QED BY <2>1, <2>2
<1>2. sent' = sent
  BY DEF TransmitStep
<1> QED BY <1>1, <1>2 DEF Holders

\* The source in a frame is its packet's.
LEMMA FrameSource ==
  ASSUME Numbered, NEW n \in Node, NEW i \in 1 .. Len(out[n]), Owned(out[n][i].id)
  PROVE  out[n][i].src = sent[out[n][i].id].by
<1> DEFINE f == out[n][i]
<1>1. PICK num \in [Id -> Entry] : Known(num) /\ Drawn(num)
  BY DEF Numbered, DrawnInv
<1>2. f.id \in 1 .. Len(sent)
  BY DEF Numbered, IInv, AllBounded, FrameBounded
<1>3. num[f.id] = <<f.src, f.seq>>
  BY <1>1 DEF Known
<1>4. num[f.id][1] = sent[f.id].src
  BY <1>1, <1>2 DEF Drawn
<1> HIDE DEF f
<1>5. f.src = sent[f.id].src
  BY <1>3, <1>4
<1> QED BY <1>5 DEF Owned, f

\* All that hear a node's own packet have it then: it is their own, a repeat of
\* what they have handed up, or new.
LEMMA AllHearersHold ==
  ASSUME MaxPackets + MaxAnnounced <= SeqEnd, Numbered, Carried,
         NEW n \in Node, NEW R, NEW f, NEW data, NEW new, NEW asked,
         TransmitStep(n, R, f, data, new, asked), Owned(f.id)
  PROVE  R \subseteq Holders(f.id)'
<1> SUFFICES ASSUME NEW r \in R PROVE r \in Holders(f.id)'
  OBVIOUS
<1>1. /\ r \in Node /\ f.id \in 1 .. Len(sent) /\ 1 \in 1 .. Len(out[n]) /\ f = out[n][1]
  BY TransmitHead DEF Numbered
<1>2. f.type = "DATA" /\ f.src = sent[f.id].by
  BY <1>1, FrameSource DEF Carried, FrameCarried
<1>3. sent' = sent
  BY DEF TransmitStep
<1>4. CASE f.src = r
  BY <1>1, <1>2, <1>3, <1>4 DEF Holders
<1>5. CASE f.src # r /\ IsRepeat(r, f)
  <2>1. handedUp[r][f.id] >= 1
    BY <1>1, <1>5, RepeatSame DEF Numbered
  <2>2. handedUp'[r][f.id] >= 1
    BY <1>1, <2>1, HoldersGrow
  <2> QED BY <1>1, <2>2 DEF Holders
<1>6. CASE f.src # r /\ ~IsRepeat(r, f)
  <2>1. r \in new
    BY <1>2, <1>6 DEF TransmitStep, IsNew
  <2>2. handedUp'[r][f.id] >= 1
    BY <2>1, NewUnseen
  <2> QED BY <1>1, <2>2 DEF Holders
<1> QED BY <1>4, <1>5, <1>6

-----------------------------------------------------------------------------
(* How a packet spreads *)

\* The nodes that are always in range of n.
Linked(n) == {m \in Node : \A R \in Reach[n] : m \in R}

Waits(n, id) == \E i \in 1 .. Len(out[n]) : out[n][i].id = id

\* No table kept a node from sending the packet on.
NotRefused(id) == \A n \in Node : <<n, id>> \notin refused

\* A node that has a packet has it still to send, or those always in range of it
\* have it, too, or it is too far from the packet's origin to send it on.
Spread(id, far) ==
  \A n \in Holders(id) :
    Waits(n, id) \/ Linked(n) \subseteq Holders(id) \/ <<sent[id].by, n>> \in far

Spreading(far) == \A id \in 1 .. Len(sent) : Owned(id) /\ NotRefused(id) => Spread(id, far)

SpreadInv(far) == Carried /\ AllDifferent /\ Spreading(far)

\* The ids in a queue are of packets that have been sent.
LEMMA FrameIds ==
  ASSUME Numbered, NEW n \in Node
  PROVE  /\ out[n] \in Seq(Frame) /\ Len(out[n]) \in Nat
         /\ Len(sent) \in Nat /\ Len(sent) <= MaxPackets
         /\ \A i \in 1 .. Len(out[n]) :
              /\ out[n][i] \in Frame /\ out[n][i].id \in 1 .. Len(sent)
              /\ out[n][i].id \in 1 .. MaxPackets
<1>1. out[n] \in Seq(Frame) /\ Len(out[n]) \in Nat /\ Len(sent) \in Nat
  BY LenProperties DEF Numbered, IInv, FramesOK
<1>2. Len(sent) <= MaxPackets
  BY DEF Numbered, OnceInv, Known
<1>3. \A i \in 1 .. Len(out[n]) : out[n][i] \in Frame
  BY <1>1, ElementOfSeq
<1>4. \A i \in 1 .. Len(out[n]) : out[n][i].id \in 1 .. Len(sent)
  BY DEF Numbered, IInv, AllBounded, FrameBounded
<1> QED BY <1>1, <1>2, <1>3, <1>4, NumbersAreNatural

\* A packet that has not been sent yet has been handed up by no one.
LEMMA UnsentUnseen ==
  ASSUME Numbered, NEW n \in Node, NEW id \in Id, id > Len(sent)
  PROVE  ~(handedUp[n][id] >= 1)
<1>1. PICK num \in [Id -> Entry] : Known(num) /\ KnownOnce(num)
  BY DEF Numbered, OnceInv
<1>2. handedUp[n][id] >= 1 => id \in 1 .. Len(sent)
  BY <1>1 DEF KnownOnce, Once
<1>3. Len(sent) \in Nat /\ id \in Nat
  BY DEF Numbered, IInv, FramesOK, Id
<1> QED BY <1>2, <1>3

\* A packet that has just been sent waits at its origin, which alone has it;
\* nothing changes for the others.
LEMMA OriginateHolders ==
  ASSUME Numbered, NEW n \in Node, NEW src, NEW k, k = Len(sent),
         Len(sent) < MaxPackets, sent' = Append(sent, [by |-> n, src |-> src, at |-> Drawings]),
         handedUp' = handedUp
  PROVE  /\ k \in Nat /\ Len(sent') = k + 1
         /\ sent'[k + 1] = [by |-> n, src |-> src, at |-> Drawings]
         /\ Holders(k + 1)' = {n}
         /\ \A id \in 1 .. k :
              sent'[id] = sent[id] /\ Holders(id)' = Holders(id) /\ (Owned(id)' <=> Owned(id))
<1>1. k \in Nat /\ sent \in Seq(Packet) /\ k + 1 \in Id
  BY NumbersAreNatural DEF Numbered, IInv, FramesOK, Id
<1>2. /\ Len(sent') = k + 1 /\ sent'[k + 1] = [by |-> n, src |-> src, at |-> Drawings]
      /\ \A id \in 1 .. k : sent'[id] = sent[id]
  BY <1>1
<1>3. \A m \in Node : ~(handedUp[m][k + 1] >= 1)
  BY <1>1, UnsentUnseen
<1>4. Holders(k + 1)' = {n}
  BY <1>2, <1>3 DEF Holders
<1>5. \A id \in 1 .. k : Holders(id)' = Holders(id) /\ (Owned(id)' <=> Owned(id))
  BY <1>1, <1>2 DEF Holders, Owned
<1> QED BY <1>1, <1>2, <1>4, <1>5

LEMMA OriginateSpread ==
  ASSUME 2 * MaxPackets <= QueueLimit, NEW far, Numbered, SpreadInv(far),
         NEW n \in Node, NEW src \in Source,
         (src = n /\ Enqueue(n)) \/ (src \in Bridged /\ EnqueueFrom(n, src))
  PROVE  SpreadInv(far)'
<1> PICK k : k = Len(sent)
  OBVIOUS
<1>1. PICK f \in Frame :
        /\ out' = [out EXCEPT ![n] = Queued(out[n], f)]
        /\ f.id = k + 1 /\ f.ttl = 0 /\ (src = n => f.type = "DATA")
        /\ k < MaxPackets /\ sent' = Append(sent, [by |-> n, src |-> src, at |-> Drawings])
        /\ handedUp' = handedUp /\ refused' = refused
  BY EnqueueParts DEF Numbered
<1>2. /\ k \in Nat /\ Len(sent') = k + 1 /\ sent'[k + 1] = [by |-> n, src |-> src, at |-> Drawings]
      /\ Holders(k + 1)' = {n}
      /\ \A id \in 1 .. k :
           sent'[id] = sent[id] /\ Holders(id)' = Holders(id) /\ (Owned(id)' <=> Owned(id))
  BY <1>1, OriginateHolders
<1>3. out[n] \in Seq(Frame) /\ Different(out[n]) /\ f.id \in 1 .. MaxPackets
  BY <1>1, <1>2, FrameIds, NumbersAreNatural DEF SpreadInv, AllDifferent
<1>4. \A i \in 1 .. Len(out[n]) : out[n][i].id \in 1 .. MaxPackets /\ ~Alike(out[n][i], f)
  BY <1>1, <1>2, FrameIds DEF Alike
<1>5. /\ Different(out'[n]) /\ Len(out'[n]) = Len(out[n]) + 1 /\ out'[n][Len(out[n]) + 1] = f
      /\ \A i \in 1 .. Len(out[n]) : out'[n][i] = out[n][i]
  <2>1. out'[n] = Queued(out[n], f)
    BY <1>1 DEF Numbered, IInv, FramesOK
  <2>2. LET longer == Queued(out[n], f) IN
        /\ Different(longer) /\ Len(longer) = Len(out[n]) + 1
        /\ longer[Len(out[n]) + 1] = f
        /\ \A i \in 1 .. Len(out[n]) : longer[i] = out[n][i]
    BY <1>3, <1>4, QueuedLast
  <2> QED BY <2>1, <2>2
<1>6. \A m \in Node \ {n} : out'[m] = out[m]
  BY <1>1 DEF Numbered, IInv, FramesOK
<1>7. AllDifferent'
  BY <1>5, <1>6 DEF SpreadInv, AllDifferent
<1>8. ASSUME NEW m \in Node, NEW i \in 1 .. Len(out'[m]), NEW g, g = out'[m][i]
      PROVE  FrameCarried(m, g)'
  <2>1. CASE i \in 1 .. Len(out[m]) /\ out'[m][i] = out[m][i]
    <3>1. g.id \in 1 .. k
      BY <1>8, <2>1, FrameIds
    <3>2. FrameCarried(m, g)
      BY <1>8, <2>1 DEF SpreadInv, Carried
    <3>3. Owned(g.id)' <=> Owned(g.id)
      BY <1>2, <3>1
    <3> QED BY <1>1, <3>2, <3>3 DEF FrameCarried
  <2>2. CASE m = n /\ g = f
    <3>1. Owned(k + 1)' => src = n
      BY <1>2 DEF Owned
    <3> QED BY <1>1, <2>2, <3>1 DEF FrameCarried
  <2>3. m = n => i \in 1 .. Len(out[n]) \/ i = Len(out[n]) + 1
    BY <1>5, FrameIds
  <2> QED BY <1>5, <1>6, <1>8, <2>1, <2>2, <2>3
<1>9. Carried'
  BY <1>8 DEF Carried
<1>10. \A m \in Node, id \in Nat : Waits(m, id) => Waits(m, id)'
  <2> SUFFICES ASSUME NEW m \in Node, NEW i \in 1 .. Len(out[m])
               PROVE  i \in 1 .. Len(out'[m]) /\ out'[m][i] = out[m][i]
    BY DEF Waits
  <2>1. CASE m = n
    BY <1>5, <2>1, FrameIds
  <2>2. CASE m # n
    BY <1>6, <2>2
  <2> QED BY <2>1, <2>2
<1>11. Waits(n, k + 1)'
  <2>1. Len(out[n]) + 1 \in 1 .. Len(out'[n])
    BY <1>5, FrameIds
  <2> QED BY <1>1, <1>5, <2>1 DEF Waits
<1>12. Spreading(far)'
  <2> SUFFICES ASSUME NEW id \in 1 .. Len(sent'), Owned(id)', NotRefused(id)'
               PROVE  Spread(id, far)'
    BY DEF Spreading
  <2>1. CASE id = k + 1
    BY <1>2, <1>11, <2>1 DEF Spread
  <2>2. CASE id \in 1 .. k
    <3>1. Spread(id, far)
      BY <1>1, <1>2, <2>2 DEF SpreadInv, Spreading, NotRefused
    <3>2. Holders(id)' = Holders(id) /\ sent'[id] = sent[id] /\ id \in Nat
      BY <1>2, <2>2
    <3>3. ASSUME NEW m \in Holders(id)
          PROVE  Waits(m, id)' \/ Linked(m) \subseteq Holders(id)' \/ <<sent'[id].by, m>> \in far
      <4>1. m \in Node
        BY DEF Holders
      <4> QED BY <1>10, <3>1, <3>2, <4>1 DEF Spread
    <3> QED BY <3>2, <3>3 DEF Spread, Linked
  <2> QED BY <1>2, <2>1, <2>2
<1> QED BY <1>7, <1>9, <1>12 DEF SpreadInv

\* A transmission queues a packet at most once more at each node, as it is new
\* there, and there is room.
LEMMA TransmitRoom ==
  ASSUME 2 * MaxPackets <= QueueLimit, Numbered, Carried, AllDifferent,
         NEW n \in Node, NEW R, NEW f, NEW data, NEW new, NEW asked,
         TransmitStep(n, R, f, data, new, asked),
         NEW r \in Node, r # n, r \in asked, NEW g \in Frame, g.id = f.id, g.ttl = f.ttl + 1,
         out'[r] = Queued(out[r], g)
  PROVE  /\ Different(out'[r]) /\ Len(out'[r]) = Len(out[r]) + 1 /\ out'[r][Len(out[r]) + 1] = g
         /\ \A i \in 1 .. Len(out[r]) : out'[r][i] = out[r][i]
<1>1. /\ f \in Frame /\ f.id \in 1 .. Len(sent) /\ r \in new
  BY TransmitHead DEF Numbered
<1>2. g.ttl # 0 /\ g.id \in 1 .. MaxPackets
  BY <1>1, FrameIds, NumbersAreNatural DEF Frame
<1>3. handedUp[r][f.id] = 0
  BY <1>1, NewUnseen
<1>4. \A i \in 1 .. Len(out[r]) : out[r][i].id \in 1 .. MaxPackets /\ ~Alike(out[r][i], g)
  BY <1>2, <1>3, FrameIds DEF Alike, Carried, FrameCarried
<1>5. out[r] \in Seq(Frame) /\ Different(out[r])
  BY FrameIds DEF AllDifferent
<1>6. LET longer == Queued(out[r], g) IN
      /\ Different(longer) /\ Len(longer) = Len(out[r]) + 1 /\ longer[Len(out[r]) + 1] = g
      /\ \A i \in 1 .. Len(out[r]) : longer[i] = out[r][i]
  BY <1>2, <1>4, <1>5, QueuedLast
<1> QED BY <1>6

\* What each frame in a queue after a transmission was before.
LEMMA TransmitFrame ==
  ASSUME 2 * MaxPackets <= QueueLimit, Numbered, Carried, AllDifferent,
         NEW n \in Node, NEW R, NEW f, NEW data, NEW new, NEW asked,
         TransmitStep(n, R, f, data, new, asked),
         NEW r \in Node, NEW i \in 1 .. Len(out'[r])
  PROVE  \/ \E j \in 1 .. Len(out[r]) : out'[r][i] = out[r][j]
         \/ /\ r # n /\ r \in asked /\ out'[r][i].id = f.id
            /\ out'[r][i].ttl = f.ttl + 1 /\ out'[r][i].type = "DATA"
<1>1. CASE r = n /\ out[r] # <<>> /\ out'[r] = Tail(out[r])
  <2>1. out[r] \in Seq(Frame)
    BY FrameIds
  <2>2. i + 1 \in 1 .. Len(out[r]) /\ out'[r][i] = out[r][i + 1]
    BY <1>1, <2>1
  <2> QED BY <2>2
<1>2. CASE /\ r # n /\ r \in asked /\ out'[r] = Queued(out[r], SentOn(r, f))
           /\ SentOn(r, f) \in Frame /\ SentOn(r, f).id = f.id
           /\ SentOn(r, f).ttl = f.ttl + 1 /\ SentOn(r, f).type = "DATA"
  <2>1. /\ Len(out'[r]) = Len(out[r]) + 1 /\ out'[r][Len(out[r]) + 1] = SentOn(r, f)
        /\ \A j \in 1 .. Len(out[r]) : out'[r][j] = out[r][j]
    BY <1>2, TransmitRoom
  <2>2. i = Len(out[r]) + 1 \/ i \in 1 .. Len(out[r])
    BY <2>1, FrameIds
  <2> QED BY <1>2, <2>1, <2>2
<1>3. CASE out'[r] = out[r]
  BY <1>3
<1>4. IInv
  BY DEF Numbered
<1>5. \/ r = n /\ out[r] # <<>> /\ out'[r] = Tail(out[r])
      \/ /\ r # n /\ r \in asked /\ out'[r] = Queued(out[r], SentOn(r, f))
         /\ SentOn(r, f) \in Frame /\ SentOn(r, f).id = f.id
         /\ SentOn(r, f).ttl = f.ttl + 1 /\ SentOn(r, f).type = "DATA"
      \/ /\ r # n /\ out'[r] = out[r]
         /\ r \in asked => <<r, f.id>> \in refused'
  BY <1>4, TransmitQueue
<1> QED BY <1>1, <1>2, <1>3, <1>5

LEMMA TransmitCarried ==
  ASSUME 2 * MaxPackets <= QueueLimit, Numbered, Carried, AllDifferent,
         NEW n \in Node, NEW R, NEW f, NEW data, NEW new, NEW asked,
         TransmitStep(n, R, f, data, new, asked)
  PROVE  Carried' /\ AllDifferent'
<1>1. sent' = sent /\ \A id \in 1 .. Len(sent) : Owned(id)' <=> Owned(id)
  BY DEF TransmitStep, Owned
<1>2. ASSUME NEW r \in Node, NEW i \in 1 .. Len(out'[r]), NEW g, g = out'[r][i]
      PROVE  FrameCarried(r, g)'
  <2>1. ASSUME NEW j \in 1 .. Len(out[r]), g = out[r][j]
        PROVE  FrameCarried(r, g)'
    <3>1. g.id \in 1 .. Len(sent) /\ FrameCarried(r, g)
      BY <2>1, FrameIds DEF Carried
    <3>2. handedUp[r][g.id] >= 1 => handedUp'[r][g.id] >= 1
      BY <3>1, HoldersGrow
    <3> QED BY <1>1, <3>1, <3>2 DEF FrameCarried
  <2>2. CASE r \in asked /\ g.id = f.id /\ g.type = "DATA"
    <3>1. r \in new
      BY <2>2, TransmitHead DEF Numbered
    <3>2. handedUp'[r][f.id] = 1
      BY <3>1, NewUnseen
    <3> QED BY <2>2, <3>2 DEF FrameCarried
  <2> QED BY <1>2, <2>1, <2>2, TransmitFrame
<1>3. ASSUME NEW r \in Node PROVE Different(out'[r])
  <2>1. out[r] \in Seq(Frame) /\ Different(out[r])
    BY FrameIds DEF AllDifferent
  <2>2. CASE r = n /\ out[r] # <<>> /\ out'[r] = Tail(out[r])
    BY <2>1, <2>2, TailDifferent
  <2>3. CASE /\ r # n /\ r \in asked /\ out'[r] = Queued(out[r], SentOn(r, f))
             /\ SentOn(r, f) \in Frame /\ SentOn(r, f).id = f.id
             /\ SentOn(r, f).ttl = f.ttl + 1
    BY <2>3, TransmitRoom
  <2>4. CASE out'[r] = out[r]
    BY <2>1, <2>4
  <2>5. IInv
    BY DEF Numbered
  <2>6. \/ r = n /\ out[r] # <<>> /\ out'[r] = Tail(out[r])
        \/ /\ r # n /\ r \in asked /\ out'[r] = Queued(out[r], SentOn(r, f))
           /\ SentOn(r, f) \in Frame /\ SentOn(r, f).id = f.id
           /\ SentOn(r, f).ttl = f.ttl + 1 /\ SentOn(r, f).type = "DATA"
        \/ /\ r # n /\ out'[r] = out[r]
           /\ r \in asked => <<r, f.id>> \in refused'
    BY <2>5, TransmitQueue
  <2> QED BY <2>2, <2>3, <2>4, <2>6
<1> QED BY <1>2, <1>3 DEF Carried, AllDifferent

\* A frame that waits goes on waiting, unless it is the one on the air.
LEMMA TransmitWaits ==
  ASSUME 2 * MaxPackets <= QueueLimit, Numbered, Carried, AllDifferent,
         NEW n \in Node, NEW R, NEW f, NEW data, NEW new, NEW asked,
         TransmitStep(n, R, f, data, new, asked),
         NEW r \in Node, NEW id, Waits(r, id), ~(r = n /\ id = f.id)
  PROVE  Waits(r, id)'
<1> PICK i \in 1 .. Len(out[r]) : out[r][i].id = id
  BY DEF Waits
<1>1. out[r] \in Seq(Frame) /\ Len(out[r]) \in Nat
  BY FrameIds
<1>2. CASE r = n /\ out[r] # <<>> /\ out'[r] = Tail(out[r])
  <2>1. f = out[n][1]
    BY TransmitHead DEF Numbered
  <2>2. i # 1
    BY <1>2, <2>1
  <2>3. i - 1 \in 1 .. Len(out'[r]) /\ out'[r][i - 1] = out[r][i]
    BY <1>1, <1>2, <2>2
  <2> QED BY <2>3 DEF Waits
<1>3. CASE /\ r # n /\ r \in asked /\ out'[r] = Queued(out[r], SentOn(r, f))
           /\ SentOn(r, f) \in Frame /\ SentOn(r, f).id = f.id
           /\ SentOn(r, f).ttl = f.ttl + 1
  <2>1. Len(out'[r]) = Len(out[r]) + 1 /\ out'[r][i] = out[r][i]
    BY <1>3, TransmitRoom
  <2> QED BY <1>1, <2>1 DEF Waits
<1>4. CASE out'[r] = out[r]
  BY <1>4 DEF Waits
<1>5. IInv
  BY DEF Numbered
<1>6. \/ r = n /\ out[r] # <<>> /\ out'[r] = Tail(out[r])
      \/ /\ r # n /\ r \in asked /\ out'[r] = Queued(out[r], SentOn(r, f))
         /\ SentOn(r, f) \in Frame /\ SentOn(r, f).id = f.id
         /\ SentOn(r, f).ttl = f.ttl + 1 /\ SentOn(r, f).type = "DATA"
      \/ /\ r # n /\ out'[r] = out[r]
         /\ r \in asked => <<r, f.id>> \in refused'
  BY <1>5, TransmitQueue
<1> QED BY <1>2, <1>3, <1>4, <1>6

\* A node that has just been handed a packet has it to send, or is too far away.
LEMMA NewWaits ==
  ASSUME 2 * MaxPackets <= QueueLimit, Numbered, Carried, AllDifferent,
         NEW n \in Node, NEW R, NEW f, NEW data, NEW new, NEW asked,
         TransmitStep(n, R, f, data, new, asked),
         NEW r \in new, ~IsTTLEnd(f), NotRefused(f.id)'
  PROVE  Waits(r, f.id)'
<1>1. r \in Node /\ r \in R /\ r \in asked
  <2>1. new \subseteq R /\ R \subseteq Node
    BY TransmitHead DEF Numbered
  <2>2. r \in asked
    BY DEF TransmitStep
  <2> QED BY <2>1, <2>2
<1>2. r # n
  BY <1>1, ReachIsOtherNodes DEF TransmitStep
<1>3. <<r, f.id>> \notin refused'
  BY <1>1 DEF NotRefused
<1>4. /\ out'[r] = Queued(out[r], SentOn(r, f))
      /\ SentOn(r, f) \in Frame /\ SentOn(r, f).id = f.id
      /\ SentOn(r, f).ttl = f.ttl + 1
  BY <1>1, <1>2, <1>3, TransmitQueue DEF Numbered
<1>5. Len(out'[r]) = Len(out[r]) + 1 /\ out'[r][Len(out[r]) + 1] = SentOn(r, f)
  BY <1>1, <1>2, <1>4, TransmitRoom
<1>6. Len(out[r]) + 1 \in 1 .. Len(out'[r])
  BY <1>1, <1>5, FrameIds
<1> QED BY <1>4, <1>5, <1>6 DEF Waits

\* A transmission spreads its packet, provided that those to which it comes as
\* far as it may have nobody left to tell, or are too far away.
LEMMA TransmitSpread ==
  ASSUME MaxPackets + MaxAnnounced <= SeqEnd, 2 * MaxPackets <= QueueLimit, NEW far, Numbered, SpreadInv(far),
         NEW n \in Node, NEW R, NEW f, NEW data, NEW new, NEW asked,
         TransmitStep(n, R, f, data, new, asked),
         Owned(f.id) /\ IsTTLEnd(f) =>
           \A r \in new : Holders(f.id)' = Node \/ <<sent[f.id].by, r>> \in far
  PROVE  SpreadInv(far)'
<1>1. Carried /\ AllDifferent /\ Spreading(far)
  BY DEF SpreadInv
<1>2. Carried' /\ AllDifferent'
  BY <1>1, TransmitCarried
<1>3. /\ sent' = sent /\ refused \subseteq refused' /\ R \in Reach[n]
      /\ \A id \in 1 .. Len(sent) : Owned(id)' <=> Owned(id)
  BY DEF TransmitStep, Owned
<1>4. ASSUME NEW id \in 1 .. Len(sent), Owned(id), NotRefused(id)', NEW r \in Holders(id)'
      PROVE  Waits(r, id)' \/ Linked(r) \subseteq Holders(id)' \/ <<sent[id].by, r>> \in far
  <2>1. r \in Node
    BY DEF Holders
  <2>2. Holders(id) \subseteq Holders(id)' /\ (r \notin Holders(id) => r \in new /\ f.id = id)
    BY <1>4, HoldersGrow
  <2>3. CASE r \in Holders(id)
    <3>1. Waits(r, id) \/ Linked(r) \subseteq Holders(id) \/ <<sent[id].by, r>> \in far
      BY <1>1, <1>3, <1>4, <2>3 DEF Spreading, Spread, NotRefused
    <3>2. CASE r = n /\ id = f.id
      <4>1. R \subseteq Holders(id)'
        BY <1>1, <1>4, <3>2, AllHearersHold
      <4>2. Linked(r) \subseteq R
        BY <1>3, <3>2 DEF Linked
      <4> QED BY <4>1, <4>2
    <3>3. CASE Waits(r, id) /\ ~(r = n /\ id = f.id)
      BY <1>1, <2>1, <3>3, TransmitWaits
    <3>4. CASE Linked(r) \subseteq Holders(id)
      BY <2>2, <3>4
    <3> QED BY <3>1, <3>2, <3>3, <3>4
  <2>4. CASE r \in new /\ f.id = id
    <3>1. CASE IsTTLEnd(f)
      BY <1>4, <2>4, <3>1 DEF Linked
    <3>2. CASE ~IsTTLEnd(f)
      BY <1>1, <1>4, <2>4, <3>2, NewWaits
    <3> QED BY <3>1, <3>2
  <2> QED BY <2>2, <2>3, <2>4
<1>5. Spreading(far)'
  BY <1>3, <1>4 DEF Spreading, Spread, Linked
<1> QED BY <1>2, <1>5 DEF SpreadInv

-----------------------------------------------------------------------------
(* Which nodes a packet can reach *)

\* Whatever holds the start, and with a node all that are linked to it, as often as
\* there are hops, holds all within so many hops.
LEMMA BallWithin ==
  ASSUME NEW start \in Node, NEW hops \in Nat, NEW inside,
         start \in inside[0],
         \A k \in 1 .. hops :
           inside[k - 1] \subseteq inside[k] /\ \A n \in inside[k - 1] : Linked(n) \subseteq inside[k]
  PROVE  Within(start, hops) \subseteq inside[hops]
<1> DEFINE Step(b) == [k \in 0 .. hops |->
             IF k = 0 THEN {start}
             ELSE b[k - 1] \cup {m \in Node : \E n \in b[k - 1] : \A R \in Reach[n] : m \in R}]
           ball == CHOOSE b : b = Step(b)
           Path(p, k) ==
             /\ p \in [0 .. k -> Node] /\ p[0] = start
             /\ \A i \in 1 .. k : p[i] = p[i - 1] \/ p[i] \in Linked(p[i - 1])
           reached == [k \in 0 .. hops |-> {m \in Node : \E p : Path(p, k) /\ p[k] = m}]
<1>1. reached[0] = {start}
  <2>1. Path([i \in 0 .. 0 |-> start], 0)
    OBVIOUS
  <2>2. \A p : Path(p, 0) => p[0] = start
    OBVIOUS
  <2>3. 0 \in 0 .. hops /\ [i \in 0 .. 0 |-> start][0] = start
    OBVIOUS
  <2> HIDE DEF Path
  <2> QED BY <2>1, <2>2, <2>3
<1>2. ASSUME NEW k \in 1 .. hops
      PROVE  reached[k] = reached[k - 1] \cup
               {m \in Node : \E n \in reached[k - 1] : \A R \in Reach[n] : m \in R}
  <2>1. k \in 0 .. hops /\ k - 1 \in 0 .. hops /\ k \in 0 .. k
    OBVIOUS
  <2>2. ASSUME NEW p, Path(p, k)
        PROVE  /\ Path([i \in 0 .. k - 1 |-> p[i]], k - 1)
               /\ p[k] = p[k - 1] \/ p[k] \in Linked(p[k - 1])
               /\ p[k - 1] \in Node
    <3> DEFINE q == [i \in 0 .. k - 1 |-> p[i]]
    <3>1. q \in [0 .. k - 1 -> Node] /\ q[0] = start
      BY <2>2
    <3>2. \A i \in 1 .. k - 1 : q[i] = p[i] /\ q[i - 1] = p[i - 1] /\ i \in 1 .. k
      OBVIOUS
    <3>3. \A i \in 1 .. k - 1 : q[i] = q[i - 1] \/ q[i] \in Linked(q[i - 1])
      BY <2>2, <3>2
    <3> QED BY <2>2, <3>1, <3>3
  <2>3. ASSUME NEW p, Path(p, k - 1), NEW m \in Node, m = p[k - 1] \/ m \in Linked(p[k - 1])
        PROVE  \E q : Path(q, k) /\ q[k] = m
    <3> DEFINE q == [i \in 0 .. k |-> IF i = k THEN m ELSE p[i]]
    <3>1. q \in [0 .. k -> Node] /\ q[0] = start /\ q[k] = m
      BY <2>3
    <3>2. \A i \in 1 .. k : q[i] = q[i - 1] \/ q[i] \in Linked(q[i - 1])
      <4> SUFFICES ASSUME NEW i \in 1 .. k PROVE q[i] = q[i - 1] \/ q[i] \in Linked(q[i - 1])
        OBVIOUS
      <4>1. q[i - 1] = p[i - 1]
        OBVIOUS
      <4>2. CASE i = k
        BY <2>3, <3>1, <4>1, <4>2
      <4>3. CASE i # k
        <5>1. q[i] = p[i] /\ i \in 1 .. k - 1
          BY <4>3
        <5> QED BY <2>3, <4>1, <5>1
      <4> QED BY <4>2, <4>3
    <3>3. Path(q, k)
      BY <3>1, <3>2
    <3> HIDE DEF q, Path
    <3> QED BY <3>1, <3>3
  <2>4. ASSUME NEW p, Path(p, k)
        PROVE  \E q : Path(q, k - 1) /\ q[k - 1] = p[k - 1]
    <3> DEFINE q == [i \in 0 .. k - 1 |-> p[i]]
    <3>1. Path(q, k - 1)
      BY <2>2, <2>4
    <3>2. q[k - 1] = p[k - 1]
      OBVIOUS
    <3> HIDE DEF q, Path
    <3> QED BY <3>1, <3>2
  <2>5. \A j \in 0 .. hops : \A m : m \in reached[j] <=> m \in Node /\ \E p : Path(p, j) /\ p[j] = m
    OBVIOUS
  <2> HIDE DEF reached, Path
  <2>6. ASSUME NEW m \in reached[k]
        PROVE  m \in reached[k - 1] \/ \E n \in reached[k - 1] : m \in Linked(n)
    <3>1. PICK p : Path(p, k) /\ p[k] = m
      BY <2>1, <2>5
    <3>2. p[k - 1] \in reached[k - 1]
      BY <2>1, <2>2, <2>4, <2>5, <3>1
    <3> QED BY <2>2, <3>1, <3>2
  <2>7. ASSUME NEW n \in reached[k - 1], NEW m \in Node, m = n \/ m \in Linked(n)
        PROVE  m \in reached[k]
    <3>1. PICK p : Path(p, k - 1) /\ p[k - 1] = n
      BY <2>1, <2>5
    <3> QED BY <2>1, <2>3, <2>5, <2>7, <3>1
  <2>8. reached[k - 1] \subseteq Node /\ reached[k] \subseteq Node
    BY <2>1, <2>5
  <2> QED BY <2>6, <2>7, <2>8 DEF Linked
<1> HIDE DEF Path
<1>3. reached = Step(reached)
  <2>1. reached = [k \in 0 .. hops |-> reached[k]]
    OBVIOUS
  <2> HIDE DEF reached
  <2>2. ASSUME NEW k \in 0 .. hops PROVE reached[k] = Step(reached)[k]
    <3>1. k # 0 => k \in 1 .. hops
      OBVIOUS
    <3> QED BY <1>1, <1>2, <3>1
  <2> QED BY <2>1, <2>2
<1>4. ball = Step(ball)
  <2> HIDE DEF Step, reached
  <2> QED BY <1>3
<1>5. Within(start, hops) = ball[hops]
  BY DEF Within
<1> HIDE DEF ball, reached
<1>6. ASSUME NEW k \in 0 .. hops
      PROVE  /\ k = 0 => ball[k] = {start}
             /\ k # 0 => ball[k] = ball[k - 1] \cup
                           {m \in Node : \E n \in ball[k - 1] : \A R \in Reach[n] : m \in R}
  <2>1. ball[k] = Step(ball)[k]
    BY <1>4
  <2> QED BY <2>1
<1> HIDE DEF Step
<1> DEFINE Bad == {k \in 0 .. hops : ~(ball[k] \subseteq inside[k])}
<1>7. ASSUME Bad # {} PROVE FALSE
  <2>1. PICK k \in Bad : \A j \in Bad : ~(<<j, k>> \in OpToRel(<, Nat))
    <3>1. Bad \subseteq Nat
      OBVIOUS
    <3> HIDE DEF Bad
    <3> QED BY <1>7, <3>1, NatLessThanWellFounded, WFMin
  <2>2. k \in 0 .. hops /\ ~(ball[k] \subseteq inside[k])
    OBVIOUS
  <2>3. k # 0
    BY <1>6, <2>2
  <2>4. k \in 1 .. hops /\ k - 1 \in 0 .. hops
    BY <2>2, <2>3
  <2>5. k - 1 \notin Bad
    <3>1. k - 1 \in Nat /\ k \in Nat /\ k - 1 < k
      BY <2>4
    <3>2. <<k - 1, k>> \in OpToRel(<, Nat)
      BY <3>1 DEF OpToRel
    <3> QED BY <2>1, <3>2
  <2>6. ball[k - 1] \subseteq inside[k - 1]
    BY <2>4, <2>5
  <2>7. inside[k - 1] \subseteq inside[k] /\ \A n \in inside[k - 1] : Linked(n) \subseteq inside[k]
    BY <2>4
  <2>8. ball[k] = ball[k - 1] \cup {m \in Node : \E n \in ball[k - 1] : \A R \in Reach[n] : m \in R}
    BY <1>6, <2>2, <2>3
  <2>9. \A m \in ball[k] : m \in ball[k - 1] \/ \E n \in ball[k - 1] : m \in Linked(n)
    BY <2>8 DEF Linked
  <2> QED BY <2>2, <2>6, <2>7, <2>9
<1>8. ball[hops] \subseteq inside[hops]
  BY <1>7
<1> QED BY <1>5, <1>8

-----------------------------------------------------------------------------
(* The broadcast is complete *)

LEMMA InitSpread == Init => Numbered /\ \A far : SpreadInv(far)
<1> SUFFICES ASSUME Init PROVE Numbered /\ \A far : SpreadInv(far)
  OBVIOUS
<1>1. Numbered
  BY InitInv, InitKnown, InitDrawn, SomeNumber DEF Numbered, OnceInv, DrawnInv
<1>2. \A n \in Node : Len(out[n]) = 0
  BY DEF Init
<1>3. Len(sent) = 0
  BY DEF Init
<1> QED BY <1>1, <1>2, <1>3 DEF SpreadInv, Carried, AllDifferent, Different, Spreading

LEMMA NumberedStep ==
  ASSUME MaxPackets <= Window, MaxPackets + MaxAnnounced <= SeqEnd, Numbered, [Next]_vars
  PROVE  Numbered'
BY NextInv, OnceStep, DrawnStep DEF Numbered

\* No other step touches a packet.
LEMMA OthersSpread ==
  ASSUME NEW far, SpreadInv(far), UNCHANGED <<out, sent, handedUp, refused>>
  PROVE  SpreadInv(far)'
<1>1. Carried'
  BY DEF SpreadInv, Carried, FrameCarried, Owned
<1>2. AllDifferent'
  BY DEF SpreadInv, AllDifferent
<1>3. Spreading(far)'
  BY DEF SpreadInv, Spreading, Spread, Owned, NotRefused, Waits, Holders, Linked
<1> QED BY <1>1, <1>2, <1>3 DEF SpreadInv

\* A frame is dropped: its packet has been kept from being sent on, and the others
\* wait as they did.
LEMMA ExpireSpread ==
  ASSUME NEW far, Numbered, SpreadInv(far), NEW n \in Node, Expire(n)
  PROVE  SpreadInv(far)'
<1>1. UNCHANGED <<sent, handedUp>> /\ refused' = refused \cup {<<n, Head(out[n]).id>>}
  BY DEF Expire
<1>2. /\ out[n] \in Seq(Frame) /\ out[n] # <<>> /\ out'[n] = Tail(out[n])
      /\ \A m \in Node \ {n} : out'[m] = out[m]
      /\ \A i \in 2 .. Len(out[n]) : i - 1 \in 1 .. Len(out'[n]) /\ out'[n][i - 1] = out[n][i]
      /\ \A m \in Node : \A i \in 1 .. Len(out'[m]) :
           \E j \in 1 .. Len(out[m]) : out'[m][i] = out[m][j]
  BY ExpireQueues DEF Numbered
<1>3. Carried'
  <2>1. \A m \in Node : \A i \in 1 .. Len(out'[m]) : FrameCarried(m, out'[m][i])
    BY <1>2 DEF SpreadInv, Carried
  <2> QED BY <1>1, <2>1 DEF Carried, FrameCarried, Owned
<1>4. AllDifferent'
  <2>1. Different(Tail(out[n]))
    BY <1>2, TailDifferent DEF SpreadInv, AllDifferent
  <2> QED BY <1>2, <2>1 DEF SpreadInv, AllDifferent
<1>5. ASSUME NEW m \in Node, NEW id, NotRefused(id)', Waits(m, id) PROVE Waits(m, id)'
  <2>1. PICK i \in 1 .. Len(out[m]) : out[m][i].id = id
    BY <1>5 DEF Waits
  <2>2. CASE m = n
    <3>1. id # Head(out[n]).id
      BY <1>1, <1>5 DEF NotRefused
    <3>2. i \in 2 .. Len(out[n])
      BY <1>2, <2>1, <2>2, <3>1
    <3> QED BY <1>2, <2>1, <2>2, <3>2 DEF Waits
  <2>3. CASE m # n
    BY <1>2, <2>1, <2>3 DEF Waits
  <2> QED BY <2>2, <2>3
<1>6. Spreading(far)'
  <2> SUFFICES ASSUME NEW id \in 1 .. Len(sent), Owned(id), NotRefused(id)'
               PROVE  Spread(id, far)'
    BY <1>1 DEF Spreading, Owned
  <2>1. NotRefused(id) /\ Holders(id)' = Holders(id)
    BY <1>1 DEF NotRefused, Holders
  <2>2. Spread(id, far)
    BY <2>1 DEF SpreadInv, Spreading
  <2>3. \A m \in Holders(id) : m \in Node /\ (Waits(m, id) => Waits(m, id)')
    BY <1>5 DEF Holders
  <2> QED BY <1>1, <2>1, <2>2, <2>3 DEF Spread, Linked
<1> QED BY <1>3, <1>4, <1>6 DEF SpreadInv

\* The nodes are few enough to be counted.
LEMMA FiniteNodes ==
  IsFiniteSet(Node) /\ \A S \in SUBSET Node : IsFiniteSet(S) /\ Cardinality(S) \in Nat
<1>1. IsFiniteSet(0 .. 15)
  <2>1. \A k \in Nat : IsFiniteSet(0 .. k)
    BY FS_Interval
  <2> QED BY <2>1
<1>2. IsFiniteSet(Node)
  BY <1>1, NodesAreNumbers, FS_Subset
<1> QED BY <1>2, FS_Subset, FS_CardinalityType

LEMMA MoreHolders ==
  ASSUME NEW S \in SUBSET Node, NEW T \in SUBSET Node, S \subseteq T
  PROVE  /\ Cardinality(S) <= Cardinality(T)
         /\ \A r \in T \ S : Cardinality(S) + 1 <= Cardinality(T)
<1>1. IsFiniteSet(S) /\ IsFiniteSet(T)
  BY FiniteNodes
<1>2. ASSUME NEW r \in T \ S PROVE Cardinality(S) + 1 <= Cardinality(T)
  <2>1. Cardinality(S \cup {r}) = Cardinality(S) + 1
    BY <1>1, <1>2, FS_AddElement
  <2>2. S \cup {r} \subseteq T
    BY <1>2
  <2> QED BY <1>1, <2>1, <2>2, FS_Subset
<1> QED BY <1>1, <1>2, FS_Subset

\* A packet on its way has been handed up once for each hop.
HeldOnWay(f) == Owned(f.id) => f.ttl + 1 <= Cardinality(Holders(f.id))

AllHeldOnWay == \A n \in Node : \A i \in 1 .. Len(out[n]) : HeldOnWay(out[n][i])

\* A node to which a packet is new does not hold it, and then does.
LEMMA NewHolder ==
  ASSUME Numbered, NEW n \in Node, NEW R, NEW f, NEW data, NEW new, NEW asked,
         TransmitStep(n, R, f, data, new, asked), Owned(f.id), NEW r \in new
  PROVE  /\ r \in Node /\ r \in R /\ r # sent[f.id].by
         /\ r \in Holders(f.id)' \ Holders(f.id)
<1>1. /\ r \in Node /\ r \in R /\ 1 \in 1 .. Len(out[n]) /\ f = out[n][1]
  BY TransmitHead DEF Numbered
<1>2. f.src = sent[f.id].by
  BY <1>1, FrameSource
<1>3. r # f.src
  BY DEF TransmitStep, IsNew
<1>4. handedUp[r][f.id] = 0 /\ handedUp'[r][f.id] = 1
  BY NewUnseen
<1> QED BY <1>1, <1>2, <1>3, <1>4 DEF Holders

LEMMA TransmitHeld ==
  ASSUME 2 * MaxPackets <= QueueLimit, Numbered, Carried, AllDifferent, AllHeldOnWay,
         NEW n \in Node, NEW R, NEW f, NEW data, NEW new, NEW asked,
         TransmitStep(n, R, f, data, new, asked)
  PROVE  /\ AllHeldOnWay'
         /\ Owned(f.id) => \A r \in new : f.ttl + 2 <= Cardinality(Holders(f.id)')
<1>1. sent' = sent /\ \A id \in 1 .. Len(sent) : Owned(id)' <=> Owned(id)
  BY DEF TransmitStep, Owned
<1>2. ASSUME NEW id \in 1 .. Len(sent)
      PROVE  /\ Holders(id) \in SUBSET Node /\ Holders(id)' \in SUBSET Node
             /\ Cardinality(Holders(id)) \in Nat /\ Cardinality(Holders(id)') \in Nat
             /\ Cardinality(Holders(id)) <= Cardinality(Holders(id)')
             /\ \A r \in Holders(id)' \ Holders(id) :
                  Cardinality(Holders(id)) + 1 <= Cardinality(Holders(id)')
  <2>1. Holders(id) \in SUBSET Node /\ Holders(id)' \in SUBSET Node
    BY DEF Holders
  <2>2. Holders(id) \subseteq Holders(id)'
    BY HoldersGrow
  <2> QED BY <2>1, <2>2, FiniteNodes, MoreHolders
<1>3. /\ f \in Frame /\ f.id \in 1 .. Len(sent) /\ 1 \in 1 .. Len(out[n]) /\ f = out[n][1]
  BY TransmitHead DEF Numbered
<1>4. HeldOnWay(f)
  BY <1>3 DEF AllHeldOnWay
<1>5. ASSUME Owned(f.id), NEW r \in new PROVE f.ttl + 2 <= Cardinality(Holders(f.id)')
  <2>1. Cardinality(Holders(f.id)) + 1 <= Cardinality(Holders(f.id)')
    BY <1>2, <1>3, <1>5, NewHolder
  <2>2. f.ttl + 1 <= Cardinality(Holders(f.id)) /\ f.ttl \in Nat
    BY <1>3, <1>4, <1>5 DEF HeldOnWay, Frame
  <2> DEFINE before == Cardinality(Holders(f.id))
             after == Cardinality(Holders(f.id)')
  <2>3. before \in Nat /\ after \in Nat
    BY <1>2, <1>3
  <2>4. before + 1 <= after /\ f.ttl + 1 <= before /\ f.ttl \in Nat
    BY <2>1, <2>2
  <2>5. f.ttl + 2 <= after
    <3> HIDE DEF before, after
    <3> QED BY <2>3, <2>4
  <2> QED BY <2>5
<1>6. ASSUME NEW r \in Node, NEW i \in 1 .. Len(out'[r]), NEW g, g = out'[r][i]
      PROVE  HeldOnWay(g)'
  <2>1. ASSUME NEW j \in 1 .. Len(out[r]), g = out[r][j]
        PROVE  HeldOnWay(g)'
    <3>1. HeldOnWay(g) /\ g.id \in 1 .. Len(sent) /\ g.ttl \in Nat
      BY <2>1, FrameIds DEF AllHeldOnWay, Frame
    <3> QED BY <1>1, <1>2, <3>1 DEF HeldOnWay
  <2>2. CASE r \in asked /\ g.id = f.id /\ g.ttl = f.ttl + 1
    <3>1. r \in new /\ f.ttl \in Nat
      <4>1. r \in new
        BY <2>2 DEF TransmitStep
      <4> QED BY <1>3, <4>1 DEF Frame
    <3>2. Owned(f.id)' => f.ttl + 2 <= Cardinality(Holders(f.id)')
      BY <1>1, <1>3, <1>5, <3>1
    <3>3. Owned(g.id)' => g.ttl + 1 <= Cardinality(Holders(g.id)')
      BY <1>2, <1>3, <2>2, <3>1, <3>2
    <3> QED BY <3>3 DEF HeldOnWay
  <2> QED BY <1>6, <2>1, <2>2, TransmitFrame
<1> QED BY <1>5, <1>6 DEF AllHeldOnWay

\* A frame that waits once a packet has been originated did so before, or is the new
\* one.
LEMMA OriginateFrame ==
  ASSUME Numbered, NEW n \in Node, NEW f \in Frame,
         out' = [out EXCEPT ![n] = Queued(out[n], f)]
  PROVE  \A m \in Node : \A i \in 1 .. Len(out'[m]) :
           (\E j \in 1 .. Len(out[m]) : out'[m][i] = out[m][j]) \/ (m = n /\ out'[m][i] = f)
<1> SUFFICES ASSUME NEW m \in Node, NEW i \in 1 .. Len(out'[m])
             PROVE  (\E j \in 1 .. Len(out[m]) : out'[m][i] = out[m][j]) \/ (m = n /\ out'[m][i] = f)
  OBVIOUS
<1>1. out[m] \in Seq(Frame)
  BY FrameIds
<1>2. CASE m = n
  <2>1. out'[m] = Queued(out[m], f)
    BY <1>2 DEF Numbered, IInv, FramesOK
  <2>2. \A j \in 1 .. Len(Queued(out[m], f)) :
          \/ Queued(out[m], f)[j] = f
          \/ j \in 1 .. Len(out[m]) /\ Queued(out[m], f)[j] = out[m][j]
    BY <1>1, QueuedFrames
  <2> QED BY <1>2, <2>1, <2>2
<1>3. CASE m # n
  BY <1>3 DEF Numbered, IInv, FramesOK
<1> QED BY <1>2, <1>3

LEMMA OriginateHeld ==
  ASSUME Numbered, AllHeldOnWay, NEW n \in Node, NEW src \in Source,
         (src = n /\ Enqueue(n)) \/ (src \in Bridged /\ EnqueueFrom(n, src))
  PROVE  AllHeldOnWay'
<1> PICK k : k = Len(sent)
  OBVIOUS
<1>1. PICK f \in Frame :
        /\ out' = [out EXCEPT ![n] = Queued(out[n], f)]
        /\ f.id = k + 1 /\ f.ttl = 0
        /\ k < MaxPackets /\ sent' = Append(sent, [by |-> n, src |-> src, at |-> Drawings])
        /\ handedUp' = handedUp
  BY EnqueueParts DEF Numbered
<1>2. /\ k \in Nat /\ Len(sent') = k + 1 /\ Holders(k + 1)' = {n}
      /\ \A id \in 1 .. k : Holders(id)' = Holders(id) /\ (Owned(id)' <=> Owned(id))
  BY <1>1, OriginateHolders
<1>3. \A m \in Node : \A i \in 1 .. Len(out'[m]) :
        (\E j \in 1 .. Len(out[m]) : out'[m][i] = out[m][j]) \/ (m = n /\ out'[m][i] = f)
  BY <1>1, OriginateFrame
<1>4. ASSUME NEW m \in Node, NEW i \in 1 .. Len(out'[m]), NEW g, g = out'[m][i]
      PROVE  HeldOnWay(g)'
  <2>1. (\E j \in 1 .. Len(out[m]) : g = out[m][j]) \/ g = f
    BY <1>3, <1>4
  <2>2. ASSUME NEW j \in 1 .. Len(out[m]), g = out[m][j] PROVE HeldOnWay(g)'
    <3>1. HeldOnWay(g) /\ g.id \in 1 .. k
      BY <2>2, FrameIds DEF AllHeldOnWay
    <3> QED BY <1>2, <3>1 DEF HeldOnWay
  <2>3. CASE g = f
    <3>1. Cardinality({n}) = 1
      BY FS_Singleton
    <3>2. g.id = k + 1 /\ g.ttl + 1 = 1
      BY <1>1, <2>3
    <3>3. Cardinality(Holders(k + 1)') = 1
      BY <1>2, <3>1
    <3>4. g.ttl + 1 <= Cardinality(Holders(g.id)')
      BY <3>2, <3>3
    <3> QED BY <3>4 DEF HeldOnWay
  <2> QED BY <2>1, <2>2, <2>3
<1> QED BY <1>4 DEF AllHeldOnWay

\* When every queue is empty, a packet has spread to all it can reach.
LEMMA AllReached ==
  ASSUME NEW id \in 1 .. Len(sent), IInv, \A n \in Node : out[n] = <<>>,
         NEW far, Spread(id, far),
         NEW inside, sent[id].by \in inside[0], inside[TTLEnd + 1] \subseteq Holders(id),
         \A k \in 1 .. TTLEnd + 1 :
           /\ inside[k - 1] \subseteq inside[k]
           /\ inside[k - 1] \subseteq Holders(id)
           /\ \A n \in inside[k - 1] :
                /\ <<sent[id].by, n>> \notin far
                /\ Linked(n) \subseteq Holders(id) => Linked(n) \subseteq inside[k]
  PROVE  \A n \in Within(sent[id].by, TTLEnd + 1) \ {sent[id].by} : handedUp[n][id] >= 1
<1>1. sent[id].by \in Node /\ TTLEnd + 1 \in Nat
  BY SentRecords, NumbersAreNatural DEF IInv
<1>2. ASSUME NEW n \in Holders(id), <<sent[id].by, n>> \notin far
      PROVE  Linked(n) \subseteq Holders(id)
  <2>1. n \in Node
    BY DEF Holders
  <2>2. ~Waits(n, id)
    BY <2>1 DEF Waits
  <2> QED BY <1>2, <2>2 DEF Spread
<1>3. \A k \in 1 .. TTLEnd + 1 :
        inside[k - 1] \subseteq inside[k] /\ \A n \in inside[k - 1] : Linked(n) \subseteq inside[k]
  BY <1>2
<1>4. Within(sent[id].by, TTLEnd + 1) \subseteq inside[TTLEnd + 1]
  BY <1>1, <1>3, BallWithin
<1> QED BY <1>4 DEF Holders

\* In a network that is small enough for the hop limit every packet of a node's own
\* reaches all, whichever way it comes first (IsTTLEnd, HeardAfter), as long as the
\* nodes remember all packets, draw no number twice and have room for them.
THEOREM SmallNetworksComplete ==
  ASSUME MaxPackets <= Window, MaxPackets + MaxAnnounced <= SeqEnd,
         2 * MaxPackets <= QueueLimit, Cardinality(Node) <= TTLEnd + 2
  PROVE  Spec => []BroadcastComplete
<1> DEFINE Inv == Numbered /\ SpreadInv({}) /\ AllHeldOnWay
<1>1. Init => Inv
  <2>1. Init => AllHeldOnWay
    BY DEF Init, AllHeldOnWay
  <2> QED BY <2>1, InitSpread
<1>2. Inv /\ [Next]_vars => Inv'
  <2> SUFFICES ASSUME Inv, [Next]_vars PROVE Inv'
    OBVIOUS
  <2>1. Numbered'
    BY NumberedStep
  <2>2. ASSUME NEW n \in Node, NEW src \in Source,
               (src = n /\ Enqueue(n)) \/ (src \in Bridged /\ EnqueueFrom(n, src))
        PROVE  SpreadInv({})' /\ AllHeldOnWay'
    BY <2>2, OriginateSpread, OriginateHeld
  <2>3. ASSUME NEW n \in Node, Transmit(n) PROVE SpreadInv({})' /\ AllHeldOnWay'
    <3> PICK R, f, data, new, asked : TransmitStep(n, R, f, data, new, asked)
      BY <2>3, TransmitParts
    <3>1. Carried /\ AllDifferent
      BY DEF SpreadInv
    <3>2. /\ AllHeldOnWay'
          /\ Owned(f.id) => \A r \in new : f.ttl + 2 <= Cardinality(Holders(f.id)')
      BY <3>1, TransmitHeld
    <3>3. ASSUME Owned(f.id), IsTTLEnd(f), NEW r \in new PROVE Holders(f.id)' = Node
      <4>1. f \in Frame
        BY TransmitHead DEF Numbered
      <4>2. Holders(f.id)' \in SUBSET Node
        BY DEF Holders
      <4>3. Cardinality(Node) <= Cardinality(Holders(f.id)')
        <5>1. f.ttl + 2 <= Cardinality(Holders(f.id)')
          BY <3>2, <3>3
        <5>2. f.ttl \in Nat /\ f.ttl >= TTLEnd
          BY <3>3, <4>1 DEF Frame, IsTTLEnd
        <5>3. Cardinality(Node) \in Nat /\ Cardinality(Holders(f.id)') \in Nat
          BY <4>2, FiniteNodes
        <5> QED BY <5>1, <5>2, <5>3, NumbersAreNatural
      <4>4. /\ IsFiniteSet(Node) /\ Cardinality(Node) \in Nat
            /\ Cardinality(Holders(f.id)') \in Nat
        BY <4>2, FiniteNodes
      <4>5. Cardinality(Holders(f.id)') <= Cardinality(Node)
        BY <4>2, <4>4, FS_Subset
      <4>6. Cardinality(Holders(f.id)') = Cardinality(Node)
        BY <4>3, <4>4, <4>5
      <4> QED BY <4>2, <4>4, <4>6, FS_Subset
    <3>4. SpreadInv({})'
      BY <3>3, TransmitSpread
    <3> QED BY <3>2, <3>4
  <2>4. CASE (\E n \in Node : AnnounceSlots(n)) \/ CheckData \/ UNCHANGED vars
    <3>1. UNCHANGED <<out, sent, handedUp, refused>>
      BY <2>4 DEF AnnounceSlots, CheckData, vars, history
    <3>2. AllHeldOnWay'
      BY <3>1 DEF AllHeldOnWay, HeldOnWay, Owned, Holders
    <3>3. SpreadInv({})'
      BY <3>1, OthersSpread
    <3> QED BY <2>1, <3>2, <3>3
  <2>6. ASSUME NEW n \in Expiring, Expire(n) PROVE SpreadInv({})' /\ AllHeldOnWay'
    <3>1. n \in Node
      BY ExpiringAreNodes
    <3>2. UNCHANGED <<sent, handedUp>>
      BY <2>6 DEF Expire
    <3>3. AllHeldOnWay'
      <4>1. \A m \in Node : \A i \in 1 .. Len(out'[m]) :
              \E j \in 1 .. Len(out[m]) : out'[m][i] = out[m][j]
        BY <2>6, <3>1, ExpireQueues DEF Numbered
      <4>2. \A m \in Node : \A i \in 1 .. Len(out'[m]) : HeldOnWay(out'[m][i])
        BY <4>1 DEF AllHeldOnWay
      <4> QED BY <3>2, <4>2 DEF AllHeldOnWay, HeldOnWay, Owned, Holders
    <3>4. SpreadInv({})'
      BY <2>6, <3>1, ExpireSpread
    <3> QED BY <3>3, <3>4
  <2>5. Node \subseteq Source /\ Bridged \subseteq Source
    BY DEF Source
  <2> QED BY <2>1, <2>2, <2>3, <2>4, <2>5, <2>6 DEF Next
<1>3. Inv => BroadcastComplete
  <2> SUFFICES ASSUME Inv, \A n \in Node : out[n] = <<>>,
                      NEW id \in 1 .. Len(sent), sent[id].src = sent[id].by, NotRefused(id)
               PROVE  \A n \in Within(sent[id].by, TTLEnd + 1) \ {sent[id].by} : handedUp[n][id] >= 1
    BY DEF BroadcastComplete, NotRefused
  <2>1. Spread(id, {})
    BY DEF SpreadInv, Spreading, Owned
  <2>2. sent[id].by \in Holders(id)
    BY SentRecords DEF Holders, Numbered, IInv
  <2> DEFINE inside == [k \in 0 .. TTLEnd + 1 |-> Holders(id)]
  <2>3. /\ inside[0] = Holders(id) /\ inside[TTLEnd + 1] = Holders(id)
        /\ \A k \in 1 .. TTLEnd + 1 : inside[k] = Holders(id) /\ inside[k - 1] = Holders(id)
    BY NumbersAreNatural
  <2> HIDE DEF inside
  <2> QED BY <2>1, <2>2, <2>3, AllReached DEF Numbered
<1> QED BY <1>1, <1>2, <1>3, PTL DEF Spec

-----------------------------------------------------------------------------
(* Trees *)

\* A packet on its way has come as many hops as its sender is away from its origin.
FrameAt(dist, n, f) == Owned(f.id) => f.ttl = dist[sent[f.id].by][n]

\* Who has a packet, has it from the node before.
FromParent(parent, id) ==
  \A m \in Holders(id) \ {sent[id].by} : parent[sent[id].by][m] \in Holders(id)

TreeInv(dist, parent) ==
  /\ \A n \in Node : \A i \in 1 .. Len(out[n]) : FrameAt(dist, n, out[n][i])
  /\ \A id \in 1 .. Len(sent) : Owned(id) => FromParent(parent, id)

\* The pairs of nodes that are more than the hop limit apart.
Far(dist) == {p \in Node \X Node : dist[p[1]][p[2]] > TTLEnd}

\* A packet is new only to those after its sender.
LEMMA NewFromParent ==
  ASSUME NEW dist, NEW parent, IsTree(dist, parent),
         Numbered, Carried, TreeInv(dist, parent),
         NEW n \in Node, NEW R, NEW f, NEW data, NEW new, NEW asked,
         TransmitStep(n, R, f, data, new, asked), Owned(f.id), NEW r \in new
  PROVE  /\ n \in Holders(f.id) /\ n = parent[sent[f.id].by][r]
         /\ dist[sent[f.id].by][r] = f.ttl + 1
<1> PICK s \in Node : s = sent[f.id].by
  BY TransmitHead, SentRecords DEF Numbered, IInv
<1>1. /\ f.id \in 1 .. Len(sent) /\ 1 \in 1 .. Len(out[n]) /\ f = out[n][1]
      /\ R \in Reach[n]
  <2>1. R \in Reach[n]
    BY DEF TransmitStep
  <2> QED BY <2>1, TransmitHead DEF Numbered
<1>2. n \in Holders(f.id)
  <2>1. f.ttl = 0 => s = n
    BY <1>1 DEF Numbered, IInv, AllBounded, FrameBounded
  <2>2. f.ttl # 0 => handedUp[n][f.id] >= 1
    BY <1>1 DEF Carried, FrameCarried
  <2> QED BY <2>1, <2>2 DEF Holders
<1>3. f.ttl = dist[s][n]
  BY <1>1 DEF TreeInv, FrameAt
<1>4. r \in Node /\ r \in R /\ r # s /\ r \notin Holders(f.id)
  BY NewHolder
<1>5. \/ n = parent[s][r] /\ dist[s][r] = dist[s][n] + 1
      \/ n # s /\ r = parent[s][n]
  <2>1. \A a, b \in Node : \A S \in Reach[b] : \A c \in S :
          \/ c # a /\ b = parent[a][c] /\ dist[a][c] = dist[a][b] + 1
          \/ b # a /\ c = parent[a][b] /\ dist[a][b] = dist[a][c] + 1
    BY DEF IsTree
  <2> QED BY <1>1, <1>4, <2>1
<1>6. n # s => parent[s][n] \in Holders(f.id)
  BY <1>1, <1>2 DEF TreeInv, FromParent
<1> QED BY <1>2, <1>3, <1>4, <1>5, <1>6

LEMMA TransmitTree ==
  ASSUME 2 * MaxPackets <= QueueLimit, NEW dist, NEW parent, IsTree(dist, parent),
         Numbered, Carried, AllDifferent, TreeInv(dist, parent),
         NEW n \in Node, NEW R, NEW f, NEW data, NEW new, NEW asked,
         TransmitStep(n, R, f, data, new, asked)
  PROVE  /\ TreeInv(dist, parent)'
         /\ Owned(f.id) /\ IsTTLEnd(f) => \A r \in new : <<sent[f.id].by, r>> \in Far(dist)
<1>1. sent' = sent /\ \A id \in 1 .. Len(sent) : Owned(id)' <=> Owned(id)
  BY DEF TransmitStep, Owned
<1>2. /\ f \in Frame /\ f.id \in 1 .. Len(sent) /\ 1 \in 1 .. Len(out[n]) /\ f = out[n][1]
  BY TransmitHead DEF Numbered
<1>3. ASSUME Owned(f.id), IsTTLEnd(f), NEW r \in new PROVE <<sent[f.id].by, r>> \in Far(dist)
  <2>1. r \in Node /\ sent[f.id].by \in Node
    BY <1>2, <1>3, NewHolder, SentRecords DEF Numbered, IInv
  <2>2. dist[sent[f.id].by][r] = f.ttl + 1
    BY <1>3, NewFromParent
  <2>3. f.ttl \in Nat /\ f.ttl >= TTLEnd
    BY <1>2, <1>3 DEF Frame, IsTTLEnd
  <2> QED BY <2>1, <2>2, <2>3, NumbersAreNatural DEF Far
<1>4. ASSUME NEW r \in Node, NEW i \in 1 .. Len(out'[r]), NEW g, g = out'[r][i]
      PROVE  FrameAt(dist, r, g)'
  <2>1. ASSUME NEW j \in 1 .. Len(out[r]), g = out[r][j]
        PROVE  FrameAt(dist, r, g)'
    <3>1. FrameAt(dist, r, g) /\ g.id \in 1 .. Len(sent)
      BY <2>1, FrameIds DEF TreeInv
    <3> QED BY <1>1, <3>1 DEF FrameAt
  <2>2. CASE r \in asked /\ g.id = f.id /\ g.ttl = f.ttl + 1
    <3>1. r \in new
      BY <2>2, TransmitHead DEF Numbered
    <3>2. Owned(f.id) => dist[sent[f.id].by][r] = f.ttl + 1
      BY <3>1, NewFromParent
    <3> QED BY <1>1, <1>2, <2>2, <3>2 DEF FrameAt
  <2> QED BY <1>4, <2>1, <2>2, TransmitFrame
<1>5. ASSUME NEW id \in 1 .. Len(sent), Owned(id) PROVE FromParent(parent, id)'
  <2>1. /\ Holders(id) \subseteq Holders(id)'
        /\ \A r \in Holders(id)' \ Holders(id) : r \in new /\ f.id = id
    BY HoldersGrow
  <2> SUFFICES ASSUME NEW m \in Holders(id)', m # sent[id].by
               PROVE  parent[sent[id].by][m] \in Holders(id)'
    BY <1>1 DEF FromParent
  <2>2. CASE m \in Holders(id)
    <3>1. parent[sent[id].by][m] \in Holders(id)
      BY <1>5, <2>2 DEF TreeInv, FromParent
    <3> QED BY <2>1, <3>1
  <2>3. CASE m \in new /\ f.id = id
    <3>1. parent[sent[id].by][m] \in Holders(id)
      BY <1>5, <2>3, NewFromParent
    <3> QED BY <2>1, <3>1
  <2> QED BY <2>1, <2>2, <2>3
<1>6. TreeInv(dist, parent)'
  BY <1>1, <1>4, <1>5 DEF TreeInv
<1> QED BY <1>3, <1>6

LEMMA OriginateTree ==
  ASSUME NEW dist, NEW parent, IsTree(dist, parent), Numbered, TreeInv(dist, parent),
         NEW n \in Node, NEW src \in Source,
         (src = n /\ Enqueue(n)) \/ (src \in Bridged /\ EnqueueFrom(n, src))
  PROVE  TreeInv(dist, parent)'
<1> PICK k : k = Len(sent)
  OBVIOUS
<1>1. PICK f \in Frame :
        /\ out' = [out EXCEPT ![n] = Queued(out[n], f)]
        /\ f.id = k + 1 /\ f.ttl = 0
        /\ k < MaxPackets /\ sent' = Append(sent, [by |-> n, src |-> src, at |-> Drawings])
        /\ handedUp' = handedUp
  BY EnqueueParts DEF Numbered
<1>2. /\ k \in Nat /\ Len(sent') = k + 1 /\ Holders(k + 1)' = {n}
      /\ sent'[k + 1] = [by |-> n, src |-> src, at |-> Drawings]
      /\ \A id \in 1 .. k :
           sent'[id] = sent[id] /\ Holders(id)' = Holders(id) /\ (Owned(id)' <=> Owned(id))
  BY <1>1, OriginateHolders
<1>3. \A m \in Node : \A i \in 1 .. Len(out'[m]) :
        (\E j \in 1 .. Len(out[m]) : out'[m][i] = out[m][j]) \/ (m = n /\ out'[m][i] = f)
  BY <1>1, OriginateFrame
<1>4. ASSUME NEW m \in Node, NEW i \in 1 .. Len(out'[m]), NEW g, g = out'[m][i]
      PROVE  FrameAt(dist, m, g)'
  <2>1. (\E j \in 1 .. Len(out[m]) : g = out[m][j]) \/ (m = n /\ g = f)
    BY <1>3, <1>4
  <2>2. ASSUME NEW j \in 1 .. Len(out[m]), g = out[m][j] PROVE FrameAt(dist, m, g)'
    <3>1. FrameAt(dist, m, g) /\ g.id \in 1 .. k
      BY <2>2, FrameIds DEF TreeInv
    <3> QED BY <1>2, <3>1 DEF FrameAt
  <2>3. CASE m = n /\ g = f
    <3>1. g.id = k + 1 /\ g.ttl = 0 /\ sent'[k + 1].by = n /\ dist[n][n] = 0
      BY <1>1, <1>2, <2>3 DEF IsTree
    <3> QED BY <2>3, <3>1 DEF FrameAt
  <2> QED BY <2>1, <2>2, <2>3
<1>5. ASSUME NEW id \in 1 .. k + 1, Owned(id)' PROVE FromParent(parent, id)'
  <2>1. CASE id = k + 1
    BY <1>2, <2>1 DEF FromParent
  <2>2. CASE id \in 1 .. k
    <3>1. FromParent(parent, id)
      BY <1>2, <1>5, <2>2 DEF TreeInv
    <3> QED BY <1>2, <2>2, <3>1 DEF FromParent
  <2> QED BY <1>2, <2>1, <2>2
<1> QED BY <1>2, <1>4, <1>5 DEF TreeInv

\* In a tree a packet comes to each node by one way alone, and every packet of a
\* node's own reaches all that are within the hop limit of it (IsTTLEnd), however
\* many nodes there are and whatever gets lost outside the links that always
\* hold, as long as the nodes remember all packets, draw no number twice and have
\* room for them.
THEOREM TreesComplete ==
  ASSUME MaxPackets <= Window, MaxPackets + MaxAnnounced <= SeqEnd,
         2 * MaxPackets <= QueueLimit, NEW dist, NEW parent, IsTree(dist, parent)
  PROVE  Spec => []BroadcastComplete
<1> DEFINE far == Far(dist)
           Inv == Numbered /\ SpreadInv(far) /\ TreeInv(dist, parent)
<1>1. Init => Inv
  <2>1. Init => TreeInv(dist, parent)
    BY DEF Init, TreeInv
  <2> QED BY <2>1, InitSpread
<1>2. Inv /\ [Next]_vars => Inv'
  <2> SUFFICES ASSUME Inv, [Next]_vars PROVE Inv'
    OBVIOUS
  <2>0. far' = far
    BY DEF Far
  <2> HIDE DEF far
  <2>1. Numbered'
    BY NumberedStep
  <2>2. ASSUME NEW n \in Node, NEW src \in Source,
               (src = n /\ Enqueue(n)) \/ (src \in Bridged /\ EnqueueFrom(n, src))
        PROVE  SpreadInv(far)' /\ TreeInv(dist, parent)'
    BY <2>2, OriginateSpread, OriginateTree
  <2>3. ASSUME NEW n \in Node, Transmit(n) PROVE SpreadInv(far)' /\ TreeInv(dist, parent)'
    <3> PICK R, f, data, new, asked : TransmitStep(n, R, f, data, new, asked)
      BY <2>3, TransmitParts
    <3>1. Carried /\ AllDifferent
      BY DEF SpreadInv
    <3>2. /\ TreeInv(dist, parent)'
          /\ Owned(f.id) /\ IsTTLEnd(f) => \A r \in new : <<sent[f.id].by, r>> \in far
      BY <3>1, TransmitTree DEF far
    <3>3. SpreadInv(far)'
      BY <3>2, TransmitSpread
    <3> QED BY <3>2, <3>3
  <2>4. CASE (\E n \in Node : AnnounceSlots(n)) \/ CheckData \/ UNCHANGED vars
    <3>1. UNCHANGED <<out, sent, handedUp, refused>>
      BY <2>4 DEF AnnounceSlots, CheckData, vars, history
    <3>2. TreeInv(dist, parent)'
      BY <3>1 DEF TreeInv, FrameAt, FromParent, Owned, Holders
    <3>3. SpreadInv(far)'
      BY <3>1, OthersSpread
    <3> QED BY <2>1, <3>2, <3>3
  <2>6. ASSUME NEW n \in Expiring, Expire(n) PROVE SpreadInv(far)' /\ TreeInv(dist, parent)'
    <3>1. n \in Node
      BY ExpiringAreNodes
    <3>2. UNCHANGED <<sent, handedUp>>
      BY <2>6 DEF Expire
    <3>3. TreeInv(dist, parent)'
      <4>1. \A m \in Node : \A i \in 1 .. Len(out'[m]) :
              \E j \in 1 .. Len(out[m]) : out'[m][i] = out[m][j]
        BY <2>6, <3>1, ExpireQueues DEF Numbered
      <4>2. \A m \in Node : \A i \in 1 .. Len(out'[m]) : FrameAt(dist, m, out'[m][i])
        BY <4>1 DEF TreeInv
      <4> QED BY <3>2, <4>2 DEF TreeInv, FrameAt, FromParent, Owned, Holders
    <3>4. SpreadInv(far)'
      BY <2>6, <3>1, ExpireSpread
    <3> QED BY <3>3, <3>4
  <2>5. Node \subseteq Source /\ Bridged \subseteq Source
    BY DEF Source
  <2> QED BY <2>1, <2>2, <2>3, <2>4, <2>5, <2>6 DEF Next
<1>3. Inv => BroadcastComplete
  <2> SUFFICES ASSUME Inv, \A n \in Node : out[n] = <<>>,
                      NEW id \in 1 .. Len(sent), sent[id].src = sent[id].by, NotRefused(id)
               PROVE  \A n \in Within(sent[id].by, TTLEnd + 1) \ {sent[id].by} : handedUp[n][id] >= 1
    BY DEF BroadcastComplete, NotRefused
  <2>1. Spread(id, far)
    BY DEF SpreadInv, Spreading, Owned
  <2>2. PICK s \in Node : s = sent[id].by
    BY SentRecords DEF Numbered, IInv
  <2> DEFINE inside == [k \in 0 .. TTLEnd + 1 |-> {m \in Holders(id) : dist[s][m] <= k}]
  <2>3. Holders(id) \subseteq Node /\ s \in Holders(id) /\ dist[s][s] = 0
        /\ \A m \in Node : dist[s][m] \in Nat
    BY <2>2 DEF Holders, IsTree
  <2>4. ASSUME NEW n \in Node, NEW m \in Linked(n)
        PROVE  dist[s][m] = dist[s][n] + 1 \/ dist[s][n] = dist[s][m] + 1
    <3>1. Reach[n] # {}
      BY DEF IsTree
    <3>2. PICK R \in Reach[n] : m \in R
      BY <3>1 DEF Linked
    <3>3. \/ m # s /\ n = parent[s][m] /\ dist[s][m] = dist[s][n] + 1
          \/ n # s /\ m = parent[s][n] /\ dist[s][n] = dist[s][m] + 1
      <4>1. \A a, b \in Node : \A S \in Reach[b] : \A c \in S :
              \/ c # a /\ b = parent[a][c] /\ dist[a][c] = dist[a][b] + 1
              \/ b # a /\ c = parent[a][b] /\ dist[a][b] = dist[a][c] + 1
        BY DEF IsTree
      <4> QED BY <2>2, <3>2, <4>1
    <3> QED BY <3>3
  <2>5. \A k \in 0 .. TTLEnd + 1 : \A m : m \in inside[k] <=> m \in Holders(id) /\ dist[s][m] <= k
    OBVIOUS
  <2> HIDE DEF inside
  <2>6. s \in inside[0] /\ inside[TTLEnd + 1] \subseteq Holders(id)
    BY <2>3, <2>5, NumbersAreNatural
  <2>7. ASSUME NEW k \in 1 .. TTLEnd + 1
        PROVE  /\ inside[k - 1] \subseteq inside[k]
               /\ inside[k - 1] \subseteq Holders(id)
               /\ \A n \in inside[k - 1] :
                    /\ <<sent[id].by, n>> \notin far
                    /\ Linked(n) \subseteq Holders(id) => Linked(n) \subseteq inside[k]
    <3>1. k \in 0 .. TTLEnd + 1 /\ k - 1 \in 0 .. TTLEnd + 1 /\ k - 1 <= TTLEnd /\ k \in Int
      BY NumbersAreNatural
    <3>2. inside[k - 1] \subseteq inside[k] /\ inside[k - 1] \subseteq Holders(id)
      BY <2>3, <2>5, <3>1
    <3>3. ASSUME NEW n \in inside[k - 1] PROVE <<sent[id].by, n>> \notin far
      <4>1. n \in Node /\ dist[s][n] <= k - 1 /\ dist[s][n] \in Nat
        BY <2>3, <2>5, <3>1
      <4>2. ~(dist[s][n] > TTLEnd)
        BY <3>1, <4>1, NumbersAreNatural
      <4> QED BY <2>2, <4>2 DEF far, Far
    <3>4. ASSUME NEW n \in inside[k - 1], Linked(n) \subseteq Holders(id), NEW m \in Linked(n)
          PROVE  m \in inside[k]
      <4>1. n \in Node /\ m \in Node /\ dist[s][n] <= k - 1
        BY <2>3, <2>5, <3>1 DEF Linked
      <4>2. dist[s][m] = dist[s][n] + 1 \/ dist[s][n] = dist[s][m] + 1
        BY <2>4, <4>1
      <4>3. dist[s][m] <= k
        BY <2>3, <3>1, <4>1, <4>2
      <4> QED BY <2>5, <3>1, <3>4, <4>3
    <3> QED BY <3>2, <3>3, <3>4
  <2> QED BY <2>1, <2>2, <2>6, <2>7, AllReached DEF Numbered
<1> QED BY <1>1, <1>2, <1>3, PTL DEF Spec
=============================================================================
