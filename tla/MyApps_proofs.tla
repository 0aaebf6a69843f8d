----------------------------- MODULE MyApps_proofs -----------------------------
(***************************************************************************)
(* Proofs about devices and packet objects, for every finite set of nodes, *)
(* every range, hop limit and use of the devices by the applications; and  *)
(* about the broadcast from end to end: no Receiver counts a Sender's      *)
(* packet twice.  A packet has one source address all the way, so that     *)
(* whichever node sends it on, a node that has taken it knows it again;    *)
(* and what a Receiver has counted it was given by its node, once for each *)
(* packet.                                                                 *)
(***************************************************************************)
EXTENDS MyApps, FiniteSetTheorems, SequenceTheorems, TLAPS

-----------------------------------------------------------------------------
(* How a device is put together *)

Device == [parts : SUBSET Part, complete : BOOLEAN, linkUp : BOOLEAN, listed : Nat]

\* A device is complete when it has its parts, is listed then, and not before.
DeviceOK(dev) ==
  /\ dev \in Device
  /\ dev.complete <=> dev.parts = Part
  /\ dev.listed = IF dev.complete THEN 1 ELSE 0
  /\ dev.complete => dev.linkUp

DevicesOK == DOMAIN device = Node /\ \A d \in Node : DeviceOK(device[d])

LEMMA NewDeviceOK ==
  ASSUME NEW up \in BOOLEAN
  PROVE  DeviceOK(NewDevice(up))
<1>1. {} # Part
  BY DEF Part
<1> QED BY <1>1 DEF DeviceOK, NewDevice, Device

\* A device that was not complete and is ready is listed once more, and linked.
LEMMA Completed ==
  ASSUME NEW dev \in Device, Ready(dev)
  PROVE  /\ CompleteConfig(dev) \in Device
         /\ CompleteConfig(dev).parts = dev.parts
         /\ CompleteConfig(dev).listed = dev.listed + 1
         /\ CompleteConfig(dev).complete /\ CompleteConfig(dev).linkUp
<1>1. Add(dev) \in Device /\ Add(dev).parts = dev.parts /\ Add(dev).listed = dev.listed + 1
  BY DEF Add, Device
<1> HIDE DEF Add
<1>2. /\ LinkUp(Add(dev)) \in Device /\ LinkUp(Add(dev)).parts = dev.parts
      /\ LinkUp(Add(dev)).listed = dev.listed + 1 /\ LinkUp(Add(dev)).linkUp
  BY <1>1 DEF LinkUp, Device
<1> DEFINE linked == LinkUp(Add(dev))
<1> HIDE DEF linked
<1>3. /\ linked \in Device /\ linked.parts = dev.parts
      /\ linked.listed = dev.listed + 1 /\ linked.linkUp
  BY <1>2 DEF linked
<1>4. CompleteConfig(dev) = [linked EXCEPT !.complete = TRUE]
  BY DEF CompleteConfig, linked
<1> QED BY <1>3, <1>4 DEF Device

\* Setting a part completes a device at most once.
LEMMA SetPartOK ==
  ASSUME NEW dev, DeviceOK(dev), NEW part \in Part
  PROVE  DeviceOK(SetPart(dev, part))
<1> DEFINE more == [dev EXCEPT !.parts = @ \cup {part}]
<1>1. /\ more \in Device
      /\ more.complete = dev.complete /\ more.linkUp = dev.linkUp /\ more.listed = dev.listed
      /\ more.parts = dev.parts \cup {part}
  BY DEF DeviceOK, Device
<1>2. dev.complete => more.parts = Part
  BY <1>1 DEF DeviceOK
<1> HIDE DEF more
<1>3. CASE Ready(more)
  <2>1. more.listed = 0 /\ more.parts = Part
    BY <1>1, <1>3 DEF Ready, DeviceOK
  <2>2. DeviceOK(CompleteConfig(more))
    BY <1>1, <1>3, <2>1, Completed DEF DeviceOK
  <2> QED BY <2>2 DEF SetPart, more
<1>4. CASE ~Ready(more)
  <2>1. CompleteConfig(more) = more
    BY <1>4 DEF CompleteConfig
  <2>2. DeviceOK(more)
    BY <1>1, <1>2, <1>4 DEF Ready, DeviceOK
  <2> QED BY <2>1, <2>2 DEF SetPart, more
<1> QED BY <1>3, <1>4

LEMMA ConfigureOK ==
  ASSUME DevicesOK, NEW d \in Node, NEW part \in Part, Configure(d, part)
  PROVE  DevicesOK'
BY SetPartOK DEF DevicesOK, Configure

LEMMA InstallOK ==
  ASSUME DevicesOK, Install
  PROVE  DevicesOK'
<1>1. "mac" \in Part /\ "channel" \in Part /\ "controller" \in Part /\ "node" \in Part
  BY DEF Part
<1>2. ASSUME NEW d \in Node
      PROVE  DeviceOK(SetPart(SetPart(SetPart(SetPart(device[d], "mac"), "channel"),
                                      "controller"), "node"))
  <2>1. DeviceOK(device[d])
    BY DEF DevicesOK
  <2>2. DeviceOK(SetPart(SetPart(device[d], "mac"), "channel"))
    BY <1>1, <2>1, SetPartOK
  <2> QED BY <1>1, <2>2, SetPartOK
<1> QED BY <1>2 DEF DevicesOK, Install

-----------------------------------------------------------------------------
(* Packet objects *)

HeaderT ==
  [src : Node \cup Bridged, dest : Address \cup OtherDests, ttl : Nat,
   type : HeaderTypes \cup {"DATA"}]

Packet ==
  [id : Nat, body : {"data", "slots"}, llc : Int, headers : Seq(HeaderT),
   trailers : Int, tags : Int]

\* A packet that waits in a queue, that is on the air, that was handed up.
Waits(p) ==
  /\ p \in Packet
  /\ p.headers = <<>> /\ p.trailers = 0 /\ p.tags \in 0 .. 1
  /\ p.body = "data" => p.llc = 1

Flies(p) ==
  /\ p \in Packet
  /\ Len(p.headers) = 1 /\ p.trailers = 1 /\ p.tags \in 0 .. 1
  /\ p.body = "data" => p.llc = 1

IsBare(p, id) ==
  /\ p \in Packet
  /\ p.id = id /\ p.headers = <<>> /\ p.trailers = 0 /\ p.tags = 0
  /\ p.body = "data" => p.llc = 0

Item == [ref : Nat, hdr : HeaderT]

HeapOK ==
  /\ heap \in Seq(Packet)
  /\ queue \in [Node -> Seq(Item)]
  /\ originated \in Nat

QueuesWait ==
  \A d \in Node : \A i \in 1 .. Len(queue[d]) :
    queue[d][i].ref \in 1 .. Len(heap) /\ Waits(heap[queue[d][i].ref])

\* No two receptions are given the same object.
AirFlies ==
  /\ \A e \in onAir : e.to \in Node /\ e.ref \in 1 .. Len(heap) /\ Flies(heap[e.ref])
  /\ \A e, f \in onAir : e.ref = f.ref => e = f

UpIsBare ==
  \A u \in handedUp : u.ref \in 1 .. Len(heap) /\ IsBare(heap[u.ref], u.id)

PacketsOK == HeapOK /\ QueuesWait /\ AirFlies /\ UpIsBare

IInv == DevicesOK /\ PacketsOK

-----------------------------------------------------------------------------
(* Sending *)

LEMMA CreatedPacket ==
  ASSUME NEW id \in Nat, NEW body \in {"data", "slots"}
  PROVE  /\ Created(id, body) \in Packet
         /\ Created(id, body).headers = <<>> /\ Created(id, body).trailers = 0
         /\ Created(id, body).tags = 0 /\ Created(id, body).llc = 0
         /\ Created(id, body).body = body
BY DEF Created, Packet

\* A packet of an upper layer waits with its LLC header, tagged or not.
LEMMA SentWaits ==
  ASSUME NEW id \in Nat
  PROVE  /\ Waits(AddLlc(Created(id, "data")))
         /\ Waits(AddTag(AddLlc(Created(id, "data"))))
<1>1. /\ AddLlc(Created(id, "data")) \in Packet
      /\ AddLlc(Created(id, "data")).headers = <<>> /\ AddLlc(Created(id, "data")).trailers = 0
      /\ AddLlc(Created(id, "data")).tags = 0 /\ AddLlc(Created(id, "data")).llc = 1
  BY CreatedPacket DEF AddLlc, Packet
<1> QED BY <1>1 DEF Waits, AddTag, Packet

LEMMA SlotsWait ==
  ASSUME NEW id \in Nat
  PROVE  Waits(AddTag(Created(id, "slots")))
BY CreatedPacket DEF Waits, AddTag, Packet

\* A framed packet flies.
LEMMA FramedFlies ==
  ASSUME NEW p, Waits(p), NEW hdr \in HeaderT
  PROVE  Flies(Framed(p, hdr))
<1>1. p \in Packet /\ p.headers = <<>> /\ p.trailers = 0
  BY DEF Waits
<1> DEFINE hs == <<hdr>> \o p.headers
<1>2. hs \in Seq(HeaderT) /\ Len(hs) = 1
  BY <1>1 DEF Packet
<1> HIDE DEF hs
<1> DEFINE q == [p EXCEPT !.headers = hs]
<1>3. /\ q \in Packet /\ q.headers = hs /\ q.trailers = 0
      /\ q.tags = p.tags /\ q.body = p.body /\ q.llc = p.llc
  BY <1>1, <1>2 DEF Packet
<1>4. Framed(p, hdr) = [q EXCEPT !.trailers = q.trailers + 1]
  BY DEF Framed, hs
<1> HIDE DEF q
<1>5. /\ Framed(p, hdr) \in Packet /\ Framed(p, hdr).headers = hs
      /\ Framed(p, hdr).trailers = 1 /\ Framed(p, hdr).tags = p.tags
      /\ Framed(p, hdr).body = p.body /\ Framed(p, hdr).llc = p.llc
  BY <1>3, <1>4 DEF Packet
<1> QED BY <1>2, <1>5 DEF Waits, Flies

LEMMA OriginateOK ==
  ASSUME PacketsOK, NEW d \in Node, NEW p, Waits(p), NEW hdr \in HeaderT,
         Originate(d, p, hdr)
  PROVE  PacketsOK'
<1> DEFINE ref == Len(heap) + 1
           item == [ref |-> ref, hdr |-> hdr]
<1>1. /\ heap \in Seq(Packet) /\ Len(heap) \in Nat /\ p \in Packet
      /\ heap' = Append(heap, p) /\ queue' = [queue EXCEPT ![d] = Append(queue[d], item)]
      /\ onAir' = onAir /\ handedUp' = handedUp /\ originated' = originated + 1
  BY DEF PacketsOK, HeapOK, Originate, Waits
<1>2. /\ heap' \in Seq(Packet) /\ Len(heap') = Len(heap) + 1 /\ heap'[ref] = p
      /\ \A i \in 1 .. Len(heap) : heap'[i] = heap[i]
  BY <1>1
<1>3. item \in Item
  BY <1>1 DEF Item
<1> HIDE DEF item
<1>4. HeapOK'
  BY <1>1, <1>2, <1>3 DEF PacketsOK, HeapOK
<1>5. QueuesWait'
  <2> SUFFICES ASSUME NEW m \in Node, NEW i \in 1 .. Len(queue'[m])
               PROVE  queue'[m][i].ref \in 1 .. Len(heap') /\ Waits(heap'[queue'[m][i].ref])
    BY DEF QueuesWait
  <2>1. queue[m] \in Seq(Item) /\ queue[d] \in Seq(Item)
    BY DEF PacketsOK, HeapOK
  <2>2. CASE i \in 1 .. Len(queue[m]) /\ queue'[m][i] = queue[m][i]
    BY <1>1, <1>2, <2>2 DEF PacketsOK, QueuesWait
  <2>3. CASE queue'[m][i] = item
    BY <1>1, <1>2, <2>3 DEF item
  <2>4. (i \in 1 .. Len(queue[m]) /\ queue'[m][i] = queue[m][i]) \/ queue'[m][i] = item
    BY <1>1, <1>3, <2>1 DEF PacketsOK, HeapOK
  <2> QED BY <2>2, <2>3, <2>4
<1>6. AirFlies' /\ UpIsBare'
  BY <1>1, <1>2 DEF PacketsOK, AirFlies, UpIsBare
<1> QED BY <1>4, <1>5, <1>6 DEF PacketsOK

LEMMA SendOK ==
  ASSUME PacketsOK, NEW d \in Node, NEW dest \in OtherDests \cup {Broadcast}, Send(d, dest)
  PROVE  PacketsOK'
<1>1. originated + 1 \in Nat
  BY DEF PacketsOK, HeapOK
<1>2. Waits(AddTag(AddLlc(Created(originated + 1, "data"))))
  BY <1>1, SentWaits
<1>3. Header(d, dest, 0, "DATA") \in HeaderT
  BY DEF Header, HeaderT, Address
<1> QED BY <1>2, <1>3, OriginateOK DEF Send

LEMMA SendFromOK ==
  ASSUME PacketsOK, NEW d \in Node, NEW src \in Bridged, NEW dest \in OtherDests,
         SendFrom(d, src, dest)
  PROVE  PacketsOK'
<1>1. originated + 1 \in Nat
  BY DEF PacketsOK, HeapOK
<1>2. Waits(AddLlc(Created(originated + 1, "data")))
  BY <1>1, SentWaits
<1>3. PICK type \in HeaderTypes :
        Originate(d, AddLlc(Created(originated + 1, "data")), Header(src, dest, 0, type))
  BY DEF SendFrom
<1>4. Header(src, dest, 0, type) \in HeaderT
  BY DEF Header, HeaderT
<1> QED BY <1>2, <1>3, <1>4, OriginateOK

-----------------------------------------------------------------------------
(* Transmitting *)

\* SetToSeq lists a finite set.
LEMMA SetToSeqLists ==
  ASSUME NEW S, IsFiniteSet(S)
  PROVE  /\ DOMAIN SetToSeq(S) = 1 .. Len(SetToSeq(S)) /\ Len(SetToSeq(S)) \in Nat
         /\ \A i \in 1 .. Len(SetToSeq(S)) : SetToSeq(S)[i] \in S
<1>1. Cardinality(S) \in Nat /\ ExistsBijection(1 .. Cardinality(S), S)
  BY FS_CardinalityType
<1>2. PICK f \in [1 .. Cardinality(S) -> S] : IsInjective(f)
  BY <1>1 DEF ExistsBijection, Bijection, Injection
<1>3. SetToSeq(S) \in [1 .. Cardinality(S) -> S]
  BY <1>2 DEF SetToSeq
<1>4. SetToSeq(S) \in Seq(S) /\ Len(SetToSeq(S)) = Cardinality(S)
  BY <1>1, <1>3
<1> QED BY <1>1, <1>3, <1>4

\* A channel's list is finite, and its entries are those of other devices.
LEMMA ListenersAreNodes ==
  ASSUME DevicesOK, NEW d \in Node
  PROVE  /\ Len(Listeners(d)) \in Nat
         /\ \A i \in 1 .. Len(Listeners(d)) : Listeners(d)[i][1] \in Node
<1> DEFINE entries == UNION {{r} \X (1 .. device[r].listed) : r \in InRange[d]}
<1>1. \A r \in InRange[d] : r \in Node
  BY RangeIsOtherNodes
<1>2. \A r \in InRange[d] : device[r].listed \in 0 .. 1
  BY <1>1 DEF DevicesOK, DeviceOK
<1>3. \A l \in entries : l \in Node \X (1 .. 1)
  BY <1>1, <1>2
<1>4. IsFiniteSet(Node \X (1 .. 1))
  <2>1. IsFiniteSet(1 .. 1)
    BY 1 \in Int, FS_Interval
  <2> DEFINE one == 1 .. 1
  <2> HIDE DEF one
  <2>2. IsFiniteSet(one)
    BY <2>1 DEF one
  <2>3. IsFiniteSet(Node \X one)
    BY <2>2, NodesAreFinite, FS_Product
  <2> QED BY <2>3 DEF one
<1>5. IsFiniteSet(entries)
  BY <1>3, <1>4, FS_Subset
<1> HIDE DEF entries
<1>6. /\ Len(SetToSeq(entries)) \in Nat
      /\ \A i \in 1 .. Len(SetToSeq(entries)) : SetToSeq(entries)[i] \in entries
  BY <1>5, SetToSeqLists
<1>7. Listeners(d) = SetToSeq(entries)
  BY DEF Listeners, entries
<1> QED BY <1>3, <1>6, <1>7

\* Every listener gets an object of its own; no other object changes.
LEMMA TransmitOK ==
  ASSUME DevicesOK, HeapOK, QueuesWait, UpIsBare, onAir = {},
         NEW d \in Node, NEW p, Waits(p), NEW hdr \in HeaderT,
         StartTransmission(d, p, hdr),
         queue' \in [Node -> Seq(Item)], originated' \in Nat, handedUp' = handedUp,
         \A m \in Node : \A i \in 1 .. Len(queue'[m]) :
           \E j \in 1 .. Len(queue[m]) : queue'[m][i] = queue[m][j]
  PROVE  PacketsOK'
<1> DEFINE L == Listeners(d)
           F == Framed(p, hdr)
           copies == [i \in 1 .. Len(L) |-> F]
<1>1. Flies(F) /\ F \in Packet
  BY FramedFlies DEF Flies
<1>2. Len(L) \in Nat /\ \A i \in 1 .. Len(L) : L[i][1] \in Node
  BY ListenersAreNodes
<1>3. /\ heap' = heap \o copies
      /\ onAir' = {[to |-> L[i][1], nr |-> L[i][2], ref |-> Len(heap) + i] : i \in 1 .. Len(L)}
  BY DEF StartTransmission, Copies
<1> HIDE DEF L, F
<1>4. heap \in Seq(Packet) /\ copies \in Seq(Packet) /\ Len(copies) = Len(L)
  BY <1>1, <1>2 DEF HeapOK
<1>5. /\ heap' \in Seq(Packet) /\ Len(heap') = Len(heap) + Len(L) /\ Len(heap) \in Nat
      /\ \A i \in 1 .. Len(heap) : heap'[i] = heap[i]
      /\ \A i \in 1 .. Len(L) : heap'[Len(heap) + i] = F
  BY <1>2, <1>3, <1>4
<1> HIDE DEF copies
<1>6. HeapOK'
  BY <1>5 DEF HeapOK
<1>7. QueuesWait'
  <2> SUFFICES ASSUME NEW m \in Node, NEW i \in 1 .. Len(queue'[m])
               PROVE  queue'[m][i].ref \in 1 .. Len(heap') /\ Waits(heap'[queue'[m][i].ref])
    BY DEF QueuesWait
  <2>1. PICK j \in 1 .. Len(queue[m]) : queue'[m][i] = queue[m][j]
    OBVIOUS
  <2>2. queue[m][j].ref \in 1 .. Len(heap) /\ Waits(heap[queue[m][j].ref])
    BY DEF QueuesWait
  <2> QED BY <1>2, <1>5, <2>1, <2>2
<1>8. AirFlies'
  <2>1. ASSUME NEW e \in onAir'
        PROVE  /\ e.to \in Node /\ e.ref \in 1 .. Len(heap') /\ Flies(heap'[e.ref])
               /\ \E i \in 1 .. Len(L) :
                    e = [to |-> L[i][1], nr |-> L[i][2], ref |-> Len(heap) + i]
    BY <1>1, <1>2, <1>3, <1>5
  <2>2. ASSUME NEW e \in onAir', NEW f \in onAir', e.ref = f.ref
        PROVE  e = f
    <3>1. PICK i \in 1 .. Len(L) :
            e = [to |-> L[i][1], nr |-> L[i][2], ref |-> Len(heap) + i]
      BY <2>1
    <3>2. PICK j \in 1 .. Len(L) :
            f = [to |-> L[j][1], nr |-> L[j][2], ref |-> Len(heap) + j]
      BY <2>1
    <3>3. i = j
      BY <1>2, <1>5, <2>2, <3>1, <3>2
    <3> QED BY <3>1, <3>2, <3>3
  <2> QED BY <2>1, <2>2 DEF AirFlies
<1>9. UpIsBare'
  BY <1>2, <1>5 DEF UpIsBare
<1> QED BY <1>6, <1>7, <1>8, <1>9 DEF PacketsOK

LEMMA SendPacketDownOK ==
  ASSUME IInv, NEW d \in Node, SendPacketDown(d)
  PROVE  PacketsOK'
<1> USE DEF IInv, PacketsOK
<1>1. queue[d] \in Seq(Item) /\ queue[d] # <<>>
  BY DEF SendPacketDown, HeapOK
<1>2. /\ Head(queue[d]) = queue[d][1] /\ 1 \in 1 .. Len(queue[d])
      /\ Head(queue[d]) \in Item /\ Tail(queue[d]) \in Seq(Item)
      /\ Len(Tail(queue[d])) = Len(queue[d]) - 1
      /\ \A i \in 1 .. Len(Tail(queue[d])) :
           i + 1 \in 1 .. Len(queue[d]) /\ Tail(queue[d])[i] = queue[d][i + 1]
  BY <1>1
<1>3. Waits(heap[Head(queue[d]).ref]) /\ Head(queue[d]).hdr \in HeaderT
  BY <1>2 DEF QueuesWait, Item
<1>4. /\ onAir = {} /\ queue' = [queue EXCEPT ![d] = Tail(queue[d])]
      /\ handedUp' = handedUp /\ originated' = originated
      /\ StartTransmission(d, heap[Head(queue[d]).ref], Head(queue[d]).hdr)
  BY DEF SendPacketDown
<1>5. queue' \in [Node -> Seq(Item)] /\ originated' \in Nat
  BY <1>2, <1>4 DEF HeapOK
<1>6. \A m \in Node : \A i \in 1 .. Len(queue'[m]) :
        \E j \in 1 .. Len(queue[m]) : queue'[m][i] = queue[m][j]
  <2> SUFFICES ASSUME NEW m \in Node, NEW i \in 1 .. Len(queue'[m])
               PROVE  \E j \in 1 .. Len(queue[m]) : queue'[m][i] = queue[m][j]
    OBVIOUS
  <2>1. CASE m = d
    <3>1. queue'[m] = Tail(queue[d])
      BY <1>4, <2>1 DEF HeapOK
    <3> QED BY <1>2, <2>1, <3>1
  <2>2. CASE m # d
    <3>1. queue'[m] = queue[m]
      BY <1>4, <2>2 DEF HeapOK
    <3> QED BY <3>1
  <2> QED BY <2>1, <2>2
<1> QED BY <1>3, <1>4, <1>5, <1>6, TransmitOK

LEMMA SendRouteDownOK ==
  ASSUME IInv, NEW d \in Node, SendRouteDown(d)
  PROVE  PacketsOK'
<1> USE DEF IInv, PacketsOK
<1>1. PICK type \in HeaderTypes :
        StartTransmission(d, AddTag(Created(originated + 1, "slots")),
                          Header(d, Broadcast, 0, type))
  BY DEF SendRouteDown
<1>2. /\ onAir = {} /\ queue' = queue /\ handedUp' = handedUp
      /\ originated' = originated + 1 /\ originated + 1 \in Nat
  BY DEF SendRouteDown, HeapOK
<1>3. Waits(AddTag(Created(originated + 1, "slots")))
  BY <1>2, SlotsWait
<1>4. Header(d, Broadcast, 0, type) \in HeaderT
  BY DEF Header, HeaderT, Address
<1>5. queue' \in [Node -> Seq(Item)] /\ originated' \in Nat
  BY <1>2 DEF HeapOK
<1> QED BY <1>1, <1>2, <1>3, <1>4, <1>5, TransmitOK

-----------------------------------------------------------------------------
(* Receiving *)

\* What is left of a frame when it has been taken off, and what becomes of it.
LEMMA UnframedIsBare ==
  ASSUME NEW p, Flies(p)
  PROVE  /\ Head(p.headers) \in HeaderT
         /\ RemoveTag(Unframed(p)) \in Packet
         /\ RemoveTag(Unframed(p)).headers = <<>> /\ RemoveTag(Unframed(p)).trailers = 0
         /\ RemoveTag(Unframed(p)).tags = 0
         /\ RemoveTag(Unframed(p)).body = "data" => RemoveTag(Unframed(p)).llc = 1
<1>1. p \in Packet /\ p.headers \in Seq(HeaderT) /\ Len(p.headers) = 1
  BY DEF Flies, Packet
<1> DEFINE hs == Tail(p.headers)
           q == [p EXCEPT !.headers = hs]
           r == [q EXCEPT !.trailers = q.trailers - 1]
<1>2. hs \in Seq(HeaderT) /\ hs = <<>> /\ Head(p.headers) \in HeaderT
  <2>1. hs \in Seq(HeaderT) /\ Len(hs) = 0 /\ Head(p.headers) \in HeaderT
    BY <1>1
  <2>2. hs = <<>>
    BY <2>1, EmptySeq, Zenon
  <2> QED BY <2>1, <2>2
<1>3. Unframed(p) = r
  BY DEF Unframed
<1> HIDE DEF hs
<1>4. q \in Packet /\ q.headers = hs /\ q.trailers = 1 /\ q.body = p.body /\ q.llc = p.llc
  BY <1>1, <1>2 DEF Packet, Flies
<1> HIDE DEF q
<1>5. r \in Packet /\ r.headers = hs /\ r.trailers = 0 /\ r.body = p.body /\ r.llc = p.llc
  BY <1>4 DEF Packet
<1> HIDE DEF r
<1>6. /\ RemoveTag(r) \in Packet /\ RemoveTag(r).headers = hs /\ RemoveTag(r).trailers = 0
      /\ RemoveTag(r).tags = 0 /\ RemoveTag(r).body = p.body /\ RemoveTag(r).llc = p.llc
  BY <1>5 DEF RemoveTag, Packet
<1> QED BY <1>2, <1>3, <1>6 DEF Flies

LEMMA CopyWaits ==
  ASSUME NEW p \in Packet, p.headers = <<>>, p.trailers = 0, p.tags = 0,
         p.body = "data" => p.llc = 1
  PROVE  /\ AddTag(p) \in Packet /\ Waits(AddTag(p))
         /\ RemoveLlc(p) \in Packet /\ IsBare(RemoveLlc(p), p.id)
<1>1. /\ AddTag(p) \in Packet /\ AddTag(p).headers = <<>> /\ AddTag(p).trailers = 0
      /\ AddTag(p).tags = 1 /\ AddTag(p).body = p.body /\ AddTag(p).llc = p.llc
  BY DEF AddTag, Packet
<1>2. /\ RemoveLlc(p) \in Packet /\ RemoveLlc(p).id = p.id
      /\ RemoveLlc(p).headers = <<>> /\ RemoveLlc(p).trailers = 0
      /\ RemoveLlc(p).tags = 0 /\ RemoveLlc(p).body = p.body
      /\ RemoveLlc(p).llc = p.llc - 1
  BY DEF RemoveLlc, Packet
<1> QED BY <1>1, <1>2 DEF Waits, IsBare

LEMMA SentOnHeader ==
  ASSUME NEW hdr \in HeaderT
  PROVE  SentOn(hdr) \in HeaderT
<1> DEFINE h == [hdr EXCEPT !.ttl = hdr.ttl + 1]
<1>1. h \in HeaderT
  BY DEF HeaderT
<1>2. SentOn(hdr) = [h EXCEPT !.type = "DATA"]
  BY DEF SentOn
<1> HIDE DEF h
<1> QED BY <1>1, <1>2 DEF HeaderT

LEMMA HeldByOne ==
  ASSUME NEW p, Flies(p)
  PROVE  ~Waits(p) /\ \A id : ~IsBare(p, id)
<1>1. Len(p.headers) = 1 /\ Len(<<>>) = 0
  BY DEF Flies
<1>2. p.headers # <<>>
  BY <1>1
<1> QED BY <1>2 DEF Waits, IsBare

\* The object of a frame on the air is held by nobody else, so that it can be
\* changed: a queued packet carries no frame, nor does one that was handed up.
LEMMA OthersUnchanged ==
  ASSUME PacketsOK, NEW e \in onAir, NEW h \in Seq(Packet), Len(h) >= Len(heap),
         \A i \in 1 .. Len(heap) : i # e.ref => h[i] = heap[i]
  PROVE  /\ \A d \in Node : \A i \in 1 .. Len(queue[d]) :
              queue[d][i].ref \in 1 .. Len(h) /\ Waits(h[queue[d][i].ref])
         /\ \A f \in onAir \ {e} : f.to \in Node /\ f.ref \in 1 .. Len(h) /\ Flies(h[f.ref])
         /\ \A u \in handedUp : u.ref \in 1 .. Len(h) /\ IsBare(h[u.ref], u.id)
<1>1. e.ref \in 1 .. Len(heap) /\ Flies(heap[e.ref]) /\ Len(heap) \in Nat
  BY DEF PacketsOK, HeapOK, AirFlies
<1>2. ASSUME NEW d \in Node, NEW i \in 1 .. Len(queue[d])
      PROVE  queue[d][i].ref \in 1 .. Len(h) /\ Waits(h[queue[d][i].ref])
  <2>1. queue[d][i].ref \in 1 .. Len(heap) /\ Waits(heap[queue[d][i].ref])
    BY DEF PacketsOK, QueuesWait
  <2>2. queue[d][i].ref # e.ref
    BY <1>1, <2>1, HeldByOne
  <2> QED BY <1>1, <2>1, <2>2
<1>3. ASSUME NEW f \in onAir \ {e}
      PROVE  f.to \in Node /\ f.ref \in 1 .. Len(h) /\ Flies(h[f.ref])
  <2>1. f.to \in Node /\ f.ref \in 1 .. Len(heap) /\ Flies(heap[f.ref]) /\ f.ref # e.ref
    BY DEF PacketsOK, AirFlies
  <2> QED BY <1>1, <2>1
<1>4. ASSUME NEW u \in handedUp
      PROVE  u.ref \in 1 .. Len(h) /\ IsBare(h[u.ref], u.id)
  <2>1. u.ref \in 1 .. Len(heap) /\ IsBare(heap[u.ref], u.id)
    BY DEF PacketsOK, UpIsBare
  <2>2. u.ref # e.ref
    BY <1>1, <2>1, HeldByOne
  <2> QED BY <1>1, <2>1, <2>2
<1> QED BY <1>2, <1>3, <1>4

\* A new packet that was handed up lies bare in its object.
LEMMA ForwardedUpIsBare ==
  ASSUME NEW d, NEW ref, NEW id, NEW dest, ForwardUp(d, ref, id, dest)
  PROVE  \A u \in handedUp' : u \in handedUp \/ (u.ref = ref /\ u.id = id)
BY DEF ForwardUp

LEMMA AcceptOK ==
  ASSUME PacketsOK, NEW e \in onAir, onAir' = onAir \ {e}, originated' = originated,
         NEW hdr \in HeaderT, NEW p \in Packet, NEW transmit \in BOOLEAN,
         p.headers = <<>>, p.trailers = 0, p.tags = 0, p.body = "data" => p.llc = 1,
         Accept(e.to, e.ref, p, hdr, transmit)
  PROVE  PacketsOK'
<1> DEFINE bare == RemoveLlc(p)
           copy == AddTag(p)
           item == [ref |-> Len(heap) + 1, hdr |-> SentOn(hdr)]
           h == [heap EXCEPT ![e.ref] = bare]
<1>1. copy \in Packet /\ Waits(copy) /\ bare \in Packet /\ IsBare(bare, p.id)
  BY CopyWaits
<1>2. /\ e.to \in Node /\ e.ref \in 1 .. Len(heap) /\ heap \in Seq(Packet)
      /\ Len(heap) \in Nat /\ queue \in [Node -> Seq(Item)] /\ originated \in Nat
  BY DEF PacketsOK, HeapOK, AirFlies
<1>3. item \in Item
  BY <1>2, SentOnHeader DEF Item
<1>4. \A u \in handedUp' : u \in handedUp \/ (u.ref = e.ref /\ u.id = p.id)
  BY ForwardedUpIsBare DEF Accept
<1>5. \/ /\ heap' = Append(h, copy)
         /\ queue' = [queue EXCEPT ![e.to] = Append(queue[e.to], item)]
      \/ heap' = h /\ queue' = queue
  BY DEF Accept
<1> HIDE DEF item, copy, bare
<1>6. /\ h \in Seq(Packet) /\ Len(h) = Len(heap) /\ h[e.ref] = bare
      /\ \A i \in 1 .. Len(heap) : i # e.ref => h[i] = heap[i]
  BY <1>1, <1>2
<1> HIDE DEF h
<1>7. /\ heap' \in Seq(Packet) /\ Len(heap') >= Len(heap) /\ heap'[e.ref] = bare
      /\ \A i \in 1 .. Len(heap) : i # e.ref => heap'[i] = heap[i]
  <2>1. CASE heap' = h
    BY <1>6, <1>2, <2>1
  <2>2. CASE heap' = Append(h, copy)
    <3>1. /\ heap' \in Seq(Packet) /\ Len(heap') = Len(heap) + 1
          /\ \A i \in 1 .. Len(heap) : heap'[i] = h[i]
      BY <1>1, <1>2, <1>6, <2>2
    <3> QED BY <1>2, <1>6, <3>1
  <2> QED BY <1>5, <2>1, <2>2
<1>8. /\ \A d \in Node : \A i \in 1 .. Len(queue[d]) :
           queue[d][i].ref \in 1 .. Len(heap') /\ Waits(heap'[queue[d][i].ref])
      /\ \A f \in onAir \ {e} :
           f.to \in Node /\ f.ref \in 1 .. Len(heap') /\ Flies(heap'[f.ref])
      /\ \A u \in handedUp : u.ref \in 1 .. Len(heap') /\ IsBare(heap'[u.ref], u.id)
  BY <1>7, OthersUnchanged
<1>9. HeapOK'
  <2>1. queue' \in [Node -> Seq(Item)]
    <3>1. Append(queue[e.to], item) \in Seq(Item)
      BY <1>2, <1>3
    <3> QED BY <1>2, <1>5, <3>1
  <2> QED BY <1>2, <1>7, <2>1 DEF HeapOK
<1>10. QueuesWait'
  <2>1. CASE heap' = h /\ queue' = queue
    BY <1>8, <2>1 DEF QueuesWait
  <2>2. CASE /\ heap' = Append(h, copy)
             /\ queue' = [queue EXCEPT ![e.to] = Append(queue[e.to], item)]
    <3> SUFFICES ASSUME NEW m \in Node, NEW i \in 1 .. Len(queue'[m])
                 PROVE  queue'[m][i].ref \in 1 .. Len(heap') /\ Waits(heap'[queue'[m][i].ref])
      BY DEF QueuesWait
    <3>1. queue[m] \in Seq(Item) /\ queue[e.to] \in Seq(Item)
      BY <1>2
    <3>2. (i \in 1 .. Len(queue[m]) /\ queue'[m][i] = queue[m][i]) \/ queue'[m][i] = item
      BY <1>2, <1>3, <2>2, <3>1
    <3>3. heap'[Len(heap) + 1] = copy /\ Len(heap') = Len(heap) + 1
      BY <1>1, <1>2, <1>6, <2>2
    <3>4. CASE i \in 1 .. Len(queue[m]) /\ queue'[m][i] = queue[m][i]
      BY <1>8, <3>4
    <3>5. CASE queue'[m][i] = item
      <4>1. item.ref = Len(heap) + 1
        BY DEF item
      <4> QED BY <1>1, <1>2, <3>3, <3>5, <4>1
    <3> QED BY <3>2, <3>4, <3>5
  <2> QED BY <1>5, <2>1, <2>2
<1>11. AirFlies'
  BY <1>8 DEF PacketsOK, AirFlies
<1>12. UpIsBare'
  <2> SUFFICES ASSUME NEW u \in handedUp'
               PROVE  u.ref \in 1 .. Len(heap') /\ IsBare(heap'[u.ref], u.id)
    BY DEF UpIsBare
  <2>1. CASE u \in handedUp
    BY <1>8, <2>1
  <2>2. CASE u.ref = e.ref /\ u.id = p.id
    BY <1>1, <1>2, <1>7, <2>2
  <2> QED BY <1>4, <2>1, <2>2
<1> QED BY <1>9, <1>10, <1>11, <1>12 DEF PacketsOK

LEMMA ReceiveOK ==
  ASSUME PacketsOK, NEW e \in onAir, Receive(e)
  PROVE  PacketsOK'
<1> DEFINE hdr == Head(heap[e.ref].headers)
           p == RemoveTag(Unframed(heap[e.ref]))
<1>1. Flies(heap[e.ref]) /\ e.ref \in 1 .. Len(heap)
  BY DEF PacketsOK, AirFlies
<1>2. /\ hdr \in HeaderT /\ p \in Packet /\ p.headers = <<>> /\ p.trailers = 0
      /\ p.tags = 0 /\ (p.body = "data" => p.llc = 1)
  BY <1>1, UnframedIsBare
<1>3. /\ onAir' = onAir \ {e} /\ originated' = originated
      /\ \/ \E transmit \in BOOLEAN : Accept(e.to, e.ref, p, hdr, transmit)
         \/ heap' = [heap EXCEPT ![e.ref] = p] /\ queue' = queue /\ handedUp' = handedUp
  BY DEF Receive
<1> HIDE DEF hdr, p
<1>4. CASE \E transmit \in BOOLEAN : Accept(e.to, e.ref, p, hdr, transmit)
  BY <1>2, <1>3, <1>4, AcceptOK
<1>5. CASE heap' = [heap EXCEPT ![e.ref] = p] /\ queue' = queue /\ handedUp' = handedUp
  <2>1. heap \in Seq(Packet) /\ Len(heap) \in Nat
    BY DEF PacketsOK, HeapOK
  <2>2. /\ heap' \in Seq(Packet) /\ Len(heap') >= Len(heap)
        /\ \A i \in 1 .. Len(heap) : i # e.ref => heap'[i] = heap[i]
    BY <1>1, <1>2, <1>5, <2>1
  <2>3. /\ \A d \in Node : \A i \in 1 .. Len(queue[d]) :
             queue[d][i].ref \in 1 .. Len(heap') /\ Waits(heap'[queue[d][i].ref])
        /\ \A f \in onAir \ {e} :
             f.to \in Node /\ f.ref \in 1 .. Len(heap') /\ Flies(heap'[f.ref])
        /\ \A u \in handedUp : u.ref \in 1 .. Len(heap') /\ IsBare(heap'[u.ref], u.id)
    BY <2>2, OthersUnchanged
  <2>4. HeapOK'
    BY <1>3, <1>5, <2>2 DEF PacketsOK, HeapOK
  <2>5. QueuesWait' /\ UpIsBare'
    BY <1>5, <2>3 DEF QueuesWait, UpIsBare
  <2>6. AirFlies'
    BY <1>3, <2>3 DEF PacketsOK, AirFlies
  <2> QED BY <2>4, <2>5, <2>6 DEF PacketsOK
<1> QED BY <1>3, <1>4, <1>5

-----------------------------------------------------------------------------
(* The invariant *)

LEMMA InitOK == Init => IInv
<1> SUFFICES ASSUME Init
             PROVE  IInv
  OBVIOUS
<1> USE DEF Init, DeviceInit
<1>1. DevicesOK
  <2>1. ASSUME NEW d \in Node
        PROVE  \E up \in BOOLEAN : device[d] = NewDevice(up)
    OBVIOUS
  <2> QED BY <2>1, NewDeviceOK DEF DevicesOK
<1>2. HeapOK /\ QueuesWait /\ AirFlies /\ UpIsBare
  BY DEF HeapOK, QueuesWait, AirFlies, UpIsBare
<1> QED BY <1>1, <1>2 DEF IInv, PacketsOK

LEMMA DevicesStay ==
  ASSUME DevicesOK, device' = device
  PROVE  DevicesOK'
BY DEF DevicesOK

LEMMA PacketsStay ==
  ASSUME PacketsOK, UNCHANGED packetVars
  PROVE  PacketsOK'
BY DEF packetVars, PacketsOK, HeapOK, QueuesWait, AirFlies, UpIsBare

\* Only the configuration changes a device; it changes no packet.
LEMMA ConfigurationOK ==
  ASSUME IInv,
         (\E d \in Node : \E part \in Part : Configure(d, part)) \/ Install \/ Initialize
  PROVE  IInv'
<1>1. DevicesOK /\ PacketsOK
  BY DEF IInv
<1>2. UNCHANGED packetVars
  BY DEF Configure, Install, Initialize
<1>3. DevicesOK'
  <2>1. CASE \E d \in Node : \E part \in Part : Configure(d, part)
    BY <1>1, <2>1, ConfigureOK
  <2>2. CASE Install
    BY <1>1, <2>2, InstallOK
  <2>3. CASE Initialize
    BY <1>1, <2>3, DevicesStay DEF Initialize
  <2> QED BY <2>1, <2>2, <2>3
<1> QED BY <1>1, <1>2, <1>3, PacketsStay DEF IInv

LEMMA OtherTrafficOK ==
  ASSUME IInv, OtherTraffic
  PROVE  IInv'
<1>1. DevicesOK /\ PacketsOK
  BY DEF IInv
<1>2. ASSUME NEW d \in Node, SendPacketDown(d)
      PROVE  IInv'
  <2>1. device' = device
    BY <1>2 DEF SendPacketDown, configVars
  <2> QED BY <1>1, <1>2, <2>1, SendPacketDownOK, DevicesStay DEF IInv
<1>3. ASSUME NEW d \in Node, SendRouteDown(d)
      PROVE  IInv'
  <2>1. device' = device
    BY <1>3 DEF SendRouteDown, configVars
  <2> QED BY <1>1, <1>3, <2>1, SendRouteDownOK, DevicesStay DEF IInv
<1>4. ASSUME NEW d \in Node, NEW dest \in OtherDests, Send(d, dest)
      PROVE  IInv'
  <2>1. device' = device
    BY <1>4 DEF Send, Originate, configVars
  <2> QED BY <1>1, <1>4, <2>1, SendOK, DevicesStay DEF IInv
<1>5. ASSUME NEW d \in Node, NEW src \in Bridged, NEW dest \in OtherDests,
             SendFrom(d, src, dest)
      PROVE  IInv'
  <2>1. device' = device
    BY <1>5 DEF SendFrom, Originate, configVars
  <2> QED BY <1>1, <1>5, <2>1, SendFromOK, DevicesStay DEF IInv
<1> QED BY <1>2, <1>3, <1>4, <1>5 DEF OtherTraffic

LEMMA ArriveOK ==
  ASSUME IInv, NEW e \in onAir, Arrive(e)
  PROVE  IInv'
<1>1. Receive(e) /\ device' = device
  BY DEF Arrive, Receive, configVars
<1> QED BY <1>1, ReceiveOK, DevicesStay DEF IInv

\* The applications leave the devices alone, or send.
LEMMA ApplicationsOK ==
  ASSUME IInv,
         \/ \E n \in Senders : StartSender(n) \/ StopSender(n) \/ SendPacket(n)
         \/ \E n \in Receivers : StartReceiver(n) \/ StopReceiver(n) \/ Report(n)
  PROVE  IInv'
<1>1. DevicesOK /\ PacketsOK
  BY DEF IInv
<1>2. ASSUME NEW n \in Senders, SendPacket(n)
      PROVE  IInv'
  <2>1. Send(n, Broadcast) /\ n \in Node
    BY <1>2, AppsOnNodes DEF SendPacket
  <2>2. device' = device
    BY <2>1 DEF Send, Originate, configVars
  <2>3. PacketsOK'
    BY <1>1, <2>1, SendOK
  <2> QED BY <1>1, <2>2, <2>3, DevicesStay DEF IInv
<1>3. CASE UNCHANGED deviceVars
  BY <1>1, <1>3, DevicesStay, PacketsStay DEF IInv, deviceVars, configVars
<1>4. UNCHANGED deviceVars \/ \E n \in Senders : SendPacket(n)
  BY DEF StartSender, StopSender, StartReceiver, StopReceiver, Report
<1> QED BY <1>2, <1>3, <1>4

LEMMA StepOK == IInv /\ [Next]_vars => IInv'
<1> SUFFICES ASSUME IInv, [Next]_vars
             PROVE  IInv'
  OBVIOUS
<1>1. CASE UNCHANGED vars
  BY <1>1, DevicesStay, PacketsStay DEF IInv, vars, deviceVars, configVars
<1>2. CASE Next
  BY <1>2, ConfigurationOK, OtherTrafficOK, ArriveOK, ApplicationsOK DEF Next
<1> QED BY <1>1, <1>2

LEMMA Invariant == Spec => []IInv
BY InitOK, StepOK, PTL DEF Spec

\* A device is in the channel's list once when it has all its parts, and not
\* before, in whatever order and however often SetMac, SetNode, SetChannel and
\* SetTdmaController are called (CompleteConfig).
THEOREM DevicesListedOnce == Spec => []ListedOnce
<1>1. IInv => ListedOnce
  BY DEF IInv, DevicesOK, DeviceOK, ListedOnce
<1> QED BY <1>1, Invariant, PTL

\* No layer changes a packet object that another layer still holds: what waits
\* in a queue has no frame, and what is on the air has one (StartTransmission,
\* TdmaMacLow::Receive, TdmaCentralMac::Receive).
THEOREM LayersKeepPackets == Spec => []Layered
<1>1. IInv => Layered
  BY DEF IInv, PacketsOK, QueuesWait, AirFlies, Waits, Flies, Layered
<1> QED BY <1>1, Invariant, PTL

\* What was handed up stays bare although a copy of it is sent on.
THEOREM UpperLayersKeepPackets == Spec => []HandedUpBare
<1>1. IInv => HandedUpBare
  BY DEF IInv, PacketsOK, UpIsBare, IsBare, HandedUpBare
<1> QED BY <1>1, Invariant, PTL

-----------------------------------------------------------------------------
(* The source of a packet *)

\* The source addresses, and one address more so that there is always one.
Source == Node \cup Bridged \cup {Broadcast}

\* owner[id] is the source address under which the packet was sent first.
QueueOwned(owner) ==
  \A d \in Node : \A i \in 1 .. Len(queue[d]) :
    LET item == queue[d][i]
    IN  heap[item.ref].id \in 1 .. originated /\ item.hdr.src = owner[heap[item.ref].id]

AirOwned(owner) ==
  \A e \in onAir :
    /\ heap[e.ref].id \in 1 .. originated
    /\ Head(heap[e.ref].headers).src = owner[heap[e.ref].id]

\* A packet that was handed up is remembered under its source.
UpHeard(owner) ==
  \A u \in handedUp : u.id \in 1 .. originated /\ <<owner[u.id], u.id>> \in heard[u.by]

Owned(owner) ==
  /\ owner \in [Nat -> Source]
  /\ QueueOwned(owner) /\ AirOwned(owner) /\ UpHeard(owner)

HeardOK == heard \in [Node -> SUBSET (Source \X Nat)]

\* The Senders' packets that node n's receive callback was given.
Given(n) == {id \in appIds : \E u \in handedUp : u.by = n /\ u.cb = "receive" /\ u.id = id}

CountsOK ==
  /\ appIds \subseteq 1 .. originated
  /\ waiting \in [Receivers -> Nat] /\ recvPackets \in [Receivers -> Nat]
  /\ reported \in [Receivers -> Nat]
  /\ \A n \in Receivers :
       waiting[n] + recvPackets[n] + reported[n] <= Cardinality(Given(n))

CInv == IInv /\ HeardOK /\ (\E owner : Owned(owner)) /\ CountsOK

-----------------------------------------------------------------------------
(* A packet keeps its source *)

LEMMA OriginateOwned ==
  ASSUME PacketsOK, HeardOK, NEW owner, Owned(owner),
         NEW d \in Node, NEW p \in Packet, NEW hdr \in HeaderT,
         p.id = originated + 1, Originate(d, p, hdr)
  PROVE  (\E o : Owned(o)') /\ HeardOK'
<1> DEFINE item == [ref |-> Len(heap) + 1, hdr |-> hdr]
<1> PICK new : new = [owner EXCEPT ![originated + 1] = hdr.src]
  OBVIOUS
<1>1. /\ heap \in Seq(Packet) /\ Len(heap) \in Nat /\ originated \in Nat
      /\ queue \in [Node -> Seq(Item)]
  BY DEF PacketsOK, HeapOK
<1>2. /\ heap' = Append(heap, p) /\ queue' = [queue EXCEPT ![d] = Append(queue[d], item)]
      /\ onAir' = onAir /\ handedUp' = handedUp /\ heard' = heard
      /\ originated' = originated + 1
  BY DEF Originate
<1>3. /\ heap'[Len(heap) + 1] = p
      /\ \A i \in 1 .. Len(heap) : heap'[i] = heap[i]
  BY <1>1, <1>2
<1>4. /\ item \in Item /\ item.ref = Len(heap) + 1 /\ item.hdr = hdr
      /\ hdr.src \in Source
  BY <1>1 DEF Item, HeaderT, Source
<1> HIDE DEF item
<1>5. /\ new \in [Nat -> Source] /\ new[originated + 1] = hdr.src
      /\ \A id \in 1 .. originated : id \in 1 .. originated' /\ new[id] = owner[id]
      /\ originated + 1 \in 1 .. originated'
  <2>1. new \in [Nat -> Source] /\ new[originated + 1] = hdr.src
    BY <1>1, <1>4 DEF Owned
  <2>2. \A id \in 1 .. originated : new[id] = owner[id]
    BY <1>1, <1>4 DEF Owned
  <2> QED BY <1>1, <1>2, <2>1, <2>2
<1>6. QueueOwned(new)'
  <2> SUFFICES ASSUME NEW m \in Node, NEW i \in 1 .. Len(queue'[m])
               PROVE  /\ heap'[queue'[m][i].ref].id \in 1 .. originated'
                      /\ queue'[m][i].hdr.src = new[heap'[queue'[m][i].ref].id]
    BY DEF QueueOwned
  <2>1. queue[m] \in Seq(Item) /\ queue[d] \in Seq(Item)
    BY <1>1
  <2>2. (i \in 1 .. Len(queue[m]) /\ queue'[m][i] = queue[m][i]) \/ queue'[m][i] = item
    BY <1>1, <1>2, <1>4, <2>1
  <2>3. CASE i \in 1 .. Len(queue[m]) /\ queue'[m][i] = queue[m][i]
    <3>1. queue[m][i].ref \in 1 .. Len(heap)
      BY <2>3 DEF PacketsOK, QueuesWait
    <3>2. /\ heap[queue[m][i].ref].id \in 1 .. originated
          /\ queue[m][i].hdr.src = owner[heap[queue[m][i].ref].id]
      BY <2>3 DEF Owned, QueueOwned
    <3>3. heap'[queue'[m][i].ref] = heap[queue[m][i].ref]
      BY <1>3, <2>3, <3>1
    <3> QED BY <1>5, <2>3, <3>2, <3>3
  <2>4. CASE queue'[m][i] = item
    BY <1>3, <1>4, <1>5, <2>4
  <2> QED BY <2>2, <2>3, <2>4
<1>7. AirOwned(new)'
  <2> SUFFICES ASSUME NEW e \in onAir
               PROVE  /\ heap'[e.ref].id \in 1 .. originated'
                      /\ Head(heap'[e.ref].headers).src = new[heap'[e.ref].id]
    BY <1>2 DEF AirOwned
  <2>1. e.ref \in 1 .. Len(heap)
    BY DEF PacketsOK, AirFlies
  <2>2. /\ heap[e.ref].id \in 1 .. originated
        /\ Head(heap[e.ref].headers).src = owner[heap[e.ref].id]
    BY DEF Owned, AirOwned
  <2>3. heap'[e.ref] = heap[e.ref]
    BY <1>3, <2>1
  <2> QED BY <1>5, <2>2, <2>3
<1>8. UpHeard(new)'
  BY <1>1, <1>2, <1>5 DEF Owned, UpHeard
<1>9. HeardOK'
  BY <1>2 DEF HeardOK
<1> QED BY <1>5, <1>6, <1>7, <1>8, <1>9 DEF Owned

\* The packets that are originated have an id that was not used before.
LEMMA CreatedIds ==
  ASSUME NEW id \in Nat
  PROVE  /\ AddLlc(Created(id, "data")).id = id
         /\ AddTag(AddLlc(Created(id, "data"))).id = id
         /\ AddTag(Created(id, "slots")).id = id
BY DEF AddLlc, AddTag, Created

LEMMA SendOwned ==
  ASSUME PacketsOK, HeardOK, NEW owner, Owned(owner),
         NEW d \in Node, NEW dest \in OtherDests \cup {Broadcast}, Send(d, dest)
  PROVE  (\E o : Owned(o)') /\ HeardOK'
<1>1. originated + 1 \in Nat
  BY DEF PacketsOK, HeapOK
<1>2. AddTag(AddLlc(Created(originated + 1, "data"))) \in Packet
  BY <1>1, SentWaits DEF Waits
<1>3. Header(d, dest, 0, "DATA") \in HeaderT
  BY DEF Header, HeaderT, Address
<1> QED BY <1>1, <1>2, <1>3, CreatedIds, OriginateOwned DEF Send

LEMMA SendFromOwned ==
  ASSUME PacketsOK, HeardOK, NEW owner, Owned(owner),
         NEW d \in Node, NEW src \in Bridged, NEW dest \in OtherDests, SendFrom(d, src, dest)
  PROVE  (\E o : Owned(o)') /\ HeardOK'
<1>1. originated + 1 \in Nat
  BY DEF PacketsOK, HeapOK
<1>2. AddLlc(Created(originated + 1, "data")) \in Packet
  BY <1>1, SentWaits DEF Waits
<1>3. PICK type \in HeaderTypes :
        Originate(d, AddLlc(Created(originated + 1, "data")), Header(src, dest, 0, type))
  BY DEF SendFrom
<1>4. Header(src, dest, 0, type) \in HeaderT
  BY DEF Header, HeaderT
<1> QED BY <1>1, <1>2, <1>3, <1>4, CreatedIds, OriginateOwned

LEMMA FramedKeeps ==
  ASSUME NEW p, Waits(p), NEW hdr \in HeaderT
  PROVE  Framed(p, hdr).id = p.id /\ Head(Framed(p, hdr).headers) = hdr
<1>1. p \in Packet /\ p.headers = <<>>
  BY DEF Waits
<1> DEFINE hs == <<hdr>> \o p.headers
           q == [p EXCEPT !.headers = hs]
<1>2. hs \in Seq(HeaderT) /\ Head(hs) = hdr
  BY <1>1 DEF Packet
<1>3. Framed(p, hdr) = [q EXCEPT !.trailers = q.trailers + 1]
  BY DEF Framed
<1> HIDE DEF hs
<1>4. q \in Packet /\ q.headers = hs /\ q.id = p.id
  BY <1>1, <1>2 DEF Packet
<1> HIDE DEF q
<1>5. Framed(p, hdr).headers = hs /\ Framed(p, hdr).id = p.id
  BY <1>3, <1>4 DEF Packet
<1> QED BY <1>2, <1>5

\* A transmission puts nothing new into a queue.
NothingQueued ==
  \A m \in Node : \A i \in 1 .. Len(queue'[m]) :
    \E j \in 1 .. Len(queue[m]) : queue'[m][i] = queue[m][j]

\* Two owners agree on the packets originated so far.
Agree(owner, new) ==
  /\ owner \in [Nat -> Source] /\ new \in [Nat -> Source]
  /\ \A id \in 1 .. originated : new[id] = owner[id]

\* A transmission sends the packet under the source of its header.
LEMMA TransmitOwned ==
  ASSUME DevicesOK, HeapOK, QueuesWait, onAir = {},
         NEW d \in Node, NEW p, Waits(p), NEW hdr \in HeaderT,
         StartTransmission(d, p, hdr),
         NEW owner, QueueOwned(owner), UpHeard(owner), NEW new, Agree(owner, new),
         originated' \in Nat, originated <= originated', originated \in Nat,
         p.id \in 1 .. originated', hdr.src = new[p.id],
         handedUp' = handedUp, heard' = heard, NothingQueued
  PROVE  \E o : Owned(o)'
<1> DEFINE L == Listeners(d)
           F == Framed(p, hdr)
           copies == [i \in 1 .. Len(L) |-> F]
<1>1. Flies(F) /\ F \in Packet /\ F.id = p.id /\ Head(F.headers) = hdr
  BY FramedFlies, FramedKeeps DEF Flies
<1>2. Len(L) \in Nat
  BY ListenersAreNodes
<1>3. /\ heap' = heap \o copies
      /\ onAir' = {[to |-> L[i][1], nr |-> L[i][2], ref |-> Len(heap) + i] : i \in 1 .. Len(L)}
  BY DEF StartTransmission, Copies
<1> HIDE DEF L, F
<1>4. heap \in Seq(Packet) /\ copies \in Seq(Packet) /\ Len(copies) = Len(L)
  BY <1>1, <1>2 DEF HeapOK
<1>5. /\ \A i \in 1 .. Len(heap) : heap'[i] = heap[i]
      /\ \A i \in 1 .. Len(L) : heap'[Len(heap) + i] = F
  BY <1>2, <1>3, <1>4
<1> HIDE DEF copies
<1>6. /\ new \in [Nat -> Source]
      /\ \A id \in 1 .. originated : id \in 1 .. originated' /\ new[id] = owner[id]
  BY DEF Agree
<1>7. QueueOwned(new)'
  <2> SUFFICES ASSUME NEW m \in Node, NEW i \in 1 .. Len(queue'[m])
               PROVE  /\ heap'[queue'[m][i].ref].id \in 1 .. originated'
                      /\ queue'[m][i].hdr.src = new[heap'[queue'[m][i].ref].id]
    BY DEF QueueOwned
  <2>1. PICK j \in 1 .. Len(queue[m]) : queue'[m][i] = queue[m][j]
    BY DEF NothingQueued
  <2>2. /\ heap[queue[m][j].ref].id \in 1 .. originated
        /\ queue[m][j].hdr.src = owner[heap[queue[m][j].ref].id]
    BY DEF QueueOwned
  <2>3. queue[m][j].ref \in 1 .. Len(heap)
    BY DEF QueuesWait
  <2>4. heap'[queue'[m][i].ref] = heap[queue[m][j].ref]
    BY <1>5, <2>1, <2>3
  <2> QED BY <1>6, <2>1, <2>2, <2>4
<1>8. AirOwned(new)'
  <2> SUFFICES ASSUME NEW e \in onAir'
               PROVE  /\ heap'[e.ref].id \in 1 .. originated'
                      /\ Head(heap'[e.ref].headers).src = new[heap'[e.ref].id]
    BY DEF AirOwned
  <2>1. PICK i \in 1 .. Len(L) :
          e = [to |-> L[i][1], nr |-> L[i][2], ref |-> Len(heap) + i]
    BY <1>3
  <2>2. heap'[e.ref] = F
    BY <1>5, <2>1
  <2> QED BY <1>1, <2>2
<1>9. UpHeard(new)'
  BY <1>6 DEF UpHeard
<1> QED BY <1>6, <1>7, <1>8, <1>9 DEF Owned

LEMMA SendPacketDownOwned ==
  ASSUME IInv, HeardOK, NEW owner, Owned(owner), NEW d \in Node, SendPacketDown(d)
  PROVE  (\E o : Owned(o)') /\ HeardOK'
<1> USE DEF IInv, PacketsOK, Owned
<1>1. queue[d] \in Seq(Item) /\ queue[d] # <<>> /\ queue \in [Node -> Seq(Item)]
  BY DEF SendPacketDown, HeapOK
<1>2. /\ Head(queue[d]) = queue[d][1] /\ 1 \in 1 .. Len(queue[d])
      /\ Head(queue[d]) \in Item /\ Len(Tail(queue[d])) = Len(queue[d]) - 1
      /\ \A i \in 1 .. Len(Tail(queue[d])) :
           i + 1 \in 1 .. Len(queue[d]) /\ Tail(queue[d])[i] = queue[d][i + 1]
  BY <1>1
<1> DEFINE p == heap[Head(queue[d]).ref]
           hdr == Head(queue[d]).hdr
<1>3. Waits(p) /\ hdr \in HeaderT /\ p.id \in 1 .. originated /\ hdr.src = owner[p.id]
  BY <1>2 DEF QueuesWait, QueueOwned, Item
<1>4. /\ onAir = {} /\ queue' = [queue EXCEPT ![d] = Tail(queue[d])]
      /\ handedUp' = handedUp /\ originated' = originated /\ heard' = heard
      /\ StartTransmission(d, p, hdr)
  BY DEF SendPacketDown
<1>5. originated \in Nat /\ originated <= originated'
  BY <1>4 DEF HeapOK
<1> HIDE DEF p, hdr
<1>6. NothingQueued
  <2> SUFFICES ASSUME NEW m \in Node, NEW i \in 1 .. Len(queue'[m])
               PROVE  \E j \in 1 .. Len(queue[m]) : queue'[m][i] = queue[m][j]
    BY DEF NothingQueued
  <2>1. CASE m = d
    <3>1. queue'[m] = Tail(queue[d])
      BY <1>1, <1>4, <2>1
    <3> QED BY <1>2, <2>1, <3>1
  <2>2. CASE m # d
    <3>1. queue'[m] = queue[m]
      BY <1>1, <1>4, <2>2
    <3> QED BY <3>1
  <2> QED BY <2>1, <2>2
<1>7. HeardOK'
  BY <1>4 DEF HeardOK
<1>8. Agree(owner, owner)
  BY DEF Agree
<1> QED BY <1>3, <1>4, <1>5, <1>6, <1>7, <1>8, TransmitOwned

LEMMA SendRouteDownOwned ==
  ASSUME IInv, HeardOK, NEW owner, Owned(owner), NEW d \in Node, SendRouteDown(d)
  PROVE  (\E o : Owned(o)') /\ HeardOK'
<1> PICK p : p = AddTag(Created(originated + 1, "slots"))
  OBVIOUS
<1>1. PICK type \in HeaderTypes : StartTransmission(d, p, Header(d, Broadcast, 0, type))
  BY DEF SendRouteDown
<1>2. /\ onAir = {} /\ queue' = queue /\ handedUp' = handedUp /\ heard' = heard
      /\ originated' = originated + 1 /\ originated \in Nat
  BY DEF SendRouteDown, HeapOK, IInv, PacketsOK
<1>3. Waits(p) /\ p.id = originated + 1
  BY <1>2, SlotsWait, CreatedIds
<1> PICK hdr : hdr = Header(d, Broadcast, 0, type)
  OBVIOUS
<1>4. hdr \in HeaderT /\ hdr.src = d
  BY DEF Header, HeaderT, Address
<1> PICK new : new = [owner EXCEPT ![originated + 1] = d]
  OBVIOUS
<1>5. Agree(owner, new) /\ new[originated + 1] = d
  BY <1>2 DEF Owned, Agree, Source
<1>6. /\ originated' \in Nat /\ originated <= originated'
      /\ p.id \in 1 .. originated' /\ hdr.src = new[p.id]
  BY <1>2, <1>3, <1>4, <1>5
<1>7. DevicesOK /\ HeapOK /\ QueuesWait /\ QueueOwned(owner) /\ UpHeard(owner)
  BY DEF Owned, IInv, PacketsOK
<1>8. NothingQueued
  BY <1>2 DEF NothingQueued
<1>9. \E o : Owned(o)'
  BY <1>1, <1>2, <1>3, <1>4, <1>5, <1>6, <1>7, <1>8, TransmitOwned
<1>10. HeardOK'
  BY <1>2 DEF HeardOK
<1> QED BY <1>9, <1>10

\* The object of a frame on the air is in no queue, and not another frame's.
LEMMA OtherRefs ==
  ASSUME PacketsOK, NEW e \in onAir
  PROVE  /\ e.to \in Node /\ e.ref \in 1 .. Len(heap) /\ Flies(heap[e.ref])
         /\ \A d \in Node : \A i \in 1 .. Len(queue[d]) :
              queue[d][i].ref \in 1 .. Len(heap) /\ queue[d][i].ref # e.ref
         /\ \A f \in onAir \ {e} : f.ref \in 1 .. Len(heap) /\ f.ref # e.ref
<1>1. e.to \in Node /\ e.ref \in 1 .. Len(heap) /\ Flies(heap[e.ref])
  BY DEF PacketsOK, AirFlies
<1>2. ASSUME NEW d \in Node, NEW i \in 1 .. Len(queue[d])
      PROVE  queue[d][i].ref \in 1 .. Len(heap) /\ queue[d][i].ref # e.ref
  <2>1. queue[d][i].ref \in 1 .. Len(heap) /\ Waits(heap[queue[d][i].ref])
    BY DEF PacketsOK, QueuesWait
  <2>2. queue[d][i].ref # e.ref
    BY <1>1, <2>1, HeldByOne
  <2> QED BY <2>1, <2>2
<1>3. \A f \in onAir \ {e} : f.ref \in 1 .. Len(heap) /\ f.ref # e.ref
  BY DEF PacketsOK, AirFlies
<1> QED BY <1>1, <1>2, <1>3

LEMMA UnframedKeeps ==
  ASSUME NEW p, Flies(p)
  PROVE  RemoveTag(Unframed(p)).id = p.id
<1>1. p \in Packet
  BY DEF Flies
<1>2. Unframed(p).id = p.id /\ DOMAIN Unframed(p) = DOMAIN p
  BY <1>1 DEF Unframed, Packet
<1> QED BY <1>1, <1>2 DEF RemoveTag, Packet

\* Only the packet of e is handed up, to the node that hears it.
LEMMA ForwardedUp ==
  ASSUME NEW d, NEW ref, NEW id, NEW dest, ForwardUp(d, ref, id, dest)
  PROVE  /\ handedUp \subseteq handedUp'
         /\ \A u \in handedUp' : u \in handedUp \/ (u.by = d /\ u.id = id)
BY DEF ForwardUp

LEMMA AcceptOwned ==
  ASSUME PacketsOK, HeardOK, NEW owner, Owned(owner), NEW e \in onAir, onAir' = onAir \ {e},
         originated' = originated, NEW hdr \in HeaderT, NEW p \in Packet,
         p.id \in 1 .. originated, hdr.src = owner[p.id],
         NEW transmit \in BOOLEAN, Accept(e.to, e.ref, p, hdr, transmit)
  PROVE  (\E o : Owned(o)') /\ HeardOK'
<1> DEFINE bare == RemoveLlc(p)
           copy == AddTag(p)
           item == [ref |-> Len(heap) + 1, hdr |-> SentOn(hdr)]
           h == [heap EXCEPT ![e.ref] = bare]
<1>1. copy.id = p.id
  BY DEF AddTag, Packet
<1>2. /\ e.to \in Node /\ e.ref \in 1 .. Len(heap) /\ heap \in Seq(Packet)
      /\ Len(heap) \in Nat /\ queue \in [Node -> Seq(Item)] /\ originated \in Nat
  BY OtherRefs DEF PacketsOK, HeapOK
<1>3. item \in Item /\ item.ref = Len(heap) + 1 /\ item.hdr.src = hdr.src
  <2>1. SentOn(hdr).src = hdr.src
    BY DEF SentOn, HeaderT
  <2> QED BY <1>2, <2>1, SentOnHeader DEF Item
<1>4. /\ heard' = [heard EXCEPT ![e.to] = heard[e.to] \cup {<<hdr.src, p.id>>}]
      /\ \A u \in handedUp' : u \in handedUp \/ (u.by = e.to /\ u.id = p.id)
  BY ForwardedUp DEF Accept
<1>5. \/ /\ heap' = Append(h, copy)
         /\ queue' = [queue EXCEPT ![e.to] = Append(queue[e.to], item)]
      \/ heap' = h /\ queue' = queue
  BY DEF Accept
<1> HIDE DEF item, copy, bare
<1>6. /\ DOMAIN h = 1 .. Len(heap) /\ h \in Seq({bare} \cup Packet) /\ Len(h) = Len(heap)
      /\ \A i \in 1 .. Len(heap) : i # e.ref => h[i] = heap[i]
  BY <1>2
<1> HIDE DEF h
<1>7. \A i \in 1 .. Len(heap) : i # e.ref => heap'[i] = heap[i]
  BY <1>2, <1>5, <1>6
<1>8. QueueOwned(owner)'
  <2> SUFFICES ASSUME NEW m \in Node, NEW i \in 1 .. Len(queue'[m])
               PROVE  /\ heap'[queue'[m][i].ref].id \in 1 .. originated
                      /\ queue'[m][i].hdr.src = owner[heap'[queue'[m][i].ref].id]
    BY DEF QueueOwned
  <2>1. queue[m] \in Seq(Item) /\ queue[e.to] \in Seq(Item)
    BY <1>2
  <2>2. CASE i \in 1 .. Len(queue[m]) /\ queue'[m][i] = queue[m][i]
    <3>1. heap'[queue[m][i].ref] = heap[queue[m][i].ref]
      BY <1>7, <2>2, OtherRefs
    <3>2. /\ heap[queue[m][i].ref].id \in 1 .. originated
          /\ queue[m][i].hdr.src = owner[heap[queue[m][i].ref].id]
      BY <2>2 DEF Owned, QueueOwned
    <3> QED BY <2>2, <3>1, <3>2
  <2>3. CASE heap' = Append(h, copy) /\ queue'[m][i] = item
    <3>1. heap'[Len(heap) + 1] = copy
      BY <1>2, <1>6, <2>3
    <3> QED BY <1>1, <1>3, <2>3, <3>1
  <2>4. \/ i \in 1 .. Len(queue[m]) /\ queue'[m][i] = queue[m][i]
        \/ heap' = Append(h, copy) /\ queue'[m][i] = item
    <3>1. CASE /\ heap' = Append(h, copy)
               /\ queue' = [queue EXCEPT ![e.to] = Append(queue[e.to], item)]
      <4>1. (i \in 1 .. Len(queue[m]) /\ queue'[m][i] = queue[m][i]) \/ queue'[m][i] = item
        BY <1>2, <1>3, <2>1, <3>1
      <4> QED BY <3>1, <4>1
    <3>2. CASE heap' = h /\ queue' = queue
      BY <3>2
    <3> QED BY <1>5, <3>1, <3>2
  <2> QED BY <2>2, <2>3, <2>4
<1>9. AirOwned(owner)'
  <2> SUFFICES ASSUME NEW f \in onAir \ {e}
               PROVE  /\ heap'[f.ref].id \in 1 .. originated
                      /\ Head(heap'[f.ref].headers).src = owner[heap'[f.ref].id]
    BY DEF AirOwned
  <2>1. heap'[f.ref] = heap[f.ref]
    BY <1>7, OtherRefs
  <2> QED BY <2>1 DEF Owned, AirOwned
<1>10. UpHeard(owner)'
  <2> SUFFICES ASSUME NEW u \in handedUp'
               PROVE  u.id \in 1 .. originated /\ <<owner[u.id], u.id>> \in heard'[u.by]
    BY DEF UpHeard
  <2>1. CASE u \in handedUp
    <3>1. u.id \in 1 .. originated /\ <<owner[u.id], u.id>> \in heard[u.by]
      BY <2>1 DEF Owned, UpHeard
    <3>2. heard[u.by] \subseteq heard'[u.by]
      BY <1>2, <1>4 DEF HeardOK
    <3> QED BY <3>1, <3>2
  <2>2. CASE u.by = e.to /\ u.id = p.id
    <3>1. <<hdr.src, p.id>> \in heard'[e.to]
      BY <1>2, <1>4 DEF HeardOK
    <3> QED BY <2>2, <3>1
  <2> QED BY <1>4, <2>1, <2>2
<1>11. HeardOK'
  <2>1. <<hdr.src, p.id>> \in Source \X Nat
    BY <1>2 DEF HeaderT, Source, Packet
  <2> QED BY <1>2, <1>4, <2>1 DEF HeardOK
<1> QED BY <1>8, <1>9, <1>10, <1>11 DEF Owned

\* What is handed up was not handed up by the same node before.
LEMMA ReceiveOwned ==
  ASSUME PacketsOK, HeardOK, NEW owner, Owned(owner), NEW e \in onAir, Receive(e)
  PROVE  /\ (\E o : Owned(o)') /\ HeardOK' /\ handedUp \subseteq handedUp'
         /\ \A u \in handedUp' \ handedUp :
              u.by = e.to /\ \A v \in handedUp : ~(v.by = u.by /\ v.id = u.id)
<1> DEFINE hdr == Head(heap[e.ref].headers)
           p == RemoveTag(Unframed(heap[e.ref]))
<1>1. /\ Flies(heap[e.ref]) /\ e.ref \in 1 .. Len(heap) /\ e.to \in Node
      /\ heap \in Seq(Packet) /\ Len(heap) \in Nat
  BY OtherRefs DEF PacketsOK, HeapOK
<1>2. /\ hdr \in HeaderT /\ p \in Packet /\ p.id = heap[e.ref].id
      /\ p.id \in 1 .. originated /\ hdr.src = owner[p.id]
  BY <1>1, UnframedIsBare, UnframedKeeps DEF Owned, AirOwned
<1>3. onAir' = onAir \ {e} /\ originated' = originated
  BY DEF Receive
<1>4. \/ /\ ~Drops(e.to, p.id, hdr)
         /\ \E transmit \in BOOLEAN : Accept(e.to, e.ref, p, hdr, transmit)
      \/ /\ heap' = [heap EXCEPT ![e.ref] = p]
         /\ queue' = queue /\ handedUp' = handedUp /\ heard' = heard
  BY DEF Receive
<1> HIDE DEF hdr, p
<1>5. CASE /\ ~Drops(e.to, p.id, hdr)
           /\ \E transmit \in BOOLEAN : Accept(e.to, e.ref, p, hdr, transmit)
  <2>1. PICK transmit \in BOOLEAN : Accept(e.to, e.ref, p, hdr, transmit)
    BY <1>5
  <2>2. (\E o : Owned(o)') /\ HeardOK'
    BY <1>2, <1>3, <2>1, AcceptOwned
  <2>3. /\ handedUp \subseteq handedUp'
        /\ \A u \in handedUp' : u \in handedUp \/ (u.by = e.to /\ u.id = p.id)
    BY <2>1, ForwardedUp DEF Accept
  <2>4. \A v \in handedUp : ~(v.by = e.to /\ v.id = p.id)
    BY <1>2, <1>5 DEF Owned, UpHeard, Drops
  <2> QED BY <2>2, <2>3, <2>4
<1>6. CASE /\ heap' = [heap EXCEPT ![e.ref] = p]
           /\ queue' = queue /\ handedUp' = handedUp /\ heard' = heard
  <2>1. \A i \in 1 .. Len(heap) : i # e.ref => heap'[i] = heap[i]
    BY <1>1, <1>2, <1>6
  <2>2. QueueOwned(owner)'
    <3> SUFFICES ASSUME NEW m \in Node, NEW i \in 1 .. Len(queue[m])
                 PROVE  /\ heap'[queue[m][i].ref].id \in 1 .. originated
                        /\ queue[m][i].hdr.src = owner[heap'[queue[m][i].ref].id]
      BY <1>3, <1>6 DEF QueueOwned
    <3>1. heap'[queue[m][i].ref] = heap[queue[m][i].ref]
      BY <2>1, OtherRefs
    <3> QED BY <3>1 DEF Owned, QueueOwned
  <2>3. AirOwned(owner)'
    <3> SUFFICES ASSUME NEW f \in onAir \ {e}
                 PROVE  /\ heap'[f.ref].id \in 1 .. originated
                        /\ Head(heap'[f.ref].headers).src = owner[heap'[f.ref].id]
      BY <1>3 DEF AirOwned
    <3>1. heap'[f.ref] = heap[f.ref]
      BY <2>1, OtherRefs
    <3> QED BY <3>1 DEF Owned, AirOwned
  <2>4. UpHeard(owner)' /\ HeardOK'
    BY <1>3, <1>6 DEF Owned, UpHeard, HeardOK
  <2> QED BY <1>6, <2>2, <2>3, <2>4 DEF Owned
<1> QED BY <1>4, <1>5, <1>6

-----------------------------------------------------------------------------
(* What a Receiver has counted *)

LEMMA GivenIsFinite ==
  ASSUME appIds \subseteq 1 .. originated, originated \in Nat, NEW n
  PROVE  /\ IsFiniteSet(appIds) /\ IsFiniteSet(Given(n))
         /\ Cardinality(Given(n)) \in Nat /\ Cardinality(appIds) \in Nat
         /\ Cardinality(Given(n)) <= Cardinality(appIds)
<1>1. IsFiniteSet(1 .. originated)
  BY 1 \in Int, FS_Interval
<1>2. IsFiniteSet(appIds)
  BY <1>1, FS_Subset
<1>3. Given(n) \subseteq appIds
  BY DEF Given
<1>4. IsFiniteSet(Given(n)) /\ Cardinality(Given(n)) <= Cardinality(appIds)
  BY <1>2, <1>3, FS_Subset
<1> QED BY <1>2, <1>4, FS_CardinalityType

Total(n) == waiting[n] + recvPackets[n] + reported[n]

Countable ==
  /\ originated \in Nat /\ appIds \subseteq 1 .. originated
  /\ waiting \in [Receivers -> Nat] /\ recvPackets \in [Receivers -> Nat]
  /\ reported \in [Receivers -> Nat]

\* Nobody is given less than before.
LEMMA GivenGrows ==
  ASSUME Countable', appIds \subseteq appIds', handedUp \subseteq handedUp', NEW n
  PROVE  /\ Cardinality(Given(n)) <= Cardinality(Given(n)')
         /\ Cardinality(Given(n)') \in Nat
<1>1. IsFiniteSet(Given(n)')
  <2>1. IsFiniteSet(1 .. originated')
    BY 1 \in Int, FS_Interval DEF Countable
  <2>2. Given(n)' \subseteq 1 .. originated'
    BY DEF Given, Countable
  <2> QED BY <2>1, <2>2, FS_Subset
<1>2. Given(n) \subseteq Given(n)'
  BY DEF Given
<1> QED BY <1>1, <1>2, FS_Subset, FS_CardinalityType

\* Without an arrival no total grows.
LEMMA CountsKept ==
  ASSUME CountsOK, Countable, Countable', appIds \subseteq appIds', handedUp \subseteq handedUp',
         \A n \in Receivers : Total(n)' = Total(n)
  PROVE  CountsOK'
<1>1. ASSUME NEW n \in Receivers
      PROVE  Total(n)' <= Cardinality(Given(n)')
  <2>1. Total(n) <= Cardinality(Given(n)) /\ Total(n) \in Nat
    BY DEF CountsOK, Total, Countable
  <2>2. Cardinality(Given(n)) <= Cardinality(Given(n)') /\ Cardinality(Given(n)') \in Nat
    BY GivenGrows
  <2>3. Cardinality(Given(n)) \in Nat
    BY GivenIsFinite DEF Countable
  <2> QED BY <2>1, <2>2, <2>3
<1> QED BY <1>1 DEF CountsOK, Countable, Total

LEMMA IsCountable ==
  ASSUME CInv
  PROVE  Countable
BY DEF CInv, CountsOK, Countable, IInv, PacketsOK, HeapOK

\* What the steps that touch neither a Receiver nor a Sender do to the counts.
LEMMA OthersCount ==
  ASSUME CInv, originated' \in Nat, originated <= originated', handedUp' = handedUp,
         UNCHANGED <<senderVars, receiverVars>>
  PROVE  CountsOK'
<1>1. Countable /\ Countable'
  BY IsCountable DEF Countable, senderVars, receiverVars
<1>2. \A n \in Receivers : Total(n)' = Total(n)
  BY DEF Total, receiverVars
<1> QED BY <1>1, <1>2, CountsKept DEF CInv, senderVars

LEMMA OwnedStays ==
  ASSUME CInv, UNCHANGED packetVars
  PROVE  (\E o : Owned(o)') /\ HeardOK' /\ originated' \in Nat /\ originated <= originated'
<1>1. PICK owner : Owned(owner)
  BY DEF CInv
<1>2. Owned(owner)'
  BY <1>1 DEF packetVars, Owned, QueueOwned, AirOwned, UpHeard
<1> QED BY <1>2 DEF CInv, packetVars, HeardOK, IInv, PacketsOK, HeapOK

LEMMA OtherTrafficCounted ==
  ASSUME CInv, OtherTraffic, UNCHANGED <<senderVars, receiverVars>>
  PROVE  (\E o : Owned(o)') /\ HeardOK' /\ CountsOK'
<1>1. PICK owner : Owned(owner)
  BY DEF CInv
<1>2. IInv /\ PacketsOK /\ HeardOK /\ originated \in Nat
  BY DEF CInv, IInv, PacketsOK, HeapOK
<1>3. (\E o : Owned(o)') /\ HeardOK'
  BY <1>1, <1>2, SendPacketDownOwned, SendRouteDownOwned, SendOwned, SendFromOwned
  DEF OtherTraffic
<1>4. handedUp' = handedUp /\ (originated' = originated \/ originated' = originated + 1)
  BY DEF OtherTraffic, SendPacketDown, SendRouteDown, Send, SendFrom, Originate
<1> QED BY <1>2, <1>3, <1>4, OthersCount

LEMMA SenderCounted ==
  ASSUME CInv, NEW n \in Senders, StartSender(n) \/ StopSender(n) \/ SendPacket(n)
  PROVE  (\E o : Owned(o)') /\ HeardOK' /\ CountsOK'
<1>1. PICK owner : Owned(owner)
  BY DEF CInv
<1>2. PacketsOK /\ HeardOK /\ originated \in Nat /\ Countable
  BY IsCountable DEF CInv, IInv, PacketsOK, HeapOK
<1>3. \A m \in Receivers : Total(m)' = Total(m)
  BY DEF StartSender, StopSender, SendPacket, receiverVars, Total
<1>4. CASE SendPacket(n)
  <2>1. Send(n, Broadcast) /\ n \in Node /\ appIds' = appIds \cup {originated'}
    BY <1>4, AppsOnNodes DEF SendPacket
  <2>2. (\E o : Owned(o)') /\ HeardOK'
    BY <1>1, <1>2, <2>1, SendOwned
  <2>3. handedUp' = handedUp /\ originated' = originated + 1
    BY <2>1 DEF Send, Originate
  <2>4. Countable'
    BY <1>2, <1>4, <2>1, <2>3 DEF SendPacket, receiverVars, Countable
  <2> QED BY <1>2, <1>3, <2>1, <2>2, <2>3, <2>4, CountsKept DEF CInv
<1>5. CASE StartSender(n) \/ StopSender(n)
  <2>1. UNCHANGED <<packetVars, receiverVars, appIds>>
    BY <1>5 DEF StartSender, StopSender, deviceVars
  <2>2. (\E o : Owned(o)') /\ HeardOK'
    BY <2>1, OwnedStays
  <2>3. Countable' /\ handedUp' = handedUp
    BY <1>2, <2>1 DEF packetVars, receiverVars, Countable
  <2> QED BY <1>2, <1>3, <2>1, <2>2, <2>3, CountsKept DEF CInv
<1> QED BY <1>4, <1>5

\* A report moves what was received to what was reported.
LEMMA ReceiverCounted ==
  ASSUME CInv, NEW n \in Receivers, StartReceiver(n) \/ StopReceiver(n) \/ Report(n)
  PROVE  (\E o : Owned(o)') /\ HeardOK' /\ CountsOK'
<1>1. Countable
  BY IsCountable
<1>2. UNCHANGED packetVars /\ appIds' = appIds
  BY DEF StartReceiver, StopReceiver, Report, deviceVars, senderVars
<1>3. (\E o : Owned(o)') /\ HeardOK'
  BY <1>2, OwnedStays
<1>4. Countable' /\ (\A m \in Receivers : Total(m)' = Total(m))
  <2>1. CASE CheckData(n) /\ waiting' = waiting
    <3>1. /\ reported' = [reported EXCEPT ![n] = reported[n] + recvPackets[n]]
          /\ recvPackets' = [recvPackets EXCEPT ![n] = 0]
      BY <2>1 DEF CheckData
    <3>2. Countable'
      BY <1>1, <1>2, <2>1, <3>1 DEF Countable, packetVars
    <3>3. ASSUME NEW m \in Receivers
          PROVE  Total(m)' = Total(m)
      <4>1. CASE m = n
        <5>1. reported'[m] = reported[m] + recvPackets[m] /\ recvPackets'[m] = 0
          BY <1>1, <3>1, <4>1 DEF Countable
        <5> QED BY <1>1, <2>1, <5>1 DEF Countable, Total
      <4>2. CASE m # n
        BY <1>1, <2>1, <3>1, <4>2 DEF Countable, Total
      <4> QED BY <4>1, <4>2
    <3> QED BY <3>2, <3>3
  <2>2. CASE UNCHANGED <<waiting, recvPackets, reported>>
    BY <1>1, <1>2, <2>2 DEF Countable, Total, packetVars
  <2> QED BY <2>1, <2>2 DEF StartReceiver, StopReceiver, Report
<1>5. handedUp' = handedUp
  BY <1>2 DEF packetVars
<1> QED BY <1>1, <1>2, <1>3, <1>4, <1>5, CountsKept DEF CInv

\* A Receiver counts a packet when its node is given it for the first time.
LEMMA ArriveCounted ==
  ASSUME CInv, NEW e \in onAir, Arrive(e)
  PROVE  (\E o : Owned(o)') /\ HeardOK' /\ CountsOK'
<1>1. PICK owner : Owned(owner)
  BY DEF CInv
<1>2. PacketsOK /\ HeardOK /\ originated \in Nat /\ Countable
  BY IsCountable DEF CInv, IInv, PacketsOK, HeapOK
<1>3. Receive(e) /\ originated' = originated /\ appIds' = appIds
  BY DEF Arrive, Receive, senderVars
<1>4. /\ (\E o : Owned(o)') /\ HeardOK' /\ handedUp \subseteq handedUp'
      /\ \A u \in handedUp' \ handedUp :
           u.by = e.to /\ \A v \in handedUp : ~(v.by = u.by /\ v.id = u.id)
  BY <1>1, <1>2, <1>3, ReceiveOwned
<1> DEFINE n == e.to
<1>5. CASE UNCHANGED <<waiting, recvPackets, reported>>
  <2>1. Countable' /\ \A m \in Receivers : Total(m)' = Total(m)
    BY <1>2, <1>3, <1>5 DEF Countable, Total
  <2> QED BY <1>2, <1>3, <1>4, <2>1, CountsKept DEF CInv
<1>6. CASE /\ n \in Receivers
           /\ \E u \in handedUp' \ handedUp : u.cb = "receive" /\ u.id \in appIds
           /\ \/ /\ recvPackets' = [recvPackets EXCEPT ![n] = recvPackets[n] + waiting[n] + 1]
                 /\ waiting' = [waiting EXCEPT ![n] = 0]
              \/ waiting' = [waiting EXCEPT ![n] = waiting[n] + 1] /\ recvPackets' = recvPackets
           /\ reported' = reported
  <2>1. PICK u \in handedUp' \ handedUp : u.cb = "receive" /\ u.id \in appIds
    BY <1>6
  <2>2. /\ Countable' /\ Total(n)' = Total(n) + 1
        /\ \A m \in Receivers \ {n} : Total(m)' = Total(m)
    <3>1. Countable'
      BY <1>2, <1>3, <1>6 DEF Countable
    <3>2. waiting'[n] + recvPackets'[n] = waiting[n] + recvPackets[n] + 1
      BY <1>2, <1>6 DEF Countable
    <3>3. \A m \in Receivers \ {n} :
            waiting'[m] = waiting[m] /\ recvPackets'[m] = recvPackets[m]
      BY <1>2, <1>6 DEF Countable
    <3>4. Total(n)' = Total(n) + 1
      <4>1. reported'[n] = reported[n] /\ reported[n] \in Nat
        BY <1>2, <1>6 DEF Countable
      <4>2. waiting[n] \in Nat /\ recvPackets[n] \in Nat /\ waiting'[n] \in Nat
            /\ recvPackets'[n] \in Nat
        BY <1>2, <1>6, <3>1 DEF Countable
      <4> QED BY <3>2, <4>1, <4>2 DEF Total
    <3>5. ASSUME NEW m \in Receivers \ {n}
          PROVE  Total(m)' = Total(m)
      BY <1>6, <3>3 DEF Total
    <3> QED BY <3>1, <3>4, <3>5
  <2>3. u.id \in Given(n)' /\ u.id \notin Given(n)
    BY <1>3, <1>4, <2>1 DEF Given
  <2>4. Given(n) \cup {u.id} \subseteq Given(n)'
    BY <1>3, <1>4, <2>3 DEF Given
  <2>5. Cardinality(Given(n) \cup {u.id}) = Cardinality(Given(n)) + 1
    BY <1>2, <2>3, GivenIsFinite, FS_AddElement DEF Countable
  <2>6. Cardinality(Given(n) \cup {u.id}) <= Cardinality(Given(n)')
    <3>1. IsFiniteSet(Given(n)')
      <4>1. IsFiniteSet(1 .. originated')
        BY <1>2, <1>3, 1 \in Int, FS_Interval
      <4>2. Given(n)' \subseteq 1 .. originated'
        BY <2>2 DEF Given, Countable
      <4> QED BY <4>1, <4>2, FS_Subset
    <3> QED BY <2>4, <3>1, FS_Subset
  <2>7. ASSUME NEW m \in Receivers
        PROVE  Total(m)' <= Cardinality(Given(m)')
    <3>1. Total(m) <= Cardinality(Given(m)) /\ Total(m) \in Nat
      BY <1>2 DEF CInv, CountsOK, Total, Countable
    <3>2. /\ Cardinality(Given(m)) <= Cardinality(Given(m)')
          /\ Cardinality(Given(m)') \in Nat
      BY <1>3, <1>4, <2>2, GivenGrows
    <3>3. Cardinality(Given(m)) \in Nat
      BY <1>2, GivenIsFinite DEF Countable
    <3>4. CASE m = n
      BY <2>2, <2>5, <2>6, <3>1, <3>2, <3>3, <3>4
    <3>5. CASE m # n
      BY <2>2, <3>1, <3>2, <3>3, <3>5
    <3> QED BY <3>4, <3>5
  <2>8. CountsOK'
    BY <2>2, <2>7 DEF CountsOK, Countable, Total
  <2> QED BY <1>4, <2>8
<1>7. \/ UNCHANGED <<waiting, recvPackets, reported>>
      \/ /\ n \in Receivers
         /\ \E u \in handedUp' \ handedUp : u.cb = "receive" /\ u.id \in appIds
         /\ \/ /\ recvPackets' = [recvPackets EXCEPT ![n] = recvPackets[n] + waiting[n] + 1]
               /\ waiting' = [waiting EXCEPT ![n] = 0]
            \/ waiting' = [waiting EXCEPT ![n] = waiting[n] + 1] /\ recvPackets' = recvPackets
         /\ reported' = reported
  BY DEF Arrive, ReadAll, receiverVars
<1> QED BY <1>5, <1>6, <1>7

LEMMA CountedInit == Init => CInv
<1> SUFFICES ASSUME Init
             PROVE  CInv
  OBVIOUS
<1>1. IInv
  BY InitOK
<1>2. HeardOK
  BY DEF Init, DeviceInit, HeardOK
<1>3. [id \in Nat |-> Broadcast] \in [Nat -> Source]
  BY DEF Source
<1>4. Owned([id \in Nat |-> Broadcast])
  BY <1>3 DEF Init, DeviceInit, Owned, QueueOwned, AirOwned, UpHeard
<1>5. CountsOK
  <2>1. Countable /\ \A n \in Receivers : Total(n) = 0
    BY DEF Init, DeviceInit, Countable, Total
  <2>2. ASSUME NEW n \in Receivers
        PROVE  Cardinality(Given(n)) = 0
    <3>1. Given(n) = {}
      BY DEF Init, DeviceInit, Given
    <3> QED BY <3>1, FS_EmptySet
  <2> QED BY <2>1, <2>2 DEF CountsOK, Countable, Total
<1> QED BY <1>1, <1>2, <1>4, <1>5 DEF CInv

LEMMA CountedStep == CInv /\ [Next]_vars => CInv'
<1> SUFFICES ASSUME CInv, [Next]_vars
             PROVE  CInv'
  OBVIOUS
<1>1. IInv'
  BY StepOK DEF CInv
<1>2. CASE UNCHANGED packetVars /\ UNCHANGED <<senderVars, receiverVars>>
  <2>1. handedUp' = handedUp
    BY <1>2 DEF packetVars
  <2>2. (\E o : Owned(o)') /\ HeardOK' /\ CountsOK'
    BY <1>2, <2>1, OwnedStays, OthersCount
  <2> QED BY <1>1, <2>2 DEF CInv
<1>3. CASE OtherTraffic /\ UNCHANGED <<senderVars, receiverVars>>
  BY <1>1, <1>3, OtherTrafficCounted DEF CInv
<1>4. ASSUME NEW e \in onAir, Arrive(e)
      PROVE  CInv'
  BY <1>1, <1>4, ArriveCounted DEF CInv
<1>5. ASSUME NEW n \in Senders, StartSender(n) \/ StopSender(n) \/ SendPacket(n)
      PROVE  CInv'
  BY <1>1, <1>5, SenderCounted DEF CInv
<1>6. ASSUME NEW n \in Receivers, StartReceiver(n) \/ StopReceiver(n) \/ Report(n)
      PROVE  CInv'
  BY <1>1, <1>6, ReceiverCounted DEF CInv
<1>7. \/ UNCHANGED packetVars /\ UNCHANGED <<senderVars, receiverVars>>
      \/ OtherTraffic /\ UNCHANGED <<senderVars, receiverVars>>
      \/ \E e \in onAir : Arrive(e)
      \/ \E n \in Senders : StartSender(n) \/ StopSender(n) \/ SendPacket(n)
      \/ \E n \in Receivers : StartReceiver(n) \/ StopReceiver(n) \/ Report(n)
  BY DEF Next, vars, deviceVars, Configure, Install, Initialize
<1> QED BY <1>2, <1>3, <1>4, <1>5, <1>6, <1>7

\* Of the Senders' packets no Receiver counts more than there are: whichever
\* nodes repeat a packet, its MAC knows it by source and number and hands it up
\* once (TdmaCentralMac::Receive, Receiver::Receive, Receiver::CheckData).
THEOREM NothingCountedTwice == Spec => []CountedOnce
<1>1. CInv => CountedOnce
  <2> SUFFICES ASSUME CInv, NEW n \in Receivers
               PROVE  waiting[n] + recvPackets[n] + reported[n] <= Cardinality(appIds)
    BY DEF CountedOnce
  <2>1. Countable
    BY IsCountable
  <2>2. Total(n) <= Cardinality(Given(n)) /\ Total(n) \in Nat
    BY <2>1 DEF CInv, CountsOK, Countable, Total
  <2>3. /\ Cardinality(Given(n)) \in Nat /\ Cardinality(appIds) \in Nat
        /\ Cardinality(Given(n)) <= Cardinality(appIds)
    BY <2>1, GivenIsFinite DEF Countable
  <2> QED BY <2>2, <2>3 DEF Total
<1>2. Spec => []CInv
  BY CountedInit, CountedStep, PTL DEF Spec
<1> QED BY <1>1, <1>2, PTL
=============================================================================
