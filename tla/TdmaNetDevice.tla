---------------------------- MODULE TdmaNetDevice ----------------------------
(***************************************************************************)
(* The stack of one node, ns3::TdmaNetDevice - TdmaCentralMac - TdmaMacLow *)
(* - SimpleWirelessChannel: how the parts are put together, and what every *)
(* layer does to the packet object it is handed.                           *)
(*                                                                         *)
(* Packets are objects that are passed by reference.  Each layer adds or   *)
(* removes its header in place, so a layer that keeps a packet and passes  *)
(* it on must copy it first.  The objects live in "heap"; everything else  *)
(* holds references into it.                                               *)
(*                                                                         *)
(* When a node transmits is left open (TdmaControllerDynamic), and so is   *)
(* the answer of IsTransmit (TdmaRouteTable).  The source and the sequence *)
(* number of a packet are one id, which is never reused within the bounds  *)
(* (TdmaBroadcast), and the queue never fills (TdmaMacQueue).              *)
(***************************************************************************)
EXTENDS Integers, Sequences, FiniteSets, SequencesExt

CONSTANTS
  Node,        \* the nodes, each with one device
  InRange,     \* InRange[n]: the nodes within the channel's range of n
  Broadcast,   \* the broadcast address
  Group,       \* a multicast address
  TTLEnd,      \* IsTTLEnd: the hop count a packet is not sent on from
  HeaderTypes, \* types an uninitialized header may read
  Promiscuous  \* the nodes with a promiscuous receive callback

ASSUME NodesAreFinite == IsFiniteSet(Node)
ASSUME RangeIsOtherNodes ==
  InRange \in [Node -> SUBSET Node] /\ \A n \in Node : n \notin InRange[n]
ASSUME AddressesDiffer == Broadcast \notin Node /\ Group \notin Node
ASSUME TTLEndIsNatural == TTLEnd \in Nat

VARIABLES
  device,       \* each device: its parts that are set, m_configComplete, m_linkUp,
                \*   and how often its MAC is in the channel's m_tdmaMacLowList
  initialized,  \* the simulation has initialized the devices
  heap,         \* the packet objects, by reference
  queue,        \* m_queue of each MAC: a reference and a header
  onAir,        \* pending TdmaMacLow::Receive events
  heard,        \* m_recvPacketsQueue of each MAC
  handedUp,     \* packets the upper layer of a node has been given
  originated    \* packets originated so far

configVars == <<device, initialized>>
packetVars == <<heap, queue, onAir, heard, handedUp, originated>>
deviceVars == <<configVars, packetVars>>

Part == {"mac", "node", "channel", "controller"}
Address == Node \cup {Broadcast, Group}
Header(src, dest, ttl, type) == [src |-> src, dest |-> dest, ttl |-> ttl, type |-> type]

\* A device without parts.  The constructor does not initialize m_linkUp.
NewDevice(up) == [parts |-> {}, complete |-> FALSE, linkUp |-> up, listed |-> 0]

DeviceInit ==
  /\ device \in [Node -> {NewDevice(up) : up \in BOOLEAN}]
  /\ initialized = FALSE
  /\ heap = <<>>
  /\ queue = [d \in Node |-> <<>>]
  /\ onAir = {}
  /\ heard = [d \in Node |-> {}]
  /\ handedUp = {}
  /\ originated = 0

-----------------------------------------------------------------------------
(* Putting a device together *)

\* Mutant: a configuration that is complete is completed again.
ReadyAgain(dev) == dev.parts = Part

\* CompleteConfig goes on only with all four parts, and once.
Ready(dev) == dev.parts = Part /\ ~dev.complete

\* The MAC passes its channel to its lower part, which adds itself to the list.
Add(dev) == [dev EXCEPT !.listed = @ + 1]

\* The callback is called where it is set.
LinkUp(dev) == [dev EXCEPT !.linkUp = TRUE]

CompleteConfig(dev) ==
  IF Ready(dev) THEN [LinkUp(Add(dev)) EXCEPT !.complete = TRUE] ELSE dev

SetPart(dev, part) == CompleteConfig([dev EXCEPT !.parts = @ \cup {part}])

\* SetMac, SetNode, SetChannel and SetTdmaController, in any order and as
\* often as the caller likes.
Configure(d, part) ==
  /\ ~initialized
  /\ device' = [device EXCEPT ![d] = SetPart(@, part)]
  /\ UNCHANGED <<initialized, packetVars>>

\* TdmaHelper::Install makes all the devices, and AddDevice sets their node.
Install ==
  /\ ~initialized
  /\ \A d \in Node : device[d].parts = {}
  /\ device' = [d \in Node |->
       SetPart(SetPart(SetPart(SetPart(device[d], "mac"), "channel"), "controller"), "node")]
  /\ UNCHANGED <<initialized, packetVars>>

\* At time 0 the simulation initializes every device, before the first event
\* of any controller.
Initialize ==
  /\ ~initialized
  /\ \A d \in Node : device[d].complete
  /\ initialized' = TRUE
  /\ UNCHANGED <<device, packetVars>>

-----------------------------------------------------------------------------
(* Packet objects: an id, and how many headers of each layer it carries *)

Created(id, body) ==
  [id |-> id, body |-> body, llc |-> 0, headers |-> <<>>, trailers |-> 0, tags |-> 0]

AddLlc(p) == [p EXCEPT !.llc = @ + 1]
RemoveLlc(p) == [p EXCEPT !.llc = @ - 1]
AddTag(p) == [p EXCEPT !.tags = @ + 1]
RemoveTag(p) == [p EXCEPT !.tags = 0]

\* TdmaMacLow::StartTransmission and TdmaMacLow::Receive.
Framed(p, hdr) == [p EXCEPT !.headers = <<hdr>> \o @, !.trailers = @ + 1]
Unframed(p) == [p EXCEPT !.headers = Tail(@), !.trailers = @ - 1]

-----------------------------------------------------------------------------
(* Sending *)

Originate(d, packet, hdr) ==
  /\ initialized
  /\ originated' = originated + 1
  /\ heap' = Append(heap, packet)
  /\ queue' = [queue EXCEPT ![d] = Append(@, [ref |-> Len(heap) + 1, hdr |-> hdr])]
  /\ UNCHANGED <<configVars, onAir, heard, handedUp>>

Send(d, dest) ==
  Originate(d, AddTag(AddLlc(Created(originated + 1, "data"))), Header(d, dest, 0, "DATA"))

\* Enqueue (packet, to, from) adds no tag and sets no type.
SendFrom(d, src, dest) ==
  \E type \in HeaderTypes :
    Originate(d, AddLlc(Created(originated + 1, "data")), Header(src, dest, 0, type))

\* Mutant: every receiver is given the same packet.
CopiesShared(packet, listeners) ==
  [heap |-> Append(heap, packet),
   events |-> {[to |-> l[1], nr |-> l[2], ref |-> Len(heap) + 1] : l \in ToSet(listeners)}]

\* Channel Send: a copy of its own for every listener.
Copies(packet, listeners) ==
  [heap |-> heap \o [i \in 1 .. Len(listeners) |-> packet],
   events |-> {[to |-> listeners[i][1], nr |-> listeners[i][2], ref |-> Len(heap) + i] :
               i \in 1 .. Len(listeners)}]

\* The entries of the list whose device is another one and in range.
Listeners(d) ==
  SetToSeq(UNION {{r} \X (1 .. device[r].listed) : r \in InRange[d]})

\* TdmaMacLow::StartTransmission frames a copy; the packet stays as it is.
StartTransmission(d, packet, hdr) ==
  LET sent == Copies(Framed(packet, hdr), Listeners(d))
  IN  heap' = sent.heap /\ onAir' = onAir \cup sent.events

\* Slots do not overlap, and a frame is heard before the next one is sent.
SendPacketDown(d) ==
  /\ onAir = {}
  /\ queue[d] # <<>>
  /\ LET item == Head(queue[d]) IN StartTransmission(d, heap[item.ref], item.hdr)
  /\ queue' = [queue EXCEPT ![d] = Tail(@)]
  /\ UNCHANGED <<configVars, heard, handedUp, originated>>

\* A slot message: no LLC header, and a header type read through a dead pointer.
SendRouteDown(d) ==
  /\ initialized /\ onAir = {}
  /\ originated' = originated + 1
  /\ \E type \in HeaderTypes :
       StartTransmission(d, AddTag(Created(originated + 1, "slots")),
                         Header(d, Broadcast, 0, type))
  /\ UNCHANGED <<configVars, queue, heard, handedUp>>

-----------------------------------------------------------------------------
(* Receiving *)

KindFor(d, dest) ==
  CASE dest = Broadcast -> "BROADCAST"
    [] dest = Group     -> "MULTICAST"
    [] dest = d         -> "HOST"
    [] OTHER            -> "OTHERHOST"

\* ForwardUp: every kind but OTHERHOST to the receive callback, all of them to
\* a promiscuous one.
ForwardUp(d, ref, id, dest) ==
  LET kind == KindFor(d, dest)
  IN  handedUp' = handedUp \cup
        (IF kind # "OTHERHOST" THEN {[by |-> d, ref |-> ref, id |-> id, kind |-> kind,
                                      cb |-> "receive"]} ELSE {})
        \cup (IF d \in Promiscuous THEN {[by |-> d, ref |-> ref, id |-> id, kind |-> kind,
                                         cb |-> "promiscuous"]} ELSE {})

SentOn(hdr) == [hdr EXCEPT !.ttl = @ + 1, !.type = "DATA"]

\* Mutant: a packet that was heard before is taken again.
DropsOwn(d, id, hdr) == hdr.src = d

\* Dropped: the node's own packets and those it has heard.
Drops(d, id, hdr) == hdr.src = d \/ <<hdr.src, id>> \in heard[d]

\* Mutant: no copy is made before the packet is handed up.
AcceptUncopied(d, ref, packet, hdr, transmit) ==
  /\ heard' = [heard EXCEPT ![d] = @ \cup {<<hdr.src, packet.id>>}]
  /\ ForwardUp(d, ref, packet.id, hdr.dest)
  /\ IF hdr.ttl < TTLEnd /\ transmit
     THEN /\ heap' = [heap EXCEPT ![ref] = AddTag(RemoveLlc(packet))]
          /\ queue' = [queue EXCEPT ![d] = Append(@, [ref |-> ref, hdr |-> SentOn(hdr)])]
     ELSE /\ heap' = [heap EXCEPT ![ref] = RemoveLlc(packet)]
          /\ UNCHANGED queue

\* A new data packet: copy it, hand it up, and queue the copy, unless it has
\* come too far or the controller decides against it.
Accept(d, ref, packet, hdr, transmit) ==
  /\ heard' = [heard EXCEPT ![d] = @ \cup {<<hdr.src, packet.id>>}]
  /\ ForwardUp(d, ref, packet.id, hdr.dest)
  /\ IF hdr.ttl < TTLEnd /\ transmit
     THEN /\ heap' = Append([heap EXCEPT ![ref] = RemoveLlc(packet)], AddTag(packet))
          /\ queue' = [queue EXCEPT ![d] =
                         Append(@, [ref |-> Len(heap) + 1, hdr |-> SentOn(hdr)])]
     ELSE /\ heap' = [heap EXCEPT ![ref] = RemoveLlc(packet)]
          /\ UNCHANGED queue

\* TdmaMacLow::Receive takes the frame off, TdmaCentralMac::Receive the tag.
\* A packet whose header does not say data goes to the controller.
Receive(e) ==
  LET hdr == Head(heap[e.ref].headers)
      packet == RemoveTag(Unframed(heap[e.ref]))
  IN  /\ onAir' = onAir \ {e}
      /\ IF hdr.type = "DATA" /\ ~Drops(e.to, packet.id, hdr)
         THEN \E transmit \in BOOLEAN : Accept(e.to, e.ref, packet, hdr, transmit)
         ELSE /\ heap' = [heap EXCEPT ![e.ref] = packet]
              /\ UNCHANGED <<queue, heard, handedUp>>
      /\ UNCHANGED <<configVars, originated>>

-----------------------------------------------------------------------------
(* Properties *)

\* In whatever order and however often the parts are set, a device is in the
\* channel's list exactly once when it has all of them, and never before: no
\* frame will reach it twice, or not at all.  Its link is up as soon as it is.
ListedOnce ==
  \A d \in Node :
    LET all == device[d].parts = Part
    IN  device[d].listed = (IF all THEN 1 ELSE 0) /\ (all => device[d].linkUp)

\* A queued packet has its LLC header and no frame, a packet on the air has
\* one frame and its LLC header: no layer has changed a packet that another
\* layer still holds.  (A slot message never has an LLC header.)
Layered ==
  /\ \A d \in Node : \A i \in 1 .. Len(queue[d]) :
       LET p == heap[queue[d][i].ref]
       IN  /\ p.headers = <<>> /\ p.trailers = 0 /\ p.tags <= 1
           /\ p.body = "data" => p.llc = 1
  /\ \A e \in onAir :
       LET p == heap[e.ref]
       IN  /\ Len(p.headers) = 1 /\ p.trailers = 1 /\ p.tags <= 1
           /\ p.body = "data" => p.llc = 1

\* What the upper layer was given carries no header, trailer or tag of the
\* layers below, then and later, although it is sent on at the same time.
HandedUpBare ==
  \A u \in handedUp :
    LET p == heap[u.ref]
    IN  /\ p.id = u.id /\ p.headers = <<>> /\ p.trailers = 0 /\ p.tags = 0
        /\ p.body = "data" => p.llc = 0
=============================================================================
