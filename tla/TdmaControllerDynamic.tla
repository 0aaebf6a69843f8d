------------------------ MODULE TdmaControllerDynamic ------------------------
(***************************************************************************)
(* The frame controllers of the nodes (ns3::TdmaControllerDynamic), one    *)
(* per node, each driven by its own chain of simulator events.  Nothing    *)
(* but the equality of their arithmetic keeps them in the same slot.       *)
(*                                                                         *)
(* A superframe is a reservation frame, static frames and a dynamic frame. *)
(* In the reservation frame a node marks slots of its own slot table as    *)
(* its own and broadcasts the table; in the dynamic frame a node transmits *)
(* in the slots its table says it owns.                                    *)
(*                                                                         *)
(* The MAC is seen through the two calls the controller makes: a granted   *)
(* transmission window, and a slot message that is on its way down.        *)
(*                                                                         *)
(* Time is counted in one unit, and it moves straight to the next pending  *)
(* event, as the discrete-event simulator does.  Events due at the same    *)
(* instant are taken in any order.                                         *)
(***************************************************************************)
EXTENDS Integers, FiniteSets

CONSTANTS
  Node,              \* ids of the nodes that have a TDMA device
  TotalSlots,        \* m_totalSlotsAllowed
  DynamicInterval,   \* m_dynamicInterval
  SlotTime,          \* m_slotTime
  ReserveSlotTime,   \* m_reserveSlotTime
  GaurdTime,         \* m_gaurdTime
  InterFrameTime,    \* m_tdmaInterFrameTime
  StartDelay,        \* from Start to StartTdmaSessions
  EntryTime,         \* air time of one table entry (18 bytes) at m_bps
  EmptyTime,         \* air time of the message without entries (1 byte)
  PropagationTimes,  \* possible delays from a sender to a receiver
  Reach,             \* Reach[n]: the possible sets of nodes in range of n
  HeaderTypes,       \* types the pointer to the dead local header may read
  TableSizes,        \* possible sizes of the neighbour table
  NoFreeSlot,        \* what GetFreeSlot answers when no slot is free
  SlotsOver,         \* what ReserveSlot takes for "no slot is free"
  NoOwner            \* the default Mac48Address of a slot nobody owned yet

Slot  == 0 .. TotalSlots - 1
Owner == Node \cup {NoOwner}

ASSUME NodesAreNumbers == Node \subseteq Nat
ASSUME SlotsArePositive == TotalSlots \in Nat \ {0}
ASSUME TimesAreNatural ==
  /\ SlotTime \in Nat \ {0} /\ ReserveSlotTime \in Nat \ {0}
  /\ GaurdTime \in Nat /\ InterFrameTime \in Nat /\ StartDelay \in Nat
  /\ EntryTime \in Nat \ {0} /\ EmptyTime \in Nat \ {0}
  /\ PropagationTimes \subseteq Nat
ASSUME IntervalIsNatural == DynamicInterval \in Nat
ASSUME ReachIsOtherNodes ==
  Reach \in [Node -> SUBSET (SUBSET Node)] /\ \A n \in Node : \A R \in Reach[n] : n \notin R
ASSUME HeaderTypesKnown == HeaderTypes \subseteq {"ROUTE", "DATA"}
ASSUME TableSizesAreNatural == TableSizes \subseteq Nat
ASSUME SentinelsAreNatural == NoFreeSlot \in Nat /\ SlotsOver \in Nat
ASSUME NoOwnerIsNoNode == NoOwner \notin Node
\* A configuration rule, not enforced by the code: with the default interval of
\* 50 us and 3.3 ns per metre it holds up to a range of 15 km.
ASSUME GaurdCoversPropagation == \A d \in PropagationTimes : d <= GaurdTime

VARIABLES
  sessionState,  \* m_sessionState of each controller
  staticCount,   \* m_staticCounnt
  slotTable,     \* m_slotTable: state and owner of every slot
  slotNum,       \* argument of the pending ScheduleTdmaSession event
  timer,         \* time until that event
  window,        \* the last StartTransmission of the MAC, and what is left of it
  routeSends,    \* pending SendRouteDown events
  inFlight       \* pending TdmaMacLow::Receive events of slot messages

frameVars == <<sessionState, staticCount, slotNum, timer>>
airVars   == <<routeSends, inFlight>>
vars      == <<frameVars, slotTable, window, airVars>>

SlotRecord == [state : {"FREE", "ALLOCATED"}, owner : Owner]
Table      == [Slot -> SlotRecord]
Entries    == [Slot -> Owner]      \* NoOwner: the slot is not in the message
Session    == {"STATIC", "RESERVE", "DYNAMIC"}

-----------------------------------------------------------------------------
(* The slot table *)

\* Mutant: the search does not look at the state of a slot.
FreeSlotsAny(table) == Slot

FreeSlots(table) == {s \in Slot : table[s].state = "FREE"}

Least(S) == CHOOSE s \in S : \A t \in S : s <= t

MarkAsFree(slot) == [slot EXCEPT !.state = "FREE"]

MarkAsAllocated(owner) == [state |-> "ALLOCATED", owner |-> owner]

\* The first free slot from index on, else the first free slot below it.
GetFreeSlot(table, index) ==
  LET free == FreeSlots(table)
      from == {s \in free : s >= index}
  IN  IF from # {} THEN Least(from)
      ELSE IF free # {} THEN Least(free) ELSE NoFreeSlot

\* One round of ReserveSlot: take what GetFreeSlot finds, when it is a slot.
TakeSlot(table, n, index) ==
  LET found == GetFreeSlot(table, index)
  IN  IF found \in Slot /\ found # SlotsOver
      THEN [table EXCEPT ![found] = MarkAsAllocated(n)]
      ELSE table

\* How many slots the queues of the neighbours let a node ask for: counter of
\* the tableSize neighbours have a queue at least as long as its own.
SlotsWanted(counter, tableSize) ==
  IF tableSize = 0 THEN 1
  ELSE IF 10 * counter > 6 * tableSize THEN 2
  ELSE IF 10 * counter > 3 * tableSize THEN 1 ELSE 0

ReserveSlot(table, n, wanted) ==
  IF wanted = 0 THEN table
  ELSE IF wanted = 1 \/ GetFreeSlot(table, n) = SlotsOver THEN TakeSlot(table, n, n)
  ELSE TakeSlot(TakeSlot(table, n, n), n, (n + 1) % TotalSlots)

\* Mutant: free entries are sent with their last owner.
SetSlotPacketAny(table) == [s \in Slot |-> table[s].owner]

\* Every allocated entry of the table goes into the message.
SetSlotPacket(table) ==
  [s \in Slot |-> IF table[s].state = "ALLOCATED" THEN table[s].owner ELSE NoOwner]

\* Mutant: only the slots that are free in the table are entered.
MergeEntriesFree(table, entries) ==
  [s \in Slot |-> IF entries[s] # NoOwner /\ table[s].state = "FREE"
                 THEN MarkAsAllocated(entries[s]) ELSE table[s]]

\* Every entry of the message overwrites the table.
MergeEntries(table, entries) ==
  [s \in Slot |-> IF entries[s] # NoOwner THEN MarkAsAllocated(entries[s])
                                         ELSE table[s]]

\* Mutant: the node does not take its own slot.
CheckSlotTableSkipped(table, n) == table

CheckSlotTable(table, n) ==
  IF n \in Slot /\ table[n].state = "FREE"
  THEN [table EXCEPT ![n] = MarkAsAllocated(n)] ELSE table

FreeTable(table) == [s \in Slot |-> MarkAsFree(table[s])]

-----------------------------------------------------------------------------
(* The frame walk of one controller *)

\* Mutants: slots counted from one; every slot from the node's own on.
IsMineFromOne(n) == slotNum[n] = n + 1
IsMineFromOwn(n) == slotNum[n] >= n

\* The slot belongs to the node when its number is the node's id.
IsMine(n) == slotNum[n] = n

\* Mutant: the frame is one slot too long.
FrameEndsLate(n) == slotNum[n] = TotalSlots

FrameEnds(n) == slotNum[n] + 1 = TotalSlots

\* Mutant: the branch of the node's own reservation slot counts a whole slot.
SlotLengthOfOwn(n) ==
  IF sessionState[n] = "RESERVE" /\ ~IsMine(n) THEN ReserveSlotTime ELSE SlotTime

SlotLength(n) == IF sessionState[n] = "RESERVE" THEN ReserveSlotTime ELSE SlotTime

\* The next event of the chain: the next slot, or slot 0 after the frame.
Reschedule(n) ==
  /\ slotNum' = [slotNum EXCEPT ![n] = IF FrameEnds(n) THEN 0 ELSE @ + 1]
  /\ timer' = [timer EXCEPT ![n] = GaurdTime + SlotLength(n)
                                   + IF FrameEnds(n) THEN InterFrameTime ELSE 0]

\* Mutant: a reservation slot is granted for the time of a static one.
GrantSlotTime(n) ==
  window' = [window EXCEPT ![n] = [session |-> sessionState[n],
                                   slot |-> slotNum[n], left |-> SlotTime]]

\* StartTransmission or StartRouteTransmission of the MAC: the node may be on
\* the air for at most the length of the slot.
Grant(n) ==
  window' = [window EXCEPT ![n] = [session |-> sessionState[n],
                                   slot |-> slotNum[n], left |-> SlotLength(n)]]

GrantIf(n, mine) == IF mine THEN Grant(n) ELSE UNCHANGED window

\* The static frames have been counted up: the frame that ends now is the last.
EntersDynamic(n) == DynamicInterval > 0 /\ staticCount[n] + 1 > DynamicInterval

\* A slot of a static frame that is not the last one of a counted frame.
StaticSlot(n) ==
  /\ sessionState[n] = "STATIC"
  /\ ~FrameEnds(n) \/ ~EntersDynamic(n)
  /\ GrantIf(n, IsMine(n))
  /\ staticCount' = [staticCount EXCEPT ![n] =
                       IF FrameEnds(n) /\ DynamicInterval > 0 THEN @ + 1 ELSE @]
  /\ Reschedule(n)
  /\ UNCHANGED <<sessionState, slotTable, airVars>>

\* The last slot of the last static frame: a node whose own slot nobody has
\* reserved takes it, in its own table only.
LastStaticSlot(n) ==
  /\ sessionState[n] = "STATIC"
  /\ FrameEnds(n) /\ EntersDynamic(n)
  /\ GrantIf(n, IsMine(n))
  /\ sessionState' = [sessionState EXCEPT ![n] = "DYNAMIC"]
  /\ slotTable' = [slotTable EXCEPT ![n] = CheckSlotTable(@, n)]
  /\ staticCount' = [staticCount EXCEPT ![n] = 0]
  /\ Reschedule(n)
  /\ UNCHANGED airVars

\* Mutant: the reservation frame starts over.
NextReserveAgain(n) == "RESERVE"

NextReserve(n) == IF FrameEnds(n) THEN "STATIC" ELSE "RESERVE"

\* A slot of the reservation frame that is not the node's own.
ReserveOther(n) ==
  /\ sessionState[n] = "RESERVE"
  /\ ~IsMine(n)
  /\ sessionState' = [sessionState EXCEPT ![n] = NextReserve(n)]
  /\ Reschedule(n)
  /\ UNCHANGED <<staticCount, slotTable, window, airVars>>

\* Air time of a slot message.
AirTime(entries) ==
  LET count == Cardinality({s \in Slot : entries[s] # NoOwner})
  IN  IF count = 0 THEN EmptyTime ELSE count * EntryTime

\* A message that does not fit is not sent, now or later.
Fits(entries) == AirTime(entries) < ReserveSlotTime

StartRouteTransmission(n, entries) ==
  /\ Grant(n)
  /\ routeSends' = IF Fits(entries)
                   THEN routeSends \cup {[from |-> n, left |-> AirTime(entries),
                                          entries |-> entries]}
                   ELSE routeSends

\* The node's own slot of the reservation frame: reserve, announce the table.
ReserveOwn(n) ==
  /\ sessionState[n] = "RESERVE"
  /\ IsMine(n)
  /\ \E tableSize \in TableSizes : \E counter \in 0 .. tableSize :
       LET table == ReserveSlot(slotTable[n], n, SlotsWanted(counter, tableSize))
       IN  /\ slotTable' = [slotTable EXCEPT ![n] = table]
           /\ StartRouteTransmission(n, SetSlotPacket(table))
  /\ sessionState' = [sessionState EXCEPT ![n] = NextReserve(n)]
  /\ Reschedule(n)
  /\ UNCHANGED <<staticCount, inFlight>>

\* The table says the slot belongs to the node; the slot's state is not read.
OwnsSlot(n) == slotTable[n][slotNum[n]].owner = n

\* A slot of the dynamic frame; the last one frees the whole table.
DynamicSlot(n) ==
  /\ sessionState[n] = "DYNAMIC"
  /\ GrantIf(n, OwnsSlot(n))
  /\ IF FrameEnds(n)
     THEN /\ sessionState' = [sessionState EXCEPT ![n] = "RESERVE"]
          /\ slotTable' = [slotTable EXCEPT ![n] = FreeTable(@)]
     ELSE UNCHANGED <<sessionState, slotTable>>
  /\ Reschedule(n)
  /\ UNCHANGED <<staticCount, airVars>>

ScheduleTdmaSession(n) ==
  /\ timer[n] = 0
  /\ \/ StaticSlot(n) \/ LastStaticSlot(n)
     \/ ReserveOther(n) \/ ReserveOwn(n)
     \/ DynamicSlot(n)

-----------------------------------------------------------------------------
(* The slot message on its way, and the clock *)

\* The message goes to every node in range, with a header read through a
\* pointer to a local of a call that has returned: its type may be anything.
SendRouteDown(msg) ==
  /\ msg.left = 0
  /\ routeSends' = routeSends \ {msg}
  /\ \E type \in HeaderTypes : \E heard \in Reach[msg.from] :
       \E delay \in [heard -> PropagationTimes] :
         inFlight' = inFlight \cup
           {[from |-> msg.from, to |-> r, left |-> delay[r], type |-> type,
             entries |-> msg.entries] : r \in heard}
  /\ UNCHANGED <<frameVars, slotTable, window>>

\* Only a message whose header says so is a slot message to the receiver.
ReceiveSlotMsg(msg) ==
  /\ msg.left = 0
  /\ inFlight' = inFlight \ {msg}
  /\ slotTable' = IF msg.type = "ROUTE"
                  THEN [slotTable EXCEPT ![msg.to] = MergeEntries(@, msg.entries)]
                  ELSE slotTable
  /\ UNCHANGED <<frameVars, window, routeSends>>

\* Times to the pending events; a due event keeps the clock from moving.
PendingTimes == {timer[n] : n \in Node}
                \cup {msg.left : msg \in routeSends} \cup {msg.left : msg \in inFlight}

Advance ==
  \E d \in PendingTimes :
    /\ d > 0 /\ \A e \in PendingTimes : d <= e
    /\ timer' = [n \in Node |-> timer[n] - d]
    /\ window' = [n \in Node |-> [window[n] EXCEPT !.left = IF @ > d THEN @ - d ELSE 0]]
    /\ routeSends' = {[msg EXCEPT !.left = @ - d] : msg \in routeSends}
    /\ inFlight' = {[msg EXCEPT !.left = @ - d] : msg \in inFlight}
    /\ UNCHANGED <<sessionState, staticCount, slotNum, slotTable>>

\* Start of every node happens at time 0, when the simulation initializes it.
Init ==
  /\ sessionState = [n \in Node |-> IF DynamicInterval > 0 THEN "RESERVE" ELSE "STATIC"]
  /\ staticCount = [n \in Node |-> 0]
  /\ slotTable = [n \in Node |-> [s \in Slot |-> [state |-> "FREE", owner |-> NoOwner]]]
  /\ slotNum = [n \in Node |-> 0]
  /\ timer = [n \in Node |-> StartDelay]
  /\ window = [n \in Node |-> [session |-> "STATIC", slot |-> 0, left |-> 0]]
  /\ routeSends = {}
  /\ inFlight = {}

Next ==
  \/ \E n \in Node : ScheduleTdmaSession(n)
  \/ \E msg \in routeSends : SendRouteDown(msg)
  \/ \E msg \in inFlight : ReceiveSlotMsg(msg)
  \/ Advance

\* The simulator always takes the next event.
Fairness == WF_vars(Next)

Spec == Init /\ [][Next]_vars
FairSpec == Spec /\ Fairness

-----------------------------------------------------------------------------
(* Properties *)

Windows   == [session : Session, slot : Slot, left : Nat]
RouteMsg  == [from : Node, left : Nat, entries : Entries]
FlightMsg == [from : Node, to : Node, left : Nat, type : {"ROUTE", "DATA"},
              entries : Entries]

\* Types of the controllers' fields, the windows and the pending messages.
TypeOK ==
  /\ sessionState \in [Node -> Session]
  /\ staticCount \in [Node -> Nat]
  /\ slotTable \in [Node -> Table]
  /\ slotNum \in [Node -> Slot]
  /\ timer \in [Node -> Nat]
  /\ window \in [Node -> Windows]
  /\ routeSends \subseteq RouteMsg
  /\ inFlight \subseteq FlightMsg

Open(n) == window[n].left > 0

\* Two controllers that both wait for a slot wait for the same slot of the
\* same frame, due at the same instant: N independent chains of Schedule calls
\* never drift apart, whatever is reserved, lost or heard.
InStep ==
  \A n, m \in Node : timer[n] > 0 /\ timer[m] > 0 =>
    /\ timer[n] = timer[m]
    /\ slotNum[n] = slotNum[m]
    /\ sessionState[n] = sessionState[m]
    /\ staticCount[n] = staticCount[m]

\* Two nodes may be on the air together in a dynamic frame only: static slots
\* and reservation slots are free of contention (ScheduleTdmaSession).
ContentionFree ==
  \A n, m \in Node : n # m /\ Open(n) /\ Open(m) =>
    window[n].session = "DYNAMIC" /\ window[m].session = "DYNAMIC"

\* When a slot begins, the windows of the last slot are closed and its message
\* has been heard by everyone in range: the guard interval covers propagation.
AirClear ==
  (\A n \in Node : timer[n] = 0) =>
    routeSends = {} /\ inFlight = {} /\ \A n \in Node : ~Open(n)

\* A table says that a slot is reserved by another node.
Told(n, s) == slotTable[n][s].state = "ALLOCATED" /\ slotTable[n][s].owner # n

\* What one node has been told of a slot, every table says that has no message
\* on its way to it, the table of the slot's owner among them: two nodes take
\* the same slot only if nobody has heard of it from either, its message being
\* too long for the reservation slot or misread (ReceiveSlotMsg overwrites
\* without a check, MarkAsFree leaves the owner).
ReservationAgreed ==
  \A n, m \in Node : \A s \in Slot :
    Told(n, s) /\ (\A msg \in inFlight : msg.to # m) =>
      slotTable[m][s].owner = slotTable[n][s].owner

\* A node that has reserved a slot, and has told anybody, keeps it until it
\* frees its table: nobody's later message takes it away.
ReservationKept ==
  [][\A n \in Node : \A s \in Slot :
       /\ slotTable[n][s] = MarkAsAllocated(n)
       /\ \E m \in Node \ {n} : slotTable[m][s] = MarkAsAllocated(n)
       => slotTable'[n][s].owner = n]_vars

\* The owner a table names for a slot has not got that slot free, whoever hears
\* what: a reservation that is passed on ends with the superframe it was made in.
NothingInvented ==
  \A n, m \in Node : \A s \in Slot :
    slotTable[n][s] = MarkAsAllocated(m) =>
      \/ slotTable[m][s].state = "ALLOCATED"
      \/ sessionState[n] = "DYNAMIC" /\ sessionState[m] = "RESERVE"

\* In a dynamic frame no slot that has a node by its number goes unused: the
\* node that reserved it, or the node itself (CheckSlotTable), will transmit.
NoSlotIdle ==
  (\A n \in Node : sessionState[n] = "DYNAMIC") =>
    \A s \in Slot \cap Node : \E n \in Node : slotTable[n][s].owner = n

\* One slot of a dynamic frame has one transmitter.
DynamicExclusive ==
  \A n, m \in Node : n # m => ~(Open(n) /\ Open(m))

\* Every node gets its own static slot again and again.
EveryNodeTransmits ==
  \A n \in Node : []<>(Open(n) /\ window[n].session = "STATIC")

\* The superframe keeps coming back to a dynamic frame.
DynamicFramesRecur == []<>(\E n \in Node : sessionState[n] = "DYNAMIC")
=============================================================================
