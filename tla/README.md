# TLA+ models and proofs of the NS3-TDMA network

The repository is an ns-3 module, `src/src/simple-wireless-tdma`: a wireless
network in which every node broadcasts, sends on what it hears, and shares one
channel by time division.  A superframe is a reservation frame, static frames
and a dynamic frame.  This directory holds TLA+ modules translated from the C++
code, the TLC configurations that check them, and theorems about them that the
TLA+ proof system checks.  Paths below are relative to the module's `model/`
directory unless they say otherwise.

Everything runs inside one discrete-event simulation: a method runs to its end,
and what it schedules is an event.  The interleavings are those of events: of N
nodes' controllers, of arrivals at a queue and the sends of a slot, of
receptions.  An event is an action here, with everything the handler calls.


## 1. The system

| Part | State it keeps | Operations | What makes it correct |
|---|---|---|---|
| Dynamic frame controller, `tdma-controller-dynamic.cc`, `tdma-slot.cc` (one per node) | kind of frame, static frames counted, slot table, the next event | `ScheduleTdmaSession`, `ReserveSlot`, `SetSlotPacket`, `ReceiveSlotMsg`, `CheckSlotTable` | all nodes stay in the same slot; a slot has one transmitter; tables agree; everyone transmits again |
| MAC queue, `tdma-mac-queue.cc` | list of packets with time stamps, length kept a second time | `Enqueue`, `Dequeue`, `Peek`, `IsEmpty`, `Remove`, `Flush` | drop-tail FIFO with a lifetime |
| MAC, sending, `tdma-central-mac.cc` | pending `SendPacketDown`, remaining slot | `StartTransmission`, `SendPacketDown`, `Queue`, `StartRouteTransmission` | nothing is sent beyond the slot, what was looked at is sent, the queue is served |
| MAC, receiving | sequence number, the last 50 packets, counters | `Receive`, `Enqueue` (three), `GetNewSeq`, `CheckData` | every packet goes up once, and the broadcast ends |
| MAC header, `tdma-mac-header.cc` | packed bytes | setters, `Serialize`, `Deserialize` | what is written is read |
| Neighbour table, `tdma-route-table.cc` | queue length and time of each neighbour | `UpdateTable`, `GetQueueSizeLessNum` | neighbours just heard are known |
| Net device, lower MAC, channel, `tdma-mac-net-device.cc`, `tdma-mac-low.cc`, `simple-wireless-channel.cc` | parts, callbacks, list of MACs | setters, `CompleteConfig`, `Send`, `SendFrom`, `ForwardUp`, `StartTransmission`, `Receive` | registered once; headers added and removed in step |
| Applications, `my-apps.cc` | count, counters, events | `Sender`, `Receiver` | sends what it should, counts what arrives |
| Centralized controller, `tdma-controller.cc` | table of slots, one event | `AddTdmaSlot`, `Start`, `ScheduleTdmaSession` | every MAC gets its slots, guarded |
| Slot assignment file, `helper/tdma-slot-assignment-parser.cc` | rows and fields counted, the rows read | `ReadLine`, the table made of it | a file that fits a frame is read without loss |
| Example simulations, `examples/tdma-example.cc`, `src/scratch/tdma-example.cc` | command line, sinks, counters of the rows, events | `CaseRun`, `InstallApplications`, `CheckThroughput`, `ReceivePacket` | fails only where it must, every packet read is in a row, the run ends |
| Helpers' tracing, example packet header, test suite | | | not modelled, see section 7 |

How they interact.  Each controller calls its own MAC: `StartTransmission` with
the length of a slot, `StartRouteTransmission` with a slot message.  The MAC
peeks at the queue, waits for the air time of the packet and sends it down; the
lower MAC frames it and the channel copies it to every node in range, after the
propagation delay.  The receiving MAC gives every header to its controller
(`RecvRouterMsg`, the neighbour table), takes data packets up to the device and
back into its own queue, and slot messages to the controller
(`ReceiveSlotMsg`).  The controller asks the neighbour table how many slots to
reserve and tells the MAC whether to send a packet on (`IsTransmit`).

What is hard, and at which line it bites, is the list `hazards` of
`PROJECT.json`: independent event chains that must stay in step, state read
when an event is scheduled and used when it comes (the peeked packet, the header
behind a pointer), tables merged in the order in which messages happen to
arrive, copies of one packet along many paths, shared packet objects, and fields
a few bits wide.


## 2. The modules

**TdmaControllerDynamic** - the controllers of all nodes.  `sessionState`,
`staticCount`, `slotTable` are the fields of the same names; `slotNum` and
`timer` are the argument and the time of the pending `ScheduleTdmaSession`
event; `window` is what the controller last granted its MAC; `routeSends` and
`inFlight` are the pending `SendRouteDown` and `Receive` events of slot
messages.  `ScheduleTdmaSession` of the code is split by its switch into
`StaticSlot`, `LastStaticSlot`, `ReserveOther`, `ReserveOwn`, `DynamicSlot`.
Time jumps to the next pending event and events due together come in any order.
How many slots a node asks for depends on its neighbours' queues: any answer of
the neighbour table is allowed.

**StaticTdma**, **ContentionFreeMedium** - what static TDMA promises (one holder
at a time, in turn, for ever), and the mapping under which the controllers
implement it.

**TdmaMacQueueOps** - the queue's operations as functions of its fields, used by
two modules.  **TdmaMacQueue** - the queue under any order of calls, with the
reports of the packets it loses: those that have expired are reported by the
call that cleans them up, the one that is refused by `Enqueue`; and the mapping
(`Fifo`) under which it implements **DropTailQueue** - what it promises, reports
included.  A packet's time stamp
is an age, and the number of reports is counted modulo `DropsEnd`.

**TdmaSlotTransmission** - one MAC, its queue and its slot.  `sendDown` is the
pending `SendPacketDown` event with the budget it carries; `used` is the air
time sent in this slot; `crashed` is a null packet handed down.

**TdmaBroadcast** - all MACs' receive sides together with their neighbour
tables.  `seq`, `heard`, `out`, `table` are `m_seq`, `m_recvPacketsQueue`,
`m_queue` and the controller's neighbour table; every frame carries the id and
the queue length its sender put into it, every receiver enters them into its
table, and `IsTransmit` decides from the table whether an accepted packet is
sent on.  Slot messages (`AnnounceSlots`) take sequence numbers and enter the
tables too.  `handedUp` counts the calls of `ForwardUp` for each packet and
`refused` remembers what a node did not send on, because `IsTransmit` was
against it or because it waited too long; both are history.  `Expire` is the
clean-up of the queue, for the nodes in `Expiring`: the code cleans up inside the next
use of the queue, here that is a step of its own before or after it, so that a length
that is announced or compared may still count frames that have expired, as in the code.
A
transmission and its receptions are one step, because slots do not overlap
(`AirClear`).  Entries time out by the receiver's clock, which the module does
not keep: any of the sets `Forgotten` may have gone when a frame is heard.

**TdmaHeader**, **TdmaRouteTable** - the control word, and the neighbour table
of one node.  `heard` remembers what each neighbour announced last, to compare
the table with.  Incrementing the iterator of an erased entry is undefined:
`DeleteTimeoutEntry` has then deleted the first one and may delete any of the
later entries that have timed out, and end or crash.

**TdmaNetDevice** - the parts of a device, set in any order or as
`TdmaHelper::Install` does, and packet objects passed by reference through the
layers; `heap` holds the objects, everything else references.  The constructor
leaves `m_linkUp` uninitialized, so a new device has either value until its
configuration is complete.  **MyApps** - `Sender` and `Receiver` on top of it,
with UDP and IP as an external step that passes packets on at once.

**TdmaController** - the centralized controller, which the MAC no longer starts
(`tdma-central-mac.cc:609`).  Its times are state: the attribute setters are
actions, and `SetGaurdTime` derives the guard interval from the channel once
there is one.  `granted` is a history variable.

**SlotAssignmentFile** - the centralized controller with a table read from a
file: `ReadRow` and `EndOfFile` are one turn and the end of the parser's loop
(`slotArray`, `numRows`, `numCols` are its fields), and `FillTable` is the script
that puts the rows into the controller.  No such script is left in the
repository, so `FillTable` is external.  A file is a sequence of rows, each with
the node it names and its fields.

**TdmaExample** - the two simulation scripts.  `phase` is how far `CaseRun` has
come; `CreateNodes`, `CreateDevices`, `SetUp` and `Run` are its parts (what
`CreateDevices` installs is the network's), and from
then on every pending event is an action: a row, a packet sent, a packet read, a
report, `Stop`.  The command line is any member of the sets of arguments, and
`m_nSinks - 1` is unsigned.  The network between two applications is external:
it loses any packet, or delivers it after one of `Delays`.

**MC_...** give constants that a `.cfg` cannot express.  Definitions called
`Mutant` in a comment are variations of the definition that follows them.  They
are not part of any specification: each property was seen to fail when one of
them takes the place of the definition.


## 3. What is checked

Passing runs:

| Run | Instance | Properties |
|---|---|---|
| `superframe` | 3 nodes, 3 slots, a dynamic frame after 2 static ones, up to 2 neighbours in a table, times of the default rate, headers read as slot message or data | `TypeOK`, `InStep`, `ContentionFree`, `AirClear`, `ReservationAgreed`, `NoSlotIdle`, `NothingInvented`; `ReservationKept`; `EveryNodeTransmits`, `DynamicFramesRecur` |
| `static_tdma` | 5 nodes, static frames | `ImplementsMedium` |
| `mac_queue` | 2 packets, limits 0, 2, 3, lifetimes 1, 3, reports counted modulo 5 | `SizeAgrees`, `ImplementsDropTail` |
| `slot_transmission` | packets of 1 and 3 units, slot of 4, frame of 6, queue of 2, lifetime 19 | `SendsInsideSlot`, `WithinSlot`; `SendsWhatItPeeked`; `QueueIsServed` |
| `broadcast` | 3 nodes that hear each other, of which node 3 hears node 1 only from time to time, frames may expire in the queue of node 2 and the table of node 3 forgets; 2 packets, a bridged source, 1 slot message, sequence numbers modulo 2, hop limit 1 | `HandedUpOnce`, `CountersAddUp`, `BroadcastComplete`, `HopsBounded`; `IdleRelaysSend`, `RepeatsAreRepeats`; `BroadcastEnds` |
| `route_table` | 4 neighbours, queue lengths 0 and 15, bridged frames | `FreshKnown`, `ForwardsByRank` |
| `apps_and_devices` | 3 devices that hear each other, a receiver, a sender of 2 packets, or of 1 with one packet of other traffic | `ListedOnce`, `Layered`, `HandedUpBare`, `CountedOnce`; `SendsAll` |
| `central_controller` | 2 MACs, 5 positions, frames of 2 and 4 slots, default and other times, channels of 250 m and 1000 m; a table set by hand or read from one of 8 files | `GuardKept`, `SlotsGranted`, `FailsOnlyUnassigned`; `FileFillsFrame`; `EveryMacServed` |
| `experiment` | both scripts, up to 2 nodes, up to 3 sinks, three lengths of a run | `RowsAddUp`, `ResultsComplete`, `FailsOnlySinks`; `RunEnds` |

Why the bounds are enough.

* `superframe`: three nodes are the fewest at which two disagree about a third,
  and a frame of three has a first, a middle and a last slot, which are the
  branches of the frame walk.  Times are those of the code in microseconds: at the
  default of 800 kb/s an entry of a slot message takes 180 and an empty one 10
  (`tdma-controller-dynamic.cc:44`, `:566`), so that two entries fit a reservation
  slot of 500 and three do not: reservations that are never announced do happen.
* `broadcast`: a packet of node 1 comes to node 3 directly, by the detour over node 2
  with as many hops as the limit, or both ways, and what the others send on comes back
  to its origin.  Two packets and a slot message draw up to three numbers of two, so
  a number is used again and a packet can be taken for another of its node.  The
  entry of the bridged frames, which have no id, is a third one beside those of two
  neighbours, from which on `IsTransmit` asks the table: a node does refuse packets.
  The window of 50 never fills here.  What happens beyond it is in the proofs:
  `RepeatsAreRepeats` for any window, `HandedUpOnce` for as many packets as it holds.
* `route_table`: four neighbours make a table in which the certain answer of
  `IsTransmit` (at most two entries) and the other one both occur, and timing out
  happens to any subset of them.
* `slot_transmission`: a slot of four holds three short packets or one long one
  with room for none.
* `apps_and_devices`: a packet of the sender comes to the receiver along two paths and
  is repeated.  A stop can come before the start, before the first of two sends,
  between them or after them, and one comparison too many sends a third.  The other
  traffic, a packet from any node, to the receiver or for another source, or a slot
  message, comes before the one packet of the sender (`MaxPackets` bounds both).
* `central_controller`: the files are one that fits a frame of two slots and one
  of four whose consecutive slots are merged, and one for each way in which a file
  does not fit: a slot given twice, rows of different lengths that pass on average,
  rows that do not, a field that is neither 0 nor 1, a row without an id, no row.
* `experiment`: 0, 1 and 2 nodes with 0 to 3 sinks have every relation of the
  two numbers, `UintSize` = 256 stands for 2^32, which no number of nodes reaches
  either.  A run of 25 s has one row, due with `Stop`; one of 100 s stops before the
  second report, one of 200 s after it.  Three packets nine seconds apart take
  about as long as the ten of the code, and rows every 25 s stand for those of
  every second: what matters is which events fall together.

Where the code only holds under a condition, the instance states it.
`ReservationAgreed`, `ReservationKept` and `NoSlotIdle` need all nodes in range of
each other (`AllInRange`, under which they are also proved), and nothing of the
messages: those that are too long for their slot are not sent, and those whose header
reads as data are not applied.  What holds then is weaker than that two tables never
disagree, which is false at the default rate: two nodes can take one slot, as long as
neither has been able to tell anybody (`Told`).  Out of range, a node that has missed
a message tells others of its own reservation of the same slot, and both properties
are false.  `NothingInvented`, `InStep`, `AirClear` and `ContentionFree` are proved for
any range, whatever is lost; the run has everybody in range.
`WithinSlot` and `SendsWhatItPeeked` need a lifetime longer
than a full queue takes to drain at one packet a frame (`Drains`), and `QueueIsServed`
packets shorter than a slot.  `EveryNodeTransmits` needs node ids below the
number of slots.  `HandedUpOnce` needs no more packets on their
way than the window holds, and `BroadcastComplete` that, no more numbers drawn than the
range has, and room in the queues (under which they are proved);
`BroadcastComplete`
and `RepeatsAreRepeats` also leave out bridged sources, whose packets every bridge
numbers for itself.  `BroadcastComplete` leaves out the packets that a node refused to
send on, and those a whole cycle of numbers away from another of their node; and with
detours it holds only where they are short enough: the run has `TTLEnd + 2` nodes, the
case of `SmallNetworksComplete`, in an instance that draws more numbers than there are.
`ResultsComplete` is about runs longer than the report interval, in which
the Senders finish (`SendersFinish`, evaluated as well).
`FileFillsFrame` is about files that fit a frame.  `ForwardsByRank` needs ids and
lengths below 16.  `FailsOnlyUnassigned` and `SlotsGranted` are about tables and times
that are not changed after the start.

Three runs find the code at odds with what is said of it (`findings`):

* `dynamic_exclusive` - freeing a slot leaves its owner, and the dynamic frame
  reads only the owner: two nodes transmit in one slot.
* `slot_overrun` - the packet that is dequeued is not the packet that was
  measured, after that one has expired: a slot is exceeded.
* `neighbour_timeout` - of two entries that have timed out, the first is erased and
  the second left in the table, as the walk goes on from the first.

Seen while modelling and not made into runs:

* Controllers.  `DynamicInterval + 1` static frames pass before a dynamic one
  (`tdma-controller-dynamic.cc:283`; the comment in the header says otherwise).
  Nothing in the repository sets the interval, so its own scripts only run static
  frames.  `ReserveSlot` gives two slots to the nodes with the shortest queues:
  it counts the neighbours whose queue is at least as long.  A packet as long as
  its slot is never sent.  A guard interval that follows the channel is cut to
  whole microseconds and is 0 below 300 m (`tdma-controller.cc:200`), which
  `GuardKept` survives, as windows may touch.
* Neighbour tables.  A node with three neighbours and a packet of its own may
  refuse to relay, and then a broadcast does not reach everybody; two neighbours
  are enough for that only with bridged frames about, which share one entry.  Ids and queue lengths are cut to four bits although
  eight are sent.
* MAC.  A packet sent for another source has a header type nobody set, and is
  lost wherever it reads as a slot message.  The trace `MacRx` never fires,
  because `NotifyRx` is commented out in `ForwardUp`: the ASCII trace has no
  received packets.  The queue limit is compared for equality.
* Devices.  A device is registered with the MAC it has when it becomes complete;
  a MAC set later is not.
* Scripts.  The one in `src/scratch` never calls `InstallApplications`, so the
  rows it writes are all zero, and only the Receivers' reports say what arrived.
  The TDMA parameters on the command line (number of slots, slot time, guard time,
  inter-frame gap) are stored and not used.  The module's own example asserts more
  nodes than sinks and says "less or equal"; it calls functions that are not there
  any more (`TdmaHelper (n, n)`, `SetTdmaControllerHelper`).
* Slot assignment file.  Rows of different lengths are accepted when their sum
  is a multiple of the rows.


## 4. Fairness

`TdmaControllerDynamic`, `TdmaSlotTransmission`, `TdmaController`: weak fairness
of the events together, or of the next event, because the simulator always takes
the next pending one; arrivals of packets and calls of setters are owed to
nobody.  `TdmaBroadcast`: weak fairness of every node's `Transmit`, which is
what `EveryNodeTransmits` shows of the controllers.  `MyApps`: a pending
`SendPacket` event is executed.  `TdmaExample`: weak fairness of the next step,
as the program goes on and the simulator takes events until `Stop`.
`SlotAssignmentFile`: that of `TdmaController`; nobody owes the file to anyone.


## 5. What is proved

Eight modules of proofs, for every value of the constants that satisfies the
assumptions named in the modules and, where the table says so, in the theorem.

| Module | Theorems |
|---|---|
| `TdmaControllerDynamic_proofs` | `TypeCorrect`: `[]TypeOK`; `ControllersInStep`: `[]InStep`; `NoContention`: `[]ContentionFree`; `SlotsSeparated`: `[]AirClear`; `NobodyInvents`: `[]NothingInvented`; where `AllInRange` holds, `TablesAgree`: `[]ReservationAgreed`, `SlotsAreUsed`: `[]NoSlotIdle`, `ReservationsStay`: `ReservationKept`; with no dynamic interval and nodes numbered like the slots, `StaticImplementsMedium`: `Spec => Static!Medium` |
| `TdmaMacQueue_proofs` | lemmas about the queue's operations, used by the next module too; `CounterIsLength`: `[]SizeAgrees`; unless 0 is a lifetime, `QueueImplementsDropTail`: `ImplementsDropTail` |
| `TdmaSlotTransmission_proofs` | `SendsStayInside`: `[]SendsInsideSlot`; where `Drains` holds, `SlotNotOverrun`: `[]WithinSlot`, `PeekedIsSent`: `SendsWhatItPeeked` |
| `TdmaBroadcast_proofs` | `CountersAgree`: `[]CountersAddUp`; `HopsLimited`: `[]HopsBounded`; `IdleNodesRelay`: `IdleRelaysSend`; with at most `Window` packets, `NotHandedUpTwice`: `[]HandedUpOnce`; `RepeatsWereHandedUp`: `RepeatsAreRepeats`; with at most `Window` packets, at most `SeqEnd` numbers drawn and room in the queues, `[]BroadcastComplete` on trees, `TreesComplete`, and with at most `TTLEnd + 2` nodes, `SmallNetworksComplete` |
| `TdmaRouteTable_proofs` | `RoundTrip`: a header is read as it was written; where `FourBits` holds, `FreshAreKnown`: `[]FreshKnown`, `RankDecides`: `[]ForwardsByRank` |
| `TdmaController_proofs` | `WindowsGuarded`: `[]GuardKept`; `FrameIsGranted`: `[]SlotsGranted`; `FailsOnlyWithoutTable`: `[]FailsOnlyUnassigned`; `FileIsReadWhole`: `FileFillsFrame` |
| `MyApps_proofs` | `DevicesListedOnce`: `[]ListedOnce`; `LayersKeepPackets`: `[]Layered`; `UpperLayersKeepPackets`: `[]HandedUpBare`; `NothingCountedTwice`: `[]CountedOnce` |
| `TdmaExample_proofs` | `FailsForSinks`: `[]FailsOnlySinks`; `RowsHoldAll`: `[]RowsAddUp`; where `SendersFinish` holds, `ReportsHoldAll`: `[]ResultsComplete` |

**The controllers.**  Any number of nodes and slots, any interval, any times,
whatever is reserved, lost or heard and whatever type a dead header reads.  The
only assumption that is more than a type is `GaurdCoversPropagation`.  `InStep`
says nothing while some controllers have acted on a slot and others have not, so
it is not inductive.  `Steps` does: any two controllers are together, or one is
exactly one step of the frame walk ahead of the other at an instant at which the
other is due.  To keep the clock from moving past a due controller, `WindowEnds`
and `MessagesOnTime` bound what is pending by the next event: a window closes, and
a slot message is heard, before the guard interval is over (this is where
`GaurdCoversPropagation` is used).  `WindowOwn` and `WindowsMatch` tie a window to
the slot and the frame of the controller that opened it, so that two open windows
belong to one slot, whose number is the id of only one of them.  `IInv` is their
conjunction with `TypeOK`; `InitInv`, `NextInv` and `Invariance` are the three
facts.

**The slot tables.**  Two invariants, one for any range and one for where all nodes
hear each other.  `CInv` adds `ChannelInv` to `IInv`; it assumes nothing of who hears a
message, whether it fits, or what its header reads.  Its core is about time: while a
node is due, nothing is on its way but what the node of this reservation slot has just
announced (`NothingEarly`), a message says what its sender's table still says
(`MessagesCurrent`), and a reservation frame begins with empty tables (`BeginsEmpty`).
Hence whoever is said to have reserved a slot has not got it free (`OwnersTook`), but
for the instant at which some controllers have left the dynamic frame and freed their
tables and others have yet to.  `NothingInvented` follows.

`HInv` adds `HeardInv` where `AllInRange` holds.  The tables need not be the same: a
node whose message was too long or misread has a reservation nobody knows of.  But what
one node has been told, all have been told that have no message on its way to them
(`KnownSame`): a message that arrives brings everyone the same entries
(`HeardAll`), among them to a node which had taken the same slot silently, whose own
claim is then gone before it can announce it.  `ReservationAgreed` alone is not
inductive: a node that reserves a free slot must know that nobody has been told of
another owner.  Every node that enters the dynamic frame takes its own slot if it is
free in its table (`OwnSlotTaken`), so that slot has an owner, and the owner's table
agrees.  That `Least` returns a member of the set uses the library's theorem that `<`
is well-founded on the natural numbers.

**Static TDMA.**  `SInv` adds to `IInv` that every controller and every window is
static.  From it follows what the mapping yields (`MapFacts`): the holder is the
node whose window is open, and as long as nobody has acted on a slot it is the turn
of the node of that slot.  The node of the slot then makes an `Acquire`
(`OwnSlotAcquires`: nobody else can hold the medium, for that window would have
ended), every other controller a stutter (`OtherSlotStutters`), and the clock a
`Release` or a stutter (`AdvanceReleases`).

**The queue.**  Packets enter at the end with age 0 and grow old together, so the
list is always sorted by age, oldest first: `Sound` says so, and that the counter is
the length.  Then what has expired is a first part of the list (`Stale` items of
it), and what `Cleanup` leaves is the rest as it is: filtering becomes taking a
suffix, of which the library does know something (`CleanupResult`).  This is what
makes the refinement go through: `content` of the drop-tail queue is that rest and
`lapsed` the length of the first part, a clean-up changes neither the one nor, with
the report, the sum of what is lost, and one unit of time moves a prefix of the rest
to the part that has expired.  A lifetime of 0, which makes every packet expire as it
is queued, is excluded: such a packet is accepted and gone, which the drop-tail queue
does not do.

**The slot.**  `SlotInv` ties the pending send to the slot: the air time it still
waits for and the budget it leaves to the next one are together what is left of the
slot.  That nothing expires between `Peek` and `Dequeue` needs the lifetime to be long
enough, which `Drains` states: every packet fits a slot, and `MaxSize` frames and a
slot are within `MaxDelay`.  The invariant (`DrainInv`) is a potential: an item may
be as old as it takes to send a full queue at one packet a frame, less a frame for
every item that is still before it (`AgeLimit`).  While the items grow older by a
frame, a slot takes at least one from the front, so the rest move up; and a new item
has age 0 at the last place.  The defaults
of the code (400 packets, 10 s) satisfy `Drains` for frames of up to about 25 ms; the
run `slot_overrun` shows what happens where it does not hold.

**The neighbour table.**  Ids and queue lengths below 16 (`FourBits`).  What a
neighbour announced last and what the table says of it age together, the walk,
undefined as it is, deletes only entries that have timed out, and below 16 no two
ids are cut to the same four bits.  The control word is split by division into
fields that do not overlap (`WordFields`).  For the forwarding decision every entry
must be of some neighbour, with the length it announced last, or be the entry 0 of
the frames that have no id, with length 0 (`EntriesOK`).  Three entries of neighbours just heard are then, of at most sixteen,
more than a tenth (`RankCounts`); and with shorter queues all around none counts.

**The broadcast.**  Any reach, hop limit, window, queue limit and number range.
Every data frame a node hears is its own, a repeat or new to it, so the counters
move together; a frame that is sent on is new to the node and not its own, and
has gone one hop more than one below the limit; and the length 0 that an idle node
compares with is at most every length in a table, so that all entries count.

A packet's source and number are part of its frames, not of the packet, so
`HandedUpOnce` and `RepeatsAreRepeats` need a numbering: the invariant (`OnceInv`)
says that there is some function from packets to pairs of a source and a number, that
every frame which waits carries the pair of its packet (`Known`), and that a node's
list consists of different pairs, each of a packet it has handed up (`Knows`).  An
origination extends the function.  If a packet is new to a node, the pairs in its list
are those of other packets, so by the pigeonhole principle the list is shorter than
the number of packets sent (`Room`); with no more packets than the window nothing is
ever forgotten, and what was handed up stays in the list (`Once`).  For
`RepeatsAreRepeats` nothing is bounded: `Drawn` says that a node's counter is no
further ahead of the number of a packet of its own, counted round the range (`Ahead`),
than numbers have been drawn since, by packets and slot messages together.  A new
packet that gets the number of an old one is therefore a whole cycle away from it
(`CycleBetween`), and a node that takes a frame for a repeat has the pair in its list
from such a packet, or from the packet itself.  `HandedUpOnce` is proved for behaviours
of at most `Window` packets, 50 with the code's numbers, on any network.  Of longer ones
it says nothing, and without a bound on how long a copy is under way it is false: the
window forgets what it still has to recognize.

**That a broadcast is complete.**  Not on every network: a node keeps the first copy it
hears, and where that one came by a detour it may have used up its hops.
`BroadcastComplete` speaks of the end, when nothing is left to send; the invariant has
to say where every packet is before.  `SpreadInv` does, for the packets that the
property is about (not bridged, refused by no node, and expired in no queue): a node that has the packet has
a copy that still waits in its queue, or all that are always in range of it have the
packet too, or it is too far from the origin (`far`).  The step that takes a copy out of a queue gives it to all
hearers (`TransmitSpread`); that they take it for new when it is new to them, and not
for a repeat, is the numbering above; and nothing is lost at a full queue because each
node queues a packet at most once for itself and once for another
(`2 * MaxPackets <= QueueLimit`).  When the queues are empty no copy waits, and the
packet has spread over all links but those of nodes too far away.  What remains is the
copy that a node does not send on because it has used up its hops (`IsTTLEnd`): it must
be one of a node that is far, or everybody must have the packet.  Two conditions are
sufficient, and each has an invariant of its own.

* `SmallNetworksComplete`: at most `TTLEnd + 2` nodes, five with the code's limit, on
  any network, whose links may come and go.  A frame which has gone `k` hops has `k`
  nodes behind it that have the packet (`AllHeldOnWay`): when the hop limit is
  reached, everybody has it.
* `TreesComplete`: any number of nodes and any limit, where the links form a tree
  (`IsTree`: from every node a distance and a way there).  A node that has a packet
  has it from the node before it on the way from the source, and its hops are its
  distance (`TreeInv`).

**The centralized controller.**  Any table, set by hand or from a file, any times, and
the setters before the start.  What the windows of a frame have granted a MAC is the
slot time of its slots that the walk has passed (`SlotsBefore`): a session that merges
consecutive slots pays for all of them at once, and the next session is due a guard
interval after the last (`SessionInv`).  Where every slot of the frame has a MAC, the
walk is always at a slot of the frame.  For the file, `FileInv` says what has been
counted and read after some rows, and `FitsInv` that a file that fits a frame has then
as many fields as rows times the length of the first.

**Devices and packet objects.**  Any finite set of nodes, any range and hop limit.
`IInv` says of every device that it is complete exactly when it has its parts and
is listed then (`DevicesOK`), and of the packet objects that every reference points
to one (`HeapOK`), that what waits in a queue has no frame (`QueuesWait`), what is
on the air has exactly one (`AirFlies`) and what was handed up has no header left
(`UpIsBare`).  Queued and flying objects differ in this, which is why removing the
frame of a received one, in place, disturbs nobody who waits; and no two receptions
are given the same object, because the channel copies it for each of them.

**End to end.**  `CountedOnce` needs more than the above: `Owned` says that a
packet keeps the source address under which it was sent first, in every queue and
on the air, and that what a node handed up it remembers under that source.  The
address belongs to the packet for ever, hence the invariant asks for some function
from packets to addresses (`\E owner`), which an origination extends.  `CountsOK`
then bounds what a Receiver has counted, reported and not yet read by the packets
its node was given.

**The simulation scripts.**  Any command line, number of nodes, start times, delays and
traffic.  `SetUpInv` carries what `CaseRun` has checked so far; that no sink makes the
loops run to `UintSize - 1`, which is no node, is arithmetic modulo the width
(`LastSinkIs`).  The other two rest on `EventsInv`: nothing is scheduled for a time that
has passed, so `Advance`, which goes to the least of the times (`NextEventIsLeast`),
passes no event.  Then a row is never further off than the interval, and what waits was
read after the last one (`RowsInv`).  For the reports the invariant is a budget: what a
Sender still has to send, at its interval, and the longest delay end before the second
report (`ReportsInv`), so that a Receiver which has reported twice has nothing more to
count.  `SendersFinish` says this of the start times: the script's Senders start within
100 s and send ten packets, two seconds apart, which leaves 32 s before the report at
150 s for the last one to arrive.


## 6. What is only model-checked

All liveness (`EveryNodeTransmits`, `DynamicFramesRecur`, `QueueIsServed`,
`BroadcastEnds`, `SendsAll`, `EveryMacServed`, `RunEnds`), the fairness part of
`ImplementsMedium` included: it is out of the prover's reach.  Every safety property of
the passing runs is proved, those that need a condition under the one named in
section 5.  What a condition excludes was only run, such as
`BroadcastComplete` around numbers that come round.


## 7. What is not modelled

* The helpers' trace files and pcap, logging and printing: output only.  Which
  packets the drop trace reports is part of `TdmaMacQueue`.
* The example packet header (an older copy of the MAC header that is not built)
  and the test suite (commented out).
* Positions, mobility and routing of the scripts: only who is in range, and what
  arrives when, matters here.
* Attribute setters of the dynamic controller, MTU, addresses and the link-down
  callback of the device: nothing calls them while a simulation runs.
* Delays and byte counts in reports, among them a 32-bit sum of nanoseconds
  (`tdma-central-mac.cc:583`); the assertion that a slot message is shorter than 1500
  bytes (`tdma-controller-dynamic.cc:571`); the guard interval of the dynamic
  controller cut to microseconds (`tdma-controller-dynamic.cc:221`).
* Networks put together by several calls of `TdmaHelper::Install`, whose frames have
  different lengths: the scripts make one call, and `TotalSlots` is one constant.
* Setters of the centralized controller called after its start: what its walk promises
  is about tables and times that stay, which the guards of the setters state.


## 8. Plan

Done: every component that changes state; every safety property of the passing runs
proved for all values of the constants.  What a next step could be:

1. `BroadcastComplete` between the two theorems: networks that are neither trees nor
   small, where every detour is within the hop limit.
2. The controllers over the MACs' queues, so that the slots asked for follow
   from the queues they serve.
