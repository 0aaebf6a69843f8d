---------------------------- MODULE TdmaRouteTable ----------------------------
(***************************************************************************)
(* The neighbour table of one node (ns3::TdmaRouteTable).  Every frame     *)
(* that is received, also a repeated or expired one, carries the id of the *)
(* node that sent it and the length of that node's queue (RecvRouterMsg);  *)
(* the table decides whether the node sends a broadcast on (IsTransmit)    *)
(* and how many slots it reserves.                                         *)
(***************************************************************************)
EXTENDS TdmaHeader, FiniteSets

CONSTANTS
  Neighbour,  \* node ids of the other nodes
  Sizes,      \* lengths their queues can have
  Timeout,    \* m_timeout, in ticks
  Bridging    \* neighbours also send with another source address

ASSUME NeighboursAreNumbers == Neighbour \subseteq Nat
ASSUME SizesAreNatural == Sizes \subseteq Nat
ASSUME TimeoutIsNatural == Timeout \in Nat
ASSUME BridgingIsBoolean == Bridging \in BOOLEAN

VARIABLES
  table,    \* m_routeTable: by the id in the header, queue length and age
  heard,    \* age and queue length of the last frame of each neighbour
  crashed   \* the walk of DeleteTimeoutEntry went astray

vars == <<table, heard, crashed>>

Never == Timeout + 1     \* bound: ages are counted up to this
Heard(age, size) == [age |-> age, size |-> size]

Init ==
  /\ table = [k \in {} |-> Heard(0, 0)]
  /\ heard = [s \in Neighbour |-> Heard(Never, 0)]
  /\ crashed = FALSE

IsTimeout(entry) == entry.age > Timeout

\* Mutant: an entry that is updated keeps its time.
UpdatedKeepsTime(key, size) ==
  [k \in DOMAIN table \cup {key} |->
     IF k \notin DOMAIN table THEN Heard(0, size)
     ELSE IF k = key THEN [table[k] EXCEPT !.size = size] ELSE table[k]]

\* UpdateTableEntry or AddNewEntry.
Updated(key, size) ==
  [k \in DOMAIN table \cup {key} |-> IF k = key THEN Heard(0, size) ELSE table[k]]

Without(entries, keys) == [k \in DOMAIN entries \ keys |-> entries[k]]

\* The walk deletes the first entry that has timed out, and then steps on from
\* the deleted entry: it may find its way to later entries, to the end of the
\* table, or nowhere, wherever it has come to.
DeleteTimeoutEntry(entries) ==
  LET old == {k \in DOMAIN entries : IsTimeout(entries[k])}
  IN  IF old = {} THEN table' = entries /\ UNCHANGED crashed
      ELSE \E keys \in SUBSET old :
             /\ \E k \in keys : \A other \in old : k <= other
             /\ table' = Without(entries, keys)
             /\ crashed' \in BOOLEAN

UpdateTable(hdr) ==
  /\ ~crashed
  /\ DeleteTimeoutEntry(Updated(hdr.srcId, hdr.srcWaitSize))

\* A frame of s arrives; its header was filled in when the frame was queued.
Hear(s, size) ==
  /\ UpdateTable(Received(SetSrcWaitSize(SetSrcId(NewHeader(0, Data), s), size)))
  /\ heard' = [heard EXCEPT ![s] = Heard(0, size)]

\* A frame sent with another source address (SendFrom) leaves both fields out.
HearBridged ==
  /\ UpdateTable(Received(NewHeader(0, Data)))
  /\ UNCHANGED heard

Older(entry) == [entry EXCEPT !.age = IF @ < Never THEN @ + 1 ELSE @]

Tick ==
  /\ ~crashed
  /\ table' = [k \in DOMAIN table |-> Older(table[k])]
  /\ heard' = [s \in Neighbour |-> Older(heard[s])]
  /\ UNCHANGED crashed

Next ==
  \/ \E s \in Neighbour : \E size \in Sizes : Hear(s, size)
  \/ Bridging /\ HearBridged
  \/ Tick

Spec == Init /\ [][Next]_vars

-----------------------------------------------------------------------------
(* What the table is asked *)

GetRouteTableSize == Cardinality(DOMAIN table)

\* Mutant: counts the shorter queues.
GetQueueSizeMoreNum(size) == Cardinality({k \in DOMAIN table : table[k].size < size})

GetQueueSizeLessNum(size) ==
  Cardinality({k \in DOMAIN table : size <= table[k].size})

\* A node with few neighbours always sends on; any other one only if more than
\* a tenth of its neighbours (m_transmitPara) have a queue as long as its own.
IsTransmit(size) ==
  GetRouteTableSize <= 2 \/ 10 * GetQueueSizeLessNum(size) > GetRouteTableSize

-----------------------------------------------------------------------------
(* Properties *)

\* Types of the table's entries.
TypeOK ==
  /\ DOMAIN table \subseteq 0 .. 255
  /\ \A k \in DOMAIN table : table[k] \in [age : 0 .. Never, size : 0 .. 255]
  /\ heard \in [Neighbour -> [age : 0 .. Never, size : Sizes \cup {0}]]
  /\ crashed \in BOOLEAN

Fresh == {s \in Neighbour : ~IsTimeout(heard[s])}

\* Every neighbour heard within the timeout has an entry of its own, with the
\* queue length it announced last: no walk, mask or update of another neighbour
\* takes it away.
FreshKnown ==
  ~crashed => \A s \in Fresh : s \in DOMAIN table /\ table[s] = heard[s]

\* A node sends on when all of at least three neighbours it has just heard have
\* queues no shorter than its own, whatever else is left in its table; and when
\* all the neighbours it has ever heard have shorter queues it keeps quiet.
ForwardsByRank ==
  ~crashed /\ Cardinality(Fresh) >= 3 =>
    \A size \in Sizes :
      /\ (\A s \in Fresh : size <= heard[s].size) => IsTransmit(size)
      /\ (\A s \in Neighbour : heard[s].size < size) => ~IsTransmit(size)

\* When a frame has been heard, and the program goes on, no entry that has timed out
\* is left.
TimedOutForgotten ==
  [][(\E s \in Neighbour : \E size \in Sizes : Hear(s, size)) /\ ~crashed' =>
       \A k \in DOMAIN table' : ~IsTimeout(table'[k])]_vars
=============================================================================
