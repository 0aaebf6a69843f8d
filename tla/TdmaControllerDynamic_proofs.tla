--------------------- MODULE TdmaControllerDynamic_proofs ---------------------
(***************************************************************************)
(* Proofs about the frame controllers, for every set of nodes, number of   *)
(* slots, interval and timing: the types, the lockstep of the controllers, *)
(* and the absence of contention outside the dynamic frame; the slot       *)
(* tables: whoever hears what, no owner is named that has the slot free,   *)
(* and where everyone is in range, what has been told of reservations is   *)
(* the same everywhere, nobody's announced reservation is taken away, and  *)
(* in the dynamic frame every slot that has a node by its number is        *)
(* somebody's; and static TDMA, which implements the contention-free       *)
(* medium: whoever opens a window does so alone and in turn.               *)
(***************************************************************************)
EXTENDS StaticTdma, FiniteSetTheorems, WellFoundedInduction, TLAPS

-----------------------------------------------------------------------------
(* The operators on slot tables keep tables tables *)

LEMMA ZeroIsSlot == 0 \in Slot /\ Slot \subseteq Nat
BY SlotsArePositive DEF Slot

\* Taking a slot yields a table.
LEMMA TakeSlotType ==
  ASSUME NEW table \in Table, NEW n \in Node, NEW index
  PROVE  TakeSlot(table, n, index) \in Table
<1> DEFINE found == GetFreeSlot(table, index)
<1>1. CASE found \in Slot /\ found # SlotsOver
  <2>1. MarkAsAllocated(n) \in SlotRecord
    BY DEF MarkAsAllocated, SlotRecord, Owner
  <2>2. TakeSlot(table, n, index) = [table EXCEPT ![found] = MarkAsAllocated(n)]
    BY <1>1 DEF TakeSlot
  <2> QED BY <2>1, <2>2, <1>1 DEF Table
<1>2. CASE ~(found \in Slot /\ found # SlotsOver)
  BY <1>2 DEF TakeSlot
<1> QED BY <1>1, <1>2

LEMMA ReserveSlotType ==
  ASSUME NEW table \in Table, NEW n \in Node, NEW wanted
  PROVE  ReserveSlot(table, n, wanted) \in Table
<1>1. TakeSlot(table, n, n) \in Table
  BY TakeSlotType
<1>2. TakeSlot(TakeSlot(table, n, n), n, (n + 1) % TotalSlots) \in Table
  BY <1>1, TakeSlotType
<1> QED BY <1>1, <1>2 DEF ReserveSlot

LEMMA SetSlotPacketType ==
  ASSUME NEW table \in Table
  PROVE  SetSlotPacket(table) \in Entries
BY DEF Table, SlotRecord, SetSlotPacket, Entries, Owner

LEMMA MergeEntriesType ==
  ASSUME NEW table \in Table, NEW entries \in Entries
  PROVE  MergeEntries(table, entries) \in Table
BY DEF Table, SlotRecord, MergeEntries, MarkAsAllocated, Entries

LEMMA CheckSlotTableType ==
  ASSUME NEW table \in Table, NEW n \in Node
  PROVE  CheckSlotTable(table, n) \in Table
<1>1. MarkAsAllocated(n) \in SlotRecord
  BY DEF MarkAsAllocated, SlotRecord, Owner
<1> QED BY <1>1 DEF CheckSlotTable, Table

LEMMA FreeTableType ==
  ASSUME NEW table \in Table
  PROVE  FreeTable(table) \in Table
BY DEF FreeTable, Table, MarkAsFree, SlotRecord

\* A message takes time on the air, and the time is a number.
LEMMA AirTimeType ==
  ASSUME NEW entries \in Entries
  PROVE  AirTime(entries) \in Nat /\ AirTime(entries) > 0
<1> DEFINE count == Cardinality({s \in Slot : entries[s] # NoOwner})
<1>1. count \in Nat
  <2>1. IsFiniteSet(Slot)
    BY FS_Interval, SlotsArePositive DEF Slot
  <2>2. IsFiniteSet({s \in Slot : entries[s] # NoOwner})
    BY <2>1, FS_Subset
  <2> QED BY <2>2, FS_CardinalityType
<1>2. CASE count = 0
  BY <1>2, TimesAreNatural DEF AirTime
<1>3. CASE count # 0
  <2>1. count * EntryTime \in Nat /\ count * EntryTime > 0
    <3> HIDE DEF count
    <3> QED BY <1>1, <1>3, TimesAreNatural
  <2> QED BY <2>1, <1>3 DEF AirTime
<1> QED BY <1>2, <1>3

-----------------------------------------------------------------------------
(* Types *)

\* Every controller starts with well-typed fields.
LEMMA InitType == Init => TypeOK
<1> SUFFICES ASSUME Init PROVE TypeOK
  OBVIOUS
<1>1. slotTable \in [Node -> Table]
  BY DEF Init, Table, SlotRecord, Owner
<1>2. window \in [Node -> Windows]
  BY ZeroIsSlot DEF Init, Windows, Session
<1> QED BY <1>1, <1>2, ZeroIsSlot, TimesAreNatural DEF Init, TypeOK, Session

\* The next event of a controller is a slot, a natural time ahead, and later
\* than now.
LEMMA RescheduleType ==
  ASSUME TypeOK, NEW n \in Node, Reschedule(n)
  PROVE  /\ slotNum' \in [Node -> Slot]
         /\ timer' \in [Node -> Nat]
         /\ timer'[n] > 0
<1>1. SlotLength(n) \in Nat /\ SlotLength(n) > 0
  BY TimesAreNatural DEF SlotLength
<1>2. (IF FrameEnds(n) THEN 0 ELSE slotNum[n] + 1) \in Slot
  BY SlotsArePositive DEF TypeOK, FrameEnds, Slot
<1>3. GaurdTime + SlotLength(n) + (IF FrameEnds(n) THEN InterFrameTime ELSE 0) \in Nat
  BY <1>1, TimesAreNatural
<1>4. GaurdTime + SlotLength(n) + (IF FrameEnds(n) THEN InterFrameTime ELSE 0) > 0
  BY <1>1, TimesAreNatural
<1> QED BY <1>2, <1>3, <1>4 DEF Reschedule, TypeOK

LEMMA GrantType ==
  ASSUME TypeOK, NEW n \in Node, Grant(n)
  PROVE  window' \in [Node -> Windows]
<1>1. SlotLength(n) \in Nat
  BY TimesAreNatural DEF SlotLength
<1>2. [session |-> sessionState[n], slot |-> slotNum[n], left |-> SlotLength(n)] \in Windows
  BY <1>1 DEF TypeOK, Windows
<1> QED BY <1>2 DEF Grant, TypeOK

\* Every step of a controller keeps the types.
LEMMA ScheduleType ==
  ASSUME TypeOK, NEW n \in Node, ScheduleTdmaSession(n)
  PROVE  TypeOK'
<1>1. CASE StaticSlot(n)
  <2>1. staticCount' \in [Node -> Nat]
    BY <1>1 DEF StaticSlot, TypeOK
  <2>2. window' \in [Node -> Windows]
    BY <1>1, GrantType DEF StaticSlot, GrantIf, TypeOK
  <2>3. slotNum' \in [Node -> Slot] /\ timer' \in [Node -> Nat]
    BY <1>1, RescheduleType DEF StaticSlot
  <2> QED BY <1>1, <2>1, <2>2, <2>3 DEF StaticSlot, TypeOK, airVars
<1>2. CASE LastStaticSlot(n)
  <2>1. staticCount' \in [Node -> Nat] /\ sessionState' \in [Node -> Session]
    BY <1>2 DEF LastStaticSlot, TypeOK, Session
  <2>2. window' \in [Node -> Windows]
    BY <1>2, GrantType DEF LastStaticSlot, GrantIf, TypeOK
  <2>3. slotNum' \in [Node -> Slot] /\ timer' \in [Node -> Nat]
    BY <1>2, RescheduleType DEF LastStaticSlot
  <2>4. slotTable' \in [Node -> Table]
    <3>1. CheckSlotTable(slotTable[n], n) \in Table
      BY CheckSlotTableType DEF TypeOK
    <3> QED BY <1>2, <3>1 DEF LastStaticSlot, TypeOK
  <2> QED BY <1>2, <2>1, <2>2, <2>3, <2>4 DEF LastStaticSlot, TypeOK, airVars
<1>3. CASE ReserveOther(n)
  <2>1. sessionState' \in [Node -> Session]
    BY <1>3 DEF ReserveOther, NextReserve, TypeOK, Session
  <2>2. slotNum' \in [Node -> Slot] /\ timer' \in [Node -> Nat]
    BY <1>3, RescheduleType DEF ReserveOther
  <2> QED BY <1>3, <2>1, <2>2 DEF ReserveOther, TypeOK, airVars
<1>4. CASE ReserveOwn(n)
  <2>1. sessionState' \in [Node -> Session]
    BY <1>4 DEF ReserveOwn, NextReserve, TypeOK, Session
  <2>2. slotNum' \in [Node -> Slot] /\ timer' \in [Node -> Nat]
    BY <1>4, RescheduleType DEF ReserveOwn
  <2>3. PICK wanted : LET table == ReserveSlot(slotTable[n], n, wanted)
                      IN  /\ slotTable' = [slotTable EXCEPT ![n] = table]
                          /\ StartRouteTransmission(n, SetSlotPacket(table))
    BY <1>4 DEF ReserveOwn
  <2> DEFINE table == ReserveSlot(slotTable[n], n, wanted)
             entries == SetSlotPacket(table)
  <2>4. table \in Table
    BY ReserveSlotType DEF TypeOK
  <2>5. slotTable' \in [Node -> Table]
    BY <2>3, <2>4 DEF TypeOK
  <2>6. entries \in Entries /\ AirTime(entries) \in Nat
    BY <2>4, SetSlotPacketType, AirTimeType
  <2>7. StartRouteTransmission(n, entries)
    BY <2>3
  <2>8. window' \in [Node -> Windows]
    BY <2>7, GrantType DEF StartRouteTransmission
  <2>9. routeSends' \subseteq RouteMsg
    <3> HIDE DEF entries
    <3>1. [from |-> n, left |-> AirTime(entries), entries |-> entries] \in RouteMsg
      BY <2>6 DEF RouteMsg
    <3> QED BY <2>7, <3>1 DEF StartRouteTransmission, TypeOK
  <2> QED BY <1>4, <2>1, <2>2, <2>5, <2>8, <2>9 DEF ReserveOwn, TypeOK
<1>5. CASE DynamicSlot(n)
  <2>1. sessionState' \in [Node -> Session]
    BY <1>5 DEF DynamicSlot, TypeOK, Session
  <2>2. slotTable' \in [Node -> Table]
    <3>1. FreeTable(slotTable[n]) \in Table
      BY FreeTableType DEF TypeOK
    <3> QED BY <1>5, <3>1 DEF DynamicSlot, TypeOK
  <2>3. window' \in [Node -> Windows]
    BY <1>5, GrantType DEF DynamicSlot, GrantIf, TypeOK
  <2>4. slotNum' \in [Node -> Slot] /\ timer' \in [Node -> Nat]
    BY <1>5, RescheduleType DEF DynamicSlot
  <2> QED BY <1>5, <2>1, <2>2, <2>3, <2>4 DEF DynamicSlot, TypeOK, airVars
<1> QED BY <1>1, <1>2, <1>3, <1>4, <1>5 DEF ScheduleTdmaSession

\* So do the message events and the clock.
LEMMA SendRouteDownType ==
  ASSUME TypeOK, NEW msg \in routeSends, SendRouteDown(msg)
  PROVE  TypeOK'
<1>0. PICK type \in HeaderTypes, heard \in Reach[msg.from] :
        \E delay \in [heard -> PropagationTimes] :
          inFlight' = inFlight \cup
            {[from |-> msg.from, to |-> r, left |-> delay[r], type |-> type,
              entries |-> msg.entries] : r \in heard}
  BY DEF SendRouteDown
<1>1. PICK delay \in [heard -> PropagationTimes] :
        inFlight' = inFlight \cup
          {[from |-> msg.from, to |-> r, left |-> delay[r], type |-> type,
            entries |-> msg.entries] : r \in heard}
  BY <1>0
<1>2. msg \in RouteMsg
  BY DEF TypeOK
<1>3. heard \subseteq Node
  BY <1>2, ReachIsOtherNodes DEF RouteMsg
<1>4. ASSUME NEW r \in heard
      PROVE  [from |-> msg.from, to |-> r, left |-> delay[r], type |-> type,
              entries |-> msg.entries] \in FlightMsg
  <2>1. delay[r] \in Nat
    BY TimesAreNatural
  <2> QED BY <1>2, <1>3, <2>1, HeaderTypesKnown DEF RouteMsg, FlightMsg
<1>5. inFlight' \subseteq FlightMsg
  BY <1>1, <1>4 DEF TypeOK
<1>6. routeSends' \subseteq RouteMsg
  BY DEF SendRouteDown, TypeOK
<1> QED BY <1>5, <1>6 DEF SendRouteDown, TypeOK, frameVars

LEMMA ReceiveSlotMsgType ==
  ASSUME TypeOK, NEW msg \in inFlight, ReceiveSlotMsg(msg)
  PROVE  TypeOK'
<1>1. msg \in FlightMsg
  BY DEF TypeOK
<1>2. MergeEntries(slotTable[msg.to], msg.entries) \in Table
  BY <1>1, MergeEntriesType DEF TypeOK, FlightMsg
<1>3. slotTable' \in [Node -> Table]
  BY <1>1, <1>2 DEF ReceiveSlotMsg, TypeOK
<1>4. inFlight' \subseteq FlightMsg
  BY DEF ReceiveSlotMsg, TypeOK
<1> QED BY <1>3, <1>4 DEF ReceiveSlotMsg, TypeOK, frameVars

LEMMA AdvanceType ==
  ASSUME TypeOK, Advance
  PROVE  TypeOK'
<1>1. PICK d \in PendingTimes :
        /\ d > 0 /\ \A e \in PendingTimes : d <= e
        /\ timer' = [n \in Node |-> timer[n] - d]
        /\ window' = [n \in Node |-> [window[n] EXCEPT !.left = IF @ > d THEN @ - d ELSE 0]]
        /\ routeSends' = {[msg EXCEPT !.left = @ - d] : msg \in routeSends}
        /\ inFlight' = {[msg EXCEPT !.left = @ - d] : msg \in inFlight}
        /\ UNCHANGED <<sessionState, staticCount, slotNum, slotTable>>
  BY DEF Advance
<1>2. d \in Nat
  BY DEF PendingTimes, TypeOK, RouteMsg, FlightMsg
<1>3. timer' \in [Node -> Nat]
  <2>1. \A n \in Node : timer[n] \in Nat /\ d <= timer[n]
    BY <1>1 DEF PendingTimes, TypeOK
  <2> QED BY <1>1, <1>2, <2>1
<1>4. window' \in [Node -> Windows]
  <2>1. \A n \in Node : [window[n] EXCEPT !.left = IF @ > d THEN @ - d ELSE 0] \in Windows
    BY <1>2 DEF TypeOK, Windows
  <2> QED BY <1>1, <2>1
<1>5. routeSends' \subseteq RouteMsg
  <2>1. \A msg \in routeSends : msg \in RouteMsg /\ d <= msg.left
    BY <1>1 DEF PendingTimes, TypeOK
  <2>2. \A msg \in routeSends : [msg EXCEPT !.left = @ - d] \in RouteMsg
    BY <1>2, <2>1 DEF RouteMsg
  <2> QED BY <1>1, <2>2
<1>6. inFlight' \subseteq FlightMsg
  <2>1. \A msg \in inFlight : msg \in FlightMsg /\ d <= msg.left
    BY <1>1 DEF PendingTimes, TypeOK
  <2>2. \A msg \in inFlight : [msg EXCEPT !.left = @ - d] \in FlightMsg
    BY <1>2, <2>1 DEF FlightMsg
  <2> QED BY <1>1, <2>2
<1> QED BY <1>1, <1>3, <1>4, <1>5, <1>6 DEF TypeOK

LEMMA NextType == TypeOK /\ [Next]_vars => TypeOK'
<1> SUFFICES ASSUME TypeOK, [Next]_vars PROVE TypeOK'
  OBVIOUS
<1>1. CASE \E n \in Node : ScheduleTdmaSession(n)
  BY <1>1, ScheduleType
<1>2. CASE \E msg \in routeSends : SendRouteDown(msg)
  BY <1>2, SendRouteDownType
<1>3. CASE \E msg \in inFlight : ReceiveSlotMsg(msg)
  BY <1>3, ReceiveSlotMsgType
<1>4. CASE Advance
  BY <1>4, AdvanceType
<1>5. CASE UNCHANGED vars
  BY <1>5 DEF vars, frameVars, airVars, TypeOK
<1> QED BY <1>1, <1>2, <1>3, <1>4, <1>5 DEF Next

\* The fields of the controllers, the windows of the MACs and the messages on
\* their way keep their types, whatever is reserved, lost or misread.
THEOREM TypeCorrect == Spec => []TypeOK
BY InitType, NextType, PTL DEF Spec

-----------------------------------------------------------------------------
(***************************************************************************)
(* The inductive invariant.  At any instant some controllers have acted on *)
(* the slot that begins now and others have not: the first are exactly one *)
(* step ahead of the second.                                               *)
(***************************************************************************)
NextSession(n) ==
  IF sessionState[n] = "STATIC"
  THEN IF FrameEnds(n) /\ EntersDynamic(n) THEN "DYNAMIC" ELSE "STATIC"
  ELSE IF sessionState[n] = "RESERVE" THEN NextReserve(n)
  ELSE IF FrameEnds(n) THEN "RESERVE" ELSE "DYNAMIC"

NextCount(n) ==
  IF sessionState[n] = "STATIC" /\ FrameEnds(n) /\ DynamicInterval > 0
  THEN IF EntersDynamic(n) THEN 0 ELSE staticCount[n] + 1
  ELSE staticCount[n]

NextSlot(n) == IF FrameEnds(n) THEN 0 ELSE slotNum[n] + 1

NextTimer(n) ==
  GaurdTime + SlotLength(n) + IF FrameEnds(n) THEN InterFrameTime ELSE 0

Together(n, m) ==
  /\ timer[n] = timer[m]
  /\ slotNum[n] = slotNum[m]
  /\ sessionState[n] = sessionState[m]
  /\ staticCount[n] = staticCount[m]

\* m has acted on the slot that begins now, n has yet to act on it.
Ahead(m, n) ==
  /\ timer[n] = 0
  /\ timer[m] = NextTimer(n)
  /\ slotNum[m] = NextSlot(n)
  /\ sessionState[m] = NextSession(n)
  /\ staticCount[m] = NextCount(n)
  /\ Open(m) => window[m].session = sessionState[n] /\ window[m].slot = slotNum[n]

Steps == \A n, m \in Node : Together(n, m) \/ Ahead(n, m) \/ Ahead(m, n)

\* An open window closes before the controller acts again, and outside the
\* dynamic frame it is the slot of the node's own number.
WindowEnds == \A n \in Node : Open(n) => timer[n] > 0 /\ window[n].left <= timer[n]
WindowOwn  == \A n \in Node : Open(n) /\ window[n].session # "DYNAMIC" => window[n].slot = n

\* Windows that are open together were opened for the same slot.
WindowsMatch ==
  \A n, m \in Node : Open(n) /\ Open(m) =>
    window[n].session = window[m].session /\ window[n].slot = window[m].slot

\* A slot message leaves before the guard interval, and is heard within it.
MessagesOnTime ==
  /\ \A msg \in routeSends : timer[msg.from] > GaurdTime + msg.left
  /\ \A msg \in inFlight : timer[msg.from] > msg.left

IInv == TypeOK /\ Steps /\ WindowEnds /\ WindowOwn /\ WindowsMatch /\ MessagesOnTime

\* What a step of one controller does to its own fields.
LEMMA StepEffect ==
  ASSUME TypeOK, NEW n \in Node, ScheduleTdmaSession(n)
  PROVE  /\ timer[n] = 0
         /\ timer' = [timer EXCEPT ![n] = NextTimer(n)]
         /\ slotNum' = [slotNum EXCEPT ![n] = NextSlot(n)]
         /\ sessionState' = [sessionState EXCEPT ![n] = NextSession(n)]
         /\ staticCount' = [staticCount EXCEPT ![n] = NextCount(n)]
         /\ \/ Grant(n) /\ (sessionState[n] = "DYNAMIC" \/ slotNum[n] = n)
            \/ UNCHANGED window
         /\ inFlight' = inFlight
<1>1. timer[n] = 0
  BY DEF ScheduleTdmaSession
<1>2. CASE StaticSlot(n)
  BY <1>1, <1>2 DEF StaticSlot, Reschedule, NextTimer, NextSlot, NextSession, NextCount,
     GrantIf, IsMine, airVars, TypeOK
<1>3. CASE LastStaticSlot(n)
  BY <1>1, <1>3 DEF LastStaticSlot, Reschedule, NextTimer, NextSlot, NextSession, NextCount,
     EntersDynamic, GrantIf, IsMine, airVars, TypeOK
<1>4. CASE ReserveOther(n)
  BY <1>1, <1>4 DEF ReserveOther, Reschedule, NextTimer, NextSlot, NextSession, NextCount,
     GrantIf, IsMine, airVars, TypeOK
<1>5. CASE ReserveOwn(n)
  BY <1>1, <1>5 DEF ReserveOwn, Reschedule, NextTimer, NextSlot, NextSession, NextCount,
     StartRouteTransmission, IsMine, airVars, TypeOK
<1>6. CASE DynamicSlot(n)
  BY <1>1, <1>6 DEF DynamicSlot, Reschedule, NextTimer, NextSlot, NextSession, NextCount,
     GrantIf, airVars, TypeOK, Session
<1> QED BY <1>2, <1>3, <1>4, <1>5, <1>6 DEF ScheduleTdmaSession


\* What Grant and a step without a grant leave in the windows.
LEMMA StepWindow ==
  ASSUME IInv, NEW n \in Node, ScheduleTdmaSession(n)
  PROVE  /\ \A m \in Node \ {n} : window'[m] = window[m]
         /\ Open(n)' => /\ window'[n].session = sessionState[n]
                        /\ window'[n].slot = slotNum[n]
                        /\ window'[n].left = SlotLength(n)
                        /\ sessionState[n] = "DYNAMIC" \/ slotNum[n] = n
<1>1. CASE Grant(n) /\ (sessionState[n] = "DYNAMIC" \/ slotNum[n] = n)
  BY <1>1 DEF Grant, IInv, TypeOK
<1>2. CASE UNCHANGED window
  <2>1. ~Open(n)
    BY StepEffect DEF IInv, WindowEnds
  <2> QED BY <1>2, <2>1 DEF Open
<1> QED BY <1>1, <1>2, StepEffect DEF IInv

LEMMA NextTimerPositive ==
  ASSUME NEW n \in Node
  PROVE  /\ SlotLength(n) \in Nat /\ SlotLength(n) > 0
         /\ NextTimer(n) \in Nat
         /\ NextTimer(n) >= GaurdTime + SlotLength(n)
         /\ NextTimer(n) > 0
<1>1. SlotLength(n) \in Nat /\ SlotLength(n) > 0
  BY TimesAreNatural DEF SlotLength
<1> QED BY <1>1, TimesAreNatural DEF NextTimer

LEMMA InitInv == Init => IInv
<1> SUFFICES ASSUME Init PROVE IInv
  OBVIOUS
<1>1. TypeOK
  BY InitType
<1>2. \A n \in Node : ~Open(n)
  BY DEF Init, Open
<1>3. Steps
  BY DEF Init, Steps, Together
<1>4. MessagesOnTime
  BY DEF Init, MessagesOnTime
<1> QED BY <1>1, <1>2, <1>3, <1>4 DEF IInv, WindowEnds, WindowOwn, WindowsMatch

-----------------------------------------------------------------------------
(* A step of one controller keeps the invariant *)

\* The controller that acts catches up with those ahead, or runs ahead of those
\* that have yet to act.
LEMMA ScheduleSteps ==
  ASSUME IInv, NEW n \in Node, ScheduleTdmaSession(n)
  PROVE  Steps'
<1> USE DEF IInv
<1>1. TypeOK /\ timer[n] = 0
  BY StepEffect
<1>2. ASSUME NEW m \in Node, m # n
      PROVE  Together(n, m)' \/ Ahead(n, m)'
  <2>1. /\ timer'[m] = timer[m] /\ slotNum'[m] = slotNum[m]
        /\ sessionState'[m] = sessionState[m] /\ staticCount'[m] = staticCount[m]
        /\ timer'[n] = NextTimer(n) /\ slotNum'[n] = NextSlot(n)
        /\ sessionState'[n] = NextSession(n) /\ staticCount'[n] = NextCount(n)
    BY <1>1, <1>2, StepEffect DEF TypeOK
  <2>2. CASE Together(n, m)
    <3>1. /\ NextTimer(m)' = NextTimer(n) /\ NextSlot(m)' = NextSlot(n)
          /\ NextSession(m)' = NextSession(n) /\ NextCount(m)' = NextCount(n)
      BY <2>1, <2>2 DEF Together, NextTimer, NextSlot, NextSession, NextCount,
         SlotLength, FrameEnds, EntersDynamic, NextReserve
    <3>2. Open(n)' => window'[n].session = sessionState[n] /\ window'[n].slot = slotNum[n]
      BY StepWindow
    <3> QED BY <1>1, <2>1, <2>2, <3>1, <3>2 DEF Ahead, Together
  <2>3. CASE Ahead(m, n)
    BY <2>1, <2>3 DEF Ahead, Together
  <2>4. CASE Ahead(n, m)
    BY <1>1, <2>4, NextTimerPositive DEF Ahead
  <2> QED BY <2>2, <2>3, <2>4 DEF Steps
<1>3. ASSUME NEW m \in Node, m # n, NEW k \in Node, k # n
      PROVE  Together(m, k)' \/ Ahead(m, k)' \/ Ahead(k, m)'
  <2>1. /\ timer'[m] = timer[m] /\ slotNum'[m] = slotNum[m]
        /\ sessionState'[m] = sessionState[m] /\ staticCount'[m] = staticCount[m]
        /\ timer'[k] = timer[k] /\ slotNum'[k] = slotNum[k]
        /\ sessionState'[k] = sessionState[k] /\ staticCount'[k] = staticCount[k]
        /\ window'[m] = window[m] /\ window'[k] = window[k]
    BY <1>1, <1>3, StepEffect, StepWindow DEF TypeOK
  <2> QED BY <2>1 DEF Steps, Together, Ahead, NextTimer, NextSlot, NextSession, NextCount,
          SlotLength, FrameEnds, EntersDynamic, NextReserve, Open
<1>4. Together(n, n)'
  BY DEF Together
<1>5. \A m, k \in Node : Together(m, k)' => Together(k, m)'
  BY DEF Together
<1> QED BY <1>2, <1>3, <1>4, <1>5 DEF Steps

LEMMA ScheduleWindows ==
  ASSUME IInv, NEW n \in Node, ScheduleTdmaSession(n)
  PROVE  WindowEnds' /\ WindowOwn' /\ WindowsMatch'
<1> USE DEF IInv
<1>1. /\ timer[n] = 0 /\ timer'[n] = NextTimer(n)
      /\ \A m \in Node \ {n} : timer'[m] = timer[m]
  BY StepEffect DEF TypeOK
<1>2. \A m \in Node \ {n} : window'[m] = window[m] /\ (Open(m)' <=> Open(m))
  BY StepWindow DEF Open
<1>3. Open(n)' => /\ window'[n].session = sessionState[n]
                  /\ window'[n].slot = slotNum[n]
                  /\ window'[n].left = SlotLength(n)
                  /\ sessionState[n] = "DYNAMIC" \/ slotNum[n] = n
  BY StepWindow
<1>4. WindowEnds'
  <2>1. Open(n)' => timer'[n] > 0 /\ window'[n].left <= timer'[n]
    BY <1>1, <1>3, NextTimerPositive, TimesAreNatural
  <2> QED BY <1>1, <1>2, <2>1 DEF WindowEnds
<1>5. WindowOwn'
  BY <1>2, <1>3 DEF WindowOwn
<1>6. WindowsMatch'
  <2>1. ASSUME NEW m \in Node \ {n}, Open(m), Open(n)'
        PROVE  window[m].session = sessionState[n] /\ window[m].slot = slotNum[n]
    <3>1. timer[m] > 0
      BY <2>1 DEF WindowEnds
    <3>2. Ahead(m, n)
      BY <1>1, <3>1 DEF Steps, Together, Ahead
    <3> QED BY <2>1, <3>2 DEF Ahead
  <2> QED BY <1>2, <1>3, <2>1 DEF WindowsMatch
<1> QED BY <1>4, <1>5, <1>6


\* A message that fits leaves before the guard interval of its slot begins.
LEMMA ScheduleMessages ==
  ASSUME IInv, NEW n \in Node, ScheduleTdmaSession(n)
  PROVE  MessagesOnTime'
<1> USE DEF IInv
<1>1. /\ timer[n] = 0 /\ timer'[n] = NextTimer(n) /\ inFlight' = inFlight
      /\ \A m \in Node \ {n} : timer'[m] = timer[m]
  BY StepEffect DEF TypeOK
<1>2. \A msg \in inFlight : msg.from # n /\ msg.from \in Node
  BY <1>1 DEF MessagesOnTime, TypeOK, FlightMsg
<1>3. \A msg \in routeSends : msg.from # n /\ msg.from \in Node
  <2>1. \A msg \in routeSends : msg.from \in Node /\ msg.left \in Nat
    BY DEF TypeOK, RouteMsg
  <2> QED BY <1>1, <2>1, TimesAreNatural DEF MessagesOnTime
<1>4. \A msg \in inFlight' : timer'[msg.from] > msg.left
  BY <1>1, <1>2 DEF MessagesOnTime
<1>5. ASSUME NEW msg \in routeSends', msg \notin routeSends
      PROVE  timer'[msg.from] > GaurdTime + msg.left
  <2>1. ReserveOwn(n)
    BY <1>5 DEF ScheduleTdmaSession, StaticSlot, LastStaticSlot, ReserveOther, DynamicSlot,
       airVars
  <2>2. PICK entries : /\ msg = [from |-> n, left |-> AirTime(entries), entries |-> entries]
                       /\ Fits(entries)
    BY <2>1, <1>5 DEF ReserveOwn, StartRouteTransmission
  <2>3. msg.from = n /\ msg.left < ReserveSlotTime
    BY <2>2 DEF Fits
  <2>4. sessionState[n] = "RESERVE"
    BY <2>1 DEF ReserveOwn
  <2>5. NextTimer(n) >= GaurdTime + ReserveSlotTime
    BY <2>4, NextTimerPositive DEF SlotLength
  <2>6. msg.left \in Nat
    <3>1. TypeOK'
      BY ScheduleType
    <3> QED BY <3>1, <1>5 DEF TypeOK, RouteMsg
  <2> QED BY <1>1, <2>3, <2>5, <2>6, NextTimerPositive, TimesAreNatural
<1>6. \A msg \in routeSends' : timer'[msg.from] > GaurdTime + msg.left
  BY <1>1, <1>3, <1>5 DEF MessagesOnTime
<1> QED BY <1>4, <1>6 DEF MessagesOnTime

-----------------------------------------------------------------------------
(* Messages and the clock keep the invariant *)

LEMMA SendRouteDownInv ==
  ASSUME IInv, NEW msg \in routeSends, SendRouteDown(msg)
  PROVE  IInv'
<1>1. TypeOK'
  BY SendRouteDownType DEF IInv
<1>2. UNCHANGED <<frameVars, window>>
  BY DEF SendRouteDown
<1>3. Steps' /\ WindowEnds' /\ WindowOwn' /\ WindowsMatch'
  BY <1>2 DEF IInv, frameVars, Steps, Together, Ahead, NextTimer, NextSlot, NextSession,
     NextCount, SlotLength, FrameEnds, EntersDynamic, NextReserve, Open, WindowEnds,
     WindowOwn, WindowsMatch
<1>4. MessagesOnTime'
  <2>1. timer' = timer /\ msg \in RouteMsg /\ timer[msg.from] > GaurdTime
    BY <1>2, TimesAreNatural DEF frameVars, IInv, MessagesOnTime, TypeOK, RouteMsg, SendRouteDown
  <2>2. PICK heard \in Reach[msg.from], type \in HeaderTypes :
          \E delay \in [heard -> PropagationTimes] :
            inFlight' = inFlight \cup
              {[from |-> msg.from, to |-> r, left |-> delay[r], type |-> type,
                entries |-> msg.entries] : r \in heard}
    BY DEF SendRouteDown
  <2>3. PICK delay \in [heard -> PropagationTimes] :
          inFlight' = inFlight \cup
            {[from |-> msg.from, to |-> r, left |-> delay[r], type |-> type,
              entries |-> msg.entries] : r \in heard}
    BY <2>2
  <2>4. ASSUME NEW r \in heard PROVE timer[msg.from] > delay[r]
    <3>1. delay[r] \in Nat /\ delay[r] <= GaurdTime
      BY TimesAreNatural, GaurdCoversPropagation
    <3>2. timer[msg.from] \in Nat
      BY <2>1 DEF IInv, TypeOK, RouteMsg
    <3> QED BY <2>1, <3>1, <3>2, TimesAreNatural
  <2>5. \A m \in inFlight' : timer[m.from] > m.left
    BY <2>3, <2>4 DEF IInv, MessagesOnTime
  <2>6. routeSends' \subseteq routeSends
    BY DEF SendRouteDown
  <2> QED BY <2>1, <2>5, <2>6 DEF IInv, MessagesOnTime
<1> QED BY <1>1, <1>3, <1>4 DEF IInv

LEMMA ReceiveSlotMsgInv ==
  ASSUME IInv, NEW msg \in inFlight, ReceiveSlotMsg(msg)
  PROVE  IInv'
<1>1. TypeOK'
  BY ReceiveSlotMsgType DEF IInv
<1>2. UNCHANGED <<frameVars, window, routeSends>> /\ inFlight' \subseteq inFlight
  BY DEF ReceiveSlotMsg
<1>3. Steps' /\ WindowEnds' /\ WindowOwn' /\ WindowsMatch'
  BY <1>2 DEF IInv, frameVars, Steps, Together, Ahead, NextTimer, NextSlot, NextSession,
     NextCount, SlotLength, FrameEnds, EntersDynamic, NextReserve, Open, WindowEnds,
     WindowOwn, WindowsMatch
<1>4. MessagesOnTime'
  BY <1>2 DEF IInv, frameVars, MessagesOnTime
<1> QED BY <1>1, <1>3, <1>4 DEF IInv

\* The clock moves only when no controller is due, so all of them are together.
LEMMA AdvanceInv ==
  ASSUME IInv, Advance
  PROVE  IInv'
<1> USE DEF IInv
<1>1. TypeOK'
  BY AdvanceType
<1>2. PICK d \in PendingTimes :
        /\ d > 0 /\ \A e \in PendingTimes : d <= e
        /\ timer' = [n \in Node |-> timer[n] - d]
        /\ window' = [n \in Node |-> [window[n] EXCEPT !.left = IF @ > d THEN @ - d ELSE 0]]
        /\ routeSends' = {[msg EXCEPT !.left = @ - d] : msg \in routeSends}
        /\ inFlight' = {[msg EXCEPT !.left = @ - d] : msg \in inFlight}
        /\ UNCHANGED <<sessionState, staticCount, slotNum, slotTable>>
  BY DEF Advance
<1>3. d \in Nat
  BY DEF PendingTimes, TypeOK, RouteMsg, FlightMsg
<1>4. \A n \in Node : timer[n] \in Nat /\ timer[n] >= d /\ timer'[n] = timer[n] - d
  BY <1>2 DEF PendingTimes, TypeOK
<1>5. \A n, m \in Node : Together(n, m)
  BY <1>2, <1>3, <1>4 DEF Steps, Ahead
<1>6. Steps'
  <2>1. \A n, m \in Node : Together(n, m)'
    BY <1>2, <1>4, <1>5 DEF Together
  <2> QED BY <2>1 DEF Steps
<1>7. \A n \in Node : /\ window'[n].session = window[n].session
                      /\ window'[n].slot = window[n].slot
                      /\ window'[n].left = IF window[n].left > d THEN window[n].left - d ELSE 0
  BY <1>2 DEF TypeOK, Windows
<1>8. \A n \in Node : window[n].left \in Nat
  BY DEF TypeOK, Windows
<1>9. \A n \in Node : Open(n)' => Open(n) /\ window'[n].left = window[n].left - d
  BY <1>3, <1>7, <1>8 DEF Open
<1>10. WindowEnds'
  BY <1>3, <1>4, <1>8, <1>9 DEF WindowEnds, Open
<1>11. WindowOwn' /\ WindowsMatch'
  BY <1>7, <1>9 DEF WindowOwn, WindowsMatch
<1>12. MessagesOnTime'
  <2>1. \A msg \in routeSends : /\ msg.from \in Node /\ msg.left \in Nat
                                /\ [msg EXCEPT !.left = @ - d].from = msg.from
                                /\ [msg EXCEPT !.left = @ - d].left = msg.left - d
    BY DEF TypeOK, RouteMsg
  <2>2. \A msg \in inFlight : /\ msg.from \in Node /\ msg.left \in Nat
                              /\ [msg EXCEPT !.left = @ - d].from = msg.from
                              /\ [msg EXCEPT !.left = @ - d].left = msg.left - d
    BY DEF TypeOK, FlightMsg
  <2>3. \A msg \in routeSends : timer'[msg.from] > GaurdTime + (msg.left - d)
    BY <1>3, <1>4, <2>1, TimesAreNatural DEF MessagesOnTime
  <2>4. \A msg \in inFlight : timer'[msg.from] > msg.left - d
    BY <1>3, <1>4, <2>2 DEF MessagesOnTime
  <2>5. ASSUME NEW m \in routeSends'
        PROVE  timer'[m.from] > GaurdTime + m.left
    <3>1. PICK msg \in routeSends : m = [msg EXCEPT !.left = @ - d]
      BY <1>2
    <3>2. m.from = msg.from /\ m.left = msg.left - d
      BY <2>1, <3>1
    <3> QED BY <2>3, <3>2
  <2>6. ASSUME NEW m \in inFlight'
        PROVE  timer'[m.from] > m.left
    <3>1. PICK msg \in inFlight : m = [msg EXCEPT !.left = @ - d]
      BY <1>2
    <3>2. m.from = msg.from /\ m.left = msg.left - d
      BY <2>2, <3>1
    <3> QED BY <2>4, <3>2
  <2> QED BY <2>5, <2>6 DEF MessagesOnTime
<1> QED BY <1>1, <1>6, <1>10, <1>11, <1>12

LEMMA NextInv == IInv /\ [Next]_vars => IInv'
<1> SUFFICES ASSUME IInv, [Next]_vars PROVE IInv'
  OBVIOUS
<1>1. CASE \E n \in Node : ScheduleTdmaSession(n)
  BY <1>1, ScheduleType, ScheduleSteps, ScheduleWindows, ScheduleMessages DEF IInv
<1>2. CASE \E msg \in routeSends : SendRouteDown(msg)
  BY <1>2, SendRouteDownInv
<1>3. CASE \E msg \in inFlight : ReceiveSlotMsg(msg)
  BY <1>3, ReceiveSlotMsgInv
<1>4. CASE Advance
  BY <1>4, AdvanceInv
<1>5. CASE UNCHANGED vars
  BY <1>5 DEF vars, frameVars, airVars, IInv, TypeOK, Steps, Together, Ahead, NextTimer,
     NextSlot, NextSession, NextCount, SlotLength, FrameEnds, EntersDynamic, NextReserve,
     Open, WindowEnds, WindowOwn, WindowsMatch, MessagesOnTime
<1> QED BY <1>1, <1>2, <1>3, <1>4, <1>5 DEF Next

LEMMA Invariance == Spec => []IInv
BY InitInv, NextInv, PTL DEF Spec

-----------------------------------------------------------------------------
(* What the invariant gives *)

\* The independent chains of slot events never drift apart, for any number of
\* nodes and slots and any timing, although nothing synchronizes them.
THEOREM ControllersInStep == Spec => []InStep
<1>1. IInv => InStep
  BY DEF IInv, Steps, Together, Ahead, InStep
<1> QED BY <1>1, Invariance, PTL

\* Static and reservation slots have one transmitter, whatever the slot tables
\* say and whatever messages are lost.
THEOREM NoContention == Spec => []ContentionFree
<1>1. IInv => ContentionFree
  BY DEF IInv, WindowOwn, WindowsMatch, ContentionFree
<1> QED BY <1>1, Invariance, PTL

\* No window and no slot message outlives its slot.
THEOREM SlotsSeparated == Spec => []AirClear
<1>1. ASSUME IInv, \A n \in Node : timer[n] = 0
      PROVE  routeSends = {} /\ inFlight = {} /\ \A n \in Node : ~Open(n)
  <2>1. \A msg \in routeSends : msg.from \in Node /\ msg.left \in Nat
    BY <1>1 DEF IInv, TypeOK, RouteMsg
  <2>2. \A msg \in inFlight : msg.from \in Node /\ msg.left \in Nat
    BY <1>1 DEF IInv, TypeOK, FlightMsg
  <2>3. routeSends = {}
    BY <1>1, <2>1, TimesAreNatural DEF IInv, MessagesOnTime
  <2>4. inFlight = {}
    BY <1>1, <2>2 DEF IInv, MessagesOnTime
  <2> QED BY <1>1, <2>3, <2>4 DEF IInv, WindowEnds
<1>2. IInv => AirClear
  BY <1>1 DEF AirClear
<1> QED BY <1>2, Invariance, PTL

-----------------------------------------------------------------------------
(* The operators on slot tables *)

\* A set of slots that is not empty has a least one.
LEMMA LeastIsMember ==
  ASSUME NEW S \in SUBSET Nat, S # {}
  PROVE  Least(S) \in S
<1>1. PICK s \in S : \A t \in S : ~(<<t, s>> \in OpToRel(<, Nat))
  BY NatLessThanWellFounded, WFMin
<1>2. \A t \in S : ~(t < s)
  BY <1>1 DEF OpToRel
<1>3. \A t \in S : s <= t
  BY <1>2
<1> QED BY <1>3 DEF Least

\* GetFreeSlot finds a free slot, or none.
LEMMA FoundIsFree ==
  ASSUME NoFreeSlot \notin Slot, NEW table \in Table, NEW index,
         GetFreeSlot(table, index) \in Slot
  PROVE  table[GetFreeSlot(table, index)].state = "FREE"
<1> DEFINE free == FreeSlots(table)
           from == {s \in free : s >= index}
<1>1. free \in SUBSET Nat /\ from \in SUBSET Nat
  BY ZeroIsSlot DEF FreeSlots
<1>2. \A s \in free : table[s].state = "FREE"
  BY DEF FreeSlots
<1>3. from # {} => Least(from) \in free
  BY <1>1, LeastIsMember
<1>4. free # {} => Least(free) \in free
  BY <1>1, LeastIsMember
<1>5. GetFreeSlot(table, index) = IF from # {} THEN Least(from)
                                  ELSE IF free # {} THEN Least(free) ELSE NoFreeSlot
  BY DEF GetFreeSlot
<1> HIDE DEF free, from
<1> QED BY <1>2, <1>3, <1>4, <1>5

\* The table differs only by slots that n has taken.
Took(table, other, n) ==
  \A s \in Slot : other[s] = table[s] \/ other[s] = MarkAsAllocated(n)

\* The table differs only by free slots that n has taken.
TookFree(table, other, n) ==
  \A s \in Slot :
    \/ other[s] = table[s]
    \/ table[s].state = "FREE" /\ other[s] = MarkAsAllocated(n)

LEMMA TakeSlotTakes ==
  ASSUME NEW table \in Table, NEW n \in Node, NEW index
  PROVE  Took(table, TakeSlot(table, n, index), n)
<1> DEFINE found == GetFreeSlot(table, index)
<1>1. CASE found \in Slot /\ found # SlotsOver
  <2>1. TakeSlot(table, n, index) = [table EXCEPT ![found] = MarkAsAllocated(n)]
    BY <1>1 DEF TakeSlot
  <2> HIDE DEF found
  <2> QED BY <2>1 DEF Took, Table
<1>2. CASE ~(found \in Slot /\ found # SlotsOver)
  <2>1. TakeSlot(table, n, index) = table
    BY <1>2 DEF TakeSlot
  <2> QED BY <2>1 DEF Took
<1> QED BY <1>1, <1>2

LEMMA ReserveSlotTakes ==
  ASSUME NEW table \in Table, NEW n \in Node, NEW wanted
  PROVE  Took(table, ReserveSlot(table, n, wanted), n)
<1> DEFINE once == TakeSlot(table, n, n)
           twice == TakeSlot(once, n, (n + 1) % TotalSlots)
<1>1. once \in Table /\ Took(table, once, n)
  BY TakeSlotType, TakeSlotTakes
<1>2. Took(once, twice, n)
  BY <1>1, TakeSlotTakes
<1>3. ReserveSlot(table, n, wanted) \in {table, once, twice}
  BY DEF ReserveSlot
<1> HIDE DEF once, twice
<1>4. Took(table, twice, n)
  BY <1>1, <1>2 DEF Took
<1>5. Took(table, table, n)
  BY DEF Took
<1> QED BY <1>1, <1>3, <1>4, <1>5

LEMMA TakeSlotTakesFree ==
  ASSUME NoFreeSlot \notin Slot, NEW table \in Table, NEW n \in Node, NEW index
  PROVE  TookFree(table, TakeSlot(table, n, index), n)
<1> DEFINE found == GetFreeSlot(table, index)
<1>1. CASE found \in Slot /\ found # SlotsOver
  <2>1. TakeSlot(table, n, index) = [table EXCEPT ![found] = MarkAsAllocated(n)]
    BY <1>1 DEF TakeSlot
  <2>2. table[found].state = "FREE"
    BY <1>1, FoundIsFree
  <2> HIDE DEF found
  <2> QED BY <2>1, <2>2 DEF TookFree, Table
<1>2. CASE ~(found \in Slot /\ found # SlotsOver)
  <2>1. TakeSlot(table, n, index) = table
    BY <1>2 DEF TakeSlot
  <2> QED BY <2>1 DEF TookFree
<1> QED BY <1>1, <1>2

LEMMA ReserveSlotTakesFree ==
  ASSUME NoFreeSlot \notin Slot, NEW table \in Table, NEW n \in Node, NEW wanted
  PROVE  TookFree(table, ReserveSlot(table, n, wanted), n)
<1> DEFINE once == TakeSlot(table, n, n)
           twice == TakeSlot(once, n, (n + 1) % TotalSlots)
<1>1. once \in Table /\ TookFree(table, once, n)
  BY TakeSlotType, TakeSlotTakesFree
<1>2. TookFree(once, twice, n)
  BY <1>1, TakeSlotTakesFree
<1>3. ReserveSlot(table, n, wanted) \in {table, once, twice}
  BY DEF ReserveSlot
<1> HIDE DEF once, twice
<1>4. TookFree(table, twice, n)
  BY <1>1, <1>2 DEF TookFree
<1>5. TookFree(table, table, n)
  BY DEF TookFree
<1> QED BY <1>1, <1>3, <1>4, <1>5

LEMMA CheckSlotTableTakesFree ==
  ASSUME NEW table \in Table, NEW n \in Node
  PROVE  TookFree(table, CheckSlotTable(table, n), n)
BY DEF CheckSlotTable, TookFree, Table

\* What a table that n has taken slots in says is reserved.
LEMMA TakenReserved ==
  ASSUME NEW table, NEW other, NEW n \in Node, Took(table, other, n), NEW s \in Slot
  PROVE  \/ other[s] = table[s] /\ SetSlotPacket(other)[s] = SetSlotPacket(table)[s]
         \/ other[s] = MarkAsAllocated(n) /\ SetSlotPacket(other)[s] = n
BY DEF Took, SetSlotPacket, MarkAsAllocated

\* A free table reserves nothing, and still names the owners.
LEMMA FreedReserved ==
  ASSUME NEW table \in Table, NEW s \in Slot
  PROVE  /\ SetSlotPacket(FreeTable(table))[s] = NoOwner
         /\ FreeTable(table)[s].owner = table[s].owner
         /\ FreeTable(table)[s].state = "FREE"
BY DEF FreeTable, SetSlotPacket, MarkAsFree, Table, SlotRecord

\* A table into which a message was merged.
LEMMA MergedReserved ==
  ASSUME NEW table \in Table, NEW entries \in Entries, NEW s \in Slot
  PROVE  /\ SetSlotPacket(MergeEntries(table, entries))[s] =
              IF entries[s] # NoOwner THEN entries[s] ELSE SetSlotPacket(table)[s]
         /\ entries[s] # NoOwner => MergeEntries(table, entries)[s] = MarkAsAllocated(entries[s])
         /\ entries[s] = NoOwner => MergeEntries(table, entries)[s] = table[s]
BY DEF SetSlotPacket, MergeEntries, MarkAsAllocated

-----------------------------------------------------------------------------
(* The invariant of the slot tables, whoever hears what *)

\* What n's table says is reserved, as its slot message would.
Reserved(n) == SetSlotPacket(slotTable[n])

AllocatedOwned ==
  \A n \in Node : \A s \in Slot :
    slotTable[n][s].state = "ALLOCATED" => slotTable[n][s].owner # NoOwner

Messages == routeSends \cup inFlight

Settled(n) == sessionState[n] # "DYNAMIC"

\* m has freed its table at the end of the dynamic frame, n has yet to.
Freed(n, m) == sessionState[n] = "DYNAMIC" /\ sessionState[m] = "RESERVE"

\* While a node has yet to act on the slot that begins now, nothing is on its
\* way but what the node of this reservation slot has just announced.
NothingEarly ==
  \A n \in Node : timer[n] = 0 =>
    /\ inFlight = {}
    /\ \A msg \in routeSends :
         msg.left > 0 /\ msg.from = slotNum[n] /\ sessionState[n] = "RESERVE"

\* A message says what its sender's table still says, and nobody else's is on
\* its way.
MessagesCurrent ==
  \A msg \in Messages :
    /\ msg.entries = Reserved(msg.from)
    /\ \A other \in Messages : other.from = msg.from
    /\ \A m \in Node : Settled(m)

NotToSender == \A msg \in inFlight : msg.to # msg.from

\* A reservation frame begins with empty tables.
BeginsEmpty ==
  \A n \in Node : sessionState[n] = "RESERVE" /\ slotNum[n] = 0 =>
    \A s \in Slot : Reserved(n)[s] = NoOwner

\* Whoever is said to have reserved a slot has not got it free.
OwnersTook ==
  \A n, o \in Node : \A s \in Slot :
    Reserved(n)[s] = o => Reserved(o)[s] # NoOwner \/ Freed(n, o)

ChannelInv ==
  AllocatedOwned /\ NothingEarly /\ MessagesCurrent /\ NotToSender /\ BeginsEmpty /\ OwnersTook

CInv == IInv /\ ChannelInv

LEMMA ReservedType ==
  ASSUME TypeOK, NEW n \in Node
  PROVE  /\ slotTable[n] \in Table /\ Reserved(n) \in Entries
         /\ \A s \in Slot : /\ slotTable[n][s] \in SlotRecord
                            /\ Reserved(n)[s] # NoOwner => Reserved(n)[s] \in Node
                            /\ Reserved(n)[s] # NoOwner => slotTable[n][s].owner = Reserved(n)[s]
                            /\ Reserved(n)[s] # NoOwner => slotTable[n][s].state = "ALLOCATED"
<1>1. slotTable[n] \in Table
  BY DEF TypeOK
<1>2. Reserved(n) \in Entries
  BY <1>1, SetSlotPacketType DEF Reserved
<1>3. \A s \in Slot : Reserved(n)[s] # NoOwner =>
        slotTable[n][s].owner = Reserved(n)[s] /\ slotTable[n][s].state = "ALLOCATED"
  BY DEF Reserved, SetSlotPacket
<1> QED BY <1>1, <1>2, <1>3 DEF Table, Entries, Owner

\* An allocated slot is reserved by the owner it names.
LEMMA AllocatedReserved ==
  ASSUME AllocatedOwned, NEW n \in Node, NEW s \in Slot, slotTable[n][s].state = "ALLOCATED"
  PROVE  Reserved(n)[s] = slotTable[n][s].owner /\ Reserved(n)[s] # NoOwner
BY DEF AllocatedOwned, Reserved, SetSlotPacket

-----------------------------------------------------------------------------
(* A step of one controller *)

\* While n is due nothing is heard, the others are with n or have acted, and
\* what is on its way was sent by the node of this reservation slot.
LEMMA WhenDue ==
  ASSUME IInv, NothingEarly, NEW n \in Node, timer[n] = 0
  PROVE  /\ inFlight = {}
         /\ \A m \in Node : Together(m, n) \/ Ahead(m, n)
         /\ \A m \in Node : timer[m] = 0 => Together(m, n)
         /\ \A msg \in routeSends :
              msg.from = slotNum[n] /\ msg.from # n /\ sessionState[n] = "RESERVE"
         /\ sessionState[n] = "RESERVE" => \A m \in Node : Settled(m)
<1>1. \A m \in Node : Together(m, n) \/ Ahead(m, n)
  BY NextTimerPositive DEF IInv, Steps, Together, Ahead
<1>2. \A m \in Node : timer[m] = 0 => Together(m, n)
  BY <1>1, NextTimerPositive DEF Ahead
<1>3. \A msg \in routeSends : msg.from # n
  BY TimesAreNatural DEF IInv, TypeOK, RouteMsg, MessagesOnTime
<1>4. sessionState[n] = "RESERVE" => \A m \in Node : Settled(m)
  BY <1>1 DEF Together, Ahead, NextSession, NextReserve, Settled
<1> QED BY <1>1, <1>2, <1>3, <1>4 DEF NothingEarly

\* Within a frame the next slot is not the first.
LEMMA LaterSlot ==
  ASSUME IInv, NEW n \in Node, NextSlot(n) = 0
  PROVE  FrameEnds(n)
<1>1. slotNum[n] \in Nat
  BY ZeroIsSlot DEF IInv, TypeOK
<1>2. slotNum[n] + 1 # 0
  BY <1>1
<1> QED BY <1>2 DEF NextSlot

\* The fields that the tables depend on, of the node that acts and the others.
LEMMA OthersKeep ==
  ASSUME IInv, NEW n \in Node, ScheduleTdmaSession(n)
  PROVE  /\ timer[n] = 0 /\ timer'[n] > 0
         /\ sessionState'[n] = NextSession(n) /\ slotNum'[n] = NextSlot(n)
         /\ \A m \in Node \ {n} : /\ timer'[m] = timer[m] /\ slotNum'[m] = slotNum[m]
                                  /\ sessionState'[m] = sessionState[m]
BY StepEffect, NextTimerPositive DEF IInv, TypeOK

\* A controller takes slots, or frees its table after the dynamic frame.
LEMMA ScheduleTables ==
  ASSUME IInv, NEW n \in Node, ScheduleTdmaSession(n)
  PROVE  /\ \A m \in Node \ {n} : slotTable'[m] = slotTable[m]
         /\ \/ /\ Took(slotTable[n], slotTable'[n], n)
               /\ NoFreeSlot \notin Slot => TookFree(slotTable[n], slotTable'[n], n)
               /\ sessionState[n] = "DYNAMIC" => NextSession(n) = "DYNAMIC"
            \/ /\ slotTable'[n] = FreeTable(slotTable[n])
               /\ sessionState[n] = "DYNAMIC" /\ FrameEnds(n)
<1>1. slotTable \in [Node -> Table]
  BY DEF IInv, TypeOK
<1>2. CASE slotTable' = slotTable /\ (sessionState[n] = "DYNAMIC" => NextSession(n) = "DYNAMIC")
  BY <1>2 DEF Took, TookFree
<1>3. CASE LastStaticSlot(n)
  <2>1. slotTable' = [slotTable EXCEPT ![n] = CheckSlotTable(slotTable[n], n)]
    BY <1>3 DEF LastStaticSlot
  <2>2. TookFree(slotTable[n], slotTable'[n], n)
    BY <1>1, <2>1, CheckSlotTableTakesFree
  <2> QED BY <1>1, <1>3, <2>1, <2>2 DEF LastStaticSlot, Took, TookFree
<1>4. CASE ReserveOwn(n)
  <2>1. PICK wanted : slotTable' = [slotTable EXCEPT ![n] = ReserveSlot(slotTable[n], n, wanted)]
    BY <1>4 DEF ReserveOwn
  <2>2. /\ Took(slotTable[n], slotTable'[n], n)
        /\ NoFreeSlot \notin Slot => TookFree(slotTable[n], slotTable'[n], n)
    BY <1>1, <2>1, ReserveSlotTakes, ReserveSlotTakesFree
  <2> QED BY <1>1, <1>4, <2>1, <2>2 DEF ReserveOwn
<1>5. CASE DynamicSlot(n) /\ FrameEnds(n)
  BY <1>1, <1>5 DEF DynamicSlot
<1>6. CASE DynamicSlot(n) /\ ~FrameEnds(n)
  BY <1>2, <1>6 DEF DynamicSlot, NextSession
<1>7. CASE StaticSlot(n) \/ ReserveOther(n)
  BY <1>2, <1>7 DEF StaticSlot, ReserveOther
<1> QED BY <1>3, <1>4, <1>5, <1>6, <1>7 DEF ScheduleTdmaSession

\* A controller sends nothing, or its table in its own reservation slot.
LEMMA ScheduleSends ==
  ASSUME IInv, NothingEarly, NEW n \in Node, ScheduleTdmaSession(n)
  PROVE  \/ routeSends' = routeSends
         \/ /\ routeSends = {} /\ sessionState[n] = "RESERVE" /\ slotNum[n] = n
            /\ routeSends' = {[from |-> n, left |-> AirTime(Reserved(n)'),
                               entries |-> Reserved(n)']}
<1>1. CASE ReserveOwn(n)
  <2>1. PICK table : /\ slotTable' = [slotTable EXCEPT ![n] = table]
                     /\ StartRouteTransmission(n, SetSlotPacket(table))
    BY <1>1 DEF ReserveOwn
  <2>2. Reserved(n)' = SetSlotPacket(table)
    BY <2>1 DEF Reserved, IInv, TypeOK
  <2>3. sessionState[n] = "RESERVE" /\ slotNum[n] = n
    BY <1>1 DEF ReserveOwn, IsMine
  <2>4. routeSends = {}
    BY <2>3, OthersKeep, WhenDue
  <2> QED BY <2>1, <2>2, <2>3, <2>4 DEF StartRouteTransmission
<1>2. CASE ~ReserveOwn(n)
  BY <1>2 DEF ScheduleTdmaSession, StaticSlot, LastStaticSlot, ReserveOther, DynamicSlot, airVars
<1> QED BY <1>1, <1>2

\* What is on its way while somebody is still due was sent in this slot.
LEMMA ScheduleEarly ==
  ASSUME CInv, NEW n \in Node, ScheduleTdmaSession(n)
  PROVE  NothingEarly'
<1> USE DEF CInv, ChannelInv
<1>1. inFlight' = {}
  BY StepEffect, WhenDue DEF IInv
<1>2. ASSUME NEW m \in Node, timer'[m] = 0, NEW msg \in routeSends'
      PROVE  msg.left > 0 /\ msg.from = slotNum'[m] /\ sessionState'[m] = "RESERVE"
  <2>1. m # n /\ timer[m] = 0 /\ Together(m, n)
    BY <1>2, OthersKeep, WhenDue
  <2>2. CASE msg \in routeSends
    BY <2>1, <2>2, OthersKeep DEF NothingEarly
  <2>3. CASE msg \notin routeSends
    <3>1. /\ sessionState[n] = "RESERVE" /\ slotNum[n] = n
          /\ msg = [from |-> n, left |-> AirTime(Reserved(n)'), entries |-> Reserved(n)']
      BY <1>2, <2>3, ScheduleSends
    <3>2. Reserved(n)' \in Entries
      BY ScheduleType, SetSlotPacketType DEF Reserved, IInv, TypeOK
    <3>3. msg.left > 0 /\ msg.from = n
      BY <3>1, <3>2, AirTimeType
    <3> QED BY <2>1, <3>1, <3>3, OthersKeep DEF Together
  <2> QED BY <2>2, <2>3
<1> QED BY <1>1, <1>2 DEF NothingEarly

\* What the tables say is reserved after a step of one controller.
LEMMA ScheduleReserved ==
  ASSUME CInv, NEW n \in Node, ScheduleTdmaSession(n)
  PROVE  /\ \A m \in Node \ {n} : Reserved(m)' = Reserved(m) /\ slotTable'[m] = slotTable[m]
         /\ \/ /\ \A s \in Slot : \/ /\ slotTable'[n][s] = slotTable[n][s]
                                     /\ Reserved(n)'[s] = Reserved(n)[s]
                                  \/ /\ slotTable'[n][s] = MarkAsAllocated(n)
                                     /\ Reserved(n)'[s] = n
                                     /\ NoFreeSlot \notin Slot => Reserved(n)[s] = NoOwner
               /\ sessionState[n] = "DYNAMIC" => sessionState'[n] = "DYNAMIC"
            \/ /\ \A s \in Slot : /\ Reserved(n)'[s] = NoOwner /\ slotTable'[n][s].state = "FREE"
                                  /\ slotTable'[n][s].owner = slotTable[n][s].owner
               /\ sessionState[n] = "DYNAMIC" /\ sessionState'[n] = "RESERVE" /\ slotNum'[n] = 0
               /\ \A m \in Node : \/ sessionState[m] = "DYNAMIC"
                                  \/ \A s \in Slot : Reserved(m)[s] = NoOwner
<1> USE DEF CInv, ChannelInv
<1>1. \A m \in Node \ {n} : Reserved(m)' = Reserved(m) /\ slotTable'[m] = slotTable[m]
  BY ScheduleTables DEF Reserved
<1>2. CASE /\ Took(slotTable[n], slotTable'[n], n)
           /\ NoFreeSlot \notin Slot => TookFree(slotTable[n], slotTable'[n], n)
           /\ sessionState[n] = "DYNAMIC" => NextSession(n) = "DYNAMIC"
  <2>1. ASSUME NEW s \in Slot
        PROVE  \/ /\ slotTable'[n][s] = slotTable[n][s]
                  /\ Reserved(n)'[s] = Reserved(n)[s]
               \/ /\ slotTable'[n][s] = MarkAsAllocated(n)
                  /\ Reserved(n)'[s] = n
                  /\ NoFreeSlot \notin Slot => Reserved(n)[s] = NoOwner
    <3>1. \/ /\ slotTable'[n][s] = slotTable[n][s] /\ Reserved(n)'[s] = Reserved(n)[s]
          \/ slotTable'[n][s] = MarkAsAllocated(n) /\ Reserved(n)'[s] = n
      BY <1>2, TakenReserved DEF Reserved
    <3>2. CASE slotTable'[n][s] = slotTable[n][s]
      BY <3>2 DEF Reserved, SetSlotPacket
    <3>3. CASE slotTable'[n][s] # slotTable[n][s]
      <4>1. NoFreeSlot \notin Slot => slotTable[n][s].state = "FREE"
        BY <1>2, <3>3 DEF TookFree
      <4>2. slotTable[n][s].state = "FREE" => Reserved(n)[s] = NoOwner
        BY DEF Reserved, SetSlotPacket
      <4> QED BY <3>1, <3>3, <4>1, <4>2
    <3> QED BY <3>2, <3>3
  <2> QED BY <1>1, <1>2, <2>1, OthersKeep
<1>3. CASE /\ slotTable'[n] = FreeTable(slotTable[n])
           /\ sessionState[n] = "DYNAMIC" /\ FrameEnds(n)
  <2>1. slotTable[n] \in Table
    BY DEF IInv, TypeOK
  <2>2. \A s \in Slot : /\ Reserved(n)'[s] = NoOwner /\ slotTable'[n][s].state = "FREE"
                        /\ slotTable'[n][s].owner = slotTable[n][s].owner
    BY <1>3, <2>1, FreedReserved DEF Reserved
  <2>3. NextSession(n) = "RESERVE" /\ NextSlot(n) = 0
    BY <1>3 DEF NextSession, NextSlot
  <2>4. ASSUME NEW m \in Node, sessionState[m] # "DYNAMIC"
        PROVE  \A s \in Slot : Reserved(m)[s] = NoOwner
    <3>1. Together(m, n) \/ Ahead(m, n)
      BY OthersKeep, WhenDue
    <3>2. sessionState[m] = "RESERVE" /\ slotNum[m] = 0
      BY <1>3, <2>3, <2>4, <3>1 DEF Together, Ahead
    <3> QED BY <3>2 DEF BeginsEmpty
  <2> QED BY <1>1, <1>3, <2>2, <2>3, <2>4, OthersKeep
<1> QED BY <1>2, <1>3, ScheduleTables

\* A step of one controller keeps the owners known, and the message current.
LEMMA ScheduleKeeps ==
  ASSUME CInv, NEW n \in Node, ScheduleTdmaSession(n)
  PROVE  ChannelInv'
<1> USE DEF CInv, ChannelInv
<1>1. timer[n] = 0 /\ inFlight = {} /\ inFlight' = {}
  BY StepEffect, WhenDue DEF IInv
<1>3. AllocatedOwned'
  <2>1. \A s \in Slot : slotTable'[n][s].state = "ALLOCATED" => slotTable'[n][s].owner # NoOwner
    <3>1. ASSUME NEW s \in Slot
          PROVE  \/ slotTable'[n][s] = slotTable[n][s]
                 \/ slotTable'[n][s] = MarkAsAllocated(n)
                 \/ slotTable'[n][s].state = "FREE"
      BY ScheduleReserved
    <3> QED BY <3>1, NoOwnerIsNoNode DEF AllocatedOwned, MarkAsAllocated
  <2> QED BY <2>1, ScheduleReserved DEF AllocatedOwned
<1>4. MessagesCurrent'
  <2>1. CASE routeSends' = routeSends
    <3>1. \A msg \in Messages : msg \in routeSends /\ msg.from \in Node /\ msg.from # n
      BY <1>1, WhenDue DEF Messages, IInv, TypeOK, RouteMsg
    <3>2. Messages' = Messages
      BY <1>1, <2>1 DEF Messages
    <3>3. Messages # {} => \A m \in Node : Settled(m)'
      <4>1. Messages # {} => sessionState[n] = "RESERVE" /\ sessionState'[n] = NextReserve(n)
        BY <1>1, <3>1, WhenDue, OthersKeep DEF NextSession
      <4> QED BY <1>1, <4>1, WhenDue, OthersKeep DEF Settled, NextReserve
    <3> QED BY <3>1, <3>2, <3>3, ScheduleReserved DEF MessagesCurrent
  <2>2. CASE /\ routeSends = {} /\ sessionState[n] = "RESERVE" /\ slotNum[n] = n
             /\ routeSends' = {[from |-> n, left |-> AirTime(Reserved(n)'),
                                entries |-> Reserved(n)']}
    <3>1. \A m \in Node : Settled(m)'
      BY <1>1, <2>2, WhenDue, OthersKeep DEF Settled, NextSession, NextReserve
    <3> QED BY <1>1, <2>2, <3>1 DEF MessagesCurrent, Messages
  <2> QED BY <2>1, <2>2, ScheduleSends
<1>5. BeginsEmpty'
  <2>1. ASSUME sessionState'[n] = "RESERVE", slotNum'[n] = 0
        PROVE  sessionState[n] = "DYNAMIC"
    <3>1. FrameEnds(n) /\ NextSession(n) = "RESERVE"
      BY <2>1, OthersKeep, LaterSlot
    <3> QED BY <3>1 DEF NextSession, NextReserve, IInv, TypeOK, Session
  <2> QED BY <2>1, OthersKeep, ScheduleReserved DEF BeginsEmpty
<1>6. OwnersTook'
  <2>1. ASSUME NEW k \in Node, NEW o \in Node, NEW s \in Slot, Reserved(k)'[s] = o
        PROVE  Reserved(o)'[s] # NoOwner \/ Freed(k, o)'
    <3>1. CASE o = n /\ k = n
      BY <2>1, <3>1, NoOwnerIsNoNode
    <3>2. CASE ~(o = n /\ k = n)
      <4>1. Reserved(k)[s] = o /\ o # NoOwner
        BY <2>1, <3>2, ScheduleReserved, NoOwnerIsNoNode
      <4>2. Reserved(o)[s] # NoOwner \/ Freed(k, o)
        BY <2>1, <4>1 DEF OwnersTook
      <4>3. CASE \A t \in Slot : Reserved(n)'[t] = Reserved(n)[t] \/ Reserved(n)'[t] = n
        <5>1. ASSUME sessionState[n] = "DYNAMIC" => sessionState'[n] = "DYNAMIC"
              PROVE  Freed(k, o) => Freed(k, o)'
          <6>1. Freed(k, o) => n # o
            BY <1>1, WhenDue DEF Freed, Settled
          <6> QED BY <5>1, <6>1, OthersKeep DEF Freed
        <5>2. Reserved(o)[s] # NoOwner => Reserved(o)'[s] # NoOwner
          BY <4>3, ScheduleReserved, NoOwnerIsNoNode
        <5>3. ASSUME ~(sessionState[n] = "DYNAMIC" => sessionState'[n] = "DYNAMIC")
              PROVE  Reserved(o)'[s] # NoOwner \/ Freed(k, o)'
          <6>1. k # n /\ sessionState[k] = "DYNAMIC" /\ sessionState'[n] = "RESERVE"
            BY <2>1, <4>1, <5>3, ScheduleReserved
          <6>2. o = n \/ o # n
            OBVIOUS
          <6> QED BY <4>2, <5>2, <6>1, OthersKeep DEF Freed
        <5> QED BY <4>1, <4>2, <5>1, <5>2, <5>3
      <4>4. CASE ~(\A t \in Slot : Reserved(n)'[t] = Reserved(n)[t] \/ Reserved(n)'[t] = n)
        <5>1. /\ \A t \in Slot : Reserved(n)'[t] = NoOwner
              /\ sessionState[n] = "DYNAMIC" /\ sessionState'[n] = "RESERVE"
              /\ k # n => sessionState[k] = "DYNAMIC"
          BY <4>4, <2>1, <4>1, ScheduleReserved
        <5>2. k # n
          BY <2>1, <4>1, <5>1
        <5>3. CASE o = n
          BY <4>1, <5>1, <5>2, <5>3, OthersKeep DEF Freed
        <5>4. CASE o # n
          BY <4>1, <4>2, <5>2, <5>4, OthersKeep, ScheduleReserved DEF Freed
        <5> QED BY <5>3, <5>4
      <4> QED BY <4>3, <4>4
    <3> QED BY <3>1, <3>2
  <2> QED BY <2>1 DEF OwnersTook
<1> QED BY <1>1, <1>3, <1>4, <1>5, <1>6, ScheduleEarly DEF NotToSender

-----------------------------------------------------------------------------
(* Messages and the clock *)

\* Whoever is in range, and whatever the header reads, the message stays what
\* it is.
LEMMA SendEffect ==
  ASSUME TypeOK, NEW msg \in routeSends, SendRouteDown(msg)
  PROVE  /\ routeSends' = routeSends \ {msg} /\ UNCHANGED <<frameVars, slotTable>>
         /\ msg.from \in Node /\ inFlight \subseteq inFlight'
         /\ \E type \in HeaderTypes : \E heard \in Reach[msg.from] :
              /\ \A f \in inFlight' \ inFlight :
                   /\ f.from = msg.from /\ f.to \in heard /\ f.type = type
                   /\ f.entries = msg.entries
              /\ \A m \in heard : \E f \in inFlight' : f.to = m /\ f.type = type
<1>1. /\ routeSends' = routeSends \ {msg} /\ UNCHANGED <<frameVars, slotTable>>
      /\ msg.from \in Node
  BY DEF SendRouteDown, TypeOK, RouteMsg
<1>2. PICK type \in HeaderTypes, heard \in Reach[msg.from] :
        \E delay \in [heard -> PropagationTimes] :
          inFlight' = inFlight \cup
            {[from |-> msg.from, to |-> r, left |-> delay[r], type |-> type,
              entries |-> msg.entries] : r \in heard}
  BY DEF SendRouteDown
<1>3. PICK delay \in [heard -> PropagationTimes] :
        inFlight' = inFlight \cup
          {[from |-> msg.from, to |-> r, left |-> delay[r], type |-> type,
            entries |-> msg.entries] : r \in heard}
  BY <1>2
<1>4. \A f \in inFlight' \ inFlight :
        /\ f.from = msg.from /\ f.to \in heard /\ f.type = type /\ f.entries = msg.entries
  BY <1>3
<1>5. ASSUME NEW m \in heard
      PROVE  \E f \in inFlight' : f.to = m /\ f.type = type
  <2>1. [from |-> msg.from, to |-> m, left |-> delay[m], type |-> type,
         entries |-> msg.entries] \in inFlight'
    BY <1>3
  <2> QED BY <2>1
<1> QED BY <1>1, <1>2, <1>3, <1>4, <1>5

LEMMA SendKeeps ==
  ASSUME CInv, NEW msg \in routeSends, SendRouteDown(msg)
  PROVE  ChannelInv'
<1> USE DEF CInv, ChannelInv
<1>1. /\ routeSends' = routeSends \ {msg} /\ UNCHANGED <<frameVars, slotTable>>
      /\ inFlight \subseteq inFlight' /\ msg.from \in Node /\ msg \in Messages
  BY SendEffect DEF IInv, Messages
<1>2. \A f \in inFlight' \ inFlight :
        f.from = msg.from /\ f.to # msg.from /\ f.entries = msg.entries
  BY SendEffect, ReachIsOtherNodes DEF IInv
<1>3. \A m \in Node : Reserved(m)' = Reserved(m) /\ (Settled(m)' <=> Settled(m))
  BY <1>1 DEF Reserved, Settled, frameVars
<1>4. NothingEarly'
  <2>1. msg.left = 0
    BY DEF SendRouteDown
  <2> QED BY <1>1, <2>1 DEF NothingEarly, frameVars
<1>5. NotToSender'
  BY <1>2 DEF NotToSender
<1>6. MessagesCurrent'
  <2>1. \A f \in Messages' : \E e \in Messages : e.from = f.from /\ e.entries = f.entries
    BY <1>1, <1>2 DEF Messages
  <2>2. \A e \in Messages : e.from \in Node
    BY DEF Messages, IInv, TypeOK, RouteMsg, FlightMsg
  <2> QED BY <1>3, <2>1, <2>2 DEF MessagesCurrent
<1>7. BeginsEmpty'
  BY <1>1, <1>3 DEF BeginsEmpty, frameVars
<1>8. AllocatedOwned'
  BY <1>1 DEF AllocatedOwned
<1>9. OwnersTook'
  <2>1. \A n, m \in Node : Freed(n, m)' <=> Freed(n, m)
    BY <1>1 DEF Freed, frameVars
  <2> QED BY <1>3, <2>1 DEF OwnersTook
<1> QED BY <1>4, <1>5, <1>6, <1>7, <1>8, <1>9

\* What a message that is taken for what it is does to the tables.
LEMMA ReceiveEffect ==
  ASSUME CInv, NEW msg \in inFlight, ReceiveSlotMsg(msg)
  PROVE  /\ UNCHANGED <<frameVars, routeSends>> /\ inFlight' = inFlight \ {msg}
         /\ msg.from \in Node /\ msg.to \in Node /\ msg.to # msg.from /\ msg \in Messages
         /\ msg.entries = Reserved(msg.from)
         /\ \A m \in Node \ {msg.to} : slotTable'[m] = slotTable[m] /\ Reserved(m)' = Reserved(m)
         /\ msg.type # "ROUTE" => slotTable' = slotTable
         /\ msg.type = "ROUTE" => \A s \in Slot :
              \/ /\ Reserved(msg.from)[s] # NoOwner
                 /\ Reserved(msg.to)'[s] = Reserved(msg.from)[s]
                 /\ slotTable'[msg.to][s] = MarkAsAllocated(Reserved(msg.from)[s])
              \/ /\ Reserved(msg.from)[s] = NoOwner
                 /\ Reserved(msg.to)'[s] = Reserved(msg.to)[s]
                 /\ slotTable'[msg.to][s] = slotTable[msg.to][s]
<1> USE DEF CInv, ChannelInv
<1>1. /\ UNCHANGED <<frameVars, routeSends>> /\ inFlight' = inFlight \ {msg}
      /\ msg.from \in Node /\ msg.to \in Node /\ msg.to # msg.from /\ msg \in Messages
      /\ msg.entries = Reserved(msg.from) /\ msg.entries \in Entries
  BY DEF ReceiveSlotMsg, IInv, TypeOK, FlightMsg, NotToSender, Messages, MessagesCurrent
<1>2. \A m \in Node \ {msg.to} : slotTable'[m] = slotTable[m]
  BY <1>1 DEF ReceiveSlotMsg, IInv, TypeOK
<1>3. msg.type # "ROUTE" => slotTable' = slotTable
  BY DEF ReceiveSlotMsg
<1>4. ASSUME msg.type = "ROUTE"
      PROVE  slotTable'[msg.to] = MergeEntries(slotTable[msg.to], msg.entries)
  BY <1>1, <1>4 DEF ReceiveSlotMsg, IInv, TypeOK
<1>5. slotTable[msg.to] \in Table
  BY <1>1 DEF IInv, TypeOK
<1>6. ASSUME msg.type = "ROUTE", NEW s \in Slot
      PROVE  \/ /\ msg.entries[s] # NoOwner
                /\ Reserved(msg.to)'[s] = msg.entries[s]
                /\ slotTable'[msg.to][s] = MarkAsAllocated(msg.entries[s])
             \/ /\ msg.entries[s] = NoOwner
                /\ Reserved(msg.to)'[s] = Reserved(msg.to)[s]
                /\ slotTable'[msg.to][s] = slotTable[msg.to][s]
  BY <1>1, <1>4, <1>5, <1>6, MergedReserved DEF Reserved
<1>7. \A m \in Node \ {msg.to} : Reserved(m)' = Reserved(m)
  BY <1>2 DEF Reserved
<1> QED BY <1>1, <1>2, <1>3, <1>6, <1>7

LEMMA ReceiveKeeps ==
  ASSUME CInv, NEW msg \in inFlight, ReceiveSlotMsg(msg)
  PROVE  ChannelInv'
<1> USE DEF CInv, ChannelInv
<1> DEFINE from == msg.from
           to == msg.to
<1>1. /\ UNCHANGED <<frameVars, routeSends>> /\ inFlight' = inFlight \ {msg}
      /\ from \in Node /\ to \in Node /\ to # from /\ msg \in Messages
      /\ \A m \in Node \ {to} : slotTable'[m] = slotTable[m] /\ Reserved(m)' = Reserved(m)
  BY ReceiveEffect
<1>2. \A s \in Slot :
        \/ Reserved(to)'[s] = Reserved(to)[s]
        \/ Reserved(from)[s] # NoOwner /\ Reserved(to)'[s] = Reserved(from)[s]
  BY ReceiveEffect DEF Reserved
<1>3. AllocatedOwned'
  <2>1. \A s \in Slot : slotTable'[to][s].state = "ALLOCATED" => slotTable'[to][s].owner # NoOwner
    <3>1. ASSUME NEW s \in Slot
          PROVE  \/ slotTable'[to][s] = slotTable[to][s]
                 \/ /\ Reserved(from)[s] # NoOwner
                    /\ slotTable'[to][s] = MarkAsAllocated(Reserved(from)[s])
      BY ReceiveEffect DEF ReceiveSlotMsg
    <3>2. \A o : MarkAsAllocated(o).owner = o
      BY DEF MarkAsAllocated
    <3> QED BY <1>1, <3>1, <3>2 DEF AllocatedOwned
  <2> QED BY <1>1, <2>1 DEF AllocatedOwned
<1>4. NothingEarly' /\ NotToSender'
  BY <1>1 DEF NothingEarly, NotToSender, frameVars
<1> HIDE DEF from, to
<1>5. MessagesCurrent'
  <2>1. \A f \in Messages' : f \in Messages
    BY <1>1 DEF Messages
  <2>2. \A f \in Messages : f.from = from
    BY <1>1 DEF MessagesCurrent, from
  <2>3. \A m \in Node : Settled(m)' <=> Settled(m)
    BY <1>1 DEF Settled, frameVars
  <2> QED BY <1>1, <2>1, <2>2, <2>3 DEF MessagesCurrent
<1>6. BeginsEmpty'
  <2>1. ASSUME sessionState[to] = "RESERVE", slotNum[to] = 0
        PROVE  sessionState[from] = "RESERVE" /\ slotNum[from] = 0
    <3>1. \A m \in Node : timer[m] # 0
      BY DEF NothingEarly
    <3> QED BY <1>1, <2>1, <3>1 DEF IInv, Steps, Ahead, Together
  <2> QED BY <1>1, <1>2, <2>1 DEF BeginsEmpty, frameVars
<1>7. OwnersTook'
  <2>1. \A m \in Node : Settled(m)
    BY <1>1 DEF MessagesCurrent
  <2>2. \A m \in Node : \A s \in Slot : Reserved(m)[s] # NoOwner => Reserved(m)'[s] # NoOwner
    BY <1>1, <1>2
  <2>3. ASSUME NEW m \in Node, NEW o \in Node, NEW s \in Slot, Reserved(m)'[s] = o
        PROVE  Reserved(o)'[s] # NoOwner
    <3>1. PICK k \in Node : Reserved(k)[s] = o
      BY <1>1, <1>2, <2>3
    <3>2. Reserved(o)[s] # NoOwner
      BY <2>1, <3>1 DEF OwnersTook, Freed, Settled
    <3> QED BY <2>2, <3>2
  <2> QED BY <2>3 DEF OwnersTook
<1> QED BY <1>3, <1>4, <1>5, <1>6, <1>7

\* The clock moves the messages on and leaves what they say.
LEMMA AdvanceEffect ==
  ASSUME TypeOK, Advance
  PROVE  /\ UNCHANGED <<sessionState, staticCount, slotNum, slotTable>>
         /\ \A e \in routeSends' : \E msg \in routeSends :
              e.from = msg.from /\ e.entries = msg.entries
         /\ \A e \in inFlight' : \E msg \in inFlight :
              e.from = msg.from /\ e.entries = msg.entries /\ e.to = msg.to /\ e.type = msg.type
         /\ \A msg \in inFlight : \E e \in inFlight' :
              e.from = msg.from /\ e.entries = msg.entries /\ e.to = msg.to /\ e.type = msg.type
<1>1. PICK d \in PendingTimes :
        /\ routeSends' = {[msg EXCEPT !.left = @ - d] : msg \in routeSends}
        /\ inFlight' = {[msg EXCEPT !.left = @ - d] : msg \in inFlight}
        /\ UNCHANGED <<sessionState, staticCount, slotNum, slotTable>>
  BY DEF Advance
<1>2. \A msg \in routeSends : /\ [msg EXCEPT !.left = @ - d].from = msg.from
                              /\ [msg EXCEPT !.left = @ - d].entries = msg.entries
  BY DEF TypeOK, RouteMsg
<1>3. \A msg \in inFlight : /\ [msg EXCEPT !.left = @ - d].from = msg.from
                            /\ [msg EXCEPT !.left = @ - d].entries = msg.entries
                            /\ [msg EXCEPT !.left = @ - d].to = msg.to
                            /\ [msg EXCEPT !.left = @ - d].type = msg.type
  BY DEF TypeOK, FlightMsg
<1>4. \A e \in routeSends' : \E msg \in routeSends :
        e.from = msg.from /\ e.entries = msg.entries
  BY <1>1, <1>2
<1>5. \A e \in inFlight' : \E msg \in inFlight :
        e.from = msg.from /\ e.entries = msg.entries /\ e.to = msg.to /\ e.type = msg.type
  BY <1>1, <1>3
<1>6. \A msg \in inFlight : \E e \in inFlight' :
        e.from = msg.from /\ e.entries = msg.entries /\ e.to = msg.to /\ e.type = msg.type
  BY <1>1, <1>3
<1> QED BY <1>1, <1>4, <1>5, <1>6

\* Before a controller is due again everything has been heard.
LEMMA AdvanceKeeps ==
  ASSUME CInv, Advance
  PROVE  ChannelInv'
<1> USE DEF CInv, ChannelInv
<1>1. PICK d \in PendingTimes :
        /\ d > 0 /\ \A e \in PendingTimes : d <= e
        /\ timer' = [n \in Node |-> timer[n] - d]
        /\ routeSends' = {[msg EXCEPT !.left = @ - d] : msg \in routeSends}
        /\ inFlight' = {[msg EXCEPT !.left = @ - d] : msg \in inFlight}
  BY DEF Advance
<1>2. d \in Nat
  BY DEF PendingTimes, IInv, TypeOK, RouteMsg, FlightMsg
<1>3. ASSUME NEW n \in Node
      PROVE  timer[n] \in Nat /\ d <= timer[n] /\ timer'[n] = timer[n] - d
  BY <1>1 DEF PendingTimes, IInv, TypeOK
<1>4. \A n, m \in Node : timer[n] = timer[m]
  BY <1>1, <1>2, <1>3 DEF IInv, Steps, Ahead, Together
<1>5. \A msg \in routeSends : /\ msg \in RouteMsg /\ d <= msg.left
                              /\ timer[msg.from] > msg.left
  BY <1>1, TimesAreNatural DEF PendingTimes, IInv, TypeOK, RouteMsg, MessagesOnTime
<1>6. \A msg \in inFlight : /\ msg \in FlightMsg /\ d <= msg.left
                            /\ timer[msg.from] > msg.left
  BY <1>1 DEF PendingTimes, IInv, TypeOK, MessagesOnTime
<1>7. NothingEarly'
  <2>1. ASSUME NEW n \in Node, timer'[n] = 0
        PROVE  routeSends = {} /\ inFlight = {}
    <3>1. timer[n] = d
      BY <1>2, <1>3, <2>1
    <3>2. routeSends = {}
      BY <1>2, <1>4, <1>5, <3>1 DEF RouteMsg
    <3>3. inFlight = {}
      BY <1>2, <1>4, <1>6, <3>1 DEF FlightMsg
    <3> QED BY <3>2, <3>3
  <2> QED BY <1>1, <2>1 DEF NothingEarly
<1>8. \A m \in Node : Reserved(m)' = Reserved(m) /\ (Settled(m)' <=> Settled(m))
  BY AdvanceEffect DEF Reserved, Settled, IInv
<1>9. NotToSender'
  BY AdvanceEffect DEF NotToSender, IInv
<1>10. MessagesCurrent'
  <2>1. \A f \in Messages' : \E e \in Messages : e.from = f.from /\ e.entries = f.entries
    BY AdvanceEffect DEF Messages, IInv
  <2>2. \A e \in Messages : e.from \in Node
    BY DEF Messages, IInv, TypeOK, RouteMsg, FlightMsg
  <2> QED BY <1>8, <2>1, <2>2 DEF MessagesCurrent
<1>11. OwnersTook'
  <2>1. \A n, m \in Node : Freed(n, m)' <=> Freed(n, m)
    BY AdvanceEffect DEF Freed, IInv
  <2> QED BY <1>8, <2>1 DEF OwnersTook
<1> QED BY <1>7, <1>8, <1>9, <1>10, <1>11, AdvanceEffect DEF AllocatedOwned, BeginsEmpty, IInv

LEMMA TablesStart ==
  ASSUME Init
  PROVE  CInv
<1>1. IInv
  BY InitInv
<1>2. \A n \in Node : \A s \in Slot :
        slotTable[n][s] = [state |-> "FREE", owner |-> NoOwner] /\ Reserved(n)[s] = NoOwner
  BY DEF Init, Reserved, SetSlotPacket
<1>3. routeSends = {} /\ inFlight = {}
  BY DEF Init
<1> QED BY <1>1, <1>2, <1>3, NoOwnerIsNoNode DEF CInv, ChannelInv, AllocatedOwned, NothingEarly, MessagesCurrent,
     Messages, NotToSender, BeginsEmpty, OwnersTook

LEMMA TablesStep ==
  ASSUME CInv, [Next]_vars
  PROVE  CInv'
<1>1. IInv'
  BY NextInv DEF CInv
<1>2. CASE \E n \in Node : ScheduleTdmaSession(n)
  BY <1>1, <1>2, ScheduleKeeps DEF CInv
<1>3. CASE \E msg \in routeSends : SendRouteDown(msg)
  BY <1>1, <1>3, SendKeeps DEF CInv
<1>4. CASE \E msg \in inFlight : ReceiveSlotMsg(msg)
  BY <1>1, <1>4, ReceiveKeeps DEF CInv
<1>5. CASE Advance
  BY <1>1, <1>5, AdvanceKeeps DEF CInv
<1>6. CASE UNCHANGED vars
  BY <1>1, <1>6 DEF CInv, ChannelInv, vars, frameVars, airVars, AllocatedOwned, NothingEarly,
     MessagesCurrent, Messages, NotToSender, BeginsEmpty, OwnersTook, Reserved, Settled, Freed
<1> QED BY <1>2, <1>3, <1>4, <1>5, <1>6 DEF Next

LEMMA TablesInvariance == Spec => []CInv
<1>1. Init => CInv
  BY TablesStart
<1>2. CInv /\ [Next]_vars => CInv'
  BY TablesStep
<1> QED BY <1>1, <1>2, PTL DEF Spec

\* Whoever hears what, a node that is named as the owner of a slot has not got
\* that slot free: a reservation that is passed on ends with the superframe it
\* was made in (SetSlotPacket sends allocated entries only, MarkAsFree).
THEOREM NobodyInvents == Spec => []NothingInvented
<1>1. ASSUME CInv, NEW n \in Node, NEW m \in Node, NEW s \in Slot,
             slotTable[n][s] = MarkAsAllocated(m)
      PROVE  slotTable[m][s].state = "ALLOCATED" \/ Freed(n, m)
  <2>1. Reserved(n)[s] = m
    BY <1>1 DEF Reserved, SetSlotPacket, MarkAsAllocated
  <2>2. Reserved(m)[s] # NoOwner \/ Freed(n, m)
    BY <1>1, <2>1, NoOwnerIsNoNode DEF CInv, ChannelInv, OwnersTook
  <2> QED BY <1>1, <2>2, ReservedType DEF CInv, IInv
<1>2. CInv => NothingInvented
  BY <1>1 DEF NothingInvented, Freed
<1> QED BY <1>2, TablesInvariance, PTL

-----------------------------------------------------------------------------
(* The invariant where everyone is in range *)

\* Everyone is in range of everyone, and the answer that no slot is free is no
\* slot.  A message may still be too long for its slot, or misread by everyone.
AllInRange ==
  /\ Reach = [n \in Node |-> {Node \ {n}}]
  /\ NoFreeSlot \notin Slot

\* Every reservation in one is in the other.
Within(entries, other) ==
  \A s \in Slot : entries[s] # NoOwner => entries[s] = other[s]

\* A slot message is on its way to m.
Coming(m) == \E msg \in inFlight : msg.to = m /\ msg.type = "ROUTE"

\* What one node has been told, all have been told that have heard everything.
KnownSame ==
  \A n, m \in Node : \A s \in Slot :
    Reserved(n)[s] \notin {NoOwner, n} /\ ~Coming(m) =>
      /\ slotTable[m][s].owner = Reserved(n)[s]
      /\ Reserved(m)[s] = Reserved(n)[s] \/ Freed(n, m)

HeardAll ==
  \A msg \in inFlight : msg.type = "ROUTE" =>
    \A m \in Node : Coming(m) \/ Within(msg.entries, Reserved(m))

OwnSlotTaken ==
  \A n \in Node \cap Slot : sessionState[n] = "DYNAMIC" => Reserved(n)[n] # NoOwner

HeardInv == KnownSame /\ HeardAll /\ OwnSlotTaken

HInv == CInv /\ HeardInv

LEMMA ScheduleKeepsHeard ==
  ASSUME AllInRange, HInv, NEW n \in Node, ScheduleTdmaSession(n)
  PROVE  HeardInv'
<1> USE DEF HInv, HeardInv, CInv, ChannelInv
<1>1. timer[n] = 0 /\ inFlight = {} /\ inFlight' = {}
  BY StepEffect, WhenDue DEF IInv
<1>2. \A m \in Node : ~Coming(m)
  BY <1>1 DEF Coming
<1>3. HeardAll'
  BY <1>1 DEF HeardAll
<1>4. ASSUME NEW k \in Node, NEW m \in Node, NEW s \in Slot,
             Reserved(k)'[s] \notin {NoOwner, k}
      PROVE  /\ slotTable'[m][s].owner = Reserved(k)'[s]
             /\ Reserved(m)'[s] = Reserved(k)'[s] \/ Freed(k, m)'
  <2>1. Reserved(k)'[s] = Reserved(k)[s]
    BY <1>4, ScheduleReserved
  <2>2. /\ slotTable[m][s].owner = Reserved(k)[s]
        /\ Reserved(m)[s] = Reserved(k)[s] \/ Freed(k, m)
    BY <1>2, <1>4, <2>1 DEF KnownSame
  <2>3. Freed(k, m) => m # n
    BY <1>1, WhenDue DEF Freed, Settled
  <2>4. CASE \A t \in Slot : /\ Reserved(n)'[t] = NoOwner
                             /\ slotTable'[n][t].owner = slotTable[n][t].owner
    <3>1. k # n
      BY <1>4, <2>4
    <3>2. CASE m # n
      BY <2>1, <2>2, <3>1, <3>2, ScheduleReserved, OthersKeep DEF Freed
    <3>3. CASE m = n
      <4>1. Reserved(n)[s] = Reserved(k)[s] /\ Reserved(n)[s] # NoOwner
        BY <1>4, <2>1, <2>2, <2>3, <3>3
      <4>2. sessionState'[n] = "RESERVE" /\ sessionState[k] = "DYNAMIC"
        BY <1>4, <2>1, <2>4, <4>1, ScheduleReserved, NoOwnerIsNoNode
      <4> QED BY <2>1, <2>2, <2>4, <3>1, <3>3, <4>2, OthersKeep DEF Freed
    <3> QED BY <3>2, <3>3
  <2>5. CASE ~(\A t \in Slot : /\ Reserved(n)'[t] = NoOwner
                               /\ slotTable'[n][t].owner = slotTable[n][t].owner)
    <3>1. /\ Reserved(n)[s] # NoOwner => /\ slotTable'[n][s] = slotTable[n][s]
                                         /\ Reserved(n)'[s] = Reserved(n)[s]
          /\ sessionState[n] = "DYNAMIC" => sessionState'[n] = "DYNAMIC"
      BY <2>5, ScheduleReserved DEF AllInRange
    <3>2. CASE m # n
      BY <2>1, <2>2, <3>1, <3>2, ScheduleReserved, OthersKeep DEF Freed
    <3>3. CASE m = n
      BY <1>4, <2>1, <2>2, <2>3, <3>1, <3>3
    <3> QED BY <3>2, <3>3
  <2> QED BY <2>4, <2>5
<1>5. OwnSlotTaken'
  <2>1. ASSUME NEW k \in Node \cap Slot, sessionState'[k] = "DYNAMIC"
        PROVE  Reserved(k)'[k] # NoOwner
    <3>1. CASE k # n
      BY <2>1, <3>1, ScheduleReserved, OthersKeep DEF OwnSlotTaken
    <3>2. CASE k = n /\ sessionState[n] = "DYNAMIC"
      <4>1. sessionState'[n] # "RESERVE" /\ Reserved(n)[n] # NoOwner
        BY <2>1, <3>2 DEF OwnSlotTaken
      <4> QED BY <3>2, <4>1, ScheduleReserved, NoOwnerIsNoNode
    <3>3. CASE k = n /\ sessionState[n] # "DYNAMIC"
      <4>1. LastStaticSlot(n)
        BY <2>1, <3>3 DEF ScheduleTdmaSession, StaticSlot, ReserveOther, ReserveOwn, DynamicSlot,
           NextReserve, IInv, TypeOK
      <4>2. slotTable'[n] = CheckSlotTable(slotTable[n], n) /\ slotTable[n] \in Table
        BY <4>1 DEF LastStaticSlot, IInv, TypeOK
      <4>3. slotTable'[n][n].state = "ALLOCATED"
        BY <3>3, <4>2 DEF CheckSlotTable, MarkAsAllocated, Table, SlotRecord
      <4>4. AllocatedOwned'
        BY ScheduleKeeps
      <4> QED BY <3>3, <4>3, <4>4 DEF AllocatedOwned, Reserved, SetSlotPacket
    <3> QED BY <3>1, <3>2, <3>3
  <2> QED BY <2>1 DEF OwnSlotTaken
<1> QED BY <1>3, <1>4, <1>5 DEF KnownSame

\* The message goes to everyone at once, as what it is or as something else.
LEMMA SendKeepsHeard ==
  ASSUME AllInRange, HInv, NEW msg \in routeSends, SendRouteDown(msg)
  PROVE  HeardInv'
<1> USE DEF HInv, HeardInv, CInv, ChannelInv
<1>1. /\ UNCHANGED <<frameVars, slotTable>> /\ inFlight \subseteq inFlight'
      /\ msg.from \in Node /\ msg.entries = Reserved(msg.from)
  BY SendEffect DEF IInv, MessagesCurrent, Messages
<1>2. PICK type : /\ \A f \in inFlight' \ inFlight : f.type = type /\ f.entries = msg.entries
                  /\ \A m \in Node \ {msg.from} : \E f \in inFlight' : f.to = m /\ f.type = type
  BY SendEffect, <1>1 DEF AllInRange, IInv
<1>3. \A m \in Node : Reserved(m)' = Reserved(m) /\ (Coming(m) => Coming(m)')
  BY <1>1 DEF Reserved, Coming
<1>4. KnownSame'
  <2>1. \A n, m \in Node : Freed(n, m)' <=> Freed(n, m)
    BY <1>1 DEF Freed, frameVars
  <2> QED BY <1>1, <1>3, <2>1 DEF KnownSame
<1>5. ASSUME NEW f \in inFlight', f.type = "ROUTE", NEW m \in Node
      PROVE  Coming(m)' \/ Within(f.entries, Reserved(m)')
  <2>1. CASE f \in inFlight
    BY <1>3, <1>5, <2>1 DEF HeardAll
  <2>2. CASE f \notin inFlight /\ m # msg.from
    BY <1>2, <1>5, <2>2 DEF Coming
  <2>3. CASE f \notin inFlight /\ m = msg.from
    BY <1>1, <1>2, <1>3, <2>3 DEF Within
  <2> QED BY <2>1, <2>2, <2>3
<1>6. OwnSlotTaken'
  BY <1>1, <1>3 DEF OwnSlotTaken, frameVars
<1> QED BY <1>4, <1>5, <1>6 DEF HeardAll

\* The receiver knows what the sender knows from then on, and the sender knows
\* what anybody has been told.
LEMMA ReceiveKeepsHeard ==
  ASSUME HInv, NEW msg \in inFlight, ReceiveSlotMsg(msg)
  PROVE  HeardInv'
<1> USE DEF HInv, HeardInv, CInv, ChannelInv
<1>1. /\ UNCHANGED <<frameVars, routeSends>> /\ inFlight' = inFlight \ {msg}
      /\ msg.from \in Node /\ msg.to \in Node /\ msg.to # msg.from /\ msg \in Messages
      /\ msg.entries = Reserved(msg.from)
      /\ \A m \in Node \ {msg.to} : slotTable'[m] = slotTable[m] /\ Reserved(m)' = Reserved(m)
  BY ReceiveEffect
<1>2. \A m \in Node : Settled(m) /\ sessionState'[m] # "DYNAMIC"
  BY <1>1 DEF MessagesCurrent, Settled, frameVars
<1>3. OwnSlotTaken'
  BY <1>2 DEF OwnSlotTaken
<1>4. ~Coming(msg.from)
  BY <1>1 DEF Coming, NotToSender, MessagesCurrent, Messages
<1>5. CASE msg.type # "ROUTE"
  <2>1. slotTable' = slotTable
    BY <1>5, ReceiveEffect
  <2>2. \A m \in Node : Reserved(m)' = Reserved(m) /\ (Coming(m)' <=> Coming(m))
    BY <1>1, <1>5, <2>1 DEF Reserved, Coming
  <2>3. \A n, m \in Node : Freed(n, m)' <=> Freed(n, m)
    BY <1>1 DEF Freed, frameVars
  <2>4. HeardAll'
    BY <1>1, <2>2 DEF HeardAll
  <2> QED BY <1>3, <2>1, <2>2, <2>3, <2>4 DEF KnownSame
<1>6. CASE msg.type = "ROUTE"
  <2> DEFINE from == msg.from
             to == msg.to
  <2>1. \A s \in Slot : Reserved(to)'[s] = IF Reserved(from)[s] # NoOwner THEN Reserved(from)[s]
                                           ELSE Reserved(to)[s]
    BY <1>6, ReceiveEffect
  <2>2. \A n \in Node : \A s \in Slot : Reserved(n)[s] \notin {NoOwner, n} =>
          Reserved(from)[s] = Reserved(n)[s]
    BY <1>1, <1>2, <1>4 DEF KnownSame, Freed, Settled
  <2>3. \A m \in Node \ {to} : Coming(m)' => Coming(m)
    BY <1>1 DEF Coming
  <2>4. \A m \in Node \ {to} : Coming(m) => Coming(m)'
    BY <1>1 DEF Coming
  <2>5. \A m \in Node : Coming(m)' \/ Within(Reserved(from), Reserved(m)')
    <3>1. Within(Reserved(from), Reserved(to)')
      BY <2>1 DEF Within
    <3>2. \A m \in Node \ {to} : Coming(m) \/ Within(Reserved(from), Reserved(m)')
      BY <1>1, <1>6 DEF HeardAll
    <3> QED BY <2>4, <3>1, <3>2
  <2>6. HeardAll'
    <3>1. \A f \in inFlight' : f.entries = Reserved(from)
      BY <1>1 DEF MessagesCurrent, Messages
    <3> QED BY <2>5, <3>1 DEF HeardAll
  <2>7. ASSUME NEW n \in Node, NEW m \in Node, NEW s \in Slot,
               Reserved(n)'[s] \notin {NoOwner, n}, ~Coming(m)'
        PROVE  slotTable'[m][s].owner = Reserved(n)'[s] /\ Reserved(m)'[s] = Reserved(n)'[s]
    <3>1. Reserved(from)[s] = Reserved(n)'[s]
      <4>1. CASE n # to
        BY <1>1, <2>2, <2>7, <4>1
      <4>2. CASE n = to
        BY <1>1, <2>1, <2>2, <2>7, <4>2
      <4> QED BY <4>1, <4>2
    <3>2. Reserved(m)'[s] = Reserved(n)'[s]
      BY <2>5, <2>7, <3>1 DEF Within
    <3>3. slotTable'[m][s].owner = Reserved(m)'[s]
      BY <2>7, <3>2 DEF Reserved, SetSlotPacket
    <3> QED BY <3>2, <3>3
  <2> QED BY <1>3, <2>6, <2>7 DEF KnownSame
<1> QED BY <1>5, <1>6

LEMMA AdvanceKeepsHeard ==
  ASSUME HInv, Advance
  PROVE  HeardInv'
<1> USE DEF HInv, HeardInv, CInv, ChannelInv
<1>1. \A m \in Node : Reserved(m)' = Reserved(m) /\ (Coming(m)' <=> Coming(m))
  BY AdvanceEffect DEF Reserved, Coming, IInv
<1>2. \A n, m \in Node : Freed(n, m)' <=> Freed(n, m)
  BY AdvanceEffect DEF Freed, IInv
<1>3. KnownSame'
  BY <1>1, <1>2, AdvanceEffect DEF KnownSame, IInv
<1>4. HeardAll'
  BY <1>1, AdvanceEffect DEF HeardAll, IInv
<1> QED BY <1>1, <1>3, <1>4, AdvanceEffect DEF OwnSlotTaken, IInv

LEMMA HeardInvariance ==
  ASSUME AllInRange
  PROVE  Spec => []HInv
<1>1. ASSUME Init PROVE HInv
  <2>1. CInv /\ inFlight = {} /\ \A n \in Node : sessionState[n] # "DYNAMIC"
    BY <1>1, TablesStart DEF Init
  <2>2. \A n \in Node : \A s \in Slot : Reserved(n)[s] = NoOwner
    BY <1>1 DEF Init, Reserved, SetSlotPacket
  <2> QED BY <2>1, <2>2 DEF HInv, HeardInv, KnownSame, HeardAll, OwnSlotTaken
<1>2. ASSUME HInv, [Next]_vars PROVE HInv'
  <2>1. CInv'
    BY <1>2, TablesStep DEF HInv
  <2>2. CASE \E n \in Node : ScheduleTdmaSession(n)
    BY <1>2, <2>1, <2>2, ScheduleKeepsHeard DEF HInv
  <2>3. CASE \E msg \in routeSends : SendRouteDown(msg)
    BY <1>2, <2>1, <2>3, SendKeepsHeard DEF HInv
  <2>4. CASE \E msg \in inFlight : ReceiveSlotMsg(msg)
    BY <1>2, <2>1, <2>4, ReceiveKeepsHeard DEF HInv
  <2>5. CASE Advance
    BY <1>2, <2>1, <2>5, AdvanceKeepsHeard DEF HInv
  <2>6. CASE UNCHANGED vars
    BY <1>2, <2>1, <2>6 DEF HInv, HeardInv, KnownSame, HeardAll, OwnSlotTaken, vars, frameVars,
       airVars, Coming, Reserved, Freed
  <2> QED BY <1>2, <2>2, <2>3, <2>4, <2>5, <2>6 DEF Next
<1> QED BY <1>1, <1>2, PTL DEF Spec

\* Where everyone is in range, what one node has been told of a slot is what
\* every table says that has no message on its way to it, the owner's among
\* them, however many messages do not fit or are misread (ReserveSlot,
\* StartRouteTransmission, ReceiveSlotMsg, CheckSlotTable).
THEOREM TablesAgree ==
  ASSUME AllInRange
  PROVE  Spec => []ReservationAgreed
<1>1. ASSUME HInv, NEW n \in Node, NEW m \in Node, NEW s \in Slot,
             Told(n, s), \A msg \in inFlight : msg.to # m
      PROVE  slotTable[m][s].owner = slotTable[n][s].owner
  <2>1. Reserved(n)[s] = slotTable[n][s].owner /\ Reserved(n)[s] \notin {NoOwner, n}
    BY <1>1, AllocatedReserved DEF HInv, CInv, ChannelInv, Told
  <2>2. ~Coming(m)
    BY <1>1 DEF Coming
  <2> QED BY <1>1, <2>1, <2>2 DEF HInv, HeardInv, KnownSame
<1>2. HInv => ReservationAgreed
  BY <1>1 DEF ReservationAgreed
<1> QED BY <1>2, HeardInvariance, PTL

\* In a dynamic frame every slot that has a node by its number is somebody's:
\* of the node that reserved it, or of that node itself (CheckSlotTable).
THEOREM SlotsAreUsed ==
  ASSUME AllInRange
  PROVE  Spec => []NoSlotIdle
<1>1. ASSUME HInv, \A n \in Node : sessionState[n] = "DYNAMIC", NEW s \in Slot \cap Node
      PROVE  \E n \in Node : slotTable[n][s].owner = n
  <2> USE DEF HInv, HeardInv, CInv, ChannelInv
  <2>1. Reserved(s)[s] \in Node /\ slotTable[s][s].owner = Reserved(s)[s] /\ Reserved(s)[s] # NoOwner
    BY <1>1, ReservedType DEF OwnSlotTaken, IInv
  <2>2. \A m \in Node : ~Coming(m)
    BY <1>1 DEF Coming, MessagesCurrent, Messages, Settled
  <2>3. Reserved(s)[s] # s => slotTable[Reserved(s)[s]][s].owner = Reserved(s)[s]
    BY <1>1, <2>1, <2>2 DEF KnownSame
  <2> QED BY <1>1, <2>1, <2>3
<1>2. HInv => NoSlotIdle
  BY <1>1 DEF NoSlotIdle
<1> QED BY <1>2, HeardInvariance, PTL

\* A slot that a node has reserved, and of which anybody has been told, stays
\* its own until it frees its table, and even then keeps its name: a node that
\* has taken the same slot has heard of the reservation before it can announce
\* its own (ReceiveSlotMsg overwrites without a check).
THEOREM ReservationsStay ==
  ASSUME AllInRange
  PROVE  Spec => ReservationKept
<1>1. ASSUME HInv, Next, NEW n \in Node, NEW s \in Slot, slotTable[n][s] = MarkAsAllocated(n),
             NEW m \in Node \ {n}, slotTable[m][s] = MarkAsAllocated(n)
      PROVE  slotTable'[n][s].owner = n
  <2> USE DEF HInv, HeardInv, CInv, ChannelInv
  <2>1. slotTable[n][s].owner = n /\ Reserved(m)[s] = n
    BY <1>1 DEF MarkAsAllocated, Reserved, SetSlotPacket
  <2>2. CASE slotTable'[n] = slotTable[n]
    BY <2>1, <2>2
  <2>3. ASSUME NEW k \in Node, ScheduleTdmaSession(k)
        PROVE  slotTable'[n][s].owner = n
    <3>1. CASE k # n
      BY <1>1, <2>2, <2>3, <3>1, ScheduleReserved
    <3>2. CASE k = n
      <4>1. \/ slotTable'[n][s] = slotTable[n][s]
            \/ slotTable'[n][s] = MarkAsAllocated(n)
            \/ slotTable'[n][s].owner = slotTable[n][s].owner
        BY <1>1, <2>3, <3>2, ScheduleReserved
      <4> QED BY <2>1, <4>1 DEF MarkAsAllocated
    <3> QED BY <3>1, <3>2
  <2>4. ASSUME NEW msg \in inFlight, ReceiveSlotMsg(msg)
        PROVE  slotTable'[n][s].owner = n
    <3>1. CASE msg.to # n \/ msg.type # "ROUTE"
      BY <1>1, <2>2, <2>4, <3>1, ReceiveEffect
    <3>2. CASE msg.to = n /\ msg.type = "ROUTE"
      <4>1. msg.from \in Node /\ msg \in Messages /\ ~Coming(msg.from)
        BY <1>1, <2>4, ReceiveEffect DEF Coming, NotToSender, MessagesCurrent, Messages
      <4>2. Settled(m)
        BY <1>1, <4>1 DEF MessagesCurrent
      <4>3. Reserved(msg.from)[s] = n
        BY <1>1, <2>1, <4>1, <4>2, NoOwnerIsNoNode DEF KnownSame, Freed, Settled
      <4> QED BY <1>1, <2>4, <3>2, <4>3, ReceiveEffect, NoOwnerIsNoNode DEF MarkAsAllocated
    <3> QED BY <3>1, <3>2
  <2> QED BY <1>1, <2>2, <2>3, <2>4 DEF Next, SendRouteDown, Advance
<1>2. HInv /\ [Next]_vars =>
        [\A n \in Node : \A s \in Slot :
           /\ slotTable[n][s] = MarkAsAllocated(n)
           /\ \E m \in Node \ {n} : slotTable[m][s] = MarkAsAllocated(n)
           => slotTable'[n][s].owner = n]_vars
  BY <1>1
<1> QED BY <1>2, HeardInvariance, PTL DEF Spec, ReservationKept

-----------------------------------------------------------------------------
(* Static TDMA *)

\* Static TDMA: no reservations, and the nodes are numbered like the slots.
IsStatic == DynamicInterval = 0 /\ Node = Slot

StaticOnly ==
  \A n \in Node : sessionState[n] = "STATIC" /\ window[n].session = "STATIC"

SInv == IInv /\ StaticOnly

LEMMA NextOfSlot ==
  ASSUME NEW c \in Slot
  PROVE  /\ (c + 1) % TotalSlots = (IF c + 1 = TotalSlots THEN 0 ELSE c + 1)
         /\ (c + 1) % TotalSlots \in Slot
BY SlotsArePositive DEF Slot

\* With two slots or more the next slot is another one.
LEMMA NextIsOther ==
  ASSUME NEW c \in Slot, NEW n \in Slot, n # c
  PROVE  (c + 1) % TotalSlots # c
<1>1. c \in Nat /\ n \in Nat /\ TotalSlots \in Nat /\ c < TotalSlots /\ n < TotalSlots
  BY SlotsArePositive DEF Slot
<1>2. CASE c + 1 = TotalSlots
  <2>1. (c + 1) % TotalSlots = 0 /\ c # 0
    BY <1>1, <1>2, NextOfSlot
  <2> QED BY <2>1
<1>3. CASE c + 1 # TotalSlots
  <2>1. (c + 1) % TotalSlots = c + 1
    BY <1>3, NextOfSlot
  <2> QED BY <1>1, <2>1
<1> QED BY <1>2, <1>3

LEMMA StaticInit ==
  ASSUME IsStatic, Init
  PROVE  SInv
BY InitInv DEF IsStatic, Init, SInv, StaticOnly

LEMMA StaticStep ==
  ASSUME IsStatic, SInv, [Next]_vars
  PROVE  SInv'
<1>1. IInv'
  BY NextInv DEF SInv
<1>2. TypeOK /\ IInv
  BY DEF SInv, IInv
<1>3. CASE \E n \in Node : ScheduleTdmaSession(n)
  <2>1. PICK n \in Node : ScheduleTdmaSession(n)
    BY <1>3
  <2>2. sessionState' = [sessionState EXCEPT ![n] = NextSession(n)]
    BY <1>2, <2>1, StepEffect
  <2>3. NextSession(n) = "STATIC"
    BY DEF NextSession, SInv, StaticOnly, EntersDynamic, IsStatic
  <2>4. \A m \in Node : window'[m].session = "STATIC"
    <3>1. CASE Grant(n)
      BY <1>2, <3>1 DEF Grant, SInv, StaticOnly, TypeOK
    <3>2. CASE UNCHANGED window
      BY <3>2 DEF SInv, StaticOnly
    <3> QED BY <1>2, <2>1, <3>1, <3>2, StepEffect
  <2>5. StaticOnly'
    BY <1>2, <2>2, <2>3, <2>4 DEF SInv, StaticOnly, TypeOK
  <2> QED BY <1>1, <2>5 DEF SInv
<1>4. CASE \E msg \in routeSends : SendRouteDown(msg)
  BY <1>1, <1>4 DEF SendRouteDown, frameVars, SInv, StaticOnly
<1>5. CASE \E msg \in inFlight : ReceiveSlotMsg(msg)
  BY <1>1, <1>5 DEF ReceiveSlotMsg, frameVars, SInv, StaticOnly
<1>6. CASE Advance
  <2>1. /\ sessionState' = sessionState
        /\ \E d \in PendingTimes :
             window' = [n \in Node |-> [window[n] EXCEPT !.left = IF @ > d THEN @ - d ELSE 0]]
    BY <1>6 DEF Advance
  <2>2. \A n \in Node : window'[n].session = window[n].session
    BY <1>2, <2>1 DEF TypeOK, Windows
  <2> QED BY <1>1, <2>1, <2>2 DEF SInv, StaticOnly
<1>7. CASE UNCHANGED vars
  BY <1>1, <1>7 DEF vars, frameVars, SInv, StaticOnly
<1> QED BY <1>3, <1>4, <1>5, <1>6, <1>7 DEF Next

-----------------------------------------------------------------------------
(* The mapping *)

\* At most one window is open.
LEMMA OneOpen ==
  ASSUME SInv, NEW n \in Node, NEW m \in Node, Open(n), Open(m)
  PROVE  n = m
BY DEF SInv, IInv, StaticOnly, WindowOwn, WindowsMatch

LEMMA HolderIsOpen ==
  ASSUME SInv
  PROVE  /\ \A n \in Node : Open(n) => Holder = n
         /\ (\A n \in Node : ~Open(n)) => Holder = NoOwner
<1>1. ASSUME NEW n \in Node, Open(n)
      PROVE  Holder = n
  BY <1>1, OneOpen DEF Holder
<1>2. (\A n \in Node : ~Open(n)) => Holder = NoOwner
  BY DEF Holder
<1> QED BY <1>1, <1>2

\* The current slot is that of every node that is due, or of every node.
LEMMA CurrentOfDue ==
  ASSUME SInv, NEW n \in Node, timer[n] = 0
  PROVE  CurrentSlot = slotNum[n]
<1> DEFINE due == {m \in Node : timer[m] = 0}
<1>1. n \in due /\ due # {}
  OBVIOUS
<1>2. \A m \in due : slotNum[m] = slotNum[n]
  BY NextTimerPositive DEF SInv, IInv, Steps, Together, Ahead
<1>3. (CHOOSE m \in due : TRUE) \in due
  BY <1>1
<1> HIDE DEF due
<1>4. CurrentSlot = slotNum[CHOOSE m \in due : TRUE]
  BY <1>1 DEF CurrentSlot, due
<1> QED BY <1>2, <1>3, <1>4

LEMMA CurrentOfAll ==
  ASSUME SInv, NEW n \in Node, \A m \in Node : slotNum[m] = slotNum[n]
  PROVE  CurrentSlot = slotNum[n]
<1> DEFINE due == {m \in Node : timer[m] = 0}
<1>1. (CHOOSE m \in Node : TRUE) \in Node /\ (due # {} => (CHOOSE m \in due : TRUE) \in Node)
  OBVIOUS
<1> HIDE DEF due
<1>2. CurrentSlot = slotNum[IF due # {} THEN CHOOSE m \in due : TRUE
                                        ELSE CHOOSE m \in Node : TRUE]
  BY DEF CurrentSlot, due
<1> QED BY <1>1, <1>2

\* When all wait for one slot it is the turn of the node of that slot.
LEMMA TurnOfAll ==
  ASSUME IsStatic, SInv, NEW n \in Node, \A m \in Node : slotNum[m] = slotNum[n]
  PROVE  Turn = slotNum[n]
<1>1. slotNum[n] \in Node
  BY DEF IsStatic, SInv, IInv, TypeOK
<1> QED BY <1>1, CurrentOfAll DEF Turn

\* When nobody is due all wait for one slot.
LEMMA AllWait ==
  ASSUME SInv, \A m \in Node : timer[m] > 0, NEW n \in Node
  PROVE  \A m \in Node : slotNum[m] = slotNum[n]
BY DEF SInv, IInv, Steps, Together, Ahead

\* What the mapping makes of a state the controllers reach: who holds the
\* medium and whose turn it is, told from the windows and the slot numbers.
MapFacts ==
  /\ \A n \in Node : Open(n) => Holder = n
  /\ (\A n \in Node : ~Open(n)) => Holder = NoOwner
  /\ \A n \in Node : timer[n] = 0 => CurrentSlot = slotNum[n]
  /\ \A n \in Node : (\A m \in Node : slotNum[m] = slotNum[n]) => Turn = slotNum[n]
  /\ (\A m \in Node : timer[m] > 0) => \A n, m \in Node : slotNum[m] = slotNum[n]

LEMMA MapIsKnown ==
  ASSUME IsStatic, SInv
  PROVE  MapFacts
<1>1. (\A m \in Node : timer[m] > 0) => \A n, m \in Node : slotNum[m] = slotNum[n]
  BY AllWait
<1> QED BY <1>1, HolderIsOpen, CurrentOfDue, TurnOfAll DEF MapFacts

-----------------------------------------------------------------------------
(* Every step is a step of the medium, or none *)

LEMMA MediumStarts ==
  ASSUME IsStatic, Init
  PROVE  Static!MediumInit
<1>1. SInv
  BY StaticInit
<1>2. PICK n \in Node : slotNum[n] = 0
  BY ZeroIsSlot DEF IsStatic, Init
<1>3. Turn = 0
  BY <1>1, <1>2, TurnOfAll DEF Init
<1>4. Holder = NoOwner
  BY <1>1, HolderIsOpen DEF Init, Open
<1> QED BY <1>3, <1>4 DEF Static!MediumInit

\* The node of the slot opens the only window: it acquires in its turn.
LEMMA OwnSlotAcquires ==
  ASSUME IsStatic, SInv, SInv', MapFacts, MapFacts',
         NEW n \in Node, ScheduleTdmaSession(n), slotNum[n] = n
  PROVE  Static!Acquire
<1>1. /\ timer[n] = 0 /\ timer' = [timer EXCEPT ![n] = NextTimer(n)]
      /\ slotNum' = [slotNum EXCEPT ![n] = NextSlot(n)]
  BY StepEffect DEF SInv, IInv
<1>2. timer \in [Node -> Nat] /\ slotNum \in [Node -> Slot] /\ n \in Slot
  BY DEF SInv, IInv, TypeOK, IsStatic
<1>3. timer'[n] > 0 /\ slotNum'[n] = (n + 1) % TotalSlots /\ (n + 1) % TotalSlots \in Slot
  BY <1>1, <1>2, NextTimerPositive, NextOfSlot DEF NextSlot, FrameEnds
<1>4. Holder = NoOwner
  <2>1. ASSUME NEW m \in Node, Open(m)
        PROVE  FALSE
    <3>1. timer[m] > 0 /\ window[m].slot = m
      BY <2>1 DEF SInv, IInv, WindowEnds, WindowOwn, StaticOnly
    <3>2. Ahead(m, n)
      BY <1>1, <3>1, NextTimerPositive DEF SInv, IInv, Steps, Together, Ahead
    <3>3. m = n
      BY <2>1, <3>1, <3>2 DEF Ahead
    <3> QED BY <1>1, <3>1, <3>3
  <2> QED BY <2>1 DEF MapFacts
<1>5. Turn = n
  BY <1>1 DEF Turn, MapFacts
<1>6. Holder' = n
  <2>1. Grant(n)
    BY DEF ScheduleTdmaSession, StaticSlot, LastStaticSlot, ReserveOther, ReserveOwn, DynamicSlot,
           GrantIf, IsMine, SInv, StaticOnly
  <2>2. window'[n].left = SlotLength(n)
    BY <2>1 DEF Grant, SInv, IInv, TypeOK
  <2>3. Open(n)'
    BY <2>2, NextTimerPositive DEF Open
  <2>4. \A m \in Node : Open(m)' => Holder' = m
    BY DEF MapFacts
  <2> QED BY <2>3, <2>4
<1>7. Turn' = (n + 1) % TotalSlots
  <2>1. CASE \E m \in Node : timer'[m] = 0
    <3>1. PICK m \in Node : timer'[m] = 0
      BY <2>1
    <3>2. m # n /\ timer[m] = 0 /\ slotNum'[m] = slotNum[m]
      BY <1>1, <1>2, <1>3, <3>1
    <3>3. slotNum[m] = n
      BY <1>1, <3>2, NextTimerPositive DEF SInv, IInv, Steps, Together, Ahead
    <3>4. CurrentSlot' = n
      BY <3>1, <3>2, <3>3 DEF MapFacts
    <3>5. slotNum'[n] # n
      BY <1>2, <1>3, <3>2, NextIsOther DEF IsStatic
    <3> QED BY <3>4, <3>5 DEF Turn
  <2>2. CASE ~\E m \in Node : timer'[m] = 0
    <3>1. \A m \in Node : timer'[m] > 0
      BY <2>2 DEF SInv, IInv, TypeOK
    <3>2. \A m \in Node : slotNum'[m] = slotNum'[n]
      BY <3>1 DEF MapFacts
    <3>3. Turn' = slotNum'[n]
      BY <3>2 DEF MapFacts
    <3> QED BY <1>3, <3>3
  <2> QED BY <2>1, <2>2
<1> QED BY <1>4, <1>5, <1>6, <1>7 DEF Static!Acquire

\* Any other node changes neither the holder nor the turn.
LEMMA OtherSlotStutters ==
  ASSUME IsStatic, SInv, SInv', MapFacts, MapFacts',
         NEW n \in Node, ScheduleTdmaSession(n), slotNum[n] # n
  PROVE  UNCHANGED Static!mediumVars
<1> DEFINE c == slotNum[n]
<1>1. /\ timer[n] = 0 /\ timer' = [timer EXCEPT ![n] = NextTimer(n)]
      /\ slotNum' = [slotNum EXCEPT ![n] = NextSlot(n)] /\ window' = window
  BY StepEffect DEF SInv, IInv, StaticOnly
<1>2. /\ timer \in [Node -> Nat] /\ slotNum \in [Node -> Slot]
      /\ c \in Node /\ c \in Slot /\ c # n
  BY DEF SInv, IInv, TypeOK, IsStatic
<1>3. timer'[n] > 0 /\ slotNum'[n] = (c + 1) % TotalSlots /\ (c + 1) % TotalSlots \in Slot
  BY <1>1, <1>2, NextTimerPositive, NextOfSlot DEF NextSlot, FrameEnds
<1>4. Holder' = Holder
  BY <1>1 DEF Holder, Open
<1>5. CurrentSlot = c
  BY <1>1 DEF MapFacts
<1>6. slotNum'[c] = slotNum[c] /\ timer'[c] = timer[c]
  BY <1>1, <1>2
<1>7. Turn' = Turn
  <2>1. CASE \E m \in Node : timer'[m] = 0
    <3>1. PICK m \in Node : timer'[m] = 0
      BY <2>1
    <3>2. m # n /\ timer[m] = 0 /\ slotNum'[m] = slotNum[m]
      BY <1>1, <1>2, <1>3, <3>1
    <3>3. slotNum[m] = c
      BY <1>1, <3>2, NextTimerPositive DEF SInv, IInv, Steps, Together, Ahead
    <3>4. CurrentSlot' = c
      BY <3>1, <3>2, <3>3 DEF MapFacts
    <3> QED BY <1>5, <1>6, <3>4 DEF Turn
  <2>2. CASE ~\E m \in Node : timer'[m] = 0
    <3>1. \A m \in Node : timer'[m] > 0
      BY <2>2 DEF SInv, IInv, TypeOK
    <3>2. \A m \in Node : slotNum'[m] = slotNum'[n]
      BY <3>1 DEF MapFacts
    <3>3. Turn' = (c + 1) % TotalSlots
      BY <1>3, <3>2 DEF MapFacts
    <3>4. slotNum[c] = (c + 1) % TotalSlots
      BY <1>2, <1>3, <1>6, <3>2
    <3>5. slotNum[c] # c
      BY <1>2, <3>4, NextIsOther DEF IsStatic
    <3> QED BY <1>5, <3>3, <3>5 DEF Turn
  <2> QED BY <2>1, <2>2
<1> QED BY <1>4, <1>7 DEF Static!mediumVars

\* While the clock moves the open window may close.
LEMMA AdvanceReleases ==
  ASSUME IsStatic, SInv, SInv', MapFacts, MapFacts',
         Advance
  PROVE  Static!Release \/ UNCHANGED Static!mediumVars
<1>1. PICK d \in PendingTimes :
        /\ d > 0 /\ \A e \in PendingTimes : d <= e
        /\ window' = [n \in Node |-> [window[n] EXCEPT !.left = IF @ > d THEN @ - d ELSE 0]]
        /\ slotNum' = slotNum
  BY DEF Advance
<1>2. \A m \in Node : timer[m] > 0
  <2>1. \A m \in Node : timer[m] \in PendingTimes /\ timer[m] \in Nat
    BY DEF PendingTimes, SInv, IInv, TypeOK
  <2>2. d \in Nat
    BY DEF PendingTimes, SInv, IInv, TypeOK, RouteMsg, FlightMsg
  <2> QED BY <1>1, <2>1, <2>2
<1>3. PICK n \in Node : TRUE
  BY ZeroIsSlot DEF IsStatic
<1>4. Turn' = Turn
  <2>1. \A m \in Node : slotNum[m] = slotNum[n]
    BY <1>2 DEF MapFacts
  <2>2. \A m \in Node : slotNum'[m] = slotNum'[n]
    BY <1>1, <2>1
  <2> QED BY <1>1, <2>1, <2>2 DEF MapFacts
<1>5. ASSUME NEW m \in Node, Open(m)'
      PROVE  Open(m)
  <2>1. d \in Nat /\ window[m] \in Windows
    BY DEF PendingTimes, SInv, IInv, TypeOK, RouteMsg, FlightMsg
  <2>2. window'[m].left = IF window[m].left > d THEN window[m].left - d ELSE 0
    BY <1>1, <2>1 DEF Windows
  <2> QED BY <1>5, <2>1, <2>2 DEF Open, Windows
<1>6. CASE \E m \in Node : Open(m)'
  BY <1>4, <1>5, <1>6 DEF Static!mediumVars, MapFacts
<1>7. CASE ~\E m \in Node : Open(m)'
  <2>1. Holder' = NoOwner
    BY <1>7 DEF MapFacts
  <2>2. CASE \E m \in Node : Open(m)
    <3>1. Holder # NoOwner
      BY <2>2, NoOwnerIsNoNode DEF MapFacts
    <3> QED BY <1>4, <2>1, <3>1 DEF Static!Release
  <2>3. CASE ~\E m \in Node : Open(m)
    BY <1>4, <2>1, <2>3 DEF Static!mediumVars, MapFacts
  <2> QED BY <2>2, <2>3
<1> QED BY <1>6, <1>7

LEMMA MediumSteps ==
  ASSUME IsStatic, SInv, SInv', MapFacts, MapFacts',
         [Next]_vars
  PROVE  [Static!MediumNext]_(Static!mediumVars)
<1>1. CASE \E n \in Node : ScheduleTdmaSession(n)
  BY <1>1, OwnSlotAcquires, OtherSlotStutters DEF Static!MediumNext
<1>2. CASE UNCHANGED <<slotNum, timer, window>>
  BY <1>2 DEF Static!mediumVars, Holder, Open, Turn, CurrentSlot
<1>3. CASE Advance
  BY <1>3, AdvanceReleases DEF Static!MediumNext
<1>4. \/ \E n \in Node : ScheduleTdmaSession(n)
      \/ UNCHANGED <<slotNum, timer, window>>
      \/ Advance
  BY DEF Next, SendRouteDown, ReceiveSlotMsg, vars, frameVars
<1> QED BY <1>1, <1>2, <1>3, <1>4

\* Without reservations the independent controllers hand the medium from node
\* to node in the order of their ids, to one at a time (ScheduleTdmaSession):
\* the safety part of ImplementsMedium.
THEOREM StaticImplementsMedium ==
  ASSUME DynamicInterval = 0, Node = Slot
  PROVE  Spec => Static!Medium
<1> USE DEF IsStatic
<1>1. Init => SInv /\ Static!MediumInit
  BY StaticInit, MediumStarts
<1>2. SInv /\ [Next]_vars => SInv'
  BY StaticStep
<1>3. SInv => MapFacts
  BY MapIsKnown
<1>4. SInv /\ SInv' /\ MapFacts /\ MapFacts' /\ [Next]_vars => [Static!MediumNext]_(Static!mediumVars)
  BY MediumSteps
<1> QED BY <1>1, <1>2, <1>3, <1>4, PTL DEF Spec, Static!Medium
=============================================================================
