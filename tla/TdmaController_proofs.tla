------------------------ MODULE TdmaController_proofs ------------------------
(***************************************************************************)
(* Proofs about the centralized controller, for any table that is set up   *)
(* by hand or from a file, and any times.                                  *)
(***************************************************************************)
EXTENDS SlotAssignmentFile, FiniteSetTheorems, SequenceTheorems, WellFoundedInduction, TLAPS

-----------------------------------------------------------------------------
(* Least and greatest elements *)

\* A set of numbers that is not empty has a least one.
LEMMA MinOfNaturals ==
  ASSUME NEW S \in SUBSET Nat, S # {}
  PROVE  Min(S) \in S /\ \A y \in S : Min(S) <= y
<1>1. PICK x \in S : \A y \in S : ~(<<y, x>> \in OpToRel(<, Nat))
  BY NatLessThanWellFounded, WFMin
<1>2. \A y \in S : ~(y < x)
  BY <1>1 DEF OpToRel
<1>3. \A y \in S : x <= y
  BY <1>2
<1> QED BY <1>3 DEF Min

\* A bounded set of numbers that is not empty has a greatest one.
LEMMA MaxOfNaturals ==
  ASSUME NEW K \in Nat, NEW S \in SUBSET 0 .. K, S # {}
  PROVE  Max(S) \in S /\ \A y \in S : Max(S) >= y
<1> DEFINE T == {K - y : y \in S}
<1>1. T \in SUBSET Nat /\ T # {}
  <2>1. \A y \in S : K - y \in Nat
    OBVIOUS
  <2> QED BY <2>1
<1>2. Min(T) \in T /\ \A t \in T : Min(T) <= t
  BY <1>1, MinOfNaturals
<1>3. PICK x \in S : Min(T) = K - x
  BY <1>2
<1>4. ASSUME NEW y \in S PROVE x >= y
  <2>1. K - x <= K - y
    BY <1>2, <1>3
  <2> QED BY <2>1
<1> QED BY <1>4 DEF Max

-----------------------------------------------------------------------------
(* The sessions *)

\* The slots before the given one that the table gives to a MAC.
SlotsBefore(m, slot) == {s \in DOMAIN slotPtrs : s < slot /\ slotPtrs[s] = m}

\* The time that is due to a MAC when the session has come to the given slot.
Due(m, slot) == slotTime * Cardinality(SlotsBefore(m, slot))

TableInv ==
  /\ DOMAIN slotPtrs \in SUBSET Positions
  /\ slotPtrs = [s \in DOMAIN slotPtrs |-> slotPtrs[s]]
  /\ \A s \in DOMAIN slotPtrs : slotPtrs[s] \in Macs
  /\ total \in Nat \ {0} /\ slotTime \in Nat \ {0}
  /\ gaurdTime \in Nat /\ interFrameTime \in Nat
  /\ channel \in Ranges \cup {NoChannel}

\* Each MAC has been granted what is due to it up to the slot of the session, or,
\* when a frame is over, for all slots; no window is left when a session is due.
SessionInv ==
  /\ window \in [Macs -> Nat] /\ granted \in [Macs -> Nat]
  /\ ~activeEpoch => window = [m \in Macs |-> 0] /\ granted = [m \in Macs |-> 0] /\ ~crashed
                     /\ session = NoEvent
  /\ activeEpoch =>
       /\ session \in [slot : Nat, left : Nat]
       /\ GuardKept
       /\ session.slot # 0 => \A m \in Macs : granted[m] = Due(m, session.slot)
       /\ session.slot = 0 => \/ \A m \in Macs : granted[m] = 0
                              \/ \A m \in Macs : granted[m] = Due(m, total)
       /\ Assigned => session.slot < total /\ ~crashed

CtrlInv == TableInv /\ SessionInv

\* A slot that is in the table starts a window of one slot at least, and of slots
\* that are all in the table.
LEMMA AllottedSlots ==
  ASSUME TableInv, NEW slot \in DOMAIN slotPtrs
  PROVE  /\ SlotsAllotted(slot) \in Nat \ {0}
         /\ Consecutive(slot, SlotsAllotted(slot))
<1> DEFINE K == Cardinality(DOMAIN slotPtrs)
           S == {n \in 1 .. K : Consecutive(slot, n)}
<1>1. IsFiniteSet(DOMAIN slotPtrs) /\ slot \in Nat
  BY SlotNumbers, FS_Subset DEF TableInv
<1>2. K \in Nat /\ K # 0
  BY <1>1, FS_CardinalityType, FS_EmptySet
<1>3. Consecutive(slot, 1)
  BY <1>1 DEF Consecutive
<1> HIDE DEF K
<1>4. 1 \in S /\ S \in SUBSET 0 .. K /\ S # {}
  BY <1>2, <1>3
<1>5. Max(S) \in S
  BY <1>2, <1>4, MaxOfNaturals, Zenon
<1>6. SlotsAllotted(slot) = Max(S)
  BY DEF SlotsAllotted, K
<1> QED BY <1>2, <1>5, <1>6

\* A window pays for the slots it spans to the MAC that it belongs to.
LEMMA WindowPays ==
  ASSUME TableInv, NEW slot \in DOMAIN slotPtrs, NEW n \in Nat \ {0}, Consecutive(slot, n),
         NEW m \in Macs
  PROVE  /\ Due(m, slot + n) = Due(m, slot) + (IF m = slotPtrs[slot] THEN slotTime * n ELSE 0)
         /\ Due(m, slot) \in Nat
<1> DEFINE old == SlotsBefore(m, slot)
           new == SlotsBefore(m, slot + n)
           span == slot .. slot + n - 1
<1>1. IsFiniteSet(DOMAIN slotPtrs) /\ slot \in Nat /\ DOMAIN slotPtrs \in SUBSET Nat
      /\ slotTime \in Nat
  BY SlotNumbers, FS_Subset DEF TableInv
<1>2. IsFiniteSet(old) /\ IsFiniteSet(new) /\ Cardinality(old) \in Nat
  BY <1>1, FS_Subset, FS_CardinalityType DEF SlotsBefore
<1>3. CASE m # slotPtrs[slot]
  <2>1. new = old
    BY <1>1, <1>3 DEF SlotsBefore, Consecutive
  <2> QED BY <1>1, <1>2, <1>3, <2>1 DEF Due
<1>4. CASE m = slotPtrs[slot]
  <2>1. new = old \cup span /\ old \cap span = {}
    BY <1>1, <1>4 DEF SlotsBefore, Consecutive
  <2>2. IsFiniteSet(span) /\ Cardinality(span) = n
    <3>1. slot \in Int /\ slot + n - 1 \in Int /\ ~(slot > slot + n - 1)
          /\ (slot + n - 1) - slot + 1 = n
      BY <1>1
    <3> QED BY <3>1, FS_Interval
  <2>3. Cardinality(old \cap span) = 0
    BY <2>1, FS_EmptySet
  <2> HIDE DEF old, span, new
  <2>4. Cardinality(new) = Cardinality(old) + n
    <3>1. Cardinality(old \cup span) = Cardinality(old) + Cardinality(span) - Cardinality(old \cap span)
      BY <1>2, <2>2, FS_Union
    <3> QED BY <1>2, <2>1, <2>2, <2>3, <3>1
  <2>5. slotTime * Cardinality(new) = slotTime * Cardinality(old) + slotTime * n
    BY <1>1, <1>2, <2>4
  <2>6. slotTime * Cardinality(old) \in Nat
    BY <1>1, <1>2
  <2> QED BY <1>4, <2>5, <2>6 DEF Due, old, new
<1> QED BY <1>3, <1>4

\* Before slot 0 there are no slots.
LEMMA NoneBefore ==
  ASSUME TableInv, NEW m \in Macs
  PROVE  Due(m, 0) = 0
<1>1. SlotsBefore(m, 0) = {}
  BY SlotNumbers DEF SlotsBefore, TableInv
<1>2. Cardinality(SlotsBefore(m, 0)) = 0 /\ slotTime \in Nat
  BY <1>1, FS_EmptySet DEF TableInv
<1> QED BY <1>2 DEF Due

LEMMA InitCtrlInv == Init => CtrlInv
BY SlotNumbers, TimesAreNatural DEF Init, CtrlInv, TableInv, SessionInv, NoSlots

LEMMA SetupKeeps ==
  ASSUME CtrlInv, ~activeEpoch, TableInv', UNCHANGED sessionVars
  PROVE  CtrlInv'
BY DEF CtrlInv, SessionInv, sessionVars

LEMMA ScheduleKeeps ==
  ASSUME CtrlInv, ScheduleTdmaSession
  PROVE  CtrlInv'
<1> DEFINE slot == session.slot
           m == slotPtrs[slot]
           n == SlotsAllotted(slot)
<1>1. /\ slot \in DOMAIN slotPtrs /\ session.left = 0 /\ session # NoEvent /\ ~crashed
      /\ window' = [window EXCEPT ![m] = slotTime * n]
      /\ granted' = [k \in Macs |-> (IF slot = 0 THEN 0 ELSE granted[k])
                                       + (IF k = m THEN slotTime * n ELSE 0)]
      /\ session' = NextSession(slot, n)
      /\ UNCHANGED <<tableVars, timeVars, activeEpoch, crashed>>
  BY DEF ScheduleTdmaSession
<1>2. /\ activeEpoch /\ session \in [slot : Nat, left : Nat] /\ slot \in Nat
      /\ window \in [Macs -> Nat] /\ granted \in [Macs -> Nat]
      /\ GuardKept
      /\ slot # 0 => \A k \in Macs : granted[k] = Due(k, slot)
      /\ Assigned => slot < total
  BY <1>1 DEF CtrlInv, SessionInv
<1>3. TableInv /\ m \in Macs
  BY <1>1 DEF CtrlInv, TableInv
<1>4. n \in Nat \ {0} /\ Consecutive(slot, n)
  BY <1>1, <1>3, AllottedSlots
<1> HIDE DEF n
<1>5. slotTime \in Nat \ {0} /\ gaurdTime \in Nat /\ interFrameTime \in Nat /\ total \in Nat \ {0}
  BY <1>3 DEF TableInv
<1> DEFINE open == slotTime * n
<1>6. open \in Nat
  BY <1>4, <1>5
<1>7. /\ session' \in [slot : Nat, left : Nat]
      /\ session'.left >= open + gaurdTime
      /\ session'.slot = IF slot + n = total THEN 0 ELSE slot + n
  <2> HIDE DEF open
  <2>1. CASE slot + n = total
    <3>1. session' = [slot |-> 0, left |-> gaurdTime + open + interFrameTime]
      BY <1>1, <2>1 DEF NextSession, open
    <3> QED BY <1>5, <1>6, <2>1, <3>1
  <2>2. CASE slot + n # total
    <3>1. session' = [slot |-> slot + n, left |-> gaurdTime + open]
      BY <1>1, <2>2 DEF NextSession, open
    <3> QED BY <1>2, <1>4, <1>5, <1>6, <2>2, <3>1
  <2> QED BY <2>1, <2>2
<1>8. TableInv' /\ gaurdTime' = gaurdTime /\ slotTime' = slotTime /\ slotPtrs' = slotPtrs
      /\ total' = total
  BY <1>1, <1>3 DEF TableInv, tableVars, timeVars
<1>9. GuardKept'
  <2>1. \A k \in Macs : window[k] = 0
    <3> SUFFICES ASSUME NEW k \in Macs, window[k] > 0 PROVE FALSE
      BY <1>2
    <3>1. 0 >= window[k] + gaurdTime /\ window[k] \in Nat
      BY <1>1, <1>2 DEF GuardKept
    <3> QED BY <1>5, <3>1
  <2>2. \A k \in Macs : window'[k] = IF k = m THEN open ELSE 0
    BY <1>1, <1>2, <2>1
  <2> HIDE DEF open, m
  <2> QED BY <1>5, <1>6, <1>7, <1>8, <2>2 DEF GuardKept
<1>10. ASSUME NEW k \in Macs
       PROVE  granted'[k] = Due(k, slot + n) /\ granted'[k] \in Nat
  <2>1. /\ Due(k, slot + n) = Due(k, slot) + (IF k = m THEN open ELSE 0)
        /\ Due(k, slot) \in Nat
    BY <1>1, <1>3, <1>4, WindowPays
  <2>2. (IF slot = 0 THEN 0 ELSE granted[k]) = Due(k, slot)
    BY <1>2, <1>3, NoneBefore
  <2>3. granted'[k] = Due(k, slot) + (IF k = m THEN open ELSE 0)
    BY <1>1, <2>2
  <2> HIDE DEF open, m
  <2> QED BY <1>6, <2>1, <2>3
<1>11. \A k \in Macs : /\ Due(k, session.slot)' = Due(k, session'.slot)
                      /\ Due(k, total)' = Due(k, total)
  BY <1>8 DEF Due, SlotsBefore
<1>12. window' \in [Macs -> Nat] /\ granted' \in [Macs -> Nat]
  <2>1. granted' = [k \in Macs |-> granted'[k]]
    BY <1>1
  <2>2. window' \in [Macs -> Nat]
    BY <1>1, <1>2, <1>6
  <2> QED BY <1>10, <2>1, <2>2
<1>13. ASSUME Assigned'
       PROVE  session'.slot < total'
  <2>1. DOMAIN slotPtrs = 0 .. total - 1
    BY <1>8, <1>13 DEF Assigned
  <2>2. slot + n - 1 \in DOMAIN slotPtrs
    BY <1>2, <1>4 DEF Consecutive
  <2>3. slot + n <= total
    BY <1>2, <1>4, <1>5, <2>1, <2>2
  <2> QED BY <1>2, <1>4, <1>5, <1>7, <1>8, <2>3
<1>14. /\ session'.slot # 0 => \A k \in Macs : granted'[k] = Due(k, session.slot)'
       /\ session'.slot = 0 => \A k \in Macs : granted'[k] = Due(k, total)'
  <2>1. CASE slot + n = total
    BY <1>7, <1>8, <1>10, <1>11, <2>1
  <2>2. CASE slot + n # total
    <3>1. session'.slot = slot + n /\ slot + n # 0
      BY <1>2, <1>4, <1>7, <2>2
    <3> QED BY <1>10, <1>11, <3>1
  <2> QED BY <2>1, <2>2
<1> QED BY <1>1, <1>2, <1>7, <1>8, <1>9, <1>12, <1>13, <1>14 DEF CtrlInv, SessionInv

LEMMA AdvanceKeeps ==
  ASSUME CtrlInv, Advance
  PROVE  CtrlInv'
<1> DEFINE S == {session.left} \cup {window[m] : m \in {k \in Macs : window[k] > 0}}
           d == Min(S)
<1>1. /\ session # NoEvent /\ session.left > 0
      /\ session' = [session EXCEPT !.left = @ - d]
      /\ window' = [m \in Macs |-> IF window[m] > d THEN window[m] - d ELSE 0]
      /\ UNCHANGED <<tableVars, timeVars, activeEpoch, granted, crashed>>
  BY DEF Advance
<1>2. /\ activeEpoch /\ session \in [slot : Nat, left : Nat]
      /\ window \in [Macs -> Nat] /\ granted \in [Macs -> Nat]
      /\ GuardKept
  BY <1>1 DEF CtrlInv, SessionInv
<1>3. S \in SUBSET Nat /\ session.left \in S
  BY <1>2
<1>4. d \in Nat /\ d <= session.left
  BY <1>3, MinOfNaturals
<1> HIDE DEF S, d
<1>5. session' \in [slot : Nat, left : Nat] /\ session'.slot = session.slot
      /\ session'.left = session.left - d
  <2> DEFINE l == session.left - d
  <2>1. l \in Nat /\ session' = [session EXCEPT !.left = l]
    BY <1>1, <1>2, <1>4
  <2> HIDE DEF l
  <2>2. session' \in [slot : Nat, left : Nat] /\ session'.slot = session.slot /\ session'.left = l
    BY <1>2, <2>1
  <2> QED BY <2>2 DEF l
<1>6. window' \in [Macs -> Nat]
  BY <1>1, <1>2, <1>4
<1>7. UNCHANGED <<slotPtrs, total, slotTime, gaurdTime, interFrameTime, channel, granted, crashed>>
      /\ activeEpoch'
  BY <1>1, <1>2 DEF tableVars, timeVars
<1>8. gaurdTime \in Nat
  BY DEF CtrlInv, TableInv
<1>9. GuardKept'
  <2> SUFFICES ASSUME NEW m \in Macs, window'[m] > 0
               PROVE  session'.left >= window'[m] + gaurdTime
    BY <1>7 DEF GuardKept
  <2>1. window[m] > d /\ window'[m] = window[m] - d /\ window[m] \in Nat /\ window[m] > 0
    BY <1>1, <1>2, <1>4
  <2>2. session.left >= window[m] + gaurdTime /\ session.left \in Nat
    BY <1>2, <2>1 DEF GuardKept
  <2> QED BY <1>4, <1>5, <1>8, <2>1, <2>2
<1>10. /\ TableInv' /\ Assigned' = Assigned
       /\ \A k \in Macs : /\ Due(k, session.slot)' = Due(k, session.slot)
                          /\ Due(k, total)' = Due(k, total)
  BY <1>5, <1>7 DEF CtrlInv, TableInv, Due, SlotsBefore, Assigned
<1> QED BY <1>2, <1>5, <1>6, <1>7, <1>9, <1>10 DEF CtrlInv, SessionInv

LEMMA NextKeeps ==
  ASSUME CtrlInv, Next
  PROVE  CtrlInv'
<1> USE SlotNumbers, TimesAreNatural, RangesAreNatural
<1>1. CASE \E pos \in Positions : \E m \in Macs : AddTdmaSlot(pos, m)
  <2>1. PICK pos \in Positions, m \in Macs : AddTdmaSlot(pos, m)
    BY <1>1
  <2>2. TableInv'
    <3>1. CASE pos \in DOMAIN slotPtrs
      BY <2>1, <3>1 DEF AddTdmaSlot, CtrlInv, TableInv, timeVars
    <3>2. CASE pos \notin DOMAIN slotPtrs
      BY <2>1, <3>2 DEF AddTdmaSlot, CtrlInv, TableInv, timeVars
    <3> QED BY <3>1, <3>2
  <2> QED BY <2>1, <2>2, SetupKeeps DEF AddTdmaSlot
<1>2. CASE \E slots \in Totals : SetTotalSlotsAllowed(slots)
  <2>1. ~activeEpoch /\ TableInv' /\ UNCHANGED sessionVars
    BY <1>2 DEF SetTotalSlotsAllowed, CtrlInv, TableInv, timeVars, NoSlots
  <2> QED BY <2>1, SetupKeeps
<1>3. CASE \E t \in SlotTimes : SetSlotTime(t)
  <2>1. ~activeEpoch /\ TableInv' /\ UNCHANGED sessionVars
    BY <1>3 DEF SetSlotTime, CtrlInv, TableInv, tableVars
  <2> QED BY <2>1, SetupKeeps
<1>4. CASE \E t \in GaurdTimes : SetGaurdTime(t)
  <2>1. PICK t \in GaurdTimes : SetGaurdTime(t)
    BY <1>4
  <2>2. gaurdTime' \in Nat
    <3>1. CASE channel = NoChannel
      BY <2>1, <3>1 DEF SetGaurdTime
    <3>2. CASE channel # NoChannel
      <4>1. channel \in Nat
        BY <3>2 DEF CtrlInv, TableInv
      <4>2. gaurdTime' = channel \div 300
        BY <2>1, <3>2 DEF SetGaurdTime, PropagationTime
      <4> QED BY <4>1, <4>2
    <3> QED BY <3>1, <3>2
  <2>3. ~activeEpoch /\ TableInv' /\ UNCHANGED sessionVars
    BY <2>1, <2>2 DEF SetGaurdTime, CtrlInv, TableInv, tableVars
  <2> QED BY <2>3, SetupKeeps
<1>5. CASE \E t \in InterFrameTimes : SetInterFrameTimeInterval(t)
  <2>1. ~activeEpoch /\ TableInv' /\ UNCHANGED sessionVars
    BY <1>5 DEF SetInterFrameTimeInterval, CtrlInv, TableInv, tableVars
  <2> QED BY <2>1, SetupKeeps
<1>6. CASE \E range \in Ranges : SetChannel(range)
  <2>1. ~activeEpoch /\ TableInv' /\ UNCHANGED sessionVars
    BY <1>6 DEF SetChannel, CtrlInv, TableInv, tableVars
  <2> QED BY <2>1, SetupKeeps
<1>7. CASE Start
  <2>1. /\ ~activeEpoch /\ activeEpoch' /\ session' = [slot |-> 0, left |-> StartDelay]
        /\ UNCHANGED <<slotPtrs, total, slotTime, gaurdTime, interFrameTime, channel, window, granted, crashed>>
    BY <1>7 DEF Start, tableVars, timeVars
  <2>2. TableInv' /\ total' \in Nat \ {0}
    BY <2>1 DEF CtrlInv, TableInv
  <2>3. window = [m \in Macs |-> 0] /\ granted = [m \in Macs |-> 0] /\ ~crashed
    BY <2>1 DEF CtrlInv, SessionInv
  <2>4. GuardKept'
    BY <2>1, <2>3 DEF GuardKept
  <2> QED BY <2>1, <2>2, <2>3, <2>4 DEF CtrlInv, SessionInv
<1>8. CASE ScheduleTdmaSession
  BY <1>8, ScheduleKeeps
<1>9. CASE SlotMissing
  <2>1. /\ session # NoEvent /\ session.slot \notin DOMAIN slotPtrs
        /\ UNCHANGED <<slotPtrs, total, slotTime, gaurdTime, interFrameTime, channel,
                       activeEpoch, session, window, granted>>
    BY <1>9 DEF SlotMissing, tableVars, timeVars
  <2>2. activeEpoch /\ session.slot \in Nat
    BY <2>1 DEF CtrlInv, SessionInv
  <2>3. ~Assigned
    BY <2>1, <2>2 DEF CtrlInv, SessionInv, TableInv, Assigned
  <2>4. /\ TableInv' /\ Assigned' = Assigned /\ GuardKept' = GuardKept
        /\ \A k \in Macs : /\ Due(k, session.slot)' = Due(k, session.slot)
                           /\ Due(k, total)' = Due(k, total)
    BY <2>1 DEF CtrlInv, TableInv, Due, SlotsBefore, Assigned, GuardKept
  <2> QED BY <2>1, <2>2, <2>3, <2>4 DEF CtrlInv, SessionInv
<1>10. CASE Advance
  BY <1>10, AdvanceKeeps
<1> QED BY <1>1, <1>2, <1>3, <1>4, <1>5, <1>6, <1>7, <1>8, <1>9, <1>10 DEF Next

LEMMA VarsKeep == CtrlInv /\ UNCHANGED vars => CtrlInv'
<1> SUFFICES ASSUME CtrlInv, UNCHANGED vars PROVE CtrlInv'
  OBVIOUS
<1>1. UNCHANGED <<slotPtrs, total, slotTime, gaurdTime, interFrameTime, channel,
                  activeEpoch, session, window, granted, crashed>>
  BY DEF vars, tableVars, timeVars, sessionVars
<1>2. /\ TableInv' /\ Assigned' = Assigned /\ GuardKept' = GuardKept
      /\ \A k \in Macs : /\ Due(k, session.slot)' = Due(k, session.slot)
                         /\ Due(k, total)' = Due(k, total)
  BY <1>1 DEF CtrlInv, TableInv, Due, SlotsBefore, Assigned, GuardKept
<1> QED BY <1>1, <1>2 DEF CtrlInv, SessionInv

-----------------------------------------------------------------------------
(* The file *)

\* What has been read of the file: its first rows, and their fields' number; the
\* rows have named a node each.
FileInv ==
  /\ CtrlInv
  /\ file \in Files \cup {NoFile}
  /\ parse \in {"none", "reading", "failed", "read", "filled"}
  /\ file = NoFile => parse = "none"
  /\ slotArray \in Seq(Rows) /\ numRows = Len(slotArray) /\ numCols \in Nat
  /\ parse # "none" =>
       \A i \in 1 .. numRows : /\ i \in 1 .. Len(file) /\ slotArray[i] = file[i]
                               /\ file[i].node # NoId
  /\ parse = "reading" => numCols >= numRows
  /\ parse = "read" => numCols > 0

\* Of a file that fits a frame every row counts as many fields as the frame has
\* slots.
FitsInv ==
  file # NoFile /\ FitsFrame(file) =>
    /\ parse # "failed"
    /\ parse = "reading" => numCols = numRows * Len(file[1].fields)
    /\ parse = "read" => slotArray = file /\ numCols = Len(file[1].fields)

\* A row has a field.
LEMMA RowHasFields ==
  ASSUME NEW row \in Rows
  PROVE  Len(row.fields) \in Nat \ {0} /\ row.node \in Macs \cup {NoId}
<1>1. row.fields \in Seq(STRING) /\ row.fields # <<>> /\ row.node \in Macs \cup {NoId}
  BY DEF Rows
<1> QED BY <1>1, EmptySeq, LenProperties

\* A file that is not missing has rows.
LEMMA FileIsSeq ==
  ASSUME NEW f \in Files
  PROVE  /\ f \in Seq(Rows) /\ Len(f) \in Nat /\ DOMAIN f = 1 .. Len(f)
         /\ \A i \in 1 .. Len(f) :
              /\ f[i] \in Rows /\ Len(f[i].fields) \in Nat \ {0}
              /\ 0 .. Len(f[i].fields) - 1 \subseteq Positions
<1>1. f \in Seq(Rows)
  BY FilesHaveRows
<1>2. Len(f) \in Nat /\ DOMAIN f = 1 .. Len(f) /\ \A i \in 1 .. Len(f) : f[i] \in Rows
  BY <1>1, LenProperties, ElementOfSeq
<1> QED BY <1>1, <1>2, FilesHaveRows, RowHasFields

\* Equal addends make up a multiple.
LEMMA WholeRows ==
  ASSUME NEW n \in Nat \ {0}, NEW k \in Nat
  PROVE  (n * k) % n = 0 /\ (n * k) \div n = k
OBVIOUS

\* At least as many fields as rows are one for each row at least.
LEMMA AtLeastOne ==
  ASSUME NEW n \in Nat \ {0}, NEW c \in Nat, c >= n
  PROVE  c \div n \in Nat \ {0}
OBVIOUS

LEMMA FileStart == FileInit => FileInv /\ FitsInv
<1> SUFFICES ASSUME FileInit PROVE FileInv /\ FitsInv
  OBVIOUS
<1>1. /\ CtrlInv /\ file \in Files \cup {NoFile} /\ slotArray = <<>> /\ numRows = 0 /\ numCols = 0
      /\ parse = IF file = NoFile THEN "none" ELSE "reading"
  BY InitCtrlInv DEF FileInit
<1>2. slotArray \in Seq(Rows) /\ Len(slotArray) = 0
  BY <1>1, EmptySeq
<1>3. FileInv
  BY <1>1, <1>2 DEF FileInv
<1>4. ASSUME file # NoFile, FitsFrame(file)
      PROVE  0 = 0 * Len(file[1].fields)
  <2>1. file \in Files /\ file # <<>>
    BY <1>1, <1>4 DEF FitsFrame
  <2>2. 1 \in 1 .. Len(file)
    BY <2>1, FileIsSeq, EmptySeq
  <2>3. Len(file[1].fields) \in Nat
    BY <2>1, <2>2, FileIsSeq
  <2> QED BY <2>3
<1> QED BY <1>1, <1>3, <1>4 DEF FitsInv

LEMMA ReadRowKeeps ==
  ASSUME FileInv, FitsInv, ReadRow
  PROVE  FileInv' /\ FitsInv'
<1> DEFINE row == file[numRows + 1]
<1>1. parse = "reading" /\ ~AtEnd /\ UNCHANGED <<vars, file>>
  BY DEF ReadRow
<1>2. file \in Files /\ file # NoFile
  BY <1>1 DEF FileInv
<1>3. /\ numRows + 1 \in 1 .. Len(file) /\ row.node # NoId /\ row \in Rows
      /\ Len(row.fields) \in Nat \ {0}
  BY <1>1, <1>2, FileIsSeq DEF AtEnd
<1>4. CtrlInv'
  BY <1>1, VarsKeep DEF FileInv
<1>5. slotArray \in Seq(Rows) /\ numRows \in Nat /\ numRows = Len(slotArray) /\ numCols \in Nat
      /\ numCols >= numRows
      /\ \A i \in 1 .. numRows : i \in 1 .. Len(file) /\ slotArray[i] = file[i] /\ file[i].node # NoId
  BY <1>1, LenProperties DEF FileInv
<1>6. CASE ToSet(row.fields) \subseteq {"0", "1"}
  <2>1. /\ numRows' = numRows + 1 /\ numCols' = numCols + Len(row.fields)
        /\ slotArray' = Append(slotArray, row) /\ parse' = "reading" /\ file' = file
    BY <1>1, <1>6 DEF ReadRow, Counted
  <2> HIDE DEF row
  <2>2. /\ slotArray' \in Seq(Rows) /\ Len(slotArray') = numRows + 1
        /\ \A i \in 1 .. numRows : slotArray'[i] = slotArray[i]
        /\ slotArray'[numRows + 1] = row
    BY <1>3, <1>5, <2>1, AppendProperties
  <2>3. ASSUME NEW i \in 1 .. numRows'
        PROVE  i \in 1 .. Len(file) /\ slotArray'[i] = file[i] /\ file[i].node # NoId
    <3>1. CASE i \in 1 .. numRows
      BY <1>5, <2>2, <3>1
    <3>2. CASE i = numRows + 1
      BY <1>3, <2>2, <3>2 DEF row
    <3> QED BY <1>5, <2>1, <3>1, <3>2
  <2>4. numCols' \in Nat /\ numCols' >= numRows'
    BY <1>3, <1>5, <2>1
  <2>5. FileInv'
    BY <1>2, <1>4, <2>1, <2>2, <2>3, <2>4 DEF FileInv
  <2>6. ASSUME FitsFrame(file)
        PROVE  numCols' = numRows' * Len(file[1].fields)
    <3> DEFINE k == Len(file[1].fields)
    <3>1. Len(row.fields) = k /\ numCols = numRows * k
      BY <1>1, <1>2, <1>3, <2>6 DEF FitsFrame, FitsInv, row
    <3>2. k \in Nat
      BY <1>3, <3>1
    <3> HIDE DEF k
    <3>3. (numRows + 1) * k = numRows * k + k
      BY <1>5, <3>2
    <3> QED BY <2>1, <3>1, <3>3 DEF k
  <2> QED BY <2>1, <2>5, <2>6 DEF FitsInv
<1>7. CASE ~(ToSet(row.fields) \subseteq {"0", "1"})
  <2>1. parse' = "failed" /\ UNCHANGED <<slotArray, numRows, numCols>> /\ file' = file
    BY <1>1, <1>7 DEF ReadRow
  <2>2. FileInv'
    BY <1>2, <1>4, <1>5, <2>1 DEF FileInv
  <2>3. ~FitsFrame(file)
    BY <1>3, <1>7 DEF FitsFrame
  <2> QED BY <2>1, <2>2, <2>3 DEF FitsInv
<1> QED BY <1>6, <1>7

LEMMA EndOfFileKeeps ==
  ASSUME FileInv, FitsInv, EndOfFile
  PROVE  FileInv' /\ FitsInv'
<1>1. parse = "reading" /\ AtEnd /\ UNCHANGED <<vars, file, slotArray, numRows>>
  BY DEF EndOfFile
<1>2. file \in Files /\ file # NoFile
  BY <1>1 DEF FileInv
<1>3. slotArray \in Seq(Rows) /\ numRows \in Nat /\ numRows = Len(slotArray) /\ numCols \in Nat
      /\ numCols >= numRows
      /\ \A i \in 1 .. numRows : i \in 1 .. Len(file) /\ slotArray[i] = file[i] /\ file[i].node # NoId
  BY <1>1, LenProperties DEF FileInv
<1>4. CtrlInv' /\ file' = file /\ slotArray' = slotArray /\ numRows' = numRows
  BY <1>1, VarsKeep DEF FileInv
<1>5. ASSUME FitsFrame(file)
      PROVE  /\ numRows > 0 /\ numCols % numRows = 0 /\ slotArray = file
             /\ numCols \div numRows = Len(file[1].fields)
  <2>1. file # <<>> /\ \A i \in 1 .. Len(file) : file[i].node # NoId
    BY <1>5 DEF FitsFrame
  <2>2. file \in Seq(Rows) /\ Len(file) \in Nat /\ DOMAIN file = 1 .. Len(file)
    BY <1>2, FileIsSeq
  <2>3. numRows + 1 \notin 1 .. Len(file)
    BY <1>1, <2>1, <2>2 DEF AtEnd
  <2>4. numRows <= Len(file)
    <3>1. CASE numRows = 0
      BY <2>2, <3>1
    <3>2. CASE numRows # 0
      <4>1. numRows \in 1 .. numRows
        BY <1>3, <3>2
      <4> QED BY <1>3, <4>1
    <3> QED BY <3>1, <3>2
  <2>5. numRows = Len(file) /\ numRows > 0 /\ 1 \in 1 .. Len(file)
    <3>1. Len(file) # 0
      BY <2>1, <2>2, EmptySeq
    <3>2. numRows \in Nat
      BY <1>3
    <3>3. ~(1 <= numRows + 1 /\ numRows + 1 <= Len(file))
      BY <2>2, <2>3, <3>2
    <3> DEFINE n == Len(file)
    <3>4. n \in Nat /\ numRows <= n /\ n # 0 /\ ~(1 <= numRows + 1 /\ numRows + 1 <= n)
      BY <2>2, <2>4, <3>1, <3>3
    <3> HIDE DEF n
    <3>5. numRows = n /\ numRows > 0 /\ 1 \in 1 .. n
      BY <3>2, <3>4
    <3> QED BY <3>5 DEF n
  <2>6. slotArray = file
    BY <1>3, <2>2, <2>5, SeqEqual
  <2>7. Len(file[1].fields) \in Nat /\ numCols = numRows * Len(file[1].fields)
    BY <1>1, <1>2, <1>5, <2>5, FileIsSeq DEF FitsInv
  <2> DEFINE k == Len(file[1].fields)
  <2>8. numRows \in Nat \ {0} /\ k \in Nat /\ numCols = numRows * k
    BY <1>3, <2>5, <2>7
  <2> HIDE DEF k
  <2>9. numCols % numRows = 0 /\ numCols \div numRows = k
    BY <2>8, WholeRows
  <2> QED BY <2>5, <2>6, <2>9 DEF k
<1>6. CASE numRows > 0 /\ numCols % numRows = 0
  <2>1. parse' = "read" /\ numCols' = numCols \div numRows
    BY <1>6 DEF EndOfFile
  <2>2. numCols' \in Nat \ {0}
    BY <1>3, <1>6, <2>1, AtLeastOne
  <2> QED BY <1>2, <1>3, <1>4, <1>5, <2>1, <2>2 DEF FileInv, FitsInv
<1>7. CASE ~(numRows > 0 /\ numCols % numRows = 0)
  <2>1. parse' = "failed" /\ numCols' = numCols
    BY <1>7 DEF EndOfFile
  <2> QED BY <1>2, <1>3, <1>4, <1>5, <1>7, <2>1 DEF FileInv, FitsInv
<1> QED BY <1>6, <1>7

\* What is marked in rows is marked in one of them.
LEMMA MarkedRow ==
  ASSUME NEW rows, NEW slot, Marking(rows, slot) # {}
  PROVE  Min(Marking(rows, slot)) \in Marking(rows, slot)
<1>1. Marking(rows, slot) \in SUBSET Nat
  BY DEF Marking
<1> QED BY <1>1, MinOfNaturals

LEMMA FillTableKeeps ==
  ASSUME FileInv, FitsInv, FillTable
  PROVE  FileInv' /\ FitsInv'
<1>1. /\ parse = "read" /\ ~activeEpoch /\ parse' = "filled" /\ total' = numCols
      /\ slotPtrs' = [slot \in {s \in Positions : Marking(slotArray, s) # {}} |->
                        slotArray[Min(Marking(slotArray, slot))].node]
      /\ UNCHANGED <<slotTime, gaurdTime, interFrameTime, channel, sessionVars>>
      /\ UNCHANGED <<file, slotArray, numRows, numCols>>
  BY DEF FillTable, timeVars
<1>2. file \in Files /\ file # NoFile /\ numCols \in Nat \ {0}
  BY <1>1 DEF FileInv
<1>3. ASSUME NEW slot \in Positions, Marking(slotArray, slot) # {}
      PROVE  slotArray[Min(Marking(slotArray, slot))].node \in Macs
  <2> DEFINE i == Min(Marking(slotArray, slot))
  <2>1. i \in 1 .. Len(slotArray)
    BY <1>3, MarkedRow DEF Marking
  <2> HIDE DEF i
  <2>2. slotArray[i] = file[i] /\ file[i].node # NoId /\ i \in 1 .. Len(file)
    BY <1>1, <2>1 DEF FileInv
  <2>3. file[i].node \in Macs \cup {NoId}
    BY <1>2, <2>2, FileIsSeq, RowHasFields
  <2> QED BY <2>2, <2>3 DEF i
<1>4. TableInv'
  BY <1>1, <1>2, <1>3 DEF FileInv, CtrlInv, TableInv
<1>5. CtrlInv'
  BY <1>1, <1>4, SetupKeeps DEF FileInv
<1>6. FileInv'
  BY <1>1, <1>2, <1>5 DEF FileInv
<1>7. FitsInv'
  BY <1>1 DEF FitsInv
<1> QED BY <1>6, <1>7

LEMMA FileStep == FileInv /\ FitsInv /\ [FileNext]_allVars => FileInv' /\ FitsInv'
<1> SUFFICES ASSUME FileInv, FitsInv, [FileNext]_allVars PROVE FileInv' /\ FitsInv'
  OBVIOUS
<1>1. CASE ReadRow
  BY <1>1, ReadRowKeeps
<1>2. CASE EndOfFile
  BY <1>2, EndOfFileKeeps
<1>3. CASE FillTable
  BY <1>3, FillTableKeeps
<1>4. CASE (Next \/ UNCHANGED vars) /\ UNCHANGED fileVars
  <2>1. CtrlInv'
    BY <1>4, NextKeeps, VarsKeep DEF FileInv
  <2>2. UNCHANGED <<file, parse, slotArray, numRows, numCols>>
    BY <1>4 DEF fileVars
  <2> QED BY <2>1, <2>2 DEF FileInv, FitsInv
<1> QED BY <1>1, <1>2, <1>3, <1>4 DEF FileNext, allVars

LEMMA FileInvariance == FileSpec => [](FileInv /\ FitsInv)
BY FileStart, FileStep, PTL DEF FileSpec

-----------------------------------------------------------------------------
(* Theorems *)

\* The windows that the centralized controller grants never overlap: a session
\* comes no sooner than a guard interval after the end of the window before it,
\* whatever table was set up and however many of its slots have been merged.
THEOREM WindowsGuarded == FileSpec => []GuardKept
<1>1. FileInv => GuardKept
  BY DEF FileInv, CtrlInv, SessionInv, GuardKept
<1> QED BY <1>1, FileInvariance, PTL

\* In a frame every MAC is granted the time of the slots that the table gives it.
THEOREM FrameIsGranted == FileSpec => []SlotsGranted
<1>1. FileInv => SlotsGranted
  <2> SUFFICES ASSUME FileInv, session # NoEvent, session.slot = 0,
                      NEW k \in Macs, granted[k] > 0, NEW m \in Macs
               PROVE  granted[m] = slotTime *
                        Cardinality({s \in DOMAIN slotPtrs : s < total /\ slotPtrs[s] = m})
    BY DEF SlotsGranted
  <2>1. \A n \in Macs : granted[n] = Due(n, total)
    BY DEF FileInv, CtrlInv, SessionInv
  <2> QED BY <2>1 DEF Due, SlotsBefore
<1> QED BY <1>1, FileInvariance, PTL

\* The controller reads a slot that has no MAC only with a table that does not
\* name one for each slot of the frame.
THEOREM FailsOnlyWithoutTable == FileSpec => []FailsOnlyUnassigned
<1>1. FileInv => FailsOnlyUnassigned
  BY DEF FileInv, CtrlInv, SessionInv, FailsOnlyUnassigned
<1> QED BY <1>1, FileInvariance, PTL

\* A file that fits a frame is read without loss, and the table made of it names
\* the node of the row that marks the slot, for every slot.
THEOREM FileIsReadWhole == FileSpec => FileFillsFrame
<1> DEFINE Filled ==
      file # NoFile /\ FitsFrame(file) =>
        /\ parse' # "failed"
        /\ FillTable =>
             /\ Assigned'
             /\ \A i \in 1 .. Len(file) : \A slot \in 0 .. total' - 1 :
                  i \in Marking(file, slot) => slotPtrs'[slot] = file[i].node
<1>1. ASSUME FileInv, FitsInv, FitsInv', [FileNext]_allVars
      PROVE  [Filled]_allVars
  <2>1. SUFFICES ASSUME file # NoFile, FitsFrame(file), ~UNCHANGED allVars
                 PROVE  Filled
    OBVIOUS
  <2>2. file' = file
    BY <1>1 DEF FileNext, ReadRow, EndOfFile, FillTable, fileVars, allVars
  <2>3. parse' # "failed"
    BY <1>1, <2>1, <2>2 DEF FitsInv
  <2>4. ASSUME FillTable
        PROVE  /\ Assigned'
               /\ \A i \in 1 .. Len(file) : \A slot \in 0 .. total' - 1 :
                    i \in Marking(file, slot) => slotPtrs'[slot] = file[i].node
    <3> DEFINE k == Len(file[1].fields)
    <3>1. /\ total' = k /\ slotArray = file
          /\ slotPtrs' = [slot \in {s \in Positions : Marking(file, s) # {}} |->
                            file[Min(Marking(file, slot))].node]
      BY <1>1, <2>1, <2>4 DEF FitsInv, FillTable
    <3>2. file \in Files /\ file # <<>>
      BY <1>1, <2>1 DEF FileInv, FitsFrame
    <3>3. Len(file) \in Nat /\ 1 \in 1 .. Len(file)
      BY <3>2, FileIsSeq, EmptySeq
    <3>4. k \in Nat /\ 0 .. k - 1 \subseteq Positions
      BY <3>2, <3>3, FileIsSeq
    <3>5. \A slot \in 0 .. k - 1 : \E i : Marking(file, slot) = {i}
      <4> TAKE slot \in 0 .. k - 1
      <4>1. Cardinality(Marking(file, slot)) = 1
        BY <2>1 DEF FitsFrame
      <4>2. IsFiniteSet(1 .. Len(file))
        BY <3>3, FS_Interval
      <4>3. IsFiniteSet(Marking(file, slot))
        BY <4>2, FS_Subset DEF Marking
      <4> QED BY <4>1, <4>3, FS_Singleton
    <3>6. \A slot \in Positions : Marking(file, slot) # {} => slot \in 0 .. k - 1
      <4> SUFFICES ASSUME NEW slot \in Positions, NEW i \in Marking(file, slot)
                   PROVE  slot \in 0 .. k - 1
        OBVIOUS
      <4>1. i \in 1 .. Len(file) /\ slot < Len(file[i].fields)
        BY DEF Marking
      <4>2. Len(file[i].fields) = k
        BY <2>1, <4>1 DEF FitsFrame
      <4> QED BY <3>4, <4>1, <4>2, SlotNumbers
    <3> HIDE DEF k
    <3>7. Assigned'
      <4>1. {s \in Positions : Marking(file, s) # {}} = 0 .. k - 1
        BY <3>4, <3>5, <3>6
      <4> QED BY <3>1, <4>1 DEF Assigned
    <3>8. ASSUME NEW i \in 1 .. Len(file), NEW slot \in 0 .. k - 1, i \in Marking(file, slot)
          PROVE  slotPtrs'[slot] = file[i].node
      <4>1. Marking(file, slot) = {i}
        BY <3>5, <3>8
      <4>2. Min(Marking(file, slot)) = i
        BY <4>1, MarkedRow
      <4>3. slot \in {s \in Positions : Marking(file, s) # {}}
        BY <3>4, <4>1
      <4> QED BY <3>1, <4>2, <4>3
    <3> QED BY <3>1, <3>7, <3>8
  <2> QED BY <2>3, <2>4
<1> QED BY <1>1, FileInvariance, FileStep, PTL DEF FileSpec, FileFillsFrame
=============================================================================
