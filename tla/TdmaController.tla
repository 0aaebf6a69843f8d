---------------------------- MODULE TdmaController ----------------------------
(***************************************************************************)
(* The centralized controller (ns3::TdmaController) that the dynamic one   *)
(* replaced: one event chain for all MACs, over a table of slots that is   *)
(* filled before the start.  Consecutive slots of one MAC are granted as   *)
(* one window.                                                             *)
(***************************************************************************)
EXTENDS Integers, FiniteSets, FiniteSetsExt

CONSTANTS
  Macs,            \* the MACs that may be given slots
  Positions,       \* bound: slot positions that AddTdmaSlot is called with
  Totals,          \* bound: numbers of slots that SetTotalSlotsAllowed is called with
  DefaultSlotTime, DefaultGaurdTime,  \* the attributes' default values
  SlotTimes, GaurdTimes,              \* bounds: the times that SetSlotTime,
  InterFrameTimes,                    \*   SetGaurdTime, ... are called with
  Ranges,          \* bound: MaxRange, in meters, of the channels to choose from
  StartDelay,      \* from Start to StartTdmaSessions
  NoChannel,       \* m_channel = 0
  NoEvent          \* no session is scheduled

ASSUME SlotNumbers ==
  Positions \subseteq Nat /\ IsFiniteSet(Positions) /\ Totals \subseteq Nat \ {0}
ASSUME TimesAreNatural ==
  /\ {DefaultSlotTime} \cup SlotTimes \subseteq Nat \ {0}
  /\ {DefaultGaurdTime} \cup GaurdTimes \cup InterFrameTimes \subseteq Nat
  /\ StartDelay \in Nat
ASSUME RangesAreNatural == Ranges \subseteq Nat /\ NoChannel \notin Ranges

VARIABLES
  slotPtrs,     \* m_slotPtrs: from some of the positions to MACs
  total,        \* m_totalSlotsAllowed, not initialized by the constructor
  slotTime, gaurdTime, interFrameTime,  \* m_slotTime, m_gaurdTime, m_tdmaInterFrameTime
  channel,      \* m_channel: its range, all that is asked of it
  activeEpoch,  \* m_activeEpoch
  session,      \* the pending ScheduleTdmaSession event
  window,       \* what is left of the last StartTransmission of each MAC
  granted,      \* history: the time each MAC was granted in this frame
  crashed       \* the program read the entry of a slot that has none

tableVars == <<slotPtrs, total>>
timeVars == <<slotTime, gaurdTime, interFrameTime, channel>>
sessionVars == <<activeEpoch, session, window, granted, crashed>>
vars == <<tableVars, timeVars, sessionVars>>

NoSlots == [pos \in {} |-> NoEvent]

Init ==
  /\ slotPtrs = NoSlots
  /\ total \in Totals
  /\ slotTime = DefaultSlotTime /\ gaurdTime = DefaultGaurdTime /\ interFrameTime = 0
  /\ channel = NoChannel
  /\ activeEpoch = FALSE
  /\ session = NoEvent
  /\ window = [m \in Macs |-> 0]
  /\ granted = [m \in Macs |-> 0]
  /\ crashed = FALSE

-----------------------------------------------------------------------------
(* Setting up: nothing is changed after the start *)

\* std::map::insert: a slot that is taken keeps its MAC.
AddTdmaSlot(pos, m) ==
  /\ ~activeEpoch
  /\ slotPtrs' = IF pos \in DOMAIN slotPtrs THEN slotPtrs
                 ELSE [p \in DOMAIN slotPtrs \cup {pos} |->
                         IF p = pos THEN m ELSE slotPtrs[p]]
  /\ UNCHANGED <<total, timeVars, sessionVars>>

\* A new number of slots empties the table.
SetTotalSlotsAllowed(slots) ==
  /\ ~activeEpoch
  /\ total' = slots
  /\ slotPtrs' = NoSlots
  /\ UNCHANGED <<timeVars, sessionVars>>

SetSlotTime(t) ==
  /\ ~activeEpoch
  /\ slotTime' = t
  /\ UNCHANGED <<tableVars, gaurdTime, interFrameTime, channel, sessionVars>>

SetInterFrameTimeInterval(t) ==
  /\ ~activeEpoch
  /\ interFrameTime' = t
  /\ UNCHANGED <<tableVars, slotTime, gaurdTime, channel, sessionVars>>

\* The guard interval does not follow: it is set by SetGaurdTime only.
SetChannel(range) ==
  /\ ~activeEpoch
  /\ channel' = range
  /\ UNCHANGED <<tableVars, slotTime, gaurdTime, interFrameTime, sessionVars>>

\* Whole microseconds in which a signal travels the range, rounded down: none
\* at all below 300 meters.
PropagationTime(range) == range \div 300

\* With a channel the time asked for is not used.
SetGaurdTime(t) ==
  /\ ~activeEpoch
  /\ gaurdTime' = IF channel = NoChannel THEN t ELSE PropagationTime(channel)
  /\ UNCHANGED <<tableVars, slotTime, interFrameTime, channel, sessionVars>>

Start ==
  /\ ~activeEpoch
  /\ activeEpoch' = TRUE
  /\ session' = [slot |-> 0, left |-> StartDelay]
  /\ UNCHANGED <<tableVars, timeVars, window, granted, crashed>>

-----------------------------------------------------------------------------
(* The sessions *)

\* The slots from "slot" on that follow each other and belong to one MAC.
Consecutive(slot, n) ==
  \A s \in slot .. slot + n - 1 : s \in DOMAIN slotPtrs /\ slotPtrs[s] = slotPtrs[slot]

\* Mutant: the slot that ended the loop is counted.
SlotsAllottedOneMore(slot) ==
  Max({n \in 1 .. Cardinality(DOMAIN slotPtrs) : Consecutive(slot, n)}) + 1

SlotsAllotted(slot) == Max({n \in 1 .. Cardinality(DOMAIN slotPtrs) : Consecutive(slot, n)})

\* Mutants: the guard time is left out; the frame ends one slot early.
NextSessionUnguarded(slot, n) ==
  IF slot + n = total
  THEN [slot |-> 0, left |-> slotTime * n + interFrameTime]
  ELSE [slot |-> slot + n, left |-> slotTime * n]
NextSessionEarly(slot, n) ==
  IF slot + n + 1 = total
  THEN [slot |-> 0, left |-> gaurdTime + slotTime * n + interFrameTime]
  ELSE [slot |-> slot + n, left |-> gaurdTime + slotTime * n]

\* After the last slot the frame starts over; a window that ends beyond the
\* last slot is not recognized as the last one.
NextSession(slot, n) ==
  IF slot + n = total
  THEN [slot |-> 0, left |-> gaurdTime + slotTime * n + interFrameTime]
  ELSE [slot |-> slot + n, left |-> gaurdTime + slotTime * n]

\* The MAC of the slot gets one window for all its consecutive slots.
ScheduleTdmaSession ==
  /\ ~crashed
  /\ session # NoEvent /\ session.left = 0
  /\ session.slot \in DOMAIN slotPtrs
  /\ LET slot == session.slot
         m == slotPtrs[slot]
         n == SlotsAllotted(slot)
     IN  /\ window' = [window EXCEPT ![m] = slotTime * n]
         /\ granted' = [k \in Macs |-> (IF slot = 0 THEN 0 ELSE granted[k])
                                       + (IF k = m THEN slotTime * n ELSE 0)]
         /\ session' = NextSession(slot, n)
  /\ UNCHANGED <<tableVars, timeVars, activeEpoch, crashed>>

\* A slot without a MAC: the end of the map is dereferenced.
SlotMissing ==
  /\ ~crashed
  /\ session # NoEvent /\ session.left = 0
  /\ session.slot \notin DOMAIN slotPtrs
  /\ crashed' = TRUE
  /\ UNCHANGED <<tableVars, timeVars, activeEpoch, session, window, granted>>

\* The clock moves to the next session, or to the end of a window before it.
Advance ==
  /\ ~crashed
  /\ session # NoEvent /\ session.left > 0
  /\ LET d == Min({session.left} \cup {window[m] : m \in {k \in Macs : window[k] > 0}})
     IN  /\ session' = [session EXCEPT !.left = @ - d]
         /\ window' = [m \in Macs |-> IF window[m] > d THEN window[m] - d ELSE 0]
  /\ UNCHANGED <<tableVars, timeVars, activeEpoch, granted, crashed>>

Next ==
  \/ \E pos \in Positions : \E m \in Macs : AddTdmaSlot(pos, m)
  \/ \E slots \in Totals : SetTotalSlotsAllowed(slots)
  \/ \E t \in SlotTimes : SetSlotTime(t)
  \/ \E t \in GaurdTimes : SetGaurdTime(t)
  \/ \E t \in InterFrameTimes : SetInterFrameTimeInterval(t)
  \/ \E range \in Ranges : SetChannel(range)
  \/ Start
  \/ ScheduleTdmaSession \/ SlotMissing \/ Advance

\* The simulator executes every event; whoever sets up need not call Start.
Fairness == WF_vars(ScheduleTdmaSession \/ SlotMissing \/ Advance)

Spec == Init /\ [][Next]_vars
FairSpec == Spec /\ Fairness

-----------------------------------------------------------------------------
(* Properties *)

\* The table names a MAC for every slot of the frame, and for no other.
Assigned == DOMAIN slotPtrs = 0 .. total - 1

\* While a window is open the next session is at least a guard interval past
\* its end: windows never overlap, however many slots have been merged.
GuardKept ==
  \A m \in Macs : window[m] > 0 => session.left >= window[m] + gaurdTime

\* When a frame is over, every MAC has been granted the time of all the slots
\* of the frame that the table gives it: merging loses none and adds none.
SlotsGranted ==
  session # NoEvent /\ session.slot = 0 /\ (\E m \in Macs : granted[m] > 0) =>
    \A m \in Macs :
      granted[m] =
        slotTime * Cardinality({s \in DOMAIN slotPtrs : s < total /\ slotPtrs[s] = m})

\* The controller fails only with a table that does not fit the frame.
FailsOnlyUnassigned == crashed => ~Assigned

\* With a table that fits, every MAC that has a slot transmits again and again.
EveryMacServed ==
  \A m \in Macs :
    (activeEpoch /\ Assigned /\ \E s \in DOMAIN slotPtrs : slotPtrs[s] = m)
      ~> (window[m] > 0)
=============================================================================
