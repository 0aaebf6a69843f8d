------------------------- MODULE ContentionFreeMedium -------------------------
(***************************************************************************)
(* What static TDMA promises its users: a medium that one station holds at *)
(* a time, handed out in the fixed order of the station numbers, with no   *)
(* station ever left out.                                                  *)
(***************************************************************************)
EXTENDS Integers

CONSTANTS Stations,  \* how many stations share the medium
          Nobody     \* the holder of a medium that is idle

VARIABLES holder, turn
mediumVars == <<holder, turn>>

MediumInit == holder = Nobody /\ turn = 0

Acquire ==
  /\ holder = Nobody
  /\ holder' = turn
  /\ turn' = (turn + 1) % Stations

Release == holder # Nobody /\ holder' = Nobody /\ UNCHANGED turn

MediumNext == Acquire \/ Release

Medium == MediumInit /\ [][MediumNext]_mediumVars
FairMedium == Medium /\ WF_mediumVars(MediumNext)
=============================================================================
