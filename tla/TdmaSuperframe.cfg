SPECIFICATION FairSpec
CONSTANTS
  Node = {0, 1, 2}
  TotalSlots = 3
  DynamicInterval = 1
  SlotTime = 1200
  ReserveSlotTime = 500
  GaurdTime = 50
  InterFrameTime = 0
  StartDelay = 1
  EntryTime = 180
  EmptyTime = 10
  PropagationTimes = {3}
  Reach <- AllHear
  HeaderTypes = {"ROUTE", "DATA"}
  TableSizes = {0, 1, 2}
  NoFreeSlot = 100
  SlotsOver = 200
  NoOwner = NoOwner
INVARIANTS TypeOK InStep ContentionFree AirClear ReservationAgreed NoSlotIdle NothingInvented
PROPERTIES ReservationKept EveryNodeTransmits DynamicFramesRecur
