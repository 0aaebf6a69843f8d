SPECIFICATION Spec
CONSTANTS
  Node = {0, 1}
  TotalSlots = 2
  DynamicInterval = 1
  SlotTime = 1200
  ReserveSlotTime = 500
  GaurdTime = 50
  InterFrameTime = 0
  StartDelay = 1
  EntryTime = 180
  EmptyTime = 10
  PropagationTimes = {3}
  Reach <- AllHear
  HeaderTypes = {"ROUTE"}
  TableSizes = {0, 1}
  NoFreeSlot = 100
  SlotsOver = 200
  NoOwner = NoOwner
INVARIANT DynamicExclusive
