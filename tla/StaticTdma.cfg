SPECIFICATION FairSpec
CONSTANTS
  Node = {0, 1, 2, 3, 4}
  TotalSlots = 5
  DynamicInterval = 0
  SlotTime = 1200
  ReserveSlotTime = 500
  GaurdTime = 50
  InterFrameTime = 0
  StartDelay = 1
  EntryTime = 144
  EmptyTime = 8
  PropagationTimes = {3}
  Reach <- AllHear
  HeaderTypes = {"ROUTE"}
  TableSizes = {0, 1, 2}
  NoFreeSlot = 100
  SlotsOver = 200
  NoOwner = NoOwner
PROPERTY ImplementsMedium
