SPECIFICATION Spec
CONSTANTS
  short = short
  long = long
  Packet = {short, long}
  TxTime <- TxTimes
  SlotTime = 4
  FrameTime = 6
  MaxSize = 3
  MaxDelay = 8
  NoSend = NoSend
INVARIANT WithinSlot
CHECK_DEADLOCK FALSE
