SPECIFICATION FairSpec
CONSTANTS
  short = short
  long = long
  Packet = {short, long}
  TxTime <- TxTimes
  SlotTime = 4
  FrameTime = 6
  MaxSize = 2
  MaxDelay = 19
  NoSend = NoSend
INVARIANTS SendsInsideSlot WithinSlot
PROPERTIES SendsWhatItPeeked QueueIsServed
