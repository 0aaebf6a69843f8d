SPECIFICATION FileSpec
CONSTANTS
  Macs = {m1, m2}
  Positions = {0, 1, 2, 3, 4}
  Totals = {2, 4}
  DefaultSlotTime = 1100
  DefaultGaurdTime = 100
  SlotTimes = {700}
  GaurdTimes = {50}
  InterFrameTimes = {200}
  Ranges = {250, 1000}
  NoChannel = NoChannel
  StartDelay = 1
  NoEvent = NoEvent
  Files <- SampleFiles
  NoId = NoId
  NoFile = NoFile
  m1 = m1
  m2 = m2
INVARIANTS GuardKept SlotsGranted FailsOnlyUnassigned
PROPERTIES EveryMacServed FileFillsFrame
CHECK_DEADLOCK FALSE
