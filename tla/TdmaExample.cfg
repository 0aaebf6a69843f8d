SPECIFICATION Spec
CONSTANTS
  Scripts = {"scratch", "examples"}
  NodeCounts = {0, 1, 2}
  SinkCounts = {0, 1, 2, 3}
  TotalTimes = {25, 100, 200}
  UintSize = 256
  Starts <- DrawnStarts
  NumPackets = 3
  Intervals <- PacketIntervals
  Delays = {1, 30}
  ReportInterval = 150
  SampleInterval = 25
INVARIANTS RowsAddUp ResultsComplete FailsOnlySinks
PROPERTY RunEnds
CHECK_DEADLOCK FALSE
