SPECIFICATION QueueSpec
CONSTANTS
  Packet = {p1, p2}
  NoPacket = NoPacket
  MaxSizes = {0, 2, 3}
  MaxDelays = {1, 3}
  InitialSize = 3
  InitialDelay = 3
  AgeCap = 3
  DropsEnd = 5
INVARIANT SizeAgrees
PROPERTY ImplementsDropTail
