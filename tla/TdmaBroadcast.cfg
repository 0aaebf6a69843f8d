SPECIFICATION FairSpec
CONSTANTS
  Node = {1, 2, 3}
  Reach <- Near
  SeqEnd = 2
  Window = 50
  TTLEnd = 1
  Expiring = {2}
  QueueLimit = 4
  UnsetTypes = {"DATA", "ROUTE"}
  Bridged = {7}
  Forgotten <- OneForgets
  MaxAnnounced = 1
  MaxPackets = 2
INVARIANTS HandedUpOnce CountersAddUp BroadcastComplete HopsBounded
PROPERTIES IdleRelaysSend RepeatsAreRepeats BroadcastEnds
CHECK_DEADLOCK FALSE
