SPECIFICATION FairSpec
CONSTANTS
  Node = {1, 2, 3}
  InRange <- AllHear
  Broadcast = Broadcast
  Group = Group
  TTLEnd = 1
  HeaderTypes = {"ROUTE", "DATA"}
  Promiscuous = {2}
  Senders = {1}
  Receivers = {3}
  NumPackets = {1, 2}
  MaxPackets = 2
  OtherDests = {3}
  Bridged = {7}
INVARIANT ListedOnce Layered HandedUpBare CountedOnce
PROPERTY SendsAll
CHECK_DEADLOCK FALSE
