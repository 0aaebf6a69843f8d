SPECIFICATION Spec
CONSTANTS
  Neighbour = {1, 3, 7, 15}
  Sizes = {0, 15}
  Timeout = 2
  Bridging = TRUE
INVARIANTS FreshKnown ForwardsByRank
CHECK_DEADLOCK FALSE
