SPECIFICATION Spec
CONSTANTS
  Neighbour = {1, 3, 7}
  Sizes = {0, 7}
  Timeout = 2
  Bridging = FALSE
PROPERTY TimedOutForgotten
CHECK_DEADLOCK FALSE
