\* Two clients, windows of two instants, two requests per window.
CONSTANTS
  Clients = {c1, c2}
  RATE_LIMIT_WINDOW = 2
  RATE_LIMIT_MAX = 2
  MaxTime = 7
  MaxCount = 3
SPECIFICATION Spec
SYMMETRY Interchangeable
CHECK_DEADLOCK FALSE
INVARIANT AtMostDouble
INVARIANT Limited
PROPERTY RefusedWhenUsedUp
