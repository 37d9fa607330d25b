\* Two requests that overlap after the submission is answered, degraded modes, crashes.
CONSTANTS
  Orders = {o1}
  Requests = {r1, r2}
  Quantities = {3}
  Amendments = {5}
  Kinds = {"limit"}
  SliceCounts = {3}
  RoundCounts = {2}
  Backends <- CacheReachable
  Faults = {"kafka"}
  Crashes = TRUE
  ClientsWait = TRUE
SPECIFICATION Spec
CHECK_DEADLOCK FALSE
SYMMETRY Interchangeable
INVARIANT CancelInvalidates
PROPERTY SettledStays
