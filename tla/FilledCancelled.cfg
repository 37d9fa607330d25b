\* A cancel that read the row before the fill.
CONSTANTS
  Orders = {o1}
  Requests = {r1}
  Quantities = {3}
  Amendments = {5}
  Kinds = {"market"}
  SliceCounts = {3}
  RoundCounts = {2}
  Backends <- AllReachable
  Faults = {}
  Crashes = FALSE
  ClientsWait = FALSE
SPECIFICATION Spec
CHECK_DEADLOCK FALSE
PROPERTY FilledNeverCancelled
