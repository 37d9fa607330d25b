\* Fair event loop, failing database: executions end, rows leave pending, reads converge.
CONSTANTS
  Orders = {o1}
  Requests = {r1}
  Quantities = {3}
  Amendments = {5}
  Kinds = {"limit", "iceberg"}
  SliceCounts = {3}
  RoundCounts = {2}
  Backends <- AllReachable
  Faults = {"db"}
  Crashes = FALSE
  ClientsWait = FALSE
SPECIFICATION FairSpec
CHECK_DEADLOCK FALSE
INVARIANT CountersAddUp
PROPERTY ExecutionsEnd
PROPERTY ReadsConverge
PROPERTY NoneStaysPending
