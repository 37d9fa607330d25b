\* One order and one request, every failure of the database, crashes.
\* A market order does nothing that a limit order cannot do.
CONSTANTS
  Orders = {o1}
  Requests = {r1}
  Quantities = {3}
  Amendments = {5}
  Kinds = {"limit", "vwap", "iceberg"}
  SliceCounts = {3}
  RoundCounts = {2}
  Backends <- AllReachable
  Faults = {"db"}
  Crashes = TRUE
  ClientsWait = FALSE
SPECIFICATION Spec
CHECK_DEADLOCK FALSE
INVARIANT TypeOK
INVARIANT Safe
INVARIANT NoOverfill
INVARIANT FillsAccounted
INVARIANT RefusedNeverTrades
INVARIANT Agreement
INVARIANT Coherent
PROPERTY ImplementsExecution
