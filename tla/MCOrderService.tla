--------------------------- MODULE MCOrderService ---------------------------
(***************************************************************************)
(* Instances of OrderService for TLC.                                      *)
(***************************************************************************)
EXTENDS OrderService, TLC

\* The process finds all of its backends, or it finds the cache but neither the
\* topics nor, perhaps, the database.
AllReachable == {BackendNames}
CacheReachable == {BackendNames, {"db", "redis"}, {"redis"}}

Interchangeable == Permutations(Orders) \cup Permutations(Requests)
=============================================================================
