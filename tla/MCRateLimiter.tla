---------------------------- MODULE MCRateLimiter ----------------------------
(* Instances of RateLimiter for TLC. *)
EXTENDS RateLimiter, TLC

\* The clients are interchangeable.
Interchangeable == Permutations(Clients)
=============================================================================
