-------------------------- MODULE MCEventPipeline --------------------------
(***************************************************************************)
(* Instances of EventPipeline for TLC.                                     *)
(***************************************************************************)
EXTENDS EventPipeline

\* A trade may be an object or not, and a tick is one whose key may be anything: it
\* does what an object does, and may raise where that would fail.  Text and
\* mistyped fields do nothing to a service that the others do not do too.
OpenTrades == [t \in Inputs |-> IF t = "market-data" THEN {"odd_key"} ELSE {"object", "scalar"}]
=============================================================================
