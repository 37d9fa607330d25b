----------------------------- MODULE MCAnalytics -----------------------------
(***************************************************************************)
(* Instances of Analytics for TLC.                                         *)
(***************************************************************************)
EXTENDS Analytics

Seeded == {[Zero EXCEPT !.trades = 2, !.fills = 1, !.orders = 2]}
Rounds == {One({"trades", "orders", "fills"}), One({"trades", "cancels"}),
           One({"trades", "orders", "replaces"})}
=============================================================================
