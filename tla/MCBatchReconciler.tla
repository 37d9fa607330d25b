-------------------------- MODULE MCBatchReconciler --------------------------
(***************************************************************************)
(* An instance of BatchReconciler for TLC.                                 *)
(***************************************************************************)
EXTENDS BatchReconciler
=============================================================================
