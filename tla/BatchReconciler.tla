--------------------------- MODULE BatchReconciler ---------------------------
(***************************************************************************)
(* The batch reconciler (services/batch-reconciler/main.py): a cycle every *)
(* five minutes, of five steps whose failures do not stop the rest, and    *)
(* one row per cycle in batch_jobs, written when the cycle is over.        *)
(*                                                                         *)
(* What a step compares is drawn at random: a step is reduced to whether   *)
(* it returns or raises.  A cycle is named after the second it starts in,  *)
(* which is a new one every time; only the last row is kept here.          *)
(***************************************************************************)
EXTENDS Integers, Sequences

CONSTANTS
  Steps,      \* the number of steps
  HasPool,    \* the values of pool: whether the database was reached at the start
  Faults,     \* {"db"} if an INSERT may fail, or {}
  MaxStarts   \* bound: the number of times that the process is started

Outcomes == {"ok", "error"}
NoRow == [status |-> "none", results |-> << >>, error |-> 0]

ASSUME ReconcilerAssumption ==
  /\ Steps \in Nat \ {0}
  /\ HasPool \subseteq BOOLEAN
  /\ Faults \subseteq {"db"}

VARIABLES
  phase,    \* what run() does
  pool,     \* whether it has a connection pool
  results,  \* the outcomes of the steps so far
  status,   \* overall_status
  error,    \* error_message: the step it names, or 0
  row,      \* the last row of batch_jobs
  starts

vars == <<phase, pool, results, status, error, row, starts>>

Init ==
  /\ phase = "down"
  /\ pool = FALSE
  /\ results = << >>
  /\ status = "complete"
  /\ error = 0
  /\ row = NoRow
  /\ starts = 0

\* The pool is created once; without it the process runs on and stores nothing.
Start ==
  /\ phase = "down"
  /\ starts < MaxStarts
  /\ starts' = starts + 1
  /\ pool' \in HasPool
  /\ phase' = "asleep"
  /\ UNCHANGED <<results, status, error, row>>

\* The process is killed, between any two of its calls.
Kill ==
  /\ phase # "down"
  /\ phase' = "down"
  /\ UNCHANGED <<pool, results, status, error, row, starts>>

\* run_reconciliation_cycle: one in a hundred gives up before the first step.
Begin ==
  /\ phase = "asleep"
  /\ results' = << >>
  /\ error' = 0
  /\ \/ status' = "failed" /\ phase' = "storing"
     \/ status' = "complete" /\ phase' = "steps"
  /\ UNCHANGED <<pool, row, starts>>

\* Faulty variant: the first step that raises ends the cycle.
StopAtError(outcome) ==
  /\ phase = "steps"
  /\ results' = Append(results, outcome)
  /\ IF outcome = "error"
     THEN status' = "partial_failure" /\ error' = Len(results')
     ELSE UNCHANGED <<status, error>>
  /\ phase' = IF outcome = "error" \/ Len(results') = Steps THEN "storing" ELSE phase
  /\ UNCHANGED <<pool, row, starts>>

\* Faulty variant: steps are numbered from 2.
NumberedFromTwo(outcome) ==
  /\ phase = "steps"
  /\ results' = Append(results, outcome)
  /\ IF outcome = "error"
     THEN status' = "partial_failure" /\ error' = Len(results') + 1
     ELSE UNCHANGED <<status, error>>
  /\ phase' = IF Len(results') = Steps THEN "storing" ELSE phase
  /\ UNCHANGED <<pool, row, starts>>

\* The message of a step that raises replaces that of an earlier one.
RunStep(outcome) ==
  /\ phase = "steps"
  /\ results' = Append(results, outcome)
  /\ IF outcome = "error"
     THEN status' = "partial_failure" /\ error' = Len(results')
     ELSE UNCHANGED <<status, error>>
  /\ phase' = IF Len(results') = Steps THEN "storing" ELSE phase
  /\ UNCHANGED <<pool, row, starts>>

\* Faulty variant: the INSERT is tried until it succeeds.
StoreUntilDone ==
  /\ phase = "storing"
  /\ pool /\ Faults = {}
  /\ phase' = "asleep"
  /\ row' = [status |-> status, results |-> results, error |-> error]
  /\ UNCHANGED <<pool, results, status, error, starts>>

\* Without a pool nothing is stored; a failure is logged, and the sleep follows.
_store_batch_result ==
  /\ phase = "storing"
  /\ phase' = "asleep"
  /\ \/ pool /\ row' = [status |-> status, results |-> results, error |-> error]
     \/ (~pool \/ "db" \in Faults) /\ row' = row
  /\ UNCHANGED <<pool, results, status, error, starts>>

Cycle == Begin \/ (\E outcome \in Outcomes : RunStep(outcome)) \/ _store_batch_result

Next == Start \/ Kill \/ Cycle

Spec == Init /\ [][Next]_vars

\* The steps and the INSERT end, and so does the sleep.
FairSpec == Spec /\ WF_vars(Cycle)

-----------------------------------------------------------------------------
(* Properties *)

TypeOK ==
  /\ phase \in {"down", "asleep", "steps", "storing"}
  /\ pool \in BOOLEAN
  /\ results \in Seq(Outcomes) /\ Len(results) <= Steps
  /\ status \in {"complete", "partial_failure", "failed"}
  /\ error \in 0 .. Steps

\* A row is of a whole cycle, whenever the process was killed: it has a result of
\* every step, says "partial_failure" if and only if one of them raised, and
\* names the last that did; or it is of a cycle that gave up and has none.
Raised(r) == {i \in DOMAIN r.results : r.results[i] = "error"}
RowsTell ==
  row # NoRow =>
    \/ row.status = "failed" /\ row.results = << >> /\ row.error = 0
    \/ /\ Len(row.results) = Steps
       /\ row.status = (IF Raised(row) = {} THEN "complete" ELSE "partial_failure")
       /\ row.error \in Raised(row) \cup {0}
       /\ \A i \in Raised(row) : i <= row.error

\* As long as it is not killed the reconciler ends cycle after cycle, whatever
\* step raises and although rows cannot be stored.
CyclesGoOn ==
  <>[](phase # "down") => []<>(phase = "storing") /\ []<>(phase = "asleep")
=============================================================================
