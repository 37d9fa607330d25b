------------------------ MODULE BatchReconcilerProofs ------------------------
(***************************************************************************)
(* The rows of batch_jobs, for every number of steps.                      *)
(*                                                                         *)
(* Status and message are kept as the steps go: the invariant is that they *)
(* sum up the results there are at each moment of a cycle, so that they    *)
(* sum up all of them when the row is written.                             *)
(***************************************************************************)
EXTENDS BatchReconciler, TLAPS

Types ==
  /\ phase \in {"down", "asleep", "steps", "storing"}
  /\ results \in Seq(Outcomes)
  /\ error \in Nat
  /\ status \in {"complete", "partial_failure", "failed"}

\* What RowsTell says of the status and the message of results.
SumsUp(st, r, e) ==
  /\ st = (IF Raised([results |-> r]) = {} THEN "complete" ELSE "partial_failure")
  /\ e \in Raised([results |-> r]) \cup {0}
  /\ \A i \in Raised([results |-> r]) : i <= e

GaveUp == status = "failed" /\ results = << >> /\ error = 0

CycleTells ==
  /\ phase = "steps" => Len(results) < Steps /\ SumsUp(status, results, error)
  /\ phase = "storing" => GaveUp \/ (Len(results) = Steps /\ SumsUp(status, results, error))

IInv == Types /\ CycleTells /\ RowsTell

\* What raised before a step and, if it raises, the step itself.
LEMMA RaisedAppend ==
  ASSUME NEW s \in Seq(Outcomes), NEW o \in Outcomes
  PROVE  Raised([results |-> Append(s, o)]) =
           Raised([results |-> s]) \cup (IF o = "error" THEN {Len(s) + 1} ELSE {})
  BY DEF Raised

\* The steps that raised are among those that ran.
LEMMA RaisedInDomain ==
  ASSUME NEW s \in Seq(Outcomes)
  PROVE  \A i \in Raised([results |-> s]) : i \in Nat /\ 1 <= i /\ i <= Len(s)
  BY DEF Raised

\* A step brings the status and the message up to date.
LEMMA StepSumsUp ==
  ASSUME Types, SumsUp(status, results, error), NEW o \in Outcomes, RunStep(o)
  PROVE  SumsUp(status', results', error')
<1> DEFINE before == Raised([results |-> results])
           after == Raised([results |-> results'])
<1>1. results \in Seq(Outcomes) /\ results' = Append(results, o)
  BY DEF Types, RunStep
<1>2. after = before \cup (IF o = "error" THEN {Len(results) + 1} ELSE {})
  BY <1>1, RaisedAppend
<1>3. CASE o = "error"
  <2>1. status' = "partial_failure" /\ error' = Len(results) + 1
    BY <1>1, <1>3 DEF RunStep
  <2>2. \A i \in after : i <= Len(results) + 1
    BY <1>1, <1>2, <1>3, RaisedInDomain
  <2>3. error' \in after
    BY <1>2, <1>3, <2>1
  <2> QED
    BY <2>1, <2>2, <2>3 DEF SumsUp
<1>4. CASE o # "error"
  <2>1. status' = status /\ error' = error /\ after = before
    BY <1>2, <1>4 DEF RunStep
  <2> QED
    BY <2>1 DEF SumsUp
<1> QED
  BY <1>3, <1>4

\* The row that is written tells what the cycle did.
LEMMA StoredRowTells ==
  ASSUME Types, phase = "storing", CycleTells,
         row' = [status |-> status, results |-> results, error |-> error]
  PROVE  RowsTell'
<1>1. Raised(row') = Raised([results |-> results])
  BY DEF Raised
<1>2. CASE GaveUp
  BY <1>2 DEF GaveUp, RowsTell
<1>3. CASE Len(results) = Steps /\ SumsUp(status, results, error)
  BY <1>1, <1>3 DEF SumsUp, RowsTell
<1> QED
  BY <1>2, <1>3 DEF CycleTells

\* A process that has not started has written nothing.
LEMMA IInvInit == Init => IInv
  BY DEF Init, IInv, Types, CycleTells, RowsTell

\* Every step keeps the types.
LEMMA TypesStep == Types /\ Next => Types'
<1> SUFFICES ASSUME Types, Next PROVE Types'
  OBVIOUS
<1>1. CASE Start \/ Kill
  BY <1>1 DEF Types, Start, Kill
<1>2. CASE Begin
  BY <1>2 DEF Types, Begin
<1>3. ASSUME NEW o \in Outcomes, RunStep(o) PROVE Types'
  BY <1>3 DEF Types, RunStep
<1>4. CASE _store_batch_result
  BY <1>4 DEF Types, _store_batch_result
<1> QED
  BY <1>1, <1>2, <1>3, <1>4 DEF Next, Cycle

\* The inductive invariant of the reconciler.
THEOREM ReconcilerInvariant == Spec => []IInv
<1>1. ASSUME IInv, Next PROVE IInv'
  <2>0. Types /\ CycleTells /\ RowsTell /\ Types'
    BY <1>1, TypesStep DEF IInv
  <2>1. ASSUME row' = row PROVE RowsTell'
    BY <2>0, <2>1 DEF RowsTell, Raised
  <2>2. CASE Start \/ Kill
    BY <2>0, <2>1, <2>2 DEF Start, Kill, CycleTells, IInv
  <2>3. CASE Begin
    <3>1. SumsUp("complete", << >>, 0)
      BY DEF SumsUp, Raised
    <3>2. CycleTells'
      BY <2>3, <3>1, ReconcilerAssumption DEF Begin, CycleTells, GaveUp
    <3> QED
      BY <2>0, <2>1, <2>3, <3>2 DEF Begin, IInv
  <2>4. ASSUME NEW o \in Outcomes, RunStep(o) PROVE IInv'
    <3>1. Len(results) < Steps /\ SumsUp(status', results', error')
      BY <2>0, <2>4, StepSumsUp DEF RunStep, CycleTells
    <3>2. Len(results') = Len(results) + 1 /\ Len(results) \in Nat
      BY <2>0, <2>4 DEF RunStep, Types
    <3>3. CycleTells'
      BY <2>4, <3>1, <3>2, ReconcilerAssumption DEF RunStep, CycleTells
    <3> QED
      BY <2>0, <2>1, <2>4, <3>3 DEF RunStep, IInv
  <2>5. CASE _store_batch_result
    <3>1. CycleTells'
      BY <2>5 DEF _store_batch_result, CycleTells
    <3>2. RowsTell'
      BY <2>0, <2>1, <2>5, StoredRowTells DEF _store_batch_result
    <3> QED
      BY <2>0, <3>1, <3>2 DEF IInv
  <2> QED
    BY <1>1, <2>2, <2>3, <2>4, <2>5 DEF Next, Cycle
<1>2. ASSUME IInv, UNCHANGED vars PROVE IInv'
  BY <1>2 DEF vars, IInv, Types, CycleTells, GaveUp, SumsUp, RowsTell, Raised
<1> QED
  BY IInvInit, <1>1, <1>2, PTL DEF Spec

\* Every row of batch_jobs is of a whole cycle and sums it up, or of a cycle that
\* gave up: for every number of steps, wherever the process is killed.
THEOREM RowsAreOfWholeCycles == Spec => []RowsTell
<1>1. IInv => RowsTell
  BY DEF IInv
<1> QED
  BY ReconcilerInvariant, <1>1, PTL

\* Every step keeps the results within the number of steps.
LEMMA WithinSteps == IInv /\ TypeOK /\ [Next]_vars => TypeOK'
<1> SUFFICES ASSUME IInv, TypeOK, [Next]_vars PROVE TypeOK'
  OBVIOUS
<1>0. Steps \in Nat \ {0} /\ HasPool \subseteq BOOLEAN
  BY ReconcilerAssumption
<1>1. CASE Start \/ Kill
  BY <1>0, <1>1 DEF TypeOK, Start, Kill
<1>2. CASE Begin
  BY <1>0, <1>2 DEF TypeOK, Begin
<1>3. ASSUME NEW o \in Outcomes, RunStep(o) PROVE TypeOK'
  <2>1. /\ results \in Seq(Outcomes) /\ Len(results) < Steps
        /\ results' = Append(results, o)
    BY <1>3 DEF IInv, CycleTells, RunStep, TypeOK
  <2>2. results' \in Seq(Outcomes) /\ Len(results') \in Nat /\ Len(results') <= Steps
    BY <1>0, <2>1
  <2>3. error' \in 0 .. Steps
    BY <1>0, <1>3, <2>2 DEF RunStep, TypeOK
  <2> QED
    BY <1>3, <2>2, <2>3 DEF RunStep, TypeOK
<1>4. CASE _store_batch_result
  BY <1>4 DEF TypeOK, _store_batch_result
<1>5. CASE UNCHANGED vars
  BY <1>5 DEF TypeOK, vars
<1> QED
  BY <1>1, <1>2, <1>3, <1>4, <1>5 DEF Next, Cycle

\* A cycle never has more results than steps, and its message names one of them,
\* for every number of steps.
THEOREM ReconcilerTypes == Spec => []TypeOK
<1>1. Init => TypeOK
  <2> SUFFICES ASSUME Init PROVE TypeOK
    OBVIOUS
  <2>1. results = << >> /\ error = 0 /\ Steps \in Nat
    BY ReconcilerAssumption DEF Init
  <2>2. results \in Seq(Outcomes) /\ Len(results) <= Steps /\ error \in 0 .. Steps
    BY <2>1
  <2> QED
    BY <2>2 DEF Init, TypeOK
<1> QED
  BY <1>1, WithinSteps, ReconcilerInvariant, PTL DEF Spec
=============================================================================
