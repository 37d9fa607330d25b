--------------------------- MODULE AnalyticsProofs ---------------------------
(***************************************************************************)
(* The two stores of the KPIs agree after every round in which nothing     *)
(* failed, for every number of messages, rounds and restarts and whatever  *)
(* is counted in the meantime: between the two calls it is the snapshot,   *)
(* and not the counters, that the row and the document have in common.     *)
(* The counters themselves are what the service started with, what it      *)
(* simulated and what it heard, also of messages whose processing raises   *)
(* between two counters: an invariant that every step keeps, as no other   *)
(* task runs in between.                                                   *)
(***************************************************************************)
EXTENDS Analytics, SequenceTheorems, TLAPS

BothReached == {"postgres", "es"} \subseteq Reached

\* Between the calls the row is the snapshot the document will be.
HalfFlushed == flush = "es" /\ ~failed /\ BothReached => stored = snapshot

IInv == flush \in {"asleep", "postgres", "es"} /\ HalfFlushed /\ SameSnapshot

\* Steps that leave the flush alone disturb nothing.
LEMMA FlushUntouched ==
  ASSUME IInv, UNCHANGED <<flush, snapshot, stored, indexed, failed>>
  PROVE  IInv'
  BY DEF IInv, HalfFlushed, SameSnapshot, BothReached

\* The flush itself: a snapshot is built, written, and indexed.
LEMMA FlushStep == IInv /\ _kpi_flush_loop => IInv'
<1> SUFFICES ASSUME IInv, _kpi_flush_loop PROVE IInv'
  OBVIOUS
<1>1. ASSUME NEW n \in Activity, Collect(n) PROVE IInv'
  <2>1. \/ flush' = "postgres"
        \/ flush' = "asleep" /\ failed'
    BY <1>1 DEF Collect, BuildOrFail
  <2> QED
    BY <2>1 DEF IInv, HalfFlushed, SameSnapshot
<1>2. CASE FlushToPostgres
  <2>1. /\ flush' = "es" /\ snapshot' = snapshot
        /\ ~failed' /\ BothReached => stored' = snapshot
    BY <1>2 DEF FlushToPostgres, Call, BothReached
  <2> QED
    BY <2>1 DEF IInv, HalfFlushed, SameSnapshot, BothReached
<1>3. CASE IndexKpis
  <2>1. /\ flush = "es" /\ flush' = "asleep" /\ stored' = stored
        /\ ~failed' /\ BothReached => ~failed /\ indexed' = snapshot
    BY <1>3 DEF IndexKpis, Call, BothReached
  <2> QED
    BY <2>1 DEF IInv, HalfFlushed, SameSnapshot, BothReached
<1> QED
  BY <1>1, <1>2, <1>3 DEF _kpi_flush_loop

\* A flush that a restart cuts off counts as failed.
LEMMA RestartStep == IInv /\ Restart => IInv'
<1> SUFFICES ASSUME IInv, Restart PROVE IInv'
  OBVIOUS
<1>1. flush' = "asleep" /\ stored' = stored /\ indexed' = indexed
  BY DEF Restart, Boot
<1>2. ~failed' => flush = "asleep" /\ ~failed
  BY DEF Restart
<1> QED
  BY <1>1, <1>2 DEF IInv, HalfFlushed, SameSnapshot

\* The last row of business_kpis and the last document of kpi-snapshots hold the
\* same KPIs after every round without a failure.
THEOREM StoresAgree == Spec => []SameSnapshot
<1>1. Init => IInv
  BY DEF Init, IInv, HalfFlushed, SameSnapshot
<1>2. ASSUME IInv, [Next]_vars PROVE IInv'
  <2>1. ASSUME NEW kind \in MessageKinds, Consume(kind) PROVE IInv'
    BY <1>2, <2>1, FlushUntouched DEF Consume
  <2>2. CASE ConsumerEnds
    BY <1>2, <2>2, FlushUntouched DEF ConsumerEnds
  <2>3. CASE UNCHANGED vars
    BY <1>2, <2>3, FlushUntouched DEF vars
  <2> QED
    BY <1>2, <2>1, <2>2, <2>3, FlushStep, RestartStep DEF Next
<1>3. IInv => SameSnapshot
  BY DEF IInv
<1> QED
  BY <1>1, <1>2, <1>3, PTL DEF Spec

-----------------------------------------------------------------------------
(* Counters and samples *)

\* The tables, and as many samples as are kept or come with trades.
Types ==
  /\ counters \in Counters /\ snapshot \in Counters
  /\ stored \in Counters /\ indexed \in Counters
  /\ seed \in Counters /\ simulated \in Counters
  /\ heard \in [MessageKinds -> Nat]
  /\ samples \in Seq(BOOLEAN) /\ Len(samples) <= Kept + HeardTrades
  /\ HeardAll <= MaxMessages
  /\ consumer \in BOOLEAN /\ failed \in BOOLEAN
  /\ flush \in {"asleep", "postgres", "es"}

\* What is heard of a kind is a number.
LEMMA HeardType == heard \in [MessageKinds -> Nat] => \A k : Heard(k) \in Nat
  BY DEF Heard

\* A message more of one kind.
LEMMA HeardMore ==
  ASSUME heard \in [MessageKinds -> Nat], NEW kind \in MessageKinds,
         heard' = [heard EXCEPT ![kind] = @ + 1]
  PROVE  /\ heard' \in [MessageKinds -> Nat]
         /\ \A k : Heard(k)' = IF k = kind THEN Heard(k) + 1 ELSE Heard(k)
  BY DEF Heard

\* The totals of the trades and of the updates move with the kinds they sum up.
LEMMA TotalsMore ==
  ASSUME heard \in [MessageKinds -> Nat], NEW kind \in MessageKinds,
         heard' = [heard EXCEPT ![kind] = @ + 1]
  PROVE  /\ HeardTrades \in Nat /\ HeardUpdates \in Nat
         /\ HeardTrades' = IF kind \in TradeKinds THEN HeardTrades + 1 ELSE HeardTrades
         /\ HeardUpdates' = IF kind \in Updates THEN HeardUpdates + 1 ELSE HeardUpdates
         /\ HeardAll' = HeardAll + 1
<1>1. kind \in AllKinds
  BY AnalyticsAssumption
<1>2. \A k : Heard(k) \in Nat
  BY HeardType
<1>3. \A k : Heard(k)' = IF k = kind THEN Heard(k) + 1 ELSE Heard(k)
  BY HeardMore
<1>4. /\ HeardTrades \in Nat
      /\ HeardTrades' = IF kind \in TradeKinds THEN HeardTrades + 1 ELSE HeardTrades
  BY <1>2, <1>3 DEF HeardTrades, TradeKinds, SampledKinds
<1>5. /\ HeardUpdates \in Nat
      /\ HeardUpdates' = IF kind \in Updates THEN HeardUpdates + 1 ELSE HeardUpdates
  BY <1>2, <1>3 DEF HeardUpdates, Updates
<1>6. /\ Heard("broken")' = IF kind = "broken" THEN Heard("broken") + 1 ELSE Heard("broken")
      /\ Heard("risk_update")' =
           IF kind = "risk_update" THEN Heard("risk_update") + 1 ELSE Heard("risk_update")
      /\ Heard("broken") \in Nat /\ Heard("risk_update") \in Nat
  BY <1>2, <1>3
<1>7. HeardAll' = HeardAll + 1
  BY <1>1, <1>4, <1>5, <1>6 DEF HeardAll, AllKinds, TradeKinds, SampledKinds, Updates
<1> QED
  BY <1>4, <1>5, <1>7

\* Sums of counters are counters.
LEMMA PlusType ==
  ASSUME NEW a \in Counters, NEW b \in Counters
  PROVE  Plus(a, b) \in Counters /\ \A k \in Counts : Plus(a, b)[k] = a[k] + b[k]
  BY DEF Plus, Counters

\* What a message is counted as.
LEMMA CountedType ==
  ASSUME NEW kind \in AllKinds
  PROVE  /\ Counted(kind) \in Counters
         /\ Counted(kind)["trades"] = IF kind \in TradeKinds THEN 1 ELSE 0
         /\ Counted(kind)["fills"] = IF kind \in TradeKinds THEN 1 ELSE 0
         /\ Counted(kind)["orders"] = IF kind \in Updates THEN 1 ELSE 0
         /\ Counted(kind)["rejects"] = IF kind = "rejected" THEN 1 ELSE 0
         /\ Counted(kind)["cancels"] = IF kind = "cancelled" THEN 1 ELSE 0
<1>1. /\ \A keys : One(keys) \in Counters
      /\ \A keys : \A k \in Counts : One(keys)[k] = IF k \in keys THEN 1 ELSE 0
      /\ Zero \in Counters /\ \A k \in Counts : Zero[k] = 0
  BY DEF One, Zero, Counters
<1>2. CASE kind \in TradeKinds
  <2>1. Counted(kind) = One({"trades", "fills"})
    BY <1>2 DEF Counted, TradeKinds, SampledKinds, Updates
  <2> QED
    BY <1>1, <1>2, <2>1 DEF Counts, TradeKinds, SampledKinds, Updates
<1>3. CASE kind = "rejected"
  <2>1. Counted(kind) = One({"orders", "rejects"})
    BY <1>3 DEF Counted, TradeKinds, SampledKinds, Updates
  <2> QED
    BY <1>1, <1>3, <2>1 DEF Counts, TradeKinds, SampledKinds, Updates
<1>4. CASE kind = "cancelled"
  <2>1. Counted(kind) = One({"orders", "cancels"})
    BY <1>4 DEF Counted, TradeKinds, SampledKinds, Updates
  <2> QED
    BY <1>1, <1>4, <2>1 DEF Counts, TradeKinds, SampledKinds, Updates
<1>5. CASE kind \in Updates \ {"rejected", "cancelled"}
  <2>1. Counted(kind) = One({"orders"})
    BY <1>5 DEF Counted, TradeKinds, SampledKinds, Updates
  <2> QED
    BY <1>1, <1>5, <2>1 DEF Counts, TradeKinds, SampledKinds, Updates
<1>6. CASE kind \in {"broken", "risk_update"}
  <2>1. Counted(kind) = Zero
    BY <1>6 DEF Counted, TradeKinds, SampledKinds, Updates
  <2> QED
    BY <1>1, <1>6, <2>1 DEF Counts, TradeKinds, SampledKinds, Updates
<1> QED
  BY <1>2, <1>3, <1>4, <1>5, <1>6 DEF AllKinds, Updates

\* The trimmed samples are at most as many as are kept.
LEMMA TrimmedType ==
  ASSUME NEW s \in Seq(BOOLEAN)
  PROVE  Trimmed(s) \in Seq(BOOLEAN) /\ Len(Trimmed(s)) <= Kept
<1> DEFINE m == IF Len(s) > Kept THEN Len(s) - Kept + 1 ELSE 1
<1>1. Kept \in Nat \ {0} /\ Len(s) \in Nat
  BY AnalyticsAssumption
<1>2. m \in 1 .. Len(s) + 1
  BY <1>1
<1>3. \A i \in m .. Len(s) : i \in 1 .. Len(s)
  BY <1>1, <1>2
<1>4. /\ SubSeq(s, m, Len(s)) \in Seq(BOOLEAN)
      /\ Len(SubSeq(s, m, Len(s))) = IF m <= Len(s) THEN Len(s) - m + 1 ELSE 0
  <2> HIDE DEF m
  <2> QED
    BY <1>1, <1>2, <1>3, SubSeqProperties
<1>5. Len(SubSeq(s, m, Len(s))) <= Kept
  BY <1>1, <1>4
<1> QED
  BY <1>4, <1>5 DEF Trimmed

\* A message adds to the counters what it counts as, and at most a sample.
LEMMA ConsumeCounts ==
  ASSUME Types, CountersTell, NEW kind \in MessageKinds, Consume(kind)
  PROVE  Types' /\ CountersTell'
<1>0. /\ heard \in [MessageKinds -> Nat] /\ heard' = [heard EXCEPT ![kind] = @ + 1]
      /\ counters' = Plus(counters, Counted(kind))
      /\ UNCHANGED <<consumer, flush, snapshot, stored, indexed, failed, seed, simulated>>
      /\ kind \in AllKinds
  BY AnalyticsAssumption DEF Types, Consume
<1>1. /\ HeardTrades \in Nat /\ HeardUpdates \in Nat
      /\ HeardTrades' = IF kind \in TradeKinds THEN HeardTrades + 1 ELSE HeardTrades
      /\ HeardUpdates' = IF kind \in Updates THEN HeardUpdates + 1 ELSE HeardUpdates
      /\ HeardAll' = HeardAll + 1
  BY <1>0, TotalsMore
<1>2. /\ Heard("rejected") \in Nat /\ Heard("cancelled") \in Nat
      /\ Heard("rejected")' = IF kind = "rejected" THEN Heard("rejected") + 1 ELSE Heard("rejected")
      /\ Heard("cancelled")' = IF kind = "cancelled" THEN Heard("cancelled") + 1
                                                     ELSE Heard("cancelled")
  BY <1>0, HeardType, HeardMore
<1>3. /\ Counted(kind) \in Counters
      /\ Counted(kind)["trades"] = IF kind \in TradeKinds THEN 1 ELSE 0
      /\ Counted(kind)["fills"] = IF kind \in TradeKinds THEN 1 ELSE 0
      /\ Counted(kind)["orders"] = IF kind \in Updates THEN 1 ELSE 0
      /\ Counted(kind)["rejects"] = IF kind = "rejected" THEN 1 ELSE 0
      /\ Counted(kind)["cancels"] = IF kind = "cancelled" THEN 1 ELSE 0
  BY <1>0, CountedType
<1>4. counters' \in Counters /\ \A k \in Counts : counters'[k] = counters[k] + Counted(kind)[k]
  BY <1>0, <1>3, PlusType DEF Types
<1>5. CountersTell'
  <2>1. \A k \in Counts : counters[k] \in Nat /\ seed[k] \in Nat /\ simulated[k] \in Nat
    BY DEF Types, Counters
  <2>2. /\ counters'["trades"] = counters["trades"] + Counted(kind)["trades"]
        /\ counters'["fills"] = counters["fills"] + Counted(kind)["fills"]
        /\ counters'["orders"] = counters["orders"] + Counted(kind)["orders"]
        /\ counters'["rejects"] = counters["rejects"] + Counted(kind)["rejects"]
        /\ counters'["cancels"] = counters["cancels"] + Counted(kind)["cancels"]
    BY <1>4 DEF Counts
  <2> QED
    BY <1>0, <1>1, <1>2, <1>3, <2>1, <2>2 DEF CountersTell, Counts
<1>6. samples' \in Seq(BOOLEAN) /\ Len(samples') <= Kept + HeardTrades'
  <2>1. Kept \in Nat /\ Len(samples) \in Nat /\ Len(samples) <= Kept + HeardTrades
    BY AnalyticsAssumption DEF Types
  <2>2. CASE kind \in SampledKinds
    <3>1. samples' = Append(samples, kind = "trade") /\ (kind = "trade") \in BOOLEAN
      BY <2>2 DEF Consume
    <3>2. samples' \in Seq(BOOLEAN) /\ Len(samples') = Len(samples) + 1
      <4> DEFINE b == kind = "trade"
      <4> HIDE DEF b
      <4>1. samples' = Append(samples, b) /\ b \in BOOLEAN
        BY <3>1 DEF b
      <4> QED
        BY <4>1, AppendProperties DEF Types
    <3>3. kind \in TradeKinds
      BY <2>2 DEF TradeKinds
    <3> QED
      BY <1>1, <2>1, <3>2, <3>3
  <2>3. CASE kind \notin SampledKinds
    BY <1>1, <2>1, <2>3 DEF Consume, Types
  <2> QED
    BY <2>2, <2>3
<1>7. HeardAll' <= MaxMessages
  <2>1. HeardAll \in Nat /\ MaxMessages \in Nat
    BY <1>0, <1>1, HeardType, AnalyticsAssumption DEF HeardAll
  <2> QED
    BY <1>1, <2>1 DEF Consume
<1>8. heard' \in [MessageKinds -> Nat]
  BY <1>0, HeardMore
<1> QED
  BY <1>0, <1>4, <1>5, <1>6, <1>7, <1>8 DEF Types

\* Steps that touch neither counters nor samples.
LEMMA CountsUntouched ==
  ASSUME Types, CountersTell, UNCHANGED <<counters, samples, seed, simulated, heard>>,
         snapshot' \in Counters, stored' \in Counters, indexed' \in Counters,
         consumer' \in BOOLEAN, failed' \in BOOLEAN, flush' \in {"asleep", "postgres", "es"}
  PROVE  Types' /\ CountersTell'
<1>1. /\ HeardTrades' = HeardTrades /\ HeardUpdates' = HeardUpdates /\ HeardAll' = HeardAll
      /\ \A k : Heard(k)' = Heard(k)
  BY DEF HeardTrades, HeardUpdates, HeardAll, Heard
<1> QED
  BY <1>1 DEF Types, CountersTell

\* A round adds what it simulates to both sides, and trims the samples.
LEMMA CollectCounts ==
  ASSUME Types, CountersTell, NEW n \in Activity, Collect(n)
  PROVE  Types' /\ CountersTell'
<1>0. /\ UNCHANGED <<consumer, stored, indexed, seed, heard>> /\ n \in Counters
      /\ samples' = Trimmed(Append(samples, TRUE))
  BY AnalyticsAssumption DEF Collect
<1>1. /\ HeardTrades' = HeardTrades /\ HeardUpdates' = HeardUpdates /\ HeardAll' = HeardAll
      /\ \A k : Heard(k)' = Heard(k)
  BY <1>0 DEF HeardTrades, HeardUpdates, HeardAll, Heard
<1>2. /\ counters' \in Counters /\ simulated' \in Counters
      /\ \A k \in Counts : counters'[k] - simulated'[k] = counters[k] - simulated[k]
  <2>1. CASE UNCHANGED <<counters, simulated>>
    BY <2>1 DEF Types
  <2>2. CASE counters' = Plus(counters, n) /\ simulated' = Plus(simulated, n)
    <3>1. /\ counters' \in Counters /\ simulated' \in Counters
          /\ \A k \in Counts : counters'[k] = counters[k] + n[k]
          /\ \A k \in Counts : simulated'[k] = simulated[k] + n[k]
      BY <1>0, <2>2, PlusType DEF Types
    <3>2. \A k \in Counts : counters[k] \in Nat /\ simulated[k] \in Nat /\ n[k] \in Nat
      BY <1>0 DEF Types, Counters
    <3> QED
      BY <3>1, <3>2
  <2> QED
    BY <2>1, <2>2 DEF Collect, Simulate
<1>3. CountersTell'
  <2>1. \A k \in Counts : /\ counters[k] \in Nat /\ seed[k] \in Nat /\ simulated[k] \in Nat
                          /\ counters'[k] \in Nat /\ simulated'[k] \in Nat
    BY <1>2 DEF Types, Counters
  <2>2. \A k \in Counts :
          counters'[k] - seed'[k] - simulated'[k] = counters[k] - seed[k] - simulated[k]
    BY <1>0, <1>2, <2>1
  <2> QED
    BY <1>1, <2>2 DEF CountersTell, Counts
<1>4. samples' \in Seq(BOOLEAN) /\ Len(samples') <= Kept + HeardTrades'
  <2>1. Append(samples, TRUE) \in Seq(BOOLEAN)
    BY AppendProperties DEF Types
  <2>2. samples' \in Seq(BOOLEAN) /\ Len(samples') <= Kept
    BY <1>0, <2>1, TrimmedType
  <2>3. Len(samples') \in Nat
    BY <2>2
  <2>4. HeardTrades' \in Nat /\ Kept \in Nat
    BY <1>1, HeardType, AnalyticsAssumption DEF HeardTrades, Types
  <2> QED
    BY <2>2, <2>3, <2>4
<1>5. snapshot' \in Counters /\ flush' \in {"asleep", "postgres", "es"} /\ failed' \in BOOLEAN
  BY <1>2 DEF Collect, BuildOrFail, Types
<1> QED
  BY <1>0, <1>1, <1>2, <1>3, <1>4, <1>5 DEF Types

\* At the start the counters are the seed and nothing is heard.
LEMMA StartCounts ==
  ASSUME Init
  PROVE  Types /\ CountersTell
<1>1. \A k : Heard(k) = 0
  BY DEF Heard, Init
<1>2. HeardTrades = 0 /\ HeardUpdates = 0 /\ HeardAll = 0
  BY <1>1 DEF HeardTrades, HeardUpdates, HeardAll
<1>3. /\ seed \in Counters /\ counters = seed /\ simulated = Zero
      /\ Zero \in Counters /\ \A k \in Counts : Zero[k] = 0
  BY AnalyticsAssumption DEF Init, Zero, Counters
<1>4. /\ samples = << >> /\ << >> \in Seq(BOOLEAN) /\ Len(<< >>) = 0
      /\ Kept \in Nat /\ MaxMessages \in Nat
  BY AnalyticsAssumption DEF Init
<1>5. \A k \in Counts : counters[k] - seed[k] - simulated[k] = 0
  <2>1. \A k \in Counts : seed[k] \in Nat
    BY <1>3 DEF Counters
  <2>2. \A k \in Counts : counters[k] = seed[k] /\ simulated[k] = 0
    BY <1>3
  <2> QED
    BY <2>1, <2>2
<1>6. CountersTell
  BY <1>1, <1>2, <1>5 DEF CountersTell, Counts
<1>7. /\ heard \in [MessageKinds -> Nat]
      /\ snapshot \in Counters /\ stored \in Counters /\ indexed \in Counters
      /\ consumer \in BOOLEAN /\ failed \in BOOLEAN /\ flush \in {"asleep", "postgres", "es"}
  <2>1. snapshot \in Counters /\ stored \in Counters /\ indexed \in Counters
    BY <1>3 DEF Init
  <2>2. consumer \in BOOLEAN /\ failed \in BOOLEAN /\ flush \in {"asleep", "postgres", "es"}
    <3>1. consumer \in BOOLEAN
      BY DEF Init
    <3>2. failed \in BOOLEAN /\ flush \in {"asleep", "postgres", "es"}
      BY DEF Init
    <3> QED
      BY <3>1, <3>2
  <2>3. heard \in [MessageKinds -> Nat]
    BY DEF Init
  <2> QED
    BY <2>1, <2>2, <2>3
<1>8. samples \in Seq(BOOLEAN) /\ Len(samples) <= Kept + HeardTrades
  BY <1>2, <1>4
<1> QED
  BY <1>2, <1>3, <1>4, <1>6, <1>7, <1>8 DEF Types

\* After a restart the counters are a new seed and nothing is heard.
LEMMA RestartCounts ==
  ASSUME Types, Restart
  PROVE  Types' /\ CountersTell'
<1>1. \A k : Heard(k)' = 0
  BY DEF Heard, Restart, Boot
<1>2. HeardTrades' = 0 /\ HeardUpdates' = 0 /\ HeardAll' = 0
  BY <1>1 DEF HeardTrades, HeardUpdates, HeardAll
<1>3. /\ seed' \in Counters /\ counters' = seed' /\ simulated' = Zero
      /\ Zero \in Counters /\ \A k \in Counts : Zero[k] = 0
  BY AnalyticsAssumption DEF Restart, Boot, Zero, Counters
<1>4. /\ samples' = << >> /\ << >> \in Seq(BOOLEAN) /\ Len(<< >>) = 0
      /\ Kept \in Nat /\ MaxMessages \in Nat
  BY AnalyticsAssumption DEF Restart, Boot
<1>5. \A k \in Counts : counters'[k] - seed'[k] - simulated'[k] = 0
  <2>1. \A k \in Counts : seed'[k] \in Nat
    BY <1>3 DEF Counters
  <2>2. \A k \in Counts : counters'[k] = seed'[k] /\ simulated'[k] = 0
    BY <1>3
  <2> QED
    BY <2>1, <2>2
<1>6. CountersTell'
  BY <1>1, <1>2, <1>5 DEF CountersTell, Counts
<1>7. /\ heard' \in [MessageKinds -> Nat]
      /\ snapshot' \in Counters /\ stored' \in Counters /\ indexed' \in Counters
      /\ consumer' \in BOOLEAN /\ failed' \in BOOLEAN /\ flush' \in {"asleep", "postgres", "es"}
  BY <1>3 DEF Restart, Restart, Boot, Types
<1>8. samples' \in Seq(BOOLEAN) /\ Len(samples') <= Kept + HeardTrades'
  BY <1>2, <1>4
<1> QED
  BY <1>2, <1>3, <1>4, <1>6, <1>7, <1>8 DEF Types

\* Every step keeps the types and what the counters tell.
LEMMA StepCounts ==
  ASSUME Types, CountersTell, [Next]_vars
  PROVE  Types' /\ CountersTell'
<1>1. ASSUME NEW kind \in MessageKinds, Consume(kind)
      PROVE  Types' /\ CountersTell'
  BY <1>1, ConsumeCounts
<1>2. CASE ConsumerEnds
  BY <1>2, CountsUntouched DEF ConsumerEnds, Types
<1>3. ASSUME NEW n \in Activity, Collect(n)
      PROVE  Types' /\ CountersTell'
  BY <1>3, CollectCounts
<1>4. CASE FlushToPostgres
  BY <1>4, CountsUntouched DEF FlushToPostgres, Call, Types
<1>5. CASE IndexKpis
  BY <1>5, CountsUntouched DEF IndexKpis, Call, Types
<1>6. CASE Restart
  BY <1>6, RestartCounts
<1>7. CASE UNCHANGED vars
  BY <1>7, CountsUntouched DEF vars, Types
<1> QED
  BY <1>1, <1>2, <1>3, <1>4, <1>5, <1>6, <1>7 DEF Next, _kpi_flush_loop

\* The types hold for as long as the service lives, with no fewer samples than
\* are kept and no more than these and one for each trade heard.
LEMMA Counting == Spec => [](Types /\ CountersTell)
<1>1. Init => Types /\ CountersTell
  BY StartCounts
<1>2. Types /\ CountersTell /\ [Next]_vars => (Types /\ CountersTell)'
  BY StepCounts
<1> QED
  BY <1>1, <1>2, PTL DEF Spec

\* The state of the analytics service has its types, and its samples stay within
\* a bound: what _kpi_flush_loop keeps (slippage_samples[-2000:]) and what was
\* heard since, even when rounds fail one after the other.
THEOREM AnalyticsTypes == Spec => []TypeOK
<1>1. Types => TypeOK
  <2> SUFFICES ASSUME Types PROVE TypeOK
    OBVIOUS
  <2>0. \A k : Heard(k) \in Nat
    BY HeardType DEF Types
  <2>1. /\ HeardTrades \in Nat /\ HeardUpdates \in Nat
        /\ Heard("broken") \in Nat /\ Heard("risk_update") \in Nat
    BY <2>0 DEF HeardTrades, HeardUpdates
  <2>2. HeardTrades <= HeardAll /\ HeardAll \in Nat
    BY <2>1 DEF HeardAll
  <2>3. Len(samples) \in Nat /\ Kept \in Nat /\ MaxMessages \in Nat
    BY AnalyticsAssumption DEF Types
  <2>4. Len(samples) <= Kept + MaxMessages
    BY <2>1, <2>2, <2>3 DEF Types
  <2> QED
    BY <2>4 DEF Types, TypeOK
<1> QED
  BY <1>1, Counting, PTL

\* The counters of kpi_state are the seed, the simulated activity and one for
\* each message that got as far as them: whatever the flush is waiting for when
\* _process_trade or _process_order_update runs, and wherever the message raises.
THEOREM CountersAreTold == Spec => []CountersTell
BY Counting, PTL
=============================================================================
