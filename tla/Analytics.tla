------------------------------ MODULE Analytics ------------------------------
(***************************************************************************)
(* The analytics service (services/analytics/main.py): the counters behind *)
(* the business KPIs, the loop that consumes trades and order updates, and *)
(* the loop that adds simulated activity and flushes a snapshot of the     *)
(* KPIs to Postgres and Elasticsearch every 10 seconds.                    *)
(*                                                                         *)
(* Both loops are tasks of one event loop.  A message is processed without *)
(* an await; the flush waits for each of its two INSERTs, and messages are *)
(* processed in between.                                                   *)
(*                                                                         *)
(* Amounts, prices, P&L and the microstructure of the markets are random   *)
(* numbers that nothing depends on, and are left out; so are the VWAP      *)
(* tables and the per-trade documents for Elasticsearch.  How offsets and  *)
(* messages go together is the subject of TopicReader.                     *)
(***************************************************************************)
EXTENDS Integers, Sequences

CONSTANTS
  MessageKinds,\* the kinds of messages on its topics
  Seeds,       \* the counters _seed_demo_data may draw
  Activity,    \* what a round may simulate, as counters
  Reached,     \* the backends the service reached when it started
  Faults,      \* the backends whose calls may fail while it runs
  Kept,        \* the number of samples that are kept (2000)
  MaxMessages, \* bound: the messages that arrive in a life of the service
  MaxRounds,   \* bound: the rounds whose activity is counted
  MaxRestarts  \* bound: the number of restarts

Counts == {"trades", "fills", "orders", "rejects", "cancels", "replaces"}
Counters == [Counts -> Nat]
Zero == [k \in Counts |-> 0]
Plus(a, b) == [k \in Counts |-> a[k] + b[k]]
One(keys) == [k \in Counts |-> IF k \in keys THEN 1 ELSE 0]

\* The slippage of an "odd" trade is not a number; with a "text_price" the amount is
\* a text, which cannot be added to the volume.  An "untyped" update is not an
\* object.  What is "broken" is no JSON, or a trade without an amount.
SampledKinds == {"trade", "odd_trade"}
TradeKinds == SampledKinds \cup {"text_price"}
\* The others are the statuses the order service publishes.
Updates == {"accepted", "filled", "rejected", "cancelled", "amended", "untyped"}
AllKinds == TradeKinds \cup Updates \cup {"broken", "risk_update"}

ASSUME AnalyticsAssumption ==
  /\ MessageKinds \subseteq AllKinds
  /\ Seeds \subseteq Counters
  /\ Activity \subseteq Counters
  /\ Reached \subseteq {"kafka", "postgres", "es"}
  /\ Faults \subseteq {"kafka", "postgres", "es"}
  /\ Kept \in Nat \ {0}
  /\ MaxMessages \in Nat
  \* at least 5 trades per round
  /\ \A n \in Activity : n.trades > 0

VARIABLES
  counters,  \* the totals in kpi_state
  samples,   \* slippage_samples: whether each is a number
  consumer,  \* whether _kafka_consumer_loop runs
  flush,     \* the call _kpi_flush_loop waits for
  snapshot,  \* kpis_snapshot
  stored,    \* the last row of business_kpis
  indexed,   \* the last document of kpi-snapshots
  failed,    \* whether a call of the present or last round has failed
  \* what has happened since the service started
  seed,      \* the counters it started with
  simulated, \* the activity it has simulated
  heard,     \* heard[k]: the messages of kind k it has got
  rounds,
  restarts

vars == <<counters, samples, consumer, flush, snapshot, stored, indexed, failed,
          seed, simulated, heard, rounds, restarts>>

Usable(s) == \A i \in DOMAIN s : s[i]

\* The messages the service has got since it started.
Heard(k) == IF k \in MessageKinds THEN heard[k] ELSE 0
HeardTrades == Heard("trade") + Heard("odd_trade") + Heard("text_price")
HeardUpdates ==
  Heard("accepted") + Heard("filled") + Heard("rejected") + Heard("cancelled") + Heard("amended")
    + Heard("untyped")
HeardAll == HeardTrades + HeardUpdates + Heard("broken") + Heard("risk_update")

-----------------------------------------------------------------------------
(* Start *)

\* _seed_demo_data, then the two tasks; the 500 samples of the seed are numbers.
\* The consumer's task ends if it cannot start, and is not started again.
Boot ==
  /\ seed' \in Seeds
  /\ counters' = seed'
  /\ samples' = << >>
  /\ consumer' = ("kafka" \in Reached)
  /\ flush' = "asleep"
  /\ snapshot' = Zero
  /\ simulated' = Zero
  /\ heard' = [k \in MessageKinds |-> 0]
  /\ rounds' = 0

Init ==
  /\ seed \in Seeds
  /\ counters = seed
  /\ samples = << >>
  /\ consumer = ("kafka" \in Reached)
  /\ flush = "asleep"
  /\ snapshot = Zero
  /\ simulated = Zero
  /\ heard = [k \in MessageKinds |-> 0]
  /\ rounds = 0
  /\ stored = Zero
  /\ indexed = Zero
  /\ failed = FALSE
  /\ restarts = 0

\* The tasks are cancelled, and a flush is cut off; nothing is read back.
Restart ==
  /\ restarts < MaxRestarts
  /\ restarts' = restarts + 1
  /\ Boot
  /\ failed' = (failed \/ flush # "asleep")
  /\ UNCHANGED <<stored, indexed>>

-----------------------------------------------------------------------------
(* _kafka_consumer_loop *)

\* Faulty variant: a fill is counted after its amount has been added.
CountedHalf(kind) ==
  CASE kind = "text_price" -> One({"trades"})
    [] kind \in SampledKinds -> One({"trades", "fills"})
    [] kind = "rejected"   -> One({"orders", "rejects"})
    [] kind = "cancelled"  -> One({"orders", "cancels"})
    [] kind \in Updates \ {"rejected", "cancelled"} -> One({"orders"})
    [] OTHER -> Zero

\* _process_trade and _process_order_update, as far as they get: the trade and its
\* fill are counted before its amount is added, the order before its status is
\* read.  "replaced" is what the service counts as a replacement, and a status
\* that is never published.
Counted(kind) ==
  CASE kind \in TradeKinds -> One({"trades", "fills"})
    [] kind = "rejected"   -> One({"orders", "rejects"})
    [] kind = "cancelled"  -> One({"orders", "cancels"})
    [] kind = "replaced"   -> One({"orders", "replaces"})
    [] kind \in Updates \ {"rejected", "cancelled"} -> One({"orders"})
    [] OTHER -> Zero

\* An exception is logged, and the loop goes on.
Consume(kind) ==
  /\ consumer
  /\ HeardAll < MaxMessages
  /\ heard' = [heard EXCEPT ![kind] = @ + 1]
  /\ counters' = Plus(counters, Counted(kind))
  /\ samples' = IF kind \in SampledKinds THEN Append(samples, kind = "trade") ELSE samples
  /\ UNCHANGED <<consumer, flush, snapshot, stored, indexed, failed, seed, simulated,
                 rounds, restarts>>

\* An exception of the consumer itself ends the task; the service runs on.
ConsumerEnds ==
  /\ consumer
  /\ "kafka" \in Faults
  /\ consumer' = FALSE
  /\ UNCHANGED <<counters, samples, flush, snapshot, stored, indexed, failed, seed,
                 simulated, heard, rounds, restarts>>

-----------------------------------------------------------------------------
(* _kpi_flush_loop *)

\* Faulty variant: nothing is dropped.
Untrimmed(s) == s

\* The last samples.  A round adds 5 to 29 of them, here one.
Trimmed(s) == SubSeq(s, IF Len(s) > Kept THEN Len(s) - Kept + 1 ELSE 1, Len(s))

\* np.mean raises for what is not a number, which ends the round.
BuildOrFail(s, c) ==
  IF Usable(s)
  THEN snapshot' = c /\ flush' = "postgres" /\ failed' = FALSE
  ELSE snapshot' = snapshot /\ flush' = "asleep" /\ failed' = TRUE

Simulate(n) ==
  IF rounds < MaxRounds
  THEN /\ counters' = Plus(counters, n)
       /\ simulated' = Plus(simulated, n)
       /\ rounds' = rounds + 1
  ELSE UNCHANGED <<counters, simulated, rounds>>

\* Faulty variant: the snapshot is built before the samples are trimmed, and a
\* failure leaves them untrimmed.
CollectUntrimmed(n) ==
  /\ flush = "asleep"
  /\ Simulate(n)
  /\ BuildOrFail(samples, counters')
  /\ samples' = IF Usable(samples) THEN Trimmed(Append(samples, TRUE)) ELSE samples
  /\ UNCHANGED <<consumer, stored, indexed, seed, heard, restarts>>

\* From the end of the sleep to the first call: simulated activity, its samples,
\* the trimming, and the snapshot.
Collect(n) ==
  /\ flush = "asleep"
  /\ Simulate(n)
  /\ samples' = Trimmed(Append(samples, TRUE))
  /\ BuildOrFail(samples', counters')
  /\ UNCHANGED <<consumer, stored, indexed, seed, heard, restarts>>

\* A call of the flush: skipped without a connection, logged when it fails.
Call(backend, from, to, table, row) ==
  /\ flush = from
  /\ flush' = to
  /\ \/ backend \in Reached /\ table' = row /\ failed' = failed
     \/ backend \in Reached \cap Faults /\ table' = table /\ failed' = TRUE
     \/ backend \notin Reached /\ table' = table /\ failed' = failed
  /\ UNCHANGED <<counters, samples, consumer, snapshot, seed, simulated, heard, rounds,
                 restarts>>

FlushToPostgres ==
  Call("postgres", "postgres", "es", stored, snapshot) /\ UNCHANGED indexed

\* Faulty variant: the document is built when it is sent.
IndexKpisRebuilt == Call("es", "es", "asleep", indexed, counters) /\ UNCHANGED stored

IndexKpis == Call("es", "es", "asleep", indexed, snapshot) /\ UNCHANGED stored

_kpi_flush_loop ==
  \/ \E n \in Activity : Collect(n)
  \/ FlushToPostgres
  \/ IndexKpis

Next ==
  \/ \E kind \in MessageKinds : Consume(kind)
  \/ ConsumerEnds
  \/ _kpi_flush_loop
  \/ Restart

Spec == Init /\ [][Next]_vars

\* The flush is a task of the event loop, its calls end, and its sleep ends.
FairSpec == Spec /\ WF_vars(_kpi_flush_loop)

-----------------------------------------------------------------------------
(* Properties *)

TypeOK ==
  /\ counters \in Counters /\ snapshot \in Counters
  /\ stored \in Counters /\ indexed \in Counters
  /\ samples \in Seq(BOOLEAN) /\ Len(samples) <= Kept + MaxMessages
  /\ consumer \in BOOLEAN
  /\ flush \in {"asleep", "postgres", "es"}
  /\ failed \in BOOLEAN

\* The counters are what the service started with, what it has simulated and one
\* for each message that got as far as them, whatever the flush is doing: a trade
\* that raises halfway counts as a trade and as a fill, so that the two never
\* drift apart, and an update as an order whose status nobody knows.
CountersTell ==
  LET counted(k) == counters[k] - seed[k] - simulated[k] IN
  /\ counted("trades") = HeardTrades /\ counted("fills") = HeardTrades
  /\ counted("orders") = HeardUpdates
  /\ counted("rejects") = Heard("rejected")
  /\ counted("cancels") = Heard("cancelled")

\* After a round in which no call failed, the table and the index hold the same
\* KPIs, although messages were counted between the two calls.
SameSnapshot ==
  flush = "asleep" /\ ~failed /\ {"postgres", "es"} \subseteq Reached
    => stored = indexed

\* One trade whose slippage is not a number fails every round while it is among
\* the samples, but the rounds themselves push it out: snapshots go on for ever.
FlushesGoOn == []<>(flush = "postgres")
=============================================================================
