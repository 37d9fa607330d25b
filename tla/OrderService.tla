---------------------------- MODULE OrderService ----------------------------
(***************************************************************************)
(* The order service of the trading platform                               *)
(* (services/order-service/main.py): the HTTP handlers that submit, cancel *)
(* and amend orders, and the background task that executes each admitted   *)
(* order.  They are coroutines of one asyncio process, so a handler runs   *)
(* undisturbed from one await to the next; every action below is one such  *)
(* stretch.  The handlers share no lock: they meet in the tables of        *)
(* Postgres, in the Redis cache and on the Kafka topics, one autocommitted *)
(* call at a time, and most of those calls swallow their exceptions.       *)
(*                                                                         *)
(* What has been executed of an order is counted in pieces: its child      *)
(* orders, or its single fill.  The sizes of the pieces, floating-point    *)
(* numbers that add up to the quantity but for rounding, are left out, and *)
(* so are prices, venues, fees and identifiers; whether a conditional      *)
(* order fills is a free choice.                                           *)
(***************************************************************************)
EXTENDS Integers, Sequences, FiniteSets

CONSTANTS
  Orders,        \* the order ids the service will generate
  Requests,      \* the cancel and amend requests, each sent at most once
  Quantities,    \* the quantities an order may be submitted with
  Amendments,    \* the quantities an amend request may carry
  Kinds,         \* the kinds of order submitted, out of OrderKinds
  SliceCounts,   \* the numbers of VWAP slices (5 to 10 in the code)
  RoundCounts,   \* the numbers of rounds in which an iceberg order trades
  Backends,      \* the backends that may be reachable when the process starts
  Faults,        \* the backends whose calls may fail while it runs
  Crashes,       \* whether the process may die and be started again
  ClientsWait    \* whether clients wait for the answer to their submission

\* "market" stands for market, ioc and fok orders, "limit" for limit, stop and
\* stop_limit orders; an algo_strategy overrides the order type.
OrderKinds == {"market", "limit", "vwap", "iceberg"}
AlgoKinds == {"vwap", "iceberg"}
BackendNames == {"db", "kafka", "redis"}

\* OrderRequest.quantity is declared gt=0; AmendRequest.quantity is not.
ASSUME QuantityAssumption ==
  /\ Quantities \subseteq Nat \ {0}
  /\ Amendments \subseteq Int
ASSUME KindAssumption == Kinds \subseteq OrderKinds
ASSUME BackendAssumption ==
  /\ Backends \subseteq SUBSET BackendNames
  /\ Backends # {}
  /\ Faults \subseteq BackendNames
ASSUME SwitchAssumption == Crashes \in BOOLEAN /\ ClientsWait \in BOOLEAN

\* Every order is executed in at least one piece.
ASSUME PiecesAssumption ==
  /\ SliceCounts \subseteq Nat \ {0}
  /\ RoundCounts \subseteq Nat \ {0}

VARIABLES
  \* the process
  up,         \* whether it runs
  backends,   \* the backends it reached at start; the others stay None
  metrics,    \* its counters
  submit,     \* submit[o]: where the handler of POST /orders for o stands
  order_data, \* order_data[o]: the submission, as the handler captured it
  task,       \* task[o]: where execute_order(o) stands, and its locals
  request,    \* request[r]: where a cancel or amend handler stands
  logged,     \* logged[o]: the errors of swallowed calls logged about o
  \* Postgres
  orders,     \* orders[o]: the row of o
  traded,     \* traded[o]: the number of trades rows of o
  audit,      \* audit[o]: the actions of the audit_trail rows of o, in order
  \* Redis
  cached,     \* cached[o]: whether the key order:o exists
  \* Kafka
  announced,  \* the orders on topic "orders"
  reported,   \* reported[o]: the number of trades of o on topic "trades"
  updates     \* updates[o]: the statuses of o on topic "order-updates"

processVars == <<up, backends>>
dbVars == <<orders, traded, audit>>
topicVars == <<announced, reported, updates>>
vars == <<up, backends, metrics, submit, order_data, task, request, logged,
          orders, traded, audit, cached, announced, reported, updates>>

-----------------------------------------------------------------------------
(* Values *)

Statuses == {"pending", "accepted", "filled", "cancelled", "rejected"}
FinalStatuses == {"filled", "cancelled", "rejected"}
AuditActions == {"submitted", "rejected", "error", "accepted", "algo_split",
                 "filled", "open", "cancelled", "amended"}
RequestKinds == {"cancel", "amend", "reprice", "empty"}
UpdateStatuses == {"accepted", "filled", "rejected", "cancelled", "amended"}
ErrorKinds == {"audit", "status", "trade", "order", "kafka"}

\* filled stands for filled_quantity: the number of pieces it is the sum of.
NoRow == [status |-> "none", quantity |-> 0, filled |-> 0]
NewRow(status, quantity) ==
  [status |-> status, quantity |-> quantity, filled |-> 0]
\* filled stands for total_filled, pieces for the pieces the order is split into.
NoTask == [pc |-> "none", filled |-> 0, pieces |-> 0]
NoRequest == [pc |-> "unsent", kind |-> "cancel", order |-> "none", quantity |-> 0]
NoData == [quantity |-> 0, kind |-> "market"]
Counters == {"submitted", "filled", "rejected", "fill_count"}
ZeroMetrics == [c \in Counters |-> 0]

\* The places where a handler or a task is suspended.
SubmitSteps == {"store", "cache", "announce", "audit", "schedule",
                "refuse", "refuse_audit", "refuse_publish"}
SubmitEnds == {"created", "refused", "error", "lost"}
TaskSteps == {"start", "accept_audit", "accept", "accept_publish", "split_audit",
              "trade", "report", "fill", "fill_audit", "fill_publish",
              "open_audit", "open_publish",
              "error_status", "error_audit", "error_publish"}
TaskEnds == {"filled", "open", "failed", "lost"}
RequestSteps == {"read", "write", "audit", "publish", "invalidate"}
RequestEnds == {"done", "not_found", "refused", "error", "unavailable", "lost"}

Row == [status : Statuses \cup {"none"},
        quantity : {0} \cup Quantities \cup Amendments,
        filled : Nat]
Task == [pc : {"none"} \cup TaskSteps \cup TaskEnds, filled : Nat, pieces : Nat]
Request == [pc : {"unsent"} \cup RequestSteps \cup RequestEnds,
            kind : RequestKinds,
            order : Orders \cup {"none"},
            quantity : {0} \cup Amendments]
Submission == [quantity : {0} \cup Quantities, kind : OrderKinds]

-----------------------------------------------------------------------------
(* Calls to the backends *)

\* How a call ends: it takes effect and returns, it raises and has no effect,
\* or it takes effect and raises all the same (the answer is lost).  A backend
\* the process did not reach at start is not called.
Outcomes(backend) ==
  CASE backend \notin backends -> {"skipped"}
    [] backend \in backends \cap Faults -> {"ok", "lost", "unknown"}
    [] OTHER -> {"ok"}
Applied(outcome) == outcome \in {"ok", "unknown"}
Raised(outcome) == outcome \in {"lost", "unknown"}

\* metrics[name] += 1
Count(names) ==
  metrics' = [c \in Counters |-> IF c \in names THEN metrics[c] + 1 ELSE metrics[c]]

\* logger.error(...) in the except clause of a swallowed call
Log(o, error, outcome) ==
  logged' = IF Raised(outcome) THEN [logged EXCEPT ![o] = @ \cup {error}]
                               ELSE logged

record_audit(o, action) ==
  \E out \in Outcomes("db") :
    /\ audit' = IF Applied(out) THEN [audit EXCEPT ![o] = Append(@, action)] ELSE audit
    /\ Log(o, "audit", out)

\* kafka_send("order-updates", {"order_id": o, "status": status})
send_update(o, status) ==
  \E out \in Outcomes("kafka") :
    /\ updates' = IF Applied(out) THEN [updates EXCEPT ![o] = Append(@, status)]
                                  ELSE updates
    /\ Log(o, "kafka", out)

InsertOrder(o, status, outcome) ==
  /\ orders' = IF Applied(outcome)
               THEN [orders EXCEPT ![o] = NewRow(status, order_data[o].quantity)]
               ELSE orders
  /\ Log(o, "order", outcome)

\* Faulty variant: the status is written only along with a filled quantity.
StatusOnlyOfFills(row, status, filled) ==
  IF filled > 0 THEN [row EXCEPT !.status = status, !.filled = filled] ELSE row

\* UPDATE ... WHERE order_id: no condition on the status the row has, and no
\* effect if there is no row.  A call without filled quantity leaves it as it is.
Updated(row, status, filled) ==
  IF row.status = "none" THEN row
  ELSE [status |-> status, quantity |-> row.quantity, filled |-> filled]

update_order_status(o, status, filled) ==
  \E out \in Outcomes("db") :
    /\ orders' = IF Applied(out)
                 THEN [orders EXCEPT ![o] = Updated(@, status, filled)] ELSE orders
    /\ Log(o, "status", out)

-----------------------------------------------------------------------------
(* Start and crash of the process *)

Init ==
  /\ up = TRUE
  /\ backends \in Backends
  /\ metrics = ZeroMetrics
  /\ submit = [o \in Orders |-> "new"]
  /\ order_data = [o \in Orders |-> NoData]
  /\ task = [o \in Orders |-> NoTask]
  /\ request = [r \in Requests |-> NoRequest]
  /\ logged = [o \in Orders |-> {}]
  /\ orders = [o \in Orders |-> NoRow]
  /\ traded = [o \in Orders |-> 0]
  /\ audit = [o \in Orders |-> <<>>]
  /\ cached = [o \in Orders |-> FALSE]
  /\ announced = {}
  /\ reported = [o \in Orders |-> 0]
  /\ updates = [o \in Orders |-> <<>>]

\* Handlers, tasks and counters live in memory only.
Crash ==
  /\ Crashes
  /\ up
  /\ up' = FALSE
  /\ metrics' = ZeroMetrics
  /\ submit' = [o \in Orders |->
                  IF submit[o] \in SubmitSteps THEN "lost" ELSE submit[o]]
  /\ task' = [o \in Orders |->
                IF task[o].pc \in TaskSteps
                THEN [task[o] EXCEPT !.pc = "lost"] ELSE task[o]]
  /\ request' = [r \in Requests |->
                   IF request[r].pc \in RequestSteps
                   THEN [request[r] EXCEPT !.pc = "lost"] ELSE request[r]]
  /\ UNCHANGED <<backends, order_data, logged, dbVars, cached, topicVars>>

\* Faulty variant: a restart executes the interrupted orders again.
ResumeAtStart ==
  /\ ~up
  /\ up' = TRUE
  /\ backends' \in Backends
  /\ task' = [o \in Orders |->
                IF task[o].pc = "lost" THEN [NoTask EXCEPT !.pc = "start"] ELSE task[o]]
  /\ UNCHANGED <<metrics, submit, order_data, request, logged, dbVars, cached,
                 topicVars>>

\* lifespan: each backend is tried once; one that cannot be reached stays
\* unused until the next start.  Nothing in the database is taken up again.
lifespan ==
  /\ ~up
  /\ up' = TRUE
  /\ backends' \in Backends
  /\ UNCHANGED <<metrics, submit, order_data, task, request, logged,
                 dbVars, cached, topicVars>>

-----------------------------------------------------------------------------
(* POST /orders *)

SubmitTo(o, from, to) ==
  /\ up
  /\ submit[o] = from
  /\ submit' = [submit EXCEPT ![o] = to]
  /\ UNCHANGED <<processVars, request>>

\* The order gets its id and check_risk answers.  A refusal may come from the
\* simulated 2% or from the risk engine; any failure of the call approves.
Receive(o) ==
  /\ \E q \in Quantities, k \in Kinds :
       order_data' = [order_data EXCEPT ![o] = [quantity |-> q, kind |-> k]]
  /\ \/ SubmitTo(o, "new", "store") /\ UNCHANGED metrics
     \/ SubmitTo(o, "new", "refuse") /\ Count({"rejected"})
  /\ UNCHANGED <<task, logged, dbVars, cached, topicVars>>

\* A refused order is stored too, but a failure of that is only logged.
StoreRefused(o) ==
  /\ SubmitTo(o, "refuse", "refuse_audit")
  /\ \E out \in Outcomes("db") : InsertOrder(o, "rejected", out)
  /\ UNCHANGED <<metrics, order_data, task, traded, audit, cached, topicVars>>

AuditRefused(o) ==
  /\ SubmitTo(o, "refuse_audit", "refuse_publish")
  /\ record_audit(o, "rejected")
  /\ UNCHANGED <<metrics, order_data, task, orders, traded, cached, topicVars>>

PublishRefused(o) ==
  /\ SubmitTo(o, "refuse_publish", "refused")
  /\ send_update(o, "rejected")
  /\ UNCHANGED <<metrics, order_data, task, dbVars, cached, announced, reported>>

\* A failed INSERT ends the request with a 500, whether or not the row is there.
Store(o) ==
  /\ \E out \in Outcomes("db") :
       /\ SubmitTo(o, "store", IF Raised(out) THEN "error" ELSE "cache")
       /\ InsertOrder(o, "pending", out)
  /\ UNCHANGED <<metrics, order_data, task, traded, audit, cached, topicVars>>

\* SETEX order:o 3600 order_data, whose status is "pending"; failures are silent.
Cache(o) ==
  /\ SubmitTo(o, "cache", "announce")
  /\ \E out \in Outcomes("redis") : cached' = [cached EXCEPT ![o] = @ \/ Applied(out)]
  /\ UNCHANGED <<metrics, order_data, task, logged, dbVars, topicVars>>

Announce(o) ==
  /\ SubmitTo(o, "announce", "audit")
  /\ \E out \in Outcomes("kafka") :
       /\ announced' = IF Applied(out) THEN announced \cup {o} ELSE announced
       /\ Log(o, "kafka", out)
  /\ UNCHANGED <<metrics, order_data, task, dbVars, cached, reported, updates>>

AuditSubmitted(o) ==
  /\ SubmitTo(o, "audit", "schedule")
  /\ record_audit(o, "submitted")
  /\ UNCHANGED <<metrics, order_data, task, orders, traded, cached, topicVars>>

\* After the last await: the counter, background_tasks.add_task, the 201.
\* An order is one piece until it is split.
Created(o) ==
  /\ SubmitTo(o, "schedule", "created")
  /\ Count({"submitted"})
  /\ task' = [task EXCEPT ![o] = [pc |-> "start", filled |-> 0, pieces |-> 1]]
  /\ UNCHANGED <<order_data, logged, dbVars, cached, topicVars>>

-----------------------------------------------------------------------------
(* execute_order: works on the captured order_data, never reads the row *)

TaskTo(o, from, to) ==
  /\ up
  /\ task[o].pc = from
  /\ task' = [task EXCEPT ![o].pc = to]
  /\ UNCHANGED <<processVars, submit, order_data, request, cached>>

TaskAudit(o, from, to, action) ==
  /\ TaskTo(o, from, to)
  /\ record_audit(o, action)
  /\ UNCHANGED <<metrics, orders, traded, topicVars>>

TaskStatus(o, from, to, status, filled) ==
  /\ TaskTo(o, from, to)
  /\ update_order_status(o, status, filled)
  /\ UNCHANGED <<metrics, traded, audit, topicVars>>

TaskPublish(o, from, to, status) ==
  /\ TaskTo(o, from, to)
  /\ send_update(o, status)
  /\ UNCHANGED <<dbVars, announced, reported>>

IsAlgo(o) == order_data[o].kind \in AlgoKinds

\* 0.5% of the executions fail at once; the others sleep and fetch a quote.
Begin(o) ==
  /\ \/ TaskTo(o, "start", "error_status")
     \/ TaskTo(o, "start", "accept_audit")
  /\ UNCHANGED <<metrics, logged, dbVars, topicVars>>

\* Faulty variant: a failed execution leaves the row alone.
ErrorKeepsStatus(o) ==
  /\ TaskTo(o, "error_status", "error_audit")
  /\ UNCHANGED <<metrics, logged, dbVars, topicVars>>

ErrorStatus(o) ==
  TaskStatus(o, "error_status", "error_audit", "rejected", orders[o].filled)

ErrorAudit(o) == TaskAudit(o, "error_audit", "error_publish", "error")

\* Faulty variant: a failed execution does not return.
ErrorFallsThrough(o) ==
  /\ TaskPublish(o, "error_publish", "accept_audit", "rejected")
  /\ Count({"rejected"})

ErrorPublish(o) ==
  /\ TaskPublish(o, "error_publish", "failed", "rejected")
  /\ Count({"rejected"})

AcceptAudit(o) == TaskAudit(o, "accept_audit", "accept", "accepted")

Accept(o) == TaskStatus(o, "accept", "accept_publish", "accepted", orders[o].filled)

\* An algo order goes on to split, a market order to its single fill, and a
\* conditional order to its single fill or to staying open.
AcceptPublish(o) ==
  /\ \/ IsAlgo(o) /\ TaskPublish(o, "accept_publish", "split_audit", "accepted")
     \/ ~IsAlgo(o) /\ TaskPublish(o, "accept_publish", "trade", "accepted")
     \/ /\ order_data[o].kind = "limit"
        /\ TaskPublish(o, "accept_publish", "open_audit", "accepted")
  /\ UNCHANGED metrics

\* How many pieces an algo order may have.  A VWAP order has num_slices slices of
\* quantity / num_slices each.  An iceberg order trades the smaller of display_qty
\* and what remains until nothing remains; display_qty is drawn from a tenth to
\* three tenths of the quantity and decides how many rounds that takes.
Splits(o) == IF order_data[o].kind = "vwap" THEN SliceCounts ELSE RoundCounts

SplitAudit(o) ==
  /\ up
  /\ task[o].pc = "split_audit"
  /\ \E n \in Splits(o) :
       task' = [task EXCEPT ![o] = [pc |-> "trade", filled |-> @.filled, pieces |-> n]]
  /\ record_audit(o, "algo_split")
  /\ UNCHANGED <<processVars, metrics, submit, order_data, request, orders, traded,
                 cached, topicVars>>

\* A piece counts as executed even when its row could not be inserted.  The
\* foreign key of trades never bites: no row of orders is ever deleted.
InsertTrade(o) ==
  /\ up
  /\ task[o].pc = "trade"
  /\ task' = [task EXCEPT ![o] = [pc |-> IF IsAlgo(o) THEN "report" ELSE "fill",
                                  filled |-> @.filled + 1,
                                  pieces |-> @.pieces]]
  /\ \E out \in Outcomes("db") :
       /\ traded' = IF Applied(out) THEN [traded EXCEPT ![o] = @ + 1] ELSE traded
       /\ Log(o, "trade", out)
  /\ UNCHANGED <<processVars, metrics, submit, order_data, request, orders, audit,
                 cached, topicVars>>

\* Faulty variants: the loop over the pieces stops early, or goes on too long.
MoreThanOneLeft(o) == task[o].filled + 1 < task[o].pieces
OneTooMany(o) == task[o].filled <= task[o].pieces

\* for i in range(num_slices), while remaining > 0
HasMore(o) == task[o].filled < task[o].pieces

\* Algo orders report each child before the next one, the others report their
\* fill after the status and the audit entry.
ReportTrade(o) ==
  /\ TaskTo(o, "report", CASE IsAlgo(o) /\ HasMore(o) -> "trade"
                           [] IsAlgo(o) /\ ~HasMore(o) -> "fill"
                           [] OTHER -> "fill_publish")
  /\ \E out \in Outcomes("kafka") :
       /\ reported' = IF Applied(out) THEN [reported EXCEPT ![o] = @ + 1] ELSE reported
       /\ Log(o, "kafka", out)
  /\ UNCHANGED <<metrics, dbVars, announced, updates>>

Fill(o) == TaskStatus(o, "fill", "fill_audit", "filled", task[o].filled)

FillAudit(o) ==
  TaskAudit(o, "fill_audit", IF IsAlgo(o) THEN "fill_publish" ELSE "report", "filled")

\* Faulty variant: the execution waits for its row to say that it is filled.
FillPublishWaits(o) ==
  /\ orders[o].status = "filled"
  /\ TaskPublish(o, "fill_publish", "filled", "filled")
  /\ Count({"filled", "fill_count"})

FillPublish(o) ==
  /\ TaskPublish(o, "fill_publish", "filled", "filled")
  /\ Count({"filled", "fill_count"})

OpenAudit(o) == TaskAudit(o, "open_audit", "open_publish", "open")

\* Faulty variant: an execution that leaves the order open is not counted.
OpenUncounted(o) ==
  /\ TaskPublish(o, "open_publish", "open", "accepted")
  /\ UNCHANGED metrics

OpenPublish(o) ==
  /\ TaskPublish(o, "open_publish", "open", "accepted")
  /\ Count({"fill_count"})

-----------------------------------------------------------------------------
(* DELETE /orders/{o} and POST /orders/{o}/amend *)

RequestTo(r, from, to) ==
  /\ up
  /\ request[r].pc = from
  /\ request' = [request EXCEPT ![r].pc = to]
  /\ UNCHANGED <<processVars, metrics, submit, order_data, task>>

\* A client may learn the id from the answer, from GET /orders or from Kafka,
\* and may use an id the service does not know.  An amendment carries a new
\* quantity ("amend"), only a new limit price ("reprice") or nothing ("empty").
Send(r) ==
  /\ up
  /\ request[r].pc = "unsent"
  /\ \E o \in Orders, kind \in RequestKinds, q \in Amendments :
       /\ ClientsWait => submit[o] \in SubmitEnds
       /\ request' = [request EXCEPT ![r] =
            [pc |-> "read", kind |-> kind, order |-> o,
             quantity |-> IF kind = "amend" THEN q ELSE 0]]
  /\ UNCHANGED <<processVars, metrics, submit, order_data, task, logged, dbVars,
                 cached, topicVars>>

\* Faulty variant: a request is not refused for the status of the row.
RefusesEmpty(r, status) == request[r].kind = "empty"

\* 400: the status is final, or there is nothing to amend.
Refuses(r, status) == status \in FinalStatuses \/ request[r].kind = "empty"

\* SELECT status: 503 without a pool, 500 if it raises, 404 without a row, 400;
\* otherwise the handler goes on to its UPDATE.
Read(r) ==
  /\ request[r].pc = "read"
  /\ \E out \in Outcomes("db") : LET status == orders[request[r].order].status IN
       RequestTo(r, "read", CASE out = "skipped" -> "unavailable"
                              [] Raised(out) -> "error"
                              [] out = "ok" /\ status = "none" -> "not_found"
                              [] out = "ok" /\ Refuses(r, status) -> "refused"
                              [] OTHER -> "write")
  /\ UNCHANGED <<logged, dbVars, cached, topicVars>>

\* Faulty variant: an amendment also sets the status it publishes.
AmendedStatus(r, row) ==
  [row EXCEPT !.status = IF request[r].kind = "cancel" THEN "cancelled" ELSE "amended"]

\* SET status = 'cancelled', or SET quantity; the limit price is not modelled.
Rewritten(r, row) ==
  CASE request[r].kind = "cancel" -> [row EXCEPT !.status = "cancelled"]
    [] request[r].kind = "amend" -> [row EXCEPT !.quantity = request[r].quantity]
    [] OTHER -> row

\* UPDATE orders SET ... WHERE order_id, in a transaction of its own; an
\* exception ends the request, whether or not the row has changed.
Write(r) ==
  /\ \E out \in Outcomes("db") :
       /\ RequestTo(r, "write", IF Raised(out) THEN "error" ELSE "audit")
       /\ orders' = IF Applied(out)
                    THEN [orders EXCEPT ![request[r].order] = Rewritten(r, @)]
                    ELSE orders
  /\ UNCHANGED <<logged, traded, audit, cached, topicVars>>

RequestEvent(r) == IF request[r].kind = "cancel" THEN "cancelled" ELSE "amended"

AuditRequest(r) ==
  /\ RequestTo(r, "audit", "publish")
  /\ record_audit(request[r].order, RequestEvent(r))
  /\ UNCHANGED <<orders, traded, cached, topicVars>>

PublishTo(r, next) ==
  /\ RequestTo(r, "publish", next)
  /\ send_update(request[r].order, RequestEvent(r))
  /\ UNCHANGED <<dbVars, cached, announced, reported>>

\* Faulty variant: an amendment leaves the cached submission in place.
PublishAmendedLast(r) ==
  PublishTo(r, IF request[r].kind = "cancel" THEN "invalidate" ELSE "done")

PublishRequest(r) == PublishTo(r, "invalidate")

\* DEL order:o; a failure is swallowed without a log line.
Invalidate(r) ==
  /\ RequestTo(r, "invalidate", "done")
  /\ \E out \in Outcomes("redis") :
       cached' = [cached EXCEPT ![request[r].order] = @ /\ ~Applied(out)]
  /\ UNCHANGED <<logged, dbVars, topicVars>>

\* GET /orders/{o}: the cached submission if there is one, the row otherwise.
get_order(o) ==
  IF "redis" \in backends /\ cached[o]
  THEN NewRow("pending", order_data[o].quantity)
  ELSE orders[o]

\* Faulty variant: SET instead of SETEX, the key never expires.
NeverExpire(o) == FALSE /\ UNCHANGED vars

\* Redis drops the key when its 3600 seconds are over.
Expire(o) ==
  /\ cached[o]
  /\ cached' = [cached EXCEPT ![o] = FALSE]
  /\ UNCHANGED <<processVars, metrics, submit, order_data, task, request, logged,
                 dbVars, topicVars>>

-----------------------------------------------------------------------------
submit_order(o) ==
  \/ Receive(o) \/ StoreRefused(o) \/ AuditRefused(o) \/ PublishRefused(o)
  \/ Store(o) \/ Cache(o) \/ Announce(o) \/ AuditSubmitted(o)
  \/ Created(o)

execute_order(o) ==
  \/ Begin(o) \/ ErrorStatus(o) \/ ErrorAudit(o) \/ ErrorPublish(o)
  \/ AcceptAudit(o) \/ Accept(o) \/ AcceptPublish(o) \/ SplitAudit(o)
  \/ InsertTrade(o) \/ ReportTrade(o) \/ Fill(o) \/ FillAudit(o) \/ FillPublish(o)
  \/ OpenAudit(o) \/ OpenPublish(o)

\* cancel_order and amend_order, once the request has been sent
handle_request(r) ==
  \/ Read(r) \/ Write(r) \/ AuditRequest(r) \/ PublishRequest(r) \/ Invalidate(r)

Next ==
  \/ \E o \in Orders : submit_order(o) \/ execute_order(o) \/ Expire(o)
  \/ \E r \in Requests : Send(r) \/ handle_request(r)
  \/ Crash
  \/ lifespan

Spec == Init /\ [][Next]_vars

\* The event loop resumes every coroutine whose await has ended, and every
\* await on a backend ends, with an answer or an exception; Redis expires keys.
\* Nothing forces a client to send, or the process to die.
Fairness ==
  /\ \A o \in Orders : WF_vars(submit_order(o) /\ submit[o] # "new")
  /\ \A o \in Orders : WF_vars(execute_order(o))
  /\ \A o \in Orders : WF_vars(Expire(o))
  /\ \A r \in Requests : WF_vars(handle_request(r))
  /\ WF_vars(lifespan)

FairSpec == Spec /\ Fairness
-----------------------------------------------------------------------------
(* Types *)

TypeOK ==
  /\ up \in BOOLEAN
  /\ backends \in Backends
  /\ metrics \in [Counters -> Nat]
  /\ submit \in [Orders -> {"new"} \cup SubmitSteps \cup SubmitEnds]
  /\ order_data \in [Orders -> Submission]
  /\ task \in [Orders -> Task]
  /\ request \in [Requests -> Request]
  /\ logged \in [Orders -> SUBSET ErrorKinds]
  /\ orders \in [Orders -> Row]
  /\ traded \in [Orders -> Nat]
  /\ audit \in [Orders -> Seq(AuditActions)]
  /\ cached \in [Orders -> BOOLEAN]
  /\ announced \subseteq Orders
  /\ reported \in [Orders -> Nat]
  /\ updates \in [Orders -> Seq(UpdateStatuses)]

-----------------------------------------------------------------------------
(* Safety *)

\* However an order is split, and whatever fails, crashes or is cancelled while
\* it executes, it has no more trades than pieces, in the trades table or on the
\* trades topic: no piece is executed twice.
NoOverfill ==
  \A o \in Orders : /\ traded[o] <= task[o].pieces
                     /\ reported[o] <= task[o].pieces

\* The filled quantity of a row is the sum of all the pieces of the order, and if
\* the trades of the order are not those pieces then the service has logged the
\* insertion that failed: no discrepancy between the two tables is silent.
FillsAccounted ==
  \A o \in Orders : orders[o].filled # 0 =>
    /\ orders[o].filled = task[o].pieces
    /\ traded[o] = orders[o].filled \/ "trade" \in logged[o]

Occurs(x, seq) == \E i \in 1 .. Len(seq) : seq[i] = x

\* An order its client was told is refused or in error, whose row says rejected
\* or whose rejection was published, has no trades in the table or on the topic.
RefusedNeverTrades ==
  \A o \in Orders :
    \/ submit[o] \in {"refused", "error"}
    \/ orders[o].status = "rejected"
    \/ Occurs("rejected", updates[o])
    => traded[o] = 0 /\ reported[o] = 0

Working(o) == submit[o] \in SubmitSteps \/ task[o].pc \in TaskSteps
Pending(o) == \E r \in Requests : request[r].order = o /\ request[r].pc \in RequestSteps

\* The row is final and nobody who has already looked at it is about to write.
Settled(o) ==
  /\ orders[o].status \in FinalStatuses
  /\ ~Working(o)
  /\ \A r \in Requests : ~(request[r].order = o /\ request[r].pc = "write")

\* Once an order is settled no later cancel or amendment, crash or restart
\* changes its row: what the status checks of the two handlers do guarantee.
SettledStays ==
  [][\A o \in Orders : Settled(o) => Settled(o)' /\ orders'[o] = orders[o]]_vars

\* No cancel of o has passed its status check.
Uncancelled(o) ==
  \A r \in Requests : request[r].order = o /\ request[r].kind = "cancel" =>
    request[r].pc \in {"refused", "not_found"}
\* The last status in seq other than "amended"; "none" if there is no such status.
LastIs(seq, status) ==
  /\ status # "amended"
  /\ \E i \in 0 .. Len(seq) :
       /\ status = IF i = 0 THEN "none" ELSE seq[i]
       /\ \A j \in i + 1 .. Len(seq) : seq[j] = "amended"

\* When the work on an order is over, no call about it has failed, the process
\* has not died on it and no cancel got through, then the row, the audit trail
\* and the last status the consumers of order-updates saw tell the same story.
\* (Stated for a service that found all of its backends at start.)
Agreement ==
  \A o \in Orders :
    /\ submit[o] \in {"created", "refused"} /\ ~Working(o) /\ ~Pending(o)
    /\ task[o].pc # "lost" /\ logged[o] = {} /\ Uncancelled(o)
    => /\ LastIs(updates[o], orders[o].status)
       /\ orders[o].status = "filled" <=> Occurs("filled", audit[o])
       /\ orders[o].status = "accepted" <=> Occurs("open", audit[o])
       /\ orders[o].status = "rejected" <=>
            Occurs("rejected", audit[o]) \/ Occurs("error", audit[o])

\* "# Invalidate cache": once a cancel or an amendment has been answered, a read
\* of the order is no longer served from the cached submission.
CancelInvalidates ==
  \A r \in Requests : request[r].pc = "done" => ~cached[request[r].order]

Tasks(pcs) == Cardinality({o \in Orders : task[o].pc \in pcs})

\* While the process lives, its counters account for every order it has taken:
\* each admitted order is executing, counted by fill_count, or failed, and each
\* rejection was made by the risk check or by a failed execution.
CountersAddUp ==
  ~Crashes =>
    /\ metrics.submitted = Tasks(TaskSteps) + metrics.fill_count + Tasks({"failed"})
    /\ metrics.filled = Cardinality({o \in Orders : task[o].pc = "filled"})
    /\ metrics.rejected = Tasks({"failed"}) +
         Cardinality({o \in Orders : submit[o] \in {"refuse", "refuse_audit",
                                                    "refuse_publish", "refused"}})

-----------------------------------------------------------------------------
(* The inductive invariant behind NoOverfill, FillsAccounted and              *)
(* RefusedNeverTrades                                                         *)

\* Where an execution has not traded, or has recorded the fill in the row.
BeforeTrades == {"none", "start", "accept_audit", "accept", "accept_publish",
                 "split_audit", "open_audit", "open_publish", "open",
                 "error_status", "error_audit", "error_publish", "failed"}
AfterFill == {"fill_audit", "report", "fill_publish", "filled", "lost"}

\* An order executes once, after its 201; what has been inserted and reported of
\* it is part of what the task counts as filled, which stays within its pieces; an
\* order that is not split is one piece.
Bounded(o) ==
  /\ task[o].pc # "none" => submit[o] = "created"
  /\ task[o].pc \in BeforeTrades => task[o].filled = 0
  /\ task[o].pc = "trade" /\ ~IsAlgo(o) => task[o].filled = 0
  /\ task[o].filled <= task[o].pieces
  /\ task[o].pc # "none" => task[o].pieces > 0 /\ (~IsAlgo(o) => task[o].pieces = 1)
  /\ task[o].pc = "split_audit" => IsAlgo(o)
  /\ task[o].pc = "trade" => task[o].filled < task[o].pieces
  /\ traded[o] <= task[o].filled
  /\ reported[o] <= task[o].filled
  /\ task[o].pc = "report" \/ (~IsAlgo(o) /\ task[o].pc \in {"fill", "fill_audit"})
     => reported[o] < task[o].filled

\* A missing trade row was logged, and a row is filled by a whole execution only.
Accounted(o) ==
  /\ task[o].pc \in TaskSteps => up
  /\ task[o].pc \in TaskSteps /\ "db" \in backends
     => traded[o] = task[o].filled \/ "trade" \in logged[o]
  /\ task[o].pc = "fill" => task[o].filled = task[o].pieces
  /\ orders[o].filled # 0 =>
       /\ task[o].pc \in AfterFill
       /\ task[o].pc = "report" => ~IsAlgo(o)
       /\ orders[o].filled = task[o].pieces
       /\ traded[o] = orders[o].filled \/ "trade" \in logged[o]

\* The order has been refused by the risk check, or its execution has failed.
Dead(o) ==
  \/ task[o].pc = "none" /\ submit[o] \in {"refuse_audit", "refuse_publish",
                                           "refused", "lost"}
  \/ task[o].pc \in {"error_audit", "error_publish", "failed"}
  \/ task[o].pc = "lost" /\ task[o].filled = 0

RejectedDead(o) ==
  orders[o].status = "rejected" \/ Occurs("rejected", updates[o]) => Dead(o)

\* What has been executed, recorded and reported of every order fits at each step.
Safe ==
  /\ TypeOK
  /\ \A o \in Orders : Bounded(o) /\ Accounted(o) /\ RejectedDead(o)

-----------------------------------------------------------------------------
(* The inductive invariant behind ImplementsExecution, SettledStays,          *)
(* CancelInvalidates and Agreement                                            *)

\* Where an execution has traded all the pieces of its order.
Filled(o) == \/ task[o].pc \in {"fill", "fill_audit", "fill_publish", "filled"}
             \/ task[o].pc = "report" /\ ~IsAlgo(o)

\* An answered order has its task, and what a task reports as filled is all of
\* its pieces.
Whole(o) ==
  /\ submit[o] = "new" => orders[o].status = "none"
  /\ submit[o] # "new" => order_data[o].quantity \in Quantities
  /\ submit[o] = "created" => task[o].pc # "none"
  /\ Filled(o) => task[o].filled = task[o].pieces

\* A request is about an order that has been answered, if clients wait; it
\* writes only to a row that is there, and what it has answered is not cached.
Asked(r) ==
  /\ request[r].pc # "unsent" => request[r].order \in Orders
  /\ request[r].pc # "unsent" /\ ClientsWait => submit[request[r].order] \in SubmitEnds
  /\ request[r].pc = "write" => orders[request[r].order].status # "none"

\* No cancel of o has passed its status check or failed in it.
Unrevised(o) ==
  \A r \in Requests : request[r].order = o /\ request[r].kind = "cancel" =>
    request[r].pc \in {"unsent", "read", "refused", "not_found"}

\* The place of the work on o, in its handler or, once it is admitted, its task.
Place(o) == IF task[o].pc = "none" THEN submit[o] ELSE task[o].pc

\* What the row says at each place, and what was published last.
RowStatus(o) ==
  CASE Place(o) \in {"new", "store", "refuse"} -> "none"
    [] Place(o) \in {"cache", "announce", "audit", "schedule", "start", "accept_audit", "accept",
                     "error_status"} -> "pending"
    [] Filled(o) /\ Place(o) # "fill" -> "filled"
    [] Place(o) \in {"refuse_audit", "refuse_publish", "refused",
                     "error_audit", "error_publish", "failed"} -> "rejected"
    [] OTHER -> "accepted"
LastUpdate(o) ==
  CASE Place(o) \in {"refused", "failed"} -> "rejected"
    [] Place(o) = "filled" -> "filled"
    [] Place(o) \in {"split_audit", "trade", "report", "fill", "fill_audit",
                     "fill_publish", "open_audit", "open_publish", "open"} -> "accepted"
    [] OTHER -> "none"

\* As long as nothing has failed and no cancel has got through, the row, the
\* last status published and the audit trail are those of the place.
Story(o) ==
  Backends = {BackendNames} /\ logged[o] = {} /\ Unrevised(o)
  /\ Place(o) \notin {"error", "lost"}
  => /\ orders[o].status = RowStatus(o)
     /\ LastIs(updates[o], LastUpdate(o))
     /\ Occurs("filled", audit[o]) <=> Filled(o) /\ Place(o) \notin {"fill", "fill_audit"}
     /\ Occurs("open", audit[o]) <=> Place(o) \in {"open_publish", "open"}
     /\ Occurs("rejected", audit[o]) <=> Place(o) \in {"refuse_publish", "refused"}
     /\ Occurs("error", audit[o]) <=> Place(o) \in {"error_publish", "failed"}

\* Executions are whole, requests are about orders that are there, and as long as
\* nothing has failed row, events and audit trail tell where the work stands.
Coherent ==
  /\ \A o \in Orders : Whole(o) /\ Story(o)
  /\ \A r \in Requests : Asked(r)

-----------------------------------------------------------------------------
(* Liveness, under FairSpec *)

\* While the process lives, no row stays pending, unless its client was answered
\* with a 500 after the INSERT or an update of the status was logged as failed.
NoneStaysPending ==
  \A o \in Orders : orders[o].status = "pending" ~>
    \/ orders[o].status # "pending"
    \/ submit[o] = "error"
    \/ "status" \in logged[o]

\* In the end every read of an order returns its row: a stale cached submission
\* outlives the changes of the row by its time to live at most.
ReadsConverge ==
  \A o \in Orders : <>[](get_order(o) = orders[o])

-----------------------------------------------------------------------------
(* The execution of orders, seen as OrderExecution *)

StageOf(o) ==
  CASE task[o].pc = "none" /\ submit[o] \in {"refused", "error", "lost"} -> "declined"
    [] task[o].pc = "none" /\ submit[o] \notin {"refused", "error", "lost"} -> "open"
    [] task[o].pc \in TaskSteps -> "admitted"
    [] task[o].pc = "filled" -> "complete"
    [] task[o].pc \in {"open", "failed"} -> "unfilled"
    [] task[o].pc = "lost" -> "abandoned"

Execution ==
  INSTANCE OrderExecution WITH
    stage <- [o \in Orders |-> StageOf(o)],
    PieceCounts <- {1} \cup SliceCounts \cup RoundCounts,
    pieces <- [o \in Orders |-> task[o].pieces],
    executed <- [o \in Orders |-> task[o].filled]

\* Every step of the handlers and tasks, and every failure, is a step of the
\* abstract execution of an order or changes nothing of it.
ImplementsExecution == Execution!Spec

\* No failure of a backend stops an execution: every order answered with a 201
\* comes to the end of execute_order, unless the process dies.
ExecutionsEnd == Execution!EveryAdmittedEnds

-----------------------------------------------------------------------------
(* What the repository says and the code does not do *)

\* main.py:936, "Cannot cancel order in status: filled"
FilledNeverCancelled ==
  [][\A o \in Orders :
       orders[o].status = "filled" => orders'[o].status # "cancelled"]_vars
=============================================================================
