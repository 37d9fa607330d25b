------------------------- MODULE OrderServiceProofs -------------------------
(***************************************************************************)
(* Proofs about OrderService, for any sets of orders and requests, any     *)
(* quantities, any failing backends and any number of crashes.             *)
(***************************************************************************)
EXTENDS OrderService, TLAPS

-----------------------------------------------------------------------------
(* Types of what the calls to the backends write *)

\* A log line is of a known kind.
LEMMA LogType ==
  ASSUME TypeOK, NEW o, NEW e \in ErrorKinds, NEW out, Log(o, e, out)
  PROVE  logged' \in [Orders -> SUBSET ErrorKinds]
BY DEF TypeOK, Log

\* Counters stay numbers.
LEMMA CountType ==
  ASSUME TypeOK, NEW S, Count(S) PROVE metrics' \in [Counters -> Nat]
BY DEF TypeOK, Count

\* An audit entry keeps the types.
LEMMA AuditType ==
  ASSUME TypeOK, NEW o, NEW a \in AuditActions, record_audit(o, a)
  PROVE  /\ audit' \in [Orders -> Seq(AuditActions)]
         /\ logged' \in [Orders -> SUBSET ErrorKinds]
<1>1. PICK out \in Outcomes("db") :
        /\ audit' = IF Applied(out) THEN [audit EXCEPT ![o] = Append(@, a)] ELSE audit
        /\ Log(o, "audit", out)
  BY DEF record_audit
<1>2. audit' \in [Orders -> Seq(AuditActions)]
  <2>1. o \in Orders => Append(audit[o], a) \in Seq(AuditActions)
    BY DEF TypeOK
  <2> QED BY <1>1, <2>1 DEF TypeOK
<1>3. logged' \in [Orders -> SUBSET ErrorKinds]
  <2>1. "audit" \in ErrorKinds
    BY DEF ErrorKinds
  <2> QED BY <1>1, <2>1, LogType
<1> QED BY <1>2, <1>3

\* A published update keeps the types.
LEMMA UpdateType ==
  ASSUME TypeOK, NEW o, NEW s \in UpdateStatuses, send_update(o, s)
  PROVE  /\ updates' \in [Orders -> Seq(UpdateStatuses)]
         /\ logged' \in [Orders -> SUBSET ErrorKinds]
<1>1. PICK out \in Outcomes("kafka") :
        /\ updates' = IF Applied(out) THEN [updates EXCEPT ![o] = Append(@, s)]
                                      ELSE updates
        /\ Log(o, "kafka", out)
  BY DEF send_update
<1>2. updates' \in [Orders -> Seq(UpdateStatuses)]
  <2>1. o \in Orders => Append(updates[o], s) \in Seq(UpdateStatuses)
    BY DEF TypeOK
  <2> QED BY <1>1, <2>1 DEF TypeOK
<1>3. logged' \in [Orders -> SUBSET ErrorKinds]
  <2>1. "kafka" \in ErrorKinds
    BY DEF ErrorKinds
  <2> QED BY <1>1, <2>1, LogType
<1> QED BY <1>2, <1>3

\* An UPDATE of the status keeps the types.
LEMMA StatusType ==
  ASSUME TypeOK, NEW o \in Orders, NEW s \in Statuses, NEW f \in Nat,
         update_order_status(o, s, f)
  PROVE  /\ orders' \in [Orders -> Row]
         /\ logged' \in [Orders -> SUBSET ErrorKinds]
<1>1. PICK out \in Outcomes("db") :
        /\ orders' = IF Applied(out)
                     THEN [orders EXCEPT ![o] = Updated(@, s, f)] ELSE orders
        /\ Log(o, "status", out)
  BY DEF update_order_status
<1>2. orders' \in [Orders -> Row]
  <2>1. orders \in [Orders -> Row] /\ orders[o] \in Row
    BY DEF TypeOK
  <2>2. Updated(orders[o], s, f) \in Row
    BY <2>1 DEF Updated, Row
  <2> QED BY <1>1, <2>1, <2>2
<1>3. logged' \in [Orders -> SUBSET ErrorKinds]
  <2>1. "status" \in ErrorKinds
    BY DEF ErrorKinds
  <2> QED BY <1>1, <2>1, LogType
<1> QED BY <1>2, <1>3

\* The INSERT of an order keeps the types.
LEMMA InsertType ==
  ASSUME TypeOK, NEW o \in Orders, NEW s \in Statuses, NEW out, InsertOrder(o, s, out)
  PROVE  /\ orders' \in [Orders -> Row]
         /\ logged' \in [Orders -> SUBSET ErrorKinds]
<1>1. orders' \in [Orders -> Row]
  <2>1. order_data[o].quantity \in {0} \cup Quantities
    BY DEF TypeOK, Submission
  <2>2. NewRow(s, order_data[o].quantity) \in Row
    BY <2>1 DEF NewRow, Row
  <2> QED BY <2>2 DEF TypeOK, InsertOrder
<1>2. logged' \in [Orders -> SUBSET ErrorKinds]
  <2>1. "order" \in ErrorKinds
    BY DEF ErrorKinds
  <2> QED BY <2>1, LogType DEF InsertOrder
<1> QED BY <1>1, <1>2

-----------------------------------------------------------------------------
(* Type correctness *)

\* The types hold at the start.
LEMMA InitType == Init => TypeOK
BY DEF Init, TypeOK, ZeroMetrics, NoData, NoTask, NoRequest, NoRow, Row,
       OrderKinds, RequestKinds, Task, Request, Submission

\* submit_order keeps the types.
LEMMA SubmitType ==
  ASSUME TypeOK, NEW o \in Orders, submit_order(o)
  PROVE  TypeOK'
<1> USE DEF SubmitTo, processVars, dbVars, topicVars, SubmitSteps, SubmitEnds
<1>1. CASE Receive(o)
  <2>1. PICK q \in Quantities, k \in Kinds :
          order_data' = [order_data EXCEPT ![o] = [quantity |-> q, kind |-> k]]
    BY <1>1 DEF Receive
  <2>2. order_data' \in [Orders -> Submission]
    BY <2>1, KindAssumption DEF TypeOK, Submission
  <2>3. metrics' \in [Counters -> Nat]
    BY <1>1, CountType DEF Receive, TypeOK
  <2>4. submit' \in [Orders -> {"new"} \cup SubmitSteps \cup SubmitEnds]
    BY <1>1 DEF Receive, TypeOK
  <2> QED BY <1>1, <2>2, <2>3, <2>4 DEF TypeOK, Receive
<1>2. CASE StoreRefused(o)
  <2>1. orders' \in [Orders -> Row] /\ logged' \in [Orders -> SUBSET ErrorKinds]
    BY <1>2, InsertType DEF StoreRefused, Statuses
  <2> QED BY <1>2, <2>1 DEF TypeOK, StoreRefused
<1>3. CASE AuditRefused(o)
  <2>1. /\ audit' \in [Orders -> Seq(AuditActions)]
        /\ logged' \in [Orders -> SUBSET ErrorKinds]
    BY <1>3, AuditType DEF AuditRefused, AuditActions
  <2> QED BY <1>3, <2>1 DEF TypeOK, AuditRefused
<1>4. CASE PublishRefused(o)
  <2>1. /\ updates' \in [Orders -> Seq(UpdateStatuses)]
        /\ logged' \in [Orders -> SUBSET ErrorKinds]
    BY <1>4, UpdateType DEF PublishRefused, UpdateStatuses
  <2> QED BY <1>4, <2>1 DEF TypeOK, PublishRefused
<1>5. CASE Store(o)
  <2>1. orders' \in [Orders -> Row] /\ logged' \in [Orders -> SUBSET ErrorKinds]
    BY <1>5, InsertType DEF Store, Statuses
  <2> QED BY <1>5, <2>1 DEF TypeOK, Store
<1>6. CASE Cache(o)
  BY <1>6 DEF TypeOK, Cache, Applied
<1>7. CASE Announce(o)
  <2>1. logged' \in [Orders -> SUBSET ErrorKinds]
    BY <1>7, LogType DEF Announce, ErrorKinds
  <2> QED BY <1>7, <2>1 DEF TypeOK, Announce
<1>8. CASE AuditSubmitted(o)
  <2>1. /\ audit' \in [Orders -> Seq(AuditActions)]
        /\ logged' \in [Orders -> SUBSET ErrorKinds]
    BY <1>8, AuditType DEF AuditSubmitted, AuditActions
  <2> QED BY <1>8, <2>1 DEF TypeOK, AuditSubmitted
<1>9. CASE Created(o)
  <2>1. task' \in [Orders -> Task]
    <3>1. [pc |-> "start", filled |-> 0, pieces |-> 1] \in Task
      BY DEF Task, TaskSteps
    <3>2. /\ task \in [Orders -> Task]
          /\ task' = [task EXCEPT ![o] = [pc |-> "start", filled |-> 0, pieces |-> 1]]
      BY <1>9 DEF Created, TypeOK
    <3> QED
      BY <3>1, <3>2
  <2>2. metrics' \in [Counters -> Nat]
    BY <1>9, CountType DEF Created
  <2> QED BY <1>9, <2>1, <2>2 DEF TypeOK, Created
<1> QED BY <1>1, <1>2, <1>3, <1>4, <1>5, <1>6, <1>7, <1>8, <1>9 DEF submit_order

\* A task that moves on is still a task.
LEMMA TaskToType ==
  ASSUME TypeOK, NEW o \in Orders, NEW from, NEW to \in TaskSteps \cup TaskEnds,
         TaskTo(o, from, to)
  PROVE  task' \in [Orders -> Task]
BY DEF TypeOK, TaskTo, Task

\* Every split has at least one piece.
LEMMA SplitsType ==
  ASSUME NEW o PROVE Splits(o) \subseteq Nat \ {0}
BY PiecesAssumption DEF Splits

\* execute_order keeps the types.
LEMMA ExecuteType ==
  ASSUME TypeOK, NEW o \in Orders, execute_order(o)
  PROVE  TypeOK'
<1> USE DEF processVars, dbVars, topicVars
<1>t. ASSUME NEW from, NEW to \in TaskSteps \cup TaskEnds, TaskTo(o, from, to)
      PROVE  /\ task' \in [Orders -> Task]
             /\ UNCHANGED <<up, backends, submit, order_data, request, cached>>
  BY <1>t, TaskToType DEF TaskTo
<1>a. ASSUME NEW from, NEW to \in TaskSteps \cup TaskEnds, NEW a \in AuditActions,
             TaskAudit(o, from, to, a)
      PROVE  TypeOK'
  BY <1>a, <1>t, AuditType DEF TaskAudit, TypeOK
<1>s. ASSUME NEW from, NEW to \in TaskSteps \cup TaskEnds, NEW s \in Statuses,
             NEW f \in Nat, TaskStatus(o, from, to, s, f)
      PROVE  TypeOK'
  BY <1>s, <1>t, StatusType DEF TaskStatus, TypeOK
<1>p. ASSUME NEW from, NEW to \in TaskSteps \cup TaskEnds, NEW s \in UpdateStatuses,
             TaskPublish(o, from, to, s), metrics' \in [Counters -> Nat]
      PROVE  TypeOK'
  BY <1>p, <1>t, UpdateType DEF TaskPublish, TypeOK
<1>f. orders[o].filled \in Nat /\ task[o].filled \in Nat /\ task[o].pieces \in Nat
  BY DEF TypeOK, Row, Task
<1>m. metrics \in [Counters -> Nat]
  BY DEF TypeOK
<1>1. CASE Begin(o)
  <2>1. task' \in [Orders -> Task] /\ UNCHANGED <<up, backends, submit, order_data,
                                                  request, cached>>
    BY <1>1, <1>t DEF Begin, TaskSteps
  <2> QED BY <1>1, <2>1 DEF Begin, TypeOK
<1>2. CASE ErrorStatus(o)
  BY <1>2, <1>s, <1>f DEF ErrorStatus, TaskSteps, Statuses
<1>3. CASE ErrorAudit(o)
  BY <1>3, <1>a DEF ErrorAudit, TaskSteps, AuditActions
<1>4. CASE ErrorPublish(o)
  BY <1>4, <1>p, CountType DEF ErrorPublish, TaskEnds, UpdateStatuses
<1>5. CASE AcceptAudit(o)
  BY <1>5, <1>a DEF AcceptAudit, TaskSteps, AuditActions
<1>6. CASE Accept(o)
  BY <1>6, <1>s, <1>f DEF Accept, TaskSteps, Statuses
<1>7. CASE AcceptPublish(o)
  BY <1>7, <1>p, <1>m DEF AcceptPublish, TaskSteps, UpdateStatuses
<1>8. CASE SplitAudit(o)
  <2>1. PICK n \in Splits(o) :
          task' = [task EXCEPT ![o] = [pc |-> "trade", filled |-> @.filled,
                                       pieces |-> n]]
    BY <1>8 DEF SplitAudit
  <2>2. n \in Nat
    BY SplitsType
  <2>3. [pc |-> "trade", filled |-> task[o].filled, pieces |-> n] \in Task
    BY <2>2, <1>f DEF Task, TaskSteps
  <2>4. task' \in [Orders -> Task]
    BY <2>1, <2>3 DEF TypeOK
  <2>5. "algo_split" \in AuditActions
    BY DEF AuditActions
  <2> QED BY <1>8, <2>4, <2>5, AuditType DEF SplitAudit, TypeOK
<1>9. CASE InsertTrade(o)
  <2>1. [pc |-> IF IsAlgo(o) THEN "report" ELSE "fill",
         filled |-> task[o].filled + 1, pieces |-> task[o].pieces] \in Task
    BY <1>f DEF Task, TaskSteps
  <2>2. task' \in [Orders -> Task]
    BY <1>9, <2>1 DEF InsertTrade, TypeOK
  <2>3. PICK out \in Outcomes("db") :
          /\ traded' = IF Applied(out) THEN [traded EXCEPT ![o] = @ + 1] ELSE traded
          /\ Log(o, "trade", out)
    BY <1>9 DEF InsertTrade
  <2>4. traded' \in [Orders -> Nat]
    BY <2>3 DEF TypeOK
  <2>5. logged' \in [Orders -> SUBSET ErrorKinds]
    BY <2>3, LogType DEF ErrorKinds
  <2> QED BY <1>9, <2>2, <2>4, <2>5 DEF InsertTrade, TypeOK
<1>10. CASE ReportTrade(o)
  <2>1. task' \in [Orders -> Task] /\ UNCHANGED <<up, backends, submit, order_data,
                                                  request, cached>>
    BY <1>10, <1>t DEF ReportTrade, TaskSteps
  <2>2. PICK out \in Outcomes("kafka") :
          /\ reported' = IF Applied(out) THEN [reported EXCEPT ![o] = @ + 1] ELSE reported
          /\ Log(o, "kafka", out)
    BY <1>10 DEF ReportTrade
  <2>3. reported' \in [Orders -> Nat]
    BY <2>2 DEF TypeOK
  <2>4. logged' \in [Orders -> SUBSET ErrorKinds]
    BY <2>2, LogType DEF ErrorKinds
  <2> QED BY <1>10, <2>1, <2>3, <2>4 DEF ReportTrade, TypeOK
<1>11. CASE Fill(o)
  BY <1>11, <1>s, <1>f DEF Fill, TaskSteps, Statuses
<1>12. CASE FillAudit(o)
  BY <1>12, <1>a DEF FillAudit, TaskSteps, AuditActions
<1>13. CASE FillPublish(o)
  BY <1>13, <1>p, CountType DEF FillPublish, TaskEnds, UpdateStatuses
<1>14. CASE OpenAudit(o)
  BY <1>14, <1>a DEF OpenAudit, TaskSteps, AuditActions
<1>15. CASE OpenPublish(o)
  BY <1>15, <1>p, CountType DEF OpenPublish, TaskEnds, UpdateStatuses
<1> QED BY <1>1, <1>2, <1>3, <1>4, <1>5, <1>6, <1>7, <1>8, <1>9, <1>10, <1>11,
           <1>12, <1>13, <1>14, <1>15 DEF execute_order

\* A request that moves on is still a request.
LEMMA RequestToType ==
  ASSUME TypeOK, NEW r \in Requests, NEW from,
         NEW to \in RequestSteps \cup RequestEnds, RequestTo(r, from, to)
  PROVE  request' \in [Requests -> Request]
<1>1. request \in [Requests -> Request] /\ request' = [request EXCEPT ![r].pc = to]
  BY DEF TypeOK, RequestTo
<1>2. [request[r] EXCEPT !.pc = to] \in Request
  BY <1>1 DEF Request
<1> QED
  BY <1>1, <1>2

\* The row that a cancel or an amendment writes is a row.
LEMMA RewrittenType ==
  ASSUME TypeOK, NEW r \in Requests, NEW row \in Row PROVE Rewritten(r, row) \in Row
<1>1. request[r].quantity \in {0} \cup Amendments
  BY DEF TypeOK, Request
<1>2. "cancelled" \in Statuses
  BY DEF Statuses
<1> QED BY <1>1, <1>2 DEF Rewritten, Row

\* cancel_order and amend_order keep the types.
LEMMA HandleRequestType ==
  ASSUME TypeOK, NEW r \in Requests, handle_request(r)
  PROVE  TypeOK'
<1> USE DEF processVars, dbVars, topicVars
<1> DEFINE o == request[r].order
<1>t. ASSUME NEW from, NEW to \in RequestSteps \cup RequestEnds, RequestTo(r, from, to)
      PROVE  /\ request' \in [Requests -> Request]
             /\ UNCHANGED <<up, backends, metrics, submit, order_data, task>>
  BY <1>t, RequestToType DEF RequestTo
<1>1. CASE Read(r)
  <2>1. /\ request' \in [Requests -> Request]
        /\ UNCHANGED <<up, backends, metrics, submit, order_data, task>>
    BY <1>1, <1>t DEF Read, RequestSteps, RequestEnds
  <2> QED BY <1>1, <2>1 DEF Read, TypeOK
<1>2. CASE Write(r)
  <2>1. /\ request' \in [Requests -> Request]
        /\ UNCHANGED <<up, backends, metrics, submit, order_data, task>>
    BY <1>2, <1>t DEF Write, RequestSteps, RequestEnds
  <2>2. orders' = orders \/ orders' = [orders EXCEPT ![o] = Rewritten(r, @)]
    BY <1>2 DEF Write
  <2>3. orders' \in [Orders -> Row]
    <3>1. o \in Orders => Rewritten(r, orders[o]) \in Row
      BY RewrittenType DEF TypeOK
    <3> HIDE DEF o
    <3> QED BY <2>2, <3>1 DEF TypeOK
  <2> QED BY <1>2, <2>1, <2>3 DEF Write, TypeOK
<1>3. CASE AuditRequest(r)
  <2>1. /\ request' \in [Requests -> Request]
        /\ UNCHANGED <<up, backends, metrics, submit, order_data, task>>
    BY <1>3, <1>t DEF AuditRequest, RequestSteps
  <2>2. RequestEvent(r) \in AuditActions
    BY DEF RequestEvent, AuditActions
  <2>3. /\ audit' \in [Orders -> Seq(AuditActions)]
        /\ logged' \in [Orders -> SUBSET ErrorKinds]
    BY <1>3, <2>2, AuditType DEF AuditRequest
  <2> QED BY <1>3, <2>1, <2>3 DEF AuditRequest, TypeOK
<1>4. CASE PublishRequest(r)
  <2>1. /\ request' \in [Requests -> Request]
        /\ UNCHANGED <<up, backends, metrics, submit, order_data, task>>
    BY <1>4, <1>t DEF PublishRequest, PublishTo, RequestSteps
  <2>2. RequestEvent(r) \in UpdateStatuses
    BY DEF RequestEvent, UpdateStatuses
  <2>3. /\ updates' \in [Orders -> Seq(UpdateStatuses)]
        /\ logged' \in [Orders -> SUBSET ErrorKinds]
    BY <1>4, <2>2, UpdateType DEF PublishRequest, PublishTo
  <2> QED BY <1>4, <2>1, <2>3 DEF PublishRequest, PublishTo, TypeOK
<1>5. CASE Invalidate(r)
  <2>1. /\ request' \in [Requests -> Request]
        /\ UNCHANGED <<up, backends, metrics, submit, order_data, task>>
    BY <1>5, <1>t DEF Invalidate, RequestEnds
  <2> QED BY <1>5, <2>1 DEF Invalidate, Applied, TypeOK
<1> QED BY <1>1, <1>2, <1>3, <1>4, <1>5 DEF handle_request

\* Requests that arrive, expiring keys, crashes and starts keep the types.
LEMMA OtherType ==
  ASSUME TypeOK,
         \/ \E r \in Requests : Send(r)
         \/ \E o \in Orders : Expire(o)
         \/ Crash \/ lifespan \/ UNCHANGED vars
  PROVE  TypeOK'
<1> USE DEF processVars, dbVars, topicVars
<1>1. ASSUME NEW r \in Requests, Send(r) PROVE TypeOK'
  <2>1. PICK o \in Orders, kind \in RequestKinds, q \in Amendments :
          request' = [request EXCEPT ![r] =
            [pc |-> "read", kind |-> kind, order |-> o,
             quantity |-> IF kind = "amend" THEN q ELSE 0]]
    BY <1>1 DEF Send
  <2>2. request' \in [Requests -> Request]
    BY <2>1 DEF TypeOK, Request, RequestSteps
  <2> QED BY <1>1, <2>2 DEF Send, TypeOK
<1>2. ASSUME NEW o \in Orders, Expire(o) PROVE TypeOK'
  BY <1>2 DEF Expire, TypeOK
<1>3. CASE Crash
  <2>1. submit' \in [Orders -> {"new"} \cup SubmitSteps \cup SubmitEnds]
    BY <1>3 DEF Crash, TypeOK, SubmitEnds
  <2>2. task' \in [Orders -> Task]
    <3>1. \A o \in Orders : [task[o] EXCEPT !.pc = "lost"] \in Task
      <4>1. \A o \in Orders : task[o] \in Task
        BY DEF TypeOK
      <4> QED
        BY <4>1 DEF Task, TaskEnds
    <3> QED BY <1>3, <3>1 DEF Crash, TypeOK
  <2>3. request' \in [Requests -> Request]
    <3>1. \A r \in Requests : [request[r] EXCEPT !.pc = "lost"] \in Request
      <4>1. \A r \in Requests : request[r] \in Request
        BY DEF TypeOK
      <4> QED
        BY <4>1 DEF Request, RequestEnds
    <3> QED BY <1>3, <3>1 DEF Crash, TypeOK
  <2>4. metrics' \in [Counters -> Nat]
    BY <1>3 DEF Crash, ZeroMetrics
  <2> QED BY <1>3, <2>1, <2>2, <2>3, <2>4 DEF Crash, TypeOK
<1>4. CASE lifespan
  BY <1>4 DEF lifespan, TypeOK
<1>5. CASE UNCHANGED vars
  BY <1>5 DEF vars, TypeOK
<1> QED BY <1>1, <1>2, <1>3, <1>4, <1>5

-----------------------------------------------------------------------------
(* What has been traded is within what has been executed, and that within the *)
(* pieces of the order                                                        *)

\* A task that moves on takes nothing but its place along.
LEMMA TaskToFacts ==
  ASSUME TypeOK, NEW o \in Orders, NEW from, NEW to, TaskTo(o, from, to), NEW p \in Orders
  PROVE  /\ task[o].pc = from
         /\ task'[p].pc = IF p = o THEN to ELSE task[p].pc
         /\ task'[p].filled = task[p].filled
         /\ task'[p].pieces = task[p].pieces
         /\ UNCHANGED <<up, backends, submit, order_data, request, cached>>
         /\ up
BY DEF TypeOK, Task, TaskTo, processVars

\* What is counted of an order are numbers.
LEMMA ValueTypes ==
  ASSUME TypeOK, NEW p \in Orders
  PROVE  /\ task[p].filled \in Nat /\ task[p].pieces \in Nat
         /\ traded[p] \in Nat /\ reported[p] \in Nat /\ orders[p].filled \in Nat
<1>1. task[p] \in Task /\ orders[p] \in Row
  BY DEF TypeOK
<1>2. traded[p] \in Nat /\ reported[p] \in Nat
  BY DEF TypeOK
<1> QED BY <1>1, <1>2 DEF Task, Row

\* submit_order trades nothing.
LEMMA SubmitBounded ==
  ASSUME TypeOK, \A q \in Orders : Bounded(q), NEW o \in Orders, submit_order(o),
         NEW p \in Orders
  PROVE  Bounded(p)'
<1> USE DEF dbVars, topicVars, processVars
<1>1. submit[p] # "created" => task[p].pc = "none" /\ task[p].filled = 0
  BY DEF Bounded, BeforeTrades
<1>2. CASE Receive(o)
  <2>1. /\ submit[o] = "new" /\ submit' = [submit EXCEPT ![o] = submit'[o]]
        /\ UNCHANGED <<task, traded, reported>>
    BY <1>2 DEF Receive, SubmitTo, TypeOK
  <2>2. CASE p = o
    <3>1. task[o].pc = "none" /\ task[o].filled = 0
      BY <1>1, <2>1, <2>2
    <3> QED BY <2>1, <2>2, <3>1, ValueTypes DEF Bounded, IsAlgo
  <2>3. CASE p # o
    <3>1. order_data'[p] = order_data[p] /\ submit'[p] = submit[p]
      BY <1>2, <2>1, <2>3 DEF Receive, TypeOK
    <3> QED BY <2>1, <3>1 DEF Bounded, IsAlgo
  <2> QED BY <2>2, <2>3
<1>3. CASE StoreRefused(o) \/ AuditRefused(o) \/ PublishRefused(o) \/ Store(o)
           \/ Cache(o) \/ Announce(o) \/ AuditSubmitted(o)
  <2>1. /\ submit[o] # "created" /\ (p # o => submit'[p] = submit[p])
        /\ UNCHANGED <<task, traded, reported, order_data>>
    BY <1>3 DEF StoreRefused, AuditRefused, PublishRefused, Store, Cache, Announce,
                AuditSubmitted, SubmitTo, TypeOK
  <2> QED BY <1>1, <2>1 DEF Bounded, IsAlgo
<1>4. CASE Created(o)
  <2>1. /\ submit[o] = "schedule" /\ submit' = [submit EXCEPT ![o] = "created"]
        /\ UNCHANGED <<traded, reported, order_data>>
    BY <1>4 DEF Created, SubmitTo
  <2>2. CASE p = o
    <3>1. task'[p] = [pc |-> "start", filled |-> 0, pieces |-> 1]
      BY <1>4, <2>2 DEF Created, TypeOK
    <3>2. submit'[p] = "created" /\ task[p].filled = 0
      BY <1>1, <2>1, <2>2 DEF TypeOK
    <3> QED BY <2>1, <3>1, <3>2 DEF Bounded, IsAlgo, BeforeTrades
  <2>3. CASE p # o
    <3>1. task'[p] = task[p] /\ submit'[p] = submit[p]
      BY <1>4, <2>1, <2>3 DEF Created, TypeOK
    <3> QED BY <2>1, <3>1 DEF Bounded, IsAlgo
  <2> QED BY <2>2, <2>3
<1> QED BY <1>2, <1>3, <1>4 DEF submit_order

\* execute_order stays within the pieces of its order.
LEMMA ExecuteBounded ==
  ASSUME TypeOK, \A q \in Orders : Bounded(q), NEW o \in Orders, execute_order(o),
         NEW p \in Orders
  PROVE  Bounded(p)'
<1> USE DEF dbVars, topicVars, processVars
<1>0. Bounded(o) /\ Bounded(p)
  OBVIOUS
<1>s. ASSUME NEW from, NEW to, TaskTo(o, from, to), UNCHANGED <<traded, reported>>,
             from \notin {"none", "trade"},
             to \in BeforeTrades \cup {"trade"} => from \in BeforeTrades,
             to = "split_audit" => IsAlgo(o),
             to \in {"report", "fill", "fill_audit"} =>
               \/ IsAlgo(o) /\ to # "report"
               \/ from \in {"fill", "fill_audit"} /\ ~IsAlgo(o)
      PROVE  Bounded(p)'
  BY <1>0, <1>s, TaskToFacts, ValueTypes DEF Bounded, IsAlgo, BeforeTrades
<1>1. CASE Begin(o)
  BY <1>1, <1>s DEF Begin, BeforeTrades
<1>2. CASE ErrorStatus(o)
  BY <1>2, <1>s DEF ErrorStatus, TaskStatus, BeforeTrades
<1>3. CASE ErrorAudit(o)
  BY <1>3, <1>s DEF ErrorAudit, TaskAudit, BeforeTrades
<1>4. CASE ErrorPublish(o)
  BY <1>4, <1>s DEF ErrorPublish, TaskPublish, BeforeTrades
<1>5. CASE AcceptAudit(o)
  BY <1>5, <1>s DEF AcceptAudit, TaskAudit, BeforeTrades
<1>6. CASE Accept(o)
  BY <1>6, <1>s DEF Accept, TaskStatus, BeforeTrades
<1>7. CASE AcceptPublish(o)
  BY <1>7, <1>s DEF AcceptPublish, TaskPublish, BeforeTrades
<1>8. CASE SplitAudit(o)
  <2>1. PICK n \in Splits(o) :
          task' = [task EXCEPT ![o] = [pc |-> "trade", filled |-> @.filled,
                                       pieces |-> n]]
    BY <1>8 DEF SplitAudit
  <2>2. task[o].pc = "split_audit" /\ UNCHANGED <<submit, order_data, traded, reported>>
    BY <1>8 DEF SplitAudit
  <2>3. n \in Nat /\ n > 0
    BY SplitsType
  <2>4. CASE p = o
    <3>1. /\ task'[p].filled = task[p].filled /\ task'[p].pieces = n
          /\ task'[p].pc = "trade"
      BY <2>1, <2>4 DEF TypeOK
    <3> QED BY <1>0, <2>2, <2>3, <2>4, <3>1 DEF Bounded, IsAlgo, BeforeTrades
  <2>5. CASE p # o
    <3>1. task'[p] = task[p]
      BY <2>1, <2>5 DEF TypeOK
    <3> QED BY <1>0, <2>2, <3>1 DEF Bounded, IsAlgo
  <2> QED BY <2>4, <2>5
<1>9. CASE InsertTrade(o)
  <2>1. /\ task[o].pc = "trade"
        /\ UNCHANGED <<submit, order_data, reported>>
        /\ task' = [task EXCEPT ![o] = [pc |-> IF IsAlgo(o) THEN "report" ELSE "fill",
                                        filled |-> @.filled + 1, pieces |-> @.pieces]]
        /\ traded' = traded \/ traded' = [traded EXCEPT ![o] = @ + 1]
    BY <1>9 DEF InsertTrade
  <2>2. CASE p = o
    <3>1. /\ task'[p].filled = task[p].filled + 1 /\ task'[p].pieces = task[p].pieces
          /\ task'[p].pc = IF IsAlgo(o) THEN "report" ELSE "fill"
      BY <2>1, <2>2 DEF TypeOK
    <3>2. traded'[p] <= task[p].filled + 1
      BY <1>0, <2>1, <2>2, ValueTypes DEF Bounded, TypeOK
    <3> QED BY <1>0, <2>1, <2>2, <3>1, <3>2, ValueTypes
            DEF Bounded, IsAlgo, BeforeTrades
  <2>3. CASE p # o
    BY <1>0, <2>1, <2>3 DEF Bounded, IsAlgo, TypeOK
  <2> QED BY <2>2, <2>3
<1>10. CASE ReportTrade(o)
  <2>1. PICK to \in {"trade", "fill", "fill_publish"} :
          /\ TaskTo(o, "report", to)
          /\ to # "fill_publish" => IsAlgo(o)
          /\ to = "trade" => task[o].filled < task[o].pieces
    BY <1>10 DEF ReportTrade, HasMore
  <2>2. /\ UNCHANGED traded
        /\ reported' = reported \/ reported' = [reported EXCEPT ![o] = @ + 1]
    BY <1>10 DEF ReportTrade
  <2>3. p # o => reported'[p] = reported[p]
    BY <2>2 DEF TypeOK
  <2>4. reported'[o] <= task[o].filled
    <3>1. reported[o] < task[o].filled
      BY <1>0, <2>1, TaskToFacts DEF Bounded
    <3>2. reported'[o] = reported[o] \/ reported'[o] = reported[o] + 1
      BY <2>2 DEF TypeOK
    <3> QED BY <3>1, <3>2, ValueTypes
  <2> QED BY <1>0, <2>1, <2>2, <2>3, <2>4, TaskToFacts DEF Bounded, IsAlgo, BeforeTrades
<1>11. CASE Fill(o)
  <2>1. TaskTo(o, "fill", "fill_audit") /\ UNCHANGED <<traded, reported>>
    BY <1>11 DEF Fill, TaskStatus
  <2> QED BY <1>0, <2>1, TaskToFacts DEF Bounded, IsAlgo, BeforeTrades
<1>12. CASE FillAudit(o)
  <2>1. /\ TaskTo(o, "fill_audit", IF IsAlgo(o) THEN "fill_publish" ELSE "report")
        /\ UNCHANGED <<traded, reported>>
    BY <1>12 DEF FillAudit, TaskAudit
  <2> QED BY <1>0, <2>1, TaskToFacts DEF Bounded, IsAlgo, BeforeTrades
<1>13. CASE FillPublish(o)
  BY <1>13, <1>s DEF FillPublish, TaskPublish, BeforeTrades
<1>14. CASE OpenAudit(o)
  BY <1>14, <1>s DEF OpenAudit, TaskAudit, BeforeTrades
<1>15. CASE OpenPublish(o)
  BY <1>15, <1>s DEF OpenPublish, TaskPublish, BeforeTrades
<1> QED BY <1>1, <1>2, <1>3, <1>4, <1>5, <1>6, <1>7, <1>8, <1>9, <1>10, <1>11,
           <1>12, <1>13, <1>14, <1>15 DEF execute_order

\* Nobody else trades.
LEMMA OtherBounded ==
  ASSUME TypeOK, \A q \in Orders : Bounded(q), NEW p \in Orders,
         \/ \E r \in Requests : Send(r) \/ handle_request(r)
         \/ \E o \in Orders : Expire(o)
         \/ Crash \/ lifespan \/ UNCHANGED vars
  PROVE  Bounded(p)'
<1> USE DEF dbVars, topicVars, processVars
<1>0. Bounded(p)
  OBVIOUS
<1>1. CASE UNCHANGED <<submit, order_data, task, traded, reported>>
  BY <1>0, <1>1 DEF Bounded, IsAlgo
<1>2. ASSUME NEW r \in Requests, Send(r) \/ handle_request(r)
      PROVE  UNCHANGED <<submit, order_data, task, traded, reported>>
  BY <1>2 DEF Send, handle_request, Read, Write, AuditRequest, PublishRequest,
              PublishTo, Invalidate, RequestTo
<1>3. CASE Crash
  <2>1. /\ task'[p].filled = task[p].filled /\ task'[p].pieces = task[p].pieces
        /\ task'[p].pc = IF task[p].pc \in TaskSteps THEN "lost" ELSE task[p].pc
    BY <1>3 DEF Crash, TypeOK, Task
  <2>2. submit'[p] = IF submit[p] \in SubmitSteps THEN "lost" ELSE submit[p]
    BY <1>3 DEF Crash
  <2>3. UNCHANGED <<order_data, traded, reported>>
    BY <1>3 DEF Crash
  <2> QED BY <1>0, <2>1, <2>2, <2>3
          DEF Bounded, IsAlgo, BeforeTrades, TaskSteps, SubmitSteps
<1>4. ASSUME NEW o \in Orders, Expire(o)
      PROVE  UNCHANGED <<submit, order_data, task, traded, reported>>
  BY <1>4 DEF Expire
<1>5. CASE lifespan
  BY <1>1, <1>5 DEF lifespan
<1>6. CASE UNCHANGED vars
  BY <1>1, <1>6 DEF vars
<1> QED BY <1>1, <1>2, <1>3, <1>4, <1>5, <1>6

-----------------------------------------------------------------------------
(* What the calls to the backends leave behind                                *)

\* Log lines stay, and a logged exception has one.
LEMMA LogGrows ==
  ASSUME TypeOK, NEW o, NEW e, NEW out, Log(o, e, out), NEW p \in Orders
  PROVE  /\ logged[p] \subseteq logged'[p]
         /\ Raised(out) /\ o = p => e \in logged'[p]
BY DEF TypeOK, Log

\* An audit entry erases no log line.
LEMMA AuditEffect ==
  ASSUME TypeOK, NEW o, NEW a, record_audit(o, a), NEW p \in Orders
  PROVE  logged[p] \subseteq logged'[p]
BY LogGrows DEF record_audit

\* What is published is published once more; nothing else is.
LEMMA UpdateEffect ==
  ASSUME TypeOK, NEW o, NEW s, send_update(o, s), NEW p \in Orders
  PROVE  /\ logged[p] \subseteq logged'[p]
         /\ Occurs("rejected", updates'[p]) =>
              Occurs("rejected", updates[p]) \/ (p = o /\ s = "rejected")
<1>1. PICK out \in Outcomes("kafka") :
        /\ updates' = IF Applied(out) THEN [updates EXCEPT ![o] = Append(@, s)]
                                      ELSE updates
        /\ Log(o, "kafka", out)
  BY DEF send_update
<1>2. updates[p] \in Seq(UpdateStatuses)
  BY DEF TypeOK
<1>3. updates'[p] = updates[p] \/ (p = o /\ updates'[p] = Append(updates[p], s))
  BY <1>1 DEF TypeOK
<1>4. ASSUME Occurs("rejected", Append(updates[p], s))
      PROVE  Occurs("rejected", updates[p]) \/ s = "rejected"
  <2>1. PICK i \in 1 .. Len(Append(updates[p], s)) : Append(updates[p], s)[i] = "rejected"
    BY <1>4 DEF Occurs
  <2>2. CASE i \in 1 .. Len(updates[p])
    BY <1>2, <2>1, <2>2 DEF Occurs
  <2>3. CASE i = Len(updates[p]) + 1
    BY <1>2, <2>1, <2>3
  <2> QED BY <1>2, <2>1, <2>2, <2>3
<1> QED BY <1>1, <1>3, <1>4, LogGrows

\* An UPDATE of the status leaves the row alone or writes what it is told to.
LEMMA StatusEffect ==
  ASSUME TypeOK, NEW o \in Orders, NEW s, NEW f, update_order_status(o, s, f),
         NEW p \in Orders
  PROVE  /\ logged[p] \subseteq logged'[p]
         /\ \/ orders'[p] = orders[p]
            \/ /\ p = o /\ "db" \in backends
               /\ orders'[p].status = s /\ orders'[p].filled = f
<1>1. PICK out \in Outcomes("db") :
        /\ orders' = IF Applied(out)
                     THEN [orders EXCEPT ![o] = Updated(@, s, f)] ELSE orders
        /\ Log(o, "status", out)
  BY DEF update_order_status
<1>2. Applied(out) => "db" \in backends
  BY <1>1 DEF Outcomes, Applied
<1>3. orders'[p] = orders[p] \/ (p = o /\ Applied(out)
                                 /\ orders'[p] = Updated(orders[p], s, f))
  BY <1>1 DEF TypeOK
<1> QED BY <1>1, <1>2, <1>3, LogGrows DEF Updated

\* The INSERT of an order leaves the row alone or writes a row without fills.
LEMMA InsertEffect ==
  ASSUME TypeOK, NEW o \in Orders, NEW s, NEW out, InsertOrder(o, s, out),
         NEW p \in Orders
  PROVE  /\ logged[p] \subseteq logged'[p]
         /\ \/ orders'[p] = orders[p]
            \/ p = o /\ orders'[p].status = s /\ orders'[p].filled = 0
<1>1. orders'[p] = orders[p]
      \/ (p = o /\ orders'[p] = NewRow(s, order_data[o].quantity))
  BY DEF InsertOrder, TypeOK
<1> QED BY <1>1, LogGrows DEF InsertOrder, NewRow

-----------------------------------------------------------------------------
(* A missing trade row has been logged, and only a whole execution fills a row *)

\* submit_order leaves the accounts of executions alone.
LEMMA SubmitAccounted ==
  ASSUME TypeOK, \A q \in Orders : Bounded(q) /\ Accounted(q),
         NEW o \in Orders, submit_order(o), NEW p \in Orders
  PROVE  Accounted(p)'
<1> USE DEF dbVars, topicVars, processVars
<1>0. Bounded(p) /\ Accounted(p)
  OBVIOUS
<1>1. submit[p] # "created" => task[p].pc = "none" /\ task[p].filled = 0
                              /\ orders[p].filled = 0
  BY <1>0 DEF Bounded, Accounted, BeforeTrades, AfterFill
<1>2. CASE Receive(o)
  <2>1. UNCHANGED <<up, backends, task, orders, traded, logged>>
    BY <1>2 DEF Receive, SubmitTo
  <2>2. CASE p = o
    <3>1. task[p].pc = "none" /\ orders[p].filled = 0
      BY <1>1, <1>2, <2>2 DEF Receive, SubmitTo
    <3> QED BY <2>1, <3>1 DEF Accounted, TaskSteps
  <2>3. CASE p # o
    <3>1. order_data'[p] = order_data[p]
      BY <1>2, <2>3 DEF Receive, TypeOK
    <3> QED BY <1>0, <2>1, <3>1 DEF Accounted, IsAlgo
  <2> QED BY <2>2, <2>3
<1>3. CASE StoreRefused(o) \/ AuditRefused(o) \/ PublishRefused(o) \/ Store(o)
           \/ Cache(o) \/ Announce(o) \/ AuditSubmitted(o)
  <2>1. UNCHANGED <<up, backends, task, order_data, traded>>
    BY <1>3 DEF StoreRefused, AuditRefused, PublishRefused, Store, Cache, Announce,
                AuditSubmitted, SubmitTo
  <2>2. logged[p] \subseteq logged'[p]
    BY <1>3, InsertEffect, AuditEffect, UpdateEffect, LogGrows
       DEF StoreRefused, AuditRefused, PublishRefused, Store, Cache, Announce,
           AuditSubmitted
  <2>3. orders'[p] = orders[p] \/ orders'[p].filled = 0
    BY <1>3, InsertEffect
       DEF StoreRefused, AuditRefused, PublishRefused, Store, Cache, Announce,
           AuditSubmitted
  <2> QED BY <1>0, <2>1, <2>2, <2>3 DEF Accounted, IsAlgo
<1>4. CASE Created(o)
  <2>1. /\ up /\ submit[o] = "schedule"
        /\ UNCHANGED <<up, backends, orders, traded, order_data, logged>>
    BY <1>4 DEF Created, SubmitTo
  <2>2. CASE p = o
    <3>1. task'[p] = [pc |-> "start", filled |-> 0, pieces |-> 1]
      BY <1>4, <2>2 DEF Created, TypeOK
    <3>2. task[p].filled = 0 /\ orders[p].filled = 0
      BY <1>1, <2>1, <2>2
    <3>3. traded[p] = 0
      BY <1>0, <3>2, ValueTypes DEF Bounded
    <3> QED BY <2>1, <3>1, <3>2, <3>3 DEF Accounted
  <2>3. CASE p # o
    <3>1. task'[p] = task[p]
      BY <1>4, <2>3 DEF Created, TypeOK
    <3> QED BY <1>0, <2>1, <3>1 DEF Accounted, IsAlgo
  <2> QED BY <2>2, <2>3
<1> QED BY <1>2, <1>3, <1>4 DEF submit_order

\* execute_order inserts its trades or logs that it could not.
LEMMA ExecuteAccounted ==
  ASSUME TypeOK, \A q \in Orders : Bounded(q) /\ Accounted(q),
         NEW o \in Orders, execute_order(o), NEW p \in Orders
  PROVE  Accounted(p)'
<1> USE DEF dbVars, topicVars, processVars
<1>0. Bounded(o) /\ Bounded(p) /\ Accounted(o) /\ Accounted(p)
  OBVIOUS
<1>s. ASSUME NEW from \in TaskSteps, NEW to, TaskTo(o, from, to), UNCHANGED traded,
             logged[p] \subseteq logged'[p],
             orders'[p].filled = orders[p].filled,
             to # "fill",
             from \in AfterFill => to \in AfterFill,
             to = "report" => ~IsAlgo(o)
      PROVE  Accounted(p)'
  BY <1>0, <1>s, TaskToFacts DEF Accounted, IsAlgo
<1>1. CASE Begin(o)
  BY <1>1, <1>s DEF Begin, TaskSteps, AfterFill
<1>2. CASE ErrorStatus(o)
  <2>1. logged[p] \subseteq logged'[p] /\ orders'[p].filled = orders[p].filled
    BY <1>2, StatusEffect DEF ErrorStatus, TaskStatus
  <2> QED BY <1>2, <2>1, <1>s DEF ErrorStatus, TaskStatus, TaskSteps, AfterFill
<1>3. CASE ErrorAudit(o)
  BY <1>3, <1>s, AuditEffect DEF ErrorAudit, TaskAudit, TaskSteps, AfterFill
<1>4. CASE ErrorPublish(o)
  BY <1>4, <1>s, UpdateEffect DEF ErrorPublish, TaskPublish, TaskSteps, AfterFill
<1>5. CASE AcceptAudit(o)
  BY <1>5, <1>s, AuditEffect DEF AcceptAudit, TaskAudit, TaskSteps, AfterFill
<1>6. CASE Accept(o)
  <2>1. logged[p] \subseteq logged'[p] /\ orders'[p].filled = orders[p].filled
    BY <1>6, StatusEffect DEF Accept, TaskStatus
  <2> QED BY <1>6, <2>1, <1>s DEF Accept, TaskStatus, TaskSteps, AfterFill
<1>7. CASE AcceptPublish(o)
  BY <1>7, <1>s, UpdateEffect DEF AcceptPublish, TaskPublish, TaskSteps, AfterFill
<1>8. CASE SplitAudit(o)
  <2>1. /\ task[o].pc = "split_audit" /\ up
        /\ UNCHANGED <<up, backends, order_data, orders, traded>>
        /\ \E n : task' = [task EXCEPT ![o] = [pc |-> "trade", filled |-> @.filled,
                                               pieces |-> n]]
    BY <1>8 DEF SplitAudit
  <2>2. logged[p] \subseteq logged'[p]
    BY <1>8, AuditEffect DEF SplitAudit
  <2>3. CASE p = o
    <3>1. task'[p].filled = task[p].filled /\ task'[p].pc = "trade"
      BY <2>1, <2>3 DEF TypeOK
    <3>2. orders[p].filled = 0
      BY <1>0, <2>1, <2>3 DEF Accounted, AfterFill
    <3> QED BY <1>0, <2>1, <2>2, <2>3, <3>1, <3>2 DEF Accounted, TaskSteps
  <2>4. CASE p # o
    <3>1. task'[p] = task[p]
      BY <2>1, <2>4 DEF TypeOK
    <3> QED BY <1>0, <2>1, <2>2, <3>1 DEF Accounted, IsAlgo
  <2> QED BY <2>3, <2>4
<1>9. CASE InsertTrade(o)
  <2>1. /\ task[o].pc = "trade" /\ up
        /\ UNCHANGED <<up, backends, order_data, orders>>
        /\ task' = [task EXCEPT ![o] = [pc |-> IF IsAlgo(o) THEN "report" ELSE "fill",
                                        filled |-> @.filled + 1, pieces |-> @.pieces]]
    BY <1>9 DEF InsertTrade
  <2>2. PICK out \in Outcomes("db") :
          /\ traded' = IF Applied(out) THEN [traded EXCEPT ![o] = @ + 1] ELSE traded
          /\ Log(o, "trade", out)
    BY <1>9 DEF InsertTrade
  <2>3. logged[p] \subseteq logged'[p]
    BY <2>2, LogGrows
  <2>4. CASE p = o
    <3>1. /\ task'[p].filled = task[p].filled + 1 /\ task'[p].pieces = task[p].pieces
          /\ task'[p].pc = IF IsAlgo(o) THEN "report" ELSE "fill"
      BY <2>1, <2>4 DEF TypeOK
    <3>2. orders[p].filled = 0
      BY <1>0, <2>1, <2>4 DEF Accounted, AfterFill
    <3>3. ~IsAlgo(o) => task'[p].filled = task'[p].pieces
      BY <1>0, <2>1, <2>4, <3>1, ValueTypes DEF Bounded
    <3>4. "db" \in backends => traded'[p] = task'[p].filled \/ "trade" \in logged'[p]
      <4> SUFFICES ASSUME "db" \in backends, "trade" \notin logged'[p]
                   PROVE  traded'[p] = task'[p].filled
        OBVIOUS
      <4>1. ~Raised(out)
        BY <2>2, <2>4, LogGrows
      <4>2. Applied(out)
        BY <2>2, <4>1 DEF Outcomes, Applied, Raised
      <4>3. traded'[p] = traded[p] + 1
        BY <2>2, <2>4, <4>2 DEF TypeOK
      <4>4. traded[p] = task[p].filled
        BY <1>0, <2>1, <2>3, <2>4 DEF Accounted, TaskSteps
      <4> QED BY <3>1, <4>3, <4>4
    <3> QED BY <2>1, <3>1, <3>2, <3>3, <3>4 DEF Accounted
  <2>5. CASE p # o
    <3>1. task'[p] = task[p] /\ traded'[p] = traded[p]
      BY <2>1, <2>2, <2>5 DEF TypeOK
    <3> QED BY <1>0, <2>1, <2>3, <3>1 DEF Accounted, IsAlgo
  <2> QED BY <2>4, <2>5
<1>10. CASE ReportTrade(o)
  <2>1. PICK to \in {"trade", "fill", "fill_publish"} :
          /\ TaskTo(o, "report", to)
          /\ to # "fill_publish" => IsAlgo(o)
          /\ to = "fill" => ~(task[o].filled < task[o].pieces)
    BY <1>10 DEF ReportTrade, HasMore
  <2>2. UNCHANGED <<traded, orders>> /\ logged[p] \subseteq logged'[p]
    BY <1>10, LogGrows DEF ReportTrade
  <2>3. to = "fill" => task[o].filled = task[o].pieces
    BY <1>0, <2>1, ValueTypes DEF Bounded
  <2> QED BY <1>0, <2>1, <2>2, <2>3, TaskToFacts
          DEF Accounted, IsAlgo, TaskSteps, AfterFill
<1>11. CASE Fill(o)
  <2>1. TaskTo(o, "fill", "fill_audit") /\ UNCHANGED traded
    BY <1>11 DEF Fill, TaskStatus
  <2>2. /\ logged[p] \subseteq logged'[p]
        /\ \/ orders'[p] = orders[p]
           \/ p = o /\ "db" \in backends /\ orders'[p].filled = task[o].filled
    BY <1>11, StatusEffect DEF Fill, TaskStatus
  <2> QED BY <1>0, <2>1, <2>2, TaskToFacts DEF Accounted, IsAlgo, TaskSteps, AfterFill
<1>12. CASE FillAudit(o)
  <2>1. /\ TaskTo(o, "fill_audit", IF IsAlgo(o) THEN "fill_publish" ELSE "report")
        /\ UNCHANGED <<traded, orders>> /\ logged[p] \subseteq logged'[p]
    BY <1>12, AuditEffect DEF FillAudit, TaskAudit
  <2> QED BY <2>1, <1>s DEF TaskSteps, AfterFill
<1>13. CASE FillPublish(o)
  BY <1>13, <1>s, UpdateEffect DEF FillPublish, TaskPublish, TaskSteps, AfterFill
<1>14. CASE OpenAudit(o)
  BY <1>14, <1>s, AuditEffect DEF OpenAudit, TaskAudit, TaskSteps, AfterFill
<1>15. CASE OpenPublish(o)
  BY <1>15, <1>s, UpdateEffect DEF OpenPublish, TaskPublish, TaskSteps, AfterFill
<1> QED BY <1>1, <1>2, <1>3, <1>4, <1>5, <1>6, <1>7, <1>8, <1>9, <1>10, <1>11,
           <1>12, <1>13, <1>14, <1>15 DEF execute_order

\* What the handlers of cancels and amendments leave alone, and what they add.
LEMMA RequestEffect ==
  ASSUME TypeOK, NEW r \in Requests, Send(r) \/ handle_request(r), NEW p \in Orders
  PROVE  /\ UNCHANGED <<up, backends, submit, order_data, task, traded, reported>>
         /\ logged[p] \subseteq logged'[p]
         /\ orders'[p].filled = orders[p].filled
         /\ orders'[p].status = "rejected" => orders[p].status = "rejected"
         /\ Occurs("rejected", updates'[p]) => Occurs("rejected", updates[p])
<1> USE DEF dbVars, topicVars, processVars
<1>1. CASE Send(r)
  BY <1>1 DEF Send
<1>2. CASE Read(r)
  BY <1>2 DEF Read, RequestTo
<1>3. CASE Write(r)
  <2>1. UNCHANGED <<up, backends, submit, order_data, task, traded, reported, logged,
                    updates>>
    BY <1>3 DEF Write, RequestTo
  <2>2. orders'[p] = orders[p] \/ orders'[p] = Rewritten(r, orders[p])
    BY <1>3 DEF Write, TypeOK
  <2>3. orders[p] \in Row
    BY DEF TypeOK
  <2>4. /\ Rewritten(r, orders[p]).filled = orders[p].filled
        /\ Rewritten(r, orders[p]).status \in {"cancelled", orders[p].status}
    BY <2>3 DEF Rewritten, Row
  <2> QED BY <2>1, <2>2, <2>4
<1>4. CASE AuditRequest(r)
  BY <1>4, AuditEffect DEF AuditRequest, RequestTo
<1>5. CASE PublishRequest(r)
  <2>1. RequestEvent(r) # "rejected"
    BY DEF RequestEvent
  <2> QED BY <1>5, <2>1, UpdateEffect DEF PublishRequest, PublishTo, RequestTo
<1>6. CASE Invalidate(r)
  BY <1>6 DEF Invalidate, RequestTo
<1> QED BY <1>1, <1>2, <1>3, <1>4, <1>5, <1>6 DEF handle_request

\* The state a dying process leaves behind.
LEMMA CrashEffect ==
  ASSUME TypeOK, Crash, NEW p \in Orders
  PROVE  /\ up' = FALSE
         /\ task'[p].filled = task[p].filled /\ task'[p].pieces = task[p].pieces
         /\ task'[p].pc = IF task[p].pc \in TaskSteps THEN "lost" ELSE task[p].pc
         /\ submit'[p] = IF submit[p] \in SubmitSteps THEN "lost" ELSE submit[p]
         /\ UNCHANGED <<backends, order_data, orders, traded, reported, updates, logged>>
BY DEF Crash, TypeOK, Task, dbVars, topicVars

\* Nobody else fills a row.
LEMMA OtherAccounted ==
  ASSUME TypeOK, \A q \in Orders : Accounted(q), NEW p \in Orders,
         \/ \E r \in Requests : Send(r) \/ handle_request(r)
         \/ \E o \in Orders : Expire(o)
         \/ Crash \/ lifespan \/ UNCHANGED vars
  PROVE  Accounted(p)'
<1> USE DEF dbVars, topicVars, processVars
<1>0. Accounted(p)
  OBVIOUS
<1>1. ASSUME NEW r \in Requests, Send(r) \/ handle_request(r) PROVE Accounted(p)'
  BY <1>0, <1>1, RequestEffect DEF Accounted, IsAlgo
<1>2. ASSUME NEW o \in Orders, Expire(o) PROVE Accounted(p)'
  BY <1>0, <1>2 DEF Expire, Accounted, IsAlgo
<1>3. CASE Crash
  <2>1. task'[p].pc \notin TaskSteps /\ task'[p].pc # "report" /\ task'[p].pc # "fill"
    BY <1>3, CrashEffect DEF TaskSteps
  <2>2. task[p].pc \in AfterFill => task'[p].pc \in AfterFill
    BY <1>3, CrashEffect DEF AfterFill
  <2> QED BY <1>0, <1>3, <2>1, <2>2, CrashEffect DEF Accounted
<1>4. CASE lifespan
  BY <1>0, <1>4 DEF lifespan, Accounted, IsAlgo
<1>5. CASE UNCHANGED vars
  BY <1>0, <1>5 DEF vars, Accounted, IsAlgo
<1> QED BY <1>1, <1>2, <1>3, <1>4, <1>5

-----------------------------------------------------------------------------
(* A rejected order is dead                                                   *)

\* submit_order rejects what it will not admit.
LEMMA SubmitRejected ==
  ASSUME TypeOK, \A q \in Orders : Bounded(q) /\ RejectedDead(q),
         NEW o \in Orders, submit_order(o), NEW p \in Orders
  PROVE  RejectedDead(p)'
<1> USE DEF dbVars, topicVars, processVars
<1>0. Bounded(p) /\ RejectedDead(p)
  OBVIOUS
<1>1. submit[p] # "created" => task[p].pc = "none"
  BY <1>0 DEF Bounded
<1>2. CASE StoreRefused(o) \/ AuditRefused(o) \/ PublishRefused(o)
  <2>1. /\ UNCHANGED task
        /\ submit[o] # "created"
        /\ submit' = [submit EXCEPT ![o] = submit'[o]]
        /\ submit'[o] \in {"refuse_audit", "refuse_publish", "refused"}
    BY <1>2 DEF StoreRefused, AuditRefused, PublishRefused, SubmitTo, TypeOK
  <2>2. p # o => /\ submit'[p] = submit[p] /\ orders'[p] = orders[p]
                 /\ Occurs("rejected", updates'[p]) => Occurs("rejected", updates[p])
    <3>1. p # o => submit'[p] = submit[p]
      BY <2>1 DEF TypeOK
    <3>2. CASE StoreRefused(o)
      BY <3>1, <3>2, InsertEffect DEF StoreRefused
    <3>3. CASE AuditRefused(o)
      BY <3>1, <3>3 DEF AuditRefused
    <3>4. CASE PublishRefused(o)
      BY <3>1, <3>4, UpdateEffect DEF PublishRefused
    <3> QED
      BY <1>2, <3>2, <3>3, <3>4
  <2>3. p = o => Dead(p)'
    BY <1>1, <2>1 DEF Dead
  <2> QED BY <1>0, <2>1, <2>2, <2>3 DEF RejectedDead, Dead
<1>3. CASE \/ Receive(o) \/ Store(o) \/ Cache(o) \/ Announce(o)
           \/ AuditSubmitted(o) \/ Created(o)
  <2>1. /\ submit[o] \in {"new", "store", "cache", "announce", "audit", "schedule"}
        /\ UNCHANGED updates
    BY <1>3 DEF Receive, Store, Cache, Announce, AuditSubmitted, Created, SubmitTo
  <2>2. orders'[p].status = "rejected" => orders[p].status = "rejected"
    BY <1>3, InsertEffect DEF Receive, Store, Cache, Announce, AuditSubmitted, Created
  <2>3. p # o => submit'[p] = submit[p] /\ task'[p] = task[p]
    BY <1>3 DEF Receive, Store, Cache, Announce, AuditSubmitted, Created, SubmitTo, TypeOK
  <2>4. ~Dead(o)
    <3>1. task[o].pc = "none"
      BY <2>1 DEF Bounded
    <3> QED BY <2>1, <3>1 DEF Dead
  <2> QED BY <1>0, <2>1, <2>2, <2>3, <2>4 DEF RejectedDead, Dead
<1> QED BY <1>2, <1>3 DEF submit_order

\* execute_order rejects what it will not trade.
LEMMA ExecuteRejected ==
  ASSUME TypeOK, \A q \in Orders : Bounded(q) /\ RejectedDead(q),
         NEW o \in Orders, execute_order(o), NEW p \in Orders
  PROVE  RejectedDead(p)'
<1> USE DEF dbVars, topicVars, processVars
<1>0. Bounded(p) /\ RejectedDead(p)
  OBVIOUS
<1>1. CASE ErrorStatus(o) \/ ErrorAudit(o) \/ ErrorPublish(o)
  <2>1. PICK from \in TaskSteps, to \in {"error_audit", "error_publish", "failed"} :
          TaskTo(o, from, to)
    BY <1>1 DEF ErrorStatus, ErrorAudit, ErrorPublish, TaskStatus, TaskAudit,
                TaskPublish, TaskSteps
  <2>2. p # o => /\ orders'[p] = orders[p]
                 /\ Occurs("rejected", updates'[p]) => Occurs("rejected", updates[p])
    BY <1>1, StatusEffect, UpdateEffect
       DEF ErrorStatus, ErrorAudit, ErrorPublish, TaskStatus, TaskAudit, TaskPublish
  <2> QED BY <1>0, <2>1, <2>2, TaskToFacts DEF RejectedDead, Dead
<1>2. CASE Begin(o) \/ AcceptAudit(o) \/ Accept(o) \/ AcceptPublish(o) \/ SplitAudit(o)
           \/ InsertTrade(o) \/ ReportTrade(o) \/ Fill(o) \/ FillAudit(o)
           \/ FillPublish(o) \/ OpenAudit(o) \/ OpenPublish(o)
  <2>1. orders'[p].status = "rejected" => orders[p].status = "rejected"
    BY <1>2, StatusEffect
       DEF Begin, AcceptAudit, Accept, AcceptPublish, SplitAudit, InsertTrade,
           ReportTrade, Fill, FillAudit, FillPublish, OpenAudit, OpenPublish,
           TaskAudit, TaskStatus, TaskPublish
  <2>2. Occurs("rejected", updates'[p]) => Occurs("rejected", updates[p])
    BY <1>2, UpdateEffect
       DEF Begin, AcceptAudit, Accept, AcceptPublish, SplitAudit, InsertTrade,
           ReportTrade, Fill, FillAudit, FillPublish, OpenAudit, OpenPublish,
           TaskAudit, TaskStatus, TaskPublish
  <2>3. /\ task[o].pc \in TaskSteps \ {"error_status", "error_audit", "error_publish"}
        /\ UNCHANGED submit
    BY <1>2 DEF Begin, AcceptAudit, Accept, AcceptPublish, SplitAudit, InsertTrade,
                ReportTrade, Fill, FillAudit, FillPublish, OpenAudit, OpenPublish,
                TaskAudit, TaskStatus, TaskPublish, TaskTo, TaskSteps
  <2>4. ~Dead(o)
    BY <2>3 DEF Dead, TaskSteps
  <2>5. p # o => task'[p] = task[p]
    BY <1>2 DEF Begin, AcceptAudit, Accept, AcceptPublish, SplitAudit, InsertTrade,
                ReportTrade, Fill, FillAudit, FillPublish, OpenAudit, OpenPublish,
                TaskAudit, TaskStatus, TaskPublish, TaskTo, TypeOK
  <2> QED BY <1>0, <2>1, <2>2, <2>3, <2>4, <2>5 DEF RejectedDead, Dead
<1> QED BY <1>1, <1>2 DEF execute_order

\* Nobody else rejects an order.
LEMMA OtherRejected ==
  ASSUME TypeOK, \A q \in Orders : Bounded(q) /\ RejectedDead(q), NEW p \in Orders,
         \/ \E r \in Requests : Send(r) \/ handle_request(r)
         \/ \E o \in Orders : Expire(o)
         \/ Crash \/ lifespan \/ UNCHANGED vars
  PROVE  RejectedDead(p)'
<1> USE DEF dbVars, topicVars, processVars
<1>0. Bounded(p) /\ RejectedDead(p)
  OBVIOUS
<1>1. ASSUME NEW r \in Requests, Send(r) \/ handle_request(r) PROVE RejectedDead(p)'
  BY <1>0, <1>1, RequestEffect DEF RejectedDead, Dead
<1>2. ASSUME NEW o \in Orders, Expire(o) PROVE RejectedDead(p)'
  BY <1>0, <1>2 DEF Expire, RejectedDead, Dead
<1>3. CASE Crash
  <2>1. Dead(p) => Dead(p)'
    BY <1>0, <1>3, CrashEffect DEF Dead, Bounded, BeforeTrades, TaskSteps, SubmitSteps
  <2> QED BY <1>0, <1>3, <2>1, CrashEffect DEF RejectedDead
<1>4. CASE lifespan
  BY <1>0, <1>4 DEF lifespan, RejectedDead, Dead
<1>5. CASE UNCHANGED vars
  BY <1>0, <1>5 DEF vars, RejectedDead, Dead
<1> QED BY <1>1, <1>2, <1>3, <1>4, <1>5

-----------------------------------------------------------------------------
(* The inductive invariant                                                    *)

\* The invariant holds at the start.
LEMMA SafeInit == Init => Safe
<1>1. Init => \A o \in Orders : Bounded(o)
  BY DEF Init, Bounded, NoTask, NoData, BeforeTrades
<1>2. Init => \A o \in Orders : Accounted(o)
  BY DEF Init, Accounted, NoTask, NoRow, TaskSteps
<1>3. Init => \A o \in Orders : RejectedDead(o)
  BY DEF Init, RejectedDead, Occurs, NoRow
<1> QED BY <1>1, <1>2, <1>3, InitType DEF Safe

\* Every step keeps the invariant.
LEMMA SafeStep == Safe /\ [Next]_vars => Safe'
<1> SUFFICES ASSUME Safe, [Next]_vars PROVE Safe'
  OBVIOUS
<1>0. TypeOK /\ \A o \in Orders : Bounded(o) /\ Accounted(o) /\ RejectedDead(o)
  BY DEF Safe
<1>1. ASSUME NEW o \in Orders, submit_order(o) PROVE Safe'
  BY <1>0, <1>1, SubmitType, SubmitBounded, SubmitAccounted, SubmitRejected DEF Safe
<1>2. ASSUME NEW o \in Orders, execute_order(o) PROVE Safe'
  <2> QED BY <1>0, <1>2, ExecuteType, ExecuteBounded, ExecuteAccounted,
             ExecuteRejected DEF Safe
<1>3. ASSUME NEW r \in Requests, handle_request(r) PROVE Safe'
  BY <1>0, <1>3, HandleRequestType, OtherBounded, OtherAccounted, OtherRejected DEF Safe
<1>4. CASE \/ \E r \in Requests : Send(r)
           \/ \E o \in Orders : Expire(o)
           \/ Crash \/ lifespan \/ UNCHANGED vars
  BY <1>0, <1>4, OtherType, OtherBounded, OtherAccounted, OtherRejected DEF Safe
<1> QED BY <1>1, <1>2, <1>3, <1>4 DEF Next

\* The inductive invariant holds in every behaviour of the service: in every
\* degraded mode, under every failure of a backend and through every crash.
THEOREM AlwaysSafe == Spec => []Safe
BY SafeInit, SafeStep, PTL DEF Spec

\* Every variable of the service keeps its type.
THEOREM TypeCorrect == Spec => []TypeOK
<1>1. Safe => TypeOK
  BY DEF Safe
<1> QED BY <1>1, AlwaysSafe, PTL

\* No piece of an order is ever executed twice: neither the trades table nor the
\* trades topic has more trades of an order than the order has pieces.
THEOREM NeverOverfilled == Spec => []NoOverfill
<1>1. Safe => NoOverfill
  <2> SUFFICES ASSUME Safe, NEW o \in Orders
               PROVE  /\ traded[o] <= task[o].pieces
                      /\ reported[o] <= task[o].pieces
    BY DEF NoOverfill
  <2>1. TypeOK /\ Bounded(o)
    BY DEF Safe
  <2> QED BY <2>1, ValueTypes DEF Bounded
<1> QED BY <1>1, AlwaysSafe, PTL

\* The filled quantity of a row is the sum of all the pieces of its order, which are
\* those of its trades rows unless an insertion that failed has been logged.
THEOREM FillsAlwaysAccounted == Spec => []FillsAccounted
<1>1. Safe => FillsAccounted
  BY DEF Safe, FillsAccounted, Accounted
<1> QED BY <1>1, AlwaysSafe, PTL

\* An order that was refused, by an answer, by its row or on the topic, has no
\* trades, and an order answered with an error has none either.
THEOREM RefusedOrdersNeverTrade == Spec => []RefusedNeverTrades
<1>1. Safe => RefusedNeverTrades
  <2> SUFFICES ASSUME Safe, NEW o \in Orders,
                      \/ submit[o] \in {"refused", "error"}
                      \/ orders[o].status = "rejected"
                      \/ Occurs("rejected", updates[o])
               PROVE  traded[o] = 0 /\ reported[o] = 0
    BY DEF RefusedNeverTrades
  <2>1. TypeOK /\ Bounded(o) /\ RejectedDead(o)
    BY DEF Safe
  <2>2. task[o].filled = 0
    BY <2>1 DEF RejectedDead, Dead, Bounded, BeforeTrades
  <2> QED BY <2>1, <2>2, ValueTypes DEF Bounded
<1> QED BY <1>1, AlwaysSafe, PTL
=============================================================================
