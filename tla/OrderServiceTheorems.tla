------------------------ MODULE OrderServiceTheorems ------------------------
(***************************************************************************)
(* What follows once OrderService is known to be safe: it implements       *)
(* OrderExecution, settled orders stay as they are, an answered cancel has *)
(* invalidated the cache, the row and the events of an order agree, and    *)
(* the counters account for every order.                                   *)
(***************************************************************************)
EXTENDS OrderServiceProofs, FiniteSetTheorems

-----------------------------------------------------------------------------
(* What one step leaves alone                                                 *)

Untouched(p) ==
  /\ submit'[p] = submit[p] /\ order_data'[p] = order_data[p] /\ task'[p] = task[p]
  /\ logged'[p] = logged[p] /\ orders'[p] = orders[p] /\ audit'[p] = audit[p]
  /\ updates'[p] = updates[p] /\ cached'[p] = cached[p]

\* Log lines about one order are not about another.
LEMMA LogIsLocal ==
  ASSUME TypeOK, NEW o, NEW e, NEW out, Log(o, e, out), NEW p \in Orders, p # o
  PROVE  logged'[p] = logged[p]
BY DEF TypeOK, Log

\* An audit entry of one order is none of another.
LEMMA AuditIsLocal ==
  ASSUME TypeOK, NEW o, NEW a, record_audit(o, a), NEW p \in Orders, p # o
  PROVE  logged'[p] = logged[p] /\ audit'[p] = audit[p]
BY LogIsLocal DEF TypeOK, record_audit

\* An update about one order is not about another.
LEMMA UpdateIsLocal ==
  ASSUME TypeOK, NEW o, NEW s, send_update(o, s), NEW p \in Orders, p # o
  PROVE  logged'[p] = logged[p] /\ updates'[p] = updates[p]
BY LogIsLocal DEF TypeOK, send_update

\* An UPDATE concerns the row of its order.
LEMMA StatusIsLocal ==
  ASSUME TypeOK, NEW o, NEW s, NEW f, update_order_status(o, s, f), NEW p \in Orders,
         p # o
  PROVE  logged'[p] = logged[p] /\ orders'[p] = orders[p]
BY LogIsLocal DEF TypeOK, update_order_status

\* An INSERT concerns the row of its order.
LEMMA InsertIsLocal ==
  ASSUME TypeOK, NEW o, NEW s, NEW out, InsertOrder(o, s, out), NEW p \in Orders, p # o
  PROVE  logged'[p] = logged[p] /\ orders'[p] = orders[p]
<1>1. logged'[p] = logged[p]
  BY LogIsLocal DEF InsertOrder
<1>2. orders \in [Orders -> Row]
  BY DEF TypeOK
<1>3. orders'[p] = orders[p]
  BY <1>2 DEF InsertOrder
<1> QED
  BY <1>1, <1>3

\* The submission of an order leaves all others alone.
LEMMA SubmitIsLocal ==
  ASSUME TypeOK, NEW o \in Orders, submit_order(o)
  PROVE  /\ UNCHANGED <<up, backends, request>>
         /\ \A p \in Orders \ {o} : Untouched(p)
<1> USE DEF dbVars, topicVars, processVars
<1>1. UNCHANGED <<up, backends, request>>
  BY DEF submit_order, Receive, StoreRefused, AuditRefused, PublishRefused, Store,
         Cache, Announce, AuditSubmitted, Created, SubmitTo
<1> SUFFICES ASSUME NEW p \in Orders \ {o} PROVE Untouched(p)
  BY <1>1
<1>2. submit'[p] = submit[p]
  BY DEF submit_order, Receive, StoreRefused, AuditRefused, PublishRefused, Store,
         Cache, Announce, AuditSubmitted, Created, SubmitTo, TypeOK
<1>3. CASE Receive(o) \/ Cache(o)
  BY <1>2, <1>3 DEF Receive, Cache, Untouched, TypeOK
<1>4. CASE StoreRefused(o) \/ Store(o)
  BY <1>2, <1>4, InsertIsLocal DEF StoreRefused, Store, Untouched
<1>5. CASE AuditRefused(o)
  BY <1>2, <1>5, AuditIsLocal DEF AuditRefused, Untouched
<1>6. CASE PublishRefused(o)
  BY <1>2, <1>6, UpdateIsLocal DEF PublishRefused, Untouched
<1>7. CASE Announce(o)
  BY <1>2, <1>7, LogIsLocal DEF Announce, Untouched
<1>8. CASE AuditSubmitted(o)
  BY <1>2, <1>8, AuditIsLocal DEF AuditSubmitted, Untouched
<1>9. CASE Created(o)
  <2>1. task'[p] = task[p]
    BY <1>9 DEF Created, TypeOK
  <2> QED
    BY <1>2, <1>9, <2>1 DEF Created, Untouched
<1> QED
  BY <1>3, <1>4, <1>5, <1>6, <1>7, <1>8, <1>9 DEF submit_order

\* The execution of an order leaves all others alone.
LEMMA ExecuteIsLocal ==
  ASSUME TypeOK, NEW o \in Orders, execute_order(o)
  PROVE  /\ UNCHANGED <<up, backends, request, submit, order_data, cached>>
         /\ \A p \in Orders \ {o} : Untouched(p)
<1> USE DEF dbVars, topicVars, processVars
<1>1. UNCHANGED <<up, backends, request, submit, order_data, cached>>
  BY DEF execute_order, Begin, ErrorStatus, ErrorAudit, ErrorPublish, AcceptAudit,
         Accept, AcceptPublish, SplitAudit, InsertTrade, ReportTrade, Fill, FillAudit,
         FillPublish, OpenAudit, OpenPublish, TaskAudit, TaskStatus, TaskPublish, TaskTo
<1> SUFFICES ASSUME NEW p \in Orders \ {o} PROVE Untouched(p)
  BY <1>1
<1>t. ASSUME NEW from, NEW to, TaskTo(o, from, to) PROVE task'[p] = task[p]
  BY <1>t DEF TaskTo, TypeOK
<1>a. ASSUME NEW from, NEW to, NEW a, TaskAudit(o, from, to, a) PROVE Untouched(p)
  BY <1>1, <1>a, <1>t, AuditIsLocal DEF TaskAudit, Untouched
<1>s. ASSUME NEW from, NEW to, NEW s, NEW f, TaskStatus(o, from, to, s, f)
      PROVE  Untouched(p)
  BY <1>1, <1>s, <1>t, StatusIsLocal DEF TaskStatus, Untouched
<1>p. ASSUME NEW from, NEW to, NEW s, TaskPublish(o, from, to, s) PROVE Untouched(p)
  BY <1>1, <1>p, <1>t, UpdateIsLocal DEF TaskPublish, Untouched
<1>2. CASE Begin(o)
  BY <1>1, <1>2, <1>t DEF Begin, Untouched
<1>3. CASE ErrorAudit(o) \/ AcceptAudit(o) \/ FillAudit(o) \/ OpenAudit(o)
  BY <1>3, <1>a DEF ErrorAudit, AcceptAudit, FillAudit, OpenAudit
<1>4. CASE ErrorStatus(o) \/ Accept(o) \/ Fill(o)
  BY <1>4, <1>s DEF ErrorStatus, Accept, Fill
<1>5. CASE ErrorPublish(o) \/ AcceptPublish(o) \/ FillPublish(o) \/ OpenPublish(o)
  BY <1>5, <1>p DEF ErrorPublish, AcceptPublish, FillPublish, OpenPublish
<1>6. CASE SplitAudit(o)
  <2>1. task'[p] = task[p]
    BY <1>6 DEF SplitAudit, TypeOK
  <2> QED
    BY <1>1, <1>6, <2>1, AuditIsLocal DEF SplitAudit, Untouched
<1>7. CASE InsertTrade(o)
  <2>1. task'[p] = task[p]
    BY <1>7 DEF InsertTrade, TypeOK
  <2> QED
    BY <1>1, <1>7, <2>1, LogIsLocal DEF InsertTrade, Untouched
<1>8. CASE ReportTrade(o)
  BY <1>1, <1>8, <1>t, LogIsLocal DEF ReportTrade, Untouched
<1> QED
  BY <1>2, <1>3, <1>4, <1>5, <1>6, <1>7, <1>8 DEF execute_order

-----------------------------------------------------------------------------
(* The pieces of an execution                                                 *)

\* An order that is left alone stays whole.
LEMMA UntouchedWhole ==
  ASSUME NEW p, Untouched(p), Whole(p) PROVE Whole(p)'
BY DEF Untouched, Whole, Filled, IsAlgo

\* An answered order has captured a quantity and has its task.
LEMMA SubmitWhole ==
  ASSUME TypeOK, NEW o \in Orders, Bounded(o), Whole(o), submit_order(o)
  PROVE  Whole(o)'
<1> USE DEF dbVars, topicVars, processVars
<1>1. submit[o] # "created" /\ task[o].pc = "none" /\ submit'[o] # "new"
  BY DEF submit_order, Receive, StoreRefused, AuditRefused, PublishRefused, Store,
         Cache, Announce, AuditSubmitted, Created, SubmitTo, TypeOK, Bounded
<1>2. task'[o].pc \in {"none", "start"}
  BY <1>1 DEF submit_order, Receive, StoreRefused, AuditRefused, PublishRefused, Store,
              Cache, Announce, AuditSubmitted, Created, TypeOK, Task
<1>c. submit'[o] = "created" => task'[o].pc # "none"
  BY DEF submit_order, Receive, StoreRefused, AuditRefused, PublishRefused, Store,
         Cache, Announce, AuditSubmitted, Created, SubmitTo, TypeOK, Task
<1>3. order_data'[o].quantity \in Quantities
  <2>1. CASE Receive(o)
    BY <2>1 DEF Receive, TypeOK
  <2>2. CASE ~Receive(o)
    <3>1. submit[o] # "new" /\ UNCHANGED order_data
      BY <2>2 DEF submit_order, StoreRefused, AuditRefused, PublishRefused, Store,
                  Cache, Announce, AuditSubmitted, Created, SubmitTo
    <3> QED
      BY <3>1 DEF Whole
  <2> QED
    BY <2>1, <2>2
<1> QED
  BY <1>1, <1>2, <1>3, <1>c DEF Whole, Filled

\* execute_order reports as filled all the pieces of the order.
LEMMA ExecuteWhole ==
  ASSUME TypeOK, NEW o \in Orders, Bounded(o), Accounted(o), Whole(o), execute_order(o)
  PROVE  Whole(o)'
<1> USE DEF dbVars, topicVars, processVars
<1>1. UNCHANGED <<submit, order_data>>
  BY ExecuteIsLocal
<1>2. task[o].pc # "none"
  BY DEF execute_order, Begin, ErrorStatus, ErrorAudit, ErrorPublish, AcceptAudit,
         Accept, AcceptPublish, SplitAudit, InsertTrade, ReportTrade, Fill, FillAudit,
         FillPublish, OpenAudit, OpenPublish, TaskAudit, TaskStatus, TaskPublish, TaskTo
<1>3. submit[o] = "created" /\ order_data[o].quantity \in Quantities
  BY <1>2 DEF Bounded, Whole
<1>5. task[o].filled \in Nat /\ task[o].pieces \in Nat
  BY ValueTypes
<1>t. ASSUME NEW from, NEW to, TaskTo(o, from, to), to # "none",
             \/ to \in {"fill", "fill_audit", "fill_publish", "filled"}
             \/ to = "report" /\ ~IsAlgo(o)
             => task[o].filled = task[o].pieces
      PROVE  Whole(o)'
  BY <1>1, <1>3, <1>t, TaskToFacts DEF Whole, Filled, IsAlgo
<1>6. CASE \/ Begin(o) \/ ErrorStatus(o) \/ ErrorAudit(o) \/ ErrorPublish(o)
           \/ AcceptAudit(o) \/ Accept(o) \/ OpenAudit(o) \/ OpenPublish(o)
  BY <1>6, <1>t DEF Begin, ErrorStatus, ErrorAudit, ErrorPublish, AcceptAudit, Accept,
                    OpenAudit, OpenPublish, TaskAudit, TaskStatus, TaskPublish
<1>7. CASE AcceptPublish(o)
  BY <1>7, <1>t DEF AcceptPublish, TaskPublish
<1>8. CASE SplitAudit(o)
  <2>1. task'[o].pc = "trade"
    BY <1>8 DEF SplitAudit, TypeOK
  <2> QED
    BY <1>1, <1>3, <2>1 DEF Whole, Filled
<1>9. CASE InsertTrade(o)
  <2>1. task[o].pc = "trade"
    BY <1>9 DEF InsertTrade
  <2>2. task'[o] = [pc |-> IF IsAlgo(o) THEN "report" ELSE "fill",
                    filled |-> task[o].filled + 1, pieces |-> task[o].pieces]
    BY <1>9 DEF InsertTrade, TypeOK
  <2>3. ~IsAlgo(o) => task[o].filled = 0 /\ task[o].pieces = 1
    BY <2>1 DEF Bounded
  <2> QED
    BY <1>1, <1>3, <2>2, <2>3 DEF Whole, Filled, IsAlgo
<1>10. CASE ReportTrade(o)
  <2>1. PICK to \in {"trade", "fill", "fill_publish"} :
          /\ TaskTo(o, "report", to)
          /\ to = "fill" => ~HasMore(o)
          /\ to = "fill_publish" => ~IsAlgo(o)
    BY <1>10 DEF ReportTrade, HasMore
  <2>2. task[o].pc = "report"
    BY <2>1, TaskToFacts
  <2>3. to = "fill" => task[o].filled = task[o].pieces
    BY <1>5, <2>1 DEF HasMore, Bounded
  <2>4. to = "fill_publish" => task[o].filled = task[o].pieces
    BY <2>1, <2>2 DEF Whole, Filled
  <2> QED
    BY <1>t, <2>1, <2>3, <2>4
<1>11. CASE Fill(o) \/ FillAudit(o) \/ FillPublish(o)
  <2>1. PICK from \in {"fill", "fill_audit", "fill_publish"},
             to \in {"fill_audit", "fill_publish", "report", "filled"} :
          TaskTo(o, from, to) /\ (to = "report" => ~IsAlgo(o))
    BY <1>11 DEF Fill, FillAudit, FillPublish, TaskAudit, TaskStatus, TaskPublish
  <2>2. Filled(o) /\ task[o].filled = task[o].pieces
    BY <2>1, TaskToFacts DEF Whole, Filled
  <2> QED
    BY <1>t, <2>1, <2>2
<1> QED
  BY <1>6, <1>7, <1>8, <1>9, <1>10, <1>11 DEF execute_order

-----------------------------------------------------------------------------
(* What a call has done if no error was logged                                *)

\* What occurs in a longer trail.
LEMMA OccursAppended ==
  ASSUME NEW S, NEW seq \in Seq(S), NEW a, NEW x
  PROVE  Occurs(x, Append(seq, a)) <=> Occurs(x, seq) \/ x = a
<1>1. /\ Append(seq, a)[Len(seq) + 1] = a /\ Len(Append(seq, a)) = Len(seq) + 1
      /\ \A i \in 1 .. Len(seq) : Append(seq, a)[i] = seq[i]
      /\ Len(seq) \in Nat
  OBVIOUS
<1>2. ASSUME Occurs(x, Append(seq, a)) PROVE Occurs(x, seq) \/ x = a
  <2>1. PICK i \in 1 .. Len(seq) + 1 : Append(seq, a)[i] = x
    BY <1>1, <1>2 DEF Occurs
  <2> QED
    BY <1>1, <2>1 DEF Occurs
<1>3. ASSUME Occurs(x, seq) PROVE Occurs(x, Append(seq, a))
  <2>1. PICK i \in 1 .. Len(seq) : seq[i] = x
    BY <1>3 DEF Occurs
  <2> QED
    BY <1>1, <2>1 DEF Occurs
<1>4. ASSUME x = a PROVE Occurs(x, Append(seq, a))
  <2>1. Len(seq) + 1 \in 1 .. Len(Append(seq, a))
    BY <1>1
  <2> QED
    BY <1>1, <1>4, <2>1 DEF Occurs
<1> QED
  BY <1>2, <1>3, <1>4

\* A status other than "amended" becomes the last one, "amended" changes nothing.
LEMMA LastAppended ==
  ASSUME NEW S, NEW seq \in Seq(S), NEW a
  PROVE  /\ a # "amended" => LastIs(Append(seq, a), a)
         /\ \A s : LastIs(seq, s) => LastIs(Append(seq, "amended"), s)
<1>1. ASSUME NEW b
      PROVE /\ Append(seq, b)[Len(seq) + 1] = b /\ Len(Append(seq, b)) = Len(seq) + 1
            /\ \A i \in 1 .. Len(seq) : Append(seq, b)[i] = seq[i]
            /\ Len(seq) \in Nat
  OBVIOUS
<1>2. ASSUME a # "amended" PROVE LastIs(Append(seq, a), a)
  <2>1. /\ Len(seq) + 1 \in 0 .. Len(Append(seq, a)) /\ Len(seq) + 1 # 0
        /\ \A j \in Len(seq) + 1 + 1 .. Len(Append(seq, a)) : FALSE
    BY <1>1
  <2> QED
    BY <1>1, <1>2, <2>1 DEF LastIs
<1>3. ASSUME NEW s, LastIs(seq, s) PROVE LastIs(Append(seq, "amended"), s)
  <2>1. PICK i \in 0 .. Len(seq) :
          /\ s = IF i = 0 THEN "none" ELSE seq[i]
          /\ \A j \in i + 1 .. Len(seq) : seq[j] = "amended"
    BY <1>3 DEF LastIs
  <2>2. i \in 0 .. Len(Append(seq, "amended")) /\ s # "amended"
    BY <1>1, <1>3 DEF LastIs
  <2>3. s = IF i = 0 THEN "none" ELSE Append(seq, "amended")[i]
    BY <1>1, <2>1
  <2>4. ASSUME NEW j \in i + 1 .. Len(Append(seq, "amended"))
        PROVE  Append(seq, "amended")[j] = "amended"
    BY <1>1, <2>1, <2>4
  <2> QED
    BY <2>2, <2>3, <2>4 DEF LastIs
<1> QED
  BY <1>2, <1>3

\* A call whose order has no log line afterwards has taken effect.
LEMMA NothingRaised ==
  ASSUME TypeOK, NEW o \in Orders, NEW e, NEW b \in backends, NEW out \in Outcomes(b),
         Log(o, e, out), logged'[o] = {}
  PROVE  Applied(out) /\ logged[o] = {}
<1>1. ~Raised(out) /\ logged[o] = {}
  BY LogGrows
<1> QED
  BY <1>1 DEF Outcomes, Applied, Raised

\* Without a log line, the audit entry is there.
LEMMA AuditWritten ==
  ASSUME TypeOK, NEW o \in Orders, NEW a, record_audit(o, a), "db" \in backends,
         logged'[o] = {}
  PROVE  /\ logged[o] = {}
         /\ \A x : Occurs(x, audit'[o]) <=> Occurs(x, audit[o]) \/ x = a
<1>1. PICK out \in Outcomes("db") :
        /\ audit' = IF Applied(out) THEN [audit EXCEPT ![o] = Append(@, a)] ELSE audit
        /\ Log(o, "audit", out)
  BY DEF record_audit
<1>2. Applied(out) /\ logged[o] = {}
  BY <1>1, NothingRaised
<1>3. audit'[o] = Append(audit[o], a) /\ audit[o] \in Seq(AuditActions)
  BY <1>1, <1>2 DEF TypeOK
<1> QED
  BY <1>2, <1>3, OccursAppended

\* Without a log line, the update is the last on the topic.
LEMMA UpdateSent ==
  ASSUME TypeOK, NEW o \in Orders, NEW s, send_update(o, s), "kafka" \in backends,
         logged'[o] = {}
  PROVE  /\ logged[o] = {}
         /\ s # "amended" => LastIs(updates'[o], s)
         /\ s = "amended" => \A x : LastIs(updates[o], x) => LastIs(updates'[o], x)
<1>1. PICK out \in Outcomes("kafka") :
        /\ updates' = IF Applied(out) THEN [updates EXCEPT ![o] = Append(@, s)]
                                      ELSE updates
        /\ Log(o, "kafka", out)
  BY DEF send_update
<1>2. Applied(out) /\ logged[o] = {}
  BY <1>1, NothingRaised
<1>3. updates'[o] = Append(updates[o], s) /\ updates[o] \in Seq(UpdateStatuses)
  BY <1>1, <1>2 DEF TypeOK
<1> QED
  BY <1>2, <1>3, LastAppended

\* Without a log line, the row has the status.
LEMMA StatusWritten ==
  ASSUME TypeOK, NEW o \in Orders, NEW s, NEW f, update_order_status(o, s, f),
         "db" \in backends, logged'[o] = {}
  PROVE  /\ logged[o] = {}
         /\ orders'[o].status = IF orders[o].status = "none" THEN "none" ELSE s
<1>1. PICK out \in Outcomes("db") :
        /\ orders' = IF Applied(out)
                     THEN [orders EXCEPT ![o] = Updated(@, s, f)] ELSE orders
        /\ Log(o, "status", out)
  BY DEF update_order_status
<1>2. Applied(out) /\ logged[o] = {}
  BY <1>1, NothingRaised
<1>3. orders'[o] = Updated(orders[o], s, f)
  BY <1>1, <1>2 DEF TypeOK
<1> QED
  BY <1>2, <1>3 DEF Updated

\* Without a log line, the row is there.
LEMMA OrderInserted ==
  ASSUME TypeOK, NEW o \in Orders, NEW s, NEW out \in Outcomes("db"),
         InsertOrder(o, s, out), "db" \in backends, logged'[o] = {}
  PROVE  ~Raised(out) /\ logged[o] = {} /\ orders'[o].status = s
<1>1. Applied(out) /\ ~Raised(out) /\ logged[o] = {}
  BY NothingRaised, LogGrows DEF InsertOrder
<1>2. orders'[o] = NewRow(s, order_data[o].quantity)
  BY <1>1 DEF InsertOrder, TypeOK
<1> QED
  BY <1>1, <1>2 DEF NewRow

-----------------------------------------------------------------------------
(* The row, the events and the audit trail tell the place of the work         *)

\* The order is one of a service with all of its backends, no call about which
\* has failed and no cancel of which got through.
Clean(o) ==
  Backends = {BackendNames} /\ logged[o] = {} /\ Unrevised(o)
  /\ Place(o) \notin {"error", "lost"}
Tells(o) ==
  /\ orders[o].status = RowStatus(o)
  /\ LastIs(updates[o], LastUpdate(o))
  /\ Occurs("filled", audit[o]) <=> Filled(o) /\ Place(o) \notin {"fill", "fill_audit"}
  /\ Occurs("open", audit[o]) <=> Place(o) \in {"open_publish", "open"}
  /\ Occurs("rejected", audit[o]) <=> Place(o) \in {"refuse_publish", "refused"}
  /\ Occurs("error", audit[o]) <=> Place(o) \in {"error_publish", "failed"}

\* The story in two parts: when it is told, and what it tells.
LEMMA StoryTold == \A o : Story(o) <=> (Clean(o) => Tells(o))
BY DEF Story, Clean, Tells

\* A service that finds all backends has them.
LEMMA BackendsReached ==
  ASSUME TypeOK, Backends = {BackendNames}
  PROVE  "db" \in backends /\ "kafka" \in backends /\ "redis" \in backends
BY DEF TypeOK, BackendNames

\* The story of an order that is left alone goes on.
LEMMA UntouchedStory ==
  ASSUME NEW p, Untouched(p), UNCHANGED request, Story(p) PROVE Story(p)'
<1>1. /\ Place(p)' = Place(p) /\ Filled(p)' = Filled(p) /\ Unrevised(p)' = Unrevised(p)
      /\ orders'[p] = orders[p] /\ updates'[p] = updates[p] /\ audit'[p] = audit[p]
      /\ logged'[p] = logged[p]
  BY DEF Untouched, Place, Filled, IsAlgo, Unrevised
<1>2. RowStatus(p)' = RowStatus(p) /\ LastUpdate(p)' = LastUpdate(p)
  BY <1>1 DEF RowStatus, LastUpdate
<1> QED
  BY <1>1, <1>2 DEF Story

\* submit_order tells the story of its place.
LEMMA SubmitStory ==
  ASSUME TypeOK, NEW o \in Orders, Bounded(o), Story(o), submit_order(o)
  PROVE  Story(o)'
<1> USE DEF dbVars, topicVars, processVars
<1> SUFFICES ASSUME Clean(o)' PROVE Tells(o)'
  BY DEF Story, Clean, Tells
<1>1. "db" \in backends /\ "kafka" \in backends /\ logged'[o] = {}
  BY BackendsReached DEF Clean
<1>2. Unrevised(o)
  <2>1. UNCHANGED request
    BY SubmitIsLocal
  <2> QED
    BY <2>1 DEF Clean, Unrevised
<1>3. task[o].pc = "none" /\ submit[o] \in {"new"} \cup SubmitSteps /\ Place(o) = submit[o]
  BY DEF submit_order, Receive, StoreRefused, AuditRefused, PublishRefused, Store,
         Cache, Announce, AuditSubmitted, Created, SubmitTo, TypeOK, Bounded, Place,
         SubmitSteps
<1>4. logged[o] = {} => Tells(o)
  BY <1>2, <1>3, StoryTold DEF Clean, SubmitSteps
<1>m. ASSUME NEW from, NEW to, SubmitTo(o, from, to), UNCHANGED task
      PROVE  /\ Place(o) = from /\ Place(o)' = to
             /\ ~Filled(o) /\ ~Filled(o)'
  BY <1>3, <1>m DEF SubmitTo, Place, Filled, TypeOK
<1>5. CASE Receive(o)
  <2>1. PICK to \in {"store", "refuse"} : SubmitTo(o, "new", to)
    BY <1>5 DEF Receive
  <2>2. UNCHANGED <<task, orders, updates, audit, logged>>
    BY <1>5 DEF Receive
  <2> QED
    BY <1>1, <1>4, <1>m, <2>1, <2>2 DEF Tells, RowStatus, LastUpdate
<1>6. CASE StoreRefused(o)
  <2>1. SubmitTo(o, "refuse", "refuse_audit") /\ UNCHANGED <<task, audit, updates>>
    BY <1>6 DEF StoreRefused
  <2>2. logged[o] = {} /\ orders'[o].status = "rejected"
    BY <1>1, <1>6, OrderInserted DEF StoreRefused
  <2> QED
    BY <1>4, <1>m, <2>1, <2>2 DEF Tells, RowStatus, LastUpdate
<1>7. CASE AuditRefused(o)
  <2>1. /\ SubmitTo(o, "refuse_audit", "refuse_publish")
        /\ UNCHANGED <<task, orders, updates>>
    BY <1>7 DEF AuditRefused
  <2>2. logged[o] = {} /\ \A x : Occurs(x, audit'[o]) <=> Occurs(x, audit[o]) \/ x = "rejected"
    BY <1>1, <1>7, AuditWritten DEF AuditRefused
  <2> QED
    BY <1>4, <1>m, <2>1, <2>2 DEF Tells, RowStatus, LastUpdate
<1>8. CASE PublishRefused(o)
  <2>1. SubmitTo(o, "refuse_publish", "refused") /\ UNCHANGED <<task, orders, audit>>
    BY <1>8 DEF PublishRefused
  <2>2. logged[o] = {} /\ LastIs(updates'[o], "rejected")
    BY <1>1, <1>8, UpdateSent DEF PublishRefused
  <2> QED
    BY <1>4, <1>m, <2>1, <2>2 DEF Tells, RowStatus, LastUpdate
<1>9. CASE Store(o)
  <2>1. PICK out \in Outcomes("db") :
          /\ SubmitTo(o, "store", IF Raised(out) THEN "error" ELSE "cache")
          /\ InsertOrder(o, "pending", out)
    BY <1>9 DEF Store
  <2>2. UNCHANGED <<task, audit, updates>>
    BY <1>9 DEF Store
  <2>3. ~Raised(out) /\ logged[o] = {} /\ orders'[o].status = "pending"
    BY <1>1, <2>1, OrderInserted
  <2>4. SubmitTo(o, "store", "cache")
    BY <2>1, <2>3
  <2> QED
    BY <1>4, <1>m, <2>2, <2>3, <2>4 DEF Tells, RowStatus, LastUpdate
<1>10. CASE Cache(o)
  <2>1. SubmitTo(o, "cache", "announce") /\ UNCHANGED <<task, orders, audit, updates, logged>>
    BY <1>10 DEF Cache
  <2> QED
    BY <1>1, <1>4, <1>m, <2>1 DEF Tells, RowStatus, LastUpdate
<1>11. CASE Announce(o)
  <2>1. SubmitTo(o, "announce", "audit") /\ UNCHANGED <<task, orders, audit, updates>>
    BY <1>11 DEF Announce
  <2>2. logged[o] = {}
    BY <1>1, <1>11, NothingRaised DEF Announce
  <2> QED
    BY <1>4, <1>m, <2>1, <2>2 DEF Tells, RowStatus, LastUpdate
<1>12. CASE AuditSubmitted(o)
  <2>1. SubmitTo(o, "audit", "schedule") /\ UNCHANGED <<task, orders, updates>>
    BY <1>12 DEF AuditSubmitted
  <2>2. logged[o] = {} /\ \A x : Occurs(x, audit'[o]) <=> Occurs(x, audit[o]) \/ x = "submitted"
    BY <1>1, <1>12, AuditWritten DEF AuditSubmitted
  <2> QED
    BY <1>4, <1>m, <2>1, <2>2 DEF Tells, RowStatus, LastUpdate
<1>13. CASE Created(o)
  <2>1. UNCHANGED <<orders, updates, audit, logged>> /\ submit[o] = "schedule"
    BY <1>13 DEF Created, SubmitTo
  <2>3. task'[o].pc = "start"
    BY <1>13 DEF Created, TypeOK, Task
  <2>4. Place(o)' = "start" /\ ~Filled(o) /\ ~Filled(o)'
    BY <1>3, <2>3 DEF Place, Filled
  <2> QED
    BY <1>1, <1>3, <1>4, <2>1, <2>4 DEF Tells, RowStatus, LastUpdate
<1> QED
  BY <1>5, <1>6, <1>7, <1>8, <1>9, <1>10, <1>11, <1>12, <1>13 DEF submit_order

\* execute_order tells the story of its place.
LEMMA ExecuteStory ==
  ASSUME TypeOK, NEW o \in Orders, Story(o), execute_order(o)
  PROVE  Story(o)'
<1> USE DEF dbVars, topicVars, processVars
<1> SUFFICES ASSUME Clean(o)' PROVE Tells(o)'
  BY DEF Story, Clean, Tells
<1>1. "db" \in backends /\ "kafka" \in backends /\ logged'[o] = {}
  BY BackendsReached DEF Clean
<1>2. UNCHANGED <<request, order_data>> /\ Unrevised(o)
  <2>1. UNCHANGED <<request, order_data>>
    BY ExecuteIsLocal
  <2> QED
    BY <2>1 DEF Clean, Unrevised
<1>3. task[o].pc \in TaskSteps /\ Place(o) = task[o].pc
  BY DEF execute_order, Begin, ErrorStatus, ErrorAudit, ErrorPublish, AcceptAudit,
         Accept, AcceptPublish, SplitAudit, InsertTrade, ReportTrade, Fill, FillAudit,
         FillPublish, OpenAudit, OpenPublish, TaskAudit, TaskStatus, TaskPublish, TaskTo,
         Place, TaskSteps
<1>4. logged[o] = {} => Tells(o)
  BY <1>2, <1>3, StoryTold DEF Clean, TaskSteps
<1>m. ASSUME NEW from, NEW to, TaskTo(o, from, to), to # "none"
      PROVE  /\ Place(o) = from /\ Place(o)' = to
             /\ Filled(o) <=> \/ from \in {"fill", "fill_audit", "fill_publish", "filled"}
                              \/ from = "report" /\ ~IsAlgo(o)
             /\ Filled(o)' <=> \/ to \in {"fill", "fill_audit", "fill_publish", "filled"}
                               \/ to = "report" /\ ~IsAlgo(o)
  <2>1. task[o].pc = from /\ task'[o].pc = to /\ from # "none"
    BY <1>3, <1>m, TaskToFacts DEF TaskSteps
  <2>2. IsAlgo(o)' <=> IsAlgo(o)
    BY <1>2 DEF IsAlgo
  <2> QED
    BY <1>m, <2>1, <2>2 DEF Place, Filled
<1>5. CASE Begin(o)
  <2>1. PICK to \in {"error_status", "accept_audit"} : TaskTo(o, "start", to)
    BY <1>5 DEF Begin
  <2>2. UNCHANGED <<orders, updates, audit, logged>>
    BY <1>5 DEF Begin
  <2> QED
    BY <1>1, <1>4, <1>m, <2>1, <2>2 DEF Tells, RowStatus, LastUpdate
<1>a. ASSUME NEW from, NEW to, NEW a, TaskAudit(o, from, to, a)
      PROVE  /\ TaskTo(o, from, to) /\ UNCHANGED <<orders, updates>>
             /\ Tells(o)
             /\ \A x : Occurs(x, audit'[o]) <=> Occurs(x, audit[o]) \/ x = a
  BY <1>1, <1>4, <1>a, AuditWritten DEF TaskAudit
<1>s. ASSUME NEW from, NEW to, NEW s, NEW f, TaskStatus(o, from, to, s, f)
      PROVE  /\ TaskTo(o, from, to) /\ UNCHANGED <<audit, updates>>
             /\ Tells(o)
             /\ orders'[o].status = IF orders[o].status = "none" THEN "none" ELSE s
  BY <1>1, <1>4, <1>s, StatusWritten DEF TaskStatus
<1>p. ASSUME NEW from, NEW to, NEW s, TaskPublish(o, from, to, s), s # "amended"
      PROVE  /\ TaskTo(o, from, to) /\ UNCHANGED <<orders, audit>>
             /\ Tells(o)
             /\ LastIs(updates'[o], s)
  BY <1>1, <1>4, <1>p, UpdateSent DEF TaskPublish
<1>6. CASE ErrorStatus(o)
  <2>1. TaskStatus(o, "error_status", "error_audit", "rejected", orders[o].filled)
    BY <1>6 DEF ErrorStatus
  <2> QED
    BY <1>s, <1>m, <2>1 DEF Tells, RowStatus, LastUpdate
<1>7. CASE ErrorAudit(o)
  <2>1. TaskAudit(o, "error_audit", "error_publish", "error")
    BY <1>7 DEF ErrorAudit
  <2> QED
    BY <1>a, <1>m, <2>1 DEF Tells, RowStatus, LastUpdate
<1>8. CASE ErrorPublish(o)
  <2>1. TaskPublish(o, "error_publish", "failed", "rejected")
    BY <1>8 DEF ErrorPublish
  <2> QED
    BY <1>p, <1>m, <2>1 DEF Tells, RowStatus, LastUpdate
<1>9. CASE AcceptAudit(o)
  <2>1. TaskAudit(o, "accept_audit", "accept", "accepted")
    BY <1>9 DEF AcceptAudit
  <2> QED
    BY <1>a, <1>m, <2>1 DEF Tells, RowStatus, LastUpdate
<1>10. CASE Accept(o)
  <2>1. TaskStatus(o, "accept", "accept_publish", "accepted", orders[o].filled)
    BY <1>10 DEF Accept
  <2> QED
    BY <1>s, <1>m, <2>1 DEF Tells, RowStatus, LastUpdate
<1>11. CASE AcceptPublish(o)
  <2>1. PICK to \in {"split_audit", "trade", "open_audit"} :
          TaskPublish(o, "accept_publish", to, "accepted")
    BY <1>11 DEF AcceptPublish
  <2> QED
    BY <1>p, <1>m, <2>1 DEF Tells, RowStatus, LastUpdate
<1>12. CASE SplitAudit(o)
  <2>1. task[o].pc = "split_audit" /\ UNCHANGED <<orders, updates>>
    BY <1>12 DEF SplitAudit
  <2>2. task'[o].pc = "trade"
    BY <1>12 DEF SplitAudit, TypeOK
  <2>3. /\ logged[o] = {}
        /\ \A x : Occurs(x, audit'[o]) <=> Occurs(x, audit[o]) \/ x = "algo_split"
    BY <1>1, <1>12, AuditWritten DEF SplitAudit
  <2>4. Place(o)' = "trade" /\ ~Filled(o) /\ ~Filled(o)'
    BY <2>1, <2>2 DEF Place, Filled
  <2> QED
    BY <1>3, <1>4, <2>1, <2>3, <2>4 DEF Tells, RowStatus, LastUpdate
<1>13. CASE InsertTrade(o)
  <2>1. task[o].pc = "trade" /\ UNCHANGED <<orders, updates, audit>>
    BY <1>13 DEF InsertTrade
  <2>2. task'[o].pc = IF IsAlgo(o) THEN "report" ELSE "fill"
    BY <1>13 DEF InsertTrade, TypeOK
  <2>3. logged[o] = {}
    BY <1>1, <1>13, NothingRaised DEF InsertTrade
  <2>4. /\ Place(o)' = IF IsAlgo(o) THEN "report" ELSE "fill"
        /\ Filled(o)' <=> ~IsAlgo(o)
        /\ ~Filled(o)
    BY <1>2, <2>1, <2>2 DEF Place, Filled, IsAlgo
  <2> QED
    BY <1>3, <1>4, <2>1, <2>3, <2>4 DEF Tells, RowStatus, LastUpdate
<1>14. CASE ReportTrade(o)
  <2>1. PICK to \in {"trade", "fill", "fill_publish"} :
          /\ TaskTo(o, "report", to)
          /\ to \in {"trade", "fill"} <=> IsAlgo(o)
    BY <1>14 DEF ReportTrade, HasMore
  <2>2. UNCHANGED <<orders, updates, audit>>
    BY <1>14 DEF ReportTrade
  <2>3. logged[o] = {}
    BY <1>1, <1>14, NothingRaised DEF ReportTrade
  <2> QED
    BY <1>4, <1>m, <2>1, <2>2, <2>3 DEF Tells, RowStatus, LastUpdate
<1>15. CASE Fill(o)
  <2>1. TaskStatus(o, "fill", "fill_audit", "filled", task[o].filled)
    BY <1>15 DEF Fill
  <2>2. /\ TaskTo(o, "fill", "fill_audit") /\ UNCHANGED <<audit, updates>>
        /\ Tells(o)
        /\ orders'[o].status = IF orders[o].status = "none" THEN "none" ELSE "filled"
    BY <1>s, <2>1
  <2>3. /\ Place(o) = "fill" /\ Place(o)' = "fill_audit"
        /\ Filled(o) /\ Filled(o)'
    BY <1>m, <2>2
  <2>4. orders'[o].status = RowStatus(o)'
    BY <2>2, <2>3 DEF Tells, RowStatus
  <2> QED
    BY <2>2, <2>3, <2>4 DEF Tells, LastUpdate
<1>16. CASE FillAudit(o)
  <2>1. TaskAudit(o, "fill_audit", IF IsAlgo(o) THEN "fill_publish" ELSE "report", "filled")
    BY <1>16 DEF FillAudit
  <2> DEFINE to == IF IsAlgo(o) THEN "fill_publish" ELSE "report"
  <2>2. /\ TaskTo(o, "fill_audit", to) /\ UNCHANGED <<orders, updates>>
        /\ Tells(o)
        /\ \A x : Occurs(x, audit'[o]) <=> Occurs(x, audit[o]) \/ x = "filled"
    BY <1>a, <2>1
  <2>3. /\ Place(o) = "fill_audit" /\ Place(o)' = to
        /\ Filled(o) /\ Filled(o)'
    BY <1>m, <2>2
  <2>4. RowStatus(o)' = RowStatus(o) /\ LastUpdate(o)' = LastUpdate(o)
    BY <2>3 DEF RowStatus, LastUpdate
  <2> QED
    BY <2>2, <2>3, <2>4 DEF Tells
<1>17. CASE FillPublish(o)
  <2>1. TaskPublish(o, "fill_publish", "filled", "filled")
    BY <1>17 DEF FillPublish
  <2> QED
    BY <1>p, <1>m, <2>1 DEF Tells, RowStatus, LastUpdate
<1>18. CASE OpenAudit(o)
  <2>1. TaskAudit(o, "open_audit", "open_publish", "open")
    BY <1>18 DEF OpenAudit
  <2> QED
    BY <1>a, <1>m, <2>1 DEF Tells, RowStatus, LastUpdate
<1>19. CASE OpenPublish(o)
  <2>1. TaskPublish(o, "open_publish", "open", "accepted")
    BY <1>19 DEF OpenPublish
  <2> QED
    BY <1>p, <1>m, <2>1 DEF Tells, RowStatus, LastUpdate
<1> QED
  BY <1>5, <1>6, <1>7, <1>8, <1>9, <1>10, <1>11, <1>12, <1>13, <1>14, <1>15, <1>16,
     <1>17, <1>18, <1>19 DEF execute_order

-----------------------------------------------------------------------------
(* Cancels and amendments                                                     *)

\* A request that moves on is about the same order.
LEMMA RequestToFacts ==
  ASSUME TypeOK, NEW r \in Requests, NEW from, NEW to, RequestTo(r, from, to),
         NEW q \in Requests
  PROVE  /\ request[r].pc = from
         /\ request'[q].pc = IF q = r THEN to ELSE request[q].pc
         /\ request'[q].order = request[q].order
         /\ request'[q].kind = request[q].kind
BY DEF TypeOK, Request, RequestTo

\* What a request that has been sent does to the row, the topic and the trail.
LEMMA RequestTells ==
  ASSUME TypeOK, NEW r \in Requests, Asked(r), Send(r) \/ handle_request(r),
         NEW p \in Orders
  PROVE  /\ orders'[p].status = "none" <=> orders[p].status = "none"
         /\ Unrevised(p)' =>
              /\ Unrevised(p)
              /\ orders'[p].status = orders[p].status
              /\ \A s : LastIs(updates[p], s) => LastIs(updates'[p], s)
         /\ \A a \in {"filled", "open", "rejected", "error"} :
              Occurs(a, audit'[p]) <=> Occurs(a, audit[p])
<1> USE DEF dbVars, topicVars, processVars
<1>1. orders[p] \in Row /\ updates[p] \in Seq(UpdateStatuses) /\ audit[p] \in Seq(AuditActions)
  BY DEF TypeOK
<1>u. ASSUME NEW from, NEW to, RequestTo(r, from, to),
             from # "read" => to \notin {"unsent", "read", "refused", "not_found"}
      PROVE  /\ Unrevised(p)' => Unrevised(p)
             /\ Unrevised(p)' /\ from # "read" =>
                  ~(request[r].order = p /\ request[r].kind = "cancel")
  BY <1>u, RequestToFacts DEF Unrevised
<1>2. CASE Send(r)
  <2>1. UNCHANGED <<orders, updates, audit>>
    BY <1>2 DEF Send
  <2>2. Unrevised(p)' => Unrevised(p)
    <3>1. request[r].pc = "unsent" /\ \A q \in Requests \ {r} : request'[q] = request[q]
      BY <1>2 DEF Send, TypeOK
    <3> QED
      BY <3>1 DEF Unrevised
  <2> QED
    BY <2>1, <2>2
<1>3. CASE Read(r)
  <2>1. UNCHANGED <<orders, updates, audit>> /\ \E to : RequestTo(r, "read", to)
    BY <1>3 DEF Read
  <2> QED
    BY <1>u, <2>1
<1>4. CASE Write(r)
  <2>1. UNCHANGED <<updates, audit>>
    BY <1>4 DEF Write
  <2>2. PICK to \in {"error", "audit"} : RequestTo(r, "write", to)
    BY <1>4 DEF Write
  <2>3. \/ orders'[p] = orders[p]
        \/ request[r].order = p /\ orders'[p] = Rewritten(r, orders[p])
    BY <1>4 DEF Write, TypeOK
  <2>4. Rewritten(r, orders[p]).status =
          IF request[r].kind = "cancel" THEN "cancelled" ELSE orders[p].status
    BY <1>1 DEF Rewritten, Row
  <2>5. request[r].order = p => orders[p].status # "none"
    BY <2>2, RequestToFacts DEF Asked
  <2>6. /\ Unrevised(p)' => Unrevised(p)
        /\ Unrevised(p)' => ~(request[r].order = p /\ request[r].kind = "cancel")
    BY <1>u, <2>2
  <2> QED
    BY <2>1, <2>3, <2>4, <2>5, <2>6
<1>5. CASE AuditRequest(r)
  <2>1. UNCHANGED <<orders, updates>> /\ RequestTo(r, "audit", "publish")
    BY <1>5 DEF AuditRequest
  <2>2. \/ audit'[p] = audit[p]
        \/ audit'[p] = Append(audit[p], RequestEvent(r))
    BY <1>5 DEF AuditRequest, record_audit, TypeOK
  <2>3. RequestEvent(r) \notin {"filled", "open", "rejected", "error"}
    BY DEF RequestEvent
  <2>4. Unrevised(p)' => Unrevised(p)
    BY <1>u, <2>1
  <2>5. ASSUME NEW a \in {"filled", "open", "rejected", "error"}
        PROVE  Occurs(a, audit'[p]) <=> Occurs(a, audit[p])
    <3>1. Occurs(a, Append(audit[p], RequestEvent(r))) <=>
            Occurs(a, audit[p]) \/ a = RequestEvent(r)
      BY <1>1, OccursAppended
    <3> QED
      BY <2>2, <2>3, <3>1
  <2> QED
    BY <2>1, <2>4, <2>5
<1>6. CASE PublishRequest(r)
  <2>1. UNCHANGED <<orders, audit>> /\ RequestTo(r, "publish", "invalidate")
    BY <1>6 DEF PublishRequest, PublishTo
  <2>2. \/ updates'[p] = updates[p]
        \/ request[r].order = p /\ updates'[p] = Append(updates[p], RequestEvent(r))
    BY <1>6 DEF PublishRequest, PublishTo, send_update, TypeOK
  <2>3. /\ Unrevised(p)' => Unrevised(p)
        /\ Unrevised(p)' => ~(request[r].order = p /\ request[r].kind = "cancel")
    BY <1>u, <2>1
  <2>4. request[r].kind # "cancel" => RequestEvent(r) = "amended"
    BY DEF RequestEvent
  <2> QED
    BY <1>1, <2>1, <2>2, <2>3, <2>4, LastAppended
<1>7. CASE Invalidate(r)
  <2>1. UNCHANGED <<orders, updates, audit>> /\ RequestTo(r, "invalidate", "done")
    BY <1>7 DEF Invalidate
  <2> QED
    BY <1>u, <2>1
<1> QED
  BY <1>2, <1>3, <1>4, <1>5, <1>6, <1>7 DEF handle_request

\* Requests, expiring keys, crashes and starts leave executions whole.
LEMMA OtherWhole ==
  ASSUME TypeOK, NEW p \in Orders, Whole(p), \A r \in Requests : Asked(r),
         \/ \E r \in Requests : Send(r) \/ handle_request(r)
         \/ \E o \in Orders : Expire(o)
         \/ Crash \/ lifespan \/ UNCHANGED vars
  PROVE  Whole(p)'
<1> USE DEF dbVars, topicVars, processVars
<1>1. ASSUME NEW r \in Requests, Send(r) \/ handle_request(r) PROVE Whole(p)'
  BY <1>1, RequestEffect, RequestTells DEF Whole, Filled, IsAlgo
<1>2. ASSUME NEW o \in Orders, Expire(o) PROVE Whole(p)'
  BY <1>2 DEF Expire, Whole, Filled, IsAlgo
<1>3. CASE Crash
  BY <1>3, CrashEffect DEF Whole, Filled, IsAlgo, TaskSteps, SubmitSteps
<1>4. CASE lifespan \/ UNCHANGED vars
  BY <1>4 DEF lifespan, vars, Whole, Filled, IsAlgo
<1> QED
  BY <1>1, <1>2, <1>3, <1>4

\* A request changes the story only by a cancel that gets through.
LEMMA OtherStory ==
  ASSUME TypeOK, NEW p \in Orders, Bounded(p), Story(p), \A r \in Requests : Asked(r),
         \/ \E r \in Requests : Send(r) \/ handle_request(r)
         \/ \E o \in Orders : Expire(o)
         \/ Crash \/ lifespan \/ UNCHANGED vars
  PROVE  Story(p)'
<1> USE DEF dbVars, topicVars, processVars
<1>p. ASSUME UNCHANGED <<submit, task, order_data>>
      PROVE  /\ Place(p)' = Place(p) /\ (Filled(p)' <=> Filled(p))
             /\ RowStatus(p)' = RowStatus(p) /\ LastUpdate(p)' = LastUpdate(p)
  <2>1. Place(p)' = Place(p) /\ (Filled(p)' <=> Filled(p))
    BY <1>p DEF Place, Filled, IsAlgo
  <2> QED
    BY <2>1 DEF RowStatus, LastUpdate
<1>1. ASSUME NEW r \in Requests, Send(r) \/ handle_request(r) PROVE Story(p)'
  <2>1. UNCHANGED <<submit, task, order_data>> /\ logged[p] \subseteq logged'[p]
    BY <1>1, RequestEffect
  <2>2. SUFFICES ASSUME Clean(p)' PROVE Tells(p)'
    BY DEF Story, Clean, Tells
  <2>3. Unrevised(p)' /\ logged[p] = {}
    BY <2>1, <2>2 DEF Clean
  <2>4. Tells(p)
    <3>1. Clean(p)
      BY <1>1, <1>p, <2>1, <2>2, <2>3, RequestTells DEF Clean
    <3> QED
      BY <3>1, StoryTold
  <2>5. /\ orders'[p].status = orders[p].status
        /\ \A s : LastIs(updates[p], s) => LastIs(updates'[p], s)
        /\ \A a \in {"filled", "open", "rejected", "error"} :
              Occurs(a, audit'[p]) <=> Occurs(a, audit[p])
    BY <1>1, <2>3, RequestTells
  <2> QED
    BY <1>p, <2>1, <2>4, <2>5 DEF Tells
<1>2. ASSUME UNCHANGED <<submit, task, order_data, request, logged, orders, updates, audit>>
      PROVE  Story(p)'
  <2>1. Unrevised(p)' <=> Unrevised(p)
    BY <1>2 DEF Unrevised
  <2> QED
    BY <1>2, <1>p, <2>1 DEF Story
<1>3. ASSUME NEW o \in Orders, Expire(o) PROVE Story(p)'
  BY <1>2, <1>3 DEF Expire
<1>4. CASE Crash
  <2>1. UNCHANGED <<orders, updates, audit, logged, order_data>>
    BY <1>4 DEF Crash
  <2>2. SUFFICES ASSUME Clean(p)' PROVE Tells(p)'
    BY DEF Story, Clean, Tells
  <2>3. Unrevised(p)
    <3>1. \A r \in Requests : /\ request'[r].order = request[r].order
                              /\ request'[r].kind = request[r].kind
                              /\ request'[r].pc = request[r].pc \/ request'[r].pc = "lost"
      BY <1>4 DEF Crash, TypeOK, Request
    <3> QED
      BY <2>2, <3>1 DEF Clean, Unrevised
  <2>4. /\ submit'[p] = IF submit[p] \in SubmitSteps THEN "lost" ELSE submit[p]
        /\ task'[p].pc = IF task[p].pc \in TaskSteps THEN "lost" ELSE task[p].pc
    BY <1>4, CrashEffect
  <2>5. Place(p)' = Place(p) /\ task'[p].pc = task[p].pc
    BY <2>2, <2>4 DEF Clean, Place, TaskSteps
  <2>6. Filled(p)' <=> Filled(p)
    BY <2>1, <2>5 DEF Filled, IsAlgo
  <2>7. RowStatus(p)' = RowStatus(p) /\ LastUpdate(p)' = LastUpdate(p)
    BY <2>5, <2>6 DEF RowStatus, LastUpdate
  <2>8. Tells(p)
    BY <2>1, <2>2, <2>3, <2>5, StoryTold DEF Clean
  <2> QED
    BY <2>1, <2>5, <2>6, <2>7, <2>8 DEF Tells
<1>5. CASE lifespan \/ UNCHANGED vars
  BY <1>2, <1>5 DEF lifespan, vars
<1> QED
  BY <1>1, <1>3, <1>4, <1>5

\* A request stays about an order that was answered.
LEMMA AskedStep ==
  ASSUME Safe, \A r \in Requests : Asked(r), [Next]_vars, NEW q \in Requests
  PROVE  Asked(q)'
<1> USE DEF dbVars, topicVars, processVars
<1>0. TypeOK /\ (\A r \in Requests : Asked(r)) /\ \A o \in Orders : Bounded(o)
  BY DEF Safe
<1>a. ASSUME request'[q] = request[q],
             \A o \in Orders : /\ submit[o] \in SubmitEnds => submit'[o] \in SubmitEnds
                               /\ orders[o].status # "none" => orders'[o].status # "none"
      PROVE  Asked(q)'
  BY <1>0, <1>a DEF Asked
<1>1. ASSUME NEW o \in Orders, submit_order(o) PROVE Asked(q)'
  <2>1. UNCHANGED request /\ \A p \in Orders \ {o} : Untouched(p)
    BY <1>0, <1>1, SubmitIsLocal
  <2>2. submit[o] \notin SubmitEnds
    BY <1>1 DEF submit_order, Receive, StoreRefused, AuditRefused, PublishRefused, Store,
                Cache, Announce, AuditSubmitted, Created, SubmitTo, SubmitEnds
  <2>3. orders[o].status # "none" => orders'[o].status # "none"
    BY <1>0, <1>1, InsertEffect
       DEF submit_order, Receive, StoreRefused, AuditRefused, PublishRefused, Store,
           Cache, Announce, AuditSubmitted, Created
  <2> QED
    BY <1>a, <2>1, <2>2, <2>3 DEF Untouched
<1>2. ASSUME NEW o \in Orders, execute_order(o) PROVE Asked(q)'
  <2>1. UNCHANGED <<request, submit>> /\ \A p \in Orders \ {o} : Untouched(p)
    BY <1>0, <1>2, ExecuteIsLocal
  <2>2. orders[o].status # "none" => orders'[o].status # "none"
    BY <1>0, <1>2, StatusEffect
       DEF execute_order, Begin, ErrorStatus, ErrorAudit, ErrorPublish, AcceptAudit,
           Accept, AcceptPublish, SplitAudit, InsertTrade, ReportTrade, Fill, FillAudit,
           FillPublish, OpenAudit, OpenPublish, TaskAudit, TaskStatus, TaskPublish
  <2> QED
    BY <1>a, <2>1, <2>2 DEF Untouched
<1>3. ASSUME NEW r \in Requests, Send(r) \/ handle_request(r) PROVE Asked(q)'
  <2>o. ASSUME NEW o \in Orders
        PROVE  submit' = submit /\ (orders'[o].status = "none" <=> orders[o].status = "none")
    BY <1>0, <1>3, RequestEffect, RequestTells
  <2>1. /\ \A o \in Orders : submit' = submit
        /\ \A o \in Orders : orders'[o].status = "none" <=> orders[o].status = "none"
    BY <2>o
  <2>2. CASE q # r
    <3>1. request'[q] = request[q]
      BY <1>0, <1>3, <2>2 DEF Send, handle_request, Read, Write, AuditRequest,
                              PublishRequest, PublishTo, Invalidate, RequestTo, TypeOK
    <3> QED
      BY <1>a, <2>1, <3>1
  <2>3. CASE q = r /\ Send(r)
    <3>1. PICK o \in Orders : /\ ClientsWait => submit[o] \in SubmitEnds
                              /\ request'[r].pc = "read" /\ request'[r].order = o
      BY <1>0, <2>3 DEF Send, TypeOK
    <3> QED
      BY <2>1, <2>3, <3>1 DEF Asked
  <2>4. CASE q = r /\ handle_request(r)
    <3>1. PICK from, to : from \in RequestSteps /\ RequestTo(r, from, to)
      BY <2>4 DEF handle_request, Read, Write, AuditRequest, PublishRequest, PublishTo,
                  Invalidate, RequestSteps
    <3>2. /\ request[r].pc = from /\ request'[r].pc = to /\ from # "unsent"
          /\ request'[r].order = request[r].order
      BY <1>0, <3>1, RequestToFacts DEF RequestSteps
    <3>3. request'[r].pc = "write" => orders[request[r].order].status # "none"
      <4>1. to = "write" => Read(r)
        BY <1>0, <2>4, <3>2, RequestToFacts
           DEF handle_request, Write, AuditRequest, PublishRequest, PublishTo, Invalidate
      <4>2. ASSUME Read(r), to = "write" PROVE orders[request[r].order].status # "none"
        <5>1. PICK out \in Outcomes("db") : LET status == orders[request[r].order].status IN
                RequestTo(r, "read", CASE out = "skipped" -> "unavailable"
                                       [] Raised(out) -> "error"
                                       [] out = "ok" /\ status = "none" -> "not_found"
                                       [] out = "ok" /\ Refuses(r, status) -> "refused"
                                       [] OTHER -> "write")
          BY <4>2 DEF Read
        <5>2. to = CASE out = "skipped" -> "unavailable"
                     [] Raised(out) -> "error"
                     [] out = "ok" /\ orders[request[r].order].status = "none" -> "not_found"
                     [] out = "ok" /\ Refuses(r, orders[request[r].order].status) -> "refused"
                     [] OTHER -> "write"
          BY <1>0, <3>2, <5>1, RequestToFacts
        <5>3. out \in {"skipped", "ok", "lost", "unknown"}
          BY <5>1 DEF Outcomes
        <5> QED
          BY <4>2, <5>2, <5>3 DEF Raised
      <4> QED
        BY <3>2, <4>1, <4>2
    <3> QED
      BY <1>0, <2>1, <2>4, <3>2, <3>3 DEF Asked
  <2> QED
    BY <1>3, <2>2, <2>3, <2>4
<1>4. ASSUME NEW o \in Orders, Expire(o) PROVE Asked(q)'
  BY <1>a, <1>4 DEF Expire
<1>5. CASE Crash
  <2>1. /\ request'[q].order = request[q].order
        /\ request'[q].pc \in {request[q].pc, "lost"}
        /\ request[q].pc = "unsent" => request'[q].pc = "unsent"
    BY <1>0, <1>5 DEF Crash, TypeOK, Request, RequestSteps
  <2>2. /\ UNCHANGED orders
        /\ \A o \in Orders : submit[o] \in SubmitEnds => submit'[o] \in SubmitEnds
    BY <1>5 DEF Crash, SubmitSteps, SubmitEnds
  <2> QED
    BY <1>0, <2>1, <2>2 DEF Asked
<1>6. CASE lifespan \/ UNCHANGED vars
  BY <1>a, <1>6 DEF lifespan, vars
<1> QED
  BY <1>1, <1>2, <1>3, <1>4, <1>5, <1>6 DEF Next

-----------------------------------------------------------------------------
(* The second inductive invariant                                             *)

\* The invariant holds at the start.
LEMMA CoherentInit == Init => Coherent
<1> SUFFICES ASSUME Init PROVE Coherent
  OBVIOUS
<1>1. ASSUME NEW o \in Orders PROVE Whole(o) /\ Story(o)
  <2>1. /\ task[o].pc = "none" /\ submit[o] = "new" /\ orders[o].status = "none"
        /\ audit[o] = <<>> /\ updates[o] = <<>>
    BY DEF Init, NoTask, NoRow
  <2>2. Place(o) = "new" /\ ~Filled(o)
    BY <2>1 DEF Place, Filled
  <2>3. RowStatus(o) = "none" /\ LastUpdate(o) = "none"
    BY <2>2 DEF RowStatus, LastUpdate
  <2>4. LastIs(updates[o], "none") /\ \A a : ~Occurs(a, audit[o])
    BY <2>1 DEF LastIs, Occurs
  <2> QED
    BY <2>1, <2>2, <2>3, <2>4 DEF Whole, Story
<1>2. \A r \in Requests : Asked(r)
  BY DEF Init, NoRequest, Asked
<1> QED
  BY <1>1, <1>2 DEF Coherent

\* Every step of a safe service keeps the invariant.
LEMMA CoherentStep == Safe /\ Coherent /\ [Next]_vars => Coherent'
<1> SUFFICES ASSUME Safe, Coherent, [Next]_vars PROVE Coherent'
  OBVIOUS
<1>0. /\ TypeOK
      /\ \A o \in Orders : Bounded(o) /\ Accounted(o) /\ Whole(o) /\ Story(o)
      /\ \A r \in Requests : Asked(r)
  BY DEF Safe, Coherent
<1>1. \A r \in Requests : Asked(r)'
  BY <1>0, AskedStep
<1>2. ASSUME NEW p \in Orders PROVE Whole(p)' /\ Story(p)'
  <2>1. ASSUME NEW o \in Orders, submit_order(o) PROVE Whole(p)' /\ Story(p)'
    <3>1. CASE p = o
      BY <1>0, <2>1, <3>1, SubmitWhole, SubmitStory
    <3>2. CASE p # o
      BY <1>0, <2>1, <3>2, SubmitIsLocal, UntouchedWhole, UntouchedStory
    <3> QED
      BY <3>1, <3>2
  <2>2. ASSUME NEW o \in Orders, execute_order(o) PROVE Whole(p)' /\ Story(p)'
    <3>1. CASE p = o
      BY <1>0, <2>2, <3>1, ExecuteWhole, ExecuteStory
    <3>2. CASE p # o
      BY <1>0, <2>2, <3>2, ExecuteIsLocal, UntouchedWhole, UntouchedStory
    <3> QED
      BY <3>1, <3>2
  <2>3. CASE \/ \E r \in Requests : Send(r) \/ handle_request(r)
             \/ \E o \in Orders : Expire(o)
             \/ Crash \/ lifespan \/ UNCHANGED vars
    BY <1>0, <2>3, OtherWhole, OtherStory
  <2> QED
    BY <2>1, <2>2, <2>3 DEF Next
<1> QED
  BY <1>1, <1>2 DEF Coherent

\* What an execution reports as filled is all the pieces of its order, a request
\* writes only to a row that is there, and the row, the events and the audit trail
\* of an order about which nothing has failed are those of the place where the
\* work on it stands.
THEOREM AlwaysCoherent == Spec => []Coherent
BY CoherentInit, CoherentStep, AlwaysSafe, PTL DEF Spec

-----------------------------------------------------------------------------
(* What follows from the two invariants                                       *)

\* When the work on an order is over and nothing about it has failed, the row, the
\* last event published and the audit trail tell the same story, for a service
\* that finds all of its backends whenever it starts.
THEOREM OrdersAgree ==
  ASSUME Backends = {BackendNames} PROVE Spec => []Agreement
<1>1. Safe /\ Coherent => Agreement
  <2> SUFFICES ASSUME Safe, Coherent, NEW o \in Orders,
                      submit[o] \in {"created", "refused"}, ~Working(o),
                      task[o].pc # "lost", logged[o] = {}, Uncancelled(o)
               PROVE  /\ LastIs(updates[o], orders[o].status)
                      /\ orders[o].status = "filled" <=> Occurs("filled", audit[o])
                      /\ orders[o].status = "accepted" <=> Occurs("open", audit[o])
                      /\ orders[o].status = "rejected" <=>
                           Occurs("rejected", audit[o]) \/ Occurs("error", audit[o])
    BY DEF Agreement
  <2>1. TypeOK /\ Bounded(o) /\ Whole(o) /\ Story(o)
    BY DEF Safe, Coherent
  <2>2. Unrevised(o)
    BY DEF Uncancelled, Unrevised
  <2>3. task[o].pc \in {"none"} \cup TaskSteps \cup TaskEnds
    BY <2>1 DEF TypeOK, Task
  <2>4. Place(o) \in {"refused", "filled", "open", "failed"}
    BY <2>1, <2>3 DEF Working, Place, Whole, Bounded, TaskEnds
  <2>5. Filled(o) <=> Place(o) = "filled"
    BY <2>1, <2>4 DEF Filled, Place, Bounded
  <2>6. Tells(o)
    BY <2>1, <2>2, <2>4, StoryTold DEF Clean
  <2> QED
    BY <2>4, <2>5, <2>6 DEF Tells, RowStatus, LastUpdate
<1> QED
  BY <1>1, AlwaysSafe, AlwaysCoherent, PTL

\* Once a cancel or an amendment has been answered, no read of its order is served
\* from the cached submission, provided that clients wait for the answer to their
\* submission and that Redis is reached at every start and answers every call.
THEOREM AnsweredIsNotCached ==
  ASSUME ClientsWait, "redis" \notin Faults, \A b \in Backends : "redis" \in b
  PROVE  Spec => []CancelInvalidates
<1> USE DEF dbVars, topicVars, processVars
<1>1. Init => CancelInvalidates
  BY DEF Init, NoRequest, CancelInvalidates
<1>2. ASSUME Safe, Coherent, CancelInvalidates, [Next]_vars PROVE CancelInvalidates'
  <2> SUFFICES ASSUME NEW q \in Requests, request'[q].pc = "done"
               PROVE  ~cached'[request'[q].order]
    BY DEF CancelInvalidates
  <2>0. TypeOK /\ Asked(q)
    BY <1>2 DEF Safe, Coherent
  <2>a. ASSUME request'[q].pc = request[q].pc, request'[q].order = request[q].order,
               \A p \in Orders : submit[p] # "cache" /\ cached'[p] => cached[p]
        PROVE  ~cached'[request'[q].order]
    <3>1. /\ request[q].order \in Orders /\ submit[request[q].order] \in SubmitEnds
          /\ ~cached[request[q].order]
      BY <1>2, <2>0, <2>a DEF Asked, CancelInvalidates
    <3> QED
      BY <2>a, <3>1 DEF SubmitEnds
  <2>1. ASSUME NEW o \in Orders, submit_order(o) PROVE ~cached'[request'[q].order]
    <3>1. UNCHANGED request
      BY <2>0, <2>1, SubmitIsLocal
    <3>2. \A p \in Orders : submit[p] # "cache" /\ cached'[p] => cached[p]
      BY <2>0, <2>1 DEF submit_order, Receive, StoreRefused, AuditRefused, PublishRefused,
                        Store, Cache, Announce, AuditSubmitted, Created, SubmitTo, TypeOK
    <3> QED
      BY <2>a, <3>1, <3>2
  <2>2. ASSUME NEW o \in Orders, execute_order(o) PROVE ~cached'[request'[q].order]
    BY <2>0, <2>2, <2>a, ExecuteIsLocal
  <2>3. ASSUME NEW r \in Requests, Send(r) \/ handle_request(r)
        PROVE  ~cached'[request'[q].order]
    <3>1. \A p \in Orders : cached'[p] => cached[p]
      BY <2>0, <2>3 DEF Send, handle_request, Read, Write, AuditRequest, PublishRequest,
                        PublishTo, Invalidate, TypeOK
    <3>2. CASE q # r
      <4>1. request'[q] = request[q]
        BY <2>0, <2>3, <3>2 DEF Send, handle_request, Read, Write, AuditRequest,
                                PublishRequest, PublishTo, Invalidate, RequestTo, TypeOK
      <4> QED
        BY <2>a, <3>1, <4>1
    <3>3. CASE q = r
      <4>1. Invalidate(r)
        BY <2>0, <2>3, <3>3 DEF Send, handle_request, Read, Write, AuditRequest,
                                PublishRequest, PublishTo, RequestTo, TypeOK, Request
      <4>2. request[r].pc = "invalidate" /\ request'[r].order = request[r].order
        BY <2>0, <4>1, RequestToFacts DEF Invalidate
      <4>3. request[r].order \in Orders
        BY <2>0, <3>3, <4>2 DEF Asked
      <4>4. \A out \in Outcomes("redis") : Applied(out)
        BY <2>0 DEF Outcomes, Applied, TypeOK
      <4> QED
        BY <2>0, <3>3, <4>1, <4>2, <4>3, <4>4 DEF Invalidate, TypeOK
    <3> QED
      BY <3>2, <3>3
  <2>4. ASSUME NEW o \in Orders, Expire(o) PROVE ~cached'[request'[q].order]
    BY <2>0, <2>4, <2>a DEF Expire, TypeOK
  <2>5. CASE Crash
    <3>1. request'[q].pc = request[q].pc /\ request'[q].order = request[q].order
      BY <2>0, <2>5 DEF Crash, TypeOK, Request
    <3> QED
      BY <2>5, <2>a, <3>1 DEF Crash
  <2>6. CASE lifespan \/ UNCHANGED vars
    BY <2>6, <2>a DEF lifespan, vars
  <2> QED
    BY <1>2, <2>1, <2>2, <2>3, <2>4, <2>5, <2>6 DEF Next
<1> QED
  BY <1>1, <1>2, AlwaysSafe, AlwaysCoherent, PTL DEF Spec

\* A settled order stays settled and its row as it is: no cancel or amendment that
\* reads the row later, no crash and no restart changes it.
THEOREM SettledOrdersStay == Spec => SettledStays
<1> USE DEF dbVars, topicVars, processVars
<1>1. ASSUME Safe, Coherent, [Next]_vars, NEW p \in Orders, Settled(p)
      PROVE  Settled(p)' /\ orders'[p] = orders[p]
  <2>0. /\ TypeOK /\ Bounded(p) /\ Whole(p) /\ \A r \in Requests : Asked(r)
        /\ orders[p].status \in FinalStatuses
        /\ submit[p] \notin SubmitSteps /\ task[p].pc \notin TaskSteps
        /\ \A r \in Requests : ~(request[r].order = p /\ request[r].pc = "write")
    BY <1>1 DEF Safe, Coherent, Settled, Working
  <2>a. ASSUME orders'[p] = orders[p],
               submit'[p] \in {submit[p], "lost"}, task'[p].pc \in {task[p].pc, "lost"},
               \A r \in Requests : ~(request'[r].order = p /\ request'[r].pc = "write")
        PROVE  Settled(p)' /\ orders'[p] = orders[p]
    BY <2>0, <2>a DEF Settled, Working, SubmitSteps, TaskSteps
  <2>1. ASSUME NEW o \in Orders, submit_order(o) PROVE Settled(p)' /\ orders'[p] = orders[p]
    <3>1. submit[o] \in {"new"} \cup SubmitSteps
      BY <2>1 DEF submit_order, Receive, StoreRefused, AuditRefused, PublishRefused, Store,
                  Cache, Announce, AuditSubmitted, Created, SubmitTo, SubmitSteps
    <3>2. p # o
      BY <2>0, <3>1 DEF Whole, FinalStatuses
    <3> QED
      BY <2>0, <2>1, <2>a, <3>2, SubmitIsLocal DEF Untouched
  <2>2. ASSUME NEW o \in Orders, execute_order(o) PROVE Settled(p)' /\ orders'[p] = orders[p]
    <3>1. task[o].pc \in TaskSteps
      BY <2>2 DEF execute_order, Begin, ErrorStatus, ErrorAudit, ErrorPublish, AcceptAudit,
                  Accept, AcceptPublish, SplitAudit, InsertTrade, ReportTrade, Fill,
                  FillAudit, FillPublish, OpenAudit, OpenPublish, TaskAudit, TaskStatus,
                  TaskPublish, TaskTo, TaskSteps
    <3> QED
      BY <2>0, <2>2, <2>a, <3>1, ExecuteIsLocal DEF Untouched
  <2>3. ASSUME NEW r \in Requests, Send(r) \/ handle_request(r)
        PROVE  Settled(p)' /\ orders'[p] = orders[p]
    <3>1. UNCHANGED <<submit, task>>
      BY <2>0, <2>3, RequestEffect
    <3>2. orders'[p] = orders[p]
      <4>1. CASE Write(r)
        <5>1. request[r].pc = "write"
          BY <4>1 DEF Write, RequestTo
        <5> QED
          BY <2>0, <4>1, <5>1 DEF Write, TypeOK
      <4>2. CASE ~Write(r)
        BY <2>3, <4>2 DEF Send, handle_request, Read, AuditRequest, PublishRequest,
                          PublishTo, Invalidate
      <4> QED
        BY <4>1, <4>2
    <3>3. \A q \in Requests \ {r} : request'[q] = request[q]
      BY <2>0, <2>3 DEF Send, handle_request, Read, Write, AuditRequest, PublishRequest,
                        PublishTo, Invalidate, RequestTo, TypeOK
    <3>4. ~(request'[r].order = p /\ request'[r].pc = "write")
      <4>1. ASSUME Read(r), request[r].order = p PROVE request'[r].pc # "write"
        <5>1. PICK out, to :
                /\ out \in Outcomes("db")
                /\ RequestTo(r, "read", to)
                /\ to = CASE out = "skipped" -> "unavailable"
                          [] Raised(out) -> "error"
                          [] out = "ok" /\ orders[p].status = "none" -> "not_found"
                          [] out = "ok" /\ Refuses(r, orders[p].status) -> "refused"
                          [] OTHER -> "write"
          BY <4>1 DEF Read
        <5>2. out \in {"skipped", "ok", "lost", "unknown"} /\ Refuses(r, orders[p].status)
          BY <2>0, <5>1 DEF Outcomes, Refuses
        <5>3. to # "write"
          BY <5>1, <5>2 DEF Raised
        <5> QED
          BY <2>0, <5>1, <5>3, RequestToFacts
      <4>2. request'[r].order = request[r].order \/ Send(r)
        BY <2>0, <2>3 DEF handle_request, Read, Write, AuditRequest, PublishRequest,
                          PublishTo, Invalidate, RequestTo, TypeOK, Request
      <4>3. ~Read(r) => request'[r].pc # "write"
        BY <2>0, <2>3 DEF Send, handle_request, Write, AuditRequest, PublishRequest,
                          PublishTo, Invalidate, RequestTo, TypeOK, Request
      <4>4. Read(r) => ~Send(r)
        BY DEF Read, Send, RequestTo
      <4> QED
        BY <4>1, <4>2, <4>3, <4>4
    <3> QED
      BY <2>0, <2>a, <3>1, <3>2, <3>3, <3>4
  <2>4. ASSUME NEW o \in Orders, Expire(o) PROVE Settled(p)' /\ orders'[p] = orders[p]
    BY <2>0, <2>4, <2>a DEF Expire
  <2>5. CASE Crash
    <3>1. \A r \in Requests : ~(request'[r].order = p /\ request'[r].pc = "write")
      BY <2>0, <2>5 DEF Crash, TypeOK, Request
    <3> QED
      BY <2>0, <2>5, <2>a, <3>1, CrashEffect
  <2>6. CASE lifespan \/ UNCHANGED vars
    BY <2>0, <2>6, <2>a DEF lifespan, vars
  <2> QED
    BY <1>1, <2>1, <2>2, <2>3, <2>4, <2>5, <2>6 DEF Next
<1>2. ASSUME Safe, Coherent, [Next]_vars
      PROVE  [\A o \in Orders : Settled(o) => Settled(o)' /\ orders'[o] = orders[o]]_vars
  BY <1>1, <1>2
<1> QED
  BY <1>2, AlwaysSafe, AlwaysCoherent, PTL DEF Spec, SettledStays

-----------------------------------------------------------------------------
(* The order service implements OrderExecution                                *)

\* The variables of OrderExecution, as Execution sees them.
StageFn == [o \in Orders |-> StageOf(o)]
PiecesFn == [o \in Orders |-> task[o].pieces]
ExecutedFn == [o \in Orders |-> task[o].filled]

\* A step shows nothing of p, or moves only what OrderExecution sees of o.
Hidden(p) ==
  /\ StageOf(p)' = StageOf(p)
  /\ task'[p].pieces = task[p].pieces /\ task'[p].filled = task[p].filled
HiddenBut(o) == \A p \in Orders \ {o} : Hidden(p)

\* A step that changes no execution is a stutter of OrderExecution.
LEMMA HiddenStutters ==
  ASSUME \A p \in Orders : Hidden(p) PROVE UNCHANGED Execution!vars
BY DEF Hidden, Execution!vars

\* A step on one order moves its stage alone.
LEMMA StageMoves ==
  ASSUME NEW o \in Orders, HiddenBut(o), NEW to, StageOf(o)' = to
  PROVE  StageFn' = [StageFn EXCEPT ![o] = to]
BY DEF HiddenBut, Hidden, StageFn

\* A step on one order that trades nothing moves its stage and no piece.
LEMMA OnlyStageMoves ==
  ASSUME NEW o \in Orders, HiddenBut(o), NEW to, StageOf(o)' = to,
         task'[o].pieces = task[o].pieces, task'[o].filled = task[o].filled
  PROVE  /\ StageFn' = [StageFn EXCEPT ![o] = to]
         /\ PiecesFn' = PiecesFn /\ ExecutedFn' = ExecutedFn
<1>1. StageFn' = [StageFn EXCEPT ![o] = to]
  BY StageMoves
<1>2. PiecesFn' = PiecesFn /\ ExecutedFn' = ExecutedFn
  BY DEF HiddenBut, Hidden, PiecesFn, ExecutedFn
<1> QED
  BY <1>1, <1>2

\* OrderExecution sees nothing of an order that is left alone.
LEMMA UntouchedHidden ==
  ASSUME NEW p, Untouched(p) PROVE Hidden(p)
BY DEF Untouched, Hidden, StageOf

\* At the start every order is open.
LEMMA ExecutionInit == Init => Execution!Init
<1> SUFFICES ASSUME Init PROVE Execution!Init
  OBVIOUS
<1>1. \A o \in Orders : /\ task[o].pc = "none" /\ submit[o] = "new"
                        /\ task[o].filled = 0 /\ task[o].pieces = 0
  BY DEF Init, NoTask
<1>2. \A o \in Orders : StageOf(o) = "open"
  BY <1>1 DEF StageOf, TaskSteps
<1> QED
  BY <1>1, <1>2 DEF Execution!Init

\* submit_order admits the order, declines it, or is a stutter.
LEMMA SubmitExecution ==
  ASSUME TypeOK, NEW o \in Orders, Bounded(o), Whole(o), submit_order(o)
  PROVE  Execution!Next \/ UNCHANGED Execution!vars
<1> USE DEF dbVars, topicVars, processVars
<1>1. HiddenBut(o)
  BY SubmitIsLocal, UntouchedHidden DEF HiddenBut
<1>2. submit[o] \in {"new"} \cup SubmitSteps /\ task[o].pc = "none" /\ task[o].filled = 0
  BY DEF submit_order, Receive, StoreRefused, AuditRefused, PublishRefused, Store, Cache,
         Announce, AuditSubmitted, Created, SubmitTo, SubmitSteps, Bounded, BeforeTrades
<1>3. StageOf(o) = "open"
  BY <1>2 DEF StageOf, SubmitSteps, TaskSteps
<1>4. CASE Created(o)
  <2>1. task'[o] = [pc |-> "start", filled |-> 0, pieces |-> 1]
    BY <1>4 DEF Created, TypeOK
  <2>2. StageOf(o)' = "admitted" /\ task'[o].filled = task[o].filled /\ task'[o].pieces = 1
    BY <1>2, <2>1 DEF StageOf, TaskSteps
  <2>3. /\ StageFn' = [StageFn EXCEPT ![o] = "admitted"]
        /\ PiecesFn' = [PiecesFn EXCEPT ![o] = 1]
        /\ ExecutedFn' = ExecutedFn
    BY <1>1, <2>2, StageMoves DEF HiddenBut, Hidden, PiecesFn, ExecutedFn
  <2>4. Execution!Admit(o)
    BY <1>3, <2>3 DEF Execution!Admit, StageFn, PiecesFn, ExecutedFn
  <2> QED
    BY <2>4 DEF Execution!Next
<1>5. CASE ~Created(o)
  <2>1. task'[o] = task[o] /\ submit'[o] # "created"
    BY <1>5 DEF submit_order, Receive, StoreRefused, AuditRefused, PublishRefused, Store,
                Cache, Announce, AuditSubmitted, SubmitTo, TypeOK
  <2>2. task'[o].pieces = task[o].pieces
    BY <2>1
  <2>3. CASE submit'[o] \in {"refused", "error", "lost"}
    <3>1. StageOf(o)' = "declined"
      BY <1>2, <2>1, <2>3 DEF StageOf, TaskSteps
    <3>2. /\ StageFn' = [StageFn EXCEPT ![o] = "declined"]
          /\ PiecesFn' = PiecesFn /\ ExecutedFn' = ExecutedFn
      BY <1>1, <2>1, <2>2, <3>1, OnlyStageMoves
    <3>3. Execution!Decline(o)
      BY <1>3, <3>2 DEF Execution!Decline, StageFn, PiecesFn, ExecutedFn
    <3> QED
      BY <3>3 DEF Execution!Next
  <2>4. CASE submit'[o] \notin {"refused", "error", "lost"}
    <3>1. StageOf(o)' = "open"
      BY <1>2, <2>1, <2>4 DEF StageOf, TaskSteps
    <3> QED
      BY <1>1, <1>3, <2>1, <2>2, <3>1, HiddenStutters DEF HiddenBut, Hidden
  <2> QED
    BY <2>3, <2>4
<1> QED
  BY <1>4, <1>5

\* execute_order splits an order, executes a piece, completes or closes, or is a
\* stutter.
LEMMA ExecuteExecution ==
  ASSUME TypeOK, NEW o \in Orders, Bounded(o), Whole(o), execute_order(o)
  PROVE  Execution!Next \/ UNCHANGED Execution!vars
<1> USE DEF dbVars, topicVars, processVars
<1>1. HiddenBut(o) /\ UNCHANGED <<order_data, submit>>
  BY ExecuteIsLocal, UntouchedHidden DEF HiddenBut
<1>2. task[o].pc \in TaskSteps
  BY DEF execute_order, Begin, ErrorStatus, ErrorAudit, ErrorPublish, AcceptAudit, Accept,
         AcceptPublish, SplitAudit, InsertTrade, ReportTrade, Fill, FillAudit, FillPublish,
         OpenAudit, OpenPublish, TaskAudit, TaskStatus, TaskPublish, TaskTo, TaskSteps
<1>3. StageOf(o) = "admitted"
  BY <1>2 DEF StageOf, TaskSteps
<1>4. task[o].filled \in Nat /\ task[o].pieces \in Nat
  BY ValueTypes
<1>5. CASE InsertTrade(o)
  <2>1. task[o].pc = "trade"
    BY <1>5 DEF InsertTrade
  <2>2. /\ task'[o].filled = task[o].filled + 1 /\ task'[o].pieces = task[o].pieces
        /\ task'[o].pc \in TaskSteps
    BY <1>5 DEF InsertTrade, TypeOK, TaskSteps
  <2>3. StageOf(o)' = "admitted"
    BY <2>2 DEF StageOf, TaskSteps
  <2>4. task[o].filled < task[o].pieces
    BY <2>1 DEF Bounded
  <2>5. /\ ExecutedFn' = [ExecutedFn EXCEPT ![o] = @ + 1]
        /\ StageFn' = StageFn /\ PiecesFn' = PiecesFn
    BY <1>1, <1>3, <2>2, <2>3 DEF HiddenBut, Hidden, StageFn, PiecesFn, ExecutedFn
  <2>6. Execution!Execute(o)
    BY <1>3, <2>4, <2>5 DEF Execution!Execute, StageFn, PiecesFn, ExecutedFn
  <2> QED
    BY <2>6 DEF Execution!Next
<1>6. CASE FillPublish(o)
  <2>1. TaskTo(o, "fill_publish", "filled")
    BY <1>6 DEF FillPublish, TaskPublish
  <2>2. /\ StageOf(o)' = "complete"
        /\ task'[o].pieces = task[o].pieces /\ task'[o].filled = task[o].filled
    BY <1>1, <1>3, <2>1, TaskToFacts DEF StageOf, TaskSteps
  <2>3. task[o].filled = task[o].pieces
    BY <1>3, <2>1, TaskToFacts DEF Whole, Filled
  <2>4. Execution!Complete(o)
    BY <1>1, <1>3, <2>2, <2>3, OnlyStageMoves
       DEF Execution!Complete, StageFn, PiecesFn, ExecutedFn
  <2> QED
    BY <2>4 DEF Execution!Next
<1>7. CASE OpenPublish(o) \/ ErrorPublish(o)
  <2>1. PICK from \in {"open_publish", "error_publish"}, to \in {"open", "failed"} :
          TaskTo(o, from, to)
    BY <1>7 DEF OpenPublish, ErrorPublish, TaskPublish
  <2>2. /\ StageOf(o)' = "unfilled"
        /\ task'[o].pieces = task[o].pieces /\ task'[o].filled = task[o].filled
    BY <1>1, <1>3, <2>1, TaskToFacts DEF StageOf, TaskSteps
  <2>3. task[o].filled = 0
    BY <2>1, TaskToFacts DEF Bounded, BeforeTrades
  <2>4. Execution!Close(o)
    BY <1>1, <1>3, <2>2, <2>3, OnlyStageMoves
       DEF Execution!Close, StageFn, PiecesFn, ExecutedFn
  <2> QED
    BY <2>4 DEF Execution!Next
<1>8. CASE \/ Begin(o) \/ ErrorStatus(o) \/ ErrorAudit(o) \/ AcceptAudit(o) \/ Accept(o)
           \/ AcceptPublish(o) \/ ReportTrade(o) \/ Fill(o) \/ FillAudit(o) \/ OpenAudit(o)
  <2>1. /\ task'[o].pc \in TaskSteps /\ task'[o].filled = task[o].filled
        /\ task'[o].pieces = task[o].pieces
    <3>1. ASSUME NEW from, NEW to \in TaskSteps, TaskTo(o, from, to)
          PROVE  /\ task'[o].pc \in TaskSteps /\ task'[o].filled = task[o].filled
                 /\ task'[o].pieces = task[o].pieces
      BY <3>1, TaskToFacts
    <3> QED
      BY <1>8, <3>1
         DEF Begin, ErrorStatus, ErrorAudit, AcceptAudit, Accept, AcceptPublish,
             ReportTrade,
             HasMore, Fill, FillAudit, OpenAudit, TaskAudit, TaskStatus, TaskPublish, TaskSteps
  <2>2. StageOf(o)' = "admitted"
    BY <2>1 DEF StageOf, TaskSteps
  <2> QED
    BY <1>1, <1>3, <2>1, <2>2, HiddenStutters DEF HiddenBut, Hidden
<1>9. CASE SplitAudit(o)
  <2>1. PICK n \in Splits(o) :
          task' = [task EXCEPT ![o] = [pc |-> "trade", filled |-> @.filled, pieces |-> n]]
    BY <1>9 DEF SplitAudit
  <2>2. task'[o].pc = "trade" /\ task'[o].filled = task[o].filled /\ task'[o].pieces = n
    BY <2>1 DEF TypeOK
  <2>3. task[o].filled = 0
    BY <1>9 DEF SplitAudit, Bounded, BeforeTrades
  <2>4. n \in {1} \cup SliceCounts \cup RoundCounts
    BY <2>1 DEF Splits
  <2>5. StageOf(o)' = "admitted"
    BY <2>2 DEF StageOf, TaskSteps
  <2>6. /\ PiecesFn' = [PiecesFn EXCEPT ![o] = n]
        /\ StageFn' = StageFn /\ ExecutedFn' = ExecutedFn
    BY <1>1, <1>3, <2>2, <2>5 DEF HiddenBut, Hidden, StageFn, PiecesFn, ExecutedFn
  <2>7. Execution!Split(o)
    BY <1>3, <2>3, <2>4, <2>6 DEF Execution!Split, StageFn, PiecesFn, ExecutedFn
  <2> QED
    BY <2>7 DEF Execution!Next
<1> QED
  BY <1>5, <1>6, <1>7, <1>8, <1>9 DEF execute_order

\* A crash abandons what was being executed.
LEMMA CrashExecution ==
  ASSUME TypeOK, Crash PROVE Execution!Next
<1> DEFINE declined == {o \in Orders : task[o].pc = "none" /\ submit[o] \in SubmitSteps}
<1>1. ASSUME NEW o \in Orders
      PROVE  /\ StageOf(o)' = CASE StageOf(o) = "admitted" -> "abandoned"
                                [] o \in declined -> "declined"
                                [] OTHER -> StageOf(o)
             /\ o \in declined => StageOf(o) = "open"
             /\ task'[o].pieces = task[o].pieces /\ task'[o].filled = task[o].filled
  <2>1. /\ task'[o].filled = task[o].filled /\ task'[o].pieces = task[o].pieces
        /\ task'[o].pc = IF task[o].pc \in TaskSteps THEN "lost" ELSE task[o].pc
        /\ submit'[o] = IF submit[o] \in SubmitSteps THEN "lost" ELSE submit[o]
    BY CrashEffect
  <2>2. task[o].pc \in {"none"} \cup TaskSteps \cup TaskEnds
    BY DEF TypeOK, Task
  <2>3. CASE task[o].pc \in TaskSteps
    BY <2>1, <2>3 DEF StageOf, TaskSteps
  <2>4. CASE task[o].pc = "none"
    BY <2>1, <2>4 DEF StageOf, TaskSteps, SubmitSteps
  <2>5. CASE task[o].pc \in TaskEnds
    BY <2>1, <2>5 DEF StageOf, TaskSteps, TaskEnds
  <2> QED
    BY <2>2, <2>3, <2>4, <2>5
<1> HIDE DEF declined
<1>2. declined \in SUBSET {o \in Orders : StageFn[o] = "open"}
  <2>1. declined \subseteq Orders
    BY DEF declined
  <2> QED
    BY <1>1, <2>1 DEF StageFn
<1>3. StageFn' = [o \in Orders |-> CASE StageFn[o] = "admitted" -> "abandoned"
                                      [] o \in declined -> "declined"
                                      [] OTHER -> StageFn[o]]
  BY <1>1 DEF StageFn
<1>4. PiecesFn' = PiecesFn /\ ExecutedFn' = ExecutedFn
  BY <1>1 DEF PiecesFn, ExecutedFn
<1>5. Execution!Abandon
  BY <1>2, <1>3, <1>4 DEF Execution!Abandon, StageFn, PiecesFn, ExecutedFn
<1> QED
  BY <1>5 DEF Execution!Next

\* Every step is a step of OrderExecution or a stutter.
LEMMA ExecutionStep ==
  Safe /\ Coherent /\ [Next]_vars => [Execution!Next]_(Execution!vars)
<1> USE DEF dbVars, topicVars, processVars
<1> SUFFICES ASSUME Safe, Coherent, [Next]_vars
             PROVE  Execution!Next \/ UNCHANGED Execution!vars
  OBVIOUS
<1>0. TypeOK /\ \A o \in Orders : Bounded(o) /\ Whole(o)
  BY DEF Safe, Coherent
<1>u. ASSUME UNCHANGED <<submit, task, order_data>> PROVE UNCHANGED Execution!vars
  BY <1>u, HiddenStutters DEF Hidden, StageOf
<1>1. ASSUME NEW o \in Orders, submit_order(o)
      PROVE  Execution!Next \/ UNCHANGED Execution!vars
  BY <1>0, <1>1, SubmitExecution
<1>2. ASSUME NEW o \in Orders, execute_order(o)
      PROVE  Execution!Next \/ UNCHANGED Execution!vars
  BY <1>0, <1>2, ExecuteExecution
<1>3. ASSUME NEW r \in Requests, Send(r) \/ handle_request(r)
      PROVE  UNCHANGED <<submit, task, order_data>>
  BY <1>3 DEF Send, handle_request, Read, Write, AuditRequest, PublishRequest, PublishTo,
              Invalidate, RequestTo
<1>4. ASSUME NEW o \in Orders, Expire(o) PROVE UNCHANGED <<submit, task, order_data>>
  BY <1>4 DEF Expire
<1>5. CASE Crash
  BY <1>0, <1>5, CrashExecution
<1>6. CASE lifespan \/ UNCHANGED vars
  BY <1>u, <1>6 DEF lifespan, vars
<1> QED
  BY <1>u, <1>1, <1>2, <1>3, <1>4, <1>5, <1>6 DEF Next

\* Whatever the handlers, the tasks and the failures of the order service do, an
\* order is admitted or declined once, executes each of its pieces at most once,
\* and ends with all or none of them executed unless the process dies: refinement
\* of OrderExecution, for any numbers of orders, requests and pieces.
THEOREM ServiceImplementsExecution == Spec => ImplementsExecution
BY ExecutionInit, ExecutionStep, AlwaysSafe, AlwaysCoherent, PTL
   DEF Spec, ImplementsExecution, Execution!Spec

-----------------------------------------------------------------------------
(* The counters account for every order                                       *)

One(b) == IF b THEN 1 ELSE 0

\* Two sets that differ at most in x.
LEMMA OneMoves ==
  ASSUME NEW A, NEW B, NEW x, IsFiniteSet(A), IsFiniteSet(B), A \ {x} = B \ {x}
  PROVE  /\ Cardinality(A) \in Nat /\ Cardinality(B) \in Nat
         /\ Cardinality(B) = Cardinality(A) + One(x \in B) - One(x \in A)
<1>1. ASSUME NEW S, IsFiniteSet(S)
      PROVE  /\ Cardinality(S) \in Nat /\ Cardinality(S \ {x}) \in Nat
             /\ Cardinality(S) = Cardinality(S \ {x}) + One(x \in S)
  <2>1. Cardinality(S) \in Nat /\ IsFiniteSet(S \ {x})
    BY <1>1, FS_CardinalityType, FS_Subset
  <2>2. Cardinality(S \ {x}) \in Nat
    BY <2>1, FS_CardinalityType
  <2>3. CASE x \in S
    <3>1. Cardinality(S \ {x}) = Cardinality(S) - 1
      BY <1>1, <2>3, FS_RemoveElement
    <3> QED
      BY <2>1, <2>2, <2>3, <3>1 DEF One
  <2>4. CASE x \notin S
    <3>1. S \ {x} = S
      BY <2>4
    <3>2. Cardinality(S \ {x}) = Cardinality(S)
      BY <3>1, Zenon
    <3> QED
      BY <2>1, <2>4, <3>2 DEF One
  <2> QED
    BY <2>1, <2>2, <2>3, <2>4
<1>2. /\ Cardinality(A) \in Nat /\ Cardinality(A) = Cardinality(A \ {x}) + One(x \in A)
      /\ Cardinality(B) \in Nat /\ Cardinality(B) = Cardinality(A \ {x}) + One(x \in B)
      /\ Cardinality(A \ {x}) \in Nat
  BY <1>1
<1> QED
  BY <1>2 DEF One

Refusing == {"refuse", "refuse_audit", "refuse_publish", "refused"}
Executing(pcs) == {o \in Orders : task[o].pc \in pcs}
Rejecting == {o \in Orders : submit[o] \in Refusing}

Balance ==
  /\ metrics.submitted = Cardinality(Executing(TaskSteps)) + metrics.fill_count
                           + Cardinality(Executing({"failed"}))
  /\ metrics.filled = Cardinality(Executing({"filled"}))
  /\ metrics.rejected = Cardinality(Executing({"failed"})) + Cardinality(Rejecting)

\* The counters add up if they balance.
LEMMA CountersBalance ==
  ASSUME ~Crashes PROVE (CountersAddUp <=> Balance) /\ (CountersAddUp' <=> Balance')
<1>1. /\ Executing({"filled"}) = {o \in Orders : task[o].pc = "filled"}
      /\ Executing({"filled"})' = {o \in Orders : task'[o].pc = "filled"}
  BY DEF Executing
<1>2. CountersAddUp <=> Balance
  BY <1>1 DEF CountersAddUp, Tasks, Balance, Executing, Rejecting, Refusing
<1>3. CountersAddUp' <=> Balance'
  BY <1>1 DEF CountersAddUp, Tasks, Balance, Executing, Rejecting, Refusing
<1> QED
  BY <1>2, <1>3

\* The number of orders at some places moves with the one order that moves.
LEMMA ExecutingMoves ==
  ASSUME IsFiniteSet(Orders), NEW o \in Orders,
         \A p \in Orders \ {o} : task'[p] = task[p] /\ submit'[p] = submit[p]
  PROVE  /\ \A pcs : /\ Cardinality(Executing(pcs)) \in Nat
                      /\ Cardinality(Executing(pcs)') = Cardinality(Executing(pcs))
                           + One(task'[o].pc \in pcs) - One(task[o].pc \in pcs)
         /\ Cardinality(Rejecting) \in Nat
         /\ Cardinality(Rejecting') = Cardinality(Rejecting)
              + One(submit'[o] \in Refusing) - One(submit[o] \in Refusing)
<1>1. ASSUME NEW pcs
      PROVE  /\ Cardinality(Executing(pcs)) \in Nat
             /\ Cardinality(Executing(pcs)') = Cardinality(Executing(pcs))
                  + One(task'[o].pc \in pcs) - One(task[o].pc \in pcs)
  <2>1. IsFiniteSet(Executing(pcs)) /\ IsFiniteSet(Executing(pcs)')
    <3>1. Executing(pcs) \subseteq Orders /\ Executing(pcs)' \subseteq Orders
      BY DEF Executing
    <3> QED
      BY <3>1, FS_Subset
  <2>2. Executing(pcs) \ {o} = Executing(pcs)' \ {o}
    BY DEF Executing
  <2>3. /\ o \in Executing(pcs) <=> task[o].pc \in pcs
        /\ o \in Executing(pcs)' <=> task'[o].pc \in pcs
    BY DEF Executing
  <2>4. /\ Cardinality(Executing(pcs)) \in Nat
        /\ Cardinality(Executing(pcs)') = Cardinality(Executing(pcs))
             + One(o \in Executing(pcs)') - One(o \in Executing(pcs))
    BY <2>1, <2>2, OneMoves
  <2> QED
    BY <2>3, <2>4 DEF One
<1>2. /\ Cardinality(Rejecting) \in Nat
      /\ Cardinality(Rejecting') = Cardinality(Rejecting)
           + One(submit'[o] \in Refusing) - One(submit[o] \in Refusing)
  <2>1. IsFiniteSet(Rejecting) /\ IsFiniteSet(Rejecting')
    <3>1. Rejecting \subseteq Orders /\ Rejecting' \subseteq Orders
      BY DEF Rejecting
    <3> QED
      BY <3>1, FS_Subset
  <2>2. Rejecting \ {o} = Rejecting' \ {o}
    BY DEF Rejecting
  <2>3. /\ o \in Rejecting <=> submit[o] \in Refusing
        /\ o \in Rejecting' <=> submit'[o] \in Refusing
    BY DEF Rejecting
  <2>4. /\ Cardinality(Rejecting) \in Nat
        /\ Cardinality(Rejecting') = Cardinality(Rejecting)
             + One(o \in Rejecting') - One(o \in Rejecting)
    BY <2>1, <2>2, OneMoves
  <2> QED
    BY <2>3, <2>4 DEF One
<1> QED
  BY <1>1, <1>2

\* The balance is kept by a step that counts what it moves.
LEMMA Rebalanced ==
  ASSUME IsFiniteSet(Orders), TypeOK, Balance, NEW o \in Orders,
         \A p \in Orders \ {o} : task'[p] = task[p] /\ submit'[p] = submit[p],
         NEW S \in SUBSET Counters,
         Count(S) \/ (S = {} /\ UNCHANGED metrics),
         One("submitted" \in S) + One(task[o].pc \in TaskSteps) =
           One(task'[o].pc \in TaskSteps) + One("fill_count" \in S)
           + One(task'[o].pc = "failed") - One(task[o].pc = "failed"),
         One("filled" \in S) = One(task'[o].pc = "filled") - One(task[o].pc = "filled"),
         One("rejected" \in S) = One(task'[o].pc = "failed") - One(task[o].pc = "failed")
           + One(submit'[o] \in Refusing) - One(submit[o] \in Refusing)
  PROVE  Balance'
<1>1. /\ metrics'["submitted"] = metrics["submitted"] + One("submitted" \in S)
      /\ metrics'["filled"] = metrics["filled"] + One("filled" \in S)
      /\ metrics'["rejected"] = metrics["rejected"] + One("rejected" \in S)
      /\ metrics'["fill_count"] = metrics["fill_count"] + One("fill_count" \in S)
      /\ metrics["submitted"] \in Nat /\ metrics["filled"] \in Nat
      /\ metrics["rejected"] \in Nat /\ metrics["fill_count"] \in Nat
  BY DEF Count, Counters, One, TypeOK
<1>2. /\ Cardinality(Executing(TaskSteps)) \in Nat
      /\ Cardinality(Executing(TaskSteps)') = Cardinality(Executing(TaskSteps))
           + One(task'[o].pc \in TaskSteps) - One(task[o].pc \in TaskSteps)
  BY ExecutingMoves
<1>3. /\ Cardinality(Executing({"failed"})) \in Nat
      /\ Cardinality(Executing({"failed"})') = Cardinality(Executing({"failed"}))
           + One(task'[o].pc = "failed") - One(task[o].pc = "failed")
  <2>1. /\ Cardinality(Executing({"failed"})) \in Nat
        /\ Cardinality(Executing({"failed"})') = Cardinality(Executing({"failed"}))
             + One(task'[o].pc \in {"failed"}) - One(task[o].pc \in {"failed"})
    BY ExecutingMoves
  <2> QED
    BY <2>1 DEF One
<1>4. /\ Cardinality(Executing({"filled"})) \in Nat
      /\ Cardinality(Executing({"filled"})') = Cardinality(Executing({"filled"}))
           + One(task'[o].pc = "filled") - One(task[o].pc = "filled")
  <2>1. /\ Cardinality(Executing({"filled"})) \in Nat
        /\ Cardinality(Executing({"filled"})') = Cardinality(Executing({"filled"}))
             + One(task'[o].pc \in {"filled"}) - One(task[o].pc \in {"filled"})
    BY ExecutingMoves
  <2> QED
    BY <2>1 DEF One
<1>5. /\ Cardinality(Rejecting) \in Nat
      /\ Cardinality(Rejecting') = Cardinality(Rejecting)
           + One(submit'[o] \in Refusing) - One(submit[o] \in Refusing)
  BY ExecutingMoves
<1>6. \A b : One(b) \in {0, 1}
  BY DEF One
<1> QED
  BY <1>1, <1>2, <1>3, <1>4, <1>5, <1>6 DEF Balance

\* A step that counts nothing and moves no order between classes keeps the balance.
LEMMA StaysBalanced ==
  ASSUME Balance, NEW o \in Orders, UNCHANGED metrics,
         \A p \in Orders \ {o} : task'[p] = task[p] /\ submit'[p] = submit[p],
         task'[o].pc \in TaskSteps <=> task[o].pc \in TaskSteps,
         task'[o].pc = "failed" <=> task[o].pc = "failed",
         task'[o].pc = "filled" <=> task[o].pc = "filled",
         submit'[o] \in Refusing <=> submit[o] \in Refusing
  PROVE  Balance'
<1>1. Executing(TaskSteps)' = Executing(TaskSteps)
  BY DEF Executing
<1>2. Executing({"failed"})' = Executing({"failed"})
  BY DEF Executing
<1>3. Executing({"filled"})' = Executing({"filled"})
  BY DEF Executing
<1>4. Rejecting' = Rejecting
  BY DEF Rejecting
<1> QED
  BY <1>1, <1>2, <1>3, <1>4 DEF Balance

\* submit_order counts an order when it refuses it or starts its task.
LEMMA SubmitCounts ==
  ASSUME IsFiniteSet(Orders), Safe, Balance, NEW o \in Orders, submit_order(o)
  PROVE  Balance'
<1> USE DEF dbVars, topicVars, processVars
<1>0. TypeOK /\ Bounded(o)
  BY DEF Safe
<1>1. \A p \in Orders \ {o} : task'[p] = task[p] /\ submit'[p] = submit[p]
  BY <1>0, SubmitIsLocal DEF Untouched
<1>2. task[o].pc = "none" /\ submit[o] # "created"
  BY <1>0 DEF submit_order, Receive, StoreRefused, AuditRefused, PublishRefused, Store,
              Cache, Announce, AuditSubmitted, Created, SubmitTo, Bounded
<1>3. CASE Receive(o)
  <2>1. submit[o] = "new" /\ UNCHANGED task
    BY <1>3 DEF Receive, SubmitTo
  <2>2. \/ submit'[o] = "store" /\ UNCHANGED metrics
        \/ submit'[o] = "refuse" /\ Count({"rejected"})
    BY <1>0, <1>3 DEF Receive, SubmitTo, TypeOK
  <2>3. CASE submit'[o] = "store" /\ UNCHANGED metrics
    BY <1>0, <1>1, <2>1, <2>3, StaysBalanced DEF Refusing
  <2>4. CASE submit'[o] = "refuse" /\ Count({"rejected"})
    BY <1>0, <1>1, <2>1, <2>4, Rebalanced DEF Refusing, One, Counters
  <2> QED
    BY <2>2, <2>3, <2>4
<1>4. CASE Created(o)
  <2>1. /\ submit[o] = "schedule" /\ submit'[o] = "created" /\ Count({"submitted"})
        /\ task'[o].pc = "start"
    BY <1>0, <1>4 DEF Created, SubmitTo, TypeOK, Task
  <2> QED
    BY <1>0, <1>1, <1>2, <2>1, Rebalanced DEF Refusing, One, Counters, TaskSteps
<1>5. CASE ~Created(o) /\ ~Receive(o)
  <2>1. UNCHANGED <<metrics, task>>
    BY <1>5 DEF submit_order, StoreRefused, AuditRefused, PublishRefused, Store, Cache,
                Announce, AuditSubmitted
  <2>2. submit'[o] \in Refusing <=> submit[o] \in Refusing
    BY <1>0, <1>5 DEF submit_order, StoreRefused, AuditRefused, PublishRefused, Store,
                      Cache, Announce, AuditSubmitted, SubmitTo, TypeOK, Refusing
  <2> QED
    BY <1>0, <1>1, <2>1, <2>2, StaysBalanced
<1> QED
  BY <1>3, <1>4, <1>5

\* execute_order moves an order and its counters together.
LEMMA ExecuteCounts ==
  ASSUME IsFiniteSet(Orders), Safe, Balance, NEW o \in Orders, execute_order(o)
  PROVE  Balance'
<1> USE DEF dbVars, topicVars, processVars
<1>0. TypeOK
  BY DEF Safe
<1>1. /\ UNCHANGED submit
      /\ \A p \in Orders \ {o} : task'[p] = task[p] /\ submit'[p] = submit[p]
  BY <1>0, ExecuteIsLocal DEF Untouched
<1>3. CASE FillPublish(o)
  <2>1. TaskTo(o, "fill_publish", "filled") /\ Count({"filled", "fill_count"})
    BY <1>3 DEF FillPublish, TaskPublish
  <2>2. task[o].pc = "fill_publish" /\ task'[o].pc = "filled"
    BY <1>0, <2>1, TaskToFacts
  <2> QED
    BY <1>0, <1>1, <2>1, <2>2, Rebalanced DEF Counters, TaskSteps, One
<1>4. CASE OpenPublish(o)
  <2>1. TaskTo(o, "open_publish", "open") /\ Count({"fill_count"})
    BY <1>4 DEF OpenPublish, TaskPublish
  <2>2. task[o].pc = "open_publish" /\ task'[o].pc = "open"
    BY <1>0, <2>1, TaskToFacts
  <2> QED
    BY <1>0, <1>1, <2>1, <2>2, Rebalanced DEF Counters, TaskSteps, One
<1>5. CASE ErrorPublish(o)
  <2>1. TaskTo(o, "error_publish", "failed") /\ Count({"rejected"})
    BY <1>5 DEF ErrorPublish, TaskPublish
  <2>2. task[o].pc = "error_publish" /\ task'[o].pc = "failed"
    BY <1>0, <2>1, TaskToFacts
  <2> QED
    BY <1>0, <1>1, <2>1, <2>2, Rebalanced DEF Counters, TaskSteps, One
<1>6. CASE ~FillPublish(o) /\ ~OpenPublish(o) /\ ~ErrorPublish(o)
  <2>1. UNCHANGED metrics
    BY <1>6 DEF execute_order, Begin, ErrorStatus, ErrorAudit, AcceptAudit, Accept,
                AcceptPublish, SplitAudit, InsertTrade, ReportTrade, Fill, FillAudit,
                OpenAudit, TaskAudit, TaskStatus
  <2>2. task[o].pc \in TaskSteps /\ task'[o].pc \in TaskSteps
    <3>1. ASSUME NEW from \in TaskSteps, NEW to \in TaskSteps, TaskTo(o, from, to)
          PROVE  task[o].pc \in TaskSteps /\ task'[o].pc \in TaskSteps
      BY <1>0, <3>1, TaskToFacts
    <3>2. CASE SplitAudit(o) \/ InsertTrade(o)
      BY <1>0, <3>2 DEF SplitAudit, InsertTrade, TypeOK, TaskSteps
    <3>3. CASE ~SplitAudit(o) /\ ~InsertTrade(o)
      BY <1>6, <3>1, <3>3
         DEF execute_order, Begin, ErrorStatus, ErrorAudit, AcceptAudit, Accept,
             AcceptPublish, ReportTrade, HasMore, Fill, FillAudit, OpenAudit, TaskAudit,
             TaskStatus, TaskPublish, TaskSteps
    <3> QED
      BY <3>2, <3>3
  <2>3. \A pc \in TaskSteps : pc # "failed" /\ pc # "filled"
    BY DEF TaskSteps
  <2> QED
    BY <1>0, <1>1, <2>1, <2>2, <2>3, StaysBalanced
<1> QED
  BY <1>3, <1>4, <1>5, <1>6

\* While the process lives, its counters account for every order it has taken, for
\* every finite set of orders and whatever fails.
THEOREM CountersAlwaysAddUp ==
  ASSUME IsFiniteSet(Orders) PROVE Spec => []CountersAddUp
<1> USE DEF dbVars, topicVars, processVars
<1>1. Init => CountersAddUp
  <2> SUFFICES ASSUME Init PROVE CountersAddUp
    OBVIOUS
  <2>1. /\ Executing(TaskSteps) = {} /\ Executing({"failed"}) = {}
        /\ Executing({"filled"}) = {} /\ Rejecting = {}
    BY DEF Init, NoTask, Executing, Rejecting, Refusing, TaskSteps
  <2>2. Cardinality({}) = 0
    BY FS_EmptySet
  <2>3. \A c \in Counters : metrics[c] = 0
    BY DEF Init, ZeroMetrics
  <2>4. Balance
    BY <2>1, <2>2, <2>3 DEF Balance, Counters
  <2> QED
    BY <2>4, CountersBalance DEF CountersAddUp
<1>2. ASSUME Safe, CountersAddUp, [Next]_vars PROVE CountersAddUp'
  <2>1. CASE Crashes
    BY <2>1 DEF CountersAddUp
  <2>2. CASE ~Crashes
    <3>1. ASSUME UNCHANGED <<metrics, submit, task>> PROVE CountersAddUp'
      BY <1>2, <3>1 DEF CountersAddUp, Tasks
    <3>2. ASSUME NEW r \in Requests, Send(r) \/ handle_request(r)
          PROVE  UNCHANGED <<metrics, submit, task>>
      BY <3>2 DEF Send, handle_request, Read, Write, AuditRequest, PublishRequest,
                  PublishTo, Invalidate, RequestTo
    <3>3. ASSUME NEW o \in Orders, Expire(o) PROVE UNCHANGED <<metrics, submit, task>>
      BY <3>3 DEF Expire
    <3>4. CASE lifespan \/ UNCHANGED vars
      BY <3>1, <3>4 DEF lifespan, vars
    <3>5. ~Crash
      BY <2>2 DEF Crash
    <3> QED
      BY <1>2, <2>2, <3>1, <3>2, <3>3, <3>4, <3>5, SubmitCounts, ExecuteCounts,
         CountersBalance DEF Next
  <2> QED
    BY <2>1, <2>2
<1> QED
  BY <1>1, <1>2, AlwaysSafe, PTL DEF Spec
=============================================================================
