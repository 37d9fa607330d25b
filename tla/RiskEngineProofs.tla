--------------------------- MODULE RiskEngineProofs ---------------------------
(***************************************************************************)
(* The check of an order and the revaluation loop of the risk engine never *)
(* judge a client differently, for every set of clients, books, limits and *)
(* orders, and whatever calls fail.                                        *)
(*                                                                         *)
(* A book changes in two places: when a client appears, of whom nothing is *)
(* published or answered yet, and when the loop revalues the client, which *)
(* takes the snapshot in the same stretch.  The invariant ties the         *)
(* snapshot, the margin call and the approvals of a client to the book, so *)
(* that they agree among themselves.                                       *)
(*                                                                         *)
(* Where the loop stands tells which calls about the client in hand are    *)
(* behind it: each of them has published what the book implies, or raised. *)
(***************************************************************************)
EXTENDS RiskEngine, TLAPS

MarginCall == <<"margin_call", None>>

Types ==
  /\ book \in [Names -> {NoBook} \cup {b \in Book : b.limit > 0}]
  /\ snapshots \in [Names -> Nat]
  /\ DOMAIN alerts = Names
  /\ DOMAIN verdicts = Names
  /\ todo \subseteq Known

SnapshotFits(c) ==
  snapshots[c] # 0 => c \in Known /\ Exposure(book[c]) = snapshots[c]
MarginCallFits(c) ==
  MarginCall \in alerts[c] => c \in Known /\ Exposure(book[c]) > book[c].limit
VerdictFits(c) ==
  "approved" \in verdicts[c] => c \in Known /\ Exposure(book[c]) <= book[c].limit

Fits(c) == SnapshotFits(c) /\ MarginCallFits(c) /\ VerdictFits(c)

IInv == Types /\ (\A c \in Names : Fits(c)) /\ PassesComplete

\* A book in use has an exposure.
LEMMA ExposureType == \A b \in Book : Exposure(b) \in Nat \ {0}
  BY BoundAssumption DEF Exposure, Book

\* What _ensure_client draws is a book with a limit.
LEMMA DrawnBook == \A b \in Books : b \in Book /\ b.limit > 0 /\ b # NoBook
<1> SUFFICES ASSUME NEW b \in Books PROVE b \in Book /\ b.limit > 0 /\ b # NoBook
  OBVIOUS
<1>1. b \in Book /\ 3 * Exposure(b) - 1 <= 2 * b.limit
  BY BookAssumption
<1>2. Exposure(b) \in Nat \ {0} /\ b.limit \in Nat
  BY <1>1, ExposureType DEF Book
<1>3. \A e \in Nat \ {0}, l \in Nat : 3 * e - 1 <= 2 * l => l > 0
  OBVIOUS
<1>4. b.limit > 0
  BY <1>1, <1>2, <1>3
<1> QED
  BY <1>1, <1>4 DEF NoBook

\* A client is known if and only if it has a book with a limit.
LEMMA KnownBook ==
  ASSUME Types
  PROVE  /\ Known \subseteq Names
         /\ \A c \in Known : book[c] \in Book /\ book[c].limit > 0
                             /\ book[c].limit \in Nat /\ Exposure(book[c]) \in Nat \ {0}
<1>1. \A c \in Known : book[c] \in Book /\ book[c].limit > 0
  BY DEF Types, Known
<1> QED
  BY <1>1, ExposureType DEF Known, Book

\* A client that is known stays so, and its book does; one that is not may get one.
LEMMA EnsureClient ==
  ASSUME Types, NEW c \in Names, _ensure_client(c)
  PROVE  /\ book' \in [Names -> {NoBook} \cup {b \in Book : b.limit > 0}]
         /\ \A d \in Known : d \in Known' /\ book'[d] = book[d]
         /\ c \in Known'
<1>1. CASE c \in Known
  BY <1>1 DEF _ensure_client, Types, Known
<1>2. CASE c \notin Known
  <2>1. PICK b \in Books : book' = [book EXCEPT ![c] = b]
    BY <1>2 DEF _ensure_client
  <2>2. b \in Book /\ b.limit > 0 /\ b # NoBook
    BY DrawnBook
  <2> QED
    BY <1>2, <2>1, <2>2 DEF Types, Known
<1> QED
  BY <1>1, <1>2

\* What holds of the known clients outlives the appearance of another.
LEMMA AppearanceFits ==
  ASSUME Types, NEW c \in Names, _ensure_client(c), Fits(c)', UNCHANGED <<todo, snapshots, alerts>>,
         \A d \in Names : Fits(d),
         DOMAIN verdicts' = Names, \A d \in Names \ {c} : verdicts'[d] = verdicts[d]
  PROVE  Types' /\ \A d \in Names : Fits(d)'
<1>1. /\ book' \in [Names -> {NoBook} \cup {b \in Book : b.limit > 0}]
      /\ \A d \in Known : d \in Known' /\ book'[d] = book[d]
  BY EnsureClient
<1>2. Types'
  BY <1>1 DEF Types
<1>3. ASSUME NEW d \in Names \ {c} PROVE Fits(d)'
  <2>1. CASE d \in Known
    <3>1. book'[d] = book[d] /\ d \in Known'
      BY <1>1, <2>1
    <3> QED
      BY <3>1, <1>3 DEF Fits, SnapshotFits, MarginCallFits, VerdictFits
  <2>2. CASE d \notin Known
    <3>1. snapshots[d] = 0 /\ MarginCall \notin alerts[d] /\ "approved" \notin verdicts[d]
      BY <1>3, <2>2 DEF Fits, SnapshotFits, MarginCallFits, VerdictFits
    <3> QED
      BY <3>1, <1>3 DEF Fits, SnapshotFits, MarginCallFits, VerdictFits
  <2> QED
    BY <2>1, <2>2
<1> QED
  BY <1>2, <1>3

\* Who appears has nothing that would have to fit.
LEMMA SummaryFits ==
  ASSUME IInv, NEW c \in Names, client_risk_summary(c)
  PROVE  IInv'
<1>1. c \notin Known /\ _ensure_client(c) /\ Fits(c) /\ Types
  BY DEF client_risk_summary, IInv
<1>2. UNCHANGED <<snapshots, alerts, verdicts, todo, pc>>
  BY DEF client_risk_summary, loopVars
<1>3. snapshots[c] = 0 /\ MarginCall \notin alerts[c] /\ "approved" \notin verdicts[c]
  BY <1>1 DEF Fits, SnapshotFits, MarginCallFits, VerdictFits
<1>4. Fits(c)'
  BY <1>2, <1>3 DEF Fits, SnapshotFits, MarginCallFits, VerdictFits
<1>5. Types' /\ \A d \in Names : Fits(d)'
  BY <1>1, <1>2, <1>4, AppearanceFits DEF IInv, Types
<1>6. PassesComplete'
  BY <1>2 DEF IInv, PassesComplete
<1> QED
  BY <1>5, <1>6 DEF IInv

\* An order that is approved keeps the client within the limit, and its value is
\* not negative: the client was within it before.
LEMMA ApprovedWithinLimit ==
  ASSUME NEW b \in Book, NEW side, NEW s, NEW n \in Notionals, Approves(b, side, s, n)
  PROVE  Exposure(b) <= b.limit
<1>1. Exposure(b) \in Nat /\ b.limit \in Nat /\ n \in Nat
  BY ExposureType, NotionalAssumption DEF Book
<1>2. NewExposure(b, side, n) <= b.limit
  BY DEF Approves
<1> QED
  BY <1>1, <1>2 DEF NewExposure

\* A check approves within the limit of the book there is.
LEMMA CheckFits ==
  ASSUME IInv, NEW c \in Names, NEW side, NEW s, NEW n \in Notionals,
         risk_check(c, side, s, n)
  PROVE  IInv'
<1>1. _ensure_client(c) /\ Fits(c) /\ Types
  BY DEF risk_check, IInv
<1>2. UNCHANGED <<snapshots, alerts, todo, pc>>
  BY DEF risk_check, loopVars
<1>3. verdicts' = [verdicts EXCEPT ![c] =
        @ \cup {IF Approves(book'[c], side, s, n) THEN "approved" ELSE "refused"}]
  BY DEF risk_check
<1>4. c \in Known' /\ \A d \in Known : book'[d] = book[d]
  BY <1>1, EnsureClient
<1>5. book'[c] \in Book
  BY <1>1, <1>4, EnsureClient DEF Known
<1>6. VerdictFits(c)'
  <2> SUFFICES ASSUME "approved" \in verdicts'[c]
               PROVE  Exposure(book'[c]) <= book'[c].limit
    BY <1>4 DEF VerdictFits
  <2>1. CASE "approved" \in verdicts[c]
    BY <1>1, <1>4, <2>1 DEF Fits, VerdictFits
  <2>2. CASE "approved" \notin verdicts[c]
    <3>1. Approves(book'[c], side, s, n)
      BY <1>1, <1>3, <2>2 DEF Types
    <3> QED
      BY <1>5, <3>1, ApprovedWithinLimit
  <2> QED
    BY <2>1, <2>2
<1>7. SnapshotFits(c)' /\ MarginCallFits(c)'
  BY <1>1, <1>2, <1>4 DEF Fits, SnapshotFits, MarginCallFits
<1>8. DOMAIN verdicts' = Names /\ \A d \in Names \ {c} : verdicts'[d] = verdicts[d]
  BY <1>1, <1>3 DEF Types
<1>9. Types' /\ \A d \in Names : Fits(d)'
  BY <1>1, <1>2, <1>6, <1>7, <1>8, AppearanceFits DEF Fits, IInv
<1>10. PassesComplete'
  BY <1>2 DEF IInv, PassesComplete
<1> QED
  BY <1>9, <1>10 DEF IInv

\* The loop takes the snapshot of the book as it leaves it, and starts afresh.
LEMMA RevalueFits ==
  ASSUME IInv, NEW c \in Names, NEW clients, clients \subseteq Known, Revalue(c, clients)
  PROVE  IInv'
<1>1. Types /\ c \in Known
  BY DEF IInv, Revalue
<1>2. PICK b \in Drifted(book[c]) :
        /\ book' = [book EXCEPT ![c] = b]
        /\ snapshots' = [snapshots EXCEPT ![c] = Exposure(b)]
  BY DEF Revalue
<1>3. book[c] \in Book /\ book[c].limit > 0
  BY <1>1, KnownBook
<1>4. b \in Book /\ b.limit > 0
  BY <1>2, <1>3 DEF Drifted, Book
<1>5. b # NoBook /\ Exposure(b) \in Nat
  BY <1>4, ExposureType DEF NoBook
<1>6. /\ alerts' = [alerts EXCEPT ![c] = {}]
      /\ verdicts' = [verdicts EXCEPT ![c] = {}]
      /\ todo' = clients \ {c} /\ pc' = "update"
  BY DEF Revalue, Forget
<1>7. Known' = Known
  BY <1>1, <1>2, <1>5 DEF Known, Types
<1>8. Types'
  BY <1>1, <1>2, <1>4, <1>5, <1>6, <1>7 DEF Types
<1>9. ASSUME NEW d \in Names PROVE Fits(d)'
  <2>1. CASE d = c
    BY <1>1, <1>2, <1>6, <1>7, <2>1 DEF Fits, SnapshotFits, MarginCallFits, VerdictFits, Types
  <2>2. CASE d # c
    <3>1. /\ snapshots'[d] = snapshots[d] /\ book'[d] = book[d]
          /\ alerts'[d] = alerts[d] /\ verdicts'[d] = verdicts[d]
      BY <1>1, <1>2, <1>6, <2>2 DEF Types
    <3> QED
      BY <1>7, <3>1 DEF IInv, Fits, SnapshotFits, MarginCallFits, VerdictFits
  <2> QED
    BY <2>1, <2>2
<1>10. PassesComplete'
  BY <1>6 DEF PassesComplete
<1> QED
  BY <1>8, <1>9, <1>10 DEF IInv

\* A margin call goes out for the snapshot, which is the exposure of the book.
LEMMA ResumeFits ==
  ASSUME IInv, NEW from, NEW to, Resume(from, to), to = "asleep" => todo = {},
         \/ alerts' = alerts
         \/ \E a : /\ alerts' = [alerts EXCEPT ![at] = @ \cup {a}]
                   /\ a = MarginCall => snapshots[at] > book[at].limit
  PROVE  IInv'
<1>1. Types /\ UNCHANGED <<book, verdicts, snapshots, todo>> /\ pc' = to
  BY DEF IInv, Resume, engineVars
<1>2. Known' = Known
  BY <1>1 DEF Known
<1>3. Types'
  BY <1>1, <1>2 DEF Types
<1>4. ASSUME NEW c \in Names PROVE Fits(c)'
  <2>1. Fits(c)
    BY DEF IInv
  <2>2. MarginCallFits(c)'
    <3>1. CASE MarginCall \in alerts[c]
      BY <1>1, <1>2, <2>1, <3>1 DEF Fits, MarginCallFits
    <3>2. CASE MarginCall \notin alerts[c] /\ MarginCall \in alerts'[c]
      <4>1. c = at /\ snapshots[c] > book[c].limit
        BY <1>1, <3>2 DEF Types
      <4>2. snapshots[c] \in Nat
        BY <1>1 DEF Types
      <4>3. book[c].limit \in Nat
        BY <1>1 DEF Types, Book, NoBook
      <4>4. snapshots[c] # 0
        BY <4>1, <4>2, <4>3
      <4> QED
        BY <1>1, <1>2, <2>1, <4>1, <4>4 DEF Fits, SnapshotFits, MarginCallFits
    <3> QED
      BY <3>1, <3>2 DEF MarginCallFits
  <2> QED
    BY <1>1, <1>2, <2>1, <2>2 DEF Fits, SnapshotFits, VerdictFits
<1>5. PassesComplete'
  BY <1>1 DEF PassesComplete
<1> QED
  BY <1>3, <1>4, <1>5 DEF IInv

\* An alert is published or not; only the one of the limit may be a margin call.
LEMMA AlertFits ==
  ASSUME IInv, NEW from, NEW to, NEW due, NEW a, Alert(from, to, due, a),
         to # "asleep", due /\ a = MarginCall => snapshots[at] > book[at].limit
  PROVE  IInv'
<1>1. Resume(from, to)
  BY DEF Alert
<1>2. \/ alerts' = alerts
      \/ due /\ alerts' = [alerts EXCEPT ![at] = @ \cup {a}]
  BY DEF Alert, _publish_alert
<1> QED
  BY <1>1, <1>2, ResumeFits

\* Every step of the loop keeps the invariant.
LEMMA LoopFits == IInv /\ _var_recalc_loop => IInv'
<1> SUFFICES ASSUME IInv, _var_recalc_loop PROVE IInv'
  OBVIOUS
<1>1. ASSUME NEW c \in Names, StartPass(c) PROVE IInv'
  BY <1>1, RevalueFits DEF StartPass
<1>2. ASSUME NEW c \in Names, NextClient(c) PROVE IInv'
  BY <1>2, RevalueFits DEF NextClient, IInv, Types
<1>3. CASE PublishUpdate
  BY <1>3, ResumeFits DEF PublishUpdate
<1>4. CASE _store_snapshot
  BY <1>4, ResumeFits DEF _store_snapshot
<1>5. CASE CheckLimit
  <2> DEFINE over == snapshots[at] > book[at].limit
             a == IF over THEN <<"margin_call", None>> ELSE <<"exposure_warning", None>>
  <2>1. Alert("limit", "spoof", 10 * snapshots[at] > 9 * book[at].limit, a)
    BY <1>5 DEF CheckLimit
  <2>2. a = MarginCall => over
    BY DEF MarginCall
  <2> QED
    BY <2>1, <2>2, AlertFits
<1>6. CASE CheckSpoofing
  <2>1. Alert("spoof", "sector", _detect_spoofing(at), <<"spoofing", None>>)
    BY <1>6 DEF CheckSpoofing
  <2>2. <<"spoofing", None>> # MarginCall
    BY DEF MarginCall
  <2> QED
    BY <2>1, <2>2, AlertFits
<1>7. ASSUME NEW s \in Sectors, CheckSector(s) PROVE IInv'
  <2>1. ConcentrationOf(s) # MarginCall
    BY DEF ConcentrationOf, MarginCall
  <2> QED
    BY <1>7, <2>1, AlertFits DEF CheckSector
<1>8. CASE Done
  BY <1>8, ResumeFits DEF Done
<1> QED
  BY <1>1, <1>2, <1>3, <1>4, <1>5, <1>6, <1>7, <1>8 DEF _var_recalc_loop

\* Steps of the order service and of time touch no book.
LEMMA ElsewhereFits ==
  ASSUME IInv, UNCHANGED <<book, snapshots, alerts, verdicts, todo, pc>>
  PROVE  IInv'
  BY DEF IInv, Types, Known, Fits, SnapshotFits, MarginCallFits, VerdictFits, PassesComplete

\* When the engine starts nothing has been published or answered.
LEMMA IInvInit == Init => IInv
<1> SUFFICES ASSUME Init PROVE IInv
  OBVIOUS
<1>1. book \in [Names -> {NoBook} \cup {b \in Book : b.limit > 0}]
  BY DrawnBook DEF Init
<1> QED
  BY <1>1 DEF Init, IInv, Types, Fits, SnapshotFits, MarginCallFits, VerdictFits, PassesComplete

\* The inductive invariant of the risk engine.
THEOREM EngineInvariant == Spec => []IInv
<1>1. ASSUME IInv, Next PROVE IInv'
  <2>1. ASSUME NEW c \in Names, client_risk_summary(c) PROVE IInv'
    BY <1>1, <2>1, SummaryFits
  <2>2. ASSUME NEW c \in Traders, NEW side \in Sides, NEW s \in OrderSectors,
               NEW n \in Notionals, risk_check(c, side, s, n)
        PROVE  IInv'
    BY <1>1, <2>2, CheckFits, NameAssumption
  <2>3. CASE _var_recalc_loop
    BY <1>1, <2>3, LoopFits
  <2>4. ASSUME NEW c \in Traders,
               check_risk(c) \/ cancel_order(c) \/ amend_order(c) \/ Age(c)
        PROVE  IInv'
    BY <1>1, <2>4, ElsewhereFits
       DEF check_risk, cancel_order, amend_order, Age, engineVars, loopVars
  <2> QED
    BY <1>1, <2>1, <2>2, <2>3, <2>4 DEF Next
<1>2. ASSUME IInv, UNCHANGED vars PROVE IInv'
  BY <1>2, ElsewhereFits DEF vars
<1> QED
  BY IInvInit, <1>1, <1>2, PTL DEF Spec

\* Whatever is read of a client between two revaluations is what the last
\* snapshot says, for every number of clients and sectors.
THEOREM SnapshotsAreCurrent == Spec => []SnapshotIsCurrent
<1>1. IInv => SnapshotIsCurrent
  BY DEF IInv, Fits, SnapshotFits, SnapshotIsCurrent
<1> QED
  BY EngineInvariant, <1>1, PTL

\* No order of a client whose margin call stands is approved, whatever its side,
\* value and sector.
THEOREM MarginCallsBlock == Spec => []MarginCallBlocks
<1>1. IInv => MarginCallBlocks
  <2> SUFFICES ASSUME IInv, NEW c \in Names, MarginCall \in alerts[c],
                      "approved" \in verdicts[c]
               PROVE  FALSE
    BY DEF MarginCallBlocks, MarginCall
  <2>1. c \in Known /\ Exposure(book[c]) > book[c].limit /\ Exposure(book[c]) <= book[c].limit
    BY DEF IInv, Fits, MarginCallFits, VerdictFits
  <2>2. Exposure(book[c]) \in Nat /\ book[c].limit \in Nat
    BY <2>1, KnownBook DEF IInv
  <2> QED
    BY <2>1, <2>2
<1> QED
  BY EngineInvariant, <1>1, PTL

\* A pass that has ended has dealt with every client of its list.
THEOREM PassesAreComplete == Spec => []PassesComplete
<1>1. IInv => PassesComplete
  BY DEF IInv
<1> QED
  BY EngineInvariant, <1>1, PTL

-----------------------------------------------------------------------------
(* Types *)

\* A call of the loop records its outcome for the client at hand.
LEMMA WarnTypes ==
  ASSUME TypeOK, NEW call \in {"update", "store", "alert"}, NEW outcome, Warn(call, outcome)
  PROVE  failed' \in [Names -> SUBSET {"update", "store", "alert"}]
  BY DEF TypeOK, Warn

\* An alert is one of the list.
LEMMA AlertTypes ==
  ASSUME TypeOK, NEW from, NEW due, NEW a \in Alerts,
         NEW to \in {"asleep", "next", "update", "store", "limit", "spoof", "sector"},
         Alert(from, to, due, a), sectors' \subseteq Sectors
  PROVE  TypeOK'
<1>1. /\ pc' = to
      /\ UNCHANGED <<book, history, verdicts, snapshots, todo, at, traded, updates, stored>>
  BY DEF Alert, Resume, engineVars
<1>2. failed' \in [Names -> SUBSET {"update", "store", "alert"}]
  <2>1. CASE failed' = failed
    BY <2>1 DEF TypeOK
  <2>2. ASSUME NEW out, Warn("alert", out)
        PROVE  failed' \in [Names -> SUBSET {"update", "store", "alert"}]
    BY <2>2, WarnTypes
  <2> QED
    BY <2>1, <2>2 DEF Alert, _publish_alert
<1>3. alerts' \in [Names -> SUBSET Alerts]
  <2>1. alerts' = alerts \/ alerts' = [alerts EXCEPT ![at] = @ \cup {a}]
    BY DEF Alert, _publish_alert
  <2> QED
    BY <2>1 DEF TypeOK
<1> QED
  BY <1>1, <1>2, <1>3 DEF TypeOK, Known

\* A revaluation moves the book of a known client.
LEMMA RevalueTypes ==
  ASSUME IInv, TypeOK, NEW c \in Names, NEW clients, clients \subseteq Known,
         Revalue(c, clients), IInv'
  PROVE  TypeOK'
<1>1. PICK b \in Drifted(book[c]) :
        /\ book' = [book EXCEPT ![c] = b]
        /\ snapshots' = [snapshots EXCEPT ![c] = Exposure(b)]
  BY DEF Revalue
<1>2. c \in Known /\ book[c] \in Book
  BY KnownBook DEF Revalue, IInv
<1>3. b \in Book
  BY <1>1, <1>2 DEF Drifted, Book
<1>4. Exposure(b) \in Nat /\ b # NoBook
  <2>1. Exposure(b) \in Nat \ {0}
    BY <1>3, ExposureType
  <2>2. book'[c] = b /\ c \in Known'
    <3>1. book'[c] = b
      BY <1>1 DEF TypeOK
    <3>2. snapshots'[c] = Exposure(b)
      BY <1>1 DEF TypeOK
    <3> QED
      BY <2>1, <3>1, <3>2 DEF IInv, Fits, SnapshotFits
  <2> QED
    BY <2>1, <2>2 DEF Known
<1>5. /\ book' \in [Names -> Book \cup {NoBook}] /\ snapshots' \in [Names -> Nat]
      /\ Known' = Known
  BY <1>1, <1>2, <1>3, <1>4 DEF TypeOK, Known
<1>6. /\ failed' \in [Names -> SUBSET {"update", "store", "alert"}]
      /\ verdicts' \in [Names -> SUBSET Answers]
      /\ updates' \in [Names -> Nat] /\ stored' \in [Names -> Nat]
      /\ alerts' \in [Names -> SUBSET Alerts]
  BY DEF Revalue, Forget, TypeOK
<1>7. at' \in Known' /\ todo' \subseteq Known' /\ pc' = "update"
  BY <1>2, <1>5 DEF Revalue
<1> QED
  BY <1>5, <1>6, <1>7 DEF Revalue, TypeOK

\* A request adds to the history of its client, and perhaps a client.
LEMMA RequestTypes ==
  ASSUME IInv, TypeOK, NEW c \in Names,
         \/ client_risk_summary(c)
         \/ \E side, s, n : risk_check(c, side, s, n)
  PROVE  TypeOK'
<1>1. _ensure_client(c) /\ UNCHANGED <<loopVars, traded>>
  BY DEF client_risk_summary, risk_check
<1>2. /\ book' \in [Names -> {NoBook} \cup {b \in Book : b.limit > 0}]
      /\ \A d \in Known : d \in Known'
  BY <1>1, EnsureClient DEF IInv
<1>3. history' \in [Names -> [Actions -> 0 .. MaxRecent]]
  <2>1. CASE history' = history
    BY <2>1 DEF TypeOK
  <2>2. CASE /\ history[c]["new"] < MaxRecent
             /\ history' = [history EXCEPT ![c]["new"] = @ + 1]
    <3>1. history[c] \in [Actions -> 0 .. MaxRecent] /\ "new" \in Actions /\ MaxRecent \in Nat
      BY BoundAssumption DEF TypeOK, Actions
    <3>2. [history[c] EXCEPT !["new"] = @ + 1] \in [Actions -> 0 .. MaxRecent]
      BY <2>2, <3>1
    <3> QED
      BY <2>2, <3>2 DEF TypeOK
  <2> QED
    BY <2>1, <2>2 DEF client_risk_summary, risk_check
<1>4. verdicts' \in [Names -> SUBSET Answers]
  <2>1. \/ verdicts' = verdicts
        \/ verdicts' = [verdicts EXCEPT ![c] = @ \cup {"approved"}]
        \/ verdicts' = [verdicts EXCEPT ![c] = @ \cup {"refused"}]
    BY DEF client_risk_summary, risk_check
  <2>2. verdicts \in [Names -> SUBSET Answers] /\ {"approved", "refused"} \subseteq Answers
    BY DEF TypeOK, Answers
  <2>3. \A a \in Answers : [verdicts EXCEPT ![c] = @ \cup {a}] \in [Names -> SUBSET Answers]
    BY <2>2
  <2> QED
    BY <2>1, <2>2, <2>3
<1> QED
  BY <1>1, <1>2, <1>3, <1>4 DEF loopVars, TypeOK

\* What clients do at the order service is counted up to the bound.
LEMMA TradedTypes ==
  ASSUME TypeOK, NEW c \in Names, NEW action \in Actions, Did(c, action),
         UNCHANGED <<engineVars, loopVars>>
  PROVE  TypeOK'
<1>1. traded[c] \in [Actions -> 0 .. MaxRecent] /\ MaxRecent \in Nat
  BY BoundAssumption DEF TypeOK
<1>2. traded[c][action] < MaxRecent
  <2>1. /\ traded[c]["new"] \in Nat /\ traded[c]["cancel"] \in Nat
        /\ traded[c]["replace"] \in Nat
    BY <1>1 DEF Actions
  <2>2. traded[c]["new"] + traded[c]["cancel"] + traded[c]["replace"] < MaxRecent
    BY DEF Did
  <2> QED
    BY <1>1, <2>1, <2>2 DEF Actions
<1>3. [traded[c] EXCEPT ![action] = @ + 1] \in [Actions -> 0 .. MaxRecent]
  BY <1>1, <1>2
<1>4. traded' \in [Names -> [Actions -> 0 .. MaxRecent]]
  BY <1>3 DEF Did, TypeOK
<1> QED
  BY <1>4 DEF engineVars, loopVars, TypeOK, Known

\* Every step keeps the types.
LEMMA TypesStep == IInv /\ IInv' /\ TypeOK /\ [Next]_vars => TypeOK'
<1> SUFFICES ASSUME IInv, IInv', TypeOK, [Next]_vars PROVE TypeOK'
  OBVIOUS
<1>1. ASSUME NEW c \in Names, client_risk_summary(c) PROVE TypeOK'
  BY <1>1, RequestTypes
<1>2. ASSUME NEW c \in Traders, NEW side \in Sides, NEW s \in OrderSectors,
             NEW n \in Notionals, risk_check(c, side, s, n)
      PROVE  TypeOK'
  BY <1>2, RequestTypes, NameAssumption
<1>3. ASSUME NEW c \in Names, StartPass(c) \/ NextClient(c) PROVE TypeOK'
  BY <1>3, RevalueTypes DEF StartPass, NextClient, IInv, Types
<1>4. CASE PublishUpdate \/ _store_snapshot
  <2>1. failed' \in [Names -> SUBSET {"update", "store", "alert"}]
    BY <1>4, WarnTypes DEF PublishUpdate, _store_snapshot
  <2>2. pc' \in {"store", "limit"} /\ updates' \in [Names -> Nat] /\ stored' \in [Names -> Nat]
    <3>1. at \in Names => snapshots[at] \in Nat
      BY DEF TypeOK
    <3>2. \/ updates' = updates
          \/ updates' = [updates EXCEPT ![at] = snapshots[at]]
      BY <1>4 DEF PublishUpdate, _store_snapshot
    <3>3. \/ stored' = stored
          \/ stored' = [stored EXCEPT ![at] = snapshots[at]]
      BY <1>4 DEF PublishUpdate, _store_snapshot
    <3> QED
      BY <1>4, <3>1, <3>2, <3>3 DEF PublishUpdate, _store_snapshot, Resume, TypeOK
  <2>3. UNCHANGED <<book, history, verdicts, snapshots, todo, at, traded, sectors, alerts>>
    BY <1>4 DEF PublishUpdate, _store_snapshot, Resume, engineVars
  <2> QED
    BY <2>1, <2>2, <2>3 DEF TypeOK, Known
<1>5. CASE CheckLimit
  <2>1. <<"margin_call", None>> \in Alerts /\ <<"exposure_warning", None>> \in Alerts
    BY DEF Alerts, Warnings
  <2> QED
    BY <1>5, <2>1, AlertTypes DEF CheckLimit, TypeOK
<1>6. CASE CheckSpoofing
  <2>1. <<"spoofing", None>> \in Alerts
    BY DEF Alerts, Warnings
  <2>2. sectors' \subseteq Sectors
    BY <1>6 DEF CheckSpoofing, Concentrated
  <2> QED
    BY <1>6, <2>1, <2>2, AlertTypes DEF CheckSpoofing
<1>7. ASSUME NEW s \in Sectors, CheckSector(s) PROVE TypeOK'
  <2>1. ConcentrationOf(s) \in Alerts /\ sectors' \subseteq Sectors
    BY <1>7 DEF Alerts, CheckSector, TypeOK
  <2> QED
    BY <1>7, <2>1, AlertTypes DEF CheckSector
<1>8. CASE Done
  BY <1>8 DEF Done, Resume, engineVars, TypeOK, Known
<1>9. ASSUME NEW c \in Traders, check_risk(c) \/ cancel_order(c) \/ amend_order(c)
      PROVE  TypeOK'
  BY <1>9, TradedTypes, NameAssumption
     DEF check_risk, cancel_order, amend_order, Actions
<1>10. ASSUME NEW c \in Traders, Age(c) PROVE TypeOK'
  <2>1. Quiet \in [Actions -> 0 .. MaxRecent]
    BY BoundAssumption DEF Quiet
  <2> QED
    BY <1>10, <2>1 DEF Age, loopVars, TypeOK, Known
<1>11. CASE UNCHANGED vars
  BY <1>11 DEF vars, TypeOK, Known
<1> QED
  BY <1>1, <1>2, <1>3, <1>4, <1>5, <1>6, <1>7, <1>8, <1>9, <1>10, <1>11
     DEF Next, _var_recalc_loop

\* The loop is at a client the engine knows, it has known ones left, and what is
\* published are known alerts and values: for every set of clients and sectors.
THEOREM EngineTypes == Spec => []TypeOK
<1>1. Init => TypeOK
  <2> SUFFICES ASSUME Init PROVE TypeOK
    OBVIOUS
  <2>1. \A b \in Books : b \in Book
    BY DrawnBook
  <2>2. Quiet \in [Actions -> 0 .. MaxRecent]
    BY BoundAssumption DEF Quiet
  <2> QED
    BY <2>1, <2>2 DEF Init, TypeOK
<1> QED
  BY <1>1, TypesStep, EngineInvariant, PTL DEF Spec

-----------------------------------------------------------------------------
(* What is told of a client while the loop is at it *)

NearLimit == <<"exposure_warning", None>>

\* How far the loop has come with c since it revalued it.
StageOf(c) == IF c = at THEN pc ELSE "asleep"

\* The sectors of which the loop has not yet spoken.
Pending(c) ==
  IF StageOf(c) \in {"update", "store", "limit", "spoof"} THEN Sectors
  ELSE IF StageOf(c) = "sector" THEN sectors ELSE {}

UpdateTold(c) == StageOf(c) # "update" => updates[c] = snapshots[c]

StoreTold(c) ==
  StageOf(c) \notin {"update", "store"} /\ "db" \in Reached => stored[c] = snapshots[c]

LimitTold(c) ==
  LET passed == StageOf(c) \notin {"update", "store", "limit"} IN
  /\ MarginCall \in alerts[c] <=> passed /\ snapshots[c] > book[c].limit
  /\ NearLimit \in alerts[c]
       <=> /\ passed
           /\ snapshots[c] <= book[c].limit /\ 10 * snapshots[c] > 9 * book[c].limit

SectorsTold(c) ==
  /\ StageOf(c) = "sector" => sectors \subseteq Concentrated(book[c])
  /\ \A s \in Sectors :
       ConcentrationOf(s) \in alerts[c] <=> s \in Concentrated(book[c]) \ Pending(c)

Telling(c) ==
  snapshots[c] # 0 /\ failed[c] = {} =>
    UpdateTold(c) /\ StoreTold(c) /\ LimitTold(c) /\ SectorsTold(c)

\* What does not concern c.
Aside(c) ==
  /\ snapshots'[c] = snapshots[c] /\ failed'[c] = failed[c] /\ updates'[c] = updates[c]
  /\ stored'[c] = stored[c] /\ alerts'[c] = alerts[c]
  /\ snapshots[c] # 0 => book'[c] = book[c]

\* The alerts are told apart.
LEMMA AlertNames ==
  /\ MarginCall # NearLimit /\ <<"spoofing", None>> \notin {MarginCall, NearLimit}
  /\ \A s : ConcentrationOf(s) \notin {MarginCall, NearLimit, <<"spoofing", None>>}
  /\ \A s, t : ConcentrationOf(s) = ConcentrationOf(t) => s = t
  BY DEF MarginCall, NearLimit, ConcentrationOf

\* A step that neither concerns c nor moves the loop at c.
LEMMA AsideTells ==
  ASSUME NEW c \in Names, Telling(c), Aside(c),
         \/ StageOf(c)' = StageOf(c) /\ (StageOf(c) = "sector" => sectors' = sectors)
         \/ /\ StageOf(c) \in {"asleep", "next", "sector"}
            /\ StageOf(c)' \in {"asleep", "next"}
            /\ StageOf(c) = "sector" => sectors = {}
  PROVE  Telling(c)'
<1>1. CASE snapshots[c] = 0 \/ failed[c] # {}
  BY <1>1 DEF Aside, Telling
<1>2. CASE snapshots[c] # 0 /\ failed[c] = {}
  <2>1. UpdateTold(c) /\ StoreTold(c) /\ LimitTold(c) /\ SectorsTold(c) /\ book'[c] = book[c]
    BY <1>2 DEF Telling, Aside
  <2>2. Pending(c)' = Pending(c)
    BY DEF Pending
  <2>3. UpdateTold(c)' /\ StoreTold(c)'
    BY <2>1 DEF Aside, UpdateTold, StoreTold
  <2>4. LimitTold(c)'
    BY <2>1 DEF Aside, LimitTold
  <2>5. SectorsTold(c)'
    BY <2>1, <2>2 DEF Aside, SectorsTold
  <2> QED
    BY <2>3, <2>4, <2>5 DEF Telling
<1> QED
  BY <1>1, <1>2

\* A client that is revalued has nothing told of it yet.
LEMMA RevalueTells ==
  ASSUME TypeOK, NEW c \in Names, NEW clients, Revalue(c, clients),
         NEW d \in Names, Telling(d), StageOf(d) # "sector" \/ d = c,
         StageOf(d) \in {"asleep", "next"} \/ d = c
  PROVE  Telling(d)'
<1>1. CASE d = c
  <2>1. StageOf(c)' = "update"
    BY DEF Revalue, StageOf
  <2>2. alerts'[c] = {}
    BY DEF Revalue, Forget, TypeOK
  <2>3. Pending(c)' = Sectors
    BY <2>1 DEF Pending
  <2> QED
    BY <1>1, <2>1, <2>2, <2>3
       DEF Telling, UpdateTold, StoreTold, LimitTold, SectorsTold
<1>2. CASE d # c
  <2>1. Aside(d)
    BY <1>2 DEF Revalue, Forget, Aside, TypeOK
  <2>2. StageOf(d)' = "asleep"
    BY <1>2 DEF Revalue, StageOf
  <2> QED
    BY <1>2, <2>1, <2>2, AsideTells
<1> QED
  BY <1>1, <1>2

\* A step of the loop at one client does not concern the others.
LEMMA LoopAside ==
  ASSUME TypeOK, NEW d \in Names, d # at,
         PublishUpdate \/ _store_snapshot \/ CheckLimit \/ CheckSpoofing
           \/ (\E s \in Sectors : CheckSector(s)) \/ Done
  PROVE  Aside(d) /\ StageOf(d)' = StageOf(d) /\ StageOf(d) # "sector"
<1>1. /\ book' = book /\ snapshots' = snapshots /\ at' = at
      /\ \E from, to : Resume(from, to)
  BY DEF PublishUpdate, _store_snapshot, CheckLimit, CheckSpoofing, CheckSector, Done,
         Alert, Resume, engineVars
<1>2. failed'[d] = failed[d] /\ alerts'[d] = alerts[d]
  BY DEF PublishUpdate, _store_snapshot, CheckLimit, CheckSpoofing, CheckSector, Done,
         Alert, _publish_alert, Warn, TypeOK
<1>3. updates'[d] = updates[d] /\ stored'[d] = stored[d]
  BY DEF PublishUpdate, _store_snapshot, CheckLimit, CheckSpoofing, CheckSector, Done,
         Alert, TypeOK
<1> QED
  BY <1>1, <1>2, <1>3 DEF Aside, StageOf

\* A call of the loop that did not raise has had its effect.
LEMMA NotRaised ==
  ASSUME TypeOK, at \in Names, NEW call, NEW outcome, Warn(call, outcome), failed'[at] = {}
  PROVE  outcome # "raised" /\ failed[at] = {}
  BY DEF Warn, TypeOK

\* A publication that did not raise is on its topic, a row that did not is in its
\* table if there is one.
LEMMA OutcomeNames ==
  /\ \A out \in Outcomes("kafka") : out \in {"ok", "raised"}
  /\ "db" \in Reached => \A out \in Outcomes("db") : out \in {"ok", "raised"}
<1>1. "kafka" # "db"
  OBVIOUS
<1> QED
  BY <1>1 DEF Outcomes

\* The publication of the exposure.
LEMMA UpdateTells ==
  ASSUME TypeOK, at \in Names, PublishUpdate, Telling(at) PROVE Telling(at)'
<1>1. /\ pc = "update" /\ pc' = "store" /\ StageOf(at) = "update" /\ StageOf(at)' = "store"
      /\ UNCHANGED <<book, snapshots, at, stored, alerts, sectors>>
  BY DEF PublishUpdate, Resume, engineVars, StageOf
<1>2. SUFFICES ASSUME snapshots[at] # 0, failed'[at] = {}
               PROVE  UpdateTold(at)' /\ StoreTold(at)' /\ LimitTold(at)' /\ SectorsTold(at)'
  BY <1>1 DEF Telling
<1>3. PICK out \in Outcomes("kafka") :
        /\ updates' = IF out = "ok" THEN [updates EXCEPT ![at] = snapshots[at]] ELSE updates
        /\ Warn("update", out)
  BY DEF PublishUpdate
<1>4. out = "ok" /\ failed[at] = {}
  BY <1>2, <1>3, NotRaised, OutcomeNames
<1>5. updates'[at] = snapshots[at]
  BY <1>3, <1>4 DEF TypeOK
<1>6. LimitTold(at) /\ SectorsTold(at)
  BY <1>2, <1>4 DEF Telling
<1> QED
  BY <1>1, <1>5, <1>6 DEF UpdateTold, StoreTold, LimitTold, SectorsTold, Pending

\* The row of the snapshot.
LEMMA StoreTells ==
  ASSUME TypeOK, at \in Names, _store_snapshot, Telling(at) PROVE Telling(at)'
<1>1. /\ pc = "store" /\ pc' = "limit" /\ StageOf(at) = "store" /\ StageOf(at)' = "limit"
      /\ UNCHANGED <<book, snapshots, at, updates, alerts, sectors>>
  BY DEF _store_snapshot, Resume, engineVars, StageOf
<1>2. SUFFICES ASSUME snapshots[at] # 0, failed'[at] = {}
               PROVE  UpdateTold(at)' /\ StoreTold(at)' /\ LimitTold(at)' /\ SectorsTold(at)'
  BY <1>1 DEF Telling
<1>3. PICK out \in Outcomes("db") :
        /\ stored' = IF out = "ok" THEN [stored EXCEPT ![at] = snapshots[at]] ELSE stored
        /\ Warn("store", out)
  BY DEF _store_snapshot
<1>4. out # "raised" /\ failed[at] = {}
  BY <1>2, <1>3, NotRaised
<1>5. "db" \in Reached => stored'[at] = snapshots[at]
  BY <1>3, <1>4, OutcomeNames DEF TypeOK
<1>6. UpdateTold(at) /\ LimitTold(at) /\ SectorsTold(at)
  BY <1>2, <1>4 DEF Telling
<1> QED
  BY <1>1, <1>5, <1>6 DEF UpdateTold, StoreTold, LimitTold, SectorsTold, Pending

\* An alert that is due and did not raise is on its topic, and no other is new.
LEMMA AlertTells ==
  ASSUME TypeOK, at \in Names, NEW from, NEW to, NEW due, NEW a, Alert(from, to, due, a),
         failed'[at] = {}
  PROVE  /\ failed[at] = {}
         /\ due => alerts'[at] = alerts[at] \cup {a}
         /\ ~due => alerts'[at] = alerts[at]
<1>1. CASE due /\ _publish_alert(a)
  <2>1. PICK out \in Outcomes("kafka") :
          /\ alerts' = IF out = "ok" THEN [alerts EXCEPT ![at] = @ \cup {a}] ELSE alerts
          /\ Warn("alert", out)
    BY <1>1 DEF _publish_alert
  <2>2. out = "ok" /\ failed[at] = {}
    BY <2>1, NotRaised, OutcomeNames
  <2> QED
    BY <1>1, <2>1, <2>2 DEF TypeOK
<1>2. CASE ~due /\ UNCHANGED <<alerts, failed>>
  BY <1>2
<1> QED
  BY <1>1, <1>2 DEF Alert

\* The alert for the limit: a margin call beyond it, a warning close to it.
LEMMA LimitTells ==
  ASSUME IInv, TypeOK, at \in Names, CheckLimit, Telling(at) PROVE Telling(at)'
<1> DEFINE e == snapshots[at]
           l == book[at].limit
           near == 10 * e > 9 * l
           a == IF e > l THEN MarginCall ELSE NearLimit
<1>1. /\ pc = "limit" /\ pc' = "spoof" /\ StageOf(at) = "limit" /\ StageOf(at)' = "spoof"
      /\ UNCHANGED <<book, snapshots, at, updates, stored, sectors>>
  BY DEF CheckLimit, Alert, Resume, engineVars, StageOf
<1>2. SUFFICES ASSUME snapshots[at] # 0, failed'[at] = {}
               PROVE  UpdateTold(at)' /\ StoreTold(at)' /\ LimitTold(at)' /\ SectorsTold(at)'
  BY <1>1 DEF Telling
<1>3. Alert("limit", "spoof", near, a)
  BY DEF CheckLimit, MarginCall, NearLimit
<1>4. /\ failed[at] = {}
      /\ near => alerts'[at] = alerts[at] \cup {a}
      /\ ~near => alerts'[at] = alerts[at]
  <2> HIDE DEF near, a
  <2> QED
    BY <1>2, <1>3, AlertTells
<1>5. UpdateTold(at) /\ StoreTold(at) /\ LimitTold(at) /\ SectorsTold(at)
  BY <1>2, <1>4 DEF Telling
<1>6. e \in Nat /\ l \in Nat
  <2>1. at \in Known
    BY <1>2 DEF IInv, Fits, SnapshotFits
  <2> QED
    BY <2>1, KnownBook DEF IInv, TypeOK
<1>7. /\ (e > l => 10 * e > 9 * l)
      /\ (e <= l <=> ~(e > l))
  BY <1>6
<1>8. MarginCall \notin alerts[at] /\ NearLimit \notin alerts[at]
  BY <1>1, <1>5 DEF LimitTold
<1>9. LimitTold(at)'
  <2>1. MarginCall \in alerts'[at] <=> e > l
    BY <1>4, <1>7, <1>8, AlertNames
  <2>2. NearLimit \in alerts'[at] <=> e <= l /\ 10 * e > 9 * l
    BY <1>4, <1>7, <1>8, AlertNames
  <2> QED
    BY <1>1, <2>1, <2>2 DEF LimitTold
<1>10. \A s \in Sectors : ConcentrationOf(s) \in alerts'[at] <=> ConcentrationOf(s) \in alerts[at]
  BY <1>4, AlertNames
<1>11. SectorsTold(at)'
  BY <1>1, <1>5, <1>10 DEF SectorsTold, Pending
<1> QED
  BY <1>1, <1>5, <1>9, <1>11 DEF UpdateTold, StoreTold

\* The list of the concentrated sectors is made of the book as it was snapshotted.
LEMMA SpoofingTells ==
  ASSUME IInv, TypeOK, at \in Names, CheckSpoofing, Telling(at) PROVE Telling(at)'
<1>1. /\ pc = "spoof" /\ pc' = "sector" /\ StageOf(at) = "spoof" /\ StageOf(at)' = "sector"
      /\ UNCHANGED <<book, snapshots, at, updates, stored>>
      /\ sectors' = Concentrated(book[at])
  BY DEF CheckSpoofing, Alert, Resume, engineVars, StageOf
<1>2. SUFFICES ASSUME snapshots[at] # 0, failed'[at] = {}
               PROVE  UpdateTold(at)' /\ StoreTold(at)' /\ LimitTold(at)' /\ SectorsTold(at)'
  BY <1>1 DEF Telling
<1>3. /\ failed[at] = {}
      /\ alerts'[at] \in {alerts[at], alerts[at] \cup {<<"spoofing", None>>}}
  BY <1>2, AlertTells DEF CheckSpoofing
<1>4. UpdateTold(at) /\ StoreTold(at) /\ LimitTold(at) /\ SectorsTold(at)
  BY <1>2, <1>3 DEF Telling
<1>5. LimitTold(at)'
  <2>1. /\ MarginCall \in alerts'[at] <=> MarginCall \in alerts[at]
        /\ NearLimit \in alerts'[at] <=> NearLimit \in alerts[at]
    BY <1>3, AlertNames
  <2> QED
    BY <1>1, <1>4, <2>1 DEF LimitTold
<1>6. SectorsTold(at)'
  <2>1. \A s \in Sectors : ConcentrationOf(s) \notin alerts'[at]
    BY <1>1, <1>3, <1>4, AlertNames DEF SectorsTold, Pending
  <2>2. Pending(at)' = Concentrated(book[at]) /\ Concentrated(book'[at]) = Concentrated(book[at])
    BY <1>1 DEF Pending
  <2> QED
    BY <1>1, <2>1, <2>2 DEF SectorsTold
<1> QED
  BY <1>1, <1>4, <1>5, <1>6 DEF UpdateTold, StoreTold

\* One sector less to warn of.
LEMMA SectorTells ==
  ASSUME IInv, TypeOK, at \in Names, NEW s \in Sectors, CheckSector(s), Telling(at)
  PROVE  Telling(at)'
<1>1. /\ pc = "sector" /\ pc' = "sector" /\ StageOf(at) = "sector" /\ StageOf(at)' = "sector"
      /\ UNCHANGED <<book, snapshots, at, updates, stored>>
      /\ s \in sectors /\ sectors' = sectors \ {s}
  BY DEF CheckSector, Alert, Resume, engineVars, StageOf
<1>2. SUFFICES ASSUME snapshots[at] # 0, failed'[at] = {}
               PROVE  UpdateTold(at)' /\ StoreTold(at)' /\ LimitTold(at)' /\ SectorsTold(at)'
  BY <1>1 DEF Telling
<1>3. failed[at] = {} /\ alerts'[at] = alerts[at] \cup {ConcentrationOf(s)}
  BY <1>2, AlertTells DEF CheckSector
<1>4. UpdateTold(at) /\ StoreTold(at) /\ LimitTold(at) /\ SectorsTold(at)
  BY <1>2, <1>3 DEF Telling
<1>5. LimitTold(at)'
  <2>1. /\ MarginCall \in alerts'[at] <=> MarginCall \in alerts[at]
        /\ NearLimit \in alerts'[at] <=> NearLimit \in alerts[at]
    BY <1>3, AlertNames
  <2> QED
    BY <1>1, <1>4, <2>1 DEF LimitTold
<1>6. SectorsTold(at)'
  <2>1. /\ Pending(at) = sectors /\ Pending(at)' = sectors \ {s}
        /\ Concentrated(book'[at]) = Concentrated(book[at])
        /\ sectors \subseteq Concentrated(book[at])
    BY <1>1, <1>4 DEF Pending, SectorsTold
  <2>2. ASSUME NEW u \in Sectors
        PROVE  ConcentrationOf(u) \in alerts'[at]
                 <=> u \in Concentrated(book[at]) \ (sectors \ {s})
    <3>1. ConcentrationOf(u) \in alerts[at] <=> u \in Concentrated(book[at]) \ sectors
      BY <1>4, <2>1 DEF SectorsTold
    <3>2. ConcentrationOf(u) \in alerts'[at] <=> ConcentrationOf(u) \in alerts[at] \/ u = s
      BY <1>3, AlertNames
    <3> QED
      BY <1>1, <2>1, <3>1, <3>2
  <2> QED
    BY <1>1, <2>1, <2>2 DEF SectorsTold
<1> QED
  BY <1>1, <1>4, <1>5, <1>6 DEF UpdateTold, StoreTold

\* The end of a client: there is no sector left.
LEMMA DoneTells ==
  ASSUME TypeOK, at \in Names, Done, Telling(at) PROVE Telling(at)'
<1>1. Aside(at)
  BY DEF Done, Resume, engineVars, Aside
<1>2. /\ StageOf(at) = "sector" /\ sectors = {} /\ at' = at
      /\ pc' \in {"asleep", "next"}
  BY DEF Done, Resume, StageOf
<1>3. StageOf(at)' \in {"asleep", "next"}
  BY <1>2 DEF StageOf
<1> QED
  BY <1>1, <1>2, <1>3, AsideTells

\* Whatever happens, what is told of a client is what the loop has come to.
LEMMA TellingStep ==
  ASSUME IInv, TypeOK, [Next]_vars, NEW d \in Names, Telling(d)
  PROVE  Telling(d)'
<1>1. ASSUME UNCHANGED loopVars, snapshots[d] # 0 => book'[d] = book[d]
      PROVE  Telling(d)'
  <2>1. Aside(d) /\ StageOf(d)' = StageOf(d) /\ sectors' = sectors
    BY <1>1 DEF loopVars, Aside, StageOf
  <2> QED
    BY <2>1, AsideTells
<1>2. ASSUME NEW c \in Names, _ensure_client(c), UNCHANGED loopVars PROVE Telling(d)'
  <2>1. snapshots[d] # 0 => d \in Known
    BY DEF IInv, Fits, SnapshotFits
  <2> QED
    BY <1>1, <1>2, <2>1, EnsureClient DEF IInv
<1>3. ASSUME NEW c \in Names, client_risk_summary(c) PROVE Telling(d)'
  BY <1>2, <1>3 DEF client_risk_summary
<1>4. ASSUME NEW c \in Traders, NEW side, NEW s, NEW n, risk_check(c, side, s, n)
      PROVE  Telling(d)'
  BY <1>2, <1>4, NameAssumption DEF risk_check
<1>5. ASSUME NEW c \in Names, StartPass(c) \/ NextClient(c) PROVE Telling(d)'
  <2>1. StageOf(d) \in {"asleep", "next"}
    BY <1>5 DEF StartPass, NextClient, StageOf
  <2> QED
    BY <1>5, <2>1, RevalueTells DEF StartPass, NextClient
<1>6. ASSUME PublishUpdate \/ _store_snapshot \/ CheckLimit \/ CheckSpoofing
               \/ (\E s \in Sectors : CheckSector(s)) \/ Done
      PROVE  Telling(d)'
  <2>1. CASE d # at
    BY <1>6, <2>1, LoopAside, AsideTells
  <2>2. CASE d = at
    <3>1. at \in Names /\ Telling(at)
      BY <2>2
    <3>2. ASSUME Telling(at)' PROVE Telling(d)'
      BY <1>6, <2>2, <3>2
         DEF PublishUpdate, _store_snapshot, CheckLimit, CheckSpoofing, CheckSector, Done,
             Alert, Resume
    <3> QED
      BY <1>6, <3>1, <3>2, UpdateTells, StoreTells, LimitTells, SpoofingTells, SectorTells,
         DoneTells
  <2> QED
    BY <2>1, <2>2
<1>7. ASSUME NEW c \in Traders,
             check_risk(c) \/ cancel_order(c) \/ amend_order(c) \/ Age(c)
      PROVE  Telling(d)'
  BY <1>1, <1>7 DEF check_risk, cancel_order, amend_order, Age, engineVars
<1>8. CASE UNCHANGED vars
  BY <1>1, <1>8 DEF vars, loopVars
<1> QED
  BY <1>3, <1>4, <1>5, <1>6, <1>7, <1>8 DEF Next, _var_recalc_loop

\* Once the loop has dealt with a client and no call was logged as failed, topics and
\* table tell what the snapshot implies, for every book, limit and set of sectors, and
\* whoever appears or asks while the loop waits.
THEOREM AlertsAreTold == Spec => []AlertsTell
<1> DEFINE Inv == \A c \in Names : Telling(c)
<1>1. Init => Inv
  BY DEF Init, Telling
<1>2. IInv /\ TypeOK /\ Inv /\ [Next]_vars => Inv'
  BY TellingStep
<1>3. IInv /\ Inv => AlertsTell
  <2> SUFFICES ASSUME IInv, Inv, NEW c \in Names, snapshots[c] # 0, failed[c] = {},
                      c # at \/ pc \in {"asleep", "next"}
               PROVE  Told(c)
    BY DEF AlertsTell
  <2>1. UpdateTold(c) /\ StoreTold(c) /\ LimitTold(c) /\ SectorsTold(c)
    BY DEF Telling
  <2>2. StageOf(c) \in {"asleep", "next"} /\ Pending(c) = {}
    BY DEF StageOf, Pending
  <2>3. \A s \in Sectors :
          ConcentrationOf(s) \in alerts[c] <=> Share(book[c], s) > MaxShare
    BY <2>1, <2>2 DEF SectorsTold, Concentrated
  <2> QED
    BY <2>1, <2>2, <2>3 DEF Told, UpdateTold, StoreTold, LimitTold, MarginCall, NearLimit
<1> QED
  BY <1>1, <1>2, <1>3, EngineTypes, EngineInvariant, PTL DEF Spec
=============================================================================
