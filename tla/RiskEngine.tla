----------------------------- MODULE RiskEngine -----------------------------
(***************************************************************************)
(* The risk engine (services/risk-engine/main.py): the pre-trade check,    *)
(* the summary of a client, and the loop that revalues every client's      *)
(* book, publishes the result and raises alerts; together with what the    *)
(* order service and its clients do that the engine is meant to watch.     *)
(*                                                                         *)
(* The engine is one asyncio process: the handlers run without an await,   *)
(* so each is one action; the loop is suspended at every publication and   *)
(* every INSERT, and an action of the loop is the call it waits for with   *)
(* the code up to the next call.                                           *)
(*                                                                         *)
(* A book is what a client holds per sector.  Values are whole cents: the  *)
(* code rounds prices, limits and margins to two places, and percentages   *)
(* to hundredths of a percent.  How far prices move in one pass is left    *)
(* open.  VaR, greeks and scores are random numbers that nothing depends   *)
(* on, and are left out.                                                   *)
(***************************************************************************)
EXTENDS Integers, FiniteSets, Functions

CONSTANTS
  Names,       \* the client ids that occur in requests
  Seeds,       \* the clients the engine creates when it starts
  Traders,     \* those that orders are sent and checked for
  Sectors,     \* the sectors of SYMBOLS_SECTOR
  Books,       \* the books _ensure_client may draw
  Notionals,   \* the values an order may have
  Reached,     \* the backends the engine reached when it started
  Faults,      \* the backends whose calls may fail while it runs
  Holdings,    \* the values per sector that prices lead a book to
  MaxRecent    \* bound: orders and cancels of a client within 30 seconds

None == "none"
Sides == {"buy", "sell"}
Actions == {"new", "cancel", "replace"}
Answers == {"approved", "refused"}

Book == [value : Holdings, limit : Nat, total : Nat, used : Nat]
NoBook == [value |-> [s \in Sectors |-> 0], limit |-> 0, total |-> 0, used |-> 0]
Total(value) == FoldFunction(+, 0, value)
Exposure(b) == Total(b.value)

ASSUME NameAssumption ==
  /\ Seeds \subseteq Names
  /\ Traders \subseteq Names
  /\ None \notin Names
\* A client holds two to five of the symbols, so nothing of some sectors; no
\* price falls to nothing.
ASSUME BoundAssumption ==
  /\ Holdings \subseteq [Sectors -> Nat]
  /\ \A v \in Holdings : Total(v) \in Nat \ {0}
  /\ MaxRecent \in Nat
ASSUME NotionalAssumption == Notionals \subseteq Nat \ {0}
\* np.random.uniform: a limit of 1.5 to 3 times the exposure, a margin of 0.6
\* times the exposure, 0.15 to 0.35 times the exposure of it in use, each
\* rounded to the nearest cent.
ASSUME BookAssumption ==
  \A b \in Books : LET exposure == Exposure(b) IN
    /\ b \in Book
    /\ 3 * exposure - 1 <= 2 * b.limit /\ b.limit <= 3 * exposure
    /\ 5 * b.total - 3 * exposure \in -2 .. 2
    /\ 3 * exposure - 10 <= 20 * b.used /\ 20 * b.used <= 7 * exposure + 10

VARIABLES
  \* the engine
  book,       \* book[c]: client_positions, client_risk_limits and client_margin
  history,    \* history[c]: the entries of order_history of the last 30 seconds
  snapshots,  \* snapshots[c]: the exposure in risk_snapshots, 0 if there is none
  pc,         \* the call _var_recalc_loop waits for
  todo,       \* the clients of its list it has not come to
  at,         \* the client it revalues
  sectors,    \* the sectors of that client it has yet to warn of
  failed,     \* failed[c]: the calls that raised in the last revaluation of c
  verdicts,   \* verdicts[c]: the answers of risk_check about c since then
  \* topics and table, each since the last revaluation of c
  updates,    \* updates[c]: the exposure on "risk-updates", 0 if there is none
  stored,     \* stored[c]: the exposure in risk_snapshots of Postgres
  alerts,     \* alerts[c]: the alerts on "compliance-alerts"
  \* the order service
  traded      \* traded[c]: what clients have done there in the last 30 seconds

engineVars == <<book, history, verdicts>>
loopVars == <<snapshots, pc, todo, at, sectors, failed, updates, stored, alerts>>
vars == <<book, history, snapshots, pc, todo, at, sectors, failed, verdicts,
          updates, stored, alerts, traded>>

ConcentrationOf(s) == <<"concentration", s>>
Warnings == {"margin_call", "exposure_warning", "spoofing"}
Alerts == {<<w, None>> : w \in Warnings} \cup {ConcentrationOf(s) : s \in Sectors}
Known == {c \in Names : book[c] # NoBook}
Quiet == [a \in Actions |-> 0]

-----------------------------------------------------------------------------
(* Start, and clients that appear *)

Init ==
  /\ book \in [Names -> Books \cup {NoBook}]
  /\ \A c \in Names : book[c] # NoBook <=> c \in Seeds
  /\ history = [c \in Names |-> Quiet]
  /\ snapshots = [c \in Names |-> 0]
  /\ pc = "asleep"
  /\ todo = {}
  /\ at = None
  /\ sectors = {}
  /\ failed = [c \in Names |-> {}]
  /\ verdicts = [c \in Names |-> {}]
  /\ updates = [c \in Names |-> 0]
  /\ stored = [c \in Names |-> 0]
  /\ alerts = [c \in Names |-> {}]
  /\ traded = [c \in Names |-> Quiet]

\* A client that is not known gets a random book, limit and margin.
_ensure_client(c) ==
  IF c \in Known THEN book' = book
  ELSE \E b \in Books : book' = [book EXCEPT ![c] = b]

-----------------------------------------------------------------------------
(* POST /risk/check *)

\* _concentration_by_sector: the share of a sector, to the nearest hundredth of a
\* percent; 0 for a sector that is not held, and for "Other", the sector of a
\* symbol that is not in SYMBOLS_SECTOR.
OrderSectors == Sectors \cup {"Other"}
Share(b, s) ==
  IF s \in Sectors THEN (20000 * b.value[s] + Exposure(b)) \div (2 * Exposure(b)) ELSE 0
MaxShare == 3000

\* The parts of the check.  Sales add no exposure, and free none either; a fifth of
\* the order, rounded, has to be covered by the free margin; the share of the order
\* is not rounded.
NewExposure(b, side, n) == IF side = "buy" THEN Exposure(b) + n ELSE Exposure(b)
MarginRequired(n) == (n + 2) \div 5
Bigger(m, n) == IF m > n THEN m ELSE n
WithinMargin(b, n) == MarginRequired(n) <= b.total - b.used
WithinConcentration(b, side, s, n) ==
  LET new == Bigger(NewExposure(b, side, n), 100)
  IN  Share(b, s) * new + 10000 * n <= MaxShare * new

\* Faulty variant: only purchases are held against the risk limit.
SellsPass(b, side, s, n) ==
  /\ side = "buy" => NewExposure(b, side, n) <= b.limit
  /\ WithinMargin(b, n)
  /\ WithinConcentration(b, side, s, n)

\* The exposure with the order is within the limit, the margin suffices, and the
\* share of the sector in the book plus the share of the order in the new exposure
\* is at most 30 percent.
Approves(b, side, s, n) ==
  /\ NewExposure(b, side, n) <= b.limit
  /\ WithinMargin(b, n)
  /\ WithinConcentration(b, side, s, n)

\* The order enters the history whatever the answer; the book, the limit and
\* the margin stay as they are when it is approved.
risk_check(c, side, s, n) ==
  /\ history[c]["new"] < MaxRecent
  /\ _ensure_client(c)
  /\ history' = [history EXCEPT ![c]["new"] = @ + 1]
  /\ verdicts' = [verdicts EXCEPT ![c] =
       @ \cup {IF Approves(book'[c], side, s, n) THEN "approved" ELSE "refused"}]
  /\ UNCHANGED <<loopVars, traded>>

\* GET /risk/{client_id}.  The route of /risk/portfolio is declared after this
\* one, so that "portfolio" is one of the names.
client_risk_summary(c) ==
  /\ c \notin Known
  /\ _ensure_client(c)
  /\ UNCHANGED <<history, verdicts, loopVars, traded>>

-----------------------------------------------------------------------------
(* _var_recalc_loop *)

\* How a call ends.  The producer stays in its variable when its start fails,
\* and raises from then on; without a pool nothing is stored.
Outcomes(backend) ==
  CASE backend \notin Reached -> IF backend = "db" THEN {"skipped"} ELSE {"raised"}
    [] backend \in Reached \cap Faults -> {"ok", "raised"}
    [] OTHER -> {"ok"}

\* logger.warning in the except clause of _publish_kafka or _store_snapshot
Warn(call, outcome) ==
  failed' = IF outcome = "raised" THEN [failed EXCEPT ![at] = @ \cup {call}] ELSE failed

_publish_alert(alert) ==
  \E out \in Outcomes("kafka") :
    /\ alerts' = IF out = "ok" THEN [alerts EXCEPT ![at] = @ \cup {alert}] ELSE alerts
    /\ Warn("alert", out)

\* Faulty variant: a price may fall to nothing.
DriftedToZero(b) == {[b EXCEPT !.value[s] = 0] : s \in Sectors}

\* The prices of the book move, by up to 0.2 percent each in the code; the
\* quantities, and so the sectors that are held, stay as they are.
Drifted(b) ==
  {[b EXCEPT !.value = v] :
     v \in {w \in Holdings : \A s \in Sectors : w[s] = 0 <=> b.value[s] = 0}}

\* What is published and answered about c since its last revaluation.
Forget(c) ==
  /\ failed' = [failed EXCEPT ![c] = {}]
  /\ verdicts' = [verdicts EXCEPT ![c] = {}]
  /\ updates' = [updates EXCEPT ![c] = 0]
  /\ stored' = [stored EXCEPT ![c] = 0]
  /\ alerts' = [alerts EXCEPT ![c] = {}]

\* Faulty variant: the snapshot is taken before the prices move.
SnapshotFirst(c, clients) ==
  /\ c \in clients
  /\ \E b \in Drifted(book[c]) : book' = [book EXCEPT ![c] = b]
  /\ snapshots' = [snapshots EXCEPT ![c] = Exposure(book[c])]
  /\ at' = c
  /\ todo' = clients \ {c}
  /\ pc' = "update"
  /\ Forget(c)
  /\ UNCHANGED <<history, sectors, traded>>

\* The next client of the list, or of a new list when a pass starts: prices and
\* snapshot change in one stretch.  The code comes here from the end of the
\* previous client without an await, but a handler that runs in between finds
\* the same books as one that runs before.
Revalue(c, clients) ==
  /\ c \in clients
  /\ \E b \in Drifted(book[c]) :
       /\ book' = [book EXCEPT ![c] = b]
       /\ snapshots' = [snapshots EXCEPT ![c] = Exposure(b)]
  /\ at' = c
  /\ todo' = clients \ {c}
  /\ pc' = "update"
  /\ Forget(c)
  /\ UNCHANGED <<history, sectors, traded>>

\* list(client_positions.items()): clients that appear later wait for the next
\* pass.  The 5 seconds of sleep are left open.
StartPass(c) == pc = "asleep" /\ Revalue(c, Known)
NextClient(c) == pc = "next" /\ Revalue(c, todo)

Resume(from, to) ==
  /\ pc = from
  /\ pc' = to
  /\ UNCHANGED <<engineVars, snapshots, todo, at, traded>>

\* Faulty variant: an exception of the producer reaches the loop, which ends
\* the pass.
PublishUpdateRaises ==
  \E out \in Outcomes("kafka") :
    /\ Resume("update", IF out = "raised" THEN "asleep" ELSE "store")
    /\ updates' = IF out = "ok" THEN [updates EXCEPT ![at] = snapshots[at]] ELSE updates
    /\ Warn("update", out)
    /\ UNCHANGED <<sectors, stored, alerts>>

PublishUpdate ==
  /\ Resume("update", "store")
  /\ \E out \in Outcomes("kafka") :
       /\ updates' = IF out = "ok" THEN [updates EXCEPT ![at] = snapshots[at]] ELSE updates
       /\ Warn("update", out)
  /\ UNCHANGED <<sectors, stored, alerts>>

_store_snapshot ==
  /\ Resume("store", "limit")
  /\ \E out \in Outcomes("db") :
       /\ stored' = IF out = "ok" THEN [stored EXCEPT ![at] = snapshots[at]] ELSE stored
       /\ Warn("store", out)
  /\ UNCHANGED <<sectors, updates, alerts>>

\* An alert of the loop, if there is reason for one.
Alert(from, to, due, alert) ==
  /\ Resume(from, to)
  /\ \/ due /\ _publish_alert(alert)
     \/ ~due /\ UNCHANGED <<alerts, failed>>
  /\ UNCHANGED <<updates, stored>>

\* Faulty variant: nothing is said of a client who comes close to the limit.
CheckLimitOnly ==
  /\ Alert("limit", "spoof", snapshots[at] > book[at].limit, <<"margin_call", None>>)
  /\ UNCHANGED sectors

\* exposure > limit * 0.9, and "margin_call" if it is beyond the limit itself
CheckLimit ==
  /\ Alert("limit", "spoof", 10 * snapshots[at] > 9 * book[at].limit,
           IF snapshots[at] > book[at].limit THEN <<"margin_call", None>>
                                             ELSE <<"exposure_warning", None>>)
  /\ UNCHANGED sectors

_detect_spoofing(c) == history[c]["cancel"] + history[c]["replace"] >= 5

Concentrated(b) == {s \in Sectors : Share(b, s) > MaxShare}

CheckSpoofing ==
  /\ Alert("spoof", "sector", _detect_spoofing(at), <<"spoofing", None>>)
  /\ sectors' = Concentrated(book[at])

CheckSector(s) ==
  /\ s \in sectors
  /\ Alert("sector", "sector", TRUE, ConcentrationOf(s))
  /\ sectors' = sectors \ {s}

\* Faulty variant: the loop sleeps after every client.
DoneEach ==
  /\ sectors = {}
  /\ Resume("sector", "asleep")
  /\ UNCHANGED <<sectors, failed, updates, stored, alerts>>

\* The end of a client, and of the pass if it was the last.
Done ==
  /\ sectors = {}
  /\ Resume("sector", IF todo = {} THEN "asleep" ELSE "next")
  /\ UNCHANGED <<sectors, failed, updates, stored, alerts>>

_var_recalc_loop ==
  \/ \E c \in Names : StartPass(c) \/ NextClient(c)
  \/ PublishUpdate \/ _store_snapshot \/ CheckLimit \/ CheckSpoofing
  \/ \E s \in Sectors : CheckSector(s)
  \/ Done

-----------------------------------------------------------------------------
(* The order service, and time *)

Routes == {<<"POST", "/risk/check">>, <<"GET", "/risk/{client_id}">>,
           <<"GET", "/risk/portfolio">>, <<"POST", "/risk/stress-test">>,
           <<"GET", "/health">>}

Did(c, action) ==
  /\ traded[c]["new"] + traded[c]["cancel"] + traded[c]["replace"] < MaxRecent
  /\ traded' = [traded EXCEPT ![c][action] = @ + 1]

\* check_risk posts the order to /check, which no route of the engine serves:
\* the 404 approves, as a failure of the call would.  The 2 percent of orders
\* that are refused without asking are not admitted, and leave nothing here.
check_risk(c) ==
  /\ <<"POST", "/check">> \notin Routes
  /\ Did(c, "new")
  /\ UNCHANGED <<engineVars, loopVars>>

\* cancel_order and amend_order do not call the engine.
cancel_order(c) == Did(c, "cancel") /\ UNCHANGED <<engineVars, loopVars>>
amend_order(c) == Did(c, "replace") /\ UNCHANGED <<engineVars, loopVars>>

\* What c did is more than 30 seconds old.
Age(c) ==
  /\ traded[c] # Quiet \/ history[c] # Quiet
  /\ traded' = [traded EXCEPT ![c] = Quiet]
  /\ history' = [history EXCEPT ![c] = Quiet]
  /\ UNCHANGED <<book, verdicts, loopVars>>

Next ==
  \/ \E c \in Names : client_risk_summary(c)
  \/ \E c \in Traders, side \in Sides, s \in OrderSectors, n \in Notionals :
       risk_check(c, side, s, n)
  \/ _var_recalc_loop
  \/ \E c \in Traders : check_risk(c) \/ cancel_order(c) \/ amend_order(c) \/ Age(c)

Spec == Init /\ [][Next]_vars

\* The loop is a task of the event loop, every call it waits for ends, and its
\* sleep ends.  It takes the clients of its list one after the other.
FairSpec == Spec /\ WF_vars(_var_recalc_loop)

-----------------------------------------------------------------------------
(* Properties *)

TypeOK ==
  /\ book \in [Names -> Book \cup {NoBook}]
  /\ history \in [Names -> [Actions -> 0 .. MaxRecent]]
  /\ snapshots \in [Names -> Nat]
  /\ pc \in {"asleep", "next", "update", "store", "limit", "spoof", "sector"}
  /\ todo \subseteq Known
  /\ at \in Known \cup {None}
  /\ sectors \subseteq Sectors
  /\ failed \in [Names -> SUBSET {"update", "store", "alert"}]
  /\ verdicts \in [Names -> SUBSET Answers]
  /\ updates \in [Names -> Nat]
  /\ stored \in [Names -> Nat]
  /\ alerts \in [Names -> SUBSET Alerts]
  /\ traded \in [Names -> [Actions -> 0 .. MaxRecent]]

\* Whatever a reader of the engine or a check of an order sees of a client
\* between two revaluations is what the last snapshot says: no handler runs
\* between the change of the prices and the snapshot.
SnapshotIsCurrent ==
  \A c \in Names : snapshots[c] # 0 => Exposure(book[c]) = snapshots[c]

\* A client whose margin call stands gets no order approved, on either side,
\* until the next revaluation: check and loop never judge different books.
MarginCallBlocks ==
  \A c \in Names :
    <<"margin_call", None>> \in alerts[c] => "approved" \notin verdicts[c]

\* Once a client has been dealt with, and none of the calls was logged as
\* failed, the topics and the table tell what the snapshot implies: the
\* exposure, one alert for the limit, and one per sector whose rounded share is
\* more than 30 percent.  A margin call is what main.py:281 makes it, an exposure
\* beyond the limit; README.md:356 of the platform has it "triggered when
\* margin_used approaches margin_available", which nothing in the engine does.
Told(c) ==
  LET b == book[c] IN
  /\ updates[c] = snapshots[c]
  /\ "db" \in Reached => stored[c] = snapshots[c]
  /\ <<"margin_call", None>> \in alerts[c] <=> snapshots[c] > b.limit
  /\ <<"exposure_warning", None>> \in alerts[c]
       <=> snapshots[c] <= b.limit /\ 10 * snapshots[c] > 9 * b.limit
  /\ \A s \in Sectors : ConcentrationOf(s) \in alerts[c] <=> Share(b, s) > MaxShare

AlertsTell ==
  \A c \in Names :
    snapshots[c] # 0 /\ failed[c] = {} /\ (c # at \/ pc \in {"asleep", "next"})
    => Told(c)

\* A pass deals with every client of its list, whatever fails and whoever
\* appears meanwhile.
PassesComplete == pc = "asleep" => todo = {}

\* Every client the engine knows is revalued again and again, although calls
\* fail and requests create clients while the loop is suspended.
EveryClientWatched == \A c \in Names : []<>(c \in Known => at = c)

-----------------------------------------------------------------------------
(* What the repository says and the engine does not do *)

\* main.py:150, "Check for rapid cancel/replace pattern in last 30 seconds": a
\* client that has just cancelled or amended five orders is reported when the
\* loop looks at it.
SpoofingReported ==
  [][CheckSpoofing /\ traded[at]["cancel"] + traded[at]["replace"] >= 5
       => <<"spoofing", None>> \in alerts'[at] \/ "alert" \in failed'[at]]_vars

\* order-service main.py:372, "Call risk engine. Returns (approved, reason)":
\* the engine has been asked about every order the service admitted.
EveryOrderChecked ==
  \A c \in Names : traded[c]["new"] <= history[c]["new"]
=============================================================================
