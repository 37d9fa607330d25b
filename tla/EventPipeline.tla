---------------------------- MODULE EventPipeline ----------------------------
(***************************************************************************)
(* The services that read the topics of the order service and of the       *)
(* market data simulator: the event processor                              *)
(* (services/event-processor/main.py) and the legacy adapter               *)
(* (services/legacy-adapter/main.py), whose topic "legacy-mq" the event    *)
(* processor reads as well.                                                *)
(*                                                                         *)
(* Each is one loop over the messages of an AIOKafkaConsumer.  The         *)
(* position of the consumer moves when the loop gets a message; its tasks  *)
(* run in the same event loop, that is only while the loop waits for       *)
(* something.  They commit offsets, join the group again when it is        *)
(* rebalanced and go to the end of a topic whose next message Kafka has    *)
(* deleted.  Whoever stops the container kills the process anywhere, and   *)
(* nobody but an operator starts it again.                                 *)
(*                                                                         *)
(* A topic stands for one of its partitions, and a service for the member  *)
(* of its group that reads it; that partitions move from one member to     *)
(* another is left out.  So is what only goes to stdout (the COBOL, SMF    *)
(* and error records, the ids and batch numbers made up for them,          *)
(* simulated rebalances and lags, correlation), and so are the tables and  *)
(* the topic that nothing reads (_message_counts, _consumer_offsets,       *)
(* "dead-letter").                                                         *)
(***************************************************************************)
EXTENDS Integers, Sequences, FiniteSets, FiniteSetsExt

CONSTANTS
  Inputs,     \* the topics that others write to
  Kinds,      \* Kinds[t]: the kinds of messages they write to t
  Symbols,    \* the symbols, as numbers in the order of their names
  Faults,     \* {"kafka"} if sends and commits may fail, or {}
  Kept,       \* the number of minute bars beyond which they are pruned (5000)
  Pruned,     \* and the number that goes then (2500)
  MaxWritten, \* bound: the number of messages that others write
  MaxExpired, \* bound: the number of messages that Kafka deletes
  MaxJoins,   \* bound: the number of times that services join their groups
  MaxMinutes  \* bound: the minutes that pass between ticks

\* An object has the fields its handler computes with, a "mistyped" one does not;
\* the key of an "odd_key" object is not UTF-8.  "text" is no JSON, and a "scalar"
\* is JSON that is not an object.
AllKinds == {"object", "mistyped", "odd_key", "text", "scalar"}

TOPICS == {"orders", "trades", "order-updates", "risk-updates", "market-data",
           "compliance-alerts", "legacy-mq"}

ASSUME PipelineAssumption ==
  /\ Inputs \subseteq TOPICS \ {"legacy-mq"}
  /\ Kinds \in [Inputs -> SUBSET AllKinds]
  /\ Symbols \subseteq Nat
  /\ Faults \subseteq {"kafka"}
  /\ Kept \in Nat \ {0} /\ Pruned \in 1 .. Kept
  /\ MaxMinutes \in Nat

Processor == "event-processor"
Adapter == "legacy-adapter"
Services == {Processor, Adapter}
Topics == Inputs \cup {"legacy-mq"}
Subscribed(s) == IF s = Adapter THEN Inputs \cap {"orders", "trades"} ELSE Topics

VARIABLES
  \* Kafka: a message is <<topic, offset>>
  log,         \* log[t]: kinds of messages; on "legacy-mq", the message it is about
  first,       \* first[t]: the offset of the first one that Kafka still keeps
  committed,   \* committed[s][t]: the offset the group of s has committed, or Nothing
  \* each service
  stage,       \* stage[s]: what its loop does
  position,    \* position[s][t]: the offset of the message it gets next
  inHand,      \* inHand[s]: the message in msg
  \* the event processor
  positions,   \* _positions: the quantity per symbol
  bars,        \* the keys of _minute_bars
  minute,      \* the minute of its last tick
  \* what has happened
  joins,       \* how often services joined their groups
  skipped,     \* skipped[s]: the messages that a reset to the end of a topic went past
  settled,     \* settled[s]: the messages whose processing returned
  raised,      \* raised[s]: the messages that ended s
  cut,         \* cut[s]: the messages in hand when s was killed
  logged,      \* logged[s]: the messages that s has written a line about
  booked,      \* the trades the event processor has handled since it started
  again        \* the messages it may get a second time since then

topics == <<log, first>>
offsets == <<committed, position, skipped>>
memory == <<positions, bars, booked, again>>
history == <<settled, raised, cut>>
vars == <<topics, offsets, stage, inHand, memory, minute, joins, history, logged>>

Nothing == -1
Messages == Topics \X Nat
\* What is on "legacy-mq" is not decoded: data = {}.
Kind(m) == IF m[1] = "legacy-mq" THEN "object" ELSE log[m[1]][m[2] + 1]
Flat(x) == [s \in Services |-> [t \in Subscribed(s) |-> x]]
\* The messages of t from an offset on.
From(t, n) == {t} \X {i \in 0 .. Len(log[t]) - 1 : n <= i}

Init ==
  /\ log = [t \in Topics |-> << >>]
  /\ first = [t \in Topics |-> 0]
  /\ committed = Flat(Nothing)
  /\ stage = [s \in Services |-> "down"]
  /\ position = Flat(0)
  /\ inHand = [s \in Services |-> {}]
  /\ positions = [x \in Symbols |-> 0]
  /\ bars = {}
  /\ minute = 0
  /\ joins = 0
  /\ skipped = [s \in Services |-> {}]
  /\ settled = [s \in Services |-> {}]
  /\ raised = [s \in Services |-> {}]
  /\ cut = [s \in Services |-> {}]
  /\ logged = [s \in Services |-> {}]
  /\ booked = {}
  /\ again = {}

-----------------------------------------------------------------------------
(* The consumer, and those around it *)

Write(t, kind) ==
  /\ MapThenSumSet(LAMBDA u : Len(log[u]), Inputs) < MaxWritten
  /\ log' = [log EXCEPT ![t] = Append(@, kind)]
  /\ UNCHANGED <<first, offsets, stage, inHand, memory, minute, joins, history, logged>>

\* Kafka keeps messages for an hour.
Expire(t) ==
  /\ MapThenSumSet(LAMBDA u : first[u], Topics) < MaxExpired
  /\ first[t] < Len(log[t])
  /\ first' = [first EXCEPT ![t] = @ + 1]
  /\ UNCHANGED <<log, offsets, stage, inHand, memory, minute, joins, history, logged>>

\* Offsets that were not committed, or of messages that were deleted since, are
\* reset with auto_offset_reset="latest".
Lost(s, t) == committed[s][t] < first[t]
Resumed(s) ==
  [t \in Subscribed(s) |-> IF Lost(s, t) THEN Len(log[t]) ELSE committed[s][t]]
Skips(s) ==
  skipped' = [skipped EXCEPT ![s] = @ \cup
    UNION {From(t, committed[s][t]) : t \in {u \in Subscribed(s) : Lost(s, u)}}]

\* Faulty variant: without a group every start is at the end of the topics.
StartAtEnd(s) ==
  /\ stage[s] = "down"
  /\ joins < MaxJoins
  /\ joins' = joins + 1
  /\ stage' = [stage EXCEPT ![s] = "waiting"]
  /\ position' = [position EXCEPT ![s] = [t \in Subscribed(s) |-> Len(log[t])]]
  /\ Skips(s)
  /\ UNCHANGED <<topics, committed, inHand, memory, minute, history, logged>>

\* consumer.start() with a group_id
Start(s) ==
  /\ stage[s] = "down"
  /\ joins < MaxJoins
  /\ joins' = joins + 1
  /\ stage' = [stage EXCEPT ![s] = "waiting"]
  /\ position' = [position EXCEPT ![s] = Resumed(s)]
  /\ Skips(s)
  /\ UNCHANGED <<topics, committed, inHand, memory, minute, history, logged>>

\* A member that comes or goes, or was taken to be dead, makes those of the group
\* join again: what is not committed then is got again, by a service that
\* remembers it.
Rejoin(s) ==
  LET rewound == UNION {{t} \X (Resumed(s)[t] .. position[s][t] - 1) : t \in Subscribed(s)}
  IN  /\ stage[s] \in {"waiting", "sending"}
      /\ joins < MaxJoins
      /\ joins' = joins + 1
      /\ position' = [position EXCEPT ![s] = Resumed(s)]
      /\ Skips(s)
      /\ again' = IF s = Processor THEN again \cup rewound ELSE again
      /\ UNCHANGED <<topics, committed, stage, inHand, positions, bars, booked, minute, history, logged>>

\* The next message is deleted before it is fetched.
Reset(s, t) ==
  /\ stage[s] \in {"waiting", "sending"}
  /\ position[s][t] < first[t]
  /\ position' = [position EXCEPT ![s][t] = Len(log[t])]
  /\ skipped' = [skipped EXCEPT ![s] = @ \cup From(t, position[s][t])]
  /\ UNCHANGED <<topics, committed, stage, inHand, memory, minute, joins, history, logged>>

\* async for msg in consumer; the message may have been fetched before Kafka
\* deleted it.
Get(s, t) ==
  /\ stage[s] = "waiting"
  /\ position[s][t] < Len(log[t])
  /\ stage' = [stage EXCEPT ![s] = "got"]
  /\ inHand' = [inHand EXCEPT ![s] = {<<t, position[s][t]>>}]
  /\ position' = [position EXCEPT ![s][t] = @ + 1]
  /\ UNCHANGED <<topics, committed, skipped, memory, minute, joins, history, logged>>

\* Faulty variant: handlers that wait for something let the task in.
AutoCommitAnywhere(s) ==
  /\ stage[s] # "down"
  /\ committed' = [committed EXCEPT ![s] = position[s]]
  /\ UNCHANGED <<topics, position, skipped, stage, inHand, memory, minute, joins, history, logged>>

\* The task behind enable_auto_commit.
AutoCommit(s) ==
  /\ stage[s] \in {"waiting", "sending"}
  /\ committed' = [committed EXCEPT ![s] = position[s]]
  /\ UNCHANGED <<topics, position, skipped, stage, inHand, memory, minute, joins, history, logged>>

\* The send the adapter waits for does this to "legacy-mq".
Sent(m) == log' = [log EXCEPT !["legacy-mq"] = Append(@, m)] /\ first' = first
PerhapsSent(s) ==
  \/ UNCHANGED topics
  \/ s = Adapter /\ stage[s] = "sending" /\ \E m \in inHand[s] : Sent(m)

\* Faulty variant: the positions survive, as if they were kept in Redis.
ForgottenBarsOnly(s) ==
  IF s = Processor
  THEN positions' = positions /\ bars' = {} /\ booked' = {} /\ again' = {}
  ELSE UNCHANGED memory

\* The memory of a process that has ended.
Forgotten(s) ==
  IF s = Processor
  THEN positions' = [x \in Symbols |-> 0] /\ bars' = {} /\ booked' = {} /\ again' = {}
  ELSE UNCHANGED memory

\* SIGTERM or SIGKILL: no finally clause runs, and a send may be under way.
Kill(s) ==
  /\ stage[s] # "down"
  /\ stage' = [stage EXCEPT ![s] = "down"]
  /\ cut' = [cut EXCEPT ![s] = @ \cup inHand[s]]
  /\ inHand' = [inHand EXCEPT ![s] = {}]
  /\ PerhapsSent(s)
  /\ Forgotten(s)
  /\ UNCHANGED <<offsets, minute, joins, settled, raised, logged>>

\* An exception that process_message lets out ends the loop.
Raise(s) ==
  /\ stage' = [stage EXCEPT ![s] = "stopping"]
  /\ raised' = [raised EXCEPT ![s] = @ \cup inHand[s]]
  /\ UNCHANGED <<offsets, inHand, memory, minute, joins, settled, cut>>

\* consumer.stop() commits the position, past the message, if it can.
StopConsumer(s) ==
  /\ stage[s] = "stopping"
  /\ stage' = [stage EXCEPT ![s] = "closing"]
  /\ \/ committed' = [committed EXCEPT ![s] = position[s]]
     \/ "kafka" \in Faults /\ committed' = committed
  /\ UNCHANGED <<topics, position, skipped, inHand, memory, minute, joins, history, logged>>

\* After producer.stop() the process ends with the traceback.
StopProducer(s) ==
  /\ stage[s] = "closing"
  /\ stage' = [stage EXCEPT ![s] = "down"]
  /\ logged' = [logged EXCEPT ![s] = @ \cup inHand[s]]
  /\ inHand' = [inHand EXCEPT ![s] = {}]
  /\ Forgotten(s)
  /\ UNCHANGED <<topics, offsets, minute, joins, history>>

\* process_message returns.
Return(s) ==
  /\ stage' = [stage EXCEPT ![s] = "waiting"]
  /\ settled' = [settled EXCEPT ![s] = @ \cup inHand[s]]
  /\ inHand' = [inHand EXCEPT ![s] = {}]
  /\ UNCHANGED <<offsets, joins, raised, cut>>

\* It writes a line and waits for a send.
LogAndSend(s) ==
  /\ stage' = [stage EXCEPT ![s] = "sending"]
  /\ logged' = [logged EXCEPT ![s] = @ \cup inHand[s]]
  /\ UNCHANGED <<topics, offsets, inHand, memory, minute, joins, history>>

-----------------------------------------------------------------------------
(* The legacy adapter *)

\* Text becomes an empty object.  The lines of the batch log are printed before
\* the message goes to "legacy-mq".
PrintBatch(m) ==
  /\ stage[Adapter] = "got"
  /\ Kind(m) \in {"object", "odd_key", "text"}
  /\ LogAndSend(Adapter)

\* value.get of a scalar, int(qty) or float(price) of something else
Unusable(m) ==
  /\ stage[Adapter] = "got"
  /\ Kind(m) \in {"scalar", "mistyped"}
  /\ Raise(Adapter)
  /\ UNCHANGED <<topics, logged>>

\* send_and_wait, and the SMF record after it
SendLegacy(m) ==
  /\ stage[Adapter] = "sending"
  /\ Sent(m)
  /\ Return(Adapter)
  /\ UNCHANGED <<memory, minute, logged>>

\* Faulty variant: a failure to send is only logged.
SendLegacyFailsQuietly(m) ==
  /\ stage[Adapter] = "sending"
  /\ "kafka" \in Faults
  /\ PerhapsSent(Adapter)
  /\ Return(Adapter)
  /\ UNCHANGED <<memory, minute, logged>>

\* It is not caught, and a timeout does not tell whether the message arrived.
SendLegacyFails(m) ==
  /\ stage[Adapter] = "sending"
  /\ "kafka" \in Faults
  /\ PerhapsSent(Adapter)
  /\ Raise(Adapter)
  /\ UNCHANGED logged

Adapt ==
  \E m \in inHand[Adapter] :
    PrintBatch(m) \/ Unusable(m) \/ SendLegacy(m) \/ SendLegacyFails(m)

-----------------------------------------------------------------------------
(* The event processor *)

Handled(m) ==
  /\ stage[Processor] = "got"
  /\ Kind(m) \in {"object", "odd_key"}
  /\ Return(Processor)
  /\ logged' = [logged EXCEPT ![Processor] = @ \cup {m}]
  /\ UNCHANGED topics

\* The trades that the order service publishes have neither symbol nor side:
\* both are drawn.
handle_trades(m) ==
  /\ m[1] = "trades"
  /\ Handled(m)
  /\ \E x \in Symbols, sign \in {1, -1} :
       /\ positions' = [positions EXCEPT ![x] = @ + sign]
       /\ booked' = booked \cup {<<m, x, sign, joins>>}
  /\ UNCHANGED <<bars, again, minute>>

\* Faulty variant: nothing is pruned.
Unpruned(keys) == keys

\* sorted(keys)[:2500], where a key is a symbol and a minute
PrunedBars(keys) ==
  LET before(k, l) == k[1] < l[1] \/ (k[1] = l[1] /\ k[2] < l[2])
  IN  IF Cardinality(keys) <= Kept THEN keys
      ELSE {k \in keys : Cardinality({l \in keys : before(l, k)}) >= Pruned}

handle_market_data(m) ==
  /\ m[1] = "market-data"
  /\ Handled(m)
  /\ minute' \in minute .. MaxMinutes
  /\ \E x \in Symbols : bars' = PrunedBars(bars \cup {<<x, minute'>>})
  /\ UNCHANGED <<positions, booked, again>>

\* The other handlers return what is to be logged.
handle_others(m) ==
  /\ m[1] \notin {"trades", "market-data"}
  /\ Handled(m)
  /\ UNCHANGED <<memory, minute>>

\* Any message may fail as if it could not be decoded, text does so, and the
\* handler raises for mistyped fields, with nothing booked.  (The bar of a
\* mistyped tick would stay; the simulator writes none.)
Failed(m) ==
  /\ stage[Processor] = "got"
  /\ Kind(m) # "odd_key"
  /\ LogAndSend(Processor)

\* If its key is not UTF-8, the letter cannot be written: _send_to_dlq raises.
KeyRaises(m) ==
  /\ stage[Processor] = "got"
  /\ Kind(m) = "odd_key"
  /\ Raise(Processor)
  /\ logged' = [logged EXCEPT ![Processor] = @ \cup {m}]
  /\ UNCHANGED topics

\* data.get is outside of the try block.
NotAnObject(m) ==
  /\ stage[Processor] = "got"
  /\ Kind(m) = "scalar"
  /\ Raise(Processor)
  /\ UNCHANGED <<topics, logged>>

\* Faulty variant: a send that fails is tried again, for ever.
SendToDlqRetried(m) ==
  /\ stage[Processor] = "sending"
  /\ Faults = {}
  /\ Return(Processor)
  /\ UNCHANGED <<topics, memory, minute, logged>>

\* The message is given up, whether its letter can be sent or that failure is logged.
_send_to_dlq(m) ==
  /\ stage[Processor] = "sending"
  /\ Return(Processor)
  /\ UNCHANGED <<topics, memory, minute, logged>>

Process ==
  \E m \in inHand[Processor] :
    \/ handle_trades(m) \/ handle_market_data(m) \/ handle_others(m)
    \/ Failed(m) \/ KeyRaises(m) \/ NotAnObject(m) \/ _send_to_dlq(m)

-----------------------------------------------------------------------------

Work(s) ==
  \/ \E t \in Subscribed(s) : Get(s, t) \/ Reset(s, t)
  \/ StopConsumer(s) \/ StopProducer(s)
  \/ s = Adapter /\ Adapt
  \/ s = Processor /\ Process

Next ==
  \/ \E t \in Inputs : \E kind \in Kinds[t] : Write(t, kind)
  \/ \E t \in Topics : Expire(t)
  \/ \E s \in Services : Start(s) \/ Rejoin(s) \/ AutoCommit(s) \/ Kill(s) \/ Work(s)

Spec == Init /\ [][Next]_vars

\* A consumer is given the messages that are there, and a send ends.  Nobody has
\* to start a service again.
FairSpec == Spec /\ \A s \in Services : WF_vars(Work(s))

-----------------------------------------------------------------------------
(* Properties *)

TypeOK ==
  /\ \A t \in Inputs : log[t] \in Seq(AllKinds)
  /\ log["legacy-mq"] \in Seq(Messages)
  /\ \A t \in Topics : first[t] \in 0 .. Len(log[t])
  /\ stage \in [Services -> {"down", "waiting", "got", "sending", "stopping", "closing"}]
  /\ \A s \in Services :
       /\ \A t \in Subscribed(s) :
            /\ position[s][t] \in 0 .. Len(log[t])
            /\ committed[s][t] \in Nothing .. position[s][t]
       /\ inHand[s] \in SUBSET Messages /\ Cardinality(inHand[s]) <= 1
       /\ inHand[s] # {} <=> stage[s] \notin {"down", "waiting"}
  /\ positions \in [Symbols -> Int]
  /\ bars \subseteq Symbols \X (0 .. MaxMinutes) /\ Cardinality(bars) <= Kept

\* What a reader of TopicReader does in each stage.
Mode(s) == CASE stage[s] = "down" -> "down"
             [] stage[s] \in {"stopping", "closing"} -> "stopping"
             [] OTHER -> "reading"

\* The event processor deals with its topics as TopicReader says: it loses no message
\* but those that a reset goes past, although offsets are committed before
\* messages are finished, its group is rebalanced and it dies at any point.
ProcessorReader ==
  INSTANCE TopicReader WITH
    Topics <- Subscribed(Processor), length <- [t \in Subscribed(Processor) |-> Len(log[t])],
    first <- [t \in Subscribed(Processor) |-> first[t]], mode <- Mode(Processor),
    position <- position[Processor], committed <- committed[Processor],
    inHand <- inHand[Processor], settled <- settled[Processor], raised <- raised[Processor],
    cut <- cut[Processor], skipped <- skipped[Processor]
ProcessorReads == ProcessorReader!Spec

\* The same of the adapter.
AdapterReader ==
  INSTANCE TopicReader WITH
    Topics <- Subscribed(Adapter), length <- [t \in Subscribed(Adapter) |-> Len(log[t])],
    first <- [t \in Subscribed(Adapter) |-> first[t]], mode <- Mode(Adapter),
    position <- position[Adapter], committed <- committed[Adapter],
    inHand <- inHand[Adapter], settled <- settled[Adapter], raised <- raised[Adapter],
    cut <- cut[Adapter], skipped <- skipped[Adapter]
AdapterReads == AdapterReader!Spec

\* Whatever dies when, a message that Kafka will not deliver again has left a line
\* in the log of the service or its traceback, unless a reset went past it or the
\* service was killed while it stopped because of it: then the offset is committed
\* and the traceback to come.  Other commits happen only while the loop waits, and
\* it never waits between a message and its line.
CommittedIsLogged ==
  \A s \in Services : \A t \in Subscribed(s) : \A i \in 0 .. committed[s][t] - 1 :
    \/ <<t, i>> \in logged[s] \cup skipped[s]
    \/ <<t, i>> \in raised[s] /\ <<t, i>> \in inHand[s] \cup cut[s]

\* Every message the adapter is done with is on "legacy-mq": what is in its batch
\* log only was in hand when it died.
OnLegacyMq == {log["legacy-mq"][i] : i \in DOMAIN log["legacy-mq"]}
Forwarded == settled[Adapter] \subseteq OnLegacyMq

\* The positions are those of the trades handled since the start, those that
\* failed and went to the dead letters not among them.  A trade that a restart
\* delivers again is booked once; only one that a rebalance delivers again, to a
\* process that remembers it, is booked twice.
BookedOnce ==
  /\ \A x \in Symbols :
       positions[x] = Cardinality({b \in booked : b[2] = x /\ b[3] = 1})
                        - Cardinality({b \in booked : b[2] = x /\ b[3] = -1})
  /\ \A a, b \in booked : a[1] = b[1] => a = b \/ a[1] \in again

\* A service that is not stopped for ever gets to the end of its topics, also
\* when sends fail; one message that cannot be forwarded to the dead letters
\* does not hold up the rest.
CatchesUp ==
  \A s \in Services :
    <>[](stage[s] # "down") =>
      <>[](\A t \in Subscribed(s) : position[s][t] = Len(log[t]))
=============================================================================
