------------------------ MODULE EventPipelineProofs ------------------------
(***************************************************************************)
(* What the consumers of the event pipeline guarantee for every set of     *)
(* topics, kinds of messages and symbols, and any number of messages,      *)
(* rebalances and restarts.                                                *)
(*                                                                         *)
(* Every step of the pipeline is, for each service, one of a short list of *)
(* moves; the invariants are proved of the moves.                          *)
(*                                                                         *)
(* A service that runs has written a line about every message behind its   *)
(* position except those a reset went past and the one it has just got or  *)
(* stops for; at the moments when offsets are committed in the loop there  *)
(* is no message it has just got.  Joining a group moves it back to what   *)
(* is committed or on to the end of a topic, which is why the messages cut *)
(* off at a death need no line.                                            *)
(*                                                                         *)
(* Each service deals with its topics as TopicReader says, step by step.   *)
(* What the adapter has settled it has sent, and nothing leaves a topic.   *)
(* The processor's books are the sums of the trades it has handled since   *)
(* its start, and pruning keeps the minute bars at their limit.            *)
(***************************************************************************)
EXTENDS EventPipeline, FiniteSetTheorems, WellFoundedInduction, TLAPS

Stages == {"down", "waiting", "got", "sending", "stopping", "closing"}

\* The tables have an entry for every topic or service.
LogType == log \in [Topics -> Seq(AllKinds \cup Messages)]
Domains ==
  /\ LogType
  /\ first \in [Topics -> Nat]
  /\ DOMAIN position = Services /\ DOMAIN committed = Services
  /\ DOMAIN skipped = Services /\ stage \in [Services -> Stages]
  /\ DOMAIN inHand = Services /\ DOMAIN logged = Services
  /\ DOMAIN raised = Services /\ DOMAIN settled = Services
  /\ DOMAIN cut = Services

\* The message that s has got and not yet written about.
Unwritten(s) == IF stage[s] = "got" THEN inHand[s] ELSE {}

\* A message that s has written about, or that a reset went past, or that s stops
\* or was killed for before its traceback.
Told(s, m) == m \in logged[s] \cup skipped[s] \/ (m \in raised[s] /\ m \in inHand[s] \cup cut[s])

Types(s) ==
  /\ position[s] \in [Subscribed(s) -> Nat]
  /\ committed[s] \in [Subscribed(s) -> Nat \cup {Nothing}]
  /\ stage[s] \in Stages
  /\ inHand[s] \in SUBSET Messages
  /\ \A m, n \in inHand[s] : m = n
  /\ stage[s] \in {"down", "waiting"} => inHand[s] = {}
  /\ stage[s] = "sending" => inHand[s] \subseteq logged[s]

PositionIsLogged(s) ==
  stage[s] # "down" =>
    \A t \in Subscribed(s), i \in Nat :
      i < position[s][t] => Told(s, <<t, i>>) \/ <<t, i>> \in Unwritten(s)

CommitIsLogged(s) ==
  \A t \in Subscribed(s), i \in Nat : i < committed[s][t] => Told(s, <<t, i>>)

ServiceInv(s) == Types(s) /\ PositionIsLogged(s) /\ CommitIsLogged(s)

PInv == Domains /\ \A s \in Services : ServiceInv(s)

-----------------------------------------------------------------------------
(* The moves: what a step can be for one service *)

Level(s) ==
  \A t \in Subscribed(s) : Len(log'[t]) = Len(log[t]) /\ first'[t] = first[t]
Grown(s, t) ==
  \A u \in Subscribed(s) :
    /\ Len(log'[u]) = IF u = t THEN Len(log[u]) + 1 ELSE Len(log[u])
    /\ first'[u] = first[u]
Deleted(s, t) ==
  /\ first[t] < Len(log[t])
  /\ \A u \in Subscribed(s) :
       /\ Len(log'[u]) = Len(log[u])
       /\ first'[u] = IF u = t THEN first[u] + 1 ELSE first[u]
KeepsPlace(s) ==
  position'[s] = position[s] /\ committed'[s] = committed[s] /\ skipped'[s] = skipped[s]
KeepsBooks(s) == settled'[s] = settled[s] /\ raised'[s] = raised[s] /\ cut'[s] = cut[s]
KeepsMessage(s) == inHand'[s] = inHand[s] /\ logged'[s] = logged[s]

\* At most its topics change.
Elsewhere(s) ==
  /\ stage'[s] = stage[s] /\ KeepsMessage(s) /\ KeepsPlace(s) /\ KeepsBooks(s)
  /\ Level(s) \/ \E t \in Subscribed(s) : Grown(s, t) \/ Deleted(s, t)
Joins(s) ==
  /\ \/ stage[s] = "down" /\ stage'[s] = "waiting"
     \/ stage[s] \in {"waiting", "sending"} /\ stage'[s] = stage[s]
  /\ position'[s] = Resumed(s)
  /\ skipped'[s] = skipped[s] \cup
       UNION {From(t, committed[s][t]) : t \in {u \in Subscribed(s) : Lost(s, u)}}
  /\ committed'[s] = committed[s] /\ KeepsMessage(s) /\ KeepsBooks(s) /\ Level(s)
Resets(s, t) ==
  /\ stage[s] \in {"waiting", "sending"} /\ stage'[s] = stage[s]
  /\ position[s][t] < first[t]
  /\ position'[s] = [position[s] EXCEPT ![t] = Len(log[t])]
  /\ skipped'[s] = skipped[s] \cup From(t, position[s][t])
  /\ committed'[s] = committed[s] /\ KeepsMessage(s) /\ KeepsBooks(s) /\ Level(s)
Gets(s, t) ==
  /\ stage[s] = "waiting" /\ stage'[s] = "got"
  /\ position[s][t] < Len(log[t])
  /\ inHand'[s] = {<<t, position[s][t]>>}
  /\ position'[s] = [position[s] EXCEPT ![t] = position[s][t] + 1]
  /\ committed'[s] = committed[s] /\ skipped'[s] = skipped[s] /\ logged'[s] = logged[s]
  /\ KeepsBooks(s) /\ Level(s)
Commits(s) ==
  /\ \/ stage[s] \in {"waiting", "sending"} /\ stage'[s] = stage[s] /\ committed'[s] = position[s]
     \/ /\ stage[s] = "stopping" /\ stage'[s] = "closing"
        /\ committed'[s] = position[s] \/ committed'[s] = committed[s]
  /\ position'[s] = position[s] /\ skipped'[s] = skipped[s]
  /\ KeepsMessage(s) /\ KeepsBooks(s) /\ Level(s)
Writes(s) ==
  /\ stage[s] = "got" /\ stage'[s] = "sending" /\ inHand'[s] = inHand[s]
  /\ logged'[s] = logged[s] \cup inHand[s]
  /\ KeepsPlace(s) /\ KeepsBooks(s) /\ Level(s)
Settles(s) ==
  /\ stage[s] \in {"got", "sending"} /\ stage'[s] = "waiting"
  /\ inHand[s] # {} /\ inHand'[s] = {}
  /\ settled'[s] = settled[s] \cup inHand[s] /\ raised'[s] = raised[s] /\ cut'[s] = cut[s]
  /\ logged[s] \cup Unwritten(s) \subseteq logged'[s]
  /\ KeepsPlace(s) /\ Level(s)
Raises(s) ==
  /\ stage[s] \in {"got", "sending"} /\ stage'[s] = "stopping"
  /\ inHand[s] # {} /\ inHand'[s] = inHand[s]
  /\ raised'[s] = raised[s] \cup inHand[s] /\ settled'[s] = settled[s] /\ cut'[s] = cut[s]
  /\ logged[s] \subseteq logged'[s]
  /\ KeepsPlace(s) /\ Level(s)
Closes(s) ==
  /\ stage[s] = "closing" /\ stage'[s] = "down" /\ inHand'[s] = {}
  /\ logged'[s] = logged[s] \cup inHand[s]
  /\ KeepsPlace(s) /\ KeepsBooks(s) /\ Level(s)
IsKilled(s) ==
  /\ stage[s] # "down" /\ stage'[s] = "down" /\ inHand'[s] = {}
  /\ cut'[s] = cut[s] \cup inHand[s] /\ settled'[s] = settled[s] /\ raised'[s] = raised[s]
  /\ logged'[s] = logged[s] /\ KeepsPlace(s) /\ Level(s)

Move(s) ==
  \/ Elsewhere(s) \/ Joins(s) \/ Commits(s) \/ Writes(s) \/ Settles(s)
  \/ Raises(s) \/ Closes(s) \/ IsKilled(s)
  \/ \E t \in Subscribed(s) : Resets(s, t) \/ Gets(s, t)

\* The services are told apart by their names.
LEMMA ServiceNames == Services = {Processor, Adapter} /\ Processor # Adapter
  BY DEF Services, Processor, Adapter

\* A service reads topics that there are.
LEMMA TopicsExist == \A s \in Services : Subscribed(s) \subseteq Topics
  BY DEF Subscribed, Topics

\* A topic has a length.
LEMMA TopicsHaveLength == Domains => \A t \in Topics : Len(log[t]) \in Nat
  BY DEF Domains, LogType

\* What a reset goes past.
LEMMA FromHolds ==
  ASSUME NEW t, Len(log[t]) \in Nat, NEW n \in Int, NEW i \in Nat, n <= i, i < Len(log[t])
  PROVE  <<t, i>> \in From(t, n)
  BY DEF From

-----------------------------------------------------------------------------
(* Each move keeps the part of a service in the invariant *)

\* A message that is told of stays so.
LEMMA ToldStays ==
  ASSUME NEW s \in Services, ServiceInv(s), Move(s), NEW m, Told(s, m)
  PROVE  Told(s, m)'
<1> USE DEF Told, KeepsMessage, KeepsBooks, KeepsPlace
<1>1. CASE Elsewhere(s) \/ Joins(s) \/ Commits(s)
  BY <1>1 DEF Elsewhere, Joins, Commits
<1>2. CASE Writes(s) \/ Raises(s) \/ Closes(s) \/ IsKilled(s)
  BY <1>2 DEF Writes, Raises, Closes, IsKilled
<1>3. CASE Settles(s)
  <2>1. inHand[s] \subseteq logged'[s]
    BY <1>3 DEF Settles, Unwritten, ServiceInv, Types
  <2> QED
    BY <1>3, <2>1 DEF Settles
<1>4. ASSUME NEW t \in Subscribed(s), Resets(s, t) PROVE Told(s, m)'
  BY <1>4 DEF Resets
<1>5. ASSUME NEW t \in Subscribed(s), Gets(s, t) PROVE Told(s, m)'
  <2>1. inHand[s] = {}
    BY <1>5 DEF Gets, ServiceInv, Types
  <2> QED
    BY <1>5, <2>1 DEF Gets
<1> QED
  BY <1>1, <1>2, <1>3, <1>4, <1>5 DEF Move

\* The types of a service stay.
LEMMA TypesStay ==
  ASSUME NEW s \in Services, Domains, Types(s), Move(s)
  PROVE  Types(s)'
<1>0. /\ position[s] \in [Subscribed(s) -> Nat]
      /\ committed[s] \in [Subscribed(s) -> Nat \cup {Nothing}]
      /\ inHand[s] \in SUBSET Messages
      /\ \A t \in Subscribed(s) : Len(log[t]) \in Nat /\ first[t] \in Nat /\ t \in Topics
  BY TopicsExist, TopicsHaveLength DEF Types, Domains
<1> USE DEF KeepsMessage, KeepsBooks, KeepsPlace
<1>1. CASE Elsewhere(s)
  BY <1>1 DEF Elsewhere, Types, Messages, Stages
<1>2. CASE Joins(s)
  <2>1. \A t \in Subscribed(s) : ~Lost(s, t) => committed[s][t] \in Nat
    BY <1>0 DEF Lost, Nothing
  <2>2. position'[s] \in [Subscribed(s) -> Nat]
    BY <1>0, <1>2, <2>1 DEF Joins, Resumed
  <2> QED
    BY <1>2, <2>2 DEF Joins, Types, Messages, Stages
<1>3. CASE Commits(s)
  BY <1>0, <1>3 DEF Commits, Types, Messages, Stages
<1>4. CASE Writes(s)
  BY <1>4 DEF Writes, Types, Messages, Stages
<1>5. CASE Settles(s)
  BY <1>5 DEF Settles, Types, Messages, Stages
<1>6. CASE Raises(s)
  BY <1>6 DEF Raises, Types, Messages, Stages
<1>7. CASE Closes(s) \/ IsKilled(s)
  BY <1>7 DEF Closes, IsKilled, Types, Messages, Stages
<1>8. ASSUME NEW t \in Subscribed(s), Resets(s, t) PROVE Types(s)'
  <2>1. position'[s] \in [Subscribed(s) -> Nat]
    BY <1>0, <1>8 DEF Resets
  <2> QED
    BY <1>8, <2>1 DEF Resets, Types, Messages, Stages
<1>9. ASSUME NEW t \in Subscribed(s), Gets(s, t) PROVE Types(s)'
  <2>1. position'[s] \in [Subscribed(s) -> Nat]
    BY <1>0, <1>9 DEF Gets
  <2>2. inHand'[s] \in SUBSET Messages
    BY <1>0, <1>9 DEF Gets, Messages
  <2> QED
    BY <1>9, <2>1, <2>2 DEF Gets, Types, Messages, Stages
<1> QED
  BY <1>1, <1>2, <1>3, <1>4, <1>5, <1>6, <1>7, <1>8, <1>9 DEF Move

\* No move leaves a message behind the position without a line, but the one it gets.
LEMMA PositionStaysLogged ==
  ASSUME NEW s \in Services, Domains, ServiceInv(s), Move(s)
  PROVE  PositionIsLogged(s)'
<1> SUFFICES ASSUME stage'[s] # "down", NEW t \in Subscribed(s), NEW i \in Nat, i < position'[s][t]
             PROVE  Told(s, <<t, i>>)' \/ <<t, i>> \in Unwritten(s)'
  BY DEF PositionIsLogged
<1>0. /\ position[s] \in [Subscribed(s) -> Nat]
      /\ committed[s] \in [Subscribed(s) -> Nat \cup {Nothing}]
      /\ Len(log[t]) \in Nat /\ first[t] \in Nat
  BY TopicsExist, TopicsHaveLength DEF ServiceInv, Types, Domains
<1>1. Told(s, <<t, i>>) => Told(s, <<t, i>>)'
  BY ToldStays
<1>2. stage[s] # "down" /\ i < position[s][t] => Told(s, <<t, i>>) \/ <<t, i>> \in Unwritten(s)
  BY DEF ServiceInv, PositionIsLogged
<1> USE DEF KeepsMessage, KeepsBooks, KeepsPlace
<1>3. CASE Elsewhere(s)
  BY <1>1, <1>2, <1>3 DEF Elsewhere, Unwritten
<1>4. CASE Joins(s)
  <2>1. CASE Lost(s, t)
    <3>1. i < Len(log[t])
      BY <1>4, <2>1 DEF Joins, Resumed
    <3>2. CASE i < committed[s][t]
      BY <1>1, <3>2 DEF ServiceInv, CommitIsLogged
    <3>3. CASE ~(i < committed[s][t])
      <4>1. committed[s][t] \in Int /\ committed[s][t] <= i
        BY <1>0, <3>3 DEF Nothing
      <4>2. <<t, i>> \in From(t, committed[s][t])
        BY <1>0, <3>1, <4>1, FromHolds
      <4>3. <<t, i>> \in skipped'[s]
        BY <1>4, <2>1, <4>2 DEF Joins
      <4> QED
        BY <4>3 DEF Told
    <3> QED
      BY <3>2, <3>3
  <2>2. CASE ~Lost(s, t)
    <3>1. i < committed[s][t]
      BY <1>4, <2>2 DEF Joins, Resumed
    <3> QED
      BY <1>1, <3>1 DEF ServiceInv, CommitIsLogged
  <2> QED
    BY <2>1, <2>2
<1>5. CASE Commits(s)
  BY <1>1, <1>2, <1>5 DEF Commits, Unwritten
<1>6. CASE Writes(s)
  BY <1>1, <1>2, <1>6 DEF Writes, Unwritten, Told
<1>7. CASE Settles(s)
  BY <1>1, <1>2, <1>7 DEF Settles, Unwritten, Told
<1>8. CASE Raises(s)
  BY <1>1, <1>2, <1>8 DEF Raises, Unwritten, Told
<1>9. CASE Closes(s) \/ IsKilled(s)
  BY <1>9 DEF Closes, IsKilled
<1>10. ASSUME NEW u \in Subscribed(s), Resets(s, u)
       PROVE  Told(s, <<t, i>>)' \/ <<t, i>> \in Unwritten(s)'
  <2>1. CASE i < position[s][t]
    <3>1. Unwritten(s) = {}
      BY <1>10 DEF Resets, Unwritten
    <3> QED
      BY <1>1, <1>2, <1>10, <2>1, <3>1 DEF Resets
  <2>2. CASE ~(i < position[s][t])
    <3>1. u = t /\ i < Len(log[t]) /\ position[s][t] <= i /\ position[s][t] \in Int
      BY <1>0, <1>10, <2>2 DEF Resets
    <3>2. <<t, i>> \in From(t, position[s][t])
      BY <1>0, <3>1, FromHolds
    <3> QED
      BY <1>10, <3>1, <3>2 DEF Resets, Told
  <2> QED
    BY <2>1, <2>2
<1>11. ASSUME NEW u \in Subscribed(s), Gets(s, u)
       PROVE  Told(s, <<t, i>>)' \/ <<t, i>> \in Unwritten(s)'
  <2>1. CASE i < position[s][t]
    <3>1. Unwritten(s) = {}
      BY <1>11 DEF Gets, Unwritten
    <3> QED
      BY <1>1, <1>2, <1>11, <2>1, <3>1 DEF Gets
  <2>2. CASE ~(i < position[s][t])
    <3>1. u = t /\ i = position[s][t]
      BY <1>0, <1>11, <2>2 DEF Gets
    <3> QED
      BY <1>11, <3>1 DEF Gets, Unwritten
  <2> QED
    BY <2>1, <2>2
<1> QED
  BY <1>3, <1>4, <1>5, <1>6, <1>7, <1>8, <1>9, <1>10, <1>11 DEF Move

\* Offsets are committed when nothing is unwritten.
LEMMA CommitStaysLogged ==
  ASSUME NEW s \in Services, ServiceInv(s), Move(s)
  PROVE  CommitIsLogged(s)'
<1> SUFFICES ASSUME NEW t \in Subscribed(s), NEW i \in Nat, i < committed'[s][t]
             PROVE  Told(s, <<t, i>>)'
  BY DEF CommitIsLogged
<1>1. CASE committed'[s] = committed[s]
  BY <1>1, ToldStays DEF ServiceInv, CommitIsLogged
<1>2. CASE committed'[s] # committed[s]
  <2>1. committed'[s] = position[s] /\ Unwritten(s) = {} /\ stage[s] # "down"
    BY <1>2 DEF Move, Elsewhere, Joins, Commits, Writes, Settles, Raises, Closes, IsKilled,
                Resets, Gets, KeepsPlace, Unwritten
  <2>2. Told(s, <<t, i>>)
    BY <2>1 DEF ServiceInv, PositionIsLogged
  <2> QED
    BY <2>2, ToldStays
<1> QED
  BY <1>1, <1>2

\* Whatever a step is for a service keeps its part of the invariant.
LEMMA MoveKeeps ==
  ASSUME NEW s \in Services, Domains, ServiceInv(s), Move(s)
  PROVE  ServiceInv(s)'
  BY TypesStay, PositionStaysLogged, CommitStaysLogged DEF ServiceInv

-----------------------------------------------------------------------------
(* Every step of the pipeline is such a move of both services.  What one       *)
(* service does is for the other at most a message that somebody wrote.        *)

\* What leaves the topics alone leaves them alone for every service.
LEMMA TopicsLevel == ASSUME UNCHANGED topics, NEW s PROVE Level(s)
  BY DEF topics, Level

\* A message that the adapter sends is one more on a topic of the event processor;
\* the adapter itself does not read the topic it writes to.
LEMMA SentGrows ==
  ASSUME Domains, NEW s \in Services, NEW m, Sent(m)
  PROVE  /\ s = Adapter => Level(s)
         /\ s # Adapter => \E t \in Subscribed(s) : Grown(s, t)
<1>0. "legacy-mq" \in Topics /\ "legacy-mq" \notin Inputs
  BY PipelineAssumption DEF Topics
<1>1. /\ log' = [log EXCEPT !["legacy-mq"] = Append(@, m)] /\ first' = first
      /\ log["legacy-mq"] \in Seq(AllKinds \cup Messages) /\ DOMAIN log = Topics
  BY <1>0 DEF Sent, Domains, LogType
<1>2. CASE s = Adapter
  <2>1. "legacy-mq" \notin Subscribed(s)
    BY <1>0, <1>2 DEF Subscribed
  <2>2. Level(s)
    BY <1>1, <2>1, TopicsExist DEF Level
  <2> QED
    BY <1>2, <2>2
<1>3. CASE s # Adapter
  <2>1. Subscribed(s) = Topics
    BY <1>3 DEF Subscribed
  <2>2. Len(Append(log["legacy-mq"], m)) = Len(log["legacy-mq"]) + 1
    BY <1>1
  <2>3. Grown(s, "legacy-mq")
    BY <1>0, <1>1, <2>1, <2>2 DEF Grown
  <2> QED
    BY <1>0, <1>3, <2>1, <2>3
<1> QED
  BY <1>2, <1>3

\* So is one that it may have sent.
LEMMA PerhapsSentGrows ==
  ASSUME Domains, NEW u \in Services, PerhapsSent(u), NEW s \in Services
  PROVE  /\ Level(s) \/ \E t \in Subscribed(s) : Grown(s, t)
         /\ s = u => Level(s)
<1>1. CASE UNCHANGED topics
  BY <1>1, TopicsLevel
<1>2. CASE u = Adapter /\ \E m \in inHand[u] : Sent(m)
  BY <1>2, SentGrows
<1> QED
  BY <1>1, <1>2 DEF PerhapsSent

\* What others write is a message more.
LEMMA WriteMove ==
  ASSUME Domains, NEW t \in Inputs, NEW kind \in Kinds[t], Write(t, kind), NEW s \in Services
  PROVE  Move(s)
<1>1. t \in Topics /\ log[t] \in Seq(AllKinds \cup Messages) /\ kind \in AllKinds
  BY PipelineAssumption DEF Topics, Domains, LogType
<1>2. log' = [log EXCEPT ![t] = Append(@, kind)] /\ first' = first /\ DOMAIN log = Topics
  BY DEF Write, Domains, LogType
<1>3. Len(Append(log[t], kind)) = Len(log[t]) + 1
  BY <1>1
<1>4. CASE t \in Subscribed(s)
  <2>1. Grown(s, t)
    BY <1>1, <1>2, <1>3, TopicsExist DEF Grown
  <2> QED
    BY <1>4, <2>1
       DEF Write, Move, Elsewhere, KeepsMessage, KeepsPlace, KeepsBooks, offsets, history
<1>5. CASE t \notin Subscribed(s)
  <2>1. Level(s)
    BY <1>1, <1>2, <1>5, TopicsExist DEF Level
  <2> QED
    BY <2>1 DEF Write, Move, Elsewhere, KeepsMessage, KeepsPlace, KeepsBooks, offsets, history
<1> QED
  BY <1>4, <1>5

\* What Kafka deletes moves the first message of a topic.
LEMMA ExpireMove ==
  ASSUME Domains, NEW t \in Topics, Expire(t), NEW s \in Services
  PROVE  Move(s)
<1>1. first' = [first EXCEPT ![t] = @ + 1] /\ log' = log /\ first[t] < Len(log[t])
      /\ DOMAIN first = Topics
  BY DEF Expire, Domains
<1>2. CASE t \in Subscribed(s)
  <2>1. Deleted(s, t)
    BY <1>1, TopicsExist DEF Deleted
  <2> QED
    BY <1>2, <2>1
       DEF Expire, Move, Elsewhere, KeepsMessage, KeepsPlace, KeepsBooks, offsets, history
<1>3. CASE t \notin Subscribed(s)
  <2>1. Level(s)
    BY <1>1, <1>3, TopicsExist DEF Level
  <2> QED
    BY <2>1 DEF Expire, Move, Elsewhere, KeepsMessage, KeepsPlace, KeepsBooks, offsets, history
<1> QED
  BY <1>2, <1>3

\* A service that does something by itself leaves the other alone.
LEMMA OthersMove ==
  ASSUME NEW s \in Services, Level(s) \/ \E t \in Subscribed(s) : Grown(s, t),
         stage'[s] = stage[s], KeepsMessage(s), KeepsPlace(s), KeepsBooks(s)
  PROVE  Move(s)
  BY DEF Move, Elsewhere

\* Joining the group is a move.
LEMMA JoinMove ==
  ASSUME Domains, NEW u \in Services, Start(u) \/ Rejoin(u), NEW s \in Services
  PROVE  Move(s)
<1>0. Level(s)
  BY TopicsLevel DEF Start, Rejoin
<1>1. CASE s = u
  <2>1. Joins(s)
    BY <1>0, <1>1
       DEF Start, Rejoin, Skips, Joins, Domains, KeepsMessage, KeepsBooks, history
  <2> QED
    BY <2>1 DEF Move
<1>2. CASE s # u
  BY <1>0, <1>2, OthersMove
     DEF Start, Rejoin, Skips, Domains, KeepsMessage, KeepsPlace, KeepsBooks, history
<1> QED
  BY <1>1, <1>2

\* So are getting a message and the consumer's reset.
LEMMA ReadMove ==
  ASSUME Domains, NEW u \in Services, NEW t \in Subscribed(u), Get(u, t) \/ Reset(u, t),
         NEW s \in Services
  PROVE  Move(s)
<1>0. Level(s)
  BY TopicsLevel DEF Get, Reset
<1>1. CASE s = u
  <2>1. CASE Get(u, t)
    <3>1. Gets(s, t)
      BY <1>0, <1>1, <2>1 DEF Get, Gets, Domains, KeepsBooks, history
    <3> QED
      BY <1>1, <3>1 DEF Move
  <2>2. CASE Reset(u, t)
    <3>1. Resets(s, t)
      BY <1>0, <1>1, <2>2 DEF Reset, Resets, Domains, KeepsMessage, KeepsBooks, history
    <3> QED
      BY <1>1, <3>1 DEF Move
  <2> QED
    BY <2>1, <2>2
<1>2. CASE s # u
  BY <1>0, <1>2, OthersMove
     DEF Get, Reset, Domains, KeepsMessage, KeepsPlace, KeepsBooks, history
<1> QED
  BY <1>1, <1>2

\* So are the commits, in the loop and at the end.
LEMMA CommitMove ==
  ASSUME Domains, NEW u \in Services, AutoCommit(u) \/ StopConsumer(u), NEW s \in Services
  PROVE  Move(s)
<1>0. Level(s)
  BY TopicsLevel DEF AutoCommit, StopConsumer
<1>1. CASE s = u
  <2>1. CASE AutoCommit(u)
    <3>1. Commits(s)
      BY <1>0, <1>1, <2>1 DEF AutoCommit, Commits, Domains, KeepsMessage, KeepsBooks, history
    <3> QED
      BY <3>1 DEF Move
  <2>2. CASE StopConsumer(u)
    <3>1. Commits(s)
      BY <1>0, <1>1, <2>2 DEF StopConsumer, Commits, Domains, KeepsMessage, KeepsBooks, history
    <3> QED
      BY <3>1 DEF Move
  <2> QED
    BY <2>1, <2>2
<1>2. CASE s # u
  BY <1>0, <1>2, OthersMove
     DEF AutoCommit, StopConsumer, Domains, KeepsMessage, KeepsPlace, KeepsBooks, history
<1> QED
  BY <1>1, <1>2

\* So is the end of the process.
LEMMA CloseMove ==
  ASSUME Domains, NEW u \in Services, StopProducer(u), NEW s \in Services
  PROVE  Move(s)
<1>0. Level(s)
  BY TopicsLevel DEF StopProducer
<1>1. CASE s = u
  <2>1. Closes(s)
    BY <1>0, <1>1 DEF StopProducer, Closes, Domains, KeepsPlace, KeepsBooks, offsets, history
  <2> QED
    BY <2>1 DEF Move
<1>2. CASE s # u
  BY <1>0, <1>2, OthersMove
     DEF StopProducer, Domains, KeepsMessage, KeepsPlace, KeepsBooks, offsets, history
<1> QED
  BY <1>1, <1>2

\* So is a kill, with a send under way or not.
LEMMA KillMove ==
  ASSUME Domains, NEW u \in Services, Kill(u), NEW s \in Services
  PROVE  Move(s)
<1>0. /\ Level(s) \/ \E t \in Subscribed(s) : Grown(s, t)
      /\ s = u => Level(s)
  BY PerhapsSentGrows DEF Kill
<1>1. CASE s = u
  <2>1. IsKilled(s)
    BY <1>0, <1>1 DEF Kill, IsKilled, Domains, KeepsPlace, offsets
  <2> QED
    BY <2>1 DEF Move
<1>2. CASE s # u
  BY <1>0, <1>2, OthersMove
     DEF Kill, Domains, KeepsMessage, KeepsPlace, KeepsBooks, offsets
<1> QED
  BY <1>1, <1>2

\* So is an exception of process_message.
LEMMA RaiseMove ==
  ASSUME Domains, NEW u \in Services, stage[u] \in {"got", "sending"}, inHand[u] # {},
         Raise(u), logged' = logged \/ logged' = [logged EXCEPT ![u] = @ \cup inHand[u]],
         NEW s \in Services,
         Level(s) \/ \E t \in Subscribed(s) : Grown(s, t), s = u => Level(s)
  PROVE  Move(s)
<1>1. CASE s = u
  <2>1. Raises(s)
    BY <1>1 DEF Raise, Raises, Domains, KeepsPlace, offsets
  <2> QED
    BY <2>1 DEF Move
<1>2. CASE s # u
  BY <1>2, OthersMove DEF Raise, Domains, KeepsMessage, KeepsPlace, KeepsBooks, offsets
<1> QED
  BY <1>1, <1>2

\* So is the return of process_message from a message that has its line.
LEMMA ReturnMove ==
  ASSUME Domains, NEW u \in Services, stage[u] \in {"got", "sending"}, inHand[u] # {}, Return(u),
         \/ stage[u] = "sending" /\ logged' = logged
         \/ logged' = [logged EXCEPT ![u] = @ \cup inHand[u]],
         NEW s \in Services,
         Level(s) \/ \E t \in Subscribed(s) : Grown(s, t), s = u => Level(s)
  PROVE  Move(s)
<1>1. CASE s = u
  <2>1. Settles(s)
    BY <1>1 DEF Return, Settles, Unwritten, Domains, KeepsPlace, offsets
  <2> QED
    BY <2>1 DEF Move
<1>2. CASE s # u
  BY <1>2, OthersMove DEF Return, Domains, KeepsMessage, KeepsPlace, KeepsBooks, offsets
<1> QED
  BY <1>1, <1>2

\* So are a line and the beginning of a send.
LEMMA LogAndSendMove ==
  ASSUME Domains, NEW u \in Services, stage[u] = "got", LogAndSend(u), NEW s \in Services
  PROVE  Move(s)
<1>0. Level(s)
  BY TopicsLevel DEF LogAndSend
<1>1. CASE s = u
  <2>1. Writes(s)
    BY <1>0, <1>1 DEF LogAndSend, Writes, Domains, KeepsPlace, KeepsBooks, offsets, history
  <2> QED
    BY <2>1 DEF Move
<1>2. CASE s # u
  BY <1>0, <1>2, OthersMove
     DEF LogAndSend, Domains, KeepsMessage, KeepsPlace, KeepsBooks, offsets, history
<1> QED
  BY <1>1, <1>2

\* What the adapter does with a message is a move of each service.
LEMMA AdaptMove ==
  ASSUME Domains, NEW m \in inHand[Adapter],
         PrintBatch(m) \/ Unusable(m) \/ SendLegacy(m) \/ SendLegacyFails(m),
         NEW s \in Services
  PROVE  Move(s)
<1>0. Adapter \in Services /\ inHand[Adapter] # {}
  BY ServiceNames
<1>1. CASE PrintBatch(m)
  BY <1>0, <1>1, LogAndSendMove DEF PrintBatch
<1>2. CASE Unusable(m)
  <2>1. Level(s)
    BY <1>2, TopicsLevel DEF Unusable
  <2> QED
    BY <1>0, <1>2, <2>1, RaiseMove DEF Unusable
<1>3. CASE SendLegacy(m)
  <2>1. /\ Level(s) \/ \E t \in Subscribed(s) : Grown(s, t)
        /\ s = Adapter => Level(s)
    BY <1>3, SentGrows DEF SendLegacy
  <2> QED
    BY <1>0, <1>3, <2>1, ReturnMove DEF SendLegacy
<1>4. CASE SendLegacyFails(m)
  <2>1. /\ Level(s) \/ \E t \in Subscribed(s) : Grown(s, t)
        /\ s = Adapter => Level(s)
    BY <1>0, <1>4, PerhapsSentGrows DEF SendLegacyFails
  <2> QED
    BY <1>0, <1>4, <2>1, RaiseMove DEF SendLegacyFails
<1> QED
  BY <1>1, <1>2, <1>3, <1>4

\* So is what the event processor does.
LEMMA ProcessMove ==
  ASSUME Domains, ServiceInv(Processor), NEW m \in inHand[Processor],
         \/ handle_trades(m) \/ handle_market_data(m) \/ handle_others(m)
         \/ Failed(m) \/ KeyRaises(m) \/ NotAnObject(m) \/ _send_to_dlq(m),
         NEW s \in Services
  PROVE  Move(s)
<1>0. Processor \in Services /\ inHand[Processor] = {m} /\ inHand[Processor] # {}
  BY ServiceNames DEF ServiceInv, Types
<1>1. CASE handle_trades(m) \/ handle_market_data(m) \/ handle_others(m)
  <2>1. Handled(m)
    BY <1>1 DEF handle_trades, handle_market_data, handle_others
  <2>2. Level(s)
    BY <2>1, TopicsLevel DEF Handled
  <2> QED
    BY <1>0, <2>1, <2>2, ReturnMove DEF Handled
<1>2. CASE Failed(m)
  BY <1>0, <1>2, LogAndSendMove DEF Failed
<1>3. CASE KeyRaises(m)
  <2>1. Level(s)
    BY <1>3, TopicsLevel DEF KeyRaises
  <2> QED
    BY <1>0, <1>3, <2>1, RaiseMove DEF KeyRaises
<1>4. CASE NotAnObject(m)
  <2>1. Level(s)
    BY <1>4, TopicsLevel DEF NotAnObject
  <2> QED
    BY <1>0, <1>4, <2>1, RaiseMove DEF NotAnObject
<1>5. CASE _send_to_dlq(m)
  <2>1. Level(s)
    BY <1>5, TopicsLevel DEF _send_to_dlq
  <2> QED
    BY <1>0, <1>5, <2>1, ReturnMove DEF _send_to_dlq
<1> QED
  BY <1>1, <1>2, <1>3, <1>4, <1>5

\* Every step is a move of every service.
LEMMA EveryStep == PInv /\ Next => \A s \in Services : Move(s)
<1> SUFFICES ASSUME PInv, Next, NEW s \in Services PROVE Move(s)
  OBVIOUS
<1>0. Domains /\ \A u \in Services : ServiceInv(u)
  BY DEF PInv
<1>1. ASSUME NEW t \in Inputs, NEW kind \in Kinds[t], Write(t, kind) PROVE Move(s)
  BY <1>0, <1>1, WriteMove
<1>2. ASSUME NEW t \in Topics, Expire(t) PROVE Move(s)
  BY <1>0, <1>2, ExpireMove
<1>3. ASSUME NEW u \in Services, Start(u) \/ Rejoin(u) PROVE Move(s)
  BY <1>0, <1>3, JoinMove
<1>4. ASSUME NEW u \in Services, AutoCommit(u) \/ StopConsumer(u) PROVE Move(s)
  BY <1>0, <1>4, CommitMove
<1>5. ASSUME NEW u \in Services, Kill(u) PROVE Move(s)
  BY <1>0, <1>5, KillMove
<1>6. ASSUME NEW u \in Services, StopProducer(u) PROVE Move(s)
  BY <1>0, <1>6, CloseMove
<1>7. ASSUME NEW u \in Services, NEW t \in Subscribed(u), Get(u, t) \/ Reset(u, t) PROVE Move(s)
  BY <1>0, <1>7, ReadMove
<1>8. ASSUME Adapt PROVE Move(s)
  BY <1>0, <1>8, AdaptMove DEF Adapt
<1>9. ASSUME Process PROVE Move(s)
  <2>1. ServiceInv(Processor)
    BY <1>0, ServiceNames
  <2> QED
    BY <1>0, <1>9, <2>1, ProcessMove DEF Process
<1> QED
  BY <1>1, <1>2, <1>3, <1>4, <1>5, <1>6, <1>7, <1>8, <1>9 DEF Next, Work

-----------------------------------------------------------------------------
(* The tables, and the invariant *)

DomainsOfServices ==
  /\ DOMAIN position = Services /\ DOMAIN committed = Services
  /\ DOMAIN skipped = Services /\ stage \in [Services -> Stages]
  /\ DOMAIN inHand = Services /\ DOMAIN logged = Services
  /\ DOMAIN raised = Services /\ DOMAIN settled = Services
  /\ DOMAIN cut = Services

\* What is sent is a message.
LEMMA SentType ==
  ASSUME LogType, NEW m \in Messages, Sent(m) PROVE LogType'
<1>1. log' = [log EXCEPT !["legacy-mq"] = Append(@, m)]
  BY DEF Sent
<1>2. m \in AllKinds \cup Messages /\ "legacy-mq" \in Topics
  BY DEF Topics
<1> QED
  BY <1>1, <1>2 DEF LogType, Messages

\* Every step keeps the topics topics of messages.
LEMMA LogStep == PInv /\ Next => LogType' /\ first' \in [Topics -> Nat]
<1> SUFFICES ASSUME PInv, Next PROVE LogType' /\ first' \in [Topics -> Nat]
  OBVIOUS
<1>0. /\ LogType /\ first \in [Topics -> Nat]
      /\ \A s \in Services : inHand[s] \subseteq Messages
      /\ Processor \in Services /\ Adapter \in Services
  BY ServiceNames DEF PInv, Domains, ServiceInv, Types
<1> DEFINE Kept_ == LogType' /\ first' \in [Topics -> Nat]
<1>1. ASSUME UNCHANGED topics PROVE Kept_
  BY <1>0, <1>1 DEF LogType, Messages, topics
<1>2. ASSUME NEW m \in Messages, Sent(m) PROVE Kept_
  BY <1>0, <1>2, SentType DEF Sent
<1>3. ASSUME NEW u \in Services, PerhapsSent(u) PROVE Kept_
  BY <1>0, <1>1, <1>2, <1>3 DEF PerhapsSent
<1> HIDE DEF Kept_
<1>4. ASSUME NEW t \in Inputs, NEW kind \in Kinds[t], Write(t, kind) PROVE Kept_
  <2>1. log' = [log EXCEPT ![t] = Append(@, kind)] /\ first' = first
    BY <1>4 DEF Write
  <2>2. t \in Topics /\ kind \in AllKinds
    BY PipelineAssumption DEF Topics
  <2> QED
    BY <1>0, <2>1, <2>2 DEF LogType, Messages, Kept_
<1>5. ASSUME NEW t \in Topics, Expire(t) PROVE Kept_
  BY <1>0, <1>5 DEF Expire, LogType, Messages, Kept_
<1>6. ASSUME NEW u \in Services,
             \/ Start(u) \/ Rejoin(u) \/ AutoCommit(u) \/ StopConsumer(u) \/ StopProducer(u)
             \/ \E t \in Subscribed(u) : Get(u, t) \/ Reset(u, t)
      PROVE  Kept_
  BY <1>1, <1>6 DEF Start, Rejoin, AutoCommit, StopConsumer, StopProducer, Get, Reset
<1>7. ASSUME NEW u \in Services, Kill(u) PROVE Kept_
  BY <1>3, <1>7 DEF Kill
<1>8. ASSUME Adapt PROVE Kept_
  <2>1. PICK m \in inHand[Adapter] :
          PrintBatch(m) \/ Unusable(m) \/ SendLegacy(m) \/ SendLegacyFails(m)
    BY <1>8 DEF Adapt
  <2>2. CASE PrintBatch(m) \/ Unusable(m)
    BY <1>1, <2>2 DEF PrintBatch, Unusable, LogAndSend
  <2>3. CASE SendLegacy(m)
    BY <1>0, <1>2, <2>3 DEF SendLegacy
  <2>4. CASE SendLegacyFails(m)
    BY <1>0, <1>3, <2>4 DEF SendLegacyFails
  <2> QED
    BY <2>1, <2>2, <2>3, <2>4
<1>9. ASSUME Process PROVE Kept_
  BY <1>1, <1>9
     DEF Process, handle_trades, handle_market_data, handle_others, Handled, Failed,
         LogAndSend, KeyRaises, NotAnObject, _send_to_dlq
<1> QED
  BY <1>4, <1>5, <1>6, <1>7, <1>8, <1>9 DEF Next, Work, Kept_

\* Every step changes the tables of the services in the entry of one of them.
LEMMA DomainsStep == DomainsOfServices /\ Next => DomainsOfServices'
<1> SUFFICES ASSUME DomainsOfServices, Next PROVE DomainsOfServices'
  OBVIOUS
<1> USE DEF DomainsOfServices, Stages, offsets, history
<1>1. ASSUME NEW t \in Inputs, NEW kind \in Kinds[t], Write(t, kind)
      PROVE  DomainsOfServices'
  BY <1>1 DEF Write
<1>2. ASSUME NEW t \in Topics, Expire(t) PROVE DomainsOfServices'
  BY <1>2 DEF Expire
<1>3. ASSUME NEW u \in Services, Start(u) \/ Rejoin(u) PROVE DomainsOfServices'
  BY <1>3 DEF Start, Rejoin, Skips
<1>4. ASSUME NEW u \in Services, AutoCommit(u) \/ StopConsumer(u) PROVE DomainsOfServices'
  BY <1>4 DEF AutoCommit, StopConsumer
<1>5. ASSUME NEW u \in Services, Kill(u) \/ StopProducer(u) PROVE DomainsOfServices'
  BY <1>5 DEF Kill, StopProducer
<1>6. ASSUME NEW u \in Services, NEW t \in Subscribed(u), Get(u, t) \/ Reset(u, t)
      PROVE  DomainsOfServices'
  BY <1>6 DEF Get, Reset
<1>7. ASSUME NEW u \in Services, Raise(u), DOMAIN logged' = Services PROVE DomainsOfServices'
  BY <1>7 DEF Raise
<1>8. ASSUME NEW u \in Services, LogAndSend(u) PROVE DomainsOfServices'
  BY <1>8 DEF LogAndSend
<1>9. ASSUME NEW u \in Services, Return(u), DOMAIN logged' = Services
      PROVE  DomainsOfServices'
  BY <1>9 DEF Return
<1>10. ASSUME Adapt PROVE DomainsOfServices'
  BY <1>7, <1>8, <1>9, <1>10, ServiceNames
     DEF Adapt, PrintBatch, Unusable, SendLegacy, SendLegacyFails
<1>11. ASSUME Process PROVE DomainsOfServices'
  BY <1>7, <1>8, <1>9, <1>11, ServiceNames
     DEF Process, handle_trades, handle_market_data, handle_others, Handled, Failed,
         KeyRaises, NotAnObject, _send_to_dlq
<1> QED
  BY <1>1, <1>2, <1>3, <1>4, <1>5, <1>6, <1>10, <1>11 DEF Next, Work

\* At the start no service runs and nothing is committed.
LEMMA PInvInit == Init => PInv
<1> SUFFICES ASSUME Init PROVE PInv
  OBVIOUS
<1>1. Domains
  BY DEF Init, Domains, LogType, Flat, Stages
<1>2. ASSUME NEW s \in Services PROVE ServiceInv(s)
  <2>1. /\ position[s] = [t \in Subscribed(s) |-> 0]
        /\ committed[s] = [t \in Subscribed(s) |-> Nothing]
        /\ stage[s] = "down" /\ inHand[s] = {}
    BY DEF Init, Flat
  <2>2. Types(s) /\ PositionIsLogged(s)
    BY <2>1 DEF Types, Stages, PositionIsLogged
  <2>3. \A i \in Nat : ~(i < Nothing)
    BY DEF Nothing
  <2>4. CommitIsLogged(s)
    BY <2>1, <2>3 DEF CommitIsLogged
  <2> QED
    BY <2>2, <2>4 DEF ServiceInv
<1> QED
  BY <1>1, <1>2 DEF PInv

\* The inductive invariant of the pipeline.
THEOREM PipelineInvariant == Spec => []PInv
<1>1. ASSUME PInv, [Next]_vars PROVE PInv'
  <2>1. CASE Next
    <3>1. Domains'
      BY <1>1, <2>1, LogStep, DomainsStep DEF PInv, Domains, DomainsOfServices
    <3>2. ASSUME NEW s \in Services PROVE ServiceInv(s)'
      BY <1>1, <2>1, EveryStep, MoveKeeps DEF PInv
    <3> QED
      BY <3>1, <3>2 DEF PInv
  <2>2. CASE UNCHANGED vars
    <3>1. Domains'
      BY <1>1, <2>2
         DEF vars, topics, offsets, history, PInv, Domains, LogType, Messages
    <3>2. ASSUME NEW s \in Services PROVE ServiceInv(s)'
      BY <1>1, <2>2
         DEF vars, topics, offsets, history, PInv, ServiceInv, Types, PositionIsLogged,
             CommitIsLogged, Told, Unwritten, Messages
    <3> QED
      BY <3>1, <3>2 DEF PInv
  <2> QED
    BY <1>1, <2>1, <2>2
<1> QED
  BY PInvInit, <1>1, PTL DEF Spec

\* A message that Kafka will not deliver again to the event processor or to the
\* adapter has left a line in the service's log or a traceback, unless a reset went
\* past it or the service was killed while it stopped because of it: for every
\* number of messages, rebalances, deaths and restarts.
THEOREM CommittedHasLine == Spec => []CommittedIsLogged
<1>1. PInv => CommittedIsLogged
  <2> SUFFICES ASSUME PInv, NEW s \in Services, NEW t \in Subscribed(s),
                      NEW i \in 0 .. committed[s][t] - 1
               PROVE  Told(s, <<t, i>>)
    BY DEF CommittedIsLogged, Told
  <2>1. committed[s][t] \in Nat \cup {Nothing}
    BY DEF PInv, ServiceInv, Types
  <2>2. committed[s][t] \in Int
    BY <2>1 DEF Nothing
  <2>3. i \in Nat /\ i < committed[s][t]
    BY <2>2
  <2> QED
    BY <2>3 DEF PInv, ServiceInv, CommitIsLogged
<1> QED
  BY PipelineInvariant, <1>1, PTL

-----------------------------------------------------------------------------
(* The event processor and the legacy adapter are readers in the sense of      *)
(* TopicReader: every move of a service is a step of a reader or leaves the    *)
(* reader alone.                                                               *)

\* A reader that has not started.
LEMMA ProcessorInit == Init => ProcessorReader!Init
<1> SUFFICES ASSUME Init PROVE ProcessorReader!Init
  OBVIOUS
<1>1. Processor \in Services /\ Subscribed(Processor) \subseteq Topics
  BY ServiceNames, TopicsExist
<1>2. Mode(Processor) = "down"
  BY <1>1 DEF Init, Mode
<1>3. \A t \in Subscribed(Processor) : Len(log[t]) = 0 /\ first[t] = 0
  BY <1>1 DEF Init
<1> QED
  BY <1>1, <1>2, <1>3 DEF Init, Flat, ProcessorReader!Init, ProcessorReader!Nothing, Nothing

\* A reader that has not started.
LEMMA AdapterInit == Init => AdapterReader!Init
<1> SUFFICES ASSUME Init PROVE AdapterReader!Init
  OBVIOUS
<1>1. Adapter \in Services /\ Subscribed(Adapter) \subseteq Topics
  BY ServiceNames, TopicsExist
<1>2. Mode(Adapter) = "down"
  BY <1>1 DEF Init, Mode
<1>3. \A t \in Subscribed(Adapter) : Len(log[t]) = 0 /\ first[t] = 0
  BY <1>1 DEF Init
<1> QED
  BY <1>1, <1>2, <1>3 DEF Init, Flat, AdapterReader!Init, AdapterReader!Nothing, Nothing

\* A move of the event processor is a step of TopicReader or a stutter.
LEMMA ProcessorStep ==
  ASSUME PInv, Move(Processor)
  PROVE  [ProcessorReader!Next]_(ProcessorReader!vars)
<1> DEFINE T == Subscribed(Processor)
           lengths == [t \in T |-> Len(log[t])]
           firsts == [t \in T |-> first[t]]
<1> USE DEF KeepsPlace, KeepsBooks, KeepsMessage
<1>0. /\ stage[Processor] \in Stages /\ (stage[Processor] \in {"down", "waiting"} => inHand[Processor] = {})
      /\ Nothing = -1 /\ ProcessorReader!Nothing = -1
  BY ServiceNames DEF PInv, ServiceInv, Types, Nothing, ProcessorReader!Nothing
<1>1. ASSUME Level(Processor) PROVE lengths' = lengths /\ firsts' = firsts
  BY <1>1 DEF Level
<1>2. ASSUME stage'[Processor] = stage[Processor] PROVE Mode(Processor)' = Mode(Processor)
  BY <1>2 DEF Mode
<1>3. CASE Elsewhere(Processor)
  <2>1. CASE Level(Processor)
    <3>1. UNCHANGED ProcessorReader!vars
      BY <1>1, <1>2, <1>3, <2>1 DEF Elsewhere, ProcessorReader!vars
    <3> QED
      BY <3>1
  <2>2. ASSUME NEW t \in T, Grown(Processor, t) PROVE ProcessorReader!Write(t)
    <3>1. lengths' = [lengths EXCEPT ![t] = @ + 1] /\ firsts' = firsts
      BY <2>2 DEF Grown
    <3> QED
      BY <1>2, <1>3, <3>1 DEF Elsewhere, ProcessorReader!Write
  <2>3. ASSUME NEW t \in T, Deleted(Processor, t) PROVE ProcessorReader!Expire(t)
    <3>1. lengths' = lengths /\ firsts' = [firsts EXCEPT ![t] = first[t] + 1]
      BY <2>3 DEF Deleted
    <3>2. first[t] \in Nat /\ Len(log[t]) \in Nat /\ first[t] < Len(log[t])
      BY <2>3, TopicsExist, TopicsHaveLength, ServiceNames DEF PInv, Domains, Deleted
    <3>3. first[t] + 1 \in firsts[t] + 1 .. lengths[t]
      BY <3>2
    <3> QED
      BY <1>2, <1>3, <3>1, <3>3 DEF Elsewhere, ProcessorReader!Expire
  <2> QED
    BY <1>3, <2>1, <2>2, <2>3 DEF Elsewhere, ProcessorReader!Next
<1>4. CASE Joins(Processor)
  <2>1. \/ (Mode(Processor) = "down" /\ Mode(Processor)' = "reading")
        \/ (Mode(Processor) = "reading" /\ Mode(Processor)' = Mode(Processor))
    BY <1>4 DEF Joins, Mode
  <2>2. \A t \in T : Lost(Processor, t) <=> committed[Processor][t] < firsts[t]
    BY DEF Lost
  <2>3. position'[Processor] =
          [t \in T |-> IF committed[Processor][t] < firsts[t] THEN lengths[t] ELSE committed[Processor][t]]
    BY <1>4, <2>2 DEF Joins, Resumed
  <2>4. skipped'[Processor] = skipped[Processor] \cup
          UNION {ProcessorReader!From(t, committed[Processor][t]) : t \in {u \in T : committed[Processor][u] < firsts[u]}}
    <3>1. \A t \in T : ProcessorReader!From(t, committed[Processor][t]) = From(t, committed[Processor][t])
      BY DEF ProcessorReader!From, From
    <3>2. {u \in T : Lost(Processor, u)} = {u \in T : committed[Processor][u] < firsts[u]}
      BY <2>2
    <3> QED
      BY <1>4, <3>1, <3>2 DEF Joins
  <2>5. ProcessorReader!Join
    BY <1>1, <1>4, <2>3, <2>4 DEF Joins, ProcessorReader!Join
  <2>6. ProcessorReader!Start \/ ProcessorReader!Rejoin
    BY <2>1, <2>5 DEF ProcessorReader!Start, ProcessorReader!Rejoin
  <2> QED
    BY <2>6 DEF ProcessorReader!Next
<1>5. CASE Commits(Processor)
  <2>1. Mode(Processor) # "down" /\ Mode(Processor)' = Mode(Processor)
    BY <1>5 DEF Commits, Mode
  <2>2. CASE committed'[Processor] = position[Processor]
    <3>1. ProcessorReader!Commit
      BY <1>1, <1>5, <2>1, <2>2 DEF Commits, ProcessorReader!Commit
    <3> QED
      BY <3>1 DEF ProcessorReader!Next
  <2>3. CASE committed'[Processor] = committed[Processor]
    <3>1. UNCHANGED ProcessorReader!vars
      BY <1>1, <1>5, <2>1, <2>3 DEF Commits, ProcessorReader!vars
    <3> QED
      BY <3>1
  <2> QED
    BY <1>5, <2>2, <2>3 DEF Commits
<1>6. CASE Writes(Processor)
  <2>1. Mode(Processor)' = Mode(Processor)
    BY <1>6 DEF Writes, Mode
  <2>2. UNCHANGED ProcessorReader!vars
    BY <1>1, <1>6, <2>1 DEF Writes, ProcessorReader!vars
  <2> QED
    BY <2>2
<1>7. CASE Settles(Processor)
  <2>1. Mode(Processor) = "reading" /\ Mode(Processor)' = Mode(Processor)
    BY <1>7 DEF Settles, Mode
  <2>2. ProcessorReader!Settle
    BY <1>1, <1>7, <2>1 DEF Settles, ProcessorReader!Settle
  <2> QED
    BY <2>2 DEF ProcessorReader!Next
<1>8. CASE Raises(Processor)
  <2>1. Mode(Processor) = "reading" /\ Mode(Processor)' = "stopping"
    BY <1>8 DEF Raises, Mode
  <2>2. ProcessorReader!Raise
    BY <1>1, <1>8, <2>1 DEF Raises, ProcessorReader!Raise
  <2> QED
    BY <2>2 DEF ProcessorReader!Next
<1>9. CASE Closes(Processor)
  <2>1. Mode(Processor) = "stopping" /\ Mode(Processor)' = "down"
    BY <1>9 DEF Closes, Mode
  <2>2. ProcessorReader!End
    BY <1>1, <1>9, <2>1 DEF Closes, ProcessorReader!End
  <2> QED
    BY <2>2 DEF ProcessorReader!Next
<1>10. CASE IsKilled(Processor)
  <2>1. Mode(Processor) # "down" /\ Mode(Processor)' = "down"
    BY <1>10 DEF IsKilled, Mode
  <2>2. ProcessorReader!Kill
    BY <1>1, <1>10, <2>1 DEF IsKilled, ProcessorReader!Kill
  <2> QED
    BY <2>2 DEF ProcessorReader!Next
<1>11. ASSUME NEW t \in T, Resets(Processor, t) PROVE ProcessorReader!Reset(t)
  <2>1. Mode(Processor) = "reading" /\ Mode(Processor)' = Mode(Processor)
    BY <1>11 DEF Resets, Mode
  <2>2. ProcessorReader!From(t, position[Processor][t]) = From(t, position[Processor][t])
    BY DEF ProcessorReader!From, From
  <2> QED
    BY <1>1, <1>11, <2>1, <2>2 DEF Resets, ProcessorReader!Reset
<1>12. ASSUME NEW t \in T, Gets(Processor, t) PROVE ProcessorReader!Get(t)
  <2>1. Mode(Processor) = "reading" /\ Mode(Processor)' = Mode(Processor) /\ inHand[Processor] = {}
    BY <1>0, <1>12 DEF Gets, Mode
  <2> QED
    BY <1>1, <1>12, <2>1 DEF Gets, ProcessorReader!Get
<1> QED
  BY <1>3, <1>4, <1>5, <1>6, <1>7, <1>8, <1>9, <1>10, <1>11, <1>12
     DEF Move, ProcessorReader!Next

\* A move of the legacy adapter is a step of TopicReader or a stutter.
LEMMA AdapterStep ==
  ASSUME PInv, Move(Adapter)
  PROVE  [AdapterReader!Next]_(AdapterReader!vars)
<1> DEFINE T == Subscribed(Adapter)
           lengths == [t \in T |-> Len(log[t])]
           firsts == [t \in T |-> first[t]]
<1> USE DEF KeepsPlace, KeepsBooks, KeepsMessage
<1>0. /\ stage[Adapter] \in Stages /\ (stage[Adapter] \in {"down", "waiting"} => inHand[Adapter] = {})
      /\ Nothing = -1 /\ AdapterReader!Nothing = -1
  BY ServiceNames DEF PInv, ServiceInv, Types, Nothing, AdapterReader!Nothing
<1>1. ASSUME Level(Adapter) PROVE lengths' = lengths /\ firsts' = firsts
  BY <1>1 DEF Level
<1>2. ASSUME stage'[Adapter] = stage[Adapter] PROVE Mode(Adapter)' = Mode(Adapter)
  BY <1>2 DEF Mode
<1>3. CASE Elsewhere(Adapter)
  <2>1. CASE Level(Adapter)
    <3>1. UNCHANGED AdapterReader!vars
      BY <1>1, <1>2, <1>3, <2>1 DEF Elsewhere, AdapterReader!vars
    <3> QED
      BY <3>1
  <2>2. ASSUME NEW t \in T, Grown(Adapter, t) PROVE AdapterReader!Write(t)
    <3>1. lengths' = [lengths EXCEPT ![t] = @ + 1] /\ firsts' = firsts
      BY <2>2 DEF Grown
    <3> QED
      BY <1>2, <1>3, <3>1 DEF Elsewhere, AdapterReader!Write
  <2>3. ASSUME NEW t \in T, Deleted(Adapter, t) PROVE AdapterReader!Expire(t)
    <3>1. lengths' = lengths /\ firsts' = [firsts EXCEPT ![t] = first[t] + 1]
      BY <2>3 DEF Deleted
    <3>2. first[t] \in Nat /\ Len(log[t]) \in Nat /\ first[t] < Len(log[t])
      BY <2>3, TopicsExist, TopicsHaveLength, ServiceNames DEF PInv, Domains, Deleted
    <3>3. first[t] + 1 \in firsts[t] + 1 .. lengths[t]
      BY <3>2
    <3> QED
      BY <1>2, <1>3, <3>1, <3>3 DEF Elsewhere, AdapterReader!Expire
  <2> QED
    BY <1>3, <2>1, <2>2, <2>3 DEF Elsewhere, AdapterReader!Next
<1>4. CASE Joins(Adapter)
  <2>1. \/ (Mode(Adapter) = "down" /\ Mode(Adapter)' = "reading")
        \/ (Mode(Adapter) = "reading" /\ Mode(Adapter)' = Mode(Adapter))
    BY <1>4 DEF Joins, Mode
  <2>2. \A t \in T : Lost(Adapter, t) <=> committed[Adapter][t] < firsts[t]
    BY DEF Lost
  <2>3. position'[Adapter] =
          [t \in T |-> IF committed[Adapter][t] < firsts[t] THEN lengths[t] ELSE committed[Adapter][t]]
    BY <1>4, <2>2 DEF Joins, Resumed
  <2>4. skipped'[Adapter] = skipped[Adapter] \cup
          UNION {AdapterReader!From(t, committed[Adapter][t]) : t \in {u \in T : committed[Adapter][u] < firsts[u]}}
    <3>1. \A t \in T : AdapterReader!From(t, committed[Adapter][t]) = From(t, committed[Adapter][t])
      BY DEF AdapterReader!From, From
    <3>2. {u \in T : Lost(Adapter, u)} = {u \in T : committed[Adapter][u] < firsts[u]}
      BY <2>2
    <3> QED
      BY <1>4, <3>1, <3>2 DEF Joins
  <2>5. AdapterReader!Join
    BY <1>1, <1>4, <2>3, <2>4 DEF Joins, AdapterReader!Join
  <2>6. AdapterReader!Start \/ AdapterReader!Rejoin
    BY <2>1, <2>5 DEF AdapterReader!Start, AdapterReader!Rejoin
  <2> QED
    BY <2>6 DEF AdapterReader!Next
<1>5. CASE Commits(Adapter)
  <2>1. Mode(Adapter) # "down" /\ Mode(Adapter)' = Mode(Adapter)
    BY <1>5 DEF Commits, Mode
  <2>2. CASE committed'[Adapter] = position[Adapter]
    <3>1. AdapterReader!Commit
      BY <1>1, <1>5, <2>1, <2>2 DEF Commits, AdapterReader!Commit
    <3> QED
      BY <3>1 DEF AdapterReader!Next
  <2>3. CASE committed'[Adapter] = committed[Adapter]
    <3>1. UNCHANGED AdapterReader!vars
      BY <1>1, <1>5, <2>1, <2>3 DEF Commits, AdapterReader!vars
    <3> QED
      BY <3>1
  <2> QED
    BY <1>5, <2>2, <2>3 DEF Commits
<1>6. CASE Writes(Adapter)
  <2>1. Mode(Adapter)' = Mode(Adapter)
    BY <1>6 DEF Writes, Mode
  <2>2. UNCHANGED AdapterReader!vars
    BY <1>1, <1>6, <2>1 DEF Writes, AdapterReader!vars
  <2> QED
    BY <2>2
<1>7. CASE Settles(Adapter)
  <2>1. Mode(Adapter) = "reading" /\ Mode(Adapter)' = Mode(Adapter)
    BY <1>7 DEF Settles, Mode
  <2>2. AdapterReader!Settle
    BY <1>1, <1>7, <2>1 DEF Settles, AdapterReader!Settle
  <2> QED
    BY <2>2 DEF AdapterReader!Next
<1>8. CASE Raises(Adapter)
  <2>1. Mode(Adapter) = "reading" /\ Mode(Adapter)' = "stopping"
    BY <1>8 DEF Raises, Mode
  <2>2. AdapterReader!Raise
    BY <1>1, <1>8, <2>1 DEF Raises, AdapterReader!Raise
  <2> QED
    BY <2>2 DEF AdapterReader!Next
<1>9. CASE Closes(Adapter)
  <2>1. Mode(Adapter) = "stopping" /\ Mode(Adapter)' = "down"
    BY <1>9 DEF Closes, Mode
  <2>2. AdapterReader!End
    BY <1>1, <1>9, <2>1 DEF Closes, AdapterReader!End
  <2> QED
    BY <2>2 DEF AdapterReader!Next
<1>10. CASE IsKilled(Adapter)
  <2>1. Mode(Adapter) # "down" /\ Mode(Adapter)' = "down"
    BY <1>10 DEF IsKilled, Mode
  <2>2. AdapterReader!Kill
    BY <1>1, <1>10, <2>1 DEF IsKilled, AdapterReader!Kill
  <2> QED
    BY <2>2 DEF AdapterReader!Next
<1>11. ASSUME NEW t \in T, Resets(Adapter, t) PROVE AdapterReader!Reset(t)
  <2>1. Mode(Adapter) = "reading" /\ Mode(Adapter)' = Mode(Adapter)
    BY <1>11 DEF Resets, Mode
  <2>2. AdapterReader!From(t, position[Adapter][t]) = From(t, position[Adapter][t])
    BY DEF AdapterReader!From, From
  <2> QED
    BY <1>1, <1>11, <2>1, <2>2 DEF Resets, AdapterReader!Reset
<1>12. ASSUME NEW t \in T, Gets(Adapter, t) PROVE AdapterReader!Get(t)
  <2>1. Mode(Adapter) = "reading" /\ Mode(Adapter)' = Mode(Adapter) /\ inHand[Adapter] = {}
    BY <1>0, <1>12 DEF Gets, Mode
  <2> QED
    BY <1>1, <1>12, <2>1 DEF Gets, AdapterReader!Get
<1> QED
  BY <1>3, <1>4, <1>5, <1>6, <1>7, <1>8, <1>9, <1>10, <1>11, <1>12
     DEF Move, AdapterReader!Next

\* The event processor deals with its topics as TopicReader says, for every number of
\* messages, faults, rebalances, deaths and restarts.
THEOREM ProcessorIsReader == Spec => ProcessorReads
<1>1. ASSUME PInv, [Next]_vars PROVE [ProcessorReader!Next]_(ProcessorReader!vars)
  <2>1. CASE Next
    BY <1>1, <2>1, EveryStep, ProcessorStep, ServiceNames
  <2>2. CASE UNCHANGED vars
    BY <2>2 DEF vars, topics, offsets, history, Mode, ProcessorReader!vars
  <2> QED
    BY <1>1, <2>1, <2>2
<1> QED
  BY ProcessorInit, <1>1, PipelineInvariant, PTL DEF Spec, ProcessorReads, ProcessorReader!Spec

\* The legacy adapter deals with its topics as TopicReader says, for every number of
\* messages, faults, rebalances, deaths and restarts.
THEOREM AdapterIsReader == Spec => AdapterReads
<1>1. ASSUME PInv, [Next]_vars PROVE [AdapterReader!Next]_(AdapterReader!vars)
  <2>1. CASE Next
    BY <1>1, <2>1, EveryStep, AdapterStep, ServiceNames
  <2>2. CASE UNCHANGED vars
    BY <2>2 DEF vars, topics, offsets, history, Mode, AdapterReader!vars
  <2> QED
    BY <1>1, <2>1, <2>2
<1> QED
  BY AdapterInit, <1>1, PipelineInvariant, PTL DEF Spec, AdapterReads, AdapterReader!Spec

-----------------------------------------------------------------------------
(* What the adapter is done with is on "legacy-mq" *)

\* A topic only grows.
LEMMA StaysOnLegacyMq ==
  ASSUME LogType, NEW t \in Topics, NEW x \in AllKinds \cup Messages,
         log' = [log EXCEPT ![t] = Append(@, x)]
  PROVE  /\ OnLegacyMq \subseteq OnLegacyMq'
         /\ t = "legacy-mq" => x \in OnLegacyMq'
<1>1. "legacy-mq" \in Topics
  BY DEF Topics
<1>2. CASE t # "legacy-mq"
  BY <1>1, <1>2 DEF OnLegacyMq, LogType
<1>3. CASE t = "legacy-mq"
  <2> DEFINE q == log["legacy-mq"]
  <2>1. q \in Seq(AllKinds \cup Messages) /\ log'["legacy-mq"] = Append(q, x)
    BY <1>1, <1>3 DEF LogType
  <2>2. /\ DOMAIN q = 1 .. Len(q) /\ DOMAIN Append(q, x) = 1 .. Len(q) + 1
        /\ \A i \in 1 .. Len(q) : Append(q, x)[i] = q[i]
        /\ Append(q, x)[Len(q) + 1] = x
        /\ Len(q) \in Nat
    BY <2>1
  <2>3. /\ \A i \in 1 .. Len(q) : i \in 1 .. Len(q) + 1
        /\ Len(q) + 1 \in 1 .. Len(q) + 1
    BY <2>2
  <2>4. ASSUME NEW i \in DOMAIN q PROVE q[i] \in OnLegacyMq'
    BY <2>1, <2>2, <2>3, <2>4 DEF OnLegacyMq
  <2>5. x \in OnLegacyMq'
    BY <2>1, <2>2, <2>3 DEF OnLegacyMq
  <2> QED
    BY <2>4, <2>5 DEF OnLegacyMq
<1> QED
  BY <1>2, <1>3

\* What is on "legacy-mq" stays there, and what the adapter sends is there.
LEMMA SentIsOnLegacyMq ==
  ASSUME LogType, NEW m \in Messages, Sent(m)
  PROVE  OnLegacyMq \subseteq OnLegacyMq' /\ m \in OnLegacyMq'
<1>1. "legacy-mq" \in Topics /\ log' = [log EXCEPT !["legacy-mq"] = Append(@, m)]
  BY DEF Sent, Topics
<1> QED
  BY <1>1, StaysOnLegacyMq

\* Only SendLegacy lets the adapter be done with a message.
LEMMA ForwardedStep == PInv /\ Forwarded /\ Next => Forwarded'
<1> SUFFICES ASSUME PInv, Forwarded, Next PROVE Forwarded'
  OBVIOUS
<1>0. /\ Processor \in Services /\ Adapter \in Services /\ Processor # Adapter
      /\ DOMAIN settled = Services /\ LogType
      /\ inHand[Adapter] \subseteq Messages /\ \A m, n \in inHand[Adapter] : m = n
  BY ServiceNames DEF PInv, Domains, ServiceInv, Types
<1>1. ASSUME settled'[Adapter] = settled[Adapter], OnLegacyMq \subseteq OnLegacyMq'
      PROVE  Forwarded'
  BY <1>1 DEF Forwarded
<1>2. ASSUME settled'[Adapter] = settled[Adapter], UNCHANGED topics PROVE Forwarded'
  BY <1>2 DEF Forwarded, OnLegacyMq, topics
<1>3. ASSUME NEW t \in Inputs, NEW kind \in Kinds[t], Write(t, kind) PROVE Forwarded'
  <2>1. /\ log' = [log EXCEPT ![t] = Append(@, kind)] /\ settled' = settled
        /\ t \in Topics /\ kind \in AllKinds \cup Messages
    BY <1>3, PipelineAssumption DEF Write, Topics, history
  <2>2. OnLegacyMq \subseteq OnLegacyMq'
    BY <1>0, <2>1, StaysOnLegacyMq
  <2> QED
    BY <1>1, <2>1, <2>2
<1>4. ASSUME NEW t \in Topics, Expire(t) PROVE Forwarded'
  BY <1>4 DEF Expire, history, Forwarded, OnLegacyMq
<1>5. ASSUME NEW u \in Services,
             \/ Start(u) \/ Rejoin(u) \/ AutoCommit(u) \/ StopConsumer(u) \/ StopProducer(u)
             \/ \E t \in Subscribed(u) : Get(u, t) \/ Reset(u, t)
      PROVE  Forwarded'
  BY <1>2, <1>5
     DEF Start, Rejoin, AutoCommit, StopConsumer, StopProducer, Get, Reset, history
<1>6. ASSUME NEW u \in Services, PerhapsSent(u) PROVE OnLegacyMq \subseteq OnLegacyMq'
  <2>1. CASE UNCHANGED topics
    BY <2>1 DEF OnLegacyMq, topics
  <2>2. ASSUME NEW m \in inHand[Adapter], Sent(m) PROVE OnLegacyMq \subseteq OnLegacyMq'
    BY <1>0, <2>2, SentIsOnLegacyMq
  <2> QED
    BY <1>6, <2>1, <2>2 DEF PerhapsSent
<1>7. ASSUME NEW u \in Services, Kill(u) PROVE Forwarded'
  BY <1>1, <1>6, <1>7 DEF Kill
<1>8. ASSUME Adapt PROVE Forwarded'
  <2>1. PICK m \in inHand[Adapter] :
          PrintBatch(m) \/ Unusable(m) \/ SendLegacy(m) \/ SendLegacyFails(m)
    BY <1>8 DEF Adapt
  <2>2. CASE PrintBatch(m) \/ Unusable(m)
    BY <1>2, <2>2 DEF PrintBatch, LogAndSend, Unusable, Raise, history
  <2>3. CASE SendLegacyFails(m)
    BY <1>0, <1>1, <1>6, <2>3 DEF SendLegacyFails, Raise
  <2>4. CASE SendLegacy(m)
    <3>1. /\ settled'[Adapter] = settled[Adapter] \cup inHand[Adapter]
          /\ inHand[Adapter] = {m}
      BY <1>0, <2>4 DEF SendLegacy, Return
    <3>2. OnLegacyMq \subseteq OnLegacyMq' /\ m \in OnLegacyMq'
      BY <1>0, <2>4, SentIsOnLegacyMq DEF SendLegacy
    <3> QED
      BY <3>1, <3>2 DEF Forwarded
  <2> QED
    BY <2>1, <2>2, <2>3, <2>4
<1>9. ASSUME Process PROVE Forwarded'
  <2>1. settled'[Adapter] = settled[Adapter] /\ UNCHANGED topics
    BY <1>0, <1>9
       DEF Process, handle_trades, handle_market_data, handle_others, Handled, Failed,
           KeyRaises, NotAnObject, _send_to_dlq, Return, Raise, LogAndSend, history
  <2> QED
    BY <1>2, <2>1
<1> QED
  BY <1>3, <1>4, <1>5, <1>7, <1>8, <1>9 DEF Next, Work

\* Every message that the legacy adapter is done with is on "legacy-mq", however
\* often sends fail and services die.
THEOREM DoneIsForwarded == Spec => []Forwarded
<1>1. Init => Forwarded
  BY ServiceNames DEF Init, Forwarded
<1>2. PInv /\ Forwarded /\ UNCHANGED vars => Forwarded'
  BY DEF vars, topics, history, Forwarded, OnLegacyMq
<1> QED
  BY <1>1, <1>2, ForwardedStep, PipelineInvariant, PTL DEF Spec

-----------------------------------------------------------------------------
(* Where the consumers are in their topics *)

\* Positions are within the topics, commits behind positions; the message that is got
\* is behind the position (while it is sent on, a rebalance may move that back).
InTopics(s) ==
  /\ \A t \in Subscribed(s) :
       /\ first[t] <= Len(log[t])
       /\ position[s][t] <= Len(log[t])
       /\ committed[s][t] <= position[s][t]
  /\ stage[s] = "got" =>
       \A m \in inHand[s] : m[1] \in Subscribed(s) /\ m[2] < position[s][m[1]]
  /\ stage[s] \notin {"down", "waiting"} => inHand[s] # {}

Placed == \A s \in Services : InTopics(s)

\* The positions move as they should, and topics only grow.
LEMMA MoveStaysInTopics ==
  ASSUME PInv, NEW s \in Services, InTopics(s), Move(s)
  PROVE  InTopics(s)'
<1> USE DEF KeepsPlace, KeepsBooks, KeepsMessage
<1>0. /\ position[s] \in [Subscribed(s) -> Nat]
      /\ stage[s] \in Stages
      /\ stage[s] \in {"down", "waiting"} => inHand[s] = {}
      /\ \A t \in Subscribed(s) :
           /\ Len(log[t]) \in Nat /\ first[t] \in Nat /\ committed[s][t] \in Int
           /\ position[s][t] \in Nat
  BY TopicsExist, TopicsHaveLength DEF PInv, Domains, ServiceInv, Types, Nothing
<1>1. ASSUME Level(s), committed'[s] = committed[s] \/ committed'[s] = position[s],
             position'[s] = position[s]
      PROVE  \A t \in Subscribed(s) :
               /\ first'[t] <= Len(log'[t])
               /\ position'[s][t] <= Len(log'[t])
               /\ committed'[s][t] <= position'[s][t]
  BY <1>0, <1>1 DEF Level, InTopics
<1>2. CASE Elsewhere(s)
  <2>1. ASSUME NEW t \in Subscribed(s)
        PROVE  first'[t] <= Len(log'[t]) /\ Len(log[t]) <= Len(log'[t]) /\ Len(log'[t]) \in Nat
    BY <1>0, <1>2, <2>1 DEF Elsewhere, Level, Grown, Deleted, InTopics
  <2>2. ASSUME NEW t \in Subscribed(s) PROVE position'[s][t] <= Len(log'[t])
    <3>1. position'[s][t] = position[s][t] /\ position[s][t] <= Len(log[t])
      BY <1>2 DEF Elsewhere, InTopics
    <3> QED
      BY <1>0, <2>1, <3>1
  <2> QED
    BY <1>2, <2>1, <2>2 DEF Elsewhere, InTopics
<1>3. CASE Joins(s)
  <2>1. ASSUME NEW t \in Subscribed(s)
        PROVE  /\ first'[t] <= Len(log'[t])
               /\ position'[s][t] <= Len(log'[t])
               /\ committed'[s][t] <= position'[s][t]
    <3>1. first'[t] = first[t] /\ Len(log'[t]) = Len(log[t]) /\ committed'[s] = committed[s]
      BY <1>3 DEF Joins, Level
    <3>2. position'[s][t] = Len(log[t]) \/ position'[s][t] = committed[s][t]
      BY <1>3 DEF Joins, Resumed
    <3>3. /\ first[t] <= Len(log[t]) /\ position[s][t] <= Len(log[t])
          /\ committed[s][t] <= position[s][t]
      BY DEF InTopics
    <3> QED
      BY <1>0, <3>1, <3>2, <3>3
  <2>2. stage'[s] # "got" /\ (stage'[s] \notin {"down", "waiting"} => inHand'[s] # {})
    BY <1>0, <1>3 DEF Joins, InTopics
  <2> QED
    BY <2>1, <2>2 DEF InTopics
<1>4. CASE Commits(s)
  BY <1>1, <1>4 DEF Commits, InTopics
<1>5. CASE Writes(s) \/ Raises(s)
  BY <1>1, <1>5 DEF Writes, Raises, InTopics
<1>6. CASE Settles(s) \/ Closes(s) \/ IsKilled(s)
  BY <1>1, <1>6 DEF Settles, Closes, IsKilled, InTopics
<1>7. ASSUME NEW u \in Subscribed(s), Resets(s, u) PROVE InTopics(s)'
  <2>1. ASSUME NEW t \in Subscribed(s)
        PROVE  /\ first'[t] <= Len(log'[t])
               /\ position'[s][t] <= Len(log'[t])
               /\ committed'[s][t] <= position'[s][t]
    <3>1. first'[t] = first[t] /\ Len(log'[t]) = Len(log[t]) /\ committed'[s] = committed[s]
      BY <1>7 DEF Resets, Level
    <3>2. position'[s][t] = IF t = u THEN Len(log[t]) ELSE position[s][t]
      BY <1>0, <1>7 DEF Resets
    <3>3. /\ first[t] <= Len(log[t]) /\ position[s][t] <= Len(log[t])
          /\ committed[s][t] <= position[s][t]
      BY DEF InTopics
    <3> QED
      BY <1>0, <3>1, <3>2, <3>3
  <2>2. stage'[s] # "got" /\ (stage'[s] \notin {"down", "waiting"} => inHand'[s] # {})
    BY <1>0, <1>7 DEF Resets, InTopics
  <2> QED
    BY <2>1, <2>2 DEF InTopics
<1>8. ASSUME NEW u \in Subscribed(s), Gets(s, u) PROVE InTopics(s)'
  <2>0. \A t \in Subscribed(s) :
          position'[s][t] = IF t = u THEN position[s][u] + 1 ELSE position[s][t]
    BY <1>0, <1>8 DEF Gets
  <2>1. ASSUME NEW t \in Subscribed(s)
        PROVE  /\ first'[t] <= Len(log'[t])
               /\ position'[s][t] <= Len(log'[t])
               /\ committed'[s][t] <= position'[s][t]
    <3>1. first'[t] = first[t] /\ Len(log'[t]) = Len(log[t]) /\ committed'[s] = committed[s]
      BY <1>8 DEF Gets, Level
    <3>2. /\ first[t] <= Len(log[t]) /\ position[s][t] <= Len(log[t])
          /\ committed[s][t] <= position[s][t] /\ position[s][u] < Len(log[u])
      BY <1>8 DEF InTopics, Gets
    <3> QED
      BY <1>0, <2>0, <3>1, <3>2
  <2>2. inHand'[s] = {<<u, position[s][u]>>} /\ position[s][u] < position'[s][u]
    BY <1>0, <1>8, <2>0 DEF Gets
  <2> QED
    BY <2>1, <2>2 DEF InTopics
<1> QED
  BY <1>2, <1>3, <1>4, <1>5, <1>6, <1>7, <1>8 DEF Move

\* At the start the topics are empty and nobody has read anything.
LEMMA PlacedInit == Init => Placed
<1> SUFFICES ASSUME Init, NEW s \in Services PROVE InTopics(s)
  BY DEF Placed
<1>1. /\ position[s] = [t \in Subscribed(s) |-> 0]
      /\ committed[s] = [t \in Subscribed(s) |-> Nothing]
      /\ stage[s] = "down" /\ inHand[s] = {}
  BY DEF Init, Flat
<1>2. \A t \in Subscribed(s) : Len(log[t]) = 0 /\ first[t] = 0
  BY TopicsExist DEF Init
<1> QED
  BY <1>1, <1>2 DEF InTopics, Nothing

\* Every step keeps both services within their topics.
LEMMA PlacedStep == PInv /\ Placed /\ [Next]_vars => Placed'
<1> SUFFICES ASSUME PInv, Placed, [Next]_vars, NEW s \in Services PROVE InTopics(s)'
  BY DEF Placed
<1>1. CASE Next
  BY <1>1, EveryStep, MoveStaysInTopics DEF Placed
<1>2. CASE UNCHANGED vars
  BY <1>2 DEF vars, topics, offsets, Placed, InTopics
<1> QED
  BY <1>1, <1>2

-----------------------------------------------------------------------------
(* The books of the event processor *)

Bookings(B, x, sign) == {b \in B : b[2] = x /\ b[3] = sign}

\* The positions p sum up the bookings B.
SumUp(p, B) ==
  /\ p \in [Symbols -> Int] /\ IsFiniteSet(B)
  /\ \A x \in Symbols :
       p[x] = Cardinality(Bookings(B, x, 1)) - Cardinality(Bookings(B, x, -1))

\* A trade that is behind the position and not in hand cannot be handled unless a
\* rebalance moves the position back.
Behind(m) == m \notin inHand[Processor] /\ m[2] < position[Processor][m[1]]

\* The positions sum up what is booked.  A trade that is booked is behind the position,
\* or it is one that may come again, and was booked before the group was last joined.
Ledger ==
  /\ SumUp(positions, booked)
  /\ joins \in Nat
  /\ booked \subseteq Messages \X Symbols \X {1, -1} \X Nat
  /\ \A a, b \in booked : a[1] = b[1] => a = b \/ a[1] \in again
  /\ stage[Processor] = "down" => booked = {}
  /\ \A b \in booked : b[4] <= joins
  /\ \A b \in booked : Behind(b[1]) \/ (b[1] \in again /\ b[4] < joins)

\* What a step does to the books.
BooksForgotten ==
  positions' = [x \in Symbols |-> 0] /\ booked' = {} /\ joins' = joins
BooksKept ==
  /\ positions' = positions /\ booked' = booked
  /\ again \subseteq again' /\ joins' \in {joins, joins + 1}
  /\ stage'[Processor] = "down" => stage[Processor] = "down"
  /\ \A m \in inHand'[Processor] :
       m \in inHand[Processor] \/ \E t \in Subscribed(Processor) : m = <<t, position[Processor][t]>>
  /\ \/ booked = {}
     \/ \A t \in Subscribed(Processor), i \in Nat :
          i < position[Processor][t] =>
            i < position'[Processor][t] \/ (<<t, i>> \in again' /\ joins' = joins + 1)
TradeBooked ==
  \E m \in inHand[Processor], x \in Symbols, sign \in {1, -1} :
    /\ stage[Processor] = "got" /\ stage'[Processor] = "waiting"
    /\ positions' = [positions EXCEPT ![x] = @ + sign]
    /\ booked' = booked \cup {<<m, x, sign, joins>>}
    /\ again' = again /\ joins' = joins
    /\ position' = position /\ inHand'[Processor] = {}

\* A booking more counts once.
LEMMA BookingCounts ==
  ASSUME NEW B, IsFiniteSet(B), NEW new, new \notin B, NEW x, NEW sign
  PROVE  /\ Cardinality(Bookings(B, x, sign)) \in Nat
         /\ Cardinality(Bookings(B \cup {new}, x, sign)) =
              IF new[2] = x /\ new[3] = sign THEN Cardinality(Bookings(B, x, sign)) + 1
              ELSE Cardinality(Bookings(B, x, sign))
<1> DEFINE Old == Bookings(B, x, sign)
<1>1. IsFiniteSet(Old) /\ Cardinality(Old) \in Nat
  <2>1. Old \subseteq B
    BY DEF Bookings
  <2> QED
    BY <2>1, FS_Subset, FS_CardinalityType
<1>2. CASE new[2] = x /\ new[3] = sign
  <2>1. Bookings(B \cup {new}, x, sign) = Old \cup {new} /\ new \notin Old
    BY <1>2 DEF Bookings
  <2>2. Cardinality(Old \cup {new}) = Cardinality(Old) + 1
    BY <1>1, <2>1, FS_AddElement
  <2> QED
    BY <1>1, <1>2, <2>1, <2>2
<1>3. CASE ~(new[2] = x /\ new[3] = sign)
  <2>1. Bookings(B \cup {new}, x, sign) = Old
    BY <1>3 DEF Bookings
  <2> QED
    BY <1>1, <1>3, <2>1
<1> QED
  BY <1>2, <1>3

\* Positions of nothing sum up no bookings.
LEMMA NothingSumsUp == SumUp([x \in Symbols |-> 0], {})
<1>1. \A x, sign : Bookings({}, x, sign) = {}
  BY DEF Bookings
<1>2. Cardinality({}) = 0 /\ IsFiniteSet({})
  BY FS_EmptySet
<1>3. \A x, sign : Cardinality(Bookings({}, x, sign)) = 0
  BY <1>1, <1>2
<1> QED
  BY <1>2, <1>3 DEF SumUp

\* A new booking moves the position of its symbol by its sign.
LEMMA BookingSumsUp ==
  ASSUME NEW p, NEW B, SumUp(p, B), NEW m, NEW x \in Symbols, NEW sign \in {1, -1},
         NEW j, <<m, x, sign, j>> \notin B
  PROVE  SumUp([p EXCEPT ![x] = @ + sign], B \cup {<<m, x, sign, j>>})
<1> DEFINE new == <<m, x, sign, j>>
           q == [p EXCEPT ![x] = @ + sign]
<1>1. IsFiniteSet(B) /\ new[2] = x /\ new[3] = sign /\ new \notin B
  BY DEF SumUp
<1> HIDE DEF new
<1>2. IsFiniteSet(B \cup {new})
  BY <1>1, FS_AddElement
<1>3. q \in [Symbols -> Int]
  BY DEF SumUp
<1>4. ASSUME NEW y \in Symbols
      PROVE  q[y] = Cardinality(Bookings(B \cup {new}, y, 1))
                      - Cardinality(Bookings(B \cup {new}, y, -1))
  <2> DEFINE up == Cardinality(Bookings(B, y, 1))
             down == Cardinality(Bookings(B, y, -1))
  <2>1. ASSUME NEW n
        PROVE  /\ Cardinality(Bookings(B, y, n)) \in Nat
               /\ Cardinality(Bookings(B \cup {new}, y, n)) =
                    IF new[2] = y /\ new[3] = n THEN Cardinality(Bookings(B, y, n)) + 1
                    ELSE Cardinality(Bookings(B, y, n))
    BY <1>1, BookingCounts
  <2>2. up \in Nat /\ down \in Nat
    BY <2>1
  <2> HIDE DEF up, down
  <2>3. Cardinality(Bookings(B \cup {new}, y, 1)) = IF x = y /\ sign = 1 THEN up + 1 ELSE up
    BY <1>1, <2>1 DEF up
  <2>4. Cardinality(Bookings(B \cup {new}, y, -1)) =
          IF x = y /\ sign = -1 THEN down + 1 ELSE down
    BY <1>1, <2>1 DEF down
  <2>5. p[y] = up - down /\ q[y] = IF x = y THEN p[y] + sign ELSE p[y]
    BY DEF SumUp, up, down
  <2> HIDE DEF q
  <2> QED
    BY <2>2, <2>3, <2>4, <2>5
<1> QED
  BY <1>2, <1>3, <1>4 DEF SumUp, new

\* A trade that is booked was in hand; if it is booked already it came again.
LEMMA TradeFits ==
  ASSUME PInv, Placed, Ledger, TradeBooked PROVE Ledger'
<1>1. PICK m \in inHand[Processor], x \in Symbols, sign \in {1, -1} :
        /\ stage[Processor] = "got" /\ stage'[Processor] = "waiting"
        /\ positions' = [positions EXCEPT ![x] = @ + sign]
        /\ booked' = booked \cup {<<m, x, sign, joins>>}
        /\ again' = again /\ joins' = joins
        /\ position' = position /\ inHand'[Processor] = {}
  BY DEF TradeBooked
<1> DEFINE new == <<m, x, sign, joins>>
<1>2. /\ m \in Messages /\ m[2] < position[Processor][m[1]] /\ joins \in Nat
      /\ \A b \in booked : b[1] = m => m \in again /\ b[4] < joins
  BY <1>1, ServiceNames
     DEF PInv, ServiceInv, Types, Placed, InTopics, Ledger, Behind
<1>3. /\ new \in Messages \X Symbols \X {1, -1} \X Nat
      /\ new[1] = m /\ new[2] = x /\ new[3] = sign /\ new[4] = joins
  BY <1>2
<1>4. new \notin booked
  BY <1>2, <1>3
<1>5. SumUp(positions, booked)'
  BY <1>1, <1>4, BookingSumsUp DEF Ledger
<1>6. booked' \subseteq Messages \X Symbols \X {1, -1} \X Nat
  BY <1>1, <1>3 DEF Ledger
<1> HIDE DEF new
<1>7. \A a, b \in booked' : a[1] = b[1] => a = b \/ a[1] \in again'
  BY <1>1, <1>2, <1>3 DEF Ledger, new
<1>8. \A b \in booked' : b[4] <= joins'
  BY <1>1, <1>2, <1>3 DEF Ledger, new
<1>9. \A b \in booked' : Behind(b[1])' \/ (b[1] \in again' /\ b[4] < joins')
  BY <1>1, <1>2, <1>3 DEF Ledger, Behind, new
<1> QED
  BY <1>1, <1>2, <1>5, <1>6, <1>7, <1>8, <1>9 DEF Ledger, Messages

\* A process that has ended has no books.
LEMMA ForgottenFits == ASSUME Ledger, BooksForgotten PROVE Ledger'
<1>1. SumUp(positions, booked)'
  BY NothingSumsUp DEF BooksForgotten
<1> QED
  BY <1>1 DEF BooksForgotten, Ledger, Messages

\* The books fit while the consumer reads on: what it gets next is not behind it.
LEMMA KeptFits ==
  ASSUME PInv, Ledger, BooksKept PROVE Ledger'
<1>0. /\ joins \in Nat /\ joins' \in Nat /\ joins <= joins'
      /\ position[Processor] \in [Subscribed(Processor) -> Nat]
      /\ Subscribed(Processor) = Topics
  BY ServiceNames DEF BooksKept, PInv, ServiceInv, Types, Ledger, Subscribed
<1>1. ASSUME NEW b \in booked PROVE Behind(b[1])' \/ (b[1] \in again' /\ b[4] < joins')
  <2>1. b[1] \in Messages /\ b[4] \in Nat /\ b[4] <= joins
    BY DEF Ledger
  <2>2. PICK t \in Subscribed(Processor), i \in Nat : b[1] = <<t, i>>
    BY <1>0, <2>1 DEF Messages
  <2>3. CASE b[1] \in again /\ b[4] < joins
    BY <1>0, <2>1, <2>3 DEF BooksKept
  <2>4. CASE Behind(b[1])
    <3>1. i < position[Processor][t] /\ <<t, i>> \notin inHand[Processor]
      BY <2>2, <2>4 DEF Behind
    <3>2. i < position'[Processor][t] \/ (<<t, i>> \in again' /\ joins' = joins + 1)
      BY <3>1 DEF BooksKept
    <3>3. CASE i < position'[Processor][t]
      <4>1. \A u \in Subscribed(Processor) : <<t, i>> # <<u, position[Processor][u]>>
        BY <1>0, <3>1
      <4>2. <<t, i>> \notin inHand'[Processor]
        BY <3>1, <4>1 DEF BooksKept
      <4> QED
        BY <2>2, <3>3, <4>2 DEF Behind
    <3>4. CASE <<t, i>> \in again' /\ joins' = joins + 1
      BY <1>0, <2>1, <2>2, <3>4
    <3> QED
      BY <3>2, <3>3, <3>4
  <2> QED
    BY <2>3, <2>4 DEF Ledger
<1>2. ASSUME NEW b \in booked PROVE b[4] <= joins'
  <2>1. b[4] \in Nat /\ b[4] <= joins
    BY DEF Ledger
  <2> QED
    BY <1>0, <2>1
<1> QED
  BY <1>0, <1>1, <1>2 DEF BooksKept, Ledger, Messages

\* A rebalance moves the processor back to messages that it may then get again.
LEMMA RejoinBooks ==
  ASSUME PInv, Ledger, Rejoin(Processor) PROVE BooksKept
<1>0. /\ Processor \in Services /\ DOMAIN position = Services
      /\ position[Processor] \in [Subscribed(Processor) -> Nat]
      /\ committed[Processor] \in [Subscribed(Processor) -> Nat \cup {Nothing}]
  BY ServiceNames DEF PInv, Domains, ServiceInv, Types
<1> DEFINE back(t) == {t} \X (Resumed(Processor)[t] .. position[Processor][t] - 1)
<1>1. /\ position'[Processor] = Resumed(Processor)
      /\ again' = again \cup UNION {back(t) : t \in Subscribed(Processor)}
      /\ joins' = joins + 1
  BY <1>0 DEF Rejoin
<1>2. ASSUME NEW t \in Subscribed(Processor), NEW i \in Nat, i < position[Processor][t]
      PROVE  i < position'[Processor][t] \/ (<<t, i>> \in again' /\ joins' = joins + 1)
  <2>1. Resumed(Processor)[t] = IF Lost(Processor, t) THEN Len(log[t]) ELSE committed[Processor][t]
    BY DEF Resumed
  <2>2. Resumed(Processor)[t] \in Int /\ position[Processor][t] \in Nat
    <3>1. committed[Processor][t] \in Int
      BY <1>0 DEF Nothing
    <3>2. Len(log[t]) \in Nat
      BY TopicsExist, TopicsHaveLength, ServiceNames DEF PInv
    <3> QED
      BY <1>0, <2>1, <3>1, <3>2
  <2>3. CASE i < Resumed(Processor)[t]
    BY <1>1, <2>3
  <2>4. CASE ~(i < Resumed(Processor)[t])
    <3>1. i \in Resumed(Processor)[t] .. position[Processor][t] - 1
      BY <1>2, <2>2, <2>4
    <3>2. <<t, i>> \in back(t)
      BY <3>1
    <3> HIDE DEF back
    <3> QED
      BY <1>1, <3>2
  <2> QED
    BY <2>3, <2>4
<1> HIDE DEF back
<1> QED
  BY <1>1, <1>2 DEF Rejoin, BooksKept

\* Getting a message and the consumer's reset move it on.
LEMMA ReadBooks ==
  ASSUME PInv, Placed, Ledger, NEW t \in Subscribed(Processor),
         Get(Processor, t) \/ Reset(Processor, t)
  PROVE  BooksKept
<1>0. /\ Processor \in Services /\ DOMAIN position = Services
      /\ DOMAIN inHand = Services /\ stage \in [Services -> Stages]
      /\ position[Processor] \in [Subscribed(Processor) -> Nat]
      /\ first[t] <= Len(log[t]) /\ first[t] \in Nat /\ Len(log[t]) \in Nat
  BY ServiceNames, TopicsExist, TopicsHaveLength
     DEF PInv, Domains, ServiceInv, Types, Placed, InTopics
<1>1. positions' = positions /\ booked' = booked /\ again' = again /\ joins' = joins
  BY DEF Get, Reset, memory
<1>2. CASE Get(Processor, t)
  <2>1. /\ position'[Processor] = [position[Processor] EXCEPT ![t] = @ + 1]
        /\ inHand'[Processor] = {<<t, position[Processor][t]>>}
        /\ stage'[Processor] = "got"
    BY <1>0, <1>2 DEF Get
  <2>2. \A u \in Subscribed(Processor), i \in Nat :
          i < position[Processor][u] => i < position'[Processor][u]
    BY <1>0, <2>1
  <2> QED
    BY <1>1, <2>1, <2>2 DEF BooksKept
<1>3. CASE Reset(Processor, t)
  <2>1. /\ position'[Processor] = [position[Processor] EXCEPT ![t] = Len(log[t])]
        /\ position[Processor][t] < first[t]
        /\ inHand' = inHand /\ stage' = stage
    BY <1>0, <1>3 DEF Reset
  <2>2. \A u \in Subscribed(Processor), i \in Nat :
          i < position[Processor][u] => i < position'[Processor][u]
    BY <1>0, <2>1
  <2> QED
    BY <1>1, <2>1, <2>2 DEF BooksKept
<1> QED
  BY <1>2, <1>3

\* Most steps leave the books and the position alone.
LEMMA BooksStay ==
  ASSUME UNCHANGED <<positions, booked, again, joins>>, position'[Processor] = position[Processor],
         inHand'[Processor] \subseteq inHand[Processor],
         stage'[Processor] = "down" => stage[Processor] = "down"
  PROVE  BooksKept
  BY DEF BooksKept

\* What each step does to the books.
LEMMA BooksStep ==
  ASSUME PInv, Placed, Ledger, Next PROVE BooksKept \/ BooksForgotten \/ TradeBooked
<1>0. /\ Processor \in Services /\ Adapter \in Services /\ Processor # Adapter
      /\ DOMAIN stage = Services /\ DOMAIN inHand = Services /\ DOMAIN position = Services
      /\ \A u \in Services : u # Processor => u = Adapter
  BY ServiceNames DEF PInv, Domains
<1>1. ASSUME (\E t \in Inputs : \E kind \in Kinds[t] : Write(t, kind))
               \/ \E t \in Topics : Expire(t)
      PROVE  BooksKept
  BY <1>1, BooksStay DEF Write, Expire, offsets, memory
<1>2. ASSUME NEW u \in Services, Start(u) \/ Rejoin(u) PROVE BooksKept
  <2>1. CASE u # Processor
    BY <1>0, <1>2, <2>1 DEF Start, Rejoin, memory, BooksKept
  <2>2. CASE Start(Processor)
    BY <1>0, <2>2 DEF Start, memory, BooksKept, Ledger
  <2> QED
    BY <1>2, <2>1, <2>2, RejoinBooks
<1>3. ASSUME NEW u \in Services, AutoCommit(u) \/ StopConsumer(u) PROVE BooksKept
  BY <1>0, <1>3, BooksStay DEF AutoCommit, StopConsumer, memory
<1>4. ASSUME NEW u \in Services, Kill(u) \/ StopProducer(u) PROVE BooksKept \/ BooksForgotten
  <2>1. CASE u = Processor
    BY <1>4, <2>1 DEF Kill, StopProducer, Forgotten, BooksForgotten
  <2>2. CASE u # Processor
    BY <1>0, <1>4, <2>2, BooksStay DEF Kill, StopProducer, Forgotten, memory, offsets
  <2> QED
    BY <2>1, <2>2
<1>5. ASSUME NEW u \in Services, NEW t \in Subscribed(u), Get(u, t) \/ Reset(u, t)
      PROVE  BooksKept
  <2>1. CASE u = Processor
    BY <1>5, <2>1, ReadBooks
  <2>2. CASE u # Processor
    BY <1>0, <1>5, <2>2, BooksStay DEF Get, Reset, memory
  <2> QED
    BY <2>1, <2>2
<1>6. ASSUME Adapt PROVE BooksKept
  BY <1>0, <1>6, BooksStay
     DEF Adapt, PrintBatch, LogAndSend, Unusable, SendLegacy, Return, SendLegacyFails, Raise,
         memory, offsets
<1>7. ASSUME Process PROVE BooksKept \/ TradeBooked
  <2>1. PICK m \in inHand[Processor] :
          \/ handle_trades(m) \/ handle_market_data(m) \/ handle_others(m)
          \/ Failed(m) \/ KeyRaises(m) \/ NotAnObject(m) \/ _send_to_dlq(m)
    BY <1>7 DEF Process
  <2>2. CASE handle_trades(m)
    <3>1. /\ stage[Processor] = "got" /\ stage'[Processor] = "waiting"
          /\ position' = position /\ inHand'[Processor] = {} /\ joins' = joins
      BY <1>0, <2>2 DEF handle_trades, Handled, Return, offsets
    <3> QED
      BY <2>2, <3>1 DEF handle_trades, TradeBooked
  <2>3. CASE handle_market_data(m) \/ handle_others(m)
    BY <1>0, <2>3, BooksStay
       DEF handle_market_data, handle_others, Handled, Return, memory, offsets
  <2>4. CASE Failed(m) \/ KeyRaises(m) \/ NotAnObject(m) \/ _send_to_dlq(m)
    BY <1>0, <2>4, BooksStay
       DEF Failed, LogAndSend, KeyRaises, NotAnObject, Raise, _send_to_dlq, Return,
           memory, offsets
  <2> QED
    BY <2>1, <2>2, <2>3, <2>4
<1> QED
  BY <1>1, <1>2, <1>3, <1>4, <1>5, <1>6, <1>7 DEF Next, Work

\* The books fit at all times.
THEOREM LedgerInvariant == Spec => []Ledger
<1>1. Init => Ledger
  <2> SUFFICES ASSUME Init PROVE Ledger
    OBVIOUS
  <2>1. SumUp(positions, booked)
    BY NothingSumsUp DEF Init
  <2> QED
    BY <2>1, ServiceNames DEF Init, Ledger
<1>2. ASSUME PInv, Placed, Ledger, [Next]_vars PROVE Ledger'
  <2>1. CASE Next
    BY <1>2, <2>1, BooksStep, KeptFits, ForgottenFits, TradeFits
  <2>2. CASE UNCHANGED vars
    BY <1>2, <2>2 DEF vars, offsets, memory, Ledger, Behind, Messages
  <2> QED
    BY <1>2, <2>1, <2>2
<1> QED
  BY <1>1, <1>2, PlacedInit, PlacedStep, PipelineInvariant, PTL DEF Spec

\* The position that the event processor keeps of a symbol is what the trades it has
\* handled since its start add up to, and no trade is among them twice but one that a
\* rebalance delivered again: for every number of trades, dead letters, deaths,
\* restarts and rebalances.
THEOREM TradesBookedOnce == Spec => []BookedOnce
<1>1. Ledger => BookedOnce
  BY DEF Ledger, SumUp, Bookings, BookedOnce
<1> QED
  BY LedgerInvariant, <1>1, PTL

-----------------------------------------------------------------------------
(* Types, and the cap on the minute bars *)

\* A set of numbers that is not empty has a least one.
LEMMA LeastNumber ==
  ASSUME NEW S \in SUBSET Nat, S # {}
  PROVE  \E n \in S : \A k \in S : n <= k
<1>1. \E n \in S : \A k \in S : ~ (<<k, n>> \in OpToRel(<, Nat))
  BY WFMin, NatLessThanWellFounded, Zenon
<1>2. \E n \in S : \A k \in S : ~ (k < n)
  BY <1>1, Zenon DEF OpToRel
<1> QED
  BY <1>2

\* Where there are keys one is the first in the order of symbols and minutes.
LEMMA FirstKey ==
  ASSUME NEW keys \in SUBSET (Nat \X Nat), keys # {}
  PROVE  \E k \in keys : \A l \in keys : ~(l[1] < k[1] \/ (l[1] = k[1] /\ l[2] < k[2]))
<1> DEFINE Firsts == {k[1] : k \in keys}
<1>1. Firsts \in SUBSET Nat /\ Firsts # {}
  OBVIOUS
<1>2. PICK x \in Firsts : \A y \in Firsts : x <= y
  BY <1>1, LeastNumber
<1> DEFINE Seconds == {k[2] : k \in {l \in keys : l[1] = x}}
<1>3. Seconds \in SUBSET Nat /\ Seconds # {}
  BY <1>2
<1>4. PICK m \in Seconds : \A n \in Seconds : m <= n
  <2> HIDE DEF Seconds
  <2> QED
    BY <1>3, LeastNumber
<1>5. PICK k \in keys : k[1] = x /\ k[2] = m
  BY <1>4
<1>6. ASSUME NEW l \in keys PROVE ~(l[1] < k[1] \/ (l[1] = k[1] /\ l[2] < k[2]))
  <2>1. l[1] \in Firsts /\ l[1] \in Nat /\ l[2] \in Nat /\ k[1] \in Nat /\ k[2] \in Nat
    OBVIOUS
  <2>2. x <= l[1]
    BY <1>2, <2>1
  <2>3. l[1] = x => l[2] \in Seconds
    OBVIOUS
  <2>4. l[1] = x => m <= l[2]
    BY <1>4, <2>3
  <2> HIDE DEF Firsts, Seconds
  <2> QED
    BY <1>5, <2>1, <2>2, <2>4
<1> QED
  BY <1>6

\* One key more than the cap, and at least the first is pruned.
LEMMA PruningHolds ==
  ASSUME NEW keys \in SUBSET (Nat \X Nat), IsFiniteSet(keys), Cardinality(keys) <= Kept + 1
  PROVE  /\ PrunedBars(keys) \subseteq keys /\ IsFiniteSet(PrunedBars(keys))
         /\ Cardinality(PrunedBars(keys)) <= Kept
<1>0. Kept \in Nat /\ Pruned \in Nat /\ Pruned >= 1
  BY PipelineAssumption
<1>1. CASE Cardinality(keys) <= Kept
  BY <1>1 DEF PrunedBars
<1>2. CASE ~(Cardinality(keys) <= Kept)
  <2> DEFINE Before(k) == {l \in keys : l[1] < k[1] \/ (l[1] = k[1] /\ l[2] < k[2])}
  <2>1. PrunedBars(keys) = {k \in keys : Cardinality(Before(k)) >= Pruned}
    BY <1>2 DEF PrunedBars
  <2>2. keys # {}
    BY <1>0, <1>2, FS_EmptySet
  <2>3. PICK k \in keys : Before(k) = {}
    BY <2>2, FirstKey
  <2>4. k \notin PrunedBars(keys)
    <3>1. Cardinality(Before(k)) = 0
      BY <2>3, FS_EmptySet
    <3> QED
      BY <1>0, <2>1, <3>1
  <2>5. PrunedBars(keys) \subseteq keys \ {k}
    BY <2>1, <2>4
  <2>6. /\ IsFiniteSet(keys \ {k}) /\ Cardinality(keys \ {k}) = Cardinality(keys) - 1
        /\ Cardinality(keys) \in Nat
    BY <2>3, FS_RemoveElement, FS_CardinalityType
  <2>7. /\ IsFiniteSet(PrunedBars(keys))
        /\ Cardinality(PrunedBars(keys)) <= Cardinality(keys \ {k})
        /\ Cardinality(PrunedBars(keys)) \in Nat
    BY <2>5, <2>6, FS_Subset, FS_CardinalityType
  <2> QED
    BY <1>0, <2>5, <2>6, <2>7
<1> QED
  BY <1>1, <1>2

\* What is on the topics, and the bars.
DataTypes ==
  /\ \A t \in Inputs : log[t] \in Seq(AllKinds)
  /\ log["legacy-mq"] \in Seq(Messages)
  /\ minute \in Nat
  /\ bars \subseteq Symbols \X (0 .. MaxMinutes)
  /\ IsFiniteSet(bars) /\ Cardinality(bars) <= Kept

\* The tables of the topics.
LEMMA LogTables ==
  Domains => DOMAIN log = Topics /\ "legacy-mq" \in Topics /\ Inputs \subseteq Topics
  BY DEF Domains, LogType, Topics

\* A tick adds a bar, and prunes what is too much.
LEMMA TickTypes ==
  ASSUME DataTypes, NEW m, handle_market_data(m)
  PROVE  /\ minute' \in Nat
         /\ bars' \subseteq Symbols \X (0 .. MaxMinutes)
         /\ IsFiniteSet(bars') /\ Cardinality(bars') <= Kept
<1>1. MaxMinutes \in Nat /\ Symbols \subseteq Nat /\ Kept \in Nat /\ minute \in Nat
  BY PipelineAssumption DEF DataTypes
<1>2. minute' \in 0 .. MaxMinutes
  BY <1>1 DEF handle_market_data
<1>3. PICK x \in Symbols : bars' = PrunedBars(bars \cup {<<x, minute'>>})
  BY DEF handle_market_data
<1> DEFINE new == <<x, minute'>>
           keys == bars \cup {new}
<1>4. /\ keys \subseteq Symbols \X (0 .. MaxMinutes)
      /\ keys \in SUBSET (Nat \X Nat)
  <2>1. new \in Symbols \X (0 .. MaxMinutes) /\ bars \subseteq Symbols \X (0 .. MaxMinutes)
    BY <1>2 DEF DataTypes
  <2>2. 0 .. MaxMinutes \subseteq Nat
    BY <1>1
  <2>3. \A k \in Symbols \X (0 .. MaxMinutes) : k \in Nat \X Nat
    BY <1>1, <2>2, Zenon
  <2> QED
    BY <2>1, <2>3
<1>5. IsFiniteSet(keys) /\ Cardinality(keys) <= Kept + 1
  <2>1. /\ IsFiniteSet(keys)
        /\ Cardinality(keys) = IF new \in bars THEN Cardinality(bars) ELSE Cardinality(bars) + 1
        /\ Cardinality(bars) \in Nat /\ Cardinality(bars) <= Kept
    BY FS_AddElement, FS_CardinalityType DEF DataTypes
  <2> HIDE DEF keys, new
  <2> QED
    BY <1>1, <2>1
<1>6. /\ PrunedBars(keys) \subseteq keys /\ IsFiniteSet(PrunedBars(keys))
      /\ Cardinality(PrunedBars(keys)) <= Kept
  BY <1>4, <1>5, PruningHolds
<1> HIDE DEF keys
<1>7. bars' = PrunedBars(keys)
  BY <1>3 DEF keys
<1> QED
  BY <1>1, <1>2, <1>4, <1>6, <1>7

\* The topics keep their types.
TopicsFit ==
  /\ \A t \in Inputs : log'[t] \in Seq(AllKinds)
  /\ log'["legacy-mq"] \in Seq(Messages)

\* A send puts a message in hand where messages belong.
LEMMA SentTypes ==
  ASSUME PInv, DataTypes, NEW m \in inHand[Adapter], Sent(m)
  PROVE  TopicsFit
<1>0. /\ DOMAIN log = Topics /\ "legacy-mq" \in Topics /\ Inputs \subseteq Topics
      /\ m \in Messages /\ "legacy-mq" \notin Inputs
  BY LogTables, PipelineAssumption, ServiceNames DEF PInv, ServiceInv, Types
<1>1. log'["legacy-mq"] = Append(log["legacy-mq"], m) /\ \A t \in Inputs : log'[t] = log[t]
  BY <1>0 DEF Sent
<1>2. log'["legacy-mq"] \in Seq(Messages)
  BY <1>0, <1>1 DEF DataTypes
<1> QED
  BY <1>1, <1>2 DEF DataTypes, TopicsFit

\* So does one that it may have sent.
LEMMA PerhapsSentTypes ==
  ASSUME PInv, DataTypes, NEW s \in Services, PerhapsSent(s)
  PROVE  TopicsFit
<1>1. CASE UNCHANGED topics
  BY <1>1 DEF topics, DataTypes, TopicsFit
<1>2. CASE \E m \in inHand[Adapter] : Sent(m)
  BY <1>2, SentTypes
<1> QED
  BY <1>1, <1>2 DEF PerhapsSent

\* Every step keeps these types.
LEMMA DataStep == PInv /\ DataTypes /\ Next => DataTypes'
<1> SUFFICES ASSUME PInv, DataTypes, Next PROVE DataTypes'
  OBVIOUS
<1>0. Processor \in Services /\ Adapter \in Services /\ IsFiniteSet({})
      /\ Cardinality({}) = 0 /\ Kept \in Nat
  BY ServiceNames, FS_EmptySet, PipelineAssumption
<1>1. ASSUME log' = log PROVE TopicsFit
  BY <1>1 DEF DataTypes, TopicsFit
<1>2. ASSUME TopicsFit, minute' = minute, bars' = bars \/ bars' = {} PROVE DataTypes'
  <2>1. /\ bars' \subseteq Symbols \X (0 .. MaxMinutes)
        /\ IsFiniteSet(bars') /\ Cardinality(bars') <= Kept
    <3>1. CASE bars' = bars
      BY <3>1 DEF DataTypes
    <3>2. CASE bars' = {}
      BY <1>0, <3>2
    <3> QED
      BY <1>2, <3>1, <3>2
  <2> QED
    BY <1>2, <2>1 DEF DataTypes, TopicsFit, Messages
<1>3. ASSUME NEW u \in Services, Forgotten(u) PROVE bars' = bars \/ bars' = {}
  BY <1>3 DEF Forgotten, memory
<1>4. ASSUME NEW t \in Inputs, NEW kind \in Kinds[t], Write(t, kind) PROVE DataTypes'
  <2>1. /\ log' = [log EXCEPT ![t] = Append(@, kind)] /\ kind \in AllKinds
        /\ DOMAIN log = Topics /\ Inputs \subseteq Topics /\ "legacy-mq" \notin Inputs
        /\ "legacy-mq" \in Topics
    BY <1>4, LogTables, PipelineAssumption DEF Write, PInv
  <2>2. log'[t] \in Seq(AllKinds)
    BY <2>1 DEF DataTypes
  <2>3. \A u \in Topics \ {t} : log'[u] = log[u]
    BY <2>1
  <2>4. TopicsFit
    BY <2>1, <2>2, <2>3 DEF DataTypes, TopicsFit
  <2> QED
    BY <1>2, <1>4, <2>4 DEF Write, memory
<1>5. ASSUME NEW t \in Topics, Expire(t) PROVE DataTypes'
  BY <1>1, <1>2, <1>5 DEF Expire, memory
<1>6. ASSUME NEW u \in Services, Start(u) \/ Rejoin(u) \/ AutoCommit(u) \/ StopConsumer(u)
      PROVE  DataTypes'
  BY <1>1, <1>2, <1>6 DEF Start, Rejoin, AutoCommit, StopConsumer, topics, memory
<1>7. ASSUME NEW u \in Services, StopProducer(u) PROVE DataTypes'
  BY <1>1, <1>2, <1>3, <1>7 DEF StopProducer, topics
<1>8. ASSUME NEW u \in Services, Kill(u) PROVE DataTypes'
  BY <1>2, <1>3, <1>8, PerhapsSentTypes DEF Kill
<1>9. ASSUME NEW u \in Services, NEW t \in Subscribed(u), Get(u, t) \/ Reset(u, t)
      PROVE  DataTypes'
  BY <1>1, <1>2, <1>9 DEF Get, Reset, topics, memory
<1>10. ASSUME Adapt PROVE DataTypes'
  <2>1. PICK m \in inHand[Adapter] :
          PrintBatch(m) \/ Unusable(m) \/ SendLegacy(m) \/ SendLegacyFails(m)
    BY <1>10 DEF Adapt
  <2>2. bars' = bars /\ minute' = minute
    BY <2>1 DEF PrintBatch, LogAndSend, Unusable, Raise, SendLegacy, SendLegacyFails, memory
  <2>3. TopicsFit
    <3>1. CASE PrintBatch(m) \/ Unusable(m)
      BY <1>1, <3>1 DEF PrintBatch, LogAndSend, Unusable, topics
    <3>2. CASE SendLegacy(m) \/ SendLegacyFails(m)
      BY <1>0, <3>2, SentTypes, PerhapsSentTypes DEF SendLegacy, SendLegacyFails
    <3> QED
      BY <2>1, <3>1, <3>2
  <2> QED
    BY <1>2, <2>2, <2>3
<1>11. ASSUME Process PROVE DataTypes'
  <2>1. PICK m \in inHand[Processor] :
          \/ handle_trades(m) \/ handle_market_data(m) \/ handle_others(m)
          \/ Failed(m) \/ KeyRaises(m) \/ NotAnObject(m) \/ _send_to_dlq(m)
    BY <1>11 DEF Process
  <2>2. log' = log
    BY <2>1
       DEF handle_trades, handle_market_data, handle_others, Handled, Failed, LogAndSend,
           KeyRaises, NotAnObject, _send_to_dlq, topics
  <2>3. CASE handle_market_data(m)
    <3>1. TopicsFit
      BY <1>1, <2>2
    <3> QED
      BY <2>3, <3>1, TickTypes DEF DataTypes, TopicsFit, Messages
  <2>4. CASE ~handle_market_data(m)
    <3>1. bars' = bars /\ minute' = minute
      BY <2>1, <2>4
         DEF handle_trades, handle_others, Failed, LogAndSend, KeyRaises, NotAnObject, Raise,
             _send_to_dlq, memory
    <3> QED
      BY <1>1, <1>2, <2>2, <3>1
  <2> QED
    BY <2>3, <2>4
<1> QED
  BY <1>4, <1>5, <1>6, <1>7, <1>8, <1>9, <1>10, <1>11 DEF Next, Work

\* A service has one message in hand while its loop works on it and none otherwise,
\* no position is beyond its topic and no commit beyond its position, and there are
\* never more than Kept minute bars: for every number of topics, symbols and messages.
THEOREM PipelineTypes == Spec => []TypeOK
<1>1. Init => DataTypes /\ positions \in [Symbols -> Int]
  <2> SUFFICES ASSUME Init PROVE DataTypes /\ positions \in [Symbols -> Int]
    OBVIOUS
  <2>1. /\ \A t \in Inputs : log[t] = << >>
        /\ log["legacy-mq"] = << >>
    BY DEF Init, Topics
  <2>2. IsFiniteSet({}) /\ Cardinality({}) = 0 /\ Kept \in Nat
    BY FS_EmptySet, PipelineAssumption
  <2>3. /\ \A t \in Inputs : log[t] \in Seq(AllKinds)
        /\ log["legacy-mq"] \in Seq(Messages)
    <3>1. << >> \in Seq(AllKinds) /\ << >> \in Seq(Messages)
      OBVIOUS
    <3> QED
      BY <2>1, <3>1
  <2>4. IsFiniteSet(bars) /\ Cardinality(bars) <= Kept
    BY <2>2 DEF Init
  <2> QED
    BY <2>3, <2>4 DEF Init, DataTypes
<1>2. PInv /\ DataTypes /\ [Next]_vars => DataTypes'
  BY DataStep DEF vars, topics, memory, DataTypes, Messages
<1>3. PInv /\ Placed /\ DataTypes /\ Ledger => TypeOK
  <2> SUFFICES ASSUME PInv, Placed, DataTypes, Ledger PROVE TypeOK
    OBVIOUS
  <2>1. stage \in [Services -> Stages]
    BY DEF PInv, Domains
  <2>2. ASSUME NEW s \in Services
        PROVE  /\ inHand[s] \in SUBSET Messages /\ Cardinality(inHand[s]) <= 1
               /\ inHand[s] # {} <=> stage[s] \notin {"down", "waiting"}
    <3>1. Types(s) /\ InTopics(s)
      BY DEF PInv, ServiceInv, Placed
    <3>2. CASE inHand[s] = {}
      <4>1. Cardinality(inHand[s]) = 0
        BY <3>2, FS_EmptySet, Zenon
      <4> QED
        BY <3>1, <3>2, <4>1 DEF Types, Stages, InTopics
    <3>3. CASE inHand[s] # {}
      <4>1. PICK m \in inHand[s] : TRUE
        BY <3>3
      <4>2. inHand[s] = {m}
        BY <3>1, <4>1 DEF Types
      <4>3. Cardinality(inHand[s]) = 1
        BY <4>2, FS_Singleton, Zenon
      <4> QED
        BY <3>1, <3>3, <4>3 DEF Types, Stages, InTopics
    <3> QED
      BY <3>2, <3>3
  <2>3. ASSUME NEW s \in Services, NEW t \in Subscribed(s)
        PROVE  /\ first[t] \in 0 .. Len(log[t])
               /\ position[s][t] \in 0 .. Len(log[t])
               /\ committed[s][t] \in Nothing .. position[s][t]
    <3>1. /\ position[s][t] \in Nat /\ committed[s][t] \in Nat \cup {Nothing}
          /\ first[t] <= Len(log[t])
          /\ position[s][t] <= Len(log[t]) /\ committed[s][t] <= position[s][t]
      BY DEF PInv, ServiceInv, Types, Placed, InTopics
    <3>2. Len(log[t]) \in Nat /\ first[t] \in Nat
      BY TopicsExist, TopicsHaveLength DEF PInv, Domains
    <3> QED
      BY <3>1, <3>2 DEF Nothing
  <2>4. \A t \in Topics : first[t] \in 0 .. Len(log[t])
    BY <2>3, ServiceNames DEF Subscribed
  <2> QED
    BY <2>1, <2>2, <2>3, <2>4 DEF TypeOK, DataTypes, Ledger, SumUp, Stages
<1> QED
  BY <1>1, <1>2, <1>3, LedgerInvariant, PlacedInit, PlacedStep, PipelineInvariant, PTL DEF Spec
=============================================================================
