----------------------------- MODULE TopicReader -----------------------------
(***************************************************************************)
(* What the services that read Kafka topics promise about every message:   *)
(* an abstract specification of one member of a consumer group.  The       *)
(* group's offsets are committed in the background and when the consumer   *)
(* is stopped, not when a message has been dealt with.  A reader goes on   *)
(* at the end of a topic (auto_offset_reset="latest") when its group has   *)
(* committed nothing or what it committed is retained no longer.           *)
(***************************************************************************)
EXTENDS Integers

CONSTANT Topics

\* What is committed while nothing is: less than every offset.
Nothing == -1

VARIABLES
  length,     \* length[t]: the number of messages that were written to t
  first,      \* first[t]: the offset of the first one that is still retained
  mode,       \* "down", "reading" or "stopping"
  position,   \* position[t]: the offset of the message it will get next
  committed,  \* committed[t]: the offset its group has committed, or Nothing
  inHand,     \* the message it has got and not finished, if there is one
  settled,    \* the messages it has finished with
  raised,     \* the messages that ended it
  cut,        \* the messages it had in hand when it was killed
  skipped     \* the messages that a reset to the end of a topic went past

vars == <<length, first, mode, position, committed, inHand, settled, raised, cut, skipped>>

Messages == Topics \X Nat

\* The messages of t from an offset on.
From(t, n) == {t} \X {i \in 0 .. length[t] - 1 : n <= i}

Init ==
  /\ length = [t \in Topics |-> 0]
  /\ first = [t \in Topics |-> 0]
  /\ mode = "down"
  /\ position = [t \in Topics |-> 0]
  /\ committed = [t \in Topics |-> Nothing]
  /\ inHand = {}
  /\ settled = {}
  /\ raised = {}
  /\ cut = {}
  /\ skipped = {}

\* Somebody writes to a topic.
Write(t) ==
  /\ length' = [length EXCEPT ![t] = @ + 1]
  /\ UNCHANGED <<first, mode, position, committed, inHand, settled, raised, cut, skipped>>

\* The oldest messages are deleted.
Expire(t) ==
  /\ \E n \in first[t] + 1 .. length[t] : first' = [first EXCEPT ![t] = n]
  /\ UNCHANGED <<length, mode, position, committed, inHand, settled, raised, cut, skipped>>

\* Joining its group a reader goes on at the committed offsets where it can.
Join ==
  /\ position' = [t \in Topics |->
                    IF committed[t] < first[t] THEN length[t] ELSE committed[t]]
  /\ skipped' = skipped \cup
       UNION {From(t, committed[t]) : t \in {u \in Topics : committed[u] < first[u]}}
  /\ UNCHANGED <<length, first, committed, inHand, settled, raised, cut>>

Start == mode = "down" /\ mode' = "reading" /\ Join

\* The group is rebalanced while the reader runs.
Rejoin == mode = "reading" /\ mode' = mode /\ Join

\* The next message is no longer there to be fetched.
Reset(t) ==
  /\ mode = "reading"
  /\ position[t] < first[t]
  /\ position' = [position EXCEPT ![t] = length[t]]
  /\ skipped' = skipped \cup From(t, position[t])
  /\ UNCHANGED <<length, first, mode, committed, inHand, settled, raised, cut>>

\* The message may have been fetched before it was deleted.
Get(t) ==
  /\ mode = "reading"
  /\ inHand = {}
  /\ position[t] < length[t]
  /\ inHand' = {<<t, position[t]>>}
  /\ position' = [position EXCEPT ![t] = @ + 1]
  /\ UNCHANGED <<length, first, mode, committed, settled, raised, cut, skipped>>

Settle ==
  /\ mode = "reading"
  /\ inHand # {}
  /\ settled' = settled \cup inHand
  /\ inHand' = {}
  /\ UNCHANGED <<length, first, mode, position, committed, raised, cut, skipped>>

\* The commits of the background, and the one when the consumer is stopped: what
\* the reader has got, finished or not.
Commit ==
  /\ mode # "down"
  /\ committed' = position
  /\ UNCHANGED <<length, first, mode, position, inHand, settled, raised, cut, skipped>>

\* The message in hand ends the reader.
Raise ==
  /\ mode = "reading"
  /\ inHand # {}
  /\ mode' = "stopping"
  /\ raised' = raised \cup inHand
  /\ UNCHANGED <<length, first, position, committed, inHand, settled, cut, skipped>>

End ==
  /\ mode = "stopping"
  /\ mode' = "down"
  /\ inHand' = {}
  /\ UNCHANGED <<length, first, position, committed, settled, raised, cut, skipped>>

Kill ==
  /\ mode # "down"
  /\ mode' = "down"
  /\ cut' = cut \cup inHand
  /\ inHand' = {}
  /\ UNCHANGED <<length, first, position, committed, settled, raised, skipped>>

Next ==
  \/ \E t \in Topics : Write(t) \/ Expire(t) \/ Reset(t) \/ Get(t)
  \/ Start \/ Rejoin \/ Settle \/ Commit \/ Raise \/ End \/ Kill

Spec == Init /\ [][Next]_vars

-----------------------------------------------------------------------------

TypeOK ==
  /\ length \in [Topics -> Nat]
  /\ first \in [Topics -> Nat]
  /\ mode \in {"down", "reading", "stopping"}
  /\ position \in [Topics -> Nat]
  /\ committed \in [Topics -> Nat \cup {Nothing}]
  /\ inHand \in SUBSET Messages
  /\ settled \in SUBSET Messages
  /\ raised \in SUBSET Messages
  /\ cut \in SUBSET Messages
  /\ skipped \in SUBSET Messages

\* A message behind the reader is finished with, in hand, ended the reader, was in
\* hand when the reader was killed, or a reset went past it: committing offsets
\* before messages are finished, dying at any point and joining again lose no
\* others.
OnlyResetsSkip ==
  \A t \in Topics : \A i \in Nat :
    i < position[t] => <<t, i>> \in settled \cup inHand \cup raised \cup cut \cup skipped
=============================================================================
