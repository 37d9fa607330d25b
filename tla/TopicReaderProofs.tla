------------------------- MODULE TopicReaderProofs -------------------------
(***************************************************************************)
(* A reader of topics loses no message but by resets to the end of a       *)
(* topic, whatever the number of topics, messages, rebalances and deaths.  *)
(* The invariant adds to OnlyResetsSkip that no group has committed more   *)
(* than its reader has got, and no reader has got more than there is:      *)
(* joining a group moves a reader back to an offset behind its position,   *)
(* or on to the end of the topic and then past skipped messages only.  And *)
(* the message in hand while the reader stops is the one that ended it.    *)
(***************************************************************************)
EXTENDS TopicReader, TLAPS

Answered == settled \cup inHand \cup raised \cup cut \cup skipped

Ordered == \A t \in Topics : committed[t] <= position[t] /\ position[t] <= length[t]

EndedByHand == mode = "stopping" => inHand \subseteq raised

IInv == TypeOK /\ OnlyResetsSkip /\ Ordered /\ EndedByHand

\* What a reset goes past.
LEMMA FromHolds ==
  ASSUME NEW t \in Topics, length[t] \in Nat, NEW n \in Int, NEW i \in Nat,
         n <= i, i < length[t]
  PROVE  <<t, i>> \in From(t, n)
  BY DEF From

\* It is made of messages.
LEMMA FromMessages ==
  ASSUME NEW t \in Topics, NEW n \in Int
  PROVE  From(t, n) \subseteq Messages
<1> SUFFICES ASSUME NEW m \in From(t, n) PROVE m \in Topics \X Nat
  BY DEF Messages
<1>1. PICK i \in 0 .. length[t] - 1 : m = <<t, i>>
  BY DEF From
<1>2. i \in Nat
  OBVIOUS
<1> QED
  BY <1>1, <1>2

\* A message that is answered for stays so, whatever the step.
LEMMA AnsweredStays == EndedByHand /\ Next => Answered \subseteq Answered'
<1> SUFFICES ASSUME EndedByHand, Next PROVE Answered \subseteq Answered'
  OBVIOUS
<1>1. ASSUME NEW t \in Topics, Write(t) \/ Expire(t) PROVE Answered \subseteq Answered'
  BY <1>1 DEF Write, Expire, Answered
<1>2. ASSUME NEW t \in Topics, Get(t) PROVE Answered \subseteq Answered'
  BY <1>2 DEF Get, Answered
<1>3. ASSUME NEW t \in Topics, Reset(t) PROVE Answered \subseteq Answered'
  BY <1>3 DEF Reset, Answered
<1>4. CASE Start \/ Rejoin
  BY <1>4 DEF Start, Rejoin, Join, Answered
<1>5. CASE Settle
  BY <1>5 DEF Settle, Answered
<1>6. CASE Commit
  BY <1>6 DEF Commit, Answered
<1>7. CASE Raise
  BY <1>7 DEF Raise, Answered
<1>8. CASE Kill
  BY <1>8 DEF Kill, Answered
<1>9. CASE End
  BY <1>9 DEF End, Answered, EndedByHand
<1> QED
  BY <1>1, <1>2, <1>3, <1>4, <1>5, <1>6, <1>7, <1>8, <1>9 DEF Next

\* At the start nothing is behind the reader.
LEMMA IInvInit == Init => IInv
<1> SUFFICES ASSUME Init PROVE IInv
  OBVIOUS
<1>1. TypeOK
  BY DEF Init, TypeOK, Nothing, Messages
<1>2. OnlyResetsSkip
  BY DEF Init, OnlyResetsSkip
<1>3. Ordered
  <2> SUFFICES ASSUME NEW t \in Topics
               PROVE  committed[t] <= position[t] /\ position[t] <= length[t]
    BY DEF Ordered
  <2>1. committed[t] = -1 /\ position[t] = 0 /\ length[t] = 0
    BY DEF Init, Nothing
  <2> QED
    BY <2>1
<1>4. EndedByHand
  BY DEF Init, EndedByHand
<1> QED
  BY <1>1, <1>2, <1>3, <1>4 DEF IInv

\* Every step keeps the types.
LEMMA TypeStep == TypeOK /\ Next => TypeOK'
<1> SUFFICES ASSUME TypeOK, Next PROVE TypeOK'
  OBVIOUS
<1>0. \A t \in Topics : committed[t] \in Int
  BY DEF TypeOK, Nothing
<1> USE DEF TypeOK, Nothing
<1>1. ASSUME NEW t \in Topics, Write(t) PROVE TypeOK'
  BY <1>1 DEF Write
<1>2. ASSUME NEW t \in Topics, Expire(t) PROVE TypeOK'
  <2>1. first' \in [Topics -> Nat]
    <3>1. PICK n \in first[t] + 1 .. length[t] : first' = [first EXCEPT ![t] = n]
      BY <1>2 DEF Expire
    <3>2. n \in Nat
      OBVIOUS
    <3> QED
      BY <3>1, <3>2
  <2> QED
    BY <1>2, <2>1 DEF Expire
<1>3. ASSUME NEW t \in Topics, Get(t) PROVE TypeOK'
  <2>1. position' \in [Topics -> Nat]
    BY <1>3 DEF Get
  <2>2. inHand' \in SUBSET Messages
    BY <1>3 DEF Get, Messages
  <2> QED
    BY <1>3, <2>1, <2>2 DEF Get
<1>4. ASSUME NEW t \in Topics, Reset(t) PROVE TypeOK'
  <2>1. position' \in [Topics -> Nat]
    BY <1>4 DEF Reset
  <2>2. position[t] \in Int
    OBVIOUS
  <2>3. skipped' \in SUBSET Messages
    BY <1>4, <2>2, FromMessages DEF Reset
  <2> QED
    BY <1>4, <2>1, <2>3 DEF Reset
<1>5. CASE Start \/ Rejoin
  <2>0. Join /\ mode' \in {"down", "reading", "stopping"}
    BY <1>5 DEF Start, Rejoin
  <2>1. \A t \in Topics : committed[t] >= first[t] => committed[t] \in Nat
    OBVIOUS
  <2>2. position' \in [Topics -> Nat]
    BY <2>0, <2>1 DEF Join
  <2>3. ASSUME NEW m \in UNION {From(t, committed[t]) : t \in {u \in Topics : committed[u] < first[u]}}
        PROVE  m \in Messages
    <3>1. PICK t \in Topics : m \in From(t, committed[t])
      BY <2>3
    <3> QED
      BY <1>0, <3>1, FromMessages
  <2>4. skipped' \in SUBSET Messages
    BY <2>0, <2>3 DEF Join
  <2> QED
    BY <2>0, <2>2, <2>4 DEF Join
<1>6. CASE Settle
  BY <1>6 DEF Settle
<1>7. CASE Commit
  BY <1>7 DEF Commit
<1>8. CASE Raise
  BY <1>8 DEF Raise
<1>9. CASE End
  BY <1>9 DEF End
<1>10. CASE Kill
  BY <1>10 DEF Kill
<1> QED
  BY <1>1, <1>2, <1>3, <1>4, <1>5, <1>6, <1>7, <1>8, <1>9, <1>10 DEF Next

\* The committed offsets stay behind the position: they are taken from it, and
\* joining moves it to them or to the end.
LEMMA OrderStep == TypeOK /\ Ordered /\ Next => Ordered'
<1> SUFFICES ASSUME TypeOK, Ordered, Next, NEW u \in Topics
             PROVE  committed'[u] <= position'[u] /\ position'[u] <= length'[u]
  BY DEF Ordered
<1>0. /\ committed[u] <= position[u] /\ position[u] <= length[u]
      /\ position[u] \in Nat /\ length[u] \in Nat /\ first[u] \in Nat
      /\ committed[u] \in Int
  BY DEF TypeOK, Ordered, Nothing
<1>1. ASSUME NEW t \in Topics, Write(t)
      PROVE  committed'[u] <= position'[u] /\ position'[u] <= length'[u]
  BY <1>0, <1>1 DEF Write, TypeOK
<1>2. ASSUME NEW t \in Topics, Get(t)
      PROVE  committed'[u] <= position'[u] /\ position'[u] <= length'[u]
  BY <1>0, <1>2 DEF Get, TypeOK
<1>3. ASSUME NEW t \in Topics, Reset(t)
      PROVE  committed'[u] <= position'[u] /\ position'[u] <= length'[u]
  BY <1>0, <1>3 DEF Reset, TypeOK
<1>4. CASE Start \/ Rejoin
  BY <1>0, <1>4 DEF Start, Rejoin, Join, TypeOK
<1>5. CASE Commit
  BY <1>0, <1>5 DEF Commit
<1>6. ASSUME NEW t \in Topics, Expire(t)
      PROVE  committed'[u] <= position'[u] /\ position'[u] <= length'[u]
  BY <1>0, <1>6 DEF Expire
<1>7. CASE Settle \/ Raise \/ End \/ Kill
  BY <1>0, <1>7 DEF Settle, Raise, End, Kill
<1> QED
  BY <1>1, <1>2, <1>3, <1>4, <1>5, <1>6, <1>7 DEF Next

\* The reader stops with the message it has raised for, and gets no other.
LEMMA EndStep == EndedByHand /\ Next => EndedByHand'
<1> SUFFICES ASSUME EndedByHand, Next PROVE EndedByHand'
  OBVIOUS
<1> USE DEF EndedByHand
<1>1. ASSUME NEW t \in Topics, Write(t) \/ Expire(t) \/ Reset(t) \/ Get(t) PROVE EndedByHand'
  BY <1>1 DEF Write, Expire, Reset, Get
<1>2. CASE Start \/ Rejoin
  BY <1>2 DEF Start, Rejoin, Join
<1>3. CASE Settle \/ Commit \/ Raise \/ End \/ Kill
  BY <1>3 DEF Settle, Commit, Raise, End, Kill
<1> QED
  BY <1>1, <1>2, <1>3 DEF Next

\* A step that does not move the position loses nothing.
LEMMA NoMoveNoLoss ==
  ASSUME OnlyResetsSkip, EndedByHand, Next, position' = position
  PROVE  OnlyResetsSkip'
  BY AnsweredStays DEF OnlyResetsSkip, Answered

\* A reader loses nothing with any step.
LEMMA LossStep == IInv /\ Next => OnlyResetsSkip'
<1> SUFFICES ASSUME IInv, Next PROVE OnlyResetsSkip'
  OBVIOUS
<1>0. TypeOK /\ OnlyResetsSkip /\ Ordered /\ EndedByHand
  BY DEF IInv
<1>1. ASSUME NEW t \in Topics, Write(t) \/ Expire(t) PROVE OnlyResetsSkip'
  BY <1>0, <1>1, NoMoveNoLoss DEF Write, Expire
<1>2. ASSUME NEW t \in Topics, Get(t) PROVE OnlyResetsSkip'
  <2> SUFFICES ASSUME NEW u \in Topics, NEW i \in Nat, i < position'[u]
               PROVE  <<u, i>> \in Answered'
    BY DEF OnlyResetsSkip, Answered
  <2>1. CASE i < position[u]
    <3>1. <<u, i>> \in Answered
      BY <1>0, <2>1 DEF OnlyResetsSkip, Answered
    <3> QED
      BY <1>0, <3>1, AnsweredStays
  <2>2. CASE ~(i < position[u])
    <3>1. u = t /\ i = position[t]
      BY <1>0, <1>2, <2>2 DEF Get, TypeOK
    <3>2. inHand' = {<<t, position[t]>>}
      BY <1>2 DEF Get
    <3> QED
      BY <3>1, <3>2 DEF Answered
  <2> QED
    BY <2>1, <2>2
<1>3. ASSUME NEW t \in Topics, Reset(t) PROVE OnlyResetsSkip'
  <2> SUFFICES ASSUME NEW u \in Topics, NEW i \in Nat, i < position'[u]
               PROVE  <<u, i>> \in Answered'
    BY DEF OnlyResetsSkip, Answered
  <2>1. CASE i < position[u]
    <3>1. <<u, i>> \in Answered
      BY <1>0, <2>1 DEF OnlyResetsSkip, Answered
    <3> QED
      BY <1>0, <3>1, AnsweredStays
  <2>2. CASE ~(i < position[u])
    <3>1. u = t /\ position[t] <= i /\ i < length[t]
      BY <1>0, <1>3, <2>2 DEF Reset, TypeOK
    <3>2. length[t] \in Nat /\ position[t] \in Int
      BY <1>0 DEF TypeOK
    <3>3. <<t, i>> \in From(t, position[t])
      BY <3>1, <3>2, FromHolds
    <3> QED
      BY <1>3, <3>1, <3>3 DEF Reset, Answered
  <2> QED
    BY <2>1, <2>2
<1>4. CASE Start \/ Rejoin
  <2>0. Join
    BY <1>4 DEF Start, Rejoin
  <2> SUFFICES ASSUME NEW u \in Topics, NEW i \in Nat, i < position'[u]
               PROVE  <<u, i>> \in Answered'
    BY DEF OnlyResetsSkip, Answered
  <2>1. /\ committed[u] \in Int /\ position[u] \in Nat /\ length[u] \in Nat
        /\ committed[u] <= position[u]
    BY <1>0 DEF TypeOK, Nothing, Ordered
  <2>2. CASE i < position[u]
    <3>1. <<u, i>> \in Answered
      BY <1>0, <2>2 DEF OnlyResetsSkip, Answered
    <3> QED
      BY <1>0, <3>1, AnsweredStays
  <2>3. CASE ~(i < position[u])
    <3>1. committed[u] < first[u] /\ position'[u] = length[u]
      BY <2>0, <2>1, <2>3 DEF Join
    <3>2. <<u, i>> \in From(u, committed[u])
      BY <2>1, <2>3, <3>1, FromHolds
    <3> QED
      BY <2>0, <3>1, <3>2 DEF Join, Answered
  <2> QED
    BY <2>2, <2>3
<1>5. CASE Settle
  BY <1>0, <1>5, NoMoveNoLoss DEF Settle
<1>6. CASE Commit
  BY <1>0, <1>6, NoMoveNoLoss DEF Commit
<1>7. CASE Raise
  BY <1>0, <1>7, NoMoveNoLoss DEF Raise
<1>8. CASE End
  BY <1>0, <1>8, NoMoveNoLoss DEF End
<1>9. CASE Kill
  BY <1>0, <1>9, NoMoveNoLoss DEF Kill
<1> QED
  BY <1>1, <1>2, <1>3, <1>4, <1>5, <1>6, <1>7, <1>8, <1>9 DEF Next

\* The inductive invariant of a reader.
THEOREM ReaderInvariant == Spec => []IInv
<1>1. ASSUME IInv, [Next]_vars PROVE IInv'
  <2>1. CASE Next
    BY <1>1, <2>1, TypeStep, LossStep, OrderStep, EndStep DEF IInv
  <2>2. CASE UNCHANGED vars
    BY <1>1, <2>2
       DEF vars, IInv, TypeOK, OnlyResetsSkip, Ordered, EndedByHand, Messages, Nothing
  <2> QED
    BY <1>1, <2>1, <2>2
<1> QED
  BY IInvInit, <1>1, PTL DEF Spec

\* Every message behind a reader is finished with, in hand, ended it, was in hand
\* when it was killed, or was gone past by a reset to the end: that its offset is
\* committed before it is finished with loses no message, and neither does a
\* rebalance or a death at any point.
THEOREM OnlyResetsLose == Spec => []OnlyResetsSkip
<1>1. IInv => OnlyResetsSkip
  BY DEF IInv
<1> QED
  BY ReaderInvariant, <1>1, PTL
=============================================================================
