--------------------------- MODULE OrderExecution ---------------------------
(***************************************************************************)
(* What the order service promises about the execution of an order,        *)
(* whatever its handlers, its database and its topics do meanwhile: an     *)
(* order is admitted or declined once; an admitted order is executed in    *)
(* pieces, one unless it is split before it trades, each of them once; and *)
(* the execution ends with all of the pieces or with none of them, unless  *)
(* the process dies on the way.                                            *)
(***************************************************************************)
EXTENDS Naturals

CONSTANTS Orders, PieceCounts

VARIABLES
  stage,    \* stage[o]: how far the order has come
  pieces,   \* pieces[o]: into how many pieces it is split
  executed  \* executed[o]: how many of them have been executed

vars == <<stage, pieces, executed>>

Stages == {"open", "declined", "admitted", "complete", "unfilled", "abandoned"}

Init ==
  /\ stage = [o \in Orders |-> "open"]
  /\ pieces = [o \in Orders |-> 0]
  /\ executed = [o \in Orders |-> 0]

Admit(o) ==
  /\ stage[o] = "open"
  /\ stage' = [stage EXCEPT ![o] = "admitted"]
  /\ pieces' = [pieces EXCEPT ![o] = 1]
  /\ UNCHANGED executed

Decline(o) ==
  /\ stage[o] = "open"
  /\ stage' = [stage EXCEPT ![o] = "declined"]
  /\ UNCHANGED <<pieces, executed>>

Split(o) ==
  /\ stage[o] = "admitted"
  /\ executed[o] = 0
  /\ \E n \in PieceCounts : pieces' = [pieces EXCEPT ![o] = n]
  /\ UNCHANGED <<stage, executed>>

Execute(o) ==
  /\ stage[o] = "admitted"
  /\ executed[o] < pieces[o]
  /\ executed' = [executed EXCEPT ![o] = @ + 1]
  /\ UNCHANGED <<stage, pieces>>

Complete(o) ==
  /\ stage[o] = "admitted"
  /\ executed[o] = pieces[o]
  /\ stage' = [stage EXCEPT ![o] = "complete"]
  /\ UNCHANGED <<pieces, executed>>

Close(o) ==
  /\ stage[o] = "admitted"
  /\ executed[o] = 0
  /\ stage' = [stage EXCEPT ![o] = "unfilled"]
  /\ UNCHANGED <<pieces, executed>>

\* The process dies: every order it was working on is declined or abandoned.
Abandon ==
  /\ \E declined \in SUBSET {o \in Orders : stage[o] = "open"} :
       stage' = [o \in Orders |->
                   CASE stage[o] = "admitted" -> "abandoned"
                     [] o \in declined -> "declined"
                     [] OTHER -> stage[o]]
  /\ UNCHANGED <<pieces, executed>>

Next ==
  \/ \E o \in Orders :
       Admit(o) \/ Decline(o) \/ Split(o) \/ Execute(o) \/ Complete(o) \/ Close(o)
  \/ Abandon

Spec == Init /\ [][Next]_vars

\* Every admitted order comes to an end.
EveryAdmittedEnds ==
  \A o \in Orders :
    stage[o] = "admitted" ~> stage[o] \in {"complete", "unfilled", "abandoned"}
=============================================================================
