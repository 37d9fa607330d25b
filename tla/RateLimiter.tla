----------------------------- MODULE RateLimiter -----------------------------
(***************************************************************************)
(* The rate limiter of the gateway (services/gateway/server.js): one       *)
(* record per client address, a window that starts with the first request  *)
(* after the last one has expired, and a timer that drops old records.     *)
(* rateLimit runs without an await, so each of its calls is one step.      *)
(* The clock is read from the system and taken to go forward.              *)
(***************************************************************************)
EXTENDS Integers, Sequences

CONSTANTS
  Clients,            \* the client addresses
  RATE_LIMIT_WINDOW,  \* 60000 ms in the code
  RATE_LIMIT_MAX,     \* 1000 in the code
  MaxTime,            \* bound on the clock
  MaxCount            \* bound on the requests of a client in a window

ASSUME LimiterAssumption ==
  /\ RATE_LIMIT_WINDOW \in Nat \ {0}
  /\ RATE_LIMIT_MAX \in Nat \ {0}

VARIABLES
  now,             \* Date.now()
  rateLimitStore,  \* the records; one whose count is 0 is not in the map
  admitted         \* admitted[c]: when the requests of c were let through

vars == <<now, rateLimitStore, admitted>>

NoRecord == [windowStart |-> 0, count |-> 0]

Init ==
  /\ now = 0
  /\ rateLimitStore = [c \in Clients |-> NoRecord]
  /\ admitted = [c \in Clients |-> <<>>]

\* !record || now - record.windowStart > RATE_LIMIT_WINDOW_MS
Expired(c) ==
  \/ rateLimitStore[c].count = 0
  \/ now - rateLimitStore[c].windowStart > RATE_LIMIT_WINDOW

\* Faulty variant: a new window starts with the count of the last one.
CountKept(c) ==
  [windowStart |-> IF Expired(c) THEN now ELSE rateLimitStore[c].windowStart,
   count |-> rateLimitStore[c].count + 1]

\* The record of c once its request has been counted; the requests refused are
\* counted as well.
Counted(c) ==
  IF Expired(c) THEN [windowStart |-> now, count |-> 1]
  ELSE [windowStart |-> rateLimitStore[c].windowStart,
        count |-> rateLimitStore[c].count + 1]

Admits(c) == Counted(c).count <= RATE_LIMIT_MAX

rateLimit(c) ==
  /\ Counted(c).count <= MaxCount
  /\ rateLimitStore' = [rateLimitStore EXCEPT ![c] = Counted(c)]
  /\ admitted' = IF Admits(c) THEN [admitted EXCEPT ![c] = Append(@, now)] ELSE admitted
  /\ UNCHANGED now

\* Faulty variant: the timer clears the map.
CleanAll ==
  /\ rateLimitStore' = [c \in Clients |-> NoRecord]
  /\ UNCHANGED <<now, admitted>>

\* The timer of 60 s, at whatever moment it fires.
Clean ==
  /\ rateLimitStore' = [c \in Clients |->
       IF now - rateLimitStore[c].windowStart > RATE_LIMIT_WINDOW * 2
       THEN NoRecord ELSE rateLimitStore[c]]
  /\ UNCHANGED <<now, admitted>>

Tick ==
  /\ now < MaxTime
  /\ now' = now + 1
  /\ UNCHANGED <<rateLimitStore, admitted>>

Next == (\E c \in Clients : rateLimit(c)) \/ Clean \/ Tick

Spec == Init /\ [][Next]_vars

-----------------------------------------------------------------------------
TypeOK ==
  /\ now \in Nat
  /\ rateLimitStore \in [Clients -> [windowStart : Nat, count : Nat]]
  /\ admitted \in [Clients -> Seq(Nat)]

\* No 2 * RATE_LIMIT_MAX + 1 requests of a client are let through within the
\* length of a window: what a limiter with fixed windows does guarantee, and
\* what dropping a record too early would break.
AtMostDouble ==
  \A c \in Clients : \A i, j \in 1 .. Len(admitted[c]) :
    j - i >= 2 * RATE_LIMIT_MAX => admitted[c][j] - admitted[c][i] > RATE_LIMIT_WINDOW

\* A step counts a request of c and refuses it.
Refuses(c) ==
  /\ rateLimitStore'[c] # rateLimitStore[c]
  /\ rateLimitStore'[c].count > RATE_LIMIT_MAX

\* RATE_LIMIT_MAX requests of c were let through within the length of a window.
UsedUp(c) ==
  LET n == Len(admitted[c]) IN
  /\ n >= RATE_LIMIT_MAX
  /\ now - admitted[c][n - RATE_LIMIT_MAX + 1] <= RATE_LIMIT_WINDOW

\* A client is refused only when that many of its requests were really let
\* through lately: refused requests, which are counted too, do not prolong the
\* refusal, however often the client comes back.
RefusedWhenUsedUp == [][\A c \in Clients : Refuses(c) => UsedUp(c)]_vars

-----------------------------------------------------------------------------
(* The inductive invariant behind both *)

\* How many of the admissions of c belong to the window of its record.
InWindow(c) ==
  IF rateLimitStore[c].count < RATE_LIMIT_MAX THEN rateLimitStore[c].count
  ELSE RATE_LIMIT_MAX

\* The last InWindow(c) admissions lie in the window of the record, the others
\* before it, and all but RATE_LIMIT_MAX of those more than a window before it.
\* A client without a record was let through more than a window ago.
Windows(c) ==
  LET start == rateLimitStore[c].windowStart
      older == Len(admitted[c]) - InWindow(c)
  IN
  /\ start <= now
  /\ older >= 0
  /\ \A i \in 1 .. Len(admitted[c]) :
       IF rateLimitStore[c].count = 0
       THEN admitted[c][i] + RATE_LIMIT_WINDOW < now
       ELSE /\ admitted[c][i] <= now
            /\ i > older => /\ start <= admitted[c][i]
                            /\ admitted[c][i] <= start + RATE_LIMIT_WINDOW
            /\ i <= older => admitted[c][i] < start
            /\ i <= older - RATE_LIMIT_MAX =>
                 admitted[c][i] + RATE_LIMIT_WINDOW < start

Limited ==
  /\ TypeOK
  /\ AtMostDouble
  /\ \A c \in Clients : Windows(c)
=============================================================================
