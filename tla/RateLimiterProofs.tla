-------------------------- MODULE RateLimiterProofs --------------------------
(***************************************************************************)
(* What the rate limiter guarantees for every set of clients, window and   *)
(* limit. Limited is inductive: a request in the window of its record      *)
(* comes at most RATE_LIMIT_WINDOW after its start, a request that opens a *)
(* window comes more than that after the start of the last one, and a      *)
(* record is dropped only when all of its admissions are a window old.     *)
(***************************************************************************)
EXTENDS RateLimiter, TLAPS

\* The window and the limit are positive numbers.
LEMMA Constants ==
  /\ RATE_LIMIT_WINDOW \in Nat /\ RATE_LIMIT_WINDOW > 0
  /\ RATE_LIMIT_MAX \in Nat /\ RATE_LIMIT_MAX > 0
  BY LimiterAssumption

\* Two windows after a start, what was let through in the window is one old.
LEMMA TwoWindowsLater ==
  ASSUME NEW a \in Nat, NEW start \in Nat, NEW t \in Nat,
         a <= start + RATE_LIMIT_WINDOW, t - start > RATE_LIMIT_WINDOW * 2
  PROVE  a + RATE_LIMIT_WINDOW < t
  BY Constants

\* Nothing has been admitted when the gateway starts.
LEMMA LimitedInit == Init => Limited
<1> SUFFICES ASSUME Init PROVE Limited
  OBVIOUS
<1>1. TypeOK
  BY DEF Init, TypeOK, NoRecord
<1>2. \A c \in Clients : admitted[c] = <<>> /\ rateLimitStore[c].windowStart = 0
                         /\ rateLimitStore[c].count = 0
  BY DEF Init, NoRecord
<1>3. AtMostDouble
  BY <1>2 DEF AtMostDouble
<1>4. ASSUME NEW c \in Clients PROVE Windows(c)
  <2>1. InWindow(c) = 0
    BY <1>2, Constants DEF InWindow
  <2>2. Len(admitted[c]) = 0 /\ now = 0 /\ rateLimitStore[c].windowStart = 0
    BY <1>2 DEF Init
  <2> QED
    BY <2>1, <2>2 DEF Windows
<1> QED
  BY <1>1, <1>3, <1>4 DEF Limited

\* The clock only moves away from what has been admitted.
LEMMA LimitedTick == Limited /\ Tick => Limited'
<1> SUFFICES ASSUME Limited, Tick PROVE Limited'
  OBVIOUS
<1> USE Constants
<1>1. TypeOK'
  BY DEF Limited, TypeOK, Tick
<1>2. AtMostDouble'
  BY DEF Limited, AtMostDouble, Tick
<1>3. ASSUME NEW c \in Clients PROVE Windows(c)'
  <2>1. Windows(c)
    BY DEF Limited
  <2>2. /\ now \in Nat
        /\ \A i \in 1 .. Len(admitted[c]) : admitted[c][i] \in Nat
        /\ rateLimitStore[c].windowStart \in Nat
    BY DEF Limited, TypeOK
  <2> QED
    BY <2>1, <2>2 DEF Windows, InWindow, Tick
<1> QED
  BY <1>1, <1>2, <1>3 DEF Limited

\* A record older than two windows has admissions older than one: forgetting
\* them lets nothing through that AtMostDouble forbids.
LEMMA LimitedClean == Limited /\ Clean => Limited'
<1> SUFFICES ASSUME Limited, Clean PROVE Limited'
  OBVIOUS
<1> USE Constants
<1>0. NoRecord \in [windowStart : Nat, count : Nat]
  BY DEF NoRecord
<1>1. TypeOK'
  BY <1>0 DEF Limited, TypeOK, Clean
<1>2. AtMostDouble'
  BY DEF Limited, AtMostDouble, Clean
<1>3. ASSUME NEW c \in Clients PROVE Windows(c)'
  <2>1. Windows(c)
    BY DEF Limited
  <2>2. /\ now \in Nat
        /\ admitted[c] \in Seq(Nat)
        /\ Len(admitted[c]) \in Nat
        /\ \A i \in 1 .. Len(admitted[c]) : admitted[c][i] \in Nat
        /\ rateLimitStore[c].windowStart \in Nat
        /\ rateLimitStore[c].count \in Nat
    BY DEF Limited, TypeOK
  <2>3. now' = now /\ admitted' = admitted
    BY DEF Clean
  <2>4. CASE now - rateLimitStore[c].windowStart > RATE_LIMIT_WINDOW * 2
    <3>1. rateLimitStore'[c].windowStart = 0 /\ rateLimitStore'[c].count = 0
      BY <2>4 DEF Clean, NoRecord
    <3>2. \A i \in 1 .. Len(admitted[c]) : admitted[c][i] + RATE_LIMIT_WINDOW < now
      <4> SUFFICES ASSUME NEW i \in 1 .. Len(admitted[c])
                   PROVE admitted[c][i] + RATE_LIMIT_WINDOW < now
        OBVIOUS
      <4>1. admitted[c][i] \in Nat /\ i \in Nat
        BY <2>2
      <4>2. CASE rateLimitStore[c].count = 0
        BY <2>1, <4>2 DEF Windows
      <4>3. CASE rateLimitStore[c].count # 0
        <5>1. admitted[c][i] <= rateLimitStore[c].windowStart + RATE_LIMIT_WINDOW
          <6>1. InWindow(c) \in Nat
            BY <2>2 DEF InWindow
          <6>2. CASE i > Len(admitted[c]) - InWindow(c)
            BY <2>1, <4>3, <6>2 DEF Windows
          <6>3. CASE i <= Len(admitted[c]) - InWindow(c)
            <7>1. admitted[c][i] < rateLimitStore[c].windowStart
              BY <2>1, <4>3, <6>3 DEF Windows
            <7> QED
              BY <2>2, <4>1, <7>1
          <6> QED
            BY <2>2, <4>1, <6>1, <6>2, <6>3
        <5> QED
          BY <2>2, <2>4, <4>1, <5>1, TwoWindowsLater
      <4> QED
        BY <4>2, <4>3
    <3> QED
      BY <2>2, <2>3, <3>1, <3>2 DEF Windows, InWindow
  <2>5. CASE ~ (now - rateLimitStore[c].windowStart > RATE_LIMIT_WINDOW * 2)
    <3>1. rateLimitStore'[c] = rateLimitStore[c]
      BY <2>5 DEF Clean
    <3> QED
      BY <2>1, <2>3, <3>1 DEF Windows, InWindow
  <2> QED
    BY <2>4, <2>5
<1> QED
  BY <1>1, <1>2, <1>3 DEF Limited

-----------------------------------------------------------------------------
(* A request *)

\* What TypeOK says of one client.
LEMMA ClientTypes ==
  ASSUME Limited, NEW c \in Clients
  PROVE  /\ now \in Nat
         /\ admitted[c] \in Seq(Nat)
         /\ Len(admitted[c]) \in Nat
         /\ \A i \in 1 .. Len(admitted[c]) : admitted[c][i] \in Nat
         /\ rateLimitStore[c].windowStart \in Nat
         /\ rateLimitStore[c].count \in Nat
         /\ InWindow(c) \in Nat
         /\ InWindow(c) <= RATE_LIMIT_MAX
         /\ rateLimitStore[c].count > 0 => InWindow(c) > 0
<1>1. /\ now \in Nat
      /\ admitted[c] \in Seq(Nat)
      /\ rateLimitStore[c] \in [windowStart : Nat, count : Nat]
  BY DEF Limited, TypeOK
<1>2. rateLimitStore[c].windowStart \in Nat /\ rateLimitStore[c].count \in Nat
  BY <1>1
<1> QED
  BY <1>1, <1>2, Constants DEF InWindow

\* When the window of c has expired, everything let through lies before now, and
\* all but RATE_LIMIT_MAX of it more than a window before.
LEMMA BeforeNewWindow ==
  ASSUME Limited, NEW c \in Clients, Expired(c), NEW i \in 1 .. Len(admitted[c])
  PROVE  /\ admitted[c][i] < now
         /\ i <= Len(admitted[c]) - RATE_LIMIT_MAX =>
              admitted[c][i] + RATE_LIMIT_WINDOW < now
<1> DEFINE start == rateLimitStore[c].windowStart
           older == Len(admitted[c]) - InWindow(c)
           at == admitted[c][i]
<1>1. Windows(c)
  BY DEF Limited
<1>2. at \in Nat /\ now \in Nat /\ start \in Nat /\ i \in Nat
  BY ClientTypes
<1>3. CASE rateLimitStore[c].count = 0
  <2>1. at + RATE_LIMIT_WINDOW < now
    BY <1>1, <1>3 DEF Windows
  <2> QED
    BY <2>1, <1>2, Constants
<1>4. CASE rateLimitStore[c].count # 0
  <2>1. now - start > RATE_LIMIT_WINDOW
    BY <1>4 DEF Expired
  <2>2. older \in Int /\ Len(admitted[c]) - RATE_LIMIT_MAX <= older
    BY ClientTypes, Constants
  <2>3. CASE i > older
    <3>1. at <= start + RATE_LIMIT_WINDOW
      BY <1>1, <1>4, <2>3 DEF Windows
    <3>2. ~ (i <= Len(admitted[c]) - RATE_LIMIT_MAX)
      BY <2>2, <2>3, <1>2, ClientTypes, Constants
    <3> HIDE DEF at, start
    <3>3. at < now
      BY <1>2, <2>1, <3>1, Constants
    <3> QED
      BY <3>2, <3>3 DEF at
  <2>4. CASE i <= older
    <3>1. at < start
      BY <1>1, <1>4, <2>4 DEF Windows
    <3> HIDE DEF at, start
    <3>2. at < now /\ at + RATE_LIMIT_WINDOW < now
      BY <1>2, <2>1, <3>1, Constants
    <3> QED
      BY <3>2 DEF at
  <2> QED
    BY <1>2, <2>2, <2>3, <2>4
<1> QED
  BY <1>3, <1>4

\* Appending to the admissions of c.
LEMMA Admission ==
  ASSUME NEW s \in Seq(Nat), NEW t \in Nat
  PROVE  /\ Append(s, t) \in Seq(Nat)
         /\ Len(s) \in Nat
         /\ Len(Append(s, t)) = Len(s) + 1
         /\ \A i \in 1 .. Len(s) : Append(s, t)[i] = s[i]
         /\ Append(s, t)[Len(s) + 1] = t
  OBVIOUS

\* A request that is let through comes late enough after the earlier ones, and
\* leaves the windows of its client in order.
LEMMA AdmittedInOrder ==
  ASSUME Limited, NEW c \in Clients, rateLimit(c), Admits(c)
  PROVE  /\ \A i \in 1 .. Len(admitted[c]) :
              i <= Len(admitted[c]) + 1 - 2 * RATE_LIMIT_MAX =>
                now - admitted[c][i] > RATE_LIMIT_WINDOW
         /\ Windows(c)'
<1> DEFINE n == Len(admitted[c])
           start == rateLimitStore[c].windowStart
           count == rateLimitStore[c].count
<1>1. Windows(c)
  BY DEF Limited
<1>2. /\ n \in Nat /\ start \in Nat /\ count \in Nat /\ now \in Nat
      /\ \A i \in 1 .. n : admitted[c][i] \in Nat
      /\ InWindow(c) \in Nat
  BY ClientTypes
<1>3. now' = now /\ admitted'[c] = Append(admitted[c], now)
  BY DEF rateLimit, Limited, TypeOK
<1>4. /\ Len(admitted'[c]) = n + 1
      /\ \A i \in 1 .. n : admitted'[c][i] = admitted[c][i]
      /\ admitted'[c][n + 1] = now
  BY <1>3, ClientTypes, Admission
<1>5. rateLimitStore'[c] = Counted(c)
  BY DEF rateLimit, Limited, TypeOK
<1>6. CASE Expired(c)
  <2>1. rateLimitStore'[c].windowStart = now /\ rateLimitStore'[c].count = 1
    BY <1>5, <1>6 DEF Counted
  <2>2. InWindow(c)' = 1
    BY <2>1, Constants DEF InWindow
  <2>3. \A i \in 1 .. n :
          /\ admitted[c][i] < now
          /\ i <= n - RATE_LIMIT_MAX => admitted[c][i] + RATE_LIMIT_WINDOW < now
    BY <1>6, BeforeNewWindow
  <2>4. ASSUME NEW i \in 1 .. n, i <= n + 1 - 2 * RATE_LIMIT_MAX
        PROVE  now - admitted[c][i] > RATE_LIMIT_WINDOW
    <3>1. i <= n - RATE_LIMIT_MAX
      BY <2>4, <1>2, Constants
    <3> QED
      BY <3>1, <2>3, <1>2, Constants
  <2>5. Windows(c)'
    <3>1. ASSUME NEW i \in 1 .. n + 1
          PROVE  /\ admitted'[c][i] <= now
                 /\ i > n => /\ now <= admitted'[c][i]
                             /\ admitted'[c][i] <= now + RATE_LIMIT_WINDOW
                 /\ i <= n => admitted'[c][i] < now
                 /\ i <= n - RATE_LIMIT_MAX =>
                      admitted'[c][i] + RATE_LIMIT_WINDOW < now
      <4>1. CASE i = n + 1
        <5>1. admitted'[c][i] = now
          BY <4>1, <1>4
        <5>2. now <= now /\ now <= now + RATE_LIMIT_WINDOW
          BY <1>2, Constants
        <5>3. ~ (i <= n) /\ ~ (i <= n - RATE_LIMIT_MAX)
          BY <4>1, <1>2, Constants
        <5> QED
          BY <5>1, <5>2, <5>3
      <4>2. CASE i \in 1 .. n
        <5>1. /\ admitted'[c][i] = admitted[c][i]
              /\ admitted[c][i] < now
              /\ i <= n - RATE_LIMIT_MAX => admitted[c][i] + RATE_LIMIT_WINDOW < now
          BY <4>2, <1>4, <2>3
        <5>2. admitted[c][i] \in Nat /\ now \in Nat
          BY <4>2, <1>2
        <5>3. admitted[c][i] <= now
          BY <5>1, <5>2
        <5>4. ~ (i > n)
          BY <4>2, <1>2
        <5> QED
          BY <5>1, <5>3, <5>4
      <4> QED
        BY <4>1, <4>2, <1>2
    <3> QED
      BY <3>1, <1>2, <1>3, <1>4, <2>1, <2>2 DEF Windows
  <2> QED
    BY <2>4, <2>5
<1>7. CASE ~ Expired(c)
  <2>1. count > 0 /\ now - start <= RATE_LIMIT_WINDOW
    BY <1>7, <1>2, Constants DEF Expired
  <2>2. /\ rateLimitStore'[c].windowStart = start
        /\ rateLimitStore'[c].count = count + 1
        /\ count + 1 <= RATE_LIMIT_MAX
    BY <1>5, <1>7 DEF Counted, Admits
  <2>3. InWindow(c) = count /\ InWindow(c)' = count + 1
    BY <1>2, <2>2, Constants DEF InWindow
  <2>4. /\ start <= now
        /\ n - count >= 0
        /\ \A i \in 1 .. n :
             /\ admitted[c][i] <= now
             /\ i > n - count => /\ start <= admitted[c][i]
                                 /\ admitted[c][i] <= start + RATE_LIMIT_WINDOW
             /\ i <= n - count => admitted[c][i] < start
             /\ i <= n - count - RATE_LIMIT_MAX =>
                  admitted[c][i] + RATE_LIMIT_WINDOW < start
    BY <1>1, <2>1, <2>3, <1>2 DEF Windows
  <2>5. ASSUME NEW i \in 1 .. n, i <= n + 1 - 2 * RATE_LIMIT_MAX
        PROVE  now - admitted[c][i] > RATE_LIMIT_WINDOW
    <3>1. count + 1 <= RATE_LIMIT_MAX /\ n \in Nat /\ count \in Nat /\ i \in Nat
      BY <2>2, <1>2
    <3>2. i <= n - count - RATE_LIMIT_MAX
      <4> HIDE DEF n, count
      <4> QED
        BY <2>5, <3>1, Constants
    <3>3. admitted[c][i] + RATE_LIMIT_WINDOW < start /\ start <= now
      BY <3>2, <2>4
    <3>4. admitted[c][i] \in Nat /\ start \in Nat /\ now \in Nat
      BY <1>2
    <3> HIDE DEF start
    <3> QED
      BY <3>3, <3>4, Constants
  <2>6. Windows(c)'
    <3>1. ASSUME NEW i \in 1 .. n + 1
          PROVE  /\ admitted'[c][i] <= now
                 /\ i > n - count =>
                      /\ start <= admitted'[c][i]
                      /\ admitted'[c][i] <= start + RATE_LIMIT_WINDOW
                 /\ i <= n - count => admitted'[c][i] < start
                 /\ i <= n - count - RATE_LIMIT_MAX =>
                      admitted'[c][i] + RATE_LIMIT_WINDOW < start
      <4>1. CASE i = n + 1
        <5>1. ~ (i <= n - count) /\ ~ (i <= n - count - RATE_LIMIT_MAX)
          BY <4>1, <1>2, <2>1, Constants
        <5>2. now <= start + RATE_LIMIT_WINDOW
          BY <1>2, <2>1, Constants
        <5> QED
          BY <4>1, <5>1, <5>2, <1>4, <1>2, <2>4
      <4>2. CASE i \in 1 .. n
        <5>1. admitted'[c][i] = admitted[c][i]
          BY <4>2, <1>4
        <5> QED
          BY <4>2, <5>1, <2>4
      <4> QED
        BY <4>1, <4>2, <1>2
    <3>2. Len(admitted'[c]) - InWindow(c)' = n - count
      <4>1. n \in Nat /\ count \in Nat
        BY <1>2
      <4>2. Len(admitted'[c]) = n + 1 /\ InWindow(c)' = count + 1
        BY <1>4, <2>3
      <4> HIDE DEF n, count
      <4>3. (n + 1) - (count + 1) = n - count
        BY <4>1
      <4> QED
        BY <4>2, <4>3
    <3>3. rateLimitStore'[c].count # 0
      BY <1>2, <2>2
    <3>4. start <= now /\ n - count >= 0
      BY <2>4
    <3> HIDE DEF n, start, count
    <3>5. rateLimitStore'[c].windowStart <= now'
      BY <3>4, <1>3, <2>2
    <3> QED
      BY <3>1, <3>2, <3>3, <3>4, <3>5, <1>3, <1>4, <2>2 DEF Windows
  <2> QED
    BY <2>5, <2>6
<1> QED
  BY <1>6, <1>7

\* A request that is refused belongs to a window that is used up.
LEMMA RefusedInOrder ==
  ASSUME Limited, NEW c \in Clients, rateLimit(c), ~ Admits(c)
  PROVE  UsedUp(c) /\ Windows(c)'
<1> DEFINE n == Len(admitted[c])
           start == rateLimitStore[c].windowStart
           count == rateLimitStore[c].count
<1>1. Windows(c)
  BY DEF Limited
<1>2. /\ n \in Nat /\ start \in Nat /\ count \in Nat /\ now \in Nat
      /\ \A i \in 1 .. n : admitted[c][i] \in Nat
  BY ClientTypes
<1>3. now' = now /\ admitted' = admitted
  BY DEF rateLimit
<1>4. ~ Expired(c)
  BY Constants DEF Admits, Counted
<1>5. /\ rateLimitStore'[c].windowStart = start
      /\ rateLimitStore'[c].count = count + 1
      /\ count >= RATE_LIMIT_MAX
  <2>1. rateLimitStore'[c] = Counted(c)
    BY DEF rateLimit, Limited, TypeOK
  <2>2. Counted(c) = [windowStart |-> start, count |-> count + 1]
    BY <1>4 DEF Counted
  <2> QED
    BY <2>1, <2>2, <1>2, Constants DEF Admits
<1>6. InWindow(c) = RATE_LIMIT_MAX /\ InWindow(c)' = RATE_LIMIT_MAX
  BY <1>2, <1>5, Constants DEF InWindow
<1>7. count # 0 /\ now - start <= RATE_LIMIT_WINDOW
  BY <1>2, <1>4, <1>5, Constants DEF Expired
<1>8. UsedUp(c)
  <2>1. n >= RATE_LIMIT_MAX
    BY <1>1, <1>2, <1>6, Constants DEF Windows
  <2>2. /\ n - RATE_LIMIT_MAX + 1 \in 1 .. n
        /\ n - RATE_LIMIT_MAX + 1 > n - InWindow(c)
    BY <2>1, <1>2, <1>6, Constants
  <2>3. start <= admitted[c][n - RATE_LIMIT_MAX + 1]
    BY <2>2, <1>1, <1>7 DEF Windows
  <2> DEFINE t == admitted[c][n - RATE_LIMIT_MAX + 1]
  <2>4. t \in Nat /\ start <= t
    BY <2>2, <2>3, <1>2
  <2>5. now - t <= RATE_LIMIT_WINDOW
    <3> HIDE DEF t, start, n, count
    <3> QED
      BY <2>4, <1>2, <1>7, Constants
  <2> QED
    BY <2>1, <2>5 DEF UsedUp
<1>9. Windows(c)'
  <2>1. rateLimitStore'[c].count # 0
    BY <1>2, <1>5
  <2> QED
    BY <2>1, <1>1, <1>3, <1>5, <1>6, <1>7 DEF Windows
<1> QED
  BY <1>8, <1>9

\* A request of one client, admitted or refused, leaves the others alone.
LEMMA LimitedRequest ==
  ASSUME Limited, NEW c \in Clients, rateLimit(c) PROVE Limited'
<1> DEFINE n == Len(admitted[c])
<1>1. TypeOK'
  <2>1. Counted(c) \in [windowStart : Nat, count : Nat]
    BY ClientTypes DEF Counted
  <2>2. rateLimitStore' \in [Clients -> [windowStart : Nat, count : Nat]]
    BY <2>1 DEF rateLimit, Limited, TypeOK
  <2>3. Append(admitted[c], now) \in Seq(Nat)
    BY ClientTypes, Admission
  <2>4. admitted' \in [Clients -> Seq(Nat)]
    BY <2>3 DEF rateLimit, Limited, TypeOK
  <2> QED
    BY <2>2, <2>4 DEF rateLimit, Limited, TypeOK
<1>2. ASSUME NEW d \in Clients, d # c
      PROVE  rateLimitStore'[d] = rateLimitStore[d] /\ admitted'[d] = admitted[d]
  BY <1>2 DEF rateLimit, Limited, TypeOK
<1>3. AtMostDouble'
  <2> SUFFICES ASSUME NEW d \in Clients,
                      NEW i \in 1 .. Len(admitted'[d]), NEW j \in 1 .. Len(admitted'[d]),
                      j - i >= 2 * RATE_LIMIT_MAX
               PROVE  admitted'[d][j] - admitted'[d][i] > RATE_LIMIT_WINDOW
    BY DEF AtMostDouble
  <2>1. CASE admitted'[d] = admitted[d]
    BY <2>1 DEF Limited, AtMostDouble
  <2>2. CASE admitted'[d] # admitted[d]
    <3>1. d = c /\ Admits(c) /\ admitted'[c] = Append(admitted[c], now)
      BY <1>2, <2>2 DEF rateLimit, Limited, TypeOK
    <3>2. /\ n \in Nat
          /\ Len(admitted'[c]) = n + 1
          /\ \A k \in 1 .. n : admitted'[c][k] = admitted[c][k]
          /\ admitted'[c][n + 1] = now
      BY <3>1, ClientTypes, Admission
    <3>3. i \in 1 .. n
      BY <3>1, <3>2, Constants
    <3>4. CASE j \in 1 .. n
      <4>1. admitted[c][j] - admitted[c][i] > RATE_LIMIT_WINDOW
        BY <3>3, <3>4 DEF Limited, AtMostDouble
      <4> QED
        BY <4>1, <3>1, <3>2, <3>3, <3>4
    <3>5. CASE j = n + 1
      <4>1. i <= n + 1 - 2 * RATE_LIMIT_MAX
        BY <3>2, <3>3, <3>5, Constants
      <4>2. now - admitted[c][i] > RATE_LIMIT_WINDOW
        BY <3>1, <3>3, <4>1, AdmittedInOrder
      <4> QED
        BY <3>1, <3>2, <3>3, <3>5, <4>2
    <3> QED
      BY <3>1, <3>2, <3>4, <3>5
  <2> QED
    BY <2>1, <2>2
<1>4. ASSUME NEW d \in Clients PROVE Windows(d)'
  <2>1. CASE d = c
    BY <2>1, AdmittedInOrder, RefusedInOrder
  <2>2. CASE d # c
    <3>1. Windows(d) /\ now' = now
      BY DEF Limited, rateLimit
    <3>2. rateLimitStore'[d] = rateLimitStore[d] /\ admitted'[d] = admitted[d]
      BY <1>2, <2>2
    <3> QED
      BY <3>1, <3>2 DEF Windows, InWindow
  <2> QED
    BY <2>1, <2>2
<1> QED
  BY <1>1, <1>3, <1>4 DEF Limited

\* Limited is inductive.
LEMMA LimitedStep == Limited /\ [Next]_vars => Limited'
<1> SUFFICES ASSUME Limited, [Next]_vars PROVE Limited'
  OBVIOUS
<1>1. ASSUME NEW c \in Clients, rateLimit(c) PROVE Limited'
  BY <1>1, LimitedRequest
<1>2. CASE Clean
  BY <1>2, LimitedClean
<1>3. CASE Tick
  BY <1>3, LimitedTick
<1>4. CASE UNCHANGED vars
  BY <1>4 DEF vars, Limited, TypeOK, AtMostDouble, Windows, InWindow
<1> QED
  BY <1>1, <1>2, <1>3, <1>4 DEF Next

\* Only a request of a client that has used its limit up is refused.
LEMMA RefusedStep ==
  Limited /\ Next => \A c \in Clients : Refuses(c) => UsedUp(c)
<1> SUFFICES ASSUME Limited, Next, NEW c \in Clients, Refuses(c) PROVE UsedUp(c)
  OBVIOUS
<1>1. ASSUME NEW d \in Clients, rateLimit(d) PROVE UsedUp(c)
  <2>1. c = d
    BY <1>1 DEF Refuses, rateLimit, Limited, TypeOK
  <2>2. rateLimitStore'[c] = Counted(c)
    BY <1>1, <2>1 DEF rateLimit, Limited, TypeOK
  <2>3. Counted(c).count > RATE_LIMIT_MAX
    BY <2>2 DEF Refuses
  <2>4. Counted(c).count \in Nat
    BY ClientTypes DEF Counted
  <2>5. ~ Admits(c)
    BY <2>3, <2>4, Constants DEF Admits
  <2> QED
    BY <1>1, <2>1, <2>5, RefusedInOrder
<1>2. CASE Clean
  <2>1. rateLimitStore'[c] = NoRecord \/ rateLimitStore'[c] = rateLimitStore[c]
    BY <1>2 DEF Clean
  <2>2. NoRecord.count = 0
    BY DEF NoRecord
  <2> QED
    BY <2>1, <2>2, Constants DEF Refuses
<1>3. CASE Tick
  BY <1>3 DEF Tick, Refuses
<1> QED
  BY <1>1, <1>2, <1>3 DEF Next

-----------------------------------------------------------------------------
\* The inductive invariant: the admissions of a client lie in its windows.
THEOREM AlwaysLimited == Spec => []Limited
<1> QED
  BY LimitedInit, LimitedStep, PTL DEF Spec

\* rateLimit never lets more than twice the limit of a client's requests through
\* within the length of a window, whenever the clean-up timer fires.
THEOREM AtMostDoubleAdmitted == Spec => []AtMostDouble
<1>1. Limited => AtMostDouble
  BY DEF Limited
<1> QED
  BY <1>1, AlwaysLimited, PTL

\* rateLimit refuses a client only while the limit is really used up, however
\* many refused requests it has counted.
THEOREM RefusedOnlyWhenUsedUp == Spec => RefusedWhenUsedUp
<1>1. Limited /\ [Next]_vars => [\A c \in Clients : Refuses(c) => UsedUp(c)]_vars
  BY RefusedStep
<1> QED
  BY <1>1, AlwaysLimited, PTL DEF Spec, RefusedWhenUsedUp
=============================================================================
