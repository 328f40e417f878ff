------------------------- MODULE RateLimiterProofs -------------------------
(***************************************************************************)
(* The rate limiter for any number of addresses, any window and any        *)
(* maximum.                                                                *)
(***************************************************************************)
EXTENDS MCRateLimiter, LimiterLemmas, FiniteSetTheorems

-----------------------------------------------------------------------------
(* The limiter forgets the beginning of the history, and nothing in it that a
   window could still hold. *)

TInv ==
  /\ now \in Nat
  /\ requests \in [IPs -> Seq(Nat)] /\ admitted \in [IPs -> Seq(Nat)]

\* The limiter has the history of an address but for its first d requests.
Forgot(ip, d) ==
  /\ d \in 0 .. Len(admitted[ip])
  /\ Len(requests[ip]) = Len(admitted[ip]) - d
  /\ \A i \in 1 .. Len(requests[ip]) : requests[ip][i] = admitted[ip][i + d]
  /\ \A i \in 1 .. d : admitted[ip][i] <= now - Window

HistoryInv ==
  \A ip \in IPs :
    /\ Ascending(admitted[ip])
    /\ \A i \in 1 .. Len(admitted[ip]) : admitted[ip][i] <= now
    /\ \E d : Forgot(ip, d)

LEMMA RequestsAscend ==
  ASSUME TInv, NEW ip \in IPs, Ascending(admitted[ip]), NEW d, Forgot(ip, d)
  PROVE  Ascending(requests[ip])
<1> SUFFICES ASSUME NEW i \in 1 .. Len(requests[ip]), NEW j \in 1 .. Len(requests[ip]), i <= j
             PROVE  requests[ip][i] <= requests[ip][j]
  BY DEF Ascending
<1>1. /\ d \in Nat /\ Len(requests[ip]) \in Nat /\ Len(admitted[ip]) \in Nat
      /\ Len(requests[ip]) = Len(admitted[ip]) - d
  BY DEF TInv, Forgot
<1>2. i + d \in 1 .. Len(admitted[ip]) /\ j + d \in 1 .. Len(admitted[ip]) /\ i + d <= j + d
  BY <1>1
<1>3. admitted[ip][i + d] <= admitted[ip][j + d]
  BY <1>2 DEF Ascending
<1> QED BY <1>3 DEF Forgot

\* What counts now is what the history has in the window that ends now.
LEMMA RecentOfHistory ==
  ASSUME TInv, HistoryInv, NEW ip \in IPs
  PROVE  \E e : /\ Cut(admitted[ip], now - Window, e)
                /\ Recent(ip) \in Seq(Nat) /\ Len(Recent(ip)) = Len(admitted[ip]) - e
                /\ \A i \in 1 .. Len(Recent(ip)) : Recent(ip)[i] = admitted[ip][i + e]
<1> DEFINE a == admitted[ip]
           s == requests[ip]
           c == now - Window
<1>1. PICK d : Forgot(ip, d)
  BY DEF HistoryInv
<1>2. /\ a \in Seq(Nat) /\ s \in Seq(Nat) /\ c \in Int /\ Len(a) \in Nat /\ Len(s) \in Nat
      /\ Ascending(s)
  BY <1>1, RequestsAscend, RateLimiterAssumption DEF TInv, HistoryInv
<1>3. PICK k : Cut(s, c, k)
  BY <1>2, CutExists
<1>4. /\ Recent(ip) \in Seq(Nat) /\ Len(Recent(ip)) = Len(s) - k
      /\ \A i \in 1 .. Len(Recent(ip)) : Recent(ip)[i] = s[i + k]
  BY <1>2, <1>3, RecentIsEnd DEF TInv
<1> HIDE DEF a, s, c
<1>5. /\ d \in 0 .. Len(a) /\ k \in 0 .. Len(s) /\ Len(s) = Len(a) - d
      /\ \A i \in 1 .. Len(s) : s[i] = a[i + d]
      /\ \A i \in 1 .. d : a[i] <= c
      /\ \A i \in 1 .. Len(s) : s[i] > c <=> i > k
  BY <1>1, <1>3 DEF Forgot, Cut, a, s, c
<1>6. Cut(a, c, d + k)
  <2>1. d + k \in 0 .. Len(a)
    BY <1>2, <1>5
  <2>2. ASSUME NEW i \in 1 .. Len(a) PROVE a[i] > c <=> i > d + k
    <3>1. CASE i <= d
      <4>1. i \in 1 .. d /\ a[i] \in Nat
        BY <1>2, <1>5, <3>1
      <4>2. a[i] <= c
        BY <1>5, <4>1
      <4>3. ~(i > d + k)
        BY <1>2, <1>5, <3>1
      <4> QED BY <1>2, <4>1, <4>2, <4>3
    <3>2. CASE i > d
      <4>1. i - d \in 1 .. Len(s) /\ (i - d) + d = i
        BY <1>2, <1>5, <3>2
      <4>2. s[i - d] = a[i] /\ (s[i - d] > c <=> i - d > k)
        BY <1>5, <4>1
      <4>3. i - d > k <=> i > d + k
        BY <1>2, <1>5
      <4> QED BY <4>2, <4>3
    <3> QED BY <1>2, <1>5, <3>1, <3>2
  <2> QED BY <2>1, <2>2 DEF Cut
<1>7. Len(Recent(ip)) = Len(a) - (d + k)
  BY <1>2, <1>4, <1>5
<1>8. \A i \in 1 .. Len(Recent(ip)) : Recent(ip)[i] = a[i + (d + k)]
  <2> SUFFICES ASSUME NEW i \in 1 .. Len(Recent(ip)) PROVE Recent(ip)[i] = a[i + (d + k)]
    OBVIOUS
  <2>1. i + k \in 1 .. Len(s) /\ (i + k) + d = i + (d + k)
    BY <1>2, <1>4, <1>5
  <2> QED BY <1>4, <1>5, <2>1
<1> QED BY <1>4, <1>6, <1>7, <1>8 DEF a, c

LEMMA InvInit == Init => TInv /\ HistoryInv /\ RateHeld
<1> SUFFICES ASSUME Init PROVE TInv /\ HistoryInv /\ RateHeld
  OBVIOUS
<1>1. /\ now = 0 /\ requests = [ip \in IPs |-> <<>>] /\ admitted = [ip \in IPs |-> <<>>]
  BY DEF Init, RateLimiterInit
<1>2. ASSUME NEW ip \in IPs PROVE Forgot(ip, 0)
  <2>1. /\ requests[ip] = <<>> /\ admitted[ip] = <<>>
        /\ Len(requests[ip]) = 0 /\ Len(admitted[ip]) = 0
    BY <1>1
  <2>2. 1 .. 0 = {} /\ 0 \in 0 .. 0 /\ 0 - 0 = 0
    OBVIOUS
  <2> QED BY <2>1, <2>2 DEF Forgot
<1> QED BY <1>1, <1>2 DEF TInv, HistoryInv, Ascending, RateHeld

LEMMA InvStep == TInv /\ HistoryInv /\ RateHeld /\ [Next]_vars => (TInv /\ HistoryInv /\ RateHeld)'
<1> SUFFICES ASSUME TInv, HistoryInv, RateHeld, [Next]_vars PROVE (TInv /\ HistoryInv /\ RateHeld)'
  OBVIOUS
<1>1. CASE UNCHANGED vars
  BY <1>1 DEF vars, TInv, HistoryInv, Forgot, Ascending, RateHeld
<1>2. CASE Tick
  <2>1. now' = now + 1 /\ UNCHANGED <<requests, admitted>> /\ now \in Nat
    BY <1>2 DEF Tick, TInv
  <2>2. TInv'
    BY <2>1 DEF TInv
  <2>3. RateHeld'
    BY <2>1 DEF RateHeld
  <2>4. ASSUME NEW ip \in IPs, NEW d, Forgot(ip, d) PROVE Forgot(ip, d)'
    <3>1. \A i \in 1 .. d : admitted[ip][i] <= now' - Window
      <4> SUFFICES ASSUME NEW i \in 1 .. d PROVE admitted[ip][i] <= now' - Window
        OBVIOUS
      <4>1. i \in 1 .. Len(admitted[ip]) /\ admitted[ip] \in Seq(Nat)
        BY <2>4 DEF Forgot, TInv
      <4>2. admitted[ip][i] \in Nat /\ admitted[ip][i] <= now - Window
        BY <2>4, <4>1 DEF Forgot
      <4> QED BY <2>1, <4>2, RateLimiterAssumption
    <3> QED BY <2>1, <2>4, <3>1 DEF Forgot
  <2>5. ASSUME NEW ip \in IPs, NEW i \in 1 .. Len(admitted[ip]) PROVE admitted[ip][i] <= now'
    <3>1. admitted[ip] \in Seq(Nat) /\ admitted[ip][i] <= now
      BY DEF TInv, HistoryInv
    <3>2. admitted[ip][i] \in Nat
      BY <3>1
    <3> QED BY <2>1, <3>1, <3>2
  <2>6. HistoryInv'
    BY <2>1, <2>4, <2>5 DEF HistoryInv, Ascending
  <2> QED BY <2>2, <2>3, <2>6
<1>3. ASSUME NEW ip \in IPs, LetThrough(ip) PROVE (TInv /\ HistoryInv /\ RateHeld)'
  <2> DEFINE a == admitted[ip]
             n == Len(a)
  <2>1. PICK e : /\ Cut(a, now - Window, e)
                 /\ Recent(ip) \in Seq(Nat) /\ Len(Recent(ip)) = n - e
                 /\ \A i \in 1 .. Len(Recent(ip)) : Recent(ip)[i] = a[i + e]
    BY RecentOfHistory
  <2>2. /\ n - e < RateMax /\ now' = now /\ now \in Nat /\ a \in Seq(Nat) /\ n \in Nat
        /\ requests' = [requests EXCEPT ![ip] = Append(Recent(ip), now)]
        /\ admitted' = [admitted EXCEPT ![ip] = Append(a, now)]
    BY <1>3, <2>1 DEF LetThrough, Allow, Allowed, TInv
  <2>3. TInv'
    BY <2>1, <2>2 DEF TInv
  <2>4. /\ admitted'[ip] = Append(a, now) /\ requests'[ip] = Append(Recent(ip), now)
        /\ \A p \in IPs \ {ip} : admitted'[p] = admitted[p] /\ requests'[p] = requests[p]
    BY <2>2 DEF TInv
  <2>5. /\ Len(admitted'[ip]) = n + 1 /\ admitted'[ip][n + 1] = now
        /\ \A i \in 1 .. n : admitted'[ip][i] = a[i] /\ a[i] \in Nat /\ a[i] <= now
    BY <2>2, <2>4 DEF HistoryInv
  <2>6. /\ e \in 0 .. n /\ \A i \in 1 .. n : a[i] > now - Window <=> i > e
    BY <2>1 DEF Cut
  <2> HIDE DEF a, n
  <2>7. Ascending(a)
    BY DEF HistoryInv, a
  <2>8. Ascending(admitted'[ip])
    <3> SUFFICES ASSUME NEW i \in 1 .. n + 1, NEW j \in 1 .. n + 1, i <= j
                 PROVE  admitted'[ip][i] <= admitted'[ip][j]
      BY <2>5 DEF Ascending
    <3>1. CASE j = n + 1
      BY <2>2, <2>5, <3>1
    <3>2. CASE j # n + 1
      <4>1. i \in 1 .. n /\ j \in 1 .. n
        BY <2>2, <3>2
      <4> QED BY <2>5, <2>7, <4>1 DEF Ascending, n
    <3> QED BY <3>1, <3>2
  <2>9. \A i \in 1 .. Len(admitted'[ip]) : admitted'[ip][i] <= now'
    BY <2>2, <2>5
  <2>10. Forgot(ip, e)'
    <3>1. Len(requests'[ip]) = Len(admitted'[ip]) - e /\ e \in 0 .. Len(admitted'[ip])
      BY <2>1, <2>2, <2>4, <2>5, <2>6
    <3>2. ASSUME NEW i \in 1 .. Len(requests'[ip])
          PROVE  requests'[ip][i] = admitted'[ip][i + e]
      <4>0. i \in Nat
        BY <2>2, <2>5, <2>6, <3>1
      <4>1. CASE i <= n - e
        <5>1. i \in 1 .. Len(Recent(ip)) /\ i + e \in 1 .. n
          BY <2>1, <2>2, <2>6, <4>1
        <5>2. \A r \in Seq(Nat) : \A j \in 1 .. Len(r) : Append(r, now)[j] = r[j]
          BY <2>2
        <5>3. requests'[ip][i] = Recent(ip)[i]
          BY <2>1, <2>4, <5>1, <5>2
        <5> QED BY <2>1, <2>5, <5>1, <5>3
      <4>2. CASE i > n - e
        <5>1. i = n - e + 1 /\ i + e = n + 1
          BY <2>2, <2>5, <2>6, <3>1, <4>2
        <5>2. requests'[ip][i] = now
          BY <2>1, <2>2, <2>4, <5>1
        <5> QED BY <2>5, <5>1, <5>2
      <4>3. i <= n - e \/ i > n - e
        BY <2>2, <2>6, <4>0
      <4> QED BY <4>1, <4>2, <4>3
    <3>3. ASSUME NEW i \in 1 .. e PROVE admitted'[ip][i] <= now' - Window
      <4>1. i \in 1 .. n /\ ~(i > e)
        BY <2>2, <2>6
      <4> QED BY <2>2, <2>5, <2>6, <4>1, RateLimiterAssumption
    <3> QED BY <3>1, <3>2, <3>3 DEF Forgot
  <2>11. HistoryInv'
    <3> SUFFICES ASSUME NEW p \in IPs
                 PROVE  /\ Ascending(admitted'[p])
                        /\ \A i \in 1 .. Len(admitted'[p]) : admitted'[p][i] <= now'
                        /\ \E d : Forgot(p, d)'
      BY DEF HistoryInv, Ascending
    <3>1. CASE p = ip
      BY <2>8, <2>9, <2>10, <3>1
    <3>2. CASE p # ip
      <4>1. PICK d : Forgot(p, d)
        BY DEF HistoryInv
      <4>2. Forgot(p, d)'
        BY <2>2, <2>4, <3>2, <4>1 DEF Forgot
      <4> QED BY <2>2, <2>4, <3>2, <4>2 DEF HistoryInv, Ascending
    <3> QED BY <3>1, <3>2
  <2>12. RateHeld'
    <3> SUFFICES ASSUME NEW p \in IPs, NEW i \in DOMAIN admitted'[p], NEW j \in DOMAIN admitted'[p],
                        j - i = RateMax
                 PROVE  admitted'[p][j] - admitted'[p][i] >= Window
      BY DEF RateHeld
    <3>1. CASE p # ip
      BY <2>4, <3>1 DEF RateHeld
    <3>2. CASE p = ip
      <4>1. i \in 1 .. n + 1 /\ j \in 1 .. n + 1 /\ i < j
        BY <2>2, <2>4, <2>5, <3>2, RateLimiterAssumption
      <4>2. CASE j <= n
        <5>1. i \in 1 .. n /\ j \in 1 .. n
          BY <2>2, <4>1, <4>2
        <5>2. i \in DOMAIN a /\ j \in DOMAIN a
          BY <2>2, <5>1 DEF n
        <5>3. a[j] - a[i] >= Window
          BY <3>2, <5>2 DEF RateHeld, a
        <5> QED BY <2>5, <3>2, <5>1, <5>3
      <4>3. CASE j = n + 1
        <5>1. i \in 1 .. n /\ ~(i > e)
          BY <2>2, <2>6, <4>1, <4>3, RateLimiterAssumption
        <5>2. a[i] \in Nat /\ a[i] <= now - Window
          BY <2>2, <2>5, <2>6, <5>1, RateLimiterAssumption
        <5>3. admitted'[p][j] = now /\ admitted'[p][i] = a[i]
          BY <2>5, <3>2, <4>3, <5>1
        <5>4. \A x, y, z \in Int : y <= x - z => x - y >= z
          OBVIOUS
        <5>5. a[i] \in Int /\ now \in Int /\ Window \in Int
          BY <2>2, <5>2, RateLimiterAssumption
        <5> QED BY <5>2, <5>3, <5>4, <5>5
      <4> QED BY <2>2, <4>1, <4>2, <4>3
    <3> QED BY <3>1, <3>2
  <2> QED BY <2>3, <2>11, <2>12
<1> QED BY <1>1, <1>2, <1>3 DEF Next

LEMMA Invariants == Spec => [](TInv /\ HistoryInv /\ RateHeld)
BY InvInit, InvStep, PTL DEF Spec

\* No window of the configured length sees more requests of one address let
\* through than the maximum, wherever it begins (RateLimiter.Allow).
THEOREM RateIsHeld == Spec => []RateHeld
BY Invariants, PTL

\* What the limiter has forgotten makes no difference, and what it refuses is
\* not held against an address (RateLimiter.Allow).
THEOREM ForgettingIsExact == Spec => []LimiterIsExact
<1>1. TInv /\ HistoryInv => LimiterIsExact
  <2> SUFFICES ASSUME TInv, HistoryInv, NEW ip \in IPs
               PROVE  Allowed(ip) <=>
                        Cardinality({i \in DOMAIN admitted[ip] :
                                       admitted[ip][i] > now - Window}) < RateMax
    BY DEF LimiterIsExact
  <2> DEFINE a == admitted[ip]
  <2>1. PICK e : Cut(a, now - Window, e) /\ Len(Recent(ip)) = Len(a) - e
    BY RecentOfHistory
  <2>2. a \in Seq(Nat) /\ Len(a) \in Nat /\ e \in 0 .. Len(a) /\ DOMAIN a = 1 .. Len(a)
    BY <2>1 DEF TInv, Cut
  <2>3. {i \in DOMAIN a : a[i] > now - Window} = e + 1 .. Len(a)
    BY <2>1, <2>2 DEF Cut
  <2>4. Cardinality(e + 1 .. Len(a)) = Len(a) - e
    <3>1. /\ e + 1 \in Int /\ Len(a) \in Int
          /\ (IF e + 1 > Len(a) THEN 0 ELSE Len(a) - (e + 1) + 1) = Len(a) - e
      BY <2>2
    <3> HIDE DEF a
    <3> QED BY <3>1, FS_Interval
  <2> QED BY <2>1, <2>3, <2>4 DEF Allowed
<1> QED BY <1>1, Invariants, PTL

\* The list of an address never holds more times than the maximum: what has left
\* the window goes when a request is let through (RateLimiter.Allow).
THEOREM ListsStayShort == Spec => []RequestsBounded
<1>1. Init => LimiterInv
  BY EmptyLimiter DEF Init, RateLimiterInit
<1>2. LimiterInv /\ [Next]_vars => LimiterInv'
  <2> SUFFICES ASSUME LimiterInv, [Next]_vars PROVE LimiterInv'
    OBVIOUS
  <2>1. CASE UNCHANGED vars
    BY <2>1, TimeKeeps DEF vars
  <2>2. CASE Tick
    BY <2>2, TimeKeeps DEF Tick
  <2>3. ASSUME NEW ip \in IPs, LetThrough(ip) PROVE LimiterInv'
    BY <2>3, AllowKeeps DEF LetThrough
  <2> QED BY <2>1, <2>2, <2>3 DEF Next
<1>3. LimiterInv => RequestsBounded
  BY DEF LimiterInv
<1> QED BY <1>1, <1>2, <1>3, PTL DEF Spec
=============================================================================
