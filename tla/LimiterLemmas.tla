--------------------------- MODULE LimiterLemmas ---------------------------
(***************************************************************************)
(* Lemmas about RateLimiter, for any window and any maximum: what its loop *)
(* keeps of a list, and what a step of it keeps of its state.  They are    *)
(* used where the limiter is alone (RateLimiterProofs) and where it is a   *)
(* part of the tracker (TrackerProofs).                                    *)
(***************************************************************************)
EXTENDS RateLimiter, WellFoundedInduction, TLAPS

-----------------------------------------------------------------------------
(* The loop of Allow over an ascending list keeps the end of the list. *)

\* A set of numbers that is not empty has a least one.
LEMMA LeastNumber ==
  ASSUME NEW S \in SUBSET Nat, S # {}
  PROVE  \E m \in S : \A n \in S : m <= n
<1>1. PICK m \in S : \A n \in S : ~(<<n, m>> \in OpToRel(<, Nat))
  BY NatLessThanWellFounded, WFMin, Zenon
<1>2. \A n \in S : ~(n < m)
  BY <1>1 DEF OpToRel
<1> QED BY <1>2

Ascending(s) == \A i, j \in 1 .. Len(s) : i <= j => s[i] <= s[j]

Loop(s, c, f) ==
  f = [i \in 0 .. Len(s) |->
         IF i = 0 THEN <<>>
         ELSE IF s[i] > c THEN Append(f[i - 1], s[i])
         ELSE f[i - 1]]

LEMMA RecentDef ==
  ASSUME NEW ip \in IPs
  PROVE  Recent(ip) = (CHOOSE f : Loop(requests[ip], now - Window, f))[Len(requests[ip])]
BY DEF Recent, Loop

\* At most k elements of the list are too old, and those are the first ones.
Cut(s, c, k) ==
  /\ k \in 0 .. Len(s)
  /\ \A i \in 1 .. Len(s) : s[i] > c <=> i > k

LEMMA CutExists ==
  ASSUME NEW s \in Seq(Nat), Ascending(s), NEW c \in Int
  PROVE  \E k : Cut(s, c, k)
<1> DEFINE S == {i \in 1 .. Len(s) : s[i] > c}
<1>0. Len(s) \in Nat
  OBVIOUS
<1>1. CASE S = {}
  <2>1. Cut(s, c, Len(s))
    BY <1>0, <1>1 DEF Cut
  <2> QED BY <2>1
<1>2. CASE S # {}
  <2>0. S \in SUBSET Nat
    BY <1>0
  <2>1. PICK m \in S : \A n \in S : m <= n
    <3> HIDE DEF S
    <3> QED BY <1>2, <2>0, LeastNumber
  <2>2. m - 1 \in 0 .. Len(s)
    BY <2>1
  <2>3. ASSUME NEW i \in 1 .. Len(s) PROVE s[i] > c <=> i > m - 1
    <3>1. s[i] \in Nat /\ s[m] \in Nat /\ s[m] > c
      BY <2>1
    <3>2. s[i] > c => i >= m
      BY <2>1
    <3>3. i >= m => s[m] <= s[i]
      BY <2>1 DEF Ascending
    <3> QED BY <3>1, <3>2, <3>3
  <2> QED BY <2>2, <2>3 DEF Cut
<1> QED BY <1>1, <1>2

Kept(s, k) == [i \in 0 .. Len(s) |-> IF i <= k THEN <<>> ELSE SubSeq(s, k + 1, i)]

LEMMA KeptIsLoop ==
  ASSUME NEW s \in Seq(Nat), NEW c \in Int, NEW k, Cut(s, c, k)
  PROVE  Loop(s, c, Kept(s, k))
<1> DEFINE g == Kept(s, k)
           Body(i) == IF i = 0 THEN <<>> ELSE IF s[i] > c THEN Append(g[i - 1], s[i]) ELSE g[i - 1]
<1>1. ASSUME NEW i \in 0 .. Len(s) PROVE g[i] = Body(i)
  <2>0. k \in Nat /\ i \in Nat /\ Len(s) \in Nat
    BY DEF Cut
  <2>1. CASE i <= k
    <3>1. g[i] = <<>> /\ (i # 0 => g[i - 1] = <<>>)
      BY <2>0, <2>1 DEF Kept
    <3>2. i # 0 => ~(s[i] > c)
      BY <2>0, <2>1 DEF Cut
    <3> QED BY <3>1, <3>2
  <2>2. CASE i > k
    <3>1. s[i] > c /\ i # 0 /\ i - 1 \in 0 .. Len(s) /\ s[i] \in Nat
      BY <2>0, <2>2 DEF Cut
    <3>2. g[i] = SubSeq(s, k + 1, i)
      BY <2>0, <2>2 DEF Kept
    <3>3. g[i - 1] = SubSeq(s, k + 1, i - 1)
      BY <2>0, <2>2, <3>1 DEF Kept
    <3>4. Append(SubSeq(s, k + 1, i - 1), s[i]) = SubSeq(s, k + 1, i)
      BY <2>0, <2>2, <3>1
    <3> QED BY <3>1, <3>2, <3>3, <3>4
  <2> QED BY <2>0, <2>1, <2>2
<1> QED BY <1>1 DEF Loop, Kept

LEMMA LoopIsUnique ==
  ASSUME NEW s \in Seq(Nat), NEW c \in Int, NEW f, NEW g, Loop(s, c, f), Loop(s, c, g)
  PROVE  f = g
<1> DEFINE S == {i \in 0 .. Len(s) : f[i] # g[i]}
<1>0. Len(s) \in Nat
  OBVIOUS
<1>1. ASSUME S # {} PROVE FALSE
  <2>0. S \in SUBSET Nat
    BY <1>0
  <2>1. PICK m \in S : \A n \in S : m <= n
    <3> HIDE DEF S
    <3> QED BY <1>1, <2>0, LeastNumber
  <2>2. CASE m = 0
    BY <1>0, <2>1, <2>2 DEF Loop
  <2>3. CASE m # 0
    <3>1. m - 1 \in 0 .. Len(s) /\ m - 1 \notin S /\ m \in 0 .. Len(s)
      BY <1>0, <2>1, <2>3
    <3>2. f[m - 1] = g[m - 1]
      BY <3>1
    <3>3. f[m] = (IF s[m] > c THEN Append(f[m - 1], s[m]) ELSE f[m - 1])
      BY <3>1, <2>3 DEF Loop
    <3>4. g[m] = (IF s[m] > c THEN Append(g[m - 1], s[m]) ELSE g[m - 1])
      BY <3>1, <2>3 DEF Loop
    <3>5. f[m] = g[m]
      BY <3>2, <3>3, <3>4
    <3> QED BY <2>1, <3>5
  <2> QED BY <2>2, <2>3
<1>2. \A i \in 0 .. Len(s) : f[i] = g[i]
  BY <1>1
<1>3. f = [i \in 0 .. Len(s) |-> f[i]] /\ g = [i \in 0 .. Len(s) |-> g[i]]
  BY DEF Loop
<1> QED BY <1>2, <1>3

LEMMA RecentIsEnd ==
  ASSUME requests \in [IPs -> Seq(Nat)], now \in Nat,
         NEW ip \in IPs, Ascending(requests[ip]),
         NEW k, Cut(requests[ip], now - Window, k)
  PROVE  /\ Recent(ip) \in Seq(Nat) /\ Len(Recent(ip)) = Len(requests[ip]) - k
         /\ \A i \in 1 .. Len(Recent(ip)) : Recent(ip)[i] = requests[ip][i + k]
<1> DEFINE s == requests[ip]
           c == now - Window
           f == CHOOSE f : Loop(s, c, f)
<1>0. s \in Seq(Nat) /\ c \in Int /\ Len(s) \in Nat /\ k \in 0 .. Len(s)
  BY RateLimiterAssumption DEF Cut
<1>1. Loop(s, c, f)
  BY <1>0, KeptIsLoop
<1>2. Recent(ip) = f[Len(s)]
  BY RecentDef
<1> HIDE DEF s, c, f
<1>3. Cut(s, c, k)
  BY DEF s, c
<1>4. f = Kept(s, k)
  BY <1>0, <1>1, <1>3, KeptIsLoop, LoopIsUnique
<1>5. Recent(ip) = IF Len(s) <= k THEN <<>> ELSE SubSeq(s, k + 1, Len(s))
  BY <1>0, <1>2, <1>4 DEF Kept
<1>6. CASE Len(s) <= k
  BY <1>0, <1>5, <1>6 DEF s
<1>7. CASE Len(s) > k
  BY <1>0, <1>5, <1>7 DEF s
<1> QED BY <1>0, <1>6, <1>7

-----------------------------------------------------------------------------
(* The limiter's state: for every address an ascending list of times, none of
   them in the future and no more of them than the maximum. *)

LimiterTypes == now \in Nat /\ requests \in [IPs -> Seq(Nat)]

\* The times of a list are in order, and none comes after t.
Recorded(s, t) == Ascending(s) /\ \A i \in 1 .. Len(s) : s[i] <= t

LimiterInv ==
  /\ LimiterTypes
  /\ \A ip \in IPs : Recorded(requests[ip], now)
  /\ RequestsBounded

\* The end of such a list, and the present after it, is such a list again.
LEMMA EndIsRecorded ==
  ASSUME NEW s \in Seq(Nat), NEW t \in Nat, Recorded(s, t),
         NEW k \in 0 .. Len(s), NEW r \in Seq(Nat), Len(r) = Len(s) - k,
         \A i \in 1 .. Len(r) : r[i] = s[i + k]
  PROVE  Append(r, t) \in Seq(Nat) /\ Recorded(Append(r, t), t)
<1> DEFINE a == Append(r, t)
<1>1. /\ a \in Seq(Nat) /\ Len(a) = Len(r) + 1 /\ a[Len(r) + 1] = t
      /\ \A i \in 1 .. Len(r) : a[i] = r[i]
  OBVIOUS
<1>2. Len(r) \in Nat /\ Len(s) \in Nat /\ k \in Nat
  OBVIOUS
<1> HIDE DEF a
<1>3. ASSUME NEW i \in 1 .. Len(r) PROVE a[i] = s[i + k] /\ i + k \in 1 .. Len(s)
  BY <1>1, <1>2
<1>4. ASSUME NEW i \in 1 .. Len(a) PROVE a[i] <= t
  <2>1. CASE i = Len(r) + 1
    BY <1>1, <2>1
  <2>2. CASE i # Len(r) + 1
    <3>1. i \in 1 .. Len(r)
      BY <1>1, <1>2, <2>2
    <3>2. a[i] = s[i + k] /\ s[i + k] <= t
      BY <1>3, <3>1 DEF Recorded
    <3> QED BY <3>2
  <2> QED BY <2>1, <2>2
<1>5. ASSUME NEW i \in 1 .. Len(a), NEW j \in 1 .. Len(a), i <= j PROVE a[i] <= a[j]
  <2>1. CASE j = Len(r) + 1
    BY <1>1, <1>4, <2>1
  <2>2. CASE j # Len(r) + 1
    <3>1. i \in 1 .. Len(r) /\ j \in 1 .. Len(r)
      <4>1. Len(a) = Len(r) + 1
        BY <1>1
      <4>2. i \in Nat /\ j \in Nat /\ i >= 1 /\ j >= 1 /\ j <= Len(r) + 1 /\ j # Len(r) + 1
        BY <1>2, <2>2, <4>1
      <4>3. \A x, y, n \in Nat : x >= 1 /\ y >= 1 /\ x <= y /\ y <= n + 1 /\ y # n + 1 =>
              x \in 1 .. n /\ y \in 1 .. n
        OBVIOUS
      <4> QED BY <1>2, <1>5, <4>2, <4>3
    <3>2. i + k <= j + k
      BY <1>2, <1>5, <3>1
    <3> QED BY <1>3, <3>1, <3>2 DEF Recorded, Ascending
  <2> QED BY <2>1, <2>2
<1> QED BY <1>1, <1>4, <1>5 DEF Recorded, Ascending, a

\* What is let through is recorded at the end of a list that stays in order,
\* and whose length the check has bounded.
LEMMA AllowKeeps ==
  ASSUME LimiterInv, now' = now, NEW ip \in IPs, Allow(ip)
  PROVE  LimiterInv'
<1>0. requests[ip] \in Seq(Nat) /\ Ascending(requests[ip]) /\ now - Window \in Int
  BY RateLimiterAssumption DEF LimiterInv, LimiterTypes, Recorded
<1>1. PICK k : Cut(requests[ip], now - Window, k)
  BY <1>0, CutExists
<1>2. /\ Recent(ip) \in Seq(Nat) /\ Len(Recent(ip)) = Len(requests[ip]) - k
      /\ \A i \in 1 .. Len(Recent(ip)) : Recent(ip)[i] = requests[ip][i + k]
  BY <1>1, RecentIsEnd DEF LimiterInv, LimiterTypes, Recorded
<1>3. k \in 0 .. Len(requests[ip]) /\ requests[ip] \in Seq(Nat) /\ now \in Nat
  BY <1>1 DEF Cut, LimiterInv, LimiterTypes
<1>4. /\ Append(Recent(ip), now) \in Seq(Nat)
      /\ Recorded(Append(Recent(ip), now), now)
  BY <1>2, <1>3, EndIsRecorded DEF LimiterInv
<1>5. Len(Append(Recent(ip), now)) <= RateMax
  BY <1>2, <1>3, RateLimiterAssumption DEF Allow, Allowed
<1>6. requests' = [requests EXCEPT ![ip] = Append(Recent(ip), now)]
  BY DEF Allow
<1>7. LimiterTypes'
  BY <1>4, <1>6 DEF LimiterInv, LimiterTypes
<1>8. ASSUME NEW p \in IPs
      PROVE  Recorded(requests'[p], now') /\ Len(requests'[p]) <= RateMax
  <2>1. requests'[p] = IF p = ip THEN Append(Recent(ip), now) ELSE requests[p]
    BY <1>6 DEF LimiterInv, LimiterTypes
  <2> QED BY <1>4, <1>5, <2>1 DEF LimiterInv, RequestsBounded
<1>9. (\A p \in IPs : Recorded(requests[p], now))' /\ RequestsBounded'
  BY <1>8 DEF RequestsBounded
<1> QED BY <1>7, <1>9 DEF LimiterInv

\* Time that passes keeps it too.
LEMMA TimeKeeps ==
  ASSUME LimiterInv, now' \in {now, now + 1}, requests' = requests
  PROVE  LimiterInv'
<1>1. LimiterTypes' /\ RequestsBounded'
  BY DEF LimiterInv, LimiterTypes, RequestsBounded
<1>2. ASSUME NEW ip \in IPs, NEW i \in 1 .. Len(requests[ip]) PROVE requests[ip][i] <= now'
  <2>1. requests[ip][i] \in Nat /\ now \in Nat /\ requests[ip][i] <= now
    BY DEF LimiterInv, LimiterTypes, Recorded
  <2> QED BY <2>1
<1> QED BY <1>1, <1>2 DEF LimiterInv, Recorded

\* A limiter that begins has recorded nothing.
LEMMA EmptyLimiter ==
  ASSUME now \in Nat, requests = [ip \in IPs |-> <<>>]
  PROVE  LimiterInv
<1>1. \A ip \in IPs : requests[ip] = <<>> /\ Len(requests[ip]) = 0
  OBVIOUS
<1>2. \A ip \in IPs : Len(requests[ip]) <= RateMax
  <2>1. 0 <= RateMax
    BY RateLimiterAssumption
  <2> QED BY <1>1, <2>1
<1> QED BY <1>1, <1>2 DEF LimiterInv, LimiterTypes, RequestsBounded, Recorded, Ascending
=============================================================================
