--------------------------- MODULE TrackerProofs ---------------------------
(***************************************************************************)
(* TrackerRegistration for any number of peers, handlers and tokens and    *)
(* any durations: its type invariant and the length of the rate limiter's  *)
(* lists; a record never disappears too early and never stays too long;    *)
(* the registry keeps to its limit and has none in it but peers that were  *)
(* vouched for; and a token is accepted again only if its nonce was        *)
(* entered before the second it is stamped with was over.                  *)
(***************************************************************************)
EXTENDS TrackerRegistration, LimiterLemmas, FiniteSetTheorems

Types ==
  /\ now \in Nat
  /\ issued \in 0 .. MaxTokens
  /\ timestamp \in [Tokens -> Int]
  /\ owner \in [Tokens -> Peers \cup {NoPeer}]
  /\ \A k \in 1 .. issued : owner[k] \in Peers
  /\ authToken \in [Peers -> 0 .. issued]
  /\ pc \in [Handlers -> PCs]
  /\ token \in [Handlers -> 0 .. issued]
  /\ \A h \in Handlers : pc[h] # "idle" => token[h] # NoToken
  /\ lastSeen \in [Peers -> Int]
  /\ usedAt \in [Tokens -> Int]
  /\ accepted \in [Tokens -> Nat]
  /\ early \subseteq Tokens
  /\ cleaner \in {"waiting", "peers", "nonces"}
  /\ sweepTime \in 0 .. now
  /\ nextCleanup \in Int
  /\ restarts \in Nat

(* The cleanup reads the clock no earlier than its ticker fires. *)
CleanupOnTime ==
  /\ now >= nextCleanup - PeerCleanupInterval
  /\ cleaner = "peers" => sweepTime >= nextCleanup - PeerCleanupInterval

(* What the last sweep left in the registry, or came in after it. *)
SweptBound ==
  cleaner # "peers" =>
    \A p \in Registered :
      lastSeen[p] >= nextCleanup - PeerCleanupInterval - PeerTimeout

(* A nonce was entered for a token that exists, early or in a later second
   than the one the token is stamped with. *)
Ages ==
  \A k \in Tokens : usedAt[k] # Never =>
    /\ k <= issued
    /\ usedAt[k] \in 0 .. now
    /\ k \in early \/ timestamp[k] < Unix(usedAt[k])

Expired(k) == k <= issued /\ Unix(now) > timestamp[k] + TokenExpiration

Verifying(h, k) == pc[h] = "verify" /\ token[h] = k

(* While a token can be verified its nonce stands for the one handler that
   verifies it, or for the one time it was accepted. *)
UsedOnce(k) ==
  /\ usedAt[k] = Never =>
       accepted[k] = 0 /\ \A h \in Handlers : ~Verifying(h, k)
  /\ \A h \in Handlers : Verifying(h, k) =>
       accepted[k] = 0 /\ \A g \in Handlers : Verifying(g, k) => g = h

NonceKept ==
  \A k \in Tokens :
    \/ k \in early
    \/ accepted[k] <= 1 /\ (Expired(k) \/ UsedOnce(k))

-----------------------------------------------------------------------------
(* What every step does to the tokens: none, or one more. *)
LEMMA Constants ==
  /\ MaxTokens \in Nat /\ Tokens = 1 .. MaxTokens
  /\ TokenExpiration \in Nat /\ NonceExpiry \in Nat /\ PeerTimeout \in Nat
  /\ PeerCleanupInterval \in Nat \ {0}
  /\ Ahead \in [Peers -> Int] /\ Never = -1 /\ NoToken = 0
  /\ Second \in Nat \ {0} /\ TokenExpiration % Second = 0
  BY TrackerAssumption DEF Tokens, Never, NoToken

(* What cutting a time to its second does. *)
LEMMA WholeSeconds ==
  ASSUME NEW a \in Int
  PROVE  /\ Unix(a) \in Int
         /\ \E i \in Int : Unix(a) = Second * i
         /\ Unix(a) <= a /\ a < Unix(a) + Second
  <1>1. Second \in Int /\ Second > 0
    BY Constants
  <1>2. /\ a % Second \in Int /\ 0 <= a % Second /\ a % Second < Second
        /\ a \div Second \in Int
        /\ a = Second * (a \div Second) + (a % Second)
    BY <1>1, SMT
  <1>3. Unix(a) = Second * (a \div Second)
    <2>1. Second * (a \div Second) \in Int
      BY <1>1, <1>2
    <2> QED
      BY <1>2, <2>1 DEF Unix
  <1> QED
    BY <1>1, <1>2, <1>3 DEF Unix

(* It keeps the order of times, also of those a number of seconds apart. *)
LEMMA SecondsInOrder ==
  ASSUME NEW a \in Int, NEW b \in Int, NEW d \in Nat, d % Second = 0, a + d <= b
  PROVE  Unix(a) + d <= Unix(b)
  <1>1. Second \in Nat \ {0}
    BY Constants
  <1>2. PICK i \in Int : Unix(a) = Second * i
    BY WholeSeconds
  <1>3. PICK j \in Int : Unix(b) = Second * j
    BY WholeSeconds
  <1>4. PICK n \in Int : d = Second * n
    <2>1. d \in Int /\ d = Unix(d)
      BY DEF Unix
    <2>2. \E n \in Int : Unix(d) = Second * n
      BY <2>1, WholeSeconds
    <2> QED
      BY <2>1, <2>2
  <1>5. Second * i + Second * n < Second * j + Second
    <2>1. /\ Unix(a) \in Int /\ Unix(b) \in Int
          /\ Unix(a) <= a /\ b < Unix(b) + Second
      BY WholeSeconds
    <2>2. Unix(a) + d < Unix(b) + Second
      BY <1>1, <2>1
    <2> QED
      BY <1>2, <1>3, <1>4, <2>2
  <1>6. i + n < j + 1
    <2> SUFFICES ASSUME i + n >= j + 1 PROVE FALSE
      OBVIOUS
    <2>1. Second * (i + n) >= Second * (j + 1)
      BY <1>1
    <2>2. Second * (i + n) = Second * i + Second * n /\ Second * (j + 1) = Second * j + Second
      BY <1>1
    <2> QED
      BY <1>1, <1>5, <2>1, <2>2
  <1>7. Second * (i + n) <= Second * j
    BY <1>1, <1>6
  <1> QED
    BY <1>1, <1>2, <1>3, <1>4, <1>7

(* What getAuthData returns is a token that exists, and at most one is new. *)
LEMMA AuthDataTypes ==
  ASSUME Types, NEW p \in Peers, NEW k \in Tokens, AuthData(p, k)
  PROVE  /\ issued' \in issued .. MaxTokens
         /\ k \in 1 .. issued'
         /\ timestamp' \in [Tokens -> Int]
         /\ owner' \in [Tokens -> Peers \cup {NoPeer}]
         /\ \A j \in 1 .. issued' : owner'[j] \in Peers
         /\ authToken' \in [Peers -> 0 .. issued']
         /\ \A j \in 1 .. issued :
              timestamp'[j] = timestamp[j] /\ owner'[j] = owner[j]
  <1>1. CASE TokenIsFresh(p) /\ k = authToken[p] /\ UNCHANGED tokenVars
    <2>1. UNCHANGED <<issued, timestamp, owner, authToken>>
      BY <1>1 DEF tokenVars
    <2>2. k \in 1 .. issued /\ issued \in 0 .. MaxTokens
      BY <1>1, Constants DEF Types
    <2>3. issued' \in issued .. MaxTokens /\ k \in 1 .. issued'
      BY <2>1, <2>2, Constants
    <2> QED
      BY <2>1, <2>2, <2>3 DEF Types
  <1>2. CASE /\ issued < MaxTokens
             /\ k = issued + 1
             /\ issued' = k
             /\ timestamp' = [timestamp EXCEPT ![k] = Unix(Clock(p))]
             /\ owner' = [owner EXCEPT ![k] = p]
             /\ authToken' = [authToken EXCEPT ![p] = k]
    <2>1. Unix(Clock(p)) \in Int
      <3>1. Clock(p) \in Int
        BY Constants DEF Clock, Types
      <3> QED
        BY <3>1, WholeSeconds
    <2>2. issued \in Nat /\ issued' = issued + 1 /\ issued' \in 1 .. MaxTokens
      BY <1>2, Constants DEF Types
    <2>3. /\ timestamp' \in [Tokens -> Int]
          /\ owner' \in [Tokens -> Peers \cup {NoPeer}]
          /\ authToken' \in [Peers -> 0 .. issued']
      BY <1>2, <2>1, <2>2 DEF Types
    <2>4. \A j \in 1 .. issued :
            timestamp'[j] = timestamp[j] /\ owner'[j] = owner[j]
      BY <1>2, <2>2, Constants DEF Types
    <2>5. owner'[k] = p
      BY <1>2, <2>2, Constants DEF Types
    <2>6. \A j \in 1 .. issued' : j \in 1 .. issued \/ j = k
      BY <1>2, <2>2
    <2>7. \A j \in 1 .. issued' : owner'[j] \in Peers
      BY <2>4, <2>5, <2>6 DEF Types
    <2>9. issued' \in issued .. MaxTokens /\ k \in 1 .. issued'
      BY <1>2, <2>2, Constants
    <2> QED
      BY <2>3, <2>4, <2>7, <2>9
  <1> QED
    BY <1>1, <1>2 DEF AuthData

(* A request that is posted carries a token that exists. *)
LEMMA PostTypes ==
  ASSUME Types, NEW p \in Peers, NEW h \in Handlers, Post(p, h)
  PROVE  Types'
  <1>1. PICK k \in Tokens :
          AuthData(p, k) /\ token' = [token EXCEPT ![h] = k]
    BY DEF Post
  <1>2. /\ issued' \in issued .. MaxTokens
        /\ k \in 1 .. issued'
        /\ timestamp' \in [Tokens -> Int]
        /\ owner' \in [Tokens -> Peers \cup {NoPeer}]
        /\ \A j \in 1 .. issued' : owner'[j] \in Peers
        /\ authToken' \in [Peers -> 0 .. issued']
    BY <1>1, AuthDataTypes
  <1>3. issued' \in 0 .. MaxTokens /\ issued <= issued' /\ k \in 0 .. issued'
    BY <1>2, Constants DEF Types
  <1>4. token' \in [Handlers -> 0 .. issued']
    BY <1>1, <1>3, Constants DEF Types
  <1>5. pc' \in [Handlers -> PCs]
    BY DEF Types, Post, PCs
  <1>6. ASSUME NEW g \in Handlers, pc'[g] # "idle" PROVE token'[g] # NoToken
    <2>1. CASE g = h
      BY <1>1, <1>2, <2>1, Constants DEF Types
    <2>2. CASE g # h
      BY <1>1, <1>6, <2>2 DEF Types, Post
    <2> QED
      BY <2>1, <2>2
  <1>7. UNCHANGED <<now, lastSeen, usedAt, accepted, early, cleaner, sweepTime,
                    nextCleanup, restarts>>
    BY DEF Post, trackerVars, cleanVars
  <1> QED
    BY <1>2, <1>3, <1>4, <1>5, <1>6, <1>7 DEF Types

LEMMA TypesStep == Types /\ [Next]_vars => Types'
  <1> SUFFICES ASSUME Types, [Next]_vars PROVE Types'
    OBVIOUS
  <1> USE DEF Types
  <1>1. ASSUME NEW p \in Peers, GetAuthData(p) PROVE Types'
    <2>1. PICK k \in Tokens : AuthData(p, k)
      BY <1>1 DEF GetAuthData
    <2>2. /\ issued' \in issued .. MaxTokens
          /\ timestamp' \in [Tokens -> Int]
          /\ owner' \in [Tokens -> Peers \cup {NoPeer}]
          /\ \A j \in 1 .. issued' : owner'[j] \in Peers
          /\ authToken' \in [Peers -> 0 .. issued']
      BY <2>1, AuthDataTypes
    <2>3. issued' \in 0 .. MaxTokens /\ 0 .. issued \subseteq 0 .. issued'
      BY <2>2, Constants
    <2> QED
      BY <1>1, <2>2, <2>3 DEF GetAuthData, handlerVars, trackerVars, cleanVars
  <1>2. ASSUME NEW p \in Peers, NEW h \in Handlers,
               Register(p, h) \/ RefreshTrackerRegistration(p, h)
        PROVE  Types'
    BY <1>2, PostTypes DEF Register, RefreshTrackerRegistration
  <1>3. ASSUME NEW p \in Peers, Timeout(p) PROVE Types'
    BY <1>3 DEF Timeout, tokenVars, handlerVars, trackerVars, cleanVars
  <1>4. ASSUME NEW p \in Peers, PeerRestart(p) PROVE Types'
    <2>1. UNCHANGED <<now, issued, timestamp, owner, pc, token, lastSeen, usedAt, accepted, early,
                      cleaner, sweepTime, nextCleanup, restarts>>
      BY <1>4 DEF PeerRestart, handlerVars, trackerVars, cleanVars
    <2>2. authToken' \in [Peers -> 0 .. issued]
      BY <1>4, Constants DEF PeerRestart
    <2> QED
      BY <2>1, <2>2
  <1>5. ASSUME NEW h \in Handlers, Arrive(h) PROVE Types'
    BY <1>5 DEF Arrive, Goto, PCs, tokenVars, cleanVars
  <1>6. ASSUME NEW h \in Handlers, IsNonceValid(h) PROVE Types'
    <2>1. early' \subseteq Tokens
      <3>1. token[h] \in Tokens
        <4>1. pc[h] # "idle"
          BY <1>6 DEF IsNonceValid, Goto
        <4>2. token[h] \in 0 .. issued /\ token[h] # NoToken
          BY <4>1
        <4>3. issued \in 0 .. MaxTokens
          OBVIOUS
        <4> HIDE DEF Types
        <4> QED
          BY <4>2, <4>3, Constants
      <3> QED
        BY <1>6, <3>1 DEF IsNonceValid
    <2> QED
      BY <1>6, <2>1 DEF IsNonceValid, Goto, PCs, tokenVars, cleanVars
  <1>7. ASSUME NEW h \in Handlers, VerifyAndCheckTrust(h) PROVE Types'
    <2>1. accepted' \in [Tokens -> Nat]
      BY <1>7 DEF VerifyAndCheckTrust
    <2>2. pc' \in [Handlers -> PCs]
          /\ \A g \in Handlers : pc'[g] # "idle" => pc[g] # "idle"
      BY <1>7 DEF VerifyAndCheckTrust, Goto, PCs
    <2> QED
      BY <1>7, <2>1, <2>2 DEF VerifyAndCheckTrust, tokenVars, cleanVars
  <1>8. ASSUME NEW h \in Handlers, Record(h) PROVE Types'
    <2>1. pc' \in [Handlers -> PCs]
          /\ \A g \in Handlers : pc'[g] # "idle" => pc[g] # "idle"
      BY <1>8 DEF Record, Goto, PCs
    <2>2. lastSeen' \in [Peers -> Int]
      BY <1>8 DEF Record
    <2> QED
      BY <1>8, <2>1, <2>2 DEF Record, tokenVars, cleanVars
  <1>9. ASSUME NEW h \in Handlers, Finish(h) PROVE Types'
    <2>1. UNCHANGED <<now, issued, timestamp, owner, authToken, lastSeen, usedAt, accepted, early,
                      cleaner, sweepTime, nextCleanup, restarts>>
      BY <1>9 DEF Finish, tokenVars, trackerVars, cleanVars
    <2>2. pc' \in [Handlers -> PCs] /\ token' \in [Handlers -> 0 .. issued]
      BY <1>9, Constants DEF Finish, PCs
    <2>3. \A g \in Handlers : pc'[g] # "idle" => token'[g] # NoToken
      BY <1>9 DEF Finish
    <2> QED
      BY <2>1, <2>2, <2>3
  <1>10. CASE CleanupOldPeers
    BY <1>10, Constants
       DEF CleanupOldPeers, tokenVars, handlerVars, trackerVars
  <1>11. CASE SweepPeers
    BY <1>11, Constants DEF SweepPeers, tokenVars, handlerVars
  <1>12. CASE CleanupOldNonces
    <2>1. usedAt' \in [Tokens -> Int]
      BY <1>12, Constants DEF CleanupOldNonces
    <2>2. cleaner' = "waiting" /\ sweepTime' = 0
      BY <1>12 DEF CleanupOldNonces
    <2>3. UNCHANGED <<now, tokenVars, handlerVars, lastSeen, accepted, early,
                      nextCleanup, restarts>>
      BY <1>12 DEF CleanupOldNonces
    <2> QED
      BY <2>1, <2>2, <2>3 DEF tokenVars, handlerVars
  <1>13. CASE Restart
    BY <1>13, Constants
       DEF Restart, tokenVars, PCs, NothingSeen, NoneUsed, NoneTaken
  <1>14. CASE Tick
    BY <1>14 DEF Tick, tokenVars, handlerVars, trackerVars, cleanVars
  <1>15. CASE UNCHANGED vars
    BY <1>15 DEF vars, tokenVars, handlerVars, trackerVars, cleanVars
  <1> QED
    BY <1>1, <1>2, <1>3, <1>4, <1>5, <1>6, <1>7, <1>8, <1>9, <1>10, <1>11,
       <1>12, <1>13, <1>14, <1>15
       DEF Next, PeerStep, HandlerStep, CleanupStep, Reply, Lose

-----------------------------------------------------------------------------
(* The registry.  Most steps leave it, the cleanup and the clock alone. *)
registryVars == <<now, lastSeen, cleanVars, restarts>>

LEMMA RegistryFrame ==
  ASSUME [Next]_vars
  PROVE  \/ UNCHANGED registryVars
         \/ \E h \in Handlers : Record(h)
         \/ CleanupStep \/ Restart \/ Tick
  BY DEF Next, vars, registryVars, PeerStep, HandlerStep, GetAuthData, Post,
         Register, RefreshTrackerRegistration, Timeout, PeerRestart, Arrive,
         IsNonceValid, VerifyAndCheckTrust, Reply, Lose, Finish, trackerVars,
         cleanVars

RegistryInv == CleanupOnTime /\ SweptBound

LEMMA RegistryStep == Types /\ RegistryInv /\ [Next]_vars => RegistryInv'
  <1> SUFFICES ASSUME Types, RegistryInv, [Next]_vars PROVE RegistryInv'
    OBVIOUS
  <1> USE DEF RegistryInv, CleanupOnTime, SweptBound, Registered
  <1>1. CASE UNCHANGED registryVars
    BY <1>1 DEF registryVars, cleanVars
  <1>2. ASSUME NEW h \in Handlers, Record(h) PROVE RegistryInv'
    <2>1. UNCHANGED <<now, cleaner, sweepTime, nextCleanup>>
      BY <1>2 DEF Record, cleanVars
    <2>2. ASSUME NEW p \in Peers PROVE lastSeen'[p] \in {lastSeen[p], now}
      BY <1>2 DEF Record, Types
    <2>3. now >= nextCleanup - PeerCleanupInterval - PeerTimeout
      BY Constants DEF Types
    <2> QED
      BY <2>1, <2>2, <2>3
  <1>3. CASE CleanupOldPeers
    BY <1>3, Constants DEF CleanupOldPeers, trackerVars, Types
  <1>4. CASE SweepPeers
    <2>1. ASSUME NEW p \in Peers, lastSeen'[p] # Never
          PROVE  lastSeen'[p] >= sweepTime - PeerTimeout
      BY <1>4, <2>1, Constants DEF SweepPeers, Types
    <2>2. sweepTime >= nextCleanup - PeerCleanupInterval
      BY <1>4 DEF SweepPeers
    <2>3. ASSUME NEW p \in Peers, lastSeen'[p] # Never
          PROVE lastSeen'[p] >= nextCleanup - PeerCleanupInterval - PeerTimeout
      <3>1. lastSeen'[p] \in Int
        BY TypesStep DEF Types
      <3> QED
        BY <2>1, <2>2, <2>3, <3>1, Constants DEF Types
    <2> QED
      BY <1>4, <2>3 DEF SweepPeers
  <1>5. CASE CleanupOldNonces
    BY <1>5 DEF CleanupOldNonces
  <1>6. CASE Restart
    BY <1>6, Constants DEF Restart, NothingSeen, Types
  <1>7. CASE Tick
    BY <1>7, Constants DEF Tick, trackerVars, cleanVars, Types
  <1> QED
    BY <1>1, <1>2, <1>3, <1>4, <1>5, <1>6, <1>7, RegistryFrame DEF CleanupStep

LEMMA InitTypes == Init => Types /\ RegistryInv
  <1> SUFFICES ASSUME Init PROVE Types /\ RegistryInv
    OBVIOUS
  <1>1. Types
    BY Constants
       DEF Init, RateLimiterInit, Types, PCs, NothingSeen, NoneUsed, NoneTaken
  <1>2. RegistryInv
    BY Constants DEF Init, RateLimiterInit, RegistryInv, CleanupOnTime,
                     SweptBound, Registered, NothingSeen
  <1> QED
    BY <1>1, <1>2

LEMMA RegistryInvariant == Spec => [](Types /\ RegistryInv)
  <1>1. Types /\ RegistryInv /\ [Next]_vars => (Types /\ RegistryInv)'
    BY TypesStep, RegistryStep
  <1> QED
    BY InitTypes, <1>1, PTL DEF Spec

(***************************************************************************)
(* A record never stays too long: with the cleanup idle and on time, none  *)
(* is older than the timeout and one interval (cleanupOldPeers).           *)
(***************************************************************************)
THEOREM StaleBoundHolds == Spec => []StaleBound
  <1>1. Types /\ RegistryInv => StaleBound
    <2> SUFFICES ASSUME Types, RegistryInv, cleaner = "waiting",
                        now <= nextCleanup, NEW p \in Registered
                 PROVE  now - lastSeen[p] <= PeerTimeout + PeerCleanupInterval
      BY DEF StaleBound
    <2>1. lastSeen[p] >= nextCleanup - PeerCleanupInterval - PeerTimeout
      BY DEF RegistryInv, SweptBound
    <2>2. lastSeen[p] \in Int /\ now \in Int /\ nextCleanup \in Int
      BY DEF Types, Registered
    <2> QED
      BY <2>1, <2>2, Constants
  <1> QED
    BY RegistryInvariant, <1>1, PTL

(***************************************************************************)
(* A record never disappears too early: one that is removed was not        *)
(* renewed for longer than the timeout, or the tracker was restarted, even *)
(* though the cleanup reads the clock before it takes mu.                  *)
(***************************************************************************)
THEOREM ExpiryIsLate == Spec => OnlyStalePeersExpire
  <1> DEFINE Expires ==
        \A p \in Peers :
          lastSeen[p] # Never /\ lastSeen'[p] = Never =>
            now - lastSeen[p] > PeerTimeout \/ restarts' # restarts
  <1>1. Types /\ [Next]_vars => Expires
    <2> SUFFICES ASSUME Types, [Next]_vars, NEW p \in Peers,
                        lastSeen[p] # Never, lastSeen'[p] = Never
                 PROVE  now - lastSeen[p] > PeerTimeout \/ restarts' # restarts
      OBVIOUS
    <2>1. CASE UNCHANGED registryVars
      BY <2>1 DEF registryVars
    <2>2. ASSUME NEW h \in Handlers, Record(h) PROVE FALSE
      BY <2>2, Constants DEF Record, Types
    <2>3. CASE SweepPeers
      BY <2>3, Constants DEF SweepPeers, Types
    <2>4. CASE CleanupOldPeers \/ CleanupOldNonces \/ Tick
      BY <2>4 DEF CleanupOldPeers, CleanupOldNonces, Tick, trackerVars
    <2>5. CASE Restart
      BY <2>5 DEF Restart, Types
    <2> QED
      BY <2>1, <2>2, <2>3, <2>4, <2>5, RegistryFrame DEF CleanupStep
  <1>2. Types /\ [Next]_vars => [Expires]_vars
    BY <1>1
  <1> QED
    BY RegistryInvariant, <1>2, PTL DEF Spec, OnlyStalePeersExpire

(***************************************************************************)
(* The registry never holds more than MaxPeers peers: the section that     *)
(* looks for a free place is the one that takes it (handleRegisterPeer).   *)
(* Peers may be infinite: that the registry is finite is part of the       *)
(* invariant.                                                              *)
(***************************************************************************)
THEOREM BoundHolds == Spec => []RegistryBounded
  <1> DEFINE Bounded == IsFiniteSet(Registered) /\ RegistryBounded
  <1>1. Init => Bounded
    <2>1. Init => Registered = {}
      BY DEF Init, Registered, NothingSeen
    <2>2. IsFiniteSet({}) /\ Cardinality({}) = 0
      BY FS_EmptySet
    <2>3. 0 <= MaxPeers
      BY TrackerAssumption
    <2>4. ASSUME Registered = {} PROVE Bounded
      BY <2>2, <2>3, <2>4 DEF RegistryBounded
    <2> QED
      BY <2>1, <2>4
  <1>2. Types /\ Bounded /\ [Next]_vars => Bounded'
    <2> SUFFICES ASSUME Types, Bounded, [Next]_vars PROVE Bounded'
      OBVIOUS
    <2>1. ASSUME NEW S, IsFiniteSet(S), Cardinality(S) <= MaxPeers,
                 Registered' \subseteq S
          PROVE  Bounded'
      <3>1. IsFiniteSet(Registered') /\ Cardinality(Registered') <= Cardinality(S)
        BY <2>1, FS_Subset
      <3>2. Cardinality(Registered') \in Nat /\ Cardinality(S) \in Nat
        BY <2>1, <3>1, FS_CardinalityType
      <3> QED
        BY <2>1, <3>1, <3>2, TrackerAssumption DEF RegistryBounded
    <2>2. CASE Registered' \subseteq Registered
      BY <2>1, <2>2 DEF RegistryBounded
    <2>3. ASSUME NEW h \in Handlers, Record(h) PROVE Bounded'
      <3>1. CASE Full(Sender(h))
        BY <2>2, <2>3, <3>1 DEF Record, Registered
      <3>2. CASE ~Full(Sender(h))
        <4>1. Registered' \subseteq Registered \cup {Sender(h)}
          BY <2>3, <3>2 DEF Record, Registered, Types
        <4>2. /\ IsFiniteSet(Registered \cup {Sender(h)})
              /\ Cardinality(Registered \cup {Sender(h)}) =
                   IF Sender(h) \in Registered
                   THEN Cardinality(Registered) ELSE Cardinality(Registered) + 1
          BY FS_AddElement
        <4>3. Cardinality(Registered) \in Nat
          BY FS_CardinalityType
        <4>4. Cardinality(Registered \cup {Sender(h)}) <= MaxPeers
          BY <3>2, <4>2, <4>3, TrackerAssumption DEF Full, RegistryBounded
        <4> QED
          BY <2>1, <4>1, <4>2, <4>4
      <3> QED
        BY <3>1, <3>2
    <2>4. CASE UNCHANGED registryVars
      BY <2>2, <2>4 DEF registryVars, Registered
    <2>5. CASE CleanupStep
      BY <2>2, <2>5, Constants
         DEF CleanupStep, CleanupOldPeers, SweepPeers, CleanupOldNonces,
             trackerVars, Registered, Types
    <2>6. CASE Restart
      BY <2>2, <2>6 DEF Restart, Registered, NothingSeen
    <2>7. CASE Tick
      BY <2>2, <2>7 DEF Tick, trackerVars, Registered
    <2> QED
      BY <2>3, <2>4, <2>5, <2>6, <2>7, RegistryFrame
  <1>3. Bounded => RegistryBounded
    OBVIOUS
  <1> QED
    BY <1>1, <1>2, <1>3, RegistryInvariant, PTL DEF Spec

-----------------------------------------------------------------------------
(* The nonces.  What a step may do to the tokens it finds and to the clock. *)
LEMMA TokensKept ==
  ASSUME Types, [Next]_vars
  PROVE  /\ now' \in {now, now + 1} /\ issued' \in issued .. MaxTokens
         /\ \A j \in 1 .. issued :
              timestamp'[j] = timestamp[j] /\ owner'[j] = owner[j]
  <1>1. ASSUME NEW p \in Peers, NEW k \in Tokens, AuthData(p, k), now' = now
        PROVE  /\ issued' \in issued .. MaxTokens
               /\ \A j \in 1 .. issued :
                    timestamp'[j] = timestamp[j] /\ owner'[j] = owner[j]
    BY <1>1, AuthDataTypes
  <1>2. CASE now' \in {now, now + 1} /\ UNCHANGED <<issued, timestamp, owner>>
    BY <1>2, Constants DEF Types
  <1>3. \/ now' \in {now, now + 1} /\ UNCHANGED <<issued, timestamp, owner>>
        \/ \E p \in Peers, k \in Tokens : AuthData(p, k) /\ now' = now
    BY DEF Next, vars, PeerStep, HandlerStep, CleanupStep, GetAuthData, Post,
           Register, RefreshTrackerRegistration, Timeout, PeerRestart, Arrive,
           IsNonceValid, VerifyAndCheckTrust, Record, Reply, Lose, Finish,
           CleanupOldPeers, SweepPeers, CleanupOldNonces, Restart, Tick,
           tokenVars
  <1> QED
    BY <1>1, <1>2, <1>3

(* A nonce is entered by IsNonceValid, and swept. *)
LEMMA NonceSteps ==
  ASSUME [Next]_vars
  PROVE  \/ UNCHANGED <<usedAt, early>>
         \/ \E h \in Handlers : IsNonceValid(h)
         \/ CleanupOldNonces \/ Restart
  BY DEF Next, vars, PeerStep, HandlerStep, CleanupStep, GetAuthData, Post,
         Register, RefreshTrackerRegistration, Timeout, PeerRestart, Arrive,
         VerifyAndCheckTrust, Record, Reply, Lose, Finish,
         CleanupOldPeers, SweepPeers, Tick, trackerVars

LEMMA AgesStep == Types /\ Ages /\ [Next]_vars => Ages'
  <1> SUFFICES ASSUME Types, Ages, [Next]_vars PROVE Ages'
    OBVIOUS
  <1>1. Types'
    BY TypesStep
  <1>2. ASSUME NEW k \in Tokens, usedAt'[k] # Never
        PROVE  /\ k <= issued'
               /\ usedAt'[k] \in 0 .. now'
               /\ k \in early' \/ timestamp'[k] < Unix(usedAt'[k])
    <2>1. now \in Nat /\ issued \in Nat /\ issued' \in Nat
      BY <1>1 DEF Types
    <2>2. CASE usedAt'[k] = usedAt[k] /\ early \subseteq early'
      <3>1. k \in 1 .. issued
        BY <1>2, <2>1, <2>2, Constants DEF Ages
      <3>2. timestamp'[k] = timestamp[k] /\ k <= issued' /\ now' \in {now, now + 1}
        BY <2>1, <3>1, TokensKept
      <3> QED
        BY <1>2, <2>1, <2>2, <3>1, <3>2 DEF Ages
    <2>3. ASSUME NEW h \in Handlers, IsNonceValid(h), k = token[h],
                 usedAt'[k] = now, early' = early \cup {j \in {k} : Unix(now) <= timestamp[j]}
          PROVE  /\ k <= issued'
                 /\ usedAt'[k] \in 0 .. now'
                 /\ k \in early' \/ timestamp'[k] < Unix(usedAt'[k])
      <3>1. k \in 1 .. issued /\ UNCHANGED <<now, issued, timestamp, owner>>
        BY <2>1, <2>3, Constants DEF IsNonceValid, Types, tokenVars
      <3>2. Unix(now) \in Int /\ timestamp[k] \in Int
        BY <2>1, WholeSeconds DEF Types
      <3>3. Unix(usedAt'[k]) = Unix(now)
        BY <2>3 DEF Unix
      <3> QED
        BY <2>1, <2>3, <3>1, <3>2, <3>3
    <2>4. \/ usedAt'[k] = usedAt[k] /\ early \subseteq early'
          \/ \E h \in Handlers :
               /\ IsNonceValid(h) /\ k = token[h] /\ usedAt'[k] = now
               /\ early' = early \cup {j \in {k} : Unix(now) <= timestamp[j]}
      BY <1>2, NonceSteps
         DEF IsNonceValid, CleanupOldNonces, Restart, NoneUsed, Types
    <2> QED
      BY <2>2, <2>3, <2>4
  <1> QED
    BY <1>2 DEF Ages

(* Handlers begin to verify, and are done with it, in two actions only. *)
LEMMA VerifyFrame ==
  ASSUME Types, [Next]_vars
  PROVE  \/ /\ UNCHANGED <<usedAt, accepted>>
            /\ \A h \in Handlers : pc'[h] = "verify" =>
                 pc[h] = "verify" /\ token'[h] = token[h]
         \/ \E h \in Handlers : IsNonceValid(h) \/ VerifyAndCheckTrust(h)
         \/ CleanupOldNonces \/ Restart
  <1> DEFINE Quiet == /\ UNCHANGED <<usedAt, accepted>>
                      /\ \A h \in Handlers : pc'[h] = "verify" =>
                           pc[h] = "verify" /\ token'[h] = token[h]
  <1>1. ASSUME NEW p \in Peers, NEW h \in Handlers, Post(p, h) PROVE Quiet
    BY <1>1 DEF Post, trackerVars, Types
  <1>2. ASSUME NEW p \in Peers, GetAuthData(p) \/ Timeout(p) \/ PeerRestart(p)
        PROVE  Quiet
    BY <1>2 DEF GetAuthData, Timeout, PeerRestart, trackerVars, handlerVars
  <1>3. ASSUME NEW h \in Handlers, Arrive(h) PROVE Quiet
    BY <1>3 DEF Arrive, Goto, Types
  <1>4. ASSUME NEW h \in Handlers, Record(h) PROVE Quiet
    BY <1>4 DEF Record, Goto, Types
  <1>5. ASSUME NEW h \in Handlers, Finish(h) PROVE Quiet
    BY <1>5 DEF Finish, trackerVars, Types
  <1>6. CASE CleanupOldPeers \/ SweepPeers \/ Tick
    BY <1>6 DEF CleanupOldPeers, SweepPeers, Tick, trackerVars, handlerVars
  <1>7. CASE UNCHANGED vars
    BY <1>7 DEF vars, trackerVars, handlerVars
  <1> QED
    BY <1>1, <1>2, <1>3, <1>4, <1>5, <1>6, <1>7
       DEF Next, PeerStep, HandlerStep, CleanupStep, Register,
           RefreshTrackerRegistration, Reply, Lose

(* The heart of the argument: a nonce is swept only when its token has
   expired, so until then it stands for the one use of the token. *)
(* The nonce of a token is kept at least as long as the token is valid (in
   constants.go both are a day). *)
NonceOutlastsToken == TokenExpiration <= NonceExpiry

LEMMA NonceStep ==
  NonceOutlastsToken /\ Types /\ Ages /\ NonceKept /\ [Next]_vars => NonceKept'
  <1> SUFFICES ASSUME NonceOutlastsToken, Types, Ages, NonceKept, [Next]_vars
               PROVE  NonceKept'
    OBVIOUS
  <1> USE DEF Verifying
  <1>1. Types' /\ now \in Nat /\ issued \in Nat
    BY TypesStep DEF Types
  <1>2. ASSUME NEW k \in Tokens, Expired(k) PROVE Expired(k)'
    <2>0. k \in 1 .. issued
      BY <1>1, <1>2, Constants DEF Expired
    <2>1. timestamp[k] \in Int /\ timestamp'[k] = timestamp[k]
      BY <2>0, TokensKept DEF Types
    <2>2. issued' \in Nat /\ issued <= issued' /\ now' \in Nat /\ now <= now'
      BY <1>1, TokensKept DEF Types
    <2>3. Unix(now) <= Unix(now')
      <3>1. 0 % Second = 0 /\ now \in Int /\ now' \in Int /\ now + 0 <= now'
        BY <1>1, <2>2, Constants
      <3>2. Unix(now) + 0 <= Unix(now') /\ Unix(now) \in Int
        BY <3>1, SecondsInOrder, WholeSeconds
      <3> QED
        BY <3>2
    <2>4. Unix(now) \in Int /\ Unix(now') \in Int /\ Unix(now)' = Unix(now')
      BY <1>1, <2>2, WholeSeconds DEF Unix
    <2> QED
      BY <1>1, <1>2, <2>0, <2>1, <2>2, <2>3, <2>4, Constants DEF Expired
  <1>3. ASSUME NEW k \in Tokens, UsedOnce(k), k \notin early
        PROVE  Expired(k)' \/ UsedOnce(k)'
    <2>1. CASE /\ UNCHANGED <<usedAt, accepted>>
               /\ \A h \in Handlers : pc'[h] = "verify" =>
                    pc[h] = "verify" /\ token'[h] = token[h]
      BY <1>3, <2>1 DEF UsedOnce
    <2>2. ASSUME NEW h \in Handlers, IsNonceValid(h) PROVE UsedOnce(k)'
      <3>1. UNCHANGED <<token, accepted>>
            /\ \A g \in Handlers \ {h} : pc'[g] = pc[g]
        BY <2>2 DEF IsNonceValid, Goto, Types
      <3>2. CASE pc'[h] = "refused" /\ UNCHANGED usedAt
        BY <1>3, <3>1, <3>2 DEF UsedOnce
      <3>3. CASE token[h] # k /\ usedAt'[k] = usedAt[k]
        BY <1>3, <3>1, <3>3 DEF UsedOnce
      <3>4. CASE token[h] = k /\ usedAt[k] = Never /\ usedAt'[k] = now
        <4>1. now # Never
          BY <1>1, Constants
        <4> QED
          BY <1>3, <3>1, <3>4, <4>1 DEF UsedOnce
      <3>5. \/ pc'[h] = "refused" /\ UNCHANGED usedAt
            \/ token[h] # k /\ usedAt'[k] = usedAt[k]
            \/ token[h] = k /\ usedAt[k] = Never /\ usedAt'[k] = now
        BY <2>2 DEF IsNonceValid, Goto, Types
      <3> QED
        BY <3>2, <3>3, <3>4, <3>5
    <2>3. ASSUME NEW h \in Handlers, VerifyAndCheckTrust(h) PROVE UsedOnce(k)'
      <3>1. /\ UNCHANGED <<token, usedAt>>
            /\ pc[h] = "verify" /\ pc'[h] # "verify"
            /\ \A g \in Handlers \ {h} : pc'[g] = pc[g]
        BY <2>3 DEF VerifyAndCheckTrust, Goto, Types
      <3>2. CASE token[h] # k
        <4>1. accepted'[k] = accepted[k]
          BY <2>3, <3>2 DEF VerifyAndCheckTrust, Types
        <4> QED
          BY <1>3, <3>1, <3>2, <4>1 DEF UsedOnce
      <3>3. CASE token[h] = k
        BY <1>3, <3>1, <3>3 DEF UsedOnce
      <3> QED
        BY <3>2, <3>3
    <2>4. CASE CleanupOldNonces
      <3>1. UNCHANGED <<now, issued, timestamp, accepted, pc, token>>
        BY <2>4 DEF CleanupOldNonces, tokenVars, handlerVars
      <3>2. CASE usedAt'[k] = usedAt[k]
        BY <1>3, <3>1, <3>2 DEF UsedOnce
      <3>3. CASE sweepTime - usedAt[k] > NonceExpiry /\ usedAt[k] # Never
        <4>1. k \in 1 .. issued /\ timestamp[k] < Unix(usedAt[k])
          BY <1>1, <1>3, <3>3, Constants DEF Ages
        <4>2. /\ timestamp[k] \in Int /\ usedAt[k] \in Int
              /\ sweepTime \in Int /\ sweepTime <= now
          BY <4>1, Constants DEF Types
        <4>3. Unix(usedAt[k]) + TokenExpiration <= Unix(now)
          <5>1. usedAt[k] + TokenExpiration <= now
            BY <1>1, <3>3, <4>2, Constants DEF NonceOutlastsToken
          <5> QED
            BY <1>1, <4>2, <5>1, Constants, SecondsInOrder
        <4>4. Unix(now) > timestamp[k] + TokenExpiration
          <5>1. Unix(usedAt[k]) \in Int /\ Unix(now) \in Int
            BY <1>1, <4>2, WholeSeconds
          <5> QED
            BY <4>1, <4>2, <4>3, <5>1, Constants
        <4>5. Unix(now)' = Unix(now)
          BY <3>1 DEF Unix
        <4> QED
          BY <1>1, <3>1, <4>1, <4>4, <4>5 DEF Expired
      <3> QED
        BY <2>4, <3>2, <3>3 DEF CleanupOldNonces, Types
    <2>5. CASE Restart
      BY <2>5 DEF Restart, NoneTaken, UsedOnce
    <2> QED
      BY <2>1, <2>2, <2>3, <2>4, <2>5, VerifyFrame
  <1>4. ASSUME NEW k \in Tokens, accepted[k] <= 1, Expired(k) \/ UsedOnce(k)
        PROVE  accepted'[k] <= 1
    <2>1. accepted[k] \in Nat
      BY DEF Types
    <2>2. ASSUME NEW h \in Handlers, VerifyAndCheckTrust(h),
                 token[h] = k, VerifyToken(k)
          PROVE  accepted'[k] <= 1
      <3>1. ~Expired(k)
        <4>1. timestamp[k] \in Int /\ Unix(now) \in Int
          BY <1>1, WholeSeconds DEF Types
        <4> QED
          BY <1>1, <2>2, <4>1, Constants DEF Expired, VerifyToken
      <3>2. Verifying(h, k)
        BY <2>2 DEF VerifyAndCheckTrust, Goto
      <3>3. accepted[k] = 0
        BY <1>4, <3>1, <3>2 DEF UsedOnce
      <3> QED
        BY <2>2, <3>3 DEF VerifyAndCheckTrust, Types
    <2>3. \/ accepted'[k] \in {accepted[k], 0}
          \/ \E h \in Handlers :
               VerifyAndCheckTrust(h) /\ token[h] = k /\ VerifyToken(k)
      BY VerifyFrame DEF IsNonceValid, VerifyAndCheckTrust, CleanupOldNonces,
                         Restart, NoneTaken, Types
    <2> QED
      BY <1>4, <2>1, <2>2, <2>3
  <1>5. \/ early \subseteq early'
        \/ accepted' = NoneTaken /\ (\A k \in Tokens : UsedOnce(k)')
    <2>1. CASE Restart
      BY <2>1 DEF Restart, UsedOnce, NoneTaken
    <2>2. CASE \E h \in Handlers : IsNonceValid(h)
      BY <2>2 DEF IsNonceValid
    <2>3. CASE UNCHANGED <<usedAt, early>> \/ CleanupOldNonces
      BY <2>3 DEF CleanupOldNonces
    <2> QED
      BY <2>1, <2>2, <2>3, NonceSteps
  <1>6. ASSUME NEW k \in Tokens
        PROVE  \/ k \in early'
               \/ accepted'[k] <= 1 /\ (Expired(k)' \/ UsedOnce(k)')
    <2>1. CASE accepted' = NoneTaken /\ (\A t \in Tokens : UsedOnce(t)')
      BY <2>1 DEF NoneTaken
    <2>2. CASE k \in early /\ early \subseteq early'
      BY <2>2
    <2>3. CASE k \notin early
      <3>1. accepted[k] <= 1 /\ (Expired(k) \/ UsedOnce(k))
        BY <2>3 DEF NonceKept
      <3> QED
        BY <1>2, <1>3, <1>4, <2>3, <3>1
    <2> QED
      BY <1>5, <2>1, <2>2, <2>3
  <1> QED
    BY <1>6 DEF NonceKept

LEMMA NonceInvariant ==
  ASSUME NonceOutlastsToken PROVE Spec => [](Types /\ Ages /\ NonceKept)
  <1>1. Init => Types /\ Ages /\ NonceKept
    <2> SUFFICES ASSUME Init PROVE Ages /\ NonceKept
      BY InitTypes
    <2>1. Ages
      BY DEF Init, Ages, NoneUsed
    <2>2. NonceKept
      BY DEF Init, NonceKept, UsedOnce, Verifying, NoneTaken
    <2> QED
      BY <2>1, <2>2
  <1>2. Types /\ Ages /\ NonceKept /\ [Next]_vars => (Types /\ Ages /\ NonceKept)'
    <2>1. NonceOutlastsToken
      OBVIOUS
    <2> QED
      BY <2>1, TypesStep, AgesStep, NonceStep
  <1> QED
    BY <1>1, <1>2, PTL DEF Spec

(***************************************************************************)
(* A token is accepted again only if its nonce was entered before the      *)
(* second stamped on it was over.  Every other nonce is remembered for as  *)
(* long as its token can be verified, whatever the clocks of the peers say *)
(* and whatever the handlers and the cleanup do in between.                *)
(***************************************************************************)
THEOREM RepeatsAreEarly ==
  ASSUME NonceOutlastsToken PROVE Spec => []OnlyEarlyTokensRepeat
  <1>1. Types /\ NonceKept => OnlyEarlyTokensRepeat
    <2> SUFFICES ASSUME Types, NonceKept, NEW k \in Tokens, k \notin early
                 PROVE  ~(accepted[k] > 1)
      BY DEF OnlyEarlyTokensRepeat
    <2>1. accepted[k] <= 1 /\ accepted[k] \in Nat
      BY DEF NonceKept, Types
    <2> QED
      BY <2>1
  <1> QED
    BY <1>1, NonceInvariant, PTL

-----------------------------------------------------------------------------
(* What TypeOK says beyond Types: values that the clock and the bounds limit,
   and the loops of the peers. *)
Rest ==
  /\ now <= MaxTime
  /\ loop \in [Peers -> {"retry", "waiting", "registered"}]
  /\ call \in [Peers -> Handlers \cup {NoHandler}]
  /\ \A h \in Handlers : pc[h] = "idle" => token[h] = NoToken
  /\ lastSeen \in [Peers -> 0 .. now \cup {Never}]
  /\ usedAt \in [Tokens -> 0 .. now \cup {Never}]
  /\ nextCleanup \in Nat
  /\ restarts <= MaxRestarts

LEMMA RestStep == Types /\ Rest /\ [Next]_vars => Rest'
  <1> SUFFICES ASSUME Types, Rest, [Next]_vars PROVE Rest'
    OBVIOUS
  <1> DEFINE Times == UNCHANGED <<now, lastSeen, usedAt, nextCleanup, restarts>>
             Loops == UNCHANGED <<loop, call>>
             Hands == \A h \in Handlers : pc'[h] = "idle" => token'[h] = NoToken
  <1>0. now \in Nat /\ 0 .. now \subseteq 0 .. now + 1 /\ now \in 0 .. now
    BY DEF Types
  <1>1. ASSUME NEW p \in Peers, GetAuthData(p) PROVE Times /\ Loops /\ Hands
    BY <1>1 DEF GetAuthData, clientVars, handlerVars, trackerVars, cleanVars, Rest
  <1>2. ASSUME NEW p \in Peers, NEW h \in Handlers, Post(p, h) PROVE Times /\ Hands
    <2>1. Times
      BY <1>2 DEF Post, trackerVars, cleanVars
    <2>2. PICK k : token' = [token EXCEPT ![h] = k]
      BY <1>2 DEF Post
    <2>3. pc' = [pc EXCEPT ![h] = "sent"]
      BY <1>2 DEF Post
    <2> QED
      BY <2>1, <2>2, <2>3 DEF Types, Rest
  <1>3. ASSUME NEW p \in Peers, NEW h \in Handlers, Register(p, h) PROVE Rest'
    <2>1. /\ loop' \in [Peers -> {"retry", "waiting", "registered"}]
          /\ call' \in [Peers -> Handlers \cup {NoHandler}]
      BY <1>3 DEF Register, Rest
    <2> QED
      BY <1>2, <1>3, <2>1 DEF Register, Rest
  <1>4. ASSUME NEW p \in Peers, NEW h \in Handlers, RefreshTrackerRegistration(p, h)
        PROVE  Rest'
    BY <1>2, <1>4 DEF RefreshTrackerRegistration, clientVars, Rest
  <1>5. ASSUME NEW p \in Peers, Timeout(p) \/ PeerRestart(p) PROVE Rest'
    <2>1. Times /\ Hands
      BY <1>5 DEF Timeout, PeerRestart, handlerVars, trackerVars, cleanVars, Rest
    <2>2. /\ loop' \in [Peers -> {"retry", "waiting", "registered"}]
          /\ call' \in [Peers -> Handlers \cup {NoHandler}]
      BY <1>5 DEF Timeout, PeerRestart, Rest
    <2> QED
      BY <2>1, <2>2 DEF Rest
  <1>6. ASSUME NEW h \in Handlers, Arrive(h) PROVE Times /\ Loops /\ Hands
    BY <1>6 DEF Arrive, Goto, clientVars, cleanVars, Types, Rest
  <1>7. ASSUME NEW h \in Handlers, IsNonceValid(h) PROVE Rest'
    <2>1. UNCHANGED <<now, lastSeen, nextCleanup, restarts>> /\ Loops /\ Hands
      BY <1>7 DEF IsNonceValid, Goto, clientVars, cleanVars, Types, Rest
    <2>2. usedAt' \in [Tokens -> 0 .. now \cup {Never}]
      BY <1>0, <1>7 DEF IsNonceValid, Rest
    <2> QED
      BY <2>1, <2>2 DEF Rest
  <1>8. ASSUME NEW h \in Handlers, VerifyAndCheckTrust(h) PROVE Times /\ Loops /\ Hands
    BY <1>8 DEF VerifyAndCheckTrust, Goto, clientVars, cleanVars, Types, Rest
  <1>9. ASSUME NEW h \in Handlers, Record(h) PROVE Rest'
    <2>1. UNCHANGED <<now, usedAt, nextCleanup, restarts>> /\ Loops /\ Hands
      BY <1>9 DEF Record, Goto, clientVars, cleanVars, Types, Rest
    <2>2. lastSeen' \in [Peers -> 0 .. now \cup {Never}]
      BY <1>0, <1>9 DEF Record, Rest
    <2> QED
      BY <2>1, <2>2 DEF Rest
  <1>10. ASSUME NEW h \in Handlers, Finish(h)
         PROVE  Times /\ Hands /\ call' \in [Peers -> Handlers \cup {NoHandler}]
    BY <1>10 DEF Finish, trackerVars, cleanVars, Types, Rest
  <1>11. ASSUME NEW h \in Handlers, Reply(h) \/ Lose(h) PROVE Rest'
    <2>1. loop' \in [Peers -> {"retry", "waiting", "registered"}]
      BY <1>11 DEF Reply, Lose, Rest
    <2> QED
      BY <1>10, <1>11, <2>1 DEF Reply, Lose, Rest
  <1>12. CASE CleanupOldPeers
    <2>1. UNCHANGED <<now, lastSeen, usedAt, restarts>> /\ Loops /\ Hands
      BY <1>12 DEF CleanupOldPeers, clientVars, handlerVars, trackerVars, Rest
    <2>2. nextCleanup' \in Nat
      BY <1>12, Constants DEF CleanupOldPeers, Rest
    <2> QED
      BY <2>1, <2>2 DEF Rest
  <1>13. CASE SweepPeers
    <2>1. UNCHANGED <<now, usedAt, nextCleanup, restarts>> /\ Loops /\ Hands
      BY <1>13 DEF SweepPeers, clientVars, handlerVars, Rest
    <2>2. lastSeen' \in [Peers -> 0 .. now \cup {Never}]
      BY <1>13 DEF SweepPeers, Rest
    <2> QED
      BY <2>1, <2>2 DEF Rest
  <1>14. CASE CleanupOldNonces
    <2>1. UNCHANGED <<now, lastSeen, nextCleanup, restarts>> /\ Loops /\ Hands
      BY <1>14 DEF CleanupOldNonces, clientVars, handlerVars, Rest
    <2>2. usedAt' \in [Tokens -> 0 .. now \cup {Never}]
      BY <1>14 DEF CleanupOldNonces, Rest
    <2> QED
      BY <2>1, <2>2 DEF Rest
  <1>15. CASE Restart
    <2>1. /\ loop' = loop /\ now' = now /\ call' \in [Peers -> Handlers \cup {NoHandler}]
          /\ Hands
      BY <1>15 DEF Restart, Rest
    <2>2. /\ lastSeen' \in [Peers -> 0 .. now \cup {Never}]
          /\ usedAt' \in [Tokens -> 0 .. now \cup {Never}]
      BY <1>15 DEF Restart, NothingSeen, NoneUsed
    <2>3. nextCleanup' \in Nat /\ restarts' <= MaxRestarts
      BY <1>0, <1>15, Constants, TrackerAssumption DEF Restart, Types
    <2> QED
      BY <2>1, <2>2, <2>3 DEF Rest
  <1>16. CASE Tick
    <2>1. UNCHANGED <<lastSeen, usedAt, nextCleanup, restarts>> /\ Loops /\ Hands
      BY <1>16 DEF Tick, clientVars, handlerVars, trackerVars, cleanVars, Rest
    <2>2. now' = now + 1 /\ now' <= MaxTime
      BY <1>0, <1>16, RateLimiterAssumption DEF Tick
    <2>3. lastSeen' \in [Peers -> 0 .. now' \cup {Never}]
          /\ usedAt' \in [Tokens -> 0 .. now' \cup {Never}]
      BY <1>0, <2>1, <2>2 DEF Rest
    <2> QED
      BY <2>1, <2>2, <2>3 DEF Rest
  <1>17. CASE UNCHANGED vars
    BY <1>17 DEF vars, clientVars, handlerVars, trackerVars, cleanVars, Rest
  <1>18. Times /\ Loops /\ Hands => Rest'
    BY DEF Rest
  <1> QED
    BY <1>1, <1>3, <1>4, <1>5, <1>6, <1>7, <1>8, <1>9, <1>11, <1>12, <1>13,
       <1>14, <1>15, <1>16, <1>17, <1>18
       DEF Next, PeerStep, HandlerStep, CleanupStep

(* The limiter is used by one action and emptied by a restart. *)
LEMMA LimiterStep == Types /\ LimiterInv /\ [Next]_vars => LimiterInv'
  <1> SUFFICES ASSUME Types, LimiterInv, [Next]_vars PROVE LimiterInv'
    OBVIOUS
  <1>1. CASE requests' = requests
    BY <1>1, TokensKept, TimeKeeps
  <1>2. ASSUME NEW h \in Handlers, Arrive(h), Allow(Ip[Sender(h)]) PROVE LimiterInv'
    <2>1. token[h] \in 1 .. issued
      BY <1>2, Constants DEF Arrive, Goto, Types
    <2>2. Ip[Sender(h)] \in IPs
      BY <2>1, TrackerAssumption DEF Sender, Types
    <2> QED
      BY <1>2, <2>2, AllowKeeps DEF Arrive
  <1>3. CASE Restart
    <2>1. now' \in Nat /\ requests' = [ip \in IPs |-> <<>>]
      BY <1>3 DEF Restart, Types
    <2>2. (now \in Nat /\ requests = [ip \in IPs |-> <<>>] => LimiterInv)'
      BY EmptyLimiter, PTL
    <2> QED
      BY <2>1, <2>2
  <1>4. \/ requests' = requests
        \/ \E h \in Handlers : Arrive(h) /\ Allow(Ip[Sender(h)])
        \/ Restart
    BY DEF Next, vars, PeerStep, HandlerStep, CleanupStep, GetAuthData, Post,
           Register, RefreshTrackerRegistration, Timeout, PeerRestart, Arrive,
           IsNonceValid, VerifyAndCheckTrust, Record, Reply, Lose, Finish,
           CleanupOldPeers, SweepPeers, CleanupOldNonces, Tick, trackerVars
  <1> QED
    BY <1>1, <1>2, <1>3, <1>4

LEMMA TypesInvariant == Spec => [](Types /\ Rest /\ LimiterInv)
  <1>1. Init => Types /\ Rest /\ LimiterInv
    <2> SUFFICES ASSUME Init PROVE Rest /\ LimiterInv
      BY InitTypes
    <2>1. LimiterInv
      BY EmptyLimiter DEF Init, RateLimiterInit
    <2>2. now = 0 /\ lastSeen = NothingSeen /\ usedAt = NoneUsed
      BY DEF Init, RateLimiterInit
    <2>3. /\ lastSeen \in [Peers -> 0 .. now \cup {Never}]
          /\ usedAt \in [Tokens -> 0 .. now \cup {Never}]
      BY <2>2 DEF NothingSeen, NoneUsed
    <2>4. now <= MaxTime /\ nextCleanup \in Nat /\ restarts <= MaxRestarts
      BY <2>2, TrackerAssumption, RateLimiterAssumption DEF Init
    <2>5. /\ loop \in [Peers -> {"retry", "waiting", "registered"}]
          /\ call \in [Peers -> Handlers \cup {NoHandler}]
          /\ \A h \in Handlers : token[h] = NoToken
      BY DEF Init
    <2> QED
      BY <2>1, <2>3, <2>4, <2>5 DEF Rest
  <1>2. Types /\ Rest /\ LimiterInv /\ [Next]_vars => (Types /\ Rest /\ LimiterInv)'
    BY TypesStep, RestStep, LimiterStep
  <1> QED
    BY <1>1, <1>2, PTL DEF Spec

(***************************************************************************)
(* The types of the tracker's and the peers' variables: what is recorded   *)
(* in a list, the registry and the nonces is a time that has been.         *)
(***************************************************************************)
THEOREM TypeCorrect == Spec => []TypeOK
  <1>1. Types /\ Rest /\ LimiterInv => TypeOK
    <2> SUFFICES ASSUME Types, Rest, LimiterInv PROVE TypeOK
      OBVIOUS
    <2>1. now \in Nat /\ now <= MaxTime /\ MaxTime \in Nat
      BY RateLimiterAssumption DEF Types, Rest
    <2>2. now \in Time /\ 0 .. now \subseteq Time
      BY <2>1 DEF Time
    <2>3. requests \in [IPs -> Seq(Time)]
      <3>1. requests \in [IPs -> Seq(Nat)]
        BY DEF LimiterInv, LimiterTypes
      <3>2. ASSUME NEW ip \in IPs PROVE requests[ip] \in Seq(Time)
        <4>1. requests[ip] \in Seq(Nat)
          BY <3>1
        <4>2. \A i \in 1 .. Len(requests[ip]) : requests[ip][i] \in Nat /\ requests[ip][i] <= now
          BY <4>1 DEF LimiterInv, Recorded
        <4>3. \A i \in 1 .. Len(requests[ip]) : requests[ip][i] \in Time
          BY <2>1, <4>2 DEF Time
        <4> QED
          BY <4>1, <4>3
      <3> QED
        BY <3>1, <3>2
    <2>4. /\ lastSeen \in [Peers -> Time \cup {Never}]
          /\ usedAt \in [Tokens -> Time \cup {Never}]
          /\ sweepTime \in Time
      BY <2>2 DEF Types, Rest
    <2>5. restarts \in 0 .. MaxRestarts
      BY TrackerAssumption DEF Types, Rest
    <2>6. \A h \in Handlers : pc[h] = "idle" <=> token[h] = NoToken
      BY DEF Types, Rest
    <2> QED
      BY <2>2, <2>3, <2>4, <2>5, <2>6 DEF TypeOK, Types, Rest
  <1> QED
    BY <1>1, TypesInvariant, PTL

(***************************************************************************)
(* The limiter's list of an address stays as short as the maximum in the   *)
(* tracker too, with handlers arriving, time passing and restarts.         *)
(***************************************************************************)
THEOREM ListsStayShort == Spec => []RequestsBounded
  <1>1. LimiterInv => RequestsBounded
    BY DEF LimiterInv
  <1> QED
    BY <1>1, TypesInvariant, PTL

-----------------------------------------------------------------------------
(* Who may write a record.  A token that is past the checks keeps its owner. *)
Vouched(p) ==
  AuthRequired =>
    \E k \in 1 .. issued : owner[k] = p /\ IsTrusted(k) /\ accepted[k] > 0

VouchInv ==
  /\ \A h \in Handlers : pc[h] \in {"nonce", "verify", "record"} =>
       Sender(h) \in WellAddressed
  /\ \A h \in Handlers : pc[h] = "record" => Vouched(Sender(h))
  /\ \A p \in Registered : p \in WellAddressed /\ Vouched(p)

Checked == {"nonce", "verify", "record"}   \* past the first checks of the request

(* A handler that is past the first checks got there in one of three actions,
   and only Record puts a peer into the registry. *)
LEMMA VouchFrame ==
  ASSUME Types, [Next]_vars
  PROVE  \/ /\ UNCHANGED accepted /\ Registered' \subseteq Registered
            /\ \A h \in Handlers : pc'[h] \in Checked =>
                 pc[h] = pc'[h] /\ token'[h] = token[h]
         \/ \E h \in Handlers :
              Arrive(h) \/ IsNonceValid(h) \/ VerifyAndCheckTrust(h) \/ Record(h)
         \/ Restart
  <1> DEFINE Quiet == /\ UNCHANGED accepted /\ Registered' \subseteq Registered
                      /\ \A h \in Handlers : pc'[h] \in Checked =>
                           pc[h] = pc'[h] /\ token'[h] = token[h]
  <1>1. ASSUME NEW p \in Peers, NEW h \in Handlers, Post(p, h) PROVE Quiet
    BY <1>1 DEF Post, trackerVars, Types, Registered, Checked
  <1>2. ASSUME NEW p \in Peers, GetAuthData(p) \/ Timeout(p) \/ PeerRestart(p)
        PROVE  Quiet
    BY <1>2 DEF GetAuthData, Timeout, PeerRestart, trackerVars, handlerVars, Registered
  <1>3. ASSUME NEW h \in Handlers, Finish(h) PROVE Quiet
    BY <1>3 DEF Finish, trackerVars, Types, Registered, Checked
  <1>4. CASE CleanupOldPeers \/ CleanupOldNonces \/ Tick
    BY <1>4 DEF CleanupOldPeers, CleanupOldNonces, Tick, trackerVars, handlerVars, Registered
  <1>5. CASE SweepPeers
    BY <1>5 DEF SweepPeers, handlerVars, Registered
  <1>6. CASE UNCHANGED vars
    BY <1>6 DEF vars, trackerVars, handlerVars, Registered
  <1> QED
    BY <1>1, <1>2, <1>3, <1>4, <1>5, <1>6
       DEF Next, PeerStep, HandlerStep, CleanupStep, Register,
           RefreshTrackerRegistration, Reply, Lose

LEMMA VouchStep == Types /\ VouchInv /\ [Next]_vars => VouchInv'
  <1> SUFFICES ASSUME Types, VouchInv, [Next]_vars PROVE VouchInv'
    OBVIOUS
  <1>0. 1 .. issued \subseteq Tokens
    BY Constants DEF Types
  <1>1. ASSUME NEW h \in Handlers, pc[h] # "idle", token'[h] = token[h]
        PROVE  Sender(h)' = Sender(h)
    <2>1. token[h] \in 1 .. issued
      BY <1>1, Constants DEF Types
    <2> QED
      BY <1>1, <2>1, TokensKept DEF Sender
  <1>2. ASSUME NEW p, Vouched(p), \A k \in 1 .. issued : accepted'[k] >= accepted[k]
        PROVE  Vouched(p)'
    <2> SUFFICES ASSUME AuthRequired
                 PROVE  \E k \in 1 .. issued' :
                          owner'[k] = p /\ IsTrusted(k)' /\ accepted'[k] > 0
      BY DEF Vouched
    <2>1. PICK k \in 1 .. issued : owner[k] = p /\ IsTrusted(k) /\ accepted[k] > 0
      BY <1>2 DEF Vouched
    <2>2. k \in 1 .. issued' /\ owner'[k] = p /\ IsTrusted(k)'
      BY <2>1, TokensKept DEF Types, IsTrusted, PublicKey
    <2>3. accepted'[k] >= accepted[k] /\ accepted[k] \in Nat /\ accepted'[k] \in Nat
      <3>1. accepted' \in [Tokens -> Nat] /\ accepted \in [Tokens -> Nat] /\ k \in Tokens
        BY <1>0, TypesStep DEF Types
      <3> QED
        BY <1>2, <3>1
    <2> QED
      BY <1>2, <2>1, <2>2, <2>3 DEF Vouched
  <1>3. CASE /\ UNCHANGED accepted /\ Registered' \subseteq Registered
             /\ \A h \in Handlers : pc'[h] \in Checked =>
                  pc[h] = pc'[h] /\ token'[h] = token[h]
    <2>1. \A p : Vouched(p) => Vouched(p)'
      <3>1. \A k \in 1 .. issued : accepted'[k] >= accepted[k]
        BY <1>3, Constants DEF Types
      <3> QED
        BY <1>2, <3>1
    <2>2. ASSUME NEW h \in Handlers, pc'[h] \in Checked
          PROVE  Sender(h)' = Sender(h) /\ pc[h] = pc'[h]
      BY <1>1, <1>3, <2>2 DEF Checked
    <2> QED
      BY <1>3, <2>1, <2>2 DEF VouchInv, Checked
  <1>4. ASSUME NEW h \in Handlers,
               Arrive(h) \/ IsNonceValid(h) \/ VerifyAndCheckTrust(h) \/ Record(h)
        PROVE  VouchInv'
    <2>1. /\ token' = token /\ pc[h] # "idle"
          /\ \A g \in Handlers \ {h} : pc'[g] = pc[g]
      BY <1>4 DEF Arrive, IsNonceValid, VerifyAndCheckTrust, Record, Goto, Types
    <2>2. \A g \in Handlers : pc[g] # "idle" => Sender(g)' = Sender(g)
      BY <1>1, <2>1
    <2>3. token[h] \in 1 .. issued /\ Sender(h) \in Peers
      <3>1. token[h] \in 1 .. issued
        BY <2>1, Constants DEF Types
      <3> QED
        BY <3>1 DEF Sender, Types
    <2>4. \A k \in 1 .. issued : accepted'[k] >= accepted[k]
      <3>1. ASSUME NEW k \in 1 .. issued PROVE accepted'[k] \in {accepted[k], accepted[k] + 1}
        <4>1. \/ accepted' = accepted
              \/ accepted' = [accepted EXCEPT ![token[h]] = @ + 1]
          BY <1>4 DEF Arrive, IsNonceValid, VerifyAndCheckTrust, Record
        <4>2. k \in Tokens /\ accepted \in [Tokens -> Nat]
          BY <1>0 DEF Types
        <4> QED
          BY <4>1, <4>2
      <3>2. \A k \in 1 .. issued : accepted[k] \in Nat
        BY <1>0 DEF Types
      <3> QED
        BY <3>1, <3>2
    <2>5. \A p : Vouched(p) => Vouched(p)'
      BY <1>2, <2>4
    <2>6. pc'[h] \in Checked => Sender(h) \in WellAddressed
      BY <1>4, <2>1
         DEF Arrive, IsNonceValid, VerifyAndCheckTrust, Record, Goto, Types,
             VouchInv, Checked
    <2>7. pc'[h] = "record" => Vouched(Sender(h))'
      <3>1. CASE Arrive(h)
        BY <3>1 DEF Arrive, Goto, Types, Vouched
      <3>2. CASE IsNonceValid(h) \/ Record(h)
        BY <3>2 DEF IsNonceValid, Record, Goto, Types
      <3>3. CASE VerifyAndCheckTrust(h)
        <4> SUFFICES ASSUME pc'[h] = "record" PROVE Vouched(Sender(h))'
          OBVIOUS
        <4>1. /\ IsTrusted(token[h])
              /\ accepted' = [accepted EXCEPT ![token[h]] = @ + 1]
          BY <3>3 DEF VerifyAndCheckTrust, Goto, Types
        <4>2. accepted'[token[h]] > 0
          <5>1. token[h] \in Tokens /\ accepted \in [Tokens -> Nat]
            BY <1>0, <2>3 DEF Types
          <5> QED
            BY <4>1, <5>1
        <4>3. /\ token[h] \in 1 .. issued' /\ owner'[token[h]] = Sender(h)'
              /\ IsTrusted(token[h])'
          BY <2>1, <2>3, <4>1, TokensKept DEF Sender, Types, IsTrusted, PublicKey
        <4> QED
          BY <2>1, <2>2, <4>1, <4>2, <4>3 DEF Vouched
      <3> QED
        BY <1>4, <3>1, <3>2, <3>3
    <2>8. ASSUME NEW p \in Registered' PROVE p \in WellAddressed /\ Vouched(p)'
      <3>1. CASE p \in Registered
        BY <2>5, <3>1 DEF VouchInv
      <3>2. CASE p \notin Registered
        <4>1. pc[h] = "record" /\ p = Sender(h)
          BY <1>4, <2>8, <3>2
             DEF Arrive, IsNonceValid, VerifyAndCheckTrust, Record, Goto, Registered, Types
        <4> QED
          BY <2>5, <4>1 DEF VouchInv
      <3> QED
        BY <3>1, <3>2
    <2>9. ASSUME NEW g \in Handlers
          PROVE  /\ pc'[g] \in Checked => Sender(g)' \in WellAddressed
                 /\ pc'[g] = "record" => Vouched(Sender(g))'
      <3>1. CASE g = h
        BY <2>1, <2>2, <2>6, <2>7, <3>1
      <3>2. CASE g # h
        <4>1. pc'[g] = pc[g]
          BY <2>1, <3>2
        <4>2. pc[g] = "record" => Vouched(Sender(g))'
          BY <2>5, <2>2 DEF VouchInv
        <4> QED
          BY <2>2, <4>1, <4>2 DEF VouchInv, Checked
      <3> QED
        BY <3>1, <3>2
    <2> QED
      BY <2>8, <2>9 DEF VouchInv, Checked
  <1>5. CASE Restart
    <2>1. Registered' = {} /\ \A h \in Handlers : pc'[h] = "idle"
      BY <1>5 DEF Restart, Registered, NothingSeen
    <2> QED
      BY <2>1 DEF VouchInv
  <1> QED
    BY <1>3, <1>4, <1>5, VouchFrame

(***************************************************************************)
(* Who is in the registry may be there: its addresses were accepted and,   *)
(* if keys are required, a token that names it was, in this run of it      *)
(* (handleRegisterPeer, whose checks and write are sections of their own). *)
(***************************************************************************)
THEOREM RegisteredAreVouchedFor == Spec => []OnlyVouchedForRegister
  <1>1. Init => VouchInv
    BY DEF Init, VouchInv, Registered, NothingSeen
  <1>2. Types /\ VouchInv => OnlyVouchedForRegister
    <2> SUFFICES ASSUME Types, VouchInv, NEW p \in Registered
                 PROVE  /\ p \in WellAddressed
                        /\ AuthRequired =>
                             \E k \in Tokens :
                               owner[k] = p /\ IsTrusted(k) /\ accepted[k] > 0
      BY DEF OnlyVouchedForRegister
    <2>1. 1 .. issued \subseteq Tokens
      BY Constants DEF Types
    <2> QED
      BY <2>1 DEF VouchInv, Vouched
  <1> QED
    BY <1>1, <1>2, VouchStep, RegistryInvariant, PTL DEF Spec
=============================================================================
