------------------------ MODULE TrackerRegistration ------------------------
(***************************************************************************)
(* How peers keep themselves in the tracker's registry: the HTTP handlers  *)
(* and the cleanup goroutine of the tracker (tracker/server.go), and the   *)
(* registration loop of every peer (internal/discovery/manager.go and      *)
(* tracker.go) with the tokens it presents (internal/auth/auth.go).        *)
(*                                                                         *)
(* net/http runs every request in a goroutine of its own: a handler here   *)
(* is one of them, and each section it runs under a mutex of its own (the  *)
(* rate limiter's, nonceMu, mu) is a step, with time passing in between.   *)
(* A token stands for its nonce as well, since every token gets a fresh    *)
(* one.  Tokens are numbered in the order they are generated.  A token     *)
(* carries its times in whole seconds; now counts parts of a second.       *)
(***************************************************************************)
EXTENDS RateLimiter, FiniteSets

CONSTANTS
  Peers,            \* peers that run the registration loop
  Ip,               \* the address each peer's requests come from
  Key,              \* the auth key each peer signs its tokens with
  TrustedKeys,      \* the public keys given to the tracker
  WellAddressed,    \* peers whose advertised addresses the tracker accepts
  Ahead,            \* how far each peer's clock is ahead of the tracker's
  NoPeer,
  Handlers,         \* requests the tracker may serve at the same time
  NoHandler,
  Second,           \* ticks of a second
  TokenExpiration,
  TokenRefreshThreshold,
  TokenFutureTolerance,
  NonceExpiry,
  PeerTimeout,
  PeerCleanupInterval,
  MaxPeers,         \* maxPeers
  MaxTokens,        \* bound: tokens generated in a behaviour
  MaxRestarts       \* bound: restarts of the tracker

Tokens == 1 .. MaxTokens

ASSUME TrackerAssumption ==
  /\ Ip \in [Peers -> IPs]
  /\ WellAddressed \subseteq Peers
  /\ DOMAIN Key = Peers
  /\ Ahead \in [Peers -> Int]
  /\ NoPeer \notin Peers
  /\ NoHandler \notin Handlers
  /\ {TokenExpiration, TokenRefreshThreshold, TokenFutureTolerance,
      NonceExpiry, PeerTimeout, MaxPeers, MaxTokens, MaxRestarts} \subseteq Nat
  /\ PeerCleanupInterval \in Nat \ {0}
  /\ Second \in Nat \ {0}
  /\ TokenExpiration % Second = 0

Never   == -1      \* the time of what has not happened
NoToken == 0

VARIABLES
  issued,        \* tokens generated so far: 1 .. issued
  timestamp,     \* Timestamp of each token, by the clock of its owner
  owner,         \* PeerID of each token, signed with the key of that peer
  authToken,     \* the token each peer has cached, or NoToken
  loop,          \* the registration loop of each peer
  call,          \* the request the loop waits for, or NoHandler
  pc,            \* where each handler is
  token,         \* the token of each handler's request, or NoToken
  lastSeen,      \* the registry: LastSeen of each peer, or Never
  usedAt,        \* usedTokenNonces: when each nonce was used, or Never
  cleaner,       \* the cleanup goroutine
  sweepTime,     \* the time it read when its ticker fired
  nextCleanup,   \* when its ticker fires next
  accepted,      \* how often this run of the tracker accepted each token
  early,         \* tokens whose nonce it entered before their second was over
  restarts       \* restarts of the tracker so far

tokenVars   == <<issued, timestamp, owner, authToken>>
clientVars  == <<loop, call>>
handlerVars == <<pc, token>>
trackerVars == <<requests, lastSeen, usedAt, accepted, early>>
cleanVars   == <<cleaner, sweepTime, nextCleanup>>
vars == <<now, tokenVars, clientVars, handlerVars, trackerVars, cleanVars,
          restarts>>

PCs == {"idle", "sent", "nonce", "verify", "record", "ok", "refused"}

TypeOK ==
  /\ now \in Time
  /\ requests \in [IPs -> Seq(Time)]
  /\ issued \in 0 .. MaxTokens
  /\ timestamp \in [Tokens -> Int]
  /\ owner \in [Tokens -> Peers \cup {NoPeer}]
  /\ \A k \in 1 .. issued : owner[k] \in Peers
  /\ authToken \in [Peers -> 0 .. issued]
  /\ loop \in [Peers -> {"retry", "waiting", "registered"}]
  /\ call \in [Peers -> Handlers \cup {NoHandler}]
  /\ pc \in [Handlers -> PCs]
  /\ token \in [Handlers -> 0 .. issued]
  /\ \A h \in Handlers : pc[h] = "idle" <=> token[h] = NoToken
  /\ lastSeen \in [Peers -> Time \cup {Never}]
  /\ usedAt \in [Tokens -> Time \cup {Never}]
  /\ cleaner \in {"waiting", "peers", "nonces"}
  /\ sweepTime \in Time
  /\ nextCleanup \in Nat
  /\ accepted \in [Tokens -> Nat]
  /\ early \subseteq Tokens
  /\ restarts \in 0 .. MaxRestarts

NothingSeen == [p \in Peers |-> Never]
NoneUsed    == [k \in Tokens |-> Never]
NoneTaken   == [k \in Tokens |-> 0]

Init ==
  /\ RateLimiterInit
  /\ issued = 0
  /\ timestamp = [k \in Tokens |-> 0]
  /\ owner = [k \in Tokens |-> NoPeer]
  /\ authToken = [p \in Peers |-> NoToken]
  /\ loop = [p \in Peers |-> "retry"]
  /\ call = [p \in Peers |-> NoHandler]
  /\ pc = [h \in Handlers |-> "idle"]
  /\ token = [h \in Handlers |-> NoToken]
  /\ lastSeen = NothingSeen
  /\ usedAt = NoneUsed
  /\ accepted = NoneTaken
  /\ early = {}
  /\ cleaner = "waiting"
  /\ sweepTime = 0
  /\ nextCleanup = PeerCleanupInterval
  /\ restarts = 0

-----------------------------------------------------------------------------
(* The peer *)

Clock(p) == now + Ahead[p]

(* A time is cut to the whole second when it is written into a token or
   compared with one. *)
Unix(t) == t - (t % Second)

(* The cached token is used until it is about to expire by the peer's own   *)
(* clock.                                                                  *)
TokenIsFresh(p) ==
  /\ authToken[p] # NoToken
  /\ timestamp[authToken[p]] + TokenExpiration - Clock(p)
       > TokenRefreshThreshold

(* k is the token getAuthData returns. *)
AuthData(p, k) ==
  \/ /\ TokenIsFresh(p)
     /\ k = authToken[p]
     /\ UNCHANGED tokenVars
  \/ /\ ~TokenIsFresh(p)
     /\ issued < MaxTokens
     /\ k = issued + 1
     /\ issued' = k
     /\ timestamp' = [timestamp EXCEPT ![k] = Unix(Clock(p))]
     /\ owner' = [owner EXCEPT ![k] = p]
     /\ authToken' = [authToken EXCEPT ![p] = k]

(* Handshakes and transfers ask for the token too. *)
GetAuthData(p) ==
  /\ ~TokenIsFresh(p)
  /\ \E k \in Tokens : AuthData(p, k)
  /\ UNCHANGED <<now, clientVars, handlerVars, trackerVars, cleanVars, restarts>>

(* the request carries the token that was cached before *)
BugPost(p, h) ==
  /\ pc[h] = "idle"
  /\ \E k \in Tokens : AuthData(p, k)
  /\ token' = [token EXCEPT ![h] = authToken[p]]
  /\ pc' = [pc EXCEPT ![h] = "sent"]
  /\ UNCHANGED <<now, trackerVars, cleanVars, restarts>>

(* A POST of /register by p, to be served by h. *)
Post(p, h) ==
  /\ pc[h] = "idle"
  /\ \E k \in Tokens : AuthData(p, k) /\ token' = [token EXCEPT ![h] = k]
  /\ pc' = [pc EXCEPT ![h] = "sent"]
  /\ UNCHANGED <<now, trackerVars, cleanVars, restarts>>

(* One attempt of the registration loop, at the start or after the delay. *)
Register(p, h) ==
  /\ loop[p] = "retry"
  /\ Post(p, h)
  /\ loop' = [loop EXCEPT ![p] = "waiting"]
  /\ call' = [call EXCEPT ![p] = h]

(* A connection made by the user refreshes the registration once; what the
   tracker answers is only logged. *)
RefreshTrackerRegistration(p, h) ==
  /\ Post(p, h)
  /\ UNCHANGED clientVars

(* The attempt fails or its context expires; the request may live on. *)
Timeout(p) ==
  /\ loop[p] = "waiting"
  /\ loop' = [loop EXCEPT ![p] = "retry"]
  /\ call' = [call EXCEPT ![p] = NoHandler]
  /\ UNCHANGED <<now, tokenVars, handlerVars, trackerVars, cleanVars, restarts>>

(* The daemon of a peer is started again, without its cached token. *)
PeerRestart(p) ==
  /\ loop' = [loop EXCEPT ![p] = "retry"]
  /\ call' = [call EXCEPT ![p] = NoHandler]
  /\ authToken' = [authToken EXCEPT ![p] = NoToken]
  /\ UNCHANGED <<now, issued, timestamp, owner, handlerVars, trackerVars,
                 cleanVars, restarts>>

-----------------------------------------------------------------------------
(* The tracker *)

Goto(h, from, to) == pc[h] = from /\ pc' = [pc EXCEPT ![h] = to]

Sender(h) == owner[token[h]]

AuthRequired == TrustedKeys # {}

(* The rate limit, then the checks of the request that read no shared state *)
Arrive(h) ==
  /\ \/ /\ Goto(h, "sent", "refused")
        /\ ~Allowed(Ip[Sender(h)])
        /\ UNCHANGED requests
     \/ /\ Goto(h, "sent", IF Sender(h) \notin WellAddressed THEN "refused"
                           ELSE IF AuthRequired THEN "nonce" ELSE "record")
        /\ Allow(Ip[Sender(h)])
  /\ UNCHANGED <<now, tokenVars, clientVars, token, lastSeen, usedAt, accepted,
                 early, cleanVars, restarts>>

PublicKey(k) == Key[owner[k]]

(* a nonce that is fresh is taken for a token that was verified *)
BugFreshIsVerified(h) ==
  /\ \/ /\ Goto(h, "nonce", "refused")
        /\ usedAt[token[h]] # Never
        /\ UNCHANGED <<usedAt, early>>
     \/ /\ Goto(h, "nonce", "record")
        /\ usedAt[token[h]] = Never
        /\ usedAt' = [usedAt EXCEPT ![token[h]] = now]
        /\ UNCHANGED early
  /\ UNCHANGED <<now, tokenVars, clientVars, token, requests, lastSeen,
                 accepted, cleanVars, restarts>>

(* isNonceValid marks the nonce as used before the token is verified. *)
IsNonceValid(h) ==
  /\ \/ /\ Goto(h, "nonce", "refused")
        /\ usedAt[token[h]] # Never
        /\ UNCHANGED <<usedAt, early>>
     \/ /\ Goto(h, "nonce", "verify")
        /\ usedAt[token[h]] = Never
        /\ usedAt' = [usedAt EXCEPT ![token[h]] = now]
        /\ early' = early \cup
                      {k \in {token[h]} : Unix(now) <= timestamp[k]}
  /\ UNCHANGED <<now, tokenVars, clientVars, token, requests, lastSeen,
                 accepted, cleanVars, restarts>>

(* the token's expiry is not looked at *)
BugVerifyToken(k) == timestamp[k] <= Unix(now) + TokenFutureTolerance

VerifyToken(k) ==
  /\ Unix(now) <= timestamp[k] + TokenExpiration
  /\ timestamp[k] <= Unix(now) + TokenFutureTolerance

(* The trust is in the key alone.  Which peer the token names is covered by
   its signature and compared with the request, not with the key. *)
IsTrusted(k) == PublicKey(k) \in TrustedKeys

VerifyAndCheckTrust(h) ==
  LET k == token[h]
  IN /\ \/ /\ Goto(h, "verify", "refused")
           /\ ~(IsTrusted(k) /\ VerifyToken(k))
           /\ UNCHANGED accepted
        \/ /\ Goto(h, "verify", "record")
           /\ IsTrusted(k) /\ VerifyToken(k)
           /\ accepted' = [accepted EXCEPT ![k] = @ + 1]
     /\ UNCHANGED <<now, tokenVars, clientVars, token, requests, lastSeen,
                    usedAt, early, cleanVars, restarts>>

Registered == {p \in Peers : lastSeen[p] # Never}

(* the registry may grow to one more than the maximum *)
BugFull(p) == p \notin Registered /\ Cardinality(Registered) > MaxPeers

Full(p) == p \notin Registered /\ Cardinality(Registered) >= MaxPeers

(* The section under mu: a peer that is new is refused if the registry is
   full, and otherwise its record is written with the current time. *)
Record(h) ==
  /\ \/ /\ Goto(h, "record", "refused")
        /\ Full(Sender(h))
        /\ UNCHANGED lastSeen
     \/ /\ Goto(h, "record", "ok")
        /\ ~Full(Sender(h))
        /\ lastSeen' = [lastSeen EXCEPT ![Sender(h)] = now]
  /\ UNCHANGED <<now, tokenVars, clientVars, token, requests, usedAt, accepted,
                 early, cleanVars, restarts>>

Finish(h) ==
  /\ pc' = [pc EXCEPT ![h] = "idle"]
  /\ token' = [token EXCEPT ![h] = NoToken]
  /\ call' = [p \in Peers |-> IF call[p] = h THEN NoHandler ELSE call[p]]
  /\ UNCHANGED <<now, tokenVars, trackerVars, cleanVars, restarts>>

(* The answer reaches the loop, if the loop still waits for it. *)
Reply(h) ==
  /\ pc[h] \in {"ok", "refused"}
  /\ loop' = [p \in Peers |->
                IF call[p] # h THEN loop[p]
                ELSE IF pc[h] = "ok" THEN "registered" ELSE "retry"]
  /\ Finish(h)

(* The request is lost on its way; the loop runs into its timeout. *)
Lose(h) ==
  /\ pc[h] = "sent"
  /\ Finish(h)
  /\ UNCHANGED loop

-----------------------------------------------------------------------------
(***************************************************************************)
(* The cleanup goroutine: when the ticker fires it reads the clock once,   *)
(* then sweeps the registry under mu and the nonces under nonceMu.         *)
(***************************************************************************)
CleanupOldPeers ==
  /\ cleaner = "waiting"
  /\ now >= nextCleanup
  /\ cleaner' = "peers"
  /\ sweepTime' = now
  /\ nextCleanup' = nextCleanup + PeerCleanupInterval
  /\ UNCHANGED <<now, tokenVars, clientVars, handlerVars, trackerVars, restarts>>

(* a peer is given less time than PeerTimeout *)
BugSweepPeers ==
  /\ cleaner = "peers"
  /\ cleaner' = "nonces"
  /\ lastSeen' = [p \in Peers |->
                    IF sweepTime - lastSeen[p] >= PeerTimeout
                    THEN Never ELSE lastSeen[p]]
  /\ UNCHANGED <<now, tokenVars, clientVars, handlerVars, requests, usedAt,
                 accepted, early, sweepTime, nextCleanup, restarts>>

(* a peer is removed only the second time it is found stale *)
BugSweepLate ==
  /\ cleaner = "peers"
  /\ cleaner' = "nonces"
  /\ lastSeen' = [p \in Peers |->
                    IF sweepTime - lastSeen[p]
                         > PeerTimeout + PeerCleanupInterval
                    THEN Never ELSE lastSeen[p]]
  /\ UNCHANGED <<now, tokenVars, clientVars, handlerVars, requests, usedAt,
                 accepted, early, sweepTime, nextCleanup, restarts>>

SweepPeers ==
  /\ cleaner = "peers"
  /\ cleaner' = "nonces"
  /\ lastSeen' = [p \in Peers |-> IF sweepTime - lastSeen[p] > PeerTimeout
                                  THEN Never ELSE lastSeen[p]]
  /\ UNCHANGED <<now, tokenVars, clientVars, handlerVars, requests, usedAt,
                 accepted, early, sweepTime, nextCleanup, restarts>>

CleanupOldNonces ==
  /\ cleaner = "nonces"
  /\ cleaner' = "waiting"
  /\ sweepTime' = 0
  /\ usedAt' = [k \in Tokens |-> IF sweepTime - usedAt[k] > NonceExpiry
                                 THEN Never ELSE usedAt[k]]
  /\ UNCHANGED <<now, tokenVars, clientVars, handlerVars, requests, lastSeen,
                 accepted, early, nextCleanup, restarts>>

(* The tracker keeps everything in memory; requests in progress are lost. *)
Restart ==
  /\ restarts < MaxRestarts
  /\ restarts' = restarts + 1
  /\ requests' = [ip \in IPs |-> <<>>]
  /\ lastSeen' = NothingSeen
  /\ usedAt' = NoneUsed
  /\ accepted' = NoneTaken
  /\ early' = {}
  /\ pc' = [h \in Handlers |-> "idle"]
  /\ token' = [h \in Handlers |-> NoToken]
  /\ call' = [p \in Peers |-> NoHandler]
  /\ cleaner' = "waiting"
  /\ sweepTime' = 0
  /\ nextCleanup' = now + PeerCleanupInterval
  /\ UNCHANGED <<now, tokenVars, loop>>

(* The goroutine of the cleanup is woken in the tick its ticker fires. *)
Tick ==
  /\ now < MaxTime
  /\ cleaner = "waiting" => now < nextCleanup
  /\ now' = now + 1
  /\ UNCHANGED <<tokenVars, clientVars, handlerVars, trackerVars, cleanVars,
                 restarts>>

PeerStep(p) ==
  \/ GetAuthData(p)
  \/ \E h \in Handlers : Register(p, h) \/ RefreshTrackerRegistration(p, h)
  \/ Timeout(p)
  \/ PeerRestart(p)

HandlerStep(h) ==
  \/ Arrive(h)
  \/ IsNonceValid(h)
  \/ VerifyAndCheckTrust(h)
  \/ Record(h)
  \/ Reply(h)
  \/ Lose(h)

CleanupStep == CleanupOldPeers \/ SweepPeers \/ CleanupOldNonces

Next ==
  \/ \E p \in Peers : PeerStep(p)
  \/ \E h \in Handlers : HandlerStep(h)
  \/ CleanupStep
  \/ Restart
  \/ Tick

Spec == Init /\ [][Next]_vars
-----------------------------------------------------------------------------
(* Properties *)

(***************************************************************************)
(* One run of the tracker accepts a token once at most (the comment on     *)
(* NonceExpiry in constants.go).                                           *)
(***************************************************************************)
TokenAcceptedOnce == \A k \in Tokens : accepted[k] <= 1

(***************************************************************************)
(* What the code keeps of that: a token is accepted again only if its      *)
(* nonce was entered early, before the second stamped on the token was     *)
(* over by the tracker's clock (because its owner's clock is ahead, or the *)
(* request took no time).  For every other token usedTokenNonces remembers *)
(* the nonce for as long as the token can be verified, although the nonce  *)
(* is entered before the token is verified and swept by a goroutine that   *)
(* does not know the token (isNonceValid, cleanupOldNonces, VerifyToken).  *)
(***************************************************************************)
OnlyEarlyTokensRepeat == \A k \in Tokens : accepted[k] > 1 => k \in early

(***************************************************************************)
(* A peer that no longer registers disappears: when the cleanup is idle    *)
(* and on time, no record is older than the timeout and one interval.      *)
(***************************************************************************)
StaleBound ==
  cleaner = "waiting" /\ now <= nextCleanup =>
    \A p \in Registered :
      now - lastSeen[p] <= PeerTimeout + PeerCleanupInterval

(***************************************************************************)
(* However many handlers find the registry with a free place at the same   *)
(* time, it never holds more than MaxPeers peers; a peer that is in it     *)
(* does not count twice when it is renewed (handleRegisterPeer).           *)
(***************************************************************************)
RegistryBounded == Cardinality(Registered) <= MaxPeers

(***************************************************************************)
(* A record never disappears too early: one that is removed has not been   *)
(* renewed for longer than the timeout, even if it was renewed while the   *)
(* cleanup waited for mu with the time it had read before; or the tracker  *)
(* was restarted.                                                          *)
(***************************************************************************)
OnlyStalePeersExpire ==
  [][\A p \in Peers :
       lastSeen[p] # Never /\ lastSeen'[p] = Never =>
         now - lastSeen[p] > PeerTimeout \/ restarts' # restarts]_vars

(***************************************************************************)
(* A peer whose loop has ended, because the answer it waited for was a     *)
(* success, is in the registry, and stays there while it runs (the         *)
(* comment on TrackerHeartbeatInterval).                                   *)
(***************************************************************************)
StaysRegistered == \A p \in Peers : loop[p] = "registered" => p \in Registered

(***************************************************************************)
(* Who is in the registry may be there: it advertised addresses the        *)
(* tracker accepts, and, if the tracker was given keys, this run of it has *)
(* accepted a token that names that very peer and is signed with a key it  *)
(* trusts.  (Nothing ties a key to a peer: everyone who has the secret of  *)
(* AUTH_SECRET signs with the same one.)  The sections of a handler that   *)
(* establish this come before the one that writes the record, and other    *)
(* handlers, the cleanup and restarts come in between.                     *)
(***************************************************************************)
OnlyVouchedForRegister ==
  \A p \in Registered :
    /\ p \in WellAddressed
    /\ AuthRequired =>
         \E k \in Tokens : owner[k] = p /\ IsTrusted(k) /\ accepted[k] > 0
=============================================================================
