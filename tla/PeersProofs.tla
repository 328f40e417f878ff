---------------------------- MODULE PeersProofs ----------------------------
(***************************************************************************)
(* The properties of Peers for any number of peers, workers, retries and   *)
(* stops: types, the peers on the disk, the limit, and that what is saved  *)
(* is dialled.                                                             *)
(***************************************************************************)
EXTENDS Peers, FiniteSetTheorems, TLAPS

\* What TypeOK needs to be inductive: a process that is not running has saved
\* nothing.
FreshWhenDown == ~Running => saved = {}

\* A worker that found its peer connected knows of a peer that was tried.
ConnectedWasTried ==
  /\ connected \subseteq tried
  /\ \A w \in Workers : ~At(w, "idle") /\ job[w].known => job[w].peer \in tried

LEMMA JobTypes ==
  ASSUME TypeOK, NEW w \in Workers, ~At(w, "idle")
  PROVE  /\ Running
         /\ job[w] \in [step : Steps, peer : PeerIDs, skip : BOOLEAN, known : BOOLEAN,
                        left : 1..MaxRetries, snap : SUBSET PeerIDs]
         /\ job[w].peer \in PeerIDs /\ job[w].snap \subseteq PeerIDs
         /\ job[w].left \in 1..MaxRetries
         /\ job[w].skip \in BOOLEAN /\ job[w].known \in BOOLEAN
<1>1. job[w] # Idle
  BY DEF At, Idle
<1>2. job[w] \in [step : Steps, peer : PeerIDs, skip : BOOLEAN, known : BOOLEAN,
                  left : 1..MaxRetries, snap : SUBSET PeerIDs]
  BY <1>1 DEF TypeOK, Jobs
<1>3. Running
  BY DEF TypeOK
<1> QED BY <1>2, <1>3

LEMMA Types == Spec => [](TypeOK /\ FreshWhenDown)
<1> DEFINE Inv == TypeOK /\ FreshWhenDown
<1>1. Init => Inv
  BY DEF Init, TypeOK, FreshWhenDown, Phases, Running, Jobs, Permanent, At, Idle
<1>2. Inv /\ [Next]_vars => Inv'
  <2> SUFFICES ASSUME TypeOK, FreshWhenDown, [Next]_vars
               PROVE  TypeOK' /\ FreshWhenDown'
    OBVIOUS
  <2> USE PeersAssumption
  <2>1. CASE NewNetwork
    BY <2>1 DEF NewNetwork, TypeOK, FreshWhenDown, Phases, Running, Permanent, At
  <2>2. CASE Start \/ StartUnread
    BY <2>2 DEF Start, StartUnread, TypeOK, FreshWhenDown, Phases, Running, Permanent, At
  <2>3. CASE InitDHT
    BY <2>3 DEF InitDHT, TypeOK, FreshWhenDown, Phases, Running, Permanent, At
  <2>4. CASE GoDown
    BY <2>4 DEF GoDown, TypeOK, FreshWhenDown, Phases, Running, Permanent, At, Jobs, Idle
  <2>5. ASSUME NEW w \in Workers, NEW p \in PeerIDs, NEW s \in {"check", "bootstrap"},
               NEW skip \in BOOLEAN, Begin(w, s, p, skip)
        PROVE  TypeOK' /\ FreshWhenDown'
    BY <2>5 DEF Begin, TypeOK, FreshWhenDown, Phases, Running, Permanent, At, Jobs, Idle, Steps
  <2>6. ASSUME NEW w \in Workers, Step(w)
        PROVE  TypeOK' /\ FreshWhenDown'
    <3> USE DEF TypeOK, FreshWhenDown, Phases, Running, Permanent
    <3>1. ~At(w, "idle")
      BY <2>6 DEF Step, Check, AddAddrs, Snapshot, Write, ConnectOnce, ConnectBootstrap,
        AlreadyConnected, ConnectWithRetry, At
    <3>2. Running /\ UNCHANGED <<phase, stops>>
      BY <2>6, <3>1 DEF Step, Check, AddAddrs, Snapshot, Write, ConnectOnce, Reach, Miss,
        ConnectBootstrap, AlreadyConnected, ConnectWithRetry
    <3>3. job' \in [Workers -> Jobs]
      <4> HIDE DEF Running, Permanent, Phases
      <4>1. Idle \in Jobs
        BY DEF Jobs
      <4>2. \A v \in Workers : job[v] \in Jobs
        OBVIOUS
      <4>3. ASSUME Finish(w)
            PROVE  job' \in [Workers -> Jobs]
        BY <4>1, <4>3 DEF Finish
      <4>4. ASSUME NEW s \in Steps, To(w, s)
            PROVE  job' \in [Workers -> Jobs]
        BY <4>4, <3>1, JobTypes DEF To, Jobs
      <4>5. CASE Check(w)
        BY <4>5, <4>3, <4>4, <3>1, JobTypes DEF Check, Afterwards, Steps, Jobs
      <4>6. CASE AddAddrs(w) \/ Write(w) \/ ConnectOnce(w) \/ ConnectBootstrap(w)
              \/ AlreadyConnected(w)
        BY <4>6, <4>3, <4>4 DEF AddAddrs, Write, ConnectOnce, ConnectBootstrap,
          AlreadyConnected, Afterwards, Steps
      <4>7. CASE Snapshot(w)
        BY <4>7, <3>1, JobTypes DEF Snapshot, Addressed, Steps, Jobs
      <4>8. CASE ConnectWithRetry(w)
        BY <4>8, <4>3, <3>1, JobTypes DEF ConnectWithRetry, Jobs
      <4> QED BY <2>6, <4>5, <4>6, <4>7, <4>8 DEF Step
    <3>4. store' \in [PeerIDs -> {"unknown", "temporary", "permanent", "expired"}]
          /\ connected' \subseteq PeerIDs /\ tried' \subseteq PeerIDs
      BY <2>6, <3>1, JobTypes DEF Step, Check, AddAddrs, Snapshot, Write, ConnectOnce, Reach, Miss,
        ConnectBootstrap, AlreadyConnected, ConnectWithRetry, WithTemporary
    <3>5. file' \subseteq PeerIDs
      BY <2>6, <3>1, JobTypes DEF Step, Check, AddAddrs, Snapshot, Write, ConnectOnce, Reach, Miss,
        ConnectBootstrap, AlreadyConnected, ConnectWithRetry
    <3>6. saved' \subseteq Permanent'
      BY <2>6, <3>1, JobTypes DEF Step, Check, AddAddrs, Snapshot, Write, ConnectOnce, Reach, Miss,
        ConnectBootstrap, AlreadyConnected, ConnectWithRetry, WithTemporary
    <3> QED BY <3>2, <3>3, <3>4, <3>5, <3>6
  <2>7. ASSUME NEW p \in PeerIDs,
               InboundConnection(p) \/ Connect(p) \/ Disconnection(p) \/ Expire(p) \/ SeedDHT(p)
        PROVE  TypeOK' /\ FreshWhenDown'
    BY <2>7 DEF InboundConnection, Connect, Disconnection, Expire, SeedDHT, WithTemporary,
      TypeOK, FreshWhenDown, Phases, Running, Permanent, At
  <2>8. CASE UNCHANGED vars
    BY <2>8 DEF vars, TypeOK, FreshWhenDown, Phases, Running, Permanent, At
  <2> QED
    BY <2>1, <2>2, <2>3, <2>4, <2>5, <2>6, <2>7, <2>8
    DEF Next, Stop, EarlyConnection, Find, FromTracker, FromMDNS, FromDHT, AddBootstrapPeer
<1> QED BY <1>1, <1>2, PTL DEF Spec

(* Every variable of Peers keeps its type, and only a running process has
   workers and peers it has saved. *)
THEOREM TypeCorrect == Spec => []TypeOK
BY Types, PTL

-----------------------------------------------------------------------------
(* A peer that is on the disk, and in every save that is under way, stays
   there unless a daemon cannot read the file when it starts: what Snapshot
   copies contains all that is permanent, and nothing but the end of the
   process takes a permanent peer away. *)
THEOREM SafeStaysSafe == Spec => OnceSafeAlwaysSafe
<1>1. TypeOK /\ [Next]_vars => Safe \subseteq Safe' \/ StartUnread
  <2> SUFFICES ASSUME TypeOK, [Next]_vars, ~StartUnread, NEW p \in Safe
               PROVE  p \in Safe'
    OBVIOUS
  <2> DEFINE Kept == Running => p \in Permanent
             InSaves == \A w \in Workers : At(w, "write") => p \in job[w].snap
  <2>0. p \in file /\ p \in PeerIDs /\ Kept /\ InSaves
    BY DEF Safe, TypeOK
  <2> SUFFICES p \in file' /\ Kept' /\ InSaves'
    BY DEF Safe
  <2> USE <2>0
  <2>1. CASE NewNetwork
    BY <2>1 DEF NewNetwork, Running, At
  <2>2. CASE Start
    BY <2>2 DEF Start, Running, Permanent, At
  <2>3. CASE InitDHT
    BY <2>3 DEF InitDHT, Running, Permanent, At
  <2>4. CASE GoDown
    BY <2>4 DEF GoDown, Running, At, Idle
  <2>5. ASSUME NEW w \in Workers, NEW q \in PeerIDs, NEW s \in {"check", "bootstrap"},
               NEW skip \in BOOLEAN, Begin(w, s, q, skip)
        PROVE  p \in file' /\ Kept' /\ InSaves'
    BY <2>5 DEF Begin, Running, Permanent, At, TypeOK
  <2>6. ASSUME NEW w \in Workers, Step(w)
        PROVE  p \in file' /\ Kept' /\ InSaves'
    <3>1. ~At(w, "idle")
      BY <2>6 DEF Step, Check, AddAddrs, Snapshot, Write, ConnectOnce, ConnectBootstrap,
        AlreadyConnected, ConnectWithRetry, At
    <3>2. Running /\ p \in Permanent /\ phase' = phase
      BY <2>6, <3>1, JobTypes DEF Step, Check, AddAddrs, Snapshot, Write, ConnectOnce, Reach, Miss,
        ConnectBootstrap, AlreadyConnected, ConnectWithRetry
    <3>3. Kept'
      BY <2>6, <3>2, JobTypes, <3>1 DEF Step, Check, AddAddrs, Snapshot, Write, ConnectOnce, Reach,
        Miss, ConnectBootstrap, AlreadyConnected, ConnectWithRetry, WithTemporary, Permanent, TypeOK
    <3>4. p \in file'
      BY <2>6 DEF Step, Check, AddAddrs, Snapshot, Write, ConnectOnce, Reach, Miss,
        ConnectBootstrap, AlreadyConnected, ConnectWithRetry
    <3>5. InSaves'
      <4>1. \A v \in Workers : v # w => job'[v] = job[v]
        BY <2>6 DEF Step, Check, AddAddrs, Snapshot, Write, ConnectOnce, ConnectBootstrap,
          AlreadyConnected, ConnectWithRetry, Afterwards, To, Finish, TypeOK
      <4>2. CASE Snapshot(w)
        BY <4>1, <4>2, <3>2 DEF Snapshot, TypeOK, At, Addressed, Permanent
      <4>3. CASE ~Snapshot(w)
        <5> SUFFICES job'[w].step # "write"
          BY <4>1 DEF At
        <5>0. /\ job \in [Workers -> Jobs]
              /\ job[w] \in [step : Steps, peer : PeerIDs, skip : BOOLEAN, known : BOOLEAN,
                             left : 1..MaxRetries, snap : SUBSET PeerIDs]
          BY <3>1, JobTypes DEF TypeOK
        <5>1. ASSUME NEW t \in Steps \ {"write"}, To(w, t)
              PROVE  job'[w].step # "write"
          BY <5>0, <5>1 DEF To
        <5>2. ASSUME Finish(w)
              PROVE  job'[w].step # "write"
          BY <5>0, <5>2 DEF Finish, Idle
        <5>3. CASE Check(w)
          BY <5>0, <5>1, <5>2, <5>3 DEF Check, Afterwards, Steps
        <5>4. CASE ConnectWithRetry(w)
          BY <5>0, <5>2, <5>4 DEF ConnectWithRetry, At
        <5>5. CASE AddAddrs(w) \/ Write(w) \/ ConnectOnce(w) \/ ConnectBootstrap(w)
                \/ AlreadyConnected(w)
          BY <5>1, <5>2, <5>5 DEF AddAddrs, Write, ConnectOnce, ConnectBootstrap,
            AlreadyConnected, Afterwards, Steps
        <5> QED BY <2>6, <4>3, <5>3, <5>4, <5>5 DEF Step
      <4> QED BY <4>2, <4>3
    <3> QED BY <3>3, <3>4, <3>5
  <2>7. ASSUME NEW q \in PeerIDs,
               InboundConnection(q) \/ Connect(q) \/ Disconnection(q) \/ Expire(q) \/ SeedDHT(q)
        PROVE  p \in file' /\ Kept' /\ InSaves'
    BY <2>7 DEF InboundConnection, Connect, Disconnection, Expire, SeedDHT, WithTemporary,
      Running, Permanent, At, TypeOK
  <2>8. CASE UNCHANGED vars
    BY <2>8 DEF vars, Running, Permanent, At
  <2> QED
    BY <2>1, <2>2, <2>3, <2>4, <2>5, <2>6, <2>7, <2>8
    DEF Next, Stop, EarlyConnection, Find, FromTracker, FromMDNS, FromDHT, AddBootstrapPeer
<1> QED BY <1>1, Types, PTL DEF Spec, OnceSafeAlwaysSafe

-----------------------------------------------------------------------------
(* A worker that is about to add its peer has a place that counts. *)
Adders == {w \in Workers : At(w, "add")}

LimitInv ==
  Cardinality(saved) + Cardinality(Adders)
    <= (MaxPeers - 1) + (Cardinality(Workers) - 1)

Counts ==
  /\ IsFiniteSet(Known) /\ IsFiniteSet(saved) /\ IsFiniteSet(Adders)
  /\ Cardinality(saved) \in Nat /\ Cardinality(Known) \in Nat
  /\ Cardinality(saved) <= Cardinality(Known)
  /\ Cardinality(Adders) \in Nat /\ Cardinality(Workers) \in Nat \ {0}

LEMMA Finite == TypeOK => Counts
<1> SUFFICES ASSUME TypeOK PROVE Counts
  OBVIOUS
<1>1. Known \subseteq PeerIDs /\ saved \subseteq Known /\ Adders \subseteq Workers
  BY DEF TypeOK, Known, Permanent, Adders
<1>2. IsFiniteSet(Known) /\ IsFiniteSet(saved) /\ IsFiniteSet(Adders)
  BY <1>1, FS_Subset, PeersAssumption
<1>3. Cardinality(saved) <= Cardinality(Known)
  BY <1>1, <1>2, FS_Subset
<1>4. Cardinality(Workers) \in Nat /\ Cardinality(Workers) # 0
  BY FS_CardinalityType, FS_EmptySet, PeersAssumption
<1> QED BY <1>1, <1>2, <1>3, <1>4, FS_CardinalityType DEF Counts

LEMMA OtherJobs ==
  ASSUME TypeOK, NEW w \in Workers, Step(w)
  PROVE  /\ ~At(w, "idle")
         /\ \A v \in Workers : v # w => job'[v] = job[v]
<1>1. ~At(w, "idle")
  BY DEF Step, Check, AddAddrs, Snapshot, Write, ConnectOnce, ConnectBootstrap,
    AlreadyConnected, ConnectWithRetry, At
<1>2. \A v \in Workers : v # w => job'[v] = job[v]
  BY DEF Step, Check, AddAddrs, Snapshot, Write, ConnectOnce, ConnectBootstrap,
    AlreadyConnected, ConnectWithRetry, Afterwards, To, Finish, TypeOK
<1> QED BY <1>1, <1>2

(* However many sources find peers, and however often, the peers that are
   saved pass the limit by less than the number of workers: each of them checks
   the limit, and at most the others are past that check. *)
THEOREM LimitHolds == Spec => []SavedWithinLimit
<1>1. Init => LimitInv
  <2> SUFFICES ASSUME Init PROVE LimitInv
    OBVIOUS
  <2>1. saved = {} /\ Adders = {}
    BY DEF Init, Adders, At, Idle
  <2>2. Cardinality(Workers) \in Nat /\ Cardinality(Workers) # 0
    BY FS_CardinalityType, FS_EmptySet, PeersAssumption
  <2> QED BY <2>1, <2>2, FS_EmptySet, PeersAssumption DEF LimitInv
<1>2. TypeOK /\ FreshWhenDown /\ TypeOK' /\ LimitInv /\ [Next]_vars => LimitInv'
  <2> SUFFICES ASSUME TypeOK, TypeOK', FreshWhenDown, LimitInv, [Next]_vars
               PROVE  LimitInv'
    OBVIOUS
  <2>0. Counts /\ Counts'
    BY Finite, PTL
  <2> USE PeersAssumption
  <2>1. ASSUME saved' \subseteq saved, Adders' \subseteq Adders
        PROVE  LimitInv'
    <3>1. Cardinality(saved') <= Cardinality(saved) /\ Cardinality(Adders') <= Cardinality(Adders)
      BY <2>0, <2>1, FS_Subset DEF Counts
    <3> QED BY <2>0, <3>1 DEF LimitInv, Counts
  <2>2. CASE NewNetwork \/ Start \/ StartUnread \/ InitDHT
    BY <2>1, <2>2 DEF NewNetwork, Start, StartUnread, InitDHT, Adders, At
  <2>3. CASE GoDown
    BY <2>1, <2>3 DEF GoDown, Adders, At, Idle, TypeOK
  <2>4. ASSUME NEW w \in Workers, NEW p \in PeerIDs, NEW s \in {"check", "bootstrap"},
               NEW skip \in BOOLEAN, Begin(w, s, p, skip)
        PROVE  LimitInv'
    BY <2>1, <2>4 DEF Begin, Adders, At, TypeOK
  <2>5. ASSUME NEW p \in PeerIDs,
               InboundConnection(p) \/ Connect(p) \/ Disconnection(p) \/ Expire(p) \/ SeedDHT(p)
        PROVE  LimitInv'
    BY <2>1, <2>5 DEF InboundConnection, Connect, Disconnection, Expire, SeedDHT, Adders, At
  <2>6. CASE UNCHANGED vars
    BY <2>1, <2>6 DEF vars, Adders, At
  <2>7. ASSUME NEW w \in Workers, Step(w)
        PROVE  LimitInv'
    <3>1. /\ ~At(w, "idle")
          /\ \A v \in Workers : v # w => job'[v] = job[v]
      BY <2>7, OtherJobs
    <3>2. Adders' \subseteq Adders \cup {w} /\ Adders \subseteq Adders' \cup {w}
      BY <3>1 DEF Adders, At
    <3>3. CASE AddAddrs(w)
      <4>1. w \in Adders /\ w \notin Adders'
        BY <3>3 DEF AddAddrs, Adders, At, To, TypeOK
      <4>2. Adders' = Adders \ {w} /\ saved' = saved \cup {job[w].peer}
        BY <3>2, <3>3, <4>1 DEF AddAddrs
      <4>3. Cardinality(Adders') = Cardinality(Adders) - 1
        BY <2>0, <4>1, <4>2, FS_RemoveElement DEF Counts
      <4>4. Cardinality(saved') <= Cardinality(saved) + 1
        <5> DEFINE p == job[w].peer
        <5>1. Cardinality(saved \cup {p}) <= Cardinality(saved) + 1
          <6>1. Cardinality(saved \cup {p})
                  = IF p \in saved THEN Cardinality(saved) ELSE Cardinality(saved) + 1
            BY <2>0, FS_AddElement, Zenon DEF Counts
          <6>2. Cardinality(saved) \in Nat
            BY <2>0 DEF Counts
          <6> QED BY <6>1, <6>2
        <5> QED BY <4>2, <5>1
      <4> QED BY <2>0, <4>3, <4>4 DEF LimitInv, Counts
    <3>4. CASE Check(w) /\ w \in Adders'
      <4>1. ~Full /\ saved' = saved
        <5>1. ASSUME Afterwards(w)
              PROVE  w \notin Adders'
          BY <5>1, <3>1, JobTypes DEF Afterwards, To, Finish, Idle, Adders, At, TypeOK
        <5> QED BY <3>4, <5>1 DEF Check
      <4>2. Cardinality(saved) <= MaxPeers - 2
        BY <2>0, <4>1 DEF Full, Counts
      <4>3. Cardinality(Adders') <= Cardinality(Workers)
        BY FS_Subset DEF Adders
      <4> QED BY <2>0, <4>1, <4>2, <4>3 DEF LimitInv, Counts
    <3>5. CASE Check(w) /\ w \notin Adders'
      BY <2>1, <3>2, <3>5 DEF Check
    <3>6. CASE Snapshot(w) \/ Write(w) \/ ConnectOnce(w) \/ ConnectBootstrap(w)
            \/ AlreadyConnected(w) \/ ConnectWithRetry(w)
      <4>1. saved' = saved
        BY <3>6 DEF Snapshot, Write, ConnectOnce, ConnectBootstrap, AlreadyConnected,
          ConnectWithRetry, Reach, Miss
      <4>2. w \notin Adders'
        <5> USE DEF TypeOK, Adders, At
        <5>1. ASSUME NEW t \in Steps \ {"add"}, To(w, t)
              PROVE  w \notin Adders'
          BY <5>1, <3>1, JobTypes DEF To
        <5>2. ASSUME Finish(w)
              PROVE  w \notin Adders'
          BY <5>2 DEF Finish, Idle
        <5>3. ASSUME Snapshot(w)
              PROVE  w \notin Adders'
          BY <5>3 DEF Snapshot
        <5>4. ASSUME ConnectWithRetry(w)
              PROVE  w \notin Adders'
          BY <5>2, <5>4, <3>1, JobTypes DEF ConnectWithRetry
        <5> QED BY <3>6, <5>1, <5>2, <5>3, <5>4 DEF Write, ConnectOnce, ConnectBootstrap,
          AlreadyConnected, Afterwards, Steps
      <4> QED BY <2>1, <3>2, <4>1, <4>2
    <3> QED BY <2>7, <3>3, <3>4, <3>5, <3>6 DEF Step
  <2> QED
    BY <2>2, <2>3, <2>4, <2>5, <2>6, <2>7
    DEF Next, Stop, EarlyConnection, Find, FromTracker, FromMDNS, FromDHT, AddBootstrapPeer
<1>3. TypeOK /\ LimitInv => SavedWithinLimit
  BY Finite, PeersAssumption DEF LimitInv, SavedWithinLimit, Counts
<1> QED BY <1>1, <1>2, <1>3, Types, PTL DEF Spec

-----------------------------------------------------------------------------
Trying(w, p) ==
  job[w].step \in {"snapshot", "write", "connect", "dial"} /\ job[w].peer = p

LEMMA ConnectedTried ==
  TypeOK /\ ConnectedWasTried /\ [Next]_vars => ConnectedWasTried'
<1> SUFFICES ASSUME TypeOK, ConnectedWasTried, [Next]_vars
             PROVE  ConnectedWasTried'
  OBVIOUS
<1> USE DEF ConnectedWasTried
<1>1. CASE NewNetwork \/ Start \/ StartUnread \/ InitDHT \/ GoDown
  BY <1>1 DEF NewNetwork, Start, StartUnread, InitDHT, GoDown, At, Idle
<1>2. ASSUME NEW w \in Workers, NEW p \in PeerIDs, NEW s \in {"check", "bootstrap"},
             NEW skip \in BOOLEAN, Begin(w, s, p, skip)
      PROVE  ConnectedWasTried'
  BY <1>2 DEF Begin, At, TypeOK
<1>3. ASSUME NEW p \in PeerIDs,
             InboundConnection(p) \/ Connect(p) \/ Disconnection(p) \/ Expire(p) \/ SeedDHT(p)
      PROVE  ConnectedWasTried'
  BY <1>3 DEF InboundConnection, Connect, Disconnection, Expire, SeedDHT, At
<1>4. CASE UNCHANGED vars
  BY <1>4 DEF vars, At
<1>5. ASSUME NEW w \in Workers, Step(w)
      PROVE  ConnectedWasTried'
  <2>1. /\ ~At(w, "idle")
        /\ \A v \in Workers : v # w => job'[v] = job[v]
    BY <1>5, OtherJobs
  <2>2. connected' \subseteq tried' /\ tried \subseteq tried'
    BY <1>5 DEF Step, Check, AddAddrs, Snapshot, Write, ConnectOnce, Reach, Miss,
      ConnectBootstrap, AlreadyConnected, ConnectWithRetry
  <2>3. ~At(w, "idle")' /\ job'[w].known => job'[w].peer \in tried'
    <3> DEFINE Good == ~At(w, "idle")' /\ job'[w].known => job'[w].peer \in tried
    <3> SUFFICES Good
      BY <2>2
    <3> USE <2>1 DEF TypeOK, At
    <3>1. ASSUME NEW t \in Steps, To(w, t)
          PROVE  Good
      BY <3>1, JobTypes DEF To
    <3>2. ASSUME Finish(w)
          PROVE  Good
      BY <3>2 DEF Finish, Idle
    <3>3. ASSUME Check(w)
          PROVE  Good
      <4>1. CASE Afterwards(w)
        BY <4>1, <3>1, <3>2 DEF Afterwards, Steps
      <4>2. CASE job' = [job EXCEPT ![w].step = "add", ![w].known = job[w].peer \in connected]
        BY <4>2, JobTypes
      <4> QED BY <3>3, <4>1, <4>2 DEF Check
    <3>4. ASSUME Snapshot(w)
          PROVE  Good
      BY <3>4, JobTypes DEF Snapshot
    <3>5. ASSUME ConnectWithRetry(w)
          PROVE  Good
      BY <3>2, <3>5, JobTypes DEF ConnectWithRetry
    <3> QED BY <1>5, <3>1, <3>2, <3>3, <3>4, <3>5 DEF Step, AddAddrs, Write, ConnectOnce,
      ConnectBootstrap, AlreadyConnected, Afterwards, Steps
  <2> QED BY <2>1, <2>2, <2>3 DEF At
<1> QED
  BY <1>1, <1>2, <1>3, <1>4, <1>5
  DEF Next, Stop, EarlyConnection, Find, FromTracker, FromMDNS, FromDHT, AddBootstrapPeer

(* A worker lets go of a peer it has saved only when that peer was tried: it
   dials it, or finds it connected, or found it connected before it saved it. *)
THEOREM SavedTried == Spec => []SavedIsTried
<1>1. Init => ConnectedWasTried /\ SavedIsTried
  BY DEF Init, ConnectedWasTried, SavedIsTried, At, Idle
<1>2. TypeOK /\ ConnectedWasTried /\ SavedIsTried /\ [Next]_vars => SavedIsTried'
  <2> SUFFICES ASSUME TypeOK, ConnectedWasTried, SavedIsTried, [Next]_vars,
                      NEW p \in saved'
               PROVE  p \in tried' \/ \E w \in Workers : Trying(w, p)'
    BY DEF SavedIsTried, Trying
  <2> DEFINE Goal == p \in tried' \/ \E w \in Workers : Trying(w, p)'
  <2>0. p \in saved => p \in tried \/ \E w \in Workers : Trying(w, p)
    BY DEF SavedIsTried, Trying
  <2>1. CASE NewNetwork \/ Start \/ StartUnread \/ InitDHT \/ GoDown
    BY <2>0, <2>1 DEF NewNetwork, Start, StartUnread, InitDHT, GoDown, Trying
  <2>2. ASSUME NEW w \in Workers, NEW q \in PeerIDs, NEW s \in {"check", "bootstrap"},
               NEW skip \in BOOLEAN, Begin(w, s, q, skip)
        PROVE  Goal
    <3>1. p \in saved /\ tried' = tried /\ At(w, "idle")
          /\ \A v \in Workers : v # w => job'[v] = job[v]
      BY <2>2 DEF Begin, TypeOK
    <3> QED BY <2>0, <3>1 DEF Trying, At
  <2>3. ASSUME NEW q \in PeerIDs,
               InboundConnection(q) \/ Connect(q) \/ Disconnection(q) \/ Expire(q) \/ SeedDHT(q)
        PROVE  Goal
    BY <2>0, <2>3 DEF InboundConnection, Connect, Disconnection, Expire, SeedDHT, Trying
  <2>4. CASE UNCHANGED vars
    BY <2>0, <2>4 DEF vars, Trying
  <2>5. ASSUME NEW w \in Workers, Step(w)
        PROVE  Goal
    <3>1. /\ ~At(w, "idle")
          /\ \A v \in Workers : v # w => job'[v] = job[v]
      BY <2>5, OtherJobs
    <3>2. tried \subseteq tried'
      BY <2>5 DEF Step, Check, AddAddrs, Snapshot, Write, ConnectOnce, Reach, Miss,
        ConnectBootstrap, AlreadyConnected, ConnectWithRetry
    <3>3. CASE p \in tried \/ \E v \in Workers : v # w /\ Trying(v, p)
      BY <3>1, <3>2, <3>3 DEF Trying
    <3>4. CASE AddAddrs(w) /\ p = job[w].peer
      BY <3>1, <3>4, JobTypes DEF AddAddrs, To, Trying, TypeOK
    <3>5. CASE Trying(w, p)
      <4>1. job[w].peer = p /\ ~At(w, "check") /\ ~At(w, "add") /\ ~At(w, "bootstrap")
        BY <3>5 DEF Trying, At
      <4>2. CASE Snapshot(w)
        BY <3>1, <4>1, <4>2, JobTypes DEF Snapshot, Trying, TypeOK
      <4>3. CASE Write(w)
        BY <3>1, <3>2, <4>1, <4>3, JobTypes
        DEF Write, Afterwards, To, Finish, Trying, TypeOK, ConnectedWasTried
      <4>4. CASE ConnectOnce(w) \/ ConnectWithRetry(w)
        BY <4>1, <4>4 DEF ConnectOnce, ConnectWithRetry, Reach, Miss
      <4>5. CASE AlreadyConnected(w)
        BY <3>2, <4>1, <4>5 DEF AlreadyConnected, ConnectedWasTried
      <4> QED BY <2>5, <4>1, <4>2, <4>3, <4>4, <4>5 DEF Step, Check, AddAddrs, ConnectBootstrap
    <3>6. p \in saved \/ (AddAddrs(w) /\ p = job[w].peer)
      BY <2>5 DEF Step, Check, AddAddrs, Snapshot, Write, ConnectOnce, Reach, Miss,
        ConnectBootstrap, AlreadyConnected, ConnectWithRetry
    <3> QED BY <2>0, <3>3, <3>4, <3>5, <3>6
  <2> QED
    BY <2>1, <2>2, <2>3, <2>4, <2>5
    DEF Next, Stop, EarlyConnection, Find, FromTracker, FromMDNS, FromDHT, AddBootstrapPeer
<1> QED BY <1>1, <1>2, ConnectedTried, Types, PTL DEF Spec

=============================================================================
