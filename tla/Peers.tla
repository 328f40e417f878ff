------------------------------- MODULE Peers -------------------------------
(***************************************************************************)
(* The peers a daemon knows (internal/discovery/manager.go): found through *)
(* the tracker, mDNS, the DHT or a user, written into the peerstore of     *)
(* libp2p, saved in peers.json (persistence.go), and dialled.  Each source *)
(* has goroutines of its own, and no lock spans more than one of the steps *)
(* below.  Nothing is saved when the daemon stops.                         *)
(***************************************************************************)
EXTENDS Naturals, FiniteSets

CONSTANTS
  PeerIDs,    \* other nodes
  Workers,    \* goroutines that handle a peer that was found
  MaxPeers,   \* max_peers of the configuration; the node itself counts
  MaxRetries,
  MaxStops    \* bound on stops and crashes

ASSUME PeersAssumption ==
  /\ IsFiniteSet(PeerIDs) /\ IsFiniteSet(Workers) /\ Workers # {}
  /\ MaxPeers \in Nat \ {0} /\ MaxRetries \in Nat \ {0} /\ MaxStops \in Nat

VARIABLES
  phase,     \* of the process
  store,     \* what the peerstore has of each peer, and for how long
  connected, \* peers with a connection
  file,      \* peers.json
  job,       \* what each worker does
  saved,     \* history: peers this process has added in savePeer
  tried,     \* history: peers this process has dialled or was connected to
  stops

vars == <<phase, store, connected, file, job, saved, tried, stops>>

Phases == {"down", "new", "discovering", "dht"}
Running == phase \in {"discovering", "dht"}

Known == {p \in PeerIDs : store[p] # "unknown"}
Addressed == {p \in PeerIDs : store[p] \in {"temporary", "permanent"}}
Permanent == {p \in PeerIDs : store[p] = "permanent"}

Idle == [step |-> "idle"]
At(w, s) == job[w].step = s
To(w, s) == job' = [job EXCEPT ![w].step = s]
Finish(w) == job' = [job EXCEPT ![w] = Idle]

\* what AddAddrs with a short lifetime makes of the peerstore
WithTemporary(p) ==
  [store EXCEPT ![p] = IF @ = "permanent" THEN @ ELSE "temporary"]

Init ==
  /\ phase = "down" /\ store = [p \in PeerIDs |-> "unknown"]
  /\ connected = {} /\ file = {}
  /\ job = [w \in Workers |-> Idle]
  /\ saved = {} /\ tried = {} /\ stops = 0

-----------------------------------------------------------------------------
(* The life of the process. *)

\* libp2p listens from here on
NewNetwork ==
  /\ phase = "down" /\ phase' = "new"
  /\ UNCHANGED <<store, connected, file, job, saved, tried, stops>>

BugStart ==
  /\ phase = "new" /\ phase' = "discovering"
  /\ store' = [p \in PeerIDs |-> IF p \in file THEN "temporary" ELSE store[p]]
  /\ UNCHANGED <<connected, file, job, saved, tried, stops>>

\* Start and loadPersistedPeers
Start ==
  /\ phase = "new" /\ phase' = "discovering"
  /\ store' = [p \in PeerIDs |-> IF p \in file THEN "permanent" ELSE store[p]]
  /\ UNCHANGED <<connected, file, job, saved, tried, stops>>

\* an error of Load is logged, and the daemon goes on with none of the peers:
\* the next save leaves them out
StartUnread ==
  /\ phase = "new" /\ phase' = "discovering"
  /\ UNCHANGED <<store, connected, file, job, saved, tried, stops>>

InitDHT ==
  /\ phase = "discovering" /\ phase' = "dht"
  /\ UNCHANGED <<store, connected, file, job, saved, tried, stops>>

GoDown ==
  /\ phase' = "down" /\ store' = [p \in PeerIDs |-> "unknown"]
  /\ connected' = {} /\ job' = [w \in Workers |-> Idle]
  /\ saved' = {} /\ tried' = {} /\ stops' = stops + 1
  /\ UNCHANGED file

Stop == phase # "down" /\ stops < MaxStops /\ GoDown

-----------------------------------------------------------------------------
(* libp2p: connections from elsewhere, losses, addresses that expire. *)

InboundConnection(p) ==
  /\ Running /\ p \notin connected
  /\ connected' = connected \cup {p} /\ tried' = tried \cup {p}
  /\ store' = WithTemporary(p)
  /\ UNCHANGED <<phase, file, job, saved, stops>>

\* by request of a user: dialled, and not saved
Connect(p) ==
  /\ Running /\ p \notin connected
  /\ connected' \in {connected, connected \cup {p}} /\ tried' = tried \cup {p}
  /\ store' = WithTemporary(p)
  /\ UNCHANGED <<phase, file, job, saved, stops>>

\* the map of connected peers is made in Start: before, the notification
\* writes to a nil map
EarlyConnection == phase = "new" /\ stops < MaxStops /\ GoDown

\* a loss, or a user's Disconnect
Disconnection(p) ==
  /\ connected' = connected \ {p} /\ p \in connected
  /\ UNCHANGED <<phase, store, file, job, saved, tried, stops>>

\* a peer whose key is known stays in the peerstore without addresses
Expire(p) ==
  /\ store[p] = "temporary" /\ p \notin connected
  /\ \E rest \in {"unknown", "expired"} : store' = [store EXCEPT ![p] = rest]
  /\ UNCHANGED <<phase, connected, file, job, saved, tried, stops>>

-----------------------------------------------------------------------------
(* A peer is found. *)

Begin(w, s, p, skip) ==
  /\ Running /\ At(w, "idle")
  /\ job' = [job EXCEPT ![w] = [step |-> s, peer |-> p, skip |-> skip, known |-> FALSE,
                                left |-> MaxRetries, snap |-> {}]]
  /\ UNCHANGED <<phase, store, connected, file, saved, tried, stops>>

\* by discoverFromTracker or as a configured bootstrap peer: they dial it
\* themselves, once, whether it is saved or not
FromTracker(w, p) == Begin(w, "check", p, TRUE)

\* by HandlePeerFound, which passes over peers that are known; discoverViaDHT
\* compares with those known when its round began, and savePeer passes over
\* the peers that have become known since
FromMDNS(w, p) == p \notin Known /\ Begin(w, "check", p, FALSE)
FromDHT(w, p) == phase = "dht" /\ Begin(w, "check", p, FALSE)

\* by a user: dialled first
AddBootstrapPeer(w, p) == phase = "dht" /\ Begin(w, "bootstrap", p, FALSE)

\* a peer of the tracker, for the DHT only (initDHT, refreshDHTFromTracker)
SeedDHT(p) ==
  /\ Running /\ p \notin Addressed
  /\ store' = WithTemporary(p)
  /\ UNCHANGED <<phase, connected, file, job, saved, tried, stops>>

-----------------------------------------------------------------------------
(* savePeer: check, add, persist, dial. *)

\* what follows when the peer was not added
Afterwards(w) == IF job[w].skip THEN To(w, "connect") ELSE Finish(w)

Full == Cardinality(Known) + 1 >= MaxPeers

BugCheck(w) ==
  /\ At(w, "check")
  /\ IF job[w].peer \in Known THEN Afterwards(w)
     ELSE job' = [job EXCEPT ![w].step = "add", ![w].known = job[w].peer \in connected]
  /\ UNCHANGED <<phase, store, connected, file, saved, tried, stops>>

Check(w) ==
  /\ At(w, "check")
  /\ IF job[w].peer \in Known \/ Full THEN Afterwards(w)
     ELSE job' = [job EXCEPT ![w].step = "add", ![w].known = job[w].peer \in connected]
  /\ UNCHANGED <<phase, store, connected, file, saved, tried, stops>>

BugAddAddrs(w) ==
  /\ At(w, "add") /\ To(w, "snapshot")
  /\ store' = WithTemporary(job[w].peer)
  /\ saved' = saved \cup {job[w].peer}
  /\ UNCHANGED <<phase, connected, file, tried, stops>>

AddAddrs(w) ==
  /\ At(w, "add") /\ To(w, "snapshot")
  /\ store' = [store EXCEPT ![job[w].peer] = "permanent"]
  /\ saved' = saved \cup {job[w].peer}
  /\ UNCHANGED <<phase, connected, file, tried, stops>>

Snapshot(w) ==
  /\ At(w, "snapshot")
  /\ job' = [job EXCEPT ![w].step = "write", ![w].snap = Addressed]
  /\ UNCHANGED <<phase, store, connected, file, saved, tried, stops>>

\* as a whole, or an error that is only logged
BugWrite(w) ==
  /\ At(w, "write")
  /\ file' \in {file, job[w].snap}
  /\ Finish(w)
  /\ UNCHANGED <<phase, store, connected, saved, tried, stops>>

Write(w) ==
  /\ At(w, "write")
  /\ file' \in {file, job[w].snap}
  /\ IF job[w].skip \/ job[w].known THEN Afterwards(w) ELSE To(w, "dial")
  /\ UNCHANGED <<phase, store, connected, saved, tried, stops>>

-----------------------------------------------------------------------------
(* Dialling.  host.Connect puts the addresses into the peerstore whether it *)
(* reaches the peer or not, and does not ask how many there are.            *)

Reach(w) ==
  /\ connected' = connected \cup {job[w].peer}
  /\ store' = WithTemporary(job[w].peer) /\ tried' = tried \cup {job[w].peer}
  /\ UNCHANGED <<phase, file, saved, stops>>

Miss(w) ==
  /\ job[w].peer \notin connected
  /\ store' = WithTemporary(job[w].peer) /\ tried' = tried \cup {job[w].peer}
  /\ UNCHANGED <<phase, connected, file, saved, stops>>

ConnectOnce(w) == At(w, "connect") /\ Finish(w) /\ (Reach(w) \/ Miss(w))

ConnectBootstrap(w) ==
  /\ At(w, "bootstrap")
  /\ \/ Reach(w) /\ To(w, "check")
     \/ Miss(w) /\ Finish(w)

\* connectWithRetry
AlreadyConnected(w) ==
  /\ At(w, "dial") /\ job[w].left = MaxRetries /\ job[w].peer \in connected
  /\ Finish(w)
  /\ UNCHANGED <<phase, store, connected, file, saved, tried, stops>>

ConnectWithRetry(w) ==
  /\ At(w, "dial") /\ (job[w].left = MaxRetries => job[w].peer \notin connected)
  /\ \/ Reach(w) /\ Finish(w)
     \/ Miss(w) /\ IF job[w].left = 1 THEN Finish(w)
                   ELSE job' = [job EXCEPT ![w].left = @ - 1]

-----------------------------------------------------------------------------
Step(w) ==
  \/ Check(w) \/ AddAddrs(w) \/ Snapshot(w) \/ Write(w)
  \/ ConnectOnce(w) \/ ConnectBootstrap(w) \/ AlreadyConnected(w) \/ ConnectWithRetry(w)

Find(w, p) ==
  FromTracker(w, p) \/ FromMDNS(w, p) \/ FromDHT(w, p) \/ AddBootstrapPeer(w, p)

Next ==
  \/ NewNetwork \/ Start \/ StartUnread \/ InitDHT \/ Stop \/ EarlyConnection
  \/ \E w \in Workers : Step(w) \/ \E p \in PeerIDs : Find(w, p)
  \/ \E p \in PeerIDs :
       InboundConnection(p) \/ Connect(p) \/ Disconnection(p) \/ Expire(p) \/ SeedDHT(p)

Spec == Init /\ [][Next]_vars

-----------------------------------------------------------------------------
Steps == {"check", "add", "snapshot", "write", "connect", "bootstrap", "dial"}
Jobs == [step : Steps, peer : PeerIDs, skip : BOOLEAN, known : BOOLEAN,
         left : 1..MaxRetries, snap : SUBSET PeerIDs] \cup {Idle}

\* The variables have their types, and only a running process has workers.
TypeOK ==
  /\ phase \in Phases /\ store \in [PeerIDs -> {"unknown", "temporary", "permanent", "expired"}]
  /\ connected \subseteq PeerIDs /\ file \subseteq PeerIDs
  /\ job \in [Workers -> Jobs]
  /\ saved \subseteq Permanent /\ tried \subseteq PeerIDs /\ stops \in Nat
  /\ ~Running => \A w \in Workers : At(w, "idle")

\* Peers that are on the disk, that the process keeps for good (or will, once
\* it has loaded the file), and that are in all that is about to be written.
Safe ==
  {p \in file :
     /\ Running => p \in Permanent
     /\ \A w \in Workers : At(w, "write") => p \in job[w].snap}

\* A peer that is on the disk and is not missing from a save that is under way
\* is lost only to a daemon that could not read the file when it started: not by
\* saves that overlap, not by their errors, not by a stop or a crash
\* (loadPersistedPeers, savePeer, persistPeers).
OnceSafeAlwaysSafe == [][Safe \subseteq Safe' \/ StartUnread]_vars

\* Peers found at the same time may pass the limit, which is checked before it
\* is used, but by no more than there are of them; how often they come makes no
\* difference (savePeer).
SavedWithinLimit == Cardinality(saved) <= (MaxPeers - 1) + (Cardinality(Workers) - 1)

\* A peer that is saved was connected or dialled, or someone is about to,
\* whoever else found it at the same time and whatever happens to connections
\* meanwhile (discoverFromTracker, savePeer, connectWithRetry).
SavedIsTried ==
  \A p \in saved :
    p \in tried \/ \E w \in Workers :
      /\ job[w].step \in {"snapshot", "write", "connect", "dial"}
      /\ job[w].peer = p
=============================================================================
