# raag: specification, model checking and proofs

raag is a music player that runs as a daemon, is driven over a local RPC
socket by a command line and a terminal interface, and shares songs with peers
that it finds through a tracker, a DHT and mDNS. This directory specifies the
parts of it in which several goroutines or machines share state, checks them
with TLC on small instances, and proves the main results with TLAPS for every
instance. Paths below are relative to `src/`.

## 1. The system

| Component | State | Operations | Interacts with |
|---|---|---|---|
| **Player** `internal/player/player.go` | queue, cursor, the installed track (control, decoder, volume control, file, channel), volume; one mutex | Play, PlayQueue, Next, Previous, Stop, Pause, Resume, SetVolume, AddToQueue | called by every RPC goroutine and by the goroutine of each track that ends; drives the mixer of `beep/speaker`, which calls back |
| **RPC service** `rpc/service.go`, `rpc/server.go` | none of its own | one method per command; a goroutine per connection and per call | player, library, playlists, network |
| **RPC client** `rpc/client.go` | a connection | Call, CallWithContext | the service |
| **App** `app/app.go` | the components | NewApp, SaveState, Shutdown; installs the callback that advances the queue | all |
| **Tracker** `tracker/server.go`, `tracker/tls.go`, `tracker/cmd` | registry, used nonces, rate limiter, each under its own mutex | POST /register, GET /peers, cleanup every `PeerCleanupInterval` | peers, over HTTP |
| **Tracker client** `internal/discovery/tracker.go` | HTTP client | RegisterPeer, GetPeers | tracker |
| **Authentication** `internal/auth/auth.go` | trusted keys | GenerateToken, VerifyToken, VerifyAndCheckTrust | tracker, network, discovery |
| **Discovery manager** `internal/discovery/manager.go` | known peers, cached token, registration loop, DHT, mDNS | register, discover, bootstrap, savePeer, persistPeers | tracker client, libp2p |
| **Network manager** `internal/network/network.go` | connected peers, pending handshakes, used nonces, health | connect and disconnect notifications, handshake, health check, ShareSong, handleStream | discovery, library, libp2p |
| **Transfer** `internal/network/transfer.go` | one stream and one `.part` file | write and read metadata, receive, rename | network, library |
| **Library** `internal/library/library.go` | two concurrent maps (songs by hash, hash by title), swapped by a rescan | Scan, Add, Remove, Find, watcher | RPC service, network |
| **Playlists** `internal/playlist/playlist.go` | playlists under an RWMutex | create, delete, add, remove, list | RPC service, storage |
| **Storage** `internal/storage/` | files | WriteJSONAtomic, Save/LoadPlaylists, Save/LoadState | app, playlists |
| **Daemon, commands** `cmd/raag/` | none | start, shutdown, one call per command | RPC |
| **TUI** `internal/tui/` | the last state it fetched | fetch, keys | RPC client |
| **Configuration, constants, logging** | read once | – | all |

### What is hard here

- *Player.* `Play` works in three parts: it opens the file without the mutex,
  installs the track under it, and starts the speaker after it. `Next` and
  `Previous` move the cursor in one locked section and call `Play` after it.
  Every client, and the goroutine of every track that ends, can be anywhere
  in this at the same time. Correct means: the cursor stays in the queue; each
  open file has exactly one owner; a track that was stopped or replaced does
  not advance the queue; the end of a track is not lost; stop leaves the daemon
  up; and what is reported is what plays.
- *Registration.* A request passes a rate limiter, a nonce table, a
  verification and the registry, each under a different lock, while a cleanup
  goroutine empties two of them with a time it read earlier. Requests get lost
  and are retried with the same token; both ends restart. Correct means: a
  token is accepted again only if its nonce was entered before the second that
  is stamped on it was over; the registry keeps to its limit; a record goes
  neither too early nor too late; a running peer stays registered; and the
  limiter counts exactly what its window holds.
- *Peer table.* Five sources find peers in goroutines of their own; the limit
  is tested and used without a lock; saves overlap; connections come and go.
  Correct means: the limit is passed by no more than the finders in flight, a
  saved peer is dialled, and a peer that is safely on the disk stays there
  unless a daemon cannot read the file.
- *Library.* The two maps are separate and are swapped one after the other,
  while files change under the scan, between the tags and the hash of one file
  too. Correct means: a song that nobody touches is found at every moment, a
  lookup of it returns it, and a new file is listed in the end.
- *Transfer.* Streams break and daemons die in the middle of a file that lies
  in the directory scans go through. Correct means: nothing appears under a
  final name unless it is complete and has the announced hash, or was sent
  without a hash.
- *Storage and daemons.* Processes are killed, power goes, writes fail, calls
  are served during the save, and nothing prevents a second daemon. Correct
  means: a crash leaves the old or the new file, each saved playlist was in
  memory during the save, and a daemon that is alone, and whose files give no
  errors, keeps its identity and has its socket.
- *TUI.* Update blocks on an action while ticks, keys and answers queue up; a
  call that is given up still runs. Correct means: keys take effect in order
  and once, an error on the screen is looked at again unless the fetch of a
  tick has failed too, and the screen is never more than one tick behind.

`PROJECT.json` lists these hazards one by one, each at its line.

## 2. The modules

| Module | What it is |
|---|---|
| `SessionLifecycle` | abstract: the life of a file the player opens (new, held, current, released) |
| `Player` | the player with its service, its goroutines and the speaker; refines `SessionLifecycle` |
| `MCPlayer` | symmetry, and the workload of a queue that is only appended to |
| `MCSteered` | `Player` with a count of the steps by which a client steers the queue (anything but adding a song), and what holds until the first |
| `PlayerProofs` | theorems about `Player` and about `MCSteered` |
| `RateLimiter` | state and operation of the tracker's limiter |
| `MCRateLimiter` | the limiter beside the full history of what it let through |
| `LimiterLemmas` | what the loop of the limiter keeps, for both modules that use it |
| `RateLimiterProofs` | theorems about `MCRateLimiter` |
| `TrackerRegistration` | the tracker's handler and cleanup, composed with `RateLimiter`, the registration loops of its peers and the network between them |
| `MCTrackerRegistration` | addresses, keys and clocks for TLC |
| `TrackerProofs` | theorems about `TrackerRegistration` |
| `Library` | the music directory, its users, the two maps, the watcher |
| `Transfer` | extends `Library`: streams from other peers, and crashes |
| `Sharing` | extends `Transfer`: an observer of what is settled, the properties, fairness |
| `MCSharing` | contents, titles and names for TLC |
| `AtomicFile` | abstract: a file that is replaced as a whole |
| `Daemon` | daemon processes with identity, playlists, socket, files, crashes and power; refines `AtomicFile` |
| `MCDaemon` | symmetry for TLC |
| `Peers` | the peer table: sources, limit, persistence, dialling, crashes |
| `MCPeers` | symmetry for TLC |
| `PeersProofs` | theorems about `Peers` |
| `Tui` | the terminal interface, its calls and the daemon that answers |
| `MCTui` | the intervals of the code for TLC |
| `DaemonProofs` | theorems about `Daemon` |
| `SharingProofs` | theorems about `Library`, `Transfer` and `Sharing` |
| `TuiProofs` | theorems about `Tui` |

Operators named `Bug...` are plausible mistakes in the operation that follows
them. Nothing uses them: replacing the operation by one shows that a property
notices.

### Player

*Threads* are the clients (goroutines of the RPC server) and the sessions (the
goroutine `Play` starts at `player.go:111`). A *session* is what one run of
`Play` builds. The five fields that are set and cleared together under the
mutex are the variable `installed`.

| Action | Code |
|---|---|
| `AddToQueue`, `CheckCurrentSong`, `SelectFirst` | `DaemonService.Play`, three calls with the mutex free in between |
| `OpenFile`, `OpenFails` | `Play` up to the lock (`:52-85`): open, decode, copy the volume |
| `Install` | the locked section (`:86-108`) with `stopPlaybackLocked` |
| `LoadVolumeCtrl`, `SpeakerPlay` | the argument of `speaker.Play` is read at `:110`, then added to the mixer; the session's goroutine starts |
| `ClientNext`, `ClientPrevious`, `AutoAdvance` | the locked half of `Next`, `Previous`; `OpenFile` and the rest follow |
| `ClientStop`, `ClientSetVolume` | one locked section each |
| `ClientReadCtrl`, `ClientSetPaused` | `Pause`, `Resume`: the pointer is read under the read lock and written later |
| `TrackEnds` | the speaker's goroutine: a track has been played, and its callback sends the end (`:99-104`) |
| `ClosedStreamEnds` | the same callback for a stream whose decoder `Stop` or a later `Play` has closed (`:211-232`): it has no samples left, so it ends at the speaker's next pass, and the channel was closed with it |
| `StreamNil` | the speaker streams a nil volume control |
| `WaitForEnd`, `ReceiveEnd`, `ReceiveClosed`, `AutoAdvanceAtEnd` | the session's goroutine, which may be scheduled after its track has ended |

A Go channel with one buffered value is modelled by the two sets `token` and
`closed`, with Go's rules: a buffered value is received before the closing is
seen, and a send on a closed channel panics. A panic ends the daemon
(`crashed`). Left out: positions within a track, metadata of the current song.

### TrackerRegistration

Time is a counter with `Second` ticks to the second; the times of a token are
cut to whole seconds (`Unix`), on the peer that stamps it and on the tracker
that compares. A token stands for its nonce, since each has a fresh one.
`Ahead` is the difference of each peer's clock to the tracker's, `Key` the key
a peer signs with. `TrustedKeys` are keys and not peers: the code compares the
peer that the token names with the request, and the key with the trusted ones,
but never the two with each other. `early` is history: the tokens whose nonce
was entered before the second stamped on them was over.

| Action | Code |
|---|---|
| `GetAuthData`, `Post`, `Register`, `RefreshTrackerRegistration`, `Timeout` | `manager.go` getAuthData, regenerateAuthToken, the registration loop and its retries; `Connect` in `network.go` |
| `Arrive` | `handleRegisterPeer` up to authentication: `RateLimiter.Allow`, then checks without shared state |
| `IsNonceValid` | the section under `nonceMu` |
| `VerifyAndCheckTrust` | trust in the key, validity in time |
| `Record` | the section under `mu` |
| `Reply`, `Lose` | the answer, or the loss of the request |
| `CleanupOldPeers`, `SweepPeers`, `CleanupOldNonces` | the ticker: read the clock, sweep under `mu`, sweep under `nonceMu` |
| `Restart`, `PeerRestart` | a new process, without what was in memory |
| `Tick` | time; the cleanup goroutine is woken within the tick its ticker fires |

Signatures are taken as unforgeable. The cached token of the manager is read
and written without a lock; the model treats each regeneration as one step.
A request that was recorded but whose answer is lost is `Timeout` before `Reply`.

### Library, Transfer and Sharing

The music directory is `disk`: files, numbered in the order `WalkDir` visits
them, with their contents. A content stands for its hash and has a title.
`songs` and `index` are the two maps. `ExtractMetadata` goes through a file
twice, for the tags and for the hash; `reading` holds what the first pass saw,
and a write in place between the two gives an entry with the title of one
version and the hash of the other. (The size, a third read, is only shown.) Each worker (the goroutine of
`NewLibrary`, calls, timers of the watcher, streams) does one operation at a
time, in the steps between which others can come.

| Action | Code |
|---|---|
| `UserWrites`, `UserDeletes` | users of the directory; `Notify` is the watcher's event loop with the timer of each file |
| `ReadTags` | the first half of `ExtractMetadata`, for a scan or an addition; `WalkFile` and `Extract` are the other half with what follows it |
| `Rescan`, `WalkFile`, `SwapSongs`, `SwapIndex`, `ScanFails` | `ScanMusicLibrary`: names, each file in turn, then one map and then the other; or an error of the directory, which leaves both as they are |
| `StartWatcher` | the end of `NewLibrary` |
| `LibraryAdd`, `FireTimer`, `Extract`, `StoreSong`, `StoreIndex` | `AddSong`, by request or by a timer |
| `RemoveLookup`, `RemoveIndex`, `RemoveEntry` | `RemoveSong` |
| `FindLookup`, `FindLoad`, `FindReturn` | `FindSong` and the use of its answer, which may be `NotFound` |
| `HandleStream`, `Copy`, `Abort`, `Rename`, `ScanAfterTransfer` | `handleStream`: metadata and temporary file, the bytes and their hash, the deferred function, the final name, the rescan |
| `Crash` | the process ends and starts again |

`ShareSong` says what a sender can offer: the hash is the library's and the
bytes are the file's, which may be of different versions; or no hash
(`NoHash`), since the receiver checks one only if it is there.

`Sharing` adds an observer. For each operation that lists files, `fresh` has
the files that were not disturbed since it began; once it completes they are
`settled`, until something disturbs them. Disturbing is: a change of the file
(of the file only: its neighbours may change, and have any titles), a removal
that is to delete its entry (`Removing`), a scan in progress that is past the
file and does not have it as it is, because it was read before or during a
write or because another file of its title came after it (`Missed`), and an
addition in progress of another version or of another file of its title
(`Outdated`). These are losses the code has (section 5); everything else must
leave the file findable. A lookup has in `fresh` the files that were settled
when it began and have not been disturbed since.

### Daemon and AtomicFile

A process goes through the phases of `runDaemon`; its calls are goroutines that
`Stop` does not wait for. A file is its text, whether it is synced, and (as
history) what each playlist was since its writer began.

| Action | Code |
|---|---|
| `Start`, `LoadOrGenerateIdentity`, `TruncateIdentity`, `WriteIdentity` | `runDaemon`, `loadOrGenerateIdentity`, and the two halves of `os.WriteFile` in `generateAndSaveKey` |
| `LoadPlaylists` | `NewApp` with `LoadPlaylists`: an error, a damaged file and no file are all no playlists |
| `RemoveSocket`, `Listen`, `Chmod`, `GiveUp` | `Server.Start` with its errors |
| `Dial`, `Execute` | a call: `Apply` is what the playlist manager makes of it under its mutex |
| `Stop` | `Server.Stop` |
| `List`, `GetSongs` | `SavePlaylists` up to the write |
| `CreateTemp`, `Encode`, `Sync`, `Rename`, `WriteFails` | `WriteJSONAtomic` |
| `Crash`, `PowerLoss`, `Flush` | a killed process; loss of power; the kernel writes back in its own time |

The errors of the file system are choices of these actions. A file of the
identity that cannot be read is treated as one that is missing, and the new key
overwrites it; if the path or the directory is what fails, or the write, the
node goes on with a key that is not saved. A socket that cannot be removed
makes `Listen` fail, and one whose mode cannot be set is given up. `failed`
(history) has the processes that met an error reading the identity or taking
the socket, `met` those that have run beside
another.

Every process writes the same file. A loss of power leaves `durable`; if that
was never synced, it is torn. The directory is not synced by the code, so the
last renaming may be undone: `AtomicFile` says so with its `stable` content.

### Peers

`store` is what the peerstore of libp2p holds of a peer: nothing, addresses for
a time, addresses for good, or a key without addresses (`expired`). Workers are
the goroutines that handle a peer one of the sources has found.

| Action | Code |
|---|---|
| `NewNetwork`, `Start`, `InitDHT`, `Stop` | the life of the process; `Start` loads `peers.json` |
| `StartUnread` | a start that cannot read it: the error is logged, and the next save replaces the file |
| `EarlyConnection` | a connection before `Start` has made the map of connected peers: the process ends |
| `FromTracker`, `FromMDNS`, `FromDHT`, `AddBootstrapPeer` | the sources; which of them dial on their own |
| `Check`, `AddAddrs`, `Snapshot`, `Write` | `savePeer` and `persistPeers` |
| `ConnectOnce`, `ConnectBootstrap`, `AlreadyConnected`, `ConnectWithRetry` | dialling |
| `InboundConnection`, `Connect`, `Disconnection`, `SeedDHT`, `Expire` | the rest of what changes the peerstore and the connections |

### Tui

`inbox` is Bubble Tea's queue of messages; `Update` handles one at a time and
waits for an action. Time is in seconds. A key is its number and whether it
switches the view or calls the daemon. What `Update` returns for a tick is a
`tea.Batch` of a fetch and the next tick, and this is a message like any other:
it waits behind a key that blocks `Update`, and the fetch starts after it
(`RunBatch`). The timer of the next tick is made when `tickCmd` is called
(`tea.Tick` of bubbletea v1.3.10), so it runs meanwhile, and the fetches of two
ticks can overlap. `rounds` numbers the ticks that fetch.

| Action | Code |
|---|---|
| `PressKey`, `TimerFires` | keys and `tickCmd` |
| `FetchAnswered`, `FetchFails` | `fetchState`: an answer, or no message |
| `HandleView`, `HandleAction`, `Act` | `handleKey` |
| `ActionReturns`, `ActionFails`, `ActionTimesOut` | `executeAction` and `CallWithContext` |
| `HandleTick`, `HandleAnswer` | `Update` |
| `RunBatch` | Bubble Tea takes the message of `tea.Batch` and starts its commands |
| `Execute` | the daemon, whether or not anyone waits |

## 3. The runs

| Run | Question | Instance |
|---|---|---|
| `player_safety` | cursor, ownership of files, who may advance, the delivery of the end of a track, the abstract lifecycle | 2 clients (symmetric), 3 sessions, a queue of 2; the song's file may fail to open; 4.7 million states |
| `player_live` | until a client steers: order, no panic, what is reported is what plays; and always: the end of the current track is never lost | 1 client with every call, at most 2 steps that steer, 2 songs, 3 sessions, 3 places, fair goroutines; 0.5 million states |
| `player_stop`, `player_queued` | what documents promise and the code does not do (section 5) | 1 client, 3 sessions |
| `tracker` | only tokens whose nonce was entered early are accepted again; only who was vouched for is registered; records go neither too early nor too late; the limit | 4 peers: one whose clock is ahead, one whose clock is behind, one with a key that is not trusted, one refused for its addresses; 1 place, 2 tokens, 2 handlers, 1 restart of the tracker, time 0..2; 6 million states |
| `tracker_heartbeat`, `tracker_replay` | divergences (section 5) | 1 peer, whose clock is ahead in `tracker_replay` |
| `rate_limiter` | the limiter that forgets agrees with one that does not, and its lists stay short | 2 addresses, 2 requests per window of 3, time 0..7 |
| `sharing` | what the library and the transfers promise; new files are listed | 2 workers, one file of a user with 2 versions (and titles), one name that peers send in 2 versions, 2 temporary names, 2 events; 0.7 million states |
| `daemon` | the file of playlists, its contents, the socket, the identity | 2 processes, 1 playlist of up to 2 of 2 songs, 1 call at a time, 3 keys, 5 events (starts, faults, errors of files); 1.4 million states |
| `peers` | the limit, dialling, what is on the disk | 3 other nodes and room for 1, 2 workers, 2 attempts, 1 stop; 1.8 million states |
| `tui` | order of keys, each of which acts once; the error on the screen; how far ticks fall behind | the intervals of the code, 3 keys, 6 seconds; 6.8 million states |

*Why the bounds are enough.* Every race of the player is between at most two
threads and the session they replace: two clients and the goroutine of a
third thread already cover every pair of locked sections, and three sessions
let one be replaced while another is being opened and a third plays. A queue
of two gives both ends of the cursor. In `player_live` two steps that steer are
a stop or a skip and another call while it is under way; what is promised before
the first of them is proved without the bounds. For the tracker, two handlers cover
every pair of requests, since the state between sections is per nonce and per
peer; the durations are 0 and 1, so that two ticks reach beyond each timeout
and the next sweep, and a token stamped ahead outlives its nonce
(`NonceExpiry` equals `TokenExpiration`, as in the code). One tick is one
second there; the cutting to seconds is in the theorem, for any `Second`. In `sharing` an event
is a write, a removal, a scan, a stream or a crash; additions, lookups and
removals by title are free, so two events put any two of the former into every
interleaving with any of the latter. In `daemon` five events are enough for two
starts, a change, and two faults or errors. In `peers` two workers are the least that pass the
limit, and three nodes let one be saved, one be known otherwise and one be new.
In `tui` six seconds are three ticks, an action that times out and the fetch
after it. The theorems below remove the bounds where they apply.
`MaxSessions`, `MaxQueue`, `MaxSteers`, `MaxTime`, `MaxTokens`, `MaxRestarts`, `MaxEvents`,
`MaxLen`, `MaxStops` and `MaxKeys` are the bounds that are not in the code; a
behaviour may stop when they are reached, as it may when users call nothing,
so deadlock is not an error. (`peers` never stops: a connection can always be
lost and made again, so there deadlock is checked.)

*Fairness.* `player_live` assumes weak fairness of a call once started and of
the goroutine of each session: the Go scheduler runs every runnable goroutine,
and the player's mutex is held only for short sections that are single steps
here; and that the speaker gets to a stream it was given that has nothing to
play (`ClosedStreamEnds`, `StreamNil`), as its goroutine passes over the mixer
many times a second. Neither a user's calls nor the end of a track are fair. `player_queued`
assumes as well that a track that plays comes to its end. The property of
`player_live` exempts a session whose goroutine has given up because the queue
had no next song then: that is the case `player_queued` is about. With a
`Broken` song the advance ends with an error of `Play`, as in the code, so
this run has none.
`sharing` assumes that the watcher is started, that each worker goes on with
what it has begun (a stream makes progress or breaks, since both ends give up
after `TransferIdleTimeout`), and that a timer that has been set fires. What
users and peers do is not fair. The other runs check safety and assume none.

## 4. The proofs

`PlayerProofs` needs only `PlayerAssumption` and `SteersAssumption`. The invariant is
`TypeOK`, the cursor, and three parts that the properties do not mention but
that every step needs: `SessionsHeld` (a thread holds a session exactly while
it is between opening and starting it, no two hold the same, and the session's
goroutine is not running yet), `FilesHeld` (open files are the installed one and
those held before installation, and none of their channels is closed) and
`EndsAreReal` (a value in a channel comes from a track that ended). Without
`SessionsHeld`, `Install` could install a session twice and `FilesOwned`
would not be inductive. From it follow

- `TypeCorrect`, `CursorCorrect`, `FilesCorrect`, `AdvanceCorrect`;
- `EndDelivered`: the end of a track is in its channel for exactly as long as its
  goroutine has not received it. It is the safety half of `player_live`, and
  needs that a goroutine that is done had an end or a closed channel
  (`DeliverInv`);
- `Refinement`: `OpenFile` acquires, `Install` promotes and releases,
  `ClientStop` releases, and every other step leaves the stages alone.

Three more theorems are about a queue that one client fills (`OneClient`; with
two, both may find no current song and start the queue) and about the time
until it first steers it (`Unsteered`): the client may add songs at any moment,
tracks end at any moment, their goroutines play the next song, and every
interleaving of these is in. They hold of `SteeredSpec`, in which the client may
go on to steer as it likes; what they promise ends there, because of the races
of section 5. `QInv` says whose turn it is: until the client selects the first
song nothing moves (`NotStarted`); afterwards at most one thread is in the middle
of playing or opening, it is the client for the first song and the goroutine of
the song before for every other (`Opens`), and the cursor is on the last file
opened or, while a thread is about to open the next, one past it (`Mover`). Only
the last session can be in the mixer, before its end (`OnlyLastPlays`).

- `QueueInOrder`: the n-th file opened is that of the n-th song.
- `UnsteeredRuns`: nothing panics.
- `NowPlayingCorrect`, if no file fails to open (`Broken = {}`): then the cursor
  is never past the last file without a thread that opens the next (`Landed`).

`LimiterLemmas` and `RateLimiterProofs` need only `RateLimiterAssumption`. That
the loop of `Allow` keeps exactly the end of an ascending list would be an
induction over the list; instead the function that has the end of the list at
every place satisfies the equation of the loop (`KeptIsLoop`), and no two
functions do, since there is no least place where they differ (`LoopIsUnique`).
`HistoryInv`: the list of an address is its history without some first requests,
all out of the window.

- `RateIsHeld`: a request that is let through is compared with the one `RateMax`
  before it in the history.
- `ForgettingIsExact`: the place where the window begins in the list and in the
  history is the same request.
- `ListsStayShort`: a list is ascending, ends at requests that were let through
  in one window, and so is never longer than the maximum. `TrackerProofs` has the
  same result where handlers and restarts use the limiter.

`TrackerProofs` needs only `TrackerAssumption`:

- `TypeCorrect`: the part the other proofs use (`Types`), and the lists of the
  limiter with the lemmas of `LimiterLemmas`.
- `RepeatsAreEarly`, for any clocks of the peers, if nonces are kept for as long
  as tokens are valid (`NonceOutlastsToken`; the constants of the code are
  equal): a token is accepted again only if its nonce was entered before the
  second that is stamped on it was over. Every other nonce is swept only when its
  token has expired, since the tracker's clock does not run backwards (`Ages`);
  until then it is in the table and stands for the one handler that is verifying
  the token or the one time it was accepted (`NonceKept`). The exception is real:
  `tracker_replay` shows it for a clock that is ahead.
- `RegisteredAreVouchedFor`, with `VouchInv`: a handler past the address check
  has a request of a peer with such addresses, and one past the verification a
  token that names this peer and is signed with a trusted key; the record is
  written by no other, and without trusted keys (`AuthRequired`) addresses are
  all that is asked for.
- `StaleBoundHolds`, `ExpiryIsLate`: the clock the cleanup reads is no earlier
  than its ticker (`CleanupOnTime`), and what is left after a sweep is no older
  than the timeout before that time (`SweptBound`).
- `BoundHolds`: the section that looks for a free place is the one that takes it.

`PeersProofs` needs only `PeersAssumption`, for any number of peers, workers,
attempts and stops:

- `TypeCorrect`, with `FreshWhenDown`: a process that does not run has saved
  nothing, or a new one would start with peers that its table does not have.
- `LimitHolds`: `savePeer` tests the limit and adds later. The invariant counts
  both sides, |saved| + |workers past the test| is at most
  (`MaxPeers` - 1) + (number of workers - 1): the test is passed only with
  fewer than `MaxPeers` - 1 known peers, saved peers are known, and at most all
  other workers are past the test at that moment.
- `SavedTried`, with `ConnectedWasTried`: a worker that omits the dial because
  its peer was connected when it looked knows a peer that was tried.
- `SafeStaysSafe`: the action property by cases; a snapshot taken while a peer
  is permanent contains it, and a write replaces the file by such a snapshot. A
  peer that is on the disk and in every save under way is lost only in
  `StartUnread`, after which it is in no snapshot.

`DaemonProofs` needs only `DaemonAssumption`, for any number of processes,
playlists, songs, keys, calls and faults:

- `TypeCorrect` says as well that exactly the writers have temporary files.
- `SavedCorrect` rests on `SavesInv`: what a writer has collected, or will
  collect, each playlist was since the save began; its temporary file holds it;
  and every named file is synced. `Refinement` follows from the last part: a loss
  of power finds nothing under the name that could be torn.
- `AloneStarts` and `IdentityKept` rest on `AloneInv`: a process that has met no
  other is the only one to act on the socket and on the identity
  (`OnlyActor`), so, if it has met no error there either (`Undisturbed`), each
  phase still finds what the one before it left (`AloneOrMet`, `HasIdentity`).
  An identity on the disk is overwritten only by a process that started beside
  another, or by one that could not read it, or goes with the power. A write that
  fails needs no exception: there was no identity to lose.

`TuiProofs` needs only `TuiAssumption` (the timeout of a fetch is shorter than
the interval of the ticks), for any intervals and any number of keys:

- `KeysInOrder`, with `OrderInv`: the keys that have taken effect, the one that
  is being executed and those in the inbox are in the order they were pressed.
- `KeysActOnce`, with `OnceInv`: what is still to be executed has had no effect,
  since only a key behind all others becomes a call.
- `TicksInOrder`, with `TickInv`: there is always exactly one tick to come, its
  timer runs or it waits in the inbox. While the timer runs, the fetches of
  ticks before the last one (`LateFetch`) end before it fires, and a batch that
  waits is the last one's; once it has fired, their answers (`LateAnswer`) stand
  in front of the tick. So what a tick has fetched is dealt with before the second
  tick after it. (That no two fetches of ticks overlap would be false, because of
  `tea.Batch`.)
- `NotRespondingChecked`, with `RespondingInv`: the error is on the screen only
  while a fetch or its answer is still to come, or the next tick fetches, or a
  fetch of a tick has failed as well since the last key (`missed`). A failed
  action sets `needsRefresh` and so is followed by such a fetch; if that one fails
  too nobody asks until a key is pressed, and the error does stay.

`SharingProofs` needs `LibraryAssumption` (there are finitely many files),
`TransferAssumption` (users do not write the files of peers, and no file that
is whole has the content of one that is not) and, since what a worker does is a
record or `Idle`, `OperationAssumption`:

- `TypeCorrect` types the operation each worker is in the middle of.
- `ReceivedCorrect` and `TempsRemoved`, with `StreamInv`: each stream has a
  temporary file of its own, and from the check of the hash to the renaming that
  file holds what was announced.
- `TornIsKeptOut`, with `SoundInv`: what is torn is in a map, a scan or a
  `reading` only under a name that was sent without a hash. The same exception
  is in `ReceivedCorrect`.
- `SettledCorrect` and `LookupCorrect`, with `SettledInv`: a file an operation is
  to list is either settled already or on its way into the two maps at the place
  the step of the operation says (`Listing`), read as it is in both passes
  (`Extracted`), and nobody who could undo it is under way (`Undisturbed`); and a
  lookup of it is at a place from which it will be found (`Finds`). Each step
  that changes a map (`MapsChange`) keeps this (`SongsKept`, `IndexKept`).
  Nothing is assumed of titles: two files may share one, and a torn extraction may
  give one file the title of another.

`Min` of a set of files is defined by a choice; that it is an element of the set
is `MinIsElement`, from the well-foundedness of strict inclusion on finite sets.

*Only model-checked*: liveness (`EndedTrackIsReplaced`, `NewFileIsListed`), which
is out of the prover's reach. Every invariant and every action property of a
passing run is proved; `QueueInOrder`, `UnsteeredRuns` and `NowPlayingCorrect` for
one client, as in the run, `NowPlayingCorrect` for files that can be opened,
and `RepeatsAreEarly` for nonces that are kept as long as tokens. Four properties
are violated by the code (section 5): `StopLeavesDaemonUp`, `QueuedIsPlayed`,
`StaysRegistered`, `TokenAcceptedOnce`.

## 5. Where the program departs from what it says

With a run:

| Run | What happens |
|---|---|
| `player_stop` | `Play` releases the mutex before `speaker.Play` (`internal/player/player.go:110`). A `Stop` in between closes the decoder and the channel and sets the volume control to nil. If `Play` had read the volume control, its stream ends at the speaker's next pass and the callback sends on the closed channel; if not, the speaker streams nil. Either panics and ends the daemon, while the queue is empty. |
| `player_queued` | `Play` starts the queue only if no song is current, and the last song stays current after it has ended: a song added then is not played. |
| `tracker_heartbeat` | The registration loop registers once and returns; the tracker drops the peer after `PeerTimeout`. |
| `tracker_replay` | A nonce is kept for as long as a token is valid (`internal/constants/constants.go:67`), but counted from its use. A token stamped by a clock that is ahead, which is accepted up to `TokenFutureTolerance`, outlives its nonce and is accepted again. |

Noticed while modelling, without a run:

- The cursor moves in one locked section and the track is installed in another
  (`internal/player/player.go:262`), so two overlapping calls can install in the
  other order; and the goroutine of a track that ended calls `Next` without
  looking whether its track is still current (`:118`), so a skip at that moment
  skips two songs. A `SetVolume` between lines 80 and 86 is lost for the new
  track. The directory handle of `os.OpenRoot` (`:59`) is never closed.
- The limiter keeps an entry for every address that ever called
  (`tracker/server.go:53`). Trust is in a key, and nothing binds the key to the
  peer ID that the token names (`internal/auth/auth.go:191`): the owner of a
  trusted key can vouch for any peer.
- `max_peers` (README.md:491) limits only what `savePeer` adds: peers that
  connect, that are dialled or that seed the DHT come on top of it.
- A song that was removed comes back with the next scan (README.md:673 calls it
  removed); removal of one of two songs with the same title makes the other one
  unfindable by title; an addition during a scan that has passed its place is
  lost until the next scan; a file created between the first scan and the start
  of the watcher is not noticed. A file that is written in place while it is
  read can be listed with the title of one version and the hash of the other
  (`internal/library/metadata.go:51-60`).
- The hash of a song that arrives is checked only if the sender announced one
  (`internal/network/network.go:859`); without one any bytes of the announced
  length get the final name and are listed.
- An identity that cannot be read for another reason than that it is missing is
  replaced by a new one on the disk (`internal/network/network.go:125`); if the
  directory or the write fails, the node runs with a key that is not saved
  (`:54-99`) and has another one after the next start. Playlists that cannot be
  read at the start are none, and overwritten at the shutdown.
- A peer that a user adds is dialled before it is saved
  (`internal/discovery/manager.go:637`). The dial makes it known, and known
  peers are not saved: it is gone after a restart. Peers whose addresses have
  expired stay known, so the DHT and mDNS do not dial them again (`:1160`,
  `:1275`). A `peers.json` that cannot be read is logged and then overwritten
  (`:641`). The delay between attempts to start mDNS passes its maximum
  (`:1218`).
- The health check that README.md:297-301 describes never runs:
  `NetworkManager.Start` calls `discovery.Start`, which blocks, before it
  (`internal/network/network.go:509`). The handshake never happens, since
  nothing calls `SetAuthEnabled`. A connection between `newNetworkWithIdentity`
  and `Start` writes to a nil map (`:506`).
- A daemon that is given a tracker while it runs (`UpdateTrackerURL`,
  `internal/discovery/manager.go:608`) does not register with it until a user
  connects to a peer, since the registration loop has ended; if it had no
  tracker before, the loop that asks for peers has ended as well.
- `state.json` is written at shutdown and never read. A reset of the
  configuration asks for a restart of the daemon, whose shutdown writes the old
  configuration back (`app/app.go:101`). Playlists are written only at shutdown.
- Of two daemons the second takes the socket of the first away
  (`rpc/server.go:44`), and each takes away the other's when it stops.
- The keys for volume send the constants 5 and -5 as absolute volumes, and the
  space bar pressed twice before the next fetch sends the same command twice
  (`internal/tui/tui.go:212`). The fetch of a tick may overlap with that of an
  action, and with that of the next tick if a key blocked `Update` while the
  batch waited (`:125`); the older state may then be shown last. A state that is
  old, and the error too, stays on the screen until a key is pressed if the one
  fetch of a tick that follows a key fails.

## 6. Plan

Done: `Player`; `RateLimiter` and `TrackerRegistration`; `Library`, `Transfer`
and `Sharing`; `AtomicFile` and `Daemon`; `Peers`; `Tui`; the proofs of section
4.

Next: the safety half of `NewFileIsListed` (a file that was reported is pending,
being added or listed), stated and proved as `EndIsDelivered` is for
`EndedTrackIsReplaced`.

What a later extension would take up: the choice of advertised addresses and
the throttle of the DHT's bootstrap, which now decide nothing the properties are
about; and the handshake and the health check, once something starts them.

## 7. Not modelled

Parsing and printing of commands, configuration and logging keep no state that
changes; certificates are input and output of one file; libp2p, the DHT and
mDNS appear only through the calls raag makes and the callbacks it gets. Code
that cannot run has no model: the handshake and the health check of the network
manager, and `LoadState`. The change of the tracker's URL while the daemon runs
is one assignment whose consequence is in section 5. The throttle of the DHT's
bootstrap, the choice of advertised addresses, search in the library, and the
selected line of the terminal interface decide nothing the properties are
about.
