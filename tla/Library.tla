------------------------------ MODULE Library ------------------------------
(***************************************************************************)
(* The song library of the daemon (internal/library/library.go): two       *)
(* concurrent maps, songs by hash and hashes by title, which a scan of the *)
(* music directory replaces one after the other while additions, removals  *)
(* and lookups go on, and a watcher that adds the files it is told of.     *)
(*                                                                         *)
(* A content stands for its SHA-256 hash.  Tags and hash of a file are two *)
(* passes over it, and a write in place may come between them: an entry    *)
(* then has the title of one version and the hash of the other.  A file    *)
(* that is removed or replaced while it is open is read to its end as it   *)
(* was.  A file whose tags or bytes cannot be read is to the library as    *)
(* one that is missing.                                                    *)
(*                                                                         *)
(* An operation that has loaded the pointer to a map which is then         *)
(* replaced stores where nobody looks any more, so load and store of       *)
(* AddSong are one step, and a RemoveSong whose index is replaced before   *)
(* it deletes from it has nothing to delete.                               *)
(***************************************************************************)
EXTENDS Naturals, FiniteSets, Functions, FiniteSetsExt

CONSTANTS
  Main,        \* the goroutine that starts the daemon
  Clients,     \* goroutines of the RPC server
  Timers,      \* goroutines in which timers of the watcher fire
  Receivers,   \* goroutines of streams from peers
  Files,       \* names in the music directory, numbered as WalkDir visits them
  AudioFiles,  \* those with the extension of an audio file
  Contents,    \* what can be in a file
  TitleOf,     \* the title in the tags of a content
  UserVersions,\* what users put in each file
  MaxEvents,   \* bound on writes by users, scans, transfers and crashes
  Idle, NoFile

Workers == {Main} \cup Clients \cup Timers \cup Receivers

ASSUME LibraryAssumption ==
  /\ Files \subseteq Nat /\ IsFiniteSet(Files)
  /\ AudioFiles \subseteq Files
  /\ NoFile \notin Contents
  /\ UserVersions \in [Files -> SUBSET Contents]
  /\ MaxEvents \in Nat

VARIABLES
  disk,      \* content of each file, or NoFile
  songs,     \* the map Songs: hash to the path it was read from
  index,     \* the map titleIndex: title to hash
  pending,   \* pendingFiles: files whose timer runs
  watching,  \* NewLibrary has returned and the watcher runs
  op,        \* what each worker is doing
  reading,   \* the file a worker has open: its tags are read, its hash is not
  events     \* how many of the bounded events have happened

libraryVars ==
  <<disk, songs, index, pending, watching, op, reading, events>>

Titles == {TitleOf[c] : c \in Contents}

\* f with x bound to v, and f without x: Store and Delete of a sync.Map
Put(f, x, v) == [y \in DOMAIN f \cup {x} |-> IF y = x THEN v ELSE f[y]]
Drop(f, x) == Restrict(f, DOMAIN f \ {x})
EmptyMap == [x \in {} |-> x]

Event == events < MaxEvents /\ events' = events + 1

At(w, step) == op[w] # Idle /\ op[w].step = step
Scanning(w) == At(w, "walk") \/ At(w, "swapIndex")

Begin(w, o) == op[w] = Idle /\ op' = [op EXCEPT ![w] = o]
Become(w, o) == op' = [op EXCEPT ![w] = o]

BugAudioOnDisk(d) == {f \in Files : d[f] # NoFile}

AudioOnDisk(d) == {f \in AudioFiles : d[f] # NoFile}

Walk(d) ==
  [step |-> "walk", todo |-> AudioOnDisk(d), songs |-> EmptyMap, index |-> EmptyMap]

Init ==
  /\ disk \in [Files -> Contents \cup {NoFile}]
  /\ \A f \in Files : disk[f] \in UserVersions[f] \cup {NoFile}
  /\ songs = EmptyMap /\ index = EmptyMap
  /\ pending = {} /\ watching = FALSE
  /\ op = [w \in Workers |-> IF w = Main THEN Walk(disk) ELSE Idle]
  /\ reading = [w \in Workers |-> Idle]
  /\ events = 0

-----------------------------------------------------------------------------
(* The directory, as its users change it.  A file that is copied in small  *)
(* writes passes through several contents.  The watcher hears of creations *)
(* and writes, not of removals.                                            *)

BugNotifyAll(f) == pending' = IF watching THEN pending \cup {f} ELSE pending

Notify(f) ==
  pending' = IF watching /\ f \in AudioFiles THEN pending \cup {f} ELSE pending

Opened(w, f) == reading[w] # Idle /\ reading[w].path = f

\* in place: who has the file open reads the new bytes from here on
UserWrites(f, c) ==
  /\ Event
  /\ disk[f] # c
  /\ disk' = [disk EXCEPT ![f] = c]
  /\ reading' = [w \in Workers |->
                   IF Opened(w, f) /\ reading[w].content = disk[f]
                   THEN [reading[w] EXCEPT !.content = c] ELSE reading[w]]
  /\ Notify(f)
  /\ UNCHANGED <<songs, index, watching, op>>

UserDeletes(f) ==
  /\ Event
  /\ disk[f] # NoFile
  /\ disk' = [disk EXCEPT ![f] = NoFile]
  /\ UNCHANGED <<songs, index, pending, watching, op, reading>>

-----------------------------------------------------------------------------
(* ScanMusicLibrary: names first, then each file in turn, then both maps.  *)

BugRescan(w) ==
  /\ watching
  /\ Event
  /\ Begin(w, Walk(disk))
  /\ songs' = EmptyMap /\ index' = EmptyMap
  /\ UNCHANGED <<disk, pending, watching, reading>>

Rescan(w) ==
  /\ watching
  /\ Event
  /\ Begin(w, Walk(disk))
  /\ UNCHANGED <<disk, songs, index, pending, watching, reading>>

(***************************************************************************)
(* ExtractMetadata, for a scan or for AddSong: the file is opened and its  *)
(* tags are read; then it is read from its start for the hash.             *)
(***************************************************************************)
Source(w) == IF At(w, "walk") THEN Min(op[w].todo) ELSE op[w].path

Extracting(w) ==
  /\ At(w, "extract") \/ (At(w, "walk") /\ op[w].todo # {})
  /\ reading[w] = Idle

ReadTags(w) ==
  /\ Extracting(w)
  /\ LET f == Source(w) IN
     /\ disk[f] # NoFile
     /\ reading' = [reading EXCEPT ![w] =
                      [path |-> f, title |-> TitleOf[disk[f]], content |-> disk[f]]]
  /\ UNCHANGED <<disk, songs, index, pending, watching, op, events>>

Unreadable(w) == Extracting(w) /\ disk[Source(w)] = NoFile

CloseFile(w) == reading' = [reading EXCEPT ![w] = Idle]

\* the callback of WalkDir; a file that is gone by then is skipped
WalkFile(w) ==
  /\ At(w, "walk")
  /\ LET r == reading[w] IN
     \/ /\ r # Idle
        /\ Become(w, [op[w] EXCEPT !.todo = @ \ {r.path},
                                   !.songs = Put(@, r.content, r.path),
                                   !.index = Put(@, r.title, r.content)])
     \/ /\ Unreadable(w)
        /\ Become(w, [op[w] EXCEPT !.todo = @ \ {Source(w)}])
  /\ CloseFile(w)
  /\ UNCHANGED <<disk, songs, index, pending, watching, events>>

\* a directory cannot be read: both maps stay; a daemon whose first scan
\* fails does not start
ScanFails(w) ==
  /\ At(w, "walk") /\ w # Main /\ reading[w] = Idle
  /\ Become(w, Idle)
  /\ UNCHANGED <<disk, songs, index, pending, watching, reading, events>>

SwapSongs(w) ==
  /\ At(w, "walk") /\ op[w].todo = {}
  /\ songs' = op[w].songs
  /\ Become(w, [op[w] EXCEPT !.step = "swapIndex"])
  /\ UNCHANGED <<disk, index, pending, watching, reading, events>>

SwapIndex(w) ==
  /\ At(w, "swapIndex")
  /\ index' = op[w].index
  /\ op' = [v \in Workers |->
              IF v = w THEN Idle
              ELSE IF At(v, "removeIndex") THEN [op[v] EXCEPT !.step = "removeSong"]
              ELSE op[v]]
  /\ UNCHANGED <<disk, songs, pending, watching, reading, events>>

\* NewLibrary starts the watcher after its scan
StartWatcher ==
  /\ ~watching /\ op[Main] = Idle
  /\ watching' = TRUE
  /\ UNCHANGED <<disk, songs, index, pending, op, reading, events>>

-----------------------------------------------------------------------------
(* AddSong, by request or when the timer of a file fires. *)

LibraryAdd(w, f) ==
  /\ watching /\ f \in AudioFiles
  /\ Begin(w, [step |-> "extract", path |-> f])
  /\ UNCHANGED <<disk, songs, index, pending, watching, reading, events>>

FireTimer(w, f) ==
  /\ f \in pending /\ pending' = pending \ {f}
  /\ Begin(w, [step |-> "extract", path |-> f])
  /\ UNCHANGED <<disk, songs, index, watching, reading, events>>

\* a path that is listed is not added again
BugExtract(w) ==
  /\ At(w, "extract")
  /\ LET r == reading[w] IN
     \/ /\ r # Idle /\ r.path \notin Range(songs)
        /\ Become(w, [step |-> "storeSong", path |-> r.path,
                      title |-> r.title, hash |-> r.content])
     \/ /\ Unreadable(w) \/ (r # Idle /\ r.path \in Range(songs))
        /\ Become(w, Idle)
  /\ CloseFile(w)
  /\ UNCHANGED <<disk, songs, index, pending, watching, events>>

Extract(w) ==
  /\ At(w, "extract")
  /\ LET r == reading[w] IN
     \/ /\ r # Idle
        /\ Become(w, [step |-> "storeSong", path |-> r.path,
                      title |-> r.title, hash |-> r.content])
     \/ Unreadable(w) /\ Become(w, Idle)
  /\ CloseFile(w)
  /\ UNCHANGED <<disk, songs, index, pending, watching, events>>

StoreSong(w) ==
  /\ At(w, "storeSong")
  /\ songs' = Put(songs, op[w].hash, op[w].path)
  /\ Become(w, [op[w] EXCEPT !.step = "storeIndex"])
  /\ UNCHANGED <<disk, index, pending, watching, reading, events>>

StoreIndex(w) ==
  /\ At(w, "storeIndex")
  /\ index' = Put(index, op[w].title, op[w].hash)
  /\ Become(w, Idle)
  /\ UNCHANGED <<disk, songs, pending, watching, reading, events>>

-----------------------------------------------------------------------------
(* RemoveSong; the file stays on disk. *)

RemoveLookup(w, t) ==
  /\ watching /\ t \in DOMAIN index
  /\ Begin(w, [step |-> "removeIndex", title |-> t, hash |-> index[t]])
  /\ UNCHANGED <<disk, songs, index, pending, watching, reading, events>>

RemoveIndex(w) ==
  /\ At(w, "removeIndex")
  /\ index' = Drop(index, op[w].title)
  /\ Become(w, [op[w] EXCEPT !.step = "removeSong"])
  /\ UNCHANGED <<disk, songs, pending, watching, reading, events>>

RemoveEntry(w) ==
  /\ At(w, "removeSong")
  /\ songs' = Drop(songs, op[w].hash)
  /\ Become(w, Idle)
  /\ UNCHANGED <<disk, index, pending, watching, reading, events>>

-----------------------------------------------------------------------------
(* FindSong: the index, then the songs; not found is an error of the call. *)

NotFound(t) == [step |-> "missing", title |-> t]

\* while a scan goes on there are no answers
BugFindLookup(w, t) ==
  /\ watching
  /\ Begin(w, IF t \in DOMAIN index /\ \A v \in Workers : ~Scanning(v)
              THEN [step |-> "findSong", title |-> t, hash |-> index[t]]
              ELSE NotFound(t))
  /\ UNCHANGED <<disk, songs, index, pending, watching, reading, events>>

FindLookup(w, t) ==
  /\ watching
  /\ Begin(w, IF t \in DOMAIN index
              THEN [step |-> "findSong", title |-> t, hash |-> index[t]]
              ELSE NotFound(t))
  /\ UNCHANGED <<disk, songs, index, pending, watching, reading, events>>

FindLoad(w) ==
  /\ At(w, "findSong")
  /\ Become(w, IF op[w].hash \in DOMAIN songs
               THEN [op[w] EXCEPT !.step = "found"]
               ELSE NotFound(op[w].title))
  /\ UNCHANGED <<disk, songs, index, pending, watching, reading, events>>

\* the caller has its answer
FindReturn(w) ==
  /\ At(w, "found") \/ At(w, "missing")
  /\ Become(w, Idle)
  /\ UNCHANGED <<disk, songs, index, pending, watching, reading, events>>

-----------------------------------------------------------------------------
WorkerStep(w) ==
  \/ ReadTags(w) \/ WalkFile(w) \/ ScanFails(w) \/ SwapSongs(w) \/ SwapIndex(w)
  \/ Extract(w) \/ StoreSong(w) \/ StoreIndex(w)
  \/ RemoveIndex(w) \/ RemoveEntry(w)
  \/ FindLoad(w) \/ FindReturn(w)

Next ==
  \/ \E f \in AudioFiles : UserDeletes(f) \/ (\E c \in UserVersions[f] : UserWrites(f, c))
  \/ StartWatcher
  \/ \E w \in Workers : WorkerStep(w)
  \/ \E w \in Timers, f \in AudioFiles : FireTimer(w, f)
  \/ \E w \in Clients :
       \/ Rescan(w)
       \/ \E f \in AudioFiles : LibraryAdd(w, f)
       \/ \E t \in Titles : RemoveLookup(w, t) \/ FindLookup(w, t)
=============================================================================
