------------------------------ MODULE Transfer ------------------------------
(***************************************************************************)
(* Songs sent by other peers (internal/network/network.go, transfer.go)    *)
(* into the music directory of a daemon with its Library.  Each stream has *)
(* a goroutine that copies into a temporary file, checks length and hash,  *)
(* renames the file and rescans.  Streams break, and the daemon crashes.   *)
(*                                                                         *)
(* Files that are not audio files stand for the names CreateTemp finds.    *)
(***************************************************************************)
EXTENDS Library

CONSTANTS
  Sent,        \* final names: peer, title and extension of what peers send
  Versions,    \* contents a sender has had in the file it sends as a name
  Torn,        \* content of a file that is not complete; its tags may be readable
  NoHash       \* the hash in the metadata of a sender that computes none

ASSUME TransferAssumption ==
  /\ Sent \subseteq AudioFiles
  /\ \A f \in Sent \cup (Files \ AudioFiles) : UserVersions[f] = {}
  /\ Versions \in [Sent -> SUBSET Contents]
  /\ Torn \in Contents
  /\ \A f \in Files : Torn \notin UserVersions[f]
  /\ \A n \in Sent : Torn \notin Versions[n]
  /\ NoHash \notin Contents

TempFiles == Files \ AudioFiles

\* what a worker may be doing
Maps(X, Y) == UNION {[D -> Y] : D \in SUBSET X}
SongMaps == Maps(Contents, Files)
IndexMaps == Maps(Titles, Contents)
Scans ==
  [step : {"walk", "swapIndex"}, todo : SUBSET AudioFiles, songs : SongMaps, index : IndexMaps]
Extracts == [step : {"extract"}, path : AudioFiles]
Stores ==
  [step : {"storeSong", "storeIndex"}, path : AudioFiles, title : Titles, hash : Contents]
Lookups ==
  [step : {"removeIndex", "removeSong", "findSong", "found"}, title : Titles, hash : Contents]
Misses == [step : {"missing"}, title : Titles]
Offers == [name : Sent, hash : Contents \cup {NoHash}, content : Contents]
Streams == [step : {"copy", "rename"}, offer : Offers, tmp : TempFiles]
Rescans == [step : {"rescan"}]
Operations ==
  Scans \cup Extracts \cup Stores \cup Lookups \cup Misses \cup Streams \cup Rescans
Readings == [path : AudioFiles, title : Titles, content : Contents]

ASSUME OperationAssumption == Idle \notin Operations \cup Readings

VARIABLES
  announced,   \* hashes under which each name was sent
  orphans      \* temporary files that a crash has left behind

transferVars == <<announced, orphans>>
vars == <<libraryVars, transferVars>>

TransferInit == Init /\ announced = [n \in Sent |-> {}] /\ orphans = {}

-----------------------------------------------------------------------------
(***************************************************************************)
(* ShareSong announces the hash and the length its library holds and then  *)
(* sends what the file holds when it is opened, which may be another       *)
(* version.  The receiver reads as many bytes as were announced: of a      *)
(* longer version only the beginning.  It does not insist on a hash.       *)
(***************************************************************************)
ShareSong(n) ==
  [name : {n}, hash : Versions[n] \cup {NoHash}, content : Versions[n] \cup {Torn}]

FreeNames == {f \in TempFiles : disk[f] = NoFile}

\* the metadata frame is read and checked, the temporary file created
HandleStream(w, offer) ==
  /\ watching
  /\ Event
  /\ FreeNames # {}
  /\ LET tmp == Min(FreeNames) IN
     /\ Begin(w, [step |-> "copy", offer |-> offer, tmp |-> tmp])
     /\ disk' = [disk EXCEPT ![tmp] = Torn]
     /\ Notify(tmp)
  /\ announced' = [announced EXCEPT ![offer.name] = @ \cup {offer.hash}]
  /\ UNCHANGED <<songs, index, watching, reading, orphans>>

BugMatches(offer) == TRUE

Matches(offer) == offer.hash = NoHash \/ offer.hash = offer.content

\* as many bytes as announced have arrived, and the hash is right if there is one
Copy(w) ==
  /\ At(w, "copy") /\ Matches(op[w].offer)
  /\ disk' = [disk EXCEPT ![op[w].tmp] = op[w].offer.content]
  /\ Notify(op[w].tmp)
  /\ Become(w, [op[w] EXCEPT !.step = "rename"])
  /\ UNCHANGED <<songs, index, watching, reading, events, transferVars>>

BugAbort(w) ==
  /\ At(w, "copy") \/ At(w, "rename")
  /\ Become(w, Idle)
  /\ UNCHANGED <<disk, songs, index, pending, watching, reading, events, transferVars>>

\* the stream breaks or falls silent, the hash is wrong, or a call of the
\* file system fails: the deferred function removes the temporary file
Abort(w) ==
  /\ At(w, "copy") \/ At(w, "rename")
  /\ disk' = [disk EXCEPT ![op[w].tmp] = NoFile]
  /\ Become(w, Idle)
  /\ UNCHANGED <<songs, index, pending, watching, reading, events, transferVars>>

\* the new name is an event for the watcher
Rename(w) ==
  /\ At(w, "rename")
  /\ LET n == op[w].offer.name IN
     /\ disk' = [disk EXCEPT ![n] = disk[op[w].tmp], ![op[w].tmp] = NoFile]
     /\ Notify(n)
  /\ Become(w, [step |-> "rescan"])
  /\ UNCHANGED <<songs, index, watching, reading, events, transferVars>>

ScanAfterTransfer(w) ==
  /\ At(w, "rescan")
  /\ Become(w, Walk(disk))
  /\ UNCHANGED <<disk, songs, index, pending, watching, reading, events, transferVars>>

\* the next NewLibrary scans before anything else happens
Crash ==
  /\ Event
  /\ orphans' = {f \in TempFiles : disk[f] # NoFile}
  /\ songs' = EmptyMap /\ index' = EmptyMap
  /\ pending' = {} /\ watching' = FALSE
  /\ op' = [w \in Workers |-> IF w = Main THEN Walk(disk) ELSE Idle]
  /\ reading' = [w \in Workers |-> Idle]
  /\ UNCHANGED <<disk, announced>>

TransferStep(w) == Copy(w) \/ Abort(w) \/ Rename(w) \/ ScanAfterTransfer(w)

TransferNext ==
  \/ Next /\ UNCHANGED transferVars
  \/ \E w \in Receivers :
       \/ TransferStep(w)
       \/ \E n \in Sent : \E offer \in ShareSong(n) : HandleStream(w, offer)

=============================================================================
