---------------------------- MODULE SharingProofs ----------------------------
(***************************************************************************)
(* The safety properties of Sharing for any number of files, contents,     *)
(* workers, streams and crashes.                                           *)
(***************************************************************************)
EXTENDS Sharing, FiniteSetTheorems, TLAPS

CoreTypes ==
  /\ disk \in [Files -> Contents \cup {NoFile}]
  /\ songs \in SongMaps /\ index \in IndexMaps
  /\ pending \subseteq AudioFiles
  /\ op \in [Workers -> Operations \cup {Idle}]
  /\ reading \in [Workers -> Readings \cup {Idle}]
  /\ announced \in [Sent -> SUBSET (Contents \cup {NoHash})] /\ orphans \subseteq TempFiles

TInv ==
  /\ CoreTypes
  /\ fresh \in [Workers -> SUBSET AudioFiles] /\ settled \subseteq AudioFiles

-----------------------------------------------------------------------------
(* Maps and numbers. *)

LEMMA MapFacts ==
  ASSUME NEW X, NEW Y, NEW m \in Maps(X, Y)
  PROVE  /\ DOMAIN m \subseteq X /\ \A x \in DOMAIN m : m[x] \in Y
         /\ m = [x \in DOMAIN m |-> m[x]]
BY DEF Maps

LEMMA IsMap ==
  ASSUME NEW X, NEW Y, NEW D \in SUBSET X, NEW m \in [D -> Y]
  PROVE  m \in Maps(X, Y)
BY DEF Maps

LEMMA EmptyIsMap ==
  ASSUME NEW X, NEW Y
  PROVE  EmptyMap \in Maps(X, Y) /\ DOMAIN EmptyMap = {}
<1>1. EmptyMap \in [{} -> Y]
  BY DEF EmptyMap
<1> QED BY <1>1, IsMap DEF EmptyMap

LEMMA PutIsMap ==
  ASSUME NEW X, NEW Y, NEW m \in Maps(X, Y), NEW x \in X, NEW v \in Y
  PROVE  Put(m, x, v) \in Maps(X, Y)
<1>1. Put(m, x, v) \in [DOMAIN m \cup {x} -> Y]
  BY MapFacts DEF Put
<1>2. DOMAIN m \cup {x} \in SUBSET X
  BY MapFacts
<1> QED BY <1>1, <1>2, IsMap DEF Put

LEMMA DropIsMap ==
  ASSUME NEW X, NEW Y, NEW m \in Maps(X, Y), NEW x
  PROVE  Drop(m, x) \in Maps(X, Y)
<1>1. Drop(m, x) \in [DOMAIN m \ {x} -> Y]
  BY MapFacts DEF Drop, Restrict
<1>2. DOMAIN m \ {x} \in SUBSET X
  BY MapFacts
<1> QED BY <1>1, <1>2, IsMap DEF Drop, Restrict

\* The order of strict inclusion is well-founded on the finite sets of what is
\* below an element, so there is a least one.
LEMMA MinIsElement ==
  ASSUME NEW S \in SUBSET Files, S # {}
  PROVE  Min(S) \in S
<1> DEFINE Below(x) == {y \in S : y <= x}
           T == {Below(x) : x \in S}
<1>1. S \subseteq Nat /\ IsFiniteSet(S)
  BY FS_Subset, LibraryAssumption
<1>2. \A x \in S : Below(x) \in FiniteSubsetsOf(S)
  BY <1>1, FS_Subset DEF FiniteSubsetsOf
<1>3. T \subseteq FiniteSubsetsOf(S) /\ T # {}
  BY <1>2
<1>4. PICK B \in T : \A C \in T : <<C, B>> \notin StrictSubsetOrdering(S)
  <2> HIDE DEF T
  <2> QED BY <1>3, FS_StrictSubsetOrderingWellFounded, WFMin
<1>5. PICK x \in S : B = Below(x)
  OBVIOUS
<1>6. ASSUME NEW y \in S, y < x PROVE FALSE
  <2>1. x \in Below(x) /\ x \notin Below(y)
    BY <1>1, <1>6
  <2>2. Below(y) \subseteq Below(x)
    <3> SUFFICES ASSUME NEW z \in S, z <= y PROVE z <= x
      OBVIOUS
    <3>1. x \in Nat /\ y \in Nat /\ z \in Nat
      BY <1>1
    <3> QED BY <1>6, <3>1
  <2>3. <<Below(y), B>> \in StrictSubsetOrdering(S)
    BY <1>5, <2>1, <2>2 DEF StrictSubsetOrdering
  <2>4. Below(y) \in T
    OBVIOUS
  <2> QED BY <1>4, <2>3, <2>4
<1>7. \A y \in S : x <= y
  BY <1>1, <1>6
<1> QED BY <1>7 DEF Min

-----------------------------------------------------------------------------
(* Types. *)

LEMMA OperationTypes ==
  ASSUME CoreTypes, NEW w \in Workers
  PROVE  /\ At(w, "walk") \/ At(w, "swapIndex") => op[w] \in Scans
         /\ At(w, "extract") => op[w] \in Extracts
         /\ At(w, "storeSong") \/ At(w, "storeIndex") => op[w] \in Stores
         /\ At(w, "removeIndex") \/ At(w, "removeSong") \/ At(w, "findSong") \/ At(w, "found")
            => op[w] \in Lookups
         /\ At(w, "missing") => op[w] \in Misses
         /\ At(w, "copy") \/ At(w, "rename") => op[w] \in Streams
BY DEF CoreTypes, At, Operations, Scans, Extracts, Stores, Lookups, Misses, Streams, Rescans

\* What a worker extracts is an audio file.
LEMMA SourceType ==
  ASSUME CoreTypes, NEW w \in Workers, Extracting(w)
  PROVE  Source(w) \in AudioFiles /\ Source(w) \in Files
<1>1. CASE At(w, "walk")
  <2>1. op[w] \in Scans /\ op[w].todo # {} /\ op[w].todo \subseteq AudioFiles
    BY <1>1, OperationTypes DEF Extracting, At, Scans
  <2>2. Min(op[w].todo) \in op[w].todo
    BY <2>1, MinIsElement, LibraryAssumption
  <2> QED BY <1>1, <2>1, <2>2, LibraryAssumption DEF Source
<1>2. CASE ~At(w, "walk")
  BY <1>2, OperationTypes, LibraryAssumption DEF Extracting, Source, Extracts
<1> QED BY <1>1, <1>2

\* A step of one worker leaves the others where they are.
LEMMA Moved ==
  ASSUME CoreTypes, NEW w \in Workers, NEW o, Become(w, o)
  PROVE  /\ op'[w] = o /\ \A v \in Workers \ {w} : op'[v] = op[v]
         /\ o \in Operations \cup {Idle} => op' \in [Workers -> Operations \cup {Idle}]
BY DEF CoreTypes, Become

LEMMA WalkType ==
  ASSUME NEW d
  PROVE  Walk(d) \in Scans /\ Walk(d).step = "walk" /\ Walk(d).todo = AudioOnDisk(d)
         /\ Walk(d).songs = EmptyMap /\ Walk(d).index = EmptyMap
BY EmptyIsMap DEF Walk, Scans, SongMaps, IndexMaps, AudioOnDisk

\* A scan that has visited a file is still a scan.
LEMMA WalkGoesOn ==
  ASSUME CoreTypes, NEW w \in Workers, WalkFile(w)
  PROVE  /\ op'[w] \in Scans /\ op'[w] # Idle /\ op'[w].step = "walk"
         /\ Become(w, op'[w]) /\ At(w, "walk")
<1>1. op[w] \in Scans /\ op[w].step = "walk"
  BY OperationTypes DEF WalkFile, At
<1>2. PICK new \in Scans : Become(w, new) /\ new.step = "walk"
  <2> DEFINE r == reading[w]
             read == [op[w] EXCEPT !.todo = @ \ {r.path}, !.songs = Put(@, r.content, r.path),
                                   !.index = Put(@, r.title, r.content)]
             skipped == [op[w] EXCEPT !.todo = @ \ {Source(w)}]
  <2>1. CASE r # Idle /\ Become(w, read)
    <3>1. r \in Readings
      BY <2>1 DEF CoreTypes
    <3>2. r.path \in Files /\ r.title \in Titles /\ r.content \in Contents
      BY <3>1, LibraryAssumption DEF Readings
    <3>3. op[w].songs \in SongMaps /\ op[w].index \in IndexMaps
      BY <1>1 DEF Scans
    <3>4. /\ Put(op[w].songs, r.content, r.path) \in SongMaps
          /\ Put(op[w].index, r.title, r.content) \in IndexMaps
      <4> HIDE DEF r
      <4> QED BY <3>2, <3>3, PutIsMap DEF SongMaps, IndexMaps
    <3>5. read \in Scans /\ read.step = "walk"
      BY <1>1, <3>4 DEF Scans
    <3> QED BY <2>1, <3>5
  <2>2. CASE Become(w, skipped)
    <3>1. skipped \in Scans /\ skipped.step = "walk"
      BY <1>1 DEF Scans
    <3> QED BY <2>2, <3>1
  <2> QED BY <2>1, <2>2 DEF WalkFile
<1>3. op'[w] = new
  BY <1>2, Moved
<1> QED BY <1>2, <1>3, OperationAssumption DEF WalkFile, Operations

LEMMA TypesInit == SharingInit => TInv
<1> SUFFICES ASSUME SharingInit PROVE TInv
  OBVIOUS
<1> USE DEF SharingInit, TransferInit, Init
<1>1. disk \in [Files -> Contents \cup {NoFile}] /\ pending \subseteq AudioFiles
  OBVIOUS
<1>2. songs \in SongMaps /\ index \in IndexMaps
  BY EmptyIsMap DEF SongMaps, IndexMaps
<1>3. op \in [Workers -> Operations \cup {Idle}]
  BY WalkType DEF Operations
<1>4. reading \in [Workers -> Readings \cup {Idle}]
  OBVIOUS
<1> QED BY <1>1, <1>2, <1>3, <1>4 DEF TInv, CoreTypes

LEMMA TypesStep == TInv /\ [SharingNext]_allVars => TInv'
<1> SUFFICES ASSUME TInv, [SharingNext]_allVars PROVE TInv'
  OBVIOUS
<1> USE DEF TInv
<1>1. CASE UNCHANGED allVars
  BY <1>1 DEF CoreTypes, allVars, vars, libraryVars, transferVars, observer
<1> SUFFICES ASSUME SharingNext PROVE TInv'
  BY <1>1
<1>2. fresh' \in [Workers -> SUBSET AudioFiles] /\ settled' \subseteq AudioFiles
  BY DEF SharingNext, Observe, ObserveCrash
<1> SUFFICES ASSUME TransferNext \/ Crash PROVE CoreTypes'
  BY <1>2 DEF SharingNext
<1>3. ASSUME NEW w \in Workers, NEW o \in Operations \cup {Idle}, Become(w, o),
             disk' \in [Files -> Contents \cup {NoFile}], songs' \in SongMaps,
             index' \in IndexMaps, pending' \subseteq AudioFiles,
             reading' = reading \/ CloseFile(w),
             announced' \in [Sent -> SUBSET (Contents \cup {NoHash})], UNCHANGED orphans
      PROVE  CoreTypes'
  BY <1>3, Moved DEF CoreTypes, CloseFile
<1>4. ASSUME NEW f, Notify(f) PROVE pending' \subseteq AudioFiles
  BY <1>4 DEF Notify, CoreTypes
<1>5. ASSUME NEW f \in AudioFiles, UNCHANGED transferVars,
             UserDeletes(f) \/ \E c \in UserVersions[f] : UserWrites(f, c)
      PROVE  CoreTypes'
  <2>1. f \in Files /\ UserVersions[f] \subseteq Contents
    BY LibraryAssumption
  <2>2. ASSUME NEW c \in UserVersions[f], UserWrites(f, c)
        PROVE  reading' \in [Workers -> Readings \cup {Idle}]
    <3>1. ASSUME NEW w \in Workers PROVE reading'[w] \in Readings \cup {Idle}
      BY <2>1, <2>2 DEF UserWrites, CoreTypes, Opened, Readings
    <3> QED BY <2>2, <3>1 DEF UserWrites
  <2> QED BY <1>4, <1>5, <2>1, <2>2 DEF UserDeletes, UserWrites, CoreTypes, transferVars
<1>6. CASE StartWatcher /\ UNCHANGED transferVars
  BY <1>6 DEF StartWatcher, CoreTypes, transferVars
<1>7. ASSUME NEW w \in Workers, WorkerStep(w), UNCHANGED transferVars PROVE CoreTypes'
  <2> USE <1>7 DEF transferVars
  <2>1. CASE WalkFile(w)
    <3>1. op'[w] \in Operations /\ Become(w, op'[w])
      BY <2>1, WalkGoesOn DEF Operations
    <3> QED BY <1>3, <2>1, <3>1 DEF WalkFile, CoreTypes
  <2>2. CASE SwapSongs(w)
    <3>1. op[w] \in Scans
      BY <2>2, OperationTypes DEF SwapSongs
    <3>2. [op[w] EXCEPT !.step = "swapIndex"] \in Scans /\ op[w].songs \in SongMaps
      BY <3>1 DEF Scans
    <3> QED BY <1>3, <2>2, <3>2 DEF SwapSongs, CoreTypes, Operations
  <2>3. CASE SwapIndex(w)
    <3>1. op[w].index \in IndexMaps
      BY <2>3, OperationTypes DEF SwapIndex, Scans
    <3>2. ASSUME NEW v \in Workers PROVE op'[v] \in Operations \cup {Idle}
      <4>1. CASE At(v, "removeIndex")
        <5>1. op[v] \in Lookups
          BY <4>1, OperationTypes
        <5>2. [op[v] EXCEPT !.step = "removeSong"] \in Lookups
          BY <5>1 DEF Lookups
        <5>3. op'[v] \in {Idle, [op[v] EXCEPT !.step = "removeSong"]}
          BY <2>3, <4>1 DEF SwapIndex
        <5> QED BY <5>2, <5>3 DEF Operations
      <4>2. CASE ~At(v, "removeIndex")
        <5>1. op'[v] \in {Idle, op[v]}
          BY <2>3, <4>2 DEF SwapIndex
        <5> QED BY <5>1 DEF CoreTypes
      <4> QED BY <4>1, <4>2
    <3>3. op' \in [Workers -> Operations \cup {Idle}]
      BY <2>3, <3>2 DEF SwapIndex
    <3> QED BY <2>3, <3>1, <3>3 DEF SwapIndex, CoreTypes
  <2>4. CASE Extract(w)
    <3>1. PICK o \in Stores \cup {Idle} : Become(w, o)
      <4>1. CASE reading[w] # Idle
        <5>1. reading[w] \in Readings
          BY <4>1 DEF CoreTypes
        <5> QED BY <2>4, <5>1 DEF Extract, Stores, Readings
      <4>2. CASE reading[w] = Idle
        BY <2>4, <4>2 DEF Extract
      <4> QED BY <4>1, <4>2
    <3> QED BY <1>3, <2>4, <3>1 DEF Extract, CoreTypes, Operations
  <2>5. CASE StoreSong(w)
    <3>1. op[w] \in Stores
      BY <2>5, OperationTypes DEF StoreSong
    <3>2. /\ [op[w] EXCEPT !.step = "storeIndex"] \in Stores
          /\ op[w].hash \in Contents /\ op[w].path \in Files
      BY <3>1, LibraryAssumption DEF Stores
    <3>3. \A h \in Contents, p \in Files : Put(songs, h, p) \in SongMaps
      BY PutIsMap DEF CoreTypes, SongMaps
    <3> QED BY <1>3, <2>5, <3>2, <3>3 DEF StoreSong, CoreTypes, Operations
  <2>6. CASE StoreIndex(w)
    <3>1. op[w].hash \in Contents /\ op[w].title \in Titles
      BY <2>6, OperationTypes DEF StoreIndex, Stores
    <3>2. Put(index, op[w].title, op[w].hash) \in IndexMaps
      BY <3>1, PutIsMap DEF CoreTypes, IndexMaps
    <3> QED BY <1>3, <2>6, <3>2 DEF StoreIndex, CoreTypes
  <2>7. CASE RemoveIndex(w)
    <3>1. op[w] \in Lookups
      BY <2>7, OperationTypes DEF RemoveIndex
    <3>2. [op[w] EXCEPT !.step = "removeSong"] \in Lookups
      BY <3>1 DEF Lookups
    <3>3. Drop(index, op[w].title) \in IndexMaps
      BY DropIsMap DEF CoreTypes, IndexMaps
    <3> QED BY <1>3, <2>7, <3>2, <3>3 DEF RemoveIndex, CoreTypes, Operations
  <2>8. CASE RemoveEntry(w)
    <3>1. Drop(songs, op[w].hash) \in SongMaps
      BY DropIsMap DEF CoreTypes, SongMaps
    <3> QED BY <1>3, <2>8, <3>1 DEF RemoveEntry, CoreTypes
  <2>9. CASE FindLoad(w)
    <3>1. op[w] \in Lookups
      BY <2>9, OperationTypes DEF FindLoad
    <3>2. [op[w] EXCEPT !.step = "found"] \in Lookups /\ NotFound(op[w].title) \in Misses
      BY <3>1 DEF Lookups, Misses, NotFound
    <3> QED BY <1>3, <2>9, <3>2 DEF FindLoad, CoreTypes, Operations
  <2>10. CASE FindReturn(w) \/ ScanFails(w)
    BY <1>3, <2>10 DEF FindReturn, ScanFails, CoreTypes
  <2>11. CASE ReadTags(w)
    <3> DEFINE f == Source(w)
               r == [path |-> f, title |-> TitleOf[disk[f]], content |-> disk[f]]
    <3>1. f \in AudioFiles /\ f \in Files
      BY <2>11, SourceType DEF ReadTags
    <3>2. disk[f] \in Contents
      BY <2>11, <3>1 DEF ReadTags, CoreTypes
    <3>3. r \in Readings
      BY <3>1, <3>2 DEF Readings, Titles
    <3>4. reading' = [reading EXCEPT ![w] = r]
      BY <2>11 DEF ReadTags
    <3> HIDE DEF r
    <3> QED BY <2>11, <3>3, <3>4 DEF ReadTags, CoreTypes
  <2> QED
    BY <2>1, <2>2, <2>3, <2>4, <2>5, <2>6, <2>7, <2>8, <2>9, <2>10, <2>11 DEF WorkerStep
<1>8. ASSUME NEW w \in Workers, NEW f \in AudioFiles, FireTimer(w, f) \/ LibraryAdd(w, f),
             UNCHANGED transferVars
      PROVE  CoreTypes'
  <2>1. [step |-> "extract", path |-> f] \in Operations
    BY DEF Operations, Extracts
  <2> QED BY <1>3, <1>8, <2>1 DEF FireTimer, LibraryAdd, Begin, Become, CoreTypes, transferVars
<1>9. ASSUME NEW w \in Workers, Rescan(w), UNCHANGED transferVars PROVE CoreTypes'
  BY <1>3, <1>9, WalkType DEF Rescan, Begin, Become, CoreTypes, Operations, transferVars
<1>10. ASSUME NEW w \in Workers, NEW t \in Titles, RemoveLookup(w, t) \/ FindLookup(w, t),
              UNCHANGED transferVars
       PROVE  CoreTypes'
  <2>1. t \in DOMAIN index => index[t] \in Contents
    BY MapFacts DEF CoreTypes, IndexMaps
  <2>2. /\ t \in DOMAIN index =>
             /\ [step |-> "removeIndex", title |-> t, hash |-> index[t]] \in Operations
             /\ [step |-> "findSong", title |-> t, hash |-> index[t]] \in Operations
        /\ NotFound(t) \in Operations
    BY <2>1 DEF Operations, Lookups, Misses, NotFound
  <2> QED
    BY <1>3, <1>10, <2>2 DEF RemoveLookup, FindLookup, Begin, Become, CoreTypes, transferVars
<1>11. ASSUME NEW w \in Workers, TransferStep(w) PROVE CoreTypes'
  <2>1. CASE Copy(w) \/ Abort(w) \/ Rename(w)
    <3>1. /\ op[w] \in Streams /\ op[w].tmp \in Files /\ op[w].offer.name \in Files
          /\ op[w].offer.content \in Contents
      BY <2>1, OperationTypes, LibraryAssumption, TransferAssumption
      DEF Copy, Abort, Rename, Streams, Offers, TempFiles
    <3>2. [op[w] EXCEPT !.step = "rename"] \in Operations /\ [step |-> "rescan"] \in Operations
      BY <3>1 DEF Operations, Streams, Rescans
    <3>3. disk' \in [Files -> Contents \cup {NoFile}] /\ pending' \subseteq AudioFiles
      BY <1>4, <2>1, <3>1 DEF Copy, Abort, Rename, CoreTypes
    <3> QED
      BY <1>3, <2>1, <3>2, <3>3 DEF Copy, Abort, Rename, CoreTypes, transferVars
  <2>2. CASE ScanAfterTransfer(w)
    BY <1>3, <2>2, WalkType DEF ScanAfterTransfer, CoreTypes, Operations, transferVars
  <2> QED BY <1>11, <2>1, <2>2 DEF TransferStep
<1>12. ASSUME NEW w \in Workers, NEW n \in Sent, NEW offer \in ShareSong(n),
              HandleStream(w, offer)
       PROVE  CoreTypes'
  <2> DEFINE tmp == Min(FreeNames)
  <2>1. offer \in Offers
    BY TransferAssumption DEF ShareSong, Offers
  <2>2. tmp \in TempFiles /\ tmp \in Files
    BY <1>12, MinIsElement DEF HandleStream, FreeNames, TempFiles
  <2>3. Become(w, [step |-> "copy", offer |-> offer, tmp |-> tmp])
    BY <1>12 DEF HandleStream, Begin, Become
  <2>4. [step |-> "copy", offer |-> offer, tmp |-> tmp] \in Operations
    BY <2>1, <2>2 DEF Operations, Streams
  <2>5. disk' \in [Files -> Contents \cup {NoFile}] /\ pending' \subseteq AudioFiles
    BY <1>4, <1>12, <2>2, TransferAssumption DEF HandleStream, CoreTypes
  <2>6. announced' \in [Sent -> SUBSET (Contents \cup {NoHash})]
    BY <1>12, <2>1 DEF HandleStream, CoreTypes, Offers
  <2> QED BY <1>3, <1>12, <2>3, <2>4, <2>5, <2>6 DEF HandleStream, CoreTypes
<1>13. CASE Crash
  <2>1. songs' \in SongMaps /\ index' \in IndexMaps
    BY <1>13, EmptyIsMap DEF Crash, SongMaps, IndexMaps
  <2>2. op' \in [Workers -> Operations \cup {Idle}]
    BY <1>13, WalkType DEF Crash, Operations
  <2>3. reading' \in [Workers -> Readings \cup {Idle}]
    BY <1>13 DEF Crash
  <2> QED BY <1>13, <2>1, <2>2, <2>3 DEF Crash, CoreTypes, TempFiles
<1> QED
  BY <1>5, <1>6, <1>7, <1>8, <1>9, <1>10, <1>11, <1>12, <1>13
  DEF TransferNext, Next, Workers

-----------------------------------------------------------------------------
(* Streams: who receives has a temporary file of its own, which holds what was
   announced, if a hash was, as soon as it is to be renamed. *)

Receiving(w) == At(w, "copy") \/ At(w, "rename")

Stream(w) ==
  LET offer == op[w].offer
  IN /\ offer.hash \in announced[offer.name] /\ offer.hash # Torn
     /\ disk[op[w].tmp] # NoFile /\ op[w].tmp \notin orphans
     /\ At(w, "rename") => offer.hash = NoHash \/ disk[op[w].tmp] = offer.hash

StreamInv ==
  /\ \A w \in Workers : Receiving(w) => Stream(w)
  /\ \A v, w \in Workers :
       v # w /\ Receiving(v) /\ Receiving(w) => op[v].tmp # op[w].tmp
  /\ \A f \in TempFiles : disk[f] # NoFile =>
       f \in orphans \/ \E w \in Workers : Receiving(w) /\ op[w].tmp = f
  /\ \A f \in orphans : disk[f] # NoFile
  /\ ReceivedIsAnnounced

LEMMA StreamInit == SharingInit => StreamInv
<1> SUFFICES ASSUME SharingInit PROVE StreamInv
  OBVIOUS
<1>1. \A w \in Workers : ~Receiving(w)
  BY DEF SharingInit, TransferInit, Init, Receiving, At, Walk
<1>2. \A f \in TempFiles \cup Sent : disk[f] = NoFile
  BY TransferAssumption, LibraryAssumption DEF SharingInit, TransferInit, Init, TempFiles
<1> QED BY <1>1, <1>2 DEF StreamInv, ReceivedIsAnnounced, SharingInit, TransferInit

\* What has nothing to do with streams.
LEMMA StreamsKept ==
  ASSUME TInv, StreamInv, UNCHANGED transferVars,
         \A f \in TempFiles \cup Sent : disk'[f] = disk[f],
         \A v \in Workers : /\ Receiving(v)' => Receiving(v) /\ op'[v] = op[v]
                            /\ Receiving(v) => Receiving(v)'
  PROVE  StreamInv'
<1>1. ASSUME NEW w \in Workers, Receiving(w)' PROVE Stream(w)'
  <2>1. Receiving(w) /\ op'[w] = op[w] /\ Stream(w) /\ op[w].tmp \in TempFiles
    BY <1>1, OperationTypes DEF StreamInv, TInv, Receiving, Streams
  <2> QED BY <2>1 DEF Stream, At, transferVars
<1>2. ReceivedIsAnnounced'
  BY DEF StreamInv, ReceivedIsAnnounced, transferVars
<1>3. \A f \in orphans' : f \in TempFiles
  BY DEF TInv, CoreTypes, transferVars
<1> QED BY <1>1, <1>2, <1>3 DEF StreamInv, transferVars

\* A step of one worker that is in no stream, before or after.
LEMMA NoStreamStep ==
  ASSUME TInv, StreamInv, UNCHANGED transferVars, NEW w \in Workers, NEW o, Become(w, o),
         ~Receiving(w), o = Idle \/ o.step \notin {"copy", "rename"},
         \A f \in TempFiles \cup Sent : disk'[f] = disk[f]
  PROVE  StreamInv'
<1>1. op'[w] = o /\ \A v \in Workers \ {w} : op'[v] = op[v]
  BY Moved DEF TInv
<1>2. \A v \in Workers : /\ Receiving(v)' => Receiving(v) /\ op'[v] = op[v]
                         /\ Receiving(v) => Receiving(v)'
  BY <1>1 DEF Receiving, At
<1> QED BY <1>2, StreamsKept

LEMMA StreamStep == TInv /\ StreamInv /\ [SharingNext]_allVars => StreamInv'
<1> SUFFICES ASSUME TInv, StreamInv, [SharingNext]_allVars PROVE StreamInv'
  OBVIOUS
<1> USE DEF TInv
<1>1. CASE UNCHANGED allVars
  BY <1>1, StreamsKept DEF Receiving, At, allVars, vars, libraryVars
<1> SUFFICES ASSUME TransferNext \/ Crash PROVE StreamInv'
  BY <1>1 DEF SharingNext
<1>2. ASSUME NEW f \in AudioFiles, UNCHANGED transferVars,
             UserDeletes(f) \/ \E c \in UserVersions[f] : UserWrites(f, c)
      PROVE  StreamInv'
  <2>1. disk[f] # NoFile \/ UserVersions[f] # {}
    BY <1>2 DEF UserDeletes
  <2>2. ASSUME UserDeletes(f), f \in Sent PROVE StreamInv'
    <3>1. \A g \in TempFiles : disk'[g] = disk[g]
      BY <2>2, LibraryAssumption DEF UserDeletes, TempFiles, CoreTypes
    <3>2. \A v \in Workers : Receiving(v)' <=> Receiving(v)
      BY <2>2 DEF UserDeletes, Receiving, At
    <3>3. ASSUME NEW w \in Workers, Receiving(w)' PROVE Stream(w)'
      <4>1. Stream(w) /\ op[w].tmp \in TempFiles
        BY <3>2, <3>3, OperationTypes DEF StreamInv, Receiving, Streams
      <4> QED BY <1>2, <2>2, <3>1, <4>1 DEF Stream, At, transferVars, UserDeletes
    <3>4. ReceivedIsAnnounced'
      <4>1. \A g \in Sent : disk'[g] \in {NoFile, disk[g]}
        BY <2>2, LibraryAssumption, TransferAssumption DEF UserDeletes, CoreTypes
      <4> QED BY <1>2, <4>1 DEF StreamInv, ReceivedIsAnnounced, transferVars
    <3>5. \A g \in orphans' : g \in TempFiles
      BY <1>2 DEF CoreTypes, transferVars
    <3> QED
      BY <1>2, <2>2, <3>1, <3>2, <3>3, <3>4, <3>5 DEF StreamInv, transferVars, UserDeletes
  <2>3. ASSUME f \notin Sent PROVE StreamInv'
    <3>1. \A g \in TempFiles \cup Sent : disk'[g] = disk[g]
      BY <1>2, <2>3, LibraryAssumption, TransferAssumption
      DEF UserDeletes, UserWrites, TempFiles, CoreTypes
    <3>2. \A v \in Workers : (Receiving(v)' <=> Receiving(v)) /\ op'[v] = op[v]
      BY <1>2 DEF UserDeletes, UserWrites, Receiving, At
    <3> QED BY <1>2, <3>1, <3>2, StreamsKept
  <2> QED BY <1>2, <2>2, <2>3, TransferAssumption
<1>3. CASE StartWatcher /\ UNCHANGED transferVars
  BY <1>3, StreamsKept DEF StartWatcher, Receiving, At
<1>4. ASSUME NEW w \in Workers, WorkerStep(w), UNCHANGED transferVars PROVE StreamInv'
  <2>1. CASE SwapIndex(w)
    <3>1. \A v \in Workers : /\ Receiving(v)' => Receiving(v) /\ op'[v] = op[v]
                             /\ Receiving(v) => Receiving(v)'
      <4> SUFFICES ASSUME NEW v \in Workers
                   PROVE  /\ Receiving(v)' => Receiving(v) /\ op'[v] = op[v]
                          /\ Receiving(v) => Receiving(v)'
        OBVIOUS
      <4>1. CASE v = w
        BY <2>1, <4>1 DEF SwapIndex, Receiving, At
      <4>2. CASE v # w /\ At(v, "removeIndex")
        <5>1. op[v] \in Lookups
          BY <4>2, OperationTypes
        <5>2. op'[v] = [op[v] EXCEPT !.step = "removeSong"]
          BY <2>1, <4>2 DEF SwapIndex
        <5>3. op'[v].step = "removeSong"
          BY <5>1, <5>2 DEF Lookups
        <5> QED BY <4>2, <5>3 DEF Receiving, At
      <4>3. CASE v # w /\ ~At(v, "removeIndex")
        BY <2>1, <4>3 DEF SwapIndex, Receiving, At
      <4> QED BY <4>1, <4>2, <4>3
    <3> QED BY <1>4, <2>1, <3>1, StreamsKept DEF SwapIndex
  <2>2. CASE WalkFile(w)
    <3>1. Become(w, op'[w]) /\ op'[w].step = "walk" /\ ~Receiving(w)
      BY <2>2, WalkGoesOn DEF At, Receiving
    <3> QED BY <1>4, <2>2, <3>1, NoStreamStep DEF WalkFile
  <2>3. ASSUME SwapSongs(w) \/ Extract(w) \/ StoreSong(w) \/ StoreIndex(w) \/ RemoveIndex(w)
                 \/ RemoveEntry(w) \/ FindLoad(w) \/ FindReturn(w) \/ ScanFails(w)
        PROVE  StreamInv'
    <3>1. ~Receiving(w) /\ UNCHANGED disk /\ op[w] \in Operations
      BY <2>3
      DEF SwapSongs, Extract, StoreSong, StoreIndex, RemoveIndex, RemoveEntry, FindLoad, FindReturn,
          ScanFails, Receiving, At, CoreTypes
    <3>2. \A s \in {"swapIndex", "storeIndex", "removeSong", "found"} :
            [op[w] EXCEPT !.step = s].step = s
      BY <3>1 DEF Operations, Scans, Extracts, Stores, Lookups, Misses, Streams, Rescans
    <3>3. PICK o : Become(w, o) /\ (o = Idle \/ o.step \notin {"copy", "rename"})
      BY <2>3, <3>2
      DEF SwapSongs, Extract, StoreSong, StoreIndex, RemoveIndex, RemoveEntry, FindLoad, FindReturn,
          ScanFails, NotFound
    <3> QED BY <1>4, <3>1, <3>3, NoStreamStep
  <2>4. CASE ReadTags(w)
    BY <1>4, <2>4, StreamsKept DEF ReadTags, Receiving, At
  <2> QED BY <1>4, <2>1, <2>2, <2>3, <2>4 DEF WorkerStep
<1>5. ASSUME NEW w \in Workers, NEW o, Begin(w, o), o.step \notin {"copy", "rename"},
             UNCHANGED <<disk, transferVars>>
      PROVE  StreamInv'
  <2>1. ~Receiving(w) /\ Become(w, o)
    BY <1>5 DEF Receiving, At, Begin, Become
  <2> QED BY <1>5, <2>1, NoStreamStep
<1>6. ASSUME NEW w \in Workers, UNCHANGED transferVars,
             \/ \E f \in AudioFiles : FireTimer(w, f) \/ LibraryAdd(w, f)
             \/ \E t \in Titles : RemoveLookup(w, t) \/ FindLookup(w, t)
      PROVE  StreamInv'
  BY <1>5, <1>6 DEF FireTimer, LibraryAdd, RemoveLookup, FindLookup, NotFound
<1>7. ASSUME NEW w \in Workers, Rescan(w), UNCHANGED transferVars PROVE StreamInv'
  BY <1>5, <1>7, WalkType DEF Rescan
<1>8. ASSUME NEW w \in Workers, Receiving(w)
      PROVE  /\ Stream(w) /\ op[w] \in Streams
             /\ op[w].tmp \in TempFiles /\ op[w].tmp \in Files \ AudioFiles
             /\ op[w].offer.name \in Sent /\ op[w].offer.name \in AudioFiles
             /\ \A v \in Workers \ {w} : Receiving(v) =>
                  op[v].tmp \in TempFiles /\ op[v].tmp # op[w].tmp /\ Stream(v)
  BY <1>8, OperationTypes, TransferAssumption
  DEF StreamInv, Receiving, Streams, Offers, TempFiles
<1>9. ASSUME NEW w \in Workers, Copy(w) PROVE StreamInv'
  <2> DEFINE tmp == op[w].tmp
             offer == op[w].offer
  <2>1. At(w, "copy") /\ Receiving(w) /\ (offer.hash = NoHash \/ offer.hash = offer.content)
    BY <1>9 DEF Copy, Receiving, Matches
  <2>2. op'[w] = [op[w] EXCEPT !.step = "rename"] /\ \A v \in Workers \ {w} : op'[v] = op[v]
    BY <1>9, Moved DEF Copy
  <2>3. op'[w].step = "rename" /\ op'[w].offer = offer /\ op'[w].tmp = tmp /\ op'[w] # Idle
    <3>1. op[w] \in Streams
      BY <1>8, <2>1
    <3>2. [op[w] EXCEPT !.step = "rename"] \in Streams
      BY <3>1 DEF Streams
    <3>3. [op[w] EXCEPT !.step = "rename"] # Idle
      BY <3>2, OperationAssumption DEF Operations
    <3> QED BY <2>2, <3>1, <3>3 DEF Streams
  <2>4. /\ disk' = [disk EXCEPT ![tmp] = offer.content] /\ UNCHANGED <<announced, orphans>>
    BY <1>9 DEF Copy, transferVars
  <2>5. /\ disk'[tmp] = offer.content
        /\ \A f \in Files \ {tmp} : disk'[f] = disk[f]
    BY <1>8, <2>1, <2>4 DEF CoreTypes
  <2>6. \A v \in Workers : Receiving(v)' <=> Receiving(v)
    BY <2>1, <2>2, <2>3 DEF Receiving, At
  <2>7. offer.content # NoFile /\ offer.content \in Contents
    BY <1>8, <2>1, LibraryAssumption DEF Streams, Offers
  <2> HIDE DEF tmp, offer
  <2>8. Stream(w)'
    <3>1. Stream(w) /\ tmp = op[w].tmp /\ offer = op[w].offer
      BY <1>8, <2>1 DEF tmp, offer
    <3> QED BY <2>1, <2>3, <2>4, <2>5, <2>7, <3>1 DEF Stream
  <2>9. ASSUME NEW v \in Workers \ {w}, Receiving(v) PROVE Stream(v)' /\ op'[v].tmp # tmp
    <3>1. Stream(v) /\ op[v].tmp \in Files /\ op[v].tmp # tmp /\ op'[v] = op[v]
      BY <1>8, <2>1, <2>2, <2>9 DEF tmp, TempFiles
    <3> QED BY <2>4, <2>5, <3>1 DEF Stream, At
  <2>10. \A f \in TempFiles : disk'[f] # NoFile <=> disk[f] # NoFile
    BY <1>8, <2>1, <2>5, <2>7 DEF Stream, tmp, TempFiles
  <2>11. ReceivedIsAnnounced'
    <3>1. \A n \in Sent : disk'[n] = disk[n]
      BY <1>8, <2>1, <2>5, LibraryAssumption, TransferAssumption DEF tmp
    <3> QED BY <2>4, <3>1 DEF StreamInv, ReceivedIsAnnounced
  <2>12. \A v \in Workers : Receiving(v) => op'[v].tmp = op[v].tmp
    BY <2>2, <2>3 DEF tmp
  <2>13. \A v \in Workers : Receiving(v)' => Stream(v)'
    BY <2>6, <2>8, <2>9
  <2>14. \A f \in orphans' : disk'[f] # NoFile
    BY <2>4, <2>10 DEF StreamInv, CoreTypes
  <2>15. \A f \in TempFiles : disk'[f] # NoFile =>
           f \in orphans' \/ \E v \in Workers : Receiving(v)' /\ op'[v].tmp = f
    BY <2>4, <2>6, <2>10, <2>12 DEF StreamInv
  <2>16. \A v, u \in Workers :
           v # u /\ Receiving(v)' /\ Receiving(u)' => op'[v].tmp # op'[u].tmp
    BY <2>6, <2>12 DEF StreamInv
  <2> QED BY <2>11, <2>13, <2>14, <2>15, <2>16 DEF StreamInv
\* A stream ends, and its temporary file goes.
<1>10. ASSUME NEW w \in Workers, Receiving(w), NEW o, Become(w, o),
              o = Idle \/ o.step = "rescan", UNCHANGED transferVars,
              disk'[op[w].tmp] = NoFile, \A f \in TempFiles \ {op[w].tmp} : disk'[f] = disk[f],
              ReceivedIsAnnounced'
       PROVE  StreamInv'
  <2> DEFINE tmp == op[w].tmp
  <2>1. op'[w] = o /\ \A v \in Workers \ {w} : op'[v] = op[v]
    BY <1>10, Moved
  <2>2. ~Receiving(w)' /\ \A v \in Workers \ {w} : Receiving(v)' <=> Receiving(v)
    BY <1>10, <2>1 DEF Receiving, At
  <2>3. ASSUME NEW v \in Workers, Receiving(v)' PROVE Stream(v)' /\ op'[v] = op[v] /\ Receiving(v)
    <3>1. v # w /\ Receiving(v) /\ op'[v] = op[v]
      BY <2>1, <2>2, <2>3
    <3>2. Stream(v) /\ op[v].tmp \in TempFiles /\ op[v].tmp # tmp
      BY <1>8, <1>10, <3>1
    <3> QED BY <1>10, <3>1, <3>2 DEF Stream, At, transferVars
  <2>4. tmp \notin orphans /\ orphans \subseteq TempFiles
    BY <1>8, <1>10 DEF Stream, CoreTypes
  <2>5. \A f \in orphans' : disk'[f] # NoFile
    BY <1>10, <2>4 DEF StreamInv, transferVars
  <2>6. ASSUME NEW f \in TempFiles, disk'[f] # NoFile
        PROVE  f \in orphans' \/ \E v \in Workers : Receiving(v)' /\ op'[v].tmp = f
    <3>1. f # tmp /\ disk[f] # NoFile
      BY <1>10, <2>6
    <3> QED BY <1>10, <2>1, <2>2, <3>1 DEF StreamInv, transferVars
  <2>7. \A v, u \in Workers :
           v # u /\ Receiving(v)' /\ Receiving(u)' => op'[v].tmp # op'[u].tmp
    BY <2>3 DEF StreamInv
  <2> QED BY <1>10, <2>3, <2>5, <2>6, <2>7 DEF StreamInv
<1>11. ASSUME NEW w \in Workers, Abort(w) PROVE StreamInv'
  <2>1. Receiving(w) /\ Become(w, Idle) /\ UNCHANGED transferVars
    BY <1>11 DEF Abort, Receiving
  <2>2. disk'[op[w].tmp] = NoFile /\ \A f \in Files \ {op[w].tmp} : disk'[f] = disk[f]
    BY <1>8, <1>11, <2>1 DEF Abort, CoreTypes
  <2>3. \A n \in Sent : disk'[n] = disk[n]
    BY <1>8, <2>1, <2>2, LibraryAssumption, TransferAssumption
  <2>4. ReceivedIsAnnounced'
    BY <2>1, <2>3 DEF StreamInv, ReceivedIsAnnounced, transferVars
  <2> QED BY <1>10, <2>1, <2>2, <2>4 DEF TempFiles
<1>12. ASSUME NEW w \in Workers, Rename(w) PROVE StreamInv'
  <2> DEFINE tmp == op[w].tmp
             n == op[w].offer.name
  <2>1. /\ At(w, "rename") /\ Receiving(w) /\ Become(w, [step |-> "rescan"])
        /\ UNCHANGED transferVars /\ disk' = [disk EXCEPT ![n] = disk[tmp], ![tmp] = NoFile]
    BY <1>12 DEF Rename, Receiving
  <2>2. /\ n \in Sent /\ n \in AudioFiles /\ tmp \in Files \ AudioFiles
        /\ disk[tmp] \in announced[n] \/ NoHash \in announced[n]
    BY <1>8, <2>1 DEF Stream
  <2>3. /\ disk'[tmp] = NoFile /\ disk'[n] = disk[tmp]
        /\ \A f \in Files \ {tmp, n} : disk'[f] = disk[f]
    <3> HIDE DEF n, tmp
    <3> QED BY <2>1, <2>2, LibraryAssumption DEF CoreTypes
  <2>4. ReceivedIsAnnounced'
    <3> SUFFICES ASSUME NEW m \in Sent, disk'[m] # NoFile
                 PROVE  disk'[m] \in announced[m] \/ NoHash \in announced[m]
      BY <2>1 DEF ReceivedIsAnnounced, transferVars
    <3>1. m \in Files /\ m # tmp
      BY <2>2, LibraryAssumption, TransferAssumption
    <3>2. CASE m = n
      BY <2>2, <2>3, <3>2
    <3>3. CASE m # n
      BY <2>3, <3>1, <3>3 DEF StreamInv, ReceivedIsAnnounced
    <3> QED BY <3>2, <3>3
  <2>5. \A f \in TempFiles \ {tmp} : disk'[f] = disk[f]
    BY <2>2, <2>3 DEF TempFiles
  <2> QED BY <1>10, <2>1, <2>3, <2>4, <2>5
<1>13. ASSUME NEW w \in Workers, ScanAfterTransfer(w) PROVE StreamInv'
  BY <1>13, WalkType, NoStreamStep DEF ScanAfterTransfer, Receiving, At
<1>14. ASSUME NEW w \in Workers, NEW n \in Sent, NEW offer \in ShareSong(n),
              HandleStream(w, offer)
       PROVE  StreamInv'
  <2> DEFINE o == [step |-> "copy", offer |-> offer, tmp |-> Min(FreeNames)]
  <2>1. PICK tmp \in FreeNames : tmp = Min(FreeNames)
    BY <1>14, MinIsElement DEF HandleStream, FreeNames, TempFiles
  <2>2. /\ tmp \in TempFiles /\ tmp \in Files \ AudioFiles /\ disk[tmp] = NoFile
    BY <2>1 DEF FreeNames, TempFiles
  <2>3. /\ offer \in Offers /\ offer.name = n /\ offer.hash \in Contents \cup {NoHash}
        /\ offer.hash # Torn
    BY TransferAssumption DEF ShareSong, Offers
  <2>4. /\ o \in Operations /\ o # Idle /\ o.step = "copy" /\ o.offer = offer /\ o.tmp = tmp
    BY <2>1, <2>2, <2>3, OperationAssumption DEF Operations, Streams
  <2>5. op[w] = Idle /\ Become(w, o)
    BY <1>14 DEF HandleStream, Begin, Become
  <2> HIDE DEF o
  <2>6. op'[w] = o /\ \A v \in Workers \ {w} : op'[v] = op[v]
    BY <2>5, Moved
  <2>7. /\ Receiving(w)' /\ ~At(w, "rename")' /\ ~Receiving(w)
        /\ \A v \in Workers \ {w} : Receiving(v)' <=> Receiving(v)
    BY <2>4, <2>5, <2>6 DEF Receiving, At
  <2>8. /\ disk'[tmp] = Torn /\ Torn # NoFile /\ \A f \in Files \ {tmp} : disk'[f] = disk[f]
        /\ UNCHANGED orphans
    BY <1>14, <2>1, <2>2, LibraryAssumption, TransferAssumption DEF HandleStream, CoreTypes
  <2>9. offer.hash \in announced'[n] /\ \A m \in Sent : announced[m] \subseteq announced'[m]
    BY <1>14, <2>3 DEF HandleStream, CoreTypes
  <2>10. tmp \notin orphans
    BY <2>2 DEF StreamInv
  <2>11. Stream(w)'
    BY <2>3, <2>4, <2>6, <2>7, <2>8, <2>9, <2>10 DEF Stream
  <2>12. ASSUME NEW v \in Workers \ {w}, Receiving(v)
         PROVE  Stream(v)' /\ op'[v].tmp = op[v].tmp /\ op[v].tmp # tmp
    <3>1. /\ Stream(v) /\ op[v].tmp \in Files /\ op[v].offer.name \in Sent /\ op'[v] = op[v]
      BY <1>8, <2>6, <2>12
    <3>2. op[v].tmp # tmp
      BY <2>2, <3>1 DEF Stream
    <3> QED BY <2>8, <2>9, <3>1, <3>2 DEF Stream, At
  <2>13. ReceivedIsAnnounced'
    <3> SUFFICES ASSUME NEW m \in Sent, disk'[m] # NoFile
                 PROVE  disk'[m] \in announced'[m] \/ NoHash \in announced'[m]
      BY DEF ReceivedIsAnnounced
    <3>1. m \in Files \ {tmp}
      BY <2>2, LibraryAssumption, TransferAssumption
    <3> QED BY <2>8, <2>9, <3>1 DEF StreamInv, ReceivedIsAnnounced
  <2>14. ASSUME NEW f \in TempFiles, disk'[f] # NoFile
         PROVE  f \in orphans' \/ \E v \in Workers : Receiving(v)' /\ op'[v].tmp = f
    <3>1. CASE f = tmp
      BY <2>4, <2>6, <2>7, <3>1
    <3>2. CASE f # tmp
      <4>1. disk[f] # NoFile
        BY <2>8, <2>14, <3>2 DEF TempFiles
      <4>2. CASE f \in orphans
        BY <2>8, <4>2
      <4>3. ASSUME NEW v \in Workers, Receiving(v), op[v].tmp = f
            PROVE  Receiving(v)' /\ op'[v].tmp = f
        BY <2>7, <2>12, <4>3
      <4> QED BY <4>1, <4>2, <4>3 DEF StreamInv
    <3> QED BY <3>1, <3>2
  <2>15. \A f \in orphans' : disk'[f] # NoFile
    BY <2>8, <2>10 DEF StreamInv, CoreTypes, TempFiles
  <2>16. \A v \in Workers : Receiving(v)' => Stream(v)'
    BY <2>7, <2>11, <2>12
  <2>17. \A v, u \in Workers :
           v # u /\ Receiving(v)' /\ Receiving(u)' => op'[v].tmp # op'[u].tmp
    BY <2>4, <2>6, <2>7, <2>12 DEF StreamInv
  <2> QED BY <2>13, <2>14, <2>15, <2>16, <2>17 DEF StreamInv
<1>15. CASE Crash
  <2>1. \A w \in Workers : ~Receiving(w)'
    BY <1>15, WalkType DEF Crash, Receiving, At
  <2> QED BY <1>15, <2>1 DEF Crash, StreamInv, ReceivedIsAnnounced
<1> QED
  BY <1>2, <1>3, <1>4, <1>6, <1>7, <1>9, <1>11, <1>12, <1>13, <1>14, <1>15
  DEF TransferNext, TransferStep, Next, Workers

-----------------------------------------------------------------------------
(* Where something that is not complete may be: in a file that was sent without
   a hash, in the hands of who reads that file, and in the maps under its name. *)

Unhashed == {n \in Sent : NoHash \in announced[n]}

TornFrom(m) == Torn \in DOMAIN m => m[Torn] \in Unhashed

SoundOp(o) ==
  /\ o \in Scans => TornFrom(o.songs) /\ (o.step = "swapIndex" => o.todo = {})
  /\ o \in Stores => (o.hash = Torn => o.path \in Unhashed)

SoundReading(r) == r # Idle => (r.content = Torn => r.path \in Unhashed)

SoundInv ==
  /\ TornFrom(songs)
  /\ \A f \in AudioFiles : disk[f] = Torn => f \in Unhashed
  /\ \A w \in Workers : SoundOp(op[w]) /\ SoundReading(reading[w])

\* The sets of operations have no element in common.
LEMMA OpsApart ==
  ASSUME NEW o \in Operations
  PROVE  /\ o \in Scans <=> o.step \in {"walk", "swapIndex"}
         /\ o \in Stores <=> o.step \in {"storeSong", "storeIndex"}
BY DEF Operations, Scans, Extracts, Stores, Lookups, Misses, Streams, Rescans

LEMMA OtherOps ==
  ASSUME NEW o, o \in Extracts \cup Lookups \cup Misses \cup Streams \cup Rescans \cup {Idle}
  PROVE  SoundOp(o)
<1>1. CASE o # Idle
  <2>1. o \in Operations /\ o.step \notin {"walk", "swapIndex", "storeSong", "storeIndex"}
    BY <1>1 DEF Operations, Extracts, Lookups, Misses, Streams, Rescans
  <2> QED BY <2>1, OpsApart DEF SoundOp
<1>2. CASE o = Idle
  BY <1>2, OperationAssumption DEF SoundOp, Operations
<1> QED BY <1>1, <1>2

LEMMA WalkIsSound ==
  ASSUME NEW d
  PROVE  SoundOp(Walk(d))
<1>1. Walk(d) \in Scans /\ Walk(d).step = "walk" /\ Walk(d).songs = EmptyMap
  BY WalkType
<1>2. DOMAIN EmptyMap = {}
  BY EmptyIsMap
<1>3. Walk(d) \in Operations
  BY <1>1 DEF Operations
<1> QED BY <1>1, <1>2, <1>3, OpsApart DEF SoundOp, TornFrom

LEMMA SoundInit == SharingInit => SoundInv
<1> SUFFICES ASSUME SharingInit PROVE SoundInv
  OBVIOUS
<1>1. \A w \in Workers : (op[w] = Idle \/ op[w] = Walk(disk)) /\ reading[w] = Idle
  BY DEF SharingInit, TransferInit, Init
<1>2. \A w \in Workers : SoundOp(op[w]) /\ SoundReading(reading[w])
  BY <1>1, WalkIsSound, OtherOps DEF SoundReading
<1>3. \A f \in AudioFiles : disk[f] # Torn
  BY LibraryAssumption, TransferAssumption DEF SharingInit, TransferInit, Init
<1> QED BY <1>2, <1>3, EmptyIsMap DEF SharingInit, TransferInit, Init, SoundInv, TornFrom

\* Names are only added to those that were sent without a hash.
LEMMA UnhashedGrows ==
  ASSUME TInv, TransferNext \/ Crash
  PROVE  Unhashed \subseteq Unhashed'
<1>1. ASSUME NEW w \in Workers, NEW n \in Sent, NEW offer \in ShareSong(n),
             HandleStream(w, offer)
      PROVE  Unhashed \subseteq Unhashed'
  BY <1>1 DEF HandleStream, ShareSong, Unhashed, TInv, CoreTypes
<1>2. ASSUME NEW w \in Workers, TransferStep(w) PROVE announced' = announced
  BY <1>2 DEF TransferStep, Copy, Abort, Rename, ScanAfterTransfer, transferVars
<1>3. CASE announced' = announced
  BY <1>3 DEF Unhashed
<1>4. CASE Crash
  BY <1>3, <1>4 DEF Crash
<1> QED BY <1>1, <1>2, <1>3, <1>4 DEF TransferNext, transferVars, Workers

LEMMA SoundStep == TInv /\ StreamInv /\ SoundInv /\ [SharingNext]_allVars => SoundInv'
<1> SUFFICES ASSUME TInv, StreamInv, SoundInv, [SharingNext]_allVars PROVE SoundInv'
  OBVIOUS
<1> USE DEF TInv
<1>1. CASE UNCHANGED allVars
  BY <1>1
  DEF SoundInv, SoundOp, SoundReading, TornFrom, Unhashed, allVars, vars, libraryVars, transferVars
<1> SUFFICES ASSUME TransferNext \/ Crash PROVE SoundInv'
  BY <1>1 DEF SharingNext
<1>2. Unhashed \subseteq Unhashed'
  BY UnhashedGrows
<1>3. \A o : SoundOp(o) => SoundOp(o)'
  <2>1. \A o : SoundOp(o) =>
          /\ o \in Scans =>
               (Torn \in DOMAIN o.songs => o.songs[Torn] \in Unhashed')
               /\ (o.step = "swapIndex" => o.todo = {})
          /\ o \in Stores => (o.hash = Torn => o.path \in Unhashed')
    BY <1>2 DEF SoundOp, TornFrom
  <2> QED BY <2>1 DEF SoundOp, TornFrom
<1> DEFINE Files1 == \A f \in AudioFiles : disk'[f] = Torn => f \in Unhashed'
           Readings1 == \A w \in Workers : SoundReading(reading[w])'
           Ops1 == \A w \in Workers : SoundOp(op[w])'
<1>4. ASSUME \A f \in AudioFiles : disk'[f] \in {disk[f], NoFile} PROVE Files1
  BY <1>2, <1>4, LibraryAssumption, TransferAssumption DEF SoundInv
<1>5. ASSUME reading' = reading \/ \E w \in Workers : CloseFile(w) PROVE Readings1
  BY <1>2, <1>5 DEF SoundInv, SoundReading, CloseFile, CoreTypes
<1>6. ASSUME NEW w \in Workers, NEW o, Become(w, o), SoundOp(o) PROVE Ops1
  <2>1. \A v \in Workers : op'[v] = o \/ op'[v] = op[v]
    BY <1>6, Moved
  <2>2. ASSUME NEW v \in Workers PROVE SoundOp(op[v])'
    <3>1. SoundOp(op'[v])
      BY <1>6, <2>1 DEF SoundInv
    <3> QED BY <1>2, <3>1 DEF SoundOp, TornFrom
  <2> QED BY <2>2
<1>7. ASSUME UNCHANGED op PROVE Ops1
  BY <1>2, <1>7 DEF SoundInv, SoundOp, TornFrom
<1>8. ASSUME UNCHANGED songs PROVE TornFrom(songs)'
  BY <1>2, <1>8 DEF SoundInv, TornFrom
<1>9. ASSUME Files1, Readings1, Ops1, TornFrom(songs)' PROVE SoundInv'
  BY <1>9 DEF SoundInv
<1>10. ASSUME NEW w \in Workers, NEW o, Become(w, o), SoundOp(o), UNCHANGED <<disk, songs>>,
              reading' = reading \/ CloseFile(w)
       PROVE  SoundInv'
  <2>1. Files1 /\ Readings1 /\ Ops1 /\ TornFrom(songs)'
    BY <1>4, <1>5, <1>6, <1>8, <1>10
  <2> HIDE DEF Files1, Readings1, Ops1
  <2> QED BY <1>9, <2>1
<1>11. ASSUME NEW f \in AudioFiles, UserDeletes(f) PROVE SoundInv'
  <2>1. Files1 /\ Readings1 /\ Ops1 /\ TornFrom(songs)'
    BY <1>4, <1>5, <1>7, <1>8, <1>11, LibraryAssumption DEF UserDeletes, CoreTypes
  <2> HIDE DEF Files1, Readings1, Ops1
  <2> QED BY <1>9, <2>1
<1>12. ASSUME NEW f \in AudioFiles, NEW c \in UserVersions[f], UserWrites(f, c) PROVE SoundInv'
  <2>1. c # Torn /\ f \in Files
    BY LibraryAssumption, TransferAssumption
  <2>2. Files1
    BY <1>2, <1>12, <2>1, LibraryAssumption DEF UserWrites, SoundInv, CoreTypes
  <2>3. Readings1
    <3> SUFFICES ASSUME NEW w \in Workers PROVE SoundReading(reading[w])'
      OBVIOUS
    <3>1. CASE reading'[w] = reading[w]
      BY <1>2, <3>1 DEF SoundInv, SoundReading
    <3>2. CASE reading'[w] # reading[w]
      <4>1. Opened(w, f) /\ reading'[w] = [reading[w] EXCEPT !.content = c]
        BY <1>12, <3>2 DEF UserWrites
      <4>2. reading[w] \in Readings
        BY <4>1 DEF Opened, CoreTypes
      <4>3. reading'[w].content = c
        BY <4>1, <4>2 DEF Readings
      <4> QED BY <2>1, <4>3 DEF SoundReading
    <3> QED BY <3>1, <3>2
  <2>4. Ops1 /\ TornFrom(songs)'
    BY <1>7, <1>8, <1>12 DEF UserWrites
  <2> HIDE DEF Files1, Readings1, Ops1
  <2> QED BY <1>9, <2>2, <2>3, <2>4
<1>13. ASSUME NEW w \in Workers, WorkerStep(w) PROVE SoundInv'
  <2>0. SoundOp(op[w]) /\ op[w] \in Operations \cup {Idle} /\ SoundReading(reading[w])
    BY DEF SoundInv, CoreTypes
  <2>1. CASE WalkFile(w)
    <3> DEFINE r == reading[w]
               read == [op[w] EXCEPT !.todo = @ \ {r.path}, !.songs = Put(@, r.content, r.path),
                                     !.index = Put(@, r.title, r.content)]
               skipped == [op[w] EXCEPT !.todo = @ \ {Source(w)}]
    <3>1. /\ op[w] \in Scans /\ op[w].step = "walk" /\ TornFrom(op[w].songs)
      BY <2>0, <2>1, OperationTypes DEF WalkFile, At, SoundOp
    <3>2. CASE r # Idle /\ Become(w, read)
      <4>1. TornFrom(Put(op[w].songs, r.content, r.path))
        BY <2>0, <3>1, <3>2 DEF TornFrom, Put, SoundReading
      <4>2. read.songs = Put(op[w].songs, r.content, r.path) /\ read.step = "walk"
        BY <3>1 DEF Scans
      <4>3. op'[w] = read /\ op'[w] \in Scans
        BY <2>1, <3>2, Moved, WalkGoesOn
      <4>4. read \in Operations
        BY <4>3 DEF Operations
      <4> HIDE DEF read
      <4>5. SoundOp(read)
        BY <4>1, <4>2, <4>4, OpsApart DEF SoundOp
      <4> QED BY <1>10, <2>1, <3>2, <4>5 DEF WalkFile
    <3>3. CASE Become(w, skipped)
      <4>1. skipped \in Scans /\ skipped.songs = op[w].songs /\ skipped.step = "walk"
        BY <3>1 DEF Scans
      <4>2. skipped \in Operations
        BY <4>1 DEF Operations
      <4> HIDE DEF skipped
      <4>3. SoundOp(skipped)
        BY <3>1, <4>1, <4>2, OpsApart DEF SoundOp
      <4> QED BY <1>10, <2>1, <3>3, <4>3 DEF WalkFile
    <3> QED BY <2>1, <3>2, <3>3 DEF WalkFile
  <2>2. CASE SwapSongs(w)
    <3> DEFINE new == [op[w] EXCEPT !.step = "swapIndex"]
    <3>1. op[w] \in Scans /\ op[w].todo = {} /\ TornFrom(op[w].songs)
      BY <2>0, <2>2, OperationTypes DEF SwapSongs, SoundOp
    <3>2. /\ new \in Scans /\ new.todo = {} /\ new.songs = op[w].songs /\ new.step = "swapIndex"
      BY <3>1 DEF Scans
    <3>3. new \in Operations
      BY <3>2 DEF Operations
    <3>4. Become(w, new) /\ songs' = op[w].songs /\ UNCHANGED <<disk, reading>>
      BY <2>2 DEF SwapSongs
    <3> HIDE DEF new
    <3>5. SoundOp(new)
      BY <3>1, <3>2, <3>3, OpsApart DEF SoundOp
    <3>6. TornFrom(songs)'
      BY <1>2, <3>1, <3>4 DEF TornFrom
    <3>7. Files1 /\ Readings1 /\ Ops1
      BY <1>4, <1>5, <1>6, <3>4, <3>5
    <3> HIDE DEF Files1, Readings1, Ops1
    <3> QED BY <1>9, <3>6, <3>7
  <2>3. CASE SwapIndex(w)
    <3>1. ASSUME NEW v \in Workers PROVE SoundOp(op[v])'
      <4>1. op'[v] \in {Idle, op[v], [op[v] EXCEPT !.step = "removeSong"]}
        BY <2>3 DEF SwapIndex
      <4>2. CASE op'[v] = [op[v] EXCEPT !.step = "removeSong"] /\ At(v, "removeIndex") /\ v # w
        <5>1. op[v] \in Lookups
          BY <4>2, OperationTypes
        <5>2. op'[v] \in Lookups
          BY <4>2, <5>1 DEF Lookups
        <5>3. SoundOp(op'[v])
          BY <5>2, OtherOps
        <5> QED BY <1>2, <5>3 DEF SoundOp, TornFrom
      <4>3. CASE op'[v] = Idle
        <5>1. SoundOp(op'[v])
          BY <4>3, OtherOps
        <5> QED BY <1>2, <5>1 DEF SoundOp, TornFrom
      <4>4. CASE op'[v] = op[v]
        BY <1>2, <4>4 DEF SoundInv, SoundOp, TornFrom
      <4> QED BY <2>3, <4>2, <4>3, <4>4 DEF SwapIndex
    <3>2. Files1 /\ Readings1 /\ TornFrom(songs)'
      BY <1>4, <1>5, <1>8, <2>3 DEF SwapIndex
    <3>3. Ops1
      BY <3>1
    <3> HIDE DEF Files1, Readings1, Ops1
    <3> QED BY <1>9, <3>2, <3>3
  <2>4. CASE Extract(w)
    <3> DEFINE r == reading[w]
               new == [step |-> "storeSong", path |-> r.path, title |-> r.title,
                       hash |-> r.content]
    <3>1. CASE Become(w, Idle)
      BY <1>10, <2>4, <3>1, OtherOps DEF Extract
    <3>2. CASE r # Idle /\ Become(w, new)
      <4>1. r \in Readings
        BY <3>2 DEF CoreTypes
      <4>2. /\ new \in Operations /\ new.step = "storeSong" /\ new.hash = r.content
            /\ new.path = r.path
        BY <4>1 DEF Operations, Stores, Readings
      <4> HIDE DEF new
      <4>3. SoundOp(new)
        BY <2>0, <3>2, <4>2, OpsApart DEF SoundOp, SoundReading
      <4> QED BY <1>10, <2>4, <3>2, <4>3 DEF Extract
    <3> QED BY <2>4, <3>1, <3>2 DEF Extract
  <2>5. CASE StoreSong(w)
    <3> DEFINE new == [op[w] EXCEPT !.step = "storeIndex"]
    <3>1. op[w] \in Stores /\ (op[w].hash = Torn => op[w].path \in Unhashed)
      BY <2>0, <2>5, OperationTypes DEF StoreSong, SoundOp
    <3>2. /\ new \in Stores /\ new.step = "storeIndex" /\ new.hash = op[w].hash
          /\ new.path = op[w].path
      BY <3>1 DEF Stores
    <3>3. new \in Operations
      BY <3>2 DEF Operations
    <3>4. Become(w, new) /\ UNCHANGED <<disk, reading>>
      BY <2>5 DEF StoreSong
    <3> HIDE DEF new
    <3>5. SoundOp(new)
      BY <3>1, <3>2, <3>3, OpsApart DEF SoundOp
    <3>6. TornFrom(songs)'
      BY <1>2, <2>5, <3>1 DEF StoreSong, TornFrom, Put, SoundInv
    <3>7. Files1 /\ Readings1 /\ Ops1
      BY <1>4, <1>5, <1>6, <3>4, <3>5
    <3> HIDE DEF Files1, Readings1, Ops1
    <3> QED BY <1>9, <3>6, <3>7
  <2>6. CASE StoreIndex(w) \/ FindReturn(w) \/ ScanFails(w)
    BY <1>10, <2>6, OtherOps DEF StoreIndex, FindReturn, ScanFails
  <2>7. CASE RemoveIndex(w) \/ FindLoad(w)
    <3>1. op[w] \in Lookups
      BY <2>7, OperationTypes DEF RemoveIndex, FindLoad
    <3>2. /\ \A st \in {"removeSong", "found"} : [op[w] EXCEPT !.step = st] \in Lookups
          /\ NotFound(op[w].title) \in Misses
      BY <3>1 DEF Lookups, Misses, NotFound
    <3> QED BY <1>10, <2>7, <3>2, OtherOps DEF RemoveIndex, FindLoad
  <2>8. CASE RemoveEntry(w)
    <3>1. TornFrom(songs)'
      BY <1>2, <2>8 DEF RemoveEntry, Drop, Restrict, SoundInv, TornFrom
    <3>2. Files1 /\ Readings1 /\ Ops1
      BY <1>4, <1>5, <1>6, <2>8, OtherOps DEF RemoveEntry
    <3> HIDE DEF Files1, Readings1, Ops1
    <3> QED BY <1>9, <3>1, <3>2
  <2>9. CASE ReadTags(w)
    <3> DEFINE f == Source(w)
    <3>1. f \in AudioFiles
      BY <2>9, SourceType DEF ReadTags
    <3>2. disk[f] = Torn => f \in Unhashed
      BY <3>1 DEF SoundInv
    <3>3. reading' = [reading EXCEPT ![w] =
                        [path |-> f, title |-> TitleOf[disk[f]], content |-> disk[f]]]
      BY <2>9 DEF ReadTags
    <3> HIDE DEF f
    <3>4. Readings1
      BY <1>2, <3>2, <3>3 DEF SoundInv, SoundReading, CoreTypes
    <3>5. Files1 /\ Ops1 /\ TornFrom(songs)'
      BY <1>4, <1>7, <1>8, <2>9 DEF ReadTags
    <3> HIDE DEF Files1, Readings1, Ops1
    <3> QED BY <1>9, <3>4, <3>5
  <2> QED BY <1>13, <2>1, <2>2, <2>3, <2>4, <2>5, <2>6, <2>7, <2>8, <2>9 DEF WorkerStep
<1>14. ASSUME NEW w \in Workers, NEW f \in AudioFiles, FireTimer(w, f) \/ LibraryAdd(w, f)
       PROVE  SoundInv'
  <2>1. SoundOp([step |-> "extract", path |-> f])
    BY OtherOps DEF Extracts
  <2> QED BY <1>10, <1>14, <2>1 DEF FireTimer, LibraryAdd, Begin, Become
<1>15. ASSUME NEW w \in Workers, Rescan(w) \/ ScanAfterTransfer(w) PROVE SoundInv'
  BY <1>10, <1>15, WalkIsSound DEF Rescan, ScanAfterTransfer, Begin, Become
<1>16. ASSUME NEW w \in Workers, NEW t \in Titles, RemoveLookup(w, t) \/ FindLookup(w, t)
       PROVE  SoundInv'
  <2>1. t \in DOMAIN index => index[t] \in Contents
    BY MapFacts DEF CoreTypes, IndexMaps
  <2>2. /\ t \in DOMAIN index => \A st \in {"removeIndex", "findSong"} :
             [step |-> st, title |-> t, hash |-> index[t]] \in Lookups
        /\ NotFound(t) \in Misses
    BY <2>1 DEF Lookups, Misses, NotFound
  <2>3. PICK o \in Lookups \cup Misses : Begin(w, o)
    BY <1>16, <2>2 DEF RemoveLookup, FindLookup
  <2> QED BY <1>10, <1>16, <2>3, OtherOps DEF RemoveLookup, FindLookup, Begin, Become
<1>17. ASSUME NEW w \in Workers, Copy(w) \/ Abort(w) \/ Rename(w) PROVE SoundInv'
  <2>1. /\ op[w] \in Streams /\ op[w].tmp \in Files \ AudioFiles /\ op[w].offer.name \in Sent
    BY <1>17, OperationTypes DEF Copy, Abort, Rename, Streams, Offers, TempFiles
  <2>2. [op[w] EXCEPT !.step = "rename"] \in Streams /\ [step |-> "rescan"] \in Rescans
    BY <2>1 DEF Streams, Rescans
  <2>3. PICK o \in Streams \cup Rescans \cup {Idle} : Become(w, o)
    BY <1>17, <2>2 DEF Copy, Abort, Rename
  <2>4. ASSUME NEW f \in AudioFiles, disk'[f] = Torn PROVE f \in Unhashed'
    <3>1. (disk[f] = Torn => f \in Unhashed) /\ f \in Files
      BY LibraryAssumption DEF SoundInv
    <3>2. CASE ~(Rename(w) /\ f = op[w].offer.name)
      BY <1>2, <1>17, <2>1, <2>4, <3>1, <3>2 DEF Copy, Abort, Rename, CoreTypes
    <3>3. CASE Rename(w) /\ f = op[w].offer.name
      <4>1. At(w, "rename") /\ Stream(w)
        BY <3>3 DEF Rename, StreamInv, Receiving
      <4>2. disk'[f] = disk[op[w].tmp]
        BY <2>1, <3>1, <3>3 DEF Rename, CoreTypes
      <4>3. op[w].offer.hash = NoHash
        BY <2>4, <4>1, <4>2 DEF Stream
      <4> QED BY <1>2, <2>1, <3>3, <4>1, <4>3 DEF Stream, Unhashed
    <3> QED BY <3>2, <3>3
  <2>5. Files1
    BY <2>4
  <2>6. Readings1 /\ Ops1 /\ TornFrom(songs)'
    BY <1>5, <1>6, <1>8, <1>17, <2>3, OtherOps DEF Copy, Abort, Rename
  <2> HIDE DEF Files1, Readings1, Ops1
  <2> QED BY <1>9, <2>5, <2>6
<1>18. ASSUME NEW w \in Workers, NEW n \in Sent, NEW offer \in ShareSong(n),
              HandleStream(w, offer)
       PROVE  SoundInv'
  <2>1. PICK tmp \in FreeNames : tmp = Min(FreeNames)
    BY <1>18, MinIsElement DEF HandleStream, FreeNames, TempFiles
  <2>2. tmp \in TempFiles /\ tmp \in Files \ AudioFiles
    BY <2>1 DEF FreeNames, TempFiles
  <2>3. offer \in Offers
    BY TransferAssumption DEF ShareSong, Offers
  <2>4. SoundOp([step |-> "copy", offer |-> offer, tmp |-> tmp])
    BY <2>2, <2>3, OtherOps DEF Streams
  <2>5. Become(w, [step |-> "copy", offer |-> offer, tmp |-> tmp])
    BY <1>18, <2>1 DEF HandleStream, Begin, Become
  <2>6. \A f \in AudioFiles : disk'[f] = disk[f]
    BY <1>18, <2>1, <2>2, LibraryAssumption DEF HandleStream, CoreTypes
  <2>7. Files1 /\ Readings1 /\ Ops1 /\ TornFrom(songs)'
    BY <1>4, <1>5, <1>6, <1>8, <1>18, <2>4, <2>5, <2>6 DEF HandleStream
  <2> HIDE DEF Files1, Readings1, Ops1
  <2> QED BY <1>9, <2>7
<1>19. CASE Crash
  <2>1. ASSUME NEW w \in Workers PROVE SoundOp(op[w])' /\ SoundReading(reading[w])'
    <3>1. (op'[w] = Idle \/ op'[w] = Walk(disk)) /\ reading'[w] = Idle
      BY <1>19 DEF Crash
    <3>2. SoundOp(op'[w])
      BY <3>1, WalkIsSound, OtherOps
    <3> QED BY <1>2, <3>1, <3>2 DEF SoundOp, TornFrom, SoundReading
  <2>2. TornFrom(songs)'
    BY <1>19, EmptyIsMap DEF Crash, TornFrom
  <2>3. Files1
    BY <1>4, <1>19 DEF Crash
  <2>4. Readings1 /\ Ops1
    BY <2>1
  <2> HIDE DEF Files1, Readings1, Ops1
  <2> QED BY <1>9, <2>2, <2>3, <2>4
<1>20. CASE StartWatcher
  <2>1. Files1 /\ Readings1 /\ Ops1 /\ TornFrom(songs)'
    BY <1>4, <1>5, <1>7, <1>8, <1>20 DEF StartWatcher
  <2> HIDE DEF Files1, Readings1, Ops1
  <2> QED BY <1>9, <2>1
<1> QED
  BY <1>11, <1>12, <1>13, <1>14, <1>15, <1>16, <1>17, <1>18, <1>19, <1>20
  DEF TransferNext, TransferStep, Next, Workers

-----------------------------------------------------------------------------
(* What is settled is found.  What an operation is to list is undisturbed, and
   either settled or on its way into the maps; what a lookup may return is
   settled, and the lookup has read its hash. *)

InIndex(f) == Title(f) \in DOMAIN index /\ index[Title(f)] = disk[f]

Extracted(r, f) == r.path = f /\ r.title = Title(f) /\ r.content = disk[f]

Storing(w, f) == op[w].path = f /\ op[w].title = Title(f) /\ op[w].hash = disk[f]

Listing(w, f) ==
  \/ At(w, "walk")
  \/ At(w, "swapIndex") /\ disk[f] \in DOMAIN songs
  \/ At(w, "extract") /\ op[w].path = f /\ (reading[w] # Idle => Extracted(reading[w], f))
  \/ At(w, "storeSong") /\ Storing(w, f)
  \/ At(w, "storeIndex") /\ Storing(w, f) /\ disk[f] \in DOMAIN songs

Busy(w) ==
  \E step \in {"walk", "swapIndex", "extract", "storeSong", "storeIndex"} : At(w, step)

Looking(w) == At(w, "findSong") \/ At(w, "found") \/ At(w, "missing")

Finds(w, f) ==
  Looking(w) /\ op[w].title = Title(f) => ~At(w, "missing") /\ op[w].hash = disk[f]

SettledInv ==
  /\ \A w \in Workers : reading[w] # Idle =>
       At(w, "extract") \/ (At(w, "walk") /\ reading[w].path \in op[w].todo)
  /\ \A w \in Workers : \A f \in fresh[w] :
       Undisturbed(f) /\ (f \in settled \/ Listing(w, f)) /\ Finds(w, f)
  /\ \A f \in settled : Undisturbed(f) /\ InIndex(f) /\ disk[f] \in DOMAIN songs

\* Who is in the middle of a listing or a lookup moves by its own steps only.
LEMMA WhoMoves ==
  ASSUME TInv, TransferNext, NEW w \in Workers
  PROVE  \/ op'[w] = op[w]
         \/ WorkerStep(w)
         \/ /\ ~Busy(w)
            /\ ~Looking(w)' \/ \E t \in Titles : FindLookup(w, t)
<1> DEFINE Goal ==
             \/ op'[w] = op[w]
             \/ WorkerStep(w)
             \/ /\ ~Busy(w)
                /\ ~Looking(w)' \/ \E t \in Titles : FindLookup(w, t)
           Lookup == {"findSong", "found", "missing"}
<1> USE DEF TInv
<1>1. ASSUME NEW v \in Workers, NEW o, Become(v, o), v # w PROVE Goal
  BY <1>1, Moved
<1>2. ASSUME NEW v \in Workers, NEW o, Become(v, o),
             op[v] = Idle \/ At(v, "copy") \/ At(v, "rename") \/ At(v, "rescan"),
             o = Idle \/ o.step \notin Lookup
      PROVE  Goal
  <2>1. CASE v = w
    <3>1. op'[w] = o
      BY <1>2, <2>1, Moved
    <3> QED BY <1>2, <2>1, <3>1 DEF Busy, Looking, At
  <2> QED BY <1>1, <1>2, <2>1
<1>3. ASSUME NEW v \in Workers, WorkerStep(v) PROVE Goal
  <2>1. CASE v = w
    BY <1>3, <2>1
  <2>2. CASE v # w /\ SwapIndex(v) /\ At(w, "removeIndex")
    <3>1. op[w] \in Lookups /\ op'[w] = [op[w] EXCEPT !.step = "removeSong"]
      BY <2>2, OperationTypes DEF SwapIndex
    <3>2. op'[w].step = "removeSong"
      BY <3>1 DEF Lookups
    <3> QED BY <2>2, <3>2 DEF Busy, Looking, At
  <2>3. CASE v # w /\ SwapIndex(v) /\ ~At(w, "removeIndex")
    BY <2>3 DEF SwapIndex
  <2>4. CASE v # w /\ ReadTags(v)
    BY <2>4 DEF ReadTags
  <2>5. CASE v # w /\ ~SwapIndex(v) /\ ~ReadTags(v)
    <3>1. PICK o : Become(v, o)
      BY <1>3, <2>5
      DEF WorkerStep, WalkFile, ScanFails, SwapSongs, Extract, StoreSong, StoreIndex, RemoveIndex,
          RemoveEntry, FindLoad, FindReturn
    <3> QED BY <1>1, <2>5, <3>1
  <2> QED BY <2>1, <2>2, <2>3, <2>4, <2>5
<1>4. ASSUME NEW v \in Workers, NEW f \in AudioFiles, FireTimer(v, f) \/ LibraryAdd(v, f)
      PROVE  Goal
  BY <1>2, <1>4 DEF FireTimer, LibraryAdd, Begin, Become
<1>5. ASSUME NEW v \in Workers, Rescan(v) \/ ScanAfterTransfer(v) PROVE Goal
  BY <1>2, <1>5, WalkType DEF Rescan, ScanAfterTransfer, Begin, Become
<1>6. ASSUME NEW v \in Workers, NEW t \in Titles, RemoveLookup(v, t) PROVE Goal
  BY <1>2, <1>6 DEF RemoveLookup, Begin, Become
<1>7. ASSUME NEW v \in Workers, NEW t \in Titles, FindLookup(v, t) PROVE Goal
  <2>1. CASE v = w
    BY <1>7, <2>1 DEF FindLookup, Begin, Busy, At
  <2>2. PICK o : Become(v, o)
    BY <1>7 DEF FindLookup, Begin, Become
  <2> QED BY <1>1, <2>1, <2>2
<1>8. ASSUME NEW v \in Workers, Copy(v) \/ Abort(v) \/ Rename(v) PROVE Goal
  <2>1. op[v] \in Streams
    BY <1>8, OperationTypes DEF Copy, Abort, Rename
  <2>2. [op[v] EXCEPT !.step = "rename"].step = "rename"
    BY <2>1 DEF Streams
  <2> QED BY <1>2, <1>8, <2>2 DEF Copy, Abort, Rename
<1>9. ASSUME NEW v \in Workers, NEW n \in Sent, NEW offer \in ShareSong(n),
             HandleStream(v, offer)
      PROVE  Goal
  BY <1>2, <1>9 DEF HandleStream, Begin, Become
<1>10. ASSUME NEW f \in AudioFiles, UserDeletes(f) \/ \E c \in UserVersions[f] : UserWrites(f, c)
       PROVE  Goal
  BY <1>10 DEF UserDeletes, UserWrites
<1>11. CASE StartWatcher
  BY <1>11 DEF StartWatcher
<1> QED
  BY <1>3, <1>4, <1>5, <1>6, <1>7, <1>8, <1>9, <1>10, <1>11
  DEF TransferNext, TransferStep, Next, Workers

\* Which steps change the two maps.
LEMMA MapsChange ==
  ASSUME TransferNext
  PROVE  /\ \/ songs' = songs
            \/ \E w \in Workers : SwapSongs(w) \/ StoreSong(w) \/ RemoveEntry(w)
         /\ \/ index' = index
            \/ \E w \in Workers : SwapIndex(w) \/ StoreIndex(w) \/ RemoveIndex(w)
<1>1. ASSUME NEW f \in AudioFiles, UserDeletes(f) \/ \E c \in UserVersions[f] : UserWrites(f, c)
      PROVE  UNCHANGED <<songs, index>>
  BY <1>1 DEF UserDeletes, UserWrites
<1>2. ASSUME NEW w \in Workers, WorkerStep(w)
      PROVE  /\ songs' = songs \/ SwapSongs(w) \/ StoreSong(w) \/ RemoveEntry(w)
             /\ index' = index \/ SwapIndex(w) \/ StoreIndex(w) \/ RemoveIndex(w)
  <2>1. CASE SwapSongs(w) \/ StoreSong(w) \/ RemoveEntry(w)
    BY <2>1 DEF SwapSongs, StoreSong, RemoveEntry
  <2>2. CASE SwapIndex(w) \/ StoreIndex(w) \/ RemoveIndex(w)
    BY <2>2 DEF SwapIndex, StoreIndex, RemoveIndex
  <2>3. CASE ReadTags(w) \/ WalkFile(w) \/ ScanFails(w) \/ Extract(w) \/ FindLoad(w) \/ FindReturn(w)
    BY <2>3 DEF ReadTags, WalkFile, ScanFails, Extract, FindLoad, FindReturn
  <2> QED BY <1>2, <2>1, <2>2, <2>3 DEF WorkerStep
<1>3. ASSUME NEW w, NEW f, FireTimer(w, f) \/ LibraryAdd(w, f) \/ Rescan(w)
                           \/ RemoveLookup(w, f) \/ FindLookup(w, f) \/ TransferStep(w)
                           \/ HandleStream(w, f) \/ StartWatcher
      PROVE  UNCHANGED <<songs, index>>
  BY <1>3
  DEF FireTimer, LibraryAdd, Rescan, RemoveLookup, FindLookup, TransferStep, Copy, Abort, Rename,
      ScanAfterTransfer, HandleStream, StartWatcher
<1> QED BY <1>1, <1>2, <1>3 DEF TransferNext, Next, Workers

\* Which steps change what a worker that extracts has open.
LEMMA ReadingMoves ==
  ASSUME TransferNext, NEW w \in Workers, TInv
  PROVE  \/ reading'[w] = reading[w]
         \/ reading'[w] = Idle
         \/ ReadTags(w)
         \/ /\ reading[w] # Idle /\ reading'[w].path = reading[w].path
            /\ disk'[reading[w].path] # disk[reading[w].path]
<1> USE DEF TInv
<1>1. ASSUME NEW f \in AudioFiles, NEW c \in UserVersions[f], UserWrites(f, c)
      PROVE  \/ reading'[w] = reading[w]
             \/ /\ reading[w] # Idle /\ reading'[w].path = reading[w].path
                /\ disk'[reading[w].path] # disk[reading[w].path]
  <2>1. CASE Opened(w, f) /\ reading'[w] = [reading[w] EXCEPT !.content = c]
    <3>1. reading[w] \in Readings /\ reading[w].path = f /\ reading[w] # Idle
      BY <2>1 DEF Opened, CoreTypes
    <3>2. reading'[w].path = f
      BY <2>1, <3>1 DEF Readings
    <3>3. disk'[f] = c /\ disk[f] # c
      BY <1>1, LibraryAssumption DEF UserWrites, CoreTypes
    <3> QED BY <3>1, <3>2, <3>3
  <2>2. CASE reading'[w] = reading[w]
    BY <2>2
  <2> QED BY <1>1, <2>1, <2>2 DEF UserWrites
<1>2. ASSUME NEW v \in Workers, WorkerStep(v)
      PROVE  reading'[w] = reading[w] \/ reading'[w] = Idle \/ ReadTags(w)
  <2>1. CASE WalkFile(v) \/ Extract(v)
    BY <2>1 DEF WalkFile, Extract, CloseFile, CoreTypes
  <2>2. CASE ReadTags(v)
    BY <2>2 DEF ReadTags, CoreTypes
  <2>3. CASE SwapSongs(v) \/ SwapIndex(v) \/ StoreSong(v) \/ StoreIndex(v) \/ RemoveIndex(v)
               \/ RemoveEntry(v) \/ FindLoad(v) \/ FindReturn(v) \/ ScanFails(v)
    BY <2>3
    DEF SwapSongs, SwapIndex, StoreSong, StoreIndex, RemoveIndex, RemoveEntry, FindLoad,
        FindReturn, ScanFails
  <2> QED BY <1>2, <2>1, <2>2, <2>3 DEF WorkerStep
<1>3. ASSUME NEW v, NEW f, FireTimer(v, f) \/ LibraryAdd(v, f) \/ Rescan(v)
                           \/ RemoveLookup(v, f) \/ FindLookup(v, f) \/ TransferStep(v)
                           \/ HandleStream(v, f) \/ StartWatcher \/ UserDeletes(f)
      PROVE  reading' = reading
  BY <1>3
  DEF FireTimer, LibraryAdd, Rescan, RemoveLookup, FindLookup, TransferStep, Copy, Abort, Rename,
      ScanAfterTransfer, HandleStream, StartWatcher, UserDeletes
<1> QED BY <1>1, <1>2, <1>3 DEF TransferNext, Next, Workers

LEMMA SongsKept ==
  ASSUME TInv, TransferNext, NEW f \in AudioFiles,
         Undisturbed(f), disk'[f] = disk[f], disk[f] \in DOMAIN songs
  PROVE  disk[f] \in DOMAIN songs'
<1> USE DEF TInv
<1>1. ASSUME NEW w \in Workers, SwapSongs(w) PROVE disk[f] \in DOMAIN songs'
  <2>1. op[w] \in Scans /\ op[w].todo = {} /\ songs' = op[w].songs /\ Scanning(w)
    BY <1>1, OperationTypes DEF SwapSongs, Scanning
  <2> QED BY <2>1 DEF Undisturbed, Missed
<1>2. ASSUME NEW w \in Workers, StoreSong(w) PROVE disk[f] \in DOMAIN songs'
  BY <1>2 DEF StoreSong, Put
<1>3. ASSUME NEW w \in Workers, RemoveEntry(w) PROVE disk[f] \in DOMAIN songs'
  <2>1. op[w].hash # disk[f]
    BY <1>3 DEF RemoveEntry, Undisturbed, Removing
  <2> QED BY <1>3, <2>1 DEF RemoveEntry, Drop, Restrict
<1> QED BY <1>1, <1>2, <1>3, MapsChange

LEMMA IndexKept ==
  ASSUME TInv, SoundInv, TransferNext, NEW f \in AudioFiles,
         Undisturbed(f), disk'[f] = disk[f], InIndex(f)
  PROVE  InIndex(f)'
<1> USE DEF TInv, InIndex, Title
<1>1. ASSUME NEW w \in Workers, SwapIndex(w) PROVE InIndex(f)'
  <2>1. /\ op[w] \in Scans /\ op[w].step = "swapIndex" /\ index' = op[w].index /\ Scanning(w)
        /\ op[w].todo = {}
    BY <1>1, OperationTypes DEF SwapIndex, Scanning, At, SoundInv, SoundOp
  <2> QED BY <2>1 DEF Undisturbed, Missed
<1>2. ASSUME NEW w \in Workers, StoreIndex(w) PROVE InIndex(f)'
  BY <1>2 DEF StoreIndex, Put, Undisturbed, Outdated
<1>3. ASSUME NEW w \in Workers, RemoveIndex(w) PROVE InIndex(f)'
  BY <1>3 DEF RemoveIndex, Drop, Restrict, Undisturbed, Removing
<1> QED BY <1>1, <1>2, <1>3, MapsChange

LEMMA SettledInit == SharingInit => SettledInv
<1> SUFFICES ASSUME SharingInit PROVE SettledInv
  OBVIOUS
<1>1. /\ op = [w \in Workers |-> IF w = Main THEN Walk(disk) ELSE Idle] /\ settled = {}
      /\ fresh = [w \in Workers |-> IF w = Main THEN AudioOnDisk(disk) ELSE {}]
      /\ reading = [w \in Workers |-> Idle]
  BY DEF SharingInit, TransferInit, Init, AudioOnDisk
<1>2. Walk(disk).step = "walk" /\ Walk(disk).todo = AudioOnDisk(disk) /\ Walk(disk) # Idle
  BY WalkType, OperationAssumption DEF Operations
<1>3. ASSUME NEW f \in AudioOnDisk(disk)
      PROVE  Undisturbed(f) /\ Listing(Main, f) /\ Finds(Main, f)
  <2>1. \A w \in Workers : ~Removing(w, f) /\ ~Missed(w, f) /\ ~Outdated(w, f)
    BY <1>1, <1>2 DEF Removing, Missed, Outdated, Scanning, At
  <2> QED
    BY <1>1, <1>2, <2>1 DEF Undisturbed, Listing, Finds, Looking, At, AudioOnDisk, Workers
<1> QED BY <1>1, <1>3 DEF SettledInv

LEMMA SettledStep ==
  TInv /\ SoundInv /\ SettledInv /\ [SharingNext]_allVars => SettledInv'
<1> SUFFICES ASSUME TInv, SoundInv, SettledInv, [SharingNext]_allVars PROVE SettledInv'
  OBVIOUS
<1> USE DEF TInv
<1>1. CASE UNCHANGED allVars
  BY <1>1
  DEF SettledInv, InIndex, Listing, Storing, Extracted, Looking, Finds, Title, Undisturbed,
      Removing, Missed, Outdated, Scanning, At, allVars, vars, libraryVars, observer
<1>2. CASE Crash /\ ObserveCrash
  <2>1. /\ op' = [w \in Workers |-> IF w = Main THEN Walk(disk) ELSE Idle] /\ settled' = {}
        /\ fresh' = [w \in Workers |-> IF w = Main THEN AudioOnDisk(disk) ELSE {}]
        /\ disk' = disk /\ reading' = [w \in Workers |-> Idle]
    BY <1>2 DEF Crash, ObserveCrash, AudioOnDisk
  <2>2. Walk(disk).step = "walk" /\ Walk(disk).todo = AudioOnDisk(disk) /\ Walk(disk) # Idle
    BY WalkType, OperationAssumption DEF Operations
  <2>3. ASSUME NEW f \in AudioOnDisk(disk)
        PROVE  Undisturbed(f)' /\ Listing(Main, f)' /\ Finds(Main, f)'
    <3>1. \A w \in Workers : ~Removing(w, f)' /\ ~Missed(w, f)' /\ ~Outdated(w, f)'
      BY <2>1, <2>2 DEF Removing, Missed, Outdated, Scanning, At
    <3> QED
      BY <2>1, <2>2, <3>1 DEF Undisturbed, Listing, Finds, Looking, At, AudioOnDisk, Workers
  <2> QED BY <2>1, <2>3 DEF SettledInv
<1>3. CASE TransferNext /\ Observe
  <2> DEFINE calm == {f \in AudioFiles : disk'[f] = disk[f] /\ Undisturbed(f)'}
  <2>1. /\ fresh' = [w \in Workers |->
                       IF op'[w] = Idle THEN {} ELSE (fresh[w] \cup Begins(w)) \cap calm]
        /\ settled' = (settled \cup UNION {Completes(w) : w \in Workers}) \cap calm
    BY <1>3 DEF Observe
  <2>2. ASSUME NEW w \in Workers, reading'[w] # Idle
        PROVE  At(w, "extract")' \/ (At(w, "walk")' /\ reading'[w].path \in op'[w].todo)
    <3>1. CASE ReadTags(w)
      <4>1. op' = op /\ reading'[w].path = Source(w) /\ Extracting(w)
        BY <3>1 DEF ReadTags, CoreTypes
      <4>2. CASE At(w, "walk")
        <5>1. op[w] \in Scans /\ op[w].todo # {}
          BY <4>1, <4>2, OperationTypes DEF Extracting, At
        <5>2. Min(op[w].todo) \in op[w].todo
          BY <5>1, MinIsElement, LibraryAssumption DEF Scans
        <5> QED BY <4>1, <4>2, <5>2 DEF Source, At
      <4>3. CASE ~At(w, "walk")
        BY <4>1, <4>3 DEF Extracting, At
      <4> QED BY <4>2, <4>3
    <3>2. CASE ~ReadTags(w)
      <4>1. /\ reading[w] # Idle /\ reading'[w].path = reading[w].path
            /\ At(w, "extract") \/ (At(w, "walk") /\ reading[w].path \in op[w].todo)
        BY <1>3, <2>2, <3>2, ReadingMoves DEF SettledInv
      <4>2. CASE op'[w] = op[w]
        BY <4>1, <4>2 DEF At
      <4>3. ~WorkerStep(w)
        <5>1. ~WalkFile(w) /\ ~Extract(w)
          BY <2>2 DEF WalkFile, Extract, CloseFile, CoreTypes
        <5>2. ~SwapSongs(w) /\ ~ScanFails(w)
          BY <4>1 DEF SwapSongs, ScanFails, At
        <5> QED
          BY <3>2, <4>1, <5>1, <5>2
          DEF WorkerStep, SwapIndex, StoreSong, StoreIndex, RemoveIndex, RemoveEntry, FindLoad,
              FindReturn, At
      <4>4. Busy(w)
        BY <4>1 DEF Busy
      <4> QED BY <1>3, <4>2, <4>3, <4>4, WhoMoves
    <3> QED BY <3>1, <3>2
  <2>3. ASSUME NEW f \in calm, Undisturbed(f), disk[f] \in DOMAIN songs
        PROVE  disk'[f] \in DOMAIN songs'
    BY <1>3, <2>3, SongsKept
  <2>4. ASSUME NEW f \in calm, Undisturbed(f), InIndex(f) PROVE InIndex(f)'
    BY <1>3, <2>4, IndexKept
  <2>5. ASSUME NEW f \in calm, NEW w \in Workers, f \in fresh[w], Listing(w, f)
        PROVE  \/ Listing(w, f)'
               \/ f \in Completes(w) /\ InIndex(f)' /\ disk'[f] \in DOMAIN songs'
               \/ ScanFails(w)
    <3> DEFINE Goal == \/ Listing(w, f)'
                       \/ f \in Completes(w) /\ InIndex(f)' /\ disk'[f] \in DOMAIN songs'
                       \/ ScanFails(w)
    <3>1. /\ f \in AudioFiles /\ Undisturbed(f) /\ Undisturbed(f)' /\ disk'[f] = disk[f]
          /\ Title(f)' = Title(f)
      BY <2>5 DEF SettledInv, Title
    <3>2. CASE op'[w] = op[w] /\ ~At(w, "extract")
      BY <2>3, <2>5, <3>1, <3>2 DEF Listing, Storing, At
    <3>3. CASE op'[w] = op[w] /\ At(w, "extract")
      <4>1. op[w].path = f /\ (reading[w] # Idle => Extracted(reading[w], f))
        BY <2>5, <3>3 DEF Listing, At
      <4>2. CASE ReadTags(w)
        <5>1. reading'[w] = [path |-> f, title |-> TitleOf[disk[f]], content |-> disk[f]]
          BY <3>3, <4>1, <4>2 DEF ReadTags, Source, At, CoreTypes
        <5> QED BY <3>1, <3>3, <4>1, <5>1 DEF Listing, Extracted, Title, At
      <4>3. CASE reading'[w] = reading[w] \/ reading'[w] = Idle
        BY <3>1, <3>3, <4>1, <4>3 DEF Listing, Extracted, At
      <4>4. CASE reading[w] # Idle /\ disk'[reading[w].path] # disk[reading[w].path]
        BY <3>1, <4>1, <4>4 DEF Extracted
      <4> QED BY <1>3, <4>2, <4>3, <4>4, ReadingMoves
    <3>4. CASE WalkFile(w)
      BY <3>4, WalkGoesOn DEF Listing, At
    <3>5. CASE SwapSongs(w)
      <4>1. /\ op[w] \in Scans /\ op[w].todo = {} /\ songs' = op[w].songs /\ Scanning(w)
            /\ op'[w] = [op[w] EXCEPT !.step = "swapIndex"]
        BY <3>5, OperationTypes, Moved DEF SwapSongs, Scanning
      <4>2. op'[w] \in Scans /\ op'[w].step = "swapIndex"
        BY <4>1 DEF Scans
      <4>3. op'[w] # Idle
        BY <4>2, OperationAssumption DEF Operations
      <4>4. disk[f] \in DOMAIN op[w].songs
        BY <3>1, <4>1 DEF Undisturbed, Missed
      <4> QED BY <3>1, <4>1, <4>2, <4>3, <4>4 DEF Listing, At
    <3>6. CASE SwapIndex(w)
      <4>1. /\ op[w] \in Scans /\ op[w].step = "swapIndex" /\ op[w].todo = {} /\ Scanning(w)
            /\ index' = op[w].index /\ songs' = songs /\ op'[w] = Idle /\ At(w, "swapIndex")
        BY <3>6, OperationTypes DEF SwapIndex, Scanning, At, SoundInv, SoundOp
      <4>2. InIndex(f)'
        BY <3>1, <4>1 DEF Undisturbed, Missed, InIndex
      <4>3. disk[f] \in DOMAIN songs
        BY <2>5, <4>1 DEF Listing, At
      <4> QED BY <2>5, <3>1, <4>1, <4>2, <4>3 DEF Completes
    <3>7. CASE Extract(w)
      <4>1. /\ op[w] \in Extracts /\ op[w].path = f
            /\ reading[w] # Idle => Extracted(reading[w], f)
        BY <2>5, <3>7, OperationTypes DEF Extract, Listing, At
      <4>2. ~Unreadable(w)
        BY <3>1, <3>7, <4>1 DEF Undisturbed, Unreadable, Source, Extract, At
      <4> DEFINE new == [step |-> "storeSong", path |-> f, title |-> Title(f), hash |-> disk[f]]
      <4>3. reading[w] # Idle /\ op'[w] = new
        BY <3>7, <4>1, <4>2, Moved DEF Extract, Extracted
      <4>4. new \in Operations
        <5>1. disk[f] \in Contents
          BY <3>1, LibraryAssumption DEF CoreTypes, Undisturbed
        <5> QED BY <3>1, <5>1 DEF Operations, Stores, Title, Titles
      <4>5. new.step = "storeSong" /\ new.path = f /\ new.title = Title(f) /\ new.hash = disk[f]
        OBVIOUS
      <4> HIDE DEF new
      <4> QED BY <3>1, <4>3, <4>4, <4>5, OperationAssumption DEF Listing, Storing, At
    <3>8. CASE StoreSong(w)
      <4>1. op[w] \in Stores /\ op[w].step = "storeSong" /\ Storing(w, f)
        BY <2>5, <3>8, OperationTypes DEF StoreSong, Listing, At
      <4>2. op'[w] = [op[w] EXCEPT !.step = "storeIndex"]
        BY <3>8, Moved DEF StoreSong
      <4>3. /\ op'[w] \in Stores /\ op'[w].step = "storeIndex" /\ op'[w].path = f
            /\ op'[w].hash = disk[f] /\ op'[w].title = Title(f)
        BY <4>1, <4>2 DEF Stores, Storing
      <4>4. op'[w] # Idle
        BY <4>3, OperationAssumption DEF Operations
      <4>5. disk[f] \in DOMAIN songs'
        BY <3>8, <4>1 DEF StoreSong, Put, Storing
      <4> QED BY <3>1, <4>3, <4>4, <4>5 DEF Listing, Storing, At
    <3>9. CASE StoreIndex(w)
      <4>1. Storing(w, f) /\ disk[f] \in DOMAIN songs /\ At(w, "storeIndex") /\ op'[w] = Idle
        BY <2>5, <3>9, Moved DEF StoreIndex, Listing, At
      <4>2. songs' = songs /\ InIndex(f)'
        BY <3>1, <3>9, <4>1 DEF StoreIndex, Put, InIndex, Storing
      <4> QED BY <2>5, <3>1, <4>1, <4>2 DEF Completes
    <3>10. CASE RemoveIndex(w) \/ RemoveEntry(w) \/ FindLoad(w) \/ FindReturn(w)
      BY <2>5, <3>10 DEF RemoveIndex, RemoveEntry, FindLoad, FindReturn, Listing, At
    <3>11. Busy(w) /\ (ReadTags(w) => op'[w] = op[w])
      BY <2>5 DEF Listing, Busy, ReadTags
    <3> QED
      BY <1>3, <2>5, <3>1, <3>2, <3>3, <3>4, <3>5, <3>6, <3>7, <3>8, <3>9, <3>10, <3>11,
         WhoMoves DEF WorkerStep
  <2>6. ASSUME NEW w \in Workers, NEW f \in calm, f \in Begins(w)
        PROVE  f \in settled \/ Listing(w, f)'
    <3>1. CASE op'[w] # Idle /\ op'[w].step = "walk"
      BY <3>1 DEF Listing, At
    <3>2. CASE Starts(w, {"extract"}) /\ op'[w].path = f
      <4>1. op[w] = Idle /\ ~ReadTags(w)
        BY <3>2 DEF Starts, ReadTags, Extracting, At
      <4>2. reading[w] = Idle
        BY <4>1 DEF SettledInv, At
      <4>3. reading'[w] = Idle
        BY <1>3, <4>1, <4>2, ReadingMoves
      <4> QED BY <3>2, <4>3 DEF Starts, Listing, At
    <3> QED BY <2>6, <3>1, <3>2 DEF Begins
  <2>7. ASSUME NEW w \in Workers, NEW f \in calm, f \in fresh[w] \/ f \in Begins(w)
        PROVE  Finds(w, f)'
    <3>1. f \in AudioFiles /\ disk'[f] = disk[f] /\ Title(f)' = Title(f)
      BY DEF Title
    <3> SUFFICES ASSUME Looking(w)' PROVE Finds(w, f)'
      BY DEF Finds
    <3>2. op'[w] # Idle /\ op'[w].step \in {"findSong", "found", "missing"}
      BY DEF Looking, At
    <3>3. CASE op'[w] = op[w]
      <4>1. f \in fresh[w]
        BY <2>7, <3>2, <3>3 DEF Begins, Starts
      <4> QED BY <3>1, <3>2, <3>3, <4>1 DEF SettledInv, Finds, Looking, At
    <3>4. CASE FindLoad(w)
      <4>1. op[w] \in Lookups /\ op[w].step = "findSong" /\ op[w] # Idle /\ Looking(w)
        BY <3>4, OperationTypes DEF FindLoad, At, Looking
      <4>2. f \in fresh[w]
        BY <2>7, <3>2, <4>1 DEF Begins, Starts
      <4>3. f \in settled /\ Finds(w, f)
        BY <4>1, <4>2 DEF SettledInv, Listing, At
      <4>4. disk[f] \in DOMAIN songs
        BY <4>3 DEF SettledInv
      <4>5. CASE op[w].hash \in DOMAIN songs
        <5>1. op'[w] = [op[w] EXCEPT !.step = "found"]
          BY <3>4, <4>5, Moved DEF FindLoad
        <5>2. op'[w].step = "found" /\ op'[w].title = op[w].title /\ op'[w].hash = op[w].hash
          BY <4>1, <5>1 DEF Lookups
        <5> QED BY <3>1, <3>2, <4>1, <4>3, <5>2 DEF Finds, At
      <4>6. CASE op[w].hash \notin DOMAIN songs
        <5>1. op'[w].title = op[w].title
          BY <3>4, <4>6, Moved DEF FindLoad, NotFound
        <5> QED BY <3>1, <4>1, <4>3, <4>4, <4>6, <5>1 DEF Finds
      <4> QED BY <4>5, <4>6
    <3>5. ASSUME NEW t \in Titles, FindLookup(w, t) PROVE Finds(w, f)'
      <4>1. op[w] = Idle
        BY <3>5 DEF FindLookup, Begin
      <4>2. f \in settled
        <5>1. f \in fresh[w] => f \in settled
          BY <4>1 DEF SettledInv, Listing, At
        <5>2. f \in Begins(w) => f \in settled
          BY <3>2 DEF Begins, Starts
        <5> QED BY <2>7, <5>1, <5>2
      <4>3. InIndex(f)
        BY <4>2 DEF SettledInv
      <4>4. CASE t = Title(f)
        <5>1. op'[w] = [step |-> "findSong", title |-> t, hash |-> disk[f]]
          BY <3>5, <4>3, <4>4 DEF FindLookup, Begin, CoreTypes, InIndex
        <5> QED BY <3>1, <5>1 DEF Finds, At
      <4>5. CASE t # Title(f)
        <5>1. op'[w].title = t
          BY <3>5 DEF FindLookup, Begin, CoreTypes, NotFound
        <5> QED BY <3>1, <4>5, <5>1 DEF Finds
      <4> QED BY <4>4, <4>5
    <3>6. CASE WorkerStep(w) /\ ~FindLoad(w) /\ op'[w] # op[w]
      <4>1. op[w] \in Operations
        BY <3>6
        DEF WorkerStep, ReadTags, WalkFile, ScanFails, SwapSongs, SwapIndex, Extract, StoreSong,
            StoreIndex, RemoveIndex, RemoveEntry, FindReturn, At, CoreTypes
      <4>2. \A st \in {"swapIndex", "storeIndex", "removeSong"} :
              [op[w] EXCEPT !.step = st].step = st
        BY <4>1 DEF Operations, Scans, Extracts, Stores, Lookups, Misses, Streams, Rescans
      <4>3. CASE WalkFile(w)
        BY <3>2, <4>3, WalkGoesOn
      <4>4. CASE ScanFails(w) \/ SwapIndex(w) \/ StoreIndex(w) \/ RemoveEntry(w) \/ FindReturn(w)
        BY <3>2, <4>4, Moved DEF ScanFails, SwapIndex, StoreIndex, RemoveEntry, FindReturn
      <4>5. CASE Extract(w)
        <5>1. PICK o : Become(w, o) /\ (o = Idle \/ o.step = "storeSong")
          BY <4>5 DEF Extract
        <5> QED BY <3>2, <5>1, Moved
      <4>6. CASE SwapSongs(w) \/ StoreSong(w) \/ RemoveIndex(w)
        <5>1. PICK o : Become(w, o) /\ o.step \in {"swapIndex", "storeIndex", "removeSong"}
          BY <4>2, <4>6 DEF SwapSongs, StoreSong, RemoveIndex
        <5> QED BY <3>2, <5>1, Moved
      <4>7. ~ReadTags(w)
        BY <3>6 DEF ReadTags
      <4> QED BY <3>6, <4>3, <4>4, <4>5, <4>6, <4>7 DEF WorkerStep
    <3> QED BY <1>3, <3>3, <3>4, <3>5, <3>6, WhoMoves
  <2>8. ASSUME NEW w \in Workers, NEW f \in fresh'[w]
        PROVE  Undisturbed(f)' /\ (f \in settled' \/ Listing(w, f)') /\ Finds(w, f)'
    <3>1. op'[w] # Idle /\ f \in calm /\ (f \in fresh[w] \/ f \in Begins(w))
      BY <2>1, <2>8
    <3>2. f \in settled => f \in settled'
      BY <2>1, <3>1
    <3>3. CASE f \in Begins(w)
      BY <2>6, <2>7, <3>1, <3>2, <3>3
    <3>4. CASE f \in fresh[w]
      <4>1. f \in settled \/ Listing(w, f)
        BY <3>4 DEF SettledInv
      <4>2. ASSUME Listing(w, f) PROVE Listing(w, f)'
        <5>1. ~ScanFails(w)
          BY <3>1, Moved DEF ScanFails
        <5>2. f \notin Completes(w)
          BY <3>1 DEF Completes
        <5> QED BY <2>5, <3>1, <3>4, <4>2, <5>1, <5>2
      <4> QED BY <2>7, <3>1, <3>2, <3>4, <4>1, <4>2
    <3> QED BY <3>1, <3>3, <3>4
  <2>9. ASSUME NEW f \in settled'
        PROVE  Undisturbed(f)' /\ InIndex(f)' /\ disk'[f] \in DOMAIN songs'
    <3>1. f \in calm
      BY <2>1, <2>9
    <3>2. CASE f \in settled
      BY <2>3, <2>4, <3>1, <3>2 DEF SettledInv
    <3>3. ASSUME NEW w \in Workers, f \in Completes(w), f \notin settled
          PROVE  InIndex(f)' /\ disk'[f] \in DOMAIN songs'
      <4>1. f \in fresh[w] /\ op'[w] = Idle /\ (At(w, "swapIndex") \/ At(w, "storeIndex"))
        BY <3>3 DEF Completes
      <4>2. ~Listing(w, f)' /\ ~ScanFails(w)
        BY <4>1 DEF Listing, ScanFails, At
      <4> QED BY <2>5, <3>1, <3>3, <4>1, <4>2 DEF SettledInv
    <3> QED BY <2>1, <2>9, <3>1, <3>2, <3>3
  <2> HIDE DEF calm
  <2> QED BY <2>2, <2>8, <2>9 DEF SettledInv
<1> QED BY <1>1, <1>2, <1>3 DEF SharingNext

-----------------------------------------------------------------------------
LEMMA Invariants == Spec => [](TInv /\ StreamInv /\ SoundInv /\ SettledInv)
BY TypesInit, TypesStep, StreamInit, StreamStep, SoundInit, SoundStep, SettledInit, SettledStep,
   PTL DEF Spec

\* The variables have their types: the maps are partial functions between
\* hashes, paths and titles.
THEOREM TypeCorrect == Spec => []TypeOK
<1>1. TInv => TypeOK
  BY DEF TInv, CoreTypes, TypeOK
<1> QED BY <1>1, Invariants, PTL

\* A settled file is found by its title at every moment, whatever scans,
\* additions, removals, transfers and crashes go on, and whatever titles the
\* other files have (ScanMusicLibrary, AddSong, RemoveSong).
THEOREM SettledCorrect == Spec => []SettledIsFound
<1>1. SettledInv => SettledIsFound
  BY DEF SettledInv, SettledIsFound, InIndex
<1> QED BY <1>1, Invariants, PTL

\* A lookup of a file that is settled from its beginning on returns that file,
\* although a scan or another call may replace either map between its two
\* reads (FindSong).
THEOREM LookupCorrect == Spec => []LookupFinds
<1>1. SettledInv => LookupFinds
  BY DEF SettledInv, Finds, Looking, LookupFinds
<1> QED BY <1>1, Invariants, PTL

\* What stands under a name that peers send is the whole of something that was
\* announced for it, unless it was sent without a hash (handleStream).
THEOREM ReceivedCorrect == Spec => []ReceivedIsAnnounced
<1>1. StreamInv => ReceivedIsAnnounced
  BY DEF StreamInv
<1> QED BY <1>1, Invariants, PTL

\* A file that is not complete is listed only under a name that was sent
\* without a hash (handleStream, isAudioFile).
THEOREM TornIsKeptOut == Spec => []TornIsNeverListed
<1>1. SoundInv => TornIsNeverListed
  BY DEF SoundInv, TornFrom, Unhashed, TornIsNeverListed
<1> QED BY <1>1, Invariants, PTL

\* Every temporary file belongs to a stream that is being received or was left
\* by a crash (the deferred function of handleStream).
THEOREM TempsRemoved == Spec => []NoTempLeft
<1>1. TInv /\ StreamInv => NoTempLeft
  <2> SUFFICES ASSUME TInv, StreamInv PROVE NoTempLeft
    OBVIOUS
  <2> DEFINE inUse == {op[w].tmp : w \in {v \in Workers : Receiving(v)}}
             there == {f \in TempFiles : disk[f] # NoFile}
  <2>1. ASSUME NEW w \in Workers, Receiving(w) PROVE op[w].tmp \in there
    BY <2>1, OperationTypes DEF TInv, StreamInv, Stream, Receiving, Streams
  <2>2. inUse \subseteq there /\ orphans \subseteq there
    BY <2>1 DEF TInv, CoreTypes, StreamInv
  <2>3. there \subseteq inUse \cup orphans
    BY DEF StreamInv
  <2>4. there = inUse \cup orphans
    BY <2>2, <2>3
  <2> QED BY <2>4 DEF NoTempLeft, Receiving
<1> QED BY <1>1, Invariants, PTL
=============================================================================
