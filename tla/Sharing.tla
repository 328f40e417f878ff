------------------------------ MODULE Sharing ------------------------------
(***************************************************************************)
(* What the library and the transfers promise to the users of the daemon.  *)
(* An observer notes which files are settled: listed by a scan or an       *)
(* addition during which, and since which, nothing disturbed them; and     *)
(* which were settled when a lookup began and have not been disturbed.     *)
(***************************************************************************)
EXTENDS Transfer

VARIABLES
  fresh,     \* per worker: files it is to list or may look up, undisturbed
             \* since its operation began
  settled    \* files undisturbed since an operation that listed them began

observer == <<fresh, settled>>
allVars == <<vars, observer>>

Title(f) == TitleOf[disk[f]]

\* a removal that is to take away its entry in either map
Removing(w, f) ==
  \/ At(w, "removeIndex") /\ (op[w].title = Title(f) \/ op[w].hash = disk[f])
  \/ At(w, "removeSong") /\ op[w].hash = disk[f]

\* the maps of a scan in progress lack the file as it is: it was read before
\* or during a write, or another file of its title came after it
Missed(w, f) ==
  /\ Scanning(w) /\ f \notin op[w].todo
  /\ ~(/\ disk[f] \in DOMAIN op[w].songs
       /\ Title(f) \in DOMAIN op[w].index /\ op[w].index[Title(f)] = disk[f])

\* an addition in progress of another version, or of another file of its title
Outdated(w, f) ==
  /\ At(w, "storeSong") \/ At(w, "storeIndex")
  /\ op[w].title = Title(f) /\ op[w].hash # disk[f]

Undisturbed(f) ==
  /\ disk[f] # NoFile
  /\ \A w \in Workers : ~Removing(w, f) /\ ~Missed(w, f) /\ ~Outdated(w, f)

Starts(w, steps) == op[w] = Idle /\ op'[w] # Idle /\ op'[w].step \in steps

\* the files that an operation which w begins is to list, or may look up
Begins(w) ==
  IF op'[w] # Idle /\ op'[w].step = "walk" /\ ~Scanning(w) THEN AudioFiles
  ELSE IF Starts(w, {"extract"}) THEN {op'[w].path}
  ELSE IF Starts(w, {"findSong", "missing"}) THEN settled
  ELSE {}
Completes(w) ==
  IF op'[w] = Idle /\ (At(w, "swapIndex") \/ At(w, "storeIndex")) THEN fresh[w] ELSE {}

Observe ==
  LET calm == {f \in AudioFiles : disk'[f] = disk[f] /\ Undisturbed(f)'}
  IN /\ fresh' = [w \in Workers |->
                    IF op'[w] = Idle THEN {} ELSE (fresh[w] \cup Begins(w)) \cap calm]
     /\ settled' = (settled \cup UNION {Completes(w) : w \in Workers}) \cap calm

ObserveCrash ==
  /\ fresh' = [w \in Workers |-> IF w = Main THEN {f \in AudioFiles : disk[f] # NoFile} ELSE {}]
  /\ settled' = {}

SharingInit ==
  /\ TransferInit
  /\ fresh = [w \in Workers |-> IF w = Main THEN {f \in AudioFiles : disk[f] # NoFile} ELSE {}]
  /\ settled = {}

SharingNext ==
  \/ TransferNext /\ Observe
  \/ Crash /\ ObserveCrash

(* The Go scheduler runs every goroutine, and timers fire.  A stream makes *)
(* progress or breaks: both ends give up after TransferIdleTimeout.        *)
Fairness ==
  /\ WF_vars(StartWatcher /\ UNCHANGED transferVars)
  /\ \A w \in Workers : WF_vars((WorkerStep(w) /\ UNCHANGED transferVars) \/ TransferStep(w))
  /\ \A f \in AudioFiles :
       WF_vars((\E w \in Timers : FireTimer(w, f)) /\ UNCHANGED transferVars)

Spec == SharingInit /\ [][SharingNext]_allVars
FairSpec == Spec /\ Fairness

-----------------------------------------------------------------------------
\* The variables have their types: the maps are partial functions between
\* hashes, paths and titles.
TypeOK ==
  /\ disk \in [Files -> Contents \cup {NoFile}]
  /\ songs \in SongMaps /\ index \in IndexMaps
  /\ pending \subseteq AudioFiles
  /\ op \in [Workers -> Operations \cup {Idle}]
  /\ reading \in [Workers -> Readings \cup {Idle}]
  /\ announced \in [Sent -> SUBSET (Contents \cup {NoHash})] /\ orphans \subseteq TempFiles
  /\ settled \subseteq AudioFiles

\* A file that is settled is found by its title at every moment, while scans
\* replace the two maps and other songs come and go (ScanMusicLibrary,
\* AddSong, RemoveSong).
SettledIsFound ==
  \A f \in settled :
    Title(f) \in DOMAIN index /\ index[Title(f)] = disk[f] /\ disk[f] \in DOMAIN songs

\* A lookup that begins when a file is settled answers with that file, although
\* it reads the two maps one after the other while they are replaced, as long
\* as nothing disturbs the file (FindSong).
LookupFinds ==
  \A w \in Workers : \A f \in fresh[w] :
    (At(w, "found") \/ At(w, "missing")) /\ op[w].title = Title(f) =>
      At(w, "found") /\ op[w].hash = disk[f]

\* What stands under a name that peers send is the whole of something whose
\* hash was announced for it, unless a sender announced none, whatever breaks
\* and whichever of two streams of one name ends last (handleStream).
ReceivedIsAnnounced ==
  \A n \in Sent : disk[n] # NoFile => disk[n] \in announced[n] \/ NoHash \in announced[n]

\* A file that is not complete is listed only under a name that was sent
\* without a hash, although it lies in the directory while scans go through
\* it, and after a crash (handleStream, isAudioFile).
TornIsNeverListed ==
  Torn \in DOMAIN songs => songs[Torn] \in {n \in Sent : NoHash \in announced[n]}

\* The temporary files are those of the streams that are being received and
\* those a crash has left: a transfer that fails leaves none (the deferred
\* function of handleStream).
NoTempLeft ==
  LET inUse == {op[w].tmp : w \in {v \in Workers : At(v, "copy") \/ At(v, "rename")}}
  IN {f \in TempFiles : disk[f] # NoFile} = inUse \cup orphans

\* A file the watcher was told of is listed in the end, unless it changes, the
\* daemon restarts, or a scan or a removal goes on meanwhile (StartWatcher).
NewFileIsListed ==
  \A f \in AudioFiles :
    f \in pending ~>
      \/ disk[f] \in DOMAIN songs \cup {NoFile}
      \/ ~watching
      \/ \E w \in Workers : Scanning(w) \/ Removing(w, f)
=============================================================================
