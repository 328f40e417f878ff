------------------------------- MODULE Daemon -------------------------------
(***************************************************************************)
(* The life of daemon processes (cmd/raag/daemon.go, app/app.go), their    *)
(* identity (internal/network), their socket (rpc/server.go), their        *)
(* playlists (internal/playlist) and the files in which identity and       *)
(* playlists are kept (internal/storage).  Nothing prevents a second       *)
(* daemon from being started beside the first.                             *)
(*                                                                         *)
(* A call is a goroutine of net/rpc.  Whether its client still waits makes *)
(* no difference to it, and Stop closes the listener but no connection.    *)
(***************************************************************************)
EXTENDS Naturals, Sequences, SequencesExt

CONSTANTS
  Procs,      \* daemon processes, one incarnation after another
  Names,      \* of playlists
  Songs,
  Calls,      \* goroutines that serve calls
  MaxLen,     \* bound on the songs of a playlist
  MaxEvents,  \* bound on calls, starts, crashes, losses of power, and errors of
              \* the identity and the socket
  Keys,       \* private keys of nodes
  Absent,     \* value of a name that is no playlist
  None, Torn

Playlists == UNION {[1..k -> Songs] : k \in 0..MaxLen}
Values == [Names -> Playlists \cup {Absent}]

\* a file of playlists, with what it may have been made from as history
Saved ==
  [text : Values \cup {Torn}, synced : BOOLEAN, since : [Names -> SUBSET (Playlists \cup {Absent})]]

Requests ==
  [op : {"create", "delete"}, name : Names]
  \cup [op : {"add"}, name : Names, song : Songs]
  \cup [op : {"remove"}, name : Names, index : 1..MaxLen]

ASSUME DaemonAssumption ==
  /\ MaxLen \in Nat /\ MaxEvents \in Nat
  /\ None \notin Procs \cup Keys /\ Torn \notin Keys
  /\ {None, Torn} \cap Values = {} /\ Absent \notin Playlists
  /\ None \notin Saved \cup [proc : Procs, request : Requests]

VARIABLES
  phase,   \* where the main goroutine of each process is
  identity,\* identity.key: [text, flushed]
  key,     \* the key of each process, or None
  pm,      \* playlists in the memory of each process
  todo,    \* names SavePlaylists has yet to read
  data,    \* what it has collected, or is writing
  temp,    \* the temporary file of each process, or None
  file,    \* playlists.json: [text, synced, since] or None
  durable, \* what a loss of power would leave of it
  socket,  \* process the path of the socket leads to, or None
  call,    \* what each call is to do, and in which process
  events,
  since,   \* history: values of each name since a process began to save
  failed,  \* history: processes whose identity or socket met an error of the file system
  met      \* history: processes that have run beside another one

stored == <<file, durable>>
node == <<identity, key, failed>>
vars == <<phase, node, pm, todo, data, temp, stored, socket, call, events, since>>
allVars == <<vars, met>>

Empty == [n \in Names |-> Absent]
NoHistory == [n \in Names |-> {}]
Alive(p) == phase[p] # "down"
To(p, from, to) == phase[p] = from /\ phase' = [phase EXCEPT ![p] = to]
Event == events < MaxEvents /\ events' = events + 1
Failed(p) == Event /\ failed' = failed \cup {p}

Init ==
  /\ phase = [p \in Procs |-> "down"]
  /\ identity = [text |-> None, flushed |-> TRUE]
  /\ key = [p \in Procs |-> None]
  /\ pm = [p \in Procs |-> Empty]
  /\ todo = [p \in Procs |-> {}]
  /\ data = [p \in Procs |-> Empty]
  /\ temp = [p \in Procs |-> None]
  /\ file = None /\ durable = None /\ socket = None
  /\ call = [c \in Calls |-> None]
  /\ events = 0
  /\ since = [p \in Procs |-> NoHistory]
  /\ met = {} /\ failed = {}

saving == <<todo, data, temp, since>>

BugExit(P) ==
  /\ key' = [p \in Procs |-> IF p \in P THEN None ELSE key[p]]
  /\ failed' = failed \ P
  /\ pm' = [p \in Procs |-> IF p \in P THEN Empty ELSE pm[p]]
  /\ todo' = [p \in Procs |-> IF p \in P THEN {} ELSE todo[p]]
  /\ data' = [p \in Procs |-> IF p \in P THEN Empty ELSE data[p]]
  /\ since' = [p \in Procs |-> IF p \in P THEN NoHistory ELSE since[p]]
  /\ call' = [c \in Calls |-> IF call[c] # None /\ call[c].proc \in P THEN None ELSE call[c]]
  /\ UNCHANGED temp

\* processes end: what is in their memory goes, and the calls they serve, and
\* nobody will read the temporary files that killed ones leave
Exit(P) ==
  /\ key' = [p \in Procs |-> IF p \in P THEN None ELSE key[p]]
  /\ failed' = failed \ P
  /\ pm' = [p \in Procs |-> IF p \in P THEN Empty ELSE pm[p]]
  /\ todo' = [p \in Procs |-> IF p \in P THEN {} ELSE todo[p]]
  /\ data' = [p \in Procs |-> IF p \in P THEN Empty ELSE data[p]]
  /\ temp' = [p \in Procs |-> IF p \in P THEN None ELSE temp[p]]
  /\ since' = [p \in Procs |-> IF p \in P THEN NoHistory ELSE since[p]]
  /\ call' = [c \in Calls |-> IF call[c] # None /\ call[c].proc \in P THEN None ELSE call[c]]

-----------------------------------------------------------------------------
(* Start: NewApp loads the identity (NewNetwork) and the playlists, then    *)
(* the server takes the socket.                                            *)

Start(p) ==
  /\ To(p, "down", "identity") /\ Event
  /\ UNCHANGED <<node, pm, saving, stored, socket, call>>

Unused == Keys \ ({identity.text} \cup {key[q] : q \in Procs})

Generate(p) == \E k \in Unused : key' = [key EXCEPT ![p] = k]

BugLoadOrGenerateIdentity(p) ==
  /\ To(p, "identity", "truncate") /\ Generate(p)
  /\ UNCHANGED <<identity, failed, pm, saving, stored, socket, call, events>>

\* A file that is missing or damaged makes the node another one.  So does one
\* that cannot be read, and the new key takes its place, unless the path or the
\* directory is what failed: then the new key is not saved.
LoadOrGenerateIdentity(p) ==
  /\ \/ /\ identity.text \in Keys
        /\ To(p, "identity", "load")
        /\ key' = [key EXCEPT ![p] = identity.text]
        /\ UNCHANGED <<failed, events>>
     \/ /\ identity.text \notin Keys
        /\ To(p, "identity", "truncate") /\ Generate(p)
        /\ UNCHANGED <<failed, events>>
     \/ /\ \E to \in {"truncate", "load"} : To(p, "identity", to)
        /\ Generate(p) /\ Failed(p)
  /\ UNCHANGED <<identity, pm, saving, stored, socket, call>>

\* the two halves of os.WriteFile in generateAndSaveKey; an error is logged,
\* and writes of two processes to one file may mix
TruncateIdentity(p) ==
  /\ \/ /\ To(p, "truncate", "writeKey")
        /\ identity' = [text |-> Torn, flushed |-> FALSE]
     \/ To(p, "truncate", "load") /\ UNCHANGED identity
  /\ UNCHANGED <<key, failed, pm, saving, stored, socket, call, events>>

WriteIdentity(p) ==
  /\ To(p, "writeKey", "load")
  /\ \E text \in {key[p], Torn} : identity' = [text |-> text, flushed |-> FALSE]
  /\ UNCHANGED <<key, failed, pm, saving, stored, socket, call, events>>

\* a file that is missing or damaged, or cannot be read, is the same as no
\* playlists
LoadPlaylists(p) ==
  /\ To(p, "load", "removeSocket")
  /\ \E loaded \in {Empty} \cup (IF file = None \/ file.text = Torn THEN {} ELSE {file.text}) :
       pm' = [pm EXCEPT ![p] = loaded]
  /\ UNCHANGED <<node, saving, stored, socket, call, events>>

BugRemoveSocket(p) ==
  /\ To(p, "removeSocket", "listen")
  /\ UNCHANGED <<node, pm, saving, stored, socket, call, events>>

\* the server goes on if a path cannot be removed
RemoveSocket(p) ==
  /\ To(p, "removeSocket", "listen")
  /\ \/ socket' = None /\ UNCHANGED <<failed, events>>
     \/ socket # None /\ UNCHANGED socket /\ Failed(p)
  /\ UNCHANGED <<identity, key, pm, saving, stored, call>>

\* the path is taken if another daemon was faster, or if it is still there: the
\* process exits
Listen(p) ==
  /\ \/ /\ socket = None /\ socket' = p
        /\ To(p, "listen", "chmod")
        /\ UNCHANGED <<key, failed, pm, saving, call>>
     \/ /\ socket # None /\ UNCHANGED socket
        /\ To(p, "listen", "down") /\ Exit({p})
  /\ UNCHANGED <<identity, stored, events>>

\* another daemon may have removed the path since; then, or after an error, it
\* is given up, with whatever another has put there meanwhile
Chmod(p) ==
  /\ \/ socket # None /\ To(p, "chmod", "serving") /\ UNCHANGED <<failed, events>>
     \/ socket = None /\ To(p, "chmod", "giveUp") /\ UNCHANGED <<failed, events>>
     \/ To(p, "chmod", "giveUp") /\ Failed(p)
  /\ UNCHANGED <<identity, key, pm, saving, stored, socket, call>>

GiveUp(p) ==
  /\ To(p, "giveUp", "down") /\ Exit({p})
  /\ socket' \in {None, socket}
  /\ UNCHANGED <<identity, stored, events>>

-----------------------------------------------------------------------------
(* Calls to the playlist manager, each under its mutex. *)

Dial(c, r) ==
  /\ call[c] = None
  /\ socket # None /\ phase[socket] = "serving"
  /\ Event
  /\ call' = [call EXCEPT ![c] = [proc |-> socket, request |-> r]]
  /\ UNCHANGED <<phase, node, pm, saving, stored, socket>>

\* what a request makes of a playlist; an error leaves it as it is
Apply(r, songs) ==
  CASE r.op = "create" -> IF songs = Absent THEN <<>> ELSE songs
    [] r.op = "delete" -> Absent
    [] r.op = "add" -> IF songs = Absent \/ Len(songs) >= MaxLen THEN songs
                       ELSE Append(songs, r.song)
    [] r.op = "remove" -> IF songs = Absent \/ r.index > Len(songs) THEN songs
                          ELSE RemoveAt(songs, r.index)

Execute(c) ==
  /\ call[c] # None
  /\ LET p == call[c].proc
         r == call[c].request
         new == Apply(r, pm[p][r.name])
     IN /\ pm' = [pm EXCEPT ![p][r.name] = new]
        /\ since' = [since EXCEPT ![p][r.name] = @ \cup {new}]
  /\ call' = [call EXCEPT ![c] = None]
  /\ UNCHANGED <<phase, node, todo, data, temp, stored, socket, events>>

-----------------------------------------------------------------------------
(* Shutdown: on a signal, or when Shutdown is called. *)

\* closing the listener and removing the path, whoever listens there now; an
\* error is logged
Stop(p) ==
  /\ To(p, "serving", "list")
  /\ socket' \in {None, socket}
  /\ UNCHANGED <<node, pm, saving, stored, call, events>>

\* SavePlaylists: the names first, then the songs of each
List(p) ==
  /\ To(p, "list", "getSongs")
  /\ todo' = [todo EXCEPT ![p] = {n \in Names : pm[p][n] # Absent}]
  /\ data' = [data EXCEPT ![p] = Empty]
  /\ since' = [since EXCEPT ![p] = [n \in Names |-> {pm[p][n]}]]
  /\ UNCHANGED <<node, pm, temp, stored, socket, call, events>>

\* a copy, under the lock of the manager
GetSongs(p, n) ==
  /\ phase[p] = "getSongs" /\ n \in todo[p]
  /\ todo' = [todo EXCEPT ![p] = @ \ {n}]
  /\ data' = [data EXCEPT ![p][n] = pm[p][n]]
  /\ UNCHANGED <<phase, node, pm, temp, stored, socket, call, events, since>>

-----------------------------------------------------------------------------
(* WriteJSONAtomic: create, encode, sync and close, rename. *)

CreateTemp(p) ==
  /\ todo[p] = {} /\ To(p, "getSongs", "encode")
  /\ temp' = [temp EXCEPT ![p] = [text |-> Torn, synced |-> FALSE, since |-> since[p]]]
  /\ UNCHANGED <<node, pm, todo, data, stored, socket, call, events, since>>

\* the slice GetSongs returned shares its array with the playlist
BugEncode(p) ==
  /\ To(p, "encode", "sync")
  /\ temp' = [temp EXCEPT ![p].text =
               [n \in Names |->
                 IF Absent \in {data[p][n], pm[p][n]} THEN data[p][n]
                 ELSE [i \in DOMAIN data[p][n] |->
                        IF i \in DOMAIN pm[p][n] THEN pm[p][n][i] ELSE data[p][n][i]]]]
  /\ UNCHANGED <<node, pm, todo, data, stored, socket, call, events, since>>

Encode(p) ==
  /\ To(p, "encode", "sync")
  /\ temp' = [temp EXCEPT ![p].text = data[p]]
  /\ UNCHANGED <<node, pm, todo, data, stored, socket, call, events, since>>

BugSync(p) ==
  /\ To(p, "sync", "rename")
  /\ UNCHANGED <<node, pm, saving, stored, socket, call, events>>

Sync(p) ==
  /\ To(p, "sync", "rename")
  /\ temp' = [temp EXCEPT ![p].synced = TRUE]
  /\ UNCHANGED <<node, pm, todo, data, stored, socket, call, events, since>>

\* the process exits after this: what its calls still do is lost
Rename(p) ==
  /\ To(p, "rename", "down") /\ Exit({p})
  /\ file' = temp[p]
  /\ UNCHANGED <<identity, durable, socket, events>>

\* an error of the file system: a warning, and the old file stays
WriteFails(p) ==
  /\ \E s \in {"encode", "sync", "rename"} : To(p, s, "down")
  /\ Exit({p})
  /\ UNCHANGED <<identity, stored, socket, events>>

-----------------------------------------------------------------------------
(* A process that is killed, or gives up its start for want of something   *)
(* else, leaves its temporary file, which nobody reads, and its socket,    *)
(* which leads nowhere.  A loss of power takes what is not synced: of a    *)
(* file that is synced, at most the last renaming.                         *)

Crash(p) ==
  /\ Alive(p) /\ Event
  /\ phase' = [phase EXCEPT ![p] = "down"] /\ Exit({p})
  /\ UNCHANGED <<identity, stored, socket>>

\* the kernel writes directories, and files that nobody has synced, in its
\* own time
Flush ==
  /\ durable # file \/ ~identity.flushed
  /\ durable' \in {durable, file}
  /\ \E flushed \in {identity.flushed, TRUE} : identity' = [identity EXCEPT !.flushed = flushed]
  /\ UNCHANGED <<phase, key, failed, pm, saving, file, socket, call, events>>

Remains == IF durable # None /\ ~durable.synced THEN [durable EXCEPT !.text = Torn] ELSE durable

PowerLoss ==
  /\ Event
  /\ phase' = [p \in Procs |-> "down"] /\ Exit(Procs)
  /\ file' = Remains /\ durable' = Remains
  /\ \E text \in {identity.text} \cup (IF identity.flushed THEN {} ELSE {None, Torn}) :
       identity' = [text |-> text, flushed |-> TRUE]
  /\ UNCHANGED socket

-----------------------------------------------------------------------------
Step(p) ==
  \/ LoadOrGenerateIdentity(p) \/ TruncateIdentity(p) \/ WriteIdentity(p)
  \/ LoadPlaylists(p) \/ RemoveSocket(p) \/ Listen(p) \/ Chmod(p) \/ GiveUp(p)
  \/ List(p) \/ (\E n \in Names : GetSongs(p, n))
  \/ CreateTemp(p) \/ Encode(p) \/ Sync(p) \/ Rename(p) \/ WriteFails(p)

Next ==
  \/ \E p \in Procs : Start(p) \/ Step(p) \/ Stop(p) \/ Crash(p)
  \/ \E c \in Calls : Execute(c) \/ \E r \in Requests : Dial(c, r)
  \/ Flush \/ PowerLoss

Meet == met' = {p \in Procs : Alive(p)' /\ (p \in met \/ \E q \in Procs \ {p} : Alive(q)')}

Spec == Init /\ [][Next /\ Meet]_allVars

-----------------------------------------------------------------------------
Starting == {"identity", "truncate", "writeKey", "load", "removeSocket", "listen", "chmod", "giveUp"}
Writing == {"encode", "sync", "rename"}
Phases == {"down", "serving", "list", "getSongs"} \cup Starting \cup Writing

\* The variables have their types, and only a writer has a temporary file.
TypeOK ==
  /\ phase \in [Procs -> Phases]
  /\ identity \in [text : Keys \cup {None, Torn}, flushed : BOOLEAN]
  /\ key \in [Procs -> Keys \cup {None}]
  /\ pm \in [Procs -> Values]
  /\ \A p \in Procs : todo[p] \subseteq Names /\ data[p] \in Values
  /\ \A p \in Procs : temp[p] # None <=> phase[p] \in Writing
  /\ socket \in Procs \cup {None} /\ met \cup failed \subseteq Procs
  /\ \A c \in Calls : call[c] # None => phase[call[c].proc] \notin Starting \cup {"down"}

TextOf(f) == IF f = None THEN None ELSE f.text
Stable == INSTANCE AtomicFile WITH
  Writers <- Procs, NoValue <- None,
  content <- TextOf(file), stable <- TextOf(durable),
  offered <- [p \in Procs |-> IF phase[p] \in Writing THEN data[p] ELSE None]

\* The file of playlists is replaced as a whole or not at all, although two
\* daemons save at once, writes fail, processes are killed and the power goes
\* between any two steps of a save (WriteJSONAtomic).
ImplementsAtomicFile == Stable!Spec

\* Each playlist in the file is one the manager held while the save went on:
\* calls that are still served change playlists between List, GetSongs and the
\* encoding, but no mixture of two versions is written (SavePlaylists).
SavedWasThere ==
  file # None /\ file.text # Torn => \A n \in Names : file.text[n] \in file.since[n]

\* A node keeps its identity: a daemon that no other runs beside, and that could
\* read it, has the one on the disk, if there is one.  One on the disk is lost
\* only to a daemon that started beside another and found none, to one that met
\* an error reading it, or with the power before the kernel has written it
\* (loadOrGenerateIdentity, generateAndSaveKey).
KeepsIdentity ==
  /\ [](\A p \in Procs \ (met \cup failed) :
          /\ phase[p] \notin {"down", "identity", "truncate", "writeKey"}
          /\ identity.text \in Keys
          => key[p] = identity.text)
  /\ [][identity.text \in Keys /\ identity'.text # identity.text =>
          \/ \E p \in met \cup failed : phase[p] \in {"truncate", "writeKey"}
          \/ ~identity.flushed /\ \A p \in Procs : phase'[p] = "down"]_allVars

\* A daemon that no other runs beside, and that meets no error of the file
\* system, gets its socket, whatever a killed daemon has left, and keeps it as
\* long as it serves (Server.Start, Stop).
StartsAlone ==
  /\ [](\A p \in Procs \ (met \cup failed) : phase[p] = "serving" => socket = p)
  /\ [][\A p \in Procs :
          phase[p] \in Starting /\ phase'[p] = "down" /\ events' = events
          => p \in met \cup failed]_allVars
=============================================================================
