---------------------------- MODULE DaemonProofs ----------------------------
(***************************************************************************)
(* The properties of Daemon for any number of processes, playlists, songs, *)
(* calls and events: types, the refinement of AtomicFile, what is saved,   *)
(* the socket and the identity.                                            *)
(***************************************************************************)
EXTENDS Daemon, SequenceTheorems, TLAPS

Histories == [Names -> SUBSET (Playlists \cup {Absent})]

(* The types that TypeOK leaves out. *)
AllTypes ==
  /\ todo \in [Procs -> SUBSET Names] /\ data \in [Procs -> Values]
  /\ temp \in [Procs -> Saved \cup {None}]
  /\ {file, durable} \subseteq Saved \cup {None}
  /\ since \in [Procs -> Histories]
  /\ call \in [Calls -> [proc : Procs, request : Requests] \cup {None}]
  /\ events \in Nat

Collecting == {"getSongs"} \cup Writing

(* A save: what has been collected, and what will be, was in memory since it
   began, and the temporary file has it from its encoding on. *)
SaveInv(p) ==
  /\ phase[p] = "getSongs" => \A n \in Names :
       pm[p][n] \in since[p][n] /\ (data[p][n] \in since[p][n] \/ n \in todo[p])
  /\ phase[p] \in Writing => \A n \in Names : data[p][n] \in temp[p].since[n]
  /\ phase[p] \in {"sync", "rename"} => temp[p].text = data[p]
  /\ phase[p] = "rename" => temp[p].synced

(* A file that has its name is complete, and was in memory. *)
Complete(f) ==
  f # None => f.synced /\ f.text \in Values /\ \A n \in Names : f.text[n] \in f.since[n]

SavesInv == (\A p \in Procs : SaveInv(p)) /\ Complete(file) /\ Complete(durable)

(* A process that no other runs beside, and one whose calls of the file system
   all succeed as well. *)
Undisturbed == Procs \ (met \cup failed)

AloneOrMet ==
  /\ \A p \in Procs \ met : Alive(p) => \A q \in Procs \ {p} : ~Alive(q)
  /\ \A p \in Undisturbed :
       /\ phase[p] = "listen" => socket = None
       /\ phase[p] \in {"chmod", "serving"} => socket = p
       /\ phase[p] # "giveUp"

(* The identity of such a process. *)
HasIdentity ==
  \A p \in Undisturbed :
    /\ phase[p] \in {"truncate", "writeKey"} => identity.text \notin Keys
    /\ phase[p] \notin {"down", "identity", "truncate", "writeKey"} /\ identity.text \in Keys
       => key[p] = identity.text

-----------------------------------------------------------------------------
(* Types. *)

LEMMA PlaylistsAreSequences ==
  \A s : s \in Playlists <=> s \in Seq(Songs) /\ Len(s) \in 0 .. MaxLen
<1> USE DaemonAssumption
<1>1. ASSUME NEW s \in Playlists
      PROVE  s \in Seq(Songs) /\ Len(s) \in 0 .. MaxLen
  <2>1. PICK k \in 0 .. MaxLen : s \in [1 .. k -> Songs]
    BY DEF Playlists
  <2>2. k \in Nat
    BY <2>1
  <2>3. s \in Seq(Songs) /\ Len(s) = k
    BY <2>1, <2>2
  <2> QED BY <2>1, <2>3
<1>2. ASSUME NEW s \in Seq(Songs), Len(s) \in 0 .. MaxLen
      PROVE  s \in Playlists
  <2>1. s \in [1 .. Len(s) -> Songs]
    BY <1>2
  <2> QED BY <2>1, <1>2 DEF Playlists
<1> QED BY <1>1, <1>2

\* What a request makes of a playlist is a playlist, or none (Manager).
LEMMA ApplyType ==
  ASSUME NEW r \in Requests, NEW songs \in Playlists \cup {Absent}
  PROVE  Apply(r, songs) \in Playlists \cup {Absent}
<1> USE DaemonAssumption
<1>1. <<>> \in Playlists
  <2>1. <<>> \in Seq(Songs) /\ Len(<<>>) = 0
    BY EmptySeq
  <2>2. Len(<<>>) \in 0 .. MaxLen
    BY <2>1
  <2> QED BY <2>1, <2>2, PlaylistsAreSequences
<1>2. ASSUME songs # Absent, Len(songs) < MaxLen, NEW x \in Songs
      PROVE  Append(songs, x) \in Playlists
  <2>1. songs \in Seq(Songs) /\ Len(songs) \in 0 .. MaxLen
    BY <1>2, PlaylistsAreSequences
  <2>2. Append(songs, x) \in Seq(Songs) /\ Len(Append(songs, x)) = Len(songs) + 1
    BY <2>1, AppendProperties
  <2>3. Len(Append(songs, x)) \in 0 .. MaxLen
    BY <1>2, <2>1, <2>2
  <2> QED BY <2>2, <2>3, PlaylistsAreSequences
<1>3. ASSUME songs # Absent, NEW i \in 1 .. MaxLen, i <= Len(songs)
      PROVE  RemoveAt(songs, i) \in Playlists
  <2>1. songs \in Seq(Songs) /\ Len(songs) \in 0 .. MaxLen
    BY <1>3, PlaylistsAreSequences
  <2>2. /\ SubSeq(songs, 1, i - 1) \in Seq(Songs)
        /\ Len(SubSeq(songs, 1, i - 1)) = i - 1
    BY <1>3, <2>1, SubSeqProperties
  <2>3. /\ SubSeq(songs, i + 1, Len(songs)) \in Seq(Songs)
        /\ Len(SubSeq(songs, i + 1, Len(songs))) = Len(songs) - i
    BY <1>3, <2>1, SubSeqProperties
  <2>4. /\ RemoveAt(songs, i) \in Seq(Songs)
        /\ Len(RemoveAt(songs, i)) = (i - 1) + (Len(songs) - i)
    BY <2>2, <2>3, ConcatProperties DEF RemoveAt
  <2> QED BY <1>3, <2>1, <2>4, PlaylistsAreSequences
<1>4. CASE r.op \in {"create", "delete"}
  BY <1>1, <1>4 DEF Apply
<1>5. CASE r.op = "add"
  <2>1. r.song \in Songs
    BY <1>5 DEF Requests
  <2>2. songs # Absent => Len(songs) \in 0 .. MaxLen
    BY PlaylistsAreSequences
  <2> QED BY <1>2, <1>5, <2>1, <2>2 DEF Apply
<1>6. CASE r.op = "remove"
  <2>1. r.index \in 1 .. MaxLen
    BY <1>6 DEF Requests
  <2>2. songs # Absent => Len(songs) \in 0 .. MaxLen
    BY PlaylistsAreSequences
  <2> QED BY <1>3, <1>6, <2>1, <2>2 DEF Apply
<1> QED BY <1>4, <1>5, <1>6 DEF Requests

TInv == TypeOK /\ AllTypes

LEMMA NoneApart ==
  /\ None \notin Saved /\ None \notin Procs /\ None \notin Keys
  /\ None \notin [proc : Procs, request : Requests]
  /\ Empty \in Values /\ NoHistory \in Histories
BY DaemonAssumption DEF Empty, Values, NoHistory, Histories

\* The types of what does not depend on the phases.
DataTypes ==
  /\ identity \in [text : Keys \cup {None, Torn}, flushed : BOOLEAN]
  /\ key \in [Procs -> Keys \cup {None}] /\ pm \in [Procs -> Values]
  /\ socket \in Procs \cup {None} /\ met \cup failed \subseteq Procs
  /\ AllTypes

LEMMA DataHasTypes == TInv => DataTypes
BY DEF TInv, TypeOK, DataTypes

\* A step of the main goroutine of a process that neither ends nor begins one.
LEMMA StepTypes ==
  ASSUME TInv, DataTypes', NEW p \in Procs,
         NEW from \in Phases \ {"down"}, NEW to \in Phases \ {"down"},
         To(p, from, to), to \in Starting => from \in Starting,
         \A q \in Procs \ {p} : temp'[q] = temp[q],
         temp'[p] # None <=> to \in Writing,
         UNCHANGED call
  PROVE  TInv'
<1> USE DEF TInv
<1>1. phase' \in [Procs -> Phases]
  BY DEF TypeOK, To
<1>2. \A q \in Procs : temp'[q] # None <=> phase'[q] \in Writing
  BY DEF TypeOK, To
<1>3. \A c \in Calls : call'[c] # None => phase'[call'[c].proc] \notin Starting \cup {"down"}
  <2> SUFFICES ASSUME NEW c \in Calls, call[c] # None
               PROVE  phase'[call[c].proc] \notin Starting \cup {"down"}
    OBVIOUS
  <2>1. call[c].proc \in Procs /\ phase[call[c].proc] \notin Starting \cup {"down"}
    BY DEF TypeOK, AllTypes
  <2> QED BY <2>1 DEF TypeOK, To
<1>4. TypeOK'
  BY <1>1, <1>2, <1>3 DEF TypeOK, DataTypes, AllTypes
<1> QED BY <1>4 DEF DataTypes

\* The same for one that leaves the temporary files alone.
LEMMA QuietStepTypes ==
  ASSUME TInv, DataTypes', NEW p \in Procs,
         NEW from \in Phases \ {"down"}, NEW to \in Phases \ {"down"},
         To(p, from, to), to \in Starting => from \in Starting,
         from \in Writing <=> to \in Writing,
         UNCHANGED <<temp, call>>
  PROVE  TInv'
<1>1. temp'[p] # None <=> to \in Writing
  BY DEF TInv, TypeOK, To
<1> QED BY <1>1, StepTypes

\* Processes that end leave what has its type.
LEMMA ExitTypes ==
  ASSUME TInv, NEW P \in SUBSET Procs, Exit(P),
         phase' = [q \in Procs |-> IF q \in P THEN "down" ELSE phase[q]],
         identity' \in [text : Keys \cup {None, Torn}, flushed : BOOLEAN],
         {file', durable'} \subseteq Saved \cup {None},
         socket' \in Procs \cup {None}, met' \subseteq Procs, events' \in Nat
  PROVE  TInv'
<1> USE NoneApart DEF TInv
<1>1. phase' \in [Procs -> Phases]
  BY DEF TypeOK, Phases
<1>2. /\ key' \in [Procs -> Keys \cup {None}] /\ pm' \in [Procs -> Values]
      /\ todo' \in [Procs -> SUBSET Names] /\ data' \in [Procs -> Values]
      /\ temp' \in [Procs -> Saved \cup {None}] /\ since' \in [Procs -> Histories]
  BY DEF Exit, TypeOK, AllTypes
<1>3. call' \in [Calls -> [proc : Procs, request : Requests] \cup {None}]
  BY DEF Exit, AllTypes
<1>4. \A q \in Procs : temp'[q] # None <=> phase'[q] \in Writing
  BY DEF Exit, TypeOK, Writing
<1>5. \A c \in Calls : call'[c] # None => phase'[call'[c].proc] \notin Starting \cup {"down"}
  <2> SUFFICES ASSUME NEW c \in Calls, call'[c] # None
               PROVE  phase'[call'[c].proc] \notin Starting \cup {"down"}
    OBVIOUS
  <2>1. call'[c] = call[c] /\ call[c] # None /\ call[c].proc \notin P
    BY DEF Exit
  <2>2. call[c].proc \in Procs /\ phase[call[c].proc] \notin Starting \cup {"down"}
    BY <2>1 DEF TypeOK, AllTypes
  <2> QED BY <2>1, <2>2
<1>6. TypeOK'
  BY <1>1, <1>2, <1>4, <1>5 DEF Exit, TypeOK, AllTypes
<1>7. AllTypes'
  BY <1>2, <1>3 DEF AllTypes
<1> QED BY <1>6, <1>7

LEMMA TypesInit == Init => TInv
<1> SUFFICES ASSUME Init PROVE TInv
  OBVIOUS
<1> USE NoneApart, DaemonAssumption
<1>1. TypeOK
  BY DEF Init, TypeOK, Phases, Writing
<1>2. AllTypes
  BY DEF Init, AllTypes
<1> QED BY <1>1, <1>2 DEF TInv

LEMMA TypesStep == TInv /\ [Next /\ Meet]_allVars => TInv'
<1> SUFFICES ASSUME TInv, [Next /\ Meet]_allVars PROVE TInv'
  OBVIOUS
<1> USE NoneApart
<1>1. CASE UNCHANGED allVars
  BY <1>1 DEF TInv, TypeOK, AllTypes, allVars, vars, node, stored
<1> SUFFICES ASSUME Next, Meet PROVE TInv'
  BY <1>1
<1>2. met' \subseteq Procs
  BY DEF Meet
<1>3. ASSUME NEW p \in Procs, Start(p) PROVE TInv'
  <2>1. TypeOK'
    <3>1. \A c \in Calls : call[c] # None => call[c].proc \in Procs /\ call[c].proc # p
      BY <1>3 DEF Start, To, TInv, TypeOK, AllTypes
    <3> QED
      BY <1>2, <1>3, <3>1 DEF Start, To, TInv, TypeOK, node, saving, Phases, Starting, Writing
  <2>2. AllTypes'
    BY <1>3 DEF Start, TInv, AllTypes, Event, saving, stored
  <2> QED BY <2>1, <2>2 DEF TInv
<1>4. ASSUME NEW p \in Procs, Step(p) PROVE TInv'
  <2> USE <1>2
  <2> USE DataHasTypes DEF Phases, Starting, Writing
  <2>1. CASE LoadOrGenerateIdentity(p)
    <3>1. key' \in [Procs -> Keys \cup {None}]
      BY <2>1 DEF LoadOrGenerateIdentity, Generate, DataTypes, Unused
    <3>2. DataTypes'
      BY <2>1, <3>1 DEF LoadOrGenerateIdentity, Failed, Event, DataTypes, AllTypes, saving, stored
    <3>3. PICK to \in {"load", "truncate"} : To(p, "identity", to)
      BY <2>1 DEF LoadOrGenerateIdentity
    <3>4. UNCHANGED <<temp, call>>
      BY <2>1 DEF LoadOrGenerateIdentity, saving
    <3> QED BY <3>2, <3>3, <3>4, QuietStepTypes
  <2>2. CASE TruncateIdentity(p)
    <3>1. identity' \in [text : Keys \cup {None, Torn}, flushed : BOOLEAN]
      <4>1. [text |-> Torn, flushed |-> FALSE] \in [text : Keys \cup {None, Torn}, flushed : BOOLEAN]
        OBVIOUS
      <4>2. identity' = [text |-> Torn, flushed |-> FALSE] \/ identity' = identity
        BY <2>2 DEF TruncateIdentity
      <4> QED BY <4>1, <4>2 DEF DataTypes
    <3>2. DataTypes'
      BY <2>2, <3>1 DEF TruncateIdentity, DataTypes, AllTypes, node, saving, stored
    <3>3. PICK to \in {"load", "writeKey"} : To(p, "truncate", to)
      BY <2>2 DEF TruncateIdentity
    <3>4. UNCHANGED <<temp, call>>
      BY <2>2 DEF TruncateIdentity, saving
    <3> QED BY <3>2, <3>3, <3>4, QuietStepTypes
  <2>3. CASE WriteIdentity(p)
    <3>1. DataTypes'
      BY <2>3 DEF WriteIdentity, DataTypes, AllTypes, node, saving, stored
    <3>2. To(p, "writeKey", "load") /\ UNCHANGED <<temp, call>>
      BY <2>3 DEF WriteIdentity, saving
    <3> QED BY <3>1, <3>2, QuietStepTypes
  <2>4. CASE LoadPlaylists(p)
    <3>1. pm' \in [Procs -> Values]
      BY <2>4 DEF LoadPlaylists, DataTypes, AllTypes, Saved
    <3>2. DataTypes'
      BY <2>4, <3>1 DEF LoadPlaylists, DataTypes, AllTypes, node, saving, stored
    <3>3. To(p, "load", "removeSocket") /\ UNCHANGED <<temp, call>>
      BY <2>4 DEF LoadPlaylists, saving
    <3> QED BY <3>2, <3>3, QuietStepTypes
  <2>5. CASE RemoveSocket(p)
    <3>1. DataTypes'
      BY <2>5 DEF RemoveSocket, Failed, Event, DataTypes, AllTypes, saving, stored
    <3>2. To(p, "removeSocket", "listen") /\ UNCHANGED <<temp, call>>
      BY <2>5 DEF RemoveSocket, saving
    <3> QED BY <3>1, <3>2, QuietStepTypes
  <2>6. CASE Listen(p)
    <3>1. CASE /\ To(p, "listen", "chmod") /\ socket' = p
               /\ UNCHANGED <<key, failed, pm, saving, call>>
      <4>1. DataTypes'
        BY <2>6, <3>1 DEF Listen, DataTypes, AllTypes, saving, stored
      <4> QED BY <3>1, <4>1, QuietStepTypes DEF saving
    <3>2. CASE To(p, "listen", "down") /\ UNCHANGED socket /\ Exit({p})
      <4>1. phase' = [q \in Procs |-> IF q \in {p} THEN "down" ELSE phase[q]]
        BY <3>2 DEF To, TInv, TypeOK
      <4> QED
        BY <2>6, <3>2, <4>1, ExitTypes DEF Listen, TInv, TypeOK, AllTypes, stored
    <3> QED BY <2>6, <3>1, <3>2 DEF Listen
  <2>7. CASE Chmod(p)
    <3>2. DataTypes'
      BY <2>7 DEF Chmod, Failed, Event, DataTypes, AllTypes, saving, stored
    <3>3. PICK to \in {"giveUp", "serving"} : To(p, "chmod", to)
      BY <2>7 DEF Chmod
    <3>4. UNCHANGED <<temp, call>>
      BY <2>7 DEF Chmod, saving
    <3> QED BY <3>2, <3>3, <3>4, QuietStepTypes
  <2>8. CASE GiveUp(p)
    <3>1. phase' = [q \in Procs |-> IF q \in {p} THEN "down" ELSE phase[q]]
      BY <2>8 DEF GiveUp, To, TInv, TypeOK
    <3> QED
      BY <2>8, <3>1, ExitTypes DEF GiveUp, TInv, TypeOK, AllTypes, stored
  <2>9. CASE List(p)
    <3>1. todo' \in [Procs -> SUBSET Names] /\ data' \in [Procs -> Values]
      BY <2>9 DEF List, DataTypes, AllTypes
    <3>2. since' \in [Procs -> Histories]
      <4>1. [n \in Names |-> {pm[p][n]}] \in Histories
        BY DEF DataTypes, Values, Histories
      <4> QED BY <2>9, <4>1 DEF List, DataTypes, AllTypes
    <3>3. DataTypes'
      BY <2>9, <3>1, <3>2 DEF List, DataTypes, AllTypes, node, stored
    <3>4. To(p, "list", "getSongs") /\ UNCHANGED <<temp, call>>
      BY <2>9 DEF List
    <3> QED BY <3>3, <3>4, QuietStepTypes
  <2>10. ASSUME NEW n \in Names, GetSongs(p, n) PROVE TInv'
    <3>1. todo' \in [Procs -> SUBSET Names]
      BY <2>10 DEF GetSongs, DataTypes, AllTypes
    <3>2. data' \in [Procs -> Values]
      BY <2>10 DEF GetSongs, DataTypes, AllTypes, Values
    <3>3. DataTypes'
      BY <2>10, <3>1, <3>2 DEF GetSongs, DataTypes, AllTypes, node, stored
    <3>4. To(p, "getSongs", "getSongs") /\ UNCHANGED <<temp, call>>
      BY <2>10 DEF GetSongs, To, TInv, TypeOK
    <3> QED BY <3>3, <3>4, QuietStepTypes
  <2>11. CASE CreateTemp(p)
    <3> DEFINE new == [text |-> Torn, synced |-> FALSE, since |-> since[p]]
    <3>1. new \in Saved
      BY DEF DataTypes, AllTypes, Saved, Histories
    <3>2. temp' = [temp EXCEPT ![p] = new]
      BY <2>11 DEF CreateTemp
    <3> HIDE DEF new
    <3>3. temp' \in [Procs -> Saved \cup {None}] /\ temp'[p] # None
      BY <3>1, <3>2, NoneApart DEF DataTypes, AllTypes
    <3>4. DataTypes'
      BY <2>11, <3>3 DEF CreateTemp, DataTypes, AllTypes, node, stored
    <3>5. \A q \in Procs \ {p} : temp'[q] = temp[q]
      BY <3>2 DEF DataTypes, AllTypes
    <3>6. To(p, "getSongs", "encode") /\ UNCHANGED call
      BY <2>11 DEF CreateTemp
    <3> QED BY <3>3, <3>4, <3>5, <3>6, StepTypes
  <2>12. CASE Encode(p)
    <3> DEFINE new == [temp[p] EXCEPT !.text = data[p]]
    <3>1. new \in Saved
      <4>1. temp[p] \in Saved
        BY <2>12 DEF Encode, To, TInv, TypeOK, AllTypes
      <4> QED BY <4>1 DEF DataTypes, AllTypes, Saved
    <3>2. temp' = [temp EXCEPT ![p] = new]
      BY <2>12 DEF Encode
    <3> HIDE DEF new
    <3>3. temp' \in [Procs -> Saved \cup {None}] /\ temp'[p] # None
      BY <3>1, <3>2, NoneApart DEF DataTypes, AllTypes
    <3>4. DataTypes'
      BY <2>12, <3>3 DEF Encode, DataTypes, AllTypes, node, stored
    <3>5. \A q \in Procs \ {p} : temp'[q] = temp[q]
      BY <3>2 DEF DataTypes, AllTypes
    <3>6. To(p, "encode", "sync") /\ UNCHANGED call
      BY <2>12 DEF Encode
    <3> QED BY <3>3, <3>4, <3>5, <3>6, StepTypes
  <2>13. CASE Sync(p)
    <3> DEFINE new == [temp[p] EXCEPT !.synced = TRUE]
    <3>1. new \in Saved
      <4>1. temp[p] \in Saved
        BY <2>13 DEF Sync, To, TInv, TypeOK, AllTypes
      <4> QED BY <4>1 DEF DataTypes, AllTypes, Saved
    <3>2. temp' = [temp EXCEPT ![p] = new]
      BY <2>13 DEF Sync
    <3> HIDE DEF new
    <3>3. temp' \in [Procs -> Saved \cup {None}] /\ temp'[p] # None
      BY <3>1, <3>2, NoneApart DEF DataTypes, AllTypes
    <3>4. DataTypes'
      BY <2>13, <3>3 DEF Sync, DataTypes, AllTypes, node, stored
    <3>5. \A q \in Procs \ {p} : temp'[q] = temp[q]
      BY <3>2 DEF DataTypes, AllTypes
    <3>6. To(p, "sync", "rename") /\ UNCHANGED call
      BY <2>13 DEF Sync
    <3> QED BY <3>3, <3>4, <3>5, <3>6, StepTypes
  <2>14. CASE Rename(p)
    <3>1. phase' = [q \in Procs |-> IF q \in {p} THEN "down" ELSE phase[q]]
      BY <2>14 DEF Rename, To, TInv, TypeOK
    <3> QED
      BY <2>14, <3>1, ExitTypes DEF Rename, TInv, TypeOK, AllTypes
  <2>15. CASE WriteFails(p)
    <3>1. phase' = [q \in Procs |-> IF q \in {p} THEN "down" ELSE phase[q]]
      BY <2>15 DEF WriteFails, To, TInv, TypeOK
    <3> QED
      BY <2>15, <3>1, ExitTypes DEF WriteFails, TInv, TypeOK, AllTypes, stored
  <2> QED
    BY <1>4, <2>1, <2>2, <2>3, <2>4, <2>5, <2>6, <2>7, <2>8, <2>9, <2>10, <2>11, <2>12,
       <2>13, <2>14, <2>15 DEF Step
<1>5. ASSUME NEW p \in Procs, Stop(p) PROVE TInv'
  <2>1. DataTypes'
    BY <1>2, <1>5, DataHasTypes DEF Stop, DataTypes, AllTypes, node, saving, stored
  <2>2. To(p, "serving", "list") /\ UNCHANGED <<temp, call>>
    BY <1>5 DEF Stop, saving
  <2> QED BY <2>1, <2>2, QuietStepTypes DEF Phases, Starting, Writing
<1>6. ASSUME NEW p \in Procs, Crash(p) PROVE TInv'
  <2>1. phase' = [q \in Procs |-> IF q \in {p} THEN "down" ELSE phase[q]]
    BY <1>6 DEF Crash, TInv, TypeOK
  <2>2. /\ identity' \in [text : Keys \cup {None, Torn}, flushed : BOOLEAN]
        /\ {file', durable'} \subseteq Saved \cup {None}
        /\ socket' \in Procs \cup {None} /\ events' \in Nat /\ Exit({p})
    BY <1>6, DataHasTypes DEF Crash, Event, DataTypes, AllTypes, stored
  <2> QED BY <1>2, <2>1, <2>2, ExitTypes
<1>7. ASSUME NEW c \in Calls, Execute(c) PROVE TInv'
  <2> DEFINE p == call[c].proc
             r == call[c].request
             new == Apply(r, pm[p][r.name])
  <2>1. p \in Procs /\ r \in Requests /\ r.name \in Names
    BY <1>7 DEF Execute, TInv, AllTypes, Requests
  <2>2. pm[p][r.name] \in Playlists \cup {Absent}
    BY <2>1 DEF TInv, TypeOK, Values
  <2>3. new \in Playlists \cup {Absent}
    BY <2>1, <2>2, ApplyType
  <2>4. /\ pm' = [pm EXCEPT ![p][r.name] = new]
        /\ since' = [since EXCEPT ![p][r.name] = @ \cup {new}]
        /\ call' = [call EXCEPT ![c] = None]
        /\ UNCHANGED <<phase, node, todo, data, temp, stored, socket, events>>
    BY <1>7 DEF Execute
  <2> HIDE DEF p, r, new
  <2>5. pm' \in [Procs -> Values]
    BY <2>1, <2>3, <2>4 DEF TInv, TypeOK, Values
  <2>6. since' \in [Procs -> Histories]
    BY <2>1, <2>3, <2>4 DEF TInv, AllTypes, Histories
  <2>7. TypeOK'
    BY <1>2, <2>4, <2>5 DEF TInv, TypeOK, AllTypes, node
  <2>8. AllTypes'
    BY <2>4, <2>6 DEF TInv, AllTypes, stored
  <2> QED BY <2>7, <2>8 DEF TInv
<1>8. ASSUME NEW c \in Calls, NEW r \in Requests, Dial(c, r) PROVE TInv'
  <2> DEFINE new == [proc |-> socket, request |-> r]
  <2>1. socket \in Procs /\ new \in [proc : Procs, request : Requests] /\ new.proc = socket
    BY <1>8 DEF Dial, TInv, TypeOK
  <2>2. call' = [call EXCEPT ![c] = new] /\ phase[socket] = "serving"
    BY <1>8 DEF Dial
  <2> HIDE DEF new
  <2>3. TypeOK'
    BY <1>2, <1>8, <2>1, <2>2 DEF Dial, TInv, TypeOK, AllTypes, node, saving, Starting
  <2>4. AllTypes'
    BY <1>8, <2>1, <2>2 DEF Dial, TInv, AllTypes, Event, saving, stored
  <2> QED BY <2>3, <2>4 DEF TInv
<1>9. CASE Flush
  <2>1. TypeOK'
    BY <1>2, <1>9 DEF Flush, TInv, TypeOK, saving
  <2>2. AllTypes'
    BY <1>9 DEF Flush, TInv, AllTypes, saving
  <2> QED BY <2>1, <2>2 DEF TInv
<1>10. CASE PowerLoss
  <2>1. Remains \in Saved \cup {None}
    BY DEF Remains, TInv, AllTypes, Saved
  <2> QED
    BY <1>2, <1>10, <2>1, ExitTypes DEF PowerLoss, Event, TInv, TypeOK, AllTypes
<1> QED
  BY <1>3, <1>4, <1>5, <1>6, <1>7, <1>8, <1>9, <1>10 DEF Next

-----------------------------------------------------------------------------
(* Saves. *)

\* What a process that collects or writes depends on.
Same(p) ==
  /\ phase'[p] = phase[p] /\ pm'[p] = pm[p] /\ todo'[p] = todo[p]
  /\ data'[p] = data[p] /\ temp'[p] = temp[p] /\ since'[p] = since[p]

LEMMA SaveKept ==
  ASSUME NEW p \in Procs, SaveInv(p), Same(p) \/ phase'[p] \notin Collecting
  PROVE  SaveInv(p)'
BY DEF SaveInv, Same, Collecting, Writing

LEMMA SavesKept ==
  ASSUME SavesInv, \A p \in Procs : Same(p) \/ phase'[p] \notin Collecting,
         {file', durable'} \subseteq {file, durable}
  PROVE  SavesInv'
<1>1. \A p \in Procs : SaveInv(p)'
  BY SaveKept DEF SavesInv
<1>2. Complete(file)' /\ Complete(durable)'
  BY DEF SavesInv, Complete
<1> QED BY <1>1, <1>2 DEF SavesInv

\* A step of one process.
LEMMA OneSaves ==
  ASSUME SavesInv, NEW p \in Procs, SaveInv(p)', \A q \in Procs \ {p} : Same(q),
         UNCHANGED stored
  PROVE  SavesInv'
<1>1. \A q \in Procs : SaveInv(q)'
  BY SaveKept DEF SavesInv
<1> QED BY <1>1 DEF SavesInv, Complete, stored

LEMMA ExitSaves ==
  ASSUME TInv, SavesInv, NEW P \in SUBSET Procs, Exit(P),
         phase' = [q \in Procs |-> IF q \in P THEN "down" ELSE phase[q]],
         {file', durable'} \subseteq {file, durable}
  PROVE  SavesInv'
<1>1. \A q \in Procs \ P : Same(q)
  BY DEF Exit, Same
<1>2. \A q \in P : phase'[q] \notin Collecting
  BY DEF Collecting, Writing
<1> QED BY <1>1, <1>2, SavesKept

\* A step of the main goroutine that has to do with no save.
LEMMA QuietSaves ==
  ASSUME TInv, SavesInv, NEW p \in Procs, NEW from, NEW to,
         To(p, from, to), to \notin Collecting, UNCHANGED <<todo, data, temp, since, stored>>,
         \A q \in Procs \ {p} : pm'[q] = pm[q]
  PROVE  SavesInv'
<1>1. \A q \in Procs \ {p} : Same(q)
  BY DEF To, Same, TInv, TypeOK
<1>2. phase'[p] = to
  BY DEF To, TInv, TypeOK
<1> QED BY <1>1, <1>2, SavesKept DEF stored

LEMMA SavesStep == TInv /\ SavesInv /\ [Next /\ Meet]_allVars => SavesInv'
<1> SUFFICES ASSUME TInv, SavesInv, [Next /\ Meet]_allVars PROVE SavesInv'
  OBVIOUS
<1>1. CASE UNCHANGED allVars
  BY <1>1, SavesKept DEF Same, allVars, vars, stored
<1> SUFFICES ASSUME Next PROVE SavesInv'
  BY <1>1
<1>2. ASSUME NEW p \in Procs, NEW from, NEW to \in {"identity", "truncate", "writeKey", "load",
                 "removeSocket", "listen", "chmod", "giveUp", "serving", "list"},
             To(p, from, to), UNCHANGED <<todo, data, temp, since, stored>>,
             \A q \in Procs \ {p} : pm'[q] = pm[q]
      PROVE  SavesInv'
  BY <1>2, QuietSaves DEF Collecting, Writing
<1>3. ASSUME NEW p \in Procs, Start(p) \/ Stop(p) \/ LoadOrGenerateIdentity(p)
               \/ TruncateIdentity(p) \/ WriteIdentity(p) \/ RemoveSocket(p) \/ Chmod(p)
      PROVE  SavesInv'
  BY <1>2, <1>3
  DEF Start, Stop, LoadOrGenerateIdentity, TruncateIdentity, WriteIdentity, RemoveSocket, Chmod,
      node, saving
<1>4. ASSUME NEW p \in Procs, LoadPlaylists(p) PROVE SavesInv'
  <2>1. \A q \in Procs \ {p} : pm'[q] = pm[q]
    BY <1>4 DEF LoadPlaylists, TInv, TypeOK
  <2> QED BY <1>2, <1>4, <2>1 DEF LoadPlaylists, saving
<1>5. ASSUME NEW p \in Procs, Listen(p) \/ GiveUp(p) \/ WriteFails(p) \/ Crash(p) PROVE SavesInv'
  <2>1. CASE Listen(p) /\ To(p, "listen", "chmod") /\ UNCHANGED <<key, pm, saving, call>>
    BY <1>2, <2>1 DEF Listen, saving
  <2>2. CASE Exit({p}) /\ phase' = [phase EXCEPT ![p] = "down"] /\ UNCHANGED stored
    <3>1. phase' = [q \in Procs |-> IF q \in {p} THEN "down" ELSE phase[q]]
      BY <2>2 DEF TInv, TypeOK
    <3> QED BY <2>2, <3>1, ExitSaves DEF stored
  <2> QED BY <1>5, <2>1, <2>2 DEF Listen, GiveUp, WriteFails, Crash, To
<1>6. ASSUME NEW p \in Procs, List(p) PROVE SavesInv'
  <2>1. \A q \in Procs \ {p} : Same(q)
    BY <1>6 DEF List, To, Same, TInv, TypeOK, AllTypes
  <2>2. /\ phase'[p] = "getSongs" /\ pm'[p] = pm[p] /\ data'[p] = Empty
        /\ todo'[p] = {n \in Names : pm[p][n] # Absent}
        /\ since'[p] = [n \in Names |-> {pm[p][n]}]
    BY <1>6 DEF List, To, TInv, TypeOK, AllTypes
  <2>3. SaveInv(p)'
    BY <2>2 DEF SaveInv, Empty, Writing
  <2> QED BY <1>6, <2>1, <2>3, OneSaves DEF List
<1>7. ASSUME NEW p \in Procs, NEW n \in Names, GetSongs(p, n) PROVE SavesInv'
  <2>1. \A q \in Procs \ {p} : Same(q)
    BY <1>7 DEF GetSongs, Same, TInv, AllTypes
  <2>2. /\ phase[p] = "getSongs" /\ UNCHANGED <<phase, pm, since>>
        /\ todo'[p] = todo[p] \ {n} /\ data'[p] = [data[p] EXCEPT ![n] = pm[p][n]]
    BY <1>7 DEF GetSongs, TInv, AllTypes
  <2>3. data[p] \in Values /\ SaveInv(p)
    BY DEF TInv, AllTypes, SavesInv
  <2>4. SaveInv(p)'
    BY <2>2, <2>3 DEF SaveInv, Values, Writing
  <2> QED BY <1>7, <2>1, <2>4, OneSaves DEF GetSongs
<1>8. ASSUME NEW p \in Procs, CreateTemp(p) PROVE SavesInv'
  <2>1. \A q \in Procs \ {p} : Same(q)
    BY <1>8 DEF CreateTemp, To, Same, TInv, TypeOK, AllTypes
  <2>2. /\ phase[p] = "getSongs" /\ phase'[p] = "encode" /\ todo[p] = {} /\ data'[p] = data[p]
        /\ temp'[p].since = since[p]
    BY <1>8 DEF CreateTemp, To, TInv, TypeOK, AllTypes
  <2>3. SaveInv(p)
    BY DEF SavesInv
  <2>4. SaveInv(p)'
    BY <2>2, <2>3 DEF SaveInv, Writing
  <2> QED BY <1>8, <2>1, <2>4, OneSaves DEF CreateTemp
<1>9. ASSUME NEW p \in Procs, Encode(p) PROVE SavesInv'
  <2>1. \A q \in Procs \ {p} : Same(q)
    BY <1>9 DEF Encode, To, Same, TInv, TypeOK, AllTypes
  <2>2. temp[p] \in Saved
    BY <1>9 DEF Encode, To, TInv, TypeOK, AllTypes, Writing
  <2>3. /\ phase[p] = "encode" /\ phase'[p] = "sync" /\ data'[p] = data[p]
        /\ temp'[p] = [temp[p] EXCEPT !.text = data[p]]
    BY <1>9 DEF Encode, To, TInv, TypeOK, AllTypes
  <2>4. temp'[p].text = data[p] /\ temp'[p].since = temp[p].since
    BY <2>2, <2>3 DEF Saved
  <2>5. SaveInv(p)'
    BY <2>3, <2>4 DEF SavesInv, SaveInv, Writing
  <2> QED BY <1>9, <2>1, <2>5, OneSaves DEF Encode
<1>10. ASSUME NEW p \in Procs, Sync(p) PROVE SavesInv'
  <2>1. \A q \in Procs \ {p} : Same(q)
    BY <1>10 DEF Sync, To, Same, TInv, TypeOK, AllTypes
  <2>2. temp[p] \in Saved
    BY <1>10 DEF Sync, To, TInv, TypeOK, AllTypes, Writing
  <2>3. /\ phase[p] = "sync" /\ phase'[p] = "rename" /\ data'[p] = data[p]
        /\ temp'[p] = [temp[p] EXCEPT !.synced = TRUE]
    BY <1>10 DEF Sync, To, TInv, TypeOK, AllTypes
  <2>4. temp'[p].text = temp[p].text /\ temp'[p].since = temp[p].since /\ temp'[p].synced
    BY <2>2, <2>3 DEF Saved
  <2>5. SaveInv(p)'
    BY <2>3, <2>4 DEF SavesInv, SaveInv, Writing
  <2> QED BY <1>10, <2>1, <2>5, OneSaves DEF Sync
<1>11. ASSUME NEW p \in Procs, Rename(p) PROVE SavesInv'
  <2>1. phase' = [q \in Procs |-> IF q \in {p} THEN "down" ELSE phase[q]]
    BY <1>11 DEF Rename, To, TInv, TypeOK
  <2>2. \A q \in Procs : SaveInv(q)'
    <3>1. \A q \in Procs \ {p} : Same(q)
      BY <1>11, <2>1 DEF Rename, Exit, Same
    <3> QED BY <2>1, <3>1, SaveKept DEF SavesInv, Collecting, Writing
  <2>3. temp[p] # None /\ temp[p].synced /\ temp[p].text = data[p] /\ data[p] \in Values
    BY <1>11 DEF Rename, To, SavesInv, SaveInv, TInv, TypeOK, AllTypes, Writing
  <2>4. \A n \in Names : data[p][n] \in temp[p].since[n]
    BY <1>11 DEF Rename, To, SavesInv, SaveInv, Writing
  <2>5. Complete(file)' /\ Complete(durable)'
    BY <1>11, <2>3, <2>4 DEF Rename, SavesInv, Complete
  <2> QED BY <2>2, <2>5 DEF SavesInv
<1>12. ASSUME NEW c \in Calls, Execute(c) PROVE SavesInv'
  <2>0. PICK p \in Procs, m \in Names : p = call[c].proc /\ m = call[c].request.name
    BY <1>12 DEF Execute, TInv, AllTypes, Requests
  <2> DEFINE new == Apply(call[c].request, pm[p][m])
  <2>2. /\ pm' = [pm EXCEPT ![p][m] = new]
        /\ since' = [since EXCEPT ![p][m] = @ \cup {new}]
        /\ UNCHANGED <<phase, todo, data, temp, stored>>
    BY <1>12, <2>0 DEF Execute
  <2> HIDE DEF new
  <2>3. \A q \in Procs \ {p} : Same(q)
    BY <2>2 DEF Same, TInv, TypeOK, AllTypes
  <2>4. /\ pm'[p] = [pm[p] EXCEPT ![m] = new]
        /\ since'[p] = [since[p] EXCEPT ![m] = @ \cup {new}]
    BY <2>2 DEF TInv, TypeOK, AllTypes
  <2>5. pm[p] \in Values /\ since[p] \in Histories /\ SaveInv(p)
    BY DEF TInv, TypeOK, AllTypes, SavesInv
  <2>6. \A n \in Names : since[p][n] \subseteq since'[p][n]
    BY <2>4, <2>5 DEF Histories
  <2>7. \A n \in Names : pm'[p][n] = pm[p][n] \/ pm'[p][n] \in since'[p][n]
    BY <2>4, <2>5 DEF Histories, Values
  <2>8. SaveInv(p)'
    BY <2>2, <2>5, <2>6, <2>7 DEF SaveInv, Writing
  <2> QED BY <2>2, <2>3, <2>8, OneSaves
<1>13. ASSUME NEW c \in Calls, NEW r \in Requests, Dial(c, r) PROVE SavesInv'
  BY <1>13, SavesKept DEF Dial, Same, saving, stored
<1>14. CASE Flush
  BY <1>14, SavesKept DEF Flush, Same, saving
<1>15. CASE PowerLoss
  <2>1. Remains = durable
    BY DEF Remains, SavesInv, Complete
  <2> QED BY <1>15, <2>1, ExitSaves DEF PowerLoss
<1> QED
  BY <1>3, <1>4, <1>5, <1>6, <1>7, <1>8, <1>9, <1>10, <1>11, <1>12, <1>13, <1>14, <1>15
  DEF Next, Step

-----------------------------------------------------------------------------
(* Every step is one of AtomicFile, or none. *)

Offered == [p \in Procs |-> IF phase[p] \in Writing THEN data[p] ELSE None]

LEMMA StableStep ==
  ASSUME TInv, SavesInv, [Next /\ Meet]_allVars
  PROVE  [Stable!Next]_(Stable!vars)
<1> USE DEF Offered
<1>1. ASSUME UNCHANGED <<file, durable, Offered>> PROVE [Stable!Next]_(Stable!vars)
  BY <1>1 DEF Stable!vars, TextOf
<1>2. ASSUME \A q \in Procs : /\ phase'[q] \in Writing <=> phase[q] \in Writing
                              /\ phase[q] \in Writing => data'[q] = data[q],
             UNCHANGED stored
      PROVE  [Stable!Next]_(Stable!vars)
  <2>1. Offered' = Offered
    BY <1>2
  <2> QED BY <1>1, <1>2, <2>1 DEF stored
<1>3. CASE UNCHANGED allVars
  BY <1>2, <1>3 DEF allVars, vars, stored
<1> SUFFICES ASSUME Next PROVE [Stable!Next]_(Stable!vars)
  BY <1>3
<1>4. ASSUME NEW p \in Procs, NEW from, NEW to, To(p, from, to), from \in Writing <=> to \in Writing,
             UNCHANGED <<data, stored>>
      PROVE  [Stable!Next]_(Stable!vars)
  BY <1>2, <1>4 DEF To, TInv, TypeOK
<1>5. ASSUME NEW p \in Procs, Start(p) \/ Stop(p) \/ LoadOrGenerateIdentity(p)
               \/ TruncateIdentity(p) \/ WriteIdentity(p) \/ LoadPlaylists(p) \/ RemoveSocket(p)
               \/ Chmod(p) \/ Encode(p) \/ Sync(p)
      PROVE  [Stable!Next]_(Stable!vars)
  BY <1>4, <1>5
  DEF Start, Stop, LoadOrGenerateIdentity, TruncateIdentity, WriteIdentity, LoadPlaylists,
      RemoveSocket, Chmod, Encode, Sync, node, saving, Writing
<1>6. ASSUME NEW p \in Procs, Exit({p}), phase' = [phase EXCEPT ![p] = "down"], UNCHANGED stored
      PROVE  Stable!Withdraw({p})
  <2>1. Offered' = [q \in Procs |-> IF q \in {p} THEN None ELSE Offered[q]]
    <3> SUFFICES ASSUME NEW q \in Procs
                 PROVE  Offered'[q] = IF q \in {p} THEN None ELSE Offered[q]
      OBVIOUS
    <3>1. CASE q = p
      BY <1>6, <3>1 DEF TInv, TypeOK, Writing
    <3>2. CASE q # p
      BY <1>6, <3>2 DEF TInv, TypeOK, Exit
    <3> QED BY <3>1, <3>2
  <2> QED BY <1>6, <2>1 DEF Stable!Withdraw, TextOf, stored
<1>7. ASSUME NEW p \in Procs, Listen(p) \/ GiveUp(p) \/ WriteFails(p) \/ Crash(p)
      PROVE  [Stable!Next]_(Stable!vars)
  <2>1. CASE Listen(p) /\ To(p, "listen", "chmod") /\ UNCHANGED <<key, pm, saving, call>>
    BY <1>4, <2>1 DEF Listen, saving, Writing
  <2>2. CASE Exit({p}) /\ phase' = [phase EXCEPT ![p] = "down"] /\ UNCHANGED stored
    BY <1>6, <2>2 DEF Stable!Next
  <2> QED BY <1>7, <2>1, <2>2 DEF Listen, GiveUp, WriteFails, Crash, To
<1>8. ASSUME NEW p \in Procs, List(p) PROVE [Stable!Next]_(Stable!vars)
  BY <1>2, <1>8 DEF List, To, TInv, TypeOK, AllTypes, Writing
<1>9. ASSUME NEW p \in Procs, NEW n \in Names, GetSongs(p, n) PROVE [Stable!Next]_(Stable!vars)
  BY <1>2, <1>9 DEF GetSongs, TInv, TypeOK, AllTypes, Writing
<1>10. ASSUME NEW p \in Procs, CreateTemp(p) PROVE [Stable!Next]_(Stable!vars)
  <2>1. Offered' = [Offered EXCEPT ![p] = data[p]]
    BY <1>10 DEF CreateTemp, To, TInv, TypeOK, Writing
  <2>2. Offered[p] = None
    BY <1>10 DEF CreateTemp, To, Writing
  <2>3. PICK v \in Values : v = data[p]
    BY DEF TInv, AllTypes
  <2>4. Stable!Offer(p, v)
    BY <1>10, <2>1, <2>2, <2>3 DEF CreateTemp, Stable!Offer, TextOf, stored
  <2> QED BY <2>4 DEF Stable!Next
<1>11. ASSUME NEW p \in Procs, Rename(p) PROVE [Stable!Next]_(Stable!vars)
  <2>1. Offered' = [Offered EXCEPT ![p] = None]
    BY <1>11 DEF Rename, Exit, To, TInv, TypeOK, Writing
  <2>2. Offered[p] = data[p] /\ data[p] # None
    BY <1>11, DaemonAssumption DEF Rename, To, TInv, AllTypes, Writing
  <2>3. TextOf(file)' = data[p]
    BY <1>11 DEF Rename, To, TextOf, TInv, TypeOK, SavesInv, SaveInv, Writing
  <2>4. Stable!Replace(p)
    BY <1>11, <2>1, <2>2, <2>3 DEF Rename, Stable!Replace, TextOf
  <2> QED BY <2>4 DEF Stable!Next
<1>12. ASSUME NEW c \in Calls, Execute(c) \/ \E r \in Requests : Dial(c, r)
       PROVE  [Stable!Next]_(Stable!vars)
  BY <1>2, <1>12 DEF Execute, Dial, saving
<1>13. CASE Flush
  <2>1. UNCHANGED <<file, Offered>>
    BY <1>13 DEF Flush, saving
  <2>2. CASE durable' = durable
    BY <1>1, <2>1, <2>2
  <2>3. CASE durable' = file
    BY <2>1, <2>3 DEF Stable!Next, Stable!Flush, TextOf
  <2> QED BY <1>13, <2>2, <2>3 DEF Flush
<1>14. CASE PowerLoss
  <2>1. Remains = durable
    BY DEF Remains, SavesInv, Complete
  <2>2. Offered' = [q \in Procs |-> None]
    BY <1>14 DEF PowerLoss, Writing
  <2>3. Stable!PowerLoss
    BY <1>14, <2>1, <2>2 DEF PowerLoss, Stable!PowerLoss, TextOf
  <2> QED BY <2>3 DEF Stable!Next
<1> QED
  BY <1>5, <1>7, <1>8, <1>9, <1>10, <1>11, <1>12, <1>13, <1>14 DEF Next, Step

-----------------------------------------------------------------------------
(* A process that is alone. *)

AloneInv == AloneOrMet /\ HasIdentity

\* While a process is alone, only its own steps and its calls happen.
LEMMA OnlyActor ==
  ASSUME TInv, AloneOrMet, Next, NEW p \in Procs, p \notin met, Alive(p)
  PROVE  \/ Step(p) \/ Stop(p) \/ Crash(p) \/ PowerLoss
         \/ UNCHANGED <<node, socket>> /\ phase'[p] = phase[p]
         \/ Flush
<1>1. \A q \in Procs \ {p} : phase[q] = "down"
  BY DEF AloneOrMet, Alive
<1>2. \A q \in Procs \ {p} : ~Step(q) /\ ~Stop(q) /\ ~Crash(q)
  BY <1>1
  DEF Step, Stop, Crash, Alive, To, LoadOrGenerateIdentity, TruncateIdentity, WriteIdentity,
      LoadPlaylists, RemoveSocket, Listen, Chmod, GiveUp, List, GetSongs, CreateTemp, Encode,
      Sync, Rename, WriteFails
<1>3. ASSUME NEW q \in Procs, Start(q)
      PROVE  UNCHANGED <<node, socket>> /\ phase'[p] = phase[p]
  BY <1>3 DEF Start, To, Alive, TInv, TypeOK
<1>4. ASSUME NEW c \in Calls, Execute(c) \/ \E r \in Requests : Dial(c, r)
      PROVE  UNCHANGED <<node, socket>> /\ phase'[p] = phase[p]
  BY <1>4 DEF Execute, Dial
<1> QED BY <1>2, <1>3, <1>4 DEF Next

LEMMA AloneStep == TInv /\ AloneInv /\ [Next /\ Meet]_allVars => AloneInv'
<1> SUFFICES ASSUME TInv, AloneInv, [Next /\ Meet]_allVars PROVE AloneInv'
  OBVIOUS
<1> USE NoneApart DEF AloneInv
<1>1. CASE UNCHANGED allVars
  BY <1>1 DEF AloneOrMet, HasIdentity, Undisturbed, Alive, allVars, vars, node
<1> SUFFICES ASSUME Next, Meet, NEW p \in Procs, p \notin met', p \notin failed', Alive(p)'
             PROVE  /\ phase'[p] = "listen" => socket' = None
                    /\ phase'[p] \in {"chmod", "serving"} => socket' = p
                    /\ phase'[p] # "giveUp"
                    /\ phase'[p] \in {"truncate", "writeKey"} => identity'.text \notin Keys
                    /\ phase'[p] \notin {"down", "identity", "truncate", "writeKey"}
                       /\ identity'.text \in Keys => key'[p] = identity'.text
  BY <1>1 DEF AloneOrMet, HasIdentity, Undisturbed, Alive, Meet
<1>2. p \notin met
  BY DEF Meet
<1>3. CASE ~Alive(p)
  <2>1. ASSUME NEW q \in Procs, Step(q) \/ Stop(q) \/ Crash(q) PROVE FALSE
    BY <1>3, <2>1
    DEF Alive, Step, Stop, Crash, To, LoadOrGenerateIdentity, TruncateIdentity, WriteIdentity,
        LoadPlaylists, RemoveSocket, Listen, Chmod, GiveUp, List, GetSongs, CreateTemp, Encode,
        Sync, Rename, WriteFails, TInv, TypeOK
  <2>2. ASSUME NEW q \in Procs, Start(q) PROVE phase'[p] = "identity"
    BY <1>3, <2>2 DEF Start, To, Alive, TInv, TypeOK
  <2>3. ASSUME NEW c \in Calls, Execute(c) \/ \E r \in Requests : Dial(c, r) PROVE FALSE
    BY <1>3, <2>3 DEF Alive, Execute, Dial
  <2>4. ~Flush /\ ~PowerLoss
    BY <1>3 DEF Alive, Flush, PowerLoss
  <2>5. PICK q \in Procs : Start(q)
    BY <2>1, <2>3, <2>4 DEF Next
  <2> QED BY <2>2, <2>5
<1>4. CASE Alive(p)
  <2>1. p \notin failed =>
          /\ phase[p] = "listen" => socket = None
          /\ phase[p] \in {"chmod", "serving"} => socket = p
          /\ phase[p] # "giveUp"
          /\ phase[p] \in {"truncate", "writeKey"} => identity.text \notin Keys
          /\ phase[p] \notin {"down", "identity", "truncate", "writeKey"} /\ identity.text \in Keys
             => key[p] = identity.text
    BY <1>2 DEF AloneOrMet, HasIdentity, Undisturbed
  <2>2. CASE UNCHANGED <<node, socket>> /\ phase'[p] = phase[p]
    BY <2>1, <2>2 DEF node
  <2>3. CASE Flush
    <3>1. identity'.text = identity.text
      BY <2>3 DEF Flush, TInv, TypeOK
    <3> QED BY <2>1, <2>3, <3>1 DEF Flush
  <2>4. CASE Stop(p)
    BY <2>1, <2>4 DEF Stop, To, TInv, TypeOK, node
  <2>5. CASE Step(p)
    <3> USE <2>1
    <3>1. CASE LoadOrGenerateIdentity(p)
      BY <3>1 DEF LoadOrGenerateIdentity, Failed, To, TInv, TypeOK
    <3>2. CASE TruncateIdentity(p)
      BY <3>2, DaemonAssumption DEF TruncateIdentity, To, TInv, TypeOK
    <3>3. CASE WriteIdentity(p)
      BY <3>3, DaemonAssumption DEF WriteIdentity, To, TInv, TypeOK
    <3>4. CASE LoadPlaylists(p)
      BY <3>4 DEF LoadPlaylists, To, TInv, TypeOK, node
    <3>5. CASE RemoveSocket(p)
      BY <3>5 DEF RemoveSocket, Failed, To, TInv, TypeOK
    <3>6. CASE Listen(p)
      BY <3>6 DEF Listen, To, TInv, TypeOK
    <3>7. CASE Chmod(p)
      BY <3>7 DEF Chmod, Failed, To, TInv, TypeOK
    <3>8. CASE GiveUp(p)
      BY <3>8 DEF GiveUp, To, Alive, TInv, TypeOK
    <3>9. CASE List(p) \/ \E n \in Names : GetSongs(p, n)
      BY <3>9 DEF List, GetSongs, To, TInv, TypeOK, node
    <3>10. CASE CreateTemp(p) \/ Encode(p) \/ Sync(p)
      BY <3>10 DEF CreateTemp, Encode, Sync, To, TInv, TypeOK, node
    <3>11. CASE Rename(p) \/ WriteFails(p)
      BY <3>11 DEF Rename, WriteFails, To, TInv, TypeOK, Alive
    <3> QED
      BY <2>5, <3>1, <3>2, <3>3, <3>4, <3>5, <3>6, <3>7, <3>8, <3>9, <3>10, <3>11 DEF Step
  <2>6. CASE Crash(p) \/ PowerLoss
    BY <2>6 DEF Crash, PowerLoss, Alive, TInv, TypeOK
  <2> QED BY <1>2, <1>4, <2>2, <2>3, <2>4, <2>5, <2>6, OnlyActor
<1> QED BY <1>3, <1>4

\* The guards of the steps that a process which is starting may take.
LEMMA EndsInPlace ==
  ASSUME TInv, AloneInv, Next, NEW p \in Procs,
         phase[p] \in Starting, phase'[p] = "down", events' = events
  PROVE  p \in met \cup failed
<1> SUFFICES ASSUME p \in Undisturbed PROVE FALSE
  BY DEF Undisturbed
<1>1. /\ Alive(p) /\ phase[p] # "giveUp"
      /\ phase[p] = "listen" => socket = None
  BY DEF AloneInv, AloneOrMet, Alive, Starting
<1> USE DEF Undisturbed
<1>2. phase'[p] # phase[p]
  BY DEF Starting
<1>3. ~Crash(p) /\ ~PowerLoss
  BY DEF Crash, PowerLoss, Event, TInv, AllTypes
<1>4. ~Flush /\ ~Stop(p)
  BY <1>2 DEF Flush, Stop, To, TInv, TypeOK
<1>5. Step(p)
  BY <1>1, <1>2, <1>3, <1>4, OnlyActor DEF AloneInv
<1>6. Listen(p) \/ GiveUp(p) \/ Rename(p) \/ WriteFails(p)
  BY <1>5
  DEF Step, LoadOrGenerateIdentity, TruncateIdentity, WriteIdentity, LoadPlaylists, RemoveSocket,
      Chmod, List, GetSongs, CreateTemp, Encode, Sync, To, TInv, TypeOK, Starting
<1> QED BY <1>1, <1>6 DEF Listen, GiveUp, Rename, WriteFails, To, Starting, TInv, TypeOK

\* Only writers of the identity, and a loss of power, change it.
LEMMA IdentityChanges ==
  ASSUME TInv, AloneInv, Next, identity.text \in Keys, identity'.text # identity.text
  PROVE  \/ \E p \in met \cup failed : phase[p] \in {"truncate", "writeKey"}
         \/ ~identity.flushed /\ \A p \in Procs : phase'[p] = "down"
<1>1. ASSUME NEW p \in Procs, TruncateIdentity(p) \/ WriteIdentity(p)
      PROVE  p \in met \cup failed /\ phase[p] \in {"truncate", "writeKey"}
  BY <1>1 DEF TruncateIdentity, WriteIdentity, To, AloneInv, HasIdentity, Undisturbed
<1>2. ~Flush
  BY DEF Flush, TInv, TypeOK
<1>3. PowerLoss => ~identity.flushed /\ \A p \in Procs : phase'[p] = "down"
  BY DEF PowerLoss
<1>4. ASSUME UNCHANGED identity PROVE FALSE
  BY <1>4
<1>5. ASSUME NEW p \in Procs, Start(p) \/ Step(p) \/ Stop(p) \/ Crash(p)
      PROVE  TruncateIdentity(p) \/ WriteIdentity(p)
  BY <1>4, <1>5
  DEF Start, Step, Stop, Crash, LoadOrGenerateIdentity, LoadPlaylists, RemoveSocket, Listen,
      Chmod, GiveUp, List, GetSongs, CreateTemp, Encode, Sync, Rename, WriteFails, node
<1>6. ASSUME NEW c \in Calls, Execute(c) \/ \E r \in Requests : Dial(c, r) PROVE FALSE
  BY <1>4, <1>6 DEF Execute, Dial, node
<1> QED BY <1>1, <1>2, <1>3, <1>5, <1>6 DEF Next

-----------------------------------------------------------------------------
LEMMA Invariants == Spec => [](TInv /\ SavesInv /\ AloneInv)
<1>1. Init => SavesInv
  BY DEF Init, SavesInv, SaveInv, Complete, Writing
<1>2. Init => AloneInv
  BY DEF Init, AloneInv, AloneOrMet, HasIdentity, Undisturbed, Alive
<1> QED BY <1>1, <1>2, TypesInit, TypesStep, SavesStep, AloneStep, PTL DEF Spec

\* The variables have their types, and only a writer has a temporary file.
THEOREM TypeCorrect == Spec => []TypeOK
<1>1. TInv => TypeOK
  BY DEF TInv
<1> QED BY <1>1, Invariants, PTL

\* WriteJSONAtomic keeps what it promises: the file of playlists is replaced as
\* a whole or not at all, whatever other daemons, errors, kills and losses of
\* power come between the steps of a save.
THEOREM Refinement == Spec => ImplementsAtomicFile
<1>1. Init => Stable!Init
  BY DEF Init, Stable!Init, TextOf, Writing
<1>2. TInv /\ SavesInv /\ [Next /\ Meet]_allVars => [Stable!Next]_(Stable!vars)
  BY StableStep
<1> QED BY <1>1, <1>2, Invariants, PTL DEF Spec, ImplementsAtomicFile, Stable!Spec

\* SavePlaylists writes no playlist that the manager did not hold while it ran,
\* although calls go on changing playlists meanwhile.
THEOREM SavedCorrect == Spec => []SavedWasThere
<1>1. SavesInv => SavedWasThere
  BY DEF SavesInv, Complete, SavedWasThere
<1> QED BY <1>1, Invariants, PTL

\* A daemon that no other runs beside, and that meets no error of the file
\* system, gets and keeps its socket (Server.Start).
THEOREM AloneStarts == Spec => StartsAlone
<1>1. AloneInv => \A p \in Procs \ (met \cup failed) : phase[p] = "serving" => socket = p
  BY DEF AloneInv, AloneOrMet, Undisturbed
<1>2. TInv /\ AloneInv /\ [Next /\ Meet]_allVars =>
        [\A p \in Procs : phase[p] \in Starting /\ phase'[p] = "down" /\ events' = events
           => p \in met \cup failed]_allVars
  BY EndsInPlace
<1> QED BY <1>1, <1>2, Invariants, PTL DEF Spec, StartsAlone

\* A daemon that no other runs beside, and that could read it, has the identity
\* on the disk; one on the disk is lost only to daemons that start at once, to one
\* that could not read it, or before it is flushed (loadOrGenerateIdentity,
\* generateAndSaveKey).
THEOREM IdentityKept == Spec => KeepsIdentity
<1>1. AloneInv => \A p \in Procs \ (met \cup failed) :
        /\ phase[p] \notin {"down", "identity", "truncate", "writeKey"}
        /\ identity.text \in Keys
        => key[p] = identity.text
  BY DEF AloneInv, HasIdentity, Undisturbed
<1>2. TInv /\ AloneInv /\ [Next /\ Meet]_allVars =>
        [identity.text \in Keys /\ identity'.text # identity.text =>
           \/ \E p \in met \cup failed : phase[p] \in {"truncate", "writeKey"}
           \/ ~identity.flushed /\ \A p \in Procs : phase'[p] = "down"]_allVars
  BY IdentityChanges
<1> QED BY <1>1, <1>2, Invariants, PTL DEF Spec, KeepsIdentity
=============================================================================
