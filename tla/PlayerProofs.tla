---------------------------- MODULE PlayerProofs ----------------------------
(***************************************************************************)
(* Safety of Player for any number of clients, songs and sessions: its     *)
(* type invariant, the cursor, the ownership of files, the rule that only  *)
(* a track that ended advances the queue, the delivery of its end, and the *)
(* refinement of SessionLifecycle.  Then a queue that one client fills and *)
(* nobody has steered yet.                                                 *)
(***************************************************************************)
EXTENDS MCSteered, TLAPS

InPlay == {"install", "load", "start"}   \* where a thread holds a session

(* A thread holds a session exactly while it is in the middle of Play, no
   other thread holds the same one, and its goroutine does not run yet. *)
SessionsHeld ==
  /\ \A t \in Threads : session[t] \in 0 .. opened
  /\ \A t \in Threads : session[t] # None <=> pc[t] \in InPlay
  /\ \A t, u \in Threads : session[t] = session[u] /\ session[t] # None => t = u
  /\ \A t \in Threads : session[t] # None => pc[session[t]] = "none"
  /\ \A s \in Sessions : s > opened => pc[s] = "none"

(* Whose file is open, and whose channel is closed. *)
FilesHeld ==
  /\ openFiles \cup closed \subseteq 1 .. opened
  /\ openFiles \cap closed = {}
  /\ installed # None => installed \in openFiles
  /\ \A t \in Threads :
       pc[t] = "install" => session[t] \in openFiles /\ session[t] # installed
  /\ \A s \in openFiles :
       s = installed \/ \E t \in Threads : pc[t] = "install" /\ session[t] = s

(* An end that is waiting in a channel is the end of that session's track. *)
EndsAreReal == token \subseteq drained /\ AdvanceOnlyAfterEnd

(* A Pause or Resume in progress has read a control. *)
CtrlRead ==
  \A t \in Threads : pc[t] \in {"pause", "resume"} => ref[t] \in Sessions

IInv == TypeOK /\ CursorInQueue /\ CtrlRead /\ SessionsHeld /\ FilesHeld /\ EndsAreReal

(* A step of a thread that neither enters Play's middle nor leaves it. *)
MoveOutside(t) ==
  /\ UNCHANGED <<opened, session, installed, openFiles, closed>>
  /\ pc[t] \notin InPlay \cup {"none"}
  /\ \E to \in PCs \ (InPlay \cup {"none"}) : pc' = [pc EXCEPT ![t] = to]

-----------------------------------------------------------------------------
(* Every action keeps the types. *)
LEMMA TypeStep == IInv /\ [Next]_vars => TypeOK'
  <1> SUFFICES ASSUME IInv, [Next]_vars PROVE TypeOK'
    OBVIOUS
  <1>a. /\ Clients \subseteq Threads /\ Sessions \subseteq Threads
        /\ \A t \in Threads : Rest(t) \in PCs
        /\ {"check", "select", "open", "install", "load", "start", "pause",
            "resume", "begin", "wait", "next", "done", "idle"} \subseteq PCs
    BY DEF Threads, Rest, PCs
  <1>b. /\ MaxSessions \in Nat /\ None \in 0 .. MaxSessions
        /\ Sessions \subseteq 0 .. MaxSessions
    BY PlayerAssumption DEF None, Sessions
  <1> USE DEF IInv, TypeOK, Goto, Pick, playerVars, sessionVars, speakerVars,
          threadVars
  <1>1. ASSUME NEW t \in Clients, AddToQueue(t)
        PROVE  TypeOK'
    <2>1. queue' \in Seq(Songs)
      BY <1>1 DEF AddToQueue
    <2>. QED BY <1>1, <1>a, <2>1 DEF AddToQueue
  <1>2. ASSUME NEW t \in Threads, CheckCurrentSong(t)
        PROVE  TypeOK'
    BY <1>2, <1>a, <1>b DEF CheckCurrentSong, GetCurrentSongIsNil
  <1>3. ASSUME NEW t \in Threads, SelectFirst(t)
        PROVE  TypeOK'
    <2>1. CASE queue = <<>>
      BY <1>3, <2>1, <1>a DEF SelectFirst
    <2>2. CASE queue # <<>>
      <3>1. queue[1] \in Songs
        BY <2>2
      <3>2. pc' \in [Threads -> PCs]
        BY <1>3, <2>2, <1>a DEF SelectFirst
      <3>3. currentIndex' = 0 /\ song' = [song EXCEPT ![t] = queue[1]]
        BY <1>3, <2>2 DEF SelectFirst
      <3>4. song' \in [Threads -> Songs \cup {NoSong}]
        BY <3>1, <3>3
      <3>. QED BY <1>3, <3>2, <3>3, <3>4 DEF SelectFirst
    <2>. QED BY <2>1, <2>2
  <1>4. ASSUME NEW t \in Threads, OpenFile(t)
        PROVE  TypeOK'
    <2>1. opened + 1 \in Sessions /\ opened + 1 \in 0 .. MaxSessions
      BY <1>4, <1>b DEF OpenFile, Sessions
    <2>. QED BY <1>4, <1>a, <1>b, <2>1 DEF OpenFile
  <1>5. ASSUME NEW t \in Threads, OpenFails(t)
        PROVE  TypeOK'
    BY <1>5, <1>a, <1>b DEF OpenFails
  <1>6. ASSUME NEW t \in Threads, Install(t)
        PROVE  TypeOK'
    <2>1. {installed} \ {None} \subseteq Sessions
      BY <1>b DEF Sessions, None
    <2>2. Silence \in [0 .. MaxSessions -> Nat]
      BY DEF Silence
    <2>. QED BY <1>6, <1>a, <2>1, <2>2 DEF Install, StopPlaybackLocked
  <1>7. ASSUME NEW t \in Threads, LoadVolumeCtrl(t)
        PROVE  TypeOK'
    BY <1>7, <1>a, <1>b DEF LoadVolumeCtrl
  <1>8. ASSUME NEW t \in Threads, SpeakerPlay(t)
        PROVE  TypeOK'
    <2>1. mixer' \in [0 .. MaxSessions -> Nat]
      BY <1>8 DEF SpeakerPlay
    <2>2. pc' \in [Threads -> PCs]
      BY <1>8, <1>a DEF SpeakerPlay
    <2>. QED BY <1>8, <1>b, <2>1, <2>2 DEF SpeakerPlay
  <1>9. ASSUME NEW t \in Threads, NEW from \in {"idle", "next"}, Advance(t, from)
        PROVE  TypeOK'
    <2>1. currentIndex + 2 \in 1 .. Len(queue) /\ currentIndex' \in Int
      BY <1>9 DEF Advance, CursorInQueue
    <2>2. queue[currentIndex + 2] \in Songs
      BY <2>1
    <2>. QED BY <1>9, <1>a, <2>1, <2>2 DEF Advance
  <1>10. ASSUME NEW t \in Clients, ClientPrevious(t)
        PROVE  TypeOK'
    <2>1. currentIndex \in 1 .. Len(queue) /\ currentIndex' \in Int
      BY <1>10 DEF ClientPrevious, CursorInQueue
    <2>2. queue[currentIndex] \in Songs
      BY <2>1
    <2>. QED BY <1>10, <1>a, <2>1, <2>2 DEF ClientPrevious
  <1>11. ASSUME NEW t \in Clients, ClientStop(t)
        PROVE  TypeOK'
    <2>1. {installed} \ {None} \subseteq Sessions
      BY <1>b DEF Sessions, None
    <2>2. Silence \in [0 .. MaxSessions -> Nat]
      BY DEF Silence
    <2>3. /\ mixer' \in [0 .. MaxSessions -> Nat] /\ closed' \subseteq Sessions
          /\ queue' \in Seq(Songs) /\ currentIndex' \in Int
      BY <1>11, <2>1, <2>2 DEF ClientStop, StopPlaybackLocked
    <2>. QED BY <1>11, <1>b, <2>3 DEF ClientStop
  <1>12. ASSUME NEW t \in Clients, ClientSetVolume(t)
        PROVE  TypeOK'
    BY <1>12, <1>a, <1>b DEF ClientSetVolume
  <1>13. ASSUME NEW t \in Clients, ClientReadCtrl(t)
        PROVE  TypeOK'
    <2>1. pc' \in [Threads -> PCs] /\ ref' \in [Threads -> 0 .. MaxSessions]
      BY <1>13, <1>a DEF ClientReadCtrl
    <2>. QED BY <1>13, <2>1 DEF ClientReadCtrl
  <1>14. ASSUME NEW t \in Clients, ClientSetPaused(t)
        PROVE  TypeOK'
    <2>1. pc[t] \in {"pause", "resume"} => ref[t] \in Sessions
      BY <1>a DEF CtrlRead
    <2>2. paused' \subseteq Sessions
      BY <1>14, <2>1 DEF ClientSetPaused
    <2>3. pc' \in [Threads -> PCs]
      BY <1>14, <1>a DEF ClientSetPaused
    <2>. QED BY <1>14, <1>b, <2>2, <2>3 DEF ClientSetPaused
  <1>15. ASSUME NEW t \in Sessions, ReceiveEnd(t)
        PROVE  TypeOK'
    BY <1>15, <1>a, <1>b DEF ReceiveEnd
  <1>16. ASSUME NEW t \in Sessions, ReceiveClosed(t)
        PROVE  TypeOK'
    BY <1>16, <1>a, <1>b DEF ReceiveClosed
  <1>17. ASSUME NEW t \in Sessions, AutoAdvanceAtEnd(t)
        PROVE  TypeOK'
    BY <1>17, <1>a, <1>b DEF AutoAdvanceAtEnd
  <1>18. ASSUME NEW t \in Sessions, StreamEnds(t)
        PROVE  TypeOK'
    <2>1. mixer' \in [0 .. MaxSessions -> Nat] /\ token' \subseteq Sessions
      BY <1>18 DEF StreamEnds
    <2>2. crashed' \in BOOLEAN
      BY <1>18 DEF StreamEnds
    <2>. QED BY <1>18, <2>1, <2>2 DEF StreamEnds
  <1>19. ASSUME StreamNil
        PROVE  TypeOK'
    BY <1>19, <1>a, <1>b DEF StreamNil
  <1>20. CASE UNCHANGED vars
    BY <1>20 DEF vars
  <1>21. ASSUME NEW t \in Sessions, WaitForEnd(t)
        PROVE  TypeOK'
    BY <1>21, <1>a, <1>b DEF WaitForEnd
  <1>. QED
    BY <1>1, <1>2, <1>3, <1>4, <1>5, <1>6, <1>7, <1>8, <1>9, <1>10, <1>11,
       <1>12, <1>13, <1>14, <1>15, <1>16, <1>17, <1>18, <1>19, <1>20,
       <1>21
       DEF Next, ContinuePlay, ClientStep, SessionStep, ClientNext, AutoAdvance,
           TrackEnds, ClosedStreamEnds,
           Threads

(* Every action keeps the cursor in the queue. *)
LEMMA CursorStep == IInv /\ [Next]_vars => CursorInQueue'
  <1> SUFFICES ASSUME IInv, [Next]_vars PROVE CursorInQueue'
    OBVIOUS
  <1> USE DEF IInv, TypeOK, CursorInQueue, Goto, Pick, playerVars, sessionVars, speakerVars,
          threadVars
  <1>1. ASSUME NEW t \in Clients, AddToQueue(t)
        PROVE  CursorInQueue'
    BY <1>1 DEF AddToQueue
  <1>2. ASSUME NEW t \in Threads, CheckCurrentSong(t)
        PROVE  CursorInQueue'
    BY <1>2 DEF CheckCurrentSong, GetCurrentSongIsNil
  <1>3. ASSUME NEW t \in Threads, SelectFirst(t)
        PROVE  CursorInQueue'
    <2>1. CASE queue = <<>>
      BY <1>3, <2>1 DEF SelectFirst
    <2>2. CASE queue # <<>>
      BY <1>3, <2>2 DEF SelectFirst
    <2>. QED BY <2>1, <2>2
  <1>4. ASSUME NEW t \in Threads, OpenFile(t)
        PROVE  CursorInQueue'
    BY <1>4 DEF OpenFile
  <1>5. ASSUME NEW t \in Threads, OpenFails(t)
        PROVE  CursorInQueue'
    BY <1>5 DEF OpenFails
  <1>6. ASSUME NEW t \in Threads, Install(t)
        PROVE  CursorInQueue'
    BY <1>6 DEF Install, StopPlaybackLocked
  <1>7. ASSUME NEW t \in Threads, LoadVolumeCtrl(t)
        PROVE  CursorInQueue'
    BY <1>7 DEF LoadVolumeCtrl
  <1>8. ASSUME NEW t \in Threads, SpeakerPlay(t)
        PROVE  CursorInQueue'
    BY <1>8 DEF SpeakerPlay
  <1>9. ASSUME NEW t \in Threads, NEW from \in {"idle", "next"}, Advance(t, from)
        PROVE  CursorInQueue'
    BY <1>9 DEF Advance
  <1>10. ASSUME NEW t \in Clients, ClientPrevious(t)
        PROVE  CursorInQueue'
    BY <1>10 DEF ClientPrevious
  <1>11. ASSUME NEW t \in Clients, ClientStop(t)
        PROVE  CursorInQueue'
    BY <1>11 DEF ClientStop, StopPlaybackLocked
  <1>12. ASSUME NEW t \in Clients, ClientSetVolume(t)
        PROVE  CursorInQueue'
    BY <1>12 DEF ClientSetVolume
  <1>13. ASSUME NEW t \in Clients, ClientReadCtrl(t)
        PROVE  CursorInQueue'
    BY <1>13 DEF ClientReadCtrl
  <1>14. ASSUME NEW t \in Clients, ClientSetPaused(t)
        PROVE  CursorInQueue'
    BY <1>14 DEF ClientSetPaused
  <1>15. ASSUME NEW t \in Sessions, ReceiveEnd(t)
        PROVE  CursorInQueue'
    BY <1>15 DEF ReceiveEnd
  <1>16. ASSUME NEW t \in Sessions, ReceiveClosed(t)
        PROVE  CursorInQueue'
    BY <1>16 DEF ReceiveClosed
  <1>17. ASSUME NEW t \in Sessions, AutoAdvanceAtEnd(t)
        PROVE  CursorInQueue'
    BY <1>17 DEF AutoAdvanceAtEnd
  <1>18. ASSUME NEW t \in Sessions, StreamEnds(t)
        PROVE  CursorInQueue'
    BY <1>18 DEF StreamEnds
  <1>19. ASSUME StreamNil
        PROVE  CursorInQueue'
    BY <1>19 DEF StreamNil
  <1>20. CASE UNCHANGED vars
    BY <1>20 DEF vars
  <1>21. ASSUME NEW t \in Sessions, WaitForEnd(t)
        PROVE  CursorInQueue'
    BY <1>21 DEF WaitForEnd
  <1>. QED
    BY <1>1, <1>2, <1>3, <1>4, <1>5, <1>6, <1>7, <1>8, <1>9, <1>10, <1>11,
       <1>12, <1>13, <1>14, <1>15, <1>16, <1>17, <1>18, <1>19, <1>20,
       <1>21
       DEF Next, ContinuePlay, ClientStep, SessionStep, ClientNext, AutoAdvance,
           TrackEnds, ClosedStreamEnds,
           Threads

(* A control that Pause or Resume read stays in its hand. *)
LEMMA CtrlStep == IInv /\ [Next]_vars => CtrlRead'
  <1> SUFFICES ASSUME IInv, [Next]_vars PROVE CtrlRead'
    OBVIOUS
  <1>a. Clients \subseteq Threads /\ Sessions \subseteq Threads
    BY DEF Threads
  <1> USE DEF IInv, TypeOK, CtrlRead, Rest, Goto, Pick, playerVars, sessionVars, speakerVars,
          threadVars
  <1>1. ASSUME NEW t \in Clients, AddToQueue(t)
        PROVE  CtrlRead'
    BY <1>1, <1>a DEF AddToQueue
  <1>2. ASSUME NEW t \in Threads, CheckCurrentSong(t)
        PROVE  CtrlRead'
    BY <1>2, <1>a DEF CheckCurrentSong, GetCurrentSongIsNil
  <1>3. ASSUME NEW t \in Threads, SelectFirst(t)
        PROVE  CtrlRead'
    BY <1>3, <1>a DEF SelectFirst
  <1>4. ASSUME NEW t \in Threads, OpenFile(t)
        PROVE  CtrlRead'
    BY <1>4, <1>a DEF OpenFile
  <1>5. ASSUME NEW t \in Threads, OpenFails(t)
        PROVE  CtrlRead'
    BY <1>5, <1>a DEF OpenFails
  <1>6. ASSUME NEW t \in Threads, Install(t)
        PROVE  CtrlRead'
    BY <1>6, <1>a DEF Install, StopPlaybackLocked
  <1>7. ASSUME NEW t \in Threads, LoadVolumeCtrl(t)
        PROVE  CtrlRead'
    BY <1>7, <1>a DEF LoadVolumeCtrl
  <1>8. ASSUME NEW t \in Threads, SpeakerPlay(t)
        PROVE  CtrlRead'
    BY <1>8, <1>a DEF SpeakerPlay
  <1>9. ASSUME NEW t \in Threads, NEW from \in {"idle", "next"}, Advance(t, from)
        PROVE  CtrlRead'
    BY <1>9, <1>a DEF Advance
  <1>10. ASSUME NEW t \in Clients, ClientPrevious(t)
        PROVE  CtrlRead'
    BY <1>10, <1>a DEF ClientPrevious
  <1>11. ASSUME NEW t \in Clients, ClientStop(t)
        PROVE  CtrlRead'
    BY <1>11, <1>a DEF ClientStop, StopPlaybackLocked
  <1>12. ASSUME NEW t \in Clients, ClientSetVolume(t)
        PROVE  CtrlRead'
    BY <1>12, <1>a DEF ClientSetVolume
  <1>13. ASSUME NEW t \in Clients, ClientReadCtrl(t)
        PROVE  CtrlRead'
    <2>1. installed \in Sessions
      BY <1>13 DEF ClientReadCtrl, None, Sessions
    <2>. QED BY <1>13, <2>1, <1>a DEF ClientReadCtrl
  <1>14. ASSUME NEW t \in Clients, ClientSetPaused(t)
        PROVE  CtrlRead'
    BY <1>14, <1>a DEF ClientSetPaused
  <1>15. ASSUME NEW t \in Sessions, ReceiveEnd(t)
        PROVE  CtrlRead'
    BY <1>15, <1>a DEF ReceiveEnd
  <1>16. ASSUME NEW t \in Sessions, ReceiveClosed(t)
        PROVE  CtrlRead'
    BY <1>16, <1>a DEF ReceiveClosed
  <1>17. ASSUME NEW t \in Sessions, AutoAdvanceAtEnd(t)
        PROVE  CtrlRead'
    BY <1>17, <1>a DEF AutoAdvanceAtEnd
  <1>18. ASSUME NEW t \in Sessions, StreamEnds(t)
        PROVE  CtrlRead'
    BY <1>18, <1>a DEF StreamEnds
  <1>19. ASSUME StreamNil
        PROVE  CtrlRead'
    BY <1>19, <1>a DEF StreamNil
  <1>20. CASE UNCHANGED vars
    BY <1>20 DEF vars
  <1>21. ASSUME NEW t \in Sessions, WaitForEnd(t)
        PROVE  CtrlRead'
    BY <1>21, <1>a DEF WaitForEnd
  <1>. QED
    BY <1>1, <1>2, <1>3, <1>4, <1>5, <1>6, <1>7, <1>8, <1>9, <1>10, <1>11,
       <1>12, <1>13, <1>14, <1>15, <1>16, <1>17, <1>18, <1>19, <1>20,
       <1>21
       DEF Next, ContinuePlay, ClientStep, SessionStep, ClientNext, AutoAdvance,
           TrackEnds, ClosedStreamEnds,
           Threads

(* A move of a thread outside Play leaves the hands and the files alone. *)
LEMMA MovesOutside ==
  ASSUME IInv, NEW t \in Threads, MoveOutside(t)
  PROVE  SessionsHeld' /\ FilesHeld'
  <1> USE DEF IInv, TypeOK, MoveOutside, InPlay
  <1>1. \A u \in Threads : pc'[u] # pc[u] => u = t
    OBVIOUS
  <1>2. \A u \in Threads : pc'[u] \in InPlay <=> pc[u] \in InPlay
    BY PlayerAssumption
  <1>3. \A u \in Threads : pc[u] = "none" => pc'[u] = "none"
    OBVIOUS
  <1>4. \A u \in Threads : pc'[u] = "install" <=> pc[u] = "install"
    OBVIOUS
  <1>5. Sessions \subseteq Threads /\ 0 .. MaxSessions = Sessions \cup {None}
    BY PlayerAssumption DEF Threads, Sessions, None
  <1>6. SessionsHeld'
    BY <1>2, <1>3, <1>5 DEF SessionsHeld
  <1>7. FilesHeld'
    BY <1>4 DEF FilesHeld
  <1> QED BY <1>6, <1>7

(* A session has one holder, from the opening of its file to speaker.Play;
   files are opened into a hand and closed out of the installed place. *)
LEMMA HandsStep == IInv /\ [Next]_vars => SessionsHeld' /\ FilesHeld'
  <1> SUFFICES ASSUME IInv, [Next]_vars PROVE SessionsHeld' /\ FilesHeld'
    OBVIOUS
  <1>a. /\ Clients \subseteq Threads /\ Sessions \subseteq Threads
        /\ Sessions \cap Clients = {}
    BY PlayerAssumption DEF Threads, Sessions
  <1>b. \A t \in Threads : Rest(t) \in {"idle", "done"}
    BY DEF Rest
  <1>c. 0 .. MaxSessions = Sessions \cup {None}
    BY PlayerAssumption DEF Sessions, None
  <1> USE PlayerAssumption DEF IInv, TypeOK, Goto, Pick, playerVars, sessionVars, speakerVars,
          threadVars
  <1>1. ASSUME NEW t \in Clients, AddToQueue(t)
        PROVE  SessionsHeld' /\ FilesHeld'
    <2>1. MoveOutside(t)
      BY <1>1, <1>a, <1>b DEF AddToQueue, MoveOutside, InPlay, PCs
    <2>. QED BY <2>1, <1>a, MovesOutside
  <1>2. ASSUME NEW t \in Threads, CheckCurrentSong(t)
        PROVE  SessionsHeld' /\ FilesHeld'
    <2>1. MoveOutside(t)
      BY <1>2, <1>a, <1>b DEF CheckCurrentSong, MoveOutside, InPlay, PCs, GetCurrentSongIsNil
    <2>. QED BY <2>1, <1>a, MovesOutside
  <1>3. ASSUME NEW t \in Threads, SelectFirst(t)
        PROVE  SessionsHeld' /\ FilesHeld'
    <2>1. MoveOutside(t)
      <3>1. CASE queue = <<>>
        BY <1>3, <3>1, <1>b DEF SelectFirst, MoveOutside, InPlay, PCs
      <3>2. CASE queue # <<>>
        BY <1>3, <3>2 DEF SelectFirst, MoveOutside, InPlay, PCs
      <3>. QED BY <3>1, <3>2
    <2>. QED BY <2>1, <1>a, MovesOutside
  <1>4. ASSUME NEW t \in Threads, OpenFile(t)
        PROVE  SessionsHeld' /\ FilesHeld'
    <2> DEFINE n == opened + 1
    <2>1. /\ n \in Sessions /\ n # None /\ n \notin 0 .. opened
          /\ n \notin 1 .. opened /\ 1 .. opened \subseteq 1 .. n
          /\ 0 .. opened \subseteq 0 .. n /\ n \in 0 .. n /\ n \in 1 .. n
          /\ \A s \in Sessions : s > n => s > opened
      BY <1>4 DEF OpenFile, Sessions, None
    <2>2. /\ session' = [session EXCEPT ![t] = n] /\ opened' = n
          /\ openFiles' = openFiles \cup {n} /\ pc[t] = "open"
          /\ pc' = [pc EXCEPT ![t] = "install"]
          /\ UNCHANGED <<installed, closed>>
      BY <1>4 DEF OpenFile
    <2> HIDE DEF n
    <2>3. pc[n] = "none"
      BY <2>1 DEF SessionsHeld
    <2>4. \A u \in Threads : session[u] # n
      BY <2>1 DEF SessionsHeld
    <2>5. session[t] = None
      BY <2>2 DEF SessionsHeld, InPlay
    <2>6. n # t
      BY <2>2, <2>3
    <2>7. SessionsHeld'
      <3>1. \A u \in Threads : session'[u] \in 0 .. opened'
        BY <2>1, <2>2 DEF SessionsHeld
      <3>2. \A u \in Threads : session'[u] # None <=> pc'[u] \in InPlay
        BY <2>1, <2>2 DEF SessionsHeld, InPlay
      <3>3. \A u, v \in Threads :
              session'[u] = session'[v] /\ session'[u] # None => u = v
        BY <2>2, <2>4 DEF SessionsHeld
      <3>4. \A u \in Threads : session'[u] # None => pc'[session'[u]] = "none"
        <4> SUFFICES ASSUME NEW u \in Threads, session'[u] # None
                     PROVE  pc'[session'[u]] = "none"
          OBVIOUS
        <4>1. CASE u = t
          BY <4>1, <2>1, <2>2, <2>3, <2>6, <1>a
        <4>2. CASE u # t
          <5>1. session'[u] = session[u] /\ session[u] \in Threads
            BY <4>2, <2>2, <1>a, <1>c
          <5>2. pc[session[u]] = "none"
            BY <5>1 DEF SessionsHeld
          <5>. QED BY <5>1, <5>2, <2>2
        <4>. QED BY <4>1, <4>2
      <3>5. \A s \in Sessions : s > opened' => pc'[s] = "none"
        BY <2>1, <2>2, <1>a DEF SessionsHeld
      <3>. QED BY <3>1, <3>2, <3>3, <3>4, <3>5 DEF SessionsHeld
    <2>8. FilesHeld'
      <3>1. /\ openFiles' \cup closed' \subseteq 1 .. opened'
            /\ openFiles' \cap closed' = {}
            /\ installed' # None => installed' \in openFiles'
        BY <2>1, <2>2 DEF FilesHeld
      <3>2. n # installed
        BY <2>1 DEF FilesHeld
      <3>3. \A u \in Threads :
              pc'[u] = "install" => session'[u] \in openFiles' /\ session'[u] # installed'
        BY <2>2, <3>2 DEF FilesHeld
      <3>4. \A s \in openFiles' :
              s = installed' \/ \E u \in Threads : pc'[u] = "install" /\ session'[u] = s
        <4> SUFFICES ASSUME NEW s \in openFiles', s # installed'
                     PROVE  \E u \in Threads : pc'[u] = "install" /\ session'[u] = s
          OBVIOUS
        <4>1. CASE s = n
          BY <4>1, <2>2
        <4>2. CASE s # n
          <5>1. PICK u \in Threads : pc[u] = "install" /\ session[u] = s
            BY <4>2, <2>2 DEF FilesHeld
          <5>. QED BY <5>1, <2>2
        <4>. QED BY <4>1, <4>2
      <3>. QED BY <3>1, <3>3, <3>4 DEF FilesHeld
    <2>. QED BY <2>7, <2>8
  <1>5. ASSUME NEW t \in Threads, OpenFails(t)
        PROVE  SessionsHeld' /\ FilesHeld'
    <2>1. MoveOutside(t)
      BY <1>5, <1>a, <1>b DEF OpenFails, MoveOutside, InPlay, PCs
    <2>. QED BY <2>1, <1>a, MovesOutside
  <1>6. ASSUME NEW t \in Threads, Install(t)
        PROVE  SessionsHeld' /\ FilesHeld'
    <2>1. /\ pc[t] = "install" /\ pc' = [pc EXCEPT ![t] = "load"]
          /\ openFiles' = openFiles \ {installed}
          /\ installed' = session[t]
          /\ closed' = closed \cup ({installed} \ {None})
          /\ UNCHANGED <<opened, session>>
      BY <1>6 DEF Install, StopPlaybackLocked
    <2>2. /\ \A u \in Threads : pc'[u] \in InPlay <=> pc[u] \in InPlay
          /\ \A u \in Threads : pc[u] = "none" => pc'[u] = "none"
      BY <2>1 DEF InPlay
    <2>3. SessionsHeld'
      BY <2>1, <2>2, <1>a, <1>c DEF SessionsHeld
    <2>4. FilesHeld'
      <3>1. session[t] \in openFiles /\ session[t] # installed
        BY <2>1 DEF FilesHeld
      <3>2. /\ openFiles' \cup closed' \subseteq 1 .. opened'
            /\ openFiles' \cap closed' = {}
            /\ installed' # None => installed' \in openFiles'
        BY <2>1, <3>1 DEF FilesHeld
      <3>3. \A u \in Threads :
              pc'[u] = "install" => session'[u] \in openFiles' /\ session'[u] # installed'
        BY <2>1 DEF FilesHeld, SessionsHeld, InPlay
      <3>4. \A s \in openFiles' :
              s = installed' \/ \E u \in Threads : pc'[u] = "install" /\ session'[u] = s
        BY <2>1 DEF FilesHeld
      <3>. QED BY <3>2, <3>3, <3>4 DEF FilesHeld
    <2>. QED BY <2>3, <2>4
  <1>7. ASSUME NEW t \in Threads, LoadVolumeCtrl(t)
        PROVE  SessionsHeld' /\ FilesHeld'
    <2>1. \A u \in Threads : pc'[u] \in InPlay <=> pc[u] \in InPlay
      BY <1>7 DEF LoadVolumeCtrl, InPlay
    <2>2. \A u \in Threads :
            /\ pc[u] = "none" => pc'[u] = "none"
            /\ pc'[u] = "install" <=> pc[u] = "install"
      BY <1>7 DEF LoadVolumeCtrl
    <2>3. SessionsHeld'
      BY <1>7, <2>1, <2>2, <1>a, <1>c DEF LoadVolumeCtrl, SessionsHeld
    <2>4. FilesHeld'
      BY <1>7, <2>2 DEF LoadVolumeCtrl, FilesHeld
    <2>. QED BY <2>3, <2>4
  <1>8. ASSUME NEW t \in Threads, SpeakerPlay(t)
        PROVE  SessionsHeld' /\ FilesHeld'
    <2> DEFINE n == session[t]
    <2>1. /\ pc[t] = "start" /\ n \in Sessions /\ n # None /\ pc[n] = "none"
          /\ n \in 0 .. opened
      BY <1>8, <1>c DEF SpeakerPlay, SessionsHeld, InPlay
    <2>2. /\ pc' = [pc EXCEPT ![t] = Rest(t), ![n] = "begin"]
          /\ session' = [session EXCEPT ![t] = None]
          /\ UNCHANGED <<opened, installed, openFiles, closed>>
      BY <1>8 DEF SpeakerPlay
    <2> HIDE DEF n
    <2>3. n \in Threads /\ n # t /\ session[t] = n
      BY <2>1, <1>a DEF n
    <2>4. /\ pc'[t] = Rest(t) /\ pc'[n] = "begin"
          /\ \A u \in Threads \ {t, n} : pc'[u] = pc[u]
      BY <2>2, <2>3
    <2>5. session[n] = None
      BY <2>1, <2>3 DEF SessionsHeld, InPlay
    <2>6. SessionsHeld'
      <3>1. \A u \in Threads : session'[u] \in 0 .. opened'
        BY <2>2, <2>5, <2>3 DEF SessionsHeld
      <3>2. \A u \in Threads : session'[u] # None <=> pc'[u] \in InPlay
        BY <2>2, <2>3, <2>4, <2>5, <1>b DEF SessionsHeld, InPlay
      <3>3. \A u, v \in Threads :
              session'[u] = session'[v] /\ session'[u] # None => u = v
        BY <2>2 DEF SessionsHeld
      <3>4. \A u \in Threads : session'[u] # None => pc'[session'[u]] = "none"
        <4> SUFFICES ASSUME NEW u \in Threads, session'[u] # None
                     PROVE  pc'[session'[u]] = "none"
          OBVIOUS
        <4>1. u # t /\ session'[u] = session[u]
          BY <2>2
        <4>2. session[u] # n /\ session[u] \in Threads
          BY <4>1, <2>1, <2>3, <1>a, <1>c DEF SessionsHeld
        <4>3. pc[session[u]] = "none"
          BY <4>1 DEF SessionsHeld
        <4>4. session[u] # t
          BY <4>3, <2>1
        <4>. QED BY <4>1, <4>2, <4>3, <4>4, <2>4
      <3>5. \A s \in Sessions : s > opened' => pc'[s] = "none"
        <4> SUFFICES ASSUME NEW s \in Sessions, s > opened
                     PROVE  pc'[s] = "none"
          BY <2>2
        <4>1. pc[s] = "none"
          BY DEF SessionsHeld
        <4>2. s # n
          BY <2>1 DEF Sessions
        <4>3. s # t
          BY <4>1, <2>1
        <4>. QED BY <4>1, <4>2, <4>3, <2>4, <1>a
      <3>. QED BY <3>1, <3>2, <3>3, <3>4, <3>5 DEF SessionsHeld
    <2>7. FilesHeld'
      <3>1. \A u \in Threads :
            /\ pc'[u] = "install" <=> pc[u] = "install"
            /\ pc[u] = "install" => session'[u] = session[u]
        BY <2>1, <2>2, <2>3, <2>4, <1>b
      <3>2. /\ openFiles' \cup closed' \subseteq 1 .. opened'
            /\ openFiles' \cap closed' = {}
            /\ installed' # None => installed' \in openFiles'
        BY <2>2 DEF FilesHeld
      <3>3. ASSUME NEW u \in Threads, pc'[u] = "install"
            PROVE  session'[u] \in openFiles' /\ session'[u] # installed'
        <4>1. pc[u] = "install" /\ session'[u] = session[u]
          BY <3>1, <3>3
        <4>2. session[u] \in openFiles /\ session[u] # installed
          BY <4>1 DEF FilesHeld
        <4>. QED BY <4>1, <4>2, <2>2
      <3>4. ASSUME NEW s \in openFiles', s # installed'
            PROVE  \E u \in Threads : pc'[u] = "install" /\ session'[u] = s
        <4>1. PICK u \in Threads : pc[u] = "install" /\ session[u] = s
          BY <2>2, <3>4 DEF FilesHeld
        <4>. QED BY <4>1, <3>1
      <3>. QED BY <3>2, <3>3, <3>4 DEF FilesHeld
    <2>. QED BY <2>6, <2>7
  <1>9. ASSUME NEW t \in Threads, NEW from \in {"idle", "next"}, Advance(t, from)
        PROVE  SessionsHeld' /\ FilesHeld'
    <2>1. MoveOutside(t)
      BY <1>9, <1>a, <1>b DEF Advance, MoveOutside, InPlay, PCs
    <2>. QED BY <2>1, <1>a, MovesOutside
  <1>10. ASSUME NEW t \in Clients, ClientPrevious(t)
        PROVE  SessionsHeld' /\ FilesHeld'
    <2>1. MoveOutside(t)
      BY <1>10, <1>a, <1>b DEF ClientPrevious, MoveOutside, InPlay, PCs
    <2>. QED BY <2>1, <1>a, MovesOutside
  <1>11. ASSUME NEW t \in Clients, ClientStop(t)
        PROVE  SessionsHeld' /\ FilesHeld'
    <2>1. /\ openFiles' = openFiles \ {installed}
          /\ installed' = None
          /\ closed' = closed \cup ({installed} \ {None})
          /\ UNCHANGED <<opened, session, pc>>
      BY <1>11 DEF ClientStop, StopPlaybackLocked
    <2>2. SessionsHeld'
      BY <2>1 DEF SessionsHeld
    <2>3. None \notin openFiles
      BY DEF Sessions, None
    <2>4. FilesHeld'
      BY <2>1, <2>3 DEF FilesHeld
    <2>. QED BY <2>2, <2>4
  <1>12. ASSUME NEW t \in Clients, ClientSetVolume(t)
        PROVE  SessionsHeld' /\ FilesHeld'
    BY <1>12 DEF ClientSetVolume, SessionsHeld, FilesHeld
  <1>13. ASSUME NEW t \in Clients, ClientReadCtrl(t)
        PROVE  SessionsHeld' /\ FilesHeld'
    <2>1. MoveOutside(t)
      BY <1>13, <1>a, <1>b DEF ClientReadCtrl, MoveOutside, InPlay, PCs
    <2>. QED BY <2>1, <1>a, MovesOutside
  <1>14. ASSUME NEW t \in Clients, ClientSetPaused(t)
        PROVE  SessionsHeld' /\ FilesHeld'
    <2>1. MoveOutside(t)
      BY <1>14, <1>a, <1>b DEF ClientSetPaused, MoveOutside, InPlay, PCs
    <2>. QED BY <2>1, <1>a, MovesOutside
  <1>15. ASSUME NEW t \in Sessions, ReceiveEnd(t)
        PROVE  SessionsHeld' /\ FilesHeld'
    <2>1. MoveOutside(t)
      BY <1>15, <1>a, <1>b DEF ReceiveEnd, MoveOutside, InPlay, PCs
    <2>. QED BY <2>1, <1>a, MovesOutside
  <1>16. ASSUME NEW t \in Sessions, ReceiveClosed(t)
        PROVE  SessionsHeld' /\ FilesHeld'
    <2>1. MoveOutside(t)
      BY <1>16, <1>a, <1>b DEF ReceiveClosed, MoveOutside, InPlay, PCs
    <2>. QED BY <2>1, <1>a, MovesOutside
  <1>17. ASSUME NEW t \in Sessions, AutoAdvanceAtEnd(t)
        PROVE  SessionsHeld' /\ FilesHeld'
    <2>1. MoveOutside(t)
      BY <1>17, <1>a, <1>b DEF AutoAdvanceAtEnd, MoveOutside, InPlay, PCs
    <2>. QED BY <2>1, <1>a, MovesOutside
  <1>18. ASSUME NEW t \in Sessions, StreamEnds(t)
        PROVE  SessionsHeld' /\ FilesHeld'
    BY <1>18 DEF StreamEnds, SessionsHeld, FilesHeld
  <1>19. ASSUME StreamNil
        PROVE  SessionsHeld' /\ FilesHeld'
    BY <1>19 DEF StreamNil, SessionsHeld, FilesHeld
  <1>20. CASE UNCHANGED vars
    BY <1>20 DEF vars, SessionsHeld, FilesHeld
  <1>21. ASSUME NEW t \in Sessions, WaitForEnd(t)
        PROVE  SessionsHeld' /\ FilesHeld'
    <2>1. MoveOutside(t)
      BY <1>21, <1>a, <1>b DEF WaitForEnd, MoveOutside, InPlay, PCs
    <2>. QED BY <2>1, <1>a, MovesOutside
  <1>. QED
    BY <1>1, <1>2, <1>3, <1>4, <1>5, <1>6, <1>7, <1>8, <1>9, <1>10, <1>11,
       <1>12, <1>13, <1>14, <1>15, <1>16, <1>17, <1>18, <1>19, <1>20,
       <1>21
       DEF Next, ContinuePlay, ClientStep, SessionStep, ClientNext, AutoAdvance,
           TrackEnds, ClosedStreamEnds,
           Threads

(* Only the speaker makes a session ended. *)
LEMMA EndsStep == IInv /\ [Next]_vars => EndsAreReal'
  <1> SUFFICES ASSUME IInv, [Next]_vars PROVE EndsAreReal'
    OBVIOUS
  <1>a. /\ Clients \subseteq Threads /\ Sessions \subseteq Threads
        /\ Sessions \cap Clients = {}
    BY PlayerAssumption DEF Threads, Sessions
  <1>b. \A t \in Threads : Rest(t) \in {"idle", "done"}
    BY DEF Rest
  <1> USE DEF IInv, TypeOK, EndsAreReal, AdvanceOnlyAfterEnd,
          Goto, Pick, playerVars, sessionVars, speakerVars,
          threadVars
  <1>1. ASSUME NEW t \in Clients, AddToQueue(t)
        PROVE  EndsAreReal'
    BY <1>1, <1>a, <1>b DEF AddToQueue
  <1>2. ASSUME NEW t \in Threads, CheckCurrentSong(t)
        PROVE  EndsAreReal'
    BY <1>2, <1>a, <1>b DEF CheckCurrentSong, GetCurrentSongIsNil
  <1>3. ASSUME NEW t \in Threads, SelectFirst(t)
        PROVE  EndsAreReal'
    BY <1>3, <1>a, <1>b DEF SelectFirst
  <1>4. ASSUME NEW t \in Threads, OpenFile(t)
        PROVE  EndsAreReal'
    BY <1>4, <1>a, <1>b DEF OpenFile
  <1>5. ASSUME NEW t \in Threads, OpenFails(t)
        PROVE  EndsAreReal'
    BY <1>5, <1>a, <1>b DEF OpenFails
  <1>6. ASSUME NEW t \in Threads, Install(t)
        PROVE  EndsAreReal'
    BY <1>6, <1>a, <1>b DEF Install, StopPlaybackLocked
  <1>7. ASSUME NEW t \in Threads, LoadVolumeCtrl(t)
        PROVE  EndsAreReal'
    BY <1>7, <1>a, <1>b DEF LoadVolumeCtrl
  <1>8. ASSUME NEW t \in Threads, SpeakerPlay(t)
        PROVE  EndsAreReal'
    BY <1>8, <1>a, <1>b DEF SpeakerPlay
  <1>9. ASSUME NEW t \in Threads, NEW from \in {"idle", "next"}, Advance(t, from)
        PROVE  EndsAreReal'
    BY <1>9, <1>a, <1>b DEF Advance
  <1>10. ASSUME NEW t \in Clients, ClientPrevious(t)
        PROVE  EndsAreReal'
    BY <1>10, <1>a, <1>b DEF ClientPrevious
  <1>11. ASSUME NEW t \in Clients, ClientStop(t)
        PROVE  EndsAreReal'
    BY <1>11, <1>a, <1>b DEF ClientStop, StopPlaybackLocked
  <1>12. ASSUME NEW t \in Clients, ClientSetVolume(t)
        PROVE  EndsAreReal'
    BY <1>12, <1>a, <1>b DEF ClientSetVolume
  <1>13. ASSUME NEW t \in Clients, ClientReadCtrl(t)
        PROVE  EndsAreReal'
    BY <1>13, <1>a, <1>b DEF ClientReadCtrl
  <1>14. ASSUME NEW t \in Clients, ClientSetPaused(t)
        PROVE  EndsAreReal'
    BY <1>14, <1>a, <1>b DEF ClientSetPaused
  <1>15. ASSUME NEW t \in Sessions, ReceiveEnd(t)
        PROVE  EndsAreReal'
    BY <1>15, <1>a, <1>b DEF ReceiveEnd
  <1>16. ASSUME NEW t \in Sessions, ReceiveClosed(t)
        PROVE  EndsAreReal'
    BY <1>16, <1>a, <1>b DEF ReceiveClosed
  <1>17. ASSUME NEW t \in Sessions, AutoAdvanceAtEnd(t)
        PROVE  EndsAreReal'
    BY <1>17, <1>a, <1>b DEF AutoAdvanceAtEnd
  <1>18. ASSUME NEW t \in Sessions, StreamEnds(t)
        PROVE  EndsAreReal'
    BY <1>18, <1>a, <1>b DEF StreamEnds
  <1>19. ASSUME StreamNil
        PROVE  EndsAreReal'
    BY <1>19, <1>a, <1>b DEF StreamNil
  <1>20. CASE UNCHANGED vars
    BY <1>20 DEF vars
  <1>21. ASSUME NEW t \in Sessions, WaitForEnd(t)
        PROVE  EndsAreReal'
    BY <1>21, <1>a, <1>b DEF WaitForEnd
  <1>. QED
    BY <1>1, <1>2, <1>3, <1>4, <1>5, <1>6, <1>7, <1>8, <1>9, <1>10, <1>11,
       <1>12, <1>13, <1>14, <1>15, <1>16, <1>17, <1>18, <1>19, <1>20,
       <1>21
       DEF Next, ContinuePlay, ClientStep, SessionStep, ClientNext, AutoAdvance,
           TrackEnds, ClosedStreamEnds,
           Threads

-----------------------------------------------------------------------------
(* The invariant holds in every state the player can reach. *)
THEOREM Invariance == Spec => []IInv
  <1>1. Init => IInv
    <2> SUFFICES ASSUME Init PROVE IInv
      OBVIOUS
    <2> USE PlayerAssumption DEF Init, None, Silence
    <2>1. TypeOK
      <3>1. queue \in Seq(Songs) /\ currentIndex \in Int
        OBVIOUS
      <3>2. songOf \in [Sessions -> Songs \cup {NoSong}]
        OBVIOUS
      <3>3. mixer \in [0 .. MaxSessions -> Nat] /\ opened \in 0 .. MaxSessions
        OBVIOUS
      <3>4. pc \in [Threads -> PCs]
        BY DEF PCs
      <3>5. volume \in Levels /\ ctrlVolume \in [Sessions -> Levels]
        OBVIOUS
      <3>. QED BY <3>1, <3>2, <3>3, <3>4, <3>5 DEF TypeOK
    <2>2. CursorInQueue /\ CtrlRead
      BY DEF CursorInQueue, CtrlRead
    <2>3. SessionsHeld /\ FilesHeld
      BY DEF SessionsHeld, FilesHeld, InPlay, Sessions, Threads
    <2>4. EndsAreReal
      BY DEF EndsAreReal, AdvanceOnlyAfterEnd, Sessions, Threads
    <2>. QED BY <2>1, <2>2, <2>3, <2>4 DEF IInv
  <1>2. IInv /\ [Next]_vars => IInv'
    BY TypeStep, CursorStep, CtrlStep, HandsStep, EndsStep DEF IInv
  <1>. QED BY <1>1, <1>2, PTL DEF Spec

(* The types of the player's variables (Player, the fields and the locals). *)
THEOREM TypeCorrect == Spec => []TypeOK
  <1>1. IInv => TypeOK
    BY DEF IInv
  <1>. QED BY <1>1, Invariance, PTL

(* The cursor is -1 or the index of a song in the queue, for any clients,
   queue and ends of tracks. *)
THEOREM CursorCorrect == Spec => []CursorInQueue
  <1>1. IInv => CursorInQueue
    BY DEF IInv
  <1>. QED BY <1>1, Invariance, PTL

(* No file of Player.Play is leaked or used after it was closed: it is the
   installed one, or it has exactly one holder. *)
THEOREM FilesCorrect == Spec => []FilesOwned
  <1>1. IInv => FilesOwned
    <2> SUFFICES ASSUME IInv PROVE FilesOwned
      OBVIOUS
    <2> USE DEF IInv, SessionsHeld, FilesHeld, InPlay, Holders
    <2>1. ASSUME NEW s \in openFiles
          PROVE  \/ s = installed /\ Holders(s) = {}
                 \/ s # installed /\ \E t \in Threads : Holders(s) = {t}
      <3>1. CASE s = installed
        BY <3>1
      <3>2. CASE s # installed
        <4>1. PICK t \in Threads : pc[t] = "install" /\ session[t] = s
          BY <3>2
        <4>2. \A u \in Threads : pc[u] = "install" /\ session[u] = s => u = t
          BY <4>1
        <4>3. Holders(s) = {t}
          BY <4>1, <4>2
        <4>. QED BY <3>2, <4>3
      <3>. QED BY <3>1, <3>2
    <2>. QED BY <2>1 DEF FilesOwned
  <1>. QED BY <1>1, Invariance, PTL

(* Only the goroutine of a track that has played to its end advances the
   queue; one whose channel was closed never does. *)
THEOREM AdvanceCorrect == Spec => []AdvanceOnlyAfterEnd
  <1>1. IInv => AdvanceOnlyAfterEnd
    BY DEF IInv, EndsAreReal
  <1>. QED BY <1>1, Invariance, PTL

-----------------------------------------------------------------------------
(* Where the goroutine of a session has not received the end of its track; and
   one that is done has received it or found the channel closed. *)
Awaits == {"none", "begin", "wait"}

DeliverInv ==
  /\ EndIsDelivered
  /\ \A s \in Sessions : pc[s] = "done" => s \in drained \cup closed

LEMMA DeliverStep == IInv /\ DeliverInv /\ [Next]_vars => DeliverInv'
  <1> SUFFICES ASSUME IInv, DeliverInv, [Next]_vars PROVE DeliverInv'
    OBVIOUS
  <1>1. /\ pc \in [Threads -> PCs] /\ drained \subseteq Sessions
        /\ Sessions \subseteq Threads /\ Clients \subseteq Threads
        /\ \A t \in Threads : Rest(t) \in {"idle", "done"}
    BY DEF IInv, TypeOK, Threads, Rest
  <1>2. \A s \in Sessions : pc[s] \notin Awaits \cup {"done"} => s \in drained
    BY DEF IInv, EndsAreReal, AdvanceOnlyAfterEnd, Awaits
  <1>3. /\ DeliverInv <=> /\ ~crashed => \A s \in drained : s \in token <=> pc[s] \in Awaits
                          /\ \A s \in Sessions : pc[s] = "done" => s \in drained \cup closed
        /\ DeliverInv' <=> /\ ~crashed' => \A s \in drained' :
                                 s \in token' <=> pc'[s] \in Awaits
                           /\ \A s \in Sessions : pc'[s] = "done" => s \in drained' \cup closed'
    BY DEF DeliverInv, EndIsDelivered, Awaits
  \* Nobody receives and no track ends.
  <1>4. ASSUME UNCHANGED <<token, drained, crashed>>, closed \subseteq closed',
               \A s \in Sessions : /\ pc'[s] \in Awaits <=> pc[s] \in Awaits
                                   /\ pc'[s] = "done" => pc[s] = "done" \/ s \in drained
        PROVE  DeliverInv'
    BY <1>1, <1>3, <1>4
  <1>5. ASSUME UNCHANGED <<pc, token, drained, crashed>>, closed \subseteq closed'
        PROVE  DeliverInv'
    BY <1>4, <1>5
  \* One thread goes on, and has nothing to receive.
  <1>6. ASSUME NEW t \in Threads, NEW from, NEW to, Goto(t, from, to),
               from \notin Awaits \cup {"done"}, to \notin Awaits,
               UNCHANGED <<token, drained, crashed>>, closed \subseteq closed'
        PROVE  DeliverInv'
    <2>1. pc[t] = from /\ pc' = [pc EXCEPT ![t] = to]
      BY <1>6 DEF Goto
    <2>2. ASSUME NEW s \in Sessions
          PROVE  /\ pc'[s] \in Awaits <=> pc[s] \in Awaits
                 /\ pc'[s] = "done" => pc[s] = "done" \/ s \in drained
      BY <1>1, <1>2, <1>6, <2>1
    <2> QED BY <1>4, <1>6, <2>2
  <1>7. ASSUME NEW t \in Threads,
               CheckCurrentSong(t) \/ SelectFirst(t) \/ OpenFile(t) \/ OpenFails(t)
                 \/ Install(t) \/ LoadVolumeCtrl(t)
        PROVE  DeliverInv'
    <2>1. PICK from \in {"check", "select", "open", "install", "load"},
               to \in {Rest(t), "select", "open", "install", "load", "start"} : Goto(t, from, to)
      BY <1>7
      DEF CheckCurrentSong, SelectFirst, OpenFile, OpenFails, Install, LoadVolumeCtrl
    <2>2. UNCHANGED <<token, drained, crashed>> /\ closed \subseteq closed'
      BY <1>7
      DEF CheckCurrentSong, SelectFirst, OpenFile, OpenFails, Install, LoadVolumeCtrl,
          sessionVars, speakerVars, StopPlaybackLocked
    <2>3. from \notin Awaits \cup {"done"} /\ to \notin Awaits
      BY <1>1, <2>1 DEF Awaits
    <2> QED BY <1>6, <2>1, <2>2, <2>3
  <1>8. ASSUME NEW t \in Threads, SpeakerPlay(t) PROVE DeliverInv'
    <2>1. /\ pc[t] = "start" /\ UNCHANGED <<token, drained, crashed, closed>>
          /\ pc' = [pc EXCEPT ![t] = Rest(t), ![session[t]] = "begin"]
      BY <1>8 DEF SpeakerPlay, sessionVars
    <2>2. session[t] \in Sessions /\ pc[session[t]] = "none"
      BY <2>1, PlayerAssumption DEF IInv, TypeOK, SessionsHeld, InPlay, Sessions, None
    <2>3. ASSUME NEW s \in Sessions
          PROVE  /\ pc'[s] \in Awaits <=> pc[s] \in Awaits
                 /\ pc'[s] = "done" => pc[s] = "done" \/ s \in drained
      <3>1. CASE s = session[t]
        BY <1>1, <2>1, <2>2, <3>1 DEF Awaits
      <3>2. CASE s = t /\ s # session[t]
        BY <1>1, <1>2, <2>1, <3>2 DEF Awaits
      <3>3. CASE s # t /\ s # session[t]
        BY <1>1, <2>1, <3>3
      <3> QED BY <3>1, <3>2, <3>3
    <2> QED BY <1>4, <2>1, <2>3
  <1>9. ASSUME NEW t \in Clients, ClientStep(t) PROVE DeliverInv'
    <2>1. CASE ClientStop(t) \/ ClientSetVolume(t)
      BY <1>5, <2>1 DEF ClientStop, ClientSetVolume, StopPlaybackLocked, threadVars, speakerVars
    <2>2. CASE ~ClientStop(t) /\ ~ClientSetVolume(t)
      <3>1. PICK from \in {"idle", "pause", "resume"},
                 to \in {"check", "open", "pause", "resume", "idle"} : Goto(t, from, to)
        BY <1>9, <2>2
        DEF ClientStep, AddToQueue, ClientNext, Advance, ClientPrevious, ClientReadCtrl,
            ClientSetPaused
      <3>2. UNCHANGED <<token, drained, crashed, closed>>
        BY <1>9, <2>2
        DEF ClientStep, AddToQueue, ClientNext, Advance, ClientPrevious, ClientReadCtrl,
            ClientSetPaused, sessionVars, speakerVars
      <3>3. from \notin Awaits \cup {"done"} /\ to \notin Awaits /\ t \in Threads
        BY <1>1, <3>1 DEF Awaits
      <3> QED BY <1>6, <3>1, <3>2, <3>3
    <2> QED BY <2>1, <2>2
  <1>10. ASSUME NEW s \in Sessions, WaitForEnd(s) PROVE DeliverInv'
    BY <1>1, <1>4, <1>10 DEF WaitForEnd, Goto, Awaits, sessionVars, speakerVars
  <1>11. ASSUME NEW s \in Sessions, ReceiveEnd(s) PROVE DeliverInv'
    <2>1. /\ pc[s] = "wait" /\ pc' = [pc EXCEPT ![s] = "next"] /\ token' = token \ {s}
          /\ ~crashed /\ UNCHANGED <<drained, closed, crashed>>
      BY <1>11 DEF ReceiveEnd, Goto, speakerVars
    <2>2. pc'[s] = "next" /\ \A r \in Sessions \ {s} : pc'[r] = pc[r]
      BY <1>1, <2>1
    <2> QED BY <1>1, <1>3, <2>1, <2>2 DEF Awaits
  <1>12. ASSUME NEW s \in Sessions, ReceiveClosed(s) PROVE DeliverInv'
    <2>1. /\ pc[s] = "wait" /\ pc' = [pc EXCEPT ![s] = "done"] /\ s \in closed \ token
          /\ ~crashed /\ UNCHANGED <<token, drained, closed, crashed>>
      BY <1>12 DEF ReceiveClosed, Goto, speakerVars, sessionVars
    <2>2. pc'[s] = "done" /\ \A r \in Sessions \ {s} : pc'[r] = pc[r]
      BY <1>1, <2>1
    <2>3. s \notin drained
      BY <1>3, <2>1 DEF Awaits
    <2> QED BY <1>1, <1>3, <2>1, <2>2, <2>3
  <1>13. ASSUME NEW s \in Sessions, AutoAdvance(s) \/ AutoAdvanceAtEnd(s) PROVE DeliverInv'
    <2>1. PICK to \in {"open", "done"} : Goto(s, "next", to)
      BY <1>13 DEF AutoAdvance, Advance, AutoAdvanceAtEnd
    <2>2. UNCHANGED <<token, drained, crashed, closed>>
      BY <1>13 DEF AutoAdvance, Advance, AutoAdvanceAtEnd, sessionVars, speakerVars
    <2>3. "next" \notin Awaits \cup {"done"} /\ to \notin Awaits /\ s \in Threads
      BY <1>1, <2>1 DEF Awaits
    <2> QED BY <1>6, <2>1, <2>2, <2>3
  <1>14. ASSUME NEW s \in Sessions, StreamEnds(s) PROVE DeliverInv'
    <2>1. /\ drained' = drained \cup {s} /\ UNCHANGED <<pc, closed>> /\ ~crashed
          /\ token' = IF s \in drained \cup closed THEN token ELSE token \cup {s}
          /\ crashed' = (s \in closed \ drained)
      BY <1>14 DEF StreamEnds, threadVars
    <2>2. s \notin drained \cup closed => pc[s] \in Awaits
      BY <1>2, <1>3
    <2>3. \A r \in Sessions : pc'[r] = "done" => r \in drained' \cup closed'
      BY <1>3, <2>1
    <2>4. CASE s \in drained
      BY <1>3, <2>1, <2>3, <2>4
    <2>5. CASE s \in closed \ drained
      BY <1>3, <2>1, <2>3, <2>5
    <2>6. CASE s \notin drained \cup closed
      BY <1>3, <2>1, <2>2, <2>3, <2>6
    <2> QED BY <2>4, <2>5, <2>6
  <1>15. CASE StreamNil
    BY <1>3, <1>15 DEF StreamNil, threadVars, sessionVars, speakerVars
  <1>16. CASE UNCHANGED vars
    BY <1>5, <1>16 DEF vars, threadVars, sessionVars, speakerVars
  <1> QED
    BY <1>7, <1>8, <1>9, <1>10, <1>11, <1>12, <1>13, <1>14, <1>15, <1>16
    DEF Next, ContinuePlay, SessionStep, TrackEnds, ClosedStreamEnds

(* The end of a track is delivered to its goroutine once, and never lost,
   whenever the track ends: what liveness rests on, for any number of clients
   and sessions (Player.Play, its callback and its goroutine). *)
THEOREM EndDelivered == Spec => []EndIsDelivered
  <1>1. Init => DeliverInv
    BY DEF Init, DeliverInv, EndIsDelivered, Sessions, Threads
  <1>2. DeliverInv => EndIsDelivered
    BY DEF DeliverInv
  <1> QED BY <1>1, <1>2, Invariance, DeliverStep, PTL DEF Spec

-----------------------------------------------------------------------------
(* A step of the player that leaves the files alone is invisible to
   SessionLifecycle. *)
LEMMA StageUnchanged ==
  ASSUME UNCHANGED <<opened, installed, openFiles>>
  PROVE  SessionStage' = SessionStage
  BY DEF SessionStage

(* Opening a file acquires it. *)
LEMMA OpenFileAcquires ==
  ASSUME IInv, NEW t \in Threads, OpenFile(t)
  PROVE  Lifecycle!Next
  <1> DEFINE n == opened + 1
  <1>1. /\ n \in Sessions /\ ~(n \in 1 .. opened) /\ n > opened /\ n # None
        /\ \A s \in Sessions : s > n <=> s > opened /\ s # n
    BY PlayerAssumption DEF OpenFile, Sessions, IInv, TypeOK, None
  <1>2. /\ opened' = n /\ openFiles' = openFiles \cup {n}
        /\ installed' = installed
    BY DEF OpenFile, playerVars
  <1>3. n # installed
    BY <1>1 DEF IInv, FilesHeld
  <1> HIDE DEF n
  <1>4. SessionStage[n] = "new"
    BY <1>1 DEF SessionStage, n
  <1>5. SessionStage' = [SessionStage EXCEPT ![n] = "held"]
    <2>1. ~(n > n)
      BY <1>1 DEF Sessions
    <2>. QED BY <1>1, <1>2, <1>3, <2>1 DEF SessionStage
  <1>. QED BY <1>1, <1>4, <1>5 DEF Lifecycle!Next, Lifecycle!Acquire

(* Installing a session promotes its file and releases the one before it. *)
LEMMA InstallPromotes ==
  ASSUME IInv, NEW t \in Threads, Install(t)
  PROVE  Lifecycle!Next
  <1> DEFINE n == session[t]
  <1>1. /\ opened' = opened /\ installed' = n
        /\ openFiles' = openFiles \ {installed} /\ pc[t] = "install"
    BY DEF Install, Goto
  <1>2. n \in openFiles /\ n # installed
    BY <1>1 DEF IInv, FilesHeld
  <1>3. n \in Sessions /\ n \in 1 .. opened
    BY <1>2 DEF IInv, TypeOK, FilesHeld
  <1>4. ~(n > opened) /\ (\A s \in openFiles : ~(s > opened))
        /\ (installed # None => ~(installed > opened)) /\ None \notin Sessions
    BY <1>3 DEF IInv, TypeOK, FilesHeld, None, Sessions
  <1> HIDE DEF n
  <1>5. SessionStage[n] = "held"
    BY <1>2, <1>3, <1>4 DEF SessionStage
  <1>6. SessionStage' = [Lifecycle!Retired EXCEPT ![n] = "current"]
    BY <1>1, <1>2, <1>3, <1>4 DEF SessionStage, Lifecycle!Retired, Lifecycle!IsCurrent
  <1>. QED BY <1>3, <1>5, <1>6 DEF Lifecycle!Next, Lifecycle!Promote

(* Stopping releases the installed session. *)
LEMMA StopReleases ==
  ASSUME IInv, NEW t \in Clients, ClientStop(t)
  PROVE  Lifecycle!Next
  <1>1. /\ opened' = opened /\ installed' = None
        /\ openFiles' = openFiles \ {installed}
    BY DEF ClientStop
  <1>2. /\ \A s \in openFiles : ~(s > opened)
        /\ installed # None => ~(installed > opened)
        /\ None \notin Sessions
    BY DEF IInv, TypeOK, FilesHeld, None, Sessions
  <1>3. SessionStage' = Lifecycle!Retired
    BY <1>1, <1>2 DEF SessionStage, Lifecycle!Retired, Lifecycle!IsCurrent
  <1>. QED BY <1>3 DEF Lifecycle!Next, Lifecycle!Release

(* Every file goes through held, current and released in the sections that
   SessionLifecycle names, whatever the threads interleave. *)
THEOREM Refinement == Spec => ImplementsLifecycle
  <1>1. Init => Lifecycle!Init
    BY PlayerAssumption DEF Init, Lifecycle!Init, SessionStage, Sessions
  <1>2. IInv /\ [Next]_vars => [Lifecycle!Next]_SessionStage
    <2> SUFFICES ASSUME IInv, [Next]_vars
                 PROVE  Lifecycle!Next \/ SessionStage' = SessionStage
      OBVIOUS
    <2>1. ASSUME NEW t \in Threads, ContinuePlay(t)
          PROVE  Lifecycle!Next \/ SessionStage' = SessionStage
      <3>1. CASE OpenFile(t)
        BY <3>1, OpenFileAcquires
      <3>2. CASE Install(t)
        BY <3>2, InstallPromotes
      <3>3. CASE CheckCurrentSong(t) \/ OpenFails(t) \/ LoadVolumeCtrl(t) \/ SpeakerPlay(t)
        BY <3>3, StageUnchanged
           DEF CheckCurrentSong, OpenFails, LoadVolumeCtrl, SpeakerPlay, playerVars,
               sessionVars
      <3>4. CASE SelectFirst(t)
        BY <3>4, StageUnchanged DEF SelectFirst, sessionVars
      <3>. QED BY <2>1, <3>1, <3>2, <3>3, <3>4 DEF ContinuePlay
    <2>2. ASSUME NEW t \in Clients, ClientStep(t)
          PROVE  Lifecycle!Next \/ SessionStage' = SessionStage
      <3>1. CASE ClientStop(t)
        BY <3>1, StopReleases
      <3>2. CASE AddToQueue(t) \/ ClientNext(t) \/ ClientPrevious(t)
        BY <3>2, StageUnchanged
           DEF AddToQueue, ClientNext, Advance, ClientPrevious, sessionVars
      <3>3. CASE ClientSetVolume(t) \/ ClientReadCtrl(t) \/ ClientSetPaused(t)
        BY <3>3, StageUnchanged
           DEF ClientSetVolume, ClientReadCtrl, ClientSetPaused, playerVars, sessionVars
      <3>. QED BY <2>2, <3>1, <3>2, <3>3 DEF ClientStep
    <2>3. ASSUME NEW s \in Sessions, SessionStep(s) \/ StreamEnds(s)
          PROVE  SessionStage' = SessionStage
      BY <2>3, StageUnchanged
         DEF SessionStep, WaitForEnd, ReceiveEnd, ReceiveClosed, AutoAdvance, Advance,
             AutoAdvanceAtEnd, StreamEnds, playerVars, sessionVars
    <2>4. CASE StreamNil
      BY <2>4, StageUnchanged DEF StreamNil, playerVars, sessionVars
    <2>5. CASE UNCHANGED vars
      BY <2>5, StageUnchanged DEF vars, playerVars, sessionVars
    <2>. QED BY <2>1, <2>2, <2>3, <2>4, <2>5
         DEF Next, TrackEnds, ClosedStreamEnds
  <1>. QED BY <1>1, <1>2, Invariance, PTL DEF Spec, ImplementsLifecycle, Lifecycle!Spec

-----------------------------------------------------------------------------
(***************************************************************************)
(* A queue that one client fills and nobody has stopped, skipped or paused *)
(* yet: for any number of songs and of sessions it is played in its order, *)
(* nothing panics, and, if every file can be opened, NowPlaying is what is *)
(* installed.  The steps considered are those of AppendOnlyNext.           *)
(***************************************************************************)
OneClient == \E c : Clients = {c}

\* The thread that plays the n-th song: the client the first, and for every
\* other the goroutine of the song before it.
Opens(t, n) == IF n = 1 THEN t \in Clients ELSE t = n - 1

(* Until the client selects the first song nothing moves. *)
NotStarted ==
  /\ opened = 0 /\ mixer = Silence /\ drained = {}
  /\ \A t \in Clients : pc[t] \in {"idle", "check", "select"}
  /\ \A s \in Sessions : pc[s] = "none"

(* Afterwards one thread at a time moves the queue: the goroutine of the last
   session, while its track plays and when it has ended, or the thread that is
   opening the next file. *)
Mover(t) ==
  /\ pc[t] \in {"begin", "wait", "next"} =>
       t = opened /\ installed = opened /\ currentIndex = opened - 1
  /\ pc[t] = "open" =>
       Opens(t, opened + 1) /\ currentIndex = opened /\ song[t] = queue[opened + 1]
  /\ pc[t] \in InPlay => Opens(t, opened) /\ session[t] = opened /\ currentIndex = opened - 1
  /\ pc[t] \in {"load", "start"} => installed = opened
  /\ pc[t] = "start" => ref[t] = opened

(* Only the track of the last session can be in the mixer, before its end. *)
OnlyLastPlays ==
  /\ \A s \in 0 .. MaxSessions : mixer[s] > 0 =>
       s = opened /\ s # None /\ pc[s] \in {"begin", "wait"} /\ s \notin drained
  /\ \A s \in drained : s <= opened /\ pc[s] # "none"

Started ==
  /\ opened \in {currentIndex, currentIndex + 1}
  /\ \A t \in Clients : pc[t] \in {"idle", "check", "open"} \cup InPlay
  /\ \A s \in Sessions : pc[s] \in {"none", "begin", "wait", "next", "open", "done"} \cup InPlay
  /\ \A t \in Threads : Mover(t)
  /\ OnlyLastPlays

QInv ==
  /\ PlayedInOrder /\ ~crashed
  /\ currentIndex = -1 => NotStarted
  /\ currentIndex # -1 => Started

-----------------------------------------------------------------------------
LEMMA QInit == Init => QInv
<1> SUFFICES ASSUME Init PROVE QInv
  OBVIOUS
<1>1. currentIndex = -1 /\ opened = 0 /\ ~crashed /\ mixer = Silence /\ drained = {}
  BY DEF Init
<1>2. Sessions \cap Clients = {} /\ Sessions \subseteq Threads /\ Clients \subseteq Threads
  BY PlayerAssumption DEF Sessions, Threads
<1>3. NotStarted
  BY <1>1, <1>2 DEF NotStarted, Init
<1>4. PlayedInOrder
  BY <1>1 DEF PlayedInOrder, Init
<1> QED BY <1>1, <1>3, <1>4 DEF QInv

\* What the invariant of Player says of the threads and the numbers here.
LEMMA Frame ==
  ASSUME IInv
  PROVE  /\ MaxSessions \in Nat /\ opened \in 0 .. MaxSessions /\ currentIndex \in Int
         /\ -1 <= currentIndex /\ currentIndex < Len(queue)
         /\ queue \in Seq(Songs) /\ Len(queue) \in Nat
         /\ Sessions = 1 .. MaxSessions /\ Threads = Clients \cup Sessions
         /\ Clients \cap (0 .. MaxSessions) = {}
         /\ pc \in [Threads -> PCs] /\ song \in [Threads -> Songs \cup {NoSong}]
         /\ session \in [Threads -> 0 .. MaxSessions] /\ ref \in [Threads -> 0 .. MaxSessions]
         /\ mixer \in [0 .. MaxSessions -> Nat] /\ drained \subseteq Sessions
         /\ songOf \in [Sessions -> Songs \cup {NoSong}]
         /\ installed \in 0 .. MaxSessions
         /\ \A s \in Sessions : s > opened => pc[s] = "none"
         /\ \A t \in Threads : session[t] # None => pc[session[t]] = "none"
         /\ \A t \in Threads : session[t] # None <=> pc[t] \in InPlay
         /\ token \subseteq drained
         /\ installed # None => installed \notin closed
<1>1. TypeOK /\ CursorInQueue /\ SessionsHeld /\ FilesHeld /\ token \subseteq drained
  BY DEF IInv, EndsAreReal
<1>2. /\ -1 <= currentIndex /\ currentIndex < Len(queue)
  BY <1>1 DEF CursorInQueue
<1>3. /\ Sessions = 1 .. MaxSessions /\ Threads = Clients \cup Sessions /\ MaxSessions \in Nat
      /\ Clients \cap (0 .. MaxSessions) = {}
  BY PlayerAssumption DEF Sessions, Threads
<1>4. installed # None => installed \notin closed
  BY <1>1 DEF FilesHeld
<1>5. /\ \A s \in Sessions : s > opened => pc[s] = "none"
      /\ \A t \in Threads : session[t] # None => pc[session[t]] = "none"
      /\ \A t \in Threads : session[t] # None <=> pc[t] \in InPlay
  BY <1>1 DEF SessionsHeld
<1>6. /\ opened \in 0 .. MaxSessions /\ currentIndex \in Int /\ queue \in Seq(Songs)
      /\ pc \in [Threads -> PCs] /\ song \in [Threads -> Songs \cup {NoSong}]
      /\ session \in [Threads -> 0 .. MaxSessions] /\ ref \in [Threads -> 0 .. MaxSessions]
      /\ mixer \in [0 .. MaxSessions -> Nat] /\ drained \subseteq Sessions
      /\ songOf \in [Sessions -> Songs \cup {NoSong}]
      /\ installed \in 0 .. MaxSessions
  BY <1>1 DEF TypeOK
<1>7. Len(queue) \in Nat
  BY <1>6
<1> QED BY <1>1, <1>2, <1>3, <1>4, <1>5, <1>6, <1>7

LEMMA Numbers ==
  ASSUME IInv
  PROVE  /\ MaxSessions \in Nat /\ opened \in Nat /\ opened <= MaxSessions
         /\ currentIndex \in Int /\ -1 <= currentIndex /\ currentIndex < Len(queue)
         /\ Len(queue) \in Nat
BY Frame

\* What is in the mixer, and whose turn it is to open a file.
LEMMA Silent ==
  ASSUME IInv, OnlyLastPlays, NEW s \in 0 .. MaxSessions, pc[s] \notin {"begin", "wait"}
  PROVE  mixer[s] = 0
<1>1. mixer[s] \in Nat
  BY Frame
<1>2. ~(mixer[s] > 0)
  BY DEF OnlyLastPlays
<1> QED BY <1>1, <1>2

LEMMA AllSilent ==
  ASSUME IInv, OnlyLastPlays, \A s \in Sessions : pc[s] \notin {"begin", "wait"}
  PROVE  \A s \in 0 .. MaxSessions : mixer[s] = 0 /\ ~(mixer[s] > 0)
<1> SUFFICES ASSUME NEW s \in 0 .. MaxSessions PROVE mixer[s] = 0 /\ ~(mixer[s] > 0)
  OBVIOUS
<1>1. mixer[s] \in Nat
  BY Frame
<1>2. CASE s = 0
  <2>1. ~(mixer[s] > 0)
    BY <1>2 DEF OnlyLastPlays, None
  <2> QED BY <1>1, <2>1
<1>3. CASE s # 0
  <2>1. s \in Sessions
    BY <1>3, Frame
  <2> QED BY <2>1, Silent
<1> QED BY <1>2, <1>3

LEMMA OneOpens ==
  ASSUME OneClient, NEW t, NEW u, NEW n, Opens(t, n), Opens(u, n)
  PROVE  t = u
BY DEF OneClient, Opens

(* While the queue is played its cursor is on a song, so that the client finds
   a current song. *)
LEMMA StartedCursor ==
  ASSUME IInv, QInv, currentIndex # -1
  PROVE  Started /\ ~GetCurrentSongIsNil
BY Frame DEF QInv, GetCurrentSongIsNil

\* A step that moves one thread between places where it does not move the queue.
LEMMA Aside ==
  ASSUME IInv, QInv, NEW t \in Threads, NEW to, pc' = [pc EXCEPT ![t] = to],
         UNCHANGED <<currentIndex, installed, sessionVars, speakerVars, session, ref, crashed>>,
         \A u \in Threads \ {t} : song'[u] = song[u],
         PlayedInOrder', \A n \in 1 .. Len(queue) : queue'[n] = queue[n],
         \/ t \in Clients /\ to \in {"idle", "check"}
         \/ currentIndex # -1 /\ t \in Sessions /\ to = "done" /\ mixer[t] = 0 /\ pc[t] # "none"
         \/ currentIndex = -1 /\ t \in Clients /\ to = "select"
  PROVE  QInv'
<1> USE DEF sessionVars, speakerVars
<1>0. /\ \A s \in Sessions : s \in Threads /\ s \notin Clients
      /\ Clients \subseteq Threads
  BY Frame
<1>1. CASE currentIndex = -1
  <2>1. NotStarted /\ t \in Clients /\ to \in {"idle", "check", "select"}
    BY <1>1 DEF QInv
  <2>2. \A u \in Threads : pc'[u] = IF u = t THEN to ELSE pc[u]
    BY Frame
  <2>3. NotStarted'
    BY <1>0, <2>1, <2>2 DEF NotStarted
  <2> QED BY <1>1, <2>3 DEF QInv
<1>2. CASE currentIndex # -1
  <2>1. Started
    BY <1>2 DEF QInv
  <2>2. \A u \in Threads : pc'[u] = IF u = t THEN to ELSE pc[u]
    BY Frame
  <2>3. \/ t \in Clients /\ to \in {"idle", "check"}
        \/ t \in Sessions /\ to = "done" /\ mixer[t] = 0 /\ pc[t] # "none"
    BY <1>2
  <2>4. \A u \in Threads : Mover(u)'
    <3> SUFFICES ASSUME NEW u \in Threads PROVE Mover(u)'
      OBVIOUS
    <3>1. CASE u = t
      BY <2>2, <2>3, <3>1 DEF Mover, InPlay
    <3>2. CASE u # t
      <4>1. Mover(u) /\ pc'[u] = pc[u] /\ song'[u] = song[u]
        BY <2>1, <2>2, <3>2 DEF Started
      <4>2. pc[u] = "open" => queue'[opened + 1] = queue[opened + 1]
        <5>1. pc[u] = "open" => currentIndex = opened
          BY <4>1 DEF Mover
        <5>2. currentIndex = opened => opened + 1 \in 1 .. Len(queue)
          BY Numbers
        <5> QED BY <5>1, <5>2
      <4> QED BY <4>1, <4>2 DEF Mover, Opens
    <3> QED BY <3>1, <3>2
  <2>5. OnlyLastPlays'
    <3>1. ASSUME NEW s \in 0 .. MaxSessions, mixer[s] > 0 PROVE pc'[s] = pc[s]
      <4>1. s \in Sessions
        BY <2>1, <3>1, Frame DEF Started, OnlyLastPlays, None
      <4> QED BY <1>0, <2>2, <2>3, <3>1, <4>1, Frame
    <3>2. \A s \in drained : pc'[s] # "none"
      BY <1>0, <2>1, <2>2, <2>3, Frame DEF Started, OnlyLastPlays
    <3> QED BY <2>1, <3>1, <3>2 DEF Started, OnlyLastPlays
  <2>6. Started'
    <3>1. \A u \in Clients : pc'[u] \in {"idle", "check", "open"} \cup InPlay
      BY <1>0, <2>1, <2>2, <2>3 DEF Started
    <3>2. \A u \in Sessions : pc'[u] \in {"none", "begin", "wait", "next", "open", "done"} \cup InPlay
      BY <1>0, <2>1, <2>2, <2>3 DEF Started
    <3> QED BY <2>1, <2>4, <2>5, <3>1, <3>2 DEF Started
  <2> QED BY <1>2, <2>6 DEF QInv
<1> QED BY <1>1, <1>2

LEMMA QStep ==
  ASSUME OneClient, IInv, IInv', QInv, [AppendOnlyNext]_vars
  PROVE  QInv'
<1>0. /\ \A s \in Sessions : s \in Threads /\ s \notin Clients /\ s \in Nat /\ s # 0
      /\ \A t \in Threads : t \in Clients \/ t \in Sessions
      /\ \A t \in Clients : t \in Threads /\ Rest(t) = "idle" /\ t \notin Sessions
      /\ \A t \in Sessions : Rest(t) = "done"
  <2>1. Sessions = 1 .. MaxSessions /\ Threads = Clients \cup Sessions /\ MaxSessions \in Nat
        /\ Clients \cap (0 .. MaxSessions) = {}
    BY Frame
  <2> QED BY <2>1 DEF Rest
<1>1. CASE UNCHANGED vars
  BY <1>1 DEF vars, playerVars, sessionVars, speakerVars, threadVars, QInv, PlayedInOrder,
              NotStarted, Started, Mover, OnlyLastPlays, InPlay, Opens
<1>2. ASSUME NEW t \in Clients, AddToQueue(t) PROVE QInv'
  <2>1. PICK x \in Songs : queue' = Append(queue, x)
    BY <1>2 DEF AddToQueue
  <2>2. Len(queue') = Len(queue) + 1 /\ \A n \in 1 .. Len(queue) : queue'[n] = queue[n]
    BY <2>1, Frame
  <2>3. PlayedInOrder'
    BY <1>2, <2>2, Frame DEF AddToQueue, QInv, PlayedInOrder, sessionVars
  <2> QED BY <1>0, <1>2, <2>2, <2>3, Aside DEF AddToQueue, Goto
<1>3. ASSUME NEW t \in Threads, CheckCurrentSong(t) PROVE QInv'
  <2>1. UNCHANGED <<playerVars, sessionVars, speakerVars, song, session, ref, crashed>>
    BY <1>3 DEF CheckCurrentSong
  <2>2. PlayedInOrder'
    BY <2>1 DEF QInv, PlayedInOrder, playerVars, sessionVars
  <2>3. pc[t] = "check" /\ t \in Clients
    BY <1>0, <1>3 DEF CheckCurrentSong, Goto, QInv, NotStarted, Started, InPlay
  <2>4. \/ pc' = [pc EXCEPT ![t] = "idle"]
        \/ currentIndex = -1 /\ pc' = [pc EXCEPT ![t] = "select"]
    BY <1>0, <1>3, <2>3, StartedCursor DEF CheckCurrentSong, Goto
  <2> QED BY <2>1, <2>2, <2>3, <2>4, Aside DEF playerVars
<1>4. ASSUME NEW t \in Threads, SelectFirst(t) PROVE QInv'
  <2>1. pc[t] = "select" /\ t \in Clients /\ currentIndex = -1 /\ NotStarted
    BY <1>0, <1>4 DEF SelectFirst, Goto, QInv, NotStarted, Started, InPlay
  <2>2. UNCHANGED <<queue, installed, volume, sessionVars, speakerVars, session, ref, crashed>>
    BY <1>4 DEF SelectFirst
  <2>3. PlayedInOrder'
    BY <2>2 DEF QInv, PlayedInOrder, sessionVars
  <2>4. CASE queue = <<>>
    <3>1. pc' = [pc EXCEPT ![t] = "idle"] /\ UNCHANGED <<currentIndex, song>>
      BY <1>0, <1>4, <2>1, <2>4 DEF SelectFirst, Goto
    <3> QED BY <2>1, <2>2, <2>3, <3>1, Aside
  <2>5. CASE queue # <<>>
    <3>1. /\ pc' = [pc EXCEPT ![t] = "open"] /\ currentIndex' = 0
          /\ song' = [song EXCEPT ![t] = queue[1]]
      BY <1>4, <2>5 DEF SelectFirst, Goto, Pick
    <3>2. \A u \in Threads : pc'[u] = (IF u = t THEN "open" ELSE pc[u])
      BY <3>1, Frame
    <3>3. song'[t] = queue'[1]
      BY <2>2, <3>1, Frame
    <3>4. opened' = 0 /\ opened = 0 /\ drained' = {} /\ mixer' = Silence /\ ~crashed'
      BY <2>1, <2>2 DEF NotStarted, sessionVars, speakerVars, QInv
    <3>5. \A u \in Threads : Mover(u)'
      BY <1>0, <2>1, <3>1, <3>2, <3>3, <3>4 DEF NotStarted, Mover, InPlay, Opens
    <3>6. OnlyLastPlays'
      BY <3>4 DEF OnlyLastPlays, Silence
    <3>7. Started'
      <4>1. \A u \in Clients : u = t
        BY <2>1 DEF OneClient
      <4>2. \A u \in Clients : pc'[u] \in {"idle", "check", "open"} \cup InPlay
        BY <1>0, <3>2, <4>1
      <4>3. \A u \in Sessions : pc'[u] \in {"none", "begin", "wait", "next", "open", "done"} \cup InPlay
        BY <1>0, <2>1, <3>2 DEF NotStarted
      <4> QED BY <3>1, <3>4, <3>5, <3>6, <4>2, <4>3 DEF Started
    <3> QED BY <2>3, <3>1, <3>4, <3>7 DEF QInv
  <2> QED BY <2>4, <2>5
\* Of the threads other than the one that moves, none moves the queue.
<1>5. ASSUME NEW t \in Threads, pc[t] \in {"open", "next", "begin", "wait"} \cup InPlay
      PROVE  /\ Started /\ currentIndex # -1 /\ Mover(t)
             /\ \A u \in Threads : u # t => pc[u] \notin {"open", "next", "begin", "wait"} \cup InPlay
  <2>1. currentIndex # -1 /\ Started
    BY <1>0, <1>5 DEF QInv, NotStarted, InPlay
  <2>2. \A u \in Threads : Mover(u)
    BY <2>1 DEF Started
  <2>3. ASSUME NEW u \in Threads, u # t, pc[u] \in {"open", "next", "begin", "wait"} \cup InPlay
        PROVE  FALSE
    <3>1. Mover(u) /\ Mover(t)
      BY <2>2
    <3>2. pc[u] \in InPlay => session[u] = opened /\ pc[opened] = "none"
      BY <3>1, Frame DEF Mover
    <3>3. pc[t] \in InPlay => session[t] = opened /\ pc[opened] = "none"
      BY <3>1, Frame DEF Mover
    <3>4. opened - 1 # opened
      BY Numbers
    <3>5. CASE pc[t] = "open" /\ pc[u] = "open"
      BY <2>3, <3>1, <3>5, OneOpens DEF Mover
    <3>6. CASE pc[t] \in InPlay /\ pc[u] \in InPlay
      BY <2>3, <3>1, <3>6, OneOpens DEF Mover
    <3>7. CASE pc[t] \in {"next", "begin", "wait"} /\ pc[u] \in {"next", "begin", "wait"}
      BY <2>3, <3>1, <3>7 DEF Mover
    <3>8. CASE pc[t] \in {"next", "begin", "wait"} /\ pc[u] \in InPlay
      BY <3>1, <3>2, <3>8 DEF Mover
    <3>9. CASE pc[u] \in {"next", "begin", "wait"} /\ pc[t] \in InPlay
      BY <3>1, <3>3, <3>9 DEF Mover
    <3>10. CASE pc[t] = "open" /\ pc[u] # "open"
      BY <2>3, <3>1, <3>4, <3>10 DEF Mover
    <3>11. CASE pc[t] # "open" /\ pc[u] = "open"
      BY <1>5, <3>1, <3>4, <3>11 DEF Mover
    <3> QED BY <1>5, <2>3, <3>5, <3>6, <3>7, <3>8, <3>9, <3>10, <3>11
  <2> QED BY <2>1, <2>2, <2>3
<1>6. ASSUME NEW t \in Threads, OpenFile(t) PROVE QInv'
  <2>1. /\ pc[t] = "open" /\ pc' = [pc EXCEPT ![t] = "install"] /\ opened' = opened + 1
        /\ session' = [session EXCEPT ![t] = opened + 1]
        /\ songOf' = [songOf EXCEPT ![opened + 1] = song[t]] /\ opened < MaxSessions
        /\ UNCHANGED <<queue, currentIndex, installed, mixer, drained, song, ref, crashed>>
    BY <1>6 DEF OpenFile, Goto, playerVars, speakerVars
  <2>2. /\ Started /\ currentIndex # -1 /\ currentIndex = opened /\ Opens(t, opened + 1)
        /\ song[t] = queue[opened + 1]
        /\ \A u \in Threads : u # t => pc[u] \notin {"open", "next", "begin", "wait"} \cup InPlay
    BY <1>5, <2>1 DEF Mover
  <2>3. \A u \in Threads : pc'[u] = (IF u = t THEN "install" ELSE pc[u])
    BY <2>1, Frame
  <2>4. \A s \in 0 .. MaxSessions : ~(mixer[s] > 0)
    <3>1. \A s \in Sessions : pc[s] \notin {"begin", "wait"}
      BY <1>0, <2>1, <2>2
    <3> QED BY <2>2, <3>1, AllSilent DEF Started
  <2>5. OnlyLastPlays'
    <3>1. \A s \in drained : s <= opened /\ pc'[s] # "none"
      BY <1>0, <2>2, <2>3, Frame DEF Started, OnlyLastPlays
    <3>2. \A s \in drained : s <= opened + 1
      BY <3>1, Frame
    <3> QED BY <2>1, <2>4, <3>1, <3>2 DEF OnlyLastPlays
  <2>6. \A u \in Threads : Mover(u)'
    <3> SUFFICES ASSUME NEW u \in Threads PROVE Mover(u)'
      OBVIOUS
    <3>1. CASE u = t
      BY <2>1, <2>2, <2>3, <3>1, Frame DEF Mover, InPlay, Opens
    <3>2. CASE u # t
      BY <2>2, <2>3, <3>2 DEF Mover, InPlay
    <3> QED BY <3>1, <3>2
  <2>7. PlayedInOrder'
    <3>1. opened + 1 <= Len(queue) /\ opened + 1 \in Sessions
      BY <2>1, <2>2, Frame
    <3>2. \A s \in 1 .. opened' : songOf'[s] = queue[s]
      <4> SUFFICES ASSUME NEW s \in 1 .. (opened + 1) PROVE songOf'[s] = queue[s]
        BY <2>1
      <4>1. CASE s = opened + 1
        BY <2>1, <2>2, <3>1, <4>1, Frame
      <4>2. CASE s # opened + 1
        <5>1. s \in 1 .. opened
          BY <4>2, Numbers
        <5>2. songOf'[s] = songOf[s]
          BY <2>1, <4>2
        <5> QED BY <5>1, <5>2 DEF QInv, PlayedInOrder
      <4> QED BY <4>1, <4>2
    <3> QED BY <2>1, <3>1, <3>2 DEF PlayedInOrder
  <2>8. Started'
    <3>1. opened' \in {currentIndex', currentIndex' + 1}
      BY <2>1, <2>2, Frame
    <3>2. /\ \A u \in Clients : pc'[u] \in {"idle", "check", "open"} \cup InPlay
          /\ \A u \in Sessions : pc'[u] \in {"none", "begin", "wait", "next", "open", "done"} \cup InPlay
      BY <1>0, <2>2, <2>3 DEF Started, InPlay
    <3> QED BY <2>5, <2>6, <3>1, <3>2 DEF Started
  <2> QED BY <2>1, <2>2, <2>7, <2>8 DEF QInv
<1>7. ASSUME NEW t \in Threads, OpenFails(t) PROVE QInv'
  <2>1. /\ pc[t] = "open" /\ pc' = [pc EXCEPT ![t] = Rest(t)] /\ song' = [song EXCEPT ![t] = NoSong]
        /\ UNCHANGED <<queue, currentIndex, installed, sessionVars, speakerVars, session, ref, crashed>>
    BY <1>7 DEF OpenFails, Goto, Pick, playerVars
  <2>2. Started /\ currentIndex # -1
    BY <1>5, <2>1
  <2>3. PlayedInOrder'
    BY <2>1 DEF QInv, PlayedInOrder, sessionVars
  <2>4. t \in Sessions => mixer[t] = 0
    <3>1. Sessions \subseteq 0 .. MaxSessions
      BY Frame
    <3> QED BY <2>1, <2>2, <3>1, Silent DEF Started
  <2>5. \A u \in Threads \ {t} : song'[u] = song[u]
    BY <2>1, Frame
  <2>6. \/ t \in Clients /\ Rest(t) = "idle"
        \/ t \in Sessions /\ Rest(t) = "done"
    BY <1>0
  <2> QED BY <2>1, <2>2, <2>3, <2>4, <2>5, <2>6, Aside
<1>8. ASSUME NEW t \in Threads, Install(t) PROVE QInv'
  <2>1. /\ pc[t] = "install" /\ pc' = [pc EXCEPT ![t] = "load"] /\ installed' = session[t]
        /\ mixer' = (IF installed # None THEN Silence ELSE mixer)
        /\ UNCHANGED <<queue, currentIndex, opened, songOf, drained, song, session, ref, crashed>>
    BY <1>8 DEF Install, StopPlaybackLocked, Goto
  <2>2. /\ Started /\ currentIndex # -1 /\ Opens(t, opened) /\ session[t] = opened
        /\ currentIndex = opened - 1
        /\ \A u \in Threads : u # t => pc[u] \notin {"open", "next", "begin", "wait"} \cup InPlay
    BY <1>5, <2>1 DEF Mover, InPlay
  <2>3. \A u \in Threads : pc'[u] = (IF u = t THEN "load" ELSE pc[u])
    BY <2>1, Frame
  <2>4. PlayedInOrder'
    BY <2>1 DEF QInv, PlayedInOrder
  <2>5. \A s \in 0 .. MaxSessions : mixer'[s] = 0
    <3> SUFFICES ASSUME NEW s \in 0 .. MaxSessions PROVE mixer'[s] = 0
      OBVIOUS
    <3>1. mixer[s] = 0
      <4>1. \A u \in Sessions : pc[u] \notin {"begin", "wait"}
        BY <1>0, <2>1, <2>2
      <4> QED BY <2>2, <4>1, AllSilent DEF Started
    <3> QED BY <2>1, <3>1 DEF Silence
  <2>6. OnlyLastPlays'
    <3>1. \A s \in drained : s <= opened /\ pc'[s] # "none"
      BY <1>0, <2>2, <2>3, Frame DEF Started, OnlyLastPlays
    <3> QED BY <2>1, <2>5, <3>1 DEF OnlyLastPlays
  <2>7. \A u \in Threads : Mover(u)'
    <3> SUFFICES ASSUME NEW u \in Threads PROVE Mover(u)'
      OBVIOUS
    <3>1. CASE u = t
      BY <2>1, <2>2, <2>3, <3>1 DEF Mover, InPlay, Opens
    <3>2. CASE u # t
      BY <2>2, <2>3, <3>2 DEF Mover, InPlay
    <3> QED BY <3>1, <3>2
  <2>8. Started'
    <3>1. /\ \A u \in Clients : pc'[u] \in {"idle", "check", "open"} \cup InPlay
          /\ \A u \in Sessions : pc'[u] \in {"none", "begin", "wait", "next", "open", "done"} \cup InPlay
      BY <1>0, <2>2, <2>3 DEF Started, InPlay
    <3> QED BY <2>1, <2>2, <2>6, <2>7, <3>1 DEF Started
  <2> QED BY <2>1, <2>2, <2>4, <2>8 DEF QInv
<1>9. ASSUME NEW t \in Threads, LoadVolumeCtrl(t) PROVE QInv'
  <2>1. /\ pc[t] = "load" /\ pc' = [pc EXCEPT ![t] = "start"] /\ ref' = [ref EXCEPT ![t] = installed]
        /\ UNCHANGED <<queue, currentIndex, installed, opened, songOf, mixer, drained, song,
                       session, crashed>>
    BY <1>9 DEF LoadVolumeCtrl, Goto, playerVars, sessionVars, speakerVars
  <2>2. /\ Started /\ currentIndex # -1 /\ Opens(t, opened) /\ session[t] = opened
        /\ currentIndex = opened - 1 /\ installed = opened
        /\ \A u \in Threads : u # t => pc[u] \notin {"open", "next", "begin", "wait"} \cup InPlay
    BY <1>5, <2>1 DEF Mover, InPlay
  <2>3. \A u \in Threads : pc'[u] = (IF u = t THEN "start" ELSE pc[u])
    BY <2>1, Frame
  <2>4. PlayedInOrder'
    BY <2>1 DEF QInv, PlayedInOrder
  <2>5. OnlyLastPlays'
    <3>1. \A s \in drained : s <= opened /\ pc'[s] # "none"
      BY <1>0, <2>2, <2>3, Frame DEF Started, OnlyLastPlays
    <3>2. \A s \in 0 .. MaxSessions : mixer[s] > 0 => pc'[s] = pc[s]
      BY <2>1, <2>2, Frame DEF Started, OnlyLastPlays
    <3> QED BY <2>1, <2>2, <3>1, <3>2 DEF OnlyLastPlays, Started
  <2>6. \A u \in Threads : Mover(u)'
    <3> SUFFICES ASSUME NEW u \in Threads PROVE Mover(u)'
      OBVIOUS
    <3>1. CASE u = t
      <4>1. ref'[t] = opened
        BY <2>1, <2>2, Frame
      <4> QED BY <2>1, <2>2, <2>3, <3>1, <4>1 DEF Mover, InPlay, Opens
    <3>2. CASE u # t
      BY <2>2, <2>3, <3>2 DEF Mover, InPlay
    <3> QED BY <3>1, <3>2
  <2>7. Started'
    <3>1. /\ \A u \in Clients : pc'[u] \in {"idle", "check", "open"} \cup InPlay
          /\ \A u \in Sessions : pc'[u] \in {"none", "begin", "wait", "next", "open", "done"} \cup InPlay
      BY <1>0, <2>2, <2>3 DEF Started, InPlay
    <3> QED BY <2>1, <2>2, <2>5, <2>6, <3>1 DEF Started
  <2> QED BY <2>1, <2>2, <2>4, <2>7 DEF QInv
<1>10. ASSUME NEW t \in Threads, SpeakerPlay(t) PROVE QInv'
  <2>1. /\ pc[t] = "start" /\ pc' = [pc EXCEPT ![t] = Rest(t), ![session[t]] = "begin"]
        /\ mixer' = [mixer EXCEPT ![ref[t]] = @ + 1]
        /\ UNCHANGED <<queue, currentIndex, installed, opened, songOf, drained, crashed>>
    BY <1>10 DEF SpeakerPlay, playerVars, sessionVars
  <2>2. /\ Started /\ currentIndex # -1 /\ session[t] = opened /\ ref[t] = opened
        /\ currentIndex = opened - 1 /\ installed = opened
        /\ \A u \in Threads : u # t => pc[u] \notin {"open", "next", "begin", "wait"} \cup InPlay
    BY <1>5, <2>1 DEF Mover, InPlay
  <2>3. opened \in Sessions /\ pc[opened] = "none" /\ opened # t
    <3>1. session[t] # None /\ pc[opened] = "none"
      BY <2>1, <2>2, Frame DEF InPlay
    <3> QED BY <2>1, <2>2, <3>1, Frame DEF None
  <2>4. \A u \in Threads : pc'[u] = (IF u = opened THEN "begin" ELSE IF u = t THEN Rest(t) ELSE pc[u])
    BY <2>1, <2>2, <2>3, Frame
  <2>5. PlayedInOrder'
    BY <2>1 DEF QInv, PlayedInOrder
  <2>6. OnlyLastPlays'
    <3>1. opened \notin drained
      BY <2>2, <2>3 DEF Started, OnlyLastPlays
    <3>2. \A s \in drained : s <= opened /\ pc'[s] # "none"
      BY <1>0, <2>2, <2>3, <2>4, Frame DEF Started, OnlyLastPlays
    <3>3. \A s \in 0 .. MaxSessions : mixer'[s] > 0 => s = opened
      BY <2>1, <2>2, Frame DEF Started, OnlyLastPlays
    <3>4. opened # None /\ pc'[opened] = "begin"
      BY <1>0, <2>3, <2>4 DEF None
    <3> QED BY <2>1, <3>1, <3>2, <3>3, <3>4 DEF OnlyLastPlays
  <2>7. \A u \in Threads : Mover(u)'
    <3> SUFFICES ASSUME NEW u \in Threads PROVE Mover(u)'
      OBVIOUS
    <3>1. CASE u = opened
      <4>1. pc'[u] = "begin"
        BY <2>4, <3>1
      <4>2. u = opened' /\ installed' = opened' /\ currentIndex' = opened' - 1
        BY <2>1, <2>2, <3>1
      <4> QED BY <4>1, <4>2 DEF Mover, InPlay
    <3>2. CASE u = t
      BY <1>0, <2>3, <2>4, <3>2 DEF Mover, InPlay
    <3>3. CASE u # t /\ u # opened
      BY <2>2, <2>4, <3>3 DEF Mover, InPlay
    <3> QED BY <3>1, <3>2, <3>3
  <2>8. Started'
    <3>1. \A u \in Clients : pc'[u] \in {"idle", "check", "open"} \cup InPlay
      BY <1>0, <2>2, <2>3, <2>4 DEF Started, InPlay
    <3>2. \A u \in Sessions : pc'[u] \in {"none", "begin", "wait", "next", "open", "done"} \cup InPlay
      BY <1>0, <2>2, <2>3, <2>4 DEF Started, InPlay
    <3> QED BY <2>1, <2>2, <2>6, <2>7, <3>1, <3>2 DEF Started
  <2> QED BY <2>1, <2>2, <2>5, <2>8 DEF QInv
\* The goroutine of the last session, which nobody moves beside.
<1>11. ASSUME NEW t \in Sessions, pc[t] \in {"begin", "wait", "next"}
       PROVE  /\ Started /\ currentIndex # -1 /\ t = opened /\ installed = opened
              /\ currentIndex = opened - 1 /\ t \in Threads /\ t \notin closed
              /\ \A u \in Threads : u # t => pc[u] \notin {"open", "next", "begin", "wait"} \cup InPlay
  <2>1. t \in Threads /\ t # None
    BY <1>0 DEF None
  <2>2. /\ Started /\ currentIndex # -1 /\ Mover(t)
        /\ \A u \in Threads : u # t => pc[u] \notin {"open", "next", "begin", "wait"} \cup InPlay
    BY <1>5, <1>11, <2>1
  <2>3. t = opened /\ installed = opened /\ currentIndex = opened - 1
    BY <1>11, <2>2 DEF Mover
  <2>4. t \notin closed
    BY <2>1, <2>3, Frame
  <2> QED BY <2>1, <2>2, <2>3, <2>4
<1>12. ASSUME NEW t \in Sessions, WaitForEnd(t) \/ ReceiveEnd(t) PROVE QInv'
  <2> DEFINE to == IF pc[t] = "begin" THEN "wait" ELSE "next"
  <2>1. /\ pc[t] \in {"begin", "wait"} /\ pc' = [pc EXCEPT ![t] = to]
        /\ to = "next" => t \in drained
        /\ UNCHANGED <<queue, currentIndex, installed, opened, songOf, mixer, drained, song,
                       session, ref, crashed>>
    BY <1>12, Frame DEF WaitForEnd, ReceiveEnd, Goto, playerVars, sessionVars, speakerVars
  <2>2. /\ Started /\ currentIndex # -1 /\ t = opened /\ installed = opened
        /\ currentIndex = opened - 1 /\ t \in Threads
        /\ \A u \in Threads : u # t => pc[u] \notin {"open", "next", "begin", "wait"} \cup InPlay
    BY <1>11, <2>1
  <2>3. to \in {"wait", "next"}
    OBVIOUS
  <2> HIDE DEF to
  <2>4. \A u \in Threads : pc'[u] = (IF u = t THEN to ELSE pc[u])
    BY <2>1, Frame
  <2>5. PlayedInOrder'
    BY <2>1 DEF QInv, PlayedInOrder
  <2>6. OnlyLastPlays'
    <3>1. \A s \in drained : s <= opened /\ pc'[s] # "none"
      BY <1>0, <2>2, <2>3, <2>4, Frame DEF Started, OnlyLastPlays
    <3>2. ASSUME NEW s \in 0 .. MaxSessions, mixer[s] > 0
          PROVE  s = opened /\ s # None /\ pc'[s] \in {"begin", "wait"} /\ s \notin drained
      <4>1. s = opened /\ s # None /\ s \notin drained
        BY <2>2, <3>2 DEF Started, OnlyLastPlays
      <4>2. pc'[s] = "wait"
        BY <2>1, <2>2, <2>3, <2>4, <4>1
      <4> QED BY <4>1, <4>2
    <3> QED BY <2>1, <3>1, <3>2 DEF OnlyLastPlays
  <2>7. \A u \in Threads : Mover(u)'
    <3> SUFFICES ASSUME NEW u \in Threads PROVE Mover(u)'
      OBVIOUS
    <3>1. CASE u = t
      <4>1. pc'[u] \in {"wait", "next"}
        BY <2>3, <2>4, <3>1
      <4>2. u = opened' /\ installed' = opened' /\ currentIndex' = opened' - 1
        BY <2>1, <2>2, <3>1
      <4> QED BY <4>1, <4>2 DEF Mover, InPlay
    <3>2. CASE u # t
      BY <2>2, <2>4, <3>2 DEF Mover, InPlay
    <3> QED BY <3>1, <3>2
  <2>8. Started'
    <3>1. \A u \in Clients : pc'[u] \in {"idle", "check", "open"} \cup InPlay
      BY <1>0, <2>2, <2>4 DEF Started, InPlay
    <3>2. \A u \in Sessions : pc'[u] \in {"none", "begin", "wait", "next", "open", "done"} \cup InPlay
      BY <1>0, <2>2, <2>3, <2>4 DEF Started, InPlay
    <3> QED BY <2>1, <2>2, <2>6, <2>7, <3>1, <3>2 DEF Started
  <2> QED BY <2>1, <2>2, <2>5, <2>8 DEF QInv
\* The channel of the last session is open: nobody has stopped it.
<1>13. ASSUME NEW t \in Sessions, ReceiveClosed(t) PROVE QInv'
  BY <1>11, <1>13 DEF ReceiveClosed, Goto
<1>14. ASSUME NEW t \in Sessions, AutoAdvanceAtEnd(t) PROVE QInv'
  <2>1. /\ pc[t] = "next" /\ pc' = [pc EXCEPT ![t] = "done"]
        /\ UNCHANGED <<playerVars, sessionVars, speakerVars, song, session, ref, crashed>>
    BY <1>14 DEF AutoAdvanceAtEnd, Goto
  <2>2. Started /\ currentIndex # -1 /\ t \in Threads
    BY <1>11, <2>1
  <2>3. mixer[t] = 0
    <3>1. t \in 0 .. MaxSessions
      BY Frame
    <3> QED BY <2>1, <2>2, <3>1, Silent DEF Started
  <2>4. PlayedInOrder'
    BY <2>1 DEF QInv, PlayedInOrder, playerVars, sessionVars
  <2> QED BY <2>1, <2>2, <2>3, <2>4, Aside DEF playerVars
<1>15. ASSUME NEW t \in Sessions, AutoAdvance(t) PROVE QInv'
  <2>1. /\ pc[t] = "next" /\ pc' = [pc EXCEPT ![t] = "open"] /\ currentIndex' = currentIndex + 1
        /\ song' = [song EXCEPT ![t] = queue[currentIndex + 2]]
        /\ UNCHANGED <<queue, installed, opened, songOf, mixer, drained, session, ref, crashed>>
    BY <1>15 DEF AutoAdvance, Advance, Goto, Pick, sessionVars, speakerVars
  <2>2. /\ Started /\ currentIndex # -1 /\ t = opened /\ installed = opened
        /\ currentIndex = opened - 1 /\ t \in Threads
        /\ \A u \in Threads : u # t => pc[u] \notin {"open", "next", "begin", "wait"} \cup InPlay
    BY <1>11, <2>1
  <2>3. \A u \in Threads : pc'[u] = (IF u = t THEN "open" ELSE pc[u])
    BY <2>1, Frame
  <2>4. PlayedInOrder'
    BY <2>1 DEF QInv, PlayedInOrder
  <2>5. currentIndex' = opened /\ opened + 1 # 1 /\ (opened + 1) - 1 = opened
        /\ song'[t] = queue[opened + 1]
    <3>1. opened \in Nat \ {0}
      BY <1>0, <2>2
    <3>2. song'[t] = queue[currentIndex + 2] /\ currentIndex + 2 = opened + 1
      BY <2>1, <2>2, <3>1, Frame
    <3> QED BY <2>1, <2>2, <3>1, <3>2
  <2>6. OnlyLastPlays'
    <3>1. \A s \in drained : s <= opened /\ pc'[s] # "none"
      BY <1>0, <2>2, <2>3, Frame DEF Started, OnlyLastPlays
    <3>2. \A s \in 0 .. MaxSessions : ~(mixer[s] > 0)
      BY <2>1, <2>2 DEF Started, OnlyLastPlays
    <3> QED BY <2>1, <3>1, <3>2 DEF OnlyLastPlays
  <2>7. \A u \in Threads : Mover(u)'
    <3> SUFFICES ASSUME NEW u \in Threads PROVE Mover(u)'
      OBVIOUS
    <3>1. CASE u = t
      BY <2>1, <2>2, <2>3, <2>5, <3>1 DEF Mover, InPlay, Opens
    <3>2. CASE u # t
      BY <2>2, <2>3, <3>2 DEF Mover, InPlay
    <3> QED BY <3>1, <3>2
  <2>8. Started'
    <3>1. \A u \in Clients : pc'[u] \in {"idle", "check", "open"} \cup InPlay
      BY <1>0, <2>2, <2>3 DEF Started, InPlay
    <3>2. \A u \in Sessions : pc'[u] \in {"none", "begin", "wait", "next", "open", "done"} \cup InPlay
      BY <1>0, <2>2, <2>3 DEF Started, InPlay
    <3> QED BY <2>1, <2>5, <2>6, <2>7, <3>1, <3>2 DEF Started
  <2>9. currentIndex' # -1
    BY <1>0, <2>2, <2>5
  <2> QED BY <2>1, <2>2, <2>4, <2>8, <2>9 DEF QInv
<1>16. ASSUME NEW t \in Sessions, StreamEnds(t) PROVE QInv'
  <2>1. /\ mixer[t] > 0 /\ mixer' = [mixer EXCEPT ![t] = 0] /\ drained' = drained \cup {t}
        /\ crashed' = (t \in closed \ drained)
        /\ UNCHANGED <<queue, currentIndex, installed, opened, songOf, pc, song, session, ref>>
    BY <1>16 DEF StreamEnds, playerVars, threadVars
  <2>2. currentIndex # -1 /\ Started
    BY <1>0, <2>1, Frame DEF QInv, NotStarted, Silence
  <2>3. t = opened /\ pc[t] \in {"begin", "wait"}
    BY <2>1, <2>2, Frame DEF Started, OnlyLastPlays
  <2>4. ~crashed'
    BY <1>11, <2>1, <2>3
  <2>5. PlayedInOrder'
    BY <2>1 DEF QInv, PlayedInOrder
  <2>6. OnlyLastPlays'
    <3>1. \A s \in drained' : s <= opened /\ pc[s] # "none"
      BY <1>0, <2>1, <2>2, <2>3, Frame DEF Started, OnlyLastPlays
    <3>2. ASSUME NEW s \in 0 .. MaxSessions, mixer'[s] > 0 PROVE FALSE
      <4>1. s # t /\ mixer[s] > 0
        BY <2>1, <3>2, Frame
      <4> QED BY <2>2, <2>3, <4>1 DEF Started, OnlyLastPlays
    <3> QED BY <2>1, <3>1, <3>2 DEF OnlyLastPlays
  <2>7. \A u \in Threads : Mover(u)'
    BY <2>1, <2>2 DEF Started, Mover, Opens
  <2>8. Started'
    BY <2>1, <2>2, <2>6, <2>7 DEF Started
  <2> QED BY <2>1, <2>2, <2>4, <2>5, <2>8 DEF QInv
<1>17. CASE StreamNil
  BY <1>17, Frame DEF StreamNil, QInv, NotStarted, Silence, Started, OnlyLastPlays, None
<1> QED
  BY <1>1, <1>2, <1>3, <1>4, <1>6, <1>7, <1>8, <1>9, <1>10, <1>12, <1>13, <1>14, <1>15, <1>16, <1>17
     DEF AppendOnlyNext, ContinuePlay, SessionStep, TrackEnds, ClosedStreamEnds

(* Between the cursor and the file that is open there is a thread that opens
   the next one, when every file can be opened. *)
Landed ==
  currentIndex # -1 =>
    /\ opened = currentIndex => \E t \in Threads : pc[t] = "open"
    /\ opened = currentIndex + 1 =>
         installed = opened \/ \E t \in Threads : pc[t] = "install"

LEMMA LandedStep ==
  ASSUME IInv, IInv', QInv, Landed, Broken = {}, [AppendOnlyNext]_vars
  PROVE  Landed'
<1>0. /\ \A s \in Sessions : s \in Threads
      /\ Clients \subseteq Threads
  BY Frame
<1>1. ASSUME NEW t \in Threads, NEW to, pc' = [pc EXCEPT ![t] = to], pc[t] \notin {"open", "install"},
             UNCHANGED <<currentIndex, opened, installed>>
      PROVE  Landed'
  <2>1. \A u \in Threads : u # t => pc'[u] = pc[u]
    BY <1>1, Frame
  <2> QED BY <1>1, <2>1 DEF Landed
<1>2. CASE UNCHANGED vars
  BY <1>2 DEF vars, playerVars, sessionVars, threadVars, Landed
<1>3. ASSUME NEW t \in Threads, CheckCurrentSong(t) \/ LoadVolumeCtrl(t) PROVE Landed'
  BY <1>1, <1>3 DEF CheckCurrentSong, LoadVolumeCtrl, Goto, playerVars, sessionVars
<1>4. ASSUME NEW t \in Clients, AddToQueue(t) PROVE Landed'
  BY <1>0, <1>1, <1>4 DEF AddToQueue, Goto, sessionVars
<1>5. ASSUME NEW t \in Threads, SelectFirst(t) PROVE Landed'
  <2>1. CASE queue = <<>>
    BY <1>1, <1>5, <2>1 DEF SelectFirst, Goto, sessionVars
  <2>2. CASE queue # <<>>
    <3>1. /\ pc[t] = "select" /\ pc' = [pc EXCEPT ![t] = "open"] /\ currentIndex' = 0
          /\ UNCHANGED <<opened, installed>>
      BY <1>5, <2>2 DEF SelectFirst, Goto, sessionVars
    <3>2. currentIndex = -1
      BY <1>0, <3>1, Frame DEF QInv, Started, InPlay
    <3>3. opened = 0 /\ pc'[t] = "open"
      BY <3>1, <3>2, Frame DEF QInv, NotStarted
    <3> QED BY <3>1, <3>3 DEF Landed
  <2> QED BY <2>1, <2>2
<1>6. ASSUME NEW t \in Threads, OpenFile(t) PROVE Landed'
  <2>1. pc'[t] = "install" /\ opened' = opened + 1 /\ currentIndex' = currentIndex /\ pc[t] = "open"
    BY <1>6, Frame DEF OpenFile, Goto, playerVars
  <2>2. currentIndex = opened
    BY <1>0, <2>1, Frame DEF QInv, NotStarted, Started, Mover
  <2> QED BY <2>1, <2>2, Numbers DEF Landed
<1>7. ASSUME NEW t \in Threads, OpenFails(t) PROVE Landed'
  BY <1>7 DEF OpenFails
<1>8. ASSUME NEW t \in Threads, Install(t) PROVE Landed'
  <2>1. /\ pc[t] = "install" /\ installed' = session[t]
        /\ UNCHANGED <<currentIndex, opened>>
    BY <1>8 DEF Install, Goto
  <2>2. currentIndex # -1 => session[t] = opened /\ currentIndex = opened - 1
    BY <2>1 DEF QInv, Started, Mover, InPlay
  <2> QED BY <2>1, <2>2, Numbers DEF Landed
<1>9. ASSUME NEW t \in Threads, SpeakerPlay(t) PROVE Landed'
  <2>1. /\ pc[t] = "start" /\ pc' = [pc EXCEPT ![t] = Rest(t), ![session[t]] = "begin"]
        /\ UNCHANGED <<currentIndex, opened, installed>>
    BY <1>9 DEF SpeakerPlay, playerVars, sessionVars
  <2>2. pc[session[t]] = "none"
    BY <2>1, Frame DEF InPlay
  <2>3. \A u \in Threads : pc[u] \in {"open", "install"} => pc'[u] = pc[u]
    BY <2>1, <2>2, Frame
  <2> QED BY <2>1, <2>3 DEF Landed
<1>10. ASSUME NEW s \in Sessions, WaitForEnd(s) \/ ReceiveEnd(s) \/ ReceiveClosed(s) \/ AutoAdvanceAtEnd(s)
       PROVE  Landed'
  BY <1>0, <1>1, <1>10 DEF WaitForEnd, ReceiveEnd, ReceiveClosed, AutoAdvanceAtEnd, Goto,
                           playerVars, sessionVars
<1>11. ASSUME NEW s \in Sessions, AutoAdvance(s) PROVE Landed'
  <2>1. /\ pc[s] = "next" /\ pc'[s] = "open" /\ currentIndex' = currentIndex + 1 /\ opened' = opened
    BY <1>0, <1>11, Frame DEF AutoAdvance, Advance, Goto, sessionVars
  <2>2. currentIndex = opened - 1
    BY <1>0, <2>1 DEF QInv, NotStarted, Started, Mover
  <2> QED BY <1>0, <2>1, <2>2, Numbers DEF Landed
<1>12. ASSUME NEW s \in Sessions, StreamEnds(s) PROVE Landed'
  BY <1>12 DEF StreamEnds, playerVars, threadVars, Landed
<1>13. CASE StreamNil
  BY <1>13 DEF StreamNil, playerVars, sessionVars, threadVars, Landed
<1> QED
  BY <1>2, <1>3, <1>4, <1>5, <1>6, <1>7, <1>8, <1>9, <1>10, <1>11, <1>12, <1>13
     DEF AppendOnlyNext, ContinuePlay, SessionStep, TrackEnds, ClosedStreamEnds

-----------------------------------------------------------------------------
(* In every state up to the first step that steers the queue. *)
LEMMA SteeredIsSpec == SteeredSpec => []IInv
<1>1. [SteeredNext]_<<vars, steers>> => [Next]_vars
  BY DEF SteeredNext, AppendOnlyNext, Steer, ClientStep, Next, vars
<1>2. SteeredSpec => Spec
  BY <1>1, PTL DEF SteeredSpec, Spec
<1> QED BY <1>2, Invariance, PTL

\* A step that leaves the queue unsteered is one of the append-only workload.
LEMMA UnsteeredStep ==
  ASSUME steers \in Nat, [SteeredNext]_<<vars, steers>>
  PROVE  /\ steers' \in Nat
         /\ Unsteered' => Unsteered /\ [AppendOnlyNext]_vars
  BY DEF SteeredNext, Unsteered

LEMMA QInvariance == OneClient => (SteeredSpec => [](steers \in Nat /\ (Unsteered => QInv)))
<1> SUFFICES ASSUME OneClient PROVE SteeredSpec => [](steers \in Nat /\ (Unsteered => QInv))
  OBVIOUS
<1> DEFINE Inv == steers \in Nat /\ (Unsteered => QInv)
<1>1. Init /\ steers = 0 => Inv
  BY QInit
<1>2. IInv /\ IInv' /\ Inv /\ [SteeredNext]_<<vars, steers>> => Inv'
  BY QStep, UnsteeredStep
<1> QED BY <1>1, <1>2, SteeredIsSpec, PTL DEF SteeredSpec

(* Until a client steers it, a queue that one client fills is played in its
   order: the n-th file that Play opens is that of the n-th song, however the
   calls of the client fall between the goroutines of tracks that end. *)
THEOREM QueueInOrder == OneClient => (SteeredSpec => []UnsteeredInOrder)
<1>1. (Unsteered => QInv) => UnsteeredInOrder
  BY DEF QInv, UnsteeredInOrder
<1> QED BY <1>1, QInvariance, PTL

(* Until a client steers the queue nothing panics: no end of a track is sent
   to a closed channel, and speaker.Play never gets nil. *)
THEOREM UnsteeredRuns == OneClient => (SteeredSpec => []UnsteeredNeverPanics)
<1>1. (Unsteered => QInv) => UnsteeredNeverPanics
  BY DEF QInv, NoPanic, UnsteeredNeverPanics
<1> QED BY <1>1, QInvariance, PTL

(* If every file can be opened, until a client steers the queue NowPlaying
   reports what the player has installed, once every call has returned. *)
THEOREM NowPlayingCorrect ==
  OneClient /\ Broken = {} => (SteeredSpec => []UnsteeredNowPlaying)
<1> SUFFICES ASSUME OneClient, Broken = {} PROVE SteeredSpec => []UnsteeredNowPlaying
  OBVIOUS
<1> DEFINE Inv == Unsteered => Landed
<1>1. Init => Inv
  BY DEF Init, Landed
<1>2. /\ IInv /\ IInv' /\ steers \in Nat /\ (Unsteered => QInv) /\ Inv
      /\ [SteeredNext]_<<vars, steers>>
      => Inv'
  BY LandedStep, UnsteeredStep
<1>3. IInv /\ (Unsteered => QInv) /\ Inv => UnsteeredNowPlaying
  <2> SUFFICES ASSUME IInv, QInv, Landed, AtRest, installed # None, ~GetCurrentSongIsNil
               PROVE  songOf[installed] = queue[currentIndex + 1]
    BY DEF NowPlayingIsInstalled, UnsteeredNowPlaying
  <2>1. currentIndex # -1 /\ opened \in {currentIndex, currentIndex + 1}
    BY DEF GetCurrentSongIsNil, QInv, Started
  <2>2. \A t \in Threads : pc[t] \notin {"open", "install"}
    BY DEF AtRest
  <2>3. installed = opened /\ opened = currentIndex + 1
    BY <2>1, <2>2 DEF Landed
  <2>4. opened \in 1 .. opened
    BY <2>1, <2>3, Numbers
  <2> QED BY <2>3, <2>4 DEF QInv, PlayedInOrder
<1> QED BY <1>1, <1>2, <1>3, QInvariance, SteeredIsSpec, PTL DEF SteeredSpec
=============================================================================
