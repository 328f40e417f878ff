------------------------------- MODULE Player -------------------------------
(***************************************************************************)
(* The player of the daemon (internal/player/player.go) as the RPC service *)
(* drives it (rpc/service.go) and as the end of a track drives it (the     *)
(* callback installed by app/app.go).                                      *)
(*                                                                         *)
(* net/rpc runs every call in a goroutine of its own, and every successful *)
(* Player.Play starts one more, which waits for its track to end and then  *)
(* calls Next.  A thread here is one of the two: a client of the RPC       *)
(* socket, or the goroutine of a session.  A session is what one run of    *)
(* Player.Play builds: an open file with its decoder, a control, a volume  *)
(* control and a trackEnded channel.  Sessions are numbered in the order   *)
(* their files are opened.                                                 *)
(*                                                                         *)
(* The five fields of Player that Play sets and stopPlaybackLocked clears  *)
(* together under the mutex (ctrl, streamer, VolumeCtrl, file, trackEnded) *)
(* are the one variable installed.  What a section guarded by p.mutex does *)
(* is one step; everything Play does before and after that section is a    *)
(* step of its own, which is where the interleavings are.                  *)
(***************************************************************************)
EXTENDS Integers, Sequences, FiniteSets

CONSTANTS
  Clients,      \* RPC calls that may be in progress at the same time
  Songs,        \* songs of the library
  Broken,       \* songs whose file may fail to open or to decode
  Levels,       \* volume levels SetVolume accepts (0 to 100)
  Requested,    \* volume levels a client may ask for
  NoSong,       \* the song of a thread that is not playing one
  MaxSessions,  \* bound: files opened in a behaviour
  MaxQueue      \* bound: length of the queue

Sessions == 1 .. MaxSessions

ASSUME PlayerAssumption ==
  /\ MaxSessions \in Nat
  /\ MaxQueue \in Nat
  /\ Clients \cap (0 .. MaxSessions) = {}
  /\ Broken \subseteq Songs
  /\ NoSong \notin Songs
  /\ Levels # {}
  /\ Levels \subseteq Requested

None    == 0                    \* the nil pointer where a session is expected
Threads == Clients \cup Sessions

VARIABLES
  queue,         \* p.Queue
  currentIndex,  \* p.CurrentIndex, counted from 0 as in the code
  installed,     \* the session whose fields the player holds, or None
  volume,        \* p.Volume
  opened,        \* how many sessions exist: 1 .. opened
  songOf,        \* the song each session plays
  openFiles,     \* sessions whose file and decoder are open
  closed,        \* sessions whose trackEnded channel is closed
  token,         \* sessions whose trackEnded channel holds its one value
  ctrlVolume,    \* Volume field of each session's volume control
  paused,        \* sessions whose ctrl.Paused is set
  mixer,         \* how many times each volume control is in the speaker's mixer
  drained,       \* sessions whose sequence has run its end-of-track callback
  pc,            \* where each thread is
  song,          \* the song a thread is about to play
  session,       \* the session a thread opened and has not installed yet
  ref,           \* a pointer a thread read from the player and will use
  crashed        \* a panic has ended the daemon

playerVars  == <<queue, currentIndex, installed, volume>>
sessionVars == <<opened, songOf, openFiles, closed, token, ctrlVolume, paused>>
speakerVars == <<mixer, drained>>
threadVars  == <<pc, song, session, ref>>
vars == <<playerVars, sessionVars, speakerVars, threadVars, crashed>>

PCs == {"idle", "check", "select", "open", "install", "load", "start",
        "pause", "resume", "none", "begin", "wait", "next", "done"}

TypeOK ==
  /\ queue \in Seq(Songs)
  /\ currentIndex \in Int
  /\ installed \in 0 .. MaxSessions
  /\ volume \in Levels
  /\ opened \in 0 .. MaxSessions
  /\ songOf \in [Sessions -> Songs \cup {NoSong}]
  /\ openFiles \subseteq Sessions
  /\ closed \subseteq Sessions
  /\ token \subseteq Sessions
  /\ ctrlVolume \in [Sessions -> Levels]
  /\ paused \subseteq Sessions
  /\ mixer \in [0 .. MaxSessions -> Nat]
  /\ drained \subseteq Sessions
  /\ pc \in [Threads -> PCs]
  /\ song \in [Threads -> Songs \cup {NoSong}]
  /\ session \in [Threads -> 0 .. MaxSessions]
  /\ ref \in [Threads -> 0 .. MaxSessions]
  /\ crashed \in BOOLEAN

Silence == [s \in 0 .. MaxSessions |-> 0]

Init ==
  /\ queue = <<>>
  /\ currentIndex = -1
  /\ installed = None
  /\ volume \in Levels
  /\ opened = 0
  /\ songOf = [s \in Sessions |-> NoSong]
  /\ openFiles = {}
  /\ closed = {}
  /\ token = {}
  /\ ctrlVolume = [s \in Sessions |-> volume]
  /\ paused = {}
  /\ mixer = Silence
  /\ drained = {}
  /\ pc = [t \in Threads |-> IF t \in Clients THEN "idle" ELSE "none"]
  /\ song = [t \in Threads |-> NoSong]
  /\ session = [t \in Threads |-> None]
  /\ ref = [t \in Threads |-> None]
  /\ crashed = FALSE

-----------------------------------------------------------------------------
(* Threads *)

Rest(t) == IF t \in Clients THEN "idle" ELSE "done"

(* A panic in any goroutine ends the daemon: every action needs ~crashed. *)
Goto(t, from, to) ==
  /\ ~crashed
  /\ pc[t] = from
  /\ pc' = [pc EXCEPT ![t] = to]

Pick(t, s) == song' = [song EXCEPT ![t] = s]

(***************************************************************************)
(* stopPlaybackLocked: the speaker is cleared only if something is         *)
(* installed; the channel, the decoder and the file of the installed       *)
(* session are closed.                                                     *)
(***************************************************************************)
StopPlaybackLocked ==
  /\ mixer' = IF installed # None THEN Silence ELSE mixer
  /\ closed' = closed \cup ({installed} \ {None})

(***************************************************************************)
(* The definitions named Bug... are plausible mistakes in the operation    *)
(* they precede, kept to show that a property would notice: no action uses *)
(* one of them.                                                            *)
(***************************************************************************)

(***************************************************************************)
(* The RPC method Play (rpc/service.go): append the song, then, if no song *)
(* is current, start the queue from its first song.  The three calls take  *)
(* the player's mutex one after the other.                                 *)
(***************************************************************************)
AddToQueue(t) ==
  /\ Len(queue) < MaxQueue
  /\ \E s \in Songs : queue' = Append(queue, s)
  /\ Goto(t, "idle", "check")
  /\ UNCHANGED <<currentIndex, installed, volume, sessionVars, speakerVars,
                 song, session, ref, crashed>>

GetCurrentSongIsNil == currentIndex < 0 \/ currentIndex >= Len(queue)

(* play restarts the queue without asking whether a song is current *)
BugAlwaysRestart(t) ==
  /\ Goto(t, "check", "select")
  /\ UNCHANGED <<playerVars, sessionVars, speakerVars, song, session, ref,
                 crashed>>

CheckCurrentSong(t) ==
  /\ Goto(t, "check", IF GetCurrentSongIsNil THEN "select" ELSE Rest(t))
  /\ UNCHANGED <<playerVars, sessionVars, speakerVars, song, session, ref,
                 crashed>>

SelectFirst(t) ==
  /\ \/ /\ queue = <<>>
        /\ Goto(t, "select", Rest(t))
        /\ UNCHANGED <<currentIndex, song>>
     \/ /\ queue # <<>>
        /\ Goto(t, "select", "open")
        /\ currentIndex' = 0
        /\ Pick(t, queue[1])
  /\ UNCHANGED <<queue, installed, volume, sessionVars, speakerVars, session,
                 ref, crashed>>

-----------------------------------------------------------------------------
(***************************************************************************)
(* Player.Play, entered with song[t] chosen.                               *)
(***************************************************************************)

(* Open and decode the file, and read the volume for the new control. *)
OpenFile(t) ==
  /\ opened < MaxSessions
  /\ opened' = opened + 1
  /\ Goto(t, "open", "install")
  /\ session' = [session EXCEPT ![t] = opened + 1]
  /\ songOf' = [songOf EXCEPT ![opened + 1] = song[t]]
  /\ openFiles' = openFiles \cup {opened + 1}
  /\ ctrlVolume' = [ctrlVolume EXCEPT ![opened + 1] = volume]
  /\ UNCHANGED <<playerVars, closed, token, paused, speakerVars, song, ref,
                 crashed>>

(* The file is gone, unreadable or of an unsupported format: Play returns
   an error, and a file that was opened is closed again. *)
OpenFails(t) ==
  /\ song[t] \in Broken
  /\ Goto(t, "open", Rest(t))
  /\ Pick(t, NoSong)
  /\ UNCHANGED <<playerVars, sessionVars, speakerVars, session, ref, crashed>>

(* the file of the session that is replaced stays open *)
BugReplacedFileStaysOpen(t) ==
  /\ Goto(t, "install", "load")
  /\ StopPlaybackLocked
  /\ installed' = session[t]
  /\ UNCHANGED <<queue, currentIndex, volume, opened, songOf, openFiles, token,
                 ctrlVolume, paused, drained, song, session, ref, crashed>>

(* The section under the mutex: stop what plays, install the new session. *)
Install(t) ==
  /\ Goto(t, "install", "load")
  /\ StopPlaybackLocked
  /\ openFiles' = openFiles \ {installed}
  /\ installed' = session[t]
  /\ UNCHANGED <<queue, currentIndex, volume, opened, songOf, token,
                 ctrlVolume, paused, drained, song, session, ref, crashed>>

(* The argument of speaker.Play is the field p.VolumeCtrl, read again
   after the mutex was released. *)
LoadVolumeCtrl(t) ==
  /\ Goto(t, "load", "start")
  /\ ref' = [ref EXCEPT ![t] = installed]
  /\ UNCHANGED <<playerVars, sessionVars, speakerVars, song, session, crashed>>

(* speaker.Play adds what was read to the mixer, whatever has happened since
   then, and the goroutine that waits for the track's end is created. *)
SpeakerPlay(t) ==
  /\ ~crashed
  /\ pc[t] = "start"
  /\ mixer' = [mixer EXCEPT ![ref[t]] = @ + 1]
  /\ pc' = [pc EXCEPT ![t] = Rest(t), ![session[t]] = "begin"]
  /\ Pick(t, NoSong)
  /\ session' = [session EXCEPT ![t] = None]
  /\ ref' = [ref EXCEPT ![t] = None]
  /\ UNCHANGED <<playerVars, sessionVars, drained, crashed>>

-----------------------------------------------------------------------------
(***************************************************************************)
(* Next and Previous: the index moves under the mutex, Play runs after it  *)
(* is released.  from is where the caller comes from: a client's call, or  *)
(* the goroutine of a track that has ended.                                *)
(***************************************************************************)
(* the song is read before the index is moved *)
BugSongBeforeIndex(t, from) ==
  /\ currentIndex < Len(queue) - 1
  /\ Goto(t, from, "open")
  /\ currentIndex' = currentIndex + 1
  /\ Pick(t, queue[IF currentIndex < 0 THEN 1 ELSE currentIndex + 1])
  /\ UNCHANGED <<queue, installed, volume, sessionVars, speakerVars, session,
                 ref, crashed>>

Advance(t, from) ==
  /\ currentIndex < Len(queue) - 1
  /\ Goto(t, from, "open")
  /\ currentIndex' = currentIndex + 1
  /\ Pick(t, queue[currentIndex + 2])
  /\ UNCHANGED <<queue, installed, volume, sessionVars, speakerVars, session,
                 ref, crashed>>

ClientNext(t) == Advance(t, "idle")

ClientPrevious(t) ==
  /\ queue # <<>>
  /\ currentIndex > 0
  /\ Goto(t, "idle", "open")
  /\ currentIndex' = currentIndex - 1
  /\ Pick(t, queue[currentIndex])
  /\ UNCHANGED <<queue, installed, volume, sessionVars, speakerVars, session,
                 ref, crashed>>

(* Stop empties the queue and forgets the index *)
BugStopKeepsIndex(t) ==
  /\ ~crashed
  /\ pc[t] = "idle"
  /\ StopPlaybackLocked
  /\ openFiles' = openFiles \ {installed}
  /\ installed' = None
  /\ queue' = <<>>
  /\ UNCHANGED <<currentIndex, volume, opened, songOf, token, ctrlVolume,
                 paused, drained, threadVars, crashed>>

(* Stop silences the speaker and does not close the file *)
BugStopKeepsFile(t) ==
  /\ ~crashed
  /\ pc[t] = "idle"
  /\ StopPlaybackLocked
  /\ installed' = None
  /\ queue' = <<>>
  /\ currentIndex' = -1
  /\ UNCHANGED <<volume, opened, songOf, openFiles, token, ctrlVolume, paused,
                 drained, threadVars, crashed>>

ClientStop(t) ==
  /\ ~crashed
  /\ pc[t] = "idle"
  /\ StopPlaybackLocked
  /\ openFiles' = openFiles \ {installed}
  /\ installed' = None
  /\ queue' = <<>>
  /\ currentIndex' = -1
  /\ UNCHANGED <<volume, opened, songOf, token, ctrlVolume, paused, drained,
                 threadVars, crashed>>

(* the level is not compared with 0 and 100 *)
BugVolumeUnchecked(t) ==
  /\ ~crashed
  /\ pc[t] = "idle"
  /\ \E level \in Requested :
       /\ volume' = level
       /\ ctrlVolume' = [s \in Sessions |->
                           IF s = installed THEN level ELSE ctrlVolume[s]]
  /\ UNCHANGED <<queue, currentIndex, installed, opened, songOf, openFiles,
                 closed, token, paused, speakerVars, threadVars, crashed>>

ClientSetVolume(t) ==
  /\ ~crashed
  /\ pc[t] = "idle"
  /\ \E level \in Requested :
       /\ level \in Levels
       /\ volume' = level
       /\ ctrlVolume' = [s \in Sessions |->
                           IF s = installed THEN level ELSE ctrlVolume[s]]
  /\ UNCHANGED <<queue, currentIndex, installed, opened, songOf, openFiles,
                 closed, token, paused, speakerVars, threadVars, crashed>>

(* Pause and Resume read ctrl under the read lock and set its field later,
   under the speaker's lock only. *)
ClientReadCtrl(t) ==
  /\ installed # None
  /\ \E op \in {"pause", "resume"} : Goto(t, "idle", op)
  /\ ref' = [ref EXCEPT ![t] = installed]
  /\ UNCHANGED <<playerVars, sessionVars, speakerVars, song, session, crashed>>

ClientSetPaused(t) ==
  /\ \/ /\ Goto(t, "pause", "idle")
        /\ paused' = paused \cup {ref[t]}
     \/ /\ Goto(t, "resume", "idle")
        /\ paused' = paused \ {ref[t]}
  /\ ref' = [ref EXCEPT ![t] = None]
  /\ UNCHANGED <<playerVars, opened, songOf, openFiles, closed, token,
                 ctrlVolume, speakerVars, song, session, crashed>>

-----------------------------------------------------------------------------
(***************************************************************************)
(* The speaker's goroutine (github.com/faiface/beep) streams what is in    *)
(* its mixer.                                                              *)
(***************************************************************************)

(* trackEnded has no buffer: the send is dropped if nobody waits yet *)
BugUnbufferedEnd(s) ==
  /\ ~crashed
  /\ mixer[s] > 0
  /\ s \notin paused
  /\ mixer' = [mixer EXCEPT ![s] = 0]
  /\ drained' = drained \cup {s}
  /\ token' = IF s \in drained \cup closed \/ pc[s] # "wait"
               THEN token ELSE token \cup {s}
  /\ crashed' = (s \in closed \ drained)
  /\ UNCHANGED <<playerVars, opened, songOf, openFiles, closed, ctrlVolume,
                 paused, threadVars>>

(* A stream gives no more samples: the sequence runs its callback once, which
   sends to the trackEnded channel without blocking, and the mixer drops the
   control. *)
StreamEnds(s) ==
  /\ ~crashed
  /\ mixer[s] > 0
  /\ s \notin paused
  /\ mixer' = [mixer EXCEPT ![s] = 0]
  /\ drained' = drained \cup {s}
  /\ token' = IF s \in drained \cup closed THEN token ELSE token \cup {s}
  /\ crashed' = (s \in closed \ drained)    \* send on a closed channel
  /\ UNCHANGED <<playerVars, opened, songOf, openFiles, closed, ctrlVolume,
                 paused, threadVars>>

(* A track has been played to its end. *)
TrackEnds(s) == s \in openFiles /\ StreamEnds(s)

(* A decoder that stopPlaybackLocked has closed has no samples left, so a
   stream that speaker.Play adds after that is over at the speaker's next
   pass.  The channel was closed with it. *)
ClosedStreamEnds(s) == s \notin openFiles /\ StreamEnds(s)

(* Streaming a nil volume control dereferences it. *)
StreamNil ==
  /\ ~crashed
  /\ mixer[None] > 0
  /\ crashed' = TRUE
  /\ UNCHANGED <<playerVars, sessionVars, speakerVars, threadVars>>

(***************************************************************************)
(* The goroutine of a session.  It is scheduled some time after the        *)
(* speaker has begun to play, when the track may be over already.          *)
(***************************************************************************)
WaitForEnd(s) ==
  /\ Goto(s, "begin", "wait")
  /\ UNCHANGED <<playerVars, sessionVars, speakerVars, song, session, ref,
                 crashed>>

(* A value that is in the channel when it is closed is still received; only
   then does the receiver see the closing. *)
ReceiveEnd(s) ==
  /\ s \in token
  /\ Goto(s, "wait", "next")
  /\ token' = token \ {s}
  /\ UNCHANGED <<playerVars, opened, songOf, openFiles, closed, ctrlVolume,
                 paused, speakerVars, song, session, ref, crashed>>

(* the goroutine does not look at ok *)
BugClosedIsAnEnd(s) ==
  /\ s \in closed \ token
  /\ Goto(s, "wait", "next")
  /\ UNCHANGED <<playerVars, sessionVars, speakerVars, song, session, ref,
                 crashed>>

ReceiveClosed(s) ==
  /\ s \in closed \ token
  /\ Goto(s, "wait", "done")
  /\ UNCHANGED <<playerVars, sessionVars, speakerVars, song, session, ref,
                 crashed>>

AutoAdvance(s) == Advance(s, "next")

AutoAdvanceAtEnd(s) ==
  /\ currentIndex >= Len(queue) - 1
  /\ Goto(s, "next", "done")
  /\ UNCHANGED <<playerVars, sessionVars, speakerVars, song, session, ref,
                 crashed>>

-----------------------------------------------------------------------------
(* What a thread does once it is inside a call, without its user. *)
ContinuePlay(t) ==
  \/ CheckCurrentSong(t)
  \/ SelectFirst(t)
  \/ OpenFile(t)
  \/ OpenFails(t)
  \/ Install(t)
  \/ LoadVolumeCtrl(t)
  \/ SpeakerPlay(t)

(* What a client may ask for, and the second half of Pause and Resume. *)
ClientStep(t) ==
  \/ AddToQueue(t)
  \/ ClientNext(t)
  \/ ClientPrevious(t)
  \/ ClientStop(t)
  \/ ClientSetVolume(t)
  \/ ClientReadCtrl(t)
  \/ ClientSetPaused(t)

SessionStep(s) ==
  \/ WaitForEnd(s)
  \/ ReceiveEnd(s)
  \/ ReceiveClosed(s)
  \/ AutoAdvance(s)
  \/ AutoAdvanceAtEnd(s)

Next ==
  \/ \E t \in Threads : ContinuePlay(t)
  \/ \E t \in Clients : ClientStep(t)
  \/ \E s \in Sessions : SessionStep(s)
  \/ \E s \in Sessions : TrackEnds(s) \/ ClosedStreamEnds(s)
  \/ StreamNil

Spec == Init /\ [][Next]_vars

(***************************************************************************)
(* The Go scheduler runs every runnable goroutine: a call that has started *)
(* goes on, and so do the goroutine of a session and the speaker's, which  *)
(* asks every stream in its mixer for samples at each pass.  Nothing makes *)
(* a user call or a track end.                                             *)
(***************************************************************************)
Fairness ==
  /\ \A t \in Threads : WF_vars(ContinuePlay(t))
  /\ \A s \in Sessions : WF_vars(SessionStep(s)) /\ WF_vars(ClosedStreamEnds(s))
  /\ WF_vars(StreamNil)

FairSpec == Spec /\ Fairness
-----------------------------------------------------------------------------
(* Properties *)

Holders(s) == {t \in Threads : pc[t] = "install" /\ session[t] = s}

(***************************************************************************)
(* No file is leaked and none is used after it was closed: a session whose *)
(* file is open is the installed one or is in the hands of exactly one     *)
(* Player.Play that has not installed it yet, never both, and its channel  *)
(* is not closed.                                                          *)
(***************************************************************************)
FilesOwned ==
  /\ \A s \in openFiles :
       \/ s = installed /\ Holders(s) = {}
       \/ s # installed /\ \E t \in Threads : Holders(s) = {t}
  /\ installed # None => installed \in openFiles
  /\ \A t \in Threads : pc[t] = "install" => session[t] \in openFiles
  /\ openFiles \cap closed = {}

(***************************************************************************)
(* The player implements SessionLifecycle: every file it opens is held,    *)
(* then current, then released, in the code's own locked sections.         *)
(***************************************************************************)
SessionStage ==
  [s \in Sessions |->
     IF s > opened THEN "new"
     ELSE IF s = installed THEN "current"
     ELSE IF s \in openFiles THEN "held" ELSE "released"]

Lifecycle == INSTANCE SessionLifecycle WITH stage <- SessionStage

ImplementsLifecycle == Lifecycle!Spec

(***************************************************************************)
(* The queue's cursor: -1, or the index of a song that is in the queue,    *)
(* whatever the clients and the ends of tracks do in between (Next,        *)
(* Previous and PlayQueue index the queue with it).                        *)
(***************************************************************************)
CursorInQueue == -1 <= currentIndex /\ currentIndex < Len(queue)

(***************************************************************************)
(* The goroutine of a session goes on to the next song only if its own     *)
(* track has played to its end: a Stop, or a Play that replaces the        *)
(* session, closes its channel and never advances the queue.               *)
(***************************************************************************)
AdvanceOnlyAfterEnd ==
  \A s \in Sessions :
    pc[s] \notin {"none", "begin", "wait", "done"} => s \in drained

(***************************************************************************)
(* The end of a track reaches its goroutine, and only once: it is in the   *)
(* channel for exactly as long as the goroutine has not received it,       *)
(* whether the track ends before the goroutine is created, before it       *)
(* waits or after that, and whether the channel is closed meanwhile        *)
(* (unless the daemon has crashed).                                        *)
(***************************************************************************)
EndIsDelivered ==
  ~crashed =>
    \A s \in drained : s \in token <=> pc[s] \in {"none", "begin", "wait"}

(***************************************************************************)
(* No panic: nothing is sent to a closed channel and the speaker is given  *)
(* no nil volume control.                                                  *)
(***************************************************************************)
NoPanic == ~crashed

AtRest == \A t \in Threads : \/ pc[t] \in {"idle", "none", "done"}
                             \/ pc[t] = "wait" /\ t \notin token \cup closed

(***************************************************************************)
(* Stop (the command stop of the CLI) ends the playback and empties the    *)
(* queue, and the daemon goes on to serve: nothing that the stopped        *)
(* playback has left behind brings the daemon down while nothing is        *)
(* current.                                                                *)
(***************************************************************************)
StopLeavesDaemonUp == currentIndex = -1 /\ installed = None => ~crashed

(***************************************************************************)
(* Once every call has returned, the song NowPlaying reports, if there is  *)
(* one (the one under the cursor), is the song of the installed session.   *)
(***************************************************************************)
NowPlayingIsInstalled ==
  AtRest /\ installed # None /\ ~GetCurrentSongIsNil =>
    songOf[installed] = queue[currentIndex + 1]

(***************************************************************************)
(* When the current track has ended, its goroutine has not yet given up,   *)
(* and the queue has a next song, the player moves on: the track is        *)
(* replaced (or stopped by a client), unless the bound on sessions is      *)
(* reached.  The end of the track is never lost between the speaker's      *)
(* non-blocking send and a goroutine that has not started to wait.  (For   *)
(* a library without Broken songs: an error of Play ends the advance.)     *)
(***************************************************************************)
EndedTrackIsReplaced ==
  \A s \in Sessions :
    (/\ installed = s /\ s \in drained /\ pc[s] # "done"
     /\ currentIndex < Len(queue) - 1)
      ~> installed # s \/ crashed \/ opened = MaxSessions
=============================================================================
