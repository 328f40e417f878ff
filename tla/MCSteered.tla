------------------------------ MODULE MCSteered ------------------------------
(***************************************************************************)
(* Player with a count of what clients have done to steer the queue:       *)
(* asked for anything other than to add a song (next, previous, stop,      *)
(* pause, resume, a volume).  Until the first time the queue advances      *)
(* because tracks end, and more can be promised of it.                     *)
(***************************************************************************)
EXTENDS MCPlayer

CONSTANT MaxSteers   \* bound: steps of clients that steer the queue

ASSUME SteersAssumption == MaxSteers \in Nat

VARIABLE steers

Steer(t) ==
  \/ ClientNext(t)
  \/ ClientPrevious(t)
  \/ ClientStop(t)
  \/ ClientSetVolume(t)
  \/ ClientReadCtrl(t)
  \/ ClientSetPaused(t)

SteeredNext ==
  \/ AppendOnlyNext /\ UNCHANGED steers
  \/ \E t \in Clients : Steer(t) /\ steers < MaxSteers /\ steers' = steers + 1

SteeredSpec == Init /\ steers = 0 /\ [][SteeredNext]_<<vars, steers>>

SteeredFairSpec == SteeredSpec /\ Fairness

Unsteered == steers = 0

(***************************************************************************)
(* Nothing panics before a client steers the queue: the end of a track and *)
(* the goroutine that plays the next one never meet a closed channel or a  *)
(* missing volume control by themselves.                                   *)
(***************************************************************************)
UnsteeredNeverPanics == Unsteered => NoPanic

(***************************************************************************)
(* Before a client steers it, a queue that one client fills is played in   *)
(* its order (PlayedInOrder), whenever the songs are added.                *)
(***************************************************************************)
UnsteeredInOrder == Unsteered => PlayedInOrder

(***************************************************************************)
(* Before a client steers the queue, what NowPlaying reports once every    *)
(* call has returned is what the player has installed.                     *)
(***************************************************************************)
UnsteeredNowPlaying == Unsteered => NowPlayingIsInstalled
=============================================================================
