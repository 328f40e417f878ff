------------------------------ MODULE MCPlayer ------------------------------
(***************************************************************************)
(* Player for TLC: the workloads the runs restrict the clients to.         *)
(***************************************************************************)
EXTENDS Player, TLC

Symmetric == Permutations(Clients)

(***************************************************************************)
(* A queue that is only ever appended to (raag play, playlist play): the   *)
(* queue advances because tracks end, and nobody stops, skips or pauses.   *)
(***************************************************************************)
AppendOnlyNext ==
  \/ \E t \in Threads : ContinuePlay(t)
  \/ \E t \in Clients : AddToQueue(t)
  \/ \E s \in Sessions : SessionStep(s)
  \/ \E s \in Sessions : TrackEnds(s) \/ ClosedStreamEnds(s)
  \/ StreamNil

AppendOnlySpec == Init /\ [][AppendOnlyNext]_vars

(* In addition to the goroutines, a track that plays comes to its end. *)
AppendOnlyFairSpec ==
  /\ AppendOnlySpec
  /\ Fairness
  /\ \A s \in Sessions : WF_vars(TrackEnds(s))

(***************************************************************************)
(* A queue that one client fills is played in its order, no song twice and *)
(* none skipped: the n-th file opened is that of the n-th song.            *)
(***************************************************************************)
PlayedInOrder ==
  /\ opened <= Len(queue)
  /\ \A s \in 1 .. opened : songOf[s] = queue[s]

(***************************************************************************)
(* Every song that is added to the queue is played in the end, as the      *)
(* command play promises.                                                  *)
(***************************************************************************)
QueuedIsPlayed == \A n \in 1 .. MaxQueue : Len(queue) >= n ~> opened >= n
=============================================================================
