-------------------------- MODULE SessionLifecycle --------------------------
(***************************************************************************)
(* What the player promises about the files it opens: a file is acquired   *)
(* once, held by the call that opened it until that call makes it the      *)
(* current one, and released in the step in which another file takes its   *)
(* place or playback is stopped.  At most one file is current, a held file *)
(* is never dropped, and a released one never comes back.                  *)
(***************************************************************************)
CONSTANT Sessions

VARIABLE stage

Init == stage = [s \in Sessions |-> "new"]

IsCurrent(s) == stage[s] = "current"

(* The stages after the current file, if there is one, is given up. *)
Retired == [s \in Sessions |-> IF IsCurrent(s) THEN "released" ELSE stage[s]]

Acquire(s) ==
  /\ stage[s] = "new"
  /\ stage' = [stage EXCEPT ![s] = "held"]

Promote(s) ==
  /\ stage[s] = "held"
  /\ stage' = [Retired EXCEPT ![s] = "current"]

Release == stage' = Retired

Next == Release \/ \E s \in Sessions : Acquire(s) \/ Promote(s)

Spec == Init /\ [][Next]_stage
=============================================================================
