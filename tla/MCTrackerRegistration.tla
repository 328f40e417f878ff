----------------------- MODULE MCTrackerRegistration -----------------------
(***************************************************************************)
(* TrackerRegistration for TLC: addresses, keys and clocks of the peers.   *)
(***************************************************************************)
EXTENDS TrackerRegistration, TLC

CONSTANTS p1, p2, p3, p4, ip1, shared, other

OneIp    == [p \in {p1} |-> ip1]
OneKey   == [p \in {p1} |-> shared]
ExactOne == [p \in {p1} |-> 0]

(* p3 signs with a key the tracker does not trust, the others with one that
   they share. *)
SharedIp == [p \in {p1, p2, p3, p4} |-> ip1]
Keys     == [p \in {p1, p2, p3, p4} |-> IF p = p3 THEN other ELSE shared]

(* The clock of p1 is ahead, that of p2 behind, by one tick. *)
Skewed   == [p \in {p1, p2, p3, p4} |->
               IF p = p1 THEN 1 ELSE IF p = p2 THEN -1 ELSE 0]
OneAhead == [p \in {p1} |-> 1]

Symmetric == Permutations(Handlers)
=============================================================================
