----------------------------- MODULE AtomicFile -----------------------------
(***************************************************************************)
(* What WriteJSONAtomic (internal/storage/storage.go) promises: a file     *)
(* holds the whole of what one writer was writing when it was replaced,    *)
(* whoever else writes, fails or dies.  The directory is not synced, so a  *)
(* loss of power may bring back what the file held before.                 *)
(***************************************************************************)
CONSTANTS Values, Writers, NoValue

VARIABLES
  content,  \* of the file, or NoValue before the first write
  stable,   \* what it would hold after a loss of power
  offered   \* what each writer is writing, or NoValue

vars == <<content, stable, offered>>

Init == content = NoValue /\ stable = NoValue /\ offered = [w \in Writers |-> NoValue]

Offer(w, v) ==
  /\ offered[w] = NoValue
  /\ offered' = [offered EXCEPT ![w] = v]
  /\ UNCHANGED <<content, stable>>

Replace(w) ==
  /\ offered[w] # NoValue
  /\ content' = offered[w]
  /\ offered' = [offered EXCEPT ![w] = NoValue]
  /\ UNCHANGED stable

\* writers that fail or die leave the file as it is
Withdraw(W) ==
  /\ offered' = [w \in Writers |-> IF w \in W THEN NoValue ELSE offered[w]]
  /\ UNCHANGED <<content, stable>>

Flush == stable' = content /\ UNCHANGED <<content, offered>>

PowerLoss ==
  /\ content' = stable
  /\ offered' = [w \in Writers |-> NoValue]
  /\ UNCHANGED stable

Next ==
  \/ \E w \in Writers : Replace(w) \/ \E v \in Values : Offer(w, v)
  \/ \E W \in SUBSET Writers : Withdraw(W)
  \/ Flush \/ PowerLoss

Spec == Init /\ [][Next]_vars
=============================================================================
