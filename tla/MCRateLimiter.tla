--------------------------- MODULE MCRateLimiter ---------------------------
(***************************************************************************)
(* The rate limiter on its own, beside the full history of what it let     *)
(* through, which the limiter itself forgets.                              *)
(***************************************************************************)
EXTENDS RateLimiter, FiniteSets

VARIABLE admitted   \* for every IP, when each request was let through

vars == <<now, requests, admitted>>

Init == RateLimiterInit /\ admitted = [ip \in IPs |-> <<>>]

LetThrough(ip) ==
  /\ Allow(ip)
  /\ admitted' = [admitted EXCEPT ![ip] = Append(@, now)]
  /\ UNCHANGED now

Tick ==
  /\ now < MaxTime
  /\ now' = now + 1
  /\ UNCHANGED <<requests, admitted>>

Next == Tick \/ \E ip \in IPs : LetThrough(ip)

Spec == Init /\ [][Next]_vars

(***************************************************************************)
(* No window of the configured length sees more requests of one IP let     *)
(* through than the maximum, wherever the window begins (Allow).           *)
(***************************************************************************)
RateHeld ==
  \A ip \in IPs : \A i, j \in DOMAIN admitted[ip] :
    j - i = RateMax => admitted[ip][j] - admitted[ip][i] >= Window

(***************************************************************************)
(* What the limiter has forgotten makes no difference: a request is let    *)
(* through exactly if the full history has fewer than the maximum in the   *)
(* window that ends now, so a refused request is not held against its IP.  *)
(***************************************************************************)
LimiterIsExact ==
  \A ip \in IPs :
    Allowed(ip) <=>
      Cardinality({i \in DOMAIN admitted[ip] :
                     admitted[ip][i] > now - Window}) < RateMax
=============================================================================
