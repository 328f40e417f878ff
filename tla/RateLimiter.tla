---------------------------- MODULE RateLimiter ----------------------------
(***************************************************************************)
(* The tracker's limiter of registrations per IP address (RateLimiter in   *)
(* tracker/server.go).  Time is counted in ticks; Allow reads the clock    *)
(* inside the limiter's own mutex, so one call of it is one step.          *)
(***************************************************************************)
EXTENDS Integers, Sequences

CONSTANTS
  IPs,          \* addresses requests come from
  Window,       \* rateLimitWindow, in ticks
  RateMax,      \* rateLimitMaxRegistrations
  MaxTime       \* bound: the clock stops there

ASSUME RateLimiterAssumption ==
  /\ Window \in Nat \ {0}
  /\ RateMax \in Nat \ {0}
  /\ MaxTime \in Nat

VARIABLES
  now,          \* the tracker's clock
  requests      \* for every IP, when its requests were let through

Time == 0 .. MaxTime

RateLimiterInit ==
  /\ now = 0
  /\ requests = [ip \in IPs |-> <<>>]

(* the window is closed at its old end *)
BugRecent(ip) == SelectSeq(requests[ip], LAMBDA t : t > now - Window + 1)

(* The requests of an IP that count against it now, in the order in which  *)
(* the loop over its list appends them.                                    *)
Recent(ip) ==
  LET times == requests[ip]
      valid[i \in 0 .. Len(times)] ==
        IF i = 0 THEN <<>>
        ELSE IF times[i] > now - Window THEN Append(valid[i - 1], times[i])
        ELSE valid[i - 1]
  IN valid[Len(times)]

(* requests that have left the window count until they are dropped *)
BugAllowed(ip) == Len(requests[ip]) < RateMax

Allowed(ip) == Len(Recent(ip)) < RateMax

(* what has left the window is not dropped *)
BugAllow(ip) ==
  /\ Allowed(ip)
  /\ requests' = [requests EXCEPT ![ip] = Append(requests[ip], now)]

(* Only a request that is let through is recorded, and only then are the   *)
(* old ones dropped.                                                       *)
Allow(ip) ==
  /\ Allowed(ip)
  /\ requests' = [requests EXCEPT ![ip] = Append(Recent(ip), now)]

(***************************************************************************)
(* The list of an address never holds more times than the maximum, however *)
(* many requests come: no goroutine sweeps these lists, so dropping what   *)
(* has left the window while one is let through must suffice (Allow).      *)
(***************************************************************************)
RequestsBounded == \A ip \in IPs : Len(requests[ip]) <= RateMax
=============================================================================
