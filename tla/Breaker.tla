------------------------------ MODULE Breaker ------------------------------
(***************************************************************************)
(* The circuit breaker of github.com/sony/gobreaker v1, as operators on a  *)
(* record.  It is a library outside the repository; internal/service and   *)
(* internal/kafka use it through Execute, which admits a call              *)
(* (beforeRequest), runs it without any lock, and records its outcome      *)
(* (afterRequest).                                                         *)
(*   state    : closed, open or half-open                                  *)
(*   requests, successes : calls admitted and succeeded while half-open    *)
(*   failures : consecutive failures while closed                          *)
(*   current  : the calls under way that were admitted in this generation; *)
(*              a state change or an Interval that expires starts a new    *)
(*              one, and the outcome of an older call is ignored           *)
(* Counters the code never reads (requests while closed, failures while    *)
(* half-open, totals) are left out.                                        *)
(***************************************************************************)
EXTENDS Naturals, FiniteSets

CONSTANTS
  Callers,      \* the goroutines that may be inside Execute
  MaxRequests,  \* Settings.MaxRequests: the half-open quota
  TripAt        \* the ConsecutiveFailures that ReadyToTrip asks for

States == {"closed", "open", "half-open"}

Breakers ==
  [state : States, requests : 0 .. MaxRequests, successes : 0 .. MaxRequests,
   failures : Nat, current : SUBSET Callers]

\* A new generation: the counts are cleared and no call under way belongs to it.
Generation(s) ==
  [state |-> s, requests |-> 0, successes |-> 0, failures |-> 0, current |-> {}]

Admits(b) ==
  \/ b.state = "closed"
  \/ b.state = "half-open" /\ b.requests < MaxRequests

Admitted(b, c) ==
  [b EXCEPT !.current = @ \cup {c},
            !.requests = IF b.state = "half-open" THEN @ + 1 ELSE @]

Succeeded(b, c) ==
  IF b.state = "half-open" /\ b.successes + 1 >= MaxRequests
  THEN Generation("closed")
  ELSE [b EXCEPT !.current = @ \ {c}, !.failures = 0,
                 !.successes = IF b.state = "half-open" THEN @ + 1 ELSE @]

Failed(b, c) ==
  IF b.state = "half-open" \/ b.failures + 1 >= TripAt
  THEN Generation("open")
  ELSE [b EXCEPT !.current = @ \ {c}, !.failures = @ + 1]

\* afterRequest: the outcome of a call of an older generation is ignored.
Recorded(b, c, ok) ==
  CASE c \notin b.current -> b
    [] c \in b.current /\ ok -> Succeeded(b, c)
    [] OTHER -> Failed(b, c)

\* What the passing of time does: Timeout ends the open state; Interval, if
\* there is one, starts a new generation of the closed state.
Expired(b) == IF b.state = "open" THEN Generation("half-open") ELSE Generation("closed")
CanExpire(b, interval) == b.state = "open" \/ (b.state = "closed" /\ interval)

\* Every admitted probe is accounted for: it is under way or it has succeeded.
ProbesCounted(b) ==
  b.state = "half-open" =>
    /\ b.requests = b.successes + Cardinality(b.current)
    /\ b.successes < MaxRequests
=============================================================================
