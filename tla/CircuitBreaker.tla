--------------------------- MODULE CircuitBreaker ---------------------------
(***************************************************************************)
(* llm/circuit_breaker.go, the breaker OllamaClient, OllamaEmbedder and    *)
(* QdrantAgent each own one of.                                            *)
(*                                                                         *)
(* A breaker is a record.  Its methods are critical sections of cb.mu and  *)
(* become operators from the breaker before to the breaker after.  The     *)
(* clock enters as age, the time since lastFailure, counted in ticks up to *)
(* ResetTimeout: Allow only asks whether that much has passed.  failures   *)
(* counts up to MaxFailures, the only value it is compared with; successes *)
(* is compared with 1 right after it is incremented, so it is left out.    *)
(***************************************************************************)
EXTENDS Naturals

CONSTANTS MaxFailures, ResetTimeout

ASSUME MaxFailuresAssumption == MaxFailures \in Nat \ {0}
ASSUME ResetTimeoutAssumption == ResetTimeout \in Nat \ {0}

Breakers == [state : {"closed", "open", "half-open"},
             failures : 0 .. MaxFailures,
             age : 0 .. ResetTimeout]

NewCircuitBreaker == [state |-> "closed", failures |-> 0, age |-> ResetTimeout]

Elapsed(b) == b.age = ResetTimeout

\* Allow returns nil.
Allowed(b) == b.state = "open" => Elapsed(b)

\* Allow moves an open breaker whose time has come to half-open.
AfterAllow(b) ==
  IF b.state = "open" /\ Elapsed(b) THEN [b EXCEPT !.state = "half-open"] ELSE b

\* Mutant: the threshold is passed, not reached.
TripsAbove(n) == n + 1 > MaxFailures
Trips(n) == n + 1 >= MaxFailures

\* Mutant: one success leaves the breaker half-open.
StaysHalfOpen(b) == [b EXCEPT !.failures = 0]

AfterSuccess(b) ==
  [b EXCEPT !.failures = 0,
            !.state = IF @ = "half-open" THEN "closed" ELSE @]

AfterFailure(b) ==
  [b EXCEPT !.failures = IF @ < MaxFailures THEN @ + 1 ELSE @,
            !.age = 0,
            !.state = IF @ = "half-open" \/ (@ = "closed" /\ Trips(b.failures))
                      THEN "open" ELSE @]

\* One tick of the clock.
Older(b) == [b EXCEPT !.age = IF @ < ResetTimeout THEN @ + 1 ELSE @]
=============================================================================
