---------------------------- MODULE CircuitBreaker ----------------------------
(***************************************************************************)
(* The circuit breaker of the Go services                                  *)
(* (services/shared/pkg/resilience/circuit_breaker.go) as a data type: what *)
(* allow() and record(err), each under the breaker's mutex, make of it.    *)
(*                                                                         *)
(* failures counts up to MaxFailures only: the code compares it with that. *)
(* cooled: Timeout has passed since lastFailure.                           *)
(***************************************************************************)
EXTENDS Naturals

CONSTANTS
  MaxFailures,         \* consecutive failures that open the circuit
  HalfOpenMaxRequests  \* permits of a half-open circuit

ASSUME BreakerAssumption ==
  MaxFailures \in Nat \ {0} /\ HalfOpenMaxRequests \in Nat

Breakers ==
  [state : {"closed", "open", "half-open"}, failures : 0..MaxFailures,
   cooled : BOOLEAN, permits : 0..HalfOpenMaxRequests]

NewBreaker == [state |-> "closed", failures |-> 0, cooled |-> FALSE, permits |-> 0]

-----------------------------------------------------------------------------
(* allow() *)

\* An open circuit whose time is over lets a probe in.
Probes(b) == b.state = "open" /\ b.cooled

\* Mutant: permits are not asked for.
AdmitsWithout(b) == b.state # "open" \/ Probes(b)

Admits(b) ==
  \/ b.state = "closed"
  \/ Probes(b)
  \/ b.state = "half-open" /\ b.permits > 0

\* Mutant: a probe leaves the circuit open.
AdmittedOpen(b) == IF b.state = "half-open" THEN [b EXCEPT !.permits = b.permits - 1] ELSE b

\* The breaker after a call was let in. The probe takes no permit.
Admitted(b) ==
  CASE b.state = "closed"    -> b
    [] b.state = "open"      -> [b EXCEPT !.state = "half-open", !.permits = HalfOpenMaxRequests]
    [] b.state = "half-open" -> [b EXCEPT !.permits = b.permits - 1]

-----------------------------------------------------------------------------
(* record(err), for a call let in in this state of the circuit or in another *)

Counted(b) == IF b.failures < MaxFailures THEN b.failures + 1 ELSE MaxFailures

AfterFailure(b) ==
  [b EXCEPT !.failures = Counted(b), !.cooled = FALSE,
            !.state = IF b.state = "half-open" \/ Counted(b) = MaxFailures THEN "open"
                      ELSE b.state]

\* Mutant: the failures are forgotten, but the circuit stays half open.
AfterSuccessHalfOpen(b) == [b EXCEPT !.failures = 0]

AfterSuccess(b) ==
  [b EXCEPT !.failures = 0,
            !.state = IF b.state = "half-open" THEN "closed" ELSE b.state]
=============================================================================
