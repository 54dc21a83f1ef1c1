----------------------------- MODULE ProviderChain -----------------------------
(***************************************************************************)
(* The failover chain of AI providers                                      *)
(* (services/ai-service/internal/domain/enrichment/provider_chain.go), with *)
(* a circuit breaker in front of each.                                     *)
(*                                                                         *)
(* Concurrent requests try the providers in order, 1 to N.  A request asks *)
(* for a completion ("llm") or an embedding ("embed"); both go through the *)
(* breaker of the provider.  A chain of one provider is the gRPC client of *)
(* services/shared/pkg/grpcutil/base_client.go.                            *)
(***************************************************************************)
EXTENDS CircuitBreaker, FiniteSets

CONSTANTS
  N,         \* providers in the chain
  Embeds,    \* those with an embedding provider
  Flaky,     \* those that may fail by themselves
  Requests,  \* goroutines that make requests, again and again
  MaxGone    \* bound: requests whose context is done before they are answered

Providers == 1..N

ASSUME ChainAssumption ==
  /\ N \in Nat \ {0} /\ Embeds \subseteq Providers /\ Flaky \subseteq Providers
  /\ IsFiniteSet(Requests) /\ MaxGone \in Nat

VARIABLES
  breaker,  \* the circuit breaker of each provider
  req,      \* where each request stands, what it asks of whom, its last outcome
  ailing,   \* the providers that fail at present
  gone,     \* the requests under way whose context is done
  left,     \* how many there have been
  trial     \* history: the calls let in by the present half-open state

vars == <<breaker, req, ailing, gone, left, trial>>

RequestState ==
  [pc : {"idle", "try", "call"}, op : {"llm", "embed"}, at : Providers,
   out : {"none", "ok", "failed"}]

TypeOK ==
  /\ breaker \in [Providers -> Breakers]
  /\ req \in [Requests -> RequestState]
  /\ ailing \subseteq Flaky
  /\ gone \subseteq Requests
  /\ left \in 0..MaxGone
  /\ trial \in [Providers -> SUBSET Requests]

Init ==
  /\ breaker = [p \in Providers |-> NewBreaker]
  /\ req = [q \in Requests |-> [pc |-> "idle", op |-> "llm", at |-> 1, out |-> "none"]]
  /\ ailing = {} /\ gone = {} /\ left = 0
  /\ trial = [p \in Providers |-> {}]

-----------------------------------------------------------------------------
(* The environment: callers, providers, time. *)

\* Complete or GenerateEmbedding is called.
Ask(q, op) ==
  /\ req[q].pc = "idle"
  /\ req' = [req EXCEPT ![q] = [pc |-> "try", op |-> op, at |-> 1, out |-> "none"]]
  /\ UNCHANGED <<breaker, ailing, gone, left, trial>>

\* The context of a request is done.
Leave(q) ==
  /\ req[q].pc # "idle" /\ q \notin gone /\ left < MaxGone
  /\ gone' = gone \cup {q} /\ left' = left + 1
  /\ UNCHANGED <<breaker, req, ailing, trial>>

\* A provider begins to fail, or has recovered.
Falter(p) ==
  /\ p \in Flaky
  /\ ailing' = IF p \in ailing THEN ailing \ {p} ELSE ailing \cup {p}
  /\ UNCHANGED <<breaker, req, gone, left, trial>>

\* Timeout passes since the last failure.
Cool(p) ==
  /\ breaker[p].state = "open" /\ ~breaker[p].cooled
  /\ breaker' = [breaker EXCEPT ![p] = [breaker[p] EXCEPT !.cooled = TRUE]]
  /\ UNCHANGED <<req, ailing, gone, left, trial>>

-----------------------------------------------------------------------------
(* tryEach *)

\* Mutant: an error ends the request.
MovesOnNowhere(q) ==
  /\ req' = [req EXCEPT ![q] = [req[q] EXCEPT !.pc = "idle", !.out = "failed"]]
  /\ gone' = gone \ {q}

\* After an error, of the provider or of its breaker: on to the next one.
MovesOn(q) ==
  IF req[q].at < N
  THEN /\ req' = [req EXCEPT ![q] = [req[q] EXCEPT !.pc = "try", !.at = req[q].at + 1]]
       /\ UNCHANGED gone
  ELSE /\ req' = [req EXCEPT ![q] = [req[q] EXCEPT !.pc = "idle", !.out = "failed"]]
       /\ gone' = gone \ {q}

\* Execute: allow() returns nil.
Admit(q) ==
  LET p == req[q].at
  IN  /\ req[q].pc = "try" /\ Admits(breaker[p])
      /\ breaker' = [breaker EXCEPT ![p] = Admitted(breaker[p])]
      /\ req' = [req EXCEPT ![q] = [req[q] EXCEPT !.pc = "call"]]
      /\ trial' = IF Admitted(breaker[p]).state = "half-open"
                  THEN [trial EXCEPT ![p] = trial[p] \cup {q}] ELSE trial
      /\ UNCHANGED <<ailing, gone, left>>

\* Execute: allow() returns ErrCircuitOpen.
Reject(q) ==
  /\ req[q].pc = "try" /\ ~Admits(breaker[req[q].at])
  /\ MovesOn(q)
  /\ UNCHANGED <<breaker, ailing, left, trial>>

\* A provider that cannot do what is asked of it.
Unfit(q) == req[q].op = "embed" /\ req[q].at \notin Embeds

\* Why a call of a provider may return an error.
MayFail(q) == req[q].at \in ailing \/ Unfit(q) \/ q \in gone

\* Execute: fn has returned, record(nil). Whatever call it was, its record ends
\* a half-open state.
Succeed(q) ==
  LET p == req[q].at
  IN  /\ req[q].pc = "call" /\ p \notin ailing /\ ~Unfit(q)
      /\ breaker' = [breaker EXCEPT ![p] = AfterSuccess(breaker[p])]
      /\ req' = [req EXCEPT ![q] = [req[q] EXCEPT !.pc = "idle", !.out = "ok"]]
      /\ gone' = gone \ {q}
      /\ trial' = [trial EXCEPT ![p] = {}]
      /\ UNCHANGED <<ailing, left>>

\* Execute: fn has returned, record(err). The breaker does not ask whose fault
\* it was.
Fail(q) ==
  LET p == req[q].at
  IN  /\ req[q].pc = "call" /\ MayFail(q)
      /\ breaker' = [breaker EXCEPT ![p] = AfterFailure(breaker[p])]
      /\ MovesOn(q)
      /\ trial' = [trial EXCEPT ![p] = {}]
      /\ UNCHANGED <<ailing, left>>

-----------------------------------------------------------------------------
Returns(q) == Succeed(q) \/ Fail(q)

Next ==
  \/ \E q \in Requests :
       \/ \E op \in {"llm", "embed"} : Ask(q, op)
       \/ Leave(q) \/ Admit(q) \/ Reject(q) \/ Returns(q)
  \/ \E p \in Providers : Falter(p) \/ Cool(p)

\* Goroutines run, calls return, time passes. That anybody asks is not assumed.
Fairness ==
  /\ \A q \in Requests : WF_vars(Admit(q) \/ Reject(q)) /\ WF_vars(Returns(q))
  /\ \A p \in Providers : WF_vars(Cool(p))

Spec == Init /\ [][Next]_vars
FairSpec == Spec /\ Fairness

-----------------------------------------------------------------------------
(* Properties *)

Calls(p) == {q \in Requests : req[q].pc = "call" /\ req[q].at = p}

\* A half-open circuit is always about to be decided: a call is under way, and
\* its record() will close or open the circuit. Without one, and with all its
\* permits taken, it would refuse every call for good.
HalfOpenIsDecided ==
  \A p \in Providers : breaker[p].state = "half-open" => Calls(p) # {}

\* "HalfOpenMaxRequests is max concurrent requests allowed in HALF_OPEN state":
\* of the calls that a half-open circuit has let in, no more are under way. Calls
\* let in by an earlier state are not counted. The code lets in one more: the
\* probe that makes the circuit half-open takes no permit.
HalfOpenIsLimited ==
  \A p \in Providers : breaker[p].state = "half-open" =>
    Cardinality(trial[p] \cap Calls(p)) <= HalfOpenMaxRequests

Reliable == Embeds \ Flaky

\* One provider that can do everything and never fails is enough for every
\* request to be answered, wherever it stands in the chain and whatever the
\* others and their breakers do, as long as no caller goes away.
OneReliableIsEnough ==
  left = 0 /\ Reliable # {} => \A q \in Requests : req[q].out # "failed"

\* A provider that has recovered gets its calls back: when calls to it no longer
\* fail and it goes on being tried, its circuit closes, and stays closed.
CircuitsClose ==
  \A p \in Providers :
    /\ []<>(\E q \in Requests : req[q].pc = "try" /\ req[q].at = p)
    /\ <>[](\A q \in Calls(p) : ~MayFail(q))
    => <>[](breaker[p].state = "closed")
=============================================================================
