-------------------------- MODULE ProviderChainProofs --------------------------
(***************************************************************************)
(* Proofs about ProviderChain, for any number of providers and requests    *)
(* and any limits of the circuit breakers.                                 *)
(***************************************************************************)
EXTENDS ProviderChain, FiniteSetTheorems, TLAPS

-----------------------------------------------------------------------------
(* The circuit breaker. *)

\* allow() keeps a breaker one, and takes a permit of the half-open state.
LEMMA AdmittedFacts ==
  ASSUME NEW b \in Breakers, Admits(b)
  PROVE  /\ Admitted(b) \in Breakers
         /\ Admitted(b).failures = b.failures
         /\ Admitted(b).state = "closed" <=> b.state = "closed"
         /\ Admitted(b).state # "open"
         /\ b.state = "open" => Admitted(b).permits = HalfOpenMaxRequests
         /\ b.state = "half-open" =>
              b.permits > 0 /\ Admitted(b).permits = b.permits - 1
<1> USE BreakerAssumption
<1>1. b.state \in {"closed", "open", "half-open"} /\ b.permits \in 0..HalfOpenMaxRequests
  BY DEF Breakers
<1>2. CASE b.state = "closed"
  BY <1>2 DEF Admitted, Breakers
<1>3. CASE b.state = "open"
  <2>1. Admitted(b) = [b EXCEPT !.state = "half-open", !.permits = HalfOpenMaxRequests]
    BY <1>3 DEF Admitted
  <2>2. [b EXCEPT !.state = "half-open"] \in Breakers
    BY DEF Breakers
  <2>3. \A c \in Breakers : [c EXCEPT !.permits = HalfOpenMaxRequests] \in Breakers
    BY DEF Breakers
  <2>4. Admitted(b) \in Breakers
    BY <2>1, <2>2, <2>3
  <2>5. /\ Admitted(b).failures = b.failures /\ Admitted(b).state = "half-open"
        /\ Admitted(b).permits = HalfOpenMaxRequests
    BY <2>1 DEF Breakers
  <2> QED BY <1>3, <2>4, <2>5
<1>4. CASE b.state = "half-open"
  <2>1. b.permits > 0
    BY <1>4 DEF Admits, Probes
  <2> QED BY <1>1, <1>4, <2>1 DEF Admitted, Breakers
<1> QED BY <1>1, <1>2, <1>3, <1>4

\* record() keeps a breaker one, and ends its half-open state; a success
\* leaves a closed circuit closed and no failure counted.
LEMMA RecordFacts ==
  ASSUME NEW b \in Breakers
  PROVE  /\ AfterFailure(b) \in Breakers /\ AfterFailure(b).state # "half-open"
         /\ AfterSuccess(b) \in Breakers /\ AfterSuccess(b).state # "half-open"
         /\ AfterSuccess(b).failures = 0
         /\ b.state = "closed" => AfterSuccess(b).state = "closed"
<1> USE BreakerAssumption
<1>1. Counted(b) \in 0..MaxFailures
  BY DEF Counted, Breakers
<1>2. b.state \in {"closed", "open", "half-open"}
  BY DEF Breakers
<1>3. AfterFailure(b) \in Breakers /\ AfterFailure(b).state # "half-open"
  BY <1>1, <1>2 DEF AfterFailure, Breakers
<1>4. AfterSuccess(b) \in Breakers
  <2>1. [b EXCEPT !.failures = 0] \in Breakers
    BY DEF Breakers
  <2>2. \A c \in Breakers, s \in {"closed", "open", "half-open"} :
          [c EXCEPT !.state = s] \in Breakers
    BY DEF Breakers
  <2>3. CASE b.state = "half-open"
    BY <2>1, <2>2, <2>3 DEF AfterSuccess
  <2>4. CASE b.state # "half-open"
    BY <1>2, <2>1, <2>2, <2>4 DEF AfterSuccess
  <2> QED BY <2>3, <2>4
<1>5. /\ AfterSuccess(b).state # "half-open" /\ AfterSuccess(b).failures = 0
      /\ b.state = "closed" => AfterSuccess(b).state = "closed"
  BY <1>2 DEF AfterSuccess, Breakers
<1> QED BY <1>3, <1>4, <1>5

-----------------------------------------------------------------------------
(* The inductive invariant. *)

\* The calls a half-open circuit has let in, and the permits it has left.
TrialsAreCounted ==
  \A p \in Providers :
    /\ breaker[p].state # "half-open" => trial[p] = {}
    /\ breaker[p].state = "half-open" =>
         Cardinality(trial[p]) + breaker[p].permits <= HalfOpenMaxRequests + 1

\* As long as no caller went away: reliable providers have closed circuits, and
\* no request has got past one.
ReliablesAreOpenToAll ==
  left = 0 =>
    /\ gone = {}
    /\ \A p \in Reliable : breaker[p].state = "closed"
    /\ \A q \in Requests : req[q].pc # "idle" =>
         \A p \in Reliable : req[q].at <= p
    /\ Reliable # {} => \A q \in Requests : req[q].out # "failed"

IInv ==
  /\ TypeOK
  /\ HalfOpenIsDecided
  /\ TrialsAreCounted
  /\ ReliablesAreOpenToAll

\* Reliable providers are in the chain.
LEMMA ReliableProviders == Reliable \subseteq Providers
BY ChainAssumption DEF Reliable

\* The initial state satisfies it.
LEMMA InitIInv == Init => IInv
<1> SUFFICES ASSUME Init PROVE IInv
  OBVIOUS
<1> USE ChainAssumption, BreakerAssumption, ReliableProviders
<1>1. TypeOK
  BY DEF Init, TypeOK, Breakers, NewBreaker, RequestState, Providers
<1>2. HalfOpenIsDecided /\ TrialsAreCounted /\ ReliablesAreOpenToAll
  BY DEF Init, HalfOpenIsDecided, TrialsAreCounted, ReliablesAreOpenToAll, NewBreaker
<1> QED BY <1>1, <1>2 DEF IInv

\* What MovesOn does: the next provider, or the end.
LEMMA MovesOnFacts ==
  ASSUME TypeOK, NEW q \in Requests, MovesOn(q)
  PROVE  /\ req' \in [Requests -> RequestState]
         /\ \A r \in Requests : r # q => req'[r] = req[r]
         /\ req'[q].pc \in {"try", "idle"}
         /\ req'[q].pc = "try" =>
              req[q].at < N /\ req'[q].at = req[q].at + 1 /\ req'[q].out = req[q].out
         /\ req'[q].pc = "idle" => req[q].at = N
         /\ gone' \subseteq gone
<1> USE ChainAssumption
<1>1. /\ req \in [Requests -> RequestState]
      /\ req[q] \in RequestState /\ req[q].at \in 1..N
  BY DEF TypeOK, RequestState, Providers
<1>2. CASE req[q].at < N
  <2>1. /\ req' = [req EXCEPT ![q] = [req[q] EXCEPT !.pc = "try", !.at = req[q].at + 1]]
        /\ UNCHANGED gone
    BY <1>2 DEF MovesOn
  <2>2. req[q].at + 1 \in 1..N
    BY <1>1, <1>2
  <2>3. [req[q] EXCEPT !.pc = "try", !.at = req[q].at + 1] \in RequestState
    BY <1>1, <2>2 DEF RequestState, Providers
  <2>4. /\ req' \in [Requests -> RequestState]
        /\ \A r \in Requests : r # q => req'[r] = req[r]
        /\ req'[q] = [req[q] EXCEPT !.pc = "try", !.at = req[q].at + 1]
    BY <1>1, <2>1, <2>3
  <2>5. req'[q].pc = "try" /\ req'[q].at = req[q].at + 1 /\ req'[q].out = req[q].out
    BY <1>1, <2>4 DEF RequestState
  <2> QED BY <1>2, <2>1, <2>4, <2>5
<1>3. CASE ~(req[q].at < N)
  <2>1. /\ req' = [req EXCEPT ![q] = [req[q] EXCEPT !.pc = "idle", !.out = "failed"]]
        /\ gone' = gone \ {q} /\ req[q].at = N
    BY <1>1, <1>3 DEF MovesOn
  <2>2. /\ req' \in [Requests -> RequestState]
        /\ \A r \in Requests : r # q => req'[r] = req[r]
        /\ req'[q].pc = "idle"
    BY <1>1, <2>1 DEF RequestState
  <2> QED BY <2>1, <2>2
<1> QED BY <1>2, <1>3

-----------------------------------------------------------------------------
(* Every action preserves it. *)

\* A request begins, a context ends, a provider falters, time passes.
LEMMA EnvironmentKeeps ==
  ASSUME IInv,
         \/ \E q \in Requests : Leave(q) \/ \E op \in {"llm", "embed"} : Ask(q, op)
         \/ \E p \in Providers : Falter(p) \/ Cool(p)
  PROVE  IInv'
<1> USE ChainAssumption, BreakerAssumption
<1>1. ASSUME NEW q \in Requests, NEW op \in {"llm", "embed"}, Ask(q, op) PROVE IInv'
  <2>1. /\ req' = [req EXCEPT ![q] = [pc |-> "try", op |-> op, at |-> 1, out |-> "none"]]
        /\ req[q].pc = "idle" /\ UNCHANGED <<breaker, ailing, gone, left, trial>>
        /\ req \in [Requests -> RequestState]
    BY <1>1 DEF Ask, IInv, TypeOK
  <2>2. TypeOK'
    BY <2>1 DEF IInv, TypeOK, RequestState, Providers
  <2>3. HalfOpenIsDecided' /\ TrialsAreCounted'
    BY <2>1 DEF IInv, HalfOpenIsDecided, TrialsAreCounted, Calls
  <2>4. ReliablesAreOpenToAll'
    BY <2>1, ReliableProviders DEF IInv, ReliablesAreOpenToAll, Providers
  <2> QED BY <2>2, <2>3, <2>4 DEF IInv
<1>2. ASSUME NEW q \in Requests, Leave(q) PROVE IInv'
  <2>1. UNCHANGED <<breaker, req, ailing, trial>> /\ left' = left + 1 /\ left < MaxGone
        /\ gone' = gone \cup {q} /\ left \in 0..MaxGone
    BY <1>2 DEF Leave, IInv, TypeOK
  <2> QED BY <2>1 DEF IInv, TypeOK, HalfOpenIsDecided, TrialsAreCounted, Calls, ReliablesAreOpenToAll
<1>3. ASSUME NEW p \in Providers, Falter(p) PROVE IInv'
  BY <1>3 DEF Falter, IInv, TypeOK, HalfOpenIsDecided, TrialsAreCounted, Calls,
              ReliablesAreOpenToAll
<1>4. ASSUME NEW p \in Providers, Cool(p) PROVE IInv'
  <2>1. /\ breaker' = [breaker EXCEPT ![p] = [breaker[p] EXCEPT !.cooled = TRUE]]
        /\ UNCHANGED <<req, ailing, gone, left, trial>>
        /\ breaker \in [Providers -> Breakers] /\ breaker[p] \in Breakers
    BY <1>4 DEF Cool, IInv, TypeOK
  <2>2. /\ breaker' \in [Providers -> Breakers]
        /\ \A i \in Providers : /\ breaker'[i].state = breaker[i].state
                                /\ breaker'[i].permits = breaker[i].permits
    BY <2>1 DEF Breakers
  <2> QED BY <2>1, <2>2, ReliableProviders
          DEF IInv, TypeOK, HalfOpenIsDecided, TrialsAreCounted, Calls, ReliablesAreOpenToAll
<1> QED BY <1>1, <1>2, <1>3, <1>4

\* allow() lets a call in: it decides a half-open circuit, and is counted there.
LEMMA AdmitKeeps ==
  ASSUME IInv, NEW q \in Requests, Admit(q)
  PROVE  IInv'
<1> USE ChainAssumption, BreakerAssumption
<1> DEFINE p == req[q].at
<1>1. /\ p \in Providers /\ breaker \in [Providers -> Breakers]
      /\ breaker[p] \in Breakers /\ req \in [Requests -> RequestState]
      /\ trial \in [Providers -> SUBSET Requests]
  BY DEF IInv, TypeOK, RequestState
<1>2. /\ req[q].pc = "try" /\ Admits(breaker[p])
      /\ breaker' = [breaker EXCEPT ![p] = Admitted(breaker[p])]
      /\ req' = [req EXCEPT ![q] = [req[q] EXCEPT !.pc = "call"]]
      /\ trial' = IF Admitted(breaker[p]).state = "half-open"
                  THEN [trial EXCEPT ![p] = trial[p] \cup {q}] ELSE trial
      /\ UNCHANGED <<ailing, gone, left>>
  BY DEF Admit
<1>3. /\ Admitted(breaker[p]) \in Breakers
      /\ Admitted(breaker[p]).state = "closed" <=> breaker[p].state = "closed"
      /\ Admitted(breaker[p]).state # "open"
      /\ breaker[p].state = "open" => Admitted(breaker[p]).permits = HalfOpenMaxRequests
      /\ breaker[p].state = "half-open" =>
           breaker[p].permits > 0 /\ Admitted(breaker[p]).permits = breaker[p].permits - 1
  BY <1>1, <1>2, AdmittedFacts
<1>4. /\ req' \in [Requests -> RequestState]
      /\ req'[q].pc = "call" /\ req'[q].at = p /\ req'[q].out = req[q].out
      /\ \A r \in Requests : r # q => req'[r] = req[r]
  BY <1>1, <1>2 DEF RequestState
<1>5. /\ breaker' \in [Providers -> Breakers] /\ breaker'[p] = Admitted(breaker[p])
      /\ \A i \in Providers : i # p => breaker'[i] = breaker[i] /\ trial'[i] = trial[i]
      /\ trial' \in [Providers -> SUBSET Requests]
      /\ trial'[p] = IF Admitted(breaker[p]).state = "half-open"
                     THEN trial[p] \cup {q} ELSE trial[p]
  BY <1>1, <1>2, <1>3
<1>6. TypeOK'
  BY <1>2, <1>4, <1>5 DEF IInv, TypeOK
<1>7. HalfOpenIsDecided'
  <2> SUFFICES ASSUME NEW i \in Providers, breaker'[i].state = "half-open"
               PROVE  Calls(i)' # {}
    BY DEF HalfOpenIsDecided
  <2>1. CASE i = p
    BY <1>4, <2>1 DEF Calls
  <2>2. CASE i # p
    <3>1. Calls(i) # {}
      BY <1>5, <2>2 DEF IInv, HalfOpenIsDecided
    <3> QED BY <1>2, <1>4, <3>1 DEF Calls
  <2> QED BY <2>1, <2>2
<1>8. TrialsAreCounted'
  <2> SUFFICES ASSUME NEW i \in Providers
               PROVE  /\ breaker'[i].state # "half-open" => trial'[i] = {}
                      /\ breaker'[i].state = "half-open" =>
                           Cardinality(trial'[i]) + breaker'[i].permits
                             <= HalfOpenMaxRequests + 1
    BY DEF TrialsAreCounted
  <2>1. CASE i # p
    BY <1>5, <2>1 DEF IInv, TrialsAreCounted
  <2>2. CASE i = p /\ breaker[p].state = "closed"
    BY <1>1, <1>3, <1>5, <2>2 DEF IInv, TrialsAreCounted
  <2>3. CASE i = p /\ breaker[p].state = "open"
    <3>1. trial'[p] = {q} /\ breaker'[p].permits = HalfOpenMaxRequests
          /\ breaker'[p].state = "half-open"
      BY <1>1, <1>3, <1>5, <2>3 DEF IInv, TrialsAreCounted, Breakers
    <3>2. Cardinality({q}) = 1
      BY FS_Singleton
    <3> QED BY <2>3, <3>1, <3>2
  <2>4. CASE i = p /\ breaker[p].state = "half-open"
    <3>1. IsFiniteSet(trial[p])
      BY <1>1, FS_Subset
    <3>2. /\ Cardinality(trial[p]) \in Nat
          /\ Cardinality(trial[p] \cup {q}) <= Cardinality(trial[p]) + 1
          /\ Cardinality(trial[p] \cup {q}) \in Nat
      <4>1. Cardinality(trial[p]) \in Nat
        BY <3>1, FS_CardinalityType
      <4>2. \/ Cardinality(trial[p] \cup {q}) = Cardinality(trial[p])
            \/ Cardinality(trial[p] \cup {q}) = Cardinality(trial[p]) + 1
        BY <3>1, FS_AddElement
      <4> QED BY <4>1, <4>2
    <3>3. /\ trial'[p] = trial[p] \cup {q} /\ breaker'[p].state = "half-open"
          /\ breaker'[p].permits = breaker[p].permits - 1
          /\ breaker[p].permits \in 0..HalfOpenMaxRequests
      BY <1>1, <1>3, <1>5, <2>4 DEF Breakers
    <3>4. Cardinality(trial[p]) + breaker[p].permits <= HalfOpenMaxRequests + 1
      BY <1>1, <2>4 DEF IInv, TrialsAreCounted
    <3> QED BY <2>4, <3>2, <3>3, <3>4
  <2> QED BY <1>1, <2>1, <2>2, <2>3, <2>4 DEF Breakers
<1>9. ReliablesAreOpenToAll'
  BY <1>1, <1>2, <1>3, <1>4, <1>5, ReliableProviders DEF IInv, ReliablesAreOpenToAll
<1> QED BY <1>6, <1>7, <1>8, <1>9 DEF IInv

\* allow() refuses: the circuit is not closed, so the provider is not reliable.
LEMMA RejectKeeps ==
  ASSUME IInv, NEW q \in Requests, Reject(q)
  PROVE  IInv'
<1> USE ChainAssumption, BreakerAssumption
<1>1. /\ req[q].pc = "try" /\ ~Admits(breaker[req[q].at]) /\ MovesOn(q)
      /\ UNCHANGED <<breaker, ailing, left, trial>>
      /\ req \in [Requests -> RequestState] /\ req[q].at \in 1..N
      /\ TypeOK
  BY DEF Reject, IInv, TypeOK, RequestState, Providers
<1>2. /\ req' \in [Requests -> RequestState]
      /\ \A r \in Requests : r # q => req'[r] = req[r]
      /\ req'[q].pc \in {"try", "idle"}
      /\ req'[q].pc = "try" =>
           req[q].at < N /\ req'[q].at = req[q].at + 1 /\ req'[q].out = req[q].out
      /\ req'[q].pc = "idle" => req[q].at = N
      /\ gone' \subseteq gone
  BY <1>1, MovesOnFacts
<1>3. TypeOK'
  BY <1>1, <1>2 DEF TypeOK
<1>4. HalfOpenIsDecided' /\ TrialsAreCounted'
  <2>1. \A i \in Providers : Calls(i) \subseteq Calls(i)'
    BY <1>1, <1>2 DEF Calls
  <2> QED BY <1>1, <2>1 DEF IInv, HalfOpenIsDecided, TrialsAreCounted
<1>5. ReliablesAreOpenToAll'
  <2> SUFFICES ASSUME left = 0 PROVE ReliablesAreOpenToAll'
    BY <1>1 DEF ReliablesAreOpenToAll
  <2>1. req[q].at \notin Reliable
    BY <1>1 DEF IInv, ReliablesAreOpenToAll, Admits
  <2>2. \A p \in Reliable : p \in 1..N /\ req[q].at < p
    BY <1>1, <2>1, ReliableProviders DEF IInv, ReliablesAreOpenToAll, Providers
  <2>3. \A p \in Reliable : req'[q].pc # "idle" /\ req'[q].at <= p
                            /\ req'[q].out = req[q].out
    BY <1>1, <1>2, <2>2
  <2> QED BY <1>1, <1>2, <2>3 DEF IInv, ReliablesAreOpenToAll
<1> QED BY <1>3, <1>4, <1>5 DEF IInv

\* A record ends the half-open state of its breaker, and disturbs no other.
LEMMA RecordKeeps ==
  ASSUME IInv, NEW q \in Requests, NEW b \in Breakers, b.state # "half-open",
         req[q].pc = "call",
         breaker' = [breaker EXCEPT ![req[q].at] = b],
         trial' = [trial EXCEPT ![req[q].at] = {}],
         \A r \in Requests : r # q => req'[r] = req[r]
  PROVE  /\ breaker' \in [Providers -> Breakers]
         /\ trial' \in [Providers -> SUBSET Requests]
         /\ HalfOpenIsDecided' /\ TrialsAreCounted'
<1> DEFINE p == req[q].at
<1>1. /\ p \in Providers /\ breaker \in [Providers -> Breakers]
      /\ trial \in [Providers -> SUBSET Requests]
  BY DEF IInv, TypeOK, RequestState
<1>2. /\ breaker' \in [Providers -> Breakers] /\ trial' \in [Providers -> SUBSET Requests]
      /\ breaker'[p] = b /\ trial'[p] = {}
      /\ \A i \in Providers : i # p => breaker'[i] = breaker[i] /\ trial'[i] = trial[i]
  BY <1>1
<1>3. TrialsAreCounted'
  BY <1>2 DEF IInv, TrialsAreCounted
<1>4. HalfOpenIsDecided'
  <2> SUFFICES ASSUME NEW i \in Providers, breaker'[i].state = "half-open"
               PROVE  Calls(i)' # {}
    BY DEF HalfOpenIsDecided
  <2>1. i # p
    BY <1>2
  <2>2. Calls(i) # {}
    BY <1>2, <2>1 DEF IInv, HalfOpenIsDecided
  <2>3. PICK r \in Requests : req[r].pc = "call" /\ req[r].at = i
    BY <2>2 DEF Calls
  <2>4. r # q
    BY <2>1, <2>3
  <2> QED BY <2>3, <2>4 DEF Calls
<1> QED BY <1>2, <1>3, <1>4

\* A call succeeds.
LEMMA SucceedKeeps ==
  ASSUME IInv, NEW q \in Requests, Succeed(q)
  PROVE  IInv'
<1> USE ChainAssumption, BreakerAssumption
<1> DEFINE p == req[q].at
<1>1. /\ p \in Providers /\ breaker \in [Providers -> Breakers]
      /\ breaker[p] \in Breakers /\ req \in [Requests -> RequestState]
  BY DEF IInv, TypeOK, RequestState
<1>2. /\ req[q].pc = "call"
      /\ breaker' = [breaker EXCEPT ![p] = AfterSuccess(breaker[p])]
      /\ req' = [req EXCEPT ![q] = [req[q] EXCEPT !.pc = "idle", !.out = "ok"]]
      /\ gone' = gone \ {q}
      /\ trial' = [trial EXCEPT ![p] = {}]
      /\ UNCHANGED <<ailing, left>>
  BY DEF Succeed
<1>3. /\ req' \in [Requests -> RequestState]
      /\ req'[q].pc = "idle" /\ req'[q].out = "ok"
      /\ \A r \in Requests : r # q => req'[r] = req[r]
  BY <1>1, <1>2 DEF RequestState
<1>4. /\ AfterSuccess(breaker[p]) \in Breakers
      /\ AfterSuccess(breaker[p]).state # "half-open"
      /\ breaker[p].state = "closed" => AfterSuccess(breaker[p]).state = "closed"
  BY <1>1, RecordFacts
<1>5. /\ breaker' \in [Providers -> Breakers]
      /\ trial' \in [Providers -> SUBSET Requests]
      /\ HalfOpenIsDecided' /\ TrialsAreCounted'
  BY <1>2, <1>3, <1>4, RecordKeeps
<1>6. TypeOK'
  BY <1>2, <1>3, <1>5 DEF IInv, TypeOK
<1>7. ReliablesAreOpenToAll'
  BY <1>1, <1>2, <1>3, <1>4, ReliableProviders DEF IInv, ReliablesAreOpenToAll
<1> QED BY <1>5, <1>6, <1>7 DEF IInv

\* A call fails: without a caller gone it was not to a reliable provider.
LEMMA FailKeeps ==
  ASSUME IInv, NEW q \in Requests, Fail(q)
  PROVE  IInv'
<1> USE ChainAssumption, BreakerAssumption
<1> DEFINE p == req[q].at
<1>1. /\ p \in 1..N /\ breaker \in [Providers -> Breakers]
      /\ breaker[p] \in Breakers /\ req \in [Requests -> RequestState]
      /\ ailing \subseteq Flaky /\ TypeOK
  BY DEF IInv, TypeOK, RequestState, Providers
<1>2. /\ req[q].pc = "call" /\ MayFail(q) /\ MovesOn(q)
      /\ breaker' = [breaker EXCEPT ![p] = AfterFailure(breaker[p])]
      /\ trial' = [trial EXCEPT ![p] = {}]
      /\ UNCHANGED <<ailing, left>>
  BY DEF Fail
<1>3. /\ req' \in [Requests -> RequestState]
      /\ \A r \in Requests : r # q => req'[r] = req[r]
      /\ req'[q].pc \in {"try", "idle"}
      /\ req'[q].pc = "try" =>
           p < N /\ req'[q].at = p + 1 /\ req'[q].out = req[q].out
      /\ req'[q].pc = "idle" => p = N
      /\ gone' \subseteq gone
  BY <1>1, <1>2, MovesOnFacts
<1>4. /\ AfterFailure(breaker[p]) \in Breakers
      /\ AfterFailure(breaker[p]).state # "half-open"
  BY <1>1, RecordFacts
<1>5. /\ breaker' \in [Providers -> Breakers]
      /\ trial' \in [Providers -> SUBSET Requests]
      /\ HalfOpenIsDecided' /\ TrialsAreCounted'
  BY <1>2, <1>3, <1>4, RecordKeeps
<1>6. TypeOK'
  BY <1>1, <1>2, <1>3, <1>5 DEF TypeOK
<1>7. ReliablesAreOpenToAll'
  <2> SUFFICES ASSUME left = 0 PROVE ReliablesAreOpenToAll'
    BY <1>2 DEF ReliablesAreOpenToAll
  <2>1. p \notin Reliable
    BY <1>1, <1>2 DEF IInv, ReliablesAreOpenToAll, MayFail, Unfit, Reliable
  <2>2. \A i \in Reliable : i \in 1..N /\ p < i
    BY <1>1, <1>2, <2>1, ReliableProviders DEF IInv, ReliablesAreOpenToAll, Providers
  <2>3. \A i \in Reliable : /\ req'[q].pc # "idle" /\ req'[q].at <= i
                            /\ req'[q].out = req[q].out
                            /\ breaker'[i] = breaker[i]
    BY <1>1, <1>2, <1>3, <2>2 DEF Providers
  <2> QED BY <1>2, <1>3, <2>3 DEF IInv, ReliablesAreOpenToAll
<1> QED BY <1>5, <1>6, <1>7 DEF IInv

-----------------------------------------------------------------------------
(* Theorems. *)

\* The invariant holds in every reachable state.
THEOREM ChainInvariant == Spec => []IInv
<1>1. Init => IInv
  BY InitIInv
<1>2. IInv /\ [Next]_vars => IInv'
  <2> SUFFICES ASSUME IInv, [Next]_vars PROVE IInv'
    OBVIOUS
  <2>1. CASE \E q \in Requests :
               Leave(q) \/ \E op \in {"llm", "embed"} : Ask(q, op)
    BY <2>1, EnvironmentKeeps
  <2>2. CASE \E p \in Providers : Falter(p) \/ Cool(p)
    BY <2>2, EnvironmentKeeps
  <2>3. CASE \E q \in Requests : Admit(q) \/ Reject(q) \/ Returns(q)
    BY <2>3, AdmitKeeps, RejectKeeps, SucceedKeeps, FailKeeps DEF Returns
  <2>4. CASE UNCHANGED vars
    BY <2>4 DEF vars, IInv, TypeOK, HalfOpenIsDecided, TrialsAreCounted, Calls,
                ReliablesAreOpenToAll
  <2> QED BY <2>1, <2>2, <2>3, <2>4 DEF Next
<1> QED BY <1>1, <1>2, PTL DEF Spec

\* Breakers and requests keep their types; permits never run below zero.
THEOREM ChainTypes == Spec => []TypeOK
<1>1. IInv => TypeOK
  BY DEF IInv
<1> QED BY <1>1, ChainInvariant, PTL

\* A half-open circuit always has a call under way that will decide it.
THEOREM HalfOpenEnds == Spec => []HalfOpenIsDecided
<1>1. IInv => HalfOpenIsDecided
  BY DEF IInv
<1> QED BY <1>1, ChainInvariant, PTL

\* What is left of HalfOpenIsLimited: a half-open circuit lets in its permits and
\* the probe that took none, and no more.
TrialsAreBounded == \A p \in Providers : Cardinality(trial[p]) <= HalfOpenMaxRequests + 1

THEOREM TrialsStayBounded == Spec => []TrialsAreBounded
<1>1. IInv => TrialsAreBounded
  <2> SUFFICES ASSUME IInv, NEW p \in Providers
               PROVE  Cardinality(trial[p]) <= HalfOpenMaxRequests + 1
    BY DEF TrialsAreBounded
  <2>1. /\ IsFiniteSet(trial[p])
        /\ breaker[p].permits \in 0..HalfOpenMaxRequests
    BY FS_Subset, ChainAssumption DEF IInv, TypeOK, Breakers
  <2>2. Cardinality(trial[p]) \in Nat /\ Cardinality({}) = 0
    BY <2>1, FS_CardinalityType, FS_EmptySet
  <2> QED BY <2>1, <2>2, BreakerAssumption DEF IInv, TrialsAreCounted
<1> QED BY <1>1, ChainInvariant, PTL

\* One reliable provider anywhere in the chain answers every request.
THEOREM ReliableProviderSuffices == Spec => []OneReliableIsEnough
<1>1. IInv => OneReliableIsEnough
  BY DEF IInv, ReliablesAreOpenToAll, OneReliableIsEnough
<1> QED BY <1>1, ChainInvariant, PTL
=============================================================================
