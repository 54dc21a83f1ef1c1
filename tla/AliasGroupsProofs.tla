--------------------------- MODULE AliasGroupsProofs ---------------------------
(* Proofs about the alias job, for any ids, keys, limits and bounds.          *)
EXTENDS AliasGroups, FiniteSetTheorems, TLAPS

USE AliasAssumption DEF IDSets, None

-----------------------------------------------------------------------------
(* The graph *)

\* Two components that meet are one.
LEMMA ComponentsMeet ==
  ASSUME NEW g, NEW a \in IDSets, NEW b \in IDSets,
         IsComponent(g, a), IsComponent(g, b), a \cap b # {}
  PROVE  a = b
  <1>1. a \subseteq b /\ b \subseteq a
    BY DEF IsComponent
  <1> QED
    BY <1>1

\* A component that is a group has an id with aliases: one without is closed.
LEMMA GroupsHaveAliases ==
  ASSUME NEW g \in [IDs -> IDSets], NEW vs \in IDSets,
         IsComponent(g, vs), IsGroup(vs)
  PROVE  \E v \in vs : g[v] # {}
  <1> SUFFICES ASSUME \A v \in vs : g[v] = {}
               PROVE  FALSE
    OBVIOUS
  <1>1. PICK v \in vs : TRUE
    BY DEF IsComponent
  <1>2. Closed(g, {v})
    BY DEF Closed
  <1>3. vs = {v}
    BY <1>2 DEF IsComponent
  <1>4. Cardinality(vs) = 1
    BY <1>3, FS_Singleton
  <1> QED
    BY <1>4 DEF IsGroup

\* Adding an alias to the raw aliases adds it both ways.
LEMMA GraphIsSymmetric ==
  ASSUME NEW v \in IDs, NEW x \in IDs
  PROVE  x \in Graph[v] <=> v \in Graph[x]
  BY DEF Graph

LEMMA GraphType == Graph \in [IDs -> IDSets]
  BY DEF Graph

-----------------------------------------------------------------------------
(* The walk of computeAliases *)

\* Once nothing is left to visit, what was found is a component, and what was
\* visited is closed again.
LEMMA WalkEnds ==
  ASSUME TypeOK, WalkIsPart, pc = "walk", walk.toVisit = {}
  PROVE  /\ walk.found \in IDSets /\ IsComponent(aliases, walk.found)
         /\ Closed(aliases, visited)
         /\ walk.found \cap Before = {} /\ visited = Before \cup walk.found
  <1>1. Met = walk.found /\ walk.found # {}
    BY DEF Met, WalkIsPart
  <1>2. walk.found \in IDSets
    BY DEF TypeOK
  <1>3. visited = Before \cup walk.found /\ walk.found \cap Before = {}
    BY DEF WalkIsPart, Before
  <1>4. Closed(aliases, walk.found)
    BY <1>1 DEF WalkIsPart, Closed
  <1>5. Closed(aliases, visited)
    BY <1>3, <1>4 DEF WalkIsPart, Closed
  <1>6. IsComponent(aliases, walk.found)
    BY <1>1, <1>4 DEF WalkIsPart, IsComponent
  <1> QED
    BY <1>2, <1>3, <1>5, <1>6

LEMMA NoWalkIsPart ==
  ASSUME walk' = NoWalk, pc' # "walk", Closed(aliases', visited')
  PROVE  WalkIsPart'
  BY DEF WalkIsPart, NoWalk, Before, Met

\* A visit leaves alone what was visited before the walk, and stays connected.
LEMMA VisitWalks ==
  ASSUME TypeOK, Symmetric, WalkIsPart, NEW v \in IDs, Visit(v)
  PROVE  WalkIsPart' /\ Before' = Before
  <1> USE DEF Visit
  <1>0. walk \in [for : {None} \cup {{k} : k \in Keys}, found : IDSets, toVisit : IDSets]
    BY DEF TypeOK
  <1>1. v \notin Before
    BY DEF WalkIsPart, Met
  <1>2. CASE v \in visited
    <2>1. v \in walk.found
      BY <1>1, <1>2 DEF Before
    <2>2. visited' = visited /\ walk'.found = walk.found /\ walk'.for = walk.for
          /\ walk'.toVisit = walk.toVisit \ {v}
      BY <1>0, <1>2
    <2>3. Met' = Met /\ Before' = Before
      BY <2>1, <2>2 DEF Met, Before
    <2> QED
      BY <2>2, <2>3 DEF WalkIsPart
  <1>3. CASE v \notin visited
    <2>1. visited' = visited \cup {v} /\ walk'.found = walk.found \cup {v}
          /\ walk'.toVisit = (walk.toVisit \ {v}) \cup aliases[v]
      BY <1>0, <1>3
    <2>2. Met' = Met \cup aliases[v] /\ Before' = Before
      BY <1>3, <2>1 DEF Met, Before
    <2>3. Before \cap aliases[v] = {}
      <3> SUFFICES ASSUME NEW x \in Before, x \in aliases[v] PROVE FALSE
        OBVIOUS
      <3>1. x \in IDs
        BY DEF Before, TypeOK
      <3>2. v \in aliases[x]
        BY <3>1 DEF Symmetric
      <3> QED
        BY <1>1, <3>2 DEF WalkIsPart, Closed
    <2>4. ASSUME NEW S \in IDSets, Closed(aliases, S), S \cap Met' # {}
          PROVE  Met' \subseteq S
      <3>1. S \cap Met # {}
        <4>1. CASE S \cap Met # {}
          BY <4>1
        <4>2. CASE \E x \in S : x \in aliases[v]
          <5>1. PICK x \in S : x \in aliases[v]
            BY <4>2
          <5>2. v \in aliases[x]
            BY <5>1 DEF Symmetric
          <5> QED
            BY <2>4, <5>2 DEF Closed, Met
        <4> QED
          BY <2>2, <2>4, <4>1, <4>2
      <3>2. Met \subseteq S /\ v \in S
        BY <2>4, <3>1 DEF WalkIsPart, Met
      <3> QED
        BY <2>2, <2>4, <3>2 DEF Closed
    <2>5. \A x \in walk'.found : aliases'[x] \subseteq Met'
      BY <2>1, <2>2 DEF WalkIsPart
    <2>6. v \in Met
      BY DEF Met
    <2> QED
      BY <2>1, <2>2, <2>3, <2>4, <2>5, <2>6 DEF WalkIsPart
  <1> QED
    BY <1>2, <1>3

-----------------------------------------------------------------------------
(* Type correctness *)

LEMMA ChangedType ==
  ASSUME TypeOK, NEW vs \in IDSets, NEW group \in GroupSets,
         changed' = Changed(vs, group)
  PROVE  /\ DOMAIN changed' \subseteq IDs
         /\ \A v \in DOMAIN changed' : changed'[v] \in GroupSets
  BY DEF Changed, TypeOK

LEMMA FirstIsMember ==
  ASSUME TypeOK, Phases, NEW k \in todo
  PROVE  First[groups[k]] \in groups[k] /\ First[groups[k]] \in IDs
  BY DEF TypeOK, Phases, GroupSets

RetryStates == [id : IDs, aliases : IDSets, late : BOOLEAN]

LEMMA LateType ==
  ASSUME TypeOK, NEW v \in IDs, NEW rs \in SUBSET retries
  PROVE  /\ LateWork(v) \in [Workers -> WorkStates]
         /\ LateRetries(rs, v) \subseteq RetryStates
  <1>1. ASSUME NEW w \in Workers
        PROVE  [work[w] EXCEPT !.late = @ \/ v \in work[w].of] \in WorkStates
    <2>1. work[w] \in WorkStates
      BY DEF TypeOK
    <2>2. (work[w].late \/ v \in work[w].of) \in BOOLEAN
      OBVIOUS
    <2> QED
      BY <2>1, <2>2 DEF WorkStates
  <1>2. ASSUME NEW r \in rs
        PROVE  [r EXCEPT !.late = @ \/ r.id = v] \in RetryStates
    <2>1. r \in RetryStates
      BY DEF TypeOK, RetryStates
    <2>2. (r.late \/ r.id = v) \in BOOLEAN
      OBVIOUS
    <2> QED
      BY <2>1, <2>2 DEF RetryStates
  <1> QED
    BY <1>1, <1>2 DEF LateWork, LateRetries

LEMMA IdleType == Idle \in WorkStates /\ NoPatch \in [of : Singles, fresh : BOOLEAN]
  BY DEF Idle, NoPatch, WorkStates, Singles

LEMMA PutType ==
  ASSUME TypeOK, NEW v \in IDs, NEW vs \in IDSets, NEW late \in BOOLEAN, Put(v, vs, late)
  PROVE  /\ public' \in IDSets /\ shown' \in [IDs -> IDSets] /\ lost' \in IDSets
         /\ patch' \in [of : Singles, fresh : BOOLEAN]
  <1>1. (patch.fresh /\ v \notin patch.of) \in BOOLEAN /\ patch \in [of : Singles, fresh : BOOLEAN]
    BY DEF TypeOK
  <1> QED
    BY <1>1 DEF Put, TypeOK

\* What the worker of w does, and the recoverer, in terms of types.
LEMMA OutsideType ==
  ASSUME TypeOK, UNCHANGED <<groups, pc, aliases, todo, visited, walk, changed, crashes>>,
         rec' \in [IDs -> [known : BOOLEAN, raw : IDSets, withdrawn : BOOLEAN]],
         public' \in IDSets, shown' \in [IDs -> IDSets], lost' \in IDSets,
         patch' \in [of : Singles, fresh : BOOLEAN],
         work' \in [Workers -> WorkStates], retries' \subseteq RetryStates,
         imports' \in 0..MaxImports, faults' \in 0..MaxFaults
  PROVE  TypeOK'
  BY DEF TypeOK, RetryStates

LEMMA AliasesType ==
  ASSUME TypeOK, NEW v \in IDs, NEW raw \in IDSets
  PROVE  AliasesOf(v, raw) \in IDSets
  <1>1. \A k \in GroupsOf(v) : groups[k] \ {v} \in IDSets
    BY DEF TypeOK, GroupsOf, GroupSets
  <1> QED
    BY <1>1 DEF AliasesOf

LEMMA WorkerType ==
  ASSUME TypeOK, NEW w \in Workers, Worker(w)
  PROVE  TypeOK'
  <1> USE DEF store, bucket, run
  <1>t. /\ work[w] \in WorkStates /\ work \in [Workers -> WorkStates]
        /\ rec \in [IDs -> [known : BOOLEAN, raw : IDSets, withdrawn : BOOLEAN]]
        /\ public \in IDSets /\ shown \in [IDs -> IDSets] /\ lost \in IDSets
        /\ patch \in [of : Singles, fresh : BOOLEAN] /\ retries \subseteq RetryStates
        /\ imports \in 0..MaxImports /\ faults \in 0..MaxFaults
    BY DEF TypeOK, RetryStates
  <1>1. ASSUME NEW v \in IDs, NEW c \in Contents[v], Begin(w, v, c)
        PROVE  TypeOK'
    <2>1. c \in [raw : IDSets, withdrawn : BOOLEAN]
      OBVIOUS
    <2>2. AliasesOf(v, c.raw) \in IDSets
      BY <2>1, AliasesType
    <2>3. [pc |-> "commit", kind |-> "update", of |-> {v}, raw |-> c.raw, withdrawn |-> c.withdrawn,
           shows |-> AliasesOf(v, c.raw), late |-> FALSE] \in WorkStates
      BY <2>1, <2>2 DEF WorkStates, Singles
    <2>4. work' \in [Workers -> WorkStates] /\ imports' \in 0..MaxImports
      BY <1>1, <1>t, <2>3 DEF Begin
    <2> QED
      BY <1>1, <1>t, <2>4, OutsideType DEF Begin
  <1>2. ASSUME NEW v \in IDs, BeginDelete(w, v)
        PROVE  TypeOK'
    <2>1. (v \in lost) \in BOOLEAN /\ shown[v] \in IDSets
      BY <1>t
    <2>2. [pc |-> "commit", kind |-> "delete", of |-> {v}, raw |-> {}, withdrawn |-> TRUE,
           shows |-> shown[v], late |-> v \in lost] \in WorkStates
      BY <2>1 DEF WorkStates, Singles
    <2>3. work' \in [Workers -> WorkStates] /\ imports' \in 0..MaxImports
      BY <1>2, <1>t, <2>2 DEF BeginDelete
    <2> QED
      BY <1>2, <1>t, <2>3, OutsideType DEF BeginDelete
  <1>3. ASSUME NEW v \in IDs, Commit(w, v)
        PROVE  TypeOK'
    <2>1. rec' \in [IDs -> [known : BOOLEAN, raw : IDSets, withdrawn : BOOLEAN]]
      BY <1>3, <1>t DEF Commit, WorkStates
    <2>2. [work[w] EXCEPT !.pc = "upload"] \in WorkStates
      BY <1>t DEF WorkStates
    <2>3. work' \in [Workers -> WorkStates] /\ retries' \subseteq RetryStates
      BY <1>3, <2>2, LateType DEF Commit
    <2> QED
      BY <1>3, <1>t, <2>1, <2>3, OutsideType DEF Commit, counts
  <1>4. ASSUME NEW v \in IDs, Upload(w, v)
        PROVE  TypeOK'
    <2>1. work[w].shows \in IDSets /\ work[w].late \in BOOLEAN
      BY <1>t DEF WorkStates
    <2>2. work' \in [Workers -> WorkStates] /\ retries' \subseteq RetryStates
      BY <1>4, IdleType, LateType DEF Upload
    <2>3. /\ Put(v, work[w].shows, work[w].late)
          /\ UNCHANGED <<rec, groups, pc, aliases, todo, visited, walk, changed, imports, crashes, faults>>
      BY <1>4 DEF Upload, counts
    <2>4. /\ public' \in IDSets /\ shown' \in [IDs -> IDSets] /\ lost' \in IDSets
          /\ patch' \in [of : Singles, fresh : BOOLEAN]
      BY <2>1, <2>3, PutType
    <2> QED
      BY <1>t, <2>2, <2>3, <2>4, OutsideType
  <1>5. ASSUME NEW v \in IDs, UploadFails(w, v)
        PROVE  TypeOK'
    <2>1. Retry(v, work[w].shows, work[w].late) \in RetryStates
      BY <1>t DEF Retry, RetryStates, WorkStates
    <2>2. work' \in [Workers -> WorkStates] /\ faults' \in 0..MaxFaults
      BY <1>5, <1>t, IdleType DEF UploadFails, Fault
    <2> QED
      BY <1>5, <1>t, <2>1, <2>2, OutsideType DEF UploadFails
  <1>6. CASE WorkerFails(w)
    <2>1. work' \in [Workers -> WorkStates] /\ faults' \in 0..MaxFaults
      BY <1>6, <1>t, IdleType DEF WorkerFails, Fault
    <2>2. lost' \in IDSets
      BY <1>6, <1>t DEF WorkerFails, WorkStates, Singles
    <2> QED
      BY <1>6, <1>t, <2>1, <2>2, OutsideType DEF WorkerFails
  <1> QED
    BY <1>1, <1>2, <1>3, <1>4, <1>5, <1>6 DEF Worker

LEMMA RecovererType ==
  ASSUME TypeOK, NEW r \in retries, RetryUpload(r) \/ RetrySuperseded(r)
  PROVE  TypeOK'
  <1> USE DEF store, bucket, run, counts
  <1>1. r.id \in IDs /\ r.aliases \in IDSets /\ r.late \in BOOLEAN /\ retries \subseteq RetryStates
    BY DEF TypeOK, RetryStates
  <1>2. CASE RetryUpload(r)
    <2>1. work' \in [Workers -> WorkStates] /\ retries' \subseteq RetryStates
      BY <1>1, <1>2, LateType DEF RetryUpload
    <2>2. /\ public' \in IDSets /\ shown' \in [IDs -> IDSets] /\ lost' \in IDSets
          /\ patch' \in [of : Singles, fresh : BOOLEAN]
      <3>1. Put(r.id, r.aliases, r.late)
        BY <1>2 DEF RetryUpload
      <3> QED
        BY <1>1, <3>1, PutType
    <2>3. /\ rec' \in [IDs -> [known : BOOLEAN, raw : IDSets, withdrawn : BOOLEAN]]
          /\ imports' \in 0..MaxImports /\ faults' \in 0..MaxFaults
          /\ UNCHANGED <<groups, pc, aliases, todo, visited, walk, changed, crashes>>
      BY <1>2 DEF RetryUpload, TypeOK
    <2> QED
      BY <2>1, <2>2, <2>3, OutsideType
  <1>3. CASE RetrySuperseded(r)
    BY <1>3 DEF RetrySuperseded, TypeOK
  <1> QED
    BY <1>2, <1>3

LEMMA PatchType ==
  ASSUME TypeOK, PatchIsSent, NEW v \in IDs, Patch(v)
  PROVE  TypeOK'
  <1> USE DEF store, program, bucket, counts
  <1>t. /\ retries \subseteq RetryStates /\ public \in IDSets /\ shown \in [IDs -> IDSets]
        /\ lost \in IDSets /\ faults \in 0..MaxFaults
    BY DEF TypeOK, RetryStates
  <1>1. CASE PatchRead(v)
    <2>1. [of |-> {v}, fresh |-> TRUE] \in [of : Singles, fresh : BOOLEAN]
      BY DEF Singles
    <2> QED
      BY <1>1, <2>1 DEF PatchRead, TypeOK
  <1>2. CASE ~PatchRead(v)
    <2>0. Through(v)
      BY <1>2 DEF Patch, PatchSkip, PatchWrite, PatchMismatch, PatchFails
    <2>1. /\ work' \in [Workers -> WorkStates] /\ patch' \in [of : Singles, fresh : BOOLEAN]
      BY <2>0, IdleType, LateType DEF Through
    <2>2. DOMAIN changed' \subseteq IDs /\ \A x \in DOMAIN changed' : changed'[x] \in GroupSets
      BY <2>0 DEF Through, TypeOK
    <2>3. PatchMismatch(v) \/ PatchWrite(v) => NewAliases(v) \in IDSets
      BY DEF PatchMismatch, PatchWrite, PatchIsSent, NewAliases, TypeOK, GroupSets
    <2>4. shown' \in [IDs -> IDSets] /\ lost' \in IDSets /\ faults' \in 0..MaxFaults
      <3>1. CASE PatchSkip(v)
        BY <1>t, <3>1 DEF PatchSkip
      <3>2. CASE PatchWrite(v)
        BY <1>t, <2>3, <3>2 DEF PatchWrite
      <3>3. CASE PatchMismatch(v)
        BY <1>t, <3>3 DEF PatchMismatch, Fault
      <3>4. CASE PatchFails(v)
        BY <1>t, <3>4 DEF PatchFails, Fault
      <3> QED
        BY <1>2, <3>1, <3>2, <3>3, <3>4 DEF Patch
    <2>5. retries' \subseteq RetryStates
      <3>1. LateRetries(retries, v) \subseteq RetryStates
        BY LateType
      <3>2. PatchMismatch(v) => Retry(v, NewAliases(v), FALSE) \in RetryStates
        BY <2>3 DEF Retry, RetryStates
      <3> QED
        BY <1>2, <3>1, <3>2 DEF Patch, PatchSkip, PatchWrite, PatchMismatch, PatchFails
    <2>7. UNCHANGED <<rec, public, groups, pc, aliases, todo, visited, walk, imports, crashes>>
      BY <1>2 DEF Patch, PatchSkip, PatchWrite, PatchMismatch, PatchFails
    <2> QED
      BY <2>1, <2>2, <2>4, <2>5, <2>7 DEF TypeOK, RetryStates
  <1> QED
    BY <1>1, <1>2

LEMMA TypeStep ==
  ASSUME TypeOK, Phases, PatchIsSent, Next
  PROVE  TypeOK'
  <1> USE DEF store, bucket, program, run, counts
  <1>g. None \in GroupSets
    BY DEF GroupSets
  <1>w. NoWalk \in [for : {None} \cup {{k} : k \in Keys}, found : IDSets, toVisit : IDSets]
    BY DEF NoWalk
  <1>1. CASE (\E w \in Workers : Worker(w)) \/ (\E r \in retries : RetryUpload(r) \/ RetrySuperseded(r))
    BY <1>1, WorkerType, RecovererType
  <1>2. CASE Start
    BY <1>2, <1>w, GraphType DEF Start, TypeOK, NoChange
  <1>3. ASSUME NEW k \in Keys, Absorb(k)
        PROVE  TypeOK'
    <2>1. Orphans(k) \in IDSets
      BY DEF Orphans, TypeOK, GroupSets
    <2>2. DOMAIN changed' \subseteq IDs /\ \A v \in DOMAIN changed' : changed'[v] \in GroupSets
      BY <1>3, <1>g, <2>1, ChangedType DEF Absorb
    <2> QED
      BY <1>3, <1>g, <2>2 DEF Absorb, TypeOK
  <1>4. ASSUME NEW k \in Keys, Recompute(k)
        PROVE  TypeOK'
    <2>1. First[groups[k]] \in IDs
      BY <1>4, FirstIsMember DEF Recompute, TypeOK
    <2>2. walk' \in [for : {None} \cup {{j} : j \in Keys}, found : IDSets, toVisit : IDSets]
      BY <1>4, <2>1 DEF Recompute, Walk
    <2> QED
      BY <1>4, <2>2 DEF Recompute, Walk, TypeOK
  <1>5. ASSUME NEW k \in Keys, Update(k)
        PROVE  TypeOK'
    <2>1. walk.found \in IDSets
      BY DEF TypeOK
    <2>2. IsGroup(walk.found) => walk.found \in GroupSets
      BY <2>1 DEF GroupSets
    <2>3. groups' \in [Keys -> GroupSets]
      <3>1. groups \in [Keys -> GroupSets]
        BY DEF TypeOK
      <3>2. groups' = groups \/ groups' = [groups EXCEPT ![k] = None]
            \/ (groups' = [groups EXCEPT ![k] = walk.found] /\ walk.found \in GroupSets)
        BY <1>5, <2>2 DEF Update
      <3> HIDE DEF IDSets
      <3> QED
        BY <1>g, <3>1, <3>2
    <2>4. DOMAIN changed' \subseteq IDs /\ \A v \in DOMAIN changed' : changed'[v] \in GroupSets
      <3>1. CASE changed' = changed
        BY <3>1 DEF TypeOK
      <3>2. CASE changed' = Changed(walk.found, None)
        BY <3>2, <1>g, <2>1, ChangedType
      <3>3. CASE IsGroup(walk.found) /\ changed' = Changed(walk.found, walk.found)
        BY <3>3, <2>1, <2>2, ChangedType
      <3> QED
        BY <1>5, <3>1, <3>2, <3>3 DEF Update
    <2> QED
      BY <1>5, <1>w, <2>3, <2>4 DEF Update, TypeOK
  <1>6. ASSUME NEW v \in IDs, Visit(v)
        PROVE  TypeOK'
    <2>1. /\ walk \in [for : {None} \cup {{k} : k \in Keys}, found : IDSets, toVisit : IDSets]
          /\ aliases[v] \in IDSets /\ visited \in IDSets
      BY DEF TypeOK
    <2>2. /\ walk' \in [for : {None} \cup {{k} : k \in Keys}, found : IDSets, toVisit : IDSets]
          /\ visited' \in IDSets
      <3>1. CASE v \in visited
        BY <1>6, <2>1, <3>1 DEF Visit
      <3>2. CASE v \notin visited
        <4>1. /\ walk.found \cup {v} \in IDSets
              /\ (walk.toVisit \ {v}) \cup aliases[v] \in IDSets
          BY <2>1
        <4> QED
          BY <1>6, <2>1, <3>2, <4>1 DEF Visit
      <3> QED
        BY <3>1, <3>2
    <2> QED
      BY <1>6, <2>2 DEF Visit, TypeOK
  <1>7. ASSUME NEW v \in IDs, Unreached(v)
        PROVE  TypeOK'
    BY <1>7 DEF Unreached, Walk, TypeOK
  <1>8. ASSUME NEW v \in IDs, Patch(v)
        PROVE  TypeOK'
    BY <1>8, PatchType
  <1>9. CASE GroupsDone
    BY <1>9 DEF GroupsDone, TypeOK
  <1>10. CASE Create
    <2>1. walk.found \in IDSets
      BY DEF TypeOK
    <2>2. IsGroup(walk.found) => walk.found \in GroupSets
      BY <2>1 DEF GroupSets
    <2>3. groups' \in [Keys -> GroupSets]
      BY <1>10, <2>2 DEF Create, TypeOK
    <2>4. DOMAIN changed' \subseteq IDs /\ \A v \in DOMAIN changed' : changed'[v] \in GroupSets
      <3>1. CASE changed' = changed
        BY <3>1 DEF TypeOK
      <3>2. CASE IsGroup(walk.found) /\ changed' = Changed(walk.found, walk.found)
        BY <3>2, <2>1, <2>2, ChangedType
      <3> QED
        BY <1>10, <3>1, <3>2 DEF Create
    <2> QED
      BY <1>10, <1>w, <2>3, <2>4 DEF Create, TypeOK
  <1>11. CASE AllReached
    BY <1>11 DEF AllReached, TypeOK
  <1>12. CASE AllSent
    BY <1>12, <1>w, IdleType DEF AllSent, Ends, TypeOK, NoChange
  <1>13. CASE Crash
    BY <1>13, <1>w, IdleType DEF Crash, Ends, TypeOK, NoChange
  <1> QED
    BY <1>1, <1>2, <1>3, <1>4, <1>5, <1>6, <1>7, <1>8, <1>9, <1>10, <1>11, <1>12, <1>13
       DEF Next

LEMMA SymmetricStep ==
  ASSUME Symmetric, Next
  PROVE  Symmetric'
  <1>1. CASE aliases' = aliases
    BY <1>1 DEF Symmetric
  <1>2. CASE aliases' = Graph
    BY <1>2, GraphIsSymmetric DEF Symmetric
  <1>3. CASE aliases' = [v \in IDs |-> {}]
    BY <1>3 DEF Symmetric
  <1>4. ASSUME NEW w \in Workers, Worker(w) PROVE aliases' = aliases
    BY <1>4 DEF Worker, Begin, BeginDelete, Commit, Upload, UploadFails, WorkerFails, run
  <1>5. ASSUME NEW r \in retries, RetryUpload(r) \/ RetrySuperseded(r) PROVE aliases' = aliases
    BY <1>5 DEF RetryUpload, RetrySuperseded, run
  <1>6. ASSUME NEW k \in Keys, Absorb(k) \/ Recompute(k) \/ Update(k) PROVE aliases' = aliases
    BY <1>6 DEF Absorb, Recompute, Update
  <1>7. ASSUME NEW v \in IDs, Visit(v) \/ Unreached(v) \/ Patch(v) PROVE aliases' = aliases
    BY <1>7 DEF Visit, Unreached, Patch, PatchRead, PatchSkip, PatchWrite, PatchMismatch, PatchFails
  <1>8. CASE GroupsDone \/ Create \/ AllReached
    BY <1>1, <1>8 DEF GroupsDone, Create, AllReached
  <1>9. CASE Start \/ AllSent \/ Crash
    BY <1>2, <1>3, <1>9 DEF Start, AllSent, Crash, Ends
  <1> QED
    BY <1>1, <1>4, <1>5, <1>6, <1>7, <1>8, <1>9 DEF Next

-----------------------------------------------------------------------------
(* One lemma per action: the parts of the invariant beside the types *)

Rest == WalkIsPart /\ Phases /\ TreatedAreComponents /\ PatchIsSent /\ MembersKnow

LEMMA WalkFrame ==
  ASSUME WalkIsPart, UNCHANGED <<aliases, visited, walk>>,
         pc' = "walk" <=> pc = "walk"
  PROVE  WalkIsPart'
  BY DEF WalkIsPart, Before, Met

LEMMA TreatedFrame ==
  ASSUME TreatedAreComponents, UNCHANGED <<groups, aliases, todo, visited, walk>>,
         pc # "idle"
  PROVE  TreatedAreComponents'
  BY DEF TreatedAreComponents, Treated, Untreated, Before

LEMMA MembersFrame ==
  ASSUME MembersKnow, pc' # "idle",
         UNCHANGED <<public, shown, lost, work, retries, groups, todo, visited, walk, changed, crashes>>
  PROVE  MembersKnow'
  BY DEF MembersKnow, Treated, Untreated, Before, Shows

\* Out of the send phase the Updater has read nothing.
LEMMA PatchFrame ==
  ASSUME PatchIsSent, patch' = patch, pc # "send" \/ (changed' = changed /\ pc' = pc)
  PROVE  PatchIsSent'
  BY DEF PatchIsSent, NoPatch

-----------------------------------------------------------------------------
(* The worker and the recoverer *)

\* To write, or find nothing to write, makes no id wrong that was not written.
LEMMA LateShows ==
  ASSUME TypeOK, NEW v \in IDs, NEW x \in IDs, NEW group, Shows(x, group)
  PROVE  /\ \A w \in Workers : x \in LateWork(v)[w].of =>
              LateWork(v)[w].late \/ LateWork(v)[w].shows = group \ {x}
         /\ \A w \in Workers : LateWork(v)[w].of = work[w].of
         /\ \A r \in LateRetries(retries, v) : r.id = x => r.late \/ r.aliases = group \ {x}
  <1>1. \A w \in Workers : work[w] \in WorkStates
    BY DEF TypeOK
  <1>2. ASSUME NEW w \in Workers
        PROVE  /\ LateWork(v)[w].of = work[w].of /\ LateWork(v)[w].shows = work[w].shows
               /\ work[w].late => LateWork(v)[w].late
    BY <1>1 DEF LateWork, WorkStates
  <1>3. ASSUME NEW r \in retries
        PROVE  LET l == [r EXCEPT !.late = @ \/ r.id = v]
               IN  l.id = r.id /\ l.aliases = r.aliases /\ (r.late => l.late)
    BY DEF TypeOK
  <1>4. \A w \in Workers : x \in LateWork(v)[w].of =>
          LateWork(v)[w].late \/ LateWork(v)[w].shows = group \ {x}
    BY <1>2 DEF Shows
  <1>5. \A r \in LateRetries(retries, v) : r.id = x => r.late \/ r.aliases = group \ {x}
    <2> SUFFICES ASSUME NEW r \in LateRetries(retries, v), r.id = x
                 PROVE  r.late \/ r.aliases = group \ {x}
      OBVIOUS
    <2>1. PICK q \in retries : r = [q EXCEPT !.late = @ \/ q.id = v]
      BY DEF LateRetries
    <2>2. q.id = x /\ r.aliases = q.aliases /\ (q.late => r.late)
      BY <1>3, <2>1
    <2> QED
      BY <2>2 DEF Shows
  <1> QED
    BY <1>2, <1>4, <1>5

\* A write prepared before nothing else shows what a member has to show.
LEMMA PutShows ==
  ASSUME TypeOK, NEW v \in IDs, NEW vs \in IDSets, NEW late \in BOOLEAN, Put(v, vs, late),
         NEW x \in IDs, NEW group, Shows(x, group), x = v => late \/ vs = group \ {v}
  PROVE  x \in public' \ lost' => shown'[x] = group \ {x}
  BY DEF Put, Shows, TypeOK

\* What the workers and the recoverer do keeps what the members know, if it
\* keeps it for each of them.
LEMMA OutsideStep ==
  ASSUME IInv, UNCHANGED <<groups, pc, aliases, todo, visited, walk, changed, crashes>>,
         patch'.of = patch.of, patch' # NoPatch => patch # NoPatch,
         \A k \in Keys : \A x \in groups[k] :
           x \in IDs /\ Shows(x, groups[k]) => Shows(x, groups[k])'
  PROVE  Rest'
  <1> USE DEF IInv
  <1>1. WalkIsPart'
    BY WalkFrame
  <1>2. Phases' /\ PatchIsSent'
    BY DEF Phases, PatchIsSent
  <1>3. TreatedAreComponents'
    BY DEF TreatedAreComponents, Treated, Untreated, Before
  <1>4. \A k \in Keys : \A x \in groups[k] : x \in IDs
    BY DEF TypeOK, GroupSets
  <1>5. MembersKnow'
    <2>1. Treated' = Treated /\ Untreated' = Untreated /\ Before' = Before
      BY DEF Treated, Untreated, Before
    <2>2. Treated \subseteq Keys /\ Untreated \subseteq Keys
      BY DEF Treated, Untreated, TypeOK
    <2> QED
      BY <1>4, <2>1, <2>2 DEF MembersKnow
  <1> QED
    BY <1>1, <1>2, <1>3, <1>5 DEF Rest

\* A worker reads the group its record is in, or the object that shows it.
LEMMA BeginStep ==
  ASSUME IInv, NEW w \in Workers, NEW v \in IDs,
         (\E c \in Contents[v] : Begin(w, v, c)) \/ BeginDelete(w, v)
  PROVE  Rest'
  <1> USE DEF IInv, run, store, bucket
  <1>1. UNCHANGED <<public, shown, lost, retries, groups, pc, aliases, todo, visited, walk, changed,
                    patch, crashes>>
    BY DEF Begin, BeginDelete
  <1>2. ASSUME NEW k \in Keys, NEW x \in groups[k], x \in IDs, Shows(x, groups[k])
        PROVE  Shows(x, groups[k])'
    <2>1. PICK l : /\ work' = [work EXCEPT ![w] = l] /\ l.of = {v}
                   /\ x = v => l.late \/ l.shows = groups[k] \ {v}
      <3>1. CASE \E c \in Contents[v] : Begin(w, v, c)
        <4>1. PICK c \in Contents[v] : Begin(w, v, c)
          BY <3>1
        <4>2. ASSUME x = v PROVE AliasesOf(v, c.raw) = groups[k] \ {v}
          <5>1. GroupsOf(v) = {k}
            BY <1>2, <4>1, <4>2 DEF GroupsOf, Begin
          <5> QED
            BY <5>1 DEF AliasesOf
        <4> DEFINE L == [pc |-> "commit", kind |-> "update", of |-> {v}, raw |-> c.raw,
                         withdrawn |-> c.withdrawn, shows |-> AliasesOf(v, c.raw), late |-> FALSE]
        <4>3. work' = [work EXCEPT ![w] = L]
          BY <4>1 DEF Begin
        <4>4. L.of = {v} /\ L.shows = AliasesOf(v, c.raw)
          OBVIOUS
        <4> HIDE DEF L
        <4> QED
          BY <4>2, <4>3, <4>4
      <3>2. CASE BeginDelete(w, v)
        <4>1. x = v => v \in lost \/ shown[v] = groups[k] \ {v}
          BY <1>2, <3>2 DEF BeginDelete, Shows
        <4> DEFINE L == [pc |-> "commit", kind |-> "delete", of |-> {v}, raw |-> {},
                         withdrawn |-> TRUE, shows |-> shown[v], late |-> v \in lost]
        <4>2. work' = [work EXCEPT ![w] = L]
          BY <3>2 DEF BeginDelete
        <4>3. L.of = {v} /\ L.shows = shown[v] /\ L.late = (v \in lost)
          OBVIOUS
        <4> HIDE DEF L
        <4> QED
          BY <4>1, <4>2, <4>3
      <3> QED
        BY <3>1, <3>2
    <2>2. work \in [Workers -> WorkStates]
      BY DEF TypeOK
    <2>3. \A u \in Workers : x \in work'[u].of => work'[u].late \/ work'[u].shows = groups[k] \ {x}
      <3> SUFFICES ASSUME NEW u \in Workers, x \in work'[u].of
                   PROVE  work'[u].late \/ work'[u].shows = groups[k] \ {x}
        OBVIOUS
      <3>1. CASE u = w
        BY <2>1, <2>2, <3>1
      <3>2. CASE u # w
        BY <1>2, <2>1, <2>2, <3>2 DEF Shows
      <3> QED
        BY <3>1, <3>2
    <2> QED
      BY <1>1, <1>2, <2>3 DEF Shows
  <1> QED
    BY <1>1, <1>2, OutsideStep

LEMMA CommitStep ==
  ASSUME IInv, NEW w \in Workers, NEW v \in IDs, Commit(w, v)
  PROVE  Rest'
  <1> USE DEF IInv, run, bucket, counts
  <1>1. UNCHANGED <<public, shown, lost, groups, pc, aliases, todo, visited, walk, changed, patch, crashes>>
    BY DEF Commit
  <1>2. ASSUME NEW k \in Keys, NEW x \in groups[k], x \in IDs, Shows(x, groups[k])
        PROVE  Shows(x, groups[k])'
    <2>1. /\ work' = [LateWork(v) EXCEPT ![w] = [work[w] EXCEPT !.pc = "upload"]]
          /\ retries' = LateRetries(retries, v)
      BY DEF Commit
    <2>2. LateWork(v) \in [Workers -> WorkStates] /\ work[w] \in WorkStates
      BY LateType DEF TypeOK
    <2>3. /\ \A u \in Workers : x \in LateWork(v)[u].of =>
               LateWork(v)[u].late \/ LateWork(v)[u].shows = groups[k] \ {x}
          /\ \A r \in LateRetries(retries, v) : r.id = x => r.late \/ r.aliases = groups[k] \ {x}
      BY <1>2, LateShows
    <2>4. \A u \in Workers : x \in work'[u].of => work'[u].late \/ work'[u].shows = groups[k] \ {x}
      <3> SUFFICES ASSUME NEW u \in Workers, x \in work'[u].of
                   PROVE  work'[u].late \/ work'[u].shows = groups[k] \ {x}
        OBVIOUS
      <3>1. CASE u = w
        <4>1. /\ work'[u].of = work[w].of /\ work'[u].late = work[w].late
              /\ work'[u].shows = work[w].shows
          BY <2>1, <2>2, <3>1 DEF WorkStates
        <4> QED
          BY <1>2, <4>1, <3>1 DEF Shows
      <3>2. CASE u # w
        BY <2>1, <2>2, <2>3, <3>2
      <3> QED
        BY <3>1, <3>2
    <2> QED
      BY <1>1, <1>2, <2>1, <2>3, <2>4 DEF Shows
  <1> QED
    BY <1>1, <1>2, OutsideStep

\* A write of the object, by a worker or by the recoverer.
LEMMA WriteStep ==
  ASSUME IInv, NEW v \in IDs, NEW vs \in IDSets, NEW late \in BOOLEAN, Put(v, vs, late),
         UNCHANGED <<groups, pc, aliases, todo, visited, walk, changed, crashes>>,
         \A k \in Keys : v \in groups[k] /\ Shows(v, groups[k]) => late \/ vs = groups[k] \ {v},
         \A u \in Workers : work'[u] = LateWork(v)[u] \/ work'[u].of = {},
         retries' \subseteq LateRetries(retries, v)
  PROVE  Rest'
  <1> USE DEF IInv
  <1>1. patch'.of = patch.of /\ (patch' # NoPatch => patch # NoPatch)
    <2>1. /\ patch' = [patch EXCEPT !.fresh = @ /\ v \notin patch.of]
          /\ patch \in [of : Singles, fresh : BOOLEAN]
      BY DEF Put, TypeOK
    <2>2. ASSUME patch = NoPatch PROVE patch' = NoPatch
      BY <2>1, <2>2 DEF NoPatch
    <2>3. patch'.of = patch.of
      BY <2>1
    <2> QED
      BY <2>2, <2>3
  <1>2. ASSUME NEW k \in Keys, NEW x \in groups[k], x \in IDs, Shows(x, groups[k])
        PROVE  Shows(x, groups[k])'
    <2>1. x \in public' \ lost' => shown'[x] = groups[k] \ {x}
      BY <1>2, PutShows
    <2>2. /\ \A u \in Workers : x \in LateWork(v)[u].of =>
               LateWork(v)[u].late \/ LateWork(v)[u].shows = groups[k] \ {x}
          /\ \A r \in LateRetries(retries, v) : r.id = x => r.late \/ r.aliases = groups[k] \ {x}
      BY <1>2, LateShows
    <2> QED
      BY <2>1, <2>2 DEF Shows
  <1> QED
    BY <1>1, <1>2, OutsideStep

LEMMA UploadStep ==
  ASSUME IInv, NEW w \in Workers, NEW v \in IDs, Upload(w, v)
  PROVE  Rest'
  <1> USE DEF IInv, counts
  <1>1. work[w] \in WorkStates /\ LateWork(v) \in [Workers -> WorkStates]
    BY LateType DEF TypeOK
  <1>2. work[w].shows \in IDSets /\ work[w].late \in BOOLEAN /\ work[w].of = {v}
    BY <1>1 DEF WorkStates, Upload
  <1>3. \A k \in Keys : v \in groups[k] /\ Shows(v, groups[k]) =>
          work[w].late \/ work[w].shows = groups[k] \ {v}
    BY <1>2 DEF Shows
  <1>4. /\ \A u \in Workers : work'[u] = LateWork(v)[u] \/ work'[u].of = {}
        /\ retries' \subseteq LateRetries(retries, v)
    BY <1>1 DEF Upload, Idle
  <1>5. /\ Put(v, work[w].shows, work[w].late)
        /\ UNCHANGED <<groups, pc, aliases, todo, visited, walk, changed, crashes>>
    BY DEF Upload
  <1> QED
    BY <1>2, <1>3, <1>4, <1>5, WriteStep

LEMMA RecovererStep ==
  ASSUME IInv, NEW r \in retries, RetryUpload(r) \/ RetrySuperseded(r)
  PROVE  Rest'
  <1> USE DEF IInv, counts, store, bucket, run
  <1>1. r.id \in IDs /\ r.aliases \in IDSets /\ r.late \in BOOLEAN
    BY DEF TypeOK
  <1>2. CASE RetryUpload(r)
    <2>1. \A k \in Keys : r.id \in groups[k] /\ Shows(r.id, groups[k]) =>
            r.late \/ r.aliases = groups[k] \ {r.id}
      BY DEF Shows
    <2>2. /\ \A u \in Workers : work'[u] = LateWork(r.id)[u] \/ work'[u].of = {}
          /\ retries' \subseteq LateRetries(retries, r.id)
      BY <1>2 DEF RetryUpload, LateRetries
    <2>3. /\ Put(r.id, r.aliases, r.late)
          /\ UNCHANGED <<groups, pc, aliases, todo, visited, walk, changed, crashes>>
      BY <1>2 DEF RetryUpload
    <2> QED
      BY <1>1, <2>1, <2>2, <2>3, WriteStep
  <1>3. CASE RetrySuperseded(r)
    <2>1. \A k \in Keys : \A x \in groups[k] :
            x \in IDs /\ Shows(x, groups[k]) => Shows(x, groups[k])'
      BY <1>3 DEF RetrySuperseded, Shows
    <2>2. /\ UNCHANGED <<groups, pc, aliases, todo, visited, walk, changed, crashes, patch>>
      BY <1>3 DEF RetrySuperseded
    <2> QED
      BY <2>1, <2>2, OutsideStep
  <1> QED
    BY <1>2, <1>3

\* A failed write is missed by the record it was for, and by no other.
LEMMA FailStep ==
  ASSUME IInv, NEW w \in Workers, (\E v \in IDs : UploadFails(w, v)) \/ WorkerFails(w)
  PROVE  Rest'
  <1> USE DEF IInv, run
  <1>1. /\ UNCHANGED <<public, shown, groups, pc, aliases, todo, visited, walk, changed, patch, crashes>>
        /\ work' = [work EXCEPT ![w] = Idle] /\ lost \subseteq lost'
    BY DEF UploadFails, WorkerFails
  <1>2. work \in [Workers -> WorkStates]
    BY DEF TypeOK
  <1>3. ASSUME NEW k \in Keys, NEW x \in groups[k], x \in IDs, Shows(x, groups[k])
        PROVE  Shows(x, groups[k])'
    <2>1. \A u \in Workers : x \in work'[u].of => work'[u].late \/ work'[u].shows = groups[k] \ {x}
      BY <1>1, <1>2, <1>3 DEF Shows, Idle
    <2>2. \A r \in retries' : r.id = x => r.late \/ r.aliases = groups[k] \ {x}
      <3>1. CASE \E v \in IDs : UploadFails(w, v)
        <4>1. PICK v \in IDs : UploadFails(w, v)
          BY <3>1
        <4>2. /\ retries' = retries \cup {Retry(v, work[w].shows, work[w].late)}
              /\ work[w].of = {v}
          BY <4>1 DEF UploadFails
        <4> QED
          BY <1>3, <4>2 DEF Shows, Retry
      <3>2. CASE WorkerFails(w)
        BY <1>3, <3>2 DEF WorkerFails, Shows
      <3> QED
        BY <3>1, <3>2
    <2> QED
      BY <1>1, <1>3, <2>1, <2>2 DEF Shows
  <1> QED
    BY <1>1, <1>3, OutsideStep

LEMMA WorkerStep ==
  ASSUME IInv, NEW w \in Workers, Worker(w)
  PROVE  Rest'
  BY BeginStep, CommitStep, UploadStep, FailStep DEF Worker

-----------------------------------------------------------------------------
(* The job *)

\* A run begins with every group untreated and nothing visited.
LEMMA StartStep ==
  ASSUME IInv, Start
  PROVE  Rest'
  <1> USE DEF IInv, Start, store, bucket, program, counts
  <1>p. PatchIsSent'
    BY PatchFrame
  <1>1. Treated' = {k \in Keys : groups[k] = None} /\ Untreated' = {k \in Keys : groups[k] # None}
        /\ Before' = {} /\ Met' = {}
    BY DEF Treated, Untreated, Before, Met, NoWalk
  <1>2. WalkIsPart'
    BY NoWalkIsPart DEF Closed
  <1>3. Phases'
    BY DEF Phases, NoWalk
  <1>4. TreatedAreComponents'
    BY <1>1 DEF TreatedAreComponents
  <1>5. Treated = Keys /\ Untreated = {}
    BY DEF Treated, Untreated, Phases, WalkIsPart
  <1>6. MembersKnow'
    <2> SUFFICES ASSUME crashes = 0 PROVE MembersKnow'
      BY DEF MembersKnow
    <2>1. DOMAIN changed' = {}
      BY DEF NoChange
    <2>2. \A k \in Keys : \A v \in groups[k] : v \notin DOMAIN changed
      BY DEF Phases
    <2> QED
      BY <1>1, <1>5, <2>1, <2>2 DEF MembersKnow, Shows
  <1> QED
    BY <1>p, <1>2, <1>3, <1>4, <1>6 DEF Rest

\* What a group is dissolved into no treated group shows: those that changed
\* say so themselves, the others are apart from it.
LEMMA AbsorbStep ==
  ASSUME IInv, NEW k \in Keys, Absorb(k)
  PROVE  Rest'
  <1> USE DEF IInv, Absorb, bucket, program, counts
  <1>p. PatchIsSent'
    BY PatchFrame
  <1>0. /\ Treated' = Treated \cup {k} /\ Untreated' = Untreated \ {k} /\ k \in Untreated
        /\ Before' = Before /\ UNCHANGED <<public, shown, lost, work, retries, pc, crashes, aliases>>
        /\ groups'[k] = {} /\ \A j \in Keys \ {k} : groups'[j] = groups[j]
    BY DEF Treated, Untreated, Before, Phases, TypeOK
  <1>1. WalkIsPart'
    BY WalkFrame
  <1>2. Phases'
    BY <1>0 DEF Phases, TypeOK
  <1>3. TreatedAreComponents'
    <2>1. \A j \in Treated' : groups'[j] # {} => j \in Treated /\ groups'[j] = groups[j]
      BY <1>0 DEF Treated
    <2>2. \A j \in Treated : j # k /\ j \in Treated' /\ groups'[j] = groups[j]
      BY <1>0 DEF Treated
    <2> QED
      BY <1>0, <2>1, <2>2 DEF TreatedAreComponents
  <1>4. MembersKnow'
    <2> SUFFICES ASSUME crashes = 0 PROVE MembersKnow'
      BY <1>0 DEF MembersKnow
    <2>1. DOMAIN changed' = DOMAIN changed \cup groups[k]
          /\ \A v \in DOMAIN changed : changed'[v] = changed[v]
      BY DEF Changed, Orphans
    <2>2. ASSUME NEW j \in Treated', NEW v \in groups'[j]
          PROVE  IF v \in DOMAIN changed' THEN changed'[v] = groups'[j]
                 ELSE Shows(v, groups[j])' /\ \A i \in Untreated' : v \notin groups'[i]
      <3>1. j \in Treated /\ j # k /\ groups'[j] = groups[j]
        BY <1>0, <2>2 DEF Treated
      <3>2. v \in DOMAIN changed \/ v \notin groups[k]
        BY <1>0, <2>2, <3>1 DEF MembersKnow
      <3>3. \A i \in Untreated' : i # k /\ groups'[i] = groups[i]
        BY <1>0 DEF Untreated, TypeOK
      <3>4. CASE v \in DOMAIN changed
        BY <2>1, <2>2, <3>1, <3>4 DEF MembersKnow
      <3>5. CASE v \notin DOMAIN changed
        <4>1. v \notin DOMAIN changed'
          BY <2>1, <3>2, <3>5
        <4>2. Shows(v, groups[j]) /\ \A i \in Untreated : v \notin groups[i]
          BY <2>2, <3>1, <3>5 DEF MembersKnow
        <4> QED
          BY <1>0, <3>1, <3>3, <4>1, <4>2 DEF Shows
      <3> QED
        BY <3>4, <3>5
    <2>3. ASSUME NEW j \in Untreated', NEW v \in groups'[j]
          PROVE  IF v \in DOMAIN changed' THEN v \in Before' ELSE Shows(v, groups[j])'
      <3>1. j \in Untreated /\ j # k /\ groups'[j] = groups[j]
        BY <1>0 DEF Untreated, TypeOK
      <3>2. v \notin groups[k]
        BY <1>0, <2>3, <3>1 DEF MembersKnow
      <3>3. v \in DOMAIN changed' <=> v \in DOMAIN changed
        BY <2>1, <3>2
      <3>4. IF v \in DOMAIN changed THEN v \in Before ELSE Shows(v, groups[j])
        BY <2>3, <3>1 DEF MembersKnow
      <3> QED
        BY <1>0, <3>1, <3>3, <3>4 DEF Shows
    <2>4. \A i, j \in Untreated' : i # j => groups'[i] \cap groups'[j] = {}
      BY <1>0 DEF MembersKnow, Untreated, TypeOK
    <2> QED
      BY <1>0, <2>2, <2>3, <2>4 DEF MembersKnow, Shows
  <1> QED
    BY <1>p, <1>1, <1>2, <1>3, <1>4 DEF Rest

\* A walk begins at an id that was not visited, from an untreated group.
LEMMA WalkBegins ==
  ASSUME TypeOK, WalkIsPart, pc # "walk", NEW for, NEW v \in IDs \ visited,
         Walk(for, v), UNCHANGED <<aliases, visited>>
  PROVE  WalkIsPart' /\ Before' = Before /\ walk'.for = for
  <1>1. walk'.found = {} /\ walk'.toVisit = {v} /\ walk'.for = for /\ pc' = "walk"
    BY DEF Walk
  <1>2. Met' = {v} /\ Before' = visited /\ Before = visited
    BY <1>1 DEF Met, Before, WalkIsPart
  <1> QED
    BY <1>1, <1>2 DEF WalkIsPart

LEMMA RecomputeStep ==
  ASSUME IInv, NEW k \in Keys, Recompute(k)
  PROVE  Rest'
  <1> USE DEF IInv, Recompute, store, bucket, program, counts
  <1>p. PatchIsSent'
    BY PatchFrame
  <1>1. First[groups[k]] \in IDs \ visited
    BY FirstIsMember
  <1>2. WalkIsPart' /\ Before' = Before /\ walk'.for = {k}
    BY <1>1, WalkBegins
  <1>3. walk.for = {} /\ pc' = "walk" /\ pc # "idle"
    BY DEF WalkIsPart, Walk
  <1>4. Treated' = Treated /\ Untreated' = Untreated
    BY <1>2, <1>3 DEF Treated, Untreated
  <1>5. Phases'
    BY <1>2, <1>3 DEF Phases
  <1>6. TreatedAreComponents'
    BY <1>2, <1>3, <1>4 DEF TreatedAreComponents
  <1>7. MembersKnow'
    BY <1>2, <1>3, <1>4 DEF MembersKnow, Shows
  <1> QED
    BY <1>p, <1>2, <1>5, <1>6, <1>7 DEF Rest

LEMMA UnreachedStep ==
  ASSUME IInv, NEW v \in IDs, Unreached(v)
  PROVE  Rest'
  <1> USE DEF IInv, Unreached, store, bucket, program, counts
  <1>p. PatchIsSent'
    BY PatchFrame
  <1>2. WalkIsPart' /\ Before' = Before /\ walk'.for = {}
    BY WalkBegins
  <1>3. walk.for = {} /\ pc' = "walk" /\ pc # "idle"
    BY DEF WalkIsPart, Walk
  <1>4. Treated' = Treated /\ Untreated' = Untreated
    BY <1>2, <1>3 DEF Treated, Untreated
  <1>5. Phases'
    BY <1>2, <1>3 DEF Phases
  <1>6. TreatedAreComponents'
    BY <1>2, <1>3, <1>4 DEF TreatedAreComponents
  <1>7. MembersKnow'
    BY <1>2, <1>3, <1>4 DEF MembersKnow, Shows
  <1> QED
    BY <1>p, <1>2, <1>5, <1>6, <1>7 DEF Rest

LEMMA VisitStep ==
  ASSUME IInv, NEW v \in IDs, Visit(v)
  PROVE  Rest'
  <1> USE DEF IInv, Visit, store, bucket, program, counts
  <1>p. PatchIsSent'
    BY PatchFrame
  <1>1. WalkIsPart' /\ Before' = Before
    BY VisitWalks
  <1>2. walk'.for = walk.for /\ UNCHANGED <<todo, pc, public, shown, lost, work, retries, groups, changed, crashes, aliases>>
    BY DEF TypeOK
  <1>3. Treated' = Treated /\ Untreated' = Untreated
    BY <1>2 DEF Treated, Untreated
  <1>4. Phases'
    BY <1>2 DEF Phases
  <1>5. TreatedAreComponents'
    BY <1>1, <1>2, <1>3 DEF TreatedAreComponents
  <1>6. MembersKnow'
    BY <1>1, <1>2, <1>3 DEF MembersKnow, Shows
  <1> QED
    BY <1>p, <1>1, <1>4, <1>5, <1>6 DEF Rest

\* A walk that is over adds its component to the treated groups, at the keys K
\* (one key or none), if it is large and small enough for a group.
LEMMA ComponentTreated ==
  ASSUME IInv, pc = "walk", walk.toVisit = {}, walk' = NoWalk, pc' # "idle",
         UNCHANGED <<aliases, visited>>,
         NEW K \in SUBSET Keys, \A i, j \in K : i = j,
         Treated' = Treated \cup K,
         \A k \in Treated \ K : groups'[k] = groups[k],
         \A k \in Treated \cap K : groups[k] = {},
         \A k \in K : groups'[k] = IF IsGroup(walk.found) THEN walk.found ELSE {},
         IsGroup(walk.found) => K # {}
  PROVE  TreatedAreComponents' /\ Before' = visited
  <1> USE DEF IInv
  <1>1. /\ walk.found \in IDSets /\ IsComponent(aliases, walk.found)
        /\ walk.found \cap Before = {} /\ visited = Before \cup walk.found
    BY WalkEnds
  <1>2. Before' = visited
    BY DEF Before, NoWalk
  <1>3. \A k \in Treated \ K : groups[k] # {} =>
          IsComponent(aliases, groups[k]) /\ groups[k] \subseteq Before
    BY DEF TreatedAreComponents
  <1>4. \A k \in Treated' : groups'[k] # {} =>
          IsComponent(aliases', groups'[k]) /\ groups'[k] \subseteq Before'
    BY <1>1, <1>2, <1>3
  <1>5. ASSUME NEW j \in Treated', NEW k \in Treated', j # k, groups'[j] # {}
        PROVE  groups'[j] # groups'[k]
    <2>1. walk.found # {}
      BY <1>1 DEF IsComponent
    <2>2. CASE j \notin K /\ k \notin K
      BY <1>5, <2>2 DEF TreatedAreComponents
    <2>3. CASE j \in K
      BY <1>1, <1>3, <1>5, <2>1, <2>3
    <2>4. CASE k \in K
      BY <1>1, <1>3, <1>5, <2>1, <2>4
    <2> QED
      BY <2>2, <2>3, <2>4
  <1>6. ASSUME NEW vs \in IDSets, IsComponent(aliases, vs), IsGroup(vs), vs \cap visited # {}
        PROVE  \E k \in Treated' : groups'[k] = vs
    <2>1. CASE vs \cap Before # {}
      <3>1. PICK k \in Treated : groups[k] = vs
        BY <1>6, <2>1 DEF TreatedAreComponents
      <3>2. k \notin K
        BY <2>1, <3>1
      <3> QED
        BY <3>1, <3>2
    <2>2. CASE vs \cap walk.found # {}
      <3>1. vs = walk.found
        BY <1>1, <1>6, <2>2, ComponentsMeet
      <3> QED
        BY <1>6, <3>1
    <2> QED
      BY <1>1, <1>6, <2>1, <2>2
  <1> QED
    BY <1>2, <1>4, <1>5, <1>6 DEF TreatedAreComponents

\* What the members of the other groups know: a treated group lies in what was
\* visited before the walk, and only what the walk found changes.
LEMMA OthersKnow ==
  ASSUME IInv, pc = "walk", walk.toVisit = {}, Before' = visited, pc' # "idle",
         UNCHANGED <<public, shown, lost, work, retries, crashes>>,
         NEW K \in SUBSET Keys,
         Treated' = Treated \cup K, Untreated' = Untreated \ K,
         \A k \in (Treated \cup Untreated) \ K : groups'[k] = groups[k],
         DOMAIN changed \subseteq DOMAIN changed',
         DOMAIN changed' \subseteq DOMAIN changed \cup walk.found,
         \A v \in DOMAIN changed \ walk.found : changed'[v] = changed[v],
         crashes = 0 =>
           \A k \in K : \A v \in groups'[k] :
             IF v \in DOMAIN changed' THEN changed'[v] = groups'[k]
             ELSE /\ Shows(v, groups'[k])
                  /\ \A j \in Untreated \ K : v \notin groups[j]
  PROVE  MembersKnow'
  <1> USE DEF IInv
  <1> SUFFICES ASSUME crashes = 0 PROVE MembersKnow'
    BY DEF MembersKnow
  <1>1. walk.found \cap Before = {} /\ visited = Before \cup walk.found
    BY WalkEnds
  <1>2. \A i, j \in Untreated' : i # j => groups'[i] \cap groups'[j] = {}
    BY DEF MembersKnow
  <1>3. ASSUME NEW k \in Treated \ K, NEW v \in groups'[k]
        PROVE  IF v \in DOMAIN changed' THEN changed'[v] = groups'[k]
               ELSE Shows(v, groups[k])' /\ \A j \in Untreated' : v \notin groups'[j]
    <2>1. groups'[k] = groups[k] /\ v \notin walk.found /\ pc # "idle"
      BY <1>1, <1>3 DEF TreatedAreComponents
    <2>2. IF v \in DOMAIN changed THEN changed[v] = groups[k]
          ELSE Shows(v, groups[k]) /\ \A j \in Untreated : v \notin groups[j]
      BY <1>3, <2>1 DEF MembersKnow
    <2>3. \A j \in Untreated' : groups'[j] = groups[j] /\ j \in Untreated
      OBVIOUS
    <2>4. CASE v \in DOMAIN changed
      BY <2>1, <2>2, <2>4
    <2>5. CASE v \notin DOMAIN changed
      BY <2>1, <2>2, <2>3, <2>5 DEF Shows
    <2> QED
      BY <2>4, <2>5
  <1>4. ASSUME NEW k \in Untreated', NEW v \in groups'[k]
        PROVE  IF v \in DOMAIN changed' THEN v \in Before' ELSE Shows(v, groups[k])'
    <2>1. k \in Untreated /\ groups'[k] = groups[k]
      OBVIOUS
    <2>2. IF v \in DOMAIN changed THEN v \in Before ELSE Shows(v, groups[k])
      BY <1>4, <2>1 DEF MembersKnow
    <2>3. CASE v \in DOMAIN changed'
      BY <1>1, <2>2, <2>3
    <2>4. CASE v \notin DOMAIN changed'
      BY <2>1, <2>2, <2>4 DEF Shows
    <2> QED
      BY <2>3, <2>4
  <1>5. \A k \in K : \A v \in groups'[k] :
          IF v \in DOMAIN changed' THEN changed'[v] = groups'[k]
          ELSE Shows(v, groups[k])' /\ \A j \in Untreated' : v \notin groups'[j]
    BY DEF Shows
  <1> QED
    BY <1>2, <1>3, <1>4, <1>5 DEF MembersKnow

\* updateAliasGroup.  Where the group is as it was found, its members show it:
\* the walk found them, so no treated group has taken any of them in.
LEMMA UpdateStep ==
  ASSUME IInv, NEW k \in Keys, Update(k)
  PROVE  Rest'
  <1> USE DEF IInv, Update, bucket, program, counts
  <1>p. PatchIsSent'
    BY PatchFrame
  <1>1. /\ walk.found \in IDSets /\ Closed(aliases, visited)
        /\ walk.found \cap Before = {} /\ visited = Before \cup walk.found
    BY WalkEnds
  <1>2. /\ k \in Untreated /\ k \notin Treated
        /\ Treated' = Treated \cup {k} /\ Untreated' = Untreated \ {k}
        /\ Untreated \subseteq Keys
    BY DEF Treated, Untreated, NoWalk, Phases, TypeOK
  <1>3. groups'[k] = IF IsGroup(walk.found) THEN walk.found ELSE {}
    <2>1. DOMAIN groups = Keys
      BY DEF TypeOK
    <2>2. CASE ~IsGroup(walk.found)
      BY <2>1, <2>2
    <2>3. CASE IsGroup(walk.found)
      BY <2>1, <2>3
    <2> QED
      BY <2>2, <2>3
  <1>4. \A j \in Keys \ {k} : groups'[j] = groups[j]
    BY DEF TypeOK
  <1>5. WalkIsPart'
    BY <1>1, NoWalkIsPart
  <1>6. Phases'
    BY <1>4 DEF Phases, NoWalk, TypeOK
  <1>7. TreatedAreComponents' /\ Before' = visited
    <2>1. \A j \in Treated \ {k} : groups'[j] = groups[j]
      BY <1>4 DEF Treated
    <2> QED
      BY <1>2, <1>3, <2>1, ComponentTreated
  <1>8. /\ DOMAIN changed \subseteq DOMAIN changed'
        /\ DOMAIN changed' \subseteq DOMAIN changed \cup walk.found
        /\ \A v \in DOMAIN changed \ walk.found : changed'[v] = changed[v]
    BY DEF Changed
  <1>9. ASSUME crashes = 0, NEW v \in groups'[k]
        PROVE  IF v \in DOMAIN changed' THEN changed'[v] = groups'[k]
               ELSE /\ Shows(v, groups'[k])
                    /\ \A j \in Untreated \ {k} : v \notin groups[j]
    <2>1. v \in walk.found /\ groups'[k] = walk.found
      BY <1>3, <1>9
    <2>2. CASE walk.found = groups[k]
      <3>1. v \notin DOMAIN changed /\ Shows(v, groups[k])
        BY <1>1, <1>2, <1>9, <2>1, <2>2 DEF MembersKnow
      <3>2. \A j \in Untreated \ {k} : v \notin groups[j]
        BY <1>2, <1>9, <2>1, <2>2 DEF MembersKnow
      <3>3. changed' = changed
        BY <1>3, <2>1, <2>2, <1>9
      <3> QED
        BY <2>1, <2>2, <3>1, <3>2, <3>3 DEF Shows
    <2>3. CASE walk.found # groups[k]
      <3>1. changed' = Changed(walk.found, walk.found)
        BY <1>3, <1>9, <2>1, <2>3
      <3> QED
        BY <2>1, <3>1 DEF Changed
    <2> QED
      BY <2>2, <2>3
  <1>10. MembersKnow'
    <2>1. \A j \in (Treated \cup Untreated) \ {k} : groups'[j] = groups[j]
      BY <1>2, <1>4 DEF Treated
    <2> QED
      BY <1>2, <1>7, <1>8, <1>9, <2>1, OthersKnow
  <1> QED
    BY <1>p, <1>5, <1>6, <1>7, <1>10 DEF Rest

\* createAliasGroup: at a key without a group, or no group at all.
LEMMA CreateStep ==
  ASSUME IInv, Create
  PROVE  Rest'
  <1> USE DEF IInv, Create, bucket, program, counts
  <1>p. PatchIsSent'
    BY PatchFrame
  <1>1. /\ walk.found \in IDSets /\ Closed(aliases, visited)
        /\ walk.found \cap Before = {} /\ visited = Before \cup walk.found
    BY WalkEnds
  <1>2. todo = {} /\ Treated = Keys /\ Untreated = {} /\ Treated' = Keys /\ Untreated' = {}
    BY DEF Phases, Treated, Untreated, NoWalk
  <1>3. WalkIsPart'
    BY <1>1, NoWalkIsPart
  <1>4. Phases'
    BY <1>2 DEF Phases, NoWalk
  <1>5. /\ DOMAIN changed \subseteq DOMAIN changed'
        /\ DOMAIN changed' \subseteq DOMAIN changed \cup walk.found
        /\ \A v \in DOMAIN changed \ walk.found : changed'[v] = changed[v]
    BY DEF Changed
  <1>6. CASE ~IsGroup(walk.found)
    <2>1. TreatedAreComponents' /\ Before' = visited
      <3> DEFINE K == {}
      <3>1. /\ K \in SUBSET Keys /\ Treated' = Treated \cup K
            /\ \A j \in Treated \ K : groups'[j] = groups[j]
        BY <1>2, <1>6
      <3> QED
        BY <1>6, <3>1, ComponentTreated
    <2>2. MembersKnow'
      <3> DEFINE K == {}
      <3>1. /\ K \in SUBSET Keys /\ Treated' = Treated \cup K /\ Untreated' = Untreated \ K
            /\ \A j \in (Treated \cup Untreated) \ K : groups'[j] = groups[j]
        BY <1>2, <1>6
      <3> QED
        BY <1>5, <2>1, <3>1, OthersKnow
    <2> QED
      BY <1>p, <1>3, <1>4, <2>1, <2>2 DEF Rest
  <1>7. CASE IsGroup(walk.found)
    <2>1. PICK k \in Keys : groups[k] = {} /\ groups' = [groups EXCEPT ![k] = walk.found]
      BY <1>7
    <2>2. groups'[k] = walk.found /\ \A j \in Keys \ {k} : groups'[j] = groups[j]
      BY <2>1 DEF TypeOK
    <2> DEFINE K == {k}
    <2>3. /\ K \in SUBSET Keys /\ Treated' = Treated \cup K /\ Untreated' = Untreated \ K
          /\ \A j \in (Treated \cup Untreated) \ K : groups'[j] = groups[j]
      BY <1>2, <2>2
    <2>4. TreatedAreComponents' /\ Before' = visited
      <3>1. /\ pc = "walk" /\ walk.toVisit = {} /\ walk' = NoWalk /\ pc' # "idle"
            /\ UNCHANGED <<aliases, visited>>
        OBVIOUS
      <3>2. /\ \A i, j \in K : i = j
            /\ \A j \in Treated \cap K : groups[j] = {}
            /\ \A j \in K : groups'[j] = IF IsGroup(walk.found) THEN walk.found ELSE {}
            /\ K # {}
        BY <1>7, <2>1, <2>2
      <3> HIDE DEF K, Create
      <3> QED
        BY <2>3, <3>1, <3>2, ComponentTreated
    <2>5. \A j \in K : \A v \in groups'[j] : v \in DOMAIN changed' /\ changed'[v] = groups'[j]
      BY <1>7, <2>2 DEF Changed
    <2>6. UNCHANGED <<public, shown, lost, work, retries, crashes>> /\ pc' # "idle"
      OBVIOUS
    <2>7. MembersKnow'
      <3> HIDE DEF K, Create
      <3> QED
        BY <1>5, <2>3, <2>4, <2>5, <2>6, OthersKnow DEF Create
    <2> QED
      BY <1>p, <1>3, <1>4, <2>4, <2>7 DEF Rest
  <1> QED
    BY <1>6, <1>7

LEMMA PhaseStep ==
  ASSUME IInv, GroupsDone \/ AllReached
  PROVE  Rest'
  <1> USE DEF IInv, GroupsDone, AllReached, store, bucket, program, counts
  <1>p. PatchIsSent'
    BY PatchFrame
  <1>1. WalkIsPart'
    BY WalkFrame
  <1>2. TreatedAreComponents'
    BY TreatedFrame
  <1>3. MembersKnow'
    BY MembersFrame
  <1>4. Phases'
    BY DEF Phases
  <1> QED
    BY <1>p, <1>1, <1>2, <1>3, <1>4 DEF Rest

\* The Updater reads the object of an id it has an update for.
LEMMA PatchReadStep ==
  ASSUME IInv, NEW v \in IDs, PatchRead(v)
  PROVE  Rest'
  <1> USE DEF IInv, PatchRead, NextPatch, store, bucket, program, counts
  <1>1. WalkIsPart' /\ TreatedAreComponents' /\ MembersKnow'
    BY WalkFrame, TreatedFrame, MembersFrame
  <1>2. Phases' /\ PatchIsSent'
    BY DEF Phases, PatchIsSent
  <1> QED
    BY <1>1, <1>2 DEF Rest

IsThrough(v) == PatchSkip(v) \/ PatchWrite(v) \/ PatchMismatch(v) \/ PatchFails(v)

\* What the Updater does when it is through with an id.
LEMMA ThroughFacts ==
  ASSUME TypeOK, PatchIsSent, NEW v \in IDs, IsThrough(v)
  PROVE  /\ v \in DOMAIN changed /\ Through(v) /\ pc = "send"
         /\ UNCHANGED <<public, groups, pc, aliases, todo, visited, walk, crashes>>
         /\ \A r \in retries' : r \in LateRetries(retries, v) \/ r = Retry(v, NewAliases(v), FALSE)
         /\ v \in public' \ lost' => shown'[v] = NewAliases(v)
         /\ \A x \in IDs \ {v} : shown'[x] = shown[x] /\ (x \in lost' <=> x \in lost)
  <1>1. CASE PatchSkip(v)
    BY <1>1 DEF PatchSkip, NextPatch, counts
  <1>2. CASE PatchWrite(v)
    <2>1. /\ v \in DOMAIN changed /\ Through(v) /\ pc = "send"
          /\ UNCHANGED <<public, groups, pc, aliases, todo, visited, walk, crashes>>
          /\ retries' = LateRetries(retries, v) /\ lost' = lost \ {v}
          /\ shown' = [shown EXCEPT ![v] = NewAliases(v)] /\ DOMAIN shown = IDs
      BY <1>2 DEF PatchWrite, PatchIsSent, TypeOK, counts
    <2>2. /\ shown'[v] = NewAliases(v)
          /\ \A x \in IDs \ {v} : shown'[x] = shown[x] /\ (x \in lost' <=> x \in lost)
      BY <2>1
    <2> QED
      BY <2>1, <2>2
  <1>3. CASE PatchMismatch(v)
    BY <1>3 DEF PatchMismatch, PatchIsSent
  <1>4. CASE PatchFails(v)
    BY <1>4 DEF PatchFails, NextPatch, PatchIsSent
  <1> QED
    BY <1>1, <1>2, <1>3, <1>4 DEF IsThrough

\* The public record shows what was sent, or has missed it, and what was read of
\* it before is late; the other records are as they were.
LEMMA ThroughShows ==
  ASSUME TypeOK, PatchIsSent, NEW v \in IDs, IsThrough(v), NEW k \in Keys, NEW x \in groups[k],
         IF x = v THEN changed[v] = groups[k] ELSE Shows(x, groups[k])
  PROVE  Shows(x, groups[k])'
  <1> USE ThroughFacts
  <1>0. groups' = groups /\ x \in IDs
    BY DEF TypeOK, GroupSets
  <1>1. CASE x = v
    <2>1. NewAliases(v) = groups[k] \ {x}
      BY <1>1 DEF NewAliases
    <2>2. \A w \in Workers : x \in work'[w].of => work'[w].late
      <3>1. \A w \in Workers : work[w] \in WorkStates
        BY DEF TypeOK
      <3> SUFFICES ASSUME NEW w \in Workers, x \in work'[w].of PROVE work'[w].late
        OBVIOUS
      <3>2. work'[w] = [work[w] EXCEPT !.late = @ \/ v \in work[w].of]
        <4>1. work' = LateWork(v)
          BY DEF Through
        <4> QED
          BY <4>1 DEF LateWork
      <3>3. work'[w].of = work[w].of /\ work'[w].late = (work[w].late \/ v \in work[w].of)
        BY <3>1, <3>2 DEF WorkStates
      <3> QED
        BY <1>1, <3>3
    <2>3. \A r \in retries' : r.id = x => r.late \/ r.aliases = groups[k] \ {x}
      <3> SUFFICES ASSUME NEW r \in retries', r.id = x PROVE r.late \/ r.aliases = groups[k] \ {x}
        OBVIOUS
      <3>1. CASE r \in LateRetries(retries, v)
        <4>1. PICK q \in retries : r = [q EXCEPT !.late = @ \/ q.id = v]
          BY <3>1 DEF LateRetries
        <4>2. q \in [id : IDs, aliases : IDSets, late : BOOLEAN]
          BY DEF TypeOK
        <4>3. r.id = q.id /\ r.late = (q.late \/ q.id = v)
          BY <4>1, <4>2
        <4> QED
          BY <1>1, <4>3
      <3>2. CASE r = Retry(v, NewAliases(v), FALSE)
        BY <2>1, <3>2 DEF Retry
      <3> QED
        BY <3>1, <3>2
    <2> QED
      BY <1>0, <1>1, <2>1, <2>2, <2>3 DEF Shows
  <1>2. CASE x # v
    <2>1. /\ \A w \in Workers : x \in LateWork(v)[w].of =>
               LateWork(v)[w].late \/ LateWork(v)[w].shows = groups[k] \ {x}
          /\ \A r \in LateRetries(retries, v) : r.id = x => r.late \/ r.aliases = groups[k] \ {x}
      BY <1>0, <1>2, LateShows
    <2>2. \A w \in Workers : x \in work'[w].of => work'[w].late \/ work'[w].shows = groups[k] \ {x}
      BY <2>1 DEF Through
    <2>3. \A r \in retries' : r.id = x => r.late \/ r.aliases = groups[k] \ {x}
      BY <1>2, <2>1 DEF Retry
    <2>4. x \in public' \ lost' => shown'[x] = groups[k] \ {x}
      BY <1>0, <1>2 DEF Shows
    <2> QED
      BY <1>0, <2>2, <2>3, <2>4 DEF Shows
  <1> QED
    BY <1>1, <1>2

\* What is sent to a member of a group is that group.
LEMMA ThroughStep ==
  ASSUME IInv, NEW v \in IDs, IsThrough(v)
  PROVE  Rest'
  <1> USE DEF IInv
  <1>1. /\ v \in DOMAIN changed /\ pc = "send"
        /\ changed' = [x \in DOMAIN changed \ {v} |-> changed[x]] /\ patch' = NoPatch
        /\ UNCHANGED <<public, groups, pc, aliases, todo, visited, walk, crashes>>
    BY ThroughFacts DEF Through
  <1>2. WalkIsPart' /\ TreatedAreComponents'
    BY <1>1, WalkFrame, TreatedFrame
  <1>3. Phases' /\ PatchIsSent'
    BY <1>1 DEF Phases, PatchIsSent, NoPatch
  <1>4. MembersKnow'
    <2>1. Treated' = Keys /\ Untreated' = {} /\ Treated = Keys /\ Untreated = {}
      BY <1>1 DEF Treated, Untreated, Phases, WalkIsPart
    <2>2. ASSUME crashes = 0, NEW k \in Keys, NEW x \in groups[k]
          PROVE  IF x \in DOMAIN changed' THEN changed'[x] = groups[k] ELSE Shows(x, groups[k])'
      <3>1. IF x \in DOMAIN changed THEN changed[x] = groups[k] ELSE Shows(x, groups[k])
        BY <2>1, <2>2 DEF MembersKnow
      <3>2. CASE x \in DOMAIN changed'
        BY <1>1, <3>1, <3>2
      <3>3. CASE x \notin DOMAIN changed'
        BY <1>1, <3>1, <3>3, ThroughShows
      <3> QED
        BY <3>2, <3>3
    <2> QED
      BY <1>1, <2>1, <2>2 DEF MembersKnow, Shows
  <1> QED
    BY <1>2, <1>3, <1>4 DEF Rest

\* A run that comes to its end leaves groups that do not meet.
LEMMA EndStep ==
  ASSUME IInv, AllSent \/ Crash
  PROVE  Rest'
  <1> USE DEF IInv, AllSent, Crash, Ends, store, bucket, program, counts
  <1>p. PatchIsSent'
    BY DEF PatchIsSent, NoPatch
  <1>1. WalkIsPart'
    BY NoWalkIsPart DEF Closed
  <1>2. Phases' /\ TreatedAreComponents' /\ Untreated' = {} /\ Treated' = Keys
    BY DEF Phases, TreatedAreComponents, NoWalk, NoChange, Untreated, Treated
  <1>3. MembersKnow'
    <2>1. CASE Crash
      BY <2>1 DEF MembersKnow, TypeOK
    <2>2. CASE AllSent
      <3>1. Treated = Keys /\ Untreated = {}
        BY <2>2 DEF Treated, Untreated, Phases, WalkIsPart
      <3>2. ASSUME NEW j \in Keys, NEW k \in Keys, j # k
            PROVE  groups[j] \cap groups[k] = {}
        <4>1. groups[j] \in IDSets /\ groups[k] \in IDSets
          BY DEF TypeOK, GroupSets
        <4> QED
          BY <2>2, <3>1, <3>2, <4>1, ComponentsMeet DEF TreatedAreComponents
      <3>3. DOMAIN changed' = {}
        BY DEF NoChange
      <3> QED
        BY <1>2, <2>2, <3>1, <3>2, <3>3 DEF MembersKnow, Shows
    <2> QED
      BY <2>1, <2>2
  <1> QED
    BY <1>p, <1>1, <1>2, <1>3 DEF Rest

-----------------------------------------------------------------------------
(* The theorems *)

LEMMA InitIInv == Init => IInv
  <1> SUFFICES ASSUME Init PROVE IInv
    OBVIOUS
  <1> USE DEF Init
  <1>1. TypeOK
    BY IdleType DEF TypeOK, NoWalk, NoChange, GroupSets
  <1>2. Symmetric
    BY DEF Symmetric
  <1>3. WalkIsPart /\ Phases /\ TreatedAreComponents /\ PatchIsSent
    BY DEF WalkIsPart, Phases, TreatedAreComponents, NoWalk, NoChange, Before, Met, Closed,
           PatchIsSent, NoPatch
  <1>4. MembersKnow
    BY DEF MembersKnow, NoWalk, Treated, Untreated
  <1> QED
    BY <1>1, <1>2, <1>3, <1>4 DEF IInv

LEMMA NextIInv == IInv /\ [Next]_vars => IInv'
  <1> SUFFICES ASSUME IInv, [Next]_vars PROVE IInv'
    OBVIOUS
  <1>1. CASE Next
    <2>1. TypeOK' /\ Symmetric'
      BY <1>1, TypeStep, SymmetricStep DEF IInv
    <2>2. Rest'
      BY <1>1, WorkerStep, RecovererStep, StartStep, AbsorbStep, RecomputeStep, UpdateStep,
         VisitStep, UnreachedStep, PatchReadStep, ThroughStep, PhaseStep, CreateStep, EndStep
         DEF Next, Patch, IsThrough
    <2> QED
      BY <2>1, <2>2 DEF IInv, Rest
  <1>2. CASE UNCHANGED vars
    <2> USE <1>2 DEF vars
    <2>1. TypeOK' /\ Symmetric' /\ Phases' /\ PatchIsSent'
      BY DEF IInv, TypeOK, Symmetric, Phases, PatchIsSent
    <2>2. Treated' = Treated /\ Untreated' = Untreated /\ Before' = Before /\ Met' = Met
      BY DEF Treated, Untreated, Before, Met
    <2>3. WalkIsPart' /\ TreatedAreComponents'
      BY <2>2 DEF IInv, WalkIsPart, TreatedAreComponents
    <2>4. MembersKnow'
      BY <2>2 DEF IInv, MembersKnow, Shows
    <2> QED
      BY <2>1, <2>3, <2>4 DEF IInv
  <1> QED
    BY <1>1, <1>2

\* The inductive invariant: during a run the treated groups are components of
\* the graph, the walk is part of one, and members know of their groups.
THEOREM IInvHolds == Spec => []IInv
  BY InitIInv, NextIInv, PTL DEF Spec

\* Groups, graph and updates keep their shape; a group has 2 to GroupLimit ids.
THEOREM TypeCorrect == Spec => []TypeOK
  <1>1. IInv => TypeOK
    BY DEF IInv
  <1> QED
    BY <1>1, IInvHolds, PTL

\* Whatever groups it finds, a run of ComputeAliasGroups leaves exactly the
\* connected components of the aliases it has read, each once.
THEOREM JobComputesComponents == Spec => []GroupsAreComponents
  <1>1. IInv => GroupsAreComponents
    <2> SUFFICES ASSUME IInv, pc = "send" PROVE GroupsAreComponents
      BY DEF GroupsAreComponents
    <2>1. Treated = Keys /\ Before = visited
      BY DEF IInv, Phases, WalkIsPart, Treated, Untreated, Before, Met
    <2>2. ASSUME NEW vs \in IDSets, IsComponent(aliases, vs), IsGroup(vs)
          PROVE  vs \cap visited # {}
      <3>1. PICK v \in vs : aliases[v] # {}
        BY <2>2, GroupsHaveAliases DEF IInv, TypeOK
      <3> QED
        BY <3>1 DEF IInv, Phases
    <2> QED
      BY <2>1, <2>2 DEF IInv, TreatedAreComponents, GroupsAreComponents
  <1> QED
    BY <1>1, IInvHolds, PTL

\* Between runs none of which was cut short, the public record of a member of a
\* group shows it, whatever the interleaving of imports, deletions, retries and
\* patches: only an upload that was prepared before another write, or before the
\* Updater was through with the id, or a write that failed, may leave it behind.
THEOREM MembersAreUpdated == Spec => []MembersShowGroup
  <1>1. IInv => MembersShowGroup
    <2> SUFFICES ASSUME IInv, pc = "idle", crashes = 0 PROVE MembersShowGroup
      BY DEF MembersShowGroup
    <2>1. Treated = Keys /\ DOMAIN changed = {}
      BY DEF IInv, Phases, WalkIsPart, Treated, Untreated
    <2> QED
      BY <2>1 DEF IInv, MembersKnow, Shows, MembersShowGroup, Quiet, TypeOK, GroupSets
  <1> QED
    BY <1>1, IInvHolds, PTL
=============================================================================
