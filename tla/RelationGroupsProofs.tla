-------------------------- MODULE RelationGroupsProofs --------------------------
(***************************************************************************)
(* Proofs about RelationGroups, for any ids and any records.               *)
(***************************************************************************)
EXTENDS RelationGroups, TLAPS

-----------------------------------------------------------------------------
(* The inductive invariant. *)

\* The loop of computeRelated adds what belongs, and what it has passed is there.
RelatedLoop ==
  /\ \A x \in IDs : rel.raw[x] \subseteq rel.groups[x] /\ rel.groups[x] \subseteq RelatedOf(x)
  /\ \A v \in IDs \ (rel.withdrawn \cup rel.todo) : \A x \in rel.raw[v] : v \in rel.groups[x]
  /\ rel.pc \in {"store", "done"} => rel.todo = {}
  /\ rel.pc = "done" => relGroups = rel.groups

\* The walk from v has met its upstreams and those of what it found, no others.
Met == ups.found \cup ups.toVisit
WalkIsPart(v) ==
  /\ ups.for = {v} /\ v \notin ups.todo /\ ups.raw[v] # {}
  /\ ups.raw[v] \subseteq Met /\ \A u \in ups.found : ups.raw[u] \subseteq Met
  /\ Met \subseteq UpstreamOf(v)

UpstreamLoop ==
  /\ ups.pc \in {"next", "done"} => ups.for = None
  /\ ups.pc = "done" => ups.todo = {}
  /\ ups.pc = "walk" => \E v \in IDs : WalkIsPart(v)
  /\ ups.pc \in {"next", "walk", "done"} =>
       \A v \in IDs \ (ups.todo \cup ups.for) : ups.raw[v] # {} => upGroups[v] = UpstreamOf(v)

\* An update is of this run, and has the group as it is.
IsCurrent(u) ==
  /\ u.field = "related" =>
       /\ rel.pc \in {"store", "done", "failed"}
       /\ u.value = relGroups[u.id] /\ u.value = rel.groups[u.id]
  /\ u.field = "upstream" =>
       /\ ups.pc \in {"next", "walk", "done", "failed"}
       /\ u.value = upGroups[u.id] /\ u.id \notin ups.todo \cup ups.for

UpdatesAreCurrent == \A u \in updates : IsCurrent(u)

\* What the Updater is about to write has the updates of the record and, if the
\* object is as it was read, the rest of it.
PatchIsSent ==
  \A v \in patch.of :
    /\ Ended(rel.pc) /\ Ended(ups.pc) /\ Of(v) # {}
    /\ \A u \in Of(v) : patch.shows[u.field] = u.value
    /\ patch.fresh =>
         v \in public /\ \A f \in Fields : <<v, f>> \in FieldsOf(Of(v)) \/ patch.shows[f] = shown[v][f]

\* What a worker or a message carries shows the group or what the record names,
\* but for the fields that are late.
WorkKnows ==
  \A w \in Workers : \A v \in work[w].of : \A f \in Fields \ work[w].late :
    /\ Shows(v, f, work[w].shows, work[w].form)
    /\ work[w].pc = "upload" => rec[v].form = work[w].form

RetriesKnow == \A r \in retries : \A f \in Fields \ r.late : Shows(r.id, f, r.shows, rec[r.id].form)

Knows == PatchIsSent /\ WorkKnows /\ RetriesKnow /\ GroupsAreShown

IInv == TypeOK /\ RelatedLoop /\ UpstreamLoop /\ UpdatesAreCurrent /\ Knows

\* The conjuncts of TypeOK about the jobs.
RelatedJobs == [pc : {"idle", "query", "invert", "store", "done", "failed"}, raw : Graphs,
                withdrawn : IDSets, groups : Graphs, todo : IDSets]
UpstreamJobs == [pc : {"idle", "query", "next", "walk", "done", "failed"}, raw : Graphs,
                 todo : IDSets, for : {None} \cup {{v} : v \in IDs}, found : IDSets,
                 toVisit : IDSets]

TodoNamesSome == \A v \in ups.todo : ups.raw[v] # {}

-----------------------------------------------------------------------------
\* The empty graph and the idle jobs have their types.
LEMMA IdleTypes ==
  /\ Nobody \in Graphs /\ \A v \in IDs : Nobody[v] = {}
  /\ NoForm \in Form
BY DEF Nobody, Graphs, IDSets, None, Form, NoForm

\* A job that is idle, or about to begin, has an empty loop behind it.
LEMMA NothingRead ==
  ASSUME NEW p \in {"idle", "query"}, NEW s \in {"idle", "query"},
         rel' = [IdleRelated EXCEPT !.pc = p], ups' = [IdleUpstream EXCEPT !.pc = s]
  PROVE  RelatedLoop' /\ UpstreamLoop'
<1>1. /\ rel'.pc = p /\ rel'.raw = Nobody /\ rel'.groups = Nobody
      /\ rel'.withdrawn = {} /\ rel'.todo = {}
  BY DEF IdleRelated
<1>2. ups'.pc = s
  BY DEF IdleUpstream
<1>3. RelatedLoop'
  BY <1>1, IdleTypes DEF RelatedLoop, RelatedOf
<1> QED BY <1>2, <1>3 DEF UpstreamLoop

\* The types of jobs at rest.
LEMMA RestTypes ==
  ASSUME NEW p \in {"idle", "query"},
         rel' = [IdleRelated EXCEPT !.pc = p], ups' = [IdleUpstream EXCEPT !.pc = p]
  PROVE  rel' \in RelatedJobs /\ ups' \in UpstreamJobs /\ TodoNamesSome'
BY IdleTypes
DEF IdleRelated, IdleUpstream, RelatedJobs, UpstreamJobs, TodoNamesSome, IDSets, None

\* The initial state satisfies the invariant.
LEMMA InitIInv == Init => IInv
<1> SUFFICES ASSUME Init PROVE IInv
  OBVIOUS
<1> USE DEF Init
<1>1. TypeOK
  <2>1. Idle \in WorkStates /\ NothingShown \in Shapes
    BY IdleTypes DEF Idle, WorkStates, Singles, NothingShown, Shapes, IDSets, None
  <2>2. patch \in [of : Singles, shows : Shapes, fresh : BOOLEAN]
    BY <2>1 DEF NoPatch, Singles, None
  <2>3. rel \in RelatedJobs /\ ups \in UpstreamJobs /\ \A v \in ups.todo : ups.raw[v] # {}
    BY IdleTypes DEF IdleRelated, IdleUpstream, RelatedJobs, UpstreamJobs, IDSets, None
  <2>4. rec \in [IDs -> [known : BOOLEAN, form : Form]]
    BY IdleTypes
  <2> HIDE DEF NothingShown, Idle
  <2>5. shown \in [IDs -> Shapes] /\ work \in [Workers -> WorkStates]
    BY <2>1
  <2>6. /\ public \in IDSets /\ relGroups \in Graphs /\ upGroups \in Graphs
        /\ updates = {} /\ stale = {} /\ retries = {}
        /\ imports \in 0..MaxImports /\ faults \in 0..MaxFaults
    BY IdleTypes, RelationsAssumption DEF IDSets
  <2> QED BY <2>2, <2>3, <2>4, <2>5, <2>6 DEF TypeOK, RelatedJobs, UpstreamJobs
<1>2. RelatedLoop
  BY IdleTypes DEF RelatedLoop, IdleRelated, RelatedOf
<1>3. UpstreamLoop
  BY DEF UpstreamLoop, IdleUpstream
<1>4. UpdatesAreCurrent
  BY DEF UpdatesAreCurrent
<1>5. Knows
  BY DEF Knows, PatchIsSent, NoPatch, WorkKnows, Idle, RetriesKnow, GroupsAreShown
<1> QED BY <1>1, <1>2, <1>3, <1>4, <1>5 DEF IInv

-----------------------------------------------------------------------------
(* What is shown, prepared and sent, when a step settles fields of ids. *)

\* Shows, after a step, of a record and a form that are given.
ShowsNext(v, f, shows, form) ==
  \/ shows[f] = Group(v, f)'
  \/ shows[f] = Named(form, f) /\ (f = "related" => relGroups'[v] = None)
  \/ Owes(v, f)'

\* Groups change in fields that are settled or owed, and nothing else is owed no
\* longer.
Kept(settled) ==
  \A x \in IDs : \A f \in Fields :
    <<x, f>> \in settled \/ Owes(x, f)' \/ (Group(x, f)' = Group(x, f) /\ ~Owes(x, f))

LEMMA ShowsKept ==
  ASSUME NEW settled, Kept(settled), NEW x \in IDs, NEW f \in Fields, <<x, f>> \notin settled
  PROVE  \A shows, form : Shows(x, f, shows, form) => ShowsNext(x, f, shows, form)
<1>1. CASE Owes(x, f)'
  BY <1>1 DEF ShowsNext
<1>2. CASE Group(x, f)' = Group(x, f) /\ ~Owes(x, f)
  <2>1. f = "related" => relGroups'[x] = relGroups[x]
    BY <1>2 DEF Group
  <2> QED BY <1>2, <2>1 DEF Shows, ShowsNext
<1> QED BY <1>1, <1>2 DEF Kept

\* What the workers and the messages carry, with the settled fields late in it.
IsCarried(w, settled) ==
  \/ work'[w].of = {}
  \/ /\ work'[w].of = work[w].of /\ work'[w].pc = work[w].pc
     /\ work'[w].form = work[w].form /\ work'[w].shows = work[w].shows
     /\ work[w].late \subseteq work'[w].late
     /\ \A v \in work[w].of : \A f \in Fields : <<v, f>> \in settled => f \in work'[w].late

AgedWork(settled) == \A w \in Workers : IsCarried(w, settled)

IsAged(l, r, settled) ==
  /\ l.id = r.id /\ l.shows = r.shows /\ r.late \subseteq l.late
  /\ \A f \in Fields : <<r.id, f>> \in settled => f \in l.late

LEMMA LateWorkIs ==
  ASSUME TypeOK, NEW settled, NEW w \in Workers
  PROVE  LET l == LateWork(settled)[w]
         IN  /\ l \in WorkStates
             /\ l.of = work[w].of /\ l.pc = work[w].pc /\ l.form = work[w].form
             /\ l.shows = work[w].shows /\ work[w].late \subseteq l.late
             /\ \A v \in work[w].of : \A f \in Fields : <<v, f>> \in settled => f \in l.late
<1> DEFINE more == {f \in Fields : \E v \in work[w].of : <<v, f>> \in settled}
<1>1. work[w] \in WorkStates
  BY DEF TypeOK
<1>2. LateWork(settled)[w] = [work[w] EXCEPT !.late = @ \cup more]
  BY DEF LateWork
<1>3. more \subseteq Fields
  OBVIOUS
<1>4. \A v \in work[w].of : \A f \in Fields : <<v, f>> \in settled => f \in more
  OBVIOUS
<1> HIDE DEF more
<1> QED BY <1>1, <1>2, <1>3, <1>4 DEF WorkStates

LEMMA LateRetryIs ==
  ASSUME TypeOK, NEW settled, NEW l \in LateRetries(settled)
  PROVE  l \in RetryStates /\ \E r \in retries : IsAged(l, r, settled)
<1>1. PICK r \in retries : l = [r EXCEPT !.late = @ \cup {f \in Fields : <<r.id, f>> \in settled}]
  BY DEF LateRetries
<1>2. r \in RetryStates
  BY DEF TypeOK
<1> DEFINE more == {f \in Fields : <<r.id, f>> \in settled}
<1>3. l = [r EXCEPT !.late = @ \cup more] /\ more \subseteq Fields
      /\ \A f \in Fields : <<r.id, f>> \in settled => f \in more
  BY <1>1
<1> HIDE DEF more
<1>4. l \in RetryStates /\ IsAged(l, r, settled)
  BY <1>2, <1>3 DEF RetryStates, IsAged
<1> QED BY <1>4

LEMMA LateWorkType ==
  ASSUME TypeOK, NEW settled
  PROVE  LateWork(settled) \in [Workers -> WorkStates] /\ LateRetries(settled) \subseteq RetryStates
<1>1. \A w \in Workers : LateWork(settled)[w] \in WorkStates
  BY LateWorkIs
<1> QED BY <1>1, LateRetryIs DEF LateWork

\* Nothing is late that was not, when nothing is settled.
LEMMA NothingSettled ==
  ASSUME UNCHANGED <<work, retries>>
  PROVE  AgedWork({}) /\ \A l \in retries' : \E r \in retries : IsAged(l, r, {})
BY DEF AgedWork, IsCarried, IsAged

LEMMA SettledIsAged ==
  ASSUME TypeOK, NEW settled, work' = LateWork(settled)
  PROVE  AgedWork(settled)
BY LateWorkIs DEF AgedWork, IsCarried

\* What is carried is as good as it was: records change only if they are settled.
RecordsKept(settled) == \A x \in IDs : rec'[x] = rec[x] \/ {x} \X Fields \subseteq settled

LEMMA WorkerKept ==
  ASSUME IInv, NEW settled, Kept(settled), RecordsKept(settled),
         NEW w \in Workers, IsCarried(w, settled)
  PROVE  \A v \in work'[w].of : \A f \in Fields \ work'[w].late :
           /\ ShowsNext(v, f, work'[w].shows, work'[w].form)
           /\ work'[w].pc = "upload" => rec'[v].form = work'[w].form
<1> SUFFICES ASSUME NEW v \in work'[w].of, NEW f \in Fields \ work'[w].late
             PROVE  /\ ShowsNext(v, f, work'[w].shows, work'[w].form)
                    /\ work'[w].pc = "upload" => rec'[v].form = work'[w].form
  OBVIOUS
<1>1. /\ work'[w].of = work[w].of /\ work'[w].pc = work[w].pc
      /\ work'[w].form = work[w].form /\ work'[w].shows = work[w].shows
      /\ f \notin work[w].late /\ <<v, f>> \notin settled
  BY DEF IsCarried
<1>2. v \in IDs
  BY <1>1 DEF IInv, TypeOK, WorkStates, Singles, None
<1>3. /\ Shows(v, f, work[w].shows, work[w].form)
      /\ work[w].pc = "upload" => rec[v].form = work[w].form
  BY <1>1 DEF IInv, Knows, WorkKnows
<1>4. rec'[v] = rec[v]
  BY <1>1, <1>2 DEF RecordsKept
<1> QED BY <1>1, <1>2, <1>3, <1>4, ShowsKept

LEMMA WorkKept ==
  ASSUME IInv, NEW settled, Kept(settled), RecordsKept(settled), AgedWork(settled)
  PROVE  WorkKnows'
BY WorkerKept DEF AgedWork, WorkKnows, Shows, ShowsNext

LEMMA RetryKept ==
  ASSUME IInv, NEW settled, Kept(settled), RecordsKept(settled), NEW l, NEW r \in retries, IsAged(l, r, settled)
  PROVE  \A f \in Fields \ l.late : ShowsNext(l.id, f, l.shows, rec'[l.id].form)
<1>1. r.id \in IDs
  BY DEF IInv, TypeOK, RetryStates
<1> SUFFICES ASSUME NEW f \in Fields \ l.late
             PROVE  ShowsNext(l.id, f, l.shows, rec'[l.id].form)
  OBVIOUS
<1>2. f \notin r.late /\ <<r.id, f>> \notin settled /\ l.id = r.id /\ l.shows = r.shows
  BY DEF IsAged
<1>3. Shows(r.id, f, r.shows, rec[r.id].form)
  BY <1>2 DEF IInv, Knows, RetriesKnow
<1>4. rec'[r.id] = rec[r.id]
  BY <1>1, <1>2 DEF RecordsKept
<1> QED BY <1>1, <1>2, <1>3, <1>4, ShowsKept

LEMMA RetriesKept ==
  ASSUME IInv, NEW settled, Kept(settled), RecordsKept(settled),
         \A l \in retries' : \E r \in retries : IsAged(l, r, settled)
  PROVE  RetriesKnow'
<1> SUFFICES ASSUME NEW l \in retries', NEW f \in Fields \ l.late
             PROVE  ShowsNext(l.id, f, l.shows, rec'[l.id].form)
  BY DEF RetriesKnow, Shows, ShowsNext
<1>1. PICK r \in retries : IsAged(l, r, settled)
  OBVIOUS
<1> QED BY <1>1, RetryKept

\* The object of an id, if no step wrote it: what it has missed stays missed.
LEMMA ObjectKept ==
  ASSUME IInv, NEW settled, Kept(settled), NEW x \in public,
         rec'[x] = rec[x], shown'[x] = shown[x], \A w \in Workers : ~Writing(w, x),
         NEW f \in Fields, <<x, f>> \in stale \cup settled => <<x, f>> \in stale'
  PROVE  <<x, f>> \in stale' \/ ShowsNext(x, f, shown'[x], rec'[x].form)
<1>1. x \in IDs
  BY DEF IInv, TypeOK, IDSets
<1>2. <<x, f>> \in stale \/ Shows(x, f, shown[x], rec[x].form)
  BY DEF IInv, Knows, GroupsAreShown
<1> QED BY <1>1, <1>2, ShowsKept

LEMMA PublicKept ==
  ASSUME IInv, NEW settled, Kept(settled), UNCHANGED <<rec, public, shown>>,
         stale \cup settled \subseteq stale',
         \A x \in public : \A w \in Workers : Writing(w, x) => Writing(w, x)'
  PROVE  GroupsAreShown'
<1> SUFFICES ASSUME NEW x \in public, \A w \in Workers : ~Writing(w, x)', NEW f \in Fields
             PROVE  <<x, f>> \in stale' \/ ShowsNext(x, f, shown'[x], rec'[x].form)
  BY DEF GroupsAreShown, Shows, ShowsNext
<1> QED BY ObjectKept

LEMMA AgedWriting ==
  ASSUME IInv, work' = work \/ \E settled : work' = LateWork(settled)
  PROVE  \A x : \A w \in Workers : Writing(w, x) <=> Writing(w, x)'
<1> SUFFICES ASSUME NEW x, NEW w \in Workers PROVE Writing(w, x) <=> Writing(w, x)'
  OBVIOUS
<1>1. work'[w].pc = work[w].pc /\ work'[w].of = work[w].of
  BY LateWorkIs DEF IInv
<1> QED BY <1>1 DEF Writing

\* Steps that change no group and no update keep what is known.
LEMMA NoGroupMoves ==
  ASSUME UNCHANGED <<relGroups, upGroups, updates>>
  PROVE  \A settled : Kept(settled)
BY DEF Kept, Group, Owes, Sent

LEMMA ShowsStay ==
  ASSUME UNCHANGED <<relGroups, upGroups, updates>>
  PROVE  \A x, f, shows, form : Shows(x, f, shows, form) => ShowsNext(x, f, shows, form)
BY DEF Shows, ShowsNext, Group, Owes, Sent

\* What the Updater has read, when it is not the one to move.
LEMMA PatchKept ==
  ASSUME IInv, UNCHANGED updates, patch'.of = patch.of, patch'.shows = patch.shows,
         patch.of # {} => UNCHANGED <<rel, ups>>,
         patch'.fresh => patch.fresh /\ \A v \in patch.of : v \in public' /\ shown'[v] = shown[v]
  PROVE  PatchIsSent'
BY DEF IInv, Knows, PatchIsSent, Of, FieldsOf

\* There is none while a job is on, or when nothing was sent.
LEMMA NoPatchYet ==
  ASSUME IInv, ~Ended(rel.pc) \/ ~Ended(ups.pc) \/ updates = {}
  PROVE  patch.of = {}
BY DEF IInv, Knows, PatchIsSent, Of

\* Steps of the jobs that store and send nothing.
LEMMA KnowsFrame ==
  ASSUME IInv, UNCHANGED <<store, updates, program, stale>>,
         patch.of # {} => UNCHANGED <<rel, ups>>
  PROVE  Knows'
<1> USE DEF store, bucket, program
<1>1. Kept({}) /\ RecordsKept({})
  BY NoGroupMoves DEF RecordsKept
<1>2. PatchIsSent'
  BY PatchKept DEF IInv, Knows, PatchIsSent
<1>3. WorkKnows' /\ RetriesKnow'
  BY <1>1, NothingSettled, WorkKept, RetriesKept
<1>4. GroupsAreShown'
  BY <1>1, AgedWriting, PublicKept
<1> QED BY <1>2, <1>3, <1>4 DEF Knows

\* The jobs' loops do not depend on what is imported, shown or prepared.
LEMMA LoopFrame ==
  ASSUME IInv, UNCHANGED <<relGroups, upGroups, rel, ups>>, updates' \subseteq updates
  PROVE  RelatedLoop' /\ UpstreamLoop' /\ UpdatesAreCurrent'
<1>1. RelatedLoop'
  BY DEF IInv, RelatedLoop, RelatedOf
<1>2. UpstreamLoop'
  BY DEF IInv, UpstreamLoop, WalkIsPart, Met, UpstreamOf, UpClosed
<1>3. UpdatesAreCurrent'
  BY DEF IInv, UpdatesAreCurrent, IsCurrent
<1> QED BY <1>1, <1>2, <1>3

\* A fault is counted.
LEMMA FaultIsCounted == TypeOK /\ Fault => faults' \in 0..MaxFaults
BY RelationsAssumption DEF TypeOK, Fault

\* The types of what steps outside the jobs change.
OutsideTypes ==
  /\ rec \in [IDs -> [known : BOOLEAN, form : Form]]
  /\ public \in IDSets /\ shown \in [IDs -> Shapes]
  /\ patch \in [of : Singles, shows : Shapes, fresh : BOOLEAN]
  /\ work \in [Workers -> WorkStates] /\ retries \subseteq RetryStates
  /\ stale \subseteq IDs \X Fields
  /\ imports \in 0..MaxImports /\ faults \in 0..MaxFaults

LEMMA OutsideIInv ==
  ASSUME IInv, UNCHANGED <<relGroups, upGroups, rel, ups>>, updates' \subseteq updates,
         OutsideTypes', Knows'
  PROVE  IInv'
<1>1. TypeOK'
  BY DEF IInv, TypeOK, OutsideTypes
<1> QED BY <1>1, LoopFrame DEF IInv

-----------------------------------------------------------------------------
(* The worker and the recoverer. *)

\* What the enricher makes of a form shows the groups.
LEMMA EnrichedShows ==
  ASSUME IInv, NEW v \in IDs, NEW form \in Form
  PROVE  Enriched(v, form) \in Shapes /\ \A f \in Fields : Shows(v, f, Enriched(v, form), form)
<1>1. \A f \in Fields : Enriched(v, form)[f] \in IDSets
  BY DEF Enriched, Named, IInv, TypeOK, Form, Graphs, IDSets
<1>2. Enriched(v, form) \in Shapes
  BY <1>1 DEF Shapes, Enriched
<1>3. \A f \in Fields : Shows(v, f, Enriched(v, form), form)
  BY DEF Shows, Enriched, Group, None
<1> QED BY <1>2, <1>3

LEMMA BeginIInv ==
  ASSUME IInv, NEW w \in Workers, NEW v \in IDs, NEW form \in Contents[v], Begin(w, v, form)
  PROVE  IInv'
<1> DEFINE begun == [pc |-> "commit", of |-> {v}, form |-> form, shows |-> Enriched(v, form),
                     late |-> {}]
<1>1. /\ work[w].pc = "idle" /\ work' = [work EXCEPT ![w] = begun]
      /\ UNCHANGED <<store, rel, ups, updates, retries, patch, stale, faults>>
      /\ imports' \in 0..MaxImports
  BY RelationsAssumption DEF Begin, IInv, TypeOK
<1>2. form \in Form
  BY RelationsAssumption
<1>3. begun \in WorkStates
  BY <1>2, EnrichedShows DEF WorkStates, Singles
<1>4. begun.pc = "commit" /\ begun.of = {v} /\ begun.form = form /\ begun.shows = Enriched(v, form)
  OBVIOUS
<1> HIDE DEF begun
<1>t. TypeOK
  BY DEF IInv
<1>5. work' \in [Workers -> WorkStates] /\ work'[w] = begun /\ \A u \in Workers \ {w} : work'[u] = work[u]
  BY <1>1, <1>3, <1>t DEF TypeOK
<1>6. OutsideTypes'
  BY <1>1, <1>5, <1>t DEF OutsideTypes, TypeOK, store, bucket
<1>7. Kept({}) /\ RecordsKept({}) /\ \A l \in retries' : \E r \in retries : IsAged(l, r, {})
  BY <1>1, NoGroupMoves DEF store, RecordsKept, IsAged
<1>8. WorkKnows'
  <2> SUFFICES ASSUME NEW u \in Workers, NEW x \in work'[u].of, NEW f \in Fields \ work'[u].late
               PROVE  /\ ShowsNext(x, f, work'[u].shows, work'[u].form)
                      /\ work'[u].pc = "upload" => rec'[x].form = work'[u].form
    BY DEF WorkKnows, Shows, ShowsNext
  <2>1. CASE u = w
    <3>1. x = v /\ work'[u].pc = "commit" /\ work'[u].form = form
          /\ work'[u].shows = Enriched(v, form)
      BY <1>4, <1>5, <2>1
    <3>2. Shows(v, f, Enriched(v, form), form)
      BY <1>2, EnrichedShows
    <3>3. ShowsNext(v, f, Enriched(v, form), form)
      BY <1>1, <3>2, ShowsStay DEF store
    <3> QED BY <3>1, <3>3
  <2>2. CASE u # w
    <3>1. IsCarried(u, {})
      BY <1>5, <2>2 DEF IsCarried
    <3> QED BY <1>7, <3>1, WorkerKept
  <2> QED BY <2>1, <2>2
<1>9. RetriesKnow' /\ PatchIsSent'
  BY <1>1, <1>7, RetriesKept, PatchKept DEF store, bucket, IInv, Knows, PatchIsSent
<1>10. \A x \in public : \A u \in Workers : Writing(u, x) => Writing(u, x)'
  BY <1>1, <1>5 DEF Writing
<1>11. GroupsAreShown'
  BY <1>1, <1>7, <1>10, PublicKept DEF store, bucket
<1> QED BY <1>1, <1>6, <1>8, <1>9, <1>11, OutsideIInv DEF Knows, store

\* The entity of a record is written, and its public record will be: what others
\* have prepared of it is late.
LEMMA CommitIInv ==
  ASSUME IInv, NEW w \in Workers, NEW v \in IDs, Commit(w, v)
  PROVE  IInv'
<1> DEFINE settled == {v} \X Fields
<1>t. TypeOK /\ work[w] \in WorkStates
  BY DEF IInv, TypeOK
<1>1. /\ work[w].pc = "commit" /\ work[w].of = {v}
      /\ rec' = [rec EXCEPT ![v] = [known |-> TRUE, form |-> work[w].form]]
      /\ work' = [LateWork(settled) EXCEPT ![w] = [work[w] EXCEPT !.pc = "upload"]]
      /\ retries' = LateRetries(settled)
      /\ UNCHANGED <<bucket, relGroups, upGroups, rel, ups, updates, patch, stale, imports, faults>>
  BY DEF Commit
<1>2. rec' \in [IDs -> [known : BOOLEAN, form : Form]] /\ rec'[v].form = work[w].form
      /\ \A x \in IDs \ {v} : rec'[x] = rec[x]
  BY <1>1, <1>t DEF TypeOK, WorkStates
<1>3. \A x \in IDs : \A f \in Fields : <<x, f>> \in settled <=> x = v
  OBVIOUS
<1>4. {v} \X Fields \subseteq settled
  OBVIOUS
<1> HIDE DEF settled
<1>5. LateWork(settled) \in [Workers -> WorkStates] /\ LateRetries(settled) \subseteq RetryStates
  BY <1>t, LateWorkType
<1>6. /\ work'[w].pc = "upload" /\ work'[w].of = {v} /\ work'[w].form = work[w].form
      /\ work'[w].shows = work[w].shows /\ work'[w].late = work[w].late
      /\ work'[w] \in WorkStates
      /\ \A u \in Workers \ {w} : work'[u] = LateWork(settled)[u]
  BY <1>1, <1>5, <1>t DEF WorkStates
<1>7. work' \in [Workers -> WorkStates]
  BY <1>1, <1>5, <1>6
<1>8. OutsideTypes'
  BY <1>1, <1>2, <1>5, <1>7, <1>t DEF OutsideTypes, TypeOK, bucket
<1>9. Kept(settled) /\ RecordsKept(settled)
  BY <1>1, <1>2, <1>4, NoGroupMoves DEF RecordsKept
<1>10. WorkKnows'
  <2> SUFFICES ASSUME NEW u \in Workers, NEW x \in work'[u].of, NEW f \in Fields \ work'[u].late
               PROVE  /\ ShowsNext(x, f, work'[u].shows, work'[u].form)
                      /\ work'[u].pc = "upload" => rec'[x].form = work'[u].form
    BY DEF WorkKnows, Shows, ShowsNext
  <2>1. CASE u = w
    <3>1. x = v /\ Shows(v, f, work[w].shows, work[w].form)
      BY <1>1, <1>6, <2>1 DEF IInv, Knows, WorkKnows
    <3>2. ShowsNext(v, f, work[w].shows, work[w].form)
      BY <1>1, <3>1, ShowsStay
    <3> QED BY <1>2, <1>6, <2>1, <3>1, <3>2
  <2>2. CASE u # w
    <3>1. IsCarried(u, settled)
      BY <1>6, <1>t, <2>2, LateWorkIs DEF IsCarried
    <3> QED BY <1>9, <3>1, WorkerKept
  <2> QED BY <2>1, <2>2
<1>11. RetriesKnow'
  BY <1>1, <1>9, <1>t, LateRetryIs, RetriesKept
<1>12. PatchIsSent'
  BY <1>1, PatchKept DEF bucket, IInv, Knows, PatchIsSent
<1>13. GroupsAreShown'
  <2> SUFFICES ASSUME NEW x \in public, \A u \in Workers : ~Writing(u, x)', NEW f \in Fields
               PROVE  <<x, f>> \in stale' \/ ShowsNext(x, f, shown'[x], rec'[x].form)
    BY <1>1 DEF GroupsAreShown, Shows, ShowsNext, bucket
  <2>1. x # v /\ x \in IDs
    BY <1>6, <1>t DEF Writing, TypeOK, IDSets
  <2>2. \A u \in Workers : ~Writing(u, x)
    <3> SUFFICES ASSUME NEW u \in Workers PROVE ~Writing(u, x)
      OBVIOUS
    <3>1. CASE u = w
      BY <1>1, <2>1, <3>1 DEF Writing
    <3>2. CASE u # w
      BY <1>6, <1>t, <3>2, LateWorkIs DEF Writing
    <3> QED BY <3>1, <3>2
  <2>3. rec'[x] = rec[x] /\ shown'[x] = shown[x] /\ <<x, f>> \notin settled /\ stale' = stale
    BY <1>1, <1>2, <1>3, <2>1 DEF bucket
  <2> QED BY <1>9, <2>2, <2>3, ObjectKept
<1> QED BY <1>1, <1>8, <1>10, <1>11, <1>12, <1>13, OutsideIInv DEF Knows

\* A record is uploaded, by a worker or by the recoverer.
LEMMA PutIInv ==
  ASSUME IInv, NEW v \in IDs, NEW shows \in Shapes, NEW late \in SUBSET Fields,
         Put(v, shows, late),
         \A f \in Fields \ late : Shows(v, f, shows, rec[v].form),
         UNCHANGED <<rec, relGroups, upGroups, rel, ups, updates, imports, faults>>,
         work' \in [Workers -> WorkStates], AgedWork({}), retries' \subseteq retries,
         \A x \in IDs \ {v} : \A w \in Workers : Writing(w, x) => Writing(w, x)'
  PROVE  IInv'
<1>t. TypeOK
  BY DEF IInv
<1>1. /\ public' = public \cup {v} /\ shown' = [shown EXCEPT ![v] = shows]
      /\ stale' = (stale \ ({v} \X Fields)) \cup ({v} \X late)
      /\ patch' = [patch EXCEPT !.fresh = @ /\ v \notin patch.of]
  BY DEF Put
<1>2. /\ patch'.of = patch.of /\ patch'.shows = patch.shows
      /\ patch' \in [of : Singles, shows : Shapes, fresh : BOOLEAN]
      /\ patch'.fresh <=> patch.fresh /\ v \notin patch.of
  <2>1. (patch.fresh /\ v \notin patch.of) \in BOOLEAN
    OBVIOUS
  <2> QED BY <1>1, <1>t, <2>1 DEF TypeOK
<1>3. /\ shown' \in [IDs -> Shapes] /\ shown'[v] = shows
      /\ \A x \in IDs \ {v} : shown'[x] = shown[x]
  BY <1>1, <1>t DEF TypeOK
<1>4. stale' \subseteq IDs \X Fields /\ public' \in IDSets
  BY <1>1, <1>t DEF TypeOK, IDSets
<1>5. OutsideTypes'
  BY <1>2, <1>3, <1>4, <1>t DEF OutsideTypes, TypeOK
<1>6. Kept({}) /\ RecordsKept({}) /\ \A l \in retries' : \E r \in retries : IsAged(l, r, {})
  BY NoGroupMoves DEF RecordsKept, IsAged
<1>7. WorkKnows' /\ RetriesKnow'
  BY <1>6, WorkKept, RetriesKept
<1>8. PatchIsSent'
  <2>1. patch.of \in SUBSET IDs
    BY <1>t DEF TypeOK, Singles, None
  <2>2. patch'.fresh => patch.fresh /\ \A x \in patch.of : x \in public' /\ shown'[x] = shown[x]
    BY <1>1, <1>2, <1>3, <2>1 DEF IInv, Knows, PatchIsSent
  <2> QED BY <1>2, <2>2, PatchKept
<1>9. GroupsAreShown'
  <2> SUFFICES ASSUME NEW x \in public', \A w \in Workers : ~Writing(w, x)', NEW f \in Fields
               PROVE  <<x, f>> \in stale' \/ ShowsNext(x, f, shown'[x], rec'[x].form)
    BY DEF GroupsAreShown, Shows, ShowsNext
  <2>1. CASE x = v
    <3>1. f \in late => <<x, f>> \in stale'
      BY <1>1, <2>1
    <3>2. f \notin late => ShowsNext(v, f, shows, rec[v].form)
      BY ShowsStay
    <3> QED BY <1>3, <2>1, <3>1, <3>2
  <2>2. CASE x # v
    <3>1. x \in public /\ x \in IDs
      BY <1>1, <1>t, <2>2 DEF TypeOK, IDSets
    <3>2. <<x, f>> \in stale => <<x, f>> \in stale'
      BY <1>1, <2>2
    <3> QED BY <1>3, <1>6, <2>2, <3>1, <3>2, ObjectKept
  <2> QED BY <2>1, <2>2
<1> QED BY <1>5, <1>7, <1>8, <1>9, OutsideIInv DEF Knows

\* A worker that is through, or has failed, is idle.
LEMMA LeavesWork ==
  ASSUME TypeOK, NEW w \in Workers, work' = [work EXCEPT ![w] = Idle]
  PROVE  /\ work' \in [Workers -> WorkStates] /\ AgedWork({})
         /\ \A x : x \notin work[w].of \/ work[w].pc # "upload" =>
              \A u \in Workers : Writing(u, x) => Writing(u, x)'
<1>1. Idle \in WorkStates /\ Idle.of = {}
  BY IdleTypes DEF Idle, WorkStates, Singles, NothingShown, Shapes, IDSets, None, Fields
<1>2. work' \in [Workers -> WorkStates] /\ work'[w] = Idle /\ \A u \in Workers \ {w} : work'[u] = work[u]
  BY <1>1 DEF TypeOK
<1>3. AgedWork({})
  BY <1>1, <1>2 DEF AgedWork, IsCarried
<1>4. \A x : x \notin work[w].of \/ work[w].pc # "upload" =>
        \A u \in Workers : Writing(u, x) => Writing(u, x)'
  BY <1>2 DEF Writing
<1> QED BY <1>2, <1>3, <1>4

LEMMA UploadIInv ==
  ASSUME IInv, NEW w \in Workers, NEW v \in IDs, Upload(w, v)
  PROVE  IInv'
<1>1. /\ work[w].pc = "upload" /\ work[w].of = {v} /\ Put(v, work[w].shows, work[w].late)
      /\ work' = [work EXCEPT ![w] = Idle]
      /\ UNCHANGED <<rec, relGroups, upGroups, rel, ups, updates, retries, imports, faults>>
  BY DEF Upload
<1>2. TypeOK /\ work[w].shows \in Shapes /\ work[w].late \in SUBSET Fields
  BY DEF IInv, TypeOK, WorkStates
<1>3. \A f \in Fields \ work[w].late : Shows(v, f, work[w].shows, rec[v].form)
  BY <1>1 DEF IInv, Knows, WorkKnows
<1>4. /\ work' \in [Workers -> WorkStates] /\ AgedWork({})
      /\ \A x \in IDs \ {v} : \A u \in Workers : Writing(u, x) => Writing(u, x)'
  BY <1>1, <1>2, LeavesWork
<1> QED BY <1>1, <1>2, <1>3, <1>4, PutIInv

LEMMA RetryUploadIInv ==
  ASSUME IInv, NEW r \in retries, RetryUpload(r)
  PROVE  IInv'
<1>1. /\ Put(r.id, r.shows, r.late) /\ retries' \subseteq retries
      /\ UNCHANGED <<rec, relGroups, upGroups, rel, ups, updates, work, imports, faults>>
  BY DEF RetryUpload
<1>2. r.id \in IDs /\ r.shows \in Shapes /\ r.late \in SUBSET Fields
  BY DEF IInv, TypeOK, RetryStates
<1>3. \A f \in Fields \ r.late : Shows(r.id, f, r.shows, rec[r.id].form)
  BY DEF IInv, Knows, RetriesKnow
<1>4. /\ work' \in [Workers -> WorkStates] /\ AgedWork({})
      /\ \A x \in IDs \ {r.id} : \A u \in Workers : Writing(u, x) => Writing(u, x)'
  BY <1>1 DEF IInv, TypeOK, AgedWork, IsCarried, Writing
<1> QED BY <1>1, <1>2, <1>3, <1>4, PutIInv

\* A worker or a message that goes without a write: the record has missed it.
LEMMA LeavesIInv ==
  ASSUME IInv, UNCHANGED <<store, rel, ups, updates, patch, imports>>, faults' \in 0..MaxFaults,
         work' \in [Workers -> WorkStates], AgedWork({}),
         retries' \subseteq RetryStates, RetriesKnow',
         stale \subseteq stale', stale' \subseteq IDs \X Fields,
         \A x \in public : \A w \in Workers :
           Writing(w, x) => Writing(w, x)' \/ {x} \X Fields \subseteq stale'
  PROVE  IInv'
<1> USE DEF store, bucket
<1>1. OutsideTypes'
  BY DEF OutsideTypes, IInv, TypeOK
<1>2. Kept({}) /\ RecordsKept({})
  BY NoGroupMoves DEF RecordsKept
<1>3. WorkKnows' /\ PatchIsSent'
  BY <1>2, WorkKept, PatchKept DEF IInv, Knows, PatchIsSent
<1>4. GroupsAreShown'
  <2> SUFFICES ASSUME NEW x \in public, \A u \in Workers : ~Writing(u, x)', NEW f \in Fields
               PROVE  <<x, f>> \in stale' \/ ShowsNext(x, f, shown'[x], rec'[x].form)
    BY DEF GroupsAreShown, Shows, ShowsNext
  <2>1. CASE {x} \X Fields \subseteq stale'
    BY <2>1
  <2>2. CASE ~({x} \X Fields \subseteq stale')
    <3>1. \A w \in Workers : ~Writing(w, x)
      BY <2>2
    <3>2. rec'[x] = rec[x] /\ shown'[x] = shown[x]
          /\ (<<x, f>> \in stale \cup {} => <<x, f>> \in stale')
      OBVIOUS
    <3> QED BY <1>2, <3>1, <3>2, ObjectKept
  <2> QED BY <2>1, <2>2
<1> QED BY <1>1, <1>3, <1>4, OutsideIInv DEF Knows

LEMMA UploadFailsIInv ==
  ASSUME IInv, NEW w \in Workers, NEW v \in IDs, UploadFails(w, v)
  PROVE  IInv'
<1> DEFINE new == Retry(v, work[w].shows, work[w].late)
<1>1. /\ work[w].pc = "upload" /\ work[w].of = {v} /\ retries' = retries \cup {new}
      /\ stale' = stale \cup ({v} \X Fields) /\ work' = [work EXCEPT ![w] = Idle]
      /\ UNCHANGED <<store, rel, ups, updates, patch, imports>>
  BY DEF UploadFails
<1>2. TypeOK /\ faults' \in 0..MaxFaults
  BY FaultIsCounted DEF UploadFails, IInv
<1>3. new \in RetryStates /\ new.id = v /\ new.shows = work[w].shows /\ new.late = work[w].late
  BY <1>2 DEF Retry, RetryStates, TypeOK, WorkStates
<1> HIDE DEF new
<1>4. retries' \subseteq RetryStates /\ stale \subseteq stale' /\ stale' \subseteq IDs \X Fields
  BY <1>1, <1>2, <1>3 DEF TypeOK
<1>5. RetriesKnow'
  <2> SUFFICES ASSUME NEW l \in retries', NEW f \in Fields \ l.late
               PROVE  ShowsNext(l.id, f, l.shows, rec'[l.id].form)
    BY DEF RetriesKnow, Shows, ShowsNext
  <2>1. Shows(l.id, f, l.shows, rec[l.id].form) /\ l.id \in IDs
    BY <1>1, <1>2, <1>3 DEF IInv, Knows, RetriesKnow, WorkKnows, TypeOK, RetryStates
  <2>2. UNCHANGED <<rec, relGroups, upGroups, updates>>
    BY <1>1 DEF store
  <2> QED BY <2>1, <2>2, ShowsStay
<1>6. \A x \in public : \A u \in Workers :
        Writing(u, x) => Writing(u, x)' \/ {x} \X Fields \subseteq stale'
  BY <1>1, <1>2, LeavesWork
<1>7. work' \in [Workers -> WorkStates] /\ AgedWork({})
  BY <1>1, <1>2, LeavesWork
<1> QED BY <1>1, <1>2, <1>4, <1>5, <1>6, <1>7, LeavesIInv

LEMMA WorkerFailsIInv ==
  ASSUME IInv, NEW w \in Workers, WorkerFails(w)
  PROVE  IInv'
<1>1. /\ work' = [work EXCEPT ![w] = Idle]
      /\ stale' = IF work[w].pc = "upload" THEN stale \cup (work[w].of \X Fields) ELSE stale
      /\ UNCHANGED <<store, rel, ups, updates, retries, patch, imports>>
  BY Zenon DEF WorkerFails
<1>2. TypeOK /\ faults' \in 0..MaxFaults /\ work[w].of \in SUBSET IDs
  <2>1. work[w] \in WorkStates
    BY DEF IInv, TypeOK
  <2>2. work[w].of \in SUBSET IDs
    BY <2>1 DEF WorkStates, Singles, None
  <2> QED BY <2>2, FaultIsCounted DEF WorkerFails, IInv
<1>3. retries' \subseteq RetryStates /\ stale \subseteq stale' /\ stale' \subseteq IDs \X Fields
  BY <1>1, <1>2 DEF TypeOK
<1>4. RetriesKnow'
  <2>1. Kept({}) /\ RecordsKept({}) /\ \A l \in retries' : \E r \in retries : IsAged(l, r, {})
    BY <1>1, NoGroupMoves DEF store, RecordsKept, IsAged
  <2> QED BY <2>1, RetriesKept
<1>5. \A x \in public : \A u \in Workers :
        Writing(u, x) => Writing(u, x)' \/ {x} \X Fields \subseteq stale'
  BY <1>1, <1>2, LeavesWork
<1>6. work' \in [Workers -> WorkStates] /\ AgedWork({})
  BY <1>1, <1>2, LeavesWork
<1> QED BY <1>1, <1>2, <1>3, <1>4, <1>5, <1>6, LeavesIInv

LEMMA RetrySupersededIInv ==
  ASSUME IInv, NEW r \in retries, RetrySuperseded(r)
  PROVE  IInv'
<1>1. /\ retries' \subseteq retries
      /\ UNCHANGED <<store, rel, ups, updates, work, patch, stale, imports, faults>>
  BY DEF RetrySuperseded
<1>2. /\ retries' \subseteq RetryStates /\ faults' \in 0..MaxFaults /\ stale' \subseteq IDs \X Fields
      /\ work' \in [Workers -> WorkStates]
  BY <1>1 DEF IInv, TypeOK
<1>3. AgedWork({}) /\ \A x \in public : \A u \in Workers : Writing(u, x) => Writing(u, x)'
  BY <1>1 DEF AgedWork, IsCarried, Writing
<1>4. RetriesKnow'
  <2>1. Kept({}) /\ RecordsKept({}) /\ \A l \in retries' : \E q \in retries : IsAged(l, q, {})
    BY <1>1, NoGroupMoves DEF store, RecordsKept, IsAged
  <2> QED BY <2>1, RetriesKept
<1> QED BY <1>1, <1>2, <1>3, <1>4, LeavesIInv

-----------------------------------------------------------------------------
(* The Updater. *)

\* Updates that are settled: patched, or lost.
LEMMA Settled ==
  ASSUME IInv, NEW us \in SUBSET updates, updates' = updates \ us,
         UNCHANGED <<rec, relGroups, upGroups>>, work' = LateWork(FieldsOf(us))
  PROVE  /\ Kept(FieldsOf(us)) /\ RecordsKept(FieldsOf(us)) /\ WorkKnows'
         /\ work' \in [Workers -> WorkStates] /\ FieldsOf(us) \subseteq IDs \X Fields
         /\ LateRetries(FieldsOf(us)) \subseteq RetryStates
         /\ \A l \in LateRetries(FieldsOf(us)), f \in Fields :
              f \notin l.late => ShowsNext(l.id, f, l.shows, rec'[l.id].form)
         /\ \A x : \A w \in Workers : Writing(w, x) <=> Writing(w, x)'
<1>t. TypeOK
  BY DEF IInv
<1>1. Kept(FieldsOf(us))
  <2> SUFFICES ASSUME NEW x \in IDs, NEW f \in Fields, <<x, f>> \notin FieldsOf(us), Owes(x, f)
               PROVE  Owes(x, f)'
    BY DEF Kept, Group
  <2>1. Sent(x, f, Group(x, f)) \in updates \ us
    BY DEF Owes, FieldsOf, Sent
  <2> QED BY <2>1 DEF Owes, Group
<1>2. RecordsKept(FieldsOf(us))
  BY DEF RecordsKept
<1>3. WorkKnows'
  BY <1>1, <1>2, <1>t, SettledIsAged, WorkKept
<1>4. FieldsOf(us) \subseteq IDs \X Fields
  BY <1>t DEF FieldsOf, TypeOK
<1>5. \A l \in LateRetries(FieldsOf(us)), f \in Fields :
        f \notin l.late => ShowsNext(l.id, f, l.shows, rec'[l.id].form)
  <2> SUFFICES ASSUME NEW l \in LateRetries(FieldsOf(us)), NEW f \in Fields \ l.late
               PROVE  ShowsNext(l.id, f, l.shows, rec'[l.id].form)
    OBVIOUS
  <2>1. PICK r \in retries : IsAged(l, r, FieldsOf(us))
    BY <1>t, LateRetryIs
  <2> QED BY <1>1, <1>2, <2>1, RetryKept
<1>6. work' \in [Workers -> WorkStates] /\ LateRetries(FieldsOf(us)) \subseteq RetryStates
  BY <1>t, LateWorkType
<1> QED BY <1>1, <1>2, <1>3, <1>4, <1>5, <1>6, AgedWriting

\* An update has the group, and the patched object has the update.
LEMMA PatchedIs ==
  ASSUME IInv, NEW v \in IDs
  PROVE  /\ Of(v) \in SUBSET updates
         /\ \A f \in Fields :
              IF <<v, f>> \in FieldsOf(Of(v)) THEN Patched(v)[f] = Group(v, f)
              ELSE Patched(v)[f] = shown[v][f]
         /\ \A u \in Of(v) : u.id = v /\ u.field \in Fields /\ u.value = Group(v, u.field)
<1>1. \A u \in Of(v) : u.id = v /\ u.field \in Fields /\ u.value = Group(v, u.field)
  BY DEF Of, IInv, TypeOK, UpdatesAreCurrent, IsCurrent, Group, Fields
<1>2. ASSUME NEW f \in Fields
      PROVE  IF <<v, f>> \in FieldsOf(Of(v)) THEN Patched(v)[f] = Group(v, f)
             ELSE Patched(v)[f] = shown[v][f]
  <2> DEFINE mine == {u \in Of(v) : u.field = f}
  <2>1. Patched(v)[f] = IF mine = {} THEN shown[v][f] ELSE UNION {u.value : u \in mine}
    BY DEF Patched
  <2>2. <<v, f>> \in FieldsOf(Of(v)) <=> mine # {}
    BY <1>1 DEF FieldsOf
  <2>3. \A u \in mine : u.value = Group(v, f)
    BY <1>1
  <2> HIDE DEF mine
  <2>4. mine # {} => UNION {u.value : u \in mine} = Group(v, f)
    BY <2>3
  <2> QED BY <2>1, <2>2, <2>4
<1> QED BY <1>1, <1>2 DEF Of

\* The values of fields of v that updates are for show its group.
LEMMA GroupIsShown ==
  ASSUME NEW v, NEW f \in Fields, NEW shows, shows[f] = Group(v, f),
         UNCHANGED <<relGroups, upGroups>>
  PROVE  \A form : ShowsNext(v, f, shows, form)
BY DEF ShowsNext, Group

LEMMA PatchReadIInv ==
  ASSUME IInv, NEW v \in IDs, PatchRead(v)
  PROVE  IInv'
<1>t. TypeOK
  BY DEF IInv
<1>1. /\ Ended(rel.pc) /\ Ended(ups.pc) /\ Of(v) # {} /\ v \in public
      /\ patch' = [of |-> {v}, shows |-> Patched(v), fresh |-> TRUE]
      /\ UNCHANGED <<store, rel, ups, updates, work, retries, stale, imports, faults>>
  BY DEF PatchRead, NextPatch
<1>2. Patched(v) \in Shapes
  <2>1. \A f \in Fields : Group(v, f) \in IDSets /\ shown[v][f] \in IDSets
    BY <1>t DEF TypeOK, Shapes, Group, Graphs
  <2>2. \A f \in Fields : Patched(v)[f] \in IDSets
    BY <2>1, PatchedIs
  <2> QED BY <2>2 DEF Shapes, Patched
<1>3. OutsideTypes'
  BY <1>1, <1>2, <1>t DEF OutsideTypes, TypeOK, store, bucket, Singles
<1>4. PatchIsSent'
  <2>1. patch'.of = {v} /\ patch'.shows = Patched(v) /\ Of(v)' = Of(v)
    BY <1>1 DEF Of
  <2>2. \A u \in Of(v) : Patched(v)[u.field] = u.value
    BY PatchedIs DEF FieldsOf
  <2>3. \A f \in Fields : <<v, f>> \in FieldsOf(Of(v)) \/ Patched(v)[f] = shown[v][f]
    BY PatchedIs
  <2> QED BY <1>1, <2>1, <2>2, <2>3 DEF PatchIsSent, store, bucket, FieldsOf
<1>5. Kept({}) /\ RecordsKept({}) /\ AgedWork({})
      /\ \A l \in retries' : \E r \in retries : IsAged(l, r, {})
  BY <1>1, NoGroupMoves DEF store, RecordsKept, AgedWork, IsCarried, IsAged
<1>6. WorkKnows' /\ RetriesKnow'
  BY <1>5, WorkKept, RetriesKept
<1>7. GroupsAreShown'
  BY <1>1, <1>5, AgedWriting, PublicKept DEF store, bucket
<1> QED BY <1>1, <1>3, <1>4, <1>6, <1>7, OutsideIInv DEF Knows, store

\* The Updater, or a run that is killed, is through with updates.
LEMMA ThroughIInv ==
  ASSUME IInv, NEW us \in SUBSET updates, updates' = updates \ us,
         UNCHANGED <<rec, public, relGroups, upGroups, rel, ups, imports>>,
         faults' \in 0..MaxFaults, shown' \in [IDs -> Shapes],
         patch' = NoPatch, work' = LateWork(FieldsOf(us)),
         retries' \subseteq RetryStates, stale' \subseteq IDs \X Fields,
         \A l \in retries' : \/ l \in LateRetries(FieldsOf(us))
                             \/ \A f \in Fields \ l.late : l.shows[f] = Group(l.id, f),
         \A x \in public : \A f \in Fields :
           \/ shown'[x][f] = Group(x, f)
           \/ /\ shown'[x] = shown[x]
              /\ <<x, f>> \in stale \cup FieldsOf(us) => <<x, f>> \in stale'
           \/ /\ <<x, f>> \notin FieldsOf(us) /\ shown'[x][f] = shown[x][f]
              /\ <<x, f>> \in stale => <<x, f>> \in stale'
  PROVE  IInv'
<1> DEFINE settled == FieldsOf(us)
<1>t. TypeOK
  BY DEF IInv
<1>1. /\ Kept(settled) /\ RecordsKept(settled) /\ WorkKnows'
      /\ work' \in [Workers -> WorkStates]
      /\ \A l \in LateRetries(settled), f \in Fields :
           f \notin l.late => ShowsNext(l.id, f, l.shows, rec'[l.id].form)
      /\ \A x : \A w \in Workers : Writing(w, x) <=> Writing(w, x)'
  BY Settled
<1> HIDE DEF settled
<1>2. patch' \in [of : Singles, shows : Shapes, fresh : BOOLEAN] /\ patch'.of = {}
  BY DEF NoPatch, NothingShown, Singles, Shapes, None, IDSets
<1>3. OutsideTypes'
  BY <1>1, <1>2, <1>t DEF OutsideTypes, TypeOK
<1>4. PatchIsSent'
  BY <1>2 DEF PatchIsSent
<1>5. RetriesKnow'
  <2> SUFFICES ASSUME NEW l \in retries', NEW f \in Fields \ l.late
               PROVE  ShowsNext(l.id, f, l.shows, rec'[l.id].form)
    BY DEF RetriesKnow, Shows, ShowsNext
  <2>1. CASE l \in LateRetries(settled)
    BY <1>1, <2>1
  <2>2. CASE l.shows[f] = Group(l.id, f)
    BY <2>2, GroupIsShown
  <2> QED BY <2>1, <2>2 DEF settled
<1>6. GroupsAreShown'
  <2> SUFFICES ASSUME NEW x \in public, \A w \in Workers : ~Writing(w, x)', NEW f \in Fields
               PROVE  <<x, f>> \in stale' \/ ShowsNext(x, f, shown'[x], rec'[x].form)
    BY DEF GroupsAreShown, Shows, ShowsNext
  <2>1. CASE shown'[x][f] = Group(x, f)
    BY <2>1, GroupIsShown
  <2>2. <<x, f>> \in stale \/ Shows(x, f, shown[x], rec[x].form)
    BY <1>1 DEF IInv, Knows, GroupsAreShown
  <2>3. x \in IDs
    BY <1>t DEF TypeOK, IDSets
  <2>4. <<x, f>> \notin settled /\ Shows(x, f, shown[x], rec[x].form)
          => ShowsNext(x, f, shown[x], rec[x].form)
    BY <1>1, <2>3, ShowsKept
  <2>5. shown'[x][f] = shown[x][f] /\ ShowsNext(x, f, shown[x], rec[x].form)
          => ShowsNext(x, f, shown'[x], rec'[x].form)
    BY DEF ShowsNext
  <2> QED BY <2>1, <2>2, <2>4, <2>5 DEF settled
<1> QED BY <1>1, <1>3, <1>4, <1>5, <1>6, OutsideIInv DEF Knows

LEMMA PatchSkipIInv ==
  ASSUME IInv, NEW v \in IDs, PatchSkip(v)
  PROVE  IInv'
<1> DEFINE settled == FieldsOf(Of(v))
<1>1. /\ v \in public => Patched(v) = shown[v]
      /\ updates' = updates \ Of(v) /\ patch' = NoPatch
      /\ work' = LateWork(settled) /\ retries' = LateRetries(settled)
      /\ stale' = IF v \in public THEN stale \ settled ELSE stale
      /\ UNCHANGED <<rec, public, shown, relGroups, upGroups, rel, ups, imports, faults>>
  BY DEF PatchSkip, Through, store, bucket
<1>2. /\ Of(v) \in SUBSET updates
      /\ \A f \in Fields : <<v, f>> \in settled => Patched(v)[f] = Group(v, f)
      /\ \A x, f : <<x, f>> \in settled => x = v
  BY PatchedIs DEF FieldsOf
<1>3. LateRetries(settled) \subseteq RetryStates
  BY LateWorkType DEF IInv
<1> HIDE DEF settled
<1>4. retries' \subseteq RetryStates /\ stale' \subseteq IDs \X Fields
      /\ faults' \in 0..MaxFaults /\ shown' \in [IDs -> Shapes]
  BY <1>1, <1>3 DEF IInv, TypeOK
<1>5. \A x \in public : \A f \in Fields :
        \/ shown'[x][f] = Group(x, f)
        \/ <<x, f>> \notin settled /\ (<<x, f>> \in stale => <<x, f>> \in stale')
  BY <1>1, <1>2
<1> QED BY <1>1, <1>2, <1>4, <1>5, ThroughIInv DEF settled

LEMMA PatchWriteIInv ==
  ASSUME IInv, NEW v \in IDs, PatchWrite(v)
  PROVE  IInv'
<1> DEFINE settled == FieldsOf(Of(v))
<1>1. /\ patch.of = {v} /\ patch.fresh /\ shown' = [shown EXCEPT ![v] = patch.shows]
      /\ updates' = updates \ Of(v) /\ patch' = NoPatch
      /\ work' = LateWork(settled) /\ retries' = LateRetries(settled)
      /\ stale' = stale \ settled
      /\ UNCHANGED <<rec, public, relGroups, upGroups, rel, ups, imports, faults>>
  BY DEF PatchWrite, Through
<1>2. /\ Of(v) \in SUBSET updates
      /\ \A x, f : <<x, f>> \in settled => x = v
  BY PatchedIs DEF FieldsOf
<1>3. LateRetries(settled) \subseteq RetryStates
  BY LateWorkType DEF IInv
<1>4. \A f \in Fields : IF <<v, f>> \in settled THEN patch.shows[f] = Group(v, f)
                        ELSE patch.shows[f] = shown[v][f]
  <2>1. \A u \in Of(v) : patch.shows[u.field] = Group(v, u.field)
    BY <1>1, PatchedIs DEF IInv, Knows, PatchIsSent
  <2>2. \A f \in Fields : <<v, f>> \in settled \/ patch.shows[f] = shown[v][f]
    BY <1>1 DEF IInv, Knows, PatchIsSent
  <2> QED BY <2>1, <2>2 DEF FieldsOf
<1> HIDE DEF settled
<1>5. retries' \subseteq RetryStates /\ stale' \subseteq IDs \X Fields
      /\ faults' \in 0..MaxFaults /\ shown' \in [IDs -> Shapes]
      /\ shown'[v] = patch.shows /\ \A x \in IDs \ {v} : shown'[x] = shown[x]
  BY <1>1, <1>3 DEF IInv, TypeOK
<1>6. \A x \in public : \A f \in Fields :
        \/ shown'[x][f] = Group(x, f)
        \/ /\ <<x, f>> \notin settled /\ shown'[x][f] = shown[x][f]
           /\ <<x, f>> \in stale => <<x, f>> \in stale'
  <2> SUFFICES ASSUME NEW x \in public, NEW f \in Fields
               PROVE  \/ shown'[x][f] = Group(x, f)
                      \/ /\ <<x, f>> \notin settled /\ shown'[x][f] = shown[x][f]
                         /\ <<x, f>> \in stale => <<x, f>> \in stale'
    OBVIOUS
  <2>1. x \in IDs
    BY DEF IInv, TypeOK, IDSets
  <2>2. CASE x = v
    BY <1>1, <1>4, <1>5, <2>2
  <2>3. CASE x # v
    BY <1>1, <1>2, <1>5, <2>1, <2>3
  <2> QED BY <2>2, <2>3
<1> QED BY <1>1, <1>2, <1>5, <1>6, ThroughIInv DEF settled

\* An update that is lost is noted: the patch fails, or goes to the recoverer.
LEMMA PatchLostIInv ==
  ASSUME IInv, NEW v \in IDs, PatchMismatch(v) \/ PatchFails(v)
  PROVE  IInv'
<1> DEFINE settled == FieldsOf(Of(v))
           new == Retry(v, patch.shows, {f \in Fields : <<v, f>> \notin settled})
<1>1. /\ updates' = updates \ Of(v) /\ patch' = NoPatch
      /\ work' = LateWork(settled) /\ stale' = stale \cup settled
      /\ UNCHANGED <<rec, public, shown, relGroups, upGroups, rel, ups, imports>>
  BY DEF PatchMismatch, PatchFails, Through, store, bucket
<1>t. TypeOK /\ faults' \in 0..MaxFaults
  BY FaultIsCounted DEF PatchMismatch, PatchFails, IInv, TypeOK
<1>2. /\ Of(v) \in SUBSET updates /\ settled \subseteq IDs \X Fields
      /\ LateRetries(settled) \subseteq RetryStates
  BY <1>t, PatchedIs, LateWorkType DEF FieldsOf, TypeOK
<1>3. \/ retries' = LateRetries(settled)
      \/ patch.of = {v} /\ retries' = LateRetries(settled) \cup {new}
  BY DEF PatchMismatch, PatchFails
<1>4. new \in RetryStates /\ new.id = v /\ new.shows = patch.shows
      /\ \A f \in Fields : f \notin new.late <=> <<v, f>> \in settled
  BY <1>t DEF Retry, RetryStates, TypeOK
<1>5. patch.of = {v} => \A f \in Fields : <<v, f>> \in settled => patch.shows[f] = Group(v, f)
  BY PatchedIs DEF IInv, Knows, PatchIsSent, FieldsOf
<1> HIDE DEF settled, new
<1>6. retries' \subseteq RetryStates /\ stale' \subseteq IDs \X Fields /\ shown' \in [IDs -> Shapes]
  BY <1>1, <1>2, <1>3, <1>4, <1>t DEF TypeOK
<1>7. \A l \in retries' : \/ l \in LateRetries(settled)
                          \/ \A f \in Fields \ l.late : l.shows[f] = Group(l.id, f)
  BY <1>3, <1>4, <1>5
<1>8. \A x \in public : \A f \in Fields :
        shown'[x] = shown[x] /\ (<<x, f>> \in stale \cup settled => <<x, f>> \in stale')
  BY <1>1
<1> QED BY <1>1, <1>2, <1>6, <1>7, <1>8, <1>t, ThroughIInv DEF settled

\* Runs that start or end. None has sent anything that is not settled.
LEMMA RunIInv ==
  ASSUME IInv, Start \/ RunEnds
  PROVE  IInv'
<1>1. PICK p \in {"idle", "query"} :
        rel' = [IdleRelated EXCEPT !.pc = p] /\ ups' = [IdleUpstream EXCEPT !.pc = p]
  <2>1. /\ IdleRelated = [IdleRelated EXCEPT !.pc = "idle"]
        /\ IdleUpstream = [IdleUpstream EXCEPT !.pc = "idle"]
    BY DEF IdleRelated, IdleUpstream
  <2> QED BY <2>1 DEF Start, RunEnds
<1>2. updates = {} /\ UNCHANGED <<store, updates, program, stale, imports, faults>>
  <2>1. \A u \in updates : u.field \in {"related", "upstream"}
    BY DEF IInv, TypeOK, Fields
  <2>2. CASE Start
    BY <2>1, <2>2 DEF Start, IInv, UpdatesAreCurrent, IsCurrent
  <2>3. CASE RunEnds
    BY <2>3 DEF RunEnds
  <2> QED BY <2>2, <2>3
<1>3. TypeOK'
  BY <1>1, <1>2, RestTypes
  DEF IInv, TypeOK, RelatedJobs, UpstreamJobs, TodoNamesSome, store, bucket, program
<1>4. Knows'
  BY <1>2, NoPatchYet, KnowsFrame
<1>5. UpdatesAreCurrent'
  BY <1>2 DEF UpdatesAreCurrent
<1> QED BY <1>1, <1>3, <1>4, <1>5, NothingRead DEF IInv

\* A run that is killed loses what was sent.
LEMMA CrashIInv ==
  ASSUME IInv, Crash
  PROVE  IInv'
<1> DEFINE settled == FieldsOf(updates)
<1>1. /\ rel' = [IdleRelated EXCEPT !.pc = "idle"] /\ ups' = [IdleUpstream EXCEPT !.pc = "idle"]
      /\ updates' = {} /\ patch' = NoPatch /\ stale' = stale \cup settled
      /\ work' = LateWork(settled) /\ retries' = LateRetries(settled)
      /\ UNCHANGED <<rec, public, shown, relGroups, upGroups, imports>>
  BY DEF Crash, IdleRelated, IdleUpstream, store, bucket
<1>t. TypeOK /\ faults' \in 0..MaxFaults
  BY FaultIsCounted DEF Crash, IInv
<1>2. /\ Kept(settled) /\ RecordsKept(settled) /\ WorkKnows'
      /\ work' \in [Workers -> WorkStates] /\ settled \subseteq IDs \X Fields
      /\ LateRetries(settled) \subseteq RetryStates
      /\ \A l \in LateRetries(settled), f \in Fields :
           f \notin l.late => ShowsNext(l.id, f, l.shows, rec'[l.id].form)
      /\ \A x : \A w \in Workers : Writing(w, x) <=> Writing(w, x)'
  BY <1>1, Settled
<1> HIDE DEF settled
<1>3. patch' \in [of : Singles, shows : Shapes, fresh : BOOLEAN] /\ patch'.of = {}
  BY <1>1 DEF NoPatch, NothingShown, Singles, Shapes, None, IDSets
<1>4. TypeOK'
  <2>1. rel' \in RelatedJobs /\ ups' \in UpstreamJobs /\ TodoNamesSome'
    BY <1>1, RestTypes
  <2> QED BY <1>1, <1>2, <1>3, <1>t, <2>1
      DEF TypeOK, RelatedJobs, UpstreamJobs, TodoNamesSome
<1>5. RetriesKnow'
  BY <1>1, <1>2 DEF RetriesKnow, Shows, ShowsNext
<1>6. PatchIsSent' /\ UpdatesAreCurrent'
  BY <1>1, <1>3 DEF PatchIsSent, UpdatesAreCurrent
<1>7. GroupsAreShown'
  BY <1>1, <1>2, PublicKept
<1> QED BY <1>1, <1>2, <1>4, <1>5, <1>6, <1>7, NothingRead DEF IInv, Knows

-----------------------------------------------------------------------------
(* The jobs. *)

\* A group is stored, and sent or, in a failure, missed.
LEMMA PutKnows ==
  ASSUME IInv, NEW v \in IDs, NEW g \in Fields, UNCHANGED <<rec, bucket, patch>>, patch.of = {},
         \A x \in IDs, f \in Fields : <<x, f>> # <<v, g>> =>
           Group(x, f)' = Group(x, f) /\ (Owes(x, f) => Owes(x, f)'),
         \/ Owes(v, g)' /\ UNCHANGED <<work, retries, stale>>
         \/ updates' = updates /\ Missed(v, g)
  PROVE  Knows' /\ work' \in [Workers -> WorkStates] /\ retries' \subseteq RetryStates
<1>t. TypeOK
  BY DEF IInv
<1>1. PatchIsSent' /\ UNCHANGED <<rec, public, shown>>
  BY DEF PatchIsSent, bucket
<1>2. CASE Owes(v, g)' /\ UNCHANGED <<work, retries, stale>>
  <2>1. Kept({}) /\ RecordsKept({}) /\ AgedWork({})
        /\ \A l \in retries' : \E r \in retries : IsAged(l, r, {})
    BY <1>1, <1>2 DEF Kept, RecordsKept, AgedWork, IsCarried, IsAged
  <2>2. GroupsAreShown'
    BY <1>1, <1>2, <2>1, AgedWriting, PublicKept
  <2> QED BY <1>1, <1>2, <1>t, <2>1, <2>2, WorkKept, RetriesKept DEF Knows, TypeOK
<1>3. CASE updates' = updates /\ Missed(v, g)
  <2> DEFINE settled == {<<v, g>>}
  <2>1. Kept(settled) /\ RecordsKept(settled)
    BY <1>1, <1>3 DEF Kept, RecordsKept
  <2>2. work' = LateWork(settled) /\ retries' = LateRetries(settled)
        /\ stale \cup settled \subseteq stale'
    BY <1>3 DEF Missed
  <2> HIDE DEF settled
  <2>3. AgedWork(settled) /\ \A l \in retries' : \E r \in retries : IsAged(l, r, settled)
    BY <1>t, <2>2, SettledIsAged, LateRetryIs
  <2>4. WorkKnows' /\ RetriesKnow'
    BY <2>1, <2>3, WorkKept, RetriesKept
  <2>5. GroupsAreShown'
    BY <1>1, <2>1, <2>2, AgedWriting, PublicKept
  <2> QED BY <1>1, <1>t, <2>2, <2>4, <2>5, LateWorkType DEF Knows
<1> QED BY <1>2, <1>3

-----------------------------------------------------------------------------
(* The related job. *)

\* A step of the related job that stores and sends nothing.
LEMMA RelatedFrame ==
  ASSUME IInv, UNCHANGED <<store, ups, updates, program, stale, imports, faults>>,
         rel' \in RelatedJobs, RelatedLoop', Ended(rel.pc) => UNCHANGED rel,
         \A u \in updates : u.field = "related" =>
           rel'.pc \in {"store", "done", "failed"} /\ rel'.groups = rel.groups
  PROVE  IInv'
<1>1. TypeOK'
  BY DEF IInv, TypeOK, RelatedJobs, store, bucket, program
<1>2. UpstreamLoop'
  BY DEF IInv, UpstreamLoop, WalkIsPart, Met, UpstreamOf, UpClosed, store
<1>3. UpdatesAreCurrent'
  BY DEF IInv, UpdatesAreCurrent, IsCurrent, store
<1>4. Knows'
  BY NoPatchYet, KnowsFrame
<1> QED BY <1>1, <1>2, <1>3, <1>4 DEF IInv

\* No update is from a related job that has not come to storing.
LEMMA NoneSentYet ==
  ASSUME IInv, rel.pc \in {"idle", "query", "invert"}, NEW u \in updates
  PROVE  u.field # "related"
BY DEF IInv, UpdatesAreCurrent, IsCurrent

\* What is read is what the loop begins with.
LEMMA RelatedReadsIInv ==
  ASSUME IInv, RelatedReads
  PROVE  IInv'
<1> DEFINE raw == [v \in IDs |-> IF rec[v].known THEN rec[v].form.related ELSE {}]
           gone == {v \in IDs : raw[v] # {} /\ rec[v].form.withdrawn}
           named == {v \in IDs : raw[v] # {}}
<1>1. /\ rel.pc = "query"
      /\ rel' = [pc |-> "invert", raw |-> raw, groups |-> raw, withdrawn |-> gone, todo |-> named]
      /\ UNCHANGED <<store, ups, updates, program, stale, imports, faults>>
  BY DEF RelatedReads
<1>2. \A v \in IDs : raw[v] \in IDSets
  BY DEF IInv, TypeOK, Form, IDSets
<1>3. raw \in Graphs /\ gone \in IDSets /\ named \in IDSets
  BY <1>2 DEF Graphs, IDSets
<1>4. \A v \in IDs \ named : raw[v] = {}
  OBVIOUS
<1> HIDE DEF raw, gone, named
<1>5. rel' \in RelatedJobs
  BY <1>1, <1>3 DEF RelatedJobs
<1>6. RelatedLoop'
  BY <1>1, <1>3, <1>4 DEF RelatedLoop, RelatedOf, Graphs
<1> QED BY <1>1, <1>5, <1>6, NoneSentYet, RelatedFrame DEF Ended

\* A turn of the loop adds a record to the groups of what it is related to: what
\* it names, and what is in its group because that names it.
LEMMA InvertIInv ==
  ASSUME IInv, NEW v \in IDs, Invert(v)
  PROVE  IInv'
<1> DEFINE related == IF v \in rel.withdrawn THEN {} ELSE rel.groups[v]
           added == {x \in related : rel.groups[x] = None}
           groups == [x \in IDs |-> IF x \in related THEN rel.groups[x] \cup {v} ELSE rel.groups[x]]
<1>1. PICK reached \in SUBSET added :
        rel' = [rel EXCEPT !.groups = groups, !.todo = (rel.todo \ {v}) \cup reached]
  BY DEF Invert
<1>2. /\ rel.pc = "invert" /\ v \in rel.todo
      /\ UNCHANGED <<store, ups, updates, program, stale, imports, faults>>
  BY DEF Invert
<1>t. rel \in RelatedJobs /\ RelatedLoop
  BY DEF IInv, TypeOK, RelatedJobs
<1>3. related \in IDSets
  BY <1>t DEF RelatedJobs, Graphs, IDSets
<1>4. groups \in Graphs
  BY <1>t, <1>3 DEF RelatedJobs, Graphs, IDSets
<1>5. added \in IDSets
  BY <1>3 DEF IDSets
<1>6. \A x \in related : v \in RelatedOf(x) \/ v \in rel.groups[x]
  <2> SUFFICES ASSUME NEW x \in related PROVE v \in RelatedOf(x) \/ v \in rel.groups[x]
    OBVIOUS
  <2>1. v \notin rel.withdrawn /\ x \in rel.groups[v] /\ x \in IDs
    BY <1>3 DEF IDSets
  <2>2. x \in RelatedOf(v)
    BY <1>t, <2>1 DEF RelatedLoop
  <2>3. CASE x \in rel.raw[v]
    BY <2>1, <2>3 DEF RelatedOf
  <2>4. CASE v \in rel.raw[x]
    BY <1>t, <2>1, <2>4 DEF RelatedLoop
  <2> QED BY <2>2, <2>3, <2>4 DEF RelatedOf
<1>7. \A x \in IDs : rel.groups[x] \subseteq groups[x] /\ groups[x] \subseteq RelatedOf(x)
  <2> SUFFICES ASSUME NEW x \in IDs
               PROVE  rel.groups[x] \subseteq groups[x] /\ groups[x] \subseteq RelatedOf(x)
    OBVIOUS
  <2> HIDE DEF related
  <2>1. rel.groups[x] \subseteq RelatedOf(x)
    BY <1>t DEF RelatedLoop
  <2> QED BY <1>6, <2>1
<1>8. v \notin rel.withdrawn => \A x \in rel.raw[v] : v \in groups[x]
  <2>1. rel.raw[v] \subseteq rel.groups[v] /\ rel.raw[v] \subseteq IDs
    BY <1>t DEF RelatedLoop, RelatedJobs, Graphs, IDSets
  <2> QED BY <2>1
<1>9. /\ rel'.pc = "invert" /\ rel'.raw = rel.raw /\ rel'.withdrawn = rel.withdrawn
      /\ rel'.groups = groups /\ rel'.todo = (rel.todo \ {v}) \cup reached
  BY <1>1, <1>2, <1>t DEF RelatedJobs
<1>10. rel' \in RelatedJobs
  <2> HIDE DEF groups, added
  <2> QED BY <1>1, <1>4, <1>5, <1>t DEF RelatedJobs, IDSets
<1>11. RelatedLoop'
  <2> HIDE DEF groups, related, added
  <2>1. \A x \in IDs : RelatedOf(x)' = RelatedOf(x)
    BY <1>9 DEF RelatedOf
  <2>2. \A x \in IDs : rel'.raw[x] \subseteq rel'.groups[x] /\ rel'.groups[x] \subseteq RelatedOf(x)'
    BY <1>t, <1>7, <1>9, <2>1 DEF RelatedLoop
  <2>3. ASSUME NEW w \in IDs \ (rel'.withdrawn \cup rel'.todo), NEW x \in rel'.raw[w]
        PROVE  w \in rel'.groups[x]
    <3>1. x \in IDs
      BY <1>t, <1>9, <2>3 DEF RelatedJobs, Graphs, IDSets
    <3>2. CASE w = v
      BY <1>8, <1>9, <2>3, <3>2
    <3>3. CASE w # v
      <4>1. w \in IDs \ (rel.withdrawn \cup rel.todo)
        BY <1>9, <2>3, <3>3
      <4> QED BY <1>t, <1>7, <1>9, <2>3, <3>1, <4>1 DEF RelatedLoop
    <3> QED BY <3>2, <3>3
  <2> QED BY <1>9, <2>2, <2>3 DEF RelatedLoop
<1> QED BY <1>2, <1>10, <1>11, NoneSentYet, RelatedFrame DEF Ended

\* The loops end with nothing left.
LEMMA RelatedMovesOnIInv ==
  ASSUME IInv, Inverted \/ RelatedDone
  PROVE  IInv'
<1>1. PICK p \in {"store", "done"} :
        /\ rel' = [rel EXCEPT !.pc = p]
        /\ p = "store" => rel.pc = "invert" /\ rel.todo = {}
        /\ p = "done" => rel.pc = "store" /\ relGroups = rel.groups
  BY DEF Inverted, RelatedDone
<1>2. UNCHANGED <<store, ups, updates, program, stale, imports, faults>>
  BY DEF Inverted, RelatedDone
<1>t. rel \in RelatedJobs /\ RelatedLoop
  BY DEF IInv, TypeOK, RelatedJobs
<1>3. /\ rel'.pc = p /\ rel'.raw = rel.raw /\ rel'.withdrawn = rel.withdrawn
      /\ rel'.groups = rel.groups /\ rel'.todo = rel.todo /\ rel' \in RelatedJobs
  BY <1>1, <1>t DEF RelatedJobs
<1>4. RelatedLoop'
  BY <1>1, <1>2, <1>3, <1>t DEF RelatedLoop, RelatedOf, store
<1> QED BY <1>1, <1>2, <1>3, <1>4, RelatedFrame DEF Ended

\* A group that changes is not yet sent.
LEMMA ChangeIsUnsent ==
  ASSUME IInv, NEW v \in IDs, relGroups[v] # rel.groups[v], NEW u \in updates, u.field = "related"
  PROVE  u.id # v
BY DEF IInv, UpdatesAreCurrent, IsCurrent

\* The Put of a related group, sent or, in a failure, noted as lost.
LEMMA PutRelatedIInv ==
  ASSUME IInv, NEW v \in IDs, rel.pc = "store", relGroups[v] # rel.groups[v], PutRelated(v),
         UNCHANGED <<rec, bucket, upGroups, ups, patch, imports>>,
         NEW p \in {"store", "failed"}, rel' = [rel EXCEPT !.pc = p], faults' \in 0..MaxFaults,
         \/ /\ updates' = updates \cup {Sent(v, "related", rel.groups[v])}
            /\ UNCHANGED <<work, retries, stale>>
         \/ updates' = updates /\ Missed(v, "related")
  PROVE  IInv'
<1>t. TypeOK /\ rel \in RelatedJobs /\ RelatedLoop
  BY DEF IInv, TypeOK, RelatedJobs
<1>1. /\ rel'.pc = p /\ rel'.raw = rel.raw /\ rel'.withdrawn = rel.withdrawn
      /\ rel'.groups = rel.groups /\ rel'.todo = rel.todo /\ rel' \in RelatedJobs
  BY <1>t DEF RelatedJobs
<1>2. relGroups' \in Graphs /\ rel.groups[v] \in IDSets /\ relGroups'[v] = rel.groups[v]
      /\ \A x \in IDs \ {v} : relGroups'[x] = relGroups[x]
  BY <1>t DEF PutRelated, TypeOK, RelatedJobs, Graphs
<1>3. Sent(v, "related", rel.groups[v]) \in [id : IDs, field : Fields, value : IDSets]
  BY <1>2 DEF Sent, Fields
<1>4. work' \in [Workers -> WorkStates] /\ retries' \subseteq RetryStates => TypeOK'
  <2>1. updates' \subseteq [id : IDs, field : Fields, value : IDSets] /\ stale' \subseteq IDs \X Fields
    BY <1>3, <1>t DEF TypeOK, Fields, Missed
  <2> QED BY <1>1, <1>2, <1>t, <2>1 DEF TypeOK, RelatedJobs, bucket
<1>5. RelatedLoop'
  BY <1>1, <1>t DEF RelatedLoop, RelatedOf
<1>6. UpstreamLoop'
  BY DEF IInv, UpstreamLoop, WalkIsPart, Met, UpstreamOf, UpClosed
<1>7. UpdatesAreCurrent'
  <2> SUFFICES ASSUME NEW u \in updates' PROVE IsCurrent(u)'
    BY DEF UpdatesAreCurrent
  <2>1. CASE u \in updates
    <3>1. IsCurrent(u) /\ u.id \in IDs
      BY <1>t, <2>1 DEF IInv, UpdatesAreCurrent, TypeOK
    <3>2. u.field = "related" => u.id # v
      BY <2>1, ChangeIsUnsent
    <3> QED BY <1>1, <1>2, <3>1, <3>2 DEF IsCurrent
  <2>2. CASE u = Sent(v, "related", rel.groups[v])
    BY <1>1, <1>2, <2>2 DEF IsCurrent, Sent
  <2> QED BY <2>1, <2>2
<1>8. Knows' /\ work' \in [Workers -> WorkStates] /\ retries' \subseteq RetryStates
  <2>1. \A x \in IDs, f \in Fields : <<x, f>> # <<v, "related">> =>
          Group(x, f)' = Group(x, f) /\ (Owes(x, f) => Owes(x, f)')
    BY <1>2 DEF Group, Owes, Fields
  <2>2. \/ Owes(v, "related")' /\ UNCHANGED <<work, retries, stale>>
        \/ updates' = updates /\ Missed(v, "related")
    BY <1>2 DEF Owes, Group
  <2>3. patch.of = {}
    BY NoPatchYet DEF Ended
  <2>4. UNCHANGED <<rec, bucket, patch>> /\ {"related", "upstream"} \subseteq Fields
    BY DEF Fields
  <2> QED BY <2>1, <2>2, <2>3, <2>4, PutKnows
<1> QED BY <1>4, <1>5, <1>6, <1>7, <1>8 DEF IInv

\* A group is stored and sent.
LEMMA StoreRelatedIInv ==
  ASSUME IInv, NEW v \in IDs, StoreRelated(v)
  PROVE  IInv'
<1>1. rel' = [rel EXCEPT !.pc = "store"]
  BY DEF StoreRelated, IInv, TypeOK
<1>2. faults' \in 0..MaxFaults
  BY DEF StoreRelated, IInv, TypeOK
<1> QED BY <1>1, <1>2, PutRelatedIInv DEF StoreRelated, program

\* The job gives up, perhaps with a group stored and not sent.
LEMMA RelatedFailsIInv ==
  ASSUME IInv, RelatedFails
  PROVE  IInv'
<1>1. faults' \in 0..MaxFaults
  BY FaultIsCounted DEF RelatedFails, IInv
<1>2. CASE UNCHANGED <<relGroups, work, retries, stale>>
  <2>t. rel \in RelatedJobs /\ RelatedLoop
    BY DEF IInv, TypeOK, RelatedJobs
  <2>1. /\ rel'.pc = "failed" /\ rel'.raw = rel.raw /\ rel'.withdrawn = rel.withdrawn
        /\ rel'.groups = rel.groups /\ rel'.todo = rel.todo /\ rel' \in RelatedJobs
    BY <2>t DEF RelatedFails, RelatedJobs
  <2>2. UNCHANGED <<store, ups, updates, program, stale, imports>> /\ ~Ended(rel.pc)
    BY <1>2 DEF RelatedFails, store, program, Ended
  <2>3. TypeOK'
    BY <1>1, <2>1, <2>2 DEF IInv, TypeOK, RelatedJobs, store, bucket, program
  <2>4. RelatedLoop'
    BY <2>1, <2>t DEF RelatedLoop, RelatedOf
  <2>5. UpstreamLoop'
    BY <2>2 DEF IInv, UpstreamLoop, WalkIsPart, Met, UpstreamOf, UpClosed, store
  <2>6. UpdatesAreCurrent'
    BY <2>1, <2>2 DEF IInv, UpdatesAreCurrent, IsCurrent, store
  <2>7. Knows'
    BY <2>2, NoPatchYet, KnowsFrame
  <2> QED BY <2>3, <2>4, <2>5, <2>6, <2>7 DEF IInv
<1>3. CASE \E v \in IDs : /\ rel.pc = "store" /\ relGroups[v] # rel.groups[v]
                          /\ PutRelated(v)
                          /\ Missed(v, "related")
  BY <1>1, <1>3, PutRelatedIInv DEF RelatedFails
<1> QED BY <1>2, <1>3 DEF RelatedFails

-----------------------------------------------------------------------------
(* The upstream job. *)

\* A step of the upstream job that stores and sends nothing.
LEMMA UpstreamFrame ==
  ASSUME IInv, UNCHANGED <<store, rel, updates, program, stale, imports>>, faults' \in 0..MaxFaults,
         ups' \in UpstreamJobs, TodoNamesSome', UpstreamLoop', ~Ended(ups.pc),
         \A u \in updates : u.field = "upstream" =>
           /\ ups'.pc \in {"next", "walk", "done", "failed"}
           /\ u.id \notin ups'.todo \cup ups'.for
  PROVE  IInv'
<1>1. TypeOK'
  BY DEF IInv, TypeOK, UpstreamJobs, TodoNamesSome, store, bucket, program
<1>2. RelatedLoop'
  BY DEF IInv, RelatedLoop, RelatedOf, store
<1>3. UpdatesAreCurrent'
  BY DEF IInv, UpdatesAreCurrent, IsCurrent, store
<1>4. Knows'
  BY NoPatchYet, KnowsFrame
<1> QED BY <1>1, <1>2, <1>3, <1>4 DEF IInv

\* What the jobs have sent is of ids they have treated.
LEMMA SentWereTreated ==
  ASSUME IInv, NEW u \in updates, u.field = "upstream"
  PROVE  /\ ups.pc \in {"next", "walk", "done", "failed"}
         /\ u.id \notin ups.todo \cup ups.for
BY DEF IInv, UpdatesAreCurrent, IsCurrent

\* Records that name none have nothing to compute.
LEMMA UpstreamReadsIInv ==
  ASSUME IInv, UpstreamReads
  PROVE  IInv'
<1> DEFINE raw == [v \in IDs |-> IF rec[v].known THEN rec[v].form.upstream ELSE {}]
           named == {v \in IDs : raw[v] # {}}
<1>1. /\ ups.pc = "query"
      /\ ups' = [IdleUpstream EXCEPT !.pc = "next", !.raw = raw, !.todo = named]
      /\ UNCHANGED <<store, rel, updates, program, stale, imports, faults>>
  BY DEF UpstreamReads
<1>2. \A v \in IDs : raw[v] \in IDSets
  BY DEF IInv, TypeOK, Form, IDSets
<1>3. raw \in Graphs /\ named \in IDSets
  BY <1>2 DEF Graphs, IDSets
<1>4. \A v \in IDs : v \in named <=> raw[v] # {}
  OBVIOUS
<1> HIDE DEF raw, named
<1>5. /\ ups'.pc = "next" /\ ups'.raw = raw /\ ups'.todo = named /\ ups'.for = None
      /\ ups' \in UpstreamJobs
  BY <1>1, <1>3 DEF IdleUpstream, UpstreamJobs, IDSets, None
<1>6. UpstreamLoop' /\ TodoNamesSome'
  BY <1>3, <1>4, <1>5 DEF UpstreamLoop, TodoNamesSome, IDSets
<1>7. faults' \in 0..MaxFaults
  BY <1>1 DEF IInv, TypeOK
<1> QED BY <1>1, <1>5, <1>6, <1>7, SentWereTreated, UpstreamFrame DEF Ended

\* What the record names belongs to its upstreams.
LEMMA NamedAreUpstream == \A v \in IDs : ups.raw[v] \in IDSets => ups.raw[v] \subseteq UpstreamOf(v)
BY DEF UpstreamOf, IDSets

\* A walk begins with what the record names.
LEMMA WalkUpIInv ==
  ASSUME IInv, NEW v \in IDs, WalkUp(v)
  PROVE  IInv'
<1>t. ups \in UpstreamJobs /\ UpstreamLoop /\ TodoNamesSome
  BY DEF IInv, TypeOK, UpstreamJobs, TodoNamesSome
<1>1. /\ ups.pc = "next" /\ v \in ups.todo
      /\ UNCHANGED <<store, rel, updates, program, stale, imports, faults>>
  BY DEF WalkUp
<1>2. /\ ups'.pc = "walk" /\ ups'.raw = ups.raw /\ ups'.todo = ups.todo \ {v}
      /\ ups'.for = {v} /\ ups'.found = {} /\ ups'.toVisit = ups.raw[v]
  BY <1>t DEF WalkUp, UpstreamJobs
<1>3. ups' \in UpstreamJobs
  <2>1. ups.raw[v] \in IDSets /\ {} \in IDSets /\ ups.todo \ {v} \in IDSets
    BY <1>t DEF UpstreamJobs, Graphs, IDSets
  <2> QED BY <1>t, <2>1 DEF WalkUp, UpstreamJobs
<1>4. WalkIsPart(v)'
  <2>1. Met' = ups.raw[v] /\ UpstreamOf(v)' = UpstreamOf(v)
    BY <1>2 DEF Met, UpstreamOf, UpClosed
  <2>2. ups.raw[v] \in IDSets
    BY <1>t DEF UpstreamJobs, Graphs
  <2> QED BY <1>1, <1>2, <1>t, <2>1, <2>2, NamedAreUpstream DEF WalkIsPart, TodoNamesSome
<1>5. ups.for = {} /\ ups'.todo \cup ups'.for = ups.todo \cup ups.for
  BY <1>1, <1>2, <1>t DEF UpstreamLoop, None
<1>6. UpstreamLoop'
  <2>1. \A x \in IDs : UpstreamOf(x)' = UpstreamOf(x)
    BY <1>2 DEF UpstreamOf, UpClosed
  <2> QED BY <1>1, <1>2, <1>4, <1>5, <1>t, <2>1 DEF UpstreamLoop, store
<1>7. TodoNamesSome' /\ faults' \in 0..MaxFaults
  BY <1>1, <1>2, <1>t DEF TodoNamesSome, IInv, TypeOK
<1> QED BY <1>1, <1>2, <1>3, <1>5, <1>6, <1>7, SentWereTreated, UpstreamFrame DEF Ended

\* A turn of the walk meets the upstreams of what it visits.
LEMMA VisitIInv ==
  ASSUME IInv, NEW u \in IDs, Visit(u)
  PROVE  IInv'
<1>t. ups \in UpstreamJobs /\ UpstreamLoop /\ TodoNamesSome
  BY DEF IInv, TypeOK, UpstreamJobs, TodoNamesSome
<1>1. /\ ups.pc = "walk" /\ u \in ups.toVisit
      /\ UNCHANGED <<store, rel, updates, program, stale, imports, faults>>
  BY DEF Visit
<1>2. /\ ups'.pc = "walk" /\ ups'.raw = ups.raw /\ ups'.todo = ups.todo /\ ups'.for = ups.for
      /\ ups'.found = ups.found \cup {u}
      /\ ups'.toVisit = (ups.toVisit \cup ups.raw[u]) \ (ups.found \cup {u})
  BY <1>1, <1>t DEF Visit, UpstreamJobs
<1>3. ups' \in UpstreamJobs
  <2>1. ups.raw[u] \in IDSets /\ ups.found \in IDSets /\ ups.toVisit \in IDSets
    BY <1>t DEF UpstreamJobs, Graphs
  <2>2. ups.found \cup {u} \in IDSets /\ (ups.toVisit \cup ups.raw[u]) \ (ups.found \cup {u}) \in IDSets
    BY <2>1 DEF IDSets
  <2> QED BY <1>t, <2>2 DEF Visit, UpstreamJobs
<1>4. PICK v \in IDs : WalkIsPart(v)
  BY <1>1, <1>t DEF UpstreamLoop
<1>5. \A x \in IDs : UpstreamOf(x)' = UpstreamOf(x)
  BY <1>2 DEF UpstreamOf, UpClosed
<1>6. Met' = Met \cup ups.raw[u] /\ u \in Met
  BY <1>1, <1>2 DEF Met
<1>7. ups.raw[u] \subseteq UpstreamOf(v)
  <2>1. u \in UpstreamOf(v) /\ ups.raw[u] \in IDSets
    BY <1>4, <1>6, <1>t DEF WalkIsPart, UpstreamJobs, Graphs
  <2>2. \A S \in IDSets : ups.raw[v] \subseteq S /\ UpClosed(S) => ups.raw[u] \subseteq S
    BY <2>1 DEF UpstreamOf, UpClosed
  <2> QED BY <2>1, <2>2 DEF UpstreamOf, IDSets
<1>8. WalkIsPart(v)'
  BY <1>2, <1>4, <1>5, <1>6, <1>7 DEF WalkIsPart
<1>9. UpstreamLoop'
  BY <1>1, <1>2, <1>5, <1>8, <1>t DEF UpstreamLoop, store
<1>10. TodoNamesSome' /\ faults' \in 0..MaxFaults
  BY <1>1, <1>2, <1>t DEF TodoNamesSome, IInv, TypeOK
<1> QED BY <1>1, <1>2, <1>3, <1>9, <1>10, SentWereTreated, UpstreamFrame DEF Ended

\* A walk with nothing left to visit has found the upstreams, and at least one.
LEMMA WalkFindsUpstreams ==
  ASSUME IInv, NEW v \in IDs, ups.pc = "walk", ups.toVisit = {}, ups.for = {v}
  PROVE  ups.found = UpstreamOf(v) /\ ups.raw[v] # {}
<1>1. WalkIsPart(v)
  <2>1. PICK w \in IDs : WalkIsPart(w)
    BY DEF IInv, UpstreamLoop
  <2>2. w = v
    BY <2>1 DEF WalkIsPart
  <2> QED BY <2>1, <2>2
<1>2. Met = ups.found /\ ups.found \in IDSets
  BY DEF Met, IInv, TypeOK
<1>3. UpClosed(ups.found) /\ ups.raw[v] \subseteq ups.found
  BY <1>1, <1>2 DEF WalkIsPart, UpClosed
<1>4. UpstreamOf(v) \subseteq ups.found
  BY <1>2, <1>3 DEF UpstreamOf
<1> QED BY <1>1, <1>2, <1>4 DEF WalkIsPart

\* The end of a walk, or of the job, when no group is put.
LEMMA WalkEndsIInv ==
  ASSUME IInv, UNCHANGED <<store, rel, updates, program, stale, imports>>, faults' \in 0..MaxFaults,
         \/ /\ UNCHANGED ups.raw /\ UNCHANGED ups.todo /\ ups'.for = None
            /\ ups.pc \in {"next", "walk"} /\ ups'.pc \in {"next", "done"}
            /\ ups'.pc = "done" => ups.todo = {}
            /\ \A v \in ups.for : upGroups[v] = UpstreamOf(v)
         \/ UNCHANGED <<ups.raw, ups.todo, ups.for>> /\ ups'.pc = "failed",
         ups' \in UpstreamJobs, ~Ended(ups.pc)
  PROVE  IInv'
<1>t. TypeOK /\ UpstreamLoop
  BY DEF IInv
<1>1. \A x \in IDs : UpstreamOf(x)' = UpstreamOf(x)
  BY DEF UpstreamOf, UpClosed
<1>2. UpstreamLoop'
  BY <1>1, <1>t DEF UpstreamLoop, None, store
<1>3. TodoNamesSome'
  BY <1>t DEF TodoNamesSome, TypeOK
<1> QED BY <1>2, <1>3, SentWereTreated, UpstreamFrame DEF None, Ended

\* The Put of an upstream group, sent or, in a failure, noted as lost.
LEMMA PutUpstreamIInv ==
  ASSUME IInv, NEW v \in IDs, ups.pc = "walk", ups.toVisit = {}, ups.for = {v}, PutUpstream(v),
         UNCHANGED <<rec, bucket, relGroups, rel, patch, imports>>, faults' \in 0..MaxFaults,
         ups' \in UpstreamJobs, UNCHANGED <<ups.raw, ups.todo>>,
         \/ /\ ups'.pc = "next" /\ ups'.for = None
            /\ updates' = updates \cup {Sent(v, "upstream", ups.found)}
            /\ UNCHANGED <<work, retries, stale>>
         \/ /\ ups'.pc = "failed" /\ ups'.for = {v}
            /\ updates' = updates /\ Missed(v, "upstream")
  PROVE  IInv'
<1>t. TypeOK /\ UpstreamLoop
  BY DEF IInv
<1>1. upGroups' \in Graphs /\ ups.found \in IDSets /\ upGroups'[v] = ups.found
      /\ \A x \in IDs \ {v} : upGroups'[x] = upGroups[x]
  BY <1>t DEF PutUpstream, TypeOK, Graphs
<1>2. Sent(v, "upstream", ups.found) \in [id : IDs, field : Fields, value : IDSets]
  BY <1>1 DEF Sent, Fields
<1>3. work' \in [Workers -> WorkStates] /\ retries' \subseteq RetryStates => TypeOK'
  <2>1. updates' \subseteq [id : IDs, field : Fields, value : IDSets] /\ stale' \subseteq IDs \X Fields
    BY <1>2, <1>t DEF TypeOK, Fields, Missed
  <2> QED BY <1>1, <1>t, <2>1 DEF TypeOK, UpstreamJobs, bucket
<1>4. RelatedLoop'
  BY DEF IInv, RelatedLoop, RelatedOf
<1>5. UpstreamLoop'
  <2>1. \A x \in IDs : UpstreamOf(x)' = UpstreamOf(x)
    BY DEF UpstreamOf, UpClosed
  <2>2. upGroups'[v] = UpstreamOf(v)
    BY <1>1, WalkFindsUpstreams
  <2> QED BY <1>1, <1>t, <2>1, <2>2 DEF UpstreamLoop, None
<1>6. UpdatesAreCurrent'
  <2> SUFFICES ASSUME NEW u \in updates' PROVE IsCurrent(u)'
    BY DEF UpdatesAreCurrent
  <2>1. CASE u \in updates
    <3>1. IsCurrent(u) /\ u.id \in IDs
      BY <1>t, <2>1 DEF IInv, UpdatesAreCurrent, TypeOK
    <3>2. u.field = "upstream" => u.id # v /\ u.id \notin ups.todo \cup ups.for
      BY <2>1, SentWereTreated
    <3> QED BY <1>1, <3>1, <3>2 DEF IsCurrent, None
  <2>2. CASE u \notin updates
    <3>1. u = Sent(v, "upstream", ups.found) /\ ups'.pc = "next" /\ ups'.for = None
      BY <2>2
    <3>2. v \notin ups.todo
      <4>1. PICK w \in IDs : WalkIsPart(w)
        BY <1>t DEF UpstreamLoop
      <4> QED BY <4>1 DEF WalkIsPart
    <3> QED BY <1>1, <3>1, <3>2 DEF IsCurrent, Sent, None
  <2> QED BY <2>1, <2>2
<1>7. Knows' /\ work' \in [Workers -> WorkStates] /\ retries' \subseteq RetryStates
  <2>1. \A x \in IDs, f \in Fields : <<x, f>> # <<v, "upstream">> =>
          Group(x, f)' = Group(x, f) /\ (Owes(x, f) => Owes(x, f)')
    BY <1>1 DEF Group, Owes, Fields
  <2>2. \/ Owes(v, "upstream")' /\ UNCHANGED <<work, retries, stale>>
        \/ updates' = updates /\ Missed(v, "upstream")
    BY <1>1 DEF Owes, Group
  <2>3. patch.of = {}
    BY NoPatchYet DEF Ended
  <2>4. UNCHANGED <<rec, bucket, patch>> /\ {"related", "upstream"} \subseteq Fields
    BY DEF Fields
  <2> QED BY <2>1, <2>2, <2>3, <2>4, PutKnows
<1> QED BY <1>3, <1>4, <1>5, <1>6, <1>7 DEF IInv

\* What was found is stored and sent, unless it is in the group already.
LEMMA StoreUpstreamIInv ==
  ASSUME IInv, NEW v \in IDs, StoreUpstream(v)
  PROVE  IInv'
<1>t. ups \in UpstreamJobs
  BY DEF IInv, TypeOK, UpstreamJobs
<1>1. /\ ups.pc = "walk" /\ ups.toVisit = {} /\ ups.for = {v}
      /\ ups' = [ups EXCEPT !.pc = "next", !.for = None, !.found = {}]
      /\ UNCHANGED <<rec, bucket, relGroups, rel, program, stale, imports, faults>>
  BY DEF StoreUpstream
<1>2. /\ ups'.pc = "next" /\ ups'.for = None /\ UNCHANGED <<ups.raw, ups.todo>>
      /\ ups' \in UpstreamJobs
  <2>1. {} \in IDSets
    BY DEF IDSets
  <2> QED BY <1>1, <1>t, <2>1 DEF UpstreamJobs, None
<1>3. faults' \in 0..MaxFaults
  BY <1>1 DEF IInv, TypeOK
<1>4. CASE upGroups[v] = ups.found
  <2>1. UNCHANGED <<upGroups, updates>>
    BY <1>4 DEF StoreUpstream
  <2>2. \A x \in ups.for : upGroups[x] = UpstreamOf(x)
    BY <1>1, <1>4, WalkFindsUpstreams
  <2> QED BY <1>1, <1>2, <1>3, <2>1, <2>2, WalkEndsIInv DEF store, Ended
<1>5. CASE upGroups[v] # ups.found
  <2>1. PutUpstream(v) /\ updates' = updates \cup {Sent(v, "upstream", ups.found)}
    BY <1>5 DEF StoreUpstream
  <2> QED BY <1>1, <1>2, <1>3, <2>1, PutUpstreamIInv DEF program
<1> QED BY <1>4, <1>5

\* The job ends when every record has been treated.
LEMMA UpstreamDoneIInv ==
  ASSUME IInv, UpstreamDone
  PROVE  IInv'
<1>t. ups \in UpstreamJobs /\ UpstreamLoop
  BY DEF IInv, TypeOK, UpstreamJobs
<1>1. /\ ups.pc = "next" /\ ups.todo = {} /\ ups.for = {}
      /\ ups'.pc = "done" /\ ups'.for = None /\ UNCHANGED <<ups.raw, ups.todo>>
      /\ ups' \in UpstreamJobs
  BY <1>t DEF UpstreamDone, UpstreamJobs, UpstreamLoop, None
<1>2. UNCHANGED <<store, rel, updates, program, stale, imports>> /\ faults' \in 0..MaxFaults
  BY DEF UpstreamDone, IInv, TypeOK
<1> QED BY <1>1, <1>2, WalkEndsIInv DEF Ended

\* The job gives up, perhaps with a group stored and not sent.
LEMMA UpstreamFailsIInv ==
  ASSUME IInv, UpstreamFails
  PROVE  IInv'
<1>t. ups \in UpstreamJobs
  BY DEF IInv, TypeOK, UpstreamJobs
<1>1. /\ ups'.pc = "failed" /\ UNCHANGED <<ups.raw, ups.todo, ups.for>> /\ ups' \in UpstreamJobs
      /\ faults' \in 0..MaxFaults
      /\ UNCHANGED <<rec, bucket, relGroups, rel, updates, patch, imports>>
  BY <1>t, FaultIsCounted DEF UpstreamFails, UpstreamJobs, IInv
<1>2. CASE UNCHANGED <<upGroups, work, retries, stale>>
  <2>1. ~Ended(ups.pc)
    BY DEF UpstreamFails, Ended
  <2> QED BY <1>1, <1>2, <2>1, WalkEndsIInv DEF store, program
<1>3. CASE /\ ups.pc = "walk" /\ ups.toVisit = {}
           /\ \E v \in ups.for : PutUpstream(v) /\ Missed(v, "upstream")
  <2>1. PICK v \in ups.for : PutUpstream(v) /\ Missed(v, "upstream")
    BY <1>3
  <2>2. v \in IDs /\ ups.for = {v}
    BY <1>t, <2>1 DEF UpstreamJobs, None
  <2> QED BY <1>1, <1>3, <2>1, <2>2, PutUpstreamIInv
<1> QED BY <1>2, <1>3 DEF UpstreamFails

-----------------------------------------------------------------------------
(* Theorems *)

\* Every step preserves the invariant.
LEMMA NextIInv == IInv /\ [Next]_vars => IInv'
<1> SUFFICES ASSUME IInv, [Next]_vars PROVE IInv'
  OBVIOUS
<1>1. ASSUME NEW w \in Workers, Worker(w) PROVE IInv'
  BY <1>1, BeginIInv, CommitIInv, UploadIInv, UploadFailsIInv, WorkerFailsIInv DEF Worker
<1>2. ASSUME NEW r \in retries, RetryUpload(r) \/ RetrySuperseded(r) PROVE IInv'
  BY <1>2, RetryUploadIInv, RetrySupersededIInv
<1>3. CASE Start \/ RunEnds \/ Crash
  BY <1>3, RunIInv, CrashIInv
<1>8. ASSUME NEW v \in IDs, Patch(v) \/ PatchFails(v) \/ PatchMismatch(v) PROVE IInv'
  BY <1>8, PatchReadIInv, PatchSkipIInv, PatchWriteIInv, PatchLostIInv DEF Patch
<1>4. CASE RelatedJob
  BY <1>4, RelatedReadsIInv, InvertIInv, RelatedMovesOnIInv, StoreRelatedIInv DEF RelatedJob
<1>5. CASE UpstreamJob
  BY <1>5, UpstreamReadsIInv, WalkUpIInv, VisitIInv, StoreUpstreamIInv, UpstreamDoneIInv
     DEF UpstreamJob
<1>6. CASE RelatedFails \/ UpstreamFails
  BY <1>6, RelatedFailsIInv, UpstreamFailsIInv
<1>7. CASE UNCHANGED vars
  <2>1. UNCHANGED <<store, ups, updates, program, stale, imports, faults, rel>> /\ rel \in RelatedJobs
        /\ RelatedLoop
    BY <1>7 DEF vars, IInv, TypeOK, RelatedJobs
  <2>2. \A u \in updates : u.field = "related" => rel'.pc \in {"store", "done", "failed"}
    BY <2>1 DEF IInv, UpdatesAreCurrent, IsCurrent
  <2>3. RelatedLoop'
    BY <2>1 DEF RelatedLoop, RelatedOf, store
  <2> QED BY <2>1, <2>2, <2>3, RelatedFrame DEF Ended
<1> QED BY <1>1, <1>2, <1>3, <1>8, <1>4, <1>5, <1>6, <1>7 DEF Next, Updater

\* The invariant holds, whatever fails and whatever is imported meanwhile.
THEOREM RelationInvariant == Spec => []IInv
BY InitIInv, NextIInv, PTL DEF Spec

\* The variables keep the types of the jobs' maps and of the entities.
THEOREM RelationTypes == Spec => []TypeOK
<1>1. IInv => TypeOK
  BY DEF IInv
<1> QED BY <1>1, RelationInvariant, PTL

\* When computeRelated has ended and its groups are stored, a record is related
\* to what it names and to what names it, unless that is withdrawn.
THEOREM RelatedHolds == Spec => []RelatedIsMutual
<1>1. IInv => RelatedIsMutual
  <2> SUFFICES ASSUME IInv, rel.pc = "done", NEW v \in IDs PROVE relGroups[v] = RelatedOf(v)
    BY DEF RelatedIsMutual
  <2>1. RelatedLoop /\ rel.todo = {} /\ relGroups = rel.groups
    BY DEF IInv, RelatedLoop
  <2>2. \A w \in IDs \ rel.withdrawn : v \in rel.raw[w] => w \in rel.groups[v]
    BY <2>1 DEF RelatedLoop
  <2> QED BY <2>1, <2>2 DEF RelatedLoop, RelatedOf
<1> QED BY <1>1, RelationInvariant, PTL

\* When the upstream job has ended, the group of every record that names an
\* upstream is the least set closed under the upstreams, cycles included.
THEOREM UpstreamHolds == Spec => []UpstreamIsTransitive
<1>1. IInv => UpstreamIsTransitive
  BY DEF IInv, UpstreamLoop, UpstreamIsTransitive, None
<1> QED BY <1>1, RelationInvariant, PTL

\* What a public record shows of a field is its group, or what it names, or the
\* group is still to be patched, or the record has missed it: to a failure, or to
\* an upload that was prepared before the Updater was through with the record.
THEOREM ShownHolds == Spec => []GroupsAreShown
<1>1. IInv => GroupsAreShown
  BY DEF IInv, Knows
<1> QED BY <1>1, RelationInvariant, PTL
=============================================================================
