---------------------------- MODULE RelationGroups ----------------------------
(***************************************************************************)
(* The related and the upstream job (related.go and upstream.go in         *)
(* apps/cli/cmd/relations), which run side by side in one process and send *)
(* what they change to the Updater, which patches the public records when  *)
(* both have ended.  Meanwhile workers import records.                     *)
(*                                                                         *)
(* The alias job, the third, is AliasGroups: it shares no entity with them.*)
(* The upstream hierarchy, made from the groups for display, is left       *)
(* out.  Groups are listed by a query of their own in the code; here with  *)
(* the records, as nobody else writes them (the CronJob forbids concurrent *)
(* runs).                                                                  *)
(*                                                                         *)
(* A worker reads the related group of its record, commits the entity and  *)
(* uploads the record without a generation, in three steps; the Updater    *)
(* reads an object and writes it if its generation has not moved.  "late"  *)
(* has the fields of a prepared write that were settled elsewhere since it *)
(* was prepared: to upload it puts old relations back.                     *)
(***************************************************************************)
EXTENDS Naturals, FiniteSets

CONSTANTS
  IDs,         \* ids of records, and ids that are only named
  Workers,     \* concurrent handlers of the task subscription
  Contents,    \* what its source may publish of an id
  MaxImports,  \* bound: imports of records
  MaxFaults,   \* bound: failed calls, of workers too, and killed runs
  MaxEvents    \* bound: imports and faults together

Form == [related : SUBSET IDs, upstream : SUBSET IDs, withdrawn : BOOLEAN]

ASSUME RelationsAssumption ==
  /\ IsFiniteSet(IDs) /\ Contents \in [IDs -> SUBSET Form]
  /\ MaxImports \in Nat /\ MaxFaults \in Nat /\ MaxEvents \in Nat

VARIABLES
  rec,        \* Vulnerability entities, NoRecord if there is none
  public,     \* ids with an object in the bucket
  shown,      \* the related and upstream ids the public record shows
  relGroups,  \* RelatedGroup entities, named by their id; {} if there is none
  upGroups,   \* UpstreamGroup entities by their VulnID; {} if there is none
  rel,        \* the related job
  ups,        \* the upstream job
  updates,    \* what the Updater has received
  patch,      \* of the Updater: the record it has read, as it will write it, and
              \* if its object is still of the generation it had then
  work,       \* of each worker: the record it imports
  retries,    \* gcs_retry messages: records whose upload failed
  stale,      \* history: <<id, field>> that the public record has missed
  imports, faults

bucket == <<public, shown>>
store == <<rec, bucket, relGroups, upGroups>>
program == <<work, retries, patch>>
vars == <<store, rel, ups, updates, program, stale, imports, faults>>

Fields == {"related", "upstream"}

None == {}
Nobody == [v \in IDs |-> None]
NoForm == [related |-> {}, upstream |-> {}, withdrawn |-> FALSE]

NothingShown == [f \in Fields |-> None]
NoPatch == [of |-> {}, shows |-> NothingShown, fresh |-> FALSE]
Idle == [pc |-> "idle", of |-> {}, form |-> NoForm, shows |-> NothingShown, late |-> {}]

IdleRelated == [pc |-> "idle", raw |-> Nobody, withdrawn |-> {}, groups |-> Nobody, todo |-> {}]
IdleUpstream == [pc |-> "idle", raw |-> Nobody, todo |-> {}, for |-> None, found |-> {}, toVisit |-> {}]

Init ==
  /\ rec = [v \in IDs |-> [known |-> FALSE, form |-> NoForm]]
  /\ public = {} /\ shown = [v \in IDs |-> NothingShown]
  /\ relGroups = Nobody /\ upGroups = Nobody
  /\ rel = IdleRelated /\ ups = IdleUpstream
  /\ updates = {} /\ stale = {} /\ patch = NoPatch
  /\ work = [w \in Workers |-> Idle] /\ retries = {}
  /\ imports = 0 /\ faults = 0

MoreEvents == imports + faults < MaxEvents
Fault == faults < MaxFaults /\ MoreEvents /\ faults' = faults + 1

-----------------------------------------------------------------------------
(* The worker with the relations enricher, and the recoverer *)

Named(form, f) == IF f = "related" THEN form.related ELSE form.upstream

\* GetRelated finds a group by its name. GetUpstream looks for a name as well,
\* which no UpstreamGroup has: Datastore makes up their keys.
Enriched(v, form) ==
  [f \in Fields |-> IF f = "related" /\ relGroups[v] # None THEN relGroups[v] ELSE Named(form, f)]

Begin(w, v, form) ==
  /\ work[w].pc = "idle"
  /\ imports < MaxImports /\ MoreEvents /\ imports' = imports + 1
  /\ work' = [work EXCEPT ![w] =
       [pc |-> "commit", of |-> {v}, form |-> form, shows |-> Enriched(v, form), late |-> {}]]
  /\ UNCHANGED <<store, rel, ups, updates, retries, patch, stale, faults>>

\* The fields of ids that are settled now, in the entity or by the Updater, are
\* late in what was prepared before.
LateWork(settled) ==
  [w \in Workers |->
     [work[w] EXCEPT !.late = @ \cup {f \in Fields : \E v \in work[w].of : <<v, f>> \in settled}]]
LateRetries(settled) ==
  {[r EXCEPT !.late = @ \cup {f \in Fields : <<r.id, f>> \in settled}] : r \in retries}

Commit(w, v) ==
  /\ work[w].pc = "commit" /\ work[w].of = {v}
  /\ rec' = [rec EXCEPT ![v] = [known |-> TRUE, form |-> work[w].form]]
  /\ work' = [LateWork({v} \X Fields) EXCEPT ![w] = [work[w] EXCEPT !.pc = "upload"]]
  /\ retries' = LateRetries({v} \X Fields)
  /\ UNCHANGED <<bucket, relGroups, upGroups, rel, ups, updates, patch, stale, imports, faults>>

\* A write of the object gives it a new generation, whatever it holds.
Put(v, shows, late) ==
  /\ public' = public \cup {v}
  /\ shown' = [shown EXCEPT ![v] = shows]
  /\ stale' = (stale \ ({v} \X Fields)) \cup ({v} \X late)
  /\ patch' = [patch EXCEPT !.fresh = @ /\ v \notin patch.of]

Upload(w, v) ==
  /\ work[w].pc = "upload" /\ work[w].of = {v}
  /\ Put(v, work[w].shows, work[w].late)
  /\ work' = [work EXCEPT ![w] = Idle]
  /\ UNCHANGED <<rec, relGroups, upGroups, rel, ups, updates, retries, imports, faults>>

Retry(v, shows, late) == [id |-> v, shows |-> shows, late |-> late]

\* The write fails and the record goes to the recoverer.
UploadFails(w, v) ==
  /\ work[w].pc = "upload" /\ work[w].of = {v}
  /\ Fault
  /\ retries' = retries \cup {Retry(v, work[w].shows, work[w].late)}
  /\ stale' = stale \cup ({v} \X Fields)
  /\ work' = [work EXCEPT ![w] = Idle]
  /\ UNCHANGED <<store, rel, ups, updates, patch, imports>>

\* A call fails or the worker dies; the task comes back as another import.
WorkerFails(w) ==
  /\ work[w].pc # "idle"
  /\ Fault
  /\ stale' = IF work[w].pc = "upload" THEN stale \cup (work[w].of \X Fields) ELSE stale
  /\ work' = [work EXCEPT ![w] = Idle]
  /\ UNCHANGED <<store, rel, ups, updates, retries, patch, imports>>

\* The recoverer uploads the record unless the object is newer, see
\* RecordPipeline: with no modified times here, either may be.
RetryUpload(r) ==
  /\ r \in retries
  /\ Put(r.id, r.shows, r.late)
  /\ retries' = retries \ {r}
  /\ UNCHANGED <<rec, relGroups, upGroups, rel, ups, updates, work, imports, faults>>

RetrySuperseded(r) ==
  /\ r \in retries
  /\ retries' = retries \ {r}
  /\ UNCHANGED <<store, rel, ups, updates, work, patch, stale, imports, faults>>

-----------------------------------------------------------------------------
(* The run *)

Start ==
  /\ rel.pc = "idle" /\ ups.pc = "idle"
  /\ rel' = [IdleRelated EXCEPT !.pc = "query"]
  /\ ups' = [IdleUpstream EXCEPT !.pc = "query"]
  /\ UNCHANGED <<store, updates, program, stale, imports, faults>>

(* The Updater takes one id after another when both jobs have ended, with   *)
(* all updates of it.  The generation of an object is read after its data;  *)
(* here both are read at once, RecordPipeline has the steps apart.          *)

Ended(pc) == pc \in {"done", "failed"}

FieldsOf(us) == {<<u.id, u.field>> : u \in us}
Of(v) == {u \in updates : u.id = v}

\* The object of v with its updates.
Patched(v) ==
  [f \in Fields |->
     LET mine == {u \in Of(v) : u.field = f}
     IN  IF mine = {} THEN shown[v][f] ELSE UNION {u.value : u \in mine}]

NextPatch(v) == Ended(rel.pc) /\ Ended(ups.pc) /\ patch = NoPatch /\ Of(v) # {}

\* The Updater is through with an id.
Through(v) ==
  /\ updates' = updates \ Of(v)
  /\ patch' = NoPatch
  /\ work' = LateWork(FieldsOf(Of(v)))

PatchRead(v) ==
  /\ NextPatch(v)
  /\ v \in public /\ Patched(v) # shown[v]
  /\ patch' = [of |-> {v}, shows |-> Patched(v), fresh |-> TRUE]
  /\ UNCHANGED <<store, rel, ups, updates, work, retries, stale, imports, faults>>

\* No object (if there is an entity, the recoverer has it imported), or one that
\* needs no change.
PatchSkip(v) ==
  /\ NextPatch(v)
  /\ v \in public => Patched(v) = shown[v]
  /\ Through(v)
  /\ retries' = LateRetries(FieldsOf(Of(v)))
  /\ stale' = IF v \in public THEN stale \ FieldsOf(Of(v)) ELSE stale
  /\ UNCHANGED <<store, rel, ups, imports, faults>>

PatchWrite(v) ==
  /\ patch.of = {v} /\ patch.fresh
  /\ shown' = [shown EXCEPT ![v] = patch.shows]
  /\ Through(v)
  /\ retries' = LateRetries(FieldsOf(Of(v)))
  /\ stale' = stale \ FieldsOf(Of(v))
  /\ UNCHANGED <<rec, public, relGroups, upGroups, rel, ups, imports, faults>>

\* The generation has moved, or the write failed: GCSClient does not tell them
\* apart. The recoverer gets the record, but for the updates as it was read.
PatchMismatch(v) ==
  /\ patch.of = {v}
  /\ IF patch.fresh THEN Fault ELSE UNCHANGED faults
  /\ Through(v)
  /\ retries' = LateRetries(FieldsOf(Of(v))) \cup
                  {Retry(v, patch.shows, {f \in Fields : <<v, f>> \notin FieldsOf(Of(v))})}
  /\ stale' = stale \cup FieldsOf(Of(v))
  /\ UNCHANGED <<store, rel, ups, imports>>

\* A read or the transaction fails: logged, and on to the next id.
PatchFails(v) ==
  /\ NextPatch(v) \/ patch.of = {v}
  /\ Fault
  /\ Through(v)
  /\ retries' = LateRetries(FieldsOf(Of(v)))
  /\ stale' = stale \cup FieldsOf(Of(v))
  /\ UNCHANGED <<store, rel, ups, imports>>

RunEnds ==
  /\ Ended(rel.pc) /\ Ended(ups.pc) /\ updates = {}
  /\ rel' = IdleRelated /\ ups' = IdleUpstream
  /\ UNCHANGED <<store, updates, program, stale, imports, faults>>

\* The process is killed: what the Updater has not patched yet is lost.
Crash ==
  /\ rel.pc # "idle" /\ Fault
  /\ rel' = IdleRelated /\ ups' = IdleUpstream
  /\ updates' = {} /\ patch' = NoPatch
  /\ stale' = stale \cup FieldsOf(updates)
  /\ work' = LateWork(FieldsOf(updates)) /\ retries' = LateRetries(FieldsOf(updates))
  /\ UNCHANGED <<store, imports>>

-----------------------------------------------------------------------------
(* ComputeRelatedGroups *)

\* related_raw > "": records that name none are not read.
RelatedReads ==
  LET raw == [v \in IDs |-> IF rec[v].known THEN rec[v].form.related ELSE {}]
  IN  /\ rel.pc = "query"
      /\ rel' = [pc |-> "invert", raw |-> raw, groups |-> raw,
                 withdrawn |-> {v \in IDs : raw[v] # {} /\ rec[v].form.withdrawn},
                 todo |-> {v \in IDs : raw[v] # {}}]
      /\ UNCHANGED <<store, ups, updates, program, stale, imports, faults>>

\* Mutant: a withdrawn record is related to what it names.
InvertAnyway(v) ==
  /\ rel.pc = "invert" /\ v \in rel.todo
  /\ rel' = [rel EXCEPT
       !.groups = [x \in IDs |-> IF x \in rel.groups[v] THEN rel.groups[x] \cup {v} ELSE rel.groups[x]],
       !.todo = rel.todo \ {v}]
  /\ UNCHANGED <<store, ups, updates, program, stale, imports, faults>>

\* One turn of the loop of computeRelated, over a map that it changes: an entry
\* that is added may be reached by the loop or not.
Invert(v) ==
  LET related == IF v \in rel.withdrawn THEN {} ELSE rel.groups[v]
      added == {x \in related : rel.groups[x] = None}
  IN  /\ rel.pc = "invert" /\ v \in rel.todo
      /\ \E reached \in SUBSET added :
           rel' = [rel EXCEPT
             !.groups = [x \in IDs |-> IF x \in related THEN rel.groups[x] \cup {v} ELSE rel.groups[x]],
             !.todo = (rel.todo \ {v}) \cup reached]
      /\ UNCHANGED <<store, ups, updates, program, stale, imports, faults>>

Inverted ==
  /\ rel.pc = "invert" /\ rel.todo = {}
  /\ rel' = [rel EXCEPT !.pc = "store"]
  /\ UNCHANGED <<store, ups, updates, program, stale, imports, faults>>

\* updateRelated: the Put or the Delete of a group that changed.
PutRelated(v) == relGroups' = [relGroups EXCEPT ![v] = rel.groups[v]]
Sent(v, field, value) == [id |-> v, field |-> field, value |-> value]

\* Mutant: a group that goes is not sent.
StoreRelatedQuietly(v) ==
  /\ rel.pc = "store" /\ relGroups[v] # rel.groups[v]
  /\ PutRelated(v)
  /\ updates' = IF rel.groups[v] = None THEN updates
                ELSE updates \cup {Sent(v, "related", rel.groups[v])}
  /\ UNCHANGED <<rec, bucket, upGroups, rel, ups, program, stale, imports, faults>>

StoreRelated(v) ==
  /\ rel.pc = "store" /\ relGroups[v] # rel.groups[v]
  /\ PutRelated(v)
  /\ updates' = updates \cup {Sent(v, "related", rel.groups[v])}
  /\ UNCHANGED <<rec, bucket, upGroups, rel, ups, program, stale, imports, faults>>

RelatedDone ==
  /\ rel.pc = "store" /\ relGroups = rel.groups
  /\ rel' = [rel EXCEPT !.pc = "done"]
  /\ UNCHANGED <<store, ups, updates, program, stale, imports, faults>>

\* A change of a group that is never sent.
Missed(v, f) ==
  /\ stale' = stale \cup {<<v, f>>}
  /\ work' = LateWork({<<v, f>>}) /\ retries' = LateRetries({<<v, f>>})

\* A call fails, a Put perhaps after it was done. The other job goes on, and what
\* was sent is patched.
RelatedFails ==
  /\ rel.pc \in {"query", "store"} /\ Fault
  /\ rel' = [rel EXCEPT !.pc = "failed"]
  /\ \/ UNCHANGED <<relGroups, work, retries, stale>>
     \/ \E v \in IDs : /\ rel.pc = "store" /\ relGroups[v] # rel.groups[v]
                       /\ PutRelated(v)
                       /\ Missed(v, "related")
  /\ UNCHANGED <<rec, bucket, upGroups, ups, updates, patch, imports>>

-----------------------------------------------------------------------------
(* ComputeUpstreamGroups *)

\* Mutant: every record is read.
UpstreamReadsAll ==
  /\ ups.pc = "query"
  /\ ups' = [IdleUpstream EXCEPT
       !.pc = "next",
       !.raw = [v \in IDs |-> IF rec[v].known THEN rec[v].form.upstream ELSE {}],
       !.todo = {v \in IDs : rec[v].known}]
  /\ UNCHANGED <<store, rel, updates, program, stale, imports, faults>>

UpstreamReads ==
  LET raw == [v \in IDs |-> IF rec[v].known THEN rec[v].form.upstream ELSE {}]
  IN  /\ ups.pc = "query"
      /\ ups' = [IdleUpstream EXCEPT !.pc = "next", !.raw = raw, !.todo = {v \in IDs : raw[v] # {}}]
      /\ UNCHANGED <<store, rel, updates, program, stale, imports, faults>>

\* computeUpstream begins.
WalkUp(v) ==
  /\ ups.pc = "next" /\ v \in ups.todo
  /\ ups' = [ups EXCEPT !.pc = "walk", !.todo = ups.todo \ {v}, !.for = {v},
                        !.found = {}, !.toVisit = ups.raw[v]]
  /\ UNCHANGED <<store, rel, updates, program, stale, imports, faults>>

\* Mutant: without visited.
VisitForgetfully(u) ==
  /\ ups.pc = "walk" /\ u \in ups.toVisit
  /\ ups' = [ups EXCEPT !.found = ups.found \cup {u},
                        !.toVisit = (ups.toVisit \ {u}) \cup ups.raw[u]]
  /\ UNCHANGED <<store, rel, updates, program, stale, imports, faults>>

\* Mutant: only the upstreams the record itself names.
VisitDirect(u) ==
  /\ ups.pc = "walk" /\ u \in ups.toVisit
  /\ ups' = [ups EXCEPT !.found = ups.found \cup {u}, !.toVisit = ups.toVisit \ {u}]
  /\ UNCHANGED <<store, rel, updates, program, stale, imports, faults>>

\* One turn of its loop, over an id not visited yet; the result is sorted, so
\* the order of the queue does not matter.
Visit(u) ==
  /\ ups.pc = "walk" /\ u \in ups.toVisit
  /\ ups' = [ups EXCEPT !.found = ups.found \cup {u},
                        !.toVisit = (ups.toVisit \cup ups.raw[u]) \ (ups.found \cup {u})]
  /\ UNCHANGED <<store, rel, updates, program, stale, imports, faults>>

PutUpstream(v) == upGroups' = [upGroups EXCEPT ![v] = ups.found]

\* createUpstreamGroup, or updateUpstreamGroup if there is a group.
StoreUpstream(v) ==
  /\ ups.pc = "walk" /\ ups.toVisit = {} /\ ups.for = {v}
  /\ IF upGroups[v] = ups.found THEN UNCHANGED <<upGroups, updates>>
     ELSE PutUpstream(v) /\ updates' = updates \cup {Sent(v, "upstream", ups.found)}
  /\ ups' = [ups EXCEPT !.pc = "next", !.for = None, !.found = {}]
  /\ UNCHANGED <<rec, bucket, relGroups, rel, program, stale, imports, faults>>

UpstreamDone ==
  /\ ups.pc = "next" /\ ups.todo = {}
  /\ ups' = [ups EXCEPT !.pc = "done"]
  /\ UNCHANGED <<store, rel, updates, program, stale, imports, faults>>

UpstreamFails ==
  /\ \/ ups.pc = "query" /\ UNCHANGED <<upGroups, work, retries, stale>>
     \/ /\ ups.pc = "walk" /\ ups.toVisit = {}
        /\ \E v \in ups.for :
             /\ upGroups[v] # ups.found
             /\ \/ UNCHANGED <<upGroups, work, retries, stale>>
                \/ PutUpstream(v) /\ Missed(v, "upstream")
  /\ Fault
  /\ ups' = [ups EXCEPT !.pc = "failed"]
  /\ UNCHANGED <<rec, bucket, relGroups, rel, updates, patch, imports>>

-----------------------------------------------------------------------------
RelatedJob == RelatedReads \/ Inverted \/ RelatedDone \/ \E v \in IDs : Invert(v) \/ StoreRelated(v)
UpstreamJob ==
  \/ UpstreamReads \/ UpstreamDone
  \/ \E v \in IDs : WalkUp(v) \/ Visit(v) \/ StoreUpstream(v)
Patch(v) == PatchRead(v) \/ PatchSkip(v) \/ PatchWrite(v) \/ (~patch.fresh /\ PatchMismatch(v))
Updater == RunEnds \/ \E v \in IDs : Patch(v)

Worker(w) ==
  \/ \E v \in IDs : \/ \E form \in Contents[v] : Begin(w, v, form)
                    \/ Commit(w, v) \/ Upload(w, v) \/ UploadFails(w, v)
  \/ WorkerFails(w)

Next ==
  \/ \E w \in Workers : Worker(w)
  \/ \E r \in retries : RetryUpload(r) \/ RetrySuperseded(r)
  \/ Start \/ RelatedJob \/ UpstreamJob \/ Updater
  \/ RelatedFails \/ UpstreamFails \/ Crash
  \/ \E v \in IDs : PatchFails(v) \/ PatchMismatch(v)

Spec == Init /\ [][Next]_vars

\* The process is scheduled and its calls return: one of its goroutines that can
\* move moves.
Fairness == WF_vars(RelatedJob \/ UpstreamJob \/ Updater)

FairSpec == Spec /\ Fairness

-----------------------------------------------------------------------------
(* Properties *)

IDSets == SUBSET IDs
Graphs == [IDs -> IDSets]
Shapes == [Fields -> IDSets]
Singles == {None} \cup {{v} : v \in IDs}
WorkStates == [pc : {"idle", "commit", "upload"}, of : Singles, form : Form, shows : Shapes,
               late : SUBSET Fields]
RetryStates == [id : IDs, shows : Shapes, late : SUBSET Fields]

\* State as the code's types allow it. The upstream job treats records that name
\* an upstream, so it never comes to an empty group.
TypeOK ==
  /\ rec \in [IDs -> [known : BOOLEAN, form : Form]]
  /\ public \in IDSets /\ shown \in [IDs -> Shapes]
  /\ relGroups \in Graphs /\ upGroups \in Graphs
  /\ rel \in [pc : {"idle", "query", "invert", "store", "done", "failed"}, raw : Graphs,
              withdrawn : IDSets, groups : Graphs, todo : IDSets]
  /\ ups \in [pc : {"idle", "query", "next", "walk", "done", "failed"}, raw : Graphs,
              todo : IDSets, for : {None} \cup {{v} : v \in IDs}, found : IDSets,
              toVisit : IDSets]
  /\ \A v \in ups.todo : ups.raw[v] # {}
  /\ updates \subseteq [id : IDs, field : Fields, value : IDSets]
  /\ patch \in [of : Singles, shows : Shapes, fresh : BOOLEAN]
  /\ work \in [Workers -> WorkStates] /\ retries \subseteq RetryStates
  /\ stale \subseteq IDs \X Fields
  /\ imports \in 0..MaxImports /\ faults \in 0..MaxFaults

\* "B should NOT list A" if A is withdrawn; otherwise a record is related to
\* whatever it names, and the other way round: whatever the order of the loop,
\* which changes the map it walks.
RelatedOf(v) == rel.raw[v] \cup {w \in IDs \ rel.withdrawn : v \in rel.raw[w]}

RelatedIsMutual == rel.pc = "done" => \A v \in IDs : relGroups[v] = RelatedOf(v)

\* "Including transitive upstreams": the least set that has the upstreams of v
\* and of its members; v itself is in it when they form a cycle.
UpClosed(S) == \A v \in S : ups.raw[v] \subseteq S
UpstreamOf(v) == {u \in IDs : \A S \in IDSets : ups.raw[v] \subseteq S /\ UpClosed(S) => u \in S}

UpstreamIsTransitive ==
  ups.pc = "done" => \A v \in IDs : ups.raw[v] # {} => upGroups[v] = UpstreamOf(v)

Group(v, f) == IF f = "related" THEN relGroups[v] ELSE upGroups[v]
Owes(v, f) == Sent(v, f, Group(v, f)) \in updates

\* What is shown of v in a field is its group, or what the record names (related
\* ids only without a group; an import shows the upstream ids it names even when
\* there is one), or the Updater still has the group to patch.
Shows(v, f, shows, form) ==
  \/ shows[f] = Group(v, f)
  \/ shows[f] = Named(form, f) /\ (f = "related" => relGroups[v] = None)
  \/ Owes(v, f)

Writing(w, v) == work[w].pc = "upload" /\ v \in work[w].of

\* The public record shows the groups, while no worker is about to upload it,
\* but for what it has missed: an update lost in a failure, or overwritten by an
\* upload that was prepared before the Updater was through with the record or
\* before another import of it. Imports, retries and failures may come between
\* any two steps of the jobs and of the Updater.
GroupsAreShown ==
  \A v \in public : (\A w \in Workers : ~Writing(w, v)) =>
    \A f \in Fields : <<v, f>> \in stale \/ Shows(v, f, shown[v], rec[v].form)

\* A run comes to an end, also when upstreams form cycles.
RunComesToEnd == rel.pc # "idle" ~> rel.pc = "idle"
=============================================================================
