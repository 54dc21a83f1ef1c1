------------------------------ MODULE AliasGroups ------------------------------
(***************************************************************************)
(* The alias job (apps/cli/cmd/relations/alias.go) over several records.   *)
(*                                                                         *)
(* Records name other ids as their raw aliases.  The job reads them into a *)
(* symmetric graph, walks it from the first id of every AliasGroup entity, *)
(* corrects, merges and deletes the groups, creates groups for what was    *)
(* not reached, and then sends the aliases of every changed id to the      *)
(* Updater, which patches the public record.  Meanwhile workers import     *)
(* records, and the job may be killed or fail in any call.                 *)
(*                                                                         *)
(* A worker reads the group of its record, commits the entity and uploads  *)
(* the record without a generation, in three steps.  An upload that was    *)
(* prepared before another write of the record, and comes after it, puts   *)
(* old aliases back: "lost" has the ids whose last write was such a one,   *)
(* or failed.                                                              *)
(*                                                                         *)
(* The three queries of a run are reads of their own in the code; here a   *)
(* run reads the records when it starts, and a group when it treats it:    *)
(* nobody else writes groups (the CronJob forbids concurrent runs).        *)
(***************************************************************************)
EXTENDS Naturals, FiniteSets

CONSTANTS
  IDs,           \* ids of records, and of aliases without a record of their own
  Workers,       \* concurrent handlers of the task subscription
  First,         \* the id of a set that sorts first
  Keys,          \* Datastore keys of AliasGroup entities
  Denied,        \* AliasDenyListEntry
  Allowed,       \* AliasAllowListEntry
  AliasLimit,    \* vulnAliasesLimit (5)
  GroupLimit,    \* aliasGroupVulnLimit (32)
  Contents,      \* what its source may publish of an id: the raw aliases, and
                 \* if it is withdrawn
  MaxImports,    \* bound: imports of records
  MaxCrashes,    \* bound: runs that end early
  MaxFaults      \* bound: failed calls of workers and of the Updater

ASSUME AliasAssumption ==
  /\ First \in [(SUBSET IDs) \ {{}} -> IDs]
  /\ \A S \in (SUBSET IDs) \ {{}} : First[S] \in S
  /\ IsFiniteSet(IDs)
  /\ Denied \subseteq IDs /\ Allowed \subseteq IDs
  /\ AliasLimit \in Nat /\ GroupLimit \in Nat
  /\ Contents \in [IDs -> SUBSET [raw : SUBSET IDs, withdrawn : BOOLEAN]]
  /\ MaxImports \in Nat /\ MaxCrashes \in Nat /\ MaxFaults \in Nat

VARIABLES
  rec,       \* Vulnerability entities: known to OSV, raw aliases, withdrawn
  public,    \* ids with an object in the bucket
  shown,     \* the aliases the public record shows
  groups,    \* AliasGroup entities: the ids at each key, {} if there is none
  pc,        \* of the job
  aliases,   \* vulnAliases: the graph of the run
  todo,      \* keys of the groups the run has still to treat
  visited,   \* ids the run has reached
  walk,      \* computeAliases: what for, the ids found and those to visit
  changed,   \* changedVulns: new aliases group of an id, {} if it has none
  patch,     \* of the Updater: the id it has read, and if its object is still
             \* of the generation it had then
  work,      \* of each worker: the record it imports or deletes
  retries,   \* gcs_retry messages: records whose upload failed
  lost,      \* history: ids whose record has missed a write
  imports, crashes, faults

bucket == <<public, shown, lost>>
store == <<rec, bucket, groups>>
program == <<work, retries>>
counts == <<imports, crashes, faults>>
run == <<pc, aliases, todo, visited, walk, changed, patch>>
vars == <<rec, public, shown, lost, groups, work, retries, pc, aliases, todo,
          visited, walk, changed, patch, imports, crashes, faults>>

None == {}
NoWalk == [for |-> None, found |-> {}, toVisit |-> {}]
NoChange == [v \in {} |-> {}]
NoPatch == [of |-> {}, fresh |-> FALSE]
Idle == [pc |-> "idle", kind |-> "update", of |-> {}, raw |-> {}, withdrawn |-> FALSE,
         shows |-> {}, late |-> FALSE]

Init ==
  /\ rec = [v \in IDs |-> [known |-> FALSE, raw |-> {}, withdrawn |-> FALSE]]
  /\ public = {} /\ shown = [v \in IDs |-> {}] /\ lost = {}
  /\ work = [w \in Workers |-> Idle] /\ retries = {}
  /\ groups = [k \in Keys |-> None]
  /\ pc = "idle" /\ aliases = [v \in IDs |-> {}]
  /\ todo = {} /\ visited = {} /\ walk = NoWalk /\ changed = NoChange
  /\ patch = NoPatch
  /\ imports = 0 /\ crashes = 0 /\ faults = 0

Fault == faults < MaxFaults /\ faults' = faults + 1

GroupsOf(v) == {k \in Keys : v \in groups[k]}

-----------------------------------------------------------------------------
(* The worker and the recoverer *)

\* RelationsStore.GetAliases fails, and with it the import, while the id is in
\* several groups; without any group the record keeps its raw aliases.
AliasesOf(v, raw) ==
  IF GroupsOf(v) = {} THEN raw ELSE UNION {groups[k] \ {v} : k \in GroupsOf(v)}

Begin(w, v, c) ==
  /\ work[w].pc = "idle" /\ imports < MaxImports
  /\ \A j, k \in GroupsOf(v) : j = k
  /\ work' = [work EXCEPT ![w] =
       [pc |-> "commit", kind |-> "update", of |-> {v}, raw |-> c.raw,
        withdrawn |-> c.withdrawn, shows |-> AliasesOf(v, c.raw), late |-> FALSE]]
  /\ imports' = imports + 1
  /\ UNCHANGED <<store, retries, run, crashes, faults>>

\* handleDelete writes back the object as it reads it, withdrawn: the aliases
\* are as good as they were. (A record withdrawn already it leaves alone.)
BeginDelete(w, v) ==
  /\ work[w].pc = "idle" /\ imports < MaxImports
  /\ rec[v].known /\ v \in public
  /\ work' = [work EXCEPT ![w] =
       [pc |-> "commit", kind |-> "delete", of |-> {v}, raw |-> {},
        withdrawn |-> TRUE, shows |-> shown[v], late |-> v \in lost]]
  /\ imports' = imports + 1
  /\ UNCHANGED <<store, retries, run, crashes, faults>>

\* What was read of an id before it is written, or found to need no write, is
\* late from then on.
LateWork(v) == [w \in Workers |-> [work[w] EXCEPT !.late = @ \/ v \in work[w].of]]
LateRetries(rs, v) == {[r EXCEPT !.late = @ \/ r.id = v] : r \in rs}

\* A deletion passes no raw record: the raw aliases of the entity stay.
Commit(w, v) ==
  /\ work[w].pc = "commit" /\ work[w].of = {v}
  /\ rec' = [rec EXCEPT ![v] =
       [known |-> TRUE, withdrawn |-> work[w].withdrawn,
        raw |-> IF work[w].kind = "delete" THEN @.raw ELSE work[w].raw]]
  /\ work' = [LateWork(v) EXCEPT ![w] = [work[w] EXCEPT !.pc = "upload"]]
  /\ retries' = LateRetries(retries, v)
  /\ UNCHANGED <<bucket, groups, run, counts>>

\* A write of the object gives it a new generation, whatever it holds.
Put(v, vs, late) ==
  /\ public' = public \cup {v}
  /\ shown' = [shown EXCEPT ![v] = vs]
  /\ lost' = IF late THEN lost \cup {v} ELSE lost \ {v}
  /\ patch' = [patch EXCEPT !.fresh = @ /\ v \notin patch.of]

Upload(w, v) ==
  /\ work[w].pc = "upload" /\ work[w].of = {v}
  /\ Put(v, work[w].shows, work[w].late)
  /\ work' = [LateWork(v) EXCEPT ![w] = Idle]
  /\ retries' = LateRetries(retries, v)
  /\ UNCHANGED <<rec, groups, pc, aliases, todo, visited, walk, changed, counts>>

Retry(v, vs, late) == [id |-> v, aliases |-> vs, late |-> late]

\* The write fails and the record goes to the recoverer.
UploadFails(w, v) ==
  /\ work[w].pc = "upload" /\ work[w].of = {v}
  /\ Fault
  /\ retries' = retries \cup {Retry(v, work[w].shows, work[w].late)}
  /\ lost' = lost \cup {v}
  /\ work' = [work EXCEPT ![w] = Idle]
  /\ UNCHANGED <<rec, public, shown, groups, run, imports, crashes>>

\* A call fails or the worker dies; the task comes back as another import.
WorkerFails(w) ==
  /\ work[w].pc # "idle"
  /\ Fault
  /\ lost' = IF work[w].pc = "upload" THEN lost \cup work[w].of ELSE lost
  /\ work' = [work EXCEPT ![w] = Idle]
  /\ UNCHANGED <<rec, public, shown, groups, retries, run, imports, crashes>>

\* The recoverer uploads the record unless the object is newer, see
\* RecordPipeline: with no modified times here, either may be.
RetryUpload(r) ==
  /\ r \in retries
  /\ Put(r.id, r.aliases, r.late)
  /\ work' = LateWork(r.id)
  /\ retries' = LateRetries(retries \ {r}, r.id)
  /\ UNCHANGED <<rec, groups, pc, aliases, todo, visited, walk, changed, counts>>

RetrySuperseded(r) ==
  /\ r \in retries
  /\ retries' = retries \ {r}
  /\ UNCHANGED <<store, work, run, counts>>

-----------------------------------------------------------------------------
(* The job *)

\* Whose raw aliases count: not of withdrawn, denied or over-aliased records.
Counts(v) ==
  /\ ~rec[v].withdrawn
  /\ v \notin Denied
  /\ Cardinality(rec[v].raw) > AliasLimit => v \in Allowed

\* Mutant: vulnAliases lacks the way back.
OneWayGraph == [v \in IDs |-> IF Counts(v) THEN rec[v].raw ELSE {}]

\* The raw aliases of a record, and the records that name it.
Graph ==
  [v \in IDs |-> {x \in IDs : (Counts(v) /\ x \in rec[v].raw)
                               \/ (Counts(x) /\ v \in rec[x].raw)}]

Start ==
  /\ pc = "idle"
  /\ pc' = "groups"
  /\ aliases' = Graph
  /\ todo' = {k \in Keys : groups[k] # None}
  /\ visited' = {} /\ walk' = NoWalk /\ changed' = NoChange
  /\ UNCHANGED <<store, program, patch, counts>>

\* Mutant: remembers the aliases in place of the group.
ChangedAliases(vs, group) ==
  [v \in DOMAIN changed \cup vs |-> IF v \in vs THEN group \ {v} ELSE changed[v]]

\* changedVulns[v] = group for the ids of vs.
Changed(vs, group) ==
  [v \in DOMAIN changed \cup vs |-> IF v \in vs THEN group ELSE changed[v]]

\* Mutant: overwrites what another group has brought its members.
AllMembers(k) == groups[k]

\* The ids of a group that no other group has taken in so far.
Orphans(k) == groups[k] \ DOMAIN changed

\* The first id was reached from another group: this one goes.
Absorb(k) ==
  /\ pc = "groups" /\ k \in todo
  /\ First[groups[k]] \in visited
  /\ changed' = Changed(Orphans(k), None)
  /\ groups' = [groups EXCEPT ![k] = None]
  /\ todo' = todo \ {k}
  /\ UNCHANGED <<rec, bucket, program, patch, pc, aliases, visited, walk, counts>>

\* computeAliases begins, for the group at a key or, with no key, for a new one.
Walk(for, v) ==
  /\ pc' = "walk"
  /\ walk' = [for |-> for, found |-> {}, toVisit |-> {v}]

Recompute(k) ==
  /\ pc = "groups" /\ k \in todo
  /\ First[groups[k]] \notin visited
  /\ Walk({k}, First[groups[k]])
  /\ todo' = todo \ {k}
  /\ UNCHANGED <<store, program, patch, aliases, visited, changed, counts>>

\* The queue is walked in some order; an id already visited is dropped.
Visit(v) ==
  /\ pc = "walk" /\ v \in walk.toVisit
  /\ walk' = IF v \in visited
             THEN [walk EXCEPT !.toVisit = @ \ {v}]
             ELSE [walk EXCEPT !.toVisit = (@ \ {v}) \cup aliases[v],
                               !.found = @ \cup {v}]
  /\ visited' = visited \cup {v}
  /\ UNCHANGED <<store, program, patch, pc, aliases, todo, changed, counts>>

IsGroup(vs) == Cardinality(vs) > 1 /\ Cardinality(vs) <= GroupLimit

\* updateAliasGroup, of the group at k.
Update(k) ==
  /\ pc = "walk" /\ walk.toVisit = {} /\ walk.for = {k}
  /\ pc' = "groups" /\ walk' = NoWalk
  /\ \/ /\ ~IsGroup(walk.found)
        /\ groups' = [groups EXCEPT ![k] = None]
        /\ changed' = Changed(walk.found, None)
     \/ /\ IsGroup(walk.found) /\ walk.found = groups[k]
        /\ UNCHANGED <<groups, changed>>
     \/ /\ IsGroup(walk.found) /\ walk.found # groups[k]
        /\ groups' = [groups EXCEPT ![k] = walk.found]
        /\ changed' = Changed(walk.found, walk.found)
  /\ UNCHANGED <<rec, bucket, program, patch, aliases, todo, visited, counts>>

GroupsDone ==
  /\ pc = "groups" /\ todo = {}
  /\ pc' = "create"
  /\ UNCHANGED <<store, program, patch, aliases, todo, visited, walk, changed, counts>>

\* An id with aliases that no group led to.
Unreached(v) ==
  /\ pc = "create" /\ aliases[v] # {} /\ v \notin visited
  /\ Walk(None, v)
  /\ UNCHANGED <<store, program, patch, aliases, todo, visited, changed, counts>>

\* createAliasGroup; Datastore completes the key.
Create ==
  /\ pc = "walk" /\ walk.toVisit = {} /\ walk.for = None
  /\ pc' = "create" /\ walk' = NoWalk
  /\ \/ /\ ~IsGroup(walk.found)
        /\ UNCHANGED <<groups, changed>>
     \/ /\ IsGroup(walk.found)
        /\ \E k \in Keys : /\ groups[k] = None
                           /\ groups' = [groups EXCEPT ![k] = walk.found]
        /\ changed' = Changed(walk.found, walk.found)
  /\ UNCHANGED <<rec, bucket, program, patch, aliases, todo, visited, counts>>

AllReached ==
  /\ pc = "create" /\ \A v \in IDs : aliases[v] # {} => v \in visited
  /\ pc' = "send"
  /\ UNCHANGED <<store, program, patch, aliases, todo, visited, walk, changed, counts>>

(* updateVulnWithAliasGroup sends the new aliases of every changed id to    *)
(* the Updater, in memory, and Finish lets it loose on them, one id after   *)
(* another.  Its two reads of an object are one step here: aliases are      *)
(* replaced whatever they were when the generation is read.                 *)

NewAliases(v) == changed[v] \ {v}

\* The Updater is through with an id.
Through(v) ==
  /\ changed' = [x \in DOMAIN changed \ {v} |-> changed[x]]
  /\ patch' = NoPatch
  /\ work' = LateWork(v)

NextPatch(v) == pc = "send" /\ v \in DOMAIN changed /\ patch = NoPatch

PatchRead(v) ==
  /\ NextPatch(v)
  /\ v \in public /\ shown[v] # NewAliases(v)
  /\ patch' = [of |-> {v}, fresh |-> TRUE]
  /\ UNCHANGED <<store, program, pc, aliases, todo, visited, walk, changed, counts>>

\* No object (if there is an entity, the recoverer has it imported), or one
\* that needs no change.
PatchSkip(v) ==
  /\ NextPatch(v)
  /\ v \in public => shown[v] = NewAliases(v)
  /\ Through(v)
  /\ retries' = LateRetries(retries, v)
  /\ lost' = IF v \in public THEN lost \ {v} ELSE lost
  /\ UNCHANGED <<rec, public, shown, groups, pc, aliases, todo, visited, walk, counts>>

PatchWrite(v) ==
  /\ pc = "send" /\ patch.of = {v} /\ patch.fresh
  /\ shown' = [shown EXCEPT ![v] = NewAliases(v)]
  /\ Through(v)
  /\ retries' = LateRetries(retries, v)
  /\ lost' = lost \ {v}
  /\ UNCHANGED <<rec, public, groups, pc, aliases, todo, visited, walk, counts>>

\* The generation has moved, or the write failed: GCSClient does not tell them
\* apart, and the record goes to the recoverer as it would have been.
PatchMismatch(v) ==
  /\ pc = "send" /\ patch.of = {v}
  /\ IF patch.fresh THEN Fault ELSE UNCHANGED faults
  /\ Through(v)
  /\ retries' = LateRetries(retries, v) \cup {Retry(v, NewAliases(v), FALSE)}
  /\ lost' = lost \cup {v}
  /\ UNCHANGED <<rec, public, shown, groups, pc, aliases, todo, visited, walk, imports, crashes>>

\* A read or the transaction failed: that is logged and the id skipped.
PatchFails(v) ==
  /\ NextPatch(v) \/ (pc = "send" /\ patch.of = {v})
  /\ Fault
  /\ Through(v)
  /\ retries' = LateRetries(retries, v)
  /\ lost' = lost \cup {v}
  /\ UNCHANGED <<rec, public, shown, groups, pc, aliases, todo, visited, walk, imports, crashes>>

Ends ==
  /\ pc' = "idle" /\ aliases' = [v \in IDs |-> {}]
  /\ todo' = {} /\ visited' = {} /\ walk' = NoWalk /\ changed' = NoChange
  /\ patch' = NoPatch
  /\ UNCHANGED <<store, program, imports, faults>>

AllSent == pc = "send" /\ DOMAIN changed = {} /\ Ends /\ UNCHANGED crashes

\* A call fails or the job is killed: the changes not sent yet are lost.
Crash ==
  /\ pc # "idle" /\ crashes < MaxCrashes
  /\ Ends /\ crashes' = crashes + 1

-----------------------------------------------------------------------------
Worker(w) ==
  \/ \E v \in IDs : \E c \in Contents[v] : Begin(w, v, c)
  \/ \E v \in IDs : BeginDelete(w, v) \/ Commit(w, v) \/ Upload(w, v) \/ UploadFails(w, v)
  \/ WorkerFails(w)

Patch(v) == PatchRead(v) \/ PatchSkip(v) \/ PatchWrite(v) \/ PatchMismatch(v) \/ PatchFails(v)

Next ==
  \/ \E w \in Workers : Worker(w)
  \/ \E r \in retries : RetryUpload(r) \/ RetrySuperseded(r)
  \/ Start
  \/ \E k \in Keys : Absorb(k) \/ Recompute(k) \/ Update(k)
  \/ \E v \in IDs : Visit(v) \/ Unreached(v) \/ Patch(v)
  \/ GroupsDone \/ Create \/ AllReached \/ AllSent
  \/ Crash

Spec == Init /\ [][Next]_vars

-----------------------------------------------------------------------------
(* Properties *)

IDSets == SUBSET IDs

\* "AliasGroups always contain more than one vuln", and no more than the limit.
GroupSets == {vs \in IDSets : vs = None \/ IsGroup(vs)}

Singles == {None} \cup {{v} : v \in IDs}
WorkStates ==
  [pc : {"idle", "commit", "upload"}, kind : {"update", "delete"}, of : Singles,
   raw : IDSets, withdrawn : BOOLEAN, shows : IDSets, late : BOOLEAN]

TypeOK ==
  /\ rec \in [IDs -> [known : BOOLEAN, raw : IDSets, withdrawn : BOOLEAN]]
  /\ public \in IDSets /\ shown \in [IDs -> IDSets] /\ lost \in IDSets
  /\ work \in [Workers -> WorkStates]
  /\ retries \subseteq [id : IDs, aliases : IDSets, late : BOOLEAN]
  /\ groups \in [Keys -> GroupSets]
  /\ pc \in {"idle", "groups", "walk", "create", "send"}
  /\ aliases \in [IDs -> IDSets]
  /\ todo \subseteq Keys /\ visited \in IDSets
  /\ walk \in [for : {None} \cup {{k} : k \in Keys}, found : IDSets, toVisit : IDSets]
  /\ DOMAIN changed \subseteq IDs
  /\ \A v \in DOMAIN changed : changed[v] \in GroupSets
  /\ patch \in [of : Singles, fresh : BOOLEAN]
  /\ imports \in 0..MaxImports /\ crashes \in 0..MaxCrashes /\ faults \in 0..MaxFaults

\* A set closed under aliases, and a connected component of their graph.
Closed(graph, vs) == \A v \in vs : graph[v] \subseteq vs

IsComponent(graph, vs) ==
  /\ vs # {} /\ Closed(graph, vs)
  /\ \A S \in IDSets : Closed(graph, S) /\ S \cap vs # {} => vs \subseteq S

-----------------------------------------------------------------------------
(* The inductive invariant.  A run has a walk of its own from an id it has  *)
(* not visited before; groups are treated, or still as the run found them.  *)

Before == visited \ walk.found
Met == walk.found \cup walk.toVisit
Untreated == todo \cup walk.for
Treated == Keys \ Untreated

Symmetric == \A v, x \in IDs : x \in aliases[v] <=> v \in aliases[x]

\* The walk stays apart from what was visited before it, leaves no alias out,
\* and stays within every closed set it meets.
WalkIsPart ==
  /\ walk.found \subseteq visited
  /\ Closed(aliases, Before) /\ Before \cap Met = {}
  /\ \A v \in walk.found : aliases[v] \subseteq Met
  /\ \A S \in IDSets : Closed(aliases, S) /\ S \cap Met # {} => Met \subseteq S
  /\ IF pc = "walk" THEN Met # {} ELSE walk.for = {} /\ Met = {}

Phases ==
  /\ \A k \in todo : groups[k] # None
  /\ pc \in {"idle", "create", "send"} => todo = {}
  /\ pc = "idle" => DOMAIN changed = {}
  /\ pc = "walk" /\ walk.for = None => todo = {}
  /\ todo \cap walk.for = {}
  /\ pc = "send" => \A v \in IDs : aliases[v] # {} => v \in visited

\* Treated groups are the components visited before the walk.
TreatedAreComponents ==
  pc # "idle" =>
    /\ \A k \in Treated : groups[k] # None =>
         IsComponent(aliases, groups[k]) /\ groups[k] \subseteq Before
    /\ \A j, k \in Treated : j # k /\ groups[j] # None => groups[j] # groups[k]
    /\ \A vs \in IDSets : IsComponent(aliases, vs) /\ IsGroup(vs) /\ vs \cap Before # {} =>
         \E k \in Treated : groups[k] = vs

\* An id shows its group or has missed a write, and so will it when what is
\* under way is uploaded.
Shows(v, group) ==
  /\ v \in public \ lost => shown[v] = group \ {v}
  /\ \A w \in Workers : v \in work[w].of => work[w].late \/ work[w].shows = group \ {v}
  /\ \A r \in retries : r.id = v => r.late \/ r.aliases = group \ {v}

\* What is known of the members of groups while no run was cut short: those of
\* a treated group show it or will, those of others show the group they are in.
MembersKnow ==
  crashes = 0 =>
    /\ \A j, k \in Untreated : j # k => groups[j] \cap groups[k] = {}
    /\ pc = "idle" => \A j, k \in Keys : j # k => groups[j] \cap groups[k] = {}
    /\ \A k \in Treated : \A v \in groups[k] :
         IF v \in DOMAIN changed THEN changed[v] = groups[k]
         ELSE Shows(v, groups[k]) /\ \A j \in Untreated : v \notin groups[j]
    /\ \A k \in Untreated : \A v \in groups[k] :
         IF v \in DOMAIN changed THEN v \in Before ELSE Shows(v, groups[k])

\* The Updater has an update for the id it reads.
PatchIsSent == patch.of \subseteq DOMAIN changed /\ (patch # NoPatch => pc = "send")

IInv == /\ TypeOK /\ Symmetric /\ WalkIsPart /\ Phases /\ TreatedAreComponents
        /\ PatchIsSent /\ MembersKnow

-----------------------------------------------------------------------------
\* When a run has treated every group and every id, the groups it leaves are
\* the connected components of the aliases it read, but for those of one id or
\* too many, each once: whatever groups it found, the overlapping ones of a run
\* that was killed included.
GroupsAreComponents ==
  pc = "send" =>
    /\ \A k \in Keys : groups[k] # None => IsComponent(aliases, groups[k])
    /\ \A j, k \in Keys : j # k /\ groups[j] # None => groups[j] # groups[k]
    /\ \A vs \in IDSets : IsComponent(aliases, vs) /\ IsGroup(vs) => \E k \in Keys : groups[k] = vs

\* No write of the record of an id is under way.
Quiet(v) == /\ \A w \in Workers : v \notin work[w].of
            /\ \A r \in retries : r.id # v

\* Between two runs, none of which was cut short, the public record of a member
\* of a group shows the others of it, but for two cases: the last upload of it
\* was prepared before another write (or before the Updater was through with
\* the id), or a write has failed.  The update of a group reaches its members through every other
\* interleaving with imports, deletions and retries.
MembersShowGroup ==
  pc = "idle" /\ crashes = 0 =>
    \A k \in Keys : \A v \in groups[k] :
      v \in public \ lost /\ Quiet(v) => shown[v] = groups[k] \ {v}

\* "Keep track of vulnerabilities that have been modified, to update GCS later.
\* nil means the AliasGroup has been removed": a record that is in no group
\* shows the raw aliases it was imported with or none, not those of a group it
\* has left - even if no write of it was missed or is under way.
DroppedIsUpdated ==
  pc = "idle" /\ crashes = 0 =>
    \A v \in IDs : GroupsOf(v) = {} /\ v \notin lost /\ Quiet(v)
                     => shown[v] \in {{}, rec[v].raw}

=============================================================================
