---------------------------- MODULE RecordPipeline ----------------------------
(***************************************************************************)
(* The life of ONE vulnerability record in the import pipeline.            *)
(*                                                                         *)
(* A record is kept twice.  Datastore holds its index entities             *)
(* (Vulnerability, ListedVulnerability, AffectedVersions, AffectedCommits) *)
(* and a GCS object holds the record the public reads.  Four programs      *)
(* write them, and nothing but a Pub/Sub acknowledgement ties their steps  *)
(* together:                                                               *)
(*   - the worker handles update and delete tasks (engine.go) and writes   *)
(*     through VulnerabilityStore.Write (vulnerability.go);                *)
(*   - the relations job recomputes alias groups and its Updater patches   *)
(*     the records they touch (update.go);                                 *)
(*   - the recoverer handles the messages the other two publish when a     *)
(*     GCS access fails (recoverer.py);                                    *)
(*   - the importer publishes the tasks (here: the environment).           *)
(* Records of different ids share no key, so one id is enough.  A time is  *)
(* a natural number; time 0 and version 0 stand for "absent".              *)
(***************************************************************************)
EXTENDS Naturals

CONSTANTS
  Workers,        \* concurrent handlers of the task subscription
  Paths,          \* paths the record may have inside its source
  Versions,       \* contents the source may publish, 1..n
  RawModified,    \* the "modified" a content itself carries
  RawWithdrawn,   \* the "withdrawn" a content itself carries, 0 for none
  GroupValues,    \* alias lists the relations job may compute
  MaxTime,        \* bound: the clock stops here
  MaxFaults,      \* bound: failed calls and crashes in a behaviour
  MaxRegroups,    \* bound: alias groups recomputed in a behaviour
  MaxDeliveries,  \* the task subscriptions' max_delivery_attempts
  TypedPreconditionError
    \* TRUE: a failed generation precondition is ErrPreconditionFailed, the
    \* contract of clients.CloudStorage; FALSE: any other error, as GCSClient

ASSUME RecordAssumption ==
  /\ MaxTime \in Nat \ {0} /\ MaxFaults \in Nat /\ MaxRegroups \in Nat
  /\ MaxDeliveries \in Nat \ {0}
  /\ Versions \subseteq Nat \ {0}
  /\ RawModified \in [Versions -> Nat]
  /\ RawWithdrawn \in [Versions -> Nat]
  /\ {"raw", "nil"} \cap GroupValues = {}
  /\ "no path" \notin Paths
  /\ TypedPreconditionError \in BOOLEAN

VARIABLES
  clock,      \* what time.Now() returns
  faults,     \* failures so far
  regroups,   \* alias recomputations so far
  source,     \* the file at the source: [ver, path], ver 0 when it has none
  tasks,      \* unacknowledged messages of the task topic
  deliveries, \* how often each was delivered since it was published
  dropped,    \* history: dead-lettered updates that were logged and let go
  failed,     \* unacknowledged messages of the failed-tasks topic
  ds,         \* the Vulnerability entity
  listed,     \* content the ListedVulnerability entity shows, 0: no entity
  versions,   \* content the AffectedVersions entities show, 0: none
  commits,    \* content the AffectedCommits entities show, 0: none
  gcs,        \* the record in the GCS object
  gen,        \* the generation of that object, 0 before the first write
  group,      \* the AliasGroup entity the record is in
  work,       \* the state of each worker
  upd,        \* the state of the relations job's Updater
  rcv         \* the state of the recoverer

env   == <<source, regroups, group>>
queue == <<tasks, deliveries, dropped>>
index == <<ds, listed, versions, commits>>
vars  == <<clock, faults, regroups, source, tasks, deliveries, dropped, failed,
           ds, listed, versions, commits, gcs, gen, group, work, upd, rcv>>
-----------------------------------------------------------------------------
Times   == Nat
Aliases == GroupValues \cup {"raw", "nil"}  \* the record's own list; none
Records == [ver: Versions \cup {0}, modified: Times, withdrawn: Times, aliases: Aliases]
Absent  == [ver |-> 0, modified |-> 0, withdrawn |-> 0, aliases |-> "raw"]
NoPath  == "no path"
NoGroup == [val |-> "nil", modified |-> 0]

Updates == [kind: {"update"}, ver: Versions, path: Paths]
Tasks == Updates \cup [kind: {"delete"}, ver: {0}, path: Paths]
NoTask == [kind |-> "none", ver |-> 0, path |-> NoPath]

\* The failed-tasks messages. gcs_retry carries the record, the others its id.
Failures == [type: {"gcs_retry"}, rec: Records]
              \cup [type: {"gcs_missing", "gcs_gen_mismatch"}, rec: {Absent}]
Retry(r) == [type |-> "gcs_retry", rec |-> r]
Missing  == [type |-> "gcs_missing", rec |-> Absent]
Mismatch == [type |-> "gcs_gen_mismatch", rec |-> Absent]

IdleWorker    == [pc |-> "idle", task |-> NoTask, cur |-> Absent, new |-> Absent]
IdleUpdater   == [pc |-> "idle", val |-> "nil", at |-> 0, rec |-> Absent, gen |-> 0]
IdleRecoverer == [pc |-> "idle", msg |-> Missing, rec |-> Absent, gen |-> 0]

Later(s, t) == IF s > t THEN s ELSE t

\* A reading of the clock: it may or may not have moved since the last one.
Now(t) == /\ t \in {clock, clock + 1}
          /\ t <= MaxTime
          /\ clock' = t
Fault == /\ faults < MaxFaults
         /\ faults' = faults + 1

\* A write of the GCS object gives it a new generation.
Put(r) == /\ gcs' = r
          /\ gen' = gen + 1

\* A published task starts with all its deliveries (a task equal to one not
\* yet acknowledged joins it); an acknowledged one is gone.
Publish(t) == /\ tasks' = tasks \cup {t}
              /\ deliveries' = [deliveries EXCEPT ![t] = 0]
              /\ dropped' = dropped \ {t}
Acknowledge(t) == /\ tasks' = tasks \ {t}
                  /\ deliveries' = [deliveries EXCEPT ![t] = 0]
                  /\ UNCHANGED dropped

Init ==
  /\ clock = 1 /\ faults = 0 /\ regroups = 0
  /\ source = [ver |-> 0, path |-> NoPath]
  /\ tasks = {} /\ deliveries = [t \in Tasks |-> 0] /\ dropped = {}
  /\ failed = {}
  /\ ds = [ver |-> 0, path |-> NoPath, modified |-> 0, withdrawn |-> FALSE]
  /\ listed = 0 /\ versions = 0 /\ commits = 0
  /\ gcs = Absent /\ gen = 0
  /\ group = NoGroup
  /\ work = [w \in Workers |-> IdleWorker]
  /\ upd = IdleUpdater /\ rcv = IdleRecoverer
-----------------------------------------------------------------------------
(***************************************************************************)
(* The source and the importer.  The importer sends an update for a file   *)
(* it sees changed and, after comparing the two listings, a delete for a   *)
(* path Datastore knows and the source no longer has.                      *)
(***************************************************************************)
SourceChange(v, p) ==
  /\ v > source.ver
  /\ source' = [ver |-> v, path |-> p]
  /\ Publish([kind |-> "update", ver |-> v, path |-> p])
  /\ UNCHANGED <<clock, faults, regroups, failed, index, gcs, gen, group, work, upd, rcv>>

SourceMove(p) ==
  /\ source.ver # 0 /\ p # source.path
  /\ regroups < MaxRegroups  \* bound shared with the other housekeeping
  /\ regroups' = regroups + 1
  /\ source' = [source EXCEPT !.path = p]
  /\ Publish([kind |-> "update", ver |-> source.ver, path |-> p])
  /\ UNCHANGED <<clock, faults, failed, index, gcs, gen, group, work, upd, rcv>>

SourceRemove ==
  /\ source.ver # 0 /\ source.path # NoPath
  /\ source' = [source EXCEPT !.path = NoPath]
  /\ UNCHANGED <<clock, faults, regroups, queue, failed, index, gcs, gen, group, work, upd, rcv>>

PublishDelete ==
  /\ ds.ver # 0 /\ ~ds.withdrawn /\ ds.path # source.path
  /\ Publish([kind |-> "delete", ver |-> 0, path |-> ds.path])
  /\ UNCHANGED <<clock, faults, env, failed, index, gcs, gen, work, upd, rcv>>
-----------------------------------------------------------------------------
(***************************************************************************)
(* The worker: Subscriber.handleMessage calls Engine.RunTask, and acks or  *)
(* nacks.  A task stays in "tasks" until it is acknowledged, so it can be  *)
(* delivered again, to this worker or another, at any time - but           *)
(* MaxDeliveries times only: then the subscription forwards it to the      *)
(* failed-tasks topic (deploy/terraform/modules/osv/pubsub_tasks.tf), see  *)
(* HandleGeneric.                                                          *)
(***************************************************************************)
DeliverForever(t) == /\ deliveries' = [deliveries EXCEPT ![t] = @ + 1]
                     /\ UNCHANGED <<tasks, dropped>>
Deliver(t) == /\ deliveries[t] < MaxDeliveries
              /\ deliveries' = [deliveries EXCEPT ![t] = @ + 1]
              /\ UNCHANGED <<tasks, dropped>>

Step(w, pc) == work' = [work EXCEPT ![w] = [@ EXCEPT !.pc = pc]]
Drop(w)     == work' = [work EXCEPT ![w] = IdleWorker]

\* handleUpdate reads the current record from GCS; an absent one is no error.
ReceiveUpdate(w, t) ==
  /\ work[w].pc = "idle" /\ t.kind = "update"
  /\ Deliver(t)
  /\ work' = [work EXCEPT ![w] = [pc |-> "enrich", task |-> t, cur |-> gcs, new |-> Absent]]
  /\ UNCHANGED <<clock, faults, env, failed, index, gcs, gen, upd, rcv>>

\* The pipeline: the relations enricher overwrites the aliases when the
\* record is in a group, and lifts Modified to the group's.
Enriched(v) ==
  LET grouped == group.val # "nil"
  IN  [ver |-> v, withdrawn |-> RawWithdrawn[v],
       modified |-> IF grouped THEN Later(RawModified[v], group.modified) ELSE RawModified[v],
       aliases |-> IF grouped THEN group.val ELSE "raw"]

\* isSemanticallyDifferent ignores modified, published and schema_version.
Different(r, s) == \/ r.ver # s.ver \/ r.withdrawn # s.withdrawn
                   \/ r.aliases # s.aliases

RestampUncovered(cur, e, now) ==
  [e EXCEPT !.modified = IF cur.ver = 0 \/ Different(cur, e) THEN now
                         ELSE Later(cur.modified, e.modified)]
Restamp(cur, e, now) ==
  LET m == IF cur.ver = 0 \/ Different(cur, e) THEN now
           ELSE Later(cur.modified, e.modified)
  IN  [e EXCEPT !.modified = Later(m, e.withdrawn)]

Enrich(w) ==
  /\ work[w].pc = "enrich"
  /\ \E now \in {clock, clock + 1} :
       /\ Now(now)
       /\ work' = [work EXCEPT ![w] =
                     [@ EXCEPT !.pc = "commit", !.cur = Absent,
                               !.new = Restamp(work[w].cur, Enriched(work[w].task.ver), now)]]
  /\ UNCHANGED <<faults, env, queue, failed, index, gcs, gen, upd, rcv>>

\* handleDelete acks for an unknown record. The path it will compare with the
\* task's is read here, before GetWithMetadata goes on to the bucket.
NeverMoved(t) == FALSE
Moved(t) == ds.path # t.path

ReceiveDelete(w, t) ==
  /\ work[w].pc = "idle" /\ t.kind = "delete"
  /\ IF ds.ver = 0
     THEN Acknowledge(t) /\ deliveries[t] < MaxDeliveries /\ UNCHANGED work
     ELSE /\ Deliver(t)
          /\ work' = [work EXCEPT ![w] =
                       [IdleWorker EXCEPT !.pc = IF Moved(t) THEN "moved" ELSE "delete", !.task = t]]
  /\ UNCHANGED <<clock, faults, env, failed, index, gcs, gen, upd, rcv>>

\* A record Datastore has and GCS lacks is an error (nack); a moved or
\* withdrawn one needs no work (ack).
DeleteRead(w) ==
  /\ work[w].pc \in {"delete", "moved"}
  /\ \/ /\ gcs.ver = 0
        /\ Drop(w)
        /\ UNCHANGED <<clock, queue>>
     \/ /\ gcs.ver # 0 /\ (work[w].pc = "moved" \/ gcs.withdrawn # 0)
        /\ Drop(w)
        /\ Acknowledge(work[w].task)
        /\ UNCHANGED clock
     \/ /\ gcs.ver # 0 /\ work[w].pc = "delete" /\ gcs.withdrawn = 0
        /\ \E now \in {clock, clock + 1} :
             /\ Now(now)
             /\ work' = [work EXCEPT ![w] =
                           [@ EXCEPT !.pc = "commit",
                                     !.new = [gcs EXCEPT !.withdrawn = now, !.modified = now]]]
        /\ UNCHANGED queue
  /\ UNCHANGED <<faults, env, failed, index, gcs, gen, upd, rcv>>

\* writeBaseEntities: one Datastore transaction. A delete passes no raw
\* record, so the raw fields (ver) of the entity stay as they are.
ShownAlways(n)   == n.ver
Shown(n) == IF n.withdrawn # 0 THEN 0 ELSE n.ver

RawFieldsKept(t, n) == ds.ver
RawFields(t, n) == IF t.kind = "update" THEN n.ver ELSE ds.ver

CommitTx(w) ==
  LET t == work[w].task
      n == work[w].new
  IN  /\ work[w].pc = "commit"
      /\ ds' = [ver |-> RawFields(t, n), path |-> t.path,
                modified |-> n.modified, withdrawn |-> n.withdrawn # 0]
      /\ listed' = Shown(n)
      /\ versions' = Shown(n)
      /\ Step(w, "index")
      /\ UNCHANGED <<clock, faults, env, queue, failed, commits, gcs, gen, upd, rcv>>

\* updateAffectedCommits, outside the transaction; a delete clears the index.
WriteIndex(w) ==
  /\ work[w].pc = "index"
  /\ commits' = IF work[w].task.kind = "update" THEN work[w].new.ver ELSE 0
  /\ Step(w, "upload")
  /\ UNCHANGED <<clock, faults, env, queue, failed, ds, listed, versions, gcs, gen, upd, rcv>>

\* uploadToGCS writes without a precondition.
Upload(w) ==
  /\ work[w].pc = "upload"
  /\ Put(work[w].new)
  /\ Step(w, "ack")
  /\ UNCHANGED <<clock, faults, env, queue, failed, index, upd, rcv>>

\* The write failed: the record is handed to the recoverer, and the task
\* counts as done only if that message was accepted.
NotHandedOver(w) == {}
HandedOver(w) == {Retry(work[w].new)}

UploadFails(w) ==
  /\ work[w].pc = "upload"
  /\ Fault
  /\ failed' = failed \cup HandedOver(w)
  /\ Step(w, "ack")
  /\ UNCHANGED <<clock, env, queue, index, gcs, gen, upd, rcv>>

Ack(w) ==
  /\ work[w].pc = "ack"
  /\ Acknowledge(work[w].task)
  /\ Drop(w)
  /\ UNCHANGED <<clock, faults, env, failed, index, gcs, gen, upd, rcv>>

\* Any call may return an error, and the process may die: the task is not
\* acknowledged, and comes back as long as it has deliveries left.
WorkerFails(w) ==
  /\ work[w].pc # "idle"
  /\ Fault
  /\ Drop(w)
  /\ UNCHANGED <<clock, env, queue, failed, index, gcs, gen, upd, rcv>>
-----------------------------------------------------------------------------
(***************************************************************************)
(* The relations job.  The alias computation puts the group in Datastore   *)
(* and sends the Updater the new list with the group's timestamp; the      *)
(* Updater starts writing when the computation has closed its channel.     *)
(***************************************************************************)
Regroup(v) ==
  /\ upd.pc = "idle" /\ regroups < MaxRegroups
  /\ v # group.val
  /\ regroups' = regroups + 1
  /\ \E now \in {clock, clock + 1} :
       /\ Now(now)
       /\ group' = IF v = "nil" THEN NoGroup ELSE [val |-> v, modified |-> now]
       /\ upd' = [IdleUpdater EXCEPT !.pc = "read", !.val = v, !.at = now]
  /\ UNCHANGED <<faults, source, queue, failed, index, gcs, gen, work, rcv>>

UpdaterRead ==
  /\ upd.pc = "read"
  /\ IF gcs.ver = 0
     THEN /\ failed' = IF ds.ver # 0 THEN failed \cup {Missing} ELSE failed
          /\ upd' = IdleUpdater
     ELSE /\ upd' = [upd EXCEPT !.pc = "attrs", !.rec = gcs]
          /\ UNCHANGED failed
  /\ UNCHANGED <<clock, faults, env, queue, index, gcs, gen, work, rcv>>

\* The generation is read by a second call, after the data.
UpdaterAttrs ==
  /\ upd.pc = "attrs"
  /\ upd' = [upd EXCEPT !.pc = "commit", !.gen = gen]
  /\ UNCHANGED <<clock, faults, env, queue, failed, index, gcs, gen, work, rcv>>

Patched == [upd.rec EXCEPT !.aliases = upd.val, !.modified = upd.at]

\* One transaction: Modified, and an unconditional put of ListedVulnerability.
UpdaterCommit ==
  /\ upd.pc = "commit"
  /\ IF upd.rec.aliases = upd.val \/ ds.ver = 0
     THEN upd' = IdleUpdater /\ UNCHANGED <<ds, listed>>
     ELSE /\ ds' = [ds EXCEPT !.modified = upd.at]
          /\ listed' = upd.rec.ver
          /\ upd' = [upd EXCEPT !.pc = "write", !.rec = Patched]
  /\ UNCHANGED <<clock, faults, env, queue, failed, versions, commits, gcs, gen, work, rcv>>

UpdaterWrite ==
  /\ upd.pc = "write" /\ gen = upd.gen
  /\ Put(upd.rec)
  /\ upd' = IdleUpdater
  /\ UNCHANGED <<clock, faults, env, queue, failed, index, work, rcv>>

UpdaterWriteMismatch ==
  /\ upd.pc = "write" /\ gen # upd.gen
  /\ failed' = failed \cup {IF TypedPreconditionError THEN Mismatch ELSE Retry(upd.rec)}
  /\ upd' = IdleUpdater
  /\ UNCHANGED <<clock, faults, env, queue, index, gcs, gen, work, rcv>>

UpdaterWriteFails ==
  /\ upd.pc = "write"
  /\ Fault
  /\ failed' = failed \cup {Retry(upd.rec)}
  /\ upd' = IdleUpdater
  /\ UNCHANGED <<clock, env, queue, index, gcs, gen, work, rcv>>

\* A failed call is logged and the record skipped; a message whose publish
\* fails is lost (the result of Publish is not awaited); the job may die.
UpdaterFails ==
  /\ upd.pc # "idle"
  /\ Fault
  /\ upd' = IdleUpdater
  /\ UNCHANGED <<clock, env, queue, failed, index, gcs, gen, work, rcv>>
-----------------------------------------------------------------------------
(***************************************************************************)
(* The recoverer: one loop that pulls one message at a time.  A handler    *)
(* that returns False nacks, one that raises ends the process: either way  *)
(* the message comes back (its subscription has no dead-letter policy).    *)
(***************************************************************************)
RcvDone(m) == /\ failed' = failed \ {m}
              /\ rcv' = IdleRecoverer

\* handle_gcs_retry drops the message when the object is as new or newer ...
AlwaysSuperseded(r) == TRUE
Superseded(r) == gcs.ver # 0 /\ gcs.modified >= r.modified

RetryCheck(m) ==
  /\ rcv.pc = "idle" /\ m.type = "gcs_retry"
  /\ IF Superseded(m.rec)
     THEN RcvDone(m)
     ELSE /\ rcv' = [IdleRecoverer EXCEPT !.pc = "upload", !.msg = m, !.rec = m.rec]
          /\ UNCHANGED failed
  /\ UNCHANGED <<clock, faults, env, queue, index, gcs, gen, work, upd>>

\* ... and otherwise uploads it, without a precondition.
RetryExisting ==
  /\ rcv.pc = "upload"
  /\ IF gcs.ver # 0
     THEN Put(rcv.rec) /\ rcv' = [rcv EXCEPT !.pc = "ack"]
     ELSE rcv' = IdleRecoverer /\ UNCHANGED <<gcs, gen>>
  /\ UNCHANGED <<clock, faults, env, queue, failed, index, work, upd>>
RetryUpload ==
  /\ rcv.pc = "upload"
  /\ Put(rcv.rec)
  /\ rcv' = [rcv EXCEPT !.pc = "ack"]
  /\ UNCHANGED <<clock, faults, env, queue, failed, index, work, upd>>

\* main acknowledges the message in a call of its own.
RcvAck ==
  /\ rcv.pc = "ack"
  /\ RcvDone(rcv.msg)
  /\ UNCHANGED <<clock, faults, env, queue, index, gcs, gen, work, upd>>

\* handle_gcs_missing sends the source's file as a new update task. Without
\* a file to download it raises, and the message stays. The result of the
\* publish is not awaited: the message is done, the task may never exist.
Reimport(m) ==
  /\ RcvDone(m)
  /\ \/ ds.ver = 0 /\ UNCHANGED <<faults, queue>>
     \/ /\ ds.ver # 0 /\ source.path = ds.path
        /\ \/ /\ Publish([kind |-> "update", ver |-> source.ver, path |-> source.path])
              /\ UNCHANGED faults
           \/ Fault /\ UNCHANGED queue

MissingReimport(m) ==
  /\ rcv.pc = "idle" /\ m.type = "gcs_missing"
  /\ Reimport(m)
  /\ UNCHANGED <<clock, env, index, gcs, gen, work, upd>>

\* handle_gcs_gen_mismatch reads record and generation together ...
MismatchRead(m) ==
  /\ rcv.pc = "idle" /\ m.type = "gcs_gen_mismatch"
  /\ IF gcs.ver = 0
     THEN Reimport(m)
     ELSE /\ rcv' = [pc |-> "merge", msg |-> m, rec |-> gcs, gen |-> gen]
          /\ UNCHANGED <<faults, failed, queue>>
  /\ UNCHANGED <<clock, env, index, gcs, gen, work, upd>>

\* ... recomputes the aliases from the group in a Datastore transaction ...
Merged(stamp) == [rcv.rec EXCEPT !.aliases = group.val, !.modified = stamp]

MergeTx ==
  LET changed == rcv.rec.aliases # group.val
  IN  /\ rcv.pc = "merge"
      /\ \E now \in {clock, clock + 1} :
           LET stamp == IF ~changed THEN ds.modified
                        ELSE IF group.val # "nil" /\ group.modified > ds.modified
                             THEN group.modified ELSE now
           IN  /\ Now(now)
               /\ IF ds.ver = 0
                  THEN /\ rcv' = [rcv EXCEPT !.pc = "replace"]
                       /\ UNCHANGED <<ds, listed>>
                  ELSE /\ rcv' = [rcv EXCEPT !.pc = "replace", !.rec = Merged(stamp)]
                       /\ ds' = [ds EXCEPT !.modified = stamp]
                       /\ listed' = rcv.rec.ver
      /\ UNCHANGED <<faults, env, queue, failed, versions, commits, gcs, gen, work, upd>>

\* ... and uploads if the object still has the generation it read (else nack).
AnyGeneration == TRUE
SameGeneration == gen = rcv.gen

MergeUpload ==
  /\ rcv.pc = "replace"
  /\ IF SameGeneration
     THEN Put(rcv.rec) /\ rcv' = [rcv EXCEPT !.pc = "ack"]
     ELSE rcv' = IdleRecoverer /\ UNCHANGED <<gcs, gen>>
  /\ UNCHANGED <<clock, faults, env, queue, failed, index, work, upd>>

\* A task without deliveries left is forwarded to the failed-tasks topic, and
\* has no handler of its own there: handle_generic logs it and returns True,
\* so that it is acknowledged and gone - even while a worker whose lease has
\* lapsed still handles it.
HandleGeneric(t) ==
  /\ rcv.pc = "idle"
  /\ t \in tasks /\ deliveries[t] = MaxDeliveries
  /\ tasks' = tasks \ {t} /\ deliveries' = [deliveries EXCEPT ![t] = 0]
  /\ dropped' = dropped \cup ({t} \cap Updates)
  /\ UNCHANGED <<clock, faults, env, failed, index, gcs, gen, work, upd, rcv>>

RecovererFails ==
  /\ rcv.pc # "idle"
  /\ Fault
  /\ rcv' = IdleRecoverer
  /\ UNCHANGED <<clock, env, queue, failed, index, gcs, gen, work, upd>>
-----------------------------------------------------------------------------
Importer == \/ \E v \in Versions, p \in Paths : SourceChange(v, p)
            \/ \E p \in Paths : SourceMove(p)
            \/ SourceRemove
            \/ PublishDelete

Handle(w) == \/ Enrich(w) \/ DeleteRead(w) \/ CommitTx(w) \/ WriteIndex(w)
             \/ Upload(w) \/ Ack(w)
Receive(t) == \E w \in Workers : ReceiveUpdate(w, t) \/ ReceiveDelete(w, t)
Worker(w) == Handle(w) \/ UploadFails(w) \/ WorkerFails(w)

Updater == \/ UpdaterRead \/ UpdaterAttrs \/ UpdaterCommit
           \/ UpdaterWrite \/ UpdaterWriteMismatch
UpdaterFaults == UpdaterWriteFails \/ UpdaterFails

Recover(m) == RetryCheck(m) \/ MissingReimport(m) \/ MismatchRead(m)
Recoverer == RetryUpload \/ MergeTx \/ MergeUpload \/ RcvAck

Next == \/ Importer
        \/ \E t \in tasks : Receive(t) \/ HandleGeneric(t)
        \/ \E w \in Workers : Worker(w)
        \/ \E v \in GroupValues \cup {"nil"} : Regroup(v)
        \/ Updater \/ UpdaterFaults
        \/ \E m \in failed : Recover(m)
        \/ Recoverer \/ RecovererFails

Spec == Init /\ [][Next]_vars

\* The processes run, the recoverer's loop pulls what there is; Pub/Sub keeps
\* delivering a task that has deliveries left, and forwards one that has none;
\* the importer's deletion run, a CronJob, comes round again.
Fairness == /\ \A w \in Workers : WF_vars(Handle(w))
            /\ \A t \in Tasks : SF_vars(t \in tasks /\ Receive(t)) /\ WF_vars(HandleGeneric(t))
            /\ WF_vars(PublishDelete)
            /\ WF_vars(Updater) /\ WF_vars(Recoverer)
            /\ WF_vars(\E m \in failed : Recover(m))
FairSpec == Spec /\ Fairness
-----------------------------------------------------------------------------
WorkerPCs == {"idle", "enrich", "delete", "moved", "commit", "index", "upload", "ack"}
WorkerStates ==
  [pc: WorkerPCs, task: Tasks \cup {NoTask}, cur: Records, new: Records]
UpdaterStates ==
  [pc: {"idle", "read", "attrs", "commit", "write"},
   val: GroupValues \cup {"nil"}, at: Times, rec: Records, gen: Nat]
RecovererStates ==
  [pc: {"idle", "upload", "merge", "replace", "ack"}, msg: Failures, rec: Records, gen: Nat]
Entities == [ver: Versions \cup {0}, path: Paths \cup {NoPath},
             modified: Times, withdrawn: BOOLEAN]

TypeOK ==
  /\ clock \in Times /\ faults \in Nat /\ regroups \in Nat
  /\ source \in [ver: Versions \cup {0}, path: Paths \cup {NoPath}]
  /\ tasks \subseteq Tasks /\ deliveries \in [Tasks -> 0..MaxDeliveries]
  /\ dropped \subseteq Updates /\ failed \subseteq Failures
  /\ ds \in Entities
  /\ {listed, versions, commits} \subseteq Versions \cup {0}
  /\ gcs \in Records /\ gen \in Nat
  /\ group \in [val: GroupValues \cup {"nil"}, modified: Times]
  /\ work \in [Workers -> WorkerStates]
  /\ upd \in UpdaterStates /\ rcv \in RecovererStates

(***************************************************************************)
(* A record Datastore knows and the public bucket lacks is owed: an        *)
(* unacknowledged update task or a gcs_retry message still carries it, or  *)
(* one of its updates has used up its deliveries.  Write's order           *)
(* (Datastore, then GCS, then the hand-over to the recoverer, then the     *)
(* ack) is for the first two, over every crash and redelivery; the third   *)
(* is what the deployment leaves to a person who reads the log.            *)
(***************************************************************************)
GivenUp == dropped # {}

IndexedIsOwed ==
  ds.ver # 0 /\ gcs.ver = 0 =>
    \/ \E t \in tasks : t.kind = "update"
    \/ \E m \in failed : m.type = "gcs_retry"
    \/ GivenUp

(***************************************************************************)
(* Nothing is public without an index entity: a record in the bucket has a *)
(* Vulnerability entity, so the importer's listing and the relations job   *)
(* can find it again.                                                      *)
(***************************************************************************)
PublicIsIndexed == gcs.ver # 0 => ds.ver # 0

(***************************************************************************)
(* The inductive invariant behind the two: what each process knows about   *)
(* the stores while it is between two of its steps.                        *)
(***************************************************************************)
Settled == gcs.ver # 0 \/ \E m \in failed : m.type = "gcs_retry"

Knows(l) ==
  /\ l.pc # "idle" => l.task \in Tasks
  /\ l.pc = "enrich" => l.task.kind = "update"
  /\ l.pc \in {"delete", "moved"} => l.task.kind = "delete"
  /\ l.pc \in {"commit", "index", "upload", "ack"} => l.new.ver # 0
  /\ l.pc \in {"index", "upload", "ack"} => ds.ver # 0
  /\ l.pc # "idle" /\ l.task.kind = "delete" => ds.ver # 0
  /\ l.pc # "idle" /\ l.task.kind = "update" => l.task \in tasks \cup dropped \/ Settled
  /\ l.pc = "ack" => Settled
WorkerKnows == \A w \in Workers : Knows(work[w])

MessagesKnow == \A m \in failed : m.type = "gcs_retry" => m.rec.ver # 0 /\ ds.ver # 0

UpdaterKnows == upd.pc \in {"attrs", "commit", "write"} => upd.rec.ver # 0 /\ ds.ver # 0

RecovererKnows ==
  /\ rcv.pc = "upload" => rcv.rec.ver # 0 /\ ds.ver # 0
  /\ rcv.pc \in {"merge", "replace"} =>
       rcv.rec.ver # 0 /\ gcs.ver # 0 /\ rcv.msg.type = "gcs_gen_mismatch"
  /\ rcv.pc = "ack" => gcs.ver # 0

PathsKnown == /\ ds.ver # 0 => ds.path \in Paths
              /\ source.path \in Paths => source.ver # 0

IInv == /\ TypeOK /\ PathsKnown
        /\ WorkerKnows /\ MessagesKnow /\ UpdaterKnows /\ RecovererKnows
        /\ IndexedIsOwed /\ PublicIsIndexed

(***************************************************************************)
(* engine.go: "Ensure Modified is at least as new as Withdrawn", whatever  *)
(* the source's clock says, for every record the workers and the recoverer *)
(* upload (the Updater stamps the time of a group and gives no such care). *)
(***************************************************************************)
ModifiedCoversWithdrawn == gcs.modified >= gcs.withdrawn

(***************************************************************************)
(* A withdrawn record is neither listed nor matched by version: the        *)
(* transaction of Write drops its ListedVulnerability and AffectedVersions *)
(* entities, however a crash or a redelivery splits it from the upload.    *)
(* (The Updater lists every record it patches: this is about the workers.) *)
(***************************************************************************)
WithdrawnUnlisted == ds.withdrawn => listed = 0 /\ versions = 0

(***************************************************************************)
(* The invariants behind the two.  What a worker is about to upload is     *)
(* covered whatever the other programs do; what the bucket and the index   *)
(* hold is their doing alone while the Updater does not run, for then no   *)
(* message but gcs_retry reaches the recoverer.                            *)
(***************************************************************************)
Covered(r) == r.modified >= r.withdrawn
WorkersCover ==
  \A w \in Workers : work[w].pc \in {"commit", "index", "upload", "ack"} => Covered(work[w].new)

WithdrawnUnmatched == ds.withdrawn => versions = 0

UpdaterIdle == upd.pc = "idle"
OnlyRetries ==
  /\ \A m \in failed : m.type = "gcs_retry" /\ Covered(m.rec)
  /\ rcv.pc \in {"idle", "upload", "ack"} /\ Covered(rcv.rec)
CoverInv == OnlyRetries /\ ModifiedCoversWithdrawn /\ WithdrawnUnlisted

(***************************************************************************)
(* The safety check of handleDelete: a deletion never takes over a record  *)
(* that belongs to another path of its source by now.                      *)
(***************************************************************************)
DeletesOwnPath ==
  [][\A w \in Workers :
       work[w].pc = "commit" /\ work'[w].pc = "index" /\ work[w].task.kind = "delete"
         => ds.path = work[w].task.path]_vars

\* Behind it: the path a deletion compared stands while no other task of the
\* record is at work. (Two workers do break it: the path is compared before
\* GetWithMetadata reads the bucket and the transaction writes.)
OneTaskAtATime == \A v, w \in Workers : v = w \/ work[v].pc = "idle" \/ work[w].pc = "idle"
PathHeld ==
  \A w \in Workers :
    work[w].pc \in {"delete", "commit"} /\ work[w].task.kind = "delete"
      => ds.path = work[w].task.path

(***************************************************************************)
(* Resolving a generation mismatch patches the aliases and nothing else:   *)
(* what the worker published meanwhile stays published.  It rests on what  *)
(* the recoverer read: the object can only differ if its generation moved. *)
(***************************************************************************)
RecovererSnapshot ==
  rcv.pc \in {"merge", "replace"} =>
    /\ rcv.gen <= gen
    /\ rcv.gen = gen => gcs.ver = rcv.rec.ver /\ gcs.withdrawn = rcv.rec.withdrawn

MergeKeepsContent ==
  [][rcv.pc = "replace" /\ rcv' # rcv /\ gen' # gen
       => gcs'.ver = gcs.ver /\ gcs'.withdrawn = gcs.withdrawn]_vars

(***************************************************************************)
(* gcs.go: the generation is matched "to ensure we don't overwrite the     *)
(* object if it has been modified by another process since we last read    *)
(* it".  The Updater's write keeps the content it replaces.                *)
(***************************************************************************)
PatchKeepsContent ==
  [][upd.pc = "write" /\ upd' # upd /\ gen' # gen
       => gcs'.ver = gcs.ver /\ gcs'.withdrawn = gcs.withdrawn]_vars

\* The Updater's own write is to blame for none of it: content is lost only
\* when another program writes between the read of the data and that of the
\* generation, which are two calls.
UndisturbedRead == [][upd.pc = "attrs" => gen' = gen]_vars

SameContent(r) == gcs.ver = r.ver /\ gcs.withdrawn = r.withdrawn
UpdaterSnapshot ==
  /\ upd.pc = "attrs" => SameContent(upd.rec)
  /\ upd.pc \in {"commit", "write"} =>
       upd.gen <= gen /\ (upd.gen = gen => SameContent(upd.rec))

(***************************************************************************)
(* handle_gcs_retry uploads a record only over none or an older one.  Its  *)
(* check and its upload are two calls as well, so it does as long as no    *)
(* other program writes between them.                                      *)
(***************************************************************************)
UndisturbedRetry == [][rcv.pc = "upload" /\ rcv' = rcv => gen' = gen]_vars

RetryReplacesOlder ==
  [][rcv.pc = "upload" /\ rcv' # rcv /\ gen' # gen => ~Superseded(rcv.rec)]_vars

(***************************************************************************)
(* A record whose file is gone for good is withdrawn in the end, in        *)
(* Datastore or in the bucket (handleDelete calls the work done when the   *)
(* public record is).  The deletion's task is refused while the record is  *)
(* missing from the bucket, and is dropped after MaxDeliveries refusals:   *)
(* the recovery of the failed upload lets it through, and the next         *)
(* deletion run brings it back.  An update that used up its own deliveries *)
(* is the one thing that may stop it.                                      *)
(***************************************************************************)
RemovedIsWithdrawn ==
  <>[](source.path = NoPath)
    => <>[](ds.ver = 0 \/ ds.withdrawn \/ gcs.withdrawn # 0 \/ GivenUp)

(***************************************************************************)
(* A record that was indexed becomes public, through failed uploads and    *)
(* crashes between the two writes, unless an update of it used up its      *)
(* deliveries.                                                             *)
(***************************************************************************)
BecomesPublic == ds.ver # 0 ~> gcs.ver # 0 \/ GivenUp
=============================================================================
