------------------------- MODULE RecordPipelineProofs -------------------------
(***************************************************************************)
(* Proofs about RecordPipeline, for every set of workers, paths and        *)
(* contents and every bound.  IInv is inductive; one lemma per action.     *)
(***************************************************************************)
EXTENDS RecordPipeline, TLAPS

(***************************************************************************)
(* The named values have the types the messages and the variables need.    *)
(***************************************************************************)
LEMMA ConstantTypes ==
  /\ Missing.type # "gcs_retry" /\ Mismatch.type = "gcs_gen_mismatch"
  /\ \A r : Retry(r).type = "gcs_retry" /\ Retry(r).rec = r
  /\ IdleWorker \in WorkerStates /\ IdleUpdater \in UpdaterStates
  /\ IdleRecoverer \in RecovererStates
  /\ Absent \in Records /\ NoGroup \in [val: GroupValues \cup {"nil"}, modified: Times]
  /\ Missing \in Failures /\ Mismatch \in Failures
  /\ \A r \in Records : Retry(r) \in Failures
  /\ \A m \in Failures : m.rec \in Records
BY DEF Absent, Records, Times, Aliases, NoGroup, Missing, Mismatch, Retry, Failures, IdleWorker,
   IdleUpdater, IdleRecoverer, WorkerStates, WorkerPCs, UpdaterStates, RecovererStates

(***************************************************************************)
(* handleUpdate's restamping changes nothing but the modified time.        *)
(***************************************************************************)
LEMMA RestampType ==
  ASSUME NEW c \in Records, NEW e \in Records, NEW now \in Times
  PROVE  /\ Restamp(c, e, now) \in Records
         /\ Restamp(c, e, now).ver = e.ver
BY DEF Restamp, Records, Times, Later, Different, Aliases

(***************************************************************************)
(* The enrichment pipeline keeps the content it is given.                  *)
(***************************************************************************)
LEMMA EnrichedType ==
  ASSUME TypeOK, NEW v \in Versions
  PROVE  Enriched(v) \in Records /\ Enriched(v).ver = v
BY RecordAssumption DEF Enriched, Records, Times, TypeOK, Later, Aliases

(***************************************************************************)
(* The queue keeps its shape; publishing and delivering forget no task,    *)
(* and a dropped task that is published again is a task again.             *)
(***************************************************************************)
QueueOK == /\ tasks \subseteq Tasks /\ dropped \subseteq Updates
           /\ deliveries \in [Tasks -> 0..MaxDeliveries]

LEMMA DeliveriesBound == 0 \in 0..MaxDeliveries /\ MaxDeliveries \in Nat
<1>1. MaxDeliveries \in Nat \ {0}
  BY RecordAssumption
<1> QED
  BY <1>1

LEMMA PublishKeeps ==
  ASSUME QueueOK, NEW t \in Tasks, Publish(t)
  PROVE  QueueOK' /\ tasks \cup dropped \subseteq tasks' \cup dropped'
<1>1. deliveries' \in [Tasks -> 0..MaxDeliveries]
  BY DeliveriesBound DEF QueueOK, Publish
<1> QED
  BY <1>1 DEF QueueOK, Publish

LEMMA AcknowledgeKeeps ==
  ASSUME QueueOK, NEW t, Acknowledge(t)
  PROVE  QueueOK' /\ tasks' = tasks \ {t} /\ dropped' = dropped
<1>1. deliveries' \in [Tasks -> 0..MaxDeliveries]
  BY DeliveriesBound DEF QueueOK, Acknowledge
<1> QED
  BY <1>1 DEF QueueOK, Acknowledge

LEMMA DeliverKeeps ==
  ASSUME QueueOK, NEW t \in Tasks, Deliver(t)
  PROVE  QueueOK' /\ tasks' = tasks /\ dropped' = dropped
<1>1. deliveries[t] \in 0..MaxDeliveries /\ deliveries[t] < MaxDeliveries
  BY DEF QueueOK, Deliver
<1>2. deliveries[t] + 1 \in 0..MaxDeliveries
  BY <1>1, DeliveriesBound
<1>3. deliveries' \in [Tasks -> 0..MaxDeliveries]
  BY <1>2 DEF QueueOK, Deliver
<1> QED
  BY <1>3 DEF QueueOK, Deliver

\* What is owed stays owed while no task is forgotten.
LEMMA OwedStable ==
  ASSUME QueueOK, QueueOK', IndexedIsOwed,
         tasks \cup dropped \subseteq tasks' \cup dropped',
         UNCHANGED <<ds, gcs>>, \A m \in failed : m.type = "gcs_retry" => m \in failed'
  PROVE  IndexedIsOwed'
<1> SUFFICES ASSUME ds.ver # 0, gcs.ver = 0, ~\E m \in failed : m.type = "gcs_retry"
             PROVE  GivenUp' \/ \E t \in tasks' : t.kind = "update"
  BY DEF IndexedIsOwed, GivenUp
<1>1. PICK t \in tasks \cup dropped : t.kind = "update"
  BY DEF IndexedIsOwed, GivenUp, QueueOK, Updates
<1> QED
  BY <1>1 DEF GivenUp

(***************************************************************************)
(* The pipeline starts empty: nothing is indexed, public or owed.          *)
(***************************************************************************)
LEMMA InitIInv == Init => IInv
<1> SUFFICES ASSUME Init PROVE IInv
  OBVIOUS
<1>1. TypeOK
  BY RecordAssumption, DeliveriesBound, ConstantTypes
     DEF Init, TypeOK, WorkerStates, WorkerPCs, UpdaterStates, RecovererStates, Entities,
         IdleWorker, IdleUpdater, IdleRecoverer, Times
<1>2. PathsKnown /\ WorkerKnows /\ MessagesKnow /\ UpdaterKnows /\ RecovererKnows
  BY RecordAssumption DEF Init, PathsKnown, WorkerKnows, Knows, MessagesKnow, UpdaterKnows,
     RecovererKnows, IdleWorker, IdleUpdater, IdleRecoverer, NoPath
<1>3. IndexedIsOwed /\ PublicIsIndexed
  BY DEF Init, IndexedIsOwed, PublicIsIndexed, Absent
<1> QED
  BY <1>1, <1>2, <1>3 DEF IInv

(***************************************************************************)
(* What a worker knows stays true while others move: an entity or a public *)
(* record is never removed, and its task goes only when it is settled.     *)
(***************************************************************************)
LEMMA KnowledgeStable ==
  ASSUME NEW w \in Workers, Knows(work[w]), work'[w] = work[w],
         ds.ver # 0 => ds'.ver # 0, Settled => Settled',
         work[w].task \in tasks \cup dropped => work[w].task \in tasks' \cup dropped' \/ Settled'
  PROVE  Knows(work[w])'
BY DEF Knows

\* A step of another program that keeps the stores filled disturbs no worker.
LEMMA WorkersUntouched ==
  ASSUME WorkerKnows, work' = work, tasks \cup dropped \subseteq tasks' \cup dropped',
         ds.ver # 0 => ds'.ver # 0, Settled => Settled'
  PROVE  WorkerKnows'
BY KnowledgeStable DEF WorkerKnows

(***************************************************************************)
(* One worker's step, seen from the array of workers.                      *)
(***************************************************************************)
LEMMA WorkerStep ==
  ASSUME work \in [Workers -> WorkerStates], NEW w \in Workers, NEW l \in WorkerStates,
         work' = [work EXCEPT ![w] = l]
  PROVE  /\ work' \in [Workers -> WorkerStates]
         /\ work'[w] = l
         /\ \A v \in Workers \ {w} : work'[v] = work[v]
OBVIOUS

\* The same when one worker moves: only what that worker knows is to be shown.
LEMMA OneWorkerMoved ==
  ASSUME WorkerKnows, NEW w \in Workers, Knows(work[w])',
         \A v \in Workers \ {w} : work'[v] = work[v],
         ds.ver # 0 => ds'.ver # 0, Settled => Settled',
         \A v \in Workers \ {w} :
           work[v].task \in tasks \cup dropped => work[v].task \in tasks' \cup dropped' \/ Settled'
  PROVE  WorkerKnows'
BY KnowledgeStable DEF WorkerKnows

(***************************************************************************)
(* The importer only ever adds tasks and changes the source.               *)
(***************************************************************************)
LEMMA ImporterKeeps ==
  ASSUME IInv, Importer
  PROVE  IInv'
<1> USE DEF IInv, index, env, queue
<1>1. UNCHANGED <<clock, faults, failed, index, gcs, gen, group, work, upd, rcv>>
  BY DEF Importer, SourceChange, SourceMove, SourceRemove, PublishDelete
<1>2. UNCHANGED queue \/ \E t \in Tasks : Publish(t)
  <2>1. ds.ver # 0 => ds.path \in Paths
    BY DEF PathsKnown
  <2>2. source.ver \in Versions \cup {0}
    BY DEF TypeOK
  <2> QED
    BY <2>1, <2>2 DEF Importer, SourceChange, SourceMove, SourceRemove, PublishDelete, Tasks, Updates
<1>3. QueueOK' /\ tasks \cup dropped \subseteq tasks' \cup dropped'
  <2>1. QueueOK
    BY DEF QueueOK, TypeOK
  <2>2. CASE UNCHANGED queue
    BY <2>1, <2>2 DEF queue, QueueOK
  <2> QED
    BY <1>2, <2>1, <2>2, PublishKeeps
<1> DEFINE Changed == \E v \in Versions, p \in Paths : source' = [ver |-> v, path |-> p]
           Renamed  == source.ver # 0 /\ \E p \in Paths : source' = [source EXCEPT !.path = p]
           Removed == source' = [source EXCEPT !.path = NoPath]
<1>0. (regroups' = regroups \/ regroups' = regroups + 1) /\ (source' = source \/ Changed \/ Renamed \/ Removed)
  <2>1. ASSUME NEW v \in Versions, NEW p \in Paths, SourceChange(v, p) PROVE regroups' = regroups /\ Changed
    BY <2>1 DEF SourceChange
  <2>2. ASSUME NEW p \in Paths, SourceMove(p) PROVE regroups' = regroups + 1 /\ Renamed
    BY <2>2 DEF SourceMove
  <2>3. CASE SourceRemove
    BY <2>3 DEF SourceRemove
  <2>4. CASE PublishDelete
    BY <2>4 DEF PublishDelete
  <2> QED
    BY <2>1, <2>2, <2>3, <2>4 DEF Importer
<1>4. source' \in [ver: Versions \cup {0}, path: Paths \cup {NoPath}] /\ regroups' \in Nat
  BY <1>0 DEF TypeOK
<1>5. source'.path \in Paths => source'.ver # 0
  <2>1. source \in [ver: Versions \cup {0}, path: Paths \cup {NoPath}] /\ NoPath \notin Paths
    BY RecordAssumption DEF TypeOK, NoPath
  <2>2. source.path \in Paths => source.ver # 0
    BY DEF PathsKnown
  <2>3. \A v \in Versions : v # 0
    BY RecordAssumption
  <2> QED
    BY <1>0, <2>1, <2>2, <2>3
<1>6. TypeOK'
  BY <1>1, <1>3, <1>4 DEF TypeOK, QueueOK
<1>7. PathsKnown'
  BY <1>1, <1>5 DEF PathsKnown
<1>8. WorkerKnows'
  BY <1>1, <1>3, WorkersUntouched DEF Settled
<1>9. MessagesKnow' /\ UpdaterKnows' /\ RecovererKnows' /\ PublicIsIndexed'
  BY <1>1 DEF MessagesKnow, UpdaterKnows, RecovererKnows, PublicIsIndexed
<1>10. IndexedIsOwed'
  BY <1>1, <1>3, OwedStable DEF TypeOK, QueueOK
<1> QED
  BY <1>6, <1>7, <1>8, <1>9, <1>10

(***************************************************************************)
(* Every reading of the clock is a time.                                   *)
(***************************************************************************)
LEMMA Ticks ==
  ASSUME clock \in Times, NEW t, Now(t)
  PROVE  t \in Times /\ clock' = t
BY DEF Now, Times

(***************************************************************************)
(* The steps a worker takes before its first write: no store changes.      *)
(***************************************************************************)
LEMMA ReceiveKeeps ==
  ASSUME IInv, NEW t \in tasks, Receive(t)
  PROVE  IInv'
<1> USE DEF IInv, index, env, queue
<1>1. PICK w \in Workers : ReceiveUpdate(w, t) \/ ReceiveDelete(w, t)
  BY DEF Receive
<1>2. t \in Tasks /\ QueueOK
  BY DEF TypeOK, QueueOK
<1>3. UNCHANGED <<clock, faults, env, failed, index, gcs, gen, upd, rcv>>
  BY <1>1 DEF ReceiveUpdate, ReceiveDelete
<1>4. CASE ReceiveDelete(w, t) /\ ds.ver = 0
  <2>1. work' = work /\ tasks' = tasks \ {t} /\ dropped' = dropped /\ QueueOK'
        /\ t.kind = "delete"
    BY <1>2, <1>4, AcknowledgeKeeps DEF ReceiveDelete
  <2>2. TypeOK'
    BY <1>3, <2>1 DEF TypeOK, QueueOK
  <2>3. WorkerKnows'
    <3> SUFFICES ASSUME NEW v \in Workers PROVE Knows(work[v])'
      BY DEF WorkerKnows
    <3>1. Knows(work[v])
      BY DEF WorkerKnows
    <3>2. CASE work[v].task \in tasks' \cup dropped'
      BY <1>3, <2>1, <3>1, <3>2, KnowledgeStable DEF Settled
    <3>3. CASE work[v].task = t
      BY <1>3, <2>1, <3>1, <3>3 DEF Knows, Settled
    <3>4. CASE work[v].task \notin tasks \cup dropped
      BY <1>3, <2>1, <3>1, <3>4, KnowledgeStable DEF Settled
    <3> QED
      BY <2>1, <3>2, <3>3, <3>4
  <2>4. IndexedIsOwed'
    BY <1>3, <2>1 DEF IndexedIsOwed, GivenUp
  <2> QED
    BY <1>3, <2>2, <2>3, <2>4
       DEF PathsKnown, MessagesKnow, UpdaterKnows, RecovererKnows, PublicIsIndexed
<1>5. CASE ~(ReceiveDelete(w, t) /\ ds.ver = 0)
  <2>1. tasks' = tasks /\ dropped' = dropped /\ QueueOK'
    BY <1>1, <1>2, <1>5, DeliverKeeps DEF ReceiveUpdate, ReceiveDelete
  <2>2. PICK l \in WorkerStates :
          /\ work' = [work EXCEPT ![w] = l]
          /\ l.task = t
          /\ l.pc \in IF t.kind = "update" THEN {"enrich"} ELSE {"delete", "moved"}
          /\ t.kind = "delete" => ds.ver # 0
    <3>1. CASE ReceiveUpdate(w, t)
      <4> DEFINE l == [pc |-> "enrich", task |-> t, cur |-> gcs, new |-> Absent]
      <4>1. l \in WorkerStates
        BY <1>2, ConstantTypes DEF TypeOK, WorkerStates, WorkerPCs
      <4> QED
        BY <3>1, <4>1 DEF ReceiveUpdate
    <3>2. CASE ReceiveDelete(w, t)
      <4> DEFINE l == [IdleWorker EXCEPT !.pc = IF Moved(t) THEN "moved" ELSE "delete", !.task = t]
      <4>1. l \in WorkerStates
        BY <1>2, ConstantTypes DEF WorkerStates, WorkerPCs
      <4> QED
        BY <1>5, <3>2, <4>1, ConstantTypes DEF ReceiveDelete, WorkerStates
    <3> QED
      BY <1>1, <3>1, <3>2
  <2>3. /\ work' \in [Workers -> WorkerStates] /\ work'[w] = l
        /\ \A v \in Workers \ {w} : work'[v] = work[v]
    BY <2>2, WorkerStep DEF TypeOK
  <2>4. TypeOK'
    BY <1>3, <2>1, <2>3 DEF TypeOK, QueueOK
  <2>5. Knows(work[w])'
    BY <1>2, <1>3, <2>1, <2>2, <2>3 DEF Knows, Tasks, Updates
  <2>6. WorkerKnows'
    BY <1>3, <2>1, <2>3, <2>5, OneWorkerMoved DEF Settled
  <2> QED
    BY <1>3, <2>1, <2>4, <2>6
       DEF PathsKnown, MessagesKnow, UpdaterKnows, RecovererKnows, PublicIsIndexed, IndexedIsOwed, GivenUp
<1> QED
  BY <1>4, <1>5

\* handleUpdate stamps the record; nothing is written yet.
LEMMA EnrichKeeps ==
  ASSUME IInv, NEW w \in Workers, Enrich(w)
  PROVE  IInv'
<1> USE DEF IInv, index, env, queue
<1>1. UNCHANGED <<faults, env, queue, failed, index, gcs, gen, upd, rcv>>
  BY DEF Enrich
<1>2. work[w] \in WorkerStates /\ work[w].pc = "enrich" /\ Knows(work[w])
  BY DEF Enrich, TypeOK, WorkerKnows
<1>3. work[w].task \in Tasks /\ work[w].task.ver \in Versions
  BY <1>2 DEF Knows, Tasks, Updates
<1>4. PICK now \in Times :
        /\ clock' = now
        /\ work' = [work EXCEPT ![w] =
                     [@ EXCEPT !.pc = "commit", !.cur = Absent,
                               !.new = Restamp(work[w].cur, Enriched(work[w].task.ver), now)]]
  BY Ticks DEF Enrich, TypeOK
<1> DEFINE new == Restamp(work[w].cur, Enriched(work[w].task.ver), now)
           l == [work[w] EXCEPT !.pc = "commit", !.cur = Absent, !.new = new]
<1>5. new \in Records /\ new.ver # 0
  <2>1. work[w].cur \in Records
    BY <1>2 DEF WorkerStates
  <2>2. Enriched(work[w].task.ver) \in Records
    BY <1>3, EnrichedType
  <2>3. Enriched(work[w].task.ver).ver = work[w].task.ver
    BY <1>3, EnrichedType
  <2>4. new \in Records /\ new.ver = Enriched(work[w].task.ver).ver
    BY <2>1, <2>2, RestampType
  <2> QED
    BY <1>3, <2>3, <2>4, RecordAssumption
<1> HIDE DEF new
<1>6. l \in WorkerStates /\ l.pc = "commit" /\ l.task = work[w].task /\ l.new = new
  BY <1>2, <1>5, ConstantTypes DEF WorkerStates, WorkerPCs
<1>7. work' = [work EXCEPT ![w] = l]
  BY <1>4 DEF new
<1> HIDE DEF l
<1>8. /\ work' \in [Workers -> WorkerStates] /\ work'[w] = l
      /\ \A v \in Workers \ {w} : work'[v] = work[v]
  BY <1>6, <1>7, WorkerStep DEF TypeOK
<1>9. TypeOK'
  BY <1>1, <1>4, <1>8 DEF TypeOK
<1>10. Knows(work[w])'
  BY <1>1, <1>2, <1>5, <1>6, <1>8 DEF Knows, Settled
<1>11. WorkerKnows'
  BY <1>1, <1>8, <1>10, OneWorkerMoved DEF Settled
<1> QED
  BY <1>1, <1>9, <1>11
     DEF PathsKnown, MessagesKnow, UpdaterKnows, RecovererKnows, PublicIsIndexed, IndexedIsOwed, GivenUp

(***************************************************************************)
(* handleDelete reads the record it is going to withdraw.                  *)
(***************************************************************************)
LEMMA DeleteReadKeeps ==
  ASSUME IInv, NEW w \in Workers, DeleteRead(w)
  PROVE  IInv'
<1> USE DEF IInv, index, env, queue
<1>1. UNCHANGED <<faults, env, failed, index, gcs, gen, upd, rcv>>
  BY DEF DeleteRead
<1>2. /\ work[w] \in WorkerStates /\ work[w].pc \in {"delete", "moved"} /\ Knows(work[w])
      /\ work[w].task \in Tasks /\ work[w].task.kind = "delete" /\ ds.ver # 0
  BY DEF DeleteRead, TypeOK, WorkerKnows, Knows
<1>3. clock' \in Times
  BY Ticks DEF DeleteRead, TypeOK
<1>4. /\ QueueOK' /\ dropped' = dropped
      /\ tasks' = tasks \/ (gcs.ver # 0 /\ tasks' = tasks \ {work[w].task})
  <2>1. QueueOK
    BY DEF QueueOK, TypeOK
  <2>2. CASE UNCHANGED queue
    BY <2>1, <2>2 DEF queue, QueueOK
  <2>3. CASE gcs.ver # 0 /\ Acknowledge(work[w].task)
    BY <2>1, <2>3, AcknowledgeKeeps
  <2> QED
    BY <2>2, <2>3 DEF DeleteRead
<1>5. PICK l \in WorkerStates :
        /\ work' = [work EXCEPT ![w] = l]
        /\ \/ l.pc = "idle"
           \/ l.pc = "commit" /\ l.task = work[w].task /\ l.new.ver # 0
  <2>1. CASE Drop(w)
    BY <2>1, ConstantTypes DEF Drop, IdleWorker
  <2>2. CASE ~Drop(w)
    <3>1. PICK now \in Times :
            /\ gcs.ver # 0
            /\ work' = [work EXCEPT ![w] =
                         [@ EXCEPT !.pc = "commit",
                                   !.new = [gcs EXCEPT !.withdrawn = now, !.modified = now]]]
      BY <2>2, Ticks DEF DeleteRead, TypeOK
    <3> DEFINE new == [gcs EXCEPT !.withdrawn = now, !.modified = now]
               l == [work[w] EXCEPT !.pc = "commit", !.new = new]
    <3>2. new \in Records /\ new.ver # 0
      BY <3>1 DEF TypeOK, Records, Times
    <3> HIDE DEF new
    <3>3. l \in WorkerStates /\ l.pc = "commit" /\ l.task = work[w].task /\ l.new = new
      BY <1>2, <3>2 DEF WorkerStates, WorkerPCs
    <3>4. work' = [work EXCEPT ![w] = l]
      BY <3>1 DEF new
    <3> QED
      BY <3>2, <3>3, <3>4
  <2> QED
    BY <2>1, <2>2
<1>6. /\ work' \in [Workers -> WorkerStates] /\ work'[w] = l
      /\ \A v \in Workers \ {w} : work'[v] = work[v]
  BY <1>5, WorkerStep DEF TypeOK
<1>7. TypeOK'
  BY <1>1, <1>3, <1>4, <1>6 DEF TypeOK, QueueOK
<1>8. Knows(work[w])'
  BY <1>1, <1>2, <1>5, <1>6 DEF Knows
<1>9. WorkerKnows'
  BY <1>1, <1>4, <1>6, <1>8, OneWorkerMoved DEF Settled
<1>10. IndexedIsOwed'
  BY <1>1, <1>4 DEF IndexedIsOwed, GivenUp
<1> QED
  BY <1>1, <1>7, <1>9, <1>10
     DEF PathsKnown, MessagesKnow, UpdaterKnows, RecovererKnows, PublicIsIndexed

(***************************************************************************)
(* The three writes of VulnerabilityStore.Write, in order.                 *)
(***************************************************************************)
LEMMA CommitTxKeeps ==
  ASSUME IInv, NEW w \in Workers, CommitTx(w)
  PROVE  IInv'
<1> USE DEF IInv, env, queue
<1> DEFINE t == work[w].task
           n == work[w].new
           l == [work[w] EXCEPT !.pc = "index"]
<1>1. /\ work[w] \in WorkerStates /\ work[w].pc = "commit" /\ Knows(work[w])
      /\ t \in Tasks /\ n \in Records /\ n.ver # 0
      /\ t.kind = "delete" => ds.ver # 0
      /\ t.kind = "update" => t \in tasks \cup dropped \/ Settled
  BY DEF CommitTx, TypeOK, WorkerKnows, Knows, WorkerStates
<1>2. UNCHANGED <<clock, faults, env, queue, failed, commits, gcs, gen, upd, rcv>>
  BY DEF CommitTx
<1>3. t.kind \in {"update", "delete"} /\ t.path \in Paths
  BY <1>1 DEF Tasks, Updates
<1>4. ds' \in Entities /\ ds'.ver # 0 /\ ds'.path \in Paths
  <2>1. /\ n.ver \in Versions \cup {0} /\ ds.ver \in Versions \cup {0}
        /\ n.modified \in Times /\ (n.withdrawn # 0) \in BOOLEAN
    BY <1>1 DEF TypeOK, Entities, Records
  <2> QED
    BY <1>1, <1>3, <2>1 DEF CommitTx, RawFields, Entities
<1>5. {listed', versions', commits'} \subseteq Versions \cup {0}
  BY <1>1, <1>2 DEF CommitTx, Shown, Records, TypeOK
<1>6. l \in WorkerStates /\ l.pc = "index" /\ l.task = t /\ l.new = n
  BY <1>1 DEF WorkerStates, WorkerPCs
<1>7. work' = [work EXCEPT ![w] = l]
  BY DEF CommitTx, Step
<1> HIDE DEF l
<1>8. /\ work' \in [Workers -> WorkerStates] /\ work'[w] = l
      /\ \A v \in Workers \ {w} : work'[v] = work[v]
  BY <1>6, <1>7, WorkerStep DEF TypeOK
<1>9. TypeOK'
  BY <1>2, <1>4, <1>5, <1>8 DEF TypeOK
<1>10. Knows(work[w])'
  BY <1>1, <1>2, <1>4, <1>6, <1>8 DEF Knows, Settled
<1>11. WorkerKnows'
  BY <1>2, <1>4, <1>8, <1>10, OneWorkerMoved DEF Settled
<1>12. IndexedIsOwed'
  <2>1. CASE t.kind = "update"
    BY <1>1, <1>2, <2>1 DEF IndexedIsOwed, GivenUp, Settled
  <2>2. CASE t.kind = "delete"
    BY <1>1, <1>2, <2>2 DEF IndexedIsOwed, GivenUp
  <2> QED
    BY <1>3, <2>1, <2>2
<1> QED
  BY <1>2, <1>4, <1>9, <1>11, <1>12
     DEF PathsKnown, MessagesKnow, UpdaterKnows, RecovererKnows, PublicIsIndexed

\* updateAffectedCommits touches the commit index alone.
LEMMA WriteIndexKeeps ==
  ASSUME IInv, NEW w \in Workers, WriteIndex(w)
  PROVE  IInv'
<1> USE DEF IInv, env, queue
<1> DEFINE l == [work[w] EXCEPT !.pc = "upload"]
<1>1. /\ work[w] \in WorkerStates /\ work[w].pc = "index" /\ Knows(work[w])
      /\ work[w].new \in Records
  BY DEF WriteIndex, TypeOK, WorkerKnows, WorkerStates
<1>2. UNCHANGED <<clock, faults, env, queue, failed, ds, listed, versions, gcs, gen, upd, rcv>>
  BY DEF WriteIndex
<1>3. commits' \in Versions \cup {0}
  BY <1>1 DEF WriteIndex, Records
<1>4. l \in WorkerStates /\ l.pc = "upload" /\ l.task = work[w].task /\ l.new = work[w].new
  BY <1>1 DEF WorkerStates, WorkerPCs
<1>5. work' = [work EXCEPT ![w] = l]
  BY DEF WriteIndex, Step
<1> HIDE DEF l
<1>6. /\ work' \in [Workers -> WorkerStates] /\ work'[w] = l
      /\ \A v \in Workers \ {w} : work'[v] = work[v]
  BY <1>4, <1>5, WorkerStep DEF TypeOK
<1>7. TypeOK'
  BY <1>2, <1>3, <1>6 DEF TypeOK
<1>8. Knows(work[w])'
  BY <1>1, <1>2, <1>4, <1>6 DEF Knows, Settled
<1>9. WorkerKnows'
  BY <1>2, <1>6, <1>8, OneWorkerMoved DEF Settled
<1> QED
  BY <1>2, <1>7, <1>9
     DEF PathsKnown, MessagesKnow, UpdaterKnows, RecovererKnows, PublicIsIndexed, IndexedIsOwed, GivenUp

\* The upload makes the record public, or hands it to the recoverer.
LEMMA UploadKeeps ==
  ASSUME IInv, NEW w \in Workers, Upload(w) \/ UploadFails(w)
  PROVE  IInv'
<1> USE DEF IInv, index, env, queue
<1> DEFINE n == work[w].new
           l == [work[w] EXCEPT !.pc = "ack"]
<1>1. /\ work[w] \in WorkerStates /\ work[w].pc = "upload" /\ Knows(work[w])
      /\ n \in Records /\ n.ver # 0 /\ ds.ver # 0
  BY DEF Upload, UploadFails, TypeOK, WorkerKnows, WorkerStates, Knows
<1>2. UNCHANGED <<clock, env, queue, index, upd, rcv>> /\ faults' \in Nat
  BY DEF Upload, UploadFails, Fault, TypeOK
<1>3. \/ gcs' = n /\ gen' = gen + 1 /\ failed' = failed
      \/ gcs' = gcs /\ gen' = gen /\ failed' = failed \cup {Retry(n)}
  BY DEF Upload, UploadFails, Put, HandedOver
<1>4. Settled'
  BY <1>1, <1>3, ConstantTypes DEF Settled
<1>5. l \in WorkerStates /\ l.pc = "ack" /\ l.task = work[w].task /\ l.new = n
  BY <1>1 DEF WorkerStates, WorkerPCs
<1>6. work' = [work EXCEPT ![w] = l]
  BY DEF Upload, UploadFails, Step
<1> HIDE DEF l
<1>7. /\ work' \in [Workers -> WorkerStates] /\ work'[w] = l
      /\ \A v \in Workers \ {w} : work'[v] = work[v]
  BY <1>5, <1>6, WorkerStep DEF TypeOK
<1>8. gcs' \in Records /\ gen' \in Nat /\ failed' \subseteq Failures
  BY <1>1, <1>3, ConstantTypes DEF TypeOK
<1>9. TypeOK'
  BY <1>2, <1>7, <1>8 DEF TypeOK
<1>10. Knows(work[w])'
  BY <1>1, <1>2, <1>4, <1>5, <1>7 DEF Knows
<1>11. WorkerKnows'
  BY <1>2, <1>4, <1>7, <1>10, OneWorkerMoved
<1>12. MessagesKnow'
  BY <1>1, <1>2, <1>3, ConstantTypes DEF MessagesKnow
<1>13. RecovererKnows' /\ UpdaterKnows' /\ PublicIsIndexed' /\ PathsKnown'
  BY <1>1, <1>2, <1>3 DEF RecovererKnows, UpdaterKnows, PublicIsIndexed, PathsKnown
<1>14. IndexedIsOwed'
  BY <1>4 DEF IndexedIsOwed, Settled
<1> QED
  BY <1>9, <1>11, <1>12, <1>13, <1>14

(***************************************************************************)
(* A task is acknowledged only when its record is public or handed over.   *)
(***************************************************************************)
LEMMA AckKeeps ==
  ASSUME IInv, NEW w \in Workers, Ack(w)
  PROVE  IInv'
<1> USE DEF IInv, index, env, queue
<1>1. UNCHANGED <<clock, faults, env, failed, index, gcs, gen, upd, rcv>>
  BY DEF Ack
<1>2. Settled /\ tasks' = tasks \ {work[w].task} /\ dropped' = dropped /\ QueueOK'
  BY AcknowledgeKeeps DEF Ack, WorkerKnows, Knows, TypeOK, QueueOK
<1>3. /\ work' \in [Workers -> WorkerStates] /\ work'[w] = IdleWorker
      /\ \A v \in Workers \ {w} : work'[v] = work[v]
  BY ConstantTypes, WorkerStep DEF Ack, Drop, TypeOK
<1>4. TypeOK'
  BY <1>1, <1>2, <1>3 DEF TypeOK, QueueOK
<1>5. Knows(work[w])'
  BY <1>3 DEF Knows, IdleWorker
<1>6. WorkerKnows'
  BY <1>1, <1>2, <1>3, <1>5, OneWorkerMoved DEF Settled
<1>7. IndexedIsOwed'
  BY <1>1, <1>2 DEF IndexedIsOwed, Settled
<1> QED
  BY <1>1, <1>4, <1>6, <1>7
     DEF PathsKnown, MessagesKnow, UpdaterKnows, RecovererKnows, PublicIsIndexed

\* A failed or killed worker leaves its task to be delivered again.
LEMMA WorkerFailsKeeps ==
  ASSUME IInv, NEW w \in Workers, WorkerFails(w)
  PROVE  IInv'
<1> USE DEF IInv, index, env, queue
<1>1. UNCHANGED <<clock, env, queue, failed, index, gcs, gen, upd, rcv>> /\ faults' \in Nat
  BY DEF WorkerFails, Fault, TypeOK
<1>2. /\ work' \in [Workers -> WorkerStates] /\ work'[w] = IdleWorker
      /\ \A v \in Workers \ {w} : work'[v] = work[v]
  BY ConstantTypes, WorkerStep DEF WorkerFails, Drop, TypeOK
<1>3. TypeOK'
  BY <1>1, <1>2 DEF TypeOK
<1>4. Knows(work[w])'
  BY <1>2 DEF Knows, IdleWorker
<1>5. WorkerKnows'
  BY <1>1, <1>2, <1>4, OneWorkerMoved DEF Settled
<1> QED
  BY <1>1, <1>3, <1>5
     DEF PathsKnown, MessagesKnow, UpdaterKnows, RecovererKnows, PublicIsIndexed, IndexedIsOwed, GivenUp

\* The steps of a worker, together.
LEMMA WorkerKeeps ==
  ASSUME IInv, NEW w \in Workers, Worker(w)
  PROVE  IInv'
BY EnrichKeeps, DeleteReadKeeps, CommitTxKeeps, WriteIndexKeeps, UploadKeeps, AckKeeps,
   WorkerFailsKeeps DEF Worker, Handle

(***************************************************************************)
(* The relations job writes a record only after it has read it.            *)
(***************************************************************************)
LEMMA RegroupKeeps ==
  ASSUME IInv, NEW v \in GroupValues \cup {"nil"}, Regroup(v)
  PROVE  IInv'
<1> USE DEF IInv, index, queue
<1>1. UNCHANGED <<faults, source, queue, failed, index, gcs, gen, work, rcv>>
  BY DEF Regroup
<1>2. PICK now \in Times :
        /\ clock' = now
        /\ group' = IF v = "nil" THEN NoGroup ELSE [val |-> v, modified |-> now]
        /\ upd' = [IdleUpdater EXCEPT !.pc = "read", !.val = v, !.at = now]
  BY Ticks DEF Regroup, TypeOK
<1>3. group' \in [val: GroupValues \cup {"nil"}, modified: Times]
  BY <1>2, ConstantTypes
<1>4. upd' \in UpdaterStates /\ upd'.pc = "read"
  BY <1>2, ConstantTypes DEF UpdaterStates
<1>5. TypeOK'
  <2>1. regroups' \in Nat
    BY DEF Regroup, TypeOK
  <2> QED
    BY <1>1, <1>2, <1>3, <1>4, <2>1 DEF TypeOK
<1>6. WorkerKnows'
  BY <1>1, WorkersUntouched DEF Settled
<1> QED
  BY <1>1, <1>4, <1>5, <1>6
     DEF PathsKnown, MessagesKnow, UpdaterKnows, RecovererKnows, PublicIsIndexed, IndexedIsOwed, GivenUp

(***************************************************************************)
(* Reading leaves the stores alone; only a failed read publishes.          *)
(***************************************************************************)
LEMMA UpdaterReadsKeep ==
  ASSUME IInv, UpdaterRead \/ UpdaterAttrs \/ UpdaterFails
  PROVE  IInv'
<1> USE DEF IInv, index, env, queue
<1>1. UNCHANGED <<clock, env, queue, index, gcs, gen, work, rcv>> /\ faults' \in Nat
  BY DEF UpdaterRead, UpdaterAttrs, UpdaterFails, Fault, TypeOK
<1>2. failed' = failed \/ failed' = failed \cup {Missing}
  BY DEF UpdaterRead, UpdaterAttrs, UpdaterFails
<1>3. upd \in UpdaterStates /\ gcs \in Records /\ gen \in Nat
  BY DEF TypeOK
<1>4. upd' \in UpdaterStates
  <2>1. CASE upd' = IdleUpdater
    BY <2>1, ConstantTypes DEF IdleUpdater, UpdaterStates, Times
  <2>2. CASE upd' = [upd EXCEPT !.pc = "attrs", !.rec = gcs]
    BY <1>3, <2>2 DEF UpdaterStates
  <2>3. CASE upd' = [upd EXCEPT !.pc = "commit", !.gen = gen]
    BY <1>3, <2>3 DEF UpdaterStates
  <2> QED
    BY <2>1, <2>2, <2>3 DEF UpdaterRead, UpdaterAttrs, UpdaterFails
<1>5. UpdaterKnows'
  <2>1. CASE UpdaterRead /\ gcs.ver # 0
    BY <1>1, <1>3, <2>1 DEF UpdaterRead, UpdaterKnows, UpdaterStates, PublicIsIndexed
  <2>2. CASE UpdaterAttrs
    BY <1>1, <1>3, <2>2 DEF UpdaterAttrs, UpdaterKnows, UpdaterStates
  <2>3. CASE upd' = IdleUpdater
    BY <2>3 DEF UpdaterKnows, IdleUpdater
  <2> QED
    BY <2>1, <2>2, <2>3 DEF UpdaterRead, UpdaterFails
<1>6. TypeOK'
  BY <1>1, <1>2, <1>4, ConstantTypes DEF TypeOK
<1>7. WorkerKnows'
  BY <1>1, <1>2, WorkersUntouched DEF Settled
<1>8. MessagesKnow'
  BY <1>1, <1>2, ConstantTypes DEF MessagesKnow
<1> QED
  BY <1>1, <1>2, <1>5, <1>6, <1>7, <1>8
     DEF PathsKnown, RecovererKnows, PublicIsIndexed, IndexedIsOwed, GivenUp

\* The Updater's transaction changes a known entity and keeps its path.
LEMMA UpdaterCommitKeeps ==
  ASSUME IInv, UpdaterCommit
  PROVE  IInv'
<1> USE DEF IInv, env, queue
<1>1. UNCHANGED <<clock, faults, env, queue, failed, versions, commits, gcs, gen, work, rcv>>
  BY DEF UpdaterCommit
<1>2. /\ upd \in UpdaterStates /\ upd.rec \in Records /\ upd.at \in Times /\ ds \in Entities
      /\ upd.val \in Aliases /\ upd.rec.ver \in Versions /\ ds.ver # 0
  BY DEF UpdaterCommit, UpdaterKnows, TypeOK, UpdaterStates, Records, Aliases
<1>3. CASE upd' = IdleUpdater /\ UNCHANGED <<ds, listed>>
  <2>1. TypeOK'
    BY <1>1, <1>3, ConstantTypes DEF TypeOK
  <2>2. UpdaterKnows'
    BY <1>3 DEF UpdaterKnows, IdleUpdater
  <2>3. WorkerKnows'
    BY <1>1, <1>3, WorkersUntouched DEF Settled
  <2> QED
    BY <1>1, <1>3, <2>1, <2>2, <2>3
       DEF PathsKnown, MessagesKnow, RecovererKnows, PublicIsIndexed, IndexedIsOwed, GivenUp
<1>4. CASE /\ ds' = [ds EXCEPT !.modified = upd.at] /\ listed' = upd.rec.ver
           /\ upd' = [upd EXCEPT !.pc = "write", !.rec = Patched]
  <2>1. ds' \in Entities /\ ds'.ver = ds.ver /\ ds'.path = ds.path
    BY <1>2, <1>4 DEF Entities
  <2>2. Patched \in Records /\ Patched.ver = upd.rec.ver
    BY <1>2 DEF Patched, Records
  <2>3. upd' \in UpdaterStates /\ upd'.rec = Patched
    BY <1>2, <1>4, <2>2 DEF UpdaterStates
  <2>4. TypeOK'
    BY <1>1, <1>2, <1>4, <2>1, <2>3 DEF TypeOK
  <2>5. WorkerKnows'
    BY <1>1, <2>1, WorkersUntouched DEF Settled
  <2>6. UpdaterKnows'
    BY <1>2, <2>1, <2>2, <2>3, RecordAssumption DEF UpdaterKnows
  <2> QED
    BY <1>1, <1>2, <2>1, <2>4, <2>5, <2>6
       DEF PathsKnown, MessagesKnow, RecovererKnows, PublicIsIndexed, IndexedIsOwed, GivenUp
<1> QED
  BY <1>3, <1>4 DEF UpdaterCommit

\* The Updater's write, or the message it leaves instead, carries a read record.
LEMMA UpdaterWritesKeep ==
  ASSUME IInv, UpdaterWrite \/ UpdaterWriteMismatch \/ UpdaterWriteFails
  PROVE  IInv'
<1> USE DEF IInv, index, env, queue
<1>1. UNCHANGED <<clock, env, queue, index, work, rcv>> /\ upd' = IdleUpdater /\ faults' \in Nat
  BY DEF UpdaterWrite, UpdaterWriteMismatch, UpdaterWriteFails, Fault, TypeOK
<1>2. upd.rec \in Records /\ upd.rec.ver # 0 /\ ds.ver # 0
  BY DEF UpdaterWrite, UpdaterWriteMismatch, UpdaterWriteFails, UpdaterKnows, TypeOK, UpdaterStates
<1>3. \/ gcs' = upd.rec /\ gen' = gen + 1 /\ failed' = failed
      \/ UNCHANGED <<gcs, gen>> /\ failed' \in {failed \cup {Mismatch}, failed \cup {Retry(upd.rec)}}
  BY DEF UpdaterWrite, UpdaterWriteMismatch, UpdaterWriteFails, Put
<1>4. gcs' \in Records /\ gen' \in Nat /\ failed' \subseteq Failures
  BY <1>2, <1>3, ConstantTypes DEF TypeOK
<1>5. TypeOK'
  BY <1>1, <1>4, ConstantTypes DEF TypeOK
<1>6. Settled => Settled'
  BY <1>2, <1>3 DEF Settled
<1>7. WorkerKnows'
  BY <1>1, <1>6, WorkersUntouched
<1>8. MessagesKnow'
  BY <1>1, <1>2, <1>3, ConstantTypes DEF MessagesKnow
<1>9. RecovererKnows' /\ PublicIsIndexed' /\ IndexedIsOwed'
  BY <1>1, <1>2, <1>3 DEF RecovererKnows, PublicIsIndexed, IndexedIsOwed, GivenUp
<1>10. UpdaterKnows'
  BY <1>1 DEF UpdaterKnows, IdleUpdater
<1> QED
  BY <1>1, <1>5, <1>7, <1>8, <1>9, <1>10 DEF PathsKnown

\* The steps of the Updater, together.
LEMMA UpdaterKeeps ==
  ASSUME IInv, Updater \/ UpdaterFaults
  PROVE  IInv'
BY UpdaterReadsKeep, UpdaterCommitKeeps, UpdaterWritesKeep DEF Updater, UpdaterFaults

(***************************************************************************)
(* The recoverer drops a gcs_retry message only when the record is public. *)
(***************************************************************************)
LEMMA RecoverKeeps ==
  ASSUME IInv, NEW m \in failed, Recover(m)
  PROVE  IInv'
<1> USE DEF IInv, index, env, queue
<1>1. UNCHANGED <<clock, env, index, gcs, gen, work, upd>> /\ faults' \in Nat
  BY DEF Recover, RetryCheck, MissingReimport, MismatchRead, Reimport, Fault, TypeOK
<1>2. m \in Failures /\ m.rec \in Records /\ rcv \in RecovererStates /\ gcs \in Records
  BY ConstantTypes DEF TypeOK
<1>3. failed' = failed \/ failed' = failed \ {m}
  BY DEF Recover, RetryCheck, MissingReimport, MismatchRead, Reimport, RcvDone
<1>4. failed' # failed /\ m.type = "gcs_retry" => gcs.ver # 0
  BY DEF Recover, RetryCheck, MissingReimport, MismatchRead, Reimport, RcvDone, Superseded
<1>5. UNCHANGED queue \/ \E t \in Tasks : Publish(t)
  <2>1. ds.ver # 0 => ds.path \in Paths
    BY DEF PathsKnown
  <2>2. source.path \in Paths => source.ver \in Versions
    BY DEF PathsKnown, TypeOK
  <2> QED
    BY <2>1, <2>2 DEF Recover, RetryCheck, MissingReimport, MismatchRead, Reimport, Tasks, Updates
<1>6. QueueOK' /\ tasks \cup dropped \subseteq tasks' \cup dropped'
  <2>1. QueueOK
    BY DEF QueueOK, TypeOK
  <2>2. CASE UNCHANGED queue
    BY <2>1, <2>2 DEF queue, QueueOK
  <2> QED
    BY <1>5, <2>1, <2>2, PublishKeeps
<1>7. \/ rcv' = IdleRecoverer
      \/ /\ rcv' = [IdleRecoverer EXCEPT !.pc = "upload", !.msg = m, !.rec = m.rec]
         /\ m.type = "gcs_retry"
      \/ /\ rcv' = [pc |-> "merge", msg |-> m, rec |-> gcs, gen |-> gen]
         /\ m.type = "gcs_gen_mismatch" /\ gcs.ver # 0
  BY DEF Recover, RetryCheck, MissingReimport, MismatchRead, Reimport, RcvDone
<1>8. TypeOK'
  <2>1. gen \in Nat
    BY DEF TypeOK
  <2>2. CASE rcv' = [IdleRecoverer EXCEPT !.pc = "upload", !.msg = m, !.rec = m.rec]
    <3>1. rcv' \in RecovererStates
      BY <1>2, <2>2, ConstantTypes DEF RecovererStates
    <3> QED
      BY <1>1, <1>3, <1>6, <3>1 DEF TypeOK, QueueOK
  <2>3. CASE rcv' = [pc |-> "merge", msg |-> m, rec |-> gcs, gen |-> gen]
    <3>1. rcv' \in RecovererStates
      BY <1>2, <2>1, <2>3 DEF RecovererStates
    <3> QED
      BY <1>1, <1>3, <1>6, <3>1 DEF TypeOK, QueueOK
  <2>4. CASE rcv' = IdleRecoverer
    BY <1>1, <1>3, <1>6, <2>4, ConstantTypes DEF TypeOK, QueueOK
  <2> QED
    BY <1>7, <2>2, <2>3, <2>4
<1>9. Settled => Settled'
  BY <1>1, <1>3, <1>4 DEF Settled
<1>10. WorkerKnows'
  BY <1>1, <1>6, <1>9, WorkersUntouched
<1>11. MessagesKnow' /\ UpdaterKnows' /\ PublicIsIndexed' /\ PathsKnown'
  BY <1>1, <1>3 DEF MessagesKnow, UpdaterKnows, PublicIsIndexed, PathsKnown
<1>12. IndexedIsOwed'
  <2>1. CASE failed' = failed \/ m.type # "gcs_retry"
    <3>1. QueueOK /\ UNCHANGED <<ds, gcs>>
      BY <1>1 DEF TypeOK, QueueOK
    <3> QED
      BY <1>3, <1>6, <2>1, <3>1, OwedStable
  <2>2. CASE gcs.ver # 0
    BY <1>1, <2>2 DEF IndexedIsOwed, GivenUp
  <2> QED
    BY <1>4, <2>1, <2>2
<1>13. RecovererKnows'
  <2>1. CASE rcv' = IdleRecoverer
    BY <2>1 DEF RecovererKnows, IdleRecoverer
  <2>2. CASE /\ rcv' = [IdleRecoverer EXCEPT !.pc = "upload", !.msg = m, !.rec = m.rec]
             /\ m.type = "gcs_retry"
    <3>1. rcv'.pc = "upload" /\ rcv'.rec = m.rec
      BY <2>2 DEF IdleRecoverer
    <3> QED
      BY <1>1, <2>2, <3>1 DEF RecovererKnows, MessagesKnow
  <2>3. CASE /\ rcv' = [pc |-> "merge", msg |-> m, rec |-> gcs, gen |-> gen]
             /\ m.type = "gcs_gen_mismatch" /\ gcs.ver # 0
    BY <1>1, <2>3 DEF RecovererKnows
  <2> QED
    BY <1>7, <2>1, <2>2, <2>3
<1> QED
  BY <1>8, <1>10, <1>11, <1>12, <1>13

\* The recoverer's transaction changes a known entity and keeps its path.
LEMMA MergeTxKeeps ==
  ASSUME IInv, MergeTx
  PROVE  IInv'
<1> USE DEF IInv, env, queue
<1>1. UNCHANGED <<faults, env, queue, failed, versions, commits, gcs, gen, work, upd>>
  BY DEF MergeTx
<1>2. /\ rcv \in RecovererStates /\ rcv.pc = "merge" /\ rcv.rec \in Records /\ ds \in Entities
      /\ rcv.rec.ver # 0 /\ gcs.ver # 0 /\ rcv.msg.type = "gcs_gen_mismatch"
      /\ ds.modified \in Times /\ group.modified \in Times /\ group.val \in Aliases
      /\ rcv.rec.ver \in Versions
  BY DEF MergeTx, RecovererKnows, TypeOK, RecovererStates, Entities, Aliases, Records
<1>3. PICK stamp \in Times :
        \/ rcv' = [rcv EXCEPT !.pc = "replace"] /\ UNCHANGED <<ds, listed>>
        \/ /\ rcv' = [rcv EXCEPT !.pc = "replace", !.rec = Merged(stamp)]
           /\ ds' = [ds EXCEPT !.modified = stamp]
           /\ listed' = rcv.rec.ver
  BY <1>2, Ticks DEF MergeTx, TypeOK
<1>4. ds' \in Entities /\ ds'.ver = ds.ver /\ ds'.path = ds.path /\ listed' \in Versions \cup {0}
  BY <1>2, <1>3 DEF Entities, TypeOK
<1>5. /\ rcv' \in RecovererStates /\ rcv'.pc = "replace" /\ rcv'.msg = rcv.msg
      /\ rcv'.rec.ver = rcv.rec.ver
  <2>1. Merged(stamp) \in Records /\ Merged(stamp).ver = rcv.rec.ver
    BY <1>2 DEF Merged, Records
  <2> QED
    BY <1>2, <1>3, <2>1 DEF RecovererStates
<1>6. clock' \in Times
  BY Ticks DEF MergeTx, TypeOK
<1>7. TypeOK'
  BY <1>1, <1>4, <1>5, <1>6 DEF TypeOK
<1>8. WorkerKnows'
  BY <1>1, <1>4, WorkersUntouched DEF Settled
<1>9. RecovererKnows'
  BY <1>1, <1>2, <1>5 DEF RecovererKnows
<1> QED
  BY <1>1, <1>4, <1>7, <1>8, <1>9
     DEF PathsKnown, MessagesKnow, UpdaterKnows, PublicIsIndexed, IndexedIsOwed, GivenUp

\* The recoverer acknowledges a message only after its upload.
LEMMA RecovererWritesKeep ==
  ASSUME IInv, RetryUpload \/ MergeUpload \/ RcvAck \/ RecovererFails
  PROVE  IInv'
<1> USE DEF IInv, index, env, queue
<1>1. UNCHANGED <<clock, env, queue, index, work, upd>> /\ faults' \in Nat
  BY DEF RetryUpload, MergeUpload, RcvAck, RecovererFails, Fault, TypeOK
<1>2. \/ UNCHANGED <<gcs, gen, failed>> /\ rcv' = IdleRecoverer
      \/ UNCHANGED <<gcs, gen>> /\ failed' = failed \ {rcv.msg} /\ gcs.ver # 0 /\ rcv' = IdleRecoverer
      \/ /\ gcs' = rcv.rec /\ gen' = gen + 1 /\ failed' = failed
         /\ rcv.rec \in Records /\ rcv.rec.ver # 0 /\ ds.ver # 0
         /\ rcv' = [rcv EXCEPT !.pc = "ack"]
  BY DEF RetryUpload, MergeUpload, RcvAck, RecovererFails, RcvDone, Put, RecovererKnows, TypeOK,
         RecovererStates, PublicIsIndexed
<1>3. rcv' \in RecovererStates /\ rcv'.pc \in {"idle", "ack"} /\ (rcv'.pc = "ack" => gcs'.ver # 0)
  <2>1. CASE rcv' = IdleRecoverer
    BY <2>1, ConstantTypes DEF IdleRecoverer
  <2>2. CASE rcv' = [rcv EXCEPT !.pc = "ack"] /\ gcs' = rcv.rec /\ rcv.rec.ver # 0
    BY <2>2 DEF TypeOK, RecovererStates
  <2> QED
    BY <1>2, <2>1, <2>2
<1>4. TypeOK'
  BY <1>1, <1>2, <1>3 DEF TypeOK
<1>5. Settled => Settled'
  BY <1>2 DEF Settled
<1>6. WorkerKnows'
  BY <1>1, <1>5, WorkersUntouched
<1>7. MessagesKnow' /\ UpdaterKnows' /\ PublicIsIndexed' /\ PathsKnown'
  BY <1>1, <1>2 DEF MessagesKnow, UpdaterKnows, PublicIsIndexed, PathsKnown
<1>8. IndexedIsOwed'
  BY <1>1, <1>2 DEF IndexedIsOwed, GivenUp
<1>9. RecovererKnows'
  BY <1>3 DEF RecovererKnows
<1> QED
  BY <1>4, <1>6, <1>7, <1>8, <1>9

\* An update without deliveries left is let go, and counts as given up.
LEMMA HandleGenericKeeps ==
  ASSUME IInv, NEW t \in tasks, HandleGeneric(t)
  PROVE  IInv'
<1> USE DEF IInv, index, env
<1>1. UNCHANGED <<clock, faults, env, failed, index, gcs, gen, work, upd, rcv>>
  BY DEF HandleGeneric
<1>2. QueueOK' /\ tasks' = tasks \ {t} /\ dropped' = dropped \cup ({t} \cap Updates)
  BY DeliveriesBound DEF HandleGeneric, TypeOK, QueueOK
<1>3. TypeOK'
  BY <1>1, <1>2 DEF TypeOK, QueueOK
<1>4. \A u \in tasks \cup dropped : u.kind = "update" => u \in tasks' \cup dropped'
  BY <1>2 DEF TypeOK, Tasks, Updates
<1>5. WorkerKnows'
  <2> SUFFICES ASSUME NEW w \in Workers PROVE Knows(work[w])'
    BY DEF WorkerKnows
  <2>1. Knows(work[w])
    BY DEF WorkerKnows
  <2>2. CASE work[w].task.kind = "update"
    BY <1>1, <1>4, <2>1, <2>2 DEF Knows, Settled
  <2>3. CASE work[w].task.kind # "update"
    BY <1>1, <2>1, <2>3 DEF Knows, Settled
  <2> QED
    BY <2>2, <2>3
<1>6. IndexedIsOwed'
  BY <1>1, <1>2, <1>4 DEF IndexedIsOwed, GivenUp
<1> QED
  BY <1>1, <1>3, <1>5, <1>6
     DEF PathsKnown, MessagesKnow, UpdaterKnows, RecovererKnows, PublicIsIndexed

(***************************************************************************)
(* IInv is an invariant: no interleaving of workers, relations job,        *)
(* recoverer and importer, and no failure between two of their steps,      *)
(* leaves a record indexed, unpublished and forgotten - but the last       *)
(* delivery of an update, which is counted as given up.                    *)
(***************************************************************************)
THEOREM IInvHolds == Spec => []IInv
<1>1. IInv /\ [Next]_vars => IInv'
  <2> SUFFICES ASSUME IInv, [Next]_vars PROVE IInv'
    OBVIOUS
  <2>1. CASE Next
    BY <2>1, ImporterKeeps, ReceiveKeeps, WorkerKeeps, RegroupKeeps, UpdaterKeeps, RecoverKeeps,
       MergeTxKeeps, RecovererWritesKeep, HandleGenericKeeps DEF Next, Recoverer
  <2>2. CASE UNCHANGED vars
    BY <2>2 DEF vars, IInv, TypeOK, PathsKnown, WorkerKnows, Knows, Settled, MessagesKnow,
       UpdaterKnows, RecovererKnows, IndexedIsOwed, GivenUp, PublicIsIndexed
  <2> QED
    BY <2>1, <2>2
<1> QED
  BY <1>1, InitIInv, PTL DEF Spec

(***************************************************************************)
(* Every variable keeps its type: the fields of a task, message or record  *)
(* survive every hand-over between the programs.                           *)
(***************************************************************************)
THEOREM TypeCorrect == Spec => []TypeOK
<1>1. IInv => TypeOK
  BY DEF IInv
<1> QED
  BY <1>1, IInvHolds, PTL

(***************************************************************************)
(* A record with an entity and no object is carried by an unacknowledged   *)
(* update task or by a gcs_retry message, whatever failed, unless one of   *)
(* its updates used up its deliveries and was let go.                      *)
(***************************************************************************)
THEOREM IndexedRecordIsOwed == Spec => []IndexedIsOwed
<1>1. IInv => IndexedIsOwed
  BY DEF IInv
<1> QED
  BY <1>1, IInvHolds, PTL

(***************************************************************************)
(* A public record is always found through its Vulnerability entity.       *)
(***************************************************************************)
THEOREM PublicRecordIsIndexed == Spec => []PublicIsIndexed
<1>1. IInv => PublicIsIndexed
  BY DEF IInv
<1> QED
  BY <1>1, IInvHolds, PTL

(***************************************************************************)
(* Every write of the object gives it a new generation, in every program.  *)
(***************************************************************************)
LEMMA WritesAdvance ==
  ASSUME TypeOK, [Next]_vars
  PROVE  UNCHANGED <<gcs, gen>> \/ gen' = gen + 1
<1>1. CASE \/ Importer \/ \E v \in GroupValues \cup {"nil"} : Regroup(v)
           \/ \E t \in tasks : Receive(t) \/ HandleGeneric(t)
  BY <1>1 DEF HandleGeneric, Importer, SourceChange, SourceMove, SourceRemove, PublishDelete, Regroup,
     Receive, ReceiveUpdate, ReceiveDelete
<1>2. CASE \E w \in Workers : Worker(w)
  BY <1>2 DEF Worker, Handle, Enrich, DeleteRead, CommitTx, WriteIndex, Upload, Ack,
     UploadFails, WorkerFails, Put
<1>3. CASE Updater \/ UpdaterFaults
  BY <1>3 DEF Updater, UpdaterFaults, UpdaterRead, UpdaterAttrs, UpdaterCommit, UpdaterWrite,
     UpdaterWriteMismatch, UpdaterWriteFails, UpdaterFails, Put
<1>4. CASE Recoverer \/ RecovererFails \/ \E m \in failed : Recover(m)
  BY <1>4 DEF Recoverer, Recover, RetryCheck, MissingReimport, MismatchRead, RetryUpload,
     MergeTx, MergeUpload, RcvAck, RecovererFails, Put
<1> QED
  BY <1>1, <1>2, <1>3, <1>4 DEF Next, vars

(***************************************************************************)
(* Between its read and its write the recoverer changes nothing but the    *)
(* aliases and the modified time of its copy.                              *)
(***************************************************************************)
LEMMA SnapshotStep ==
  ASSUME TypeOK, [Next]_vars
  PROVE  \/ rcv' = rcv
         \/ rcv'.pc \notin {"merge", "replace"}
         \/ /\ rcv'.rec = gcs /\ rcv'.gen = gen /\ UNCHANGED <<gcs, gen>>
         \/ /\ rcv.pc = "merge" /\ rcv'.gen = rcv.gen /\ UNCHANGED <<gcs, gen>>
            /\ rcv'.rec.ver = rcv.rec.ver /\ rcv'.rec.withdrawn = rcv.rec.withdrawn
<1>1. CASE \/ Importer \/ \E v \in GroupValues \cup {"nil"} : Regroup(v)
           \/ \E t \in tasks : Receive(t) \/ HandleGeneric(t)
  BY <1>1 DEF HandleGeneric, Importer, SourceChange, SourceMove, SourceRemove, PublishDelete, Regroup,
     Receive, ReceiveUpdate, ReceiveDelete
<1>2. CASE \E w \in Workers : Worker(w)
  BY <1>2 DEF Worker, Handle, Enrich, DeleteRead, CommitTx, WriteIndex, Upload, Ack,
     UploadFails, WorkerFails
<1>3. CASE Updater \/ UpdaterFaults
  BY <1>3 DEF Updater, UpdaterFaults, UpdaterRead, UpdaterAttrs, UpdaterCommit, UpdaterWrite,
     UpdaterWriteMismatch, UpdaterWriteFails, UpdaterFails
<1>4. CASE RetryUpload \/ MergeUpload \/ RcvAck \/ RecovererFails
  BY <1>4 DEF RetryUpload, MergeUpload, RcvAck, RecovererFails, RcvDone, IdleRecoverer, TypeOK, RecovererStates
<1>5. CASE \E m \in failed : Recover(m)
  <2>1. PICK m \in failed : Recover(m)
    BY <1>5
  <2>2. \/ rcv' = IdleRecoverer
        \/ rcv' = [IdleRecoverer EXCEPT !.pc = "upload", !.msg = m, !.rec = m.rec]
        \/ rcv' = [pc |-> "merge", msg |-> m, rec |-> gcs, gen |-> gen] /\ UNCHANGED <<gcs, gen>>
    BY <2>1 DEF Recover, RetryCheck, MissingReimport, MismatchRead, Reimport, RcvDone
  <2>3. CASE rcv' = [IdleRecoverer EXCEPT !.pc = "upload", !.msg = m, !.rec = m.rec]
    <3>1. rcv'.pc = "upload"
      BY <2>3 DEF IdleRecoverer
    <3> QED
      BY <3>1
  <2> QED
    BY <2>2, <2>3 DEF IdleRecoverer
<1>6. CASE MergeTx
  <2>1. rcv \in RecovererStates /\ rcv.rec \in Records /\ rcv.pc = "merge"
    BY <1>6 DEF TypeOK, RecovererStates, MergeTx
  <2>2. \/ rcv' = [rcv EXCEPT !.pc = "replace"]
        \/ \E stamp : rcv' = [rcv EXCEPT !.pc = "replace", !.rec = Merged(stamp)]
    BY <1>6 DEF MergeTx
  <2>3. \A stamp : Merged(stamp).ver = rcv.rec.ver /\ Merged(stamp).withdrawn = rcv.rec.withdrawn
    BY <2>1 DEF Merged, Records
  <2>4. /\ rcv'.gen = rcv.gen /\ rcv'.rec.ver = rcv.rec.ver
        /\ rcv'.rec.withdrawn = rcv.rec.withdrawn
    <3>1. CASE rcv' = [rcv EXCEPT !.pc = "replace"]
      BY <2>1, <3>1 DEF RecovererStates
    <3>2. CASE \E stamp : rcv' = [rcv EXCEPT !.pc = "replace", !.rec = Merged(stamp)]
      <4>1. PICK stamp : rcv' = [rcv EXCEPT !.pc = "replace", !.rec = Merged(stamp)]
        BY <3>2
      <4>2. rcv'.gen = rcv.gen /\ rcv'.rec = Merged(stamp)
        BY <2>1, <4>1 DEF RecovererStates
      <4> QED
        BY <2>3, <4>2
    <3> QED
      BY <2>2, <3>1, <3>2
  <2>5. UNCHANGED <<gcs, gen>>
    BY <1>6 DEF MergeTx
  <2> QED
    BY <2>1, <2>4, <2>5
<1> QED
  BY <1>1, <1>2, <1>3, <1>4, <1>5, <1>6 DEF Next, Recoverer, vars

\* What the recoverer holds is the object, unless the generation has moved.
LEMMA SnapshotHolds == Spec => []RecovererSnapshot
<1>1. Init => RecovererSnapshot
  BY DEF Init, RecovererSnapshot, IdleRecoverer
<1>2. TypeOK /\ RecovererSnapshot /\ [Next]_vars => RecovererSnapshot'
  <2> SUFFICES ASSUME TypeOK, RecovererSnapshot, [Next]_vars,
                      rcv'.pc \in {"merge", "replace"}
               PROVE  /\ rcv'.gen <= gen'
                      /\ rcv'.gen = gen' => /\ gcs'.ver = rcv'.rec.ver
                                            /\ gcs'.withdrawn = rcv'.rec.withdrawn
    BY DEF RecovererSnapshot
  <2>1. gen \in Nat /\ rcv.gen \in Nat
    BY DEF TypeOK, RecovererStates
  <2>2. CASE rcv' = rcv
    BY <2>1, <2>2, WritesAdvance DEF RecovererSnapshot
  <2>3. CASE rcv'.rec = gcs /\ rcv'.gen = gen /\ UNCHANGED <<gcs, gen>>
    BY <2>1, <2>3
  <2>4. CASE /\ rcv.pc = "merge" /\ rcv'.gen = rcv.gen /\ UNCHANGED <<gcs, gen>>
             /\ rcv'.rec.ver = rcv.rec.ver /\ rcv'.rec.withdrawn = rcv.rec.withdrawn
    BY <2>1, <2>4 DEF RecovererSnapshot
  <2> QED
    BY <2>2, <2>3, <2>4, SnapshotStep
<1> QED
  BY <1>1, <1>2, TypeCorrect, PTL DEF Spec

(***************************************************************************)
(* Resolving a mismatch never drops what another program published: the    *)
(* upload goes through only on the very object that was read.              *)
(***************************************************************************)
THEOREM MergeIsSafe == Spec => MergeKeepsContent
<1> DEFINE Step1 == rcv.pc = "replace" /\ rcv' # rcv /\ gen' # gen
                      => gcs'.ver = gcs.ver /\ gcs'.withdrawn = gcs.withdrawn
<1>1. TypeOK /\ RecovererSnapshot /\ [Next]_vars => [Step1]_vars
  <2> SUFFICES ASSUME TypeOK, RecovererSnapshot, [Next]_vars,
                      rcv.pc = "replace", rcv' # rcv, gen' # gen
               PROVE  gcs'.ver = gcs.ver /\ gcs'.withdrawn = gcs.withdrawn
    OBVIOUS
  <2>1. MergeUpload
    <3>1. ~Importer /\ ~(\E t \in tasks : Receive(t) \/ HandleGeneric(t))
          /\ ~(\E v \in GroupValues \cup {"nil"} : Regroup(v))
      BY DEF Importer, SourceChange, SourceMove, SourceRemove, PublishDelete, Receive,
         ReceiveUpdate, ReceiveDelete, HandleGeneric, Regroup
    <3>2. ~(\E w \in Workers : Worker(w))
      BY DEF Worker, Handle, Enrich, DeleteRead, CommitTx, WriteIndex, Upload, Ack,
         UploadFails, WorkerFails
    <3>3. ~Updater /\ ~UpdaterFaults
      BY DEF Updater, UpdaterFaults, UpdaterRead, UpdaterAttrs, UpdaterCommit, UpdaterWrite,
         UpdaterWriteMismatch, UpdaterWriteFails, UpdaterFails
    <3>4. ~(\E m \in failed : Recover(m)) /\ ~RecovererFails
      BY DEF Recover, RetryCheck, MissingReimport, MismatchRead, RecovererFails
    <3>5. ~RetryUpload /\ ~MergeTx /\ ~RcvAck
      BY DEF RetryUpload, MergeTx, RcvAck
    <3> QED
      BY <3>1, <3>2, <3>3, <3>4, <3>5 DEF Next, Recoverer, vars
  <2>2. gen = rcv.gen /\ gcs' = rcv.rec
    BY <2>1 DEF MergeUpload, SameGeneration, Put
  <2> QED
    BY <2>2 DEF RecovererSnapshot
<1> QED
  BY <1>1, TypeCorrect, SnapshotHolds, PTL DEF Spec, MergeKeepsContent

(***************************************************************************)
(* handleUpdate lifts Modified to the record's own Withdrawn.              *)
(***************************************************************************)
LEMMA RestampCovers ==
  ASSUME NEW c \in Records, NEW e \in Records, NEW now \in Times
  PROVE  Covered(Restamp(c, e, now))
BY DEF Covered, Restamp, Records, Times, Later, Different, Aliases

(***************************************************************************)
(* What one step may do to one worker: it stays, gives up or takes a new   *)
(* update, or goes one stage on with its task; it stamps the record when   *)
(* it enters "commit" and keeps it from there on.                          *)
(***************************************************************************)
WorkerMove(w) ==
  \/ work'[w] = work[w]
  \/ work'[w].pc \in {"idle", "enrich"}
  \/ /\ work[w].pc = "idle" /\ work'[w].pc \in {"delete", "moved"} /\ UNCHANGED ds
     /\ work'[w].pc = "delete" => ds.path = work'[w].task.path
  \/ /\ work[w].pc \in {"enrich", "delete"} /\ work'[w].pc = "commit" /\ UNCHANGED ds
     /\ work'[w].task = work[w].task
     /\ work[w].pc = "enrich" => work[w].task.kind = "update"
     /\ Covered(work'[w].new)
  \/ /\ work[w].pc \in {"commit", "index", "upload"}
     /\ work'[w].pc \in {"index", "upload", "ack"}
     /\ work'[w].new = work[w].new

LEMMA ReceiveMoves ==
  ASSUME IInv, NEW w \in Workers, NEW t \in tasks, ReceiveUpdate(w, t) \/ ReceiveDelete(w, t)
  PROVE  WorkerMove(w)
<1> USE DEF IInv
<1>1. t \in Tasks /\ work \in [Workers -> WorkerStates]
  BY DEF TypeOK
<1>2. CASE ReceiveUpdate(w, t)
  BY <1>1, <1>2 DEF ReceiveUpdate, WorkerMove
<1>3. CASE ReceiveDelete(w, t) /\ work' = work
  BY <1>3 DEF WorkerMove
<1>4. CASE ReceiveDelete(w, t) /\ work' # work
  <2> DEFINE l == [IdleWorker EXCEPT !.pc = IF Moved(t) THEN "moved" ELSE "delete", !.task = t]
  <2>1. work' = [work EXCEPT ![w] = l] /\ work[w].pc = "idle" /\ UNCHANGED ds
    BY <1>4 DEF ReceiveDelete, index
  <2>2. /\ l.pc = (IF Moved(t) THEN "moved" ELSE "delete") /\ l.task = t
    BY ConstantTypes DEF WorkerStates
  <2>3. work'[w] = l
    BY <1>1, <2>1
  <2> QED
    BY <2>1, <2>2, <2>3 DEF Moved, WorkerMove
<1> QED
  BY <1>2, <1>3, <1>4

LEMMA EnrichMoves ==
  ASSUME IInv, NEW w \in Workers, Enrich(w)
  PROVE  WorkerMove(w)
<1> USE DEF IInv
<1>1. /\ work \in [Workers -> WorkerStates] /\ work[w].pc = "enrich" /\ work[w] \in WorkerStates
      /\ work[w].task \in Tasks /\ work[w].task.kind = "update"
  BY DEF Enrich, TypeOK, WorkerKnows, Knows
<1>2. PICK now \in Times :
        work' = [work EXCEPT ![w] =
                  [@ EXCEPT !.pc = "commit", !.cur = Absent,
                            !.new = Restamp(work[w].cur, Enriched(work[w].task.ver), now)]]
  BY Ticks DEF Enrich, TypeOK
<1> DEFINE new == Restamp(work[w].cur, Enriched(work[w].task.ver), now)
<1>3. Covered(new)
  <2>1. work[w].cur \in Records /\ work[w].task.ver \in Versions
    BY <1>1 DEF WorkerStates, Tasks, Updates
  <2>2. Enriched(work[w].task.ver) \in Records
    BY <2>1, EnrichedType
  <2> QED
    BY <2>1, <2>2, RestampCovers
<1> HIDE DEF new
<1>4. work'[w] = [work[w] EXCEPT !.pc = "commit", !.cur = Absent, !.new = new]
  BY <1>1, <1>2 DEF new
<1>5. work'[w].pc = "commit" /\ work'[w].task = work[w].task /\ work'[w].new = new
  BY <1>1, <1>4 DEF WorkerStates
<1>6. UNCHANGED ds
  BY DEF Enrich, index
<1> QED
  BY <1>1, <1>3, <1>5, <1>6 DEF WorkerMove

LEMMA DeleteReadMoves ==
  ASSUME IInv, NEW w \in Workers, DeleteRead(w)
  PROVE  WorkerMove(w)
<1> USE DEF IInv
<1>1. work \in [Workers -> WorkerStates] /\ work[w] \in WorkerStates /\ gcs \in Records
  BY DEF TypeOK
<1>2. CASE Drop(w)
  BY <1>1, <1>2 DEF Drop, IdleWorker, WorkerMove
<1>3. CASE ~Drop(w)
  <2>1. PICK now \in Times :
          /\ work[w].pc = "delete"
          /\ work' = [work EXCEPT ![w] =
                       [@ EXCEPT !.pc = "commit",
                                 !.new = [gcs EXCEPT !.withdrawn = now, !.modified = now]]]
    BY <1>3, Ticks DEF DeleteRead, TypeOK
  <2> DEFINE new == [gcs EXCEPT !.withdrawn = now, !.modified = now]
  <2>2. Covered(new)
    BY <1>1, <2>1 DEF Covered, Records, Times
  <2> HIDE DEF new
  <2>3. work'[w] = [work[w] EXCEPT !.pc = "commit", !.new = new]
    BY <1>1, <2>1 DEF new
  <2>4. work'[w].pc = "commit" /\ work'[w].task = work[w].task /\ work'[w].new = new
    BY <1>1, <2>3 DEF WorkerStates
  <2>5. UNCHANGED ds
    BY DEF DeleteRead, index
  <2> QED
    BY <2>1, <2>2, <2>4, <2>5 DEF WorkerMove
<1> QED
  BY <1>2, <1>3

LEMMA HandleMoves ==
  ASSUME IInv, NEW w \in Workers, Worker(w)
  PROVE  WorkerMove(w)
<1> USE DEF IInv
<1>1. work \in [Workers -> WorkerStates] /\ work[w] \in WorkerStates
  BY DEF TypeOK
<1>2. CASE Enrich(w) \/ DeleteRead(w)
  BY <1>2, EnrichMoves, DeleteReadMoves
<1>3. CASE Ack(w) \/ WorkerFails(w)
  BY <1>1, <1>3 DEF Ack, WorkerFails, Drop, IdleWorker, WorkerMove
<1>4. CASE CommitTx(w) \/ WriteIndex(w) \/ Upload(w) \/ UploadFails(w)
  <2>1. PICK pc \in {"index", "upload", "ack"} : Step(w, pc)
    BY <1>4 DEF CommitTx, WriteIndex, Upload, UploadFails
  <2>2. work[w].pc \in {"commit", "index", "upload"}
    BY <1>4 DEF CommitTx, WriteIndex, Upload, UploadFails
  <2>3. work'[w] = [work[w] EXCEPT !.pc = pc]
    BY <1>1, <2>1 DEF Step
  <2>4. work'[w].pc = pc /\ work'[w].new = work[w].new
    BY <1>1, <2>3 DEF WorkerStates
  <2> QED
    BY <2>2, <2>4 DEF WorkerMove
<1> QED
  BY <1>2, <1>3, <1>4 DEF Worker, Handle

LEMMA WorkerMoves ==
  ASSUME IInv, [Next]_vars, NEW w \in Workers
  PROVE  WorkerMove(w)
<1> SUFFICES ASSUME work'[w] # work[w] PROVE WorkerMove(w)
  BY DEF WorkerMove
<1>1. work \in [Workers -> WorkerStates] /\ work' # work
  BY DEF IInv, TypeOK
<1>2. \/ \E v \in Workers : Worker(v)
      \/ \E v \in Workers, t \in tasks : ReceiveUpdate(v, t) \/ ReceiveDelete(v, t)
  <2>1. ~Importer /\ ~(\E v \in GroupValues \cup {"nil"} : Regroup(v))
    BY <1>1 DEF Importer, SourceChange, SourceMove, SourceRemove, PublishDelete, Regroup
  <2>2. ~Updater /\ ~UpdaterFaults
    BY <1>1 DEF Updater, UpdaterFaults, UpdaterRead, UpdaterAttrs, UpdaterCommit, UpdaterWrite,
       UpdaterWriteMismatch, UpdaterWriteFails, UpdaterFails
  <2>3. ~Recoverer /\ ~RecovererFails /\ ~(\E m \in failed : Recover(m))
    BY <1>1 DEF Recoverer, RetryUpload, MergeTx, MergeUpload, RcvAck, RecovererFails, Recover,
       RetryCheck, MissingReimport, MismatchRead
  <2>4. ~(\E t \in tasks : HandleGeneric(t))
    BY <1>1 DEF HandleGeneric
  <2> QED
    BY <1>1, <2>1, <2>2, <2>3, <2>4 DEF Next, Receive, vars
<1>3. ASSUME NEW v \in Workers, NEW l, work' = [work EXCEPT ![v] = l] PROVE v = w
  BY <1>1, <1>3
<1>4. CASE \E v \in Workers : Worker(v)
  <2>1. PICK v \in Workers : Worker(v)
    BY <1>4
  <2>2. \E l : work' = [work EXCEPT ![v] = l]
    BY <2>1 DEF Worker, Handle, Enrich, DeleteRead, CommitTx, WriteIndex, Upload, Ack,
       UploadFails, WorkerFails, Step, Drop
  <2> QED
    BY <1>3, <2>1, <2>2, HandleMoves
<1>5. CASE \E v \in Workers, t \in tasks : ReceiveUpdate(v, t) \/ ReceiveDelete(v, t)
  <2>1. PICK v \in Workers, t \in tasks : ReceiveUpdate(v, t) \/ ReceiveDelete(v, t)
    BY <1>5
  <2>2. \E l : work' = [work EXCEPT ![v] = l]
    BY <1>1, <2>1 DEF ReceiveUpdate, ReceiveDelete
  <2> QED
    BY <1>3, <2>1, <2>2, ReceiveMoves
<1> QED
  BY <1>2, <1>4, <1>5

(***************************************************************************)
(* handleUpdate and handleDelete hand Write no record that was withdrawn   *)
(* after it was last modified, whatever the source's clock said and        *)
(* whatever the other programs did to the copy they read.                  *)
(***************************************************************************)
THEOREM WorkersAlwaysCover == Spec => []WorkersCover
<1>1. Init => WorkersCover
  BY DEF Init, WorkersCover, IdleWorker
<1>2. IInv /\ WorkersCover /\ [Next]_vars => WorkersCover'
  BY WorkerMoves DEF WorkerMove, WorkersCover
<1> QED
  BY <1>1, <1>2, IInvHolds, PTL DEF Spec

(***************************************************************************)
(* What a step does to the entities: the workers' transaction writes them  *)
(* all, the relations job and the recoverer only Modified and the listing. *)
(***************************************************************************)
LEMMA EntityMoves ==
  ASSUME TypeOK, [Next]_vars
  PROVE  \/ \E w \in Workers : CommitTx(w)
         \/ ds'.withdrawn = ds.withdrawn /\ ds'.path = ds.path /\ versions' = versions
<1> USE DEF index
<1>1. CASE \/ Importer \/ \E v \in GroupValues \cup {"nil"} : Regroup(v)
           \/ \E t \in tasks : Receive(t) \/ HandleGeneric(t)
  BY <1>1 DEF HandleGeneric, Importer, SourceChange, SourceMove, SourceRemove, PublishDelete, Regroup,
     Receive, ReceiveUpdate, ReceiveDelete
<1>2. CASE \E w \in Workers : Worker(w)
  BY <1>2 DEF Worker, Handle, Enrich, DeleteRead, WriteIndex, Upload, Ack, UploadFails, WorkerFails
<1>3. CASE Updater \/ UpdaterFaults
  <2>1. ds \in Entities /\ versions' = versions
    BY <1>3 DEF TypeOK, Updater, UpdaterFaults, UpdaterRead, UpdaterAttrs, UpdaterCommit,
       UpdaterWrite, UpdaterWriteMismatch, UpdaterWriteFails, UpdaterFails
  <2>2. ds' = ds \/ ds' = [ds EXCEPT !.modified = upd.at]
    BY <1>3 DEF Updater, UpdaterFaults, UpdaterRead, UpdaterAttrs, UpdaterCommit, UpdaterWrite,
       UpdaterWriteMismatch, UpdaterWriteFails, UpdaterFails
  <2> QED
    BY <2>1, <2>2 DEF Entities
<1>4. CASE RetryUpload \/ MergeUpload \/ RcvAck \/ RecovererFails \/ \E m \in failed : Recover(m)
  BY <1>4 DEF Recover, RetryCheck, MissingReimport, MismatchRead, RetryUpload, MergeUpload,
     RcvAck, RecovererFails
<1>5. CASE MergeTx
  <2>1. ds \in Entities /\ versions' = versions
    BY <1>5 DEF TypeOK, MergeTx
  <2>2. ds' = ds \/ \E stamp : ds' = [ds EXCEPT !.modified = stamp]
    BY <1>5 DEF MergeTx
  <2> QED
    BY <2>1, <2>2 DEF Entities
<1>6. CASE UNCHANGED vars
  BY <1>6 DEF vars
<1> QED
  BY <1>1, <1>2, <1>3, <1>4, <1>5, <1>6 DEF Next, Recoverer

(***************************************************************************)
(* A withdrawn record is never matched by version, through every           *)
(* interleaving, the Updater's and the recoverer's included.               *)
(***************************************************************************)
THEOREM WithdrawnIsUnmatched == Spec => []WithdrawnUnmatched
<1>1. Init => WithdrawnUnmatched
  BY DEF Init, WithdrawnUnmatched
<1>2. TypeOK /\ WithdrawnUnmatched /\ [Next]_vars => WithdrawnUnmatched'
  <2> SUFFICES ASSUME TypeOK, WithdrawnUnmatched, [Next]_vars PROVE WithdrawnUnmatched'
    OBVIOUS
  <2>1. CASE \E w \in Workers : CommitTx(w)
    <3>1. PICK w \in Workers : CommitTx(w)
      BY <2>1
    <3>2. ds'.withdrawn = (work[w].new.withdrawn # 0) /\ versions' = Shown(work[w].new)
      BY <3>1 DEF CommitTx
    <3> QED
      BY <3>2 DEF Shown, WithdrawnUnmatched
  <2> QED
    BY <2>1, EntityMoves DEF WithdrawnUnmatched
<1> QED
  BY <1>1, <1>2, TypeCorrect, PTL DEF Spec

(***************************************************************************)
(* While the Updater does not run only gcs_retry messages exist, and every *)
(* record that waits, is being recovered or is public is covered.          *)
(***************************************************************************)
LEMMA CoverStep ==
  ASSUME IInv, WorkersCover, CoverInv, UpdaterIdle, [Next]_vars, UpdaterIdle'
  PROVE  CoverInv'
<1> USE DEF CoverInv, OnlyRetries, ModifiedCoversWithdrawn, WithdrawnUnlisted, UpdaterIdle
<1>1. Covered(Absent) /\ Covered(IdleRecoverer.rec) /\ IdleRecoverer.pc = "idle"
  BY DEF Covered, Absent, IdleRecoverer
<1>2. CASE Importer \/ \E t \in tasks : Receive(t) \/ HandleGeneric(t)
  BY <1>2 DEF Importer, SourceChange, SourceMove, SourceRemove, PublishDelete, Receive,
     ReceiveUpdate, ReceiveDelete, HandleGeneric, index
<1>3. CASE \E v \in GroupValues \cup {"nil"} : Regroup(v)
  <2>1. PICK v \in GroupValues \cup {"nil"} : Regroup(v)
    BY <1>3
  <2>2. PICK now : upd' = [IdleUpdater EXCEPT !.pc = "read", !.val = v, !.at = now]
    BY <2>1 DEF Regroup
  <2> QED
    BY <2>2 DEF IdleUpdater
<1>4. CASE \E w \in Workers : Worker(w)
  <2>1. PICK w \in Workers : Worker(w)
    BY <1>4
  <2>2. UNCHANGED rcv
    BY <2>1 DEF Worker, Handle, Enrich, DeleteRead, CommitTx, WriteIndex, Upload, Ack,
       UploadFails, WorkerFails
  <2>3. CASE Enrich(w) \/ DeleteRead(w) \/ WriteIndex(w) \/ Ack(w) \/ WorkerFails(w)
    BY <2>2, <2>3 DEF Enrich, DeleteRead, WriteIndex, Ack, WorkerFails, index
  <2>4. CASE CommitTx(w)
    BY <2>2, <2>4 DEF CommitTx, Shown
  <2>5. CASE Upload(w) \/ UploadFails(w)
    <3>1. Covered(work[w].new) /\ UNCHANGED index
      BY <2>5 DEF Upload, UploadFails, WorkersCover
    <3>2. \/ gcs' = work[w].new /\ failed' = failed
          \/ gcs' = gcs /\ failed' = failed \cup {Retry(work[w].new)}
      BY <2>5 DEF Upload, UploadFails, Put, HandedOver
    <3> QED
      BY <2>2, <3>1, <3>2, ConstantTypes DEF index, Covered
  <2> QED
    BY <2>1, <2>3, <2>4, <2>5 DEF Worker, Handle
<1>5. CASE Updater \/ UpdaterFaults
  BY <1>5 DEF Updater, UpdaterFaults, UpdaterRead, UpdaterAttrs, UpdaterCommit, UpdaterWrite,
     UpdaterWriteMismatch, UpdaterWriteFails, UpdaterFails
<1>6. CASE \E m \in failed : Recover(m)
  <2>1. PICK m \in failed : Recover(m) /\ m.type = "gcs_retry" /\ Covered(m.rec)
    BY <1>6
  <2>2. RetryCheck(m)
    BY <2>1 DEF Recover, MissingReimport, MismatchRead
  <2>3. UNCHANGED <<index, gcs>> /\ failed' \subseteq failed
    BY <2>2 DEF RetryCheck, RcvDone
  <2>4. \/ rcv' = IdleRecoverer
        \/ rcv' = [IdleRecoverer EXCEPT !.pc = "upload", !.msg = m, !.rec = m.rec]
    BY <2>2 DEF RetryCheck, RcvDone
  <2>5. rcv'.pc \in {"idle", "upload"} /\ Covered(rcv'.rec)
    BY <1>1, <2>1, <2>4 DEF IdleRecoverer
  <2> QED
    BY <2>3, <2>5 DEF index
<1>7. CASE RetryUpload \/ MergeTx \/ MergeUpload \/ RcvAck \/ RecovererFails
  <2>1. /\ UNCHANGED index /\ failed' \subseteq failed
        /\ rcv' = IdleRecoverer \/ rcv' = [rcv EXCEPT !.pc = "ack"]
    BY <1>7 DEF RetryUpload, MergeTx, MergeUpload, RcvAck, RecovererFails, RcvDone
  <2>2. gcs' = gcs \/ gcs' = rcv.rec
    BY <1>7 DEF RetryUpload, MergeTx, MergeUpload, RcvAck, RecovererFails, Put
  <2>3. rcv \in RecovererStates
    BY DEF IInv, TypeOK
  <2>4. rcv'.pc \in {"idle", "ack"} /\ Covered(rcv'.rec)
    BY <1>1, <2>1, <2>3 DEF RecovererStates
  <2> QED
    BY <2>1, <2>2, <2>4 DEF index, Covered
<1>8. CASE UNCHANGED vars
  BY <1>8 DEF vars
<1> QED
  BY <1>2, <1>3, <1>4, <1>5, <1>6, <1>7, <1>8 DEF Next, Recoverer

LEMMA CoverHolds == Spec /\ []UpdaterIdle => []CoverInv
<1>1. Init => CoverInv
  BY DEF Init, CoverInv, OnlyRetries, ModifiedCoversWithdrawn, WithdrawnUnlisted, IdleRecoverer,
     Covered, Absent
<1>2. IInv /\ WorkersCover /\ CoverInv /\ UpdaterIdle /\ [Next]_vars /\ UpdaterIdle' => CoverInv'
  BY CoverStep
<1> QED
  BY <1>1, <1>2, IInvHolds, WorkersAlwaysCover, PTL DEF Spec

(***************************************************************************)
(* No public record was withdrawn after it was last modified, as long as   *)
(* the relations job's Updater, which stamps a group's time, stays out.    *)
(***************************************************************************)
THEOREM PublicIsCovered == Spec /\ []UpdaterIdle => []ModifiedCoversWithdrawn
<1>1. CoverInv => ModifiedCoversWithdrawn
  BY DEF CoverInv
<1> QED
  BY <1>1, CoverHolds, PTL

(***************************************************************************)
(* No withdrawn record is listed or matched by version, as long as the     *)
(* Updater, which lists every record it patches, stays out.                *)
(***************************************************************************)
THEOREM WithdrawnIsUnlisted == Spec /\ []UpdaterIdle => []WithdrawnUnlisted
<1>1. CoverInv => WithdrawnUnlisted
  BY DEF CoverInv
<1> QED
  BY <1>1, CoverHolds, PTL

(***************************************************************************)
(* While the tasks of the record are handled one at a time, the path that  *)
(* a deletion compared is still the record's when its transaction commits. *)
(***************************************************************************)
LEMMA PathStep ==
  ASSUME IInv, PathHeld, OneTaskAtATime, [Next]_vars
  PROVE  PathHeld'
<1> SUFFICES ASSUME NEW w \in Workers, work'[w].pc \in {"delete", "commit"},
                    work'[w].task.kind = "delete"
             PROVE  ds'.path = work'[w].task.path
  BY DEF PathHeld
<1>1. CASE work'[w] # work[w]
  BY <1>1, WorkerMoves DEF WorkerMove, PathHeld
<1>2. CASE work'[w] = work[w]
  <2>1. ds.path = work[w].task.path /\ work[w].pc # "idle"
    BY <1>2 DEF PathHeld
  <2>2. ASSUME NEW v \in Workers, CommitTx(v) PROVE FALSE
    <3>1. work[v].pc = "commit"
      BY <2>2 DEF CommitTx
    <3>2. v = w
      BY <2>1, <3>1 DEF OneTaskAtATime
    <3>3. work'[w].pc = "index"
      BY <2>2, <3>2 DEF CommitTx, Step, IInv, TypeOK, WorkerStates
    <3> QED
      BY <1>2, <3>1, <3>2, <3>3
  <2>3. ds'.path = ds.path
    BY <2>2, EntityMoves DEF IInv
  <2> QED
    BY <1>2, <2>1, <2>3
<1> QED
  BY <1>1, <1>2

(***************************************************************************)
(* handleDelete's safety check holds up to the write for one worker, and   *)
(* for many whose tasks for the record do not overlap.                     *)
(***************************************************************************)
THEOREM DeletionOwnsPath == Spec /\ []OneTaskAtATime => DeletesOwnPath
<1>1. Init => PathHeld
  BY DEF Init, PathHeld, IdleWorker
<1>2. IInv /\ PathHeld /\ OneTaskAtATime /\ [Next]_vars => PathHeld'
  BY PathStep
<1> DEFINE Owns == \A w \in Workers :
                     work[w].pc = "commit" /\ work'[w].pc = "index" /\ work[w].task.kind = "delete"
                       => ds.path = work[w].task.path
<1>3. PathHeld => [Owns]_vars
  BY DEF PathHeld
<1> QED
  BY <1>1, <1>2, <1>3, IInvHolds, PTL DEF Spec, DeletesOwnPath

(***************************************************************************)
(* The Updater's way from its read to its write: it changes the aliases    *)
(* and the modified time of its copy, and writes nothing to the bucket.    *)
(***************************************************************************)
LEMMA UpdaterMoves ==
  ASSUME TypeOK, [Next]_vars
  PROVE  \/ upd' = upd
         \/ upd'.pc \in {"idle", "read"}
         \/ upd'.pc = "attrs" /\ upd'.rec = gcs /\ UNCHANGED <<gcs, gen>>
         \/ /\ upd.pc = "attrs" /\ upd'.pc = "commit" /\ UNCHANGED <<gcs, gen>>
            /\ upd'.rec = upd.rec /\ upd'.gen = gen
         \/ /\ upd.pc = "commit" /\ upd'.pc = "write" /\ UNCHANGED <<gcs, gen>>
            /\ upd'.gen = upd.gen
            /\ upd'.rec.ver = upd.rec.ver /\ upd'.rec.withdrawn = upd.rec.withdrawn
<1> DEFINE Move ==
      \/ upd' = upd
      \/ upd'.pc \in {"idle", "read"}
      \/ upd'.pc = "attrs" /\ upd'.rec = gcs /\ UNCHANGED <<gcs, gen>>
      \/ /\ upd.pc = "attrs" /\ upd'.pc = "commit" /\ UNCHANGED <<gcs, gen>>
         /\ upd'.rec = upd.rec /\ upd'.gen = gen
      \/ /\ upd.pc = "commit" /\ upd'.pc = "write" /\ UNCHANGED <<gcs, gen>>
         /\ upd'.gen = upd.gen
         /\ upd'.rec.ver = upd.rec.ver /\ upd'.rec.withdrawn = upd.rec.withdrawn
<1>1. upd \in UpdaterStates /\ upd.rec \in Records
  BY DEF TypeOK, UpdaterStates
<1>2. CASE Importer \/ \E t \in tasks : Receive(t) \/ HandleGeneric(t)
  BY <1>2 DEF Importer, SourceChange, SourceMove, SourceRemove, PublishDelete,
     Receive, ReceiveUpdate, ReceiveDelete, HandleGeneric
<1>3. CASE \E w \in Workers : Worker(w)
  BY <1>3 DEF Worker, Handle, Enrich, DeleteRead, CommitTx, WriteIndex, Upload, Ack,
     UploadFails, WorkerFails
<1>4. CASE Recoverer \/ RecovererFails \/ \E m \in failed : Recover(m)
  BY <1>4 DEF Recoverer, Recover, RetryCheck, MissingReimport, MismatchRead, RetryUpload,
     MergeTx, MergeUpload, RcvAck, RecovererFails
<1>5. CASE \E v \in GroupValues \cup {"nil"} : Regroup(v)
  <2>1. \E v, now : upd' = [IdleUpdater EXCEPT !.pc = "read", !.val = v, !.at = now]
    BY <1>5 DEF Regroup
  <2> QED
    BY <2>1 DEF IdleUpdater
<1>6. CASE UpdaterFaults \/ UpdaterWrite \/ UpdaterWriteMismatch
  BY <1>6 DEF UpdaterFaults, UpdaterWriteFails, UpdaterFails, UpdaterWrite, UpdaterWriteMismatch,
     IdleUpdater
<1>7. CASE UpdaterRead
  <2>1. \/ upd' = IdleUpdater
        \/ upd' = [upd EXCEPT !.pc = "attrs", !.rec = gcs] /\ UNCHANGED <<gcs, gen>>
    BY <1>7 DEF UpdaterRead
  <2>2. CASE upd' = IdleUpdater
    BY <2>2 DEF IdleUpdater
  <2>3. CASE upd' = [upd EXCEPT !.pc = "attrs", !.rec = gcs] /\ UNCHANGED <<gcs, gen>>
    <3>1. upd'.pc = "attrs" /\ upd'.rec = gcs
      BY <1>1, <2>3 DEF UpdaterStates
    <3> QED
      BY <2>3, <3>1
  <2> QED
    BY <2>1, <2>2, <2>3
<1>8. CASE UpdaterAttrs
  <2>1. upd.pc = "attrs" /\ upd' = [upd EXCEPT !.pc = "commit", !.gen = gen] /\ UNCHANGED <<gcs, gen>>
    BY <1>8 DEF UpdaterAttrs
  <2> QED
    BY <1>1, <2>1 DEF UpdaterStates
<1>9. CASE UpdaterCommit
  <2>1. /\ upd.pc = "commit" /\ UNCHANGED <<gcs, gen>>
        /\ upd' = IdleUpdater \/ upd' = [upd EXCEPT !.pc = "write", !.rec = Patched]
    BY <1>9 DEF UpdaterCommit
  <2>2. Patched.ver = upd.rec.ver /\ Patched.withdrawn = upd.rec.withdrawn
    BY <1>1 DEF Patched, Records
  <2>3. CASE upd' = [upd EXCEPT !.pc = "write", !.rec = Patched]
    <3>1. upd'.pc = "write" /\ upd'.gen = upd.gen /\ upd'.rec = Patched
      BY <1>1, <2>3 DEF UpdaterStates
    <3> QED
      BY <2>1, <2>2, <3>1
  <2> QED
    BY <2>1, <2>3 DEF IdleUpdater
<1>10. CASE UNCHANGED vars
  BY <1>10 DEF vars
<1> QED
  BY <1>2, <1>3, <1>4, <1>5, <1>6, <1>7, <1>8, <1>9, <1>10 DEF Next, Updater

\* What the Updater holds is the object, unless the generation has moved, if
\* its two reads saw the same object.
LEMMA UpdaterSnapshotStep ==
  ASSUME TypeOK, UpdaterSnapshot, [Next]_vars, upd.pc = "attrs" => gen' = gen
  PROVE  UpdaterSnapshot'
<1> USE DEF UpdaterSnapshot, SameContent
<1>1. gen \in Nat /\ upd.gen \in Nat
  BY DEF TypeOK, UpdaterStates
<1>2. UNCHANGED <<gcs, gen>> \/ gen' = gen + 1
  BY WritesAdvance
<1>3. CASE upd' = upd
  BY <1>1, <1>2, <1>3
<1>4. CASE upd'.pc \in {"idle", "read"}
  BY <1>4
<1>5. CASE upd'.pc = "attrs" /\ upd'.rec = gcs /\ UNCHANGED <<gcs, gen>>
  BY <1>5
<1>6. CASE /\ upd.pc = "attrs" /\ upd'.pc = "commit" /\ UNCHANGED <<gcs, gen>>
           /\ upd'.rec = upd.rec /\ upd'.gen = gen
  BY <1>1, <1>6
<1>7. CASE /\ upd.pc = "commit" /\ upd'.pc = "write" /\ UNCHANGED <<gcs, gen>>
           /\ upd'.gen = upd.gen
           /\ upd'.rec.ver = upd.rec.ver /\ upd'.rec.withdrawn = upd.rec.withdrawn
  BY <1>1, <1>7
<1> QED
  BY <1>3, <1>4, <1>5, <1>6, <1>7, UpdaterMoves

\* The one step that takes the Updater from its write and changes the object.
LEMMA UpdaterWrites ==
  ASSUME [Next]_vars, upd.pc = "write", upd' # upd, gen' # gen
  PROVE  UpdaterWrite
<1>1. /\ ~Importer /\ ~(\E t \in tasks : Receive(t) \/ HandleGeneric(t))
      /\ ~(\E v \in GroupValues \cup {"nil"} : Regroup(v))
  BY DEF Importer, SourceChange, SourceMove, SourceRemove, PublishDelete, Receive,
     ReceiveUpdate, ReceiveDelete, HandleGeneric, Regroup
<1>2. ~(\E w \in Workers : Worker(w))
  BY DEF Worker, Handle, Enrich, DeleteRead, CommitTx, WriteIndex, Upload, Ack,
     UploadFails, WorkerFails
<1>3. ~UpdaterFaults /\ ~UpdaterRead /\ ~UpdaterAttrs /\ ~UpdaterCommit /\ ~UpdaterWriteMismatch
  BY DEF UpdaterFaults, UpdaterRead, UpdaterAttrs, UpdaterCommit, UpdaterWriteMismatch,
     UpdaterWriteFails, UpdaterFails
<1>4. ~(\E m \in failed : Recover(m)) /\ ~Recoverer /\ ~RecovererFails
  BY DEF Recover, RetryCheck, MissingReimport, MismatchRead, Recoverer, RetryUpload, MergeTx,
     MergeUpload, RcvAck, RecovererFails
<1> QED
  BY <1>1, <1>2, <1>3, <1>4 DEF Next, Updater, vars

(***************************************************************************)
(* The Updater keeps the content it patches whenever nobody writes between *)
(* its two reads: the gap between them is all that is wrong with it.       *)
(***************************************************************************)
THEOREM UndisturbedPatchIsSafe == Spec /\ UndisturbedRead => PatchKeepsContent
<1> DEFINE Quiet == upd.pc = "attrs" => gen' = gen
           Keeps == upd.pc = "write" /\ upd' # upd /\ gen' # gen
                      => gcs'.ver = gcs.ver /\ gcs'.withdrawn = gcs.withdrawn
<1>1. Init => UpdaterSnapshot
  BY DEF Init, UpdaterSnapshot, IdleUpdater
<1>2. TypeOK /\ UpdaterSnapshot /\ [Next]_vars /\ [Quiet]_vars => UpdaterSnapshot'
  <2> SUFFICES ASSUME TypeOK, UpdaterSnapshot, [Next]_vars, [Quiet]_vars PROVE UpdaterSnapshot'
    OBVIOUS
  <2>1. Quiet
    BY DEF vars
  <2> QED
    BY <2>1, UpdaterSnapshotStep
<1>3. TypeOK /\ UpdaterSnapshot /\ [Next]_vars => [Keeps]_vars
  <2> SUFFICES ASSUME TypeOK, UpdaterSnapshot, [Next]_vars,
                      upd.pc = "write", upd' # upd, gen' # gen
               PROVE  gcs'.ver = gcs.ver /\ gcs'.withdrawn = gcs.withdrawn
    OBVIOUS
  <2>1. UpdaterWrite
    BY UpdaterWrites
  <2> QED
    BY <2>1 DEF UpdaterWrite, Put, UpdaterSnapshot, SameContent
<1> QED
  BY <1>1, <1>2, <1>3, TypeCorrect, PTL DEF Spec, UndisturbedRead, PatchKeepsContent

\* The recoverer enters "upload" right after its check and leaves it when it
\* uploads or fails.
LEMMA RetryMoves ==
  ASSUME TypeOK, [Next]_vars
  PROVE  \/ rcv' = rcv
         \/ rcv'.pc # "upload"
         \/ ~Superseded(rcv'.rec) /\ gcs' = gcs
<1>1. CASE \/ Importer \/ \E v \in GroupValues \cup {"nil"} : Regroup(v)
           \/ \E t \in tasks : Receive(t) \/ HandleGeneric(t)
  BY <1>1 DEF HandleGeneric, Importer, SourceChange, SourceMove, SourceRemove, PublishDelete, Regroup,
     Receive, ReceiveUpdate, ReceiveDelete
<1>2. CASE \E w \in Workers : Worker(w)
  BY <1>2 DEF Worker, Handle, Enrich, DeleteRead, CommitTx, WriteIndex, Upload, Ack,
     UploadFails, WorkerFails
<1>3. CASE Updater \/ UpdaterFaults
  BY <1>3 DEF Updater, UpdaterFaults, UpdaterRead, UpdaterAttrs, UpdaterCommit, UpdaterWrite,
     UpdaterWriteMismatch, UpdaterWriteFails, UpdaterFails
<1>4. CASE RetryUpload \/ MergeUpload \/ RcvAck \/ RecovererFails
  BY <1>4 DEF RetryUpload, MergeUpload, RcvAck, RecovererFails, RcvDone, IdleRecoverer, TypeOK, RecovererStates
<1>5. CASE MergeTx
  <2>1. \/ rcv' = [rcv EXCEPT !.pc = "replace"]
        \/ \E stamp : rcv' = [rcv EXCEPT !.pc = "replace", !.rec = Merged(stamp)]
    BY <1>5 DEF MergeTx
  <2>2. rcv \in RecovererStates
    BY DEF TypeOK
  <2>3. rcv'.pc = "replace"
    BY <2>1, <2>2 DEF RecovererStates
  <2> QED
    BY <2>3
<1>6. CASE \E m \in failed : Recover(m)
  <2>1. PICK m \in failed : Recover(m)
    BY <1>6
  <2>2. CASE MissingReimport(m) \/ MismatchRead(m)
    BY <2>2 DEF MissingReimport, MismatchRead, Reimport, RcvDone, IdleRecoverer
  <2>3. CASE RetryCheck(m)
    <3>1. \/ rcv' = IdleRecoverer
          \/ /\ rcv' = [IdleRecoverer EXCEPT !.pc = "upload", !.msg = m, !.rec = m.rec]
             /\ ~Superseded(m.rec) /\ gcs' = gcs
      BY <2>3 DEF RetryCheck, RcvDone
    <3>2. CASE rcv' = IdleRecoverer
      BY <3>2 DEF IdleRecoverer
    <3>3. CASE /\ rcv' = [IdleRecoverer EXCEPT !.pc = "upload", !.msg = m, !.rec = m.rec]
               /\ ~Superseded(m.rec) /\ gcs' = gcs
      <4>1. rcv'.rec = m.rec
        BY <3>3 DEF IdleRecoverer
      <4> QED
        BY <3>3, <4>1
    <3> QED
      BY <3>1, <3>2, <3>3
  <2> QED
    BY <2>1, <2>2, <2>3 DEF Recover
<1>7. CASE UNCHANGED vars
  BY <1>7 DEF vars
<1> QED
  BY <1>1, <1>2, <1>3, <1>4, <1>5, <1>6, <1>7 DEF Next, Recoverer

(***************************************************************************)
(* A retried upload replaces only an older object, whenever nobody writes  *)
(* between the recoverer's check and its upload.                           *)
(***************************************************************************)
THEOREM UndisturbedRetryIsSafe == Spec /\ UndisturbedRetry => RetryReplacesOlder
<1> DEFINE Quiet == rcv.pc = "upload" /\ rcv' = rcv => gen' = gen
           Checked == rcv.pc = "upload" => ~Superseded(rcv.rec)
           Older == rcv.pc = "upload" /\ rcv' # rcv /\ gen' # gen => ~Superseded(rcv.rec)
<1>1. Init => Checked
  BY DEF Init, IdleRecoverer
<1>2. TypeOK /\ Checked /\ [Next]_vars /\ [Quiet]_vars => Checked'
  <2> SUFFICES ASSUME TypeOK, Checked, [Next]_vars, [Quiet]_vars, rcv'.pc = "upload"
               PROVE  ~Superseded(rcv.rec)'
    OBVIOUS
  <2>1. CASE rcv' = rcv
    <3>1. gcs' = gcs
      <4>1. gen' = gen /\ gen \in Nat
        BY <2>1 DEF vars, TypeOK
      <4> QED
        BY <4>1, WritesAdvance
    <3> QED
      BY <2>1, <3>1 DEF Superseded
  <2>2. CASE ~Superseded(rcv'.rec) /\ gcs' = gcs
    BY <2>2 DEF Superseded
  <2> QED
    BY <2>1, <2>2, RetryMoves
<1>3. Checked => [Older]_vars
  OBVIOUS
<1> QED
  BY <1>1, <1>2, <1>3, TypeCorrect, PTL DEF Spec, UndisturbedRetry, RetryReplacesOlder
=============================================================================
