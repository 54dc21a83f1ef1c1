---------------------------- MODULE ImporterProofs ----------------------------
(***************************************************************************)
(* Proofs about the importer's jobs for any files, records, pools and      *)
(* bounds: the types of its state, that no file the cursor has passed was  *)
(* forgotten, and that no job withdraws a file that was there all along.   *)
(***************************************************************************)
EXTENDS Importer, TLAPS

-----------------------------------------------------------------------------
(* The inductive invariant *)

\* Nothing is later than the clock.
Clock ==
  /\ \A p \in Paths : src[p].upd <= now /\ synced[p].upd <= now /\ imp.snap[p].upd <= now
  /\ cursor <= now /\ imp.start <= now

\* A file and its copy in the snapshot are told apart by when they were put.
Stamps ==
  \A p \in Paths :
    /\ src[p] # NoFile => src[p].upd >= 1 /\ (~Backdates => src[p].mod = src[p].upd)
    /\ imp.snap[p] # NoFile => imp.snap[p].upd >= 1
    /\ imp.snap[p].upd = src[p].upd => imp.snap[p] = src[p]

\* Items come from the lister of their job, and git items from its snapshot.
ImportPool ==
  /\ imp.pc \in {"idle", "head", "fetch"} => busy["import"] = {}
  /\ kind = "git" =>
       \A x \in busy["import"] : x.act = "import" => x.upd = imp.snap[x.path].upd

\* A snapshot shows the source, but for what has changed since the run began.
SnapshotIsRecent ==
  imp.pc = "list" /\ kind # "bucket" =>
    \A p \in Paths : imp.snap[p] = src[p] \/ GoneSince(p, imp.start)

\* The files the cursor will have passed when the run ends.
WillPass(p) ==
  /\ src[p] # NoFile
  /\ kind = "git" => imp.snap[p] = src[p]
  /\ kind = "REST" => ~Backdates
  /\ kind # "git" => src[p].upd <= imp.start

ListedAreAccounted ==
  /\ imp.pc \in {"head", "fetch"} => imp.left = Paths
  /\ imp.pc = "list" => \A p \in Paths \ imp.left : WillPass(p) => Accounted(p)

ImportWithdrawsGone ==
  \A x \in busy["import"] : x.act = "withdraw" => GoneSince(x.path, imp.start)

ImportInv ==
  /\ Clock /\ Stamps /\ ImportPool /\ SnapshotIsRecent
  /\ ListedAreAccounted /\ NothingPassedOver /\ ImportWithdrawsGone

\* What the deleter has not found, or is about to withdraw, is gone.
DeleteInv ==
  /\ del.start <= now
  /\ del.pc \in {"idle", "list"} => busy["delete"] = {}
  /\ del.pc = "list" => \A p \in Paths \ (del.left \cup del.listed) : GoneSince(p, del.start)
  /\ del.pc = "hand" => \A p \in del.left : GoneSince(p, del.start)
  /\ \A x \in busy["delete"] : GoneSince(x.path, del.start)

\* No record is newer than what was published for it.
RecordInv ==
  /\ \A i \in Ids : db[i].mod <= sent[i]
  /\ \A i \in Ids : db[i].mod # 0 => db[i].path \in Paths /\ IdOf[db[i].path] = i
  /\ \A t \in tasks : t.mod <= sent[IdOf[t.path]]

IInv == TypeOK /\ ImportInv /\ DeleteInv /\ RecordInv

-----------------------------------------------------------------------------
(* Types *)

\* The three kinds of source.
LEMMA KindTypes == TypeOK => kind \in {"git", "bucket", "REST"}
BY ImporterAssumption DEF TypeOK

\* A file is a pair of times, and so is the lack of one.
LEMMA FileTypes ==
  /\ NoFile \in File /\ NoFiles \in Files
  /\ NoFile.mod = 0 /\ NoFile.upd = 0
  /\ \A p \in Paths : NoFiles[p] = NoFile
BY DEF File, NoFile, NoFiles, Files

\* The listers before they start.
LEMMA IdleTypes ==
  IdleImport \in ImportLister /\ IdleReconcile \in ReconcileLister /\ IdleDelete \in DeleteLister
BY FileTypes DEF IdleImport, IdleReconcile, IdleDelete, ImportLister, ReconcileLister, DeleteLister

\* A new item.
LEMMA NewItemTypes ==
  ASSUME NEW p \in Paths, NEW act \in {"import", "reconcile", "withdraw"},
         NEW compare \in BOOLEAN, NEW upd \in Nat
  PROVE  /\ NewItem(p, act, compare, upd) \in Item
         /\ NewItem(p, act, compare, upd).path = p
         /\ NewItem(p, act, compare, upd).act = act
         /\ NewItem(p, act, compare, upd).upd = upd
         /\ act # "withdraw" => NewItem(p, act, compare, upd).pc = "open"
BY DEF NewItem, Item

\* An item that has been read.
LEMMA ReadItemTypes ==
  ASSUME NEW x \in Item, NEW m \in Nat, NEW pc \in {"open", "compare", "send"}
  PROVE  LET y == [x EXCEPT !.pc = pc, !.mod = m]
         IN  y \in Item /\ y.path = x.path /\ y.act = x.act /\ y.upd = x.upd /\ y.mod = m
BY DEF Item

\* An item that goes on as it is.
LEMMA NextItemTypes ==
  ASSUME NEW x \in Item, NEW pc \in {"open", "compare", "send"}
  PROVE  LET y == [x EXCEPT !.pc = pc]
         IN  y \in Item /\ y.path = x.path /\ y.act = x.act /\ y.upd = x.upd /\ y.mod = x.mod
BY DEF Item

\* Items move within one pool.
LEMMA LeavesTypes ==
  ASSUME TypeOK, NEW j \in AllJobs, NEW x, NEW next \in SUBSET Item, Leaves(j, x, next)
  PROVE  /\ busy' \in [AllJobs -> SUBSET Item]
         /\ busy'[j] = (busy[j] \ {x}) \cup next
         /\ \A k \in AllJobs : k # j => busy'[k] = busy[k]
<1>1. busy \in [AllJobs -> SUBSET Item]
  BY DEF TypeOK
<1>2. (busy[j] \ {x}) \cup next \in SUBSET Item
  BY <1>1
<1>3. busy' = [busy EXCEPT ![j] = (busy[j] \ {x}) \cup next]
  BY DEF Leaves
<1> QED BY <1>1, <1>2, <1>3

\* An item enters one pool.
LEMMA HandTypes ==
  ASSUME TypeOK, NEW j \in AllJobs, NEW x \in Item, Hand(j, x)
  PROVE  /\ busy' \in [AllJobs -> SUBSET Item]
         /\ busy'[j] = busy[j] \cup {x}
         /\ \A k \in AllJobs : k # j => busy'[k] = busy[k]
<1>1. busy \in [AllJobs -> SUBSET Item]
  BY DEF TypeOK
<1>2. busy[j] \cup {x} \in SUBSET Item
  BY <1>1
<1>3. busy' = [busy EXCEPT ![j] = busy[j] \cup {x}]
  BY DEF Hand
<1> QED BY <1>1, <1>2, <1>3

\* What an item reads is a file.
LEMMA ContentTypes ==
  ASSUME TypeOK, NEW j \in AllJobs, NEW p \in Paths
  PROVE  Content(j, p) \in File /\ Content(j, p).mod \in Nat
<1>1. src[p] \in File /\ imp.snap[p] \in File /\ rec.snap[p] \in File
  BY DEF TypeOK, Files, ImportLister, ReconcileLister
<1>2. Content(j, p) \in File
  BY <1>1 DEF Content
<1> QED BY <1>2 DEF File

-----------------------------------------------------------------------------
(* What a step may leave to frame lemmas *)

\* What has become of an account of file p after a step.
StillAccounted(p) ==
  \/ sent'[IdOf[p]] >= src[p].mod
  \/ <<p, src[p].upd>> \in lost'
  \/ \E y \in busy'["import"] : Carries(y, p)

\* A file stays accounted for if the item that carries it does, or is sent,
\* or is lost.
LEMMA AccountedStays ==
  ASSUME TypeOK, TypeOK', NEW p \in Paths, src'[p] = src[p], Accounted(p),
         sent[IdOf[p]] <= sent'[IdOf[p]], lost \subseteq lost',
         \A x \in busy["import"] : Carries(x, p) => StillAccounted(p)
  PROVE  Accounted(p)'
<1>1. /\ sent[IdOf[p]] \in Nat /\ sent'[IdOf[p]] \in Nat /\ src[p].mod \in Nat
  BY ImporterAssumption DEF TypeOK, Files, File
<1>2. StillAccounted(p)
  BY <1>1 DEF Accounted, StillAccounted
<1>3. \A y : Carries(y, p) => Carries(y, p)'
  BY DEF Carries
<1> QED BY <1>2, <1>3 DEF StillAccounted, Accounted

\* Steps of the pools, of any job, and of the tasks' workers.
LEMMA ItemsMove ==
  ASSUME TypeOK, TypeOK', ImportInv, UNCHANGED <<world, entity, imp>>,
         \A i \in Ids : sent[i] <= sent'[i],
         lost \subseteq lost',
         \A y \in busy'["import"] : \E x \in busy["import"] :
            y.path = x.path /\ y.act = x.act /\ y.upd = x.upd,
         \A p \in Paths : \A x \in busy["import"] :
            src[p] # NoFile /\ Carries(x, p) => StillAccounted(p)
  PROVE  ImportInv'
<1>1. Clock' /\ Stamps' /\ SnapshotIsRecent'
  BY DEF ImportInv, Clock, Stamps, SnapshotIsRecent, GoneSince, world, entity
<1>2. ImportPool'
  <2>1. imp.pc \in {"idle", "head", "fetch"} => busy'["import"] = {}
    BY DEF ImportInv, ImportPool
  <2>2. ASSUME kind = "git", NEW y \in busy'["import"], y.act = "import"
        PROVE  y.upd = imp.snap[y.path].upd
    BY <2>2 DEF ImportInv, ImportPool
  <2> QED BY <2>1, <2>2 DEF ImportPool, world
<1>3. ASSUME NEW p \in Paths, src[p] # NoFile, Accounted(p)
      PROVE  Accounted(p)'
  <2>1. src'[p] = src[p]
    BY DEF world
  <2>2. IdOf[p] \in Ids
    BY ImporterAssumption
  <2> QED BY <1>3, <2>1, <2>2, AccountedStays
<1>4. ListedAreAccounted'
  BY <1>3 DEF ImportInv, ListedAreAccounted, WillPass, world
<1>5. NothingPassedOver'
  BY <1>3 DEF ImportInv, NothingPassedOver, Passed, world, entity
<1>6. ImportWithdrawsGone'
  BY DEF ImportInv, ImportWithdrawsGone, GoneSince, world
<1> QED BY <1>1, <1>2, <1>4, <1>5, <1>6 DEF ImportInv

\* Steps that leave the import and its pool alone.
LEMMA ImportRests ==
  ASSUME TypeOK, TypeOK', ImportInv,
         UNCHANGED <<world, entity, imp>>, busy'["import"] = busy["import"],
         \A i \in Ids : sent[i] <= sent'[i], lost \subseteq lost'
  PROVE  ImportInv'
<1>1. \A y \in busy'["import"] : \E x \in busy["import"] :
         y.path = x.path /\ y.act = x.act /\ y.upd = x.upd
  OBVIOUS
<1>2. \A p \in Paths : \A x \in busy["import"] :
         src[p] # NoFile /\ Carries(x, p) => StillAccounted(p)
  BY DEF StillAccounted
<1> QED BY <1>1, <1>2, ItemsMove

\* Steps that leave the deleter alone, or only take from its pool.
LEMMA DeleteRests ==
  ASSUME DeleteInv, UNCHANGED <<world, del>>,
         \A y \in busy'["delete"] : \E x \in busy["delete"] : y.path = x.path
  PROVE  DeleteInv'
BY DEF DeleteInv, GoneSince, world

\* Steps that publish nothing and deliver nothing.
LEMMA RecordsRest ==
  ASSUME RecordInv, UNCHANGED <<tasks, db, sent>>
  PROVE  RecordInv'
BY DEF RecordInv

-----------------------------------------------------------------------------
(* The source, the operator and the tasks' workers *)

\* A change at the source is later than every cursor, stamp and run.
LEMMA SourceChanges ==
  ASSUME IInv, NEW p \in Paths, now' = now + 1, src' \in Files,
         UNCHANGED <<kind, entity, imp, rec, del, busy, tasks, db, history, faults>>,
         \A q \in Paths : q # p => src'[q] = src[q],
         src'[p] = NoFile \/ (src'[p].upd = now' /\ (~Backdates => src'[p].mod = src'[p].upd))
  PROVE  IInv'
<1>1. TypeOK'
  BY DEF IInv, TypeOK, entity, history
<1>2. /\ now \in Nat /\ cursor \in Nat /\ imp.start \in Nat /\ del.start \in Nat
      /\ \A q \in Paths : /\ src[q].upd \in Nat /\ synced[q].upd \in Nat
                          /\ imp.snap[q].upd \in Nat /\ src'[q].upd \in Nat
  BY <1>1 DEF IInv, TypeOK, Files, File, ImportLister, DeleteLister
<1>3. NoFile.upd = 0
  BY FileTypes
<1>4. Clock'
  BY <1>2, <1>3 DEF IInv, ImportInv, Clock, entity
<1>5. Stamps'
  <2>1. imp.snap[p].upd <= now /\ (imp.snap[p] # NoFile => imp.snap[p].upd >= 1)
    BY DEF IInv, ImportInv, Clock, Stamps
  <2>2. imp.snap[p].upd = src'[p].upd => imp.snap[p] = src'[p]
    BY <2>1, <1>2, <1>3
  <2>3. src'[p] # NoFile => src'[p].upd >= 1 /\ (~Backdates => src'[p].mod = src'[p].upd)
    BY <1>2
  <2> QED BY <2>1, <2>2, <2>3 DEF IInv, ImportInv, Stamps
<1>6. ImportPool'
  BY DEF IInv, ImportInv, ImportPool
<1>7. \A t \in Nat : t <= now => GoneSince(p, t)'
  BY <1>2 DEF GoneSince
<1>8. \A t \in Nat : \A q \in Paths : t <= now /\ GoneSince(q, t) => GoneSince(q, t)'
  BY <1>7 DEF GoneSince
<1>9. imp.start <= now /\ del.start <= now /\ cursor <= now
  BY DEF IInv, ImportInv, Clock, DeleteInv
<1>10. SnapshotIsRecent'
  <2> SUFFICES ASSUME imp.pc = "list", kind # "bucket", NEW q \in Paths
               PROVE  imp.snap[q] = src'[q] \/ GoneSince(q, imp.start)'
    BY DEF SnapshotIsRecent
  <2>1. CASE q = p
    BY <2>1, <1>2, <1>7, <1>9
  <2>2. CASE q # p
    BY <2>2, <1>2, <1>8, <1>9 DEF IInv, ImportInv, SnapshotIsRecent
  <2> QED BY <2>1, <2>2
<1>11. \A q \in Paths : q # p /\ Accounted(q) => Accounted(q)'
  BY DEF Accounted, Carries, history
<1>12. ListedAreAccounted'
  <2> SUFFICES ASSUME imp.pc = "list", NEW q \in Paths \ imp.left, WillPass(q)'
               PROVE  Accounted(q)'
    BY DEF IInv, ImportInv, ListedAreAccounted
  <2>1. q # p
    <3> SUFFICES ASSUME q = p  PROVE FALSE
      OBVIOUS
    <3>1. src'[p].upd = now + 1
      BY DEF WillPass
    <3>2. imp.snap[p].upd <= now /\ imp.start <= now
      BY <1>9 DEF IInv, ImportInv, Clock
    <3> QED BY <3>1, <3>2, <1>2 DEF WillPass
  <2>2. WillPass(q)
    BY <2>1 DEF WillPass
  <2> QED BY <2>1, <2>2, <1>11 DEF IInv, ImportInv, ListedAreAccounted
<1>13. NothingPassedOver'
  <2> SUFFICES ASSUME NEW q \in Paths, Passed(q)'
               PROVE  Accounted(q)'
    BY DEF NothingPassedOver
  <2>1. q # p
    <3> SUFFICES ASSUME q = p  PROVE FALSE
      OBVIOUS
    <3>1. src'[p].upd = now + 1
      BY DEF Passed
    <3>2. synced[p].upd <= now
      BY DEF IInv, ImportInv, Clock
    <3> QED BY <3>1, <3>2, <1>2, <1>9 DEF Passed, entity
  <2>2. Passed(q)
    BY <2>1 DEF Passed, entity
  <2> QED BY <2>1, <2>2, <1>11 DEF IInv, ImportInv, NothingPassedOver
<1>14. ImportWithdrawsGone'
  <2>1. \A x \in busy["import"] : x.path \in Paths
    BY DEF IInv, TypeOK, Item, AllJobs
  <2> QED BY <2>1, <1>2, <1>8, <1>9 DEF IInv, ImportInv, ImportWithdrawsGone
<1>15. DeleteInv'
  <2>1. \A x \in busy["delete"] : x.path \in Paths
    BY DEF IInv, TypeOK, Item, AllJobs
  <2>2. del.left \subseteq Paths
    BY DEF IInv, TypeOK, DeleteLister
  <2> QED BY <2>1, <2>2, <1>2, <1>8, <1>9 DEF IInv, DeleteInv
<1>16. RecordInv'
  BY RecordsRest DEF IInv, history
<1> QED BY <1>1, <1>4, <1>5, <1>6, <1>10, <1>12, <1>13, <1>14, <1>15, <1>16 DEF IInv, ImportInv

\* A file appears or changes.
LEMMA PutKeeps == ASSUME IInv, NEW p \in Paths, Put(p)  PROVE IInv'
<1>1. PICK m \in (IF Backdates THEN 1..now' ELSE {now'}) :
         src' = [src EXCEPT ![p] = [mod |-> m, upd |-> now']]
  BY DEF Put
<1>2. now \in Nat /\ now' = now + 1 /\ src \in Files
  BY DEF Put, IInv, TypeOK
<1>3. m \in Nat /\ (~Backdates => m = now')
  BY <1>1, <1>2, ImporterAssumption
<1>4. [mod |-> m, upd |-> now'] \in File
  BY <1>2, <1>3 DEF File
<1>5. src' \in Files /\ src'[p] = [mod |-> m, upd |-> now'] /\ \A q \in Paths : q # p => src'[q] = src[q]
  BY <1>1, <1>2, <1>4 DEF Files
<1>6. src'[p].upd = now' /\ (~Backdates => src'[p].mod = src'[p].upd)
  BY <1>3, <1>5
<1>7. UNCHANGED <<kind, entity, imp, rec, del, busy, tasks, db, history, faults>>
  BY DEF Put
<1> QED BY <1>2, <1>5, <1>6, <1>7, SourceChanges

\* A file goes.
LEMMA RemoveKeeps == ASSUME IInv, NEW p \in Paths, Remove(p)  PROVE IInv'
<1>1. src \in Files
  BY DEF IInv, TypeOK
<1>2. src' \in Files /\ src'[p] = NoFile /\ \A q \in Paths : q # p => src'[q] = src[q]
  BY <1>1, FileTypes DEF Remove, Files
<1> QED BY <1>2, SourceChanges DEF Remove

\* An operator asks for everything again: the cursor stays.
LEMMA RequestReimportKeeps == ASSUME IInv, RequestReimport  PROVE IInv'
<1>1. TypeOK'
  BY DEF RequestReimport, Fault, IInv, TypeOK, world, history
<1>2. ImportInv'
  BY DEF RequestReimport, IInv, ImportInv, Clock, Stamps, ImportPool, SnapshotIsRecent, GoneSince,
         ListedAreAccounted, WillPass, Accounted, Carries, NothingPassedOver, Passed,
         ImportWithdrawsGone, world, history
<1>3. DeleteInv'
  BY DeleteRests DEF RequestReimport, IInv
<1>4. RecordInv'
  BY RecordsRest DEF RequestReimport, IInv, history
<1> QED BY <1>1, <1>2, <1>3, <1>4 DEF IInv

\* A message is handled: the record is what was published.
LEMMA DeliverKeeps == ASSUME IInv, NEW t \in tasks, NEW acked \in BOOLEAN, Deliver(t, acked)  PROVE IInv'
<1> DEFINE i == IdOf[t.path]
<1>1. t \in Task /\ t.path \in Paths /\ t.mod \in Nat /\ i \in Ids /\ db \in [Ids -> Entity]
  BY ImporterAssumption DEF IInv, TypeOK, Task
<1>2. tasks' \subseteq tasks /\ faults' \in Nat
  BY DEF Deliver, Fault, IInv, TypeOK
<1>3. /\ db' \in [Ids -> Entity]
      /\ \A k \in Ids : \/ db'[k].path = db[k].path /\ db'[k].mod = db[k].mod
                        \/ k = i /\ db'[k].path = t.path /\ db'[k].mod = t.mod
  <2>1. CASE ~t.withdraw
    <3>1. [path |-> t.path, mod |-> t.mod, withdrawn |-> FALSE] \in Entity
      BY <1>1 DEF Entity
    <3>2. db' = [db EXCEPT ![i] = [path |-> t.path, mod |-> t.mod, withdrawn |-> FALSE]]
      BY <2>1 DEF Deliver
    <3> QED BY <3>1, <3>2, <1>1
  <2>2. CASE t.withdraw /\ db[i].path # t.path
    BY <2>2 DEF Deliver, IInv, TypeOK
  <2>3. CASE t.withdraw /\ db[i].path = t.path
    <3>1. db' = [db EXCEPT ![i] = [db[i] EXCEPT !.withdrawn = TRUE]]
      BY <2>3 DEF Deliver
    <3>2. db[i] \in Entity
      BY <1>1
    <3>3. LET e == [db[i] EXCEPT !.withdrawn = TRUE]
          IN  e \in Entity /\ e.path = db[i].path /\ e.mod = db[i].mod
      BY <3>2 DEF Entity
    <3> QED BY <3>1, <3>3, <1>1
  <2> QED BY <2>1, <2>2, <2>3
<1>4. UNCHANGED <<world, entity, imp, rec, del, busy, history>>
  BY DEF Deliver
<1>5. TypeOK'
  BY <1>2, <1>3, <1>4 DEF IInv, TypeOK, world, entity, history
<1>6. \A k \in Ids : sent[k] <= sent'[k]
  BY <1>4 DEF IInv, TypeOK, history
<1>7. ImportInv'
  BY <1>4, <1>5, <1>6, ImportRests DEF IInv, history
<1>8. DeleteInv'
  BY <1>4, DeleteRests DEF IInv
<1>9. RecordInv'
  BY <1>1, <1>2, <1>3, <1>4 DEF IInv, RecordInv, history
<1> QED BY <1>5, <1>7, <1>8, <1>9 DEF IInv

\* A message is dropped: nothing but the messages in flight changes.
LEMMA DeadLetterKeeps == ASSUME IInv, NEW t \in tasks, DeadLetter(t)  PROVE IInv'
<1>1. tasks' \subseteq tasks /\ faults' \in Nat
  BY DEF DeadLetter, Fault, IInv, TypeOK
<1>2. UNCHANGED <<world, entity, imp, rec, del, busy, db, history>>
  BY DEF DeadLetter
<1>3. TypeOK'
  BY <1>1, <1>2 DEF IInv, TypeOK, world, entity, history
<1>4. \A k \in Ids : sent[k] <= sent'[k]
  BY <1>2 DEF IInv, TypeOK, history
<1>5. ImportInv'
  BY <1>2, <1>3, <1>4, ImportRests DEF IInv, history
<1>6. DeleteInv'
  BY <1>2, DeleteRests DEF IInv
<1>7. RecordInv'
  BY <1>1, <1>2 DEF IInv, RecordInv, history
<1> QED BY <1>3, <1>5, <1>6, <1>7 DEF IInv

-----------------------------------------------------------------------------
(* The pools *)

\* Nothing but the items of one pool moves; none of them is lost.
LEMMA PoolMoves ==
  ASSUME IInv, NEW j \in AllJobs, NEW x \in busy[j], NEW next \in SUBSET Item,
         Leaves(j, x, next), TypeOK',
         UNCHANGED <<world, entity, imp, rec, del, db>>,
         \A i \in Ids : sent[i] <= sent'[i], lost \subseteq lost',
         \A y \in next : y.path = x.path /\ y.act = x.act /\ y.upd = x.upd,
         j = "import" =>
           \A p \in Paths : src[p] # NoFile /\ Carries(x, p) => StillAccounted(p)
  PROVE  ImportInv' /\ DeleteInv'
<1>1. /\ busy'[j] = (busy[j] \ {x}) \cup next
      /\ \A k \in AllJobs : k # j => busy'[k] = busy[k]
  BY LeavesTypes DEF IInv
<1>2. \A k \in AllJobs : \A y \in busy'[k] : \E z \in busy[k] :
         y.path = z.path /\ y.act = z.act /\ y.upd = z.upd
  BY <1>1
<1>3. DeleteInv'
  BY <1>2, DeleteRests DEF IInv, AllJobs
<1>4. \A p \in Paths : \A z \in busy["import"] :
         src[p] # NoFile /\ Carries(z, p) => StillAccounted(p)
  <2> SUFFICES ASSUME NEW p \in Paths, NEW z \in busy["import"], src[p] # NoFile, Carries(z, p)
               PROVE  StillAccounted(p)
    OBVIOUS
  <2>1. CASE j = "import" /\ z = x
    BY <2>1
  <2>2. CASE ~(j = "import" /\ z = x)
    BY <2>2, <1>1 DEF StillAccounted, AllJobs
  <2> QED BY <2>1, <2>2
<1>5. ImportInv'
  BY <1>2, <1>4, ItemsMove DEF IInv, AllJobs
<1> QED BY <1>3, <1>5

\* What an import's item of an unchanged file reads is that file.
LEMMA ReadsTheFile ==
  ASSUME IInv, NEW x \in busy["import"], NEW p \in Paths, src[p] # NoFile, Carries(x, p)
  PROVE  Content("import", x.path) = src[p]
<1>1. CASE kind # "git"
  BY <1>1 DEF Content, Carries
<1>2. CASE kind = "git"
  <2>1. x.upd = imp.snap[p].upd /\ x.upd = src[p].upd
    BY <1>2 DEF IInv, ImportInv, ImportPool, Carries
  <2>2. imp.snap[p] = src[p]
    BY <2>1 DEF IInv, ImportInv, Stamps
  <2> QED BY <1>2, <2>2 DEF Content, Carries
<1> QED BY <1>1, <1>2

\* An item reads its file.
LEMMA OpenKeeps == ASSUME IInv, NEW j \in AllJobs, NEW x \in busy[j], Open(j, x)  PROVE IInv'
<1> DEFINE file == Content(j, x.path)
           pc == IF x.compare THEN "compare" ELSE "send"
           y == [x EXCEPT !.pc = pc, !.mod = file.mod]
           next == IF file = NoFile THEN {} ELSE {y}
<1>1. x \in Item /\ x.path \in Paths
  BY DEF IInv, TypeOK, Item
<1>2. file \in File /\ file.mod \in Nat
  BY <1>1, ContentTypes DEF IInv
<1>3. y \in Item /\ y.path = x.path /\ y.act = x.act /\ y.upd = x.upd /\ y.mod = file.mod
  <2>1. pc \in {"open", "compare", "send"}
    OBVIOUS
  <2> HIDE DEF pc, file
  <2> QED BY <1>1, <1>2, <2>1, ReadItemTypes
<1>4. next \in SUBSET Item
  BY <1>3
<1>5. Leaves(j, x, next) /\ UNCHANGED <<world, entity, imp, rec, del, tasks, db, history, faults>>
  BY DEF Open
<1>6. /\ busy' \in [AllJobs -> SUBSET Item]
      /\ busy'[j] = (busy[j] \ {x}) \cup next
  BY <1>4, <1>5, LeavesTypes DEF IInv
<1>7. TypeOK'
  BY <1>5, <1>6 DEF IInv, TypeOK, world, entity, history
<1>8. ASSUME j = "import", NEW p \in Paths, src[p] # NoFile, Carries(x, p)
      PROVE  StillAccounted(p)
  <2>1. file = src[p]
    BY <1>8, ReadsTheFile
  <2>2. y \in busy'["import"] /\ y.mod = src[p].mod
    BY <1>3, <1>6, <1>8, <2>1
  <2>3. Carries(y, p)
    BY <1>3, <1>8, <2>2 DEF Carries
  <2> QED BY <2>2, <2>3 DEF StillAccounted
<1>9. \A i \in Ids : sent[i] <= sent'[i]
  BY <1>5 DEF IInv, TypeOK, history
<1>10. \A z \in next : z.path = x.path /\ z.act = x.act /\ z.upd = x.upd
  BY <1>3
<1>11. ImportInv' /\ DeleteInv'
  BY <1>4, <1>5, <1>7, <1>8, <1>9, <1>10, PoolMoves DEF history
<1>12. RecordInv'
  BY <1>5, RecordsRest DEF IInv, history
<1> QED BY <1>7, <1>11, <1>12 DEF IInv

\* An item is skipped only for a record that was published.
LEMMA CompareKeeps == ASSUME IInv, NEW j \in AllJobs, NEW x \in busy[j], Compare(j, x)  PROVE IInv'
<1> DEFINE known == db[IdOf[x.path]].mod
           y == [x EXCEPT !.pc = "send"]
           next == IF UpToDate(x, known) THEN {} ELSE {y}
<1>1. x \in Item /\ x.path \in Paths /\ x.pc = "compare" /\ IdOf[x.path] \in Ids
  BY ImporterAssumption DEF IInv, TypeOK, Item, Compare
<1>2. y \in Item /\ y.path = x.path /\ y.act = x.act /\ y.upd = x.upd /\ y.mod = x.mod
  BY <1>1, NextItemTypes
<1>3. next \in SUBSET Item
  BY <1>2
<1>4. Leaves(j, x, next) /\ UNCHANGED <<world, entity, imp, rec, del, tasks, db, history, faults>>
  BY DEF Compare
<1>5. /\ busy' \in [AllJobs -> SUBSET Item]
      /\ busy'[j] = (busy[j] \ {x}) \cup next
  BY <1>3, <1>4, LeavesTypes DEF IInv
<1>6. TypeOK'
  BY <1>4, <1>5 DEF IInv, TypeOK, world, entity, history
<1>7. ASSUME j = "import", NEW p \in Paths, src[p] # NoFile, Carries(x, p)
      PROVE  StillAccounted(p)
  <2>1. x.path = p /\ x.act = "import" /\ x.upd = src[p].upd /\ x.mod = src[p].mod
    BY <1>1, <1>7 DEF Carries
  <2>2. CASE UpToDate(x, known)
    <3>1. x.mod <= known
      BY <2>1, <2>2 DEF UpToDate
    <3>2. known <= sent[IdOf[p]]
      BY <1>1, <2>1 DEF IInv, RecordInv
    <3>3. x.mod \in Nat /\ known \in Nat /\ sent[IdOf[p]] \in Nat
      BY <1>1, <2>1 DEF IInv, TypeOK, Item, Entity
    <3> QED BY <2>1, <3>1, <3>2, <3>3, <1>4 DEF StillAccounted, history
  <2>3. CASE ~UpToDate(x, known)
    <3>1. y \in busy'["import"]
      BY <1>5, <1>7, <2>3
    <3>2. Carries(y, p)
      BY <1>2, <2>1 DEF Carries
    <3> QED BY <3>1, <3>2 DEF StillAccounted
  <2> QED BY <2>2, <2>3
<1>8. \A i \in Ids : sent[i] <= sent'[i]
  BY <1>4 DEF IInv, TypeOK, history
<1>9. \A z \in next : z.path = x.path /\ z.act = x.act /\ z.upd = x.upd
  BY <1>2
<1>10. ImportInv' /\ DeleteInv'
  BY <1>3, <1>4, <1>6, <1>7, <1>8, <1>9, PoolMoves DEF history
<1>11. RecordInv'
  BY <1>4, RecordsRest DEF IInv, history
<1> QED BY <1>6, <1>10, <1>11 DEF IInv

\* An item is published.
LEMMA SendKeeps == ASSUME IInv, NEW j \in AllJobs, NEW x \in busy[j], Send(j, x)  PROVE IInv'
<1> DEFINE i == IdOf[x.path]
           t == [path |-> x.path, mod |-> x.mod, withdraw |-> x.act = "withdraw"]
<1>1. /\ x \in Item /\ x.path \in Paths /\ x.mod \in Nat /\ x.pc = "send" /\ i \in Ids
      /\ sent \in [Ids -> Nat]
  BY ImporterAssumption DEF IInv, TypeOK, Item, Send
<1>2. Leaves(j, x, {}) /\ UNCHANGED <<world, entity, imp, rec, del, db, lost, faults>>
  BY DEF Send
<1>3. busy' \in [AllJobs -> SUBSET Item]
  BY <1>2, LeavesTypes DEF IInv
<1>4. tasks' = tasks \cup {t} /\ t \in Task /\ t.path = x.path /\ t.mod = x.mod
  BY <1>1 DEF Send, Task
<1>5. /\ sent' \in [Ids -> Nat] /\ sent'[i] >= x.mod
      /\ \A k \in Ids : sent[k] <= sent'[k]
  <2>1. CASE x.mod > sent[i]
    BY <1>1, <2>1 DEF Send
  <2>2. CASE ~(x.mod > sent[i])
    BY <1>1, <2>2 DEF Send
  <2> QED BY <2>1, <2>2
<1>6. TypeOK'
  BY <1>2, <1>3, <1>4, <1>5 DEF IInv, TypeOK, world, entity
<1>7. ASSUME j = "import", NEW p \in Paths, src[p] # NoFile, Carries(x, p)
      PROVE  StillAccounted(p)
  BY <1>1, <1>5, <1>7 DEF Carries, StillAccounted
<1>8. ImportInv' /\ DeleteInv'
  BY <1>2, <1>5, <1>6, <1>7, PoolMoves
<1>9. RecordInv'
  <2>1. \A k \in Ids : db'[k].mod <= sent'[k]
    <3>1. \A k \in Ids : db[k].mod <= sent[k] /\ db[k].mod \in Nat /\ sent[k] \in Nat /\ sent'[k] \in Nat
      BY <1>1, <1>5 DEF IInv, RecordInv, TypeOK, Entity
    <3> QED BY <3>1, <1>2, <1>5
  <2>2. \A u \in tasks' : u.mod <= sent'[IdOf[u.path]]
    <3>1. \A u \in tasks : u.mod <= sent[IdOf[u.path]] /\ u.mod \in Nat /\ IdOf[u.path] \in Ids
      BY ImporterAssumption DEF IInv, RecordInv, TypeOK, Task
    <3>2. \A u \in tasks : u.mod <= sent'[IdOf[u.path]]
      BY <3>1, <1>1, <1>5
    <3> QED BY <3>2, <1>4, <1>5, <1>1
  <2> QED BY <2>1, <2>2, <1>2 DEF IInv, RecordInv
<1> QED BY <1>6, <1>8, <1>9 DEF IInv

\* An item of the import that fails is remembered as lost.
LEMMA ItemFailsKeeps == ASSUME IInv, NEW j \in AllJobs, NEW x \in busy[j], ItemFails(j, x)  PROVE IInv'
<1>1. x \in Item /\ x.path \in Paths /\ x.upd \in Nat
  BY DEF IInv, TypeOK, Item
<1>2. Leaves(j, x, {}) /\ UNCHANGED <<world, entity, imp, rec, del, tasks, db, sent>>
  BY DEF ItemFails
<1>3. busy' \in [AllJobs -> SUBSET Item]
  BY <1>2, LeavesTypes DEF IInv
<1>4. lost \subseteq lost' /\ (j = "import" => <<x.path, x.upd>> \in lost')
  BY DEF ItemFails
<1>5. lost' \in SUBSET (Paths \X Nat) /\ faults' \in Nat
  BY <1>1 DEF ItemFails, Fault, IInv, TypeOK
<1>6. TypeOK'
  BY <1>2, <1>3, <1>5 DEF IInv, TypeOK, world, entity
<1>7. \A i \in Ids : sent[i] <= sent'[i]
  BY <1>2 DEF IInv, TypeOK
<1>8. ASSUME j = "import", NEW p \in Paths, src[p] # NoFile, Carries(x, p)
      PROVE  StillAccounted(p)
  BY <1>4, <1>8 DEF Carries, StillAccounted
<1>9. ImportInv' /\ DeleteInv'
  BY <1>2, <1>4, <1>6, <1>7, <1>8, PoolMoves
<1>10. RecordInv'
  BY <1>2, RecordsRest DEF IInv
<1> QED BY <1>6, <1>9, <1>10 DEF IInv

-----------------------------------------------------------------------------
(* The import's lister *)

\* Steps of the lister before it lists, and those that end it.
LEMMA ListerRests ==
  ASSUME IInv, imp' \in ImportLister, UNCHANGED <<world, entity, rec, del, busy, tasks, db, history>>,
         faults' \in Nat, imp'.start <= now, imp'.pc # "list",
         imp'.start = imp.start \/ busy["import"] = {},
         imp'.snap = imp.snap \/ (busy["import"] = {} /\ imp'.snap = NoFiles),
         imp'.pc \in {"idle", "head", "fetch"} => busy["import"] = {},
         imp'.pc \in {"head", "fetch"} => imp'.left = Paths
  PROVE  IInv'
<1>1. TypeOK'
  BY DEF IInv, TypeOK, world, entity, history
<1>2. /\ now \in Nat /\ \A p \in Paths : src[p].upd \in Nat
      /\ \A p \in Paths : NoFiles[p] = NoFile /\ NoFile.upd = 0
  BY FileTypes DEF IInv, TypeOK, Files, File
<1>3. Clock'
  BY <1>2 DEF IInv, ImportInv, Clock, world, entity
<1>4. Stamps'
  <2>1. ASSUME NEW p \in Paths  PROVE src[p] # NoFile => src[p].upd # 0
    BY DEF IInv, ImportInv, Stamps
  <2> QED BY <1>2, <2>1 DEF IInv, ImportInv, Stamps, world
<1>5. ImportPool'
  BY DEF IInv, ImportInv, ImportPool, world
<1>6. SnapshotIsRecent' /\ ListedAreAccounted'
  BY DEF SnapshotIsRecent, ListedAreAccounted
<1>7. NothingPassedOver'
  BY DEF IInv, ImportInv, NothingPassedOver, Passed, Accounted, Carries, world, entity, history
<1>8. ImportWithdrawsGone'
  BY DEF IInv, ImportInv, ImportWithdrawsGone, GoneSince, world
<1>9. DeleteInv'
  BY DeleteRests DEF IInv
<1>10. RecordInv'
  BY RecordsRest DEF IInv, history
<1> QED BY <1>1, <1>3, <1>4, <1>5, <1>6, <1>7, <1>8, <1>9, <1>10 DEF IInv, ImportInv

\* The import starts with an empty pool.
LEMMA ImportStartsKeeps == ASSUME IInv, ImportStarts  PROVE IInv'
<1>1. kind \in {"git", "bucket", "REST"} /\ now \in Nat
  BY KindTypes DEF IInv, TypeOK
<1>2. PICK all \in BOOLEAN : imp' = [IdleImport EXCEPT
                   !.pc = IF kind = "bucket" THEN "list"
                          ELSE IF kind = "git" \/ all THEN "fetch" ELSE "head",
                   !.all = all, !.start = now, !.left = Paths]
  BY DEF ImportStarts
<1> DEFINE pc == IF kind = "bucket" THEN "list"
                 ELSE IF kind = "git" \/ all THEN "fetch" ELSE "head"
<1>3. pc \in {"list", "fetch", "head"} /\ (pc = "list" <=> kind = "bucket")
  <2>1. CASE kind = "bucket"
    BY <2>1
  <2>2. CASE kind # "bucket" /\ (kind = "git" \/ all)
    BY <2>2
  <2>3. CASE kind # "bucket" /\ ~(kind = "git" \/ all)
    BY <2>3
  <2> QED BY <2>1, <2>2, <2>3
<1>15. imp' = [IdleImport EXCEPT !.pc = pc, !.all = all, !.start = now, !.left = Paths]
  BY <1>2
<1> HIDE DEF pc
<1>4. /\ imp' \in ImportLister /\ imp'.pc = pc /\ imp'.start = now /\ imp'.left = Paths
      /\ imp'.snap = NoFiles
  BY <1>1, <1>3, <1>15, IdleTypes DEF ImportLister, IdleImport
<1>5. busy["import"] = {} /\ UNCHANGED <<world, entity, rec, del, busy, tasks, db, history, faults>>
  BY DEF ImportStarts, IInv, ImportInv, ImportPool
<1>6. TypeOK'
  BY <1>4, <1>5 DEF IInv, TypeOK, world, entity, history
<1>7. /\ \A p \in Paths : src[p].upd \in Nat
      /\ \A p \in Paths : NoFiles[p] = NoFile /\ NoFile.upd = 0
  BY FileTypes DEF IInv, TypeOK, Files, File
<1>8. Clock'
  BY <1>1, <1>4, <1>5, <1>7 DEF IInv, ImportInv, Clock, world, entity
<1>9. Stamps'
  <2>1. ASSUME NEW p \in Paths  PROVE src[p] # NoFile => src[p].upd # 0
    BY DEF IInv, ImportInv, Stamps
  <2> QED BY <1>4, <1>5, <1>7, <2>1 DEF IInv, ImportInv, Stamps, world
<1>10. ImportPool' /\ ImportWithdrawsGone'
  BY <1>5 DEF ImportPool, ImportWithdrawsGone
<1>11. SnapshotIsRecent' /\ ListedAreAccounted'
  BY <1>3, <1>4, <1>5 DEF SnapshotIsRecent, ListedAreAccounted, world
<1>12. NothingPassedOver'
  BY <1>5 DEF IInv, ImportInv, NothingPassedOver, Passed, Accounted, Carries, world, entity, history
<1>13. DeleteInv'
  BY <1>5, DeleteRests DEF IInv
<1>14. RecordInv'
  BY <1>5, RecordsRest DEF IInv, history
<1> QED BY <1>6, <1>8, <1>9, <1>10, <1>11, <1>12, <1>13, <1>14 DEF IInv, ImportInv

\* The HEAD request does not move the cursor.
LEMMA ImportHeadKeeps == ASSUME IInv, ImportHead  PROVE IInv'
<1>1. PICK head \in {0, now} :
        imp' = [imp EXCEPT !.head = head,
                           !.pc = IF head # 0 /\ head <= cursor THEN "drain" ELSE "fetch"]
  BY DEF ImportHead
<1> DEFINE pc == IF head # 0 /\ head <= cursor THEN "drain" ELSE "fetch"
<1>2. now \in Nat /\ imp \in ImportLister /\ imp.pc = "head" /\ faults \in Nat
  BY DEF ImportHead, IInv, TypeOK
<1>3. pc \in {"drain", "fetch"} /\ imp' = [imp EXCEPT !.head = head, !.pc = pc] /\ head \in Nat
  BY <1>1, <1>2
<1> HIDE DEF pc
<1>4. /\ imp' \in ImportLister /\ imp'.pc \in {"drain", "fetch"}
      /\ imp'.start = imp.start /\ imp'.snap = imp.snap /\ imp'.left = imp.left
  BY <1>2, <1>3 DEF ImportLister
<1>5. busy["import"] = {} /\ imp.start <= now /\ imp.left = Paths
  BY <1>2 DEF IInv, ImportInv, ImportPool, Clock, ListedAreAccounted
<1>6. UNCHANGED <<world, entity, rec, del, busy, tasks, db, history, faults>>
  BY DEF ImportHead
<1> QED BY <1>2, <1>4, <1>5, <1>6, ListerRests

\* A failure of the lister does not move the cursor.
LEMMA ImportFailsKeeps == ASSUME IInv, ImportFails  PROVE IInv'
<1>1. imp \in ImportLister /\ imp.start <= now
  BY DEF IInv, TypeOK, ImportInv, Clock
<1>2. imp' \in ImportLister /\ imp'.pc = "drain" /\ imp'.start = imp.start /\ imp'.snap = imp.snap
  BY <1>1 DEF ImportFails, ImportLister
<1>3. faults' \in Nat /\ UNCHANGED <<world, entity, rec, del, busy, tasks, db, history>>
  BY DEF ImportFails, Fault, IInv, TypeOK
<1> QED BY <1>1, <1>2, <1>3, ListerRests

\* The import ends when its pool is empty.
LEMMA ImportExitsKeeps == ASSUME IInv, ImportExits  PROVE IInv'
<1>1. /\ imp' \in ImportLister /\ imp'.pc = "idle" /\ imp'.start = 0 /\ imp'.snap = NoFiles
      /\ now \in Nat /\ faults \in Nat
  BY IdleTypes DEF ImportExits, IdleImport, IInv, TypeOK
<1>2. busy["import"] = {} /\ UNCHANGED <<world, entity, rec, del, busy, tasks, db, history, faults>>
  BY DEF ImportExits
<1> QED BY <1>1, <1>2, ListerRests

\* A snapshot shows the source as it is then.
LEMMA ImportFetchesKeeps == ASSUME IInv, ImportFetches  PROVE IInv'
<1>1. imp \in ImportLister /\ src \in Files /\ imp.pc = "fetch"
  BY DEF ImportFetches, IInv, TypeOK
<1>2. /\ imp' \in ImportLister /\ imp'.pc = "list" /\ imp'.start = imp.start /\ imp'.left = imp.left
      /\ imp'.snap = src
  BY <1>1 DEF ImportFetches, ImportLister
<1>3. busy["import"] = {} /\ UNCHANGED <<world, entity, rec, del, busy, tasks, db, history, faults>>
  BY <1>1 DEF ImportFetches, IInv, ImportInv, ImportPool
<1>4. TypeOK'
  BY <1>2, <1>3 DEF IInv, TypeOK, world, entity, history
<1>5. Clock' /\ Stamps' /\ ImportPool' /\ SnapshotIsRecent' /\ ImportWithdrawsGone'
  BY <1>2, <1>3 DEF IInv, ImportInv, Clock, Stamps, ImportPool, SnapshotIsRecent,
                    ImportWithdrawsGone, world, entity
<1>6. NothingPassedOver'
  BY <1>3 DEF IInv, ImportInv, NothingPassedOver, Passed, Accounted, Carries, world, entity, history
<1>7. ListedAreAccounted'
  BY <1>1, <1>2 DEF IInv, ImportInv, ListedAreAccounted
<1>8. DeleteInv'
  BY <1>3, DeleteRests DEF IInv
<1>9. RecordInv'
  BY <1>3, RecordsRest DEF IInv, history
<1> QED BY <1>4, <1>5, <1>6, <1>7, <1>8, <1>9 DEF IInv, ImportInv

\* A listed file is wanted, or the cursor had passed it before.
LEMMA ImportListsKeeps == ASSUME IInv, NEW p \in Paths, ImportLists(p)  PROVE IInv'
<1> DEFINE f == Listed(p)
           act == IF f = NoFile THEN "withdraw" ELSE "import"
<1>1. /\ kind \in {"git", "bucket", "REST"} /\ imp \in ImportLister /\ imp.pc = "list"
      /\ cursor \in Nat /\ imp.start \in Nat
  BY KindTypes DEF ImportLists, IInv, TypeOK, ImportLister
<1>2. /\ imp' \in ImportLister /\ imp'.pc = "list" /\ imp'.left = imp.left \ {p}
      /\ imp'.start = imp.start /\ imp'.snap = imp.snap
  BY <1>1 DEF ImportLists, ImportLister
<1>3. UNCHANGED <<world, entity, rec, del, tasks, db, history, faults>>
  BY DEF ImportLists
<1>4. /\ src[p] \in File /\ imp.snap[p] \in File /\ f \in File
      /\ f.upd \in Nat /\ src[p].upd \in Nat /\ src[p].mod \in Nat
  BY DEF Listed, IInv, TypeOK, Files, File, ImportLister
<1>5. WillPass(p) => f = src[p]
  <2>1. CASE kind = "bucket"
    BY <2>1 DEF Listed
  <2>2. CASE kind = "git"
    BY <2>2 DEF Listed, WillPass
  <2>3. CASE kind = "REST"
    BY <1>1, <1>4, <2>3 DEF Listed, WillPass, IInv, ImportInv, SnapshotIsRecent, GoneSince
  <2> QED BY <1>1, <2>1, <2>2, <2>3
<1>6. PICK x \in Item :
         /\ x.path = p /\ x.act = act /\ x.upd = f.upd /\ (act = "import" => x.pc = "open")
         /\ Wanted(p) => Hand("import", x)
  <2> DEFINE compare == kind # "git" /\ ~imp.all
  <2>1. act \in {"import", "withdraw"} /\ compare \in BOOLEAN
    OBVIOUS
  <2>2. Wanted(p) => Hand("import", NewItem(p, act, compare, f.upd))
    BY DEF ImportLists
  <2> HIDE DEF act, f, compare
  <2>3. /\ NewItem(p, act, compare, f.upd) \in Item
        /\ NewItem(p, act, compare, f.upd).path = p
        /\ NewItem(p, act, compare, f.upd).act = act
        /\ NewItem(p, act, compare, f.upd).upd = f.upd
        /\ act # "withdraw" => NewItem(p, act, compare, f.upd).pc = "open"
    BY <1>4, <2>1, NewItemTypes
  <2> QED BY <2>2, <2>3
<1>18. /\ busy' \in [AllJobs -> SUBSET Item]
       /\ busy["import"] \subseteq busy'["import"] /\ busy'["delete"] = busy["delete"]
       /\ \A y \in busy'["import"] : y \in busy["import"] \/ (Wanted(p) /\ y = x)
       /\ Wanted(p) => x \in busy'["import"]
  <2>1. CASE Wanted(p)
    <3>1. /\ busy' \in [AllJobs -> SUBSET Item]
          /\ busy'["import"] = busy["import"] \cup {x} /\ busy'["delete"] = busy["delete"]
      BY <1>6, <2>1, HandTypes DEF IInv, AllJobs
    <3> QED BY <2>1, <3>1
  <2>2. CASE ~Wanted(p)
    <3>1. busy' = busy
      BY <2>2 DEF ImportLists
    <3> QED BY <2>2, <3>1 DEF IInv, TypeOK
  <2> QED BY <2>1, <2>2
<1>7. TypeOK'
  BY <1>2, <1>3, <1>6, <1>18 DEF IInv, TypeOK, world, entity, history
<1>8. Clock' /\ Stamps'
  BY <1>2, <1>3 DEF IInv, ImportInv, Clock, Stamps, world, entity
<1>9. ImportPool'
  <2>1. kind = "git" => f = imp.snap[p]
    BY DEF Listed
  <2> QED BY <1>1, <1>2, <1>3, <1>6, <1>18, <2>1 DEF IInv, ImportInv, ImportPool, world
<1>10. SnapshotIsRecent'
  BY <1>1, <1>2, <1>3 DEF IInv, ImportInv, SnapshotIsRecent, GoneSince, world
<1>11. \A q \in Paths : Accounted(q) => Accounted(q)'
  BY <1>3, <1>6, <1>18 DEF Accounted, Carries, world, history
<1>12. NothingPassedOver'
  BY <1>3, <1>11 DEF IInv, ImportInv, NothingPassedOver, Passed, world, entity
<1>13. WillPass(p) => Accounted(p)'
  <2> SUFFICES ASSUME WillPass(p)  PROVE Accounted(p)'
    OBVIOUS
  <2>1. f = src[p] /\ f # NoFile
    BY <1>5 DEF WillPass
  <2>2. CASE Wanted(p)
    <3>1. x \in busy'["import"] /\ x.path = p /\ x.act = "import"
          /\ x.upd = src[p].upd /\ x.pc = "open"
      BY <1>6, <1>18, <2>1, <2>2
    <3>2. Carries(x, p)'
      BY <1>3, <3>1 DEF Carries, world
    <3> QED BY <3>1, <3>2 DEF Accounted
  <2>3. CASE ~Wanted(p)
    <3>1. Passed(p)
      <4>1. CASE kind = "git"
        BY <2>1, <2>3, <4>1 DEF Wanted, Listed, WillPass, Passed
      <4>2. CASE kind = "bucket"
        BY <1>1, <1>4, <2>1, <2>3, <4>2 DEF Wanted, WillPass, Passed
      <4>3. CASE kind = "REST"
        <5>1. src[p].mod = src[p].upd
          BY <4>3, <2>1 DEF WillPass, IInv, ImportInv, Stamps
        <5> QED BY <1>1, <1>4, <2>1, <2>3, <4>3, <5>1 DEF Wanted, WillPass, Passed
      <4> QED BY <1>1, <4>1, <4>2, <4>3
    <3> QED BY <3>1, <1>11 DEF IInv, ImportInv, NothingPassedOver
  <2> QED BY <2>2, <2>3
<1>14. ListedAreAccounted'
  <2>1. \A q \in Paths : WillPass(q)' => WillPass(q)
    BY <1>2, <1>3 DEF WillPass, world
  <2> QED BY <1>1, <1>2, <1>11, <1>13, <2>1 DEF IInv, ImportInv, ListedAreAccounted
<1>15. ImportWithdrawsGone'
  <2>1. Wanted(p) /\ x.act = "withdraw" => GoneSince(p, imp.start)
    BY <1>1, <1>6, <1>18 DEF Wanted, Listed, IInv, ImportInv, SnapshotIsRecent, GoneSince
  <2> QED BY <1>2, <1>3, <1>6, <1>18, <2>1 DEF IInv, ImportInv, ImportWithdrawsGone, GoneSince, world
<1>16. DeleteInv'
  BY <1>3, <1>6, <1>18, DeleteRests DEF IInv
<1>17. RecordInv'
  BY <1>3, RecordsRest DEF IInv, history
<1> QED BY <1>7, <1>8, <1>9, <1>10, <1>12, <1>14, <1>15, <1>16, <1>17 DEF IInv, ImportInv

\* The time a REST run ends with is not after the time it began.
LEMMA EarlierIsEarlier ==
  ASSUME NEW a \in Nat, NEW b \in Nat  PROVE Earlier(a, b) \in Nat /\ Earlier(a, b) <= a
BY DEF Earlier

\* The cursor passes only files that were listed, as they were.
LEMMA ImportEndsKeeps == ASSUME IInv, ImportEnds  PROVE IInv'
<1>1. /\ kind \in {"git", "bucket", "REST"} /\ imp \in ImportLister /\ imp.pc = "list" /\ imp.left = {}
      /\ now \in Nat /\ cursor \in Nat /\ imp.start \in Nat /\ imp.head \in Nat /\ imp.snap \in Files
  BY KindTypes DEF ImportEnds, IInv, TypeOK, ImportLister
<1>2. /\ imp' \in ImportLister /\ imp'.pc = "drain" /\ imp'.start = imp.start /\ imp'.snap = imp.snap
  BY <1>1 DEF ImportEnds, ImportLister
<1>3. UNCHANGED <<world, rec, del, busy, tasks, db, history, faults>>
  BY DEF ImportEnds
<1>4. \/ kind = "git" /\ synced' = imp.snap /\ UNCHANGED <<cursor, ignore>>
      \/ kind # "git" /\ cursor' \in Nat /\ cursor' <= imp.start /\ ignore' = FALSE /\ UNCHANGED synced
  <2>1. CASE kind = "git" \/ kind = "bucket"
    BY <1>1, <2>1 DEF ImportEnds
  <2>2. CASE kind = "REST"
    <3>1. PICK last \in {0} \cup {imp.snap[p].mod : p \in Paths} :
             cursor' = Earlier(Earlier(imp.start, last), imp.head)
      BY <1>1, <2>2 DEF ImportEnds
    <3>2. last \in Nat
      BY <1>1, <3>1 DEF Files, File
    <3>3. Earlier(imp.start, last) \in Nat /\ Earlier(imp.start, last) <= imp.start
      BY <1>1, <3>2, EarlierIsEarlier
    <3>4. cursor' \in Nat /\ cursor' <= Earlier(imp.start, last)
      BY <1>1, <3>1, <3>3, EarlierIsEarlier
    <3>5. cursor' <= imp.start
      BY <1>1, <3>3, <3>4
    <3> QED BY <1>1, <2>2, <3>4, <3>5 DEF ImportEnds
  <2> QED BY <1>1, <2>1, <2>2
<1>5. imp.start <= now /\ cursor <= now
  BY DEF IInv, ImportInv, Clock
<1>6. TypeOK'
  <2>1. cursor' \in Nat /\ synced' \in Files /\ ignore' \in BOOLEAN
    BY <1>1, <1>4 DEF IInv, TypeOK
  <2> QED BY <1>2, <1>3, <2>1 DEF IInv, TypeOK, world, history
<1>7. Clock'
  <2>1. cursor' <= now
    BY <1>1, <1>4, <1>5
  <2> QED BY <1>2, <1>3, <1>4, <1>5, <2>1 DEF IInv, ImportInv, Clock, world
<1>8. Stamps' /\ ImportPool' /\ SnapshotIsRecent' /\ ListedAreAccounted' /\ ImportWithdrawsGone'
  BY <1>2, <1>3 DEF IInv, ImportInv, Stamps, ImportPool, SnapshotIsRecent, ListedAreAccounted,
                    ImportWithdrawsGone, GoneSince, world
<1>9. NothingPassedOver'
  <2> SUFFICES ASSUME NEW p \in Paths, Passed(p)'  PROVE Accounted(p)'
    BY DEF NothingPassedOver
  <2>1. src[p].upd \in Nat
    BY DEF IInv, TypeOK, Files, File
  <2>2. WillPass(p)
    BY <1>1, <1>3, <1>4, <2>1 DEF Passed, WillPass, world
  <2>3. Accounted(p)
    BY <1>1, <2>2 DEF IInv, ImportInv, ListedAreAccounted
  <2> QED BY <1>3, <2>3 DEF Accounted, Carries, world, history
<1>10. DeleteInv'
  BY <1>3, DeleteRests DEF IInv
<1>11. RecordInv'
  BY <1>3, RecordsRest DEF IInv, history
<1> QED BY <1>6, <1>7, <1>8, <1>9, <1>10, <1>11 DEF IInv, ImportInv

-----------------------------------------------------------------------------
(* The reconciler's lister *)

\* Steps of the reconciler: only its own pool gains items.
LEMMA ReconcilerMoves ==
  ASSUME IInv, rec' \in ReconcileLister, faults' \in Nat,
         busy' \in [AllJobs -> SUBSET Item],
         busy'["import"] = busy["import"], busy'["delete"] = busy["delete"],
         UNCHANGED <<world, entity, imp, del, tasks, db, history>>
  PROVE  IInv'
<1>1. TypeOK'
  BY DEF IInv, TypeOK, world, entity, history
<1>2. \A i \in Ids : sent[i] <= sent'[i]
  BY DEF IInv, TypeOK, history
<1>3. ImportInv'
  BY <1>1, <1>2, ImportRests DEF IInv, history
<1>4. DeleteInv'
  BY DeleteRests DEF IInv
<1>5. RecordInv'
  BY RecordsRest DEF IInv, history
<1> QED BY <1>1, <1>3, <1>4, <1>5 DEF IInv

\* The reconciler touches nothing the invariant is about, step by step.
LEMMA ReconcileStartsKeeps == ASSUME IInv, ReconcileStarts  PROVE IInv'
<1> DEFINE pc == IF kind = "git" THEN "fetch" ELSE "query"
<1>1. pc \in {"fetch", "query"} /\ rec' = [IdleReconcile EXCEPT !.pc = pc, !.left = Paths]
  BY DEF ReconcileStarts
<1> HIDE DEF pc
<1>2. rec' \in ReconcileLister
  BY <1>1, IdleTypes DEF ReconcileLister
<1> QED BY <1>2, ReconcilerMoves DEF ReconcileStarts, IInv, TypeOK

\* The records' times are times.
LEMMA ReconcileQueriesKeeps == ASSUME IInv, ReconcileQueries  PROVE IInv'
<1> DEFINE pc == IF kind = "REST" THEN "fetch" ELSE "list"
           known == [p \in Paths |-> IF db[IdOf[p]].path = p THEN db[IdOf[p]].mod ELSE 0]
<1>1. \A p \in Paths : db[IdOf[p]].mod \in Nat
  BY ImporterAssumption DEF IInv, TypeOK, Entity
<1>2. known \in [Paths -> Nat] /\ pc \in {"fetch", "list"}
  BY <1>1
<1>3. rec' = [rec EXCEPT !.pc = pc, !.known = known]
  BY DEF ReconcileQueries
<1> HIDE DEF pc, known
<1>4. rec' \in ReconcileLister
  BY <1>2, <1>3 DEF ReconcileLister, IInv, TypeOK
<1> QED BY <1>4, ReconcilerMoves DEF ReconcileQueries, IInv, TypeOK

\* The reconciler's snapshot is one of files.
LEMMA ReconcileFetchesKeeps == ASSUME IInv, ReconcileFetches  PROVE IInv'
<1> DEFINE pc == IF kind = "git" THEN "query" ELSE "list"
<1>1. pc \in {"query", "list"} /\ rec' = [rec EXCEPT !.pc = pc, !.snap = src]
  BY DEF ReconcileFetches
<1> HIDE DEF pc
<1>2. rec' \in ReconcileLister
  BY <1>1 DEF ReconcileLister, IInv, TypeOK
<1> QED BY <1>2, ReconcilerMoves DEF ReconcileFetches, IInv, TypeOK

\* The reconciler hands items to its own pool.
LEMMA ReconcileListsKeeps == ASSUME IInv, NEW p \in Paths, ReconcileLists(p)  PROVE IInv'
<1> DEFINE items == Checked(p, IF kind = "bucket" THEN src[p] ELSE rec.snap[p])
<1>1. /\ NewItem(p, "import", TRUE, 0) \in Item /\ NewItem(p, "import", FALSE, 0) \in Item
      /\ NewItem(p, "reconcile", TRUE, 0) \in Item
  BY NewItemTypes
<1>2. \A file : Checked(p, file) \subseteq Item
  BY <1>1 DEF Checked
<1>3. items \subseteq Item
  BY <1>2
<1>4. rec' \in ReconcileLister
  BY DEF ReconcileLists, ReconcileLister, IInv, TypeOK
<1>5. /\ busy' \in [AllJobs -> SUBSET Item]
      /\ busy'["import"] = busy["import"] /\ busy'["delete"] = busy["delete"]
  <2>1. CASE busy' = busy
    BY <2>1 DEF IInv, TypeOK
  <2>2. CASE \E x \in items : Hand("reconcile", x)
    <3> HIDE DEF items
    <3> QED BY <1>3, <2>2, HandTypes DEF IInv, AllJobs
  <2> QED BY <2>1, <2>2 DEF ReconcileLists
<1> QED BY <1>4, <1>5, ReconcilerMoves DEF ReconcileLists, IInv, TypeOK

\* A failure ends the reconciler's list.
LEMMA ReconcileFailsKeeps == ASSUME IInv, ReconcileFails  PROVE IInv'
<1>1. rec' \in ReconcileLister /\ faults' \in Nat
  BY DEF ReconcileFails, Fault, ReconcileLister, IInv, TypeOK
<1> QED BY <1>1, ReconcilerMoves DEF ReconcileFails, IInv, TypeOK

\* The reconciler ends.
LEMMA ReconcileExitsKeeps == ASSUME IInv, ReconcileExits  PROVE IInv'
BY IdleTypes, ReconcilerMoves DEF ReconcileExits, IInv, TypeOK

-----------------------------------------------------------------------------
(* The deleter's lister *)

\* Steps of the deleter: only its own pool gains items.
LEMMA DeleterMoves ==
  ASSUME IInv, del' \in DeleteLister, faults' \in Nat,
         busy' \in [AllJobs -> SUBSET Item], busy'["import"] = busy["import"],
         UNCHANGED <<world, entity, imp, rec, tasks, db, history>>,
         DeleteInv'
  PROVE  IInv'
<1>1. TypeOK'
  BY DEF IInv, TypeOK, world, entity, history
<1>2. \A i \in Ids : sent[i] <= sent'[i]
  BY DEF IInv, TypeOK, history
<1>3. ImportInv'
  BY <1>1, <1>2, ImportRests DEF IInv, history
<1>4. RecordInv'
  BY RecordsRest DEF IInv, history
<1> QED BY <1>1, <1>3, <1>4 DEF IInv

\* Steps of the deleter with an empty list of what is to be withdrawn.
LEMMA DeleterDrains ==
  ASSUME IInv, del' \in DeleteLister, faults' \in Nat,
         UNCHANGED <<world, entity, imp, rec, busy, tasks, db, history>>,
         \/ del'.pc = "drain" /\ del'.start = del.start
         \/ del'.pc = "idle" /\ del'.start = 0 /\ busy["delete"] = {}
  PROVE  IInv'
<1>1. DeleteInv'
  BY DEF IInv, TypeOK, DeleteInv, GoneSince, world
<1> QED BY <1>1, DeleterMoves DEF IInv, TypeOK

\* The deleter starts with an empty pool.
LEMMA DeleteStartsKeeps == ASSUME IInv, DeleteStarts  PROVE IInv'
<1>1. now \in Nat /\ faults \in Nat /\ busy \in [AllJobs -> SUBSET Item] /\ busy["delete"] = {}
  BY DEF DeleteStarts, IInv, TypeOK, DeleteInv
<1>2. /\ del' \in DeleteLister /\ del'.pc = "list" /\ del'.start = now /\ del'.left = Paths
  BY <1>1, IdleTypes DEF DeleteStarts, DeleteLister, IdleDelete
<1>3. UNCHANGED <<world, entity, imp, rec, busy, tasks, db, history, faults>>
  BY DEF DeleteStarts
<1>4. DeleteInv'
  BY <1>1, <1>2, <1>3 DEF DeleteInv, world
<1> QED BY <1>1, <1>2, <1>3, <1>4, DeleterMoves

\* A file that is not listed is not there.
LEMMA DeleteListsKeeps == ASSUME IInv, NEW ps \in SUBSET Paths, DeleteLists(ps)  PROVE IInv'
<1>1. /\ del \in DeleteLister /\ faults \in Nat /\ busy \in [AllJobs -> SUBSET Item]
      /\ del.pc = "list"
  BY DEF DeleteLists, IInv, TypeOK
<1>2. /\ del' \in DeleteLister /\ del'.pc = "list" /\ del'.start = del.start
      /\ del'.left = del.left \ ps /\ del'.listed = del.listed \cup {p \in ps : src[p] # NoFile}
  BY <1>1 DEF DeleteLists, DeleteLister
<1>3. UNCHANGED <<world, entity, imp, rec, busy, tasks, db, history, faults>>
  BY DEF DeleteLists
<1>4. DeleteInv'
  BY <1>1, <1>2, <1>3 DEF IInv, DeleteInv, GoneSince, world
<1> QED BY <1>1, <1>2, <1>3, <1>4, DeleterMoves

\* A record that is missing in a complete list has no file there.
LEMMA MissingIsGone ==
  ASSUME IInv, del.pc = "list", del.left = {}, NEW i \in Gone
  PROVE  db[i].path \in Paths /\ GoneSince(db[i].path, del.start)
<1>1. i \in Ids /\ db[i].mod # 0 /\ Missing(i)
  BY DEF Gone, Live
<1>2. db[i].path \in Paths /\ IdOf[db[i].path] = i
  BY <1>1 DEF IInv, RecordInv
<1>3. db[i].path \notin del.listed
  BY <1>1, <1>2 DEF Missing
<1> QED BY <1>2, <1>3 DEF IInv, DeleteInv

\* What a complete list lacks is handed over, or nothing is.
LEMMA DeleteQueriesKeeps == ASSUME IInv, DeleteQueries  PROVE IInv'
<1>1. /\ del \in DeleteLister /\ faults \in Nat /\ busy \in [AllJobs -> SUBSET Item]
      /\ del.pc = "list" /\ del.left = {}
  BY DEF DeleteQueries, IInv, TypeOK
<1>2. UNCHANGED <<world, entity, imp, rec, busy, tasks, db, history, faults>>
  BY DEF DeleteQueries
<1>3. CASE del' = [del EXCEPT !.pc = "drain"]
  <2>1. del' \in DeleteLister /\ del'.pc = "drain" /\ del'.start = del.start
    BY <1>1, <1>3 DEF DeleteLister
  <2> QED BY <1>1, <1>2, <2>1, DeleterDrains
<1>4. CASE del' = [del EXCEPT !.pc = "hand", !.left = {db[i].path : i \in Gone}]
  <2>1. PICK left : left = {db[i].path : i \in Gone}
    OBVIOUS
  <2>2. \A p \in left : p \in Paths /\ GoneSince(p, del.start)
    BY <1>1, <2>1, MissingIsGone
  <2>3. /\ del' \in DeleteLister /\ del'.pc = "hand" /\ del'.start = del.start /\ del'.left = left
    <3>1. del' = [del EXCEPT !.pc = "hand", !.left = left]
      BY <1>4, <2>1
    <3> QED BY <1>1, <2>2, <3>1 DEF DeleteLister
  <2>4. DeleteInv'
    BY <1>1, <1>2, <2>2, <2>3 DEF IInv, DeleteInv, GoneSince, world
  <2> QED BY <1>1, <1>2, <2>3, <2>4, DeleterMoves
<1> QED BY <1>3, <1>4 DEF DeleteQueries

\* The deleter hands over what is gone.
LEMMA DeleteHandsKeeps == ASSUME IInv, NEW p \in del.left, DeleteHands(p)  PROVE IInv'
<1>1. /\ del \in DeleteLister /\ faults \in Nat /\ del.pc = "hand" /\ p \in Paths
  BY DEF DeleteHands, IInv, TypeOK, DeleteLister
<1>2. /\ del' \in DeleteLister /\ del'.pc = "hand" /\ del'.start = del.start
      /\ del'.left = del.left \ {p}
  BY <1>1 DEF DeleteHands, DeleteLister
<1>3. UNCHANGED <<world, entity, imp, rec, tasks, db, history, faults>>
  BY DEF DeleteHands
<1>4. PICK x \in Item : x.path = p /\ Hand("delete", x)
  <2>1. NewItem(p, "withdraw", FALSE, 0) \in Item /\ NewItem(p, "withdraw", FALSE, 0).path = p
    BY <1>1 DEF NewItem, Item
  <2>2. Hand("delete", NewItem(p, "withdraw", FALSE, 0))
    BY DEF DeleteHands
  <2> QED BY <2>1, <2>2
<1>5. /\ busy' \in [AllJobs -> SUBSET Item]
      /\ busy'["import"] = busy["import"] /\ busy'["delete"] = busy["delete"] \cup {x}
  BY <1>4, HandTypes DEF IInv, AllJobs
<1>6. DeleteInv'
  BY <1>1, <1>2, <1>3, <1>4, <1>5 DEF IInv, DeleteInv, GoneSince, world
<1> QED BY <1>1, <1>2, <1>3, <1>5, <1>6, DeleterMoves

\* A failure of the list withdraws nothing.
LEMMA DeleteFailsKeeps == ASSUME IInv, DeleteFails  PROVE IInv'
<1>1. del' \in DeleteLister /\ del'.pc = "drain" /\ del'.start = del.start /\ faults' \in Nat
  BY DEF DeleteFails, Fault, DeleteLister, IInv, TypeOK
<1> QED BY <1>1, DeleterDrains DEF DeleteFails

\* The deleter ends when its pool is empty.
LEMMA DeleteExitsKeeps == ASSUME IInv, DeleteExits  PROVE IInv'
<1>1. del' \in DeleteLister /\ del'.pc = "idle" /\ del'.start = 0 /\ faults' \in Nat
  BY IdleTypes DEF DeleteExits, IdleDelete, IInv, TypeOK
<1> QED BY <1>1, DeleterDrains DEF DeleteExits

-----------------------------------------------------------------------------
(* A killed job *)

\* A kill loses the items of one job, and its snapshot with them.
LEMMA CrashKeeps == ASSUME IInv, NEW j \in AllJobs, Crash(j)  PROVE IInv'
<1>1. /\ busy \in [AllJobs -> SUBSET Item] /\ faults' \in Nat /\ now \in Nat
      /\ \A x \in busy[j] : x.path \in Paths /\ x.upd \in Nat
  BY DEF Crash, Fault, IInv, TypeOK, Item
<1>2. /\ busy' \in [AllJobs -> SUBSET Item] /\ busy'[j] = {}
      /\ \A k \in AllJobs : k # j => busy'[k] = busy[k]
  BY <1>1 DEF Crash
<1>3. UNCHANGED <<world, entity, tasks, db, sent>>
  BY DEF Crash
<1>4. /\ lost \subseteq lost' /\ lost' \in SUBSET (Paths \X Nat)
      /\ j = "import" => \A x \in busy["import"] : <<x.path, x.upd>> \in lost'
  BY <1>1 DEF Crash, IInv, TypeOK
<1>5. TypeOK'
  <2>1. imp' \in ImportLister /\ rec' \in ReconcileLister /\ del' \in DeleteLister
    BY IdleTypes DEF Crash, IInv, TypeOK
  <2> QED BY <1>1, <1>2, <1>3, <1>4, <2>1 DEF IInv, TypeOK, world, entity
<1>6. ImportInv'
  <2>1. CASE j # "import"
    <3>1. imp' = imp /\ busy'["import"] = busy["import"]
      BY <1>2, <2>1 DEF Crash, AllJobs
    <3>2. \A i \in Ids : sent[i] <= sent'[i]
      BY <1>3 DEF IInv, TypeOK
    <3> QED BY <1>3, <1>4, <1>5, <3>1, <3>2, ImportRests DEF IInv
  <2>2. CASE j = "import"
    <3>1. imp'.pc = "idle" /\ imp'.start = 0 /\ imp'.snap = NoFiles /\ busy'["import"] = {}
      BY <1>2, <2>2 DEF Crash, IdleImport
    <3>2. /\ \A p \in Paths : src[p].upd \in Nat
          /\ \A p \in Paths : NoFiles[p] = NoFile /\ NoFile.upd = 0
      BY FileTypes DEF IInv, TypeOK, Files, File
    <3>3. Clock'
      BY <1>1, <1>3, <3>1, <3>2 DEF IInv, ImportInv, Clock, world, entity
    <3>4. Stamps'
      <4>1. ASSUME NEW p \in Paths  PROVE src[p] # NoFile => src[p].upd # 0
        BY DEF IInv, ImportInv, Stamps
      <4> QED BY <1>3, <3>1, <3>2, <4>1 DEF IInv, ImportInv, Stamps, world
    <3>5. ImportPool' /\ SnapshotIsRecent' /\ ListedAreAccounted' /\ ImportWithdrawsGone'
      BY <3>1 DEF ImportPool, SnapshotIsRecent, ListedAreAccounted, ImportWithdrawsGone
    <3>6. \A p \in Paths : Accounted(p) => Accounted(p)'
      BY <1>3, <1>4, <2>2 DEF Accounted, Carries, world
    <3>7. NothingPassedOver'
      BY <1>3, <3>6 DEF IInv, ImportInv, NothingPassedOver, Passed, world, entity
    <3> QED BY <3>3, <3>4, <3>5, <3>7 DEF ImportInv
  <2> QED BY <2>1, <2>2
<1>7. DeleteInv'
  <2>1. CASE j # "delete"
    <3>1. del' = del /\ busy'["delete"] = busy["delete"]
      BY <1>2, <2>1 DEF Crash, AllJobs
    <3> QED BY <1>3, <3>1, DeleteRests DEF IInv
  <2>2. CASE j = "delete"
    BY <1>1, <1>2, <1>3, <2>2 DEF Crash, IdleDelete, DeleteInv, world
  <2> QED BY <2>1, <2>2
<1>8. RecordInv'
  BY <1>3, RecordsRest DEF IInv
<1> QED BY <1>5, <1>6, <1>7, <1>8 DEF IInv

-----------------------------------------------------------------------------
(* The invariant *)

\* The invariant holds at first.
LEMMA InitKeeps == Init => IInv
<1> SUFFICES ASSUME Init  PROVE IInv
  OBVIOUS
<1>1. TypeOK
  BY FileTypes, IdleTypes, ImporterAssumption DEF Init, TypeOK, Entity
<1>2. \A p \in Paths : src[p] = NoFile /\ synced[p] = NoFile /\ imp.snap[p] = NoFile
  BY FileTypes DEF Init, IdleImport
<1>3. now = 0 /\ cursor = 0 /\ imp.pc = "idle" /\ imp.start = 0 /\ del.pc = "idle" /\ del.start = 0
  BY DEF Init, IdleImport, IdleDelete
<1>4. busy["import"] = {} /\ busy["delete"] = {}
  BY DEF Init, AllJobs
<1>5. ImportInv
  BY <1>2, <1>3, <1>4, FileTypes DEF ImportInv, Clock, Stamps, ImportPool, SnapshotIsRecent,
         ListedAreAccounted, NothingPassedOver, Passed, ImportWithdrawsGone
<1>6. DeleteInv
  BY <1>3, <1>4 DEF DeleteInv
<1>7. RecordInv
  BY DEF Init, RecordInv
<1> QED BY <1>1, <1>5, <1>6, <1>7 DEF IInv

\* Every step keeps the invariant.
LEMMA NextKeeps == IInv /\ [Next]_vars => IInv'
<1> SUFFICES ASSUME IInv, [Next]_vars  PROVE IInv'
  OBVIOUS
<1>1. ASSUME NEW p \in Paths, Put(p) \/ Remove(p)  PROVE IInv'
  BY <1>1, PutKeeps, RemoveKeeps
<1>2. CASE RequestReimport
  BY <1>2, RequestReimportKeeps
<1>3. ASSUME NEW t \in tasks, DeadLetter(t) \/ \E acked \in BOOLEAN : Deliver(t, acked)
      PROVE  IInv'
  BY <1>3, DeadLetterKeeps, DeliverKeeps
<1>4. CASE Import \/ ImportFails
  BY <1>4, ImportStartsKeeps, ImportHeadKeeps, ImportFetchesKeeps, ImportListsKeeps, ImportEndsKeeps,
     ImportExitsKeeps, ImportFailsKeeps DEF Import
<1>5. CASE Reconcile \/ ReconcileFails
  BY <1>5, ReconcileStartsKeeps, ReconcileQueriesKeeps, ReconcileFetchesKeeps, ReconcileListsKeeps,
     ReconcileExitsKeeps, ReconcileFailsKeeps DEF Reconcile
<1>6. CASE Delete \/ DeleteFails
  BY <1>6, DeleteStartsKeeps, DeleteListsKeeps, DeleteQueriesKeeps, DeleteHandsKeeps,
     DeleteExitsKeeps, DeleteFailsKeeps DEF Delete
<1>7. ASSUME NEW j \in AllJobs, Pool(j) \/ Crash(j) \/ \E x \in busy[j] : ItemFails(j, x)
      PROVE  IInv'
  BY <1>7, OpenKeeps, CompareKeeps, SendKeeps, ItemFailsKeeps, CrashKeeps DEF Pool
<1>8. CASE UNCHANGED vars
  <2>1. TypeOK'
    BY <1>8 DEF vars, world, entity, history, IInv, TypeOK
  <2>2. rec' \in ReconcileLister /\ faults' \in Nat /\ busy' \in [AllJobs -> SUBSET Item]
    BY <2>1 DEF TypeOK
  <2> QED BY <1>8, <2>2, ReconcilerMoves DEF vars
<1> QED BY <1>1, <1>2, <1>3, <1>4, <1>5, <1>6, <1>7, <1>8 DEF Next

\* The importer's state stays in the types of TypeOK, whatever the source,
\* the failures and the kills.
THEOREM TypesHold == Spec => []TypeOK
<1>1. IInv => TypeOK
  BY DEF IInv
<1> QED BY <1>1, InitKeeps, NextKeeps, PTL DEF Spec

\* No import, of any kind of source and any number of files and workers, moves
\* its cursor past a file that was neither sent, nor is with a worker, nor was
\* lost by a failure (handleImportBucket, handleImportREST, handleImportGit).
THEOREM NothingIsPassedOver == Spec => []NothingPassedOver
<1>1. IInv => NothingPassedOver
  BY DEF IInv, ImportInv
<1> QED BY <1>1, InitKeeps, NextKeeps, PTL DEF Spec

\* No deleter and no git import withdraws a file that has been at the source
\* since the job began (handleDeleteBucket, handleDeleteREST, handleImportGit).
THEOREM OnlyMissingFilesAreWithdrawn == Spec => []OnlyMissingAreWithdrawn
<1>1. IInv => OnlyMissingAreWithdrawn
  BY DEF IInv, ImportInv, DeleteInv, ImportWithdrawsGone, OnlyMissingAreWithdrawn
<1> QED BY <1>1, InitKeeps, NextKeeps, PTL DEF Spec

=============================================================================
