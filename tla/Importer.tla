------------------------------- MODULE Importer -------------------------------
(***************************************************************************)
(* The importer's three jobs (apps/cli/internal/importer) on one source:   *)
(* the import that follows a cursor, the deleter and the reconciler, each  *)
(* a process of its own with a lister and a pool of workers, while the     *)
(* source changes under them and the tasks they publish are carried out.   *)
(*                                                                         *)
(* Files of which the importer takes no notice (extension, prefixes and    *)
(* patterns) are left out.  Each change at the source has a time of its    *)
(* own, and source and importer share one clock.                           *)
(***************************************************************************)
EXTENDS Naturals, FiniteSets

CONSTANTS
  Paths,       \* files the source may have
  Ids,         \* vulnerability ids
  None,        \* the path of a record that does not exist
  IdOf,        \* [Paths -> Ids]
  Kinds,       \* subset of {"git", "bucket", "REST"} the source may be of
  Jobs,        \* subset of AllJobs: those that are scheduled
  Skipped,     \* the source is one of reconcileSkipSources
  NumWorkers,  \* size of each pool
  Threshold,   \* percentage of deletions that is refused
  Leniency,    \* ReconcileLeniencyDuration
  Backdates,   \* files may be stamped as modified before they appear
  MaxTime,     \* bound: changes at the source
  MaxFaults    \* bound: failed calls, killed jobs, messages that come again or are
               \* dropped, requests to import all

AllJobs == {"import", "reconcile", "delete"}

ASSUME ImporterAssumption ==
  /\ IsFiniteSet(Paths) /\ None \notin Paths /\ IdOf \in [Paths -> Ids]
  /\ Kinds \subseteq {"git", "bucket", "REST"} /\ Kinds # {}
  /\ Jobs \subseteq AllJobs /\ Skipped \in BOOLEAN
  /\ NumWorkers \in Nat \ {0} /\ Threshold \in Nat /\ Leniency \in Nat
  /\ Backdates \in BOOLEAN /\ MaxTime \in Nat /\ MaxFaults \in Nat

VARIABLES
  kind,     \* the type of the source
  now,      \* the time: that of the last change at the source
  src,      \* the files at the source
  cursor,   \* LastUpdated of the source's entity, 0 if unset (bucket and REST)
  synced,   \* the files of LastSyncedCommit (git)
  ignore,   \* IgnoreLastImportTime (bucket and REST)
  imp, rec, del,  \* the listers of the three jobs
  busy,     \* the items in each job's pool
  tasks,    \* messages on the tasks topic
  db,       \* Vulnerability entities of the source: path, ModifiedRaw, withdrawn
  sent,     \* history: the greatest modified time published for each id
  lost,     \* history: files whose item failed in the import or died with it
  faults

world == <<kind, now, src>>
entity == <<cursor, synced, ignore>>
history == <<sent, lost>>
vars == <<world, entity, imp, rec, del, busy, tasks, db, history, faults>>

\* A file: its modified field and when it was put there; 0 if there is none.
File == [mod : Nat, upd : Nat]
NoFile == [mod |-> 0, upd |-> 0]
Files == [Paths -> File]
NoFiles == [p \in Paths |-> NoFile]

Item == [path : Paths, act : {"import", "reconcile", "withdraw"}, compare : BOOLEAN,
         pc : {"open", "compare", "send"}, mod : Nat, upd : Nat]

ImportLister ==
  [pc : {"idle", "head", "fetch", "list", "drain"}, all : BOOLEAN, start : Nat, head : Nat,
   left : SUBSET Paths, snap : Files]
ReconcileLister ==
  [pc : {"idle", "query", "fetch", "list", "drain"}, left : SUBSET Paths,
   known : [Paths -> Nat], snap : Files]
DeleteLister ==
  [pc : {"idle", "list", "hand", "drain"}, start : Nat, left : SUBSET Paths,
   listed : SUBSET Paths]

Task == [path : Paths, mod : Nat, withdraw : BOOLEAN]
Entity == [path : Paths \cup {None}, mod : Nat, withdrawn : BOOLEAN]

IdleImport == [pc |-> "idle", all |-> FALSE, start |-> 0, head |-> 0, left |-> {}, snap |-> NoFiles]
IdleReconcile == [pc |-> "idle", left |-> {}, known |-> [p \in Paths |-> 0], snap |-> NoFiles]
IdleDelete == [pc |-> "idle", start |-> 0, left |-> {}, listed |-> {}]

Init ==
  /\ kind \in Kinds /\ now = 0 /\ src = NoFiles
  /\ cursor = 0 /\ synced = NoFiles /\ ignore = FALSE
  /\ imp = IdleImport /\ rec = IdleReconcile /\ del = IdleDelete
  /\ busy = [j \in AllJobs |-> {}]
  /\ tasks = {}
  /\ db = [i \in Ids |-> [path |-> None, mod |-> 0, withdrawn |-> FALSE]]
  /\ sent = [i \in Ids |-> 0] /\ lost = {}
  /\ faults = 0

Fault == faults < MaxFaults /\ faults' = faults + 1

-----------------------------------------------------------------------------
(* The source, the operator and the workers of the tasks topic *)

Put(p) ==
  /\ now < MaxTime /\ now' = now + 1
  /\ \E m \in (IF Backdates THEN 1..now' ELSE {now'}) :
       src' = [src EXCEPT ![p] = [mod |-> m, upd |-> now']]
  /\ UNCHANGED <<kind, entity, imp, rec, del, busy, tasks, db, history, faults>>

Remove(p) ==
  /\ now < MaxTime /\ src[p] # NoFile /\ now' = now + 1
  /\ src' = [src EXCEPT ![p] = NoFile]
  /\ UNCHANGED <<kind, entity, imp, rec, del, busy, tasks, db, history, faults>>

RequestReimport ==
  /\ kind # "git" /\ ~ignore /\ Fault
  /\ ignore' = TRUE
  /\ UNCHANGED <<world, cursor, synced, imp, rec, del, busy, tasks, db, history>>

\* A message is handled, and is acknowledged or comes again; in any order.
Deliver(t, acked) ==
  LET i == IdOf[t.path]
      moved == db[i].path # t.path
  IN  /\ t \in tasks
      /\ IF acked THEN tasks' = tasks \ {t} /\ UNCHANGED faults ELSE Fault /\ UNCHANGED tasks
      /\ db' = IF ~t.withdraw THEN [db EXCEPT ![i] = [path |-> t.path, mod |-> t.mod, withdrawn |-> FALSE]]
               ELSE IF moved THEN db ELSE [db EXCEPT ![i].withdrawn = TRUE]
      /\ UNCHANGED <<world, entity, imp, rec, del, busy, history>>

\* Every attempt to deliver a message has failed: the recoverer logs and drops it.
DeadLetter(t) ==
  /\ t \in tasks /\ Fault
  /\ tasks' = tasks \ {t}
  /\ UNCHANGED <<world, entity, imp, rec, del, busy, db, history>>

-----------------------------------------------------------------------------
(* importerWorker: what happens to an item *)

NewItem(p, act, compare, upd) ==
  [path |-> p, act |-> act, compare |-> compare,
   pc |-> IF act = "withdraw" THEN "send" ELSE "open", mod |-> 0, upd |-> upd]

\* The channel has no buffer: an item is handed to a worker that is free.
Hand(j, item) ==
  /\ Cardinality(busy[j]) < NumWorkers
  /\ busy' = [busy EXCEPT ![j] = @ \cup {item}]

Leaves(j, item, next) == busy' = [busy EXCEPT ![j] = (@ \ {item}) \cup next]

\* A git item reads the commit or the checkout of its job, others the source.
Content(j, p) ==
  IF kind # "git" THEN src[p] ELSE IF j = "import" THEN imp.snap[p] ELSE rec.snap[p]

Open(j, item) ==
  LET file == Content(j, item.path)
      read == [item EXCEPT !.pc = IF item.compare THEN "compare" ELSE "send", !.mod = file.mod]
  IN  /\ item \in busy[j] /\ item.pc = "open"
      /\ Leaves(j, item, IF file = NoFile THEN {} ELSE {read})
      /\ UNCHANGED <<world, entity, imp, rec, del, tasks, db, history, faults>>

\* Mutant: the leniency is given to the wrong side.
UpToDateLeniently(item, known) ==
  /\ known # 0
  /\ IF item.act = "import" THEN item.mod <= known ELSE known < item.mod + Leniency

\* A missing record is always sent.
UpToDate(item, known) ==
  /\ known # 0
  /\ IF item.act = "import" THEN item.mod <= known ELSE known + Leniency > item.mod

Compare(j, item) ==
  /\ item \in busy[j] /\ item.pc = "compare"
  /\ Leaves(j, item,
       IF UpToDate(item, db[IdOf[item.path]].mod) THEN {} ELSE {[item EXCEPT !.pc = "send"]})
  /\ UNCHANGED <<world, entity, imp, rec, del, tasks, db, history, faults>>

Send(j, item) ==
  LET i == IdOf[item.path]
  IN  /\ item \in busy[j] /\ item.pc = "send"
      /\ Leaves(j, item, {})
      /\ tasks' = tasks \cup {[path |-> item.path, mod |-> item.mod, withdraw |-> item.act = "withdraw"]}
      /\ sent' = IF item.mod > sent[i] THEN [sent EXCEPT ![i] = item.mod] ELSE sent
      /\ UNCHANGED <<world, entity, imp, rec, del, db, lost, faults>>

\* Opening, comparing or publishing fails, which is logged.
ItemFails(j, item) ==
  /\ item \in busy[j] /\ Fault
  /\ Leaves(j, item, {})
  /\ lost' = IF j = "import" THEN lost \cup {<<item.path, item.upd>>} ELSE lost
  /\ UNCHANGED <<world, entity, imp, rec, del, tasks, db, sent>>

-----------------------------------------------------------------------------
(* handleImportBucket, handleImportREST and handleImportGit *)

\* Mutant: the run is said to start a little earlier, for safety.
ImportStartsEarlier ==
  /\ "import" \in Jobs /\ imp.pc = "idle"
  /\ imp' = [IdleImport EXCEPT !.pc = IF kind = "bucket" THEN "list" ELSE "fetch",
                               !.all = cursor = 0, !.start = now - 1, !.left = Paths]
  /\ UNCHANGED <<world, entity, rec, del, busy, tasks, db, history, faults>>

ImportStarts ==
  /\ "import" \in Jobs /\ imp.pc = "idle"
  /\ LET all == IF kind = "git" THEN synced = NoFiles ELSE cursor = 0 \/ ignore
     IN  imp' = [IdleImport EXCEPT
                   !.pc = IF kind = "bucket" THEN "list"
                          ELSE IF kind = "git" \/ all THEN "fetch" ELSE "head",
                   !.all = all, !.start = now, !.left = Paths]
  /\ UNCHANGED <<world, entity, rec, del, busy, tasks, db, history, faults>>

\* checkHEAD: Last-Modified, if there is one, and no more if it is not new.
ImportHead ==
  /\ imp.pc = "head"
  /\ \E head \in {0, now} :
       imp' = [imp EXCEPT !.head = head,
                          !.pc = IF head # 0 /\ head <= cursor THEN "drain" ELSE "fetch"]
  /\ UNCHANGED <<world, entity, rec, del, busy, tasks, db, history, faults>>

\* The list of the API, or the remote's commit.
ImportFetches ==
  /\ imp.pc = "fetch"
  /\ imp' = [imp EXCEPT !.pc = "list", !.snap = src]
  /\ UNCHANGED <<world, entity, rec, del, busy, tasks, db, history, faults>>

\* A bucket is listed while it changes.
Listed(p) == IF kind = "bucket" THEN src[p] ELSE imp.snap[p]

Wanted(p) ==
  CASE kind = "bucket" -> Listed(p) # NoFile /\ (imp.all \/ Listed(p).upd > cursor)
    [] kind = "REST"   -> Listed(p) # NoFile /\ (imp.all \/ Listed(p).mod > cursor)
    [] OTHER           -> Listed(p) # synced[p]

ImportLists(p) ==
  /\ imp.pc = "list" /\ p \in imp.left
  /\ imp' = [imp EXCEPT !.left = @ \ {p}]
  /\ IF Wanted(p)
     THEN Hand("import", NewItem(p, IF Listed(p) = NoFile THEN "withdraw" ELSE "import",
                                 kind # "git" /\ ~imp.all, Listed(p).upd))
     ELSE UNCHANGED busy
  /\ UNCHANGED <<world, entity, rec, del, tasks, db, history, faults>>

Earlier(time, other) == IF other # 0 /\ other < time THEN other ELSE time

\* Mutant: the time of the end of the run.
ImportEndsNow ==
  /\ imp.pc = "list" /\ imp.left = {}
  /\ cursor' = now /\ ignore' = FALSE /\ synced' = imp.snap
  /\ imp' = [imp EXCEPT !.pc = "drain"]
  /\ UNCHANGED <<world, rec, del, busy, tasks, db, history, faults>>

\* The cursor moves when the last item is with a worker.
ImportEnds ==
  /\ imp.pc = "list" /\ imp.left = {}
  /\ \/ kind = "git" /\ synced' = imp.snap /\ UNCHANGED <<cursor, ignore>>
     \/ kind = "bucket" /\ cursor' = imp.start /\ ignore' = FALSE /\ UNCHANGED synced
     \/ /\ kind = "REST" /\ ignore' = FALSE /\ UNCHANGED synced
        /\ \E last \in {0} \cup {imp.snap[p].mod : p \in Paths} :
             /\ \A p \in Paths : imp.snap[p].mod <= last
             /\ cursor' = Earlier(Earlier(imp.start, last), imp.head)
  /\ imp' = [imp EXCEPT !.pc = "drain"]
  /\ UNCHANGED <<world, rec, del, busy, tasks, db, history, faults>>

\* A call of the lister fails: the cursor stays.
ImportFails ==
  /\ imp.pc \in {"head", "fetch", "list"} /\ Fault
  /\ imp' = [imp EXCEPT !.pc = "drain"]
  /\ UNCHANGED <<world, entity, rec, del, busy, tasks, db, history>>

\* close(workCh); workWg.Wait()
ImportExits ==
  /\ imp.pc = "drain" /\ busy["import"] = {}
  /\ imp' = IdleImport
  /\ UNCHANGED <<world, entity, rec, del, busy, tasks, db, history, faults>>

-----------------------------------------------------------------------------
(* handleReconcileBucket, handleReconcileREST and handleReconcileGit *)

ReconcileStarts ==
  /\ "reconcile" \in Jobs /\ ~Skipped /\ rec.pc = "idle"
  /\ rec' = [IdleReconcile EXCEPT !.pc = IF kind = "git" THEN "fetch" ELSE "query", !.left = Paths]
  /\ UNCHANGED <<world, entity, imp, del, busy, tasks, db, history, faults>>

\* fetchDBRecords, withdrawn ones included.
ReconcileQueries ==
  /\ rec.pc = "query"
  /\ rec' = [rec EXCEPT
       !.pc = IF kind = "REST" THEN "fetch" ELSE "list",
       !.known = [p \in Paths |-> IF db[IdOf[p]].path = p THEN db[IdOf[p]].mod ELSE 0]]
  /\ UNCHANGED <<world, entity, imp, del, busy, tasks, db, history, faults>>

ReconcileFetches ==
  /\ rec.pc = "fetch"
  /\ rec' = [rec EXCEPT !.pc = IF kind = "git" THEN "query" ELSE "list", !.snap = src]
  /\ UNCHANGED <<world, entity, imp, del, busy, tasks, db, history, faults>>

\* checkReconcile: the action of a file's item and whether it compares again.
Checked(p, file) ==
  IF file = NoFile THEN {}
  ELSE IF rec.known[p] = 0 THEN {NewItem(p, "import", TRUE, 0)}
  ELSE IF kind # "REST" THEN {NewItem(p, "reconcile", TRUE, 0)}
  ELSE IF file.mod > rec.known[p] + Leniency THEN {NewItem(p, "import", FALSE, 0)}
  ELSE {}

ReconcileLists(p) ==
  LET items == Checked(p, IF kind = "bucket" THEN src[p] ELSE rec.snap[p])
  IN  /\ rec.pc = "list" /\ p \in rec.left
      /\ rec' = [rec EXCEPT !.left = @ \ {p}]
      /\ IF items = {} THEN UNCHANGED busy ELSE \E item \in items : Hand("reconcile", item)
      /\ UNCHANGED <<world, entity, imp, del, tasks, db, history, faults>>

ReconcileFails ==
  /\ rec.pc \in {"query", "fetch", "list"} /\ Fault
  /\ rec' = [rec EXCEPT !.pc = "drain"]
  /\ UNCHANGED <<world, entity, imp, del, busy, tasks, db, history>>

ReconcileExits ==
  /\ \/ rec.pc = "list" /\ rec.left = {}
     \/ rec.pc = "drain"
  /\ busy["reconcile"] = {}
  /\ rec' = IdleReconcile
  /\ UNCHANGED <<world, entity, imp, del, busy, tasks, db, history, faults>>

-----------------------------------------------------------------------------
(* handleDeleteBucket and handleDeleteREST; git has no deleter *)

DeleteStarts ==
  /\ "delete" \in Jobs /\ kind # "git" /\ del.pc = "idle"
  /\ del' = [IdleDelete EXCEPT !.pc = "list", !.start = now, !.left = Paths]
  /\ UNCHANGED <<world, entity, imp, rec, busy, tasks, db, history, faults>>

\* A bucket is listed file by file, an API in one answer.
DeleteLists(ps) ==
  /\ del.pc = "list" /\ ps \subseteq del.left /\ ps # {}
  /\ IF kind = "bucket" THEN Cardinality(ps) = 1 ELSE ps = del.left
  /\ del' = [del EXCEPT !.left = @ \ ps, !.listed = @ \cup {p \in ps : src[p] # NoFile}]
  /\ UNCHANGED <<world, entity, imp, rec, busy, tasks, db, history, faults>>

Live == {i \in Ids : db[i].mod # 0 /\ ~db[i].withdrawn}
Missing(i) ==
  IF kind = "bucket" THEN db[i].path \notin del.listed ELSE \A p \in del.listed : IdOf[p] # i
Gone == {i \in Live : Missing(i)}

\* The records are read after the source, and too many to delete are refused.
DeleteQueries ==
  /\ del.pc = "list" /\ del.left = {}
  /\ del' = IF Gone = {} \/ Cardinality(Gone) * 100 >= Threshold * Cardinality(Live)
            THEN [del EXCEPT !.pc = "drain"]
            ELSE [del EXCEPT !.pc = "hand", !.left = {db[i].path : i \in Gone}]
  /\ UNCHANGED <<world, entity, imp, rec, busy, tasks, db, history, faults>>

DeleteHands(p) ==
  /\ del.pc = "hand" /\ p \in del.left
  /\ del' = [del EXCEPT !.left = @ \ {p}]
  /\ Hand("delete", NewItem(p, "withdraw", FALSE, 0))
  /\ UNCHANGED <<world, entity, imp, rec, tasks, db, history, faults>>

\* Mutant: what was listed before the error is taken for the whole source.
DeleteGoesOn ==
  /\ del.pc = "list" /\ Fault
  /\ del' = [del EXCEPT !.left = {}]
  /\ UNCHANGED <<world, entity, imp, rec, busy, tasks, db, history>>

DeleteFails ==
  /\ del.pc = "list" /\ Fault
  /\ del' = [del EXCEPT !.pc = "drain"]
  /\ UNCHANGED <<world, entity, imp, rec, busy, tasks, db, history>>

DeleteExits ==
  /\ \/ del.pc = "hand" /\ del.left = {}
     \/ del.pc = "drain"
  /\ busy["delete"] = {}
  /\ del' = IdleDelete
  /\ UNCHANGED <<world, entity, imp, rec, busy, tasks, db, history, faults>>

\* A job is killed, with the items it has.
Crash(j) ==
  /\ Fault
  /\ lost' = IF j = "import" THEN lost \cup {<<item.path, item.upd>> : item \in busy[j]} ELSE lost
  /\ busy' = [busy EXCEPT ![j] = {}]
  /\ imp' = IF j = "import" THEN IdleImport ELSE imp
  /\ rec' = IF j = "reconcile" THEN IdleReconcile ELSE rec
  /\ del' = IF j = "delete" THEN IdleDelete ELSE del
  /\ UNCHANGED <<world, entity, tasks, db, sent>>

-----------------------------------------------------------------------------
Pool(j) == \E item \in busy[j] : Open(j, item) \/ Compare(j, item) \/ Send(j, item)
Import ==
  \/ ImportStarts \/ ImportHead \/ ImportFetches \/ ImportEnds \/ ImportExits
  \/ \E p \in Paths : ImportLists(p)
Reconcile ==
  \/ ReconcileStarts \/ ReconcileQueries \/ ReconcileFetches \/ ReconcileExits
  \/ \E p \in Paths : ReconcileLists(p)
Delete ==
  \/ DeleteStarts \/ DeleteQueries \/ DeleteExits
  \/ \E ps \in SUBSET Paths : DeleteLists(ps)
  \/ \E p \in del.left : DeleteHands(p)

Next ==
  \/ \E p \in Paths : Put(p) \/ Remove(p)
  \/ RequestReimport
  \/ \E t \in tasks : DeadLetter(t) \/ \E acked \in BOOLEAN : Deliver(t, acked)
  \/ Import \/ ImportFails \/ Reconcile \/ ReconcileFails \/ Delete \/ DeleteFails
  \/ \E j \in AllJobs : Pool(j) \/ Crash(j) \/ \E item \in busy[j] : ItemFails(j, item)

Spec == Init /\ [][Next]_vars

\* The CronJobs start again and again, their goroutines are scheduled, and
\* Pub/Sub delivers a message until it is acknowledged or dead-lettered.
Fairness ==
  /\ WF_vars(Reconcile) /\ WF_vars(Pool("reconcile"))
  /\ \A t \in [path : Paths, mod : 0..MaxTime, withdraw : BOOLEAN] : WF_vars(Deliver(t, TRUE))

FairSpec == Spec /\ Fairness

-----------------------------------------------------------------------------
(* Properties *)

\* State as the code's types allow it; 0 and NoFile are unset.
TypeOK ==
  /\ kind \in Kinds /\ now \in Nat /\ src \in Files
  /\ cursor \in Nat /\ synced \in Files /\ ignore \in BOOLEAN
  /\ imp \in ImportLister /\ rec \in ReconcileLister /\ del \in DeleteLister
  /\ busy \in [AllJobs -> SUBSET Item] /\ tasks \in SUBSET Task
  /\ db \in [Ids -> Entity]
  /\ sent \in [Ids -> Nat] /\ lost \in SUBSET (Paths \X Nat) /\ faults \in Nat

\* A file the cursor has passed was sent with its modified time or a later one,
\* is with a worker, or its item failed: neither changes during the listing,
\* skipped items, failing calls nor kills between two steps let one slip by.
\* (An API that lists a record late with an old time does: Backdates.)
Passed(p) ==
  /\ src[p] # NoFile
  /\ kind = "git" => synced[p] = src[p]
  /\ kind = "REST" => ~Backdates
  /\ kind # "git" => src[p].upd <= cursor

Carries(item, p) ==
  /\ item.path = p /\ item.act = "import" /\ item.upd = src[p].upd
  /\ item.pc = "open" \/ item.mod = src[p].mod

Accounted(p) ==
  \/ sent[IdOf[p]] >= src[p].mod
  \/ \E item \in busy["import"] : Carries(item, p)
  \/ <<p, src[p].upd>> \in lost

NothingPassedOver == \A p \in Paths : Passed(p) => Accounted(p)

\* No job withdraws a file that has been at the source since it started,
\* although it lists the source and reads the records at different times.
GoneSince(p, start) == src[p] = NoFile \/ src[p].upd > start

OnlyMissingAreWithdrawn ==
  /\ \A item \in busy["delete"] : GoneSince(item.path, del.start)
  /\ \A item \in busy["import"] : item.act = "withdraw" => GoneSince(item.path, imp.start)

\* Once the source rests, whatever failed before, the reconciler brings every
\* record to within ReconcileLeniencyDuration of its file, and keeps it there,
\* unless it skips the source.
CaughtUp ==
  ~Skipped => <>[](\A p \in Paths : src[p] # NoFile =>
         /\ db[IdOf[p]].mod # 0
         /\ src[p].mod <= db[IdOf[p]].mod + Leniency)
=============================================================================
