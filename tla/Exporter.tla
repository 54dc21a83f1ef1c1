------------------------------- MODULE Exporter -------------------------------
(***************************************************************************)
(* One run of the exporter (apps/cli/cmd/exporter): the lister, a pool of  *)
(* downloaders, the router, one worker per ecosystem and one for all, and  *)
(* a pool of writers, connected by channels without buffers.               *)
(*                                                                         *)
(* A send and its receive are one step.  Every send and receive of the     *)
(* code waits for ctx.Done() as well and takes either when both are ready, *)
(* so each is an action next to the one that gives up.  A channel is       *)
(* closed when its closer is past the close.  The order in which objects   *)
(* are listed and a map is walked is any.                                  *)
(***************************************************************************)
EXTENDS ExportFiles

CONSTANTS
  Downloaders, Writers,  \* the goroutines of the two pools
  ToBucket,              \* the output is a GCS bucket, not a local directory
  MaxFaults              \* bound: failed calls

ASSUME ExporterAssumption ==
  /\ Downloaders # {} /\ Writers # {}
  /\ IsFiniteSet(Downloaders) /\ IsFiniteSet(Writers)
  /\ ToBucket \in BOOLEAN /\ MaxFaults \in Nat

VARIABLES
  main,       \* where main stands: what it lists or waits for, or how it ended
  todo,       \* objects main has still to list
  down,       \* each downloader: where it stands and its object
  skipped,    \* objects that could not be read
  router,     \* where the router stands, its record, who is still to get it
  work,       \* each worker: where it stands, its record, its next final file
  got,        \* the records each worker has put in its aggregates
  writer,     \* each writer: its file, and whether the write began cancelled
  cancelled,  \* ctx is done
  out,        \* what this run has written to each file
  faults

vars == <<main, todo, down, skipped, router, work, got, writer, cancelled, out, faults>>

Running == main \notin {"success", "failed"}

IdleDown == [pc |-> "recv", rec |-> None]
IdleRouter == [pc |-> "recv", rec |-> None, left |-> {}, to |-> None]
IdleWork == [pc |-> "recv", rec |-> None, at |-> 0]
IdleWriter == [pc |-> "recv", file |-> None, data |-> {}, late |-> FALSE]

Init ==
  /\ main = "list" /\ todo = Records
  /\ down = [d \in Downloaders |-> IdleDown]
  /\ skipped = {}
  /\ router = IdleRouter
  /\ work = [w \in Workers |-> [IdleWork EXCEPT !.pc = IF w = All THEN "recv" ELSE "none"]]
  /\ got = [w \in Workers |-> {}]
  /\ writer = [x \in Writers |-> IdleWriter]
  /\ cancelled = FALSE
  /\ out = [f \in Files |-> None]
  /\ faults = 0

\* A call fails: by itself, or because its context is done.
Fails(late) ==
  \/ late /\ UNCHANGED faults
  \/ faults < MaxFaults /\ faults' = faults + 1

-----------------------------------------------------------------------------
(* main *)

List(r, d) ==
  /\ main = "list" /\ r \in todo /\ down[d].pc = "recv"
  /\ todo' = todo \ {r}
  /\ down' = [down EXCEPT ![d] = [pc |-> "read", rec |-> r]]
  /\ UNCHANGED <<main, skipped, router, work, got, writer, cancelled, out, faults>>

\* Mutant: main waits for its downloaders alone.
ListedAll == todo = {}
ListOver == todo = {} \/ cancelled

\* close(gcsPathToDownloaderCh), after the last object or on ctx.Done().
ListEnds ==
  /\ main = "list" /\ ListOver
  /\ main' = "downloads"
  /\ UNCHANGED <<todo, down, skipped, router, work, got, writer, cancelled, out, faults>>

\* FatalContext: the process exits, whatever the others are doing.
ListFails ==
  /\ main = "list" /\ todo # {} /\ Fails(cancelled)
  /\ main' = "failed"
  /\ UNCHANGED <<todo, down, skipped, router, work, got, writer, cancelled, out>>

\* Without downloaderWg.Wait().
UnwaitedDownloadsEnd ==
  /\ main = "downloads"
  /\ main' = "routing"
  /\ UNCHANGED <<todo, down, skipped, router, work, got, writer, cancelled, out, faults>>

\* downloaderWg.Wait(); close(downloaderToRouterCh)
DownloadsEnd ==
  /\ main = "downloads" /\ \A d \in Downloaders : down[d].pc = "done"
  /\ main' = "routing"
  /\ UNCHANGED <<todo, down, skipped, router, work, got, writer, cancelled, out, faults>>

\* routerWg.Wait(); close(routerToWriteCh)
RoutingEnds ==
  /\ main = "routing" /\ router.pc = "done"
  /\ main' = "writes"
  /\ UNCHANGED <<todo, down, skipped, router, work, got, writer, cancelled, out, faults>>

\* Without the check of ctx.Err().
UncheckedWritesEnd ==
  /\ main = "writes" /\ \A x \in Writers : writer[x].pc = "done"
  /\ main' = "success"
  /\ UNCHANGED <<todo, down, skipped, router, work, got, writer, cancelled, out, faults>>

WritesEnd ==
  /\ main = "writes" /\ \A x \in Writers : writer[x].pc = "done"
  /\ main' = IF cancelled THEN "failed" ELSE "success"
  /\ UNCHANGED <<todo, down, skipped, router, work, got, writer, cancelled, out, faults>>

-----------------------------------------------------------------------------
(* downloader *)

Downloaded(d) ==
  /\ Running /\ down[d].pc = "read"
  /\ down' = [down EXCEPT ![d].pc = "send"]
  /\ UNCHANGED <<main, todo, skipped, router, work, got, writer, cancelled, out, faults>>

\* Logged, and the export goes on without the record.
ReadFails(d) ==
  /\ Running /\ down[d].pc = "read" /\ Fails(cancelled)
  /\ skipped' = skipped \cup {down[d].rec}
  /\ down' = [down EXCEPT ![d] = IdleDown]
  /\ UNCHANGED <<main, todo, router, work, got, writer, cancelled, out>>

DownloaderEnds(d) ==
  /\ Running
  /\ \/ down[d].pc = "recv" /\ main # "list"
     \/ down[d].pc \in {"recv", "send"} /\ cancelled
  /\ down' = [down EXCEPT ![d] = [pc |-> "done", rec |-> None]]
  /\ UNCHANGED <<main, todo, skipped, router, work, got, writer, cancelled, out, faults>>

-----------------------------------------------------------------------------
(* ecosystemRouter *)

Route(d) ==
  /\ Running /\ router.pc = "recv" /\ down[d].pc = "send"
  /\ router' = [pc |-> "pick", rec |-> down[d].rec, left |-> EcosOf(down[d].rec), to |-> None]
  /\ down' = [down EXCEPT ![d] = IdleDown]
  /\ UNCHANGED <<main, todo, skipped, work, got, writer, cancelled, out, faults>>

\* The next ecosystem of the record, whose worker is started if there is none.
Pick(e) ==
  /\ Running /\ router.pc = "pick" /\ e \in router.left
  /\ router' = [router EXCEPT !.pc = "give", !.to = e, !.left = @ \ {e}]
  /\ work' = [work EXCEPT ![e].pc = IF @ = "none" THEN "recv" ELSE @]
  /\ UNCHANGED <<main, todo, down, skipped, got, writer, cancelled, out, faults>>

\* After the last ecosystem the record goes to the worker of all.
PickAll ==
  /\ Running /\ router.pc = "pick" /\ router.left = {}
  /\ router' = [router EXCEPT !.pc = "give", !.to = All]
  /\ UNCHANGED <<main, todo, down, skipped, work, got, writer, cancelled, out, faults>>

\* Mutant: the error of marshalling is not looked at.
GiveUnchecked ==
  LET w == router.to
      r == router.rec
  IN  /\ Running /\ router.pc = "give" /\ work[w].pc = "recv"
      /\ work' = [work EXCEPT ![w] = IF w = All THEN @ ELSE [@ EXCEPT !.pc = "send", !.rec = r]]
      /\ got' = [got EXCEPT ![w] = IF w = All THEN @ \cup ({r} \ Garbled) ELSE @]
      /\ router' = IF w = All THEN IdleRouter ELSE [router EXCEPT !.pc = "pick", !.to = None]
      /\ UNCHANGED <<main, todo, down, skipped, writer, cancelled, out, faults>>

\* A record that cannot be marshalled is logged and left out.
Give ==
  LET w == router.to
      r == router.rec
  IN  /\ Running /\ router.pc = "give" /\ work[w].pc = "recv"
      /\ work' = [work EXCEPT ![w] =
           IF w = All \/ r \in Garbled THEN @ ELSE [@ EXCEPT !.pc = "send", !.rec = r]]
      /\ got' = [got EXCEPT ![w] = IF w = All THEN @ \cup ({r} \ Garbled) ELSE @]
      /\ router' = IF w = All THEN IdleRouter ELSE [router EXCEPT !.pc = "pick", !.to = None]
      /\ UNCHANGED <<main, todo, down, skipped, writer, cancelled, out, faults>>

DownloadsClosed == main \in {"routing", "writes"}

\* The loop ends; Finish closes the channel of every worker.
RouterFinishes ==
  /\ Running
  /\ \/ router.pc = "recv" /\ DownloadsClosed
     \/ router.pc \in {"recv", "give"} /\ cancelled
  /\ router' = [IdleRouter EXCEPT !.pc = "finish"]
  /\ UNCHANGED <<main, todo, down, skipped, work, got, writer, cancelled, out, faults>>

\* workersWg.Wait()
RouterEnds ==
  /\ Running /\ router.pc = "finish"
  /\ \A w \in Workers : work[w].pc \in {"none", "done"}
  /\ router' = [router EXCEPT !.pc = "done"]
  /\ UNCHANGED <<main, todo, down, skipped, work, got, writer, cancelled, out, faults>>

-----------------------------------------------------------------------------
(* ecosystemWorker and allEcosystemWorker *)

\* As if an upload did not use ctx.
DetachedTakes(x, file, data) ==
  /\ writer[x].pc = "recv"
  /\ writer' = [writer EXCEPT ![x] =
       [pc |-> "write", file |-> file, data |-> data, late |-> FALSE]]

\* writeMsg goes to a writer that waits.
Takes(x, file, data) ==
  /\ writer[x].pc = "recv"
  /\ writer' = [writer EXCEPT ![x] =
       [pc |-> "write", file |-> file, data |-> data, late |-> cancelled]]

SendJson(e, x) ==
  /\ Running /\ work[e].pc = "send"
  /\ Takes(x, <<e, work[e].rec>>, {work[e].rec})
  /\ got' = [got EXCEPT ![e] = @ \cup {work[e].rec}]
  /\ work' = [work EXCEPT ![e] = IdleWork]
  /\ UNCHANGED <<main, todo, down, skipped, router, cancelled, out, faults>>

WorkerLeaves(w) ==
  /\ Running /\ cancelled /\ work[w].pc \in {"recv", "send"}
  /\ work' = [work EXCEPT ![w] = [IdleWork EXCEPT !.pc = "done"]]
  /\ UNCHANGED <<main, todo, down, skipped, router, got, writer, cancelled, out, faults>>

WorkerClosed(w) ==
  /\ Running /\ work[w].pc = "recv" /\ router.pc = "finish"
  /\ work' = [work EXCEPT ![w] = [pc |-> "final", rec |-> None, at |-> 1]]
  /\ UNCHANGED <<main, todo, down, skipped, router, got, writer, cancelled, out, faults>>

NextFinalOffByOne(w) ==
  work' = [work EXCEPT ![w] =
    IF work[w].at > Len(FinalFiles(w)) THEN [IdleWork EXCEPT !.pc = "done"]
    ELSE [work[w] EXCEPT !.at = work[w].at + 1]]

\* The worker goes on after one of its final files.
NextFinal(w) ==
  work' = [work EXCEPT ![w] =
    IF work[w].at = Len(FinalFiles(w)) THEN [IdleWork EXCEPT !.pc = "done"]
    ELSE [work[w] EXCEPT !.at = work[w].at + 1]]

SendFinal(w, x) ==
  LET file == FinalFiles(w)[work[w].at]
  IN  /\ Running /\ work[w].pc = "final"
      /\ Takes(x, file, Content(file, got[w]))
      /\ NextFinal(w)
      /\ UNCHANGED <<main, todo, down, skipped, router, got, cancelled, out, faults>>

\* Mutant: its caller tries the same file again.
RetryFinal(w) ==
  /\ Running /\ cancelled /\ work[w].pc = "final"
  /\ UNCHANGED vars

\* write gives up on ctx.Done(), and its caller goes on.
DropFinal(w) ==
  /\ Running /\ cancelled /\ work[w].pc = "final"
  /\ NextFinal(w)
  /\ UNCHANGED <<main, todo, down, skipped, router, got, writer, cancelled, out, faults>>

-----------------------------------------------------------------------------
(* writer *)

\* An upload does not begin under a context that is done; a local write does.
Write(x) ==
  /\ Running /\ writer[x].pc = "write" /\ (ToBucket => ~writer[x].late)
  /\ out' = [out EXCEPT ![writer[x].file] = writer[x].data]
  /\ writer' = [writer EXCEPT ![x] = IdleWriter]
  /\ UNCHANGED <<main, todo, down, skipped, router, work, got, cancelled, faults>>

WriteFails(x) ==
  /\ Running /\ writer[x].pc = "write" /\ Fails(cancelled /\ ToBucket)
  /\ cancelled' = TRUE
  /\ writer' = [writer EXCEPT ![x] = IdleWriter]
  /\ UNCHANGED <<main, todo, down, skipped, router, work, got, out>>

WriterEnds(x) ==
  /\ Running /\ writer[x].pc = "recv" /\ (main = "writes" \/ cancelled)
  /\ writer' = [writer EXCEPT ![x] = [IdleWriter EXCEPT !.pc = "done"]]
  /\ UNCHANGED <<main, todo, down, skipped, router, work, got, cancelled, out, faults>>

-----------------------------------------------------------------------------
MainStep == ListEnds \/ DownloadsEnd \/ RoutingEnds \/ WritesEnd \/ \E r \in todo, d \in Downloaders : List(r, d)
DownloaderStep(d) == Downloaded(d) \/ DownloaderEnds(d) \/ Route(d)
RouterStep == (\E e \in Ecos : Pick(e)) \/ PickAll \/ Give \/ RouterFinishes \/ RouterEnds
WorkerStep(w) ==
  \/ w # All /\ \E x \in Writers : SendJson(w, x)
  \/ WorkerLeaves(w)
  \/ WorkerClosed(w)
  \/ \E x \in Writers : SendFinal(w, x)
  \/ DropFinal(w)
WriterStep(x) == Write(x) \/ WriteFails(x) \/ WriterEnds(x)

Next ==
  \/ MainStep
  \/ ListFails
  \/ \E d \in Downloaders : DownloaderStep(d) \/ ReadFails(d)
  \/ RouterStep
  \/ \E w \in Workers : WorkerStep(w)
  \/ \E x \in Writers : WriterStep(x)
  \/ ~Running /\ UNCHANGED vars

\* Goroutines are scheduled and calls return.  That reads and writes succeed is
\* not assumed; a read that never ends is not either.
Fairness ==
  /\ WF_vars(MainStep) /\ WF_vars(RouterStep)
  /\ \A d \in Downloaders : WF_vars(DownloaderStep(d))
  /\ \A w \in Workers : WF_vars(WorkerStep(w))
  /\ \A x \in Writers : WF_vars(WriterStep(x))

Spec == Init /\ [][Next]_vars
FairSpec == Spec /\ Fairness

-----------------------------------------------------------------------------
(* Properties *)

DownState == [pc : {"recv", "read", "send", "done"}, rec : Records \cup {None}]
RouterState ==
  [pc : {"recv", "pick", "give", "finish", "done"}, rec : Records \cup {None},
   left : SUBSET Ecos, to : Workers \cup {None}]
WorkState ==
  [pc : {"none", "recv", "send", "final", "done"}, rec : Records \cup {None}, at : 0..3]
WriterState ==
  [pc : {"recv", "write", "done"}, file : Files \cup {None}, data : Data, late : BOOLEAN]

\* State as the code's types allow it; None is a nil or unset field.
TypeOK ==
  /\ main \in {"list", "downloads", "routing", "writes", "success", "failed"}
  /\ todo \subseteq Records /\ skipped \subseteq Records
  /\ down \in [Downloaders -> DownState]
  /\ router \in RouterState
  /\ work \in [Workers -> WorkState]
  /\ got \in [Workers -> SUBSET Records]
  /\ writer \in [Writers -> WriterState]
  /\ cancelled \in BOOLEAN
  /\ out \in [Files -> Data \cup {None}]
  /\ faults \in Nat

\* Nobody sends on a channel that main or the router has closed, which would
\* bring the process down: after close(downloaderToRouterCh) no downloader is
\* left, after Finish the router gives no record away, after
\* close(routerToWriteCh) no worker is left.
NoSendOnClosed ==
  /\ DownloadsClosed => \A d \in Downloaders : down[d].pc # "send"
  /\ \A w \in Workers : work[w].pc = "final" => router.pc \notin {"pick", "give"}
  /\ main = "writes" => \A w \in Workers : work[w].pc \notin {"send", "final"}

\* A run that reports success has written every file of the export: the JSON
\* file of each record that could be read in each of its ecosystems, and every
\* aggregate with all of them.
SuccessIsComplete ==
  main = "success" => \A f \in Expected(skipped) : out[f] = Whole(f, skipped)

\* In a bucket no aggregate is ever replaced by one made of some of the records,
\* not even when a failed write stops the router in the middle.
PublishedIsWhole ==
  ToBucket => \A f \in AggregateFiles : out[f] # None => out[f] = Whole(f, skipped)

\* As long as the run goes on some goroutine of it can: the channels without
\* buffers and the waits for groups never leave everybody waiting for somebody
\* else, in particular not when ctx is done and the receivers leave before
\* their senders. One line per wait of the code.
MainGoes ==
  CASE main = "list" -> ListOver \/ \E d \in Downloaders : down[d].pc = "recv"
    [] main = "downloads" -> \A d \in Downloaders : down[d].pc = "done"
    [] main = "routing" -> router.pc = "done"
    [] OTHER -> \A x \in Writers : writer[x].pc = "done"
DownloaderGoes(d) ==
  CASE down[d].pc = "recv" -> main # "list" \/ cancelled
    [] down[d].pc = "send" -> router.pc = "recv" \/ cancelled
    [] OTHER -> down[d].pc = "read"
RouterGoes ==
  CASE router.pc = "recv" -> DownloadsClosed \/ cancelled
    [] router.pc = "give" -> work[router.to].pc = "recv" \/ cancelled
    [] router.pc = "finish" -> \A w \in Workers : work[w].pc \in {"none", "done"}
    [] OTHER -> router.pc = "pick"
WorkerGoes(w) ==
  CASE work[w].pc = "recv" -> router.pc = "finish" \/ cancelled
    [] work[w].pc \in {"send", "final"} -> cancelled \/ \E x \in Writers : writer[x].pc = "recv"
    [] OTHER -> FALSE
WriterGoes(x) ==
  CASE writer[x].pc = "recv" -> main = "writes" \/ cancelled
    [] OTHER -> writer[x].pc = "write"

NoDeadlock ==
  Running =>
    \/ MainGoes \/ RouterGoes
    \/ \E d \in Downloaders : DownloaderGoes(d)
    \/ \E w \in Workers : WorkerGoes(w)
    \/ \E x \in Writers : WriterGoes(x)

\* The run as the readers of the bucket see it.
Promise == INSTANCE Export WITH
  lost <- skipped,
  result <- IF Running THEN "running" ELSE main

\* What appears in a bucket, and when, is what Export allows.
KeepsPromise == Promise!Steps

\* The run ends, whatever fails on the way.
RunEnds == Promise!Ends
=============================================================================
