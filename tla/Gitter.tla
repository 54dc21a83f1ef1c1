-------------------------------- MODULE Gitter --------------------------------
(***************************************************************************)
(* Concurrent requests to gitter for ONE repository (apps/cli/cmd/gitter). *)
(*                                                                         *)
(* Everything gitter keeps is per URL, so one URL is enough: the clone on  *)
(* disk, the .zst archive next to it, the time of the last fetch, the      *)
(* loaded Repository in repoCache and an entry of invalidRepoCache.        *)
(* Requests share work through singleflight groups: the first to ask leads *)
(* a flight, with its own context and its own arguments, and the others    *)
(* wait for what it returns.  A flight waits for the request semaphore,    *)
(* then for the repository's RWMutex.                                      *)
(*                                                                         *)
(* A version is a state of the remote repository; 0 stands for none.       *)
(***************************************************************************)
EXTENDS Naturals, FiniteSets

CONSTANTS
  Git,          \* requests to GET /git
  Repo,         \* requests to POST /cache and POST /affected-commits
  Tags,         \* requests to GET /tags
  Forced,       \* those with force-update
  Cancellable,  \* those whose client may go away
  Tagged,       \* the versions that have tags
  Slots,        \* concurrent-limit
  MaxVersion,   \* bound: versions of the remote
  MaxFaults     \* bound: failures of git, tar and the network

Requests == Git \cup Repo \cup Tags

ASSUME GitterAssumption ==
  /\ Git \cap Repo = {} /\ Git \cap Tags = {} /\ Repo \cap Tags = {}
  /\ "nobody" \notin Requests
  /\ Forced \subseteq Git \cup Repo
  /\ Cancellable \subseteq Requests
  /\ Tagged \subseteq 1..MaxVersion
  /\ Slots \in Nat \ {0} /\ MaxVersion \in Nat \ {0} /\ MaxFaults \in Nat

VARIABLES
  remote,     \* the version of the remote repository
  dir,        \* the version of the clone on disk, 0 without a .git
  lastFetch,  \* lastFetch[url]: "none", "recent", "expired" (fetchTimeout)
  archive,    \* the .zst file
  cache,      \* the version of the Repository in repoCache, 0 for none
  invalid,    \* the entry of invalidRepoCache: "none", "denied", "empty"
  flight,     \* the flight of each singleflight group
  req,        \* the state of each request
  cancelled,  \* the requests whose context is done
  faults,     \* failures so far
  asked       \* history: the version of the remote when a request arrived

vars == <<remote, dir, lastFetch, archive, cache, invalid, flight, req,
          cancelled, faults, asked>>

-----------------------------------------------------------------------------
Versions == 1..MaxVersion

\* gFetch, gArchive, gLoad, gLocalTags, gLsRemote
Groups == {"fetch", "archive", "load", "local", "remote"}

\* What a function returned: an error, or a version and whether it is whole.
Results == [err : {"none", "denied", "failed"}, ver : 0..MaxVersion, whole : BOOLEAN]
Returned(v, w) == [err |-> "none", ver |-> v, whole |-> w]
Failure(e) == [err |-> e, ver |-> 0, whole |-> FALSE]

FlightPCs == {"none", "slot", "lock", "update", "clone", "tar", "zst", "read", "ran"}
Flights == [pc : FlightPCs, leader : Requests \cup {"nobody"}, slot : BOOLEAN,
            out : Results]
NoFlight == [pc |-> "none", leader |-> "nobody", slot |-> FALSE, out |-> Failure("none")]

\* A request waits in a group, or stands between two of them.
RequestPCs == Groups \cup {"new", "fetched", "loaded", "done"}
RequestStates == [pc : RequestPCs, out : Results]

\* The archive: is there a file, of which version, complete, and is its
\* modification time before the last fetch?
Archives == [there : BOOLEAN, ver : 0..MaxVersion, whole : BOOLEAN, old : BOOLEAN]

TypeOK ==
  /\ remote \in Versions /\ dir \in 0..MaxVersion
  /\ lastFetch \in {"none", "recent", "expired"}
  /\ archive \in Archives
  /\ cache \in 0..MaxVersion
  /\ invalid \in {"none", "denied", "empty"}
  /\ flight \in [Groups -> Flights]
  /\ req \in [Requests -> RequestStates]
  /\ cancelled \subseteq Requests
  /\ faults \in 0..MaxFaults
  /\ asked \in [Requests -> 0..MaxVersion]

Init ==
  /\ remote = 1 /\ dir = 0 /\ lastFetch = "none"
  /\ archive = [there |-> FALSE, ver |-> 0, whole |-> FALSE, old |-> FALSE]
  /\ cache = 0 /\ invalid = "none"
  /\ flight = [g \in Groups |-> NoFlight]
  /\ req = [r \in Requests |-> [pc |-> "new", out |-> Failure("none")]]
  /\ cancelled = {} /\ faults = 0
  /\ asked = [r \in Requests |-> 0]

-----------------------------------------------------------------------------
(* The environment. *)

Others == <<dir, archive, flight, req, faults, asked>>

\* Someone pushes to the remote repository.
Push ==
  /\ remote < MaxVersion /\ remote' = remote + 1
  /\ UNCHANGED <<lastFetch, cache, invalid, cancelled>> /\ UNCHANGED Others

\* fetchTimeout passes, or an entry of a cache ends its time to live.
FetchExpires ==
  /\ lastFetch = "recent" /\ lastFetch' = "expired"
  /\ UNCHANGED <<remote, cache, invalid, cancelled>> /\ UNCHANGED Others

CacheExpires ==
  /\ cache # 0 /\ cache' = 0
  /\ UNCHANGED <<remote, lastFetch, invalid, cancelled>> /\ UNCHANGED Others

InvalidExpires ==
  /\ invalid # "none" /\ invalid' = "none"
  /\ UNCHANGED <<remote, lastFetch, cache, cancelled>> /\ UNCHANGED Others

\* A client goes away: the context of its request is done.
Cancel(r) ==
  /\ r \in Cancellable \ cancelled /\ req[r].pc \notin {"new", "done"}
  /\ cancelled' = cancelled \cup {r}
  /\ UNCHANGED <<remote, lastFetch, cache, invalid>> /\ UNCHANGED Others

\* git, tar or the network fails.
Fault == faults < MaxFaults /\ faults' = faults + 1

-----------------------------------------------------------------------------
(* singleflight, and the semaphore of runWithSemaphore. *)

\* r calls Do on group g: it leads a new flight, at pc, or joins the one there.
Do(r, g, pc) ==
  /\ req' = [req EXCEPT ![r] = [@ EXCEPT !.pc = g]]
  /\ flight' = IF flight[g].pc # "none" THEN flight
               ELSE [flight EXCEPT ![g] =
                       [NoFlight EXCEPT !.pc = pc, !.leader = r]]

Moves(g, pc) == flight' = [flight EXCEPT ![g] = [@ EXCEPT !.pc = pc]]

\* The function of the flight returns; its deferred calls give back the lock
\* and the slot. Callers learn of it in Finish.
Ends(g, out) ==
  flight' = [flight EXCEPT ![g] = [@ EXCEPT !.pc = "ran", !.slot = FALSE, !.out = out]]

Leading(g) == flight[g].leader
Interrupted(g) == Leading(g) \in cancelled

HoldingSlots == {g \in Groups : flight[g].slot}
SlotFree == Cardinality(HoldingSlots) < Slots

TakeSlot(g) ==
  /\ flight[g].pc = "slot" /\ SlotFree
  /\ flight' = [flight EXCEPT ![g] = [@ EXCEPT !.pc = "lock", !.slot = TRUE]]
  /\ UNCHANGED <<remote, dir, lastFetch, archive, cache, invalid, req, cancelled,
                 faults, asked>>

\* select takes the done context, even when a slot is free as well.
LoseSlot(g) ==
  /\ flight[g].pc = "slot" /\ Interrupted(g)
  /\ Ends(g, Failure("failed"))
  /\ UNCHANGED <<remote, dir, lastFetch, archive, cache, invalid, req, cancelled,
                 faults, asked>>

\* The RWMutex of the repository.
Writing == flight["fetch"].pc \in {"update", "clone"}
\* Mutant: a load takes the read lock before it has its slot.
ReadingFromSlot ==
  flight["archive"].pc \in {"tar", "zst"} \/ flight["load"].pc \in {"slot", "read"}

Reading == flight["archive"].pc \in {"tar", "zst"} \/ flight["load"].pc = "read"
ReadLock == ~Writing
WriteLock == ~Writing /\ ~Reading

-----------------------------------------------------------------------------
(* FetchRepo, under the write lock. *)

\* Mutant: a repository never fetched does not need a fetch.
FetchNeededIfExpired == Leading("fetch") \in Forced \/ lastFetch = "expired"

\* Mutant: the force update is left to the age of the fetch.
FetchNeededByAge == lastFetch # "recent"

\* "If forceUpdate || !ok || time.Since(accessTime) > fetchTimeout", with the
\* forceUpdate of the leader; the tags handler never forces.
FetchNeeded == Leading("fetch") \in Forced \/ lastFetch # "recent"

FetchLock ==
  /\ flight["fetch"].pc = "lock" /\ WriteLock
  /\ \/ /\ FetchNeeded /\ UNCHANGED lastFetch
        /\ flight' = [flight EXCEPT !["fetch"] =
             [@ EXCEPT !.pc = IF dir = 0 THEN "clone" ELSE "update",
                       !.out = Returned(remote, TRUE)]]
     \/ /\ ~FetchNeeded /\ dir # 0
        /\ Ends("fetch", Returned(dir, TRUE))
        /\ UNCHANGED lastFetch
     \/ /\ ~FetchNeeded /\ dir = 0
        /\ lastFetch' = "none"
        /\ Ends("fetch", Failure("failed"))
  /\ UNCHANGED <<remote, dir, archive, cache, invalid, req, cancelled, faults,
                 asked>>

\* Mutant: the fetch time is not set.
NoUpdateLastFetch == UNCHANGED <<lastFetch, archive>>

\* updateLastFetch(repoURL): the archive becomes older than the last fetch.
UpdateLastFetch ==
  /\ lastFetch' = "recent"
  /\ archive' = [archive EXCEPT !.old = TRUE]

\* git brings the clone to a version the remote had while the command ran.
FetchOk(pc) ==
  /\ flight["fetch"].pc = pc /\ ~Interrupted("fetch")
  /\ \E v \in flight["fetch"].out.ver..remote :
       dir' = v /\ Ends("fetch", Returned(v, TRUE))
  /\ UpdateLastFetch
  /\ UNCHANGED <<remote, cache, invalid, req, cancelled, faults, asked>>

UpdateOk == FetchOk("update")   \* git fetch and reset, or again after a prune
CloneOk == FetchOk("clone")

\* 403 Forbidden: the local clone is used, the fetch time stays as it was.
UpdateForbidden ==
  /\ flight["fetch"].pc = "update" /\ Fault
  /\ Ends("fetch", Returned(dir, TRUE))
  /\ UNCHANGED <<remote, dir, lastFetch, archive, cache, invalid, req, cancelled,
                 asked>>

\* Any other error: the clone is deleted and cloned again.
UpdateFails ==
  /\ flight["fetch"].pc = "update"
  /\ Fault \/ (Interrupted("fetch") /\ UNCHANGED faults)
  /\ dir' = 0 /\ Moves("fetch", "clone")
  /\ UNCHANGED <<remote, lastFetch, archive, cache, invalid, req, cancelled,
                 asked>>

CloneFails ==
  /\ flight["fetch"].pc = "clone"
  /\ \/ Fault /\ \E e \in {"denied", "failed"} : Ends("fetch", Failure(e))
     \/ Interrupted("fetch") /\ UNCHANGED faults /\ Ends("fetch", Failure("failed"))
  /\ UNCHANGED <<remote, dir, lastFetch, archive, cache, invalid, req, cancelled,
                 asked>>

-----------------------------------------------------------------------------
(* ArchiveRepo and LoadRepository, under the read lock. *)

\* The file is missing, or older than the last fetch (the zero time if none).
ArchiveStale == ~archive.there \/ (archive.old /\ lastFetch # "none")

\* tar truncates the file before it writes it; a done context starts no tar.
ArchiveLock ==
  /\ flight["archive"].pc = "lock" /\ ReadLock
  /\ \/ /\ ~ArchiveStale /\ Moves("archive", "zst") /\ UNCHANGED archive
     \/ /\ ArchiveStale /\ ~Interrupted("archive") /\ Moves("archive", "tar")
        /\ archive' = [there |-> TRUE, ver |-> dir, whole |-> FALSE, old |-> FALSE]
     \/ /\ ArchiveStale /\ Interrupted("archive") /\ UNCHANGED archive
        /\ Ends("archive", Failure("failed"))
  /\ UNCHANGED <<remote, dir, lastFetch, cache, invalid, req, cancelled, faults,
                 asked>>

TarOk ==
  /\ flight["archive"].pc = "tar" /\ dir # 0 /\ ~Interrupted("archive")
  /\ archive' = [archive EXCEPT !.whole = TRUE]
  /\ Moves("archive", "zst")
  /\ UNCHANGED <<remote, dir, lastFetch, cache, invalid, req, cancelled, faults,
                 asked>>

\* What tar has written so far stays where it is.
TarFails ==
  /\ flight["archive"].pc = "tar"
  /\ Fault \/ ((Interrupted("archive") \/ dir = 0) /\ UNCHANGED faults)
  /\ Ends("archive", Failure("failed"))
  /\ UNCHANGED <<remote, dir, lastFetch, archive, cache, invalid, req, cancelled,
                 asked>>

ReadArchive ==
  /\ flight["archive"].pc = "zst"
  /\ Ends("archive", IF Interrupted("archive") THEN Failure("failed")
                     ELSE Returned(archive.ver, archive.whole))
  /\ UNCHANGED <<remote, dir, lastFetch, archive, cache, invalid, req, cancelled,
                 faults, asked>>

LoadLock ==
  /\ flight["load"].pc = "lock" /\ ReadLock /\ Moves("load", "read")
  /\ UNCHANGED <<remote, dir, lastFetch, archive, cache, invalid, req, cancelled,
                 faults, asked>>

LoadOk ==
  /\ flight["load"].pc = "read" /\ dir # 0 /\ ~Interrupted("load")
  /\ Ends("load", Returned(dir, TRUE))
  /\ UNCHANGED <<remote, dir, lastFetch, archive, cache, invalid, req, cancelled,
                 faults, asked>>

LoadFails ==
  /\ flight["load"].pc = "read"
  /\ Fault \/ ((Interrupted("load") \/ dir = 0) /\ UNCHANGED faults)
  /\ Ends("load", Failure("failed"))
  /\ UNCHANGED <<remote, dir, lastFetch, archive, cache, invalid, req, cancelled,
                 asked>>

-----------------------------------------------------------------------------
(* GetLocalTags and GetRemoteTags, without a lock or a slot. *)

\* git show-ref exits with 1 both when there are no tags and when a clone has
\* not fetched its references yet; both are taken for "no tags".
LocalTags ==
  /\ flight["local"].pc = "read" /\ ~Interrupted("local")
  /\ dir # 0 \/ flight["fetch"].pc = "clone"
  /\ Ends("local", Returned(dir, ~Writing))
  /\ UNCHANGED <<remote, dir, lastFetch, archive, cache, invalid, req, cancelled,
                 faults, asked>>

LocalTagsFail ==
  /\ flight["local"].pc = "read"
  /\ Fault \/ ((Interrupted("local") \/ dir = 0) /\ UNCHANGED faults)
  /\ Ends("local", Failure("failed"))
  /\ UNCHANGED <<remote, dir, lastFetch, archive, cache, invalid, req, cancelled,
                 asked>>

RemoteTags ==
  /\ flight["remote"].pc = "read" /\ ~Interrupted("remote")
  /\ Ends("remote", Returned(remote, TRUE))
  /\ UNCHANGED <<remote, dir, lastFetch, archive, cache, invalid, req, cancelled,
                 faults, asked>>

RemoteTagsFail ==
  /\ flight["remote"].pc = "read"
  /\ \/ Fault /\ \E e \in {"denied", "failed"} : Ends("remote", Failure(e))
     \/ Interrupted("remote") /\ UNCHANGED faults /\ Ends("remote", Failure("failed"))
  /\ UNCHANGED <<remote, dir, lastFetch, archive, cache, invalid, req, cancelled,
                 asked>>

-----------------------------------------------------------------------------
(* The handlers. *)

\* Mutant: a status the cache does not know.
RememberedTagged(v) == IF v \in Tagged THEN "tagged" ELSE "empty"

\* A version without tags is remembered as invalid.
Remembered(v) == IF v \in Tagged THEN invalid ELSE "empty"

Answers(r, out) == req' = [req EXCEPT ![r] = [pc |-> "done", out |-> out]]

\* gitHandler: doFetch.
ArriveGit(r) ==
  /\ r \in Git /\ Do(r, "fetch", "slot") /\ UNCHANGED invalid

\* getFreshRepo: repoCache, unless the update is forced; else doFetch.
ArriveRepo(r) ==
  /\ r \in Repo /\ UNCHANGED invalid
  /\ \/ /\ r \notin Forced /\ cache # 0
        /\ Answers(r, Returned(cache, TRUE)) /\ UNCHANGED flight
     \/ /\ r \in Forced \/ cache = 0
        /\ Do(r, "fetch", "slot")

\* tagsHandler: invalidRepoCache, then repoCache, then the clone if there is
\* one on disk (its .git may be half made), else the remote.
ArriveTags(r) ==
  /\ r \in Tags
  /\ \/ /\ invalid # "none" /\ UNCHANGED <<flight, invalid>>
        /\ Answers(r, IF invalid = "denied" THEN Failure("denied") ELSE Returned(0, TRUE))
     \/ /\ invalid = "none" /\ cache # 0
        /\ Answers(r, Returned(cache, TRUE))
        /\ invalid' = Remembered(cache) /\ UNCHANGED flight
     \/ /\ invalid = "none" /\ cache = 0 /\ UNCHANGED invalid
        /\ \/ (dir # 0 \/ flight["fetch"].pc = "clone") /\ Do(r, "fetch", "lock")
           \/ dir = 0 /\ Do(r, "remote", "read")

Arrive(r) ==
  /\ req[r].pc = "new"
  /\ asked' = [asked EXCEPT ![r] = remote]
  /\ ArriveGit(r) \/ ArriveRepo(r) \/ ArriveTags(r)
  /\ UNCHANGED <<remote, dir, lastFetch, archive, cache, cancelled, faults>>

\* The fetch is done: archive, load or list.
Fetched(r) ==
  /\ req[r].pc = "fetched"
  /\ \/ r \in Git /\ Do(r, "archive", "slot")
     \/ r \in Repo /\ Do(r, "load", "slot")
     \/ r \in Tags /\ Do(r, "local", "read")
  /\ UNCHANGED <<remote, dir, lastFetch, archive, cache, invalid, cancelled,
                 faults, asked>>

\* repoCache.SetWithTTL, by every caller of a load; the cache may drop it.
CachePut(r) ==
  /\ req[r].pc = "loaded"
  /\ cache' \in {cache, req[r].out.ver}
  /\ Answers(r, req[r].out)
  /\ UNCHANGED <<remote, dir, lastFetch, archive, invalid, flight, cancelled,
                 faults, asked>>

-----------------------------------------------------------------------------
(* The end of a flight: it leaves its group, and its callers go on. *)

Callers(g) == {r \in Requests : req[r].pc = g}

\* Mutant: a failed step is tried again, for a client that has gone as well.
AfterFlightRetrying(g, out) ==
  CASE out.err # "none" /\ g # "fetch" -> [pc |-> "fetched", out |-> out]
    [] out.err # "none" /\ g = "fetch" -> [pc |-> "done", out |-> out]
    [] out.err = "none" /\ g = "fetch" -> [pc |-> "fetched", out |-> out]
    [] out.err = "none" /\ g = "load" -> [pc |-> "loaded", out |-> out]
    [] OTHER -> [pc |-> "done", out |-> out]

\* A caller fails with its flight, or goes on to the next one.
AfterFlight(g, out) ==
  CASE out.err # "none" -> [pc |-> "done", out |-> out]
    [] out.err = "none" /\ g = "fetch" -> [pc |-> "fetched", out |-> out]
    [] out.err = "none" /\ g = "load" -> [pc |-> "loaded", out |-> out]
    [] OTHER -> [pc |-> "done", out |-> out]

\* What the tags handlers among the callers remember of it.
Invalidated(g, out) ==
  IF Callers(g) \cap Tags = {} THEN invalid
  ELSE IF out.err = "denied" /\ g \in {"fetch", "remote"} THEN "denied"
  ELSE IF out.err = "none" /\ g \in {"local", "remote"} THEN Remembered(out.ver)
  ELSE invalid

Finish(g) ==
  /\ flight[g].pc = "ran"
  /\ LET out == flight[g].out IN
     /\ req' = [r \in Requests |-> IF r \in Callers(g) THEN AfterFlight(g, out) ELSE req[r]]
     /\ invalid' = Invalidated(g, out)
  /\ flight' = [flight EXCEPT ![g] = NoFlight]
  /\ UNCHANGED <<remote, dir, lastFetch, archive, cache, cancelled, faults, asked>>

-----------------------------------------------------------------------------
Environment ==
  \/ Push \/ FetchExpires \/ CacheExpires \/ InvalidExpires
  \/ \E r \in Requests : Arrive(r) \/ Cancel(r)

Fetching == FetchLock \/ UpdateOk \/ UpdateForbidden \/ UpdateFails \/ CloneOk \/ CloneFails
Archiving == ArchiveLock \/ TarOk \/ TarFails \/ ReadArchive
Loading == LoadLock \/ LoadOk \/ LoadFails
Listing == LocalTags \/ LocalTagsFail \/ RemoteTags \/ RemoteTagsFail
Scheduling(g) == TakeSlot(g) \/ LoseSlot(g) \/ Finish(g)
Handling(r) == Fetched(r) \/ CachePut(r)

\* Every request has been answered.
AllDone ==
  /\ \A r \in Requests : req[r].pc = "done"
  /\ UNCHANGED vars

Next ==
  \/ Environment
  \/ Fetching \/ Archiving \/ Loading \/ Listing
  \/ \E g \in Groups : Scheduling(g)
  \/ \E r \in Requests : Handling(r)
  \/ AllDone

\* Goroutines run, and every command gitter starts ends.
Fairness ==
  /\ WF_vars(Fetching) /\ WF_vars(Archiving) /\ WF_vars(Loading) /\ WF_vars(Listing)
  /\ \A g \in Groups : WF_vars(TakeSlot(g)) /\ WF_vars(Finish(g))
  /\ \A r \in Requests : WF_vars(Handling(r))

Spec == Init /\ [][Next]_vars
FairSpec == Spec /\ Fairness

-----------------------------------------------------------------------------
(* Properties *)

\* A complete archive that ArchiveRepo would not rebuild shows the clone it
\* lies next to: no path of FetchRepo changes the clone without moving the
\* time ArchiveRepo compares with (403, reclone and cancelled fetch included),
\* and no fetch slips in between the two ends of a tar.
ArchiveShowsClone == dir # 0 /\ ~ArchiveStale /\ archive.whole => archive.ver = dir

\* A request fails only after some command failed or some client went away:
\* whatever the interleaving of fetches, expiries and loads, nobody finds the
\* clone missing that lastFetch promises (FetchRepo's "double check").
ErrorsAreCaused ==
  faults = 0 /\ cancelled = {} => \A r \in Requests : req[r].out.err = "none"

\* Every request that comes in is answered: waiting for the semaphore, for the
\* RWMutex and for the flight of another request never closes a circle. An
\* answered request stays so, and requests are finitely many.
EveryRequestAnswered ==
  <>[](\A r \in Requests : req[r].pc \in {"new", "done"})

\* Behind it, in every state: as long as a request waits, some flight or some
\* handler has a step to take (a push or an expiry does not count): a slot to
\* take, a lock that is free, a command that runs, a result to hand out. What
\* makes it hold is that a lock is held by a running command alone, and a slot
\* by that or by a flight that waits for the lock (runWithSemaphore comes
\* first), never by a flight that waits for another flight or by one that is over.
Runnable(g) ==
  \/ flight[g].pc \in FlightPCs \ {"none", "slot", "lock"}
  \/ flight[g].pc = "slot" /\ SlotFree
  \/ flight[g].pc = "lock" /\ IF g = "fetch" THEN WriteLock ELSE ReadLock

NobodyStuck ==
  (\E r \in Requests : req[r].pc \notin {"new", "done"}) =>
    \/ \E g \in Groups : Runnable(g)
    \/ \E r \in Requests : req[r].pc \in {"fetched", "loaded"}

\* "If forceUpdate is true, it will always refetch and rebuild the repository"
\* (getFreshRepo): a fetch led by a forced request brings a state the remote
\* had after that request came in, however long the flight waited for its slot
\* and the lock, and through a deleted clone. A 403 answers with the old clone,
\* hence faults = 0; a forced request that joins another's flight gets less.
ForcedFetchIsFresh ==
  LET fetch == flight["fetch"] IN
  faults = 0 /\ fetch.pc = "ran" /\ fetch.out.err = "none" /\ fetch.leader \in Forced
    => fetch.out.ver >= asked[fetch.leader]

=============================================================================
