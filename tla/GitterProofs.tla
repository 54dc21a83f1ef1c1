----------------------------- MODULE GitterProofs -----------------------------
(***************************************************************************)
(* Proofs about Gitter: the archive shows the clone, and nothing fails     *)
(* without a cause, for every set of requests and every bound.             *)
(***************************************************************************)
EXTENDS Gitter, TLAPS, FiniteSetTheorems

-----------------------------------------------------------------------------
(* The inductive invariant. *)

\* repoLocks: a fetch excludes an archiving and a load.
LockExcludes == Writing => ~Reading

\* While tar runs the clone is the one tar started on.
TarSnapshot == flight["archive"].pc = "tar" => archive.ver = dir

\* A fetch under way has seen a version of the remote.
FetchSnapshot == Writing => flight["fetch"].out.ver # 0

\* Whoever is past a fetch may count on the clone.
Healthy ==
  /\ lastFetch = "recent" => dir # 0
  /\ flight["fetch"].pc = "ran" => dir # 0
  /\ \A g \in {"archive", "load", "local"} : flight[g].pc # "none" => dir # 0
  /\ \A r \in Requests :
       req[r].pc \in {"fetched", "archive", "load", "local"} => dir # 0
  /\ invalid # "denied"
  /\ \A g \in Groups : flight[g].out.err = "none"
  /\ \A r \in Requests : req[r].out.err = "none"

Untroubled == faults = 0 /\ cancelled = {}

IInv ==
  /\ TypeOK
  /\ LockExcludes
  /\ TarSnapshot
  /\ FetchSnapshot
  /\ ArchiveShowsClone
  /\ Untroubled => Healthy

-----------------------------------------------------------------------------
(* What the singleflight operators do to the flights and the requests. *)

\* Results, failures and the empty flight have their types.
LEMMA ResultTypes ==
  /\ \A v \in 0..MaxVersion, w \in BOOLEAN :
       Returned(v, w) \in Results /\ Returned(v, w).err = "none"
  /\ \A e \in {"none", "denied", "failed"} : Failure(e) \in Results /\ Failure(e).err = e
  /\ NoFlight \in Flights /\ NoFlight.pc = "none" /\ NoFlight.out.err = "none"
<1> USE GitterAssumption
<1> QED BY DEF Returned, Failure, Results, NoFlight, Flights, FlightPCs

\* Ends touches one flight and leaves the function's result in it.
LEMMA EndsFacts ==
  ASSUME flight \in [Groups -> Flights], NEW g \in Groups, NEW out \in Results,
         Ends(g, out)
  PROVE  /\ flight' \in [Groups -> Flights]
         /\ flight'[g].pc = "ran" /\ flight'[g].out = out
         /\ \A h \in Groups : h # g => flight'[h] = flight[h]
BY DEF Ends, Flights, FlightPCs

\* Moves touches one program counter.
LEMMA MovesFacts ==
  ASSUME flight \in [Groups -> Flights], NEW g \in Groups, NEW pc \in FlightPCs,
         Moves(g, pc)
  PROVE  /\ flight' \in [Groups -> Flights]
         /\ flight'[g].pc = pc /\ flight'[g].out = flight[g].out
         /\ \A h \in Groups : h # g => flight'[h] = flight[h]
BY DEF Moves, Flights

\* Do makes its caller wait in the group; a flight it starts has no result yet.
LEMMA DoFacts ==
  ASSUME flight \in [Groups -> Flights], req \in [Requests -> RequestStates],
         NEW r \in Requests, NEW g \in Groups, NEW pc \in FlightPCs, Do(r, g, pc)
  PROVE  /\ flight' \in [Groups -> Flights]
         /\ req' \in [Requests -> RequestStates]
         /\ req'[r].pc = g /\ req'[r].out = req[r].out
         /\ \A q \in Requests : q # r => req'[q] = req[q]
         /\ \A h \in Groups : h # g => flight'[h] = flight[h]
         /\ \/ flight'[g] = flight[g]
            \/ flight[g].pc = "none" /\ flight'[g].pc = pc /\ flight'[g].out.err = "none"
<1>1. req' = [req EXCEPT ![r] = [@ EXCEPT !.pc = g]]  BY DEF Do
<1>2. g \in RequestPCs  BY DEF RequestPCs
<1>3. /\ req' \in [Requests -> RequestStates]
      /\ req'[r].pc = g /\ req'[r].out = req[r].out
      /\ \A q \in Requests : q # r => req'[q] = req[q]
  BY <1>1, <1>2 DEF RequestStates
<1>4. CASE flight[g].pc # "none"
  BY <1>3, <1>4 DEF Do
<1>5. CASE flight[g].pc = "none"
  <2>1. flight' = [flight EXCEPT ![g] = [NoFlight EXCEPT !.pc = pc, !.leader = r]]
    BY <1>5 DEF Do
  <2>2. [NoFlight EXCEPT !.pc = pc, !.leader = r] \in Flights
    BY ResultTypes DEF Flights, NoFlight
  <2>3. /\ flight'[g].pc = pc /\ flight'[g].out = NoFlight.out
        /\ flight' \in [Groups -> Flights]
        /\ \A h \in Groups : h # g => flight'[h] = flight[h]
    BY <2>1, <2>2 DEF NoFlight
  <2> QED BY <1>3, <1>5, <2>3, ResultTypes
<1> QED BY <1>4, <1>5

\* An answer ends one request.
LEMMA AnswersFacts ==
  ASSUME req \in [Requests -> RequestStates], NEW r \in Requests, NEW out \in Results,
         Answers(r, out)
  PROVE  /\ req' \in [Requests -> RequestStates]
         /\ req'[r].pc = "done" /\ req'[r].out = out
         /\ \A q \in Requests : q # r => req'[q] = req[q]
BY DEF Answers, RequestStates, RequestPCs

\* A failure is a trouble, and troubles are never forgotten.
LEMMA FaultIsTrouble ==
  ASSUME TypeOK, Fault
  PROVE  faults' \in 0..MaxFaults /\ faults' # 0
BY GitterAssumption DEF TypeOK, Fault

\* A flight whose leader went away is a trouble.
LEMMA InterruptedIsTrouble ==
  ASSUME NEW g \in Groups, Interrupted(g)
  PROVE  cancelled # {}
BY DEF Interrupted

-----------------------------------------------------------------------------
(* Every action preserves the invariant. *)

\* The initial state satisfies it.
LEMMA InitIInv == Init => IInv
<1> SUFFICES ASSUME Init PROVE IInv
  OBVIOUS
<1> USE GitterAssumption, ResultTypes
<1>1. TypeOK
  BY DEF Init, TypeOK, Versions, Archives, RequestStates, RequestPCs
<1>2. LockExcludes /\ TarSnapshot /\ FetchSnapshot /\ ArchiveShowsClone
  BY DEF Init, LockExcludes, Writing, Reading, TarSnapshot, FetchSnapshot, ArchiveShowsClone, Groups
<1>3. Healthy
  BY DEF Init, Healthy, Groups
<1> QED BY <1>1, <1>2, <1>3 DEF IInv

\* Pushes, expiries and departing clients: no flight and no file changes.
LEMMA EnvironmentKeeps ==
  ASSUME IInv,
         \/ Push \/ FetchExpires \/ CacheExpires \/ InvalidExpires
         \/ \E r \in Requests : Cancel(r)
  PROVE  IInv'
<1> USE GitterAssumption DEF Others
<1>1. UNCHANGED Others /\ UNCHANGED <<flight, req, dir, archive>>
  BY DEF Push, FetchExpires, CacheExpires, InvalidExpires, Cancel
<1>2. TypeOK'
  BY <1>1 DEF IInv, TypeOK, Push, FetchExpires, CacheExpires, InvalidExpires,
              Cancel, Versions
<1>3. LockExcludes' /\ TarSnapshot' /\ FetchSnapshot'
  BY <1>1 DEF IInv, LockExcludes, Writing, Reading, TarSnapshot, FetchSnapshot
<1>4. ArchiveStale' = ArchiveStale
  BY <1>1 DEF ArchiveStale, Push, FetchExpires, CacheExpires, InvalidExpires, Cancel
<1>5. ArchiveShowsClone'
  BY <1>1, <1>4 DEF IInv, ArchiveShowsClone
<1>6. Untroubled' => Healthy'
  BY <1>1 DEF IInv, Untroubled, Healthy, Push, FetchExpires, CacheExpires,
              InvalidExpires, Cancel
<1> QED BY <1>2, <1>3, <1>5, <1>6 DEF IInv

\* Waiting for a slot, and giving up.
LEMMA SlotKeeps ==
  ASSUME IInv, NEW g \in Groups, TakeSlot(g) \/ LoseSlot(g)
  PROVE  IInv'
<1> USE GitterAssumption, ResultTypes
<1>1. /\ UNCHANGED <<remote, dir, lastFetch, archive, cache, invalid, req,
                     cancelled, faults, asked>>
      /\ flight[g].pc = "slot"
  BY DEF TakeSlot, LoseSlot
<1>2. flight \in [Groups -> Flights]
  BY DEF IInv, TypeOK
<1>3. CASE TakeSlot(g)
  <2>1. /\ flight' \in [Groups -> Flights]
        /\ flight'[g].pc = "lock" /\ flight'[g].out = flight[g].out
        /\ \A h \in Groups : h # g => flight'[h] = flight[h]
    BY <1>2, <1>3 DEF TakeSlot, Flights, FlightPCs
  <2>2. TypeOK'
    BY <1>1, <2>1 DEF IInv, TypeOK
  <2>3. LockExcludes' /\ TarSnapshot' /\ FetchSnapshot'
    BY <1>1, <2>1 DEF IInv, LockExcludes, Writing, Reading, TarSnapshot, FetchSnapshot, Groups
  <2>4. ArchiveShowsClone'
    BY <1>1 DEF IInv, ArchiveShowsClone, ArchiveStale
  <2>5. Untroubled' => Healthy'
    BY <1>1, <2>1 DEF IInv, Untroubled, Healthy, Groups
  <2> QED BY <2>2, <2>3, <2>4, <2>5 DEF IInv
<1>4. CASE LoseSlot(g)
  <2>1. Ends(g, Failure("failed")) /\ Interrupted(g)
    BY <1>4 DEF LoseSlot
  <2>2. /\ flight' \in [Groups -> Flights] /\ flight'[g].pc = "ran"
        /\ \A h \in Groups : h # g => flight'[h] = flight[h]
    BY <1>2, <2>1, EndsFacts
  <2>3. TypeOK'
    BY <1>1, <2>2 DEF IInv, TypeOK
  <2>4. LockExcludes' /\ TarSnapshot' /\ FetchSnapshot'
    BY <1>1, <2>2 DEF IInv, LockExcludes, Writing, Reading, TarSnapshot, FetchSnapshot, Groups
  <2>5. ArchiveShowsClone'
    BY <1>1 DEF IInv, ArchiveShowsClone, ArchiveStale
  <2>6. ~Untroubled'
    BY <1>1, <2>1, InterruptedIsTrouble DEF Untroubled
  <2> QED BY <2>3, <2>4, <2>5, <2>6 DEF IInv
<1> QED BY <1>3, <1>4

\* FetchRepo takes the write lock: nobody reads, and unless a fetch is needed
\* the clone is there.
LEMMA FetchLockKeeps ==
  ASSUME IInv, FetchLock
  PROVE  IInv'
<1> USE GitterAssumption, ResultTypes
<1>1. /\ UNCHANGED <<remote, dir, archive, cache, invalid, req, cancelled,
                     faults, asked>>
      /\ flight["fetch"].pc = "lock" /\ ~Reading
  BY DEF FetchLock, WriteLock
<1>2. flight \in [Groups -> Flights] /\ "fetch" \in Groups
      /\ dir \in 0..MaxVersion /\ remote \in Versions
      /\ remote \in 0..MaxVersion /\ lastFetch \in {"none", "recent", "expired"}
  BY DEF IInv, TypeOK, Groups, Versions
<1>3. CASE /\ FetchNeeded /\ UNCHANGED lastFetch
           /\ flight' = [flight EXCEPT !["fetch"] =
                [@ EXCEPT !.pc = IF dir = 0 THEN "clone" ELSE "update",
                          !.out = Returned(remote, TRUE)]]
  <2>1. /\ flight' \in [Groups -> Flights]
        /\ flight'["fetch"].pc \in {"clone", "update"}
        /\ flight'["fetch"].out = Returned(remote, TRUE)
        /\ \A h \in Groups : h # "fetch" => flight'[h] = flight[h]
    BY <1>2, <1>3 DEF Flights, FlightPCs
  <2>2. TypeOK'
    BY <1>1, <1>3, <2>1 DEF IInv, TypeOK
  <2>3. LockExcludes' /\ TarSnapshot' /\ FetchSnapshot'
    <3>1. flight'["fetch"].out.ver # 0
      BY <1>2, <2>1 DEF Returned, Versions
    <3> QED BY <1>1, <2>1, <3>1
            DEF IInv, LockExcludes, Writing, Reading, TarSnapshot, FetchSnapshot, Groups
  <2>4. ArchiveShowsClone'
    BY <1>1, <1>3 DEF IInv, ArchiveShowsClone, ArchiveStale
  <2>5. Returned(remote, TRUE).err = "none"
    BY <1>2
  <2>6. Untroubled' => Healthy'
    BY <1>1, <1>3, <2>1, <2>5 DEF IInv, Untroubled, Healthy, Groups
  <2> QED BY <2>2, <2>3, <2>4, <2>6 DEF IInv
<1>4. CASE ~FetchNeeded /\ dir # 0 /\ Ends("fetch", Returned(dir, TRUE)) /\ UNCHANGED lastFetch
  <2>1. /\ flight' \in [Groups -> Flights] /\ flight'["fetch"].pc = "ran"
        /\ flight'["fetch"].out.err = "none"
        /\ \A h \in Groups : h # "fetch" => flight'[h] = flight[h]
    BY <1>2, <1>4, EndsFacts
  <2>2. TypeOK'
    BY <1>1, <1>4, <2>1 DEF IInv, TypeOK
  <2>3. LockExcludes' /\ TarSnapshot' /\ FetchSnapshot'
    BY <1>1, <2>1 DEF IInv, LockExcludes, Writing, Reading, TarSnapshot, FetchSnapshot, Groups
  <2>4. ArchiveShowsClone'
    BY <1>1, <1>4 DEF IInv, ArchiveShowsClone, ArchiveStale
  <2>5. Untroubled' => Healthy'
    BY <1>1, <1>4, <2>1 DEF IInv, Untroubled, Healthy, Groups
  <2> QED BY <2>2, <2>3, <2>4, <2>5 DEF IInv
<1>5. CASE ~FetchNeeded /\ dir = 0 /\ lastFetch' = "none" /\ Ends("fetch", Failure("failed"))
  <2>1. /\ flight' \in [Groups -> Flights] /\ flight'["fetch"].pc = "ran"
        /\ \A h \in Groups : h # "fetch" => flight'[h] = flight[h]
    BY <1>2, <1>5, EndsFacts
  <2>2. TypeOK'
    BY <1>1, <1>5, <2>1 DEF IInv, TypeOK
  <2>3. LockExcludes' /\ TarSnapshot' /\ FetchSnapshot'
    BY <1>1, <2>1 DEF IInv, LockExcludes, Writing, Reading, TarSnapshot, FetchSnapshot, Groups
  <2>4. ArchiveShowsClone'
    BY <1>1, <1>5 DEF ArchiveShowsClone
  <2>5. lastFetch = "recent"
    BY <1>2, <1>5 DEF FetchNeeded
  <2>6. ~Untroubled'
    BY <1>1, <1>5, <2>5 DEF IInv, Untroubled, Healthy
  <2> QED BY <2>2, <2>3, <2>4, <2>6 DEF IInv
<1> QED BY <1>3, <1>4, <1>5 DEF FetchLock

\* A fetch or a clone succeeds: the clone changes, and the archive is old.
LEMMA FetchOkKeeps ==
  ASSUME IInv, UpdateOk \/ CloneOk
  PROVE  IInv'
<1> USE GitterAssumption, ResultTypes
<1>1. PICK pc \in {"update", "clone"} : FetchOk(pc)
  BY DEF UpdateOk, CloneOk
<1>2. /\ UNCHANGED <<remote, cache, invalid, req, cancelled, faults, asked>>
      /\ flight["fetch"].pc \in {"update", "clone"}
      /\ lastFetch' = "recent" /\ archive' = [archive EXCEPT !.old = TRUE]
  BY <1>1 DEF FetchOk, UpdateLastFetch
<1>3. PICK v \in flight["fetch"].out.ver..remote :
        dir' = v /\ Ends("fetch", Returned(v, TRUE))
  BY <1>1 DEF FetchOk
<1>4. /\ flight \in [Groups -> Flights] /\ "fetch" \in Groups
      /\ remote \in 1..MaxVersion /\ archive \in Archives
  BY DEF IInv, TypeOK, Groups, Versions
<1>5. flight["fetch"].out.ver \in 0..MaxVersion
  BY <1>4 DEF Flights, Results
<1>6. v \in 0..MaxVersion
  BY <1>4, <1>5
<1>7. /\ flight' \in [Groups -> Flights] /\ flight'["fetch"].pc = "ran"
      /\ flight'["fetch"].out.err = "none"
      /\ \A h \in Groups : h # "fetch" => flight'[h] = flight[h]
  BY <1>3, <1>4, <1>6, EndsFacts
<1>8. /\ archive' \in Archives
      /\ archive'.old /\ archive'.there = archive.there
  BY <1>2, <1>4 DEF Archives
<1>9. TypeOK'
  BY <1>2, <1>3, <1>6, <1>7, <1>8 DEF IInv, TypeOK
<1>10. ~Reading
  BY <1>2 DEF IInv, LockExcludes, Writing
<1>11. LockExcludes' /\ TarSnapshot' /\ FetchSnapshot'
  BY <1>7, <1>10 DEF LockExcludes, Writing, Reading, TarSnapshot, FetchSnapshot, Groups
<1>12. ArchiveShowsClone'
  BY <1>2, <1>8 DEF ArchiveShowsClone, ArchiveStale
<1> QED
  <2>1. ASSUME Untroubled PROVE Healthy'
    <3>1. dir' # 0
      BY <1>2, <1>3, <1>4, <1>5 DEF IInv, FetchSnapshot, Writing
    <3> QED
      BY <1>2, <1>7, <2>1, <3>1
         DEF IInv, Untroubled, Healthy, Groups
  <2>2. Untroubled' = Untroubled
    BY <1>2 DEF Untroubled
  <2> QED BY <1>9, <1>11, <1>12, <2>1, <2>2 DEF IInv

\* 403: the fetch ends and nothing else changes.
LEMMA UpdateForbiddenKeeps ==
  ASSUME IInv, UpdateForbidden
  PROVE  IInv'
<1> USE GitterAssumption, ResultTypes
<1>1. /\ UNCHANGED <<remote, dir, lastFetch, archive, cache, invalid, req,
                     cancelled, asked>>
      /\ flight["fetch"].pc = "update" /\ Fault
      /\ Ends("fetch", Returned(dir, TRUE))
  BY DEF UpdateForbidden
<1>2. flight \in [Groups -> Flights] /\ "fetch" \in Groups /\ dir \in 0..MaxVersion
  BY DEF IInv, TypeOK, Groups
<1>3. /\ flight' \in [Groups -> Flights] /\ flight'["fetch"].pc = "ran"
      /\ \A h \in Groups : h # "fetch" => flight'[h] = flight[h]
  BY <1>1, <1>2, EndsFacts
<1>4. faults' \in 0..MaxFaults /\ faults' # 0
  BY <1>1, FaultIsTrouble DEF IInv
<1>5. TypeOK'
  BY <1>1, <1>3, <1>4 DEF IInv, TypeOK
<1>6. LockExcludes' /\ TarSnapshot' /\ FetchSnapshot'
  BY <1>1, <1>3 DEF IInv, LockExcludes, Writing, Reading, TarSnapshot, FetchSnapshot, Groups
<1>7. ArchiveShowsClone'
  BY <1>1 DEF IInv, ArchiveShowsClone, ArchiveStale
<1> QED BY <1>4, <1>5, <1>6, <1>7 DEF IInv, Untroubled

\* The clone is deleted: nobody was reading it.
LEMMA UpdateFailsKeeps ==
  ASSUME IInv, UpdateFails
  PROVE  IInv'
<1> USE GitterAssumption
<1>1. /\ UNCHANGED <<remote, lastFetch, archive, cache, invalid, req, cancelled, asked>>
      /\ flight["fetch"].pc = "update"
      /\ Fault \/ (Interrupted("fetch") /\ UNCHANGED faults)
      /\ dir' = 0 /\ Moves("fetch", "clone")
  BY DEF UpdateFails
<1>2. flight \in [Groups -> Flights] /\ "fetch" \in Groups /\ "clone" \in FlightPCs
  BY DEF IInv, TypeOK, Groups, FlightPCs
<1>3. /\ flight' \in [Groups -> Flights] /\ flight'["fetch"].pc = "clone"
      /\ flight'["fetch"].out = flight["fetch"].out
      /\ \A h \in Groups : h # "fetch" => flight'[h] = flight[h]
  BY <1>1, <1>2, MovesFacts
<1>4. faults' \in 0..MaxFaults /\ ~Untroubled'
  BY <1>1, <1>2, FaultIsTrouble, InterruptedIsTrouble DEF IInv, TypeOK, Untroubled
<1>5. TypeOK'
  BY <1>1, <1>3, <1>4 DEF IInv, TypeOK
<1>6. ~Reading
  BY <1>1 DEF IInv, LockExcludes, Writing
<1>7. LockExcludes' /\ TarSnapshot' /\ FetchSnapshot'
  BY <1>1, <1>3, <1>6
     DEF IInv, LockExcludes, Writing, Reading, TarSnapshot, FetchSnapshot, Groups
<1>8. ArchiveShowsClone'
  BY <1>1 DEF ArchiveShowsClone
<1> QED BY <1>4, <1>5, <1>7, <1>8 DEF IInv

\* A clone, a tar, a load or a listing fails: its flight ends with an error,
\* and by then there is a fault, a departed client or no clone.
LEMMA FailureKeeps ==
  ASSUME IInv,
         CloneFails \/ TarFails \/ LoadFails \/ LocalTagsFail \/ RemoteTagsFail
  PROVE  IInv'
<1> USE GitterAssumption, ResultTypes
<1>1. PICK g \in Groups, e \in {"denied", "failed"} :
        /\ Ends(g, Failure(e))
        /\ flight[g].pc # "none"
        /\ Fault \/ (Interrupted(g) /\ UNCHANGED faults)
           \/ (g \in {"archive", "load", "local"} /\ dir = 0 /\ UNCHANGED faults)
  BY DEF CloneFails, TarFails, LoadFails, LocalTagsFail, RemoteTagsFail, Groups
<1>2. UNCHANGED <<remote, dir, lastFetch, archive, cache, invalid, req, cancelled, asked>>
  BY DEF CloneFails, TarFails, LoadFails, LocalTagsFail, RemoteTagsFail
<1>3. flight \in [Groups -> Flights] /\ Failure(e) \in Results
  BY DEF IInv, TypeOK
<1>4. /\ flight' \in [Groups -> Flights] /\ flight'[g].pc = "ran"
      /\ \A h \in Groups : h # g => flight'[h] = flight[h]
  BY <1>1, <1>3, EndsFacts
<1>5. faults' \in 0..MaxFaults /\ ~Untroubled'
  <2>1. CASE Fault
    BY <2>1, FaultIsTrouble DEF IInv, Untroubled
  <2>2. CASE Interrupted(g) /\ UNCHANGED faults
    BY <1>2, <2>2, InterruptedIsTrouble DEF IInv, TypeOK, Untroubled
  <2>3. CASE g \in {"archive", "load", "local"} /\ dir = 0 /\ UNCHANGED faults
    BY <1>1, <1>2, <2>3 DEF IInv, TypeOK, Untroubled, Healthy
  <2> QED BY <1>1, <2>1, <2>2, <2>3
<1>6. TypeOK'
  BY <1>2, <1>4, <1>5 DEF IInv, TypeOK
<1>7. LockExcludes' /\ TarSnapshot' /\ FetchSnapshot'
  BY <1>2, <1>4 DEF IInv, LockExcludes, Writing, Reading, TarSnapshot, FetchSnapshot, Groups
<1>8. ArchiveShowsClone'
  BY <1>2 DEF IInv, ArchiveShowsClone, ArchiveStale
<1> QED BY <1>5, <1>6, <1>7, <1>8 DEF IInv

\* A flight ends well and no file changes: the archive is read, the
\* repository loaded, the tags listed.
LEMMA SuccessKeeps ==
  ASSUME IInv, ReadArchive \/ LoadOk \/ LocalTags \/ RemoteTags
  PROVE  IInv'
<1> USE GitterAssumption, ResultTypes
<1>1. PICK g \in {"archive", "load", "local", "remote"}, out \in Results :
        /\ Ends(g, out)
        /\ flight[g].pc \notin {"none", "ran"}
        /\ out.err = "none" \/ cancelled # {}
  <2>1. dir \in 0..MaxVersion /\ remote \in 0..MaxVersion
        /\ archive.ver \in 0..MaxVersion /\ archive.whole \in BOOLEAN
    BY DEF IInv, TypeOK, Archives, Versions
  <2>2. CASE ReadArchive
    BY <2>1, <2>2, InterruptedIsTrouble DEF ReadArchive, Groups
  <2>3. CASE LoadOk
    BY <2>1, <2>3 DEF LoadOk
  <2>4. CASE LocalTags
    <3>1. CASE Writing
      BY <2>1, <2>4, <3>1, Returned(dir, FALSE) \in Results DEF LocalTags
    <3>2. CASE ~Writing
      BY <2>1, <2>4, <3>2, Returned(dir, TRUE) \in Results DEF LocalTags
    <3> QED BY <3>1, <3>2
  <2>5. CASE RemoteTags
    BY <2>1, <2>5 DEF RemoteTags
  <2> QED BY <2>2, <2>3, <2>4, <2>5
<1>2. UNCHANGED <<remote, dir, lastFetch, archive, cache, invalid, req, cancelled,
                  faults, asked>>
  BY DEF ReadArchive, LoadOk, LocalTags, RemoteTags
<1>3. flight \in [Groups -> Flights] /\ g \in Groups
  BY DEF IInv, TypeOK, Groups
<1>4. /\ flight' \in [Groups -> Flights] /\ flight'[g].pc = "ran" /\ flight'[g].out = out
      /\ \A h \in Groups : h # g => flight'[h] = flight[h]
  BY <1>1, <1>3, EndsFacts
<1>5. TypeOK'
  BY <1>2, <1>4 DEF IInv, TypeOK
<1>6. LockExcludes' /\ TarSnapshot' /\ FetchSnapshot'
  BY <1>2, <1>4 DEF IInv, LockExcludes, Writing, Reading, TarSnapshot, FetchSnapshot, Groups
<1>7. ArchiveShowsClone'
  BY <1>2 DEF IInv, ArchiveShowsClone, ArchiveStale
<1>8. Untroubled' => Healthy'
  BY <1>1, <1>2, <1>3, <1>4 DEF IInv, Untroubled, Healthy, Groups
<1> QED BY <1>5, <1>6, <1>7, <1>8 DEF IInv

\* ArchiveRepo takes the read lock; tar starts a new file.
LEMMA ArchiveLockKeeps ==
  ASSUME IInv, ArchiveLock
  PROVE  IInv'
<1> USE GitterAssumption, ResultTypes
<1>1. /\ UNCHANGED <<remote, dir, lastFetch, cache, invalid, req, cancelled,
                     faults, asked>>
      /\ flight["archive"].pc = "lock" /\ ~Writing
  BY DEF ArchiveLock, ReadLock
<1>2. flight \in [Groups -> Flights] /\ "archive" \in Groups /\ dir \in 0..MaxVersion
      /\ {"zst", "tar"} \subseteq FlightPCs
  BY DEF IInv, TypeOK, Groups, FlightPCs
<1>3. CASE ~ArchiveStale /\ Moves("archive", "zst") /\ UNCHANGED archive
  <2>1. /\ flight' \in [Groups -> Flights] /\ flight'["archive"].pc = "zst"
        /\ flight'["archive"].out = flight["archive"].out
        /\ \A h \in Groups : h # "archive" => flight'[h] = flight[h]
    BY <1>2, <1>3, MovesFacts
  <2>2. TypeOK'
    BY <1>1, <1>3, <2>1 DEF IInv, TypeOK
  <2>3. LockExcludes' /\ TarSnapshot' /\ FetchSnapshot'
    BY <1>1, <2>1 DEF LockExcludes, Writing, TarSnapshot, FetchSnapshot, Groups
  <2>4. ArchiveShowsClone'
    BY <1>1, <1>3 DEF IInv, ArchiveShowsClone, ArchiveStale
  <2>5. Untroubled' => Healthy'
    BY <1>1, <2>1 DEF IInv, Untroubled, Healthy, Groups
  <2> QED BY <2>2, <2>3, <2>4, <2>5 DEF IInv
<1>4. CASE /\ ArchiveStale /\ Moves("archive", "tar")
           /\ archive' = [there |-> TRUE, ver |-> dir, whole |-> FALSE, old |-> FALSE]
  <2>1. /\ flight' \in [Groups -> Flights] /\ flight'["archive"].pc = "tar"
        /\ flight'["archive"].out = flight["archive"].out
        /\ \A h \in Groups : h # "archive" => flight'[h] = flight[h]
    BY <1>2, <1>4, MovesFacts
  <2>2. archive' \in Archives /\ archive'.ver = dir /\ ~archive'.whole
    BY <1>2, <1>4 DEF Archives
  <2>3. TypeOK'
    BY <1>1, <2>1, <2>2 DEF IInv, TypeOK
  <2>4. LockExcludes' /\ TarSnapshot' /\ FetchSnapshot'
    BY <1>1, <2>1, <2>2 DEF LockExcludes, Writing, TarSnapshot, FetchSnapshot, Groups
  <2>5. ArchiveShowsClone'
    BY <2>2 DEF ArchiveShowsClone
  <2>6. Untroubled' => Healthy'
    BY <1>1, <2>1 DEF IInv, Untroubled, Healthy, Groups
  <2> QED BY <2>3, <2>4, <2>5, <2>6 DEF IInv
<1>5. CASE /\ ArchiveStale /\ Interrupted("archive") /\ UNCHANGED archive
           /\ Ends("archive", Failure("failed"))
  <2>1. /\ flight' \in [Groups -> Flights] /\ flight'["archive"].pc = "ran"
        /\ \A h \in Groups : h # "archive" => flight'[h] = flight[h]
    BY <1>2, <1>5, EndsFacts
  <2>2. TypeOK'
    BY <1>1, <1>5, <2>1 DEF IInv, TypeOK
  <2>3. LockExcludes' /\ TarSnapshot' /\ FetchSnapshot'
    BY <1>1, <2>1 DEF LockExcludes, Writing, TarSnapshot, FetchSnapshot, Groups
  <2>4. ArchiveShowsClone'
    BY <1>1, <1>5 DEF IInv, ArchiveShowsClone, ArchiveStale
  <2>5. ~Untroubled'
    BY <1>1, <1>2, <1>5, InterruptedIsTrouble DEF Untroubled
  <2> QED BY <2>2, <2>3, <2>4, <2>5 DEF IInv
<1> QED BY <1>3, <1>4, <1>5 DEF ArchiveLock

\* tar ends: the archive shows the clone it was started on.
LEMMA TarOkKeeps ==
  ASSUME IInv, TarOk
  PROVE  IInv'
<1> USE GitterAssumption
<1>1. /\ UNCHANGED <<remote, dir, lastFetch, cache, invalid, req, cancelled,
                     faults, asked>>
      /\ flight["archive"].pc = "tar" /\ Moves("archive", "zst")
      /\ archive' = [archive EXCEPT !.whole = TRUE]
  BY DEF TarOk
<1>2. flight \in [Groups -> Flights] /\ "archive" \in Groups /\ "zst" \in FlightPCs
      /\ archive \in Archives
  BY DEF IInv, TypeOK, Groups, FlightPCs
<1>3. /\ flight' \in [Groups -> Flights] /\ flight'["archive"].pc = "zst"
      /\ flight'["archive"].out = flight["archive"].out
      /\ \A h \in Groups : h # "archive" => flight'[h] = flight[h]
  BY <1>1, <1>2, MovesFacts
<1>4. archive' \in Archives /\ archive'.ver = archive.ver
  BY <1>1, <1>2 DEF Archives
<1>5. TypeOK'
  BY <1>1, <1>3, <1>4 DEF IInv, TypeOK
<1>6. LockExcludes' /\ TarSnapshot' /\ FetchSnapshot'
  BY <1>1, <1>3
     DEF IInv, LockExcludes, Writing, Reading, TarSnapshot, FetchSnapshot, Groups
<1>7. ArchiveShowsClone'
  BY <1>1, <1>4 DEF IInv, TarSnapshot, ArchiveShowsClone
<1>8. Untroubled' => Healthy'
  BY <1>1, <1>3 DEF IInv, Untroubled, Healthy, Groups
<1> QED BY <1>5, <1>6, <1>7, <1>8 DEF IInv

\* LoadRepository takes the read lock.
LEMMA LoadLockKeeps ==
  ASSUME IInv, LoadLock
  PROVE  IInv'
<1> USE GitterAssumption
<1>1. /\ UNCHANGED <<remote, dir, lastFetch, archive, cache, invalid, req, cancelled,
                     faults, asked>>
      /\ flight["load"].pc = "lock" /\ ~Writing /\ Moves("load", "read")
  BY DEF LoadLock, ReadLock
<1>2. flight \in [Groups -> Flights] /\ "load" \in Groups /\ "read" \in FlightPCs
  BY DEF IInv, TypeOK, Groups, FlightPCs
<1>3. /\ flight' \in [Groups -> Flights] /\ flight'["load"].pc = "read"
      /\ flight'["load"].out = flight["load"].out
      /\ \A h \in Groups : h # "load" => flight'[h] = flight[h]
  BY <1>1, <1>2, MovesFacts
<1>4. TypeOK'
  BY <1>1, <1>3 DEF IInv, TypeOK
<1>5. LockExcludes' /\ TarSnapshot' /\ FetchSnapshot'
  BY <1>1, <1>3 DEF IInv, LockExcludes, Writing, TarSnapshot, FetchSnapshot, Groups
<1>6. ArchiveShowsClone'
  BY <1>1 DEF IInv, ArchiveShowsClone, ArchiveStale
<1>7. Untroubled' => Healthy'
  BY <1>1, <1>3 DEF IInv, Untroubled, Healthy, Groups
<1> QED BY <1>4, <1>5, <1>6, <1>7 DEF IInv

\* A request enters a group: a flight it starts there counts on the clone
\* only if the request may.
LEMMA DoKeeps ==
  ASSUME IInv, NEW r \in Requests, NEW g \in Groups,
         NEW pc \in {"slot", "lock", "read"}, Do(r, g, pc),
         g \in {"archive", "load"} => pc = "slot",
         g \in {"archive", "load", "local"} => req[r].pc = "fetched",
         UNCHANGED <<remote, dir, lastFetch, archive, cache, invalid, cancelled, faults>>,
         asked' \in [Requests -> 0..MaxVersion]
  PROVE  IInv'
<1> USE GitterAssumption
<1>1. flight \in [Groups -> Flights] /\ req \in [Requests -> RequestStates]
      /\ pc \in FlightPCs
  BY DEF IInv, TypeOK, FlightPCs
<1>2. /\ flight' \in [Groups -> Flights]
      /\ req' \in [Requests -> RequestStates]
      /\ req'[r].pc = g /\ req'[r].out = req[r].out
      /\ \A q \in Requests : q # r => req'[q] = req[q]
      /\ \A h \in Groups : h # g => flight'[h] = flight[h]
      /\ \/ flight'[g] = flight[g]
         \/ flight[g].pc = "none" /\ flight'[g].pc = pc /\ flight'[g].out.err = "none"
  BY <1>1, DoFacts
<1>3. TypeOK'
  BY <1>2 DEF IInv, TypeOK
<1>4. LockExcludes' /\ TarSnapshot' /\ FetchSnapshot'
  BY <1>2 DEF IInv, LockExcludes, Writing, Reading, TarSnapshot, FetchSnapshot, Groups
<1>5. ArchiveShowsClone'
  BY DEF IInv, ArchiveShowsClone, ArchiveStale
<1>6. Untroubled' => Healthy'
  BY <1>2 DEF IInv, Untroubled, Healthy, Groups
<1> QED BY <1>3, <1>4, <1>5, <1>6 DEF IInv

\* A request is answered without touching a flight.
LEMMA AnswersKeep ==
  ASSUME IInv, NEW r \in Requests, NEW out \in Results, Answers(r, out),
         UNCHANGED <<remote, dir, lastFetch, archive, flight, cancelled, faults>>,
         cache' \in 0..MaxVersion, invalid' \in {"none", "denied", "empty"},
         asked' \in [Requests -> 0..MaxVersion],
         Untroubled /\ Healthy => out.err = "none" /\ invalid' # "denied"
  PROVE  IInv'
<1> USE GitterAssumption
<1>1. req \in [Requests -> RequestStates]
  BY DEF IInv, TypeOK
<1>2. /\ req' \in [Requests -> RequestStates]
      /\ req'[r].pc = "done" /\ req'[r].out = out
      /\ \A q \in Requests : q # r => req'[q] = req[q]
  BY <1>1, AnswersFacts
<1>3. TypeOK'
  BY <1>2 DEF IInv, TypeOK
<1>4. LockExcludes' /\ TarSnapshot' /\ FetchSnapshot' /\ ArchiveShowsClone'
  BY DEF IInv, LockExcludes, Writing, Reading, TarSnapshot, FetchSnapshot,
         ArchiveShowsClone, ArchiveStale
<1>5. Untroubled' => Healthy'
  BY <1>2 DEF IInv, Untroubled, Healthy, Groups
<1> QED BY <1>3, <1>4, <1>5 DEF IInv

\* What a listing leaves in invalidRepoCache.
LEMMA RememberedType ==
  ASSUME TypeOK, NEW v
  PROVE  /\ Remembered(v) \in {"none", "denied", "empty"}
         /\ invalid # "denied" => Remembered(v) # "denied"
BY DEF TypeOK, Remembered

\* A request arrives: it is answered from a cache or enters its first group.
LEMMA ArriveKeeps ==
  ASSUME IInv, NEW r \in Requests, Arrive(r)
  PROVE  IInv'
<1> USE GitterAssumption, ResultTypes
<1>1. /\ UNCHANGED <<remote, dir, lastFetch, archive, cache, cancelled, faults>>
      /\ asked' = [asked EXCEPT ![r] = remote]
      /\ ArriveGit(r) \/ ArriveRepo(r) \/ ArriveTags(r)
  BY DEF Arrive
<1>2. /\ asked' \in [Requests -> 0..MaxVersion]
      /\ cache \in 0..MaxVersion /\ cache' \in 0..MaxVersion
      /\ invalid \in {"none", "denied", "empty"}
      /\ "fetch" \in Groups /\ "remote" \in Groups
  BY <1>1 DEF IInv, TypeOK, Versions, Groups
<1>3. CASE \E g \in {"fetch", "remote"}, pc \in {"slot", "lock", "read"} :
             Do(r, g, pc) /\ UNCHANGED invalid
  BY <1>1, <1>2, <1>3, DoKeeps
<1>4. CASE UNCHANGED flight /\ Answers(r, Returned(cache, TRUE)) /\ UNCHANGED invalid
  BY <1>1, <1>2, <1>4, AnswersKeep DEF Healthy
<1>5. CASE UNCHANGED flight /\ Answers(r, Returned(cache, TRUE)) /\ invalid' = Remembered(cache)
  BY <1>1, <1>2, <1>5, AnswersKeep, RememberedType DEF IInv, Healthy
<1>6. CASE /\ UNCHANGED <<flight, invalid>>
           /\ Answers(r, IF invalid = "denied" THEN Failure("denied") ELSE Returned(0, TRUE))
  <2>1. Failure("denied") \in Results /\ Returned(0, TRUE) \in Results
        /\ Returned(0, TRUE).err = "none"
    BY DEF Returned, Failure, Results
  <2>2. CASE invalid = "denied"
    BY <1>1, <1>2, <1>6, <2>1, <2>2, AnswersKeep DEF Healthy
  <2>3. CASE invalid # "denied"
    BY <1>1, <1>2, <1>6, <2>1, <2>3, AnswersKeep DEF Healthy
  <2> QED BY <2>2, <2>3
<1> QED
  BY <1>1, <1>3, <1>4, <1>5, <1>6 DEF ArriveGit, ArriveRepo, ArriveTags

\* After a fetch the request enters its second group.
LEMMA FetchedKeeps ==
  ASSUME IInv, NEW r \in Requests, Fetched(r)
  PROVE  IInv'
<1>1. /\ UNCHANGED <<remote, dir, lastFetch, archive, cache, invalid, cancelled,
                     faults, asked>>
      /\ req[r].pc = "fetched"
      /\ Do(r, "archive", "slot") \/ Do(r, "load", "slot") \/ Do(r, "local", "read")
  BY DEF Fetched
<1>2. asked' \in [Requests -> 0..MaxVersion]
      /\ {"archive", "load", "local"} \subseteq Groups
  BY <1>1 DEF IInv, TypeOK, Groups
<1>3. CASE Do(r, "archive", "slot")
  BY <1>1, <1>2, <1>3, DoKeeps
<1>4. CASE Do(r, "load", "slot")
  BY <1>1, <1>2, <1>4, DoKeeps
<1>5. CASE Do(r, "local", "read")
  BY <1>1, <1>2, <1>5, DoKeeps
<1> QED BY <1>1, <1>3, <1>4, <1>5

\* A loaded repository goes into the cache.
LEMMA CachePutKeeps ==
  ASSUME IInv, NEW r \in Requests, CachePut(r)
  PROVE  IInv'
<1>1. /\ UNCHANGED <<remote, dir, lastFetch, archive, invalid, flight, cancelled,
                     faults, asked>>
      /\ cache' \in {cache, req[r].out.ver} /\ Answers(r, req[r].out)
  BY DEF CachePut
<1>2. /\ req[r].out \in Results /\ cache \in 0..MaxVersion
      /\ invalid \in {"none", "denied", "empty"}
      /\ asked \in [Requests -> 0..MaxVersion]
  BY DEF IInv, TypeOK, RequestStates
<1>3. cache' \in 0..MaxVersion
  BY <1>1, <1>2 DEF Results
<1> QED BY <1>1, <1>2, <1>3, AnswersKeep DEF Healthy

\* A flight leaves its group, and its callers go on with what it returned.
LEMMA FinishKeeps ==
  ASSUME IInv, NEW g \in Groups, Finish(g)
  PROVE  IInv'
<1> USE GitterAssumption, ResultTypes
<1> DEFINE out == flight[g].out
<1>1. /\ UNCHANGED <<remote, dir, lastFetch, archive, cache, cancelled, faults, asked>>
      /\ flight[g].pc = "ran"
      /\ req' = [r \in Requests |-> IF r \in Callers(g) THEN AfterFlight(g, out) ELSE req[r]]
      /\ invalid' = Invalidated(g, out)
      /\ flight' = [flight EXCEPT ![g] = NoFlight]
  BY DEF Finish
<1>2. flight \in [Groups -> Flights] /\ req \in [Requests -> RequestStates]
      /\ out \in Results
  BY DEF IInv, TypeOK, Flights
<1>3. /\ flight' \in [Groups -> Flights] /\ flight'[g] = NoFlight
      /\ \A h \in Groups : h # g => flight'[h] = flight[h]
  BY <1>1, <1>2
<1>4. /\ AfterFlight(g, out) \in RequestStates
      /\ AfterFlight(g, out).out = out
      /\ AfterFlight(g, out).pc \in {"done", "fetched", "loaded"}
      /\ AfterFlight(g, out).pc = "fetched" => g = "fetch"
  <2>1. CASE out.err # "none"
    BY <1>2, <2>1 DEF AfterFlight, RequestStates, RequestPCs
  <2>2. CASE out.err = "none" /\ g = "fetch"
    BY <1>2, <2>2 DEF AfterFlight, RequestStates, RequestPCs
  <2>3. CASE out.err = "none" /\ g = "load"
    BY <1>2, <2>3 DEF AfterFlight, RequestStates, RequestPCs
  <2>4. CASE out.err = "none" /\ g \notin {"fetch", "load"}
    BY <1>2, <2>4 DEF AfterFlight, RequestStates, RequestPCs
  <2> QED BY <2>1, <2>2, <2>3, <2>4
<1>5. /\ req' \in [Requests -> RequestStates]
      /\ \A r \in Requests : \/ req'[r] = req[r]
                             \/ /\ req'[r].out = out
                                /\ req'[r].pc \in {"done", "fetched", "loaded"}
                                /\ req'[r].pc = "fetched" => g = "fetch"
  BY <1>1, <1>2, <1>4
<1>6. /\ invalid' \in {"none", "denied", "empty"}
      /\ invalid # "denied" /\ out.err = "none" => invalid' # "denied"
  BY <1>1, RememberedType DEF IInv, TypeOK, Invalidated
<1>7. TypeOK'
  BY <1>1, <1>3, <1>5, <1>6 DEF IInv, TypeOK
<1>8. LockExcludes' /\ TarSnapshot' /\ FetchSnapshot'
  BY <1>1, <1>3 DEF IInv, LockExcludes, Writing, Reading, TarSnapshot, FetchSnapshot, Groups
<1>9. ArchiveShowsClone'
  BY <1>1 DEF IInv, ArchiveShowsClone, ArchiveStale
<1>10. Untroubled' => Healthy'
  BY <1>1, <1>3, <1>5, <1>6 DEF IInv, Untroubled, Healthy, Groups
<1> QED BY <1>7, <1>8, <1>9, <1>10 DEF IInv

-----------------------------------------------------------------------------
(* A forced fetch is as new as the request that leads it. *)

\* The fetch in flight has a leader that has arrived, and a fetch under way
\* has seen the remote no earlier than its leader asked.
FreshInv ==
  /\ \A r \in Requests : asked[r] <= remote
  /\ \A r \in Requests : flight["fetch"].leader = r => req[r].pc # "new"
  /\ \A r \in Requests :
       Writing /\ flight["fetch"].leader = r => flight["fetch"].out.ver >= asked[r]
  /\ ForcedFetchIsFresh

\* A step that leaves the fetch flight alone keeps it so.
LEMMA FreshUntouched ==
  ASSUME IInv, FreshInv, flight'["fetch"] = flight["fetch"],
         asked' = asked, remote' >= remote, remote' \in Nat,
         faults' = 0 => faults = 0,
         \A r \in Requests : req[r].pc # "new" => req'[r].pc # "new"
  PROVE  FreshInv'
BY GitterAssumption DEF IInv, TypeOK, Versions, FreshInv, Writing, ForcedFetchIsFresh

\* A step of the fetch flight that leaves it with the same leader.
LEMMA FreshStep ==
  ASSUME IInv, FreshInv, UNCHANGED <<asked, remote, req>>,
         flight'["fetch"].leader = flight["fetch"].leader,
         \A r \in Requests : flight["fetch"].leader = r =>
           /\ flight'["fetch"].pc \in {"update", "clone"} =>
                flight'["fetch"].out.ver >= asked[r]
           /\ /\ flight'["fetch"].pc = "ran" /\ flight'["fetch"].out.err = "none"
              /\ r \in Forced /\ faults' = 0
              => flight'["fetch"].out.ver >= asked[r]
  PROVE  FreshInv'
BY GitterAssumption DEF FreshInv, Writing, ForcedFetchIsFresh, Requests

\* Ends and Moves keep the leader of a flight.
LEMMA LeaderStays ==
  ASSUME flight \in [Groups -> Flights], NEW g \in Groups,
         \/ \E out \in Results : Ends(g, out)
         \/ \E pc \in FlightPCs : Moves(g, pc)
  PROVE  flight'[g].leader = flight[g].leader
BY DEF Ends, Moves, Flights

\* FetchLock: the version a fetch starts from is the remote's of this moment.
LEMMA FetchLockFresh ==
  ASSUME IInv, FreshInv, FetchLock
  PROVE  FreshInv'
<1> USE GitterAssumption, ResultTypes
<1>1. /\ UNCHANGED <<asked, remote, req>> /\ "fetch" \in Groups
      /\ flight \in [Groups -> Flights]
      /\ remote \in Nat /\ dir \in 0..MaxVersion
      /\ \A r \in Requests : asked[r] \in Nat /\ asked[r] <= remote
  BY DEF FetchLock, IInv, TypeOK, FreshInv, Groups, Versions
<1>2. CASE FetchNeeded /\ flight' = [flight EXCEPT !["fetch"] =
                [@ EXCEPT !.pc = IF dir = 0 THEN "clone" ELSE "update",
                          !.out = Returned(remote, TRUE)]]
  <2>1. /\ flight'["fetch"].leader = flight["fetch"].leader
        /\ flight'["fetch"].pc # "ran"
        /\ flight'["fetch"].out.ver = remote
    BY <1>1, <1>2 DEF Flights, Returned
  <2> QED BY <1>1, <2>1, FreshStep
<1>3. CASE ~FetchNeeded /\ \E out \in Results : Ends("fetch", out)
  <2>1. flight'["fetch"].leader = flight["fetch"].leader
    BY <1>1, <1>3, LeaderStays
  <2>2. flight'["fetch"].pc = "ran"
    BY <1>1, <1>3, EndsFacts
  <2>3. flight["fetch"].leader \notin Forced
    BY <1>3 DEF FetchNeeded, Leading
  <2> QED BY <1>1, <2>1, <2>2, <2>3, FreshStep
<1>4. Returned(dir, TRUE) \in Results /\ Failure("failed") \in Results
  BY <1>1
<1> QED BY <1>2, <1>3, <1>4 DEF FetchLock

\* The commands of a fetch: what they end with is no older than what the
\* fetch had seen, and a fault or a failure promises nothing.
LEMMA FetchCommandFresh ==
  ASSUME IInv, FreshInv,
         UpdateOk \/ CloneOk \/ UpdateForbidden \/ UpdateFails \/ CloneFails
  PROVE  FreshInv'
<1> USE GitterAssumption, ResultTypes
<1>1. /\ UNCHANGED <<asked, remote, req>> /\ "fetch" \in Groups
      /\ flight \in [Groups -> Flights]
      /\ flight["fetch"].out.ver \in 0..MaxVersion
      /\ remote \in 1..MaxVersion /\ dir \in 0..MaxVersion
      /\ \A r \in Requests : asked[r] \in Nat
      /\ \A r \in Requests : Writing /\ flight["fetch"].leader = r
                               => flight["fetch"].out.ver >= asked[r]
  <2>1. UNCHANGED <<asked, remote, req>>
    BY DEF UpdateOk, CloneOk, FetchOk, UpdateForbidden, UpdateFails, CloneFails
  <2>2. /\ "fetch" \in Groups /\ flight \in [Groups -> Flights]
        /\ remote \in 1..MaxVersion /\ dir \in 0..MaxVersion
        /\ \A r \in Requests : asked[r] \in Nat
    BY DEF IInv, TypeOK, Groups, Versions
  <2>3. flight["fetch"].out.ver \in 0..MaxVersion
    BY <2>2 DEF Flights, Results
  <2>4. \A r \in Requests : Writing /\ flight["fetch"].leader = r
                             => flight["fetch"].out.ver >= asked[r]
    BY DEF FreshInv
  <2> QED BY <2>1, <2>2, <2>3, <2>4
<1>2. CASE UpdateOk \/ CloneOk
  <2>1. Writing
    BY <1>2 DEF UpdateOk, CloneOk, FetchOk, Writing
  <2>2. PICK v \in flight["fetch"].out.ver..remote : Ends("fetch", Returned(v, TRUE))
    BY <1>2 DEF UpdateOk, CloneOk, FetchOk
  <2>3. v \in 0..MaxVersion /\ v >= flight["fetch"].out.ver
    BY <1>1, <2>2
  <2>4. Returned(v, TRUE) \in Results /\ Returned(v, TRUE).ver = v
    BY <2>3 DEF Returned
  <2>5. /\ flight'["fetch"].leader = flight["fetch"].leader
        /\ flight'["fetch"].pc = "ran" /\ flight'["fetch"].out.ver = v
    BY <1>1, <2>2, <2>4, LeaderStays, EndsFacts
  <2>6. \A r \in Requests : flight["fetch"].leader = r => v >= asked[r]
    BY <1>1, <2>1, <2>3
  <2> QED BY <1>1, <2>5, <2>6, FreshStep
<1>3. CASE UpdateForbidden
  <2>1. Ends("fetch", Returned(dir, TRUE)) /\ Returned(dir, TRUE) \in Results /\ faults' # 0
    BY <1>1, <1>3, FaultIsTrouble DEF UpdateForbidden, IInv
  <2>2. flight'["fetch"].leader = flight["fetch"].leader /\ flight'["fetch"].pc = "ran"
    BY <1>1, <2>1, LeaderStays, EndsFacts
  <2> QED BY <1>1, <2>1, <2>2, FreshStep
<1>4. CASE UpdateFails
  <2>1. /\ flight'["fetch"].leader = flight["fetch"].leader
        /\ flight'["fetch"].pc = "clone"
        /\ flight'["fetch"].out = flight["fetch"].out
    BY <1>1, <1>4, LeaderStays, MovesFacts DEF UpdateFails, FlightPCs
  <2>2. Writing
    BY <1>4 DEF UpdateFails, Writing
  <2> QED BY <1>1, <2>1, <2>2, FreshStep
<1>5. CASE CloneFails
  <2>1. PICK e \in {"denied", "failed"} : Ends("fetch", Failure(e))
    BY <1>5 DEF CloneFails
  <2>2. /\ flight'["fetch"].leader = flight["fetch"].leader
        /\ flight'["fetch"].pc = "ran" /\ flight'["fetch"].out.err # "none"
    BY <1>1, <2>1, LeaderStays, EndsFacts
  <2> QED BY <1>1, <2>2, FreshStep
<1> QED BY <1>2, <1>3, <1>4, <1>5

\* Flights of other groups.
LEMMA OtherFlightsFresh ==
  ASSUME IInv, FreshInv, Archiving \/ Loading \/ Listing
  PROVE  FreshInv'
<1>1. /\ UNCHANGED <<asked, remote, req>>
      /\ flight'["fetch"] = flight["fetch"]
  BY DEF Archiving, ArchiveLock, TarOk, TarFails, ReadArchive, Loading, LoadLock,
         LoadOk, LoadFails, Listing, LocalTags, LocalTagsFail, RemoteTags,
         RemoteTagsFail, Ends, Moves, IInv, TypeOK, Groups
<1>2. remote' >= remote /\ remote' \in Nat
  BY <1>1 DEF IInv, TypeOK, Versions
<1>3. faults' = 0 => faults = 0
  BY FaultIsTrouble DEF Archiving, ArchiveLock, TarOk, TarFails, ReadArchive,
     Loading, LoadLock, LoadOk, LoadFails, Listing, LocalTags, LocalTagsFail,
     RemoteTags, RemoteTagsFail, IInv
<1> QED BY <1>1, <1>2, <1>3, FreshUntouched

\* Slots, and the end of a flight: after it nobody leads.
LEMMA SchedulingFresh ==
  ASSUME IInv, FreshInv, NEW g \in Groups, Scheduling(g)
  PROVE  FreshInv'
<1> USE GitterAssumption, ResultTypes
<1>1. /\ UNCHANGED <<asked, remote, faults>> /\ "fetch" \in Groups
      /\ flight \in [Groups -> Flights] /\ remote \in Nat /\ remote' >= remote
  BY DEF Scheduling, TakeSlot, LoseSlot, Finish, IInv, TypeOK, Groups, Versions
<1>2. CASE TakeSlot(g)
  <2>1. UNCHANGED req /\ \/ flight'["fetch"] = flight["fetch"]
                         \/ /\ flight'["fetch"].leader = flight["fetch"].leader
                            /\ flight'["fetch"].pc = "lock"
    BY <1>1, <1>2 DEF TakeSlot, Flights
  <2> QED BY <1>1, <2>1, FreshStep, FreshUntouched
<1>3. CASE LoseSlot(g)
  <2>1. UNCHANGED req /\ Ends(g, Failure("failed")) /\ Failure("failed") \in Results
    BY <1>3 DEF LoseSlot
  <2>2. \/ flight'["fetch"] = flight["fetch"]
        \/ /\ flight'["fetch"].leader = flight["fetch"].leader
           /\ flight'["fetch"].pc = "ran" /\ flight'["fetch"].out.err # "none"
    BY <1>1, <2>1, EndsFacts, LeaderStays
  <2> QED BY <1>1, <2>1, <2>2, FreshStep, FreshUntouched
<1>4. CASE Finish(g)
  <2>1. \A r \in Requests : req[r].pc # "new" => req'[r].pc # "new"
    BY <1>4 DEF Finish, AfterFlight
  <2>2. CASE g # "fetch"
    BY <1>1, <1>4, <2>1, <2>2, FreshUntouched DEF Finish
  <2>3. CASE g = "fetch"
    <3>1. flight'["fetch"] = NoFlight
      BY <1>1, <1>4, <2>3 DEF Finish
    <3> QED BY <1>1, <3>1 DEF FreshInv, Writing, ForcedFetchIsFresh, NoFlight, Requests
  <2> QED BY <2>2, <2>3
<1> QED BY <1>2, <1>3, <1>4 DEF Scheduling

\* A request that enters a group is no longer new; a fetch it starts has just
\* been asked for.
LEMMA DoFresh ==
  ASSUME IInv, FreshInv, NEW r \in Requests, NEW g \in Groups,
         NEW pc \in {"slot", "lock", "read"}, Do(r, g, pc),
         UNCHANGED <<remote, faults>>,
         \/ asked' = asked
         \/ req[r].pc = "new" /\ asked' = [asked EXCEPT ![r] = remote]
  PROVE  FreshInv'
<1> USE GitterAssumption
<1>1. /\ flight \in [Groups -> Flights] /\ req \in [Requests -> RequestStates]
      /\ pc \in FlightPCs /\ remote \in Nat /\ "fetch" \in Groups
      /\ asked \in [Requests -> 0..MaxVersion] /\ g # "new"
  BY DEF IInv, TypeOK, FlightPCs, Versions, Groups
<1>2. /\ req'[r].pc = g
      /\ \A q \in Requests : q # r => req'[q] = req[q]
      /\ \A h \in Groups : h # g => flight'[h] = flight[h]
  BY <1>1, DoFacts
<1>3. \A q \in Requests : asked'[q] <= remote
  BY <1>1 DEF FreshInv
<1>4. \A q \in Requests : req[q].pc # "new" => req'[q].pc # "new" /\ asked'[q] = asked[q]
  BY <1>1, <1>2
<1>5. CASE flight'["fetch"] = flight["fetch"]
  BY <1>3, <1>4, <1>5 DEF FreshInv, Writing, ForcedFetchIsFresh, Requests
<1>6. CASE flight'["fetch"].leader = r /\ flight'["fetch"].pc = pc
  BY <1>1, <1>2, <1>3, <1>6 DEF FreshInv, Writing, ForcedFetchIsFresh
<1>7. \/ flight'["fetch"] = flight["fetch"]
      \/ flight'["fetch"].leader = r /\ flight'["fetch"].pc = pc
  BY <1>1, <1>2 DEF Do, NoFlight
<1> QED BY <1>5, <1>6, <1>7

\* Requests arrive, are cancelled and go on; pushes only add versions.
LEMMA RequestsFresh ==
  ASSUME IInv, FreshInv,
         Environment \/ \E r \in Requests : Handling(r)
  PROVE  FreshInv'
<1> USE GitterAssumption
<1>1. /\ remote \in Nat /\ remote + 1 >= remote /\ remote >= remote
      /\ asked \in [Requests -> 0..MaxVersion]
      /\ req \in [Requests -> RequestStates]
      /\ {"fetch", "remote", "archive", "load", "local"} \subseteq Groups
  BY DEF IInv, TypeOK, Versions, Groups
<1>2. CASE \/ Push \/ FetchExpires \/ CacheExpires \/ InvalidExpires
           \/ \E r \in Requests : Cancel(r)
  <2>1. /\ UNCHANGED <<asked, flight, req, faults>>
        /\ remote' = remote \/ remote' = remote + 1
    BY <1>2 DEF Push, FetchExpires, CacheExpires, InvalidExpires, Cancel, Others
  <2> QED BY <1>1, <2>1, FreshUntouched
<1>3. ASSUME NEW r \in Requests, Arrive(r) PROVE FreshInv'
  <2>1. /\ UNCHANGED <<remote, faults>> /\ req[r].pc = "new"
        /\ asked' = [asked EXCEPT ![r] = remote]
    BY <1>3 DEF Arrive
  <2>2. CASE \E g \in Groups, pc \in {"slot", "lock", "read"} : Do(r, g, pc)
    BY <2>1, <2>2, DoFresh
  <2>3. CASE UNCHANGED flight /\ \E out : Answers(r, out)
    <3>1. \A q \in Requests : req[q].pc # "new" => req'[q] = req[q] /\ asked'[q] = asked[q]
      BY <1>1, <2>1, <2>3 DEF Answers
    <3>2. \A q \in Requests : asked'[q] <= remote
      BY <1>1, <2>1 DEF FreshInv
    <3> QED BY <2>1, <2>3, <3>1, <3>2 DEF FreshInv, Writing, ForcedFetchIsFresh, Requests
  <2> QED BY <1>1, <1>3, <2>2, <2>3 DEF Arrive, ArriveGit, ArriveRepo, ArriveTags
<1>4. ASSUME NEW r \in Requests, Handling(r) PROVE FreshInv'
  <2>1. UNCHANGED <<remote, faults, asked>>
    BY <1>4 DEF Handling, Fetched, CachePut
  <2>2. CASE \E g \in Groups, pc \in {"slot", "lock", "read"} : Do(r, g, pc)
    BY <2>1, <2>2, DoFresh
  <2>3. CASE UNCHANGED flight /\ Answers(r, req[r].out)
    <3>1. \A q \in Requests : req[q].pc # "new" => req'[q].pc # "new"
      BY <1>1, <2>3 DEF Answers
    <3> QED BY <1>1, <2>1, <2>3, <3>1, FreshUntouched
  <2> QED BY <1>1, <1>4, <2>2, <2>3 DEF Handling, Fetched, CachePut
<1> QED BY <1>2, <1>3, <1>4 DEF Environment

-----------------------------------------------------------------------------
(* Nobody is stuck: what a waiting request and a held slot rest on. *)

\* A request waits only in a group that has a flight.
WaitersFly == \A r \in Requests : req[r].pc \in Groups => flight[req[r].pc].pc # "none"

\* A slot is held from TakeSlot to the end of the function, and not longer.
SlotsInUse == \A g \in Groups : flight[g].slot => flight[g].pc \notin {"none", "slot", "ran"}

FlowInv == WaitersFly /\ SlotsInUse

\* When nothing is runnable no lock and no slot is held, so whoever waits
\* for one would be runnable.
LEMMA FlowMeansProgress ==
  ASSUME TypeOK, FlowInv
  PROVE  NobodyStuck
<1> SUFFICES ASSUME NEW r \in Requests, req[r].pc \notin {"new", "done"},
                    \A g \in Groups : ~Runnable(g),
                    req[r].pc \notin {"fetched", "loaded"}
             PROVE  FALSE
  BY DEF NobodyStuck
<1>1. req[r].pc \in Groups /\ flight \in [Groups -> Flights]
  BY DEF TypeOK, RequestStates, RequestPCs
<1>2. \A g \in Groups : flight[g].pc \in {"none", "slot", "lock"}
  BY <1>1 DEF Runnable, Flights
<1>3. ~Writing /\ ~Reading
  BY <1>2 DEF Writing, Reading, Groups
<1>4. \A g \in Groups : flight[g].pc # "lock"
  BY <1>3 DEF Runnable, WriteLock, ReadLock
<1>5. HoldingSlots = {}
  BY <1>2, <1>4 DEF HoldingSlots, FlowInv, SlotsInUse
<1>6. SlotFree
  BY <1>5, FS_EmptySet, GitterAssumption DEF SlotFree
<1>7. flight[req[r].pc].pc = "slot"
  BY <1>1, <1>2, <1>4 DEF FlowInv, WaitersFly
<1> QED BY <1>1, <1>6, <1>7 DEF Runnable

\* A flight that works goes on, with or without its slot, or ends without.
LEMMA FlightFlows ==
  ASSUME FlowInv, flight \in [Groups -> Flights], NEW g \in Groups, req' = req,
         \A h \in Groups : h # g => flight'[h] = flight[h],
         flight'[g].pc # "none",
         flight'[g].slot => flight'[g].pc \notin {"slot", "ran"}
  PROVE  FlowInv'
BY DEF FlowInv, WaitersFly, SlotsInUse

\* The function of a flight returns.
LEMMA EndsFlows ==
  ASSUME FlowInv, flight \in [Groups -> Flights], NEW g \in Groups, req' = req,
         NEW out \in Results, Ends(g, out)
  PROVE  FlowInv'
<1>1. flight'[g].pc = "ran" /\ ~flight'[g].slot
  BY DEF Ends, Flights
<1>2. \A h \in Groups : h # g => flight'[h] = flight[h]
  BY EndsFacts
<1> QED BY <1>1, <1>2, FlightFlows

\* The function goes on to its next command, holding what it holds.
LEMMA MovesFlows ==
  ASSUME FlowInv, flight \in [Groups -> Flights], NEW g \in Groups, req' = req,
         NEW pc \in FlightPCs \ {"none", "slot", "ran"}, Moves(g, pc)
  PROVE  FlowInv'
BY MovesFacts, FlightFlows

\* A request that enters a group finds a flight there, or starts one that
\* holds no slot yet.
LEMMA DoFlows ==
  ASSUME TypeOK, FlowInv, NEW r \in Requests, NEW g \in Groups,
         NEW pc \in {"slot", "lock", "read"}, Do(r, g, pc)
  PROVE  FlowInv'
<1>1. /\ flight \in [Groups -> Flights] /\ req \in [Requests -> RequestStates]
      /\ pc \in FlightPCs
  BY DEF TypeOK, FlightPCs
<1>2. /\ req'[r].pc = g
      /\ \A q \in Requests : q # r => req'[q] = req[q]
      /\ \A h \in Groups : h # g => flight'[h] = flight[h]
  BY <1>1, DoFacts
<1>3. \/ flight'[g] = flight[g] /\ flight[g].pc # "none"
      \/ flight'[g].pc = pc /\ ~flight'[g].slot
  BY <1>1 DEF Do, NoFlight
<1> QED BY <1>2, <1>3 DEF FlowInv, WaitersFly, SlotsInUse

\* An answered request waits for nothing.
LEMMA AnswersFlow ==
  ASSUME TypeOK, FlowInv, NEW r \in Requests, UNCHANGED flight, \E out : Answers(r, out)
  PROVE  FlowInv'
<1>1. req'[r].pc = "done" /\ \A q \in Requests : q # r => req'[q] = req[q]
  BY DEF Answers, TypeOK
<1>2. "done" \notin Groups
  BY DEF Groups
<1> QED BY <1>1, <1>2 DEF FlowInv, WaitersFly, SlotsInUse

\* A flight leaves its group together with everyone who waits in it.
LEMMA FinishFlows ==
  ASSUME TypeOK, FlowInv, NEW g \in Groups, Finish(g)
  PROVE  FlowInv'
<1>1. /\ flight \in [Groups -> Flights] /\ flight' = [flight EXCEPT ![g] = NoFlight]
      /\ req' = [r \in Requests |->
                   IF r \in Callers(g) THEN AfterFlight(g, flight[g].out) ELSE req[r]]
  BY DEF Finish, TypeOK
<1>2. ~NoFlight.slot
  BY DEF NoFlight
<1>3. AfterFlight(g, flight[g].out).pc \notin Groups
  BY DEF AfterFlight, Groups
<1>4. ASSUME NEW r \in Requests, req'[r].pc \in Groups
      PROVE  req'[r] = req[r] /\ req[r].pc # g
  BY <1>1, <1>3, <1>4 DEF Callers
<1> QED BY <1>1, <1>2, <1>4 DEF FlowInv, WaitersFly, SlotsInUse

\* Every step keeps waiting requests served and idle flights without a slot.
LEMMA FlowStep ==
  ASSUME TypeOK, FlowInv, [Next]_vars
  PROVE  FlowInv'
<1> USE GitterAssumption, ResultTypes
<1>1. /\ flight \in [Groups -> Flights]
      /\ {"fetch", "archive", "load", "local", "remote"} \subseteq Groups
      /\ dir \in 0..MaxVersion /\ remote \in 0..MaxVersion
      /\ archive.ver \in 0..MaxVersion /\ archive.whole \in BOOLEAN
  BY DEF TypeOK, Groups, Versions, Archives
<1>2. CASE UNCHANGED <<flight, req>>
  BY <1>2 DEF FlowInv, WaitersFly, SlotsInUse
<1>3. CASE Fetching
  <2>1. req' = req
    BY <1>3 DEF Fetching, FetchLock, UpdateOk, CloneOk, FetchOk, UpdateForbidden, UpdateFails,
       CloneFails
  <2>2. CASE \E out \in Results : Ends("fetch", out)
    BY <1>1, <2>1, <2>2, EndsFlows
  <2>3. CASE Moves("fetch", "clone")
    BY <1>1, <2>1, <2>3, MovesFlows DEF FlightPCs
  <2>4. CASE /\ flight["fetch"].pc = "lock"
             /\ flight' = [flight EXCEPT !["fetch"] =
                  [@ EXCEPT !.pc = IF dir = 0 THEN "clone" ELSE "update",
                            !.out = Returned(remote, TRUE)]]
    <3>1. flight'["fetch"].pc \in {"clone", "update"}
      BY <1>1, <2>4 DEF Flights
    <3> QED BY <1>1, <2>1, <2>4, <3>1, FlightFlows
  <2>5. ASSUME NEW pc, FetchOk(pc) PROVE \E out \in Results : Ends("fetch", out)
    <3>1. PICK v \in flight["fetch"].out.ver..remote : Ends("fetch", Returned(v, TRUE))
      BY <2>5 DEF FetchOk
    <3>2. flight["fetch"].out.ver \in 0..MaxVersion
      BY <1>1 DEF Flights, Results
    <3>3. v \in 0..MaxVersion
      BY <1>1, <3>1, <3>2
    <3> QED BY <3>1, <3>3
  <2>6. \/ \E out \in Results : Ends("fetch", out)
        \/ Moves("fetch", "clone")
        \/ /\ flight["fetch"].pc = "lock"
           /\ flight' = [flight EXCEPT !["fetch"] =
                [@ EXCEPT !.pc = IF dir = 0 THEN "clone" ELSE "update",
                          !.out = Returned(remote, TRUE)]]
    BY <1>1, <1>3, <2>5 DEF Fetching, FetchLock, UpdateOk, CloneOk, UpdateForbidden, UpdateFails,
       CloneFails
  <2> QED BY <2>2, <2>3, <2>4, <2>6
<1>4. CASE Archiving \/ Loading
  <2>1. req' = req
    BY <1>4 DEF Archiving, ArchiveLock, TarOk, TarFails, ReadArchive, Loading, LoadLock, LoadOk,
       LoadFails
  <2>2. \/ \E g \in Groups, out \in Results : Ends(g, out)
        \/ \E g \in Groups, pc \in {"tar", "zst", "read"} : Moves(g, pc)
    BY <1>1, <1>4 DEF Archiving, ArchiveLock, TarOk, TarFails, ReadArchive, Loading, LoadLock,
       LoadOk, LoadFails
  <2> QED BY <1>1, <2>1, <2>2, EndsFlows, MovesFlows DEF FlightPCs
<1>5. CASE Listing
  <2>1. req' = req
    BY <1>5 DEF Listing, LocalTags, LocalTagsFail, RemoteTags, RemoteTagsFail
  <2>2. \E g \in Groups, out \in Results : Ends(g, out)
    BY <1>1, <1>5 DEF Listing, LocalTags, LocalTagsFail, RemoteTags, RemoteTagsFail
  <2> QED BY <1>1, <2>1, <2>2, EndsFlows
<1>6. ASSUME NEW g \in Groups, Scheduling(g) PROVE FlowInv'
  <2>1. CASE TakeSlot(g)
    <3>1. /\ req' = req /\ flight'[g].pc = "lock"
          /\ \A h \in Groups : h # g => flight'[h] = flight[h]
      BY <1>1, <2>1 DEF TakeSlot, Flights
    <3> QED BY <1>1, <3>1, FlightFlows
  <2>2. CASE LoseSlot(g)
    BY <1>1, <2>2, EndsFlows DEF LoseSlot
  <2> QED BY <1>6, <2>1, <2>2, FinishFlows DEF Scheduling
<1>7. ASSUME NEW r \in Requests, Arrive(r) \/ Handling(r) PROVE FlowInv'
  <2>1. \/ \E g \in Groups, pc \in {"slot", "lock", "read"} : Do(r, g, pc)
        \/ UNCHANGED flight /\ \E out : Answers(r, out)
    BY <1>1, <1>7 DEF Arrive, ArriveGit, ArriveRepo, ArriveTags, Handling, Fetched, CachePut
  <2> QED BY <2>1, DoFlows, AnswersFlow
<1>8. \/ UNCHANGED <<flight, req>> \/ Fetching \/ Archiving \/ Loading \/ Listing
      \/ \E g \in Groups : Scheduling(g)
      \/ \E r \in Requests : Arrive(r) \/ Handling(r)
  BY DEF Next, AllDone, vars, Environment, Push, FetchExpires, CacheExpires, InvalidExpires,
     Cancel, Others
<1> QED BY <1>2, <1>3, <1>4, <1>5, <1>6, <1>7, <1>8

-----------------------------------------------------------------------------
(* Theorems. *)

\* The invariant holds in every reachable state.
THEOREM IInvHolds == Spec => []IInv
<1>1. Init => IInv
  BY InitIInv
<1>2. IInv /\ [Next]_vars => IInv'
  <2> SUFFICES ASSUME IInv, [Next]_vars PROVE IInv'
    OBVIOUS
  <2>1. CASE Environment
    <3>1. CASE \E r \in Requests : Arrive(r)
      BY <3>1, ArriveKeeps
    <3>2. CASE \/ Push \/ FetchExpires \/ CacheExpires \/ InvalidExpires
               \/ \E r \in Requests : Cancel(r)
      BY <3>2, EnvironmentKeeps
    <3> QED BY <2>1, <3>1, <3>2 DEF Environment
  <2>2. CASE Fetching
    BY <2>2, FetchLockKeeps, FetchOkKeeps, UpdateForbiddenKeeps, UpdateFailsKeeps,
       FailureKeeps DEF Fetching
  <2>3. CASE Archiving
    BY <2>3, ArchiveLockKeeps, TarOkKeeps, FailureKeeps, SuccessKeeps DEF Archiving
  <2>4. CASE Loading
    BY <2>4, LoadLockKeeps, FailureKeeps, SuccessKeeps DEF Loading
  <2>5. CASE Listing
    BY <2>5, FailureKeeps, SuccessKeeps DEF Listing
  <2>6. CASE \E g \in Groups : Scheduling(g)
    BY <2>6, SlotKeeps, FinishKeeps DEF Scheduling
  <2>7. CASE \E r \in Requests : Handling(r)
    BY <2>7, FetchedKeeps, CachePutKeeps DEF Handling
  <2>8. CASE UNCHANGED vars
    BY <2>8 DEF vars, IInv, TypeOK, LockExcludes, Writing, Reading, TarSnapshot,
       FetchSnapshot, ArchiveShowsClone, ArchiveStale, Untroubled, Healthy
  <2> QED BY <2>1, <2>2, <2>3, <2>4, <2>5, <2>6, <2>7, <2>8 DEF Next, AllDone
<1> QED BY <1>1, <1>2, PTL DEF Spec

\* Every variable keeps its type.
THEOREM TypeCorrect == Spec => []TypeOK
<1>1. IInv => TypeOK
  BY DEF IInv
<1> QED BY <1>1, IInvHolds, PTL

\* ArchiveRepo: what is served without a new tar is the clone's version.
THEOREM ArchiveIsCurrent == Spec => []ArchiveShowsClone
<1>1. IInv => ArchiveShowsClone
  BY DEF IInv
<1> QED BY <1>1, IInvHolds, PTL

\* Concurrency alone, in any number of requests, makes no request fail.
THEOREM NoErrorWithoutCause == Spec => []ErrorsAreCaused
<1>1. IInv => ErrorsAreCaused
  BY DEF IInv, Untroubled, Healthy, ErrorsAreCaused
<1> QED BY <1>1, IInvHolds, PTL

\* However long it waits, a fetch a forced request leads is no older than the
\* request.
THEOREM ForcedFetchesAreFresh == Spec => []ForcedFetchIsFresh
<1>1. Init => FreshInv
  BY GitterAssumption DEF Init, FreshInv, Writing, ForcedFetchIsFresh, NoFlight,
     Requests, Groups
<1>2. IInv /\ FreshInv /\ [Next]_vars => FreshInv'
  <2> SUFFICES ASSUME IInv, FreshInv, [Next]_vars PROVE FreshInv'
    OBVIOUS
  <2>1. CASE Environment \/ \E r \in Requests : Handling(r)
    BY <2>1, RequestsFresh
  <2>2. CASE Fetching
    BY <2>2, FetchLockFresh, FetchCommandFresh DEF Fetching
  <2>3. CASE Archiving \/ Loading \/ Listing
    BY <2>3, OtherFlightsFresh
  <2>4. CASE \E g \in Groups : Scheduling(g)
    BY <2>4, SchedulingFresh
  <2>5. CASE UNCHANGED vars
    BY <2>5 DEF vars, FreshInv, Writing, ForcedFetchIsFresh
  <2> QED BY <2>1, <2>2, <2>3, <2>4, <2>5 DEF Next, AllDone
<1>3. FreshInv => ForcedFetchIsFresh
  BY DEF FreshInv
<1> QED BY <1>1, <1>2, <1>3, IInvHolds, PTL DEF Spec

\* The semaphore, the lock and the flights of others never close a circle, for
\* any number of requests and slots: a waiting request always has a step of
\* gitter's own to wait for.
THEOREM NobodyIsStuck == Spec => []NobodyStuck
<1>1. Init => FlowInv
  BY DEF Init, FlowInv, WaitersFly, SlotsInUse, NoFlight, Groups
<1>2. TypeOK /\ FlowInv /\ [Next]_vars => FlowInv'
  BY FlowStep
<1>3. TypeOK /\ FlowInv => NobodyStuck
  BY FlowMeansProgress
<1> QED BY <1>1, <1>2, <1>3, TypeCorrect, PTL DEF Spec

=============================================================================
