---------------------------- MODULE ExporterProofs ----------------------------
(***************************************************************************)
(* Proofs about Exporter: whatever fails, nothing is sent on a closed      *)
(* channel, success means a complete export, and a bucket is changed only  *)
(* as Export allows; for all records, ecosystems, pool sizes and faults.   *)
(***************************************************************************)
EXTENDS Exporter, TLAPS

-----------------------------------------------------------------------------
(* The inductive invariant. *)

\* What a process holds belongs to where it stands.
DownHeld == \A d \in Downloaders : down[d].pc \in {"read", "send"} <=> down[d].rec # None

RouterHeld ==
  /\ router.pc \in {"pick", "give"} <=> router.rec # None
  /\ router.pc = "give" <=> router.to # None
  /\ router.rec = None => router.left = {}
  /\ router.rec # None => router.left \subseteq EcosOf(router.rec)
  /\ router.to \notin {None, All} => router.to \in EcosOf(router.rec) \ router.left
  /\ router.to = All => router.left = {}

WorkHeld ==
  \A w \in Workers :
    /\ work[w].pc = "send" <=> work[w].rec # None
    /\ work[w].pc = "send" => w \in EcosOf(work[w].rec) /\ work[w].rec \notin Garbled
    /\ IF work[w].pc = "final" THEN work[w].at \in DOMAIN FinalFiles(w) ELSE work[w].at = 0
    /\ \A r \in got[w] : r \notin Garbled /\ (w = All \/ w \in EcosOf(r))
    /\ work[w].pc = "none" => got[w] = {} /\ w # router.to /\ w # All

WriterHeld ==
  \A x \in Writers :
    /\ writer[x].pc = "write" <=> writer[x].file # None
    /\ writer[x].late => cancelled

Held == DownHeld /\ RouterHeld /\ WorkHeld /\ WriterHeld

\* A record is in one place: still to be listed, with one downloader, given up,
\* or past the router.
Started(r) == router.rec = r \/ \E w \in Workers : work[w].rec = r \/ r \in got[w]
Past(r) == r \notin todo \cup skipped /\ \A d \in Downloaders : down[d].rec # r

OnePlace ==
  /\ \A r \in todo : r \notin skipped /\ \A d \in Downloaders : down[d].rec # r
  /\ \A d \in Downloaders : down[d].rec \notin skipped
  /\ \A c, d \in Downloaders : down[c].rec = down[d].rec /\ down[c].rec # None => c = d
  /\ \A r \in Records : Started(r) => Past(r)

\* A worker, or its files, exist because of a record.
Needed(w) == w = All \/ \E r \in Records : Past(r) /\ w \in EcosOf(r)
WorkersNeeded == \A w \in Workers : work[w].pc # "none" \/ router.to = w => Needed(w)

\* Until the run is cancelled no record is dropped: one that was listed is with
\* a downloader, given up, or has reached its workers or will.
Reaches(w, r) ==
  \/ r \in got[w] \/ work[w].rec = r
  \/ r \in Garbled /\ work[w].pc # "none"
  \/ router.rec = r /\ (w \in router.left \/ w = router.to \/ w = All)

NoneDropped ==
  ~cancelled =>
    \A r \in Records \ (todo \cup skipped) :
      \/ \E d \in Downloaders : down[d].rec = r
      \/ \A w \in {All} \cup EcosOf(r) : Reaches(w, r)

\* The order in which the parts end.
Idle(w) == work[w].pc \in {"none", "done"}
EndsInOrder ==
  /\ main \notin {"list", "failed"} /\ ~cancelled => todo = {}
  /\ main \in {"routing", "writes", "success"} => \A d \in Downloaders : down[d].pc = "done"
  /\ main \in {"writes", "success"} => router.pc = "done"
  /\ router.pc = "done" => \A w \in Workers : Idle(w)
  /\ router.pc \in {"finish", "done"} /\ ~cancelled => main \in {"routing", "writes", "success"}
  /\ \A w \in Workers : work[w].pc \in {"final", "done"} =>
       cancelled \/ router.pc \in {"finish", "done"}
  /\ \A w \in Workers : work[w].pc = "final" => router.pc = "finish"
  /\ \A d \in Downloaders : down[d].pc = "done" => cancelled \/ main # "list"
  /\ \A x \in Writers : writer[x].pc = "done" => cancelled \/ main \in {"writes", "success"}
  /\ main = "success" => ~cancelled /\ \A x \in Writers : writer[x].pc = "done"

\* A file is whole, and an aggregate is made when no record can be lost any more.
Sound(file, data) ==
  \/ /\ file \in JsonFiles /\ Past(file[2]) /\ file[2] \notin Garbled
     /\ file[1] \in EcosOf(file[2]) /\ data = {file[2]}
  \/ \E w \in Workers :
       /\ file \in Aggregates(w) /\ Needed(w)
       /\ data = Content(file, Due(w, skipped))
       /\ \A d \in Downloaders : down[d].pc = "done"

FilesAreSound ==
  /\ \A w \in Workers : work[w].pc \in {"final", "done"} /\ ~cancelled => got[w] = Due(w, skipped)
  /\ \A x \in Writers : writer[x].pc = "write" /\ ~writer[x].late =>
       Sound(writer[x].file, writer[x].data)
  /\ ToBucket \/ ~cancelled => \A f \in Files : out[f] # None => Sound(f, out[f])

\* Until the run is cancelled a file that was sent is with a writer or written.
Delivered(f) == out[f] # None \/ \E x \in Writers : writer[x].file = f
FilesArrive ==
  ~cancelled =>
    \A w \in Workers :
      /\ w # All => \A r \in got[w] : Delivered(<<w, r>>)
      /\ \A i \in DOMAIN FinalFiles(w) :
           work[w].pc = "done" \/ (work[w].pc = "final" /\ i < work[w].at)
             => Delivered(FinalFiles(w)[i])

IInv ==
  TypeOK /\ Held /\ OnePlace /\ WorkersNeeded /\ NoneDropped /\ EndsInOrder /\ FilesAreSound /\ FilesArrive

-----------------------------------------------------------------------------
(* The files. *)

\* Ecosystems of records, and the worker of all is none of them.
LEMMA EcoFacts ==
  /\ \A r \in Records : EcosOf(r) \subseteq Ecos
  /\ All \notin Ecos
  /\ Ecos \subseteq Workers /\ All \in Workers
<1>1. \A r \in Records : EcosOf(r) \subseteq Ecos
  BY DEF Ecos
<1>2. ASSUME NEW r \in Records PROVE All \notin EcosOf(r)
  <2>1. \A n \in Named[r] : n \in Names
    BY DEF Names
  <2> QED BY <2>1, FilesAssumption DEF EcosOf
<1> QED BY <1>1, <1>2 DEF Ecos, Workers

\* The final files of a worker.
LEMMA FinalFacts ==
  ASSUME NEW w \in Workers
  PROVE  /\ Len(FinalFiles(w)) \in {2, 3}
         /\ DOMAIN FinalFiles(w) = 1..Len(FinalFiles(w))
         /\ \A i \in DOMAIN FinalFiles(w) : FinalFiles(w)[i] \in Aggregates(w)
<1>1. CASE w = All
  <2>1. FinalFiles(w) = << <<All, Csv>>, <<All, Zip>>, <<All, Txt>> >>
    BY <1>1 DEF FinalFiles
  <2>2. Len(FinalFiles(w)) = 3 /\ DOMAIN FinalFiles(w) = 1..3
    BY <2>1
  <2> QED BY <2>2 DEF Aggregates
<1>2. CASE w # All /\ w = GIT
  <2>1. FinalFiles(w) = << <<GIT, Csv>>, <<GIT, Zip>>, <<GIT, Vanir>> >>
    BY <1>2 DEF FinalFiles
  <2>2. Len(FinalFiles(w)) = 3 /\ DOMAIN FinalFiles(w) = 1..3
    BY <2>1
  <2> QED BY <2>2 DEF Aggregates
<1>3. CASE w # All /\ w # GIT
  <2>1. FinalFiles(w) = << <<w, Csv>>, <<w, Zip>> >>
    BY <1>3 DEF FinalFiles
  <2>2. Len(FinalFiles(w)) = 2 /\ DOMAIN FinalFiles(w) = 1..2
    BY <2>1
  <2> QED BY <2>2 DEF Aggregates
<1> QED BY <1>1, <1>2, <1>3

\* An aggregate is a file of its worker's directory and not a JSON file.
LEMMA AggregateFacts ==
  ASSUME NEW w \in Workers, NEW f \in Aggregates(w)
  PROVE  f \in AggregateFiles /\ f \in Files /\ f[1] = w /\ f \notin JsonFiles
<1>1. f[1] = w /\ f[2] \in FileNames
  BY DEF Aggregates, FinalFiles, FileNames
<1>2. f \notin JsonFiles
  BY <1>1, NamesAssumption DEF JsonFiles
<1> QED BY <1>1, <1>2 DEF AggregateFiles, Files

\* What an aggregate shows is of a type its readers know.
LEMMA ContentType ==
  ASSUME NEW f, NEW S \in SUBSET Records
  PROVE  Content(f, S) \in Data
<1>1. \A r \in S : EcosOf(r) \subseteq Ecos
  BY EcoFacts
<1>2. UNION {EcosOf(r) : r \in S} \in SUBSET Ecos
  BY <1>1
<1>3. UNION {EcosOf(r) \X {r} : r \in S} \in SUBSET (Ecos \X Records)
  BY <1>1
<1>4. S \in SUBSET Records /\ S \cap Signed \in SUBSET Records
  OBVIOUS
<1> QED BY <1>2, <1>3, <1>4 DEF Content, Data

-----------------------------------------------------------------------------
(* What a step keeps of the files. *)

\* A sound file stays sound while no record is lost and no downloader starts.
LEMMA SoundKept ==
  ASSUME UNCHANGED skipped,
         \A r \in Records : Past(r) => Past(r)',
         (\A d \in Downloaders : down[d].pc = "done") => (\A d \in Downloaders : down'[d].pc = "done"),
         NEW f, NEW data, Sound(f, data)
  PROVE  Sound(f, data)'
<1>1. CASE /\ f \in JsonFiles /\ Past(f[2]) /\ f[2] \notin Garbled
           /\ f[1] \in EcosOf(f[2]) /\ data = {f[2]}
  BY <1>1 DEF Sound, JsonFiles
<1>2. CASE \E w \in Workers : f \in Aggregates(w) /\ Needed(w) /\ data = Content(f, Due(w, skipped))
                              /\ \A d \in Downloaders : down[d].pc = "done"
  BY <1>2 DEF Sound, Needed
<1> QED BY <1>1, <1>2 DEF Sound

\* A step of the router, a worker or a writer changes no place of a record.
LEMMA SoundSame ==
  ASSUME UNCHANGED <<todo, skipped, down>>
  PROVE  \A f, data : Sound(f, data) => Sound(f, data)'
BY SoundKept DEF Past

\* A step that neither sends nor writes a file.
LEMMA FilesKept ==
  ASSUME FilesAreSound, FilesArrive,
         UNCHANGED <<skipped, cancelled, writer, out>>,
         \A w \in Workers : work'[w].pc \in {"final", "done"} => work'[w] = work[w] /\ got'[w] = got[w],
         \A w \in Workers : w # All => got'[w] = got[w],
         \A r \in Records : Past(r) => Past(r)',
         (\A d \in Downloaders : down[d].pc = "done") => (\A d \in Downloaders : down'[d].pc = "done")
  PROVE  FilesAreSound' /\ FilesArrive'
<1>1. \A f, data : Sound(f, data) => Sound(f, data)'
  BY SoundKept
<1>2. FilesAreSound'
  BY <1>1 DEF FilesAreSound
<1>3. \A f : Delivered(f) => Delivered(f)'
  BY DEF Delivered
<1>4. FilesArrive'
  BY <1>3 DEF FilesArrive
<1> QED BY <1>2, <1>4

\* When only main moves, all but the order in which the parts end is kept.
LEMMA OnlyMainMoves ==
  ASSUME IInv, main' \in {"list", "downloads", "routing", "writes", "success", "failed"}, faults' \in Nat,
         UNCHANGED <<todo, down, skipped, router, work, got, writer, cancelled, out>>,
         EndsInOrder'
  PROVE  IInv'
<1> USE DEF IInv
<1>1. TypeOK' /\ Held'
  BY DEF TypeOK, Held, DownHeld, RouterHeld, WorkHeld, WriterHeld
<1>2. OnePlace' /\ WorkersNeeded' /\ NoneDropped'
  BY DEF OnePlace, Started, Past, WorkersNeeded, Needed, NoneDropped, Reaches
<1>3. FilesAreSound' /\ FilesArrive'
  BY FilesKept DEF Past
<1> QED BY <1>1, <1>2, <1>3

\* The files that FilesArrive is about.
LEMMA SentFiles ==
  ASSUME TypeOK, NEW w \in Workers
  PROVE  /\ \A i \in DOMAIN FinalFiles(w) : FinalFiles(w)[i] \in Files
         /\ w # All => \A r \in got[w] : <<w, r>> \in Files
BY FinalFacts, AggregateFacts DEF TypeOK, Files, JsonFiles, Workers

\* A worker goes on after one of its final files.
LEMMA NextFinalFacts ==
  ASSUME TypeOK, WorkHeld, NEW w \in Workers, work[w].pc = "final", NextFinal(w)
  PROVE  /\ work' \in [Workers -> WorkState]
         /\ \A v \in Workers : v # w => work'[v] = work[v]
         /\ work'[w].rec = None
         /\ \/ work[w].at = Len(FinalFiles(w)) /\ work'[w].pc = "done" /\ work'[w].at = 0
            \/ work[w].at + 1 \in DOMAIN FinalFiles(w) /\ work'[w].pc = "final" /\ work'[w].at = work[w].at + 1
<1>1. work[w].at \in DOMAIN FinalFiles(w) /\ work[w].rec = None /\ work[w] \in WorkState
  BY DEF WorkHeld, TypeOK
<1>2. CASE work[w].at = Len(FinalFiles(w))
  BY <1>1, <1>2 DEF NextFinal, TypeOK, WorkState, IdleWork
<1>3. CASE work[w].at # Len(FinalFiles(w))
  <2>1. work[w].at + 1 \in DOMAIN FinalFiles(w) /\ work[w].at + 1 \in 0..3
    <3> DEFINE n == Len(FinalFiles(w))
    <3>1. n \in {2, 3} /\ work[w].at \in 1..n /\ work[w].at # n
      BY <1>1, <1>3, FinalFacts
    <3>2. DOMAIN FinalFiles(w) = 1..n
      BY FinalFacts
    <3> HIDE DEF n
    <3>3. work[w].at + 1 \in 1..n /\ work[w].at + 1 \in 0..3
      BY <3>1
    <3> QED BY <3>2, <3>3
  <2>2. [work[w] EXCEPT !.at = work[w].at + 1] \in WorkState
    BY <2>1, <1>1 DEF WorkState
  <2>3. work' = [work EXCEPT ![w] = [work[w] EXCEPT !.at = work[w].at + 1]]
    BY <1>3 DEF NextFinal
  <2> QED BY <2>1, <2>2, <2>3, <1>1 DEF TypeOK, WorkState
<1> QED BY <1>2, <1>3

-----------------------------------------------------------------------------
(* Every step keeps the invariant. *)

\* A listed record is held by a downloader and by nobody else.
LEMMA ListStep ==
  ASSUME IInv, NEW r \in todo, NEW d \in Downloaders, List(r, d)
  PROVE  IInv'
<1> USE DEF IInv, Held
<1>1. TypeOK'
  BY EcoFacts, NamesAssumption DEF TypeOK, DownState, DownHeld, WorkHeld, List
<1>2. DownHeld'
  BY EcoFacts, NamesAssumption DEF DownHeld, TypeOK, DownState, List
<1>3. RouterHeld'
  BY DEF RouterHeld, DownHeld, List
<1>4. WorkHeld'
  BY DEF WorkHeld, List
<1>5. WriterHeld'
  BY DEF WriterHeld, List
<1>6. OnePlace'
  BY EcoFacts, NamesAssumption DEF OnePlace, Started, Past, TypeOK, DownState, DownHeld, List
<1>7. WorkersNeeded'
  BY EcoFacts, NamesAssumption DEF WorkersNeeded, Needed, Past, TypeOK, DownState, OnePlace, Started,
                                   RouterHeld, DownHeld, List
<1>8. NoneDropped'
  BY EcoFacts, NamesAssumption DEF NoneDropped, Reaches, TypeOK, DownState, RouterHeld, WorkHeld,
                                   DownHeld, List
<1>9. EndsInOrder'
  BY DEF EndsInOrder, Idle, Running, TypeOK, DownHeld, RouterHeld, WorkHeld, WriterHeld, DownState, List
<1>10. FilesAreSound' /\ FilesArrive'
  <2>1. \A q \in Records : Past(q) => Past(q)'
    BY NamesAssumption DEF Past, TypeOK, DownState, DownHeld, OnePlace, Started, List
  <2>2. (\A c \in Downloaders : down[c].pc = "done") => (\A c \in Downloaders : down'[c].pc = "done")
    BY DEF TypeOK, List
  <2> QED BY <2>1, <2>2, FilesKept DEF List
<1> QED BY <1>1, <1>2, <1>3, <1>4, <1>5, <1>6, <1>7, <1>8, <1>9, <1>10

\* Closing the downloaders' channel ends the listing; records are left only after a cancellation.
LEMMA ListEndsStep ==
  ASSUME IInv, ListEnds
  PROVE  IInv'
<1>1. EndsInOrder'
  BY DEF IInv, EndsInOrder, Idle, Running, Held, DownHeld, TypeOK, ListEnds, ListOver
<1> QED BY <1>1, OnlyMainMoves DEF IInv, TypeOK, ListEnds

\* A failed listing ends the process, and with it every obligation.
LEMMA ListFailsStep ==
  ASSUME IInv, ListFails
  PROVE  IInv'
<1>1. EndsInOrder'
  BY DEF IInv, EndsInOrder, Idle, Running, Held, DownHeld, TypeOK, ListFails, Fails
<1> QED BY <1>1, OnlyMainMoves DEF IInv, TypeOK, ListFails, Fails

\* The router's channel is closed when no downloader holds a record.
LEMMA DownloadsEndStep ==
  ASSUME IInv, DownloadsEnd
  PROVE  IInv'
<1>1. EndsInOrder'
  BY DEF IInv, EndsInOrder, Idle, Running, Held, DownHeld, TypeOK, DownloadsEnd
<1> QED BY <1>1, OnlyMainMoves DEF IInv, TypeOK, DownloadsEnd

\* The writers' channel is closed when no worker is left.
LEMMA RoutingEndsStep ==
  ASSUME IInv, RoutingEnds
  PROVE  IInv'
<1>1. EndsInOrder'
  BY DEF IInv, EndsInOrder, Idle, Running, Held, DownHeld, TypeOK, RoutingEnds
<1> QED BY <1>1, OnlyMainMoves DEF IInv, TypeOK, RoutingEnds

\* The run ends when every writer has: with success only if nothing was cancelled.
LEMMA WritesEndStep ==
  ASSUME IInv, WritesEnd
  PROVE  IInv'
<1>1. EndsInOrder'
  BY DEF IInv, EndsInOrder, Idle, Running, Held, DownHeld, TypeOK, WritesEnd
<1> QED BY <1>1, OnlyMainMoves DEF IInv, TypeOK, WritesEnd

\* A record that was read is held as before.
LEMMA DownloadedStep ==
  ASSUME IInv, NEW d \in Downloaders, Downloaded(d)
  PROVE  IInv'
<1> USE DEF IInv, Held
<1>1. TypeOK'
  BY EcoFacts, NamesAssumption DEF TypeOK, DownState, DownHeld, WorkHeld, Downloaded
<1>2. DownHeld'
  BY EcoFacts, NamesAssumption DEF DownHeld, TypeOK, DownState, Downloaded
<1>3. RouterHeld'
  BY DEF RouterHeld, DownHeld, Downloaded
<1>4. WorkHeld'
  BY DEF WorkHeld, Downloaded
<1>5. WriterHeld'
  BY DEF WriterHeld, Downloaded
<1>6. OnePlace'
  BY EcoFacts, NamesAssumption DEF OnePlace, Started, Past, TypeOK, DownState, DownHeld, Downloaded
<1>7. WorkersNeeded'
  BY EcoFacts, NamesAssumption DEF WorkersNeeded, Needed, Past, TypeOK, DownState, OnePlace, Started,
                                   RouterHeld, DownHeld, Downloaded
<1>8. NoneDropped'
  BY EcoFacts, NamesAssumption DEF NoneDropped, Reaches, TypeOK, DownState, RouterHeld, WorkHeld,
                                   DownHeld, Downloaded
<1>9. EndsInOrder'
  BY DEF EndsInOrder, Idle, Running, TypeOK, DownHeld, RouterHeld, WorkHeld, WriterHeld, DownState,
         Downloaded
<1>10. FilesAreSound' /\ FilesArrive'
  <2>1. \A r \in Records : Past(r) => Past(r)'
    BY NamesAssumption DEF Past, TypeOK, DownState, DownHeld, OnePlace, Started, Downloaded
  <2>2. (\A c \in Downloaders : down[c].pc = "done") => (\A c \in Downloaders : down'[c].pc = "done")
    BY DEF TypeOK, Downloaded
  <2> QED BY <2>1, <2>2, FilesKept DEF Downloaded
<1> QED BY <1>1, <1>2, <1>3, <1>4, <1>5, <1>6, <1>7, <1>8, <1>9, <1>10

\* A record that cannot be read is skipped before any aggregate is made.
LEMMA ReadFailsStep ==
  ASSUME IInv, NEW d \in Downloaders, ReadFails(d)
  PROVE  IInv'
<1> USE DEF IInv, Held
<1>1. TypeOK'
  BY EcoFacts, NamesAssumption DEF TypeOK, DownState, DownHeld, WorkHeld, ReadFails, Fails, IdleDown
<1>2. DownHeld'
  BY EcoFacts, NamesAssumption DEF DownHeld, TypeOK, DownState, ReadFails, Fails, IdleDown
<1>3. RouterHeld'
  BY DEF RouterHeld, DownHeld, ReadFails, Fails, IdleDown
<1>4. WorkHeld'
  BY DEF WorkHeld, ReadFails, Fails, IdleDown
<1>5. WriterHeld'
  BY DEF WriterHeld, ReadFails, Fails, IdleDown
<1>6. OnePlace'
  BY EcoFacts, NamesAssumption DEF OnePlace, Started, Past, TypeOK, DownState, DownHeld, ReadFails,
                                   Fails, IdleDown
<1>7. WorkersNeeded'
  BY EcoFacts, NamesAssumption DEF WorkersNeeded, Needed, Past, TypeOK, DownState, OnePlace, Started,
                                   RouterHeld, DownHeld, ReadFails, Fails, IdleDown
<1>8. NoneDropped'
  BY EcoFacts, NamesAssumption DEF NoneDropped, Reaches, TypeOK, DownState, RouterHeld, WorkHeld,
                                   DownHeld, ReadFails, Fails, IdleDown
<1>9. EndsInOrder'
  BY DEF EndsInOrder, Idle, Running, TypeOK, DownHeld, RouterHeld, WorkHeld, WriterHeld, DownState,
         ReadFails, Fails, IdleDown
<1>10. FilesAreSound'
  <2>1. down[d].rec \in Records /\ down[d].pc = "read"
    BY DEF ReadFails, DownHeld, TypeOK, DownState
  <2>2. \A r \in Records : Past(r) => Past(r)'
    BY <2>1, NamesAssumption DEF Past, ReadFails, IdleDown, TypeOK, DownState
  <2>3. ASSUME NEW f, NEW data, Sound(f, data) PROVE Sound(f, data)'
    BY <2>1, <2>2, <2>3 DEF Sound, JsonFiles
  <2>4. \A w \in Workers : work[w].pc \in {"final", "done"} => cancelled
    BY <2>1 DEF EndsInOrder
  <2> QED BY <2>3, <2>4 DEF FilesAreSound, ReadFails
<1>11. FilesArrive'
  <2>1. \A f : Delivered(f) => Delivered(f)'
    BY DEF Delivered, ReadFails
  <2> QED BY <2>1 DEF FilesArrive, ReadFails
<1> QED BY <1>1, <1>2, <1>3, <1>4, <1>5, <1>6, <1>7, <1>8, <1>9, <1>10, <1>11

\* A downloader leaves without a record, or under a cancellation.
LEMMA DownloaderEndsStep ==
  ASSUME IInv, NEW d \in Downloaders, DownloaderEnds(d)
  PROVE  IInv'
<1> USE DEF IInv, Held
<1>1. TypeOK'
  BY EcoFacts, NamesAssumption DEF TypeOK, DownState, DownHeld, WorkHeld, DownloaderEnds
<1>2. DownHeld'
  BY EcoFacts, NamesAssumption DEF DownHeld, TypeOK, DownState, DownloaderEnds
<1>3. RouterHeld'
  BY DEF RouterHeld, DownHeld, DownloaderEnds
<1>4. WorkHeld'
  BY DEF WorkHeld, DownloaderEnds
<1>5. WriterHeld'
  BY DEF WriterHeld, DownloaderEnds
<1>6. OnePlace'
  BY EcoFacts, NamesAssumption DEF OnePlace, Started, Past, TypeOK, DownState, DownHeld, DownloaderEnds
<1>7. WorkersNeeded'
  BY EcoFacts, NamesAssumption DEF WorkersNeeded, Needed, Past, TypeOK, DownState, OnePlace, Started,
                                   RouterHeld, DownHeld, DownloaderEnds
<1>8. NoneDropped'
  BY EcoFacts, NamesAssumption DEF NoneDropped, Reaches, TypeOK, DownState, RouterHeld, WorkHeld,
                                   DownHeld, DownloaderEnds
<1>9. EndsInOrder'
  BY DEF EndsInOrder, Idle, Running, TypeOK, DownHeld, RouterHeld, WorkHeld, WriterHeld, DownState,
         DownloaderEnds
<1>10. FilesAreSound' /\ FilesArrive'
  <2>1. \A r \in Records : Past(r) => Past(r)'
    BY NamesAssumption DEF Past, TypeOK, DownState, DownHeld, OnePlace, Started, DownloaderEnds
  <2>2. (\A c \in Downloaders : down[c].pc = "done") => (\A c \in Downloaders : down'[c].pc = "done")
    BY DEF TypeOK, DownloaderEnds
  <2> QED BY <2>1, <2>2, FilesKept DEF DownloaderEnds
<1> QED BY <1>1, <1>2, <1>3, <1>4, <1>5, <1>6, <1>7, <1>8, <1>9, <1>10

\* The record goes from the downloader to the router, which owes it to all its workers.
LEMMA RouteStep ==
  ASSUME IInv, NEW d \in Downloaders, Route(d)
  PROVE  IInv'
<1> USE DEF IInv, Held
<1>1. TypeOK'
  BY EcoFacts, NamesAssumption DEF TypeOK, DownState, RouterState, DownHeld, WorkHeld, Route, IdleDown
<1>2. DownHeld'
  BY EcoFacts, NamesAssumption DEF DownHeld, TypeOK, DownState, RouterState, Route, IdleDown
<1>3. RouterHeld'
  BY EcoFacts, NamesAssumption DEF RouterHeld, DownHeld, TypeOK, DownState, RouterState, Route, IdleDown
<1>4. WorkHeld'
  BY EcoFacts, NamesAssumption DEF WorkHeld, RouterHeld, TypeOK, DownState, RouterState, Route, IdleDown
<1>5. WriterHeld'
  BY DEF WriterHeld, Route, IdleDown
<1>6. OnePlace'
  BY EcoFacts, NamesAssumption DEF OnePlace, Started, Past, TypeOK, DownState, RouterState, DownHeld,
                                   RouterHeld, Route, IdleDown
<1>7. WorkersNeeded'
  BY EcoFacts, NamesAssumption DEF WorkersNeeded, Needed, Past, TypeOK, DownState, RouterState,
                                   OnePlace, Started, RouterHeld, DownHeld, Route, IdleDown
<1>8. NoneDropped'
  BY EcoFacts, NamesAssumption DEF NoneDropped, Reaches, TypeOK, DownState, RouterState, RouterHeld,
                                   WorkHeld, DownHeld, Route, IdleDown
<1>9. EndsInOrder'
  BY DEF EndsInOrder, Idle, Running, TypeOK, DownHeld, RouterHeld, WorkHeld, WriterHeld, DownState,
         RouterState, Route, IdleDown
<1>10. FilesAreSound' /\ FilesArrive'
  <2>1. \A r \in Records : Past(r) => Past(r)'
    BY NamesAssumption DEF Past, TypeOK, DownState, DownHeld, OnePlace, Started, Route, IdleDown
  <2>2. (\A c \in Downloaders : down[c].pc = "done") => (\A c \in Downloaders : down'[c].pc = "done")
    BY DEF TypeOK, Route, IdleDown
  <2> QED BY <2>1, <2>2, FilesKept DEF Route, IdleDown
<1> QED BY <1>1, <1>2, <1>3, <1>4, <1>5, <1>6, <1>7, <1>8, <1>9, <1>10

\* The worker the record is owed to exists from here on.
LEMMA PickStep ==
  ASSUME IInv, NEW e \in Ecos, Pick(e)
  PROVE  IInv'
<1> USE DEF IInv, Held
<1>1. TypeOK'
  <2>1. [router EXCEPT !.pc = "give", !.to = e, !.left = router.left \ {e}] \in RouterState
    BY EcoFacts DEF RouterState, TypeOK
  <2>2. [work[e] EXCEPT !.pc = IF work[e].pc = "none" THEN "recv" ELSE work[e].pc] \in WorkState
    BY EcoFacts DEF WorkState, TypeOK
  <2> QED BY <2>1, <2>2, EcoFacts DEF Pick, TypeOK
<1>2. DownHeld'
  BY DEF DownHeld, Pick
<1>3. RouterHeld'
  BY EcoFacts, NamesAssumption DEF RouterHeld, TypeOK, RouterState, WorkState, Pick
<1>4. WorkHeld'
  BY EcoFacts, NamesAssumption DEF WorkHeld, RouterHeld, TypeOK, RouterState, WorkState, Pick
<1>5. WriterHeld'
  BY DEF WriterHeld, Pick
<1>6. OnePlace'
  BY EcoFacts, NamesAssumption DEF OnePlace, Started, Past, TypeOK, RouterState, WorkState, RouterHeld,
                                   WorkHeld, Pick
<1>7. WorkersNeeded'
  BY EcoFacts, NamesAssumption DEF WorkersNeeded, Needed, Past, TypeOK, RouterState, WorkState,
                                   OnePlace, Started, RouterHeld, DownHeld, Pick
<1>8. NoneDropped'
  BY EcoFacts, NamesAssumption DEF NoneDropped, Reaches, TypeOK, RouterState, WorkState, RouterHeld,
                                   WorkHeld, DownHeld, Pick
<1>9. EndsInOrder'
  BY DEF EndsInOrder, Idle, Running, TypeOK, DownHeld, RouterHeld, WorkHeld, WriterHeld, RouterState,
         WorkState, Pick
<1>10. FilesAreSound' /\ FilesArrive'
  <2>1. \A w \in Workers : work'[w].pc \in {"final", "done"} => work'[w] = work[w] /\ got'[w] = got[w]
    BY EcoFacts DEF TypeOK, WorkState, RouterState, Pick
  <2>2. \A w \in Workers : w # All => got'[w] = got[w]
    BY DEF TypeOK, Pick
  <2> QED BY <2>1, <2>2, FilesKept DEF Past, Pick
<1> QED BY <1>1, <1>2, <1>3, <1>4, <1>5, <1>6, <1>7, <1>8, <1>9, <1>10

\* With its ecosystems served, the record is owed to the worker of all only.
LEMMA PickAllStep ==
  ASSUME IInv, PickAll
  PROVE  IInv'
<1> USE DEF IInv, Held
<1>1. TypeOK'
  BY EcoFacts, NamesAssumption DEF TypeOK, RouterState, DownHeld, WorkHeld, PickAll
<1>2. DownHeld'
  BY DEF DownHeld, PickAll
<1>3. RouterHeld'
  BY EcoFacts, NamesAssumption DEF RouterHeld, TypeOK, RouterState, PickAll
<1>4. WorkHeld'
  BY EcoFacts, NamesAssumption DEF WorkHeld, RouterHeld, TypeOK, RouterState, PickAll
<1>5. WriterHeld'
  BY DEF WriterHeld, PickAll
<1>6. OnePlace'
  BY EcoFacts, NamesAssumption DEF OnePlace, Started, Past, TypeOK, RouterState, RouterHeld, PickAll
<1>7. WorkersNeeded'
  BY EcoFacts, NamesAssumption DEF WorkersNeeded, Needed, Past, TypeOK, RouterState, OnePlace, Started,
                                   RouterHeld, DownHeld, PickAll
<1>8. NoneDropped'
  BY EcoFacts, NamesAssumption DEF NoneDropped, Reaches, TypeOK, RouterState, RouterHeld, WorkHeld,
                                   DownHeld, PickAll
<1>9. EndsInOrder'
  BY DEF EndsInOrder, Idle, Running, TypeOK, DownHeld, RouterHeld, WorkHeld, WriterHeld, RouterState,
         PickAll
<1>10. FilesAreSound' /\ FilesArrive'
  BY FilesKept DEF Past, PickAll
<1> QED BY <1>1, <1>2, <1>3, <1>4, <1>5, <1>6, <1>7, <1>8, <1>9, <1>10

\* The worker holds the record the router owed it.
LEMMA GiveStep ==
  ASSUME IInv, Give
  PROVE  IInv'
<1> USE DEF IInv, Held
<1>1. TypeOK'
  <2> DEFINE w == router.to
             r == router.rec
  <2>1. w \in Workers /\ r \in Records
    BY DEF Give, RouterHeld, TypeOK, RouterState
  <2>2. IdleRouter \in RouterState /\ [router EXCEPT !.pc = "pick", !.to = None] \in RouterState
    BY DEF IdleRouter, RouterState, TypeOK
  <2>3. work[w] \in WorkState /\ [work[w] EXCEPT !.pc = "send", !.rec = r] \in WorkState
    BY <2>1 DEF WorkState, TypeOK
  <2>4. work' \in [Workers -> WorkState] /\ router' \in RouterState
    BY <2>1, <2>2, <2>3 DEF Give, TypeOK
  <2>5. got' \in [Workers -> SUBSET Records]
    BY <2>1 DEF Give, TypeOK
  <2> QED BY <2>4, <2>5 DEF Give, TypeOK
<1>2. DownHeld'
  BY DEF DownHeld, Give, IdleRouter
<1>3. RouterHeld'
  BY EcoFacts, NamesAssumption DEF RouterHeld, TypeOK, RouterState, WorkState, Give, IdleRouter
<1>4. WorkHeld'
  BY EcoFacts, NamesAssumption DEF WorkHeld, RouterHeld, TypeOK, RouterState, WorkState, Give, IdleRouter
<1>5. WriterHeld'
  BY DEF WriterHeld, Give, IdleRouter
<1>6. OnePlace'
  BY EcoFacts, NamesAssumption DEF OnePlace, Started, Past, TypeOK, RouterState, WorkState, RouterHeld,
                                   WorkHeld, Give, IdleRouter
<1>7. WorkersNeeded'
  BY EcoFacts, NamesAssumption DEF WorkersNeeded, Needed, Past, TypeOK, RouterState, WorkState,
                                   OnePlace, Started, RouterHeld, DownHeld, Give, IdleRouter
<1>8. NoneDropped'
  BY EcoFacts, NamesAssumption DEF NoneDropped, Reaches, TypeOK, RouterState, WorkState, RouterHeld,
                                   WorkHeld, DownHeld, Give, IdleRouter
<1>9. EndsInOrder'
  BY DEF EndsInOrder, Idle, Running, TypeOK, DownHeld, RouterHeld, WorkHeld, WriterHeld, RouterState,
         WorkState, Give, IdleRouter
<1>10. FilesAreSound' /\ FilesArrive'
  <2>1. \A w \in Workers : work'[w].pc \in {"final", "done"} => work'[w] = work[w] /\ got'[w] = got[w]
    BY EcoFacts DEF TypeOK, WorkState, RouterState, Give, IdleRouter
  <2>2. \A w \in Workers : w # All => got'[w] = got[w]
    BY DEF TypeOK, Give, IdleRouter
  <2> QED BY <2>1, <2>2, FilesKept DEF Past, Give, IdleRouter
<1> QED BY <1>1, <1>2, <1>3, <1>4, <1>5, <1>6, <1>7, <1>8, <1>9, <1>10

\* The router gives records away no more: it has none, or the run is cancelled.
LEMMA RouterFinishesStep ==
  ASSUME IInv, RouterFinishes
  PROVE  IInv'
<1> USE DEF IInv, Held
<1>1. TypeOK'
  BY EcoFacts, NamesAssumption DEF TypeOK, RouterState, DownHeld, WorkHeld, RouterFinishes, IdleRouter,
                                   DownloadsClosed
<1>2. DownHeld'
  BY DEF DownHeld, RouterFinishes, IdleRouter, DownloadsClosed
<1>3. RouterHeld'
  BY EcoFacts, NamesAssumption DEF RouterHeld, TypeOK, RouterState, RouterFinishes, IdleRouter,
                                   DownloadsClosed
<1>4. WorkHeld'
  BY EcoFacts, NamesAssumption DEF WorkHeld, RouterHeld, TypeOK, RouterState, RouterFinishes,
                                   IdleRouter, DownloadsClosed
<1>5. WriterHeld'
  BY DEF WriterHeld, RouterFinishes, IdleRouter, DownloadsClosed
<1>6. OnePlace'
  BY EcoFacts, NamesAssumption DEF OnePlace, Started, Past, TypeOK, RouterState, RouterHeld,
                                   RouterFinishes, IdleRouter, DownloadsClosed
<1>7. WorkersNeeded'
  BY EcoFacts, NamesAssumption DEF WorkersNeeded, Needed, Past, TypeOK, RouterState, OnePlace, Started,
                                   RouterHeld, DownHeld, RouterFinishes, IdleRouter, DownloadsClosed
<1>8. NoneDropped'
  BY EcoFacts, NamesAssumption DEF NoneDropped, Reaches, TypeOK, RouterState, RouterHeld, WorkHeld,
                                   DownHeld, RouterFinishes, IdleRouter, DownloadsClosed
<1>9. EndsInOrder'
  BY DEF EndsInOrder, Idle, Running, TypeOK, DownHeld, RouterHeld, WorkHeld, WriterHeld, RouterState,
         RouterFinishes, IdleRouter, DownloadsClosed
<1>10. FilesAreSound' /\ FilesArrive'
  BY FilesKept DEF Past, RouterFinishes, IdleRouter, DownloadsClosed
<1> QED BY <1>1, <1>2, <1>3, <1>4, <1>5, <1>6, <1>7, <1>8, <1>9, <1>10

\* The router ends after its last worker.
LEMMA RouterEndsStep ==
  ASSUME IInv, RouterEnds
  PROVE  IInv'
<1> USE DEF IInv, Held
<1>1. TypeOK'
  BY EcoFacts, NamesAssumption DEF TypeOK, RouterState, DownHeld, WorkHeld, RouterEnds
<1>2. DownHeld'
  BY DEF DownHeld, RouterEnds
<1>3. RouterHeld'
  BY EcoFacts, NamesAssumption DEF RouterHeld, TypeOK, RouterState, RouterEnds
<1>4. WorkHeld'
  BY EcoFacts, NamesAssumption DEF WorkHeld, RouterHeld, TypeOK, RouterState, RouterEnds
<1>5. WriterHeld'
  BY DEF WriterHeld, RouterEnds
<1>6. OnePlace'
  BY EcoFacts, NamesAssumption DEF OnePlace, Started, Past, TypeOK, RouterState, RouterHeld, RouterEnds
<1>7. WorkersNeeded'
  BY EcoFacts, NamesAssumption DEF WorkersNeeded, Needed, Past, TypeOK, RouterState, OnePlace, Started,
                                   RouterHeld, DownHeld, RouterEnds
<1>8. NoneDropped'
  BY EcoFacts, NamesAssumption DEF NoneDropped, Reaches, TypeOK, RouterState, RouterHeld, WorkHeld,
                                   DownHeld, RouterEnds
<1>9. EndsInOrder'
  BY DEF EndsInOrder, Idle, Running, TypeOK, DownHeld, RouterHeld, WorkHeld, WriterHeld, RouterState,
         RouterEnds
<1>10. FilesAreSound' /\ FilesArrive'
  BY FilesKept DEF Past, RouterEnds
<1> QED BY <1>1, <1>2, <1>3, <1>4, <1>5, <1>6, <1>7, <1>8, <1>9, <1>10

\* The record is in its worker's aggregates from the moment a writer has its JSON file.
LEMMA SendJsonStep ==
  ASSUME IInv, NEW e \in Workers, NEW x \in Writers, e # All, SendJson(e, x)
  PROVE  IInv'
<1> USE DEF IInv, Held
<1>1. TypeOK'
  <2>1. work[e].rec \in Records /\ e \in Ecos
    BY DEF SendJson, WorkHeld, TypeOK, WorkState, Workers
  <2>2. [pc |-> "write", file |-> <<e, work[e].rec>>, data |-> {work[e].rec}, late |-> cancelled] \in WriterState
    BY <2>1 DEF WriterState, TypeOK, Files, JsonFiles, Data
  <2>3. IdleWork \in WorkState
    BY DEF IdleWork, WorkState
  <2> QED BY <2>1, <2>2, <2>3 DEF SendJson, Takes, TypeOK
<1>2. DownHeld'
  BY DEF DownHeld, SendJson, Takes, IdleWork
<1>3. RouterHeld'
  BY DEF RouterHeld, SendJson, Takes, IdleWork
<1>4. WorkHeld'
  BY EcoFacts, NamesAssumption DEF WorkHeld, TypeOK, WorkState, WriterState, SendJson, Takes, IdleWork
<1>5. WriterHeld'
  <2>1. <<e, work[e].rec>> \in Files
    BY DEF SendJson, WorkHeld, TypeOK, WorkState, Workers, Files, JsonFiles
  <2> QED BY <2>1, NamesAssumption DEF WriterHeld, SendJson, Takes, TypeOK
<1>6. OnePlace'
  BY EcoFacts, NamesAssumption DEF OnePlace, Started, Past, TypeOK, WorkState, WriterState, WorkHeld,
                                   WriterHeld, SendJson, Takes, IdleWork
<1>7. WorkersNeeded'
  BY EcoFacts, NamesAssumption DEF WorkersNeeded, Needed, Past, TypeOK, WorkState, WriterState,
                                   OnePlace, Started, RouterHeld, DownHeld, SendJson, Takes, IdleWork
<1>8. NoneDropped'
  BY EcoFacts, NamesAssumption DEF NoneDropped, Reaches, TypeOK, WorkState, WriterState, RouterHeld,
                                   WorkHeld, DownHeld, SendJson, Takes, IdleWork
<1>9. EndsInOrder'
  BY DEF EndsInOrder, Idle, Running, TypeOK, DownHeld, RouterHeld, WorkHeld, WriterHeld, WorkState,
         WriterState, SendJson, Takes, IdleWork
<1>10. FilesAreSound'
  <2>1. Sound(<<e, work[e].rec>>, {work[e].rec})
    <3>1. work[e].rec \in Records /\ e \in Ecos
      BY DEF SendJson, WorkHeld, TypeOK, WorkState, Workers
    <3>2. e \in EcosOf(work[e].rec) /\ work[e].rec \notin Garbled /\ Past(work[e].rec)
      BY <3>1 DEF SendJson, WorkHeld, OnePlace, Started
    <3> QED BY <3>1, <3>2 DEF Sound, JsonFiles
  <2>2. /\ writer'[x] = [pc |-> "write", file |-> <<e, work[e].rec>>, data |-> {work[e].rec}, late |-> cancelled]
        /\ \A y \in Writers : y # x => writer'[y] = writer[y]
    BY DEF SendJson, Takes, TypeOK
  <2>3. \A f, data : Sound(f, data) => Sound(f, data)'
    BY SoundSame DEF SendJson
  <2>6. Sound(writer'[x].file, writer'[x].data)
    BY <2>1, <2>2
  <2>4. \A y \in Writers : writer'[y].pc = "write" /\ ~writer'[y].late => Sound(writer'[y].file, writer'[y].data)
    BY <2>2, <2>6 DEF FilesAreSound
  <2>5. \A v \in Workers : work'[v].pc \in {"final", "done"} => work'[v] = work[v] /\ got'[v] = got[v]
    BY DEF SendJson, TypeOK, IdleWork
  <2> QED BY <2>3, <2>4, <2>5 DEF FilesAreSound, SendJson
<1>11. FilesArrive'
  <2>1. writer[x].file = None /\ \A y \in Writers : y # x => writer'[y] = writer[y]
    BY DEF SendJson, Takes, WriterHeld, TypeOK
  <2>2. ASSUME NEW f \in Files, Delivered(f) PROVE Delivered(f)'
    BY <2>1, <2>2, NamesAssumption DEF Delivered, SendJson
  <2>3. ASSUME NEW f, f = <<e, work[e].rec>> PROVE Delivered(f)'
    BY <2>3 DEF SendJson, Takes, TypeOK, Delivered
  <2>4. \A v \in Workers : got'[v] = IF v = e THEN got[v] \cup {work[e].rec} ELSE got[v]
    BY DEF SendJson, TypeOK
  <2>5. \A v \in Workers : work'[v].pc \in {"final", "done"} => work'[v] = work[v]
    BY DEF SendJson, TypeOK, IdleWork
  <2> QED BY <2>2, <2>3, <2>4, <2>5, SentFiles DEF FilesArrive, SendJson
<1> QED BY <1>1, <1>2, <1>3, <1>4, <1>5, <1>6, <1>7, <1>8, <1>9, <1>10, <1>11

\* A worker leaves early only under a cancellation.
LEMMA WorkerLeavesStep ==
  ASSUME IInv, NEW w \in Workers, WorkerLeaves(w)
  PROVE  IInv'
<1> USE DEF IInv, Held
<1>1. TypeOK'
  BY EcoFacts, NamesAssumption DEF TypeOK, WorkState, DownHeld, WorkHeld, WorkerLeaves, IdleWork
<1>2. DownHeld'
  BY DEF DownHeld, WorkerLeaves, IdleWork
<1>3. RouterHeld'
  BY DEF RouterHeld, WorkerLeaves, IdleWork
<1>4. WorkHeld'
  BY EcoFacts, NamesAssumption DEF WorkHeld, TypeOK, WorkState, WorkerLeaves, IdleWork
<1>5. WriterHeld'
  BY DEF WriterHeld, WorkerLeaves, IdleWork
<1>6. OnePlace'
  BY EcoFacts, NamesAssumption DEF OnePlace, Started, Past, TypeOK, WorkState, WorkHeld, WorkerLeaves,
                                   IdleWork
<1>7. WorkersNeeded'
  BY EcoFacts, NamesAssumption DEF WorkersNeeded, Needed, Past, TypeOK, WorkState, OnePlace, Started,
                                   RouterHeld, DownHeld, WorkerLeaves, IdleWork
<1>8. NoneDropped'
  BY EcoFacts, NamesAssumption DEF NoneDropped, Reaches, TypeOK, WorkState, RouterHeld, WorkHeld,
                                   DownHeld, WorkerLeaves, IdleWork
<1>9. EndsInOrder'
  BY DEF EndsInOrder, Idle, Running, TypeOK, DownHeld, RouterHeld, WorkHeld, WriterHeld, WorkState,
         WorkerLeaves, IdleWork
<1>10. FilesAreSound'
  BY SoundSame DEF FilesAreSound, WorkerLeaves
<1>11. FilesArrive'
  BY EcoFacts, NamesAssumption DEF FilesArrive, Delivered, TypeOK, WorkState, EndsInOrder, WorkHeld,
                                   WriterHeld, WorkerLeaves, IdleWork
<1> QED BY <1>1, <1>2, <1>3, <1>4, <1>5, <1>6, <1>7, <1>8, <1>9, <1>10, <1>11

\* A worker that finds its channel closed has every record it is due, unless the run is cancelled.
LEMMA WorkerClosedStep ==
  ASSUME IInv, NEW w \in Workers, WorkerClosed(w)
  PROVE  IInv'
<1> USE DEF IInv, Held
<1>1. TypeOK'
  <2>1. [pc |-> "final", rec |-> None, at |-> 1] \in WorkState
    BY DEF WorkState
  <2> QED BY <2>1 DEF WorkerClosed, TypeOK
<1>2. DownHeld'
  BY DEF DownHeld, WorkerClosed, IdleWork
<1>3. RouterHeld'
  BY DEF RouterHeld, WorkerClosed, IdleWork
<1>4. WorkHeld'
  <2>1. 1 \in DOMAIN FinalFiles(w)
    BY FinalFacts
  <2>2. /\ work'[w] = [pc |-> "final", rec |-> None, at |-> 1]
        /\ \A v \in Workers : v # w => work'[v] = work[v]
    BY DEF WorkerClosed, TypeOK
  <2>3. work[w].pc = "recv" /\ UNCHANGED <<got, router>>
    BY DEF WorkerClosed
  <2> QED BY <2>1, <2>2, <2>3 DEF WorkHeld
<1>5. WriterHeld'
  BY DEF WriterHeld, WorkerClosed, IdleWork
<1>6. OnePlace'
  BY EcoFacts, NamesAssumption DEF OnePlace, Started, Past, TypeOK, WorkState, WorkHeld, WorkerClosed,
                                   IdleWork
<1>7. WorkersNeeded'
  BY EcoFacts, NamesAssumption DEF WorkersNeeded, Needed, Past, TypeOK, WorkState, OnePlace, Started,
                                   RouterHeld, DownHeld, WorkerClosed, IdleWork
<1>8. NoneDropped'
  BY EcoFacts, NamesAssumption DEF NoneDropped, Reaches, TypeOK, WorkState, RouterHeld, WorkHeld,
                                   DownHeld, WorkerClosed, IdleWork
<1>9. EndsInOrder'
  BY DEF EndsInOrder, Idle, Running, TypeOK, DownHeld, RouterHeld, WorkHeld, WriterHeld, WorkState,
         WorkerClosed, IdleWork
<1>10. FilesAreSound'
  <2>1. ASSUME ~cancelled PROVE got[w] = Due(w, skipped)
    <3>1. todo = {} /\ \A d \in Downloaders : down[d].rec = None
      BY <2>1 DEF WorkerClosed, EndsInOrder, DownHeld
    <3>2. router.rec = None /\ work[w].rec = None
      BY DEF WorkerClosed, RouterHeld, WorkHeld
    <3>3. ASSUME NEW r \in Due(w, skipped) PROVE r \in got[w]
      <4>1. r \in Records \ (todo \cup skipped) /\ r \notin Garbled /\ w \in {All} \cup EcosOf(r)
        BY <3>1 DEF Due
      <4>2. Reaches(w, r)
        BY <2>1, <3>1, <4>1, NamesAssumption DEF NoneDropped
      <4> QED BY <4>1, <4>2, <3>2, NamesAssumption DEF Reaches
    <3>4. ASSUME NEW r \in got[w] PROVE r \in Due(w, skipped)
      BY DEF Due, WorkHeld, OnePlace, Started, Past, TypeOK
    <3> QED BY <3>3, <3>4
  <2>2. \A f, data : Sound(f, data) => Sound(f, data)'
    BY SoundSame DEF WorkerClosed
  <2>3. \A v \in Workers : v # w => work'[v] = work[v]
    BY DEF WorkerClosed
  <2> QED BY <2>1, <2>2, <2>3 DEF FilesAreSound, WorkerClosed
<1>11. FilesArrive'
  <2>1. /\ work'[w] = [pc |-> "final", rec |-> None, at |-> 1]
        /\ \A v \in Workers : v # w => work'[v] = work[v]
    BY DEF WorkerClosed, TypeOK
  <2>2. \A f : Delivered(f) => Delivered(f)'
    BY DEF Delivered, WorkerClosed
  <2> QED BY <2>1, <2>2, FinalFacts DEF FilesArrive, WorkerClosed
<1> QED BY <1>1, <1>2, <1>3, <1>4, <1>5, <1>6, <1>7, <1>8, <1>9, <1>10, <1>11

\* A final file in a writer's hands is whole, or late.
LEMMA SendFinalStep ==
  ASSUME IInv, NEW w \in Workers, NEW x \in Writers, SendFinal(w, x)
  PROVE  IInv'
<1> USE DEF IInv, Held
<1>1. TypeOK'
  <2> DEFINE file == FinalFiles(w)[work[w].at]
  <2>1. work[w].at \in DOMAIN FinalFiles(w)
    BY DEF SendFinal, WorkHeld
  <2>2. file \in Files /\ Content(file, got[w]) \in Data
    BY <2>1, SentFiles, ContentType DEF TypeOK
  <2>3. [pc |-> "write", file |-> file, data |-> Content(file, got[w]), late |-> cancelled] \in WriterState
    BY <2>2 DEF WriterState, TypeOK
  <2>4. writer' \in [Writers -> WriterState]
    BY <2>3 DEF SendFinal, Takes, TypeOK
  <2> QED BY <2>4, NextFinalFacts DEF SendFinal, TypeOK
<1>2. DownHeld'
  BY DEF DownHeld, SendFinal, Takes, NextFinal, IdleWork
<1>3. RouterHeld'
  BY DEF RouterHeld, SendFinal, Takes, NextFinal, IdleWork
<1>4. WorkHeld'
  BY NextFinalFacts, EcoFacts DEF SendFinal, WorkHeld, TypeOK
<1>5. WriterHeld'
  <2>1. FinalFiles(w)[work[w].at] # None
    BY SentFiles, NamesAssumption DEF SendFinal, WorkHeld
  <2> QED BY <2>1 DEF WriterHeld, SendFinal, Takes, TypeOK
<1>6. OnePlace'
  BY EcoFacts, NamesAssumption DEF OnePlace, Started, Past, TypeOK, WorkState, WriterState, WorkHeld,
                                   WriterHeld, SendFinal, Takes, NextFinal, IdleWork
<1>7. WorkersNeeded'
  BY EcoFacts, NamesAssumption DEF WorkersNeeded, Needed, Past, TypeOK, WorkState, WriterState,
                                   OnePlace, Started, RouterHeld, DownHeld, SendFinal, Takes,
         NextFinal, IdleWork
<1>8. NoneDropped'
  BY EcoFacts, NamesAssumption DEF NoneDropped, Reaches, TypeOK, WorkState, WriterState, RouterHeld,
                                   WorkHeld, DownHeld, SendFinal, Takes, NextFinal, IdleWork
<1>9. EndsInOrder'
  BY DEF EndsInOrder, Idle, Running, TypeOK, DownHeld, RouterHeld, WorkHeld, WriterHeld, WorkState,
         WriterState, SendFinal, Takes, NextFinal, IdleWork
<1>10. FilesAreSound'
  <2> DEFINE file == FinalFiles(w)[work[w].at]
  <2>1. work[w].at \in DOMAIN FinalFiles(w) /\ work[w].pc = "final"
    BY DEF SendFinal, WorkHeld
  <2>2. ~cancelled => Sound(file, Content(file, got[w]))
    <3>1. ~cancelled => got[w] = Due(w, skipped)
      BY <2>1 DEF FilesAreSound
    <3>2. ~cancelled => \A d \in Downloaders : down[d].pc = "done"
      BY <2>1 DEF EndsInOrder
    <3>3. Needed(w)
      BY <2>1 DEF WorkersNeeded
    <3> QED BY <2>1, <3>1, <3>2, <3>3, FinalFacts DEF Sound
  <2>3. /\ writer'[x] = [pc |-> "write", file |-> file, data |-> Content(file, got[w]), late |-> cancelled]
        /\ \A y \in Writers : y # x => writer'[y] = writer[y]
    BY DEF SendFinal, Takes, TypeOK
  <2>4. \A f, data : Sound(f, data) => Sound(f, data)'
    BY SoundSame DEF SendFinal
  <2>5. \A y \in Writers : writer'[y].pc = "write" /\ ~writer'[y].late => Sound(writer'[y].file, writer'[y].data)
    BY <2>2, <2>3 DEF FilesAreSound
  <2>6. \A v \in Workers : work'[v].pc \in {"final", "done"} => work[v].pc \in {"final", "done"}
    BY <2>1, NextFinalFacts DEF SendFinal
  <2> QED BY <2>4, <2>5, <2>6 DEF FilesAreSound, SendFinal
<1>11. FilesArrive'
  <2>1. writer[x].file = None /\ \A y \in Writers : y # x => writer'[y] = writer[y]
    BY DEF SendFinal, Takes, WriterHeld, TypeOK
  <2>2. ASSUME NEW f \in Files, Delivered(f) PROVE Delivered(f)'
    BY <2>1, <2>2, NamesAssumption DEF Delivered, SendFinal
  <2>3. work[w].at \in DOMAIN FinalFiles(w)
    BY DEF SendFinal, WorkHeld
  <2>5. ASSUME NEW f, f = FinalFiles(w)[work[w].at] PROVE Delivered(f)'
    BY <2>5 DEF SendFinal, Takes, TypeOK, Delivered
  <2>4. \A v \in Workers : \A i \in DOMAIN FinalFiles(v) :
          work'[v].pc = "done" \/ (work'[v].pc = "final" /\ i < work'[v].at)
            => \/ v = w /\ i = work[w].at
               \/ work[v].pc = "done" \/ (work[v].pc = "final" /\ i < work[v].at)
    <3>1. ASSUME NEW i \in DOMAIN FinalFiles(w),
                 work'[w].pc = "done" \/ (work'[w].pc = "final" /\ i < work'[w].at)
          PROVE  i <= work[w].at
      BY <3>1, <2>3, NextFinalFacts, FinalFacts DEF SendFinal
    <3> QED BY <3>1, <2>3, NextFinalFacts, FinalFacts DEF SendFinal
  <2> QED BY <2>2, <2>3, <2>4, <2>5, SentFiles DEF FilesArrive, SendFinal
<1> QED BY <1>1, <1>2, <1>3, <1>4, <1>5, <1>6, <1>7, <1>8, <1>9, <1>10, <1>11

\* A final file is dropped only under a cancellation.
LEMMA DropFinalStep ==
  ASSUME IInv, NEW w \in Workers, DropFinal(w)
  PROVE  IInv'
<1> USE DEF IInv, Held
<1>1. TypeOK'
  BY NextFinalFacts DEF DropFinal, TypeOK
<1>2. DownHeld'
  BY DEF DownHeld, DropFinal, NextFinal, IdleWork
<1>3. RouterHeld'
  BY DEF RouterHeld, DropFinal, NextFinal, IdleWork
<1>4. WorkHeld'
  BY NextFinalFacts, EcoFacts DEF DropFinal, WorkHeld, TypeOK
<1>5. WriterHeld'
  BY DEF WriterHeld, DropFinal, NextFinal, IdleWork
<1>6. OnePlace'
  BY EcoFacts, NamesAssumption DEF OnePlace, Started, Past, TypeOK, WorkState, WorkHeld, DropFinal,
                                   NextFinal, IdleWork
<1>7. WorkersNeeded'
  BY EcoFacts, NamesAssumption DEF WorkersNeeded, Needed, Past, TypeOK, WorkState, OnePlace, Started,
                                   RouterHeld, DownHeld, DropFinal, NextFinal, IdleWork
<1>8. NoneDropped'
  BY EcoFacts, NamesAssumption DEF NoneDropped, Reaches, TypeOK, WorkState, RouterHeld, WorkHeld,
                                   DownHeld, DropFinal, NextFinal, IdleWork
<1>9. EndsInOrder'
  BY DEF EndsInOrder, Idle, Running, TypeOK, DownHeld, RouterHeld, WorkHeld, WriterHeld, WorkState,
         DropFinal, NextFinal, IdleWork
<1>10. FilesAreSound'
  <2>1. \A v \in Workers : work'[v].pc \in {"final", "done"} => work[v].pc \in {"final", "done"}
    BY NextFinalFacts DEF DropFinal
  <2>2. \A f, data : Sound(f, data) => Sound(f, data)'
    BY SoundSame DEF DropFinal
  <2> QED BY <2>1, <2>2 DEF FilesAreSound, DropFinal
<1>11. FilesArrive'
  BY EcoFacts, NamesAssumption DEF FilesArrive, Delivered, TypeOK, WorkState, EndsInOrder, WorkHeld,
                                   WriterHeld, DropFinal, NextFinal, IdleWork
<1> QED BY <1>1, <1>2, <1>3, <1>4, <1>5, <1>6, <1>7, <1>8, <1>9, <1>10, <1>11

\* What is written to a bucket is not late, so it is whole.
LEMMA WriteStep ==
  ASSUME IInv, NEW x \in Writers, Write(x)
  PROVE  IInv'
<1> USE DEF IInv, Held
<1>1. TypeOK'
  <2>1. IdleWriter \in WriterState
    BY DEF IdleWriter, WriterState, Data
  <2>2. writer[x].file \in Files /\ writer[x].data \in Data
    BY DEF Write, WriterHeld, TypeOK, WriterState
  <2> QED BY <2>1, <2>2 DEF TypeOK, Write
<1>2. DownHeld'
  BY DEF DownHeld, Write, IdleWriter
<1>3. RouterHeld'
  BY DEF RouterHeld, Write, IdleWriter
<1>4. WorkHeld'
  BY DEF WorkHeld, Write, IdleWriter
<1>5. WriterHeld'
  BY EcoFacts, NamesAssumption DEF WriterHeld, TypeOK, WriterState, Write, IdleWriter
<1>6. OnePlace'
  BY DEF OnePlace, Started, Past, Write, IdleWriter
<1>7. WorkersNeeded'
  BY DEF WorkersNeeded, Needed, Past, Write, IdleWriter
<1>8. NoneDropped'
  BY DEF NoneDropped, Reaches, Write, IdleWriter
<1>9. EndsInOrder'
  BY DEF EndsInOrder, Idle, Running, TypeOK, DownHeld, RouterHeld, WorkHeld, WriterHeld, WriterState,
         Write, IdleWriter
<1>10. FilesAreSound'
  BY EcoFacts, NamesAssumption DEF FilesAreSound, Sound, Needed, Past, TypeOK, WriterState, OnePlace,
                                   Started, EndsInOrder, DownHeld, RouterHeld, WorkHeld, WriterHeld,
         Write, IdleWriter
<1>11. FilesArrive'
  <2>1. writer[x].data # None
    BY NamesAssumption DEF TypeOK, WriterState
  <2>2. ASSUME NEW f \in Files, Delivered(f) PROVE Delivered(f)'
    BY <2>1, <2>2, NamesAssumption DEF Delivered, Write, TypeOK
  <2> QED BY <2>2, SentFiles DEF FilesArrive, Write
<1> QED BY <1>1, <1>2, <1>3, <1>4, <1>5, <1>6, <1>7, <1>8, <1>9, <1>10, <1>11

\* A failed write loses its file and cancels the run.
LEMMA WriteFailsStep ==
  ASSUME IInv, NEW x \in Writers, WriteFails(x)
  PROVE  IInv'
<1> USE DEF IInv, Held
<1>1. TypeOK'
  <2>1. IdleWriter \in WriterState
    BY DEF IdleWriter, WriterState, Data
  <2>2. writer[x].file \in Files /\ writer[x].data \in Data
    BY DEF WriteFails, WriterHeld, TypeOK, WriterState
  <2> QED BY <2>1, <2>2 DEF TypeOK, WriteFails, Fails
<1>2. DownHeld'
  BY DEF DownHeld, WriteFails, Fails, IdleWriter
<1>3. RouterHeld'
  BY DEF RouterHeld, WriteFails, Fails, IdleWriter
<1>4. WorkHeld'
  BY DEF WorkHeld, WriteFails, Fails, IdleWriter
<1>5. WriterHeld'
  BY EcoFacts, NamesAssumption DEF WriterHeld, TypeOK, WriterState, WriteFails, Fails, IdleWriter
<1>6. OnePlace'
  BY DEF OnePlace, Started, Past, WriteFails, Fails, IdleWriter
<1>7. WorkersNeeded'
  BY DEF WorkersNeeded, Needed, Past, WriteFails, Fails, IdleWriter
<1>8. NoneDropped'
  BY DEF NoneDropped, Reaches, WriteFails, Fails, IdleWriter
<1>9. EndsInOrder'
  BY DEF EndsInOrder, Idle, Running, TypeOK, DownHeld, RouterHeld, WorkHeld, WriterHeld, WriterState,
         WriteFails, Fails, IdleWriter
<1>10. FilesAreSound'
  BY EcoFacts, NamesAssumption DEF FilesAreSound, Sound, Needed, Past, TypeOK, WriterState, OnePlace,
                                   Started, EndsInOrder, DownHeld, RouterHeld, WorkHeld, WriterHeld,
         WriteFails, Fails, IdleWriter
<1>11. FilesArrive'
  BY EcoFacts, NamesAssumption DEF FilesArrive, Delivered, TypeOK, WriterState, EndsInOrder, WorkHeld,
                                   WriterHeld, WriteFails, Fails, IdleWriter
<1> QED BY <1>1, <1>2, <1>3, <1>4, <1>5, <1>6, <1>7, <1>8, <1>9, <1>10, <1>11

\* A writer leaves when no worker is left to send, or under a cancellation.
LEMMA WriterEndsStep ==
  ASSUME IInv, NEW x \in Writers, WriterEnds(x)
  PROVE  IInv'
<1> USE DEF IInv, Held
<1>1. TypeOK'
  <2>1. [IdleWriter EXCEPT !.pc = "done"] \in WriterState
    BY DEF IdleWriter, WriterState, Data
  <2> QED BY <2>1 DEF TypeOK, WriterEnds
<1>2. DownHeld'
  BY DEF DownHeld, WriterEnds, IdleWriter
<1>3. RouterHeld'
  BY DEF RouterHeld, WriterEnds, IdleWriter
<1>4. WorkHeld'
  BY DEF WorkHeld, WriterEnds, IdleWriter
<1>5. WriterHeld'
  BY EcoFacts, NamesAssumption DEF WriterHeld, TypeOK, WriterState, WriterEnds, IdleWriter
<1>6. OnePlace'
  BY DEF OnePlace, Started, Past, WriterEnds, IdleWriter
<1>7. WorkersNeeded'
  BY DEF WorkersNeeded, Needed, Past, WriterEnds, IdleWriter
<1>8. NoneDropped'
  BY DEF NoneDropped, Reaches, WriterEnds, IdleWriter
<1>9. EndsInOrder'
  BY DEF EndsInOrder, Idle, Running, TypeOK, DownHeld, RouterHeld, WorkHeld, WriterHeld, WriterState,
         WriterEnds, IdleWriter
<1>10. FilesAreSound'
  BY EcoFacts, NamesAssumption DEF FilesAreSound, Sound, Needed, Past, TypeOK, WriterState, OnePlace,
                                   Started, EndsInOrder, DownHeld, RouterHeld, WorkHeld, WriterHeld,
         WriterEnds, IdleWriter
<1>11. FilesArrive'
  <2>1. writer[x].file = None /\ \A y \in Writers : y # x => writer'[y] = writer[y]
    BY DEF WriterEnds, WriterHeld, TypeOK
  <2>2. ASSUME NEW f \in Files, Delivered(f) PROVE Delivered(f)'
    BY <2>1, <2>2, NamesAssumption DEF Delivered, WriterEnds
  <2> QED BY <2>2, SentFiles DEF FilesArrive, WriterEnds
<1> QED BY <1>1, <1>2, <1>3, <1>4, <1>5, <1>6, <1>7, <1>8, <1>9, <1>10, <1>11

-----------------------------------------------------------------------------
(* The theorems. *)

\* The initial state of the run satisfies the invariant.
LEMMA InitInv == Init => IInv
<1> SUFFICES ASSUME Init PROVE IInv
  OBVIOUS
<1> USE EcoFacts, NamesAssumption DEF Init
<1>1. TypeOK
  <2>1. IdleDown \in DownState /\ IdleRouter \in RouterState
    BY DEF DownState, RouterState, IdleDown, IdleRouter
  <2>2. IdleWriter \in WriterState
    BY DEF WriterState, IdleWriter, Data
  <2>3. \A c \in {"recv", "none"} : [IdleWork EXCEPT !.pc = c] \in WorkState
    BY DEF WorkState, IdleWork
  <2> QED BY <2>1, <2>2, <2>3 DEF TypeOK
<1>2. Held
  BY DEF Held, DownHeld, RouterHeld, WorkHeld, WriterHeld, IdleDown, IdleRouter, IdleWork, IdleWriter
<1>3. OnePlace /\ WorkersNeeded /\ NoneDropped
  BY DEF OnePlace, Started, Past, WorkersNeeded, Needed, NoneDropped, IdleDown, IdleRouter, IdleWork
<1>4. EndsInOrder
  BY DEF EndsInOrder, IdleDown, IdleRouter, IdleWork, IdleWriter
<1>5. FilesAreSound /\ FilesArrive
  BY DEF FilesAreSound, FilesArrive, IdleWork, IdleWriter
<1> QED BY <1>1, <1>2, <1>3, <1>4, <1>5 DEF IInv

\* Every step of the run keeps it.
LEMMA NextInv == IInv /\ [Next]_vars => IInv'
<1> SUFFICES ASSUME IInv, [Next]_vars PROVE IInv'
  OBVIOUS
<1>1. CASE UNCHANGED vars
  <2> USE <1>1 DEF vars, IInv
  <2>1. TypeOK' /\ Held'
    BY DEF TypeOK, Held, DownHeld, RouterHeld, WorkHeld, WriterHeld
  <2>2. OnePlace' /\ WorkersNeeded' /\ NoneDropped'
    BY DEF OnePlace, Started, Past, WorkersNeeded, Needed, NoneDropped, Reaches
  <2>3. EndsInOrder'
    BY DEF EndsInOrder, Idle, Running
  <2>4. FilesAreSound' /\ FilesArrive'
    BY FilesKept DEF Past
  <2> QED BY <2>1, <2>2, <2>3, <2>4
<1>2. CASE MainStep
  BY <1>2, ListStep, ListEndsStep, DownloadsEndStep, RoutingEndsStep, WritesEndStep DEF MainStep
<1>3. CASE ListFails
  BY <1>3, ListFailsStep
<1>4. ASSUME NEW d \in Downloaders, DownloaderStep(d) \/ ReadFails(d) PROVE IInv'
  BY <1>4, DownloadedStep, DownloaderEndsStep, RouteStep, ReadFailsStep DEF DownloaderStep
<1>5. CASE RouterStep
  BY <1>5, PickStep, PickAllStep, GiveStep, RouterFinishesStep, RouterEndsStep DEF RouterStep
<1>6. ASSUME NEW w \in Workers, WorkerStep(w) PROVE IInv'
  BY <1>6, SendJsonStep, WorkerLeavesStep, WorkerClosedStep, SendFinalStep, DropFinalStep DEF WorkerStep
<1>7. ASSUME NEW x \in Writers, WriterStep(x) PROVE IInv'
  BY <1>7, WriteStep, WriteFailsStep, WriterEndsStep DEF WriterStep
<1> QED BY <1>1, <1>2, <1>3, <1>4, <1>5, <1>6, <1>7 DEF Next

\* The strengthened invariant holds in every reachable state.
THEOREM ExporterInvariant == Spec => []IInv
BY InitInv, NextInv, PTL DEF Spec

\* Types of all variables, which the proofs below rest on.
THEOREM ExporterTypes == Spec => []TypeOK
<1>1. IInv => TypeOK
  BY DEF IInv
<1> QED BY <1>1, ExporterInvariant, PTL

\* main and the router close a channel only when its senders are gone.
THEOREM ChannelsAreClosedLast == Spec => []NoSendOnClosed
<1>1. IInv => NoSendOnClosed
  BY DEF IInv, EndsInOrder, Held, RouterHeld, Idle, NoSendOnClosed, DownloadsClosed
<1> QED BY <1>1, ExporterInvariant, PTL

\* A file that is there is whole, and one of those expected.
LEMMA SoundIsWhole ==
  ASSUME NEW f \in Files, NEW data, Sound(f, data)
  PROVE  f \in Expected(skipped) /\ data = Whole(f, skipped)
<1>1. CASE /\ f \in JsonFiles /\ Past(f[2]) /\ f[2] \notin Garbled
           /\ f[1] \in EcosOf(f[2]) /\ data = {f[2]}
  BY <1>1 DEF Past, Expected, ExpectedJson, Whole
<1>2. ASSUME NEW w \in Workers, f \in Aggregates(w), Needed(w), data = Content(f, Due(w, skipped))
      PROVE  f \in Expected(skipped) /\ data = Whole(f, skipped)
  <2>1. w \in Exported(skipped)
    BY <1>2 DEF Needed, Past, Exported
  <2>3. f \in Expected(skipped)
    BY <1>2, <2>1 DEF Expected
  <2> QED BY <1>2, <2>3, AggregateFacts DEF Whole
<1> QED BY <1>1, <1>2 DEF Sound

\* When main reports success, every expected file is written.
LEMMA SuccessDelivers ==
  ASSUME IInv, main = "success", NEW f \in Expected(skipped)
  PROVE  f \in Files /\ out[f] = Whole(f, skipped)
<1>1. /\ ~cancelled /\ todo = {} /\ \A x \in Writers : writer[x].file = None
      /\ \A d \in Downloaders : down[d].rec = None
      /\ router.rec = None /\ \A w \in Workers : Idle(w)
  BY DEF IInv, EndsInOrder, Held, DownHeld, RouterHeld, WriterHeld
<1>2. ASSUME NEW r \in Records \ skipped, NEW w \in {All} \cup EcosOf(r)
      PROVE  /\ w \in Workers /\ work[w].pc = "done"
             /\ r \notin Garbled => r \in got[w]
  <2>1. w \in Workers
    BY EcoFacts
  <2>2. Reaches(w, r)
    BY <1>1, NamesAssumption DEF IInv, NoneDropped
  <2>3. work[w].rec = None
    BY <1>1, <2>1 DEF IInv, Held, WorkHeld, Idle
  <2>4. r \in got[w] \/ (r \in Garbled /\ work[w].pc # "none")
    <3>1. r # None
      BY NamesAssumption
    <3> QED BY <1>1, <2>2, <2>3, <3>1 DEF Reaches
  <2> QED BY <1>1, <2>1, <2>4 DEF IInv, Held, WorkHeld, Idle
<1>3. work[All].pc = "done" /\ All \in Workers
  BY <1>1, EcoFacts DEF IInv, Held, WorkHeld, Idle
<1>4. f \in Files /\ Delivered(f)
  <2>1. CASE f \in ExpectedJson(skipped)
    <3>1. f \in JsonFiles /\ f[2] \in Records \ (skipped \cup Garbled) /\ f[1] \in EcosOf(f[2])
      BY <2>1 DEF ExpectedJson, JsonFiles
    <3>2. f[1] \in Workers /\ f[1] # All /\ f[2] \in got[f[1]] /\ f = <<f[1], f[2]>>
      BY <1>2, <3>1, EcoFacts DEF JsonFiles
    <3> QED BY <1>1, <3>1, <3>2 DEF IInv, FilesArrive, Files
  <2>2. CASE \E w \in Exported(skipped) : f \in Aggregates(w)
    <3>1. PICK w \in Exported(skipped) : f \in Aggregates(w)
      BY <2>2
    <3>2. w \in Workers /\ work[w].pc = "done"
      BY <1>2, <1>3, <3>1 DEF Exported
    <3>3. PICK i \in DOMAIN FinalFiles(w) : f = FinalFiles(w)[i]
      BY <3>1 DEF Aggregates
    <3>4. Delivered(f)
      BY <1>1, <3>2, <3>3 DEF IInv, FilesArrive
    <3> QED BY <3>1, <3>2, <3>4, AggregateFacts
  <2> QED BY <2>1, <2>2 DEF Expected
<1>5. out[f] # None
  BY <1>1, <1>4, NamesAssumption DEF Delivered
<1>6. Sound(f, out[f])
  BY <1>1, <1>4, <1>5 DEF IInv, FilesAreSound
<1> QED BY <1>4, <1>6, SoundIsWhole

\* SuccessIsComplete for the next state.
LEMMA SuccessPrimed == IInv' => SuccessIsComplete'
<1>1. IInv => SuccessIsComplete
  BY SuccessDelivers DEF SuccessIsComplete
<1> QED BY <1>1, PTL

\* main reports success only after a complete export.
THEOREM SuccessMeansComplete == Spec => []SuccessIsComplete
<1>1. IInv => SuccessIsComplete
  BY SuccessDelivers DEF SuccessIsComplete
<1> QED BY <1>1, ExporterInvariant, PTL

\* No aggregate of a bucket is ever replaced by a partial one.
THEOREM BucketHasWholeFiles == Spec => []PublishedIsWhole
<1>1. IInv => PublishedIsWhole
  <2> SUFFICES ASSUME IInv, ToBucket, NEW f \in AggregateFiles, out[f] # None
               PROVE  out[f] = Whole(f, skipped)
    BY DEF PublishedIsWhole
  <2>1. f \in Files
    BY DEF Files
  <2> QED BY <2>1, SoundIsWhole DEF IInv, FilesAreSound
<1> QED BY <1>1, ExporterInvariant, PTL

-----------------------------------------------------------------------------
(* Nobody waits for ever on somebody who waits. *)

\* ctx is done: every wait of the code ends, from the writers back to main.
LEMMA CancelledGoes ==
  ASSUME IInv, Running, cancelled
  PROVE  \/ MainGoes \/ RouterGoes
         \/ \E d \in Downloaders : DownloaderGoes(d)
         \/ \E w \in Workers : WorkerGoes(w)
         \/ \E x \in Writers : WriterGoes(x)
<1> SUFFICES ASSUME ~RouterGoes,
                    \A d \in Downloaders : ~DownloaderGoes(d),
                    \A w \in Workers : ~WorkerGoes(w),
                    \A x \in Writers : ~WriterGoes(x)
             PROVE  MainGoes
  OBVIOUS
<1>1. \A x \in Writers : writer[x].pc = "done"
  BY DEF WriterGoes, IInv, TypeOK, WriterState
<1>2. \A w \in Workers : work[w].pc \in {"none", "done"}
  BY DEF WorkerGoes, IInv, TypeOK, WorkState
<1>3. router.pc = "done"
  BY <1>2 DEF RouterGoes, IInv, TypeOK, RouterState
<1>4. \A d \in Downloaders : down[d].pc = "done"
  BY DEF DownloaderGoes, IInv, TypeOK, DownState
<1>5. main \in {"list", "downloads", "routing", "writes"}
  BY DEF Running, IInv, TypeOK
<1> QED BY <1>1, <1>3, <1>4, <1>5 DEF MainGoes, ListOver

\* Otherwise the writers wait for the workers, those for the router, the router
\* for the downloaders and the downloaders for main: the first that has
\* something to hand on can.
LEMMA UncancelledGoes ==
  ASSUME IInv, Running, ~cancelled
  PROVE  \/ MainGoes \/ RouterGoes
         \/ \E d \in Downloaders : DownloaderGoes(d)
         \/ \E w \in Workers : WorkerGoes(w)
         \/ \E x \in Writers : WriterGoes(x)
<1> SUFFICES ASSUME ~RouterGoes, ~MainGoes,
                    \A d \in Downloaders : ~DownloaderGoes(d),
                    \A w \in Workers : ~WorkerGoes(w),
                    \A x \in Writers : ~WriterGoes(x)
             PROVE  FALSE
  OBVIOUS
<1>1. main \in {"list", "downloads", "routing", "writes"}
  BY DEF Running, IInv, TypeOK
<1>2. main # "writes"
  <2>1. SUFFICES ASSUME main = "writes" PROVE FALSE
    OBVIOUS
  <2>2. \A x \in Writers : writer[x].pc = "done"
    BY <2>1 DEF WriterGoes, IInv, TypeOK, WriterState
  <2> QED BY <2>1, <2>2 DEF MainGoes
<1>3. \E x \in Writers : writer[x].pc = "recv"
  <2>1. \A x \in Writers : writer[x].pc = "recv"
    BY <1>1, <1>2 DEF WriterGoes, IInv, TypeOK, WriterState, EndsInOrder
  <2> QED BY <2>1, ExporterAssumption
<1>4. \A w \in Workers : work[w].pc \in {"none", "recv", "done"}
  BY <1>3 DEF WorkerGoes, IInv, TypeOK, WorkState
<1>5. router.pc # "done"
  BY <1>1, <1>2 DEF IInv, EndsInOrder, MainGoes
<1>6. router.pc # "finish"
  <2>1. SUFFICES ASSUME router.pc = "finish" PROVE FALSE
    OBVIOUS
  <2>2. \A w \in Workers : work[w].pc # "recv"
    BY <2>1 DEF WorkerGoes
  <2> QED BY <1>4, <2>1, <2>2 DEF RouterGoes
<1>7. router.pc # "give"
  <2>1. SUFFICES ASSUME router.pc = "give" PROVE FALSE
    OBVIOUS
  <2>2. router.to \in Workers
    BY <2>1 DEF IInv, TypeOK, RouterState, Held, RouterHeld
  <2>3. work[router.to].pc # "none"
    BY <2>2 DEF IInv, Held, WorkHeld
  <2>4. work[router.to].pc # "done"
    BY <2>1, <2>2 DEF IInv, EndsInOrder
  <2> QED BY <1>4, <2>1, <2>2, <2>3, <2>4 DEF RouterGoes
<1>8. router.pc = "recv" /\ ~DownloadsClosed
  BY <1>5, <1>6, <1>7 DEF RouterGoes, IInv, TypeOK, RouterState
<1>9. main \in {"list", "downloads"}
  BY <1>1, <1>8 DEF DownloadsClosed
<1>10. \A d \in Downloaders : down[d].pc \in {"recv", "done"}
  BY <1>8 DEF DownloaderGoes, IInv, TypeOK, DownState
<1>11. main = "list"
  <2>1. SUFFICES ASSUME main = "downloads" PROVE FALSE
    BY <1>9
  <2>2. \A d \in Downloaders : down[d].pc = "done"
    BY <1>10, <2>1 DEF DownloaderGoes
  <2> QED BY <2>1, <2>2 DEF MainGoes
<1>12. \A d \in Downloaders : down[d].pc = "recv"
  BY <1>10, <1>11 DEF IInv, EndsInOrder
<1> QED BY <1>11, <1>12, ExporterAssumption DEF MainGoes

\* The pipeline never locks up, for any pools, records and failures, whenever
\* ctx is done.
THEOREM NobodyBlocksForEver == Spec => []NoDeadlock
<1>1. IInv => NoDeadlock
  BY CancelledGoes, UncancelledGoes DEF NoDeadlock
<1> QED BY <1>1, ExporterInvariant, PTL

-----------------------------------------------------------------------------
(* The run implements Export. *)

result == IF Running THEN "running" ELSE main
promised == <<out, skipped, result>>

\* Export's files are the exporter's.
LEMMA SameFiles ==
  /\ \A r : Promise!EcosOf(r) = EcosOf(r)
  /\ Promise!AggregateFiles = AggregateFiles /\ Promise!Files = Files
  /\ \A S : Promise!Expected(S) = Expected(S)
  /\ \A f, S : Promise!Whole(f, S) = Whole(f, S)
<1>1. \A r : Promise!EcosOf(r) = EcosOf(r)
  BY DEF Promise!EcosOf, EcosOf
<1>2. Promise!Ecos = Ecos /\ Promise!Workers = Workers
  BY <1>1 DEF Promise!Ecos, Ecos, Promise!Workers, Workers
<1>3. \A w : Promise!FinalFiles(w) = FinalFiles(w)
  BY DEF Promise!FinalFiles, FinalFiles, Promise!Csv, Csv, Promise!Zip, Zip, Promise!Vanir, Vanir,
         Promise!Txt, Txt
<1>4. \A w : Promise!Aggregates(w) = Aggregates(w)
  BY <1>3 DEF Promise!Aggregates, Aggregates
<1>5. Promise!AggregateFiles = AggregateFiles /\ Promise!JsonFiles = JsonFiles
  BY <1>2, <1>4 DEF Promise!AggregateFiles, AggregateFiles, Promise!JsonFiles, JsonFiles
<1>6. Promise!Files = Files
  BY <1>5 DEF Promise!Files, Files
<1>7. \A S : Promise!Expected(S) = Expected(S)
  BY <1>1, <1>4, <1>5 DEF Promise!Expected, Expected, Promise!ExpectedJson, ExpectedJson,
                          Promise!Exported, Exported
<1>8. \A w, S : Promise!Due(w, S) = Due(w, S)
  BY <1>1 DEF Promise!Due, Due
<1>9. \A f, S : Promise!Content(f, S) = Content(f, S)
  BY <1>1 DEF Promise!Content, Content, Promise!Csv, Csv, Promise!Txt, Txt, Promise!Vanir, Vanir
<1>10. \A f, S : Promise!Whole(f, S) = Whole(f, S)
  BY <1>5, <1>8, <1>9 DEF Promise!Whole, Whole
<1> QED BY <1>1, <1>5, <1>6, <1>7, <1>10

\* One step of the run is a step of Export, or changes nothing a reader sees.
LEMMA StepKeepsPromise ==
  ASSUME IInv, ToBucket, [Next]_vars
  PROVE  Promise!Next \/ UNCHANGED promised
<1> USE DEF promised, result, Running
<1>1. CASE MainStep
  <2>1. CASE WritesEnd
    <3>1. CASE cancelled
      BY <2>1, <3>1 DEF WritesEnd, Promise!Next, Promise!Fail
    <3>2. CASE ~cancelled
      <4>1. main' = "success" /\ UNCHANGED <<skipped, out>> /\ main = "writes"
        BY <2>1, <3>2 DEF WritesEnd
      <4>2. IInv'
        BY NextInv
      <4>3. \A f \in Expected(skipped) : out[f] = Whole(f, skipped)
        <5>1. SuccessIsComplete'
          BY <4>1, <4>2, SuccessPrimed
        <5> QED BY <4>1, <5>1 DEF SuccessIsComplete
      <4> QED BY <4>1, <4>3, SameFiles DEF Promise!Next, Promise!Succeed
    <3> QED BY <3>1, <3>2
  <2>2. CASE ~WritesEnd
    BY <1>1, <2>2 DEF MainStep, List, ListEnds, DownloadsEnd, RoutingEnds
  <2> QED BY <2>1, <2>2
<1>2. CASE ListFails
  BY <1>2 DEF ListFails, Promise!Next, Promise!Fail
<1>3. ASSUME NEW d \in Downloaders, DownloaderStep(d)
      PROVE  UNCHANGED promised
  BY <1>3 DEF DownloaderStep, Downloaded, DownloaderEnds, Route
<1>4. ASSUME NEW d \in Downloaders, ReadFails(d)
      PROVE  Promise!Lose(down[d].rec) /\ down[d].rec \in Records
  <2>1. down[d].pc = "read" /\ down[d].rec \in Records
    BY <1>4 DEF ReadFails, IInv, TypeOK, DownState, Held, DownHeld
  <2>2. ASSUME NEW f \in Files, out[f] # None PROVE Sound(f, out[f])
    BY <2>2 DEF IInv, FilesAreSound
  <2>3. \A f \in AggregateFiles : out[f] = None
    <3>1. ASSUME NEW f \in AggregateFiles, Sound(f, out[f]) PROVE FALSE
      <4>1. f \notin JsonFiles
        BY AggregateFacts DEF AggregateFiles
      <4> QED BY <2>1, <3>1, <4>1 DEF Sound
    <3> QED BY <2>2, <3>1 DEF Files
  <2>4. \A e \in EcosOf(down[d].rec) : out[<<e, down[d].rec>>] = None
    <3>1. ASSUME NEW e \in EcosOf(down[d].rec), Sound(<<e, down[d].rec>>, out[<<e, down[d].rec>>]) PROVE FALSE
      BY <2>1, <3>1 DEF Sound, Past
    <3>2. \A e \in EcosOf(down[d].rec) : <<e, down[d].rec>> \in Files
      BY <2>1, EcoFacts DEF Files, JsonFiles
    <3> QED BY <2>2, <3>1, <3>2
  <2> QED BY <1>4, <2>1, <2>3, <2>4, SameFiles DEF ReadFails, Promise!Lose
<1>5. CASE RouterStep
  BY <1>5 DEF RouterStep, Pick, PickAll, Give, RouterFinishes, RouterEnds
<1>6. ASSUME NEW w \in Workers, WorkerStep(w) PROVE UNCHANGED promised
  BY <1>6 DEF WorkerStep, SendJson, WorkerLeaves, WorkerClosed, SendFinal, DropFinal
<1>7. ASSUME NEW x \in Writers, Write(x)
      PROVE  Promise!Publish(writer[x].file) /\ writer[x].file \in Files
  <2>1. writer[x].file \in Files /\ Sound(writer[x].file, writer[x].data)
    BY <1>7 DEF Write, IInv, TypeOK, WriterState, Held, WriterHeld, FilesAreSound
  <2> QED BY <1>7, <2>1, SoundIsWhole, SameFiles DEF Write, Promise!Publish
<1>8. ASSUME NEW x \in Writers, WriteFails(x) \/ WriterEnds(x) PROVE UNCHANGED promised
  BY <1>8 DEF WriteFails, WriterEnds
<1>9. CASE UNCHANGED vars
  BY <1>9 DEF vars
<1> QED BY <1>1, <1>2, <1>3, <1>4, <1>5, <1>6, <1>7, <1>8, <1>9, SameFiles DEF Next, WriterStep,
         Promise!Next

\* What a bucket shows, and what the run reports, is what Export allows; that
\* the run ends is checked by TLC.
THEOREM RunImplementsExport ==
  ASSUME ToBucket
  PROVE  Spec => KeepsPromise
<1>1. Init => Promise!Init
  BY SameFiles DEF Init, Promise!Init, Running
<1>2. IInv /\ [Next]_vars =>
        [Promise!Next]_<<out, skipped, IF Running THEN "running" ELSE main>>
  BY StepKeepsPromise DEF promised, result
<1> QED BY <1>1, <1>2, ExporterInvariant, PTL DEF Spec, KeepsPromise, Promise!Steps

=============================================================================
