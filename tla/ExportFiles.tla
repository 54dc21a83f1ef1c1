------------------------------ MODULE ExportFiles ------------------------------
(***************************************************************************)
(* The files the exporter makes of a set of records                        *)
(* (apps/cli/cmd/exporter/worker.go), without the processes that make them.*)
(***************************************************************************)
EXTENDS Naturals, Sequences, FiniteSets

CONSTANTS
  Records,     \* objects under all/pb/ of the vulnerability bucket
  Named,       \* [Records -> sets of ecosystem names of the affected packages]
  Base,        \* [names -> the name before the first ":", which may be NoName]
  GitRanged,   \* records with a range of type GIT
  Signed,      \* records with a vanir signature
  Garbled,     \* records that cannot be marshalled to JSON
  GIT, EMPTY,  \* the ecosystems "GIT" and "[EMPTY]"
  NoName,      \* the empty ecosystem name
  All,         \* the worker of all ecosystems, and the root directory
  None         \* no record, no file, no content

Names == UNION {Named[r] : r \in Records}

ASSUME FilesAssumption ==
  /\ GitRanged \subseteq Records /\ Signed \subseteq Records /\ Garbled \subseteq Records
  /\ IsFiniteSet(Records) /\ \A r \in Records : IsFiniteSet(Named[r])
  /\ All \notin {Base[n] : n \in Names} \cup {GIT, EMPTY}

EcosOf(r) ==
  LET ecosystems == ({Base[n] : n \in Named[r]} \ {NoName})
                      \cup (IF r \in GitRanged THEN {GIT} ELSE {})
  IN  IF ecosystems = {} THEN {EMPTY} ELSE ecosystems

Ecos == UNION {EcosOf(r) : r \in Records}
Workers == Ecos \cup {All}

-----------------------------------------------------------------------------
\* A file is its directory and its name; JSON files are named by their record.
Csv == "modified_id.csv"
Zip == "all.zip"
Vanir == "osv_git.json"
Txt == "ecosystems.txt"

\* What a worker writes when its channel is closed, in this order.
FinalFiles(w) ==
  IF w = All THEN << <<All, Csv>>, <<All, Zip>>, <<All, Txt>> >>
  ELSE IF w = GIT THEN << <<GIT, Csv>>, <<GIT, Zip>>, <<GIT, Vanir>> >>
  ELSE << <<w, Csv>>, <<w, Zip>> >>

Aggregates(w) == {FinalFiles(w)[i] : i \in DOMAIN FinalFiles(w)}
AggregateFiles == UNION {Aggregates(w) : w \in Workers}
JsonFiles == Ecos \X Records
Files == JsonFiles \cup AggregateFiles
FileNames == {Csv, Zip, Vanir, Txt}

Data == (SUBSET Records) \cup (SUBSET Ecos) \cup SUBSET (Ecos \X Records)

ASSUME NamesAssumption ==
  /\ Records \cap FileNames = {}
  /\ None \notin Records \cup Workers \cup Files
  /\ \A data \in Data : data # None

\* What an aggregate shows when its worker was given the records vulns.
Content(file, vulns) ==
  CASE file = <<All, Csv>>   -> UNION {EcosOf(r) \X {r} : r \in vulns}
    [] file = <<All, Txt>>   -> UNION {EcosOf(r) : r \in vulns}
    [] file = <<GIT, Vanir>> -> vulns \cap Signed
    [] OTHER                 -> vulns

\* The records a worker should be given when those of lost cannot be read.
Due(w, lost) ==
  {r \in Records \ (lost \cup Garbled) : w = All \/ w \in EcosOf(r)}

\* The files a complete export has, and what they show.
ExpectedJson(lost) ==
  {f \in JsonFiles : f[2] \notin lost \cup Garbled /\ f[1] \in EcosOf(f[2])}
Exported(lost) == {All} \cup UNION {EcosOf(r) : r \in Records \ lost}
Expected(lost) == ExpectedJson(lost) \cup UNION {Aggregates(w) : w \in Exported(lost)}

Whole(file, lost) ==
  IF file \in JsonFiles THEN {file[2]} ELSE Content(file, Due(file[1], lost))
=============================================================================
