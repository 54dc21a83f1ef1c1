--------------------------- MODULE MCRecordPipeline ---------------------------
(* Instances of RecordPipeline for TLC. *)
EXTENDS RecordPipeline, TLC

CONSTANTS w1, w2

MCVersions == 1..2
\* Content 1 is dated before it is imported; content 2 is withdrawn, by a
\* source whose clock runs ahead of ours.
MCRawModified  == <<1, 1>>
MCRawWithdrawn == <<0, 3>>
MCNeverWithdrawn == <<0, 0>>

\* A file that is moved and removed but never edited.
MCOneVersion == 1..1
MCOneModified == <<1>>
MCOneWithdrawn == <<0>>

MCWorkers == {w1, w2}
MCOneWorker == {w1}

WorkerSymmetry == Permutations(MCWorkers)
=============================================================================
