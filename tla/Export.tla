-------------------------------- MODULE Export --------------------------------
(***************************************************************************)
(* What one run of the exporter promises to the readers of the bucket.     *)
(*                                                                         *)
(* Files appear one by one, and each is whole from the moment it is there: *)
(* an aggregate (zip, csv, txt, vanir) has every record of its directory,  *)
(* but for those that could not be read.  Which those are is settled before*)
(* the first aggregate.  The run says it succeeded only with every file    *)
(* published; a run that fails has published some.                         *)
(***************************************************************************)
EXTENDS ExportFiles

VARIABLES
  out,     \* content of each file of this run, None until it is published
  lost,    \* records that could not be read
  result   \* "running", "success" or "failed"

Init ==
  /\ out = [f \in Files |-> None]
  /\ lost = {}
  /\ result = "running"

Lose(r) ==
  /\ result = "running"
  /\ \A f \in AggregateFiles : out[f] = None
  /\ \A e \in EcosOf(r) : out[<<e, r>>] = None
  /\ lost' = lost \cup {r}
  /\ UNCHANGED <<out, result>>

Publish(f) ==
  /\ result = "running"
  /\ f \in Expected(lost)
  /\ out' = [out EXCEPT ![f] = Whole(f, lost)]
  /\ UNCHANGED <<lost, result>>

Succeed ==
  /\ result = "running"
  /\ \A f \in Expected(lost) : out[f] = Whole(f, lost)
  /\ result' = "success"
  /\ UNCHANGED <<out, lost>>

Fail ==
  /\ result = "running"
  /\ result' = "failed"
  /\ UNCHANGED <<out, lost>>

Next ==
  \/ \E r \in Records : Lose(r)
  \/ \E f \in Files : Publish(f)
  \/ Succeed
  \/ Fail

Steps == Init /\ [][Next]_<<out, lost, result>>
Ends == <>(result # "running")
Spec == Steps /\ Ends
=============================================================================
