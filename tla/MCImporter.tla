------------------------------ MODULE MCImporter ------------------------------
(* Instances of Importer for TLC: two files, of a record each. *)
EXTENDS Importer, TLC

CONSTANTS p, q, r, s

MCIdOf == p :> r @@ q :> s

\* The files change places, and their records with them.
Swapped == {p :> q @@ q :> p @@ r :> s @@ s :> r}
=============================================================================
