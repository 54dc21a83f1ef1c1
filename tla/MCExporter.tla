------------------------------ MODULE MCExporter ------------------------------
(* An instance of Exporter for TLC: a signed record with a git range, and one *)
(* of two releases of an ecosystem.                                           *)
EXTENDS Exporter, TLC

CONSTANTS a, b

MCRecords == {a, b}
MCNamed == (a :> {""}) @@ (b :> {"Debian:11", "Debian:12"})
MCBase == [n \in {"Debian:11", "Debian:12", ""} |-> IF n = "" THEN "" ELSE "Debian"]
=============================================================================
