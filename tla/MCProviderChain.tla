---------------------------- MODULE MCProviderChain ----------------------------
(* Instances of ProviderChain for TLC. *)
EXTENDS ProviderChain

CONSTANTS q1, q2, q3
=============================================================================
