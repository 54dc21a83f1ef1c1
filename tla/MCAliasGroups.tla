---------------------------- MODULE MCAliasGroups ----------------------------
(* Instances of AliasGroups for TLC. *)
EXTENDS AliasGroups, TLC

CONSTANTS k1, k2, w1, w2

MCKeys == {k1, k2}
MCWorker == {w1}
MCWorkers == {w1, w2}
Naming(S) == {[raw |-> vs, withdrawn |-> FALSE] : vs \in S}
MCContents == <<Naming({{}}), Naming({{1}}), Naming({{4}, {1, 2}}), Naming({{3}, {1, 2}})>>
MCPairs == [v \in IDs |-> Naming({{}, {1}, {2}})]
MCFirst ==
  [S \in (SUBSET IDs) \ {{}} |-> CHOOSE v \in S : \A w \in S : v <= w]

MCSymmetry == Permutations(MCKeys) \cup Permutations(MCWorkers)
=============================================================================
