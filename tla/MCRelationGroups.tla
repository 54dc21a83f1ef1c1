--------------------------- MODULE MCRelationGroups ---------------------------
(* An instance of RelationGroups for TLC: two ids that name each other, as    *)
(* related and as upstream, and are only named until they are imported; one   *)
(* takes its relations back, or is withdrawn.                                 *)
EXTENDS RelationGroups

Names(related, upstream) == [related |-> related, upstream |-> upstream, withdrawn |-> FALSE]

MCContents ==
  <<{Names({2}, {2})},
    {Names({}, {}), Names({1}, {1}), [Names({1}, {}) EXCEPT !.withdrawn = TRUE]}>>
=============================================================================
