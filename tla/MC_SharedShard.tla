--------------------------- MODULE MC_SharedShard ---------------------------
(* Model-checking instance of SharedShard: clients and pages are model     *)
(* values and interchangeable.                                             *)
EXTENDS SharedShard, TLC

CONSTANTS c1, c2, v1, v2, v3

MC_Clients1 == {c1}
MC_Clients2 == {c1, c2}
MC_VPages2 == {v1, v2}
MC_VPages3 == {v1, v2, v3}

Symmetry == Permutations(Clients) \cup Permutations(VPages)
=============================================================================
