------------------------------ MODULE MC_ShardIO ------------------------------
(* Model-checking instance of ShardIO: request slots and pages are model   *)
(* values and interchangeable.                                          *)
EXTENDS ShardIO, TLC

CONSTANTS r1, r2, v1, v2, v3, i1

MC_Reqs == {r1, r2}
MC_Pages == {v1, v2, v3}
MC_Iocbs1 == {i1}

=============================================================================
