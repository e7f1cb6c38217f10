---------------------------- MODULE MC_ChptBuckets ----------------------------
(* Model values for ChptBuckets.  Clients are interchangeable: every client *)
(* runs the same SharedCache::pin and unpin code on the same table.         *)
EXTENDS ChptBuckets, TLC

CONSTANTS c1, c2

MC_Clients == {c1, c2}

ClientSymmetry == Permutations(MC_Clients)
=============================================================================
